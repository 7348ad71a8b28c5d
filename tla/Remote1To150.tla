---------------------------- MODULE Remote1To150 ----------------------------
(***************************************************************************)
(* The functions of remote_protocol.gen.go with the numbers   1 to 150:    *)
(* the number each sends, the types of its arguments and results, and the  *)
(* stream it copies, if any.                                               *)
(***************************************************************************)
EXTENDS ProtocolTypes

ConnectOpen == Proc(1, <<Opt(String), Int32>>, <<>>)
ConnectClose == Proc(2, <<>>, <<>>)
ConnectGetType == Proc(3, <<>>, <<String>>)
ConnectGetVersion == Proc(4, <<>>, <<Uint64>>)
ConnectGetMaxVcpus == Proc(5, <<Opt(String)>>, <<Int32>>)
NodeGetInfo == Proc(6, <<>>, <<Array(32, Int8), Uint64, Int32, Int32, Int32, Int32,
        Int32, Int32>>)
ConnectGetCapabilities == Proc(7, <<>>, <<String>>)
DomainAttachDevice == Proc(8, <<Domain, String>>, <<>>)
DomainCreate == Proc(9, <<Domain>>, <<>>)
DomainCreateXML == Proc(10, <<String, Int32>>, <<Domain>>)
DomainDefineXML == Proc(11, <<String>>, <<Domain>>)
DomainDestroy == Proc(12, <<Domain>>, <<>>)
DomainDetachDevice == Proc(13, <<Domain, String>>, <<>>)
DomainGetXMLDesc == Proc(14, <<Domain, Int32>>, <<String>>)
DomainGetAutostart == Proc(15, <<Domain>>, <<Int32>>)
DomainGetInfo == Proc(16, <<Domain>>, <<Uint8, Uint64, Uint64, Uint16, Uint64>>)
DomainGetMaxMemory == Proc(17, <<Domain>>, <<Uint64>>)
DomainGetMaxVcpus == Proc(18, <<Domain>>, <<Int32>>)
DomainGetOsType == Proc(19, <<Domain>>, <<String>>)
DomainGetVcpus == Proc(20, <<Domain, Int32, Int32>>, <<Slice(VcpuInfo), Opaque>>)
ConnectListDefinedDomains == Proc(21, <<Int32>>, <<Slice(String)>>)
DomainLookupByID == Proc(22, <<Int32>>, <<Domain>>)
DomainLookupByName == Proc(23, <<String>>, <<Domain>>)
DomainLookupByUUID == Proc(24, <<UUID>>, <<Domain>>)
ConnectNumOfDefinedDomains == Proc(25, <<>>, <<Int32>>)
DomainPinVcpu == Proc(26, <<Domain, Uint32, Opaque>>, <<>>)
DomainReboot == Proc(27, <<Domain, Int32>>, <<>>)
DomainResume == Proc(28, <<Domain>>, <<>>)
DomainSetAutostart == Proc(29, <<Domain, Int32>>, <<>>)
DomainSetMaxMemory == Proc(30, <<Domain, Uint64>>, <<>>)
DomainSetMemory == Proc(31, <<Domain, Uint64>>, <<>>)
DomainSetVcpus == Proc(32, <<Domain, Uint32>>, <<>>)
DomainShutdown == Proc(33, <<Domain>>, <<>>)
DomainSuspend == Proc(34, <<Domain>>, <<>>)
DomainUndefine == Proc(35, <<Domain>>, <<>>)
ConnectListDefinedNetworks == Proc(36, <<Int32>>, <<Slice(String)>>)
ConnectListDomains == Proc(37, <<Int32>>, <<Slice(Int32)>>)
ConnectListNetworks == Proc(38, <<Int32>>, <<Slice(String)>>)
NetworkCreate == Proc(39, <<Network>>, <<>>)
NetworkCreateXML == Proc(40, <<String>>, <<Network>>)
NetworkDefineXML == Proc(41, <<String>>, <<Network>>)
NetworkDestroy == Proc(42, <<Network>>, <<>>)
NetworkGetXMLDesc == Proc(43, <<Network, Uint32>>, <<String>>)
NetworkGetAutostart == Proc(44, <<Network>>, <<Int32>>)
NetworkGetBridgeName == Proc(45, <<Network>>, <<String>>)
NetworkLookupByName == Proc(46, <<String>>, <<Network>>)
NetworkLookupByUUID == Proc(47, <<UUID>>, <<Network>>)
NetworkSetAutostart == Proc(48, <<Network, Int32>>, <<>>)
NetworkUndefine == Proc(49, <<Network>>, <<>>)
ConnectNumOfDefinedNetworks == Proc(50, <<>>, <<Int32>>)
ConnectNumOfDomains == Proc(51, <<>>, <<Int32>>)
ConnectNumOfNetworks == Proc(52, <<>>, <<Int32>>)
DomainCoreDump == Proc(53, <<Domain, String, Int32>>, <<>>)
DomainRestore == Proc(54, <<String>>, <<>>)
DomainSave == Proc(55, <<Domain, String>>, <<>>)
DomainGetSchedulerType == Proc(56, <<Domain>>, <<String, Int32>>)
DomainGetSchedulerParameters == Proc(57, <<Domain, Int32>>, <<Slice(TypedParam)>>)
DomainSetSchedulerParameters == Proc(58, <<Domain, Slice(TypedParam)>>, <<>>)
ConnectGetHostname == Proc(59, <<>>, <<String>>)
ConnectSupportsFeature == Proc(60, <<Int32>>, <<Int32>>)
DomainMigratePrepare == Proc(61, <<Opt(String), Uint64, Opt(String), Uint64>>, <<Opaque,
        Opt(String)>>)
DomainMigratePerform == Proc(62, <<Domain, Opaque, String, Uint64, Opt(String),
        Uint64>>, <<>>)
DomainMigrateFinish == Proc(63, <<String, Opaque, String, Uint64>>, <<Domain>>)
DomainBlockStats == Proc(64, <<Domain, String>>, <<Int64, Int64, Int64, Int64, Int64>>)
DomainInterfaceStats == Proc(65, <<Domain, String>>, <<Int64, Int64, Int64, Int64,
        Int64, Int64, Int64, Int64>>)
AuthList == Proc(66, <<>>, <<Slice(Int32)>>)
AuthSaslInit == Proc(67, <<>>, <<String>>)
AuthSaslStart == Proc(68, <<String, Int32, Slice(Int8)>>, <<Int32, Int32, Slice(Int8)>>)
AuthSaslStep == Proc(69, <<Int32, Slice(Int8)>>, <<Int32, Int32, Slice(Int8)>>)
AuthPolkit == Proc(70, <<>>, <<Int32>>)
ConnectNumOfStoragePools == Proc(71, <<>>, <<Int32>>)
ConnectListStoragePools == Proc(72, <<Int32>>, <<Slice(String)>>)
ConnectNumOfDefinedStoragePools == Proc(73, <<>>, <<Int32>>)
ConnectListDefinedStoragePools == Proc(74, <<Int32>>, <<Slice(String)>>)
ConnectFindStoragePoolSources == Proc(75, <<String, Opt(String), Uint32>>, <<String>>)
StoragePoolCreateXML == Proc(76, <<String, Int32>>, <<StoragePool>>)
StoragePoolDefineXML == Proc(77, <<String, Uint32>>, <<StoragePool>>)
StoragePoolCreate == Proc(78, <<StoragePool, Int32>>, <<>>)
StoragePoolBuild == Proc(79, <<StoragePool, Int32>>, <<>>)
StoragePoolDestroy == Proc(80, <<StoragePool>>, <<>>)
StoragePoolDelete == Proc(81, <<StoragePool, Int32>>, <<>>)
StoragePoolUndefine == Proc(82, <<StoragePool>>, <<>>)
StoragePoolRefresh == Proc(83, <<StoragePool, Uint32>>, <<>>)
StoragePoolLookupByName == Proc(84, <<String>>, <<StoragePool>>)
StoragePoolLookupByUUID == Proc(85, <<UUID>>, <<StoragePool>>)
StoragePoolLookupByVolume == Proc(86, <<StorageVol>>, <<StoragePool>>)
StoragePoolGetInfo == Proc(87, <<StoragePool>>, <<Uint8, Uint64, Uint64, Uint64>>)
StoragePoolGetXMLDesc == Proc(88, <<StoragePool, Int32>>, <<String>>)
StoragePoolGetAutostart == Proc(89, <<StoragePool>>, <<Int32>>)
StoragePoolSetAutostart == Proc(90, <<StoragePool, Int32>>, <<>>)
StoragePoolNumOfVolumes == Proc(91, <<StoragePool>>, <<Int32>>)
StoragePoolListVolumes == Proc(92, <<StoragePool, Int32>>, <<Slice(String)>>)
StorageVolCreateXML == Proc(93, <<StoragePool, String, Int32>>, <<StorageVol>>)
StorageVolDelete == Proc(94, <<StorageVol, Int32>>, <<>>)
StorageVolLookupByName == Proc(95, <<StoragePool, String>>, <<StorageVol>>)
StorageVolLookupByKey == Proc(96, <<String>>, <<StorageVol>>)
StorageVolLookupByPath == Proc(97, <<String>>, <<StorageVol>>)
StorageVolGetInfo == Proc(98, <<StorageVol>>, <<Int8, Uint64, Uint64>>)
StorageVolGetXMLDesc == Proc(99, <<StorageVol, Uint32>>, <<String>>)
StorageVolGetPath == Proc(100, <<StorageVol>>, <<String>>)
NodeGetCellsFreeMemory == Proc(101, <<Int32, Int32>>, <<Slice(Uint64)>>)
NodeGetFreeMemory == Proc(102, <<>>, <<Uint64>>)
DomainBlockPeek == Proc(103, <<Domain, String, Uint64, Uint32, Uint32>>, <<Opaque>>)
DomainMemoryPeek == Proc(104, <<Domain, Uint64, Uint32, Int32>>, <<Opaque>>)
ConnectDomainEventRegister == Proc(105, <<>>, <<Int32>>)
ConnectDomainEventDeregister == Proc(106, <<>>, <<Int32>>)
DomainEventLifecycle == Proc(107, <<>>, <<>>)
DomainMigratePrepare2 == Proc(108, <<Opt(String), Uint64, Opt(String), Uint64, String>>,
        <<Opaque, Opt(String)>>)
DomainMigrateFinish2 == Proc(109, <<String, Opaque, String, Uint64, Int32>>, <<Domain>>)
ConnectGetUri == Proc(110, <<>>, <<String>>)
NodeNumOfDevices == Proc(111, <<Opt(String), Uint32>>, <<Int32>>)
NodeListDevices == Proc(112, <<Opt(String), Int32, Uint32>>, <<Slice(String)>>)
NodeDeviceLookupByName == Proc(113, <<String>>, <<NodeDevice>>)
NodeDeviceGetXMLDesc == Proc(114, <<String, Uint32>>, <<String>>)
NodeDeviceGetParent == Proc(115, <<String>>, <<Opt(String)>>)
NodeDeviceNumOfCaps == Proc(116, <<String>>, <<Int32>>)
NodeDeviceListCaps == Proc(117, <<String, Int32>>, <<Slice(String)>>)
NodeDeviceDettach == Proc(118, <<String>>, <<>>)
NodeDeviceReAttach == Proc(119, <<String>>, <<>>)
NodeDeviceReset == Proc(120, <<String>>, <<>>)
DomainGetSecurityLabel == Proc(121, <<Domain>>, <<Slice(Int8), Int32>>)
NodeGetSecurityModel == Proc(122, <<>>, <<Slice(Int8), Slice(Int8)>>)
NodeDeviceCreateXML == Proc(123, <<String, Int32>>, <<NodeDevice>>)
NodeDeviceDestroy == Proc(124, <<String>>, <<>>)
StorageVolCreateXMLFrom == Proc(125, <<StoragePool, String, StorageVol, Int32>>,
        <<StorageVol>>)
ConnectNumOfInterfaces == Proc(126, <<>>, <<Int32>>)
ConnectListInterfaces == Proc(127, <<Int32>>, <<Slice(String)>>)
InterfaceLookupByName == Proc(128, <<String>>, <<Interface>>)
InterfaceLookupByMacString == Proc(129, <<String>>, <<Interface>>)
InterfaceGetXMLDesc == Proc(130, <<Interface, Uint32>>, <<String>>)
InterfaceDefineXML == Proc(131, <<String, Uint32>>, <<Interface>>)
InterfaceUndefine == Proc(132, <<Interface>>, <<>>)
InterfaceCreate == Proc(133, <<Interface, Uint32>>, <<>>)
InterfaceDestroy == Proc(134, <<Interface, Uint32>>, <<>>)
ConnectDomainXMLFromNative == Proc(135, <<String, String, Uint32>>, <<String>>)
ConnectDomainXMLToNative == Proc(136, <<String, String, Uint32>>, <<String>>)
ConnectNumOfDefinedInterfaces == Proc(137, <<>>, <<Int32>>)
ConnectListDefinedInterfaces == Proc(138, <<Int32>>, <<Slice(String)>>)
ConnectNumOfSecrets == Proc(139, <<>>, <<Int32>>)
ConnectListSecrets == Proc(140, <<Int32>>, <<Slice(String)>>)
SecretLookupByUUID == Proc(141, <<UUID>>, <<Secret>>)
SecretDefineXML == Proc(142, <<String, Uint32>>, <<Secret>>)
SecretGetXMLDesc == Proc(143, <<Secret, Uint32>>, <<String>>)
SecretSetValue == Proc(144, <<Secret, Opaque, Uint32>>, <<>>)
SecretGetValue == Proc(145, <<Secret, Uint32>>, <<Opaque>>)
SecretUndefine == Proc(146, <<Secret>>, <<>>)
SecretLookupByUsage == Proc(147, <<Int32, String>>, <<Secret>>)
DomainMigratePrepareTunnel == Upload(148, <<Uint64, Opt(String), Uint64, String>>, <<>>)
ConnectIsSecure == Proc(149, <<>>, <<Int32>>)
DomainIsActive == Proc(150, <<Domain>>, <<Int32>>)
=============================================================================
