--------------------------- MODULE Remote151To300 ---------------------------
(***************************************************************************)
(* The functions of remote_protocol.gen.go with the numbers 151 to 300:    *)
(* the number each sends, the types of its arguments and results, and the  *)
(* stream it copies, if any.                                               *)
(***************************************************************************)
EXTENDS ProtocolTypes

DomainIsPersistent == Proc(151, <<Domain>>, <<Int32>>)
NetworkIsActive == Proc(152, <<Network>>, <<Int32>>)
NetworkIsPersistent == Proc(153, <<Network>>, <<Int32>>)
StoragePoolIsActive == Proc(154, <<StoragePool>>, <<Int32>>)
StoragePoolIsPersistent == Proc(155, <<StoragePool>>, <<Int32>>)
InterfaceIsActive == Proc(156, <<Interface>>, <<Int32>>)
ConnectGetLibVersion == Proc(157, <<>>, <<Uint64>>)
ConnectCompareCPU == Proc(158, <<String, Int32>>, <<Int32>>)
DomainMemoryStats == Proc(159, <<Domain, Uint32, Uint32>>, <<Slice(DomainMemoryStat)>>)
DomainAttachDeviceFlags == Proc(160, <<Domain, String, Uint32>>, <<>>)
DomainDetachDeviceFlags == Proc(161, <<Domain, String, Uint32>>, <<>>)
ConnectBaselineCPU == Proc(162, <<Slice(String), Int32>>, <<String>>)
DomainGetJobInfo == Proc(163, <<Domain>>, <<Int32, Uint64, Uint64, Uint64, Uint64,
        Uint64, Uint64, Uint64, Uint64, Uint64, Uint64, Uint64>>)
DomainAbortJob == Proc(164, <<Domain>>, <<>>)
StorageVolWipe == Proc(165, <<StorageVol, Uint32>>, <<>>)
DomainMigrateSetMaxDowntime == Proc(166, <<Domain, Uint64, Uint32>>, <<>>)
ConnectDomainEventRegisterAny == Proc(167, <<Int32>>, <<>>)
ConnectDomainEventDeregisterAny == Proc(168, <<Int32>>, <<>>)
DomainEventReboot == Proc(169, <<>>, <<>>)
DomainEventRtcChange == Proc(170, <<>>, <<>>)
DomainEventWatchdog == Proc(171, <<>>, <<>>)
DomainEventIOError == Proc(172, <<>>, <<>>)
DomainEventGraphics == Proc(173, <<>>, <<>>)
DomainUpdateDeviceFlags == Proc(174, <<Domain, String, Int32>>, <<>>)
NwfilterLookupByName == Proc(175, <<String>>, <<Nwfilter>>)
NwfilterLookupByUUID == Proc(176, <<UUID>>, <<Nwfilter>>)
NwfilterGetXMLDesc == Proc(177, <<Nwfilter, Uint32>>, <<String>>)
ConnectNumOfNwfilters == Proc(178, <<>>, <<Int32>>)
ConnectListNwfilters == Proc(179, <<Int32>>, <<Slice(String)>>)
NwfilterDefineXML == Proc(180, <<String>>, <<Nwfilter>>)
NwfilterUndefine == Proc(181, <<Nwfilter>>, <<>>)
DomainManagedSave == Proc(182, <<Domain, Uint32>>, <<>>)
DomainHasManagedSaveImage == Proc(183, <<Domain, Uint32>>, <<Int32>>)
DomainManagedSaveRemove == Proc(184, <<Domain, Uint32>>, <<>>)
DomainSnapshotCreateXML == Proc(185, <<Domain, String, Uint32>>, <<DomainSnapshot>>)
DomainSnapshotGetXMLDesc == Proc(186, <<DomainSnapshot, Uint32>>, <<String>>)
DomainSnapshotNum == Proc(187, <<Domain, Uint32>>, <<Int32>>)
DomainSnapshotListNames == Proc(188, <<Domain, Int32, Uint32>>, <<Slice(String)>>)
DomainSnapshotLookupByName == Proc(189, <<Domain, String, Uint32>>, <<DomainSnapshot>>)
DomainHasCurrentSnapshot == Proc(190, <<Domain, Uint32>>, <<Int32>>)
DomainSnapshotCurrent == Proc(191, <<Domain, Uint32>>, <<DomainSnapshot>>)
DomainRevertToSnapshot == Proc(192, <<DomainSnapshot, Uint32>>, <<>>)
DomainSnapshotDelete == Proc(193, <<DomainSnapshot, Int32>>, <<>>)
DomainGetBlockInfo == Proc(194, <<Domain, String, Uint32>>, <<Uint64, Uint64, Uint64>>)
DomainEventIOErrorReason == Proc(195, <<>>, <<>>)
DomainCreateWithFlags == Proc(196, <<Domain, Uint32>>, <<Domain>>)
DomainSetMemoryParameters == Proc(197, <<Domain, Slice(TypedParam), Uint32>>, <<>>)
DomainGetMemoryParameters == Proc(198, <<Domain, Int32, Uint32>>, <<Slice(TypedParam),
        Int32>>)
DomainSetVcpusFlags == Proc(199, <<Domain, Uint32, Uint32>>, <<>>)
DomainGetVcpusFlags == Proc(200, <<Domain, Uint32>>, <<Int32>>)
DomainOpenConsole == Download(201, <<Domain, Opt(String), Uint32>>, <<>>)
DomainIsUpdated == Proc(202, <<Domain>>, <<Int32>>)
ConnectGetSysinfo == Proc(203, <<Uint32>>, <<String>>)
DomainSetMemoryFlags == Proc(204, <<Domain, Uint64, Uint32>>, <<>>)
DomainSetBlkioParameters == Proc(205, <<Domain, Slice(TypedParam), Uint32>>, <<>>)
DomainGetBlkioParameters == Proc(206, <<Domain, Int32, Uint32>>, <<Slice(TypedParam),
        Int32>>)
DomainMigrateSetMaxSpeed == Proc(207, <<Domain, Uint64, Uint32>>, <<>>)
StorageVolUpload == Upload(208, <<StorageVol, Uint64, Uint64, Int32>>, <<>>)
StorageVolDownload == Download(209, <<StorageVol, Uint64, Uint64, Int32>>, <<>>)
DomainInjectNmi == Proc(210, <<Domain, Uint32>>, <<>>)
DomainScreenshot == Download(211, <<Domain, Uint32, Uint32>>, <<Opt(String)>>)
DomainGetState == Proc(212, <<Domain, Uint32>>, <<Int32, Int32>>)
DomainMigrateBegin3 == Proc(213, <<Domain, Opt(String), Uint64, Opt(String), Uint64>>,
        <<Opaque, String>>)
DomainMigratePrepare3 == Proc(214, <<Opaque, Opt(String), Uint64, Opt(String), Uint64,
        String>>, <<Opaque, Opt(String)>>)
DomainMigratePrepareTunnel3 == Upload(215, <<Opaque, Uint64, Opt(String), Uint64,
        String>>, <<Opaque>>)
DomainMigratePerform3 == Proc(216, <<Domain, Opt(String), Opaque, Opt(String),
        Opt(String), Uint64, Opt(String), Uint64>>, <<Opaque>>)
DomainMigrateFinish3 == Proc(217, <<String, Opaque, Opt(String), Opt(String), Uint64,
        Int32>>, <<Domain, Opaque>>)
DomainMigrateConfirm3 == Proc(218, <<Domain, Opaque, Uint64, Int32>>, <<>>)
DomainSetSchedulerParametersFlags == Proc(219, <<Domain, Slice(TypedParam), Uint32>>,
        <<>>)
InterfaceChangeBegin == Proc(220, <<Uint32>>, <<>>)
InterfaceChangeCommit == Proc(221, <<Uint32>>, <<>>)
InterfaceChangeRollback == Proc(222, <<Uint32>>, <<>>)
DomainGetSchedulerParametersFlags == Proc(223, <<Domain, Int32, Uint32>>,
        <<Slice(TypedParam)>>)
DomainEventControlError == Proc(224, <<>>, <<>>)
DomainPinVcpuFlags == Proc(225, <<Domain, Uint32, Opaque, Uint32>>, <<>>)
DomainSendKey == Proc(226, <<Domain, Uint32, Uint32, Slice(Uint32), Uint32>>, <<>>)
NodeGetCPUStats == Proc(227, <<Int32, Int32, Uint32>>, <<Slice(NodeGetCPUStatsStruct),
        Int32>>)
NodeGetMemoryStats == Proc(228, <<Int32, Int32, Uint32>>,
        <<Slice(NodeGetMemoryStatsStruct), Int32>>)
DomainGetControlInfo == Proc(229, <<Domain, Uint32>>, <<Uint32, Uint32, Uint64>>)
DomainGetVcpuPinInfo == Proc(230, <<Domain, Int32, Int32, Uint32>>, <<Opaque, Int32>>)
DomainUndefineFlags == Proc(231, <<Domain, Int32>>, <<>>)
DomainSaveFlags == Proc(232, <<Domain, String, Opt(String), Uint32>>, <<>>)
DomainRestoreFlags == Proc(233, <<String, Opt(String), Uint32>>, <<>>)
DomainDestroyFlags == Proc(234, <<Domain, Int32>>, <<>>)
DomainSaveImageGetXMLDesc == Proc(235, <<String, Uint32>>, <<String>>)
DomainSaveImageDefineXML == Proc(236, <<String, String, Uint32>>, <<>>)
DomainBlockJobAbort == Proc(237, <<Domain, String, Int32>>, <<>>)
DomainGetBlockJobInfo == Proc(238, <<Domain, String, Uint32>>, <<Int32, Int32, Uint64,
        Uint64, Uint64>>)
DomainBlockJobSetSpeed == Proc(239, <<Domain, String, Uint64, Int32>>, <<>>)
DomainBlockPull == Proc(240, <<Domain, String, Uint64, Int32>>, <<>>)
DomainEventBlockJob == Proc(241, <<>>, <<>>)
DomainMigrateGetMaxSpeed == Proc(242, <<Domain, Uint32>>, <<Uint64>>)
DomainBlockStatsFlags == Proc(243, <<Domain, String, Int32, Uint32>>,
        <<Slice(TypedParam), Int32>>)
DomainSnapshotGetParent == Proc(244, <<DomainSnapshot, Uint32>>, <<DomainSnapshot>>)
DomainReset == Proc(245, <<Domain, Uint32>>, <<>>)
DomainSnapshotNumChildren == Proc(246, <<DomainSnapshot, Uint32>>, <<Int32>>)
DomainSnapshotListChildrenNames == Proc(247, <<DomainSnapshot, Int32, Uint32>>,
        <<Slice(String)>>)
DomainEventDiskChange == Proc(248, <<>>, <<>>)
DomainOpenGraphics == Proc(249, <<Domain, Uint32, Int32>>, <<>>)
NodeSuspendForDuration == Proc(250, <<Uint32, Uint64, Uint32>>, <<>>)
DomainBlockResize == Proc(251, <<Domain, String, Uint64, Int32>>, <<>>)
DomainSetBlockIOTune == Proc(252, <<Domain, String, Slice(TypedParam), Uint32>>, <<>>)
DomainGetBlockIOTune == Proc(253, <<Domain, Opt(String), Int32, Uint32>>,
        <<Slice(TypedParam), Int32>>)
DomainSetNumaParameters == Proc(254, <<Domain, Slice(TypedParam), Uint32>>, <<>>)
DomainGetNumaParameters == Proc(255, <<Domain, Int32, Uint32>>, <<Slice(TypedParam),
        Int32>>)
DomainSetInterfaceParameters == Proc(256, <<Domain, String, Slice(TypedParam), Uint32>>,
        <<>>)
DomainGetInterfaceParameters == Proc(257, <<Domain, String, Int32, Int32>>,
        <<Slice(TypedParam), Int32>>)
DomainShutdownFlags == Proc(258, <<Domain, Int32>>, <<>>)
StorageVolWipePattern == Proc(259, <<StorageVol, Uint32, Uint32>>, <<>>)
StorageVolResize == Proc(260, <<StorageVol, Uint64, Int32>>, <<>>)
DomainPmSuspendForDuration == Proc(261, <<Domain, Uint32, Uint64, Uint32>>, <<>>)
DomainGetCPUStats == Proc(262, <<Domain, Uint32, Int32, Uint32, Int32>>,
        <<Slice(TypedParam), Int32>>)
DomainGetDiskErrors == Proc(263, <<Domain, Uint32, Uint32>>, <<Slice(DomainDiskError),
        Int32>>)
DomainSetMetadata == Proc(264, <<Domain, Int32, Opt(String), Opt(String), Opt(String),
        Int32>>, <<>>)
DomainGetMetadata == Proc(265, <<Domain, Int32, Opt(String), Int32>>, <<String>>)
DomainBlockRebase == Proc(266, <<Domain, String, Opt(String), Uint64, Int32>>, <<>>)
DomainPmWakeup == Proc(267, <<Domain, Uint32>>, <<>>)
DomainEventTrayChange == Proc(268, <<>>, <<>>)
DomainEventPmwakeup == Proc(269, <<>>, <<>>)
DomainEventPmsuspend == Proc(270, <<>>, <<>>)
DomainSnapshotIsCurrent == Proc(271, <<DomainSnapshot, Uint32>>, <<Int32>>)
DomainSnapshotHasMetadata == Proc(272, <<DomainSnapshot, Uint32>>, <<Int32>>)
ConnectListAllDomains == Proc(273, <<Int32, Int32>>, <<Slice(Domain), Uint32>>)
DomainListAllSnapshots == Proc(274, <<Domain, Int32, Uint32>>, <<Slice(DomainSnapshot),
        Int32>>)
DomainSnapshotListAllChildren == Proc(275, <<DomainSnapshot, Int32, Uint32>>,
        <<Slice(DomainSnapshot), Int32>>)
DomainEventBalloonChange == Proc(276, <<>>, <<>>)
DomainGetHostname == Proc(277, <<Domain, Int32>>, <<String>>)
DomainGetSecurityLabelList == Proc(278, <<Domain>>, <<Slice(DomainGetSecurityLabelRet),
        Int32>>)
DomainPinEmulator == Proc(279, <<Domain, Opaque, Int32>>, <<>>)
DomainGetEmulatorPinInfo == Proc(280, <<Domain, Int32, Int32>>, <<Opaque, Int32>>)
ConnectListAllStoragePools == Proc(281, <<Int32, Int32>>, <<Slice(StoragePool),
        Uint32>>)
StoragePoolListAllVolumes == Proc(282, <<StoragePool, Int32, Uint32>>,
        <<Slice(StorageVol), Uint32>>)
ConnectListAllNetworks == Proc(283, <<Int32, Int32>>, <<Slice(Network), Uint32>>)
ConnectListAllInterfaces == Proc(284, <<Int32, Int32>>, <<Slice(Interface), Uint32>>)
ConnectListAllNodeDevices == Proc(285, <<Int32, Uint32>>, <<Slice(NodeDevice), Uint32>>)
ConnectListAllNwfilters == Proc(286, <<Int32, Uint32>>, <<Slice(Nwfilter), Uint32>>)
ConnectListAllSecrets == Proc(287, <<Int32, Int32>>, <<Slice(Secret), Uint32>>)
NodeSetMemoryParameters == Proc(288, <<Slice(TypedParam), Uint32>>, <<>>)
NodeGetMemoryParameters == Proc(289, <<Int32, Uint32>>, <<Slice(TypedParam), Int32>>)
DomainBlockCommit == Proc(290, <<Domain, String, Opt(String), Opt(String), Uint64,
        Int32>>, <<>>)
NetworkUpdate == Proc(291, <<Network, Uint32, Uint32, Int32, String, Int32>>, <<>>)
DomainEventPmsuspendDisk == Proc(292, <<>>, <<>>)
NodeGetCPUMap == Proc(293, <<Int32, Int32, Uint32>>, <<Opaque, Uint32, Int32>>)
DomainFstrim == Proc(294, <<Domain, Opt(String), Uint64, Uint32>>, <<>>)
DomainSendProcessSignal == Proc(295, <<Domain, Int64, Uint32, Uint32>>, <<>>)
DomainOpenChannel == Download(296, <<Domain, Opt(String), Int32>>, <<>>)
NodeDeviceLookupScsiHostByWwn == Proc(297, <<String, String, Uint32>>, <<NodeDevice>>)
DomainGetJobStats == Proc(298, <<Domain, Int32>>, <<Int32, Slice(TypedParam)>>)
DomainMigrateGetCompressionCache == Proc(299, <<Domain, Uint32>>, <<Uint64>>)
DomainMigrateSetCompressionCache == Proc(300, <<Domain, Uint64, Uint32>>, <<>>)
DomainOpenConsoleBidirectional == Console(201, <<Domain, Opt(String), Uint32>>, <<>>)
=============================================================================
