------------------------------ MODULE Protocol ------------------------------
(***************************************************************************)
(* The generated client: the functions of qemu_protocol.gen.go, and all    *)
(* procedures of the protocol by their numbers (internal/constants).       *)
(***************************************************************************)
EXTENDS Remote1To150, Remote151To300, Remote301To453

QEMUDomainMonitorCommand == QEMUProc(1, <<Domain, String, Uint32>>, <<String>>)
QEMUDomainAttach == QEMUProc(2, <<Uint32, Uint32>>, <<Domain>>)
QEMUDomainAgentCommand == QEMUProc(3, <<Domain, String, Int32, Uint32>>,
        <<Opt(String)>>)
QEMUConnectDomainMonitorEventRegister == QEMUProc(4, <<Opt(Domain), Opt(String),
        Uint32>>, <<Int32>>)
QEMUConnectDomainMonitorEventDeregister == QEMUProc(5, <<Int32>>, <<>>)
QEMUDomainMonitorEvent == QEMUProc(6, <<>>, <<>>)
QEMUDomainMonitorCommandWithFiles == QEMUProc(7, <<Domain, String, Uint32>>, <<String>>)

(***************************************************************************)
(* The procedures of libvirt's remote protocol by their numbers (constants *)
(* Proc...): what libvirtd makes of the number of a call.                  *)
(***************************************************************************)
Procs1To75 ==
    <<ConnectOpen, ConnectClose, ConnectGetType, ConnectGetVersion, ConnectGetMaxVcpus,
      NodeGetInfo, ConnectGetCapabilities, DomainAttachDevice, DomainCreate,
      DomainCreateXML, DomainDefineXML, DomainDestroy, DomainDetachDevice,
      DomainGetXMLDesc, DomainGetAutostart, DomainGetInfo, DomainGetMaxMemory,
      DomainGetMaxVcpus, DomainGetOsType, DomainGetVcpus, ConnectListDefinedDomains,
      DomainLookupByID, DomainLookupByName, DomainLookupByUUID,
      ConnectNumOfDefinedDomains, DomainPinVcpu, DomainReboot, DomainResume,
      DomainSetAutostart, DomainSetMaxMemory, DomainSetMemory, DomainSetVcpus,
      DomainShutdown, DomainSuspend, DomainUndefine, ConnectListDefinedNetworks,
      ConnectListDomains, ConnectListNetworks, NetworkCreate, NetworkCreateXML,
      NetworkDefineXML, NetworkDestroy, NetworkGetXMLDesc, NetworkGetAutostart,
      NetworkGetBridgeName, NetworkLookupByName, NetworkLookupByUUID,
      NetworkSetAutostart, NetworkUndefine, ConnectNumOfDefinedNetworks,
      ConnectNumOfDomains, ConnectNumOfNetworks, DomainCoreDump, DomainRestore,
      DomainSave, DomainGetSchedulerType, DomainGetSchedulerParameters,
      DomainSetSchedulerParameters, ConnectGetHostname, ConnectSupportsFeature,
      DomainMigratePrepare, DomainMigratePerform, DomainMigrateFinish,
      DomainBlockStats, DomainInterfaceStats, AuthList, AuthSaslInit, AuthSaslStart,
      AuthSaslStep, AuthPolkit, ConnectNumOfStoragePools, ConnectListStoragePools,
      ConnectNumOfDefinedStoragePools, ConnectListDefinedStoragePools,
      ConnectFindStoragePoolSources>>
Procs76To150 ==
    <<StoragePoolCreateXML, StoragePoolDefineXML, StoragePoolCreate, StoragePoolBuild,
      StoragePoolDestroy, StoragePoolDelete, StoragePoolUndefine, StoragePoolRefresh,
      StoragePoolLookupByName, StoragePoolLookupByUUID, StoragePoolLookupByVolume,
      StoragePoolGetInfo, StoragePoolGetXMLDesc, StoragePoolGetAutostart,
      StoragePoolSetAutostart, StoragePoolNumOfVolumes, StoragePoolListVolumes,
      StorageVolCreateXML, StorageVolDelete, StorageVolLookupByName,
      StorageVolLookupByKey, StorageVolLookupByPath, StorageVolGetInfo,
      StorageVolGetXMLDesc, StorageVolGetPath, NodeGetCellsFreeMemory,
      NodeGetFreeMemory, DomainBlockPeek, DomainMemoryPeek, ConnectDomainEventRegister,
      ConnectDomainEventDeregister, DomainEventLifecycle, DomainMigratePrepare2,
      DomainMigrateFinish2, ConnectGetUri, NodeNumOfDevices, NodeListDevices,
      NodeDeviceLookupByName, NodeDeviceGetXMLDesc, NodeDeviceGetParent,
      NodeDeviceNumOfCaps, NodeDeviceListCaps, NodeDeviceDettach, NodeDeviceReAttach,
      NodeDeviceReset, DomainGetSecurityLabel, NodeGetSecurityModel,
      NodeDeviceCreateXML, NodeDeviceDestroy, StorageVolCreateXMLFrom,
      ConnectNumOfInterfaces, ConnectListInterfaces, InterfaceLookupByName,
      InterfaceLookupByMacString, InterfaceGetXMLDesc, InterfaceDefineXML,
      InterfaceUndefine, InterfaceCreate, InterfaceDestroy, ConnectDomainXMLFromNative,
      ConnectDomainXMLToNative, ConnectNumOfDefinedInterfaces,
      ConnectListDefinedInterfaces, ConnectNumOfSecrets, ConnectListSecrets,
      SecretLookupByUUID, SecretDefineXML, SecretGetXMLDesc, SecretSetValue,
      SecretGetValue, SecretUndefine, SecretLookupByUsage, DomainMigratePrepareTunnel,
      ConnectIsSecure, DomainIsActive>>
Procs151To225 ==
    <<DomainIsPersistent, NetworkIsActive, NetworkIsPersistent, StoragePoolIsActive,
      StoragePoolIsPersistent, InterfaceIsActive, ConnectGetLibVersion,
      ConnectCompareCPU, DomainMemoryStats, DomainAttachDeviceFlags,
      DomainDetachDeviceFlags, ConnectBaselineCPU, DomainGetJobInfo, DomainAbortJob,
      StorageVolWipe, DomainMigrateSetMaxDowntime, ConnectDomainEventRegisterAny,
      ConnectDomainEventDeregisterAny, DomainEventReboot, DomainEventRtcChange,
      DomainEventWatchdog, DomainEventIOError, DomainEventGraphics,
      DomainUpdateDeviceFlags, NwfilterLookupByName, NwfilterLookupByUUID,
      NwfilterGetXMLDesc, ConnectNumOfNwfilters, ConnectListNwfilters,
      NwfilterDefineXML, NwfilterUndefine, DomainManagedSave,
      DomainHasManagedSaveImage, DomainManagedSaveRemove, DomainSnapshotCreateXML,
      DomainSnapshotGetXMLDesc, DomainSnapshotNum, DomainSnapshotListNames,
      DomainSnapshotLookupByName, DomainHasCurrentSnapshot, DomainSnapshotCurrent,
      DomainRevertToSnapshot, DomainSnapshotDelete, DomainGetBlockInfo,
      DomainEventIOErrorReason, DomainCreateWithFlags, DomainSetMemoryParameters,
      DomainGetMemoryParameters, DomainSetVcpusFlags, DomainGetVcpusFlags,
      DomainOpenConsole, DomainIsUpdated, ConnectGetSysinfo, DomainSetMemoryFlags,
      DomainSetBlkioParameters, DomainGetBlkioParameters, DomainMigrateSetMaxSpeed,
      StorageVolUpload, StorageVolDownload, DomainInjectNmi, DomainScreenshot,
      DomainGetState, DomainMigrateBegin3, DomainMigratePrepare3,
      DomainMigratePrepareTunnel3, DomainMigratePerform3, DomainMigrateFinish3,
      DomainMigrateConfirm3, DomainSetSchedulerParametersFlags, InterfaceChangeBegin,
      InterfaceChangeCommit, InterfaceChangeRollback,
      DomainGetSchedulerParametersFlags, DomainEventControlError, DomainPinVcpuFlags>>
Procs226To300 ==
    <<DomainSendKey, NodeGetCPUStats, NodeGetMemoryStats, DomainGetControlInfo,
      DomainGetVcpuPinInfo, DomainUndefineFlags, DomainSaveFlags, DomainRestoreFlags,
      DomainDestroyFlags, DomainSaveImageGetXMLDesc, DomainSaveImageDefineXML,
      DomainBlockJobAbort, DomainGetBlockJobInfo, DomainBlockJobSetSpeed,
      DomainBlockPull, DomainEventBlockJob, DomainMigrateGetMaxSpeed,
      DomainBlockStatsFlags, DomainSnapshotGetParent, DomainReset,
      DomainSnapshotNumChildren, DomainSnapshotListChildrenNames,
      DomainEventDiskChange, DomainOpenGraphics, NodeSuspendForDuration,
      DomainBlockResize, DomainSetBlockIOTune, DomainGetBlockIOTune,
      DomainSetNumaParameters, DomainGetNumaParameters, DomainSetInterfaceParameters,
      DomainGetInterfaceParameters, DomainShutdownFlags, StorageVolWipePattern,
      StorageVolResize, DomainPmSuspendForDuration, DomainGetCPUStats,
      DomainGetDiskErrors, DomainSetMetadata, DomainGetMetadata, DomainBlockRebase,
      DomainPmWakeup, DomainEventTrayChange, DomainEventPmwakeup, DomainEventPmsuspend,
      DomainSnapshotIsCurrent, DomainSnapshotHasMetadata, ConnectListAllDomains,
      DomainListAllSnapshots, DomainSnapshotListAllChildren, DomainEventBalloonChange,
      DomainGetHostname, DomainGetSecurityLabelList, DomainPinEmulator,
      DomainGetEmulatorPinInfo, ConnectListAllStoragePools, StoragePoolListAllVolumes,
      ConnectListAllNetworks, ConnectListAllInterfaces, ConnectListAllNodeDevices,
      ConnectListAllNwfilters, ConnectListAllSecrets, NodeSetMemoryParameters,
      NodeGetMemoryParameters, DomainBlockCommit, NetworkUpdate,
      DomainEventPmsuspendDisk, NodeGetCPUMap, DomainFstrim, DomainSendProcessSignal,
      DomainOpenChannel, NodeDeviceLookupScsiHostByWwn, DomainGetJobStats,
      DomainMigrateGetCompressionCache, DomainMigrateSetCompressionCache>>
Procs301To375 ==
    <<NodeDeviceDetachFlags, DomainMigrateBegin3Params, DomainMigratePrepare3Params,
      DomainMigratePrepareTunnel3Params, DomainMigratePerform3Params,
      DomainMigrateFinish3Params, DomainMigrateConfirm3Params,
      DomainSetMemoryStatsPeriod, DomainCreateXMLWithFiles, DomainCreateWithFiles,
      DomainEventDeviceRemoved, ConnectGetCPUModelNames,
      ConnectNetworkEventRegisterAny, ConnectNetworkEventDeregisterAny,
      NetworkEventLifecycle, ConnectDomainEventCallbackRegisterAny,
      ConnectDomainEventCallbackDeregisterAny, DomainEventCallbackLifecycle,
      DomainEventCallbackReboot, DomainEventCallbackRtcChange,
      DomainEventCallbackWatchdog, DomainEventCallbackIOError,
      DomainEventCallbackGraphics, DomainEventCallbackIOErrorReason,
      DomainEventCallbackControlError, DomainEventCallbackBlockJob,
      DomainEventCallbackDiskChange, DomainEventCallbackTrayChange,
      DomainEventCallbackPmwakeup, DomainEventCallbackPmsuspend,
      DomainEventCallbackBalloonChange, DomainEventCallbackPmsuspendDisk,
      DomainEventCallbackDeviceRemoved, DomainCoreDumpWithFormat, DomainFsfreeze,
      DomainFsthaw, DomainGetTime, DomainSetTime, DomainEventBlockJob2,
      NodeGetFreePages, NetworkGetDhcpLeases, ConnectGetDomainCapabilities,
      DomainOpenGraphicsFd, ConnectGetAllDomainStats, DomainBlockCopy,
      DomainEventCallbackTunable, NodeAllocPages, DomainEventCallbackAgentLifecycle,
      DomainGetFsinfo, DomainDefineXMLFlags, DomainGetIothreadInfo, DomainPinIothread,
      DomainInterfaceAddresses, DomainEventCallbackDeviceAdded, DomainAddIothread,
      DomainDelIothread, DomainSetUserPassword, DomainRename,
      DomainEventCallbackMigrationIteration, ConnectRegisterCloseCallback,
      ConnectUnregisterCloseCallback, ConnectEventConnectionClosed,
      DomainEventCallbackJobCompleted, DomainMigrateStartPostCopy, DomainGetPerfEvents,
      DomainSetPerfEvents, DomainEventCallbackDeviceRemovalFailed,
      ConnectStoragePoolEventRegisterAny, ConnectStoragePoolEventDeregisterAny,
      StoragePoolEventLifecycle, DomainGetGuestVcpus, DomainSetGuestVcpus,
      StoragePoolEventRefresh, ConnectNodeDeviceEventRegisterAny,
      ConnectNodeDeviceEventDeregisterAny>>
Procs376To450 ==
    <<NodeDeviceEventLifecycle, NodeDeviceEventUpdate, StorageVolGetInfoFlags,
      DomainEventCallbackMetadataChange, ConnectSecretEventRegisterAny,
      ConnectSecretEventDeregisterAny, SecretEventLifecycle, SecretEventValueChanged,
      DomainSetVcpu, DomainEventBlockThreshold, DomainSetBlockThreshold,
      DomainMigrateGetMaxDowntime, DomainManagedSaveGetXMLDesc,
      DomainManagedSaveDefineXML, DomainSetLifecycleAction,
      StoragePoolLookupByTargetPath, DomainDetachDeviceAlias,
      ConnectCompareHypervisorCPU, ConnectBaselineHypervisorCPU, NodeGetSevInfo,
      DomainGetLaunchSecurityInfo, NwfilterBindingLookupByPortDev,
      NwfilterBindingGetXMLDesc, NwfilterBindingCreateXML, NwfilterBindingDelete,
      ConnectListAllNwfilterBindings, DomainSetIothreadParams,
      ConnectGetStoragePoolCapabilities, NetworkListAllPorts, NetworkPortLookupByUUID,
      NetworkPortCreateXML, NetworkPortGetParameters, NetworkPortSetParameters,
      NetworkPortGetXMLDesc, NetworkPortDelete, DomainCheckpointCreateXML,
      DomainCheckpointGetXMLDesc, DomainListAllCheckpoints,
      DomainCheckpointListAllChildren, DomainCheckpointLookupByName,
      DomainCheckpointGetParent, DomainCheckpointDelete, DomainGetGuestInfo,
      ConnectSetIdentity, DomainAgentSetResponseTimeout, DomainBackupBegin,
      DomainBackupGetXMLDesc, DomainEventMemoryFailure, DomainAuthorizedSshKeysGet,
      DomainAuthorizedSshKeysSet, DomainGetMessages, DomainStartDirtyRateCalc,
      NodeDeviceDefineXML, NodeDeviceUndefine, NodeDeviceCreate,
      NwfilterDefineXMLFlags, NetworkDefineXMLFlags, NodeDeviceGetAutostart,
      NodeDeviceSetAutostart, NodeDeviceIsPersistent, NodeDeviceIsActive,
      NetworkCreateXMLFlags, DomainEventMemoryDeviceSizeChange,
      DomainSetLaunchSecurityState, DomainSaveParams, DomainRestoreParams,
      DomainAbortJobFlags, DomainFdAssociate, NetworkSetMetadata, NetworkGetMetadata,
      NetworkEventCallbackMetadataChange, NodeDeviceUpdate, DomainGraphicsReload,
      DomainGetAutostartOnce, DomainSetAutostartOnce>>
Procs451To453 ==
    <<DomainSetThrottleGroup, DomainDelThrottleGroup, DomainEventNicMacChange>>

Procedures ==
    Procs1To75 \o Procs76To150 \o Procs151To225 \o Procs226To300
        \o Procs301To375 \o Procs376To450 \o Procs451To453
QEMUProcedures == <<QEMUDomainMonitorCommand, QEMUDomainAttach, QEMUDomainAgentCommand,
        QEMUConnectDomainMonitorEventRegister, QEMUConnectDomainMonitorEventDeregister,
        QEMUDomainMonitorEvent, QEMUDomainMonitorCommandWithFiles>>

\* The functions of the client: one has no number of its own.
ClientFunctions == Procedures \o <<DomainOpenConsoleBidirectional>> \o QEMUProcedures
=============================================================================
