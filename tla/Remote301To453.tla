--------------------------- MODULE Remote301To453 ---------------------------
(***************************************************************************)
(* The functions of remote_protocol.gen.go with the numbers 301 to 453:    *)
(* the number each sends, the types of its arguments and results, and the  *)
(* stream it copies, if any.                                               *)
(***************************************************************************)
EXTENDS ProtocolTypes

NodeDeviceDetachFlags == Proc(301, <<String, Opt(String), Uint32>>, <<>>)
DomainMigrateBegin3Params == Proc(302, <<Domain, Slice(TypedParam), Uint32>>, <<Opaque,
        String>>)
DomainMigratePrepare3Params == Proc(303, <<Slice(TypedParam), Opaque, Uint32>>,
        <<Opaque, Opt(String)>>)
DomainMigratePrepareTunnel3Params == Proc(304, <<Slice(TypedParam), Opaque, Uint32>>,
        <<Opaque>>)
DomainMigratePerform3Params == Proc(305, <<Domain, Opt(String), Slice(TypedParam),
        Opaque, Int32>>, <<Opaque>>)
DomainMigrateFinish3Params == Proc(306, <<Slice(TypedParam), Opaque, Uint32, Int32>>,
        <<Domain, Opaque>>)
DomainMigrateConfirm3Params == Proc(307, <<Domain, Slice(TypedParam), Opaque, Uint32,
        Int32>>, <<>>)
DomainSetMemoryStatsPeriod == Proc(308, <<Domain, Int32, Int32>>, <<>>)
DomainCreateXMLWithFiles == Proc(309, <<String, Int32>>, <<Domain>>)
DomainCreateWithFiles == Proc(310, <<Domain, Int32>>, <<Domain>>)
DomainEventDeviceRemoved == Proc(311, <<>>, <<>>)
ConnectGetCPUModelNames == Proc(312, <<String, Int32, Uint32>>, <<Slice(String),
        Int32>>)
ConnectNetworkEventRegisterAny == Proc(313, <<Int32, Opt(Network)>>, <<Int32>>)
ConnectNetworkEventDeregisterAny == Proc(314, <<Int32>>, <<>>)
NetworkEventLifecycle == Proc(315, <<>>, <<>>)
ConnectDomainEventCallbackRegisterAny == Proc(316, <<Int32, Opt(Domain)>>, <<Int32>>)
ConnectDomainEventCallbackDeregisterAny == Proc(317, <<Int32>>, <<>>)
DomainEventCallbackLifecycle == Proc(318, <<>>, <<>>)
DomainEventCallbackReboot == Proc(319, <<>>, <<>>)
DomainEventCallbackRtcChange == Proc(320, <<>>, <<>>)
DomainEventCallbackWatchdog == Proc(321, <<>>, <<>>)
DomainEventCallbackIOError == Proc(322, <<>>, <<>>)
DomainEventCallbackGraphics == Proc(323, <<>>, <<>>)
DomainEventCallbackIOErrorReason == Proc(324, <<>>, <<>>)
DomainEventCallbackControlError == Proc(325, <<>>, <<>>)
DomainEventCallbackBlockJob == Proc(326, <<>>, <<>>)
DomainEventCallbackDiskChange == Proc(327, <<>>, <<>>)
DomainEventCallbackTrayChange == Proc(328, <<>>, <<>>)
DomainEventCallbackPmwakeup == Proc(329, <<>>, <<>>)
DomainEventCallbackPmsuspend == Proc(330, <<>>, <<>>)
DomainEventCallbackBalloonChange == Proc(331, <<>>, <<>>)
DomainEventCallbackPmsuspendDisk == Proc(332, <<>>, <<>>)
DomainEventCallbackDeviceRemoved == Proc(333, <<>>, <<>>)
DomainCoreDumpWithFormat == Proc(334, <<Domain, String, Uint32, Int32>>, <<>>)
DomainFsfreeze == Proc(335, <<Domain, Slice(String), Uint32>>, <<Int32>>)
DomainFsthaw == Proc(336, <<Domain, Slice(String), Uint32>>, <<Int32>>)
DomainGetTime == Proc(337, <<Domain, Uint32>>, <<Int64, Uint32>>)
DomainSetTime == Proc(338, <<Domain, Int64, Uint32, Int32>>, <<>>)
DomainEventBlockJob2 == Proc(339, <<>>, <<>>)
NodeGetFreePages == Proc(340, <<Slice(Uint32), Int32, Uint32, Uint32>>,
        <<Slice(Uint64)>>)
NetworkGetDhcpLeases == Proc(341, <<Network, Opt(String), Int32, Uint32>>,
        <<Slice(NetworkDhcpLease), Uint32>>)
ConnectGetDomainCapabilities == Proc(342, <<Opt(String), Opt(String), Opt(String),
        Opt(String), Int32>>, <<String>>)
DomainOpenGraphicsFd == Proc(343, <<Domain, Uint32, Int32>>, <<>>)
ConnectGetAllDomainStats == Proc(344, <<Slice(Domain), Uint32, Uint32>>,
        <<Slice(DomainStatsRecord)>>)
DomainBlockCopy == Proc(345, <<Domain, String, String, Slice(TypedParam), Int32>>, <<>>)
DomainEventCallbackTunable == Proc(346, <<>>, <<>>)
NodeAllocPages == Proc(347, <<Slice(Uint32), Slice(Uint64), Int32, Uint32, Int32>>,
        <<Int32>>)
DomainEventCallbackAgentLifecycle == Proc(348, <<>>, <<>>)
DomainGetFsinfo == Proc(349, <<Domain, Uint32>>, <<Slice(DomainFsinfo), Uint32>>)
DomainDefineXMLFlags == Proc(350, <<String, Int32>>, <<Domain>>)
DomainGetIothreadInfo == Proc(351, <<Domain, Int32>>, <<Slice(DomainIothreadInfo),
        Uint32>>)
DomainPinIothread == Proc(352, <<Domain, Uint32, Opaque, Int32>>, <<>>)
DomainInterfaceAddresses == Proc(353, <<Domain, Uint32, Uint32>>,
        <<Slice(DomainInterface)>>)
DomainEventCallbackDeviceAdded == Proc(354, <<>>, <<>>)
DomainAddIothread == Proc(355, <<Domain, Uint32, Int32>>, <<>>)
DomainDelIothread == Proc(356, <<Domain, Uint32, Int32>>, <<>>)
DomainSetUserPassword == Proc(357, <<Domain, Opt(String), Opt(String), Int32>>, <<>>)
DomainRename == Proc(358, <<Domain, Opt(String), Uint32>>, <<Int32>>)
DomainEventCallbackMigrationIteration == Proc(359, <<>>, <<>>)
ConnectRegisterCloseCallback == Proc(360, <<>>, <<>>)
ConnectUnregisterCloseCallback == Proc(361, <<>>, <<>>)
ConnectEventConnectionClosed == Proc(362, <<>>, <<>>)
DomainEventCallbackJobCompleted == Proc(363, <<>>, <<>>)
DomainMigrateStartPostCopy == Proc(364, <<Domain, Uint32>>, <<>>)
DomainGetPerfEvents == Proc(365, <<Domain, Int32>>, <<Slice(TypedParam)>>)
DomainSetPerfEvents == Proc(366, <<Domain, Slice(TypedParam), Int32>>, <<>>)
DomainEventCallbackDeviceRemovalFailed == Proc(367, <<>>, <<>>)
ConnectStoragePoolEventRegisterAny == Proc(368, <<Int32, Opt(StoragePool)>>, <<Int32>>)
ConnectStoragePoolEventDeregisterAny == Proc(369, <<Int32>>, <<>>)
StoragePoolEventLifecycle == Proc(370, <<>>, <<>>)
DomainGetGuestVcpus == Proc(371, <<Domain, Uint32>>, <<Slice(TypedParam)>>)
DomainSetGuestVcpus == Proc(372, <<Domain, String, Int32, Uint32>>, <<>>)
StoragePoolEventRefresh == Proc(373, <<>>, <<>>)
ConnectNodeDeviceEventRegisterAny == Proc(374, <<Int32, Opt(NodeDevice)>>, <<Int32>>)
ConnectNodeDeviceEventDeregisterAny == Proc(375, <<Int32>>, <<>>)
NodeDeviceEventLifecycle == Proc(376, <<>>, <<>>)
NodeDeviceEventUpdate == Proc(377, <<>>, <<>>)
StorageVolGetInfoFlags == Proc(378, <<StorageVol, Uint32>>, <<Int8, Uint64, Uint64>>)
DomainEventCallbackMetadataChange == Proc(379, <<>>, <<>>)
ConnectSecretEventRegisterAny == Proc(380, <<Int32, Opt(Secret)>>, <<Int32>>)
ConnectSecretEventDeregisterAny == Proc(381, <<Int32>>, <<>>)
SecretEventLifecycle == Proc(382, <<>>, <<>>)
SecretEventValueChanged == Proc(383, <<>>, <<>>)
DomainSetVcpu == Proc(384, <<Domain, String, Int32, Int32>>, <<>>)
DomainEventBlockThreshold == Proc(385, <<>>, <<>>)
DomainSetBlockThreshold == Proc(386, <<Domain, String, Uint64, Uint32>>, <<>>)
DomainMigrateGetMaxDowntime == Proc(387, <<Domain, Uint32>>, <<Uint64>>)
DomainManagedSaveGetXMLDesc == Proc(388, <<Domain, Int32>>, <<String>>)
DomainManagedSaveDefineXML == Proc(389, <<Domain, Opt(String), Int32>>, <<>>)
DomainSetLifecycleAction == Proc(390, <<Domain, Uint32, Uint32, Int32>>, <<>>)
StoragePoolLookupByTargetPath == Proc(391, <<String>>, <<StoragePool>>)
DomainDetachDeviceAlias == Proc(392, <<Domain, String, Uint32>>, <<>>)
ConnectCompareHypervisorCPU == Proc(393, <<Opt(String), Opt(String), Opt(String),
        Opt(String), String, Uint32>>, <<Int32>>)
ConnectBaselineHypervisorCPU == Proc(394, <<Opt(String), Opt(String), Opt(String),
        Opt(String), Slice(String), Uint32>>, <<String>>)
NodeGetSevInfo == Proc(395, <<Int32, Uint32>>, <<Slice(TypedParam), Int32>>)
DomainGetLaunchSecurityInfo == Proc(396, <<Domain, Uint32>>, <<Slice(TypedParam)>>)
NwfilterBindingLookupByPortDev == Proc(397, <<String>>, <<NwfilterBinding>>)
NwfilterBindingGetXMLDesc == Proc(398, <<NwfilterBinding, Uint32>>, <<String>>)
NwfilterBindingCreateXML == Proc(399, <<String, Uint32>>, <<NwfilterBinding>>)
NwfilterBindingDelete == Proc(400, <<NwfilterBinding>>, <<>>)
ConnectListAllNwfilterBindings == Proc(401, <<Int32, Uint32>>, <<Slice(NwfilterBinding),
        Uint32>>)
DomainSetIothreadParams == Proc(402, <<Domain, Uint32, Slice(TypedParam), Uint32>>,
        <<>>)
ConnectGetStoragePoolCapabilities == Proc(403, <<Uint32>>, <<String>>)
NetworkListAllPorts == Proc(404, <<Network, Int32, Uint32>>, <<Slice(NetworkPort),
        Uint32>>)
NetworkPortLookupByUUID == Proc(405, <<Network, UUID>>, <<NetworkPort>>)
NetworkPortCreateXML == Proc(406, <<Network, String, Uint32>>, <<NetworkPort>>)
NetworkPortGetParameters == Proc(407, <<NetworkPort, Int32, Uint32>>,
        <<Slice(TypedParam), Int32>>)
NetworkPortSetParameters == Proc(408, <<NetworkPort, Slice(TypedParam), Uint32>>, <<>>)
NetworkPortGetXMLDesc == Proc(409, <<NetworkPort, Uint32>>, <<String>>)
NetworkPortDelete == Proc(410, <<NetworkPort, Uint32>>, <<>>)
DomainCheckpointCreateXML == Proc(411, <<Domain, String, Uint32>>, <<DomainCheckpoint>>)
DomainCheckpointGetXMLDesc == Proc(412, <<DomainCheckpoint, Uint32>>, <<String>>)
DomainListAllCheckpoints == Proc(413, <<Domain, Int32, Uint32>>,
        <<Slice(DomainCheckpoint), Int32>>)
DomainCheckpointListAllChildren == Proc(414, <<DomainCheckpoint, Int32, Uint32>>,
        <<Slice(DomainCheckpoint), Int32>>)
DomainCheckpointLookupByName == Proc(415, <<Domain, String, Uint32>>,
        <<DomainCheckpoint>>)
DomainCheckpointGetParent == Proc(416, <<DomainCheckpoint, Uint32>>,
        <<DomainCheckpoint>>)
DomainCheckpointDelete == Proc(417, <<DomainCheckpoint, Int32>>, <<>>)
DomainGetGuestInfo == Proc(418, <<Domain, Uint32, Uint32>>, <<Slice(TypedParam)>>)
ConnectSetIdentity == Proc(419, <<Slice(TypedParam), Uint32>>, <<>>)
DomainAgentSetResponseTimeout == Proc(420, <<Domain, Int32, Uint32>>, <<Int32>>)
DomainBackupBegin == Proc(421, <<Domain, String, Opt(String), Int32>>, <<>>)
DomainBackupGetXMLDesc == Proc(422, <<Domain, Uint32>>, <<String>>)
DomainEventMemoryFailure == Proc(423, <<>>, <<>>)
DomainAuthorizedSshKeysGet == Proc(424, <<Domain, String, Uint32>>, <<Slice(String)>>)
DomainAuthorizedSshKeysSet == Proc(425, <<Domain, String, Slice(String), Uint32>>, <<>>)
DomainGetMessages == Proc(426, <<Domain, Uint32>>, <<Slice(String)>>)
DomainStartDirtyRateCalc == Proc(427, <<Domain, Int32, Uint32>>, <<>>)
NodeDeviceDefineXML == Proc(428, <<String, Int32>>, <<NodeDevice>>)
NodeDeviceUndefine == Proc(429, <<String, Uint32>>, <<>>)
NodeDeviceCreate == Proc(430, <<String, Uint32>>, <<>>)
NwfilterDefineXMLFlags == Proc(431, <<String, Uint32>>, <<Nwfilter>>)
NetworkDefineXMLFlags == Proc(432, <<String, Uint32>>, <<Network>>)
NodeDeviceGetAutostart == Proc(433, <<String>>, <<Int32>>)
NodeDeviceSetAutostart == Proc(434, <<String, Int32>>, <<>>)
NodeDeviceIsPersistent == Proc(435, <<String>>, <<Int32>>)
NodeDeviceIsActive == Proc(436, <<String>>, <<Int32>>)
NetworkCreateXMLFlags == Proc(437, <<String, Uint32>>, <<Network>>)
DomainEventMemoryDeviceSizeChange == Proc(438, <<>>, <<>>)
DomainSetLaunchSecurityState == Proc(439, <<Domain, Slice(TypedParam), Uint32>>, <<>>)
DomainSaveParams == Proc(440, <<Domain, Slice(TypedParam), Uint32>>, <<>>)
DomainRestoreParams == Proc(441, <<Slice(TypedParam), Uint32>>, <<>>)
DomainAbortJobFlags == Proc(442, <<Domain, Uint32>>, <<>>)
DomainFdAssociate == Proc(443, <<Domain, String, Uint32>>, <<>>)
NetworkSetMetadata == Proc(444, <<Network, Int32, Opt(String), Opt(String), Opt(String),
        Uint32>>, <<>>)
NetworkGetMetadata == Proc(445, <<Network, Int32, Opt(String), Uint32>>, <<String>>)
NetworkEventCallbackMetadataChange == Proc(446, <<>>, <<>>)
NodeDeviceUpdate == Proc(447, <<String, String, Int32>>, <<>>)
DomainGraphicsReload == Proc(448, <<Domain, Uint32, Uint32>>, <<>>)
DomainGetAutostartOnce == Proc(449, <<Domain>>, <<Int32>>)
DomainSetAutostartOnce == Proc(450, <<Domain, Int32>>, <<>>)
DomainSetThrottleGroup == Proc(451, <<Domain, String, Slice(TypedParam), Uint32>>, <<>>)
DomainDelThrottleGroup == Proc(452, <<Domain, Opt(String), Uint32>>, <<>>)
DomainEventNicMacChange == Proc(453, <<>>, <<>>)
=============================================================================
