--------------------------- MODULE ProtocolTypes ----------------------------
(***************************************************************************)
(* The structs of libvirt's protocol and the messages of its events, as    *)
(* the generated client has them (remote_protocol.gen.go,                  *)
(* qemu_protocol.gen.go), and the kinds of functions it has.               *)
(*                                                                         *)
(* A flags type is the integer const.gen.go declares it as; an enum is the *)
(* integer the protocol has in its place.                                  *)
(***************************************************************************)
EXTENDS XdrLeaves

UUID == Fixed(16)

(***************************************************************************)
(* Structs.                                                                *)
(***************************************************************************)
Domain == Struct(<<String, UUID, Int32>>)
Network == Struct(<<String, UUID>>)
NetworkPort == Struct(<<Network, UUID>>)
Nwfilter == Struct(<<String, UUID>>)
NwfilterBinding == Struct(<<String, String>>)
Interface == Struct(<<String, String>>)
StoragePool == Struct(<<String, UUID>>)
StorageVol == Struct(<<String, String, String>>)
NodeDevice == Struct(<<String>>)
Secret == Struct(<<UUID, Int32, String>>)
DomainCheckpoint == Struct(<<String, Domain>>)
DomainSnapshot == Struct(<<String, Domain>>)
VcpuInfo == Struct(<<Uint32, Int32, Uint64, Int32>>)
NodeGetCPUStatsStruct == Struct(<<String, Uint64>>)
NodeGetMemoryStatsStruct == Struct(<<String, Uint64>>)
\* Its field "error" is generated with the name of the type remote_error, which is
\* not exported.
DomainDiskError == Struct(<<String, Hidden(Int32)>>)
DomainMemoryStat == Struct(<<Int32, Uint64>>)
DomainIothreadInfo == Struct(<<Uint32, Opaque>>)
DomainGetSecurityLabelRet == Struct(<<Slice(Int8), Int32>>)
DomainEventGraphicsAddress == Struct(<<Int32, String, String>>)
DomainEventGraphicsIdentity == Struct(<<String, String>>)
NetworkDhcpLease == Struct(<<String, Int64, Int32, Opt(String), Opt(String), String,
        Uint32, Opt(String), Opt(String)>>)
DomainStatsRecord == Struct(<<Domain, Slice(TypedParam)>>)
DomainFsinfo == Struct(<<String, String, String, Slice(String)>>)
DomainIPAddr == Struct(<<Int32, String, Uint32>>)
DomainInterface == Struct(<<String, Opt(String), Slice(DomainIPAddr)>>)
\* What libvirtd sends of an error (remote_error).
RemoteError == Struct(<<Int32, Int32, Opt(String), Int32, Opt(Domain), Opt(String),
        Opt(String), Opt(String), Int32, Int32, Opt(Network)>>)

(***************************************************************************)
(* The messages of events.                                                 *)
(***************************************************************************)
DomainEventLifecycleMsg == Struct(<<Domain, Int32, Int32>>)
DomainEventCallbackLifecycleMsg == Struct(<<Int32, DomainEventLifecycleMsg>>)
DomainEventRebootMsg == Struct(<<Domain>>)
DomainEventCallbackRebootMsg == Struct(<<Int32, DomainEventRebootMsg>>)
DomainEventRtcChangeMsg == Struct(<<Domain, Int64>>)
DomainEventCallbackRtcChangeMsg == Struct(<<Int32, DomainEventRtcChangeMsg>>)
DomainEventWatchdogMsg == Struct(<<Domain, Int32>>)
DomainEventCallbackWatchdogMsg == Struct(<<Int32, DomainEventWatchdogMsg>>)
DomainEventIOErrorMsg == Struct(<<Domain, String, String, Int32>>)
DomainEventCallbackIOErrorMsg == Struct(<<Int32, DomainEventIOErrorMsg>>)
DomainEventIOErrorReasonMsg == Struct(<<Domain, String, String, Int32, String>>)
DomainEventCallbackIOErrorReasonMsg == Struct(<<Int32, DomainEventIOErrorReasonMsg>>)
DomainEventGraphicsMsg == Struct(<<Domain, Int32, DomainEventGraphicsAddress,
        DomainEventGraphicsAddress, String, Slice(DomainEventGraphicsIdentity)>>)
DomainEventCallbackGraphicsMsg == Struct(<<Int32, DomainEventGraphicsMsg>>)
DomainEventBlockJobMsg == Struct(<<Domain, String, Int32, Int32>>)
DomainEventCallbackBlockJobMsg == Struct(<<Int32, DomainEventBlockJobMsg>>)
DomainEventDiskChangeMsg == Struct(<<Domain, Opt(String), Opt(String), String, Int32>>)
DomainEventCallbackDiskChangeMsg == Struct(<<Int32, DomainEventDiskChangeMsg>>)
DomainEventTrayChangeMsg == Struct(<<Domain, String, Int32>>)
DomainEventCallbackTrayChangeMsg == Struct(<<Int32, DomainEventTrayChangeMsg>>)
DomainEventPmwakeupMsg == Struct(<<Domain>>)
DomainEventCallbackPmwakeupMsg == Struct(<<Int32, Int32, DomainEventPmwakeupMsg>>)
DomainEventPmsuspendMsg == Struct(<<Domain>>)
DomainEventCallbackPmsuspendMsg == Struct(<<Int32, Int32, DomainEventPmsuspendMsg>>)
DomainEventBalloonChangeMsg == Struct(<<Domain, Uint64>>)
DomainEventCallbackBalloonChangeMsg == Struct(<<Int32, DomainEventBalloonChangeMsg>>)
DomainEventPmsuspendDiskMsg == Struct(<<Domain>>)
DomainEventCallbackPmsuspendDiskMsg == Struct(<<Int32, Int32,
        DomainEventPmsuspendDiskMsg>>)
DomainEventControlErrorMsg == Struct(<<Domain>>)
DomainEventCallbackControlErrorMsg == Struct(<<Int32, DomainEventControlErrorMsg>>)
DomainEventDeviceRemovedMsg == Struct(<<Domain, String>>)
DomainEventCallbackDeviceRemovedMsg == Struct(<<Int32, DomainEventDeviceRemovedMsg>>)
DomainEventBlockJob2Msg == Struct(<<Int32, Domain, String, Int32, Int32>>)
DomainEventBlockThresholdMsg == Struct(<<Int32, Domain, String, Opt(String), Uint64,
        Uint64>>)
DomainEventCallbackTunableMsg == Struct(<<Int32, Domain, Slice(TypedParam)>>)
DomainEventCallbackDeviceAddedMsg == Struct(<<Int32, Domain, String>>)
ConnectEventConnectionClosedMsg == Struct(<<Int32>>)
NetworkEventLifecycleMsg == Struct(<<Int32, Network, Int32, Int32>>)
NetworkEventCallbackMetadataChangeMsg == Struct(<<Int32, Network, Int32, Opt(String)>>)
StoragePoolEventLifecycleMsg == Struct(<<Int32, StoragePool, Int32, Int32>>)
StoragePoolEventRefreshMsg == Struct(<<Int32, StoragePool>>)
NodeDeviceEventLifecycleMsg == Struct(<<Int32, NodeDevice, Int32, Int32>>)
NodeDeviceEventUpdateMsg == Struct(<<Int32, NodeDevice>>)
DomainEventCallbackAgentLifecycleMsg == Struct(<<Int32, Domain, Int32, Int32>>)
DomainEventCallbackMigrationIterationMsg == Struct(<<Int32, Domain, Int32>>)
DomainEventCallbackJobCompletedMsg == Struct(<<Int32, Domain, Slice(TypedParam)>>)
DomainEventCallbackDeviceRemovalFailedMsg == Struct(<<Int32, Domain, String>>)
DomainEventCallbackMetadataChangeMsg == Struct(<<Int32, Domain, Int32, Opt(String)>>)
DomainEventMemoryFailureMsg == Struct(<<Int32, Domain, Int32, Int32, Uint32>>)
SecretEventLifecycleMsg == Struct(<<Int32, Secret, Int32, Int32>>)
SecretEventValueChangedMsg == Struct(<<Int32, Secret>>)
DomainEventMemoryDeviceSizeChangeMsg == Struct(<<Int32, Domain, String, Uint64>>)
DomainEventNicMacChangeMsg == Struct(<<Int32, Domain, String, String, String>>)
QEMUDomainMonitorEventMsg == Struct(<<Int32, Domain, String, Int64, Uint32,
        Opt(String)>>)

(***************************************************************************)
(* Functions.  "out" is copied from the caller's io.Reader to the server,  *)
(* "in" from the server to the caller's io.Writer.                         *)
(***************************************************************************)
Function(num, args, rets, out, in) ==
    [program |-> "remote", num |-> num, args |-> args, rets |-> rets, out |-> out, in |-> in]
Proc(num, args, rets) == Function(num, args, rets, FALSE, FALSE)
Upload(num, args, rets) == Function(num, args, rets, TRUE, FALSE)
Download(num, args, rets) == Function(num, args, rets, FALSE, TRUE)
Console(num, args, rets) == Function(num, args, rets, TRUE, TRUE)
QEMUProc(num, args, rets) == [Proc(num, args, rets) EXCEPT !.program = "qemu"]
=============================================================================
