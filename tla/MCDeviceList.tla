---------------------------- MODULE MCDeviceList ----------------------------
(* An instance of DeviceList with one tab: the buttons of the linking dialog *)
(* keep each other out; the retry at the start, the removal of a device, a   *)
(* device's own request and the renewal of the prekey run beside them.       *)
EXTENDS DeviceList, TLC

CONSTANTS dialog, other

MCJob == {dialog, other}
MCOps == (dialog :> {"link", "retry", "cancel"})
      @@ (other :> {"retry", "remove", "unlink", "refresh"})
=============================================================================
