--------------------------- MODULE MCDeviceSession ---------------------------
EXTENDS DeviceSession, TLC

CONSTANTS lo, hi

\* Both devices may set the session up, and each may turn the ratchet.
BothSend == (lo :> 2) @@ (hi :> 2)

\* Enough for one side to skip more keys than the cache holds, or than it may.
OneSends == (lo :> 4) @@ (hi :> 0)
=============================================================================
