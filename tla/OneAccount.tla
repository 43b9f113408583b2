----------------------------- MODULE OneAccount -----------------------------
(***************************************************************************)
(* What a duress passphrase promises about the account of a device, as     *)
(* SECURITY.md puts it: the device holds ONE account; a cover account may  *)
(* be prepared next to it and filled; firing the duress passphrase         *)
(* replaces the account by that cover in one indivisible step, with all    *)
(* that had been written to the cover and nothing of the account before    *)
(* it.  Nothing else ever changes whose account it is, and what its owner  *)
(* writes is never taken back.                                             *)
(***************************************************************************)
EXTENDS Naturals

CONSTANTS MaxArm, MaxWrite, None

VARIABLES acct,   \* the vault of the account: 0 the first one, then covers
          ver,    \* how much has been written to it
          cover   \* the cover account that is ready: [env, ver], or None

vars == <<acct, ver, cover>>

Init == acct = 0 /\ ver = 0 /\ cover = None

Write == ver < MaxWrite /\ ver' = ver + 1 /\ UNCHANGED <<acct, cover>>

\* A fresh cover replaces the one before it.
Arm == \E e \in 1..MaxArm :
    /\ e > acct
    /\ cover # None => e > cover.env
    /\ cover' = [env |-> e, ver |-> 0]
    /\ UNCHANGED <<acct, ver>>

Fill ==
    /\ cover # None
    /\ cover.ver < MaxWrite
    /\ cover' = [cover EXCEPT !.ver = @ + 1]
    /\ UNCHANGED <<acct, ver>>

Disarm == cover' = None /\ UNCHANGED <<acct, ver>>

Promote ==
    /\ cover # None
    /\ acct' = cover.env
    /\ ver' = cover.ver
    /\ cover' = None

Next == Write \/ Arm \/ Fill \/ Disarm \/ Promote

Spec == Init /\ [][Next]_vars
=============================================================================
