---------------------------- MODULE MessageChannel ----------------------------
(* What a pair of devices is promised of its conversation, whatever happens to *)
(* pages, writes and relay rows: a message log only grows, and it takes from   *)
(* the other side each message once, and only messages that side has given to  *)
(* the relay. The order is not promised: the relay and retries may change it.  *)
EXTENDS Naturals, Sequences

CONSTANTS
    Dev,     \* the two devices
    Peer(_)  \* the other one

VARIABLES
    given,  \* the messages a device has given to the relay
    log     \* the messages a device has saved, in order of arrival

Init ==
    /\ given = [d \in Dev |-> {}]
    /\ log = [d \in Dev |-> <<>>]

Has(d, mid) == \E k \in DOMAIN log[d] : log[d][k] = mid

Give(d) ==
    /\ \E mid \in given'[d] : given' = [given EXCEPT ![d] = @ \union {mid}]
    /\ UNCHANGED log

Take(d, mid) ==
    /\ mid \in given[Peer(d)] /\ ~Has(d, mid)
    /\ log' = [log EXCEPT ![d] = Append(@, mid)]
    /\ UNCHANGED given

Next ==
    \E d \in Dev :
        \/ Give(d)
        \/ \E mid \in given[Peer(d)] : Take(d, mid)

Spec == Init /\ [][Next]_<<given, log>>
=============================================================================
