----------------------------- MODULE MCRelayRoom -----------------------------
(* A small instance of RelayRoom: a connection of the inbox's owner, which may *)
(* ask for a second challenge while the first is being verified, and a guest   *)
(* that has no key, and in MCRelayRoomGuest.cfg tries all the same.  Both      *)
(* send.                                                                       *)
EXTENDS RelayRoom
CONSTANTS o1, g1
MCSock == {o1, g1}
MCKeyed == {o1}
MCMaxHello == [s \in MCSock |-> IF s = o1 THEN 2 ELSE 0]
MCMaxHelloGuest == [s \in MCSock |-> IF s = o1 THEN 2 ELSE 1]
=============================================================================
