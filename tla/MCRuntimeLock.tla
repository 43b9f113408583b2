---------------------------- MODULE MCRuntimeLock ----------------------------
(* Two tabs; the passphrase slot and the automatic biometric prompt of each.   *)
EXTENDS RuntimeLock, TLC

\* Bound: what follows once a tab has run two unlock flows at once is not explored.
OneFlowEach == doubled = {}

Tabs == Permutations(Tab)
=============================================================================
