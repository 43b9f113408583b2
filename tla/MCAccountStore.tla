--------------------------- MODULE MCAccountStore ---------------------------
(* AccountStore on two tabs: see MCAccountStore.cfg and MCAccountLapse.cfg. *)
EXTENDS AccountStore, TLC

CONSTANTS t1, t2

MCTab == {t1, t2}

MCSymmetry == Permutations(MCTab)
=============================================================================
