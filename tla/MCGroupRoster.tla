--------------------------- MODULE MCGroupRoster ---------------------------
(* GroupRoster with two members and two dispatchers: see the .cfg files. *)
EXTENDS GroupRoster, TLC

CONSTANTS a, b, j1, j2

MCMember == {a, b}
MCJob    == {j1, j2}
MCSymmetry == Permutations(MCMember) \cup Permutations(MCJob)
=============================================================================
