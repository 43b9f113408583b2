---------------------------- MODULE MCBlobQuota -----------------------------
(* BlobQuota with uploads that together exceed what an actor, or the bucket, *)
(* may hold: see the .cfg files.                                             *)
EXTENDS BlobQuota, TLC

CONSTANTS k1, k2, old, ann, q1, q2

MCKey    == {k1, k2}
MCLegacy == {old}
MCNone   == {}
MCOwner  == (k1 :> ann) @@ (k2 :> ann)
MCFew    == (k1 :> 1) @@ (k2 :> 1)
MCBytes  == (k1 :> 1) @@ (k2 :> 1) @@ (old :> 1)
MCReq    == {q1, q2}
=============================================================================
