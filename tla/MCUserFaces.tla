------------------------------ MODULE MCUserFaces ------------------------------
(* Users and their faces on small instances.                               *)
EXTENDS UserFaces, TLC

Symmetry == Permutations(Requests) \cup Permutations(Exts)
=============================================================================
