--------------------------- MODULE MCLibraryRestart ---------------------------
(* Instances of LibraryRestart for TLC: two uploads u1 and u2, a link l1.   *)
EXTENDS LibraryRestart, TLC
CONSTANTS u1, u2, l1

TwoUploads == Permutations({u1, u2})
=============================================================================
