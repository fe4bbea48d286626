--------------------------- MODULE MCAccountFile ---------------------------
(***************************************************************************)
(* An instance of AccountFile for TLC.                                     *)
(***************************************************************************)
EXTENDS AccountFile

CONSTANTS u1, u2, u3, p1, p2

Symmetry == Permutations(Uid) \cup Permutations(Pwd)
=============================================================================
