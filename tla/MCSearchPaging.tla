--------------------------- MODULE MCSearchPaging ---------------------------
(***************************************************************************)
(* Instances of SearchPaging for TLC.                                      *)
(***************************************************************************)
EXTENDS SearchPaging

CONSTANTS s1, r1, r2, r3
=============================================================================
