---------------------------- MODULE MCOwaSession ----------------------------
(***************************************************************************)
(* Instances of OwaSession for TLC.                                        *)
(***************************************************************************)
EXTENDS OwaSession

CONSTANTS p1, t1, r1

=============================================================================
