--------------------------- MODULE MCBulkMutation ---------------------------
(***************************************************************************)
(* Instances of BulkMutation for TLC.                                      *)
(***************************************************************************)
EXTENDS BulkMutation

CONSTANTS m1, m2, move1, move2, patch1, a1

OnceOrTwice ==
  [ graph |-> { << m1, m2 >>, << m1, Blank, m1 >> },
    owa   |-> { << m1, m2 >>, << m1, m2, m1 >> } ]

WithBlank == [ owa |-> { << Blank, m1, m2 >> } ]
=============================================================================
