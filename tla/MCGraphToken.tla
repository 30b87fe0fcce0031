---------------------------- MODULE MCGraphToken ----------------------------
(***************************************************************************)
(* Instances of GraphToken for TLC.                                        *)
(***************************************************************************)
EXTENDS GraphToken, TLC

CONSTANTS p, q, r, c1, c2, c3, e1

(* Two calls of one process, one of another, and an enrolment.             *)
OwnerOf == [t \in Task |->
              CASE t \in {c1, c2} -> p [] t = c3 -> q [] t = e1 -> r]

Old == [ refresh |-> 1, from |-> 0, expiresAt |-> Skew, dies |-> 1 ]

Young ==
  [ refresh |-> 1, from |-> 0, expiresAt |-> Skew + 1, dies |-> Skew + 1 - Hold ]

SignedIn == { Old, Young }

AtFirst == { Old, Young, [Old EXCEPT !.refresh = 0], Bare }
=============================================================================
