---------------------------- MODULE OneShotGrant ----------------------------
(***************************************************************************)
(* What the confirmation gate promises of a confirmation token, without    *)
(* stores, clocks or processes: a grant is offered once, spent at most     *)
(* once by one call, and only the call that spent it may perform the       *)
(* operation it stands for, once.                                          *)
(***************************************************************************)
CONSTANT Grant

VARIABLE state

(* "none" -> "open" -> "spent" -> "performed"; a grant may become void at  *)
(* any time before it is performed, and stays so.                          *)
State == {"none", "open", "spent", "performed", "void"}

Init == state = [g \in Grant |-> "none"]

Move(g, from, to) ==
  /\ state[g] \in from
  /\ state' = [state EXCEPT ![g] = to]

Offer(g) == Move(g, {"none"}, "open")
Spend(g) == Move(g, {"open"}, "spent")
Perform(g) == Move(g, {"spent"}, "performed")

(* A crash voids every grant that is lost with it, so any number of grants *)
(* become void together.                                                   *)
Void ==
  \E lost \in SUBSET {g \in Grant : state[g] # "performed"} :
    state' = [g \in Grant |-> IF g \in lost THEN "void" ELSE state[g]]

Next ==
  \/ \E g \in Grant : Offer(g) \/ Spend(g) \/ Perform(g)
  \/ Void

Spec == Init /\ [][Next]_state
=============================================================================
