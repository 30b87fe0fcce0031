---------------------------- MODULE MCConfirmGate ----------------------------
(***************************************************************************)
(* Instances of ConfirmGate for TLC.                                       *)
(***************************************************************************)
EXTENDS ConfirmGate, TLC

CONSTANTS d1, d2, c1, c2

(* Operations of the kinds that the gate tells apart.                      *)
SendDraft ==
  [ class |-> "send_like", review |-> "remote",
    handlers |-> {"action_confirm", "send_draft"},
    explicitTarget |-> FALSE, wellFormed |-> TRUE ]
SetRule ==
  [ class |-> "settings_or_rules", review |-> "remote",
    handlers |-> {"action_confirm", "rule_set_enabled"},
    explicitTarget |-> TRUE, wellFormed |-> TRUE ]
DeleteEvent ==
  [ class |-> "reversible_bulk", review |-> "tolerant",
    handlers |-> {"action_confirm", "calendar_write"},
    explicitTarget |-> FALSE, wellFormed |-> TRUE ]
MoveOne ==
  [ class |-> "reversible_single_item", review |-> "payload",
    handlers |-> {"action_confirm", "message_mutation", "raw_action"},
    explicitTarget |-> TRUE, wellFormed |-> TRUE ]
MoveMany ==
  [ class |-> "reversible_bulk", review |-> "payload",
    handlers |-> {"action_confirm", "message_mutation", "deleted_items"},
    explicitTarget |-> FALSE, wellFormed |-> TRUE ]
RawDelete ==
  [ class |-> "destructive", review |-> "payload",
    handlers |-> {"action_confirm", "raw_action"},
    explicitTarget |-> FALSE, wellFormed |-> TRUE ]
ReadBody ==
  [ class |-> "read_body_explicit", review |-> "payload",
    handlers |-> {"action_confirm", "raw_action"},
    explicitTarget |-> FALSE, wellFormed |-> TRUE ]
Respond ==
  [ class |-> "send_like", review |-> "remote",
    handlers |-> {"calendar_respond"},
    explicitTarget |-> FALSE, wellFormed |-> TRUE ]
Malformed ==
  [ class |-> "send_like", review |-> "payload",
    handlers |-> {"action_confirm", "calendar_write"},
    explicitTarget |-> FALSE, wellFormed |-> FALSE ]

RaceOps == {"rule"}
RaceInfo == [op \in RaceOps |-> [SetRule EXCEPT !.handlers = {"rule_set_enabled"}]]
RacePolicies == {[mode |-> "required", secret |-> TRUE, legacyToken |-> FALSE]}

AllInfo ==
  ("send" :> SendDraft) @@ ("rule" :> SetRule) @@ ("event" :> DeleteEvent)
  @@ ("one" :> MoveOne) @@ ("many" :> MoveMany) @@ ("raw" :> RawDelete)
  @@ ("read" :> ReadBody) @@ ("respond" :> Respond) @@ ("bad" :> Malformed)
AllOps == DOMAIN AllInfo

(* A legacy token means something in optional mode only, a secret where    *)
(* there are challenges.                                                   *)
AllPolicies ==
  { [mode |-> "dev", secret |-> FALSE, legacyToken |-> FALSE] }
  \cup { [mode |-> "optional", secret |-> TRUE, legacyToken |-> legacy] :
           legacy \in BOOLEAN }
  \cup { [mode |-> "required", secret |-> secret, legacyToken |-> FALSE] :
           secret \in BOOLEAN }

Symmetric == Permutations({d1, d2}) \cup Permutations({c1, c2})
=============================================================================
