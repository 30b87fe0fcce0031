------------------------------- MODULE Policy -------------------------------
(***************************************************************************)
(* The pure decision tables of the agent: internal/policy/policy.go and    *)
(* the classes that need an external approval (internal/mcpserver).        *)
(***************************************************************************)

(* The ten safety classes, in no particular order. *)
SafetyClass ==
  { "read_metadata", "read_body_explicit", "read_attachment_explicit",
    "draft_only", "reversible_single_item", "reversible_bulk",
    "destructive", "send_like", "settings_or_rules", "unknown" }

ExplicitRead == { "read_body_explicit", "read_attachment_explicit" }

(* A request for a decision; SendsMessage is never set by a caller in the  *)
(* server, so draft_only is always allowed there, but the table reads it.  *)
PolicyRequest ==
  [ class : SafetyClass, explicitTarget : BOOLEAN, explicitIntent : BOOLEAN,
    unsafeMode : BOOLEAN, sendsMessage : BOOLEAN ]

Decision ==
  [ allowed : BOOLEAN, requiresDryRun : BOOLEAN,
    requiresConfirmation : BOOLEAN, requiresUnsafe : BOOLEAN ]

NeedsUnsafe == {"destructive", "unknown"}
NeedsReview == NeedsUnsafe \cup {"reversible_bulk", "settings_or_rules"}

(* What may be executed directly, and the decision that says so            *)
(* (policy.Evaluate).                                                      *)
AllowsDirectly(request) ==
  \/ request.class = "read_metadata"
  \/ request.class \in ExplicitRead /\ request.explicitTarget
  \/ request.class = "draft_only" /\ ~ request.sendsMessage
  \/ request.class = "reversible_single_item" /\ request.explicitIntent

Decide(request, allowed) ==
  [ allowed |-> allowed,
    requiresDryRun |-> ~ allowed /\ request.class \in NeedsReview,
    requiresConfirmation |-> ~ allowed,
    requiresUnsafe |-> ~ allowed /\ request.class \in NeedsUnsafe ]

Evaluate(request) == Decide(request, AllowsDirectly(request))

(* Seeded fault: unsafe mode is not asked for.                             *)
AllowsWithoutUnsafe(request) ==
  \/ request.class \in { "reversible_single_item", "reversible_bulk",
                         "send_like", "settings_or_rules" } \cup NeedsUnsafe
  \/ AllowsDirectly(request)

(* What may be executed with a confirmation (policy.EvaluateConfirmed).    *)
AllowsConfirmed(request) ==
  \/ request.class \in { "reversible_single_item", "reversible_bulk",
                         "send_like", "settings_or_rules" }
  \/ request.class \in NeedsUnsafe /\ request.unsafeMode
  \/ AllowsDirectly(request)

EvaluateConfirmed(request) == Decide(request, AllowsConfirmed(request))

(* requiresApprovalForClass: the high-risk classes.                        *)
HighRisk ==
  { "reversible_bulk", "destructive", "send_like", "settings_or_rules",
    "unknown" }
=============================================================================
