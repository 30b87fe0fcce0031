----------------------------- MODULE ConfirmGate -----------------------------
(***************************************************************************)
(* The confirmation gate of internal/mcpserver: dry-run calls hand out     *)
(* confirmation tokens and approval challenges, a host signs challenges,   *)
(* and confirm calls present them to have an operation take effect at the  *)
(* mail provider.                                                          *)
(*                                                                         *)
(* Calls run concurrently (one goroutine per MCP request) and share the    *)
(* two stores; each takes one step per store operation or provider call.   *)
(* A call is named by a member of DryRun or Confirm and happens at most    *)
(* once; a token and a challenge are named by the dry run they were made   *)
(* by.  An operation is an action with its payload and profile: what the   *)
(* gate looks at in it is given by OpInfo.  A runtime has one transport.   *)
(***************************************************************************)
EXTENDS Policy, Integers, FiniteSets

CONSTANTS
  DryRun, Confirm,   \* the calls
  Operation, OpInfo, \* what agents ask for, and the facts the gate reads
  UnsafeInputs,      \* the values of unsafe_mode agents send
  Policies,          \* the approval policies a runtime may be started with
  TTL,               \* approvalChallengeTTL
  MaxClock,          \* bound on the clock
  MaxVersion,        \* bound on the edits made behind the server's back
  AuditMayFail,      \* whether the audit sink may drop an event
  None

(* Every tool that executes an operation.  calendar_write stands for the   *)
(* create, delete and cancel tools, message_mutation for the five          *)
(* reversible mutations.                                                   *)
Handler ==
  { "action_confirm", "send_draft", "calendar_write", "calendar_respond",
    "rule_set_enabled", "deleted_items", "message_mutation", "raw_action" }

(* Only the generic tools pass an unsafe_mode on.                          *)
Generic == {"action_confirm", "raw_action"}

(* The handlers that stop when the review reports an error, and those that *)
(* evaluate the policy again before executing.                             *)
ChecksReviewError == {"action_confirm", "send_draft", "calendar_write"}
RechecksPolicy == Handler \ {"rule_set_enabled", "deleted_items", "raw_action"}

(* A dry run reviews the payload only, or also the item at the provider;   *)
(* a failed lookup is an error of the review ("remote") or makes it        *)
(* partial ("tolerant").  wellFormed: canonicalActionPayload and           *)
(* actionPreflightRejection have no objection.                             *)
Info ==
  [ class : SafetyClass, review : {"payload", "remote", "tolerant"},
    handlers : SUBSET Handler, explicitTarget : BOOLEAN,
    wellFormed : BOOLEAN ]

(* Stands for ReviewFingerprint: what a review depends on besides the      *)
(* operation.                                                              *)
Review ==
  [ kind : {"payload", "remote", "partial", "failed"},
    version : 0..MaxVersion ]

(* confirm.Binding and approval.Binding: they hold the same facts here.    *)
Binding == [ op : Operation, unsafe : BOOLEAN, review : Review ]

(* What a confirm call was given, and the review it made.                  *)
Request ==
  [ handler : Handler, op : Operation, unsafe : BOOLEAN, review : Review,
    token : DryRun \cup {"blank"}, challenge : DryRun \cup {"blank"},
    approval : DryRun \cup {"blank", "legacy"} ]

VARIABLES
  clock,            \* the time, shared by all
  version,          \* per operation, how often its item changed remotely
  approvalPolicy,   \* Runtime.approvalPolicy
  confirmRecords,   \* confirm.Store
  approvalRecords,  \* approval.Store
  signed,           \* the challenges the host has signed
  pc,               \* per call, the last step it took
  offered,          \* per dry run, the binding it reviewed
  request,          \* per confirm call, its input and review, until it ends
                    \* (kept for the calls whose operation took effect)
  pending,          \* likewise, the calls holding a validated approval
  accepted,         \* the confirm calls whose token was accepted
  rechecked,        \* the confirm calls whose policy was evaluated again
  effects,          \* the confirm calls whose operation took effect
  audit             \* the audit log

vars == << clock, version, approvalPolicy, confirmRecords, approvalRecords,
           signed, pc, offered, request, pending, accepted, rechecked,
           effects, audit >>

stores == << confirmRecords, approvalRecords >>
environment == << clock, version, approvalPolicy, signed >>
history == << accepted, rechecked, effects >>

Tokens == INSTANCE ConfirmStore
            WITH Token <- DryRun, records <- confirmRecords
Approvals == INSTANCE ApprovalStore
            WITH Challenge <- DryRun, records <- approvalRecords

Call == DryRun \cup Confirm

AuditEvent == {"dry_run", "confirm", "execute", "reject"}

(* The states in which a call is running.                                  *)
DryRunLive == {"reviewed", "generated", "issued"}
ConfirmLive ==
  {"reviewed", "validated", "token_spent", "approved", "confirmed", "executed"}
Ended == {"returned", "done", "refused", "failed", "lost"}
PC == {"idle"} \cup DryRunLive \cup ConfirmLive \cup Ended

ASSUME CallAssumption ==
  /\ DryRun \cap Confirm = {}
  /\ {"blank", "legacy"} \cap DryRun = {}

ASSUME ConstantAssumption ==
  /\ OpInfo \in [Operation -> Info]
  /\ UnsafeInputs \subseteq BOOLEAN
  /\ Policies \subseteq Approvals!Policy
  /\ TTL \in Nat \ {0} /\ MaxClock \in Nat /\ MaxVersion \in Nat
  /\ AuditMayFail \in BOOLEAN

ASSUME NoneAssumption ==
  /\ None \notin Tokens!Record
  /\ None \notin Approvals!Record
  /\ None \notin Binding
  /\ None \notin Request

TypeOK ==
  /\ clock \in 0..MaxClock
  /\ version \in [Operation -> 0..MaxVersion]
  /\ approvalPolicy \in Policies
  /\ Tokens!TypeOK /\ Approvals!TypeOK
  /\ signed \subseteq DryRun
  /\ pc \in [Call -> PC]
  /\ offered \in [DryRun -> Binding \cup {None}]
  /\ request \in [Confirm -> Request \cup {None}]
  /\ pending \subseteq Confirm /\ accepted \subseteq Confirm
  /\ rechecked \subseteq Confirm /\ effects \subseteq Confirm
  /\ audit \subseteq Call \X AuditEvent

Init ==
  /\ clock = 0
  /\ version = [op \in Operation |-> 0]
  /\ approvalPolicy \in Policies
  /\ Tokens!Init /\ Approvals!Init
  /\ signed = {}
  /\ pc = [c \in Call |-> "idle"]
  /\ offered = [d \in DryRun |-> None]
  /\ request = [c \in Confirm |-> None]
  /\ pending = {} /\ accepted = {} /\ rechecked = {} /\ effects = {}
  /\ audit = {}
-----------------------------------------------------------------------------
(* Helpers.                                                                *)

Class(op) == OpInfo[op].class

(* dryRunReviewFor, as the operation's item is now at the provider.        *)
ReviewKinds(op) ==
  CASE OpInfo[op].review = "payload"  -> {"payload"}
    [] OpInfo[op].review = "remote"   -> {"remote", "failed"}
    [] OpInfo[op].review = "tolerant" -> {"remote", "partial"}

Reviews(op) ==
  { [ kind |-> kind, version |-> IF kind = "remote" THEN version[op] ELSE 0 ] :
      kind \in ReviewKinds(op) }

(* The policy question a handler asks; sendsMessage is never set.          *)
PolicyQuestion(op, intent, unsafe) ==
  [ class |-> Class(op), explicitTarget |-> OpInfo[op].explicitTarget,
    explicitIntent |-> intent, unsafeMode |-> unsafe, sendsMessage |-> FALSE ]

(* confirmedActionDecision.                                                *)
ConfirmedAllowed(op, unsafe) ==
  EvaluateConfirmed(PolicyQuestion(op, FALSE, unsafe)).allowed

(* The binding a confirm call presents with its token and its challenge.   *)
BindingOf(c) ==
  [ op |-> request[c].op, unsafe |-> request[c].unsafe,
    review |-> request[c].review ]

(* The executions that need no token: raw actions, and the mutation of a   *)
(* single message, for which policy.Evaluate alone decides.                *)
NeedsToken(handler, op) ==
  \/ handler \notin {"raw_action", "message_mutation"}
  \/ handler = "message_mutation" /\ Class(op) = "reversible_bulk"

IsGated(c) == NeedsToken(request[c].handler, request[c].op)

Goto(c, to) == pc' = [pc EXCEPT ![c] = to]

(* recordAudit drops the error of a failing sink.                          *)
Log(c, event) ==
  \/ audit' = audit \cup {<<c, event>>}
  \/ AuditMayFail /\ UNCHANGED audit

(* The locals of calls that end without effect are gone.                   *)
Forget(calls) ==
  /\ request' = [c \in Confirm |-> IF c \in calls \ effects THEN None
                                  ELSE request[c]]
  /\ pending' = pending \ (calls \ effects)

(* The call answers with an error.                                         *)
Refuse(c) == Goto(c, "refused") /\ Forget({c})
-----------------------------------------------------------------------------
(* outlook.action_dry_run: dryRunHandler.                                  *)

RequiresApproval(op) ==
  approvalPolicy.mode = "required" /\ Class(op) \in HighRisk

(* The early returns: a malformed payload, a review that reports an error, *)
(* a policy that would not let the confirmed operation through.            *)
DryRunRefuse(d) ==
  /\ pc[d] = "idle"
  /\ \E op \in Operation, unsafe \in UnsafeInputs :
       \/ ~ OpInfo[op].wellFormed
       \/ \E review \in Reviews(op) : review.kind = "failed"
       \/ ~ ConfirmedAllowed(op, unsafe)
  /\ Goto(d, "refused")
  /\ Log(d, "reject")
  /\ UNCHANGED << environment, stores, history, offered, request, pending >>

DryRunReview(d) ==
  /\ pc[d] = "idle"
  /\ \E op \in Operation, unsafe \in UnsafeInputs : \E review \in Reviews(op) :
       /\ OpInfo[op].wellFormed
       /\ review.kind # "failed"
       /\ ConfirmedAllowed(op, unsafe)
       /\ offered' = [offered EXCEPT ![d] =
                        [op |-> op, unsafe |-> unsafe, review |-> review]]
  /\ Goto(d, "reviewed")
  /\ UNCHANGED << environment, stores, history, request, pending, audit >>

GenerateToken(d) ==
  /\ pc[d] = "reviewed"
  /\ Tokens!Generate(d, offered[d], clock, TTL)
  /\ Goto(d, "generated")
  /\ UNCHANGED << environment, approvalRecords, history, offered, request,
                  pending, audit >>

IssueChallenge(d) ==
  /\ pc[d] = "generated" /\ RequiresApproval(offered[d].op)
  /\ Approvals!Issue(d, offered[d], clock, TTL)
  /\ Goto(d, "issued")
  /\ UNCHANGED << environment, confirmRecords, history, offered, request,
                  pending, audit >>

(* The random source fails: the call ends with an error, and a token       *)
(* already generated stays in the store, though nobody knows it.           *)
DryRunFails(d) ==
  /\ \/ pc[d] = "reviewed"
     \/ pc[d] = "generated" /\ RequiresApproval(offered[d].op)
  /\ Goto(d, "failed")
  /\ UNCHANGED << environment, stores, history, offered, request, pending,
                  audit >>

(* Seeded fault: the answer is not logged.                                 *)
DryRunRespondUnlogged(d) ==
  /\ \/ pc[d] = "generated" /\ ~ RequiresApproval(offered[d].op)
     \/ pc[d] = "issued"
  /\ Goto(d, "returned")
  /\ UNCHANGED << environment, stores, history, offered, request, pending,
                  audit >>

DryRunRespond(d) ==
  /\ \/ pc[d] = "generated" /\ ~ RequiresApproval(offered[d].op)
     \/ pc[d] = "issued"
  /\ Goto(d, "returned")
  /\ Log(d, "dry_run")
  /\ UNCHANGED << environment, stores, history, offered, request, pending >>
-----------------------------------------------------------------------------
(* The tools that execute.  An agent presents tokens and challenges it was *)
(* given, spent or not, and approvals the host made; any other text is     *)
(* refused as a spent one is.                                              *)

Returned == { d \in DryRun : pc[d] = "returned" }
Challenges == { d \in Returned : RequiresApproval(offered[d].op) }

UnsafeModes(handler) == IF handler \in Generic THEN UnsafeInputs ELSE {FALSE}

(* The typed tools refuse a missing token before anything else;            *)
(* action_confirm lets the store refuse it.                                *)
MissesToken(handler, op, token) ==
  token = "blank" /\ handler # "action_confirm" /\ NeedsToken(handler, op)

(* The early returns, of which only the generic tools leave a trace.       *)
RejectInput(c) ==
  /\ pc[c] = "idle"
  /\ \E op \in Operation : \E handler \in OpInfo[op].handlers :
       /\ ~ OpInfo[op].wellFormed \/ MissesToken(handler, op, "blank")
       /\ IF handler \in Generic THEN Log(c, "reject") ELSE UNCHANGED audit
  /\ Refuse(c)
  /\ UNCHANGED << environment, stores, history, offered >>

(* All that a handler may be given for an operation, with its review of it *)
(* (dryRunReviewFor).                                                      *)
Requests(op, handler) ==
  { [ handler |-> handler, op |-> op, unsafe |-> unsafe, review |-> review,
      token |-> token, challenge |-> challenge, approval |-> approval ] :
      unsafe \in UnsafeModes(handler), review \in Reviews(op),
      token \in Returned \cup {"blank"},
      challenge \in Challenges \cup {"blank"},
      approval \in signed \cup {"blank", "legacy"} }

ReviewAgain(c) ==
  /\ pc[c] = "idle"
  /\ \E op \in Operation : \E handler \in OpInfo[op].handlers :
     \E input \in Requests(op, handler) :
       /\ OpInfo[op].wellFormed
       /\ NeedsToken(handler, op) /\ ~ MissesToken(handler, op, input.token)
       /\ ~ (handler \in ChecksReviewError /\ input.review.kind = "failed")
       /\ request' = [request EXCEPT ![c] = input]
  /\ Goto(c, "reviewed")
  /\ UNCHANGED << environment, stores, history, offered, pending, audit >>

ReviewFails(c) ==
  /\ pc[c] = "idle"
  /\ \E op \in Operation :
       /\ OpInfo[op].handlers \cap ChecksReviewError # {}
       /\ \E review \in Reviews(op) : review.kind = "failed"
  /\ Refuse(c)
  /\ Log(c, "reject")
  /\ UNCHANGED << environment, stores, history, offered >>

(* policy.Evaluate in a handler that needs no token.  The mutation of one  *)
(* message always has explicit intent.                                     *)
DirectlyAllowed(handler, op, intent, unsafe) ==
  Evaluate(PolicyQuestion(op, intent \/ handler = "message_mutation",
                          unsafe)).allowed

EvaluateDirectly(c) ==
  /\ pc[c] = "idle"
  /\ \E op \in Operation, intent \in BOOLEAN :
     \E handler \in OpInfo[op].handlers : \E unsafe \in UnsafeModes(handler) :
       /\ OpInfo[op].wellFormed
       /\ ~ NeedsToken(handler, op)
       /\ \/ /\ DirectlyAllowed(handler, op, intent, unsafe)
             /\ request' = [request EXCEPT ![c] =
                  [ handler |-> handler, op |-> op, unsafe |-> unsafe,
                    review |-> [kind |-> "payload", version |-> 0],
                    token |-> "blank", challenge |-> "blank",
                    approval |-> "blank" ]]
             /\ Goto(c, "confirmed")
             /\ UNCHANGED << pending, audit >>
          \/ /\ ~ DirectlyAllowed(handler, op, intent, unsafe)
             /\ Refuse(c)
             /\ Log(c, "reject")
  /\ UNCHANGED << environment, stores, history, offered >>

(* validateExternalApproval: let the call pass, refuse it, or ask the      *)
(* store.                                                                  *)
ApprovalVerdict(c) ==
  LET highRisk == Class(request[c].op) \in HighRisk
      challenge == request[c].challenge
      approval == request[c].approval
  IN  IF ~ Approvals!RequireApproval(approvalPolicy, highRisk, challenge, approval)
        THEN "refuse"
      ELSE IF ~ highRisk THEN "pass"
      ELSE IF /\ approvalPolicy.mode = "optional" /\ approvalPolicy.legacyToken
              /\ challenge = "blank"
        THEN IF Approvals!ValidateLegacyToken(approvalPolicy, approval)
             THEN "pass" ELSE "refuse"
      ELSE IF challenge = "blank" /\ approval = "blank" THEN "pass"
      ELSE "look_up"

ApprovalIsValid(c) ==
  Approvals!Accepts(approvalPolicy, request[c].challenge, request[c].approval,
                    BindingOf(c), clock)

ValidateApproval(c) ==
  /\ pc[c] = "reviewed"
  /\ \/ /\ ApprovalVerdict(c) = "pass"
        /\ Goto(c, "validated")
        /\ UNCHANGED << approvalRecords, request, pending, audit >>
     \/ /\ ApprovalVerdict(c) = "look_up" /\ ApprovalIsValid(c)
        /\ Approvals!Validate(request[c].challenge, clock)
        /\ pending' = pending \cup {c}
        /\ Goto(c, "validated")
        /\ UNCHANGED << request, audit >>
     \/ /\ ApprovalVerdict(c) = "look_up" /\ ~ ApprovalIsValid(c)
        /\ Approvals!Validate(request[c].challenge, clock)
        /\ Refuse(c)
        /\ Log(c, "reject")
     \/ /\ ApprovalVerdict(c) = "refuse"
        /\ Refuse(c)
        /\ Log(c, "reject")
        /\ UNCHANGED approvalRecords
  /\ UNCHANGED << environment, confirmRecords, history, offered >>

ConsumeToken(c) ==
  /\ pc[c] = "validated"
  /\ Tokens!Consume(request[c].token)
  /\ \/ /\ Tokens!Accepts(request[c].token, BindingOf(c), clock)
        /\ accepted' = accepted \cup {c}
        /\ Goto(c, "token_spent")
        /\ UNCHANGED << request, pending, audit >>
     \/ /\ ~ Tokens!Accepts(request[c].token, BindingOf(c), clock)
        /\ Refuse(c)
        /\ Log(c, "reject")
        /\ UNCHANGED accepted
  /\ UNCHANGED << environment, approvalRecords, rechecked, effects, offered >>

(* Seeded fault: the error of consuming an approval is logged, but the     *)
(* handler does not return.                                                *)
ConsumeApprovalWithoutReturn(c) ==
  /\ pc[c] = "token_spent"
  /\ IF c \in pending
     THEN /\ Approvals!Consume(approvalPolicy, request[c].challenge,
                               request[c].approval, BindingOf(c), clock)
          /\ IF ApprovalIsValid(c) THEN UNCHANGED audit ELSE Log(c, "reject")
     ELSE UNCHANGED << approvalRecords, audit >>
  /\ Goto(c, "approved")
  /\ UNCHANGED << environment, confirmRecords, history, offered, request,
                  pending >>

(* Seeded fault: an approval that is gone by now is waited for.            *)
ConsumeApprovalWaits(c) ==
  /\ pc[c] = "token_spent"
  /\ c \in pending => ApprovalIsValid(c)
  /\ IF c \in pending
     THEN Approvals!Consume(approvalPolicy, request[c].challenge,
                            request[c].approval, BindingOf(c), clock)
     ELSE UNCHANGED approvalRecords
  /\ Goto(c, "approved")
  /\ UNCHANGED << environment, confirmRecords, history, offered, request,
                  pending, audit >>

(* consumeExternalApproval.                                                *)
ConsumeApproval(c) ==
  /\ pc[c] = "token_spent"
  /\ \/ /\ c \notin pending
        /\ Goto(c, "approved")
        /\ UNCHANGED << approvalRecords, request, pending, audit >>
     \/ /\ c \in pending /\ ApprovalIsValid(c)
        /\ Approvals!Consume(approvalPolicy, request[c].challenge,
                             request[c].approval, BindingOf(c), clock)
        /\ Goto(c, "approved")
        /\ UNCHANGED << request, pending, audit >>
     \/ /\ c \in pending /\ ~ ApprovalIsValid(c)
        /\ Approvals!Consume(approvalPolicy, request[c].challenge,
                             request[c].approval, BindingOf(c), clock)
        /\ Refuse(c)
        /\ Log(c, "reject")
  /\ UNCHANGED << environment, confirmRecords, history, offered >>

(* The last policy check, where the handler has one.                       *)
AuthorizeExecution(c) ==
  /\ pc[c] = "approved"
  /\ rechecked' = IF request[c].handler \in RechecksPolicy
                  THEN rechecked \cup {c} ELSE rechecked
  /\ \/ /\ \/ request[c].handler \notin RechecksPolicy
           \/ ConfirmedAllowed(request[c].op, request[c].unsafe)
        /\ Goto(c, "confirmed")
        /\ Log(c, "confirm")
        /\ UNCHANGED << request, pending >>
     \/ /\ request[c].handler \in RechecksPolicy
        /\ ~ ConfirmedAllowed(request[c].op, request[c].unsafe)
        /\ Refuse(c)
        /\ Log(c, "reject")
  /\ UNCHANGED << environment, stores, accepted, effects, offered >>

(* Transport.Execute: the provider applies the operation or does not; a    *)
(* lost answer makes both possible whatever the handler is told.           *)
Execute(c) ==
  /\ pc[c] = "confirmed"
  /\ \/ effects' = effects \cup {c}
     \/ UNCHANGED effects
  /\ Goto(c, "executed")
  /\ UNCHANGED << environment, stores, accepted, rechecked, offered, request,
                  pending, audit >>

RecordExecution(c) ==
  /\ pc[c] = "executed"
  /\ Goto(c, "done")
  /\ Log(c, "execute")
  /\ Forget({c})
  /\ UNCHANGED << environment, stores, history, offered >>
-----------------------------------------------------------------------------
(* The environment.                                                        *)

(* The host signs a challenge it was shown (approval.SignChallenge).       *)
HostSigns(d) ==
  /\ d \in Challenges \ signed
  /\ approvalPolicy.secret
  /\ signed' = signed \cup {d}
  /\ UNCHANGED << clock, version, approvalPolicy, stores, history, pc, offered,
                  request, pending, audit >>

(* Somebody edits the item of an operation; only where a review reads the  *)
(* item does the gate depend on it.                                        *)
RemoteEdit(op) ==
  /\ OpInfo[op].review # "payload"
  /\ version[op] < MaxVersion
  /\ version' = [version EXCEPT ![op] = @ + 1]
  /\ UNCHANGED << clock, approvalPolicy, signed, stores, history, pc, offered,
                  request, pending, audit >>

Tick ==
  /\ clock < MaxClock
  /\ clock' = clock + 1
  /\ UNCHANGED << version, approvalPolicy, signed, stores, history, pc, offered,
                  request, pending, audit >>

(* The server process ends and another starts (NewRuntime): both stores    *)
(* are empty, and the calls that were running are never answered.          *)
Restart ==
  /\ confirmRecords' = [d \in DryRun |-> None]
  /\ approvalRecords' = [d \in DryRun |-> None]
  /\ pc' = [c \in Call |-> IF pc[c] \in DryRunLive \cup ConfirmLive
                           THEN "lost" ELSE pc[c]]
  /\ Forget({c \in Confirm : pc[c] \in ConfirmLive})
  /\ UNCHANGED << environment, history, offered, audit >>
-----------------------------------------------------------------------------
DryRunStep(d) ==
  \/ DryRunRefuse(d) \/ DryRunReview(d) \/ GenerateToken(d)
  \/ IssueChallenge(d) \/ DryRunFails(d) \/ DryRunRespond(d)

(* The steps of a confirm call that has passed its input checks.           *)
ConfirmContinues(c) ==
  \/ ValidateApproval(c) \/ ConsumeToken(c) \/ ConsumeApproval(c)
  \/ AuthorizeExecution(c) \/ Execute(c) \/ RecordExecution(c)

ConfirmStep(c) ==
  \/ RejectInput(c) \/ ReviewAgain(c) \/ ReviewFails(c) \/ EvaluateDirectly(c)
  \/ ConfirmContinues(c)

Next ==
  \/ \E d \in DryRun : DryRunStep(d) \/ HostSigns(d)
  \/ \E c \in Confirm : ConfirmStep(c)
  \/ \E op \in Operation : RemoteEdit(op)
  \/ Tick
  \/ Restart

(* A running call goes on: store operations do not block, and provider     *)
(* calls end at the latest with the HTTP client's timeout.  Agents, hosts, *)
(* the clock and restarts owe nothing.                                     *)
Fairness == \A c \in Confirm : WF_vars(ConfirmContinues(c))

Spec == Init /\ [][Next]_vars
FairSpec == Spec /\ Fairness
-----------------------------------------------------------------------------
(* Properties.                                                             *)

(* The calls whose operation took effect on the strength of a token.       *)
Gated == { c \in effects : IsGated(c) }

(* A confirmation token has at most one effect, whichever calls race for   *)
(* it and whatever is redelivered (Store.Consume deletes before it looks). *)
OneEffectPerToken ==
  \A c1, c2 \in Gated : request[c1].token = request[c2].token => c1 = c2

(* An approval challenge has at most one effect, although it is validated  *)
(* in one step and consumed in a later one, by when another call may have  *)
(* used it up, or the runtime may have restarted.                          *)
OneEffectPerChallenge ==
  \A c1, c2 \in Gated \cap pending :
    request[c1].challenge = request[c2].challenge => c1 = c2

(* A high-risk operation takes effect only through a token that a dry run  *)
(* answered, for the very operation, unsafe mode and review: a draft or    *)
(* rule that was edited after its dry run is not acted upon if the confirm *)
(* call finds it so when it looks at it itself, and neither is one that it *)
(* cannot look at, whatever the handler makes of that error.  An edit      *)
(* after that look and before Execute is noticed by nothing.               *)
HighRiskIsConfirmed ==
  \A c \in effects : Class(request[c].op) \in HighRisk =>
    /\ IsGated(c)
    /\ pc[request[c].token] = "returned"
    /\ offered[request[c].token] = BindingOf(c)
    /\ request[c].review.kind # "failed"

(* In required mode it also takes the host's signature of a challenge for  *)
(* that same operation and review.                                         *)
HighRiskIsApproved ==
  \A c \in effects :
    Class(request[c].op) \in HighRisk /\ approvalPolicy.mode = "required" =>
      /\ c \in pending
      /\ request[c].challenge \in signed
      /\ offered[request[c].challenge] = BindingOf(c)

(* No operation takes effect outside the policy, not even through the two  *)
(* handlers that do not evaluate it a second time: their token stands for  *)
(* the decision of its dry run, and is bound to the unsafe mode it had.    *)
EffectIsAllowedByPolicy ==
  \A c \in effects :
    LET info == OpInfo[request[c].op]
    IN  /\ info.wellFormed
        /\ info.class \in {"destructive", "unknown"} => request[c].unsafe
        /\ info.class \in ExplicitRead => info.explicitTarget

(* When the sink works, the log shows before any gated effect that it was  *)
(* confirmed and that its token's dry run was answered.                    *)
EffectIsLoggedAhead ==
  ~ AuditMayFail => \A c \in Gated :
    {<<c, "confirm">>, <<request[c].token, "dry_run">>} \subseteq audit

(* A call logged as rejected never has an effect, even when the sink drops *)
(* events (recordAudit ignores its errors).                                *)
RejectedHasNoEffect ==
  \A c \in Confirm : <<c, "reject">> \in audit => c \notin effects

(* An unexpired challenge leaves the store only by its own approval, after *)
(* its call's token was accepted, or by a restart: a call with a wrong     *)
(* token, approval or review costs nobody their challenge.                 *)
ChallengeIsOnlySpentWithToken ==
  [][\A d \in DryRun :
       Approvals!Known(d) /\ ~ Approvals!Expired(d, clock)
         /\ ~ Approvals!Known(d)'
       => \/ \E c \in accepted \cap pending :
               /\ pc[c] = "token_spent" /\ pc'[c] = "approved"
               /\ request[c].challenge = d
               /\ offered[d] = BindingOf(c)
          \/ Restart ]_vars

(* Every confirm call that begins is answered, unless the server stops:    *)
(* whatever other calls did to its token and challenge in between.         *)
ConfirmIsAnswered ==
  \A c \in Confirm : pc[c] \in ConfirmLive ~> pc[c] \in Ended

(* docs/SECURITY_MODEL.md: "confirmed actions are rechecked before         *)
(* transport execution".                                                   *)
ConfirmedActionsAreRechecked == Gated \subseteq rechecked

(* The gate implements one-shot grants: the state of the grant a token is. *)
GrantState(d) ==
  IF \E c \in Gated : request[c].token = d THEN "performed"
  ELSE IF Tokens!Known(d) THEN "open"
  ELSE IF \E c \in accepted : /\ pc[c] \in ConfirmLive
                              /\ request[c].token = d THEN "spent"
  ELSE IF pc[d] \in {"idle", "reviewed"} THEN "none" ELSE "void"

Grants == INSTANCE OneShotGrant
            WITH Grant <- DryRun,
                 state <- [d \in DryRun |-> GrantState(d)]

ImplementsOneShotGrant == Grants!Spec
=============================================================================
