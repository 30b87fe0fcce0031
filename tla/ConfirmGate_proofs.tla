------------------------- MODULE ConfirmGate_proofs -------------------------
(***************************************************************************)
(* Proofs about ConfirmGate, for any number of calls, operations and       *)
(* policies, any TTL and any bounds.                                       *)
(***************************************************************************)
EXTENDS ConfirmGate, TLAPS

(* The parts of a state that a dry run's binding needs to be well typed.   *)
OfferHeld ==
  \A d \in DryRun :
    pc[d] \in {"reviewed", "generated", "issued", "returned"}
      => offered[d] \in Binding

(* A running confirm call holds its request; so does one that had effect.  *)
RequestHeld ==
  \A c \in Confirm :
    pc[c] \in ConfirmLive \/ c \in effects => request[c] \in Request

TypeInv == TypeOK /\ OfferHeld /\ RequestHeld

(* A review is well typed.                                                 *)
LEMMA ReviewType ==
  ASSUME TypeOK, NEW op \in Operation, NEW review \in Reviews(op)
  PROVE  review \in Review
<1>1. 0 \in 0..MaxVersion /\ version[op] \in 0..MaxVersion
  BY ConstantAssumption DEF TypeOK
<1>2. OpInfo[op].review \in {"payload", "remote", "tolerant"}
  BY ConstantAssumption DEF Info
<1>3. ReviewKinds(op) \subseteq {"payload", "remote", "partial", "failed"}
  BY <1>2 DEF ReviewKinds
<1> QED BY <1>1, <1>3 DEF Reviews, Review

(* So is what a confirm call can be given.                                 *)
LEMMA RequestType ==
  ASSUME TypeOK, NEW op \in Operation, NEW handler \in OpInfo[op].handlers,
         NEW input \in Requests(op, handler)
  PROVE  input \in Request
<1>1. PICK unsafe \in UnsafeModes(handler), review \in Reviews(op),
           token \in Returned \cup {"blank"},
           challenge \in Challenges \cup {"blank"},
           approval \in signed \cup {"blank", "legacy"} :
        input = [ handler |-> handler, op |-> op, unsafe |-> unsafe,
                  review |-> review, token |-> token,
                  challenge |-> challenge, approval |-> approval ]
  BY DEF Requests
<1>2. /\ handler \in Handler /\ unsafe \in BOOLEAN
      /\ token \in DryRun \cup {"blank"}
      /\ challenge \in DryRun \cup {"blank"}
      /\ approval \in DryRun \cup {"blank", "legacy"}
  BY ConstantAssumption DEF Info, UnsafeModes, Returned, Challenges, TypeOK
<1>3. review \in Review
  BY ReviewType
<1> QED BY <1>1, <1>2, <1>3 DEF Request

(* Dry runs and confirm calls are calls.                                   *)
LEMMA CallTypes == DryRun \subseteq Call /\ Confirm \subseteq Call
  BY DEF Call

(* The first state is well typed.                                          *)
LEMMA TypeInit == Init => TypeInv
<1> SUFFICES ASSUME Init PROVE TypeInv
  OBVIOUS
<1>1. \A c \in Call : pc[c] = "idle"
  BY DEF Init
<1>2. OfferHeld /\ RequestHeld
  BY <1>1, CallTypes DEF Init, OfferHeld, RequestHeld, ConfirmLive
<1>3. clock \in 0..MaxClock /\ version \in [Operation -> 0..MaxVersion]
  BY ConstantAssumption DEF Init
<1>4. Tokens!TypeOK /\ Approvals!TypeOK
  BY DEF Init, Tokens!Init, Tokens!TypeOK, Approvals!Init, Approvals!TypeOK
<1>5. TypeOK
  BY <1>3, <1>4 DEF Init, TypeOK, PC
<1> QED BY <1>2, <1>5 DEF TypeInv
-----------------------------------------------------------------------------
(* What the helpers of the actions do.                                     *)

(* Goto moves one call.                                                    *)
LEMMA GotoEffect ==
  ASSUME TypeOK, NEW c \in Call, NEW to \in PC, Goto(c, to)
  PROVE  /\ pc' \in [Call -> PC]
         /\ pc'[c] = to
         /\ \A other \in Call : other # c => pc'[other] = pc[other]
  BY DEF Goto, TypeOK

(* Log keeps the log well typed.                                           *)
LEMMA LogEffect ==
  ASSUME TypeOK, NEW c \in Call, NEW event \in AuditEvent, Log(c, event)
  PROVE  audit' \subseteq Call \X AuditEvent
  BY DEF Log, TypeOK

(* Forget drops the requests of calls without effect, and makes none.      *)
LEMMA ForgetEffect ==
  ASSUME TypeOK, NEW calls, Forget(calls)
  PROVE  /\ request' \in [Confirm -> Request \cup {None}]
         /\ \A c \in Confirm : c \notin calls \/ c \in effects
                                 => request'[c] = request[c]
         /\ \A c \in Confirm : request'[c] # None => request'[c] = request[c]
         /\ pending' \subseteq pending
         /\ \A c \in Confirm : c \in pending /\ (c \notin calls \/ c \in effects)
                                 => c \in pending'
  BY DEF Forget, TypeOK

(* Refuse ends one call and forgets it.                                    *)
LEMMA RefuseEffect ==
  ASSUME TypeOK, NEW c \in Confirm, Refuse(c)
  PROVE  /\ pc' \in [Call -> PC] /\ pc'[c] = "refused"
         /\ \A other \in Call : other # c => pc'[other] = pc[other]
         /\ request' \in [Confirm -> Request \cup {None}]
         /\ \A other \in Confirm : other # c \/ other \in effects
                                     => request'[other] = request[other]
         /\ \A other \in Confirm :
              request'[other] # None => request'[other] = request[other]
         /\ pending' \subseteq pending
         /\ \A other \in pending : other # c => other \in pending'
<1>1. c \in Call /\ "refused" \in PC
  BY CallTypes DEF PC, Ended
<1> QED BY <1>1, GotoEffect, ForgetEffect DEF Refuse, TypeOK

(* A call with a request presents a well-typed binding.                    *)
LEMMA BindingType ==
  ASSUME TypeOK, NEW c \in Confirm, request[c] \in Request
  PROVE  BindingOf(c) \in Binding
  BY DEF BindingOf, Binding, Request
-----------------------------------------------------------------------------
(* Type correctness.                                                       *)

(* The steps of a dry run keep types: a token and a challenge are only     *)
(* made for a binding that is there.                                       *)
LEMMA DryRunStepType ==
  ASSUME TypeInv, NEW d \in DryRun, DryRunStep(d)
  PROVE  TypeInv'
<1> USE CallTypes DEF TypeInv
<1>1. CASE DryRunRefuse(d)
  <2>1. /\ pc' \in [Call -> PC] /\ pc'[d] = "refused"
        /\ \A other \in Call : other # d => pc'[other] = pc[other]
    BY <1>1, GotoEffect DEF DryRunRefuse, PC, Ended
  <2>2. audit' \subseteq Call \X AuditEvent
    BY <1>1, LogEffect DEF DryRunRefuse, AuditEvent
  <2>3. TypeOK'
    BY <1>1, <2>1, <2>2 DEF DryRunRefuse, TypeOK, environment, stores, history,
       Tokens!TypeOK, Approvals!TypeOK
  <2>4. OfferHeld' /\ RequestHeld'
    BY <1>1, <2>1, CallAssumption DEF DryRunRefuse, OfferHeld, RequestHeld, history
  <2> QED BY <2>3, <2>4
<1>2. CASE DryRunReview(d)
  <2>1. /\ pc' \in [Call -> PC] /\ pc'[d] = "reviewed"
        /\ \A other \in Call : other # d => pc'[other] = pc[other]
    BY <1>2, GotoEffect DEF DryRunReview, PC, DryRunLive
  <2>2. PICK op \in Operation, unsafe \in UnsafeInputs :
          \E review \in Reviews(op) :
            offered' = [offered EXCEPT ![d] =
                          [op |-> op, unsafe |-> unsafe, review |-> review]]
    BY <1>2 DEF DryRunReview
  <2>3. PICK review \in Reviews(op) :
          offered' = [offered EXCEPT ![d] =
                        [op |-> op, unsafe |-> unsafe, review |-> review]]
    BY <2>2
  <2>4. [op |-> op, unsafe |-> unsafe, review |-> review] \in Binding
    BY ReviewType, ConstantAssumption DEF Binding
  <2>5. offered' \in [DryRun -> Binding \cup {None}] /\ offered'[d] \in Binding
    BY <2>3, <2>4 DEF TypeOK
  <2>6. TypeOK'
    BY <1>2, <2>1, <2>5 DEF DryRunReview, TypeOK, environment, stores, history,
       Tokens!TypeOK, Approvals!TypeOK
  <2>7. OfferHeld' /\ RequestHeld'
    BY <1>2, <2>1, <2>3, <2>5, CallAssumption
    DEF DryRunReview, OfferHeld, RequestHeld, TypeOK, history
  <2> QED BY <2>6, <2>7
<1>3. CASE GenerateToken(d)
  <2>1. /\ pc' \in [Call -> PC] /\ pc'[d] = "generated"
        /\ \A other \in Call : other # d => pc'[other] = pc[other]
    BY <1>3, GotoEffect DEF GenerateToken, PC, DryRunLive
  <2>2. [fingerprint |-> offered[d], expiresAt |-> clock + TTL] \in Tokens!Record
    BY <1>3, ConstantAssumption
    DEF GenerateToken, OfferHeld, Tokens!Record, TypeOK
  <2>3. Tokens!TypeOK'
    BY <1>3, <2>2 DEF GenerateToken, Tokens!Generate, Tokens!TypeOK, TypeOK
  <2>4. TypeOK'
    BY <1>3, <2>1, <2>3 DEF GenerateToken, TypeOK, environment, history,
       Approvals!TypeOK
  <2>5. OfferHeld' /\ RequestHeld'
    BY <1>3, <2>1, CallAssumption
    DEF GenerateToken, OfferHeld, RequestHeld, history
  <2> QED BY <2>4, <2>5
<1>4. CASE IssueChallenge(d)
  <2>1. /\ pc' \in [Call -> PC] /\ pc'[d] = "issued"
        /\ \A other \in Call : other # d => pc'[other] = pc[other]
    BY <1>4, GotoEffect DEF IssueChallenge, PC, DryRunLive
  <2>2. [binding |-> offered[d], expiresAt |-> clock + TTL] \in Approvals!Record
    BY <1>4, ConstantAssumption
    DEF IssueChallenge, OfferHeld, Approvals!Record, TypeOK
  <2>3. Approvals!TypeOK'
    BY <1>4, <2>2 DEF IssueChallenge, Approvals!Issue, Approvals!TypeOK, TypeOK
  <2>4. TypeOK'
    BY <1>4, <2>1, <2>3 DEF IssueChallenge, TypeOK, environment, history,
       Tokens!TypeOK
  <2>5. OfferHeld' /\ RequestHeld'
    BY <1>4, <2>1, CallAssumption
    DEF IssueChallenge, OfferHeld, RequestHeld, history
  <2> QED BY <2>4, <2>5
<1>5. CASE DryRunFails(d)
  <2>1. /\ pc' \in [Call -> PC] /\ pc'[d] = "failed"
        /\ \A other \in Call : other # d => pc'[other] = pc[other]
    BY <1>5, GotoEffect DEF DryRunFails, PC, Ended
  <2>2. TypeOK'
    BY <1>5, <2>1 DEF DryRunFails, TypeOK, environment, stores, history,
       Tokens!TypeOK, Approvals!TypeOK
  <2>3. OfferHeld' /\ RequestHeld'
    BY <1>5, <2>1, CallAssumption DEF DryRunFails, OfferHeld, RequestHeld, history
  <2> QED BY <2>2, <2>3
<1>6. CASE DryRunRespond(d)
  <2>1. /\ pc' \in [Call -> PC] /\ pc'[d] = "returned"
        /\ \A other \in Call : other # d => pc'[other] = pc[other]
    BY <1>6, GotoEffect DEF DryRunRespond, PC, Ended
  <2>2. audit' \subseteq Call \X AuditEvent
    BY <1>6, LogEffect DEF DryRunRespond, AuditEvent
  <2>3. TypeOK'
    BY <1>6, <2>1, <2>2 DEF DryRunRespond, TypeOK, environment, stores, history,
       Tokens!TypeOK, Approvals!TypeOK
  <2>4. OfferHeld' /\ RequestHeld'
    BY <1>6, <2>1, CallAssumption
    DEF DryRunRespond, OfferHeld, RequestHeld, history
  <2> QED BY <2>3, <2>4
<1> QED BY <1>1, <1>2, <1>3, <1>4, <1>5, <1>6 DEF DryRunStep

(* What a refusal, whatever it follows, leaves well typed.                 *)
LEMMA RefusalType ==
  ASSUME TypeInv, NEW c \in Confirm, Refuse(c),
         effects' = effects, offered' = offered
  PROVE  /\ pc' \in [Call -> PC]
         /\ request' \in [Confirm -> Request \cup {None}]
         /\ pending' \subseteq Confirm
         /\ OfferHeld' /\ RequestHeld'
<1>1. c \in Call /\ "refused" \notin ConfirmLive /\ DryRun \subseteq Call
  BY CallTypes DEF ConfirmLive
<1>2. /\ pc' \in [Call -> PC] /\ pc'[c] = "refused"
      /\ \A other \in Call : other # c => pc'[other] = pc[other]
      /\ request' \in [Confirm -> Request \cup {None}]
      /\ \A other \in Confirm : other # c \/ other \in effects
                                  => request'[other] = request[other]
      /\ pending' \subseteq pending
  BY RefuseEffect DEF TypeInv
<1>3. OfferHeld'
  BY <1>1, <1>2, CallAssumption DEF OfferHeld, TypeInv
<1>4. RequestHeld'
  BY <1>1, <1>2, CallTypes DEF RequestHeld, TypeInv
<1> QED BY <1>2, <1>3, <1>4 DEF TypeInv, TypeOK

(* What a step of a call that leaves all requests alone leaves well typed. *)
LEMMA ProgressType ==
  ASSUME TypeInv, NEW c \in Confirm, NEW to \in PC, Goto(c, to),
         request' = request, request[c] \in Request,
         effects' \subseteq effects \cup {c}, offered' = offered
  PROVE  pc' \in [Call -> PC] /\ OfferHeld' /\ RequestHeld'
<1>1. /\ pc' \in [Call -> PC] /\ c \in Call
      /\ \A other \in Call : other # c => pc'[other] = pc[other]
  BY GotoEffect, CallTypes DEF TypeInv
<1>2. OfferHeld'
  BY <1>1, CallTypes, CallAssumption DEF OfferHeld, TypeInv
<1>3. RequestHeld'
  BY <1>1, CallTypes DEF RequestHeld, TypeInv
<1> QED BY <1>1, <1>2, <1>3

(* A store stays well typed when records are dropped from it.              *)
LEMMA ApprovalStoreType ==
  ASSUME Approvals!TypeOK, NEW id, NEW now,
         approvalRecords' \in {approvalRecords, Approvals!Drop(id)}
  PROVE  Approvals!TypeOK'
  BY DEF Approvals!TypeOK, Approvals!Drop

(* So does the token store.                                                *)
LEMMA TokenStoreType ==
  ASSUME Tokens!TypeOK, NEW token, Tokens!Consume(token)
  PROVE  Tokens!TypeOK'
  BY DEF Tokens!TypeOK, Tokens!Consume

(* The steps of a confirm call past its review keep types.                 *)
LEMMA ConfirmContinuesType ==
  ASSUME TypeInv, NEW c \in Confirm, ConfirmContinues(c)
  PROVE  TypeInv'
<1> USE CallTypes DEF TypeInv
<1>request. request[c] \in Request
  BY DEF ConfirmContinues, ValidateApproval, ConsumeToken, ConsumeApproval,
     AuthorizeExecution, Execute, RecordExecution, RequestHeld, ConfirmLive
<1>refusal. ASSUME Refuse(c), Log(c, "reject"), effects' = effects, offered' = offered
      PROVE  /\ pc' \in [Call -> PC]
             /\ request' \in [Confirm -> Request \cup {None}]
             /\ pending' \subseteq Confirm
             /\ audit' \subseteq Call \X AuditEvent
             /\ OfferHeld' /\ RequestHeld'
  BY <1>refusal, RefusalType, LogEffect DEF AuditEvent
<1>1. CASE ValidateApproval(c)
  <2>1. approvalRecords' \in
          {approvalRecords, Approvals!Drop(request[c].challenge)}
    BY <1>1 DEF ValidateApproval, Approvals!Validate
  <2>2. Approvals!TypeOK'
    BY <2>1, ApprovalStoreType DEF TypeOK
  <2>3. /\ pc' \in [Call -> PC]
        /\ request' \in [Confirm -> Request \cup {None}]
        /\ pending' \subseteq Confirm
        /\ audit' \subseteq Call \X AuditEvent
        /\ OfferHeld' /\ RequestHeld'
    <3>1. CASE Refuse(c) /\ Log(c, "reject")
      BY <1>1, <1>refusal, <3>1 DEF ValidateApproval, history
    <3>2. CASE /\ Goto(c, "validated") /\ pending' \in {pending, pending \cup {c}}
               /\ UNCHANGED << request, audit >>
      BY <1>request, <1>1, <3>2, ProgressType
      DEF ValidateApproval, history, TypeOK, PC, ConfirmLive
    <3> QED BY <1>1, <3>1, <3>2 DEF ValidateApproval
  <2> QED BY <1>1, <2>2, <2>3 DEF ValidateApproval, TypeOK, environment,
       history, Tokens!TypeOK
<1>2. CASE ConsumeToken(c)
  <2>1. Tokens!TypeOK'
    BY <1>2, TokenStoreType DEF ConsumeToken, TypeOK
  <2>2. /\ pc' \in [Call -> PC]
        /\ request' \in [Confirm -> Request \cup {None}]
        /\ pending' \subseteq Confirm
        /\ accepted' \subseteq Confirm
        /\ audit' \subseteq Call \X AuditEvent
        /\ OfferHeld' /\ RequestHeld'
    <3>1. CASE Refuse(c) /\ Log(c, "reject") /\ accepted' = accepted
      BY <1>2, <1>refusal, <3>1 DEF ConsumeToken, TypeOK
    <3>2. CASE /\ Goto(c, "token_spent") /\ accepted' = accepted \cup {c}
               /\ UNCHANGED << request, pending, audit >>
      BY <1>request, <1>2, <3>2, ProgressType
      DEF ConsumeToken, TypeOK, PC, ConfirmLive
    <3> QED BY <1>2, <3>1, <3>2 DEF ConsumeToken
  <2> QED BY <1>2, <2>1, <2>2 DEF ConsumeToken, TypeOK, environment,
       Approvals!TypeOK
<1>3. CASE ConsumeApproval(c)
  <2>1. approvalRecords' \in
          {approvalRecords, Approvals!Drop(request[c].challenge)}
    BY <1>3 DEF ConsumeApproval, Approvals!Consume
  <2>2. Approvals!TypeOK'
    BY <2>1, ApprovalStoreType DEF TypeOK
  <2>3. /\ pc' \in [Call -> PC]
        /\ request' \in [Confirm -> Request \cup {None}]
        /\ pending' \subseteq Confirm
        /\ audit' \subseteq Call \X AuditEvent
        /\ OfferHeld' /\ RequestHeld'
    <3>1. CASE Refuse(c) /\ Log(c, "reject")
      BY <1>3, <1>refusal, <3>1 DEF ConsumeApproval, history
    <3>2. CASE Goto(c, "approved") /\ UNCHANGED << request, pending, audit >>
      BY <1>request, <1>3, <3>2, ProgressType
      DEF ConsumeApproval, history, TypeOK, PC, ConfirmLive
    <3> QED BY <1>3, <3>1, <3>2 DEF ConsumeApproval
  <2> QED BY <1>3, <2>2, <2>3 DEF ConsumeApproval, TypeOK, environment,
       history, Tokens!TypeOK
<1>4. CASE AuthorizeExecution(c)
  <2>1. rechecked' \subseteq Confirm
    BY <1>4 DEF AuthorizeExecution, TypeOK
  <2>2. /\ pc' \in [Call -> PC]
        /\ request' \in [Confirm -> Request \cup {None}]
        /\ pending' \subseteq Confirm
        /\ audit' \subseteq Call \X AuditEvent
        /\ OfferHeld' /\ RequestHeld'
    <3>1. CASE Refuse(c) /\ Log(c, "reject")
      BY <1>4, <1>refusal, <3>1 DEF AuthorizeExecution
    <3>2. CASE /\ Goto(c, "confirmed") /\ Log(c, "confirm")
               /\ UNCHANGED << request, pending >>
      BY <1>request, <1>4, <3>2, ProgressType, LogEffect
      DEF AuthorizeExecution, TypeOK, PC, ConfirmLive, AuditEvent
    <3> QED BY <1>4, <3>1, <3>2 DEF AuthorizeExecution
  <2> QED BY <1>4, <2>1, <2>2 DEF AuthorizeExecution, TypeOK, environment, stores,
       Tokens!TypeOK, Approvals!TypeOK
<1>5. CASE Execute(c)
  <2>1. effects' \subseteq effects \cup {c}
    BY <1>5 DEF Execute
  <2>2. pc' \in [Call -> PC] /\ OfferHeld' /\ RequestHeld'
    BY <1>request, <1>5, <2>1, ProgressType DEF Execute, PC, ConfirmLive
  <2> QED BY <1>5, <2>1, <2>2 DEF Execute, TypeOK, environment, stores,
       Tokens!TypeOK, Approvals!TypeOK
<1>6. CASE RecordExecution(c)
  <2>1. /\ pc' \in [Call -> PC] /\ pc'[c] = "done"
        /\ \A other \in Call : other # c => pc'[other] = pc[other]
    BY <1>6, GotoEffect DEF RecordExecution, PC, Ended
  <2>2. audit' \subseteq Call \X AuditEvent
    BY <1>6, LogEffect DEF RecordExecution, AuditEvent
  <2>3. /\ request' \in [Confirm -> Request \cup {None}]
        /\ \A other \in Confirm : other # c \/ other \in effects
                                    => request'[other] = request[other]
        /\ pending' \subseteq Confirm
    BY <1>6, ForgetEffect DEF RecordExecution, TypeOK
  <2>4. OfferHeld'
    BY <1>6, <2>1, CallAssumption DEF RecordExecution, OfferHeld
  <2>5. RequestHeld'
    BY <1>6, <2>1, <2>3 DEF RecordExecution, RequestHeld, history, ConfirmLive
  <2> QED BY <1>6, <2>1, <2>2, <2>3, <2>4, <2>5 DEF RecordExecution, TypeOK,
       environment, stores, history, Tokens!TypeOK, Approvals!TypeOK
<1> QED BY <1>1, <1>2, <1>3, <1>4, <1>5, <1>6 DEF ConfirmContinues

(* So do its first steps.                                                  *)
LEMMA ConfirmStepType ==
  ASSUME TypeInv, NEW c \in Confirm, ConfirmStep(c)
  PROVE  TypeInv'
<1> USE CallTypes DEF TypeInv
<1>1. CASE RejectInput(c)
  <2>1. audit' \subseteq Call \X AuditEvent
    BY <1>1, LogEffect DEF RejectInput, AuditEvent, TypeOK
  <2>2. /\ pc' \in [Call -> PC]
        /\ request' \in [Confirm -> Request \cup {None}]
        /\ pending' \subseteq Confirm
        /\ OfferHeld' /\ RequestHeld'
    BY <1>1, RefusalType DEF RejectInput, history
  <2> QED BY <1>1, <2>1, <2>2 DEF RejectInput, TypeOK, environment, stores,
       history, Tokens!TypeOK, Approvals!TypeOK
<1>2. CASE ReviewAgain(c)
  <2>1. PICK op \in Operation : \E handler \in OpInfo[op].handlers :
          \E input \in Requests(op, handler) :
            request' = [request EXCEPT ![c] = input]
    BY <1>2 DEF ReviewAgain
  <2>2. PICK handler \in OpInfo[op].handlers :
          \E input \in Requests(op, handler) :
            request' = [request EXCEPT ![c] = input]
    BY <2>1
  <2>3. PICK input \in Requests(op, handler) :
          request' = [request EXCEPT ![c] = input]
    BY <2>2
  <2>4. input \in Request
    BY RequestType
  <2>5. request'[c] \in Request
    BY <2>3, <2>4 DEF TypeOK
  <2>6. /\ request' \in [Confirm -> Request \cup {None}]
        /\ \A other \in Confirm : other # c => request'[other] = request[other]
    BY <2>3, <2>5 DEF TypeOK
  <2>7. /\ pc' \in [Call -> PC] /\ pc'[c] = "reviewed"
        /\ \A other \in Call : other # c => pc'[other] = pc[other]
    BY <1>2, GotoEffect DEF ReviewAgain, PC, ConfirmLive
  <2>8. OfferHeld' /\ RequestHeld'
    BY <1>2, <2>5, <2>6, <2>7, CallAssumption
    DEF ReviewAgain, OfferHeld, RequestHeld, history
  <2> QED BY <1>2, <2>6, <2>7, <2>8 DEF ReviewAgain, TypeOK, environment, stores,
       history, Tokens!TypeOK, Approvals!TypeOK
<1>3. CASE ReviewFails(c)
  <2>1. audit' \subseteq Call \X AuditEvent
    BY <1>3, LogEffect DEF ReviewFails, AuditEvent
  <2>2. /\ pc' \in [Call -> PC]
        /\ request' \in [Confirm -> Request \cup {None}]
        /\ pending' \subseteq Confirm
        /\ OfferHeld' /\ RequestHeld'
    BY <1>3, RefusalType DEF ReviewFails, history
  <2> QED BY <1>3, <2>1, <2>2 DEF ReviewFails, TypeOK, environment, stores,
       history, Tokens!TypeOK, Approvals!TypeOK
<1>4. CASE EvaluateDirectly(c)
  <2>1. PICK op \in Operation, intent \in BOOLEAN :
        \E handler \in OpInfo[op].handlers : \E unsafe \in UnsafeModes(handler) :
          \/ /\ request' = [request EXCEPT ![c] =
                  [ handler |-> handler, op |-> op, unsafe |-> unsafe,
                    review |-> [kind |-> "payload", version |-> 0],
                    token |-> "blank", challenge |-> "blank",
                    approval |-> "blank" ]]
             /\ Goto(c, "confirmed")
             /\ UNCHANGED << pending, audit >>
          \/ Refuse(c) /\ Log(c, "reject")
    BY <1>4 DEF EvaluateDirectly
  <2>2. CASE Refuse(c) /\ Log(c, "reject")
    <3>1. audit' \subseteq Call \X AuditEvent
      BY <2>2, LogEffect DEF AuditEvent
    <3>2. /\ pc' \in [Call -> PC]
          /\ request' \in [Confirm -> Request \cup {None}]
          /\ pending' \subseteq Confirm
          /\ OfferHeld' /\ RequestHeld'
      BY <1>4, <2>2, RefusalType DEF EvaluateDirectly, history
    <3> QED BY <1>4, <3>1, <3>2 DEF EvaluateDirectly, TypeOK, environment,
         stores, history, Tokens!TypeOK, Approvals!TypeOK
  <2>3. CASE ~ (Refuse(c) /\ Log(c, "reject"))
    <3>1. PICK handler \in OpInfo[op].handlers : \E unsafe \in UnsafeModes(handler) :
          /\ request' = [request EXCEPT ![c] =
               [ handler |-> handler, op |-> op, unsafe |-> unsafe,
                 review |-> [kind |-> "payload", version |-> 0],
                 token |-> "blank", challenge |-> "blank",
                 approval |-> "blank" ]]
          /\ Goto(c, "confirmed")
          /\ UNCHANGED << pending, audit >>
      BY <2>1, <2>3
    <3>2. PICK unsafe \in UnsafeModes(handler) :
          request' = [request EXCEPT ![c] =
               [ handler |-> handler, op |-> op, unsafe |-> unsafe,
                 review |-> [kind |-> "payload", version |-> 0],
                 token |-> "blank", challenge |-> "blank",
                 approval |-> "blank" ]]
      BY <3>1
    <3>3. handler \in Handler /\ unsafe \in BOOLEAN
      BY ConstantAssumption DEF Info, UnsafeModes
    <3>zero. 0 \in 0..MaxVersion
      BY ConstantAssumption
    <3>4. request'[c] \in Request
      BY <3>2, <3>3, <3>zero DEF Request, Review, TypeOK
    <3>5. /\ request' \in [Confirm -> Request \cup {None}]
          /\ \A other \in Confirm : other # c => request'[other] = request[other]
      BY <3>2, <3>4 DEF TypeOK
    <3>6. /\ pc' \in [Call -> PC] /\ pc'[c] = "confirmed"
          /\ \A other \in Call : other # c => pc'[other] = pc[other]
      BY <3>1, GotoEffect DEF PC, ConfirmLive
    <3>7. OfferHeld' /\ RequestHeld'
      BY <1>4, <3>4, <3>5, <3>6, CallAssumption
      DEF EvaluateDirectly, OfferHeld, RequestHeld, history
    <3> QED BY <1>4, <3>1, <3>5, <3>6, <3>7 DEF EvaluateDirectly, TypeOK,
         environment, stores, history, Tokens!TypeOK, Approvals!TypeOK
  <2> QED BY <2>2, <2>3
<1>5. CASE ConfirmContinues(c)
  BY <1>5, ConfirmContinuesType
<1> QED BY <1>1, <1>2, <1>3, <1>4, <1>5 DEF ConfirmStep

(* So do the host, remote edits, the clock and a restart.                  *)
LEMMA EnvironmentType ==
  ASSUME TypeInv,
         \/ \E d \in DryRun : HostSigns(d)
         \/ \E op \in Operation : RemoteEdit(op)
         \/ Tick
         \/ Restart
  PROVE  TypeInv'
<1> USE CallTypes DEF TypeInv
<1>1. ASSUME NEW d \in DryRun, HostSigns(d) PROVE TypeInv'
  BY <1>1 DEF HostSigns, Challenges, Returned, TypeOK, stores, history,
     Tokens!TypeOK, Approvals!TypeOK, OfferHeld, RequestHeld
<1>2. ASSUME NEW op \in Operation, RemoteEdit(op) PROVE TypeInv'
  <2>1. version' \in [Operation -> 0..MaxVersion]
    BY <1>2, ConstantAssumption DEF RemoteEdit, TypeOK
  <2> QED BY <1>2, <2>1 DEF RemoteEdit, TypeOK, stores, history,
       Tokens!TypeOK, Approvals!TypeOK, OfferHeld, RequestHeld
<1>3. CASE Tick
  <2>1. clock' \in 0..MaxClock
    BY <1>3, ConstantAssumption DEF Tick, TypeOK
  <2> QED BY <1>3, <2>1 DEF Tick, TypeOK, stores, history,
       Tokens!TypeOK, Approvals!TypeOK, OfferHeld, RequestHeld
<1>4. CASE Restart
  <2>1. Tokens!TypeOK' /\ Approvals!TypeOK'
    BY <1>4 DEF Restart, Tokens!TypeOK, Approvals!TypeOK
  <2>2. pc' \in [Call -> PC]
    BY <1>4 DEF Restart, TypeOK, PC, Ended
  <2>3. /\ request' \in [Confirm -> Request \cup {None}]
        /\ \A c \in Confirm : pc[c] \notin ConfirmLive \/ c \in effects
                                => request'[c] = request[c]
        /\ pending' \subseteq Confirm
    BY <1>4, ForgetEffect DEF Restart, TypeOK
  <2>4. \A c \in Call : pc'[c] = IF pc[c] \in DryRunLive \cup ConfirmLive
                                 THEN "lost" ELSE pc[c]
    BY <1>4 DEF Restart
  <2>5. OfferHeld'
    BY <1>4, <2>4 DEF Restart, OfferHeld
  <2>6. RequestHeld'
    <3> SUFFICES ASSUME NEW c \in Confirm, (pc[c] \in ConfirmLive \/ c \in effects)'
                 PROVE  request'[c] \in Request
      BY DEF RequestHeld
    <3>1. c \in effects
      BY <1>4, <2>4 DEF Restart, history, ConfirmLive, DryRunLive
    <3> QED BY <2>3, <3>1 DEF RequestHeld
  <2> QED BY <1>4, <2>1, <2>2, <2>3, <2>5, <2>6 DEF Restart, TypeOK,
       environment, history
<1> QED BY <1>1, <1>2, <1>3, <1>4

(* Every step keeps types.                                                 *)
LEMMA TypeStep ==
  ASSUME TypeInv, [Next]_vars
  PROVE  TypeInv'
<1>1. CASE UNCHANGED vars
  BY <1>1 DEF vars, TypeInv, TypeOK, Tokens!TypeOK, Approvals!TypeOK,
     OfferHeld, RequestHeld
<1>2. CASE Next
  BY <1>2, DryRunStepType, ConfirmStepType, EnvironmentType DEF Next
<1> QED BY <1>1, <1>2

(* The state stays well typed: in particular, no call ever runs without    *)
(* the request it was given, and no token is ever issued for a binding     *)
(* that is not there.                                                      *)
THEOREM TypeCorrect == Spec => []TypeOK
<1>1. Init => TypeInv
  BY TypeInit
<1>2. TypeInv /\ [Next]_vars => TypeInv'
  BY TypeStep
<1>3. TypeInv => TypeOK
  BY DEF TypeInv
<1> QED BY <1>1, <1>2, <1>3, PTL DEF Spec
-----------------------------------------------------------------------------
(* The inductive invariant behind the safety properties.                   *)

(* A stored record says what its dry run offered, and that dry run is past *)
(* its review for good.                                                    *)
RecordsMatchOffers ==
  \A d \in DryRun :
    /\ confirmRecords[d] # None =>
         confirmRecords[d].fingerprint = offered[d] /\ pc[d] \notin {"idle", "reviewed"}
    /\ approvalRecords[d] # None =>
         approvalRecords[d].binding = offered[d] /\ pc[d] \notin {"idle", "reviewed"}

(* No dry run offers on a failed review.                                   *)
OffersAreReviewed ==
  \A d \in DryRun : offered[d] # None => offered[d].review.kind # "failed"

(* What a confirm call was given was known to the agent by then.           *)
InputsAreKnown ==
  \A c \in Confirm : request[c] # None =>
    /\ request[c].token \in DryRun => pc[request[c].token] = "returned"
    /\ request[c].challenge \in DryRun => pc[request[c].challenge] = "returned"
    /\ request[c].approval \in DryRun => request[c].approval \in signed

(* A call that has not begun, or has not got that far, has no history.     *)
HistoryIsPast ==
  \A c \in Confirm :
    /\ c \in pending => request[c] # None
    /\ pc[c] \in {"idle", "reviewed"} => c \notin pending
    /\ pc[c] \in {"idle", "reviewed", "validated"} => c \notin accepted
    /\ pc[c] \in {"idle", "refused"} \cup (ConfirmLive \ {"executed"}) => c \notin effects

(* An accepted token is gone from the store, was offered for the very      *)
(* binding it was presented with, and was accepted from one call only.     *)
AcceptedTokenIsSpent ==
  \A c \in accepted : request[c] # None =>
    /\ request[c].token \in DryRun
    /\ confirmRecords[request[c].token] = None
    /\ offered[request[c].token] = BindingOf(c)

AcceptedTokensDiffer ==
  \A c1, c2 \in accepted :
    /\ request[c1] # None /\ request[c2] # None
    /\ request[c1].token = request[c2].token
    => c1 = c2

(* How far a call that may execute, or has, must have come.                *)
Through(c, states) == request[c] # None /\ (pc[c] \in states \/ c \in effects)

GatedNeedsToken ==
  \A c \in Confirm :
    Through(c, {"token_spent", "approved", "confirmed", "executed"}) /\ IsGated(c)
      => c \in accepted

UngatedIsLowRisk ==
  \A c \in Confirm :
    request[c] # None /\ ~ IsGated(c) => Class(request[c].op) \notin HighRisk

TokenParts ==
  /\ RecordsMatchOffers /\ OffersAreReviewed /\ InputsAreKnown /\ HistoryIsPast
  /\ AcceptedTokenIsSpent /\ AcceptedTokensDiffer
  /\ GatedNeedsToken /\ UngatedIsLowRisk

(* The same for approvals: a validated challenge was offered for the       *)
(* call's binding and signed by the host, and is gone once the call is     *)
(* approved.                                                               *)
PendingIsSigned ==
  \A c \in pending :
    /\ request[c].challenge \in DryRun
    /\ request[c].challenge \in signed
    /\ offered[request[c].challenge] = BindingOf(c)

HighRiskIsPending ==
  \A c \in Confirm :
    /\ Through(c, {"validated", "token_spent", "approved", "confirmed", "executed"})
    /\ Class(request[c].op) \in HighRisk
    /\ approvalPolicy.mode = "required"
    => c \in pending

PastApproval(c) == Through(c, {"approved", "confirmed", "executed"})

ApprovedChallengeIsSpent ==
  \A c \in pending : PastApproval(c) =>
    /\ approvalRecords[request[c].challenge] = None
    /\ \A other \in pending :
         PastApproval(other) /\ request[other].challenge = request[c].challenge
           => other = c

TokenInv == TypeInv /\ TokenParts

IInv ==
  TokenInv /\ PendingIsSigned /\ HighRiskIsPending /\ ApprovedChallengeIsSpent
-----------------------------------------------------------------------------
(* The steps of a dry run.                                                 *)

(* What the steps of a dry run leave alone.                                *)
LEMMA DryRunFrame ==
  ASSUME TypeInv, NEW d \in DryRun, DryRunStep(d)
  PROVE  /\ UNCHANGED << request, pending, accepted, effects, signed, approvalPolicy >>
         /\ \A other \in Call : other # d => pc'[other] = pc[other]
         /\ pc[d] \in {"idle", "reviewed", "generated", "issued"}
         /\ pc'[d] # "idle"
         /\ pc[d] # "idle" => offered' = offered
         /\ \A other \in DryRun : other # d =>
              /\ offered'[other] = offered[other]
              /\ confirmRecords'[other] = confirmRecords[other]
              /\ approvalRecords'[other] = approvalRecords[other]
<1> USE CallTypes DEF TypeInv, TypeOK, Goto, environment, stores, history,
    Tokens!TypeOK, Approvals!TypeOK
<1>1. CASE DryRunRefuse(d)
  BY <1>1 DEF DryRunRefuse
<1>2. CASE DryRunReview(d)
  BY <1>2 DEF DryRunReview
<1>3. CASE GenerateToken(d)
  BY <1>3 DEF GenerateToken, Tokens!Generate
<1>4. CASE IssueChallenge(d)
  BY <1>4 DEF IssueChallenge, Approvals!Issue
<1>5. CASE DryRunFails(d)
  BY <1>5 DEF DryRunFails
<1>6. CASE DryRunRespond(d)
  BY <1>6 DEF DryRunRespond
<1> QED BY <1>1, <1>2, <1>3, <1>4, <1>5, <1>6 DEF DryRunStep

(* A dry run stores what it offers.                                        *)
LEMMA DryRunKeepsRecords ==
  ASSUME TypeInv, RecordsMatchOffers, OffersAreReviewed,
         NEW d \in DryRun, DryRunStep(d)
  PROVE  RecordsMatchOffers' /\ OffersAreReviewed'
<1> USE CallTypes, DryRunFrame
    DEF TypeInv, TypeOK, Goto, stores, Tokens!TypeOK, Approvals!TypeOK,
    RecordsMatchOffers, OffersAreReviewed
<1>1. CASE DryRunRefuse(d)
  BY <1>1 DEF DryRunRefuse
<1>2. CASE DryRunReview(d)
  <2>1. offered'[d] # None => offered'[d].review.kind # "failed"
    BY <1>2 DEF DryRunReview
  <2> QED BY <1>2, <2>1 DEF DryRunReview
<1>3. CASE GenerateToken(d)
  BY <1>3 DEF GenerateToken, Tokens!Generate
<1>4. CASE IssueChallenge(d)
  BY <1>4 DEF IssueChallenge, Approvals!Issue
<1>5. CASE DryRunFails(d)
  BY <1>5 DEF DryRunFails
<1>6. CASE DryRunRespond(d)
  BY <1>6 DEF DryRunRespond
<1> QED BY <1>1, <1>2, <1>3, <1>4, <1>5, <1>6 DEF DryRunStep

(* A dry run does not disturb the calls of tokens already answered.        *)
LEMMA DryRunKeepsTokenParts ==
  ASSUME TokenInv, NEW d \in DryRun, DryRunStep(d)
  PROVE  TokenParts'
<1>1. /\ UNCHANGED << request, pending, accepted, effects, signed, approvalPolicy >>
      /\ \A other \in Call : other # d => pc'[other] = pc[other]
      /\ pc[d] \in {"idle", "reviewed", "generated", "issued"}
      /\ \A other \in DryRun : other # d =>
           /\ offered'[other] = offered[other]
           /\ confirmRecords'[other] = confirmRecords[other]
           /\ approvalRecords'[other] = approvalRecords[other]
  BY DryRunFrame DEF TokenInv
<1>2. \A c \in Confirm : c # d /\ c \in Call
  BY CallAssumption, CallTypes
<1>3. RecordsMatchOffers' /\ OffersAreReviewed'
  BY DryRunKeepsRecords DEF TokenInv, TokenParts
<1>4. \A e \in DryRun : pc[e] = "returned" => e # d
  BY <1>1
<1>5. InputsAreKnown'
  BY <1>1, <1>2, <1>4, CallTypes DEF TokenInv, TokenParts, InputsAreKnown
<1>6. HistoryIsPast'
  BY <1>1, <1>2 DEF TokenInv, TokenParts, HistoryIsPast
<1>7. AcceptedTokenIsSpent' /\ AcceptedTokensDiffer'
  <2>1. \A c \in accepted : request[c] # None =>
          request[c].token \in DryRun /\ request[c].token # d
    BY <1>4 DEF TokenInv, TokenParts, TypeInv, TypeOK, AcceptedTokenIsSpent,
       InputsAreKnown
  <2> QED BY <1>1, <2>1 DEF TokenInv, TokenParts, AcceptedTokenIsSpent,
       AcceptedTokensDiffer, BindingOf
<1>8. GatedNeedsToken' /\ UngatedIsLowRisk'
  BY <1>1, <1>2 DEF TokenInv, TokenParts, GatedNeedsToken, UngatedIsLowRisk,
     Through, IsGated
<1> QED BY <1>3, <1>5, <1>6, <1>7, <1>8 DEF TokenParts

(* Nor those of challenges already answered.                               *)
LEMMA DryRunKeepsApprovalParts ==
  ASSUME IInv, NEW d \in DryRun, DryRunStep(d)
  PROVE  PendingIsSigned' /\ HighRiskIsPending' /\ ApprovedChallengeIsSpent'
<1>1. /\ UNCHANGED << request, pending, accepted, effects, signed, approvalPolicy >>
      /\ \A other \in Call : other # d => pc'[other] = pc[other]
      /\ pc[d] \in {"idle", "reviewed", "generated", "issued"}
      /\ \A other \in DryRun : other # d =>
           /\ offered'[other] = offered[other]
           /\ approvalRecords'[other] = approvalRecords[other]
  BY DryRunFrame DEF IInv, TokenInv
<1>2. \A c \in Confirm : c # d /\ c \in Call
  BY CallAssumption, CallTypes
<1>3. \A c \in pending : /\ c \in Confirm
                         /\ request[c].challenge \in DryRun
                         /\ request[c].challenge # d
  BY <1>1 DEF IInv, TokenInv, TokenParts, TypeInv, TypeOK, PendingIsSigned,
     HistoryIsPast, InputsAreKnown
<1>4. PendingIsSigned'
  BY <1>1, <1>3 DEF IInv, PendingIsSigned, BindingOf
<1>5. HighRiskIsPending'
  BY <1>1, <1>2 DEF IInv, HighRiskIsPending, Through
<1>6. ApprovedChallengeIsSpent'
  BY <1>1, <1>2, <1>3 DEF IInv, ApprovedChallengeIsSpent, PastApproval, Through
<1> QED BY <1>4, <1>5, <1>6
-----------------------------------------------------------------------------
(* The steps of a confirm call: what they leave alone.                     *)

(* They change the state of no other call, and only drop records from the  *)
(* stores.                                                                 *)
LEMMA ConfirmFrame ==
  ASSUME TypeInv, NEW c \in Confirm, ConfirmStep(c)
  PROVE  /\ UNCHANGED << offered, signed, approvalPolicy >>
         /\ \A other \in Call : other # c => pc'[other] = pc[other]
         /\ \A other \in Confirm : other # c =>
              /\ request'[other] = request[other]
              /\ other \in accepted' <=> other \in accepted
              /\ other \in pending' <=> other \in pending
              /\ other \in effects' <=> other \in effects
         /\ \A d \in DryRun :
              /\ confirmRecords'[d] \in {confirmRecords[d], None}
              /\ approvalRecords'[d] \in {approvalRecords[d], None}
<1> USE CallTypes DEF TypeInv, TypeOK, Goto, environment, stores, history,
    Tokens!TypeOK, Approvals!TypeOK, Refuse, Forget
<1>1. CASE RejectInput(c)
  BY <1>1 DEF RejectInput
<1>2. CASE ReviewAgain(c)
  BY <1>2 DEF ReviewAgain
<1>3. CASE ReviewFails(c)
  BY <1>3 DEF ReviewFails
<1>4. CASE EvaluateDirectly(c)
  BY <1>4 DEF EvaluateDirectly
<1>5. CASE ValidateApproval(c)
  BY <1>5 DEF ValidateApproval, Approvals!Validate, Approvals!Drop
<1>6. CASE ConsumeToken(c)
  BY <1>6 DEF ConsumeToken, Tokens!Consume
<1>7. CASE ConsumeApproval(c)
  BY <1>7 DEF ConsumeApproval, Approvals!Consume, Approvals!Drop
<1>8. CASE AuthorizeExecution(c)
  BY <1>8 DEF AuthorizeExecution
<1>9. CASE Execute(c)
  BY <1>9 DEF Execute
<1>10. CASE RecordExecution(c)
  BY <1>10 DEF RecordExecution
<1> QED BY <1>1, <1>2, <1>3, <1>4, <1>5, <1>6, <1>7, <1>8, <1>9, <1>10
    DEF ConfirmStep, ConfirmContinues

(* What they do to the call itself: it ends without effect, ...            *)
Gone(c) ==
  /\ pc'[c] \in {"refused", "done"}
  /\ request'[c] = None /\ c \notin pending' /\ c \notin effects'
  /\ c \in accepted' <=> c \in accepted

(* ... or begins, with a request that needs a token or that needs none, ... *)
Begun(c) ==
  /\ pc[c] = "idle" /\ request'[c] # None
  /\ request'[c].token \in DryRun => pc[request'[c].token] = "returned"
  /\ request'[c].challenge \in DryRun => pc[request'[c].challenge] = "returned"
  /\ request'[c].approval \in DryRun => request'[c].approval \in signed
  /\ c \in accepted' <=> c \in accepted
  /\ c \in pending' <=> c \in pending
  /\ c \in effects' <=> c \in effects
  /\ OpInfo[request'[c].op].wellFormed
  /\ \/ pc'[c] = "reviewed" /\ NeedsToken(request'[c].handler, request'[c].op)
     \/ /\ pc'[c] = "confirmed"
        /\ ~ NeedsToken(request'[c].handler, request'[c].op)
        /\ \E intent \in BOOLEAN :
             DirectlyAllowed(request'[c].handler, request'[c].op, intent,
                             request'[c].unsafe)
        /\ Class(request'[c].op) \notin HighRisk

(* ... or moves from one of its states to another.                         *)
Moved(c, from, to) ==
  /\ pc[c] = from /\ pc'[c] = to
  /\ request[c] # None /\ request'[c] = request[c]
  /\ from # "validated" => (c \in accepted' <=> c \in accepted)
  /\ from # "reviewed" => (c \in pending' <=> c \in pending)
  /\ from # "confirmed" => (c \in effects' <=> c \in effects)

(* What policy.Evaluate allows directly is not of high risk.               *)
LEMMA LowRiskIfDirect ==
  ASSUME NEW op \in Operation, NEW handler, NEW intent, NEW unsafe,
         DirectlyAllowed(handler, op, intent, unsafe)
  PROVE  Class(op) \notin HighRisk
  BY DEF DirectlyAllowed, PolicyQuestion, Evaluate, AllowsDirectly, Decide,
     HighRisk, ExplicitRead

(* The six moves of a call that goes on, each with what it has checked.    *)
Validates(c) ==
  /\ Moved(c, "reviewed", "validated")
  /\ c \in pending' => ApprovalIsValid(c)
  /\ Class(request[c].op) \in HighRisk /\ approvalPolicy.mode = "required"
       => c \in pending'

SpendsToken(c) ==
  /\ Moved(c, "validated", "token_spent")
  /\ Tokens!Accepts(request[c].token, BindingOf(c), clock)
  /\ confirmRecords'[request[c].token] = None
  /\ c \in accepted'

SpendsApproval(c) ==
  /\ Moved(c, "token_spent", "approved")
  /\ c \in pending => /\ ApprovalIsValid(c)
                      /\ approvalRecords'[request[c].challenge] = None

(* A refused call is gone without effect.                                  *)
LEMMA RefusalOutcome ==
  ASSUME TokenInv, NEW c \in Confirm, Refuse(c), effects' = effects,
         accepted' = accepted, pc[c] \in {"idle"} \cup (ConfirmLive \ {"executed"})
  PROVE  Gone(c)
<1>1. c \notin effects /\ c \in Call
  BY CallTypes DEF TokenInv, TokenParts, HistoryIsPast
<1> QED BY <1>1 DEF Gone, Refuse, Forget, Goto, TokenInv, TypeInv, TypeOK

(* The first steps of a call refuse it or let it begin.                    *)
LEMMA BeginOutcome ==
  ASSUME TokenInv, NEW c \in Confirm,
         \/ RejectInput(c) \/ ReviewAgain(c) \/ ReviewFails(c)
         \/ EvaluateDirectly(c)
  PROVE  Gone(c) \/ Begun(c)
<1> USE CallTypes DEF TokenInv, TypeInv
<1>1. CASE RejectInput(c)
  BY <1>1, RefusalOutcome DEF RejectInput, history
<1>2. CASE ReviewFails(c)
  BY <1>2, RefusalOutcome DEF ReviewFails, history
<1>3. CASE ReviewAgain(c)
  <2>1. PICK op \in Operation : \E handler \in OpInfo[op].handlers :
          \E input \in Requests(op, handler) :
            /\ OpInfo[op].wellFormed
            /\ NeedsToken(handler, op) /\ request' = [request EXCEPT ![c] = input]
    BY <1>3 DEF ReviewAgain
  <2>2. PICK handler \in OpInfo[op].handlers :
          \E input \in Requests(op, handler) :
            /\ OpInfo[op].wellFormed
            /\ NeedsToken(handler, op) /\ request' = [request EXCEPT ![c] = input]
    BY <2>1
  <2>3. PICK input \in Requests(op, handler) :
          /\ OpInfo[op].wellFormed
          /\ NeedsToken(handler, op) /\ request' = [request EXCEPT ![c] = input]
    BY <2>2
  <2>4. request'[c] = input /\ input \in Request /\ input # None
    BY <2>3, RequestType, NoneAssumption DEF TypeOK
  <2>5. /\ input.handler = handler /\ input.op = op
        /\ input.token \in Returned \cup {"blank"}
        /\ input.challenge \in Challenges \cup {"blank"}
        /\ input.approval \in signed \cup {"blank", "legacy"}
    BY DEF Requests
  <2>6. pc'[c] = "reviewed"
    BY <1>3 DEF ReviewAgain, Goto, TypeOK
  <2>7. Begun(c)
    BY <1>3, <2>3, <2>4, <2>5, <2>6, CallAssumption
    DEF ReviewAgain, Begun, Returned, Challenges, history
  <2> QED BY <2>7
<1>4. CASE EvaluateDirectly(c)
  <2>1. CASE Refuse(c)
    BY <1>4, <2>1, RefusalOutcome DEF EvaluateDirectly, history
  <2>2. CASE ~ Refuse(c)
    <3>1. PICK op \in Operation, intent \in BOOLEAN :
          \E handler \in OpInfo[op].handlers : \E unsafe \in UnsafeModes(handler) :
            /\ OpInfo[op].wellFormed
            /\ ~ NeedsToken(handler, op)
            /\ DirectlyAllowed(handler, op, intent, unsafe)
            /\ request' = [request EXCEPT ![c] =
                  [ handler |-> handler, op |-> op, unsafe |-> unsafe,
                    review |-> [kind |-> "payload", version |-> 0],
                    token |-> "blank", challenge |-> "blank",
                    approval |-> "blank" ]]
            /\ Goto(c, "confirmed")
            /\ UNCHANGED pending
      BY <1>4, <2>2 DEF EvaluateDirectly
    <3>2. PICK handler \in OpInfo[op].handlers : \E unsafe \in UnsafeModes(handler) :
            /\ OpInfo[op].wellFormed
            /\ ~ NeedsToken(handler, op)
            /\ DirectlyAllowed(handler, op, intent, unsafe)
            /\ request' = [request EXCEPT ![c] =
                  [ handler |-> handler, op |-> op, unsafe |-> unsafe,
                    review |-> [kind |-> "payload", version |-> 0],
                    token |-> "blank", challenge |-> "blank",
                    approval |-> "blank" ]]
            /\ Goto(c, "confirmed")
            /\ UNCHANGED pending
      BY <3>1
    <3>3. PICK unsafe \in UnsafeModes(handler) :
            /\ OpInfo[op].wellFormed
            /\ ~ NeedsToken(handler, op)
            /\ DirectlyAllowed(handler, op, intent, unsafe)
            /\ request' = [request EXCEPT ![c] =
                  [ handler |-> handler, op |-> op, unsafe |-> unsafe,
                    review |-> [kind |-> "payload", version |-> 0],
                    token |-> "blank", challenge |-> "blank",
                    approval |-> "blank" ]]
            /\ Goto(c, "confirmed")
            /\ UNCHANGED pending
      BY <3>2
    <3>4. TypeInv'
      BY <1>4, ConfirmStepType DEF ConfirmStep
    <3>5. /\ pc'[c] = "confirmed"
          /\ request'[c].handler = handler /\ request'[c].op = op
          /\ request'[c].unsafe = unsafe
          /\ request'[c].token = "blank" /\ request'[c].challenge = "blank"
          /\ request'[c].approval = "blank"
      BY <3>3 DEF Goto, TypeOK
    <3>6. request'[c] # None
      BY <3>4, <3>5, NoneAssumption DEF RequestHeld, ConfirmLive
    <3>7. Class(op) \notin HighRisk
      BY <3>3, LowRiskIfDirect
    <3> QED BY <1>4, <3>3, <3>5, <3>6, <3>7, CallAssumption
         DEF EvaluateDirectly, Begun, history
  <2> QED BY <2>1, <2>2
<1> QED BY <1>1, <1>2, <1>3, <1>4

(* In required mode a high-risk call passes only by way of the store.      *)
LEMMA HighRiskIsLookedUp ==
  ASSUME NEW c, Class(request[c].op) \in HighRisk,
         approvalPolicy.mode = "required"
  PROVE  ApprovalVerdict(c) # "pass"
  BY DEF ApprovalVerdict, Approvals!RequireApproval

(* The later ones are the six moves or a refusal.                          *)
LEMMA ContinueOutcome ==
  ASSUME TokenInv, NEW c \in Confirm, ConfirmContinues(c)
  PROVE  \/ Gone(c) \/ Validates(c) \/ SpendsToken(c) \/ SpendsApproval(c)
         \/ Moved(c, "approved", "confirmed")
         \/ Moved(c, "confirmed", "executed")
         \/ Moved(c, "executed", "done")
<1> USE CallTypes DEF TokenInv, TypeInv
<1>request. request[c] \in Request /\ request[c] # None /\ pc[c] \in ConfirmLive
  BY NoneAssumption DEF ConfirmContinues, ValidateApproval, ConsumeToken,
     ConsumeApproval, AuthorizeExecution, Execute, RecordExecution,
     RequestHeld, ConfirmLive
<1>1. CASE ValidateApproval(c)
  <2>1. CASE Refuse(c)
    BY <1>request, <1>1, <2>1, RefusalOutcome DEF ValidateApproval, history
  <2>2. CASE ~ Refuse(c)
    <3>1. pc'[c] = "validated" /\ c \notin pending
      BY <1>1, <2>2 DEF ValidateApproval, Goto, TypeOK, TokenParts, HistoryIsPast
    <3>2. c \in pending' => ApprovalIsValid(c)
      BY <1>1, <2>2, <3>1 DEF ValidateApproval
    <3>3. ApprovalVerdict(c) # "pass" => c \in pending'
      BY <1>1, <2>2 DEF ValidateApproval
    <3>4. Moved(c, "reviewed", "validated")
      BY <1>request, <1>1, <2>2, <3>1 DEF ValidateApproval, Moved, history
    <3> QED BY <3>2, <3>3, <3>4, HighRiskIsLookedUp DEF Validates
  <2> QED BY <2>1, <2>2
<1>2. CASE ConsumeToken(c)
  <2>1. CASE Refuse(c) /\ accepted' = accepted
    BY <1>request, <1>2, <2>1, RefusalOutcome DEF ConsumeToken
  <2>2. CASE ~ (Refuse(c) /\ accepted' = accepted)
    <3>1. /\ Tokens!Accepts(request[c].token, BindingOf(c), clock)
          /\ accepted' = accepted \cup {c} /\ pc'[c] = "token_spent"
      BY <1>2, <2>2 DEF ConsumeToken, Goto, TypeOK
    <3>2. confirmRecords'[request[c].token] = None
      BY <1>2, <3>1 DEF ConsumeToken, Tokens!Consume, Tokens!Accepts, Tokens!Known
    <3>3. Moved(c, "validated", "token_spent")
      BY <1>request, <1>2, <2>2, <3>1 DEF ConsumeToken, Moved
    <3> QED BY <3>1, <3>2, <3>3 DEF SpendsToken
  <2> QED BY <2>1, <2>2
<1>3. CASE ConsumeApproval(c)
  <2>1. CASE Refuse(c)
    BY <1>request, <1>3, <2>1, RefusalOutcome DEF ConsumeApproval, history
  <2>2. CASE ~ Refuse(c)
    <3>1. pc'[c] = "approved" /\ (c \in pending => ApprovalIsValid(c))
      BY <1>3, <2>2 DEF ConsumeApproval, Goto, TypeOK
    <3>2. c \in pending => approvalRecords'[request[c].challenge] = None
      <4> SUFFICES ASSUME c \in pending
                   PROVE  approvalRecords'[request[c].challenge] = None
        OBVIOUS
      <4>1. request[c].challenge \in DryRun
        BY <3>1 DEF ApprovalIsValid, Approvals!Accepts, Approvals!Known
      <4>2. approvalRecords' = Approvals!Drop(request[c].challenge)
        BY <1>3, <3>1 DEF ConsumeApproval, Approvals!Consume, ApprovalIsValid
      <4> QED BY <4>1, <4>2 DEF Approvals!Drop
    <3>3. Moved(c, "token_spent", "approved")
      BY <1>request, <1>3, <2>2, <3>1 DEF ConsumeApproval, Moved, history
    <3> QED BY <3>1, <3>2, <3>3 DEF SpendsApproval
  <2> QED BY <2>1, <2>2
<1>4. CASE AuthorizeExecution(c)
  <2>1. CASE Refuse(c)
    BY <1>request, <1>4, <2>1, RefusalOutcome DEF AuthorizeExecution
  <2>2. CASE ~ Refuse(c)
    BY <1>request, <1>4, <2>2 DEF AuthorizeExecution, Moved, Goto, TypeOK
  <2> QED BY <2>1, <2>2
<1>5. CASE Execute(c)
  BY <1>request, <1>5 DEF Execute, Moved, Goto, TypeOK
<1>6. CASE RecordExecution(c)
  <2>1. pc[c] = "executed" /\ pc'[c] = "done"
    BY <1>6 DEF RecordExecution, Goto, TypeOK
  <2>2. CASE c \in effects
    BY <1>request, <1>6, <2>1, <2>2 DEF RecordExecution, Moved, Forget, history
  <2>3. CASE c \notin effects
    BY <1>6, <2>1, <2>3 DEF RecordExecution, Gone, Forget, history
  <2> QED BY <2>2, <2>3
<1> QED BY <1>1, <1>2, <1>3, <1>4, <1>5, <1>6 DEF ConfirmContinues
(* One of these outcomes is what every step of a confirm call comes to.    *)
Outcome(c) ==
  \/ Gone(c) \/ Begun(c) \/ Validates(c) \/ SpendsToken(c) \/ SpendsApproval(c)
  \/ Moved(c, "approved", "confirmed")
  \/ Moved(c, "confirmed", "executed")
  \/ Moved(c, "executed", "done")

(* Every step of a confirm call comes to one of the outcomes.              *)
LEMMA ConfirmOutcome ==
  ASSUME TokenInv, NEW c \in Confirm, ConfirmStep(c)
  PROVE  Outcome(c)
  BY BeginOutcome, ContinueOutcome DEF ConfirmStep, Outcome

(* The token part of the invariant, one conjunct at a time.                *)
LEMMA ConfirmKeepsHistory ==
  ASSUME TokenInv, NEW c \in Confirm, ConfirmStep(c)
  PROVE  /\ RecordsMatchOffers' /\ OffersAreReviewed'
         /\ InputsAreKnown' /\ HistoryIsPast'
<1> USE DEF TokenInv, TokenParts
<1>1. /\ UNCHANGED << offered, signed, approvalPolicy >>
      /\ \A other \in Call : other # c => pc'[other] = pc[other]
      /\ \A other \in Confirm : other # c =>
           /\ request'[other] = request[other]
           /\ other \in accepted' <=> other \in accepted
           /\ other \in pending' <=> other \in pending
           /\ other \in effects' <=> other \in effects
      /\ \A d \in DryRun :
           /\ confirmRecords'[d] \in {confirmRecords[d], None}
           /\ approvalRecords'[d] \in {approvalRecords[d], None}
  BY ConfirmFrame
<1>2. \A d \in DryRun : d \in Call /\ pc'[d] = pc[d]
  BY <1>1, CallTypes, CallAssumption
<1>3. Outcome(c)
  BY ConfirmOutcome
<1>4. RecordsMatchOffers' /\ OffersAreReviewed'
  BY <1>1, <1>2 DEF RecordsMatchOffers, OffersAreReviewed
<1>5. InputsAreKnown'
  BY <1>1, <1>2, <1>3 DEF InputsAreKnown, Outcome, Gone, Begun, Validates,
     SpendsToken, SpendsApproval, Moved
<1>6. HistoryIsPast'
  BY <1>1, <1>3, CallTypes DEF HistoryIsPast, Outcome, Gone, Begun, Validates,
     SpendsToken, SpendsApproval, Moved, ConfirmLive
<1> QED BY <1>4, <1>5, <1>6

(* A token is accepted from one call only: its record is there before and  *)
(* gone after.                                                             *)
LEMMA ConfirmKeepsSpending ==
  ASSUME TokenInv, NEW c \in Confirm, ConfirmStep(c)
  PROVE  AcceptedTokenIsSpent' /\ AcceptedTokensDiffer'
<1> USE DEF TokenInv, TokenParts
<1>1. /\ offered' = offered
      /\ \A other \in Confirm : other # c =>
           /\ request'[other] = request[other]
           /\ other \in accepted' <=> other \in accepted
      /\ \A d \in DryRun : confirmRecords'[d] \in {confirmRecords[d], None}
  BY ConfirmFrame
<1>2. accepted \subseteq Confirm /\ accepted' \subseteq Confirm
  BY ConfirmStepType DEF TypeInv, TypeOK
<1>3. CASE SpendsToken(c)
  <2>1. /\ request'[c] = request[c] /\ c \notin accepted
        /\ request[c].token \in DryRun
        /\ confirmRecords[request[c].token] # None
        /\ confirmRecords'[request[c].token] = None
        /\ offered[request[c].token] = BindingOf(c)
    BY <1>3 DEF SpendsToken, Moved, HistoryIsPast, RecordsMatchOffers,
       Tokens!Accepts, Tokens!Known
  <2>2. AcceptedTokenIsSpent'
    BY <1>1, <1>2, <2>1 DEF AcceptedTokenIsSpent, BindingOf
  <2>3. \A other \in accepted :
          request[other] # None => request[other].token # request[c].token
    BY <2>1 DEF AcceptedTokenIsSpent
  <2>4. AcceptedTokensDiffer'
    BY <1>1, <1>2, <2>1, <2>3 DEF AcceptedTokensDiffer
  <2> QED BY <2>2, <2>4
<1>4. CASE ~ SpendsToken(c)
  <2>1. \/ request'[c] = None
        \/ c \notin accepted'
        \/ request'[c] = request[c] /\ c \in accepted
    BY <1>4, ConfirmOutcome DEF Outcome, Gone, Begun, Validates, SpendsApproval,
       Moved, HistoryIsPast
  <2>2. AcceptedTokenIsSpent'
    BY <1>1, <1>2, <2>1 DEF AcceptedTokenIsSpent, BindingOf
  <2>3. AcceptedTokensDiffer'
    BY <1>1, <1>2, <2>1 DEF AcceptedTokensDiffer
  <2> QED BY <2>2, <2>3
<1> QED BY <1>3, <1>4

(* No call gets past the token store without its token.                    *)
LEMMA ConfirmKeepsGating ==
  ASSUME TokenInv, NEW c \in Confirm, ConfirmStep(c)
  PROVE  GatedNeedsToken' /\ UngatedIsLowRisk'
<1> USE DEF TokenInv, TokenParts
<1>1. /\ \A other \in Call : other # c => pc'[other] = pc[other]
      /\ \A other \in Confirm : other # c =>
           /\ request'[other] = request[other]
           /\ other \in accepted' <=> other \in accepted
           /\ other \in effects' <=> other \in effects
  BY ConfirmFrame
<1>2. Outcome(c)
  BY ConfirmOutcome
<1>3. UngatedIsLowRisk'
  BY <1>1, <1>2 DEF UngatedIsLowRisk, IsGated, Outcome, Gone, Begun, Validates,
     SpendsToken, SpendsApproval, Moved
<1>4. GatedNeedsToken'
  BY <1>1, <1>2, CallTypes DEF GatedNeedsToken, Through, HistoryIsPast, IsGated,
     Outcome, Gone, Begun, Validates, SpendsToken, SpendsApproval, Moved,
     ConfirmLive
<1> QED BY <1>3, <1>4
-----------------------------------------------------------------------------
(* The environment, and stuttering.                                        *)

(* What the host, remote edits and the clock leave alone.                  *)
LEMMA EnvironmentFrame ==
  ASSUME TypeInv,
         \/ \E d \in DryRun : HostSigns(d)
         \/ \E op \in Operation : RemoteEdit(op)
         \/ Tick
         \/ UNCHANGED vars
  PROVE  /\ UNCHANGED << approvalPolicy, stores, history, pc, offered, request,
                         pending >>
         /\ signed \subseteq signed'
  BY DEF HostSigns, RemoteEdit, Tick, vars, stores, history

(* What a restart empties and what it leaves.                              *)
LEMMA RestartFrame ==
  ASSUME TypeInv, Restart
  PROVE  /\ UNCHANGED << approvalPolicy, signed, accepted, effects, offered >>
         /\ confirmRecords' = [d \in DryRun |-> None]
         /\ approvalRecords' = [d \in DryRun |-> None]
         /\ \A c \in Call : pc'[c] = IF pc[c] \in DryRunLive \cup ConfirmLive
                                     THEN "lost" ELSE pc[c]
         /\ \A c \in Confirm : request'[c] \in {request[c], None}
         /\ \A c \in Confirm : request'[c] # None =>
              /\ pc[c] \notin ConfirmLive \/ c \in effects
              /\ c \in pending' <=> c \in pending
         /\ pending' \subseteq pending
         /\ \A c \in pending' : request'[c] = request[c]
<1> USE DEF TypeInv, TypeOK, Restart, environment, history, Forget
<1>1. UNCHANGED << approvalPolicy, signed, accepted, effects, offered >>
  OBVIOUS
<1> QED BY <1>1

(* The host, remote edits and the clock keep the token part.               *)
LEMMA EnvironmentKeepsTokenParts ==
  ASSUME TokenInv,
         \/ \E d \in DryRun : HostSigns(d)
         \/ \E op \in Operation : RemoteEdit(op)
         \/ Tick
         \/ UNCHANGED vars
  PROVE  TokenParts'
<1>1. /\ UNCHANGED << approvalPolicy, stores, history, pc, offered, request,
                      pending >>
      /\ signed \subseteq signed'
  BY EnvironmentFrame DEF TokenInv
<1> QED BY <1>1 DEF TokenInv, TokenParts, stores, history, RecordsMatchOffers,
     OffersAreReviewed, InputsAreKnown, HistoryIsPast, AcceptedTokenIsSpent,
     AcceptedTokensDiffer, GatedNeedsToken, UngatedIsLowRisk, Through, IsGated,
     BindingOf

(* So does a restart: it only takes records and requests away.             *)
LEMMA RestartKeepsTokenParts ==
  ASSUME TokenInv, Restart
  PROVE  TokenParts'
<1> USE DEF TokenInv, TokenParts
<1>1. /\ UNCHANGED << approvalPolicy, signed, accepted, effects, offered >>
      /\ confirmRecords' = [d \in DryRun |-> None]
      /\ approvalRecords' = [d \in DryRun |-> None]
      /\ \A c \in Call : pc'[c] = IF pc[c] \in DryRunLive \cup ConfirmLive
                                  THEN "lost" ELSE pc[c]
      /\ \A c \in Confirm : request'[c] \in {request[c], None}
      /\ \A c \in Confirm : request'[c] # None =>
           pc[c] \notin ConfirmLive \/ c \in effects
      /\ pending' \subseteq pending
      /\ \A c \in pending' : request'[c] = request[c]
  BY RestartFrame
<1>2. accepted \subseteq Confirm /\ pending \subseteq Confirm
  BY DEF TypeInv, TypeOK
<1>3. RecordsMatchOffers' /\ OffersAreReviewed'
  BY <1>1 DEF RecordsMatchOffers, OffersAreReviewed
<1>4. InputsAreKnown'
  <2>1. \A d \in DryRun : pc[d] = "returned" => pc'[d] = "returned"
    BY <1>1, CallTypes DEF DryRunLive, ConfirmLive
  <2> QED BY <1>1, <2>1 DEF InputsAreKnown
<1>5. HistoryIsPast'
  BY <1>1, <1>2, CallTypes DEF HistoryIsPast, DryRunLive, ConfirmLive
<1>6. AcceptedTokenIsSpent' /\ AcceptedTokensDiffer'
  BY <1>1, <1>2 DEF AcceptedTokenIsSpent, AcceptedTokensDiffer, BindingOf
<1>7. GatedNeedsToken' /\ UngatedIsLowRisk'
  BY <1>1, <1>2, CallTypes DEF GatedNeedsToken, UngatedIsLowRisk, Through,
     IsGated, ConfirmLive, DryRunLive
<1> QED BY <1>3, <1>4, <1>5, <1>6, <1>7

(* The token part holds at first, ...                                      *)
LEMMA TokenInit == Init => TokenInv
<1> SUFFICES ASSUME Init PROVE TokenInv
  OBVIOUS
<1>1. TypeInv
  BY TypeInit
<1>2. /\ \A d \in DryRun : confirmRecords[d] = None /\ approvalRecords[d] = None
                           /\ offered[d] = None
      /\ \A c \in Confirm : request[c] = None
      /\ pending = {} /\ accepted = {} /\ effects = {}
  BY DEF Init, Tokens!Init, Approvals!Init
<1>3. TokenParts
  BY <1>2 DEF TokenParts, RecordsMatchOffers, OffersAreReviewed, InputsAreKnown,
     HistoryIsPast, AcceptedTokenIsSpent, AcceptedTokensDiffer, GatedNeedsToken,
     UngatedIsLowRisk, Through
<1> QED BY <1>1, <1>3 DEF TokenInv

(* ... every step keeps it, ...                                            *)
LEMMA TokenStep ==
  ASSUME TokenInv, [Next]_vars
  PROVE  TokenInv'
<1>1. TypeInv'
  BY TypeStep DEF TokenInv
<1>2. TokenParts'
  <2>1. ASSUME NEW c \in Confirm, ConfirmStep(c) PROVE TokenParts'
    BY <2>1, ConfirmKeepsHistory, ConfirmKeepsSpending, ConfirmKeepsGating
    DEF TokenParts
  <2> QED BY <2>1, DryRunKeepsTokenParts, EnvironmentKeepsTokenParts,
       RestartKeepsTokenParts DEF Next
<1> QED BY <1>1, <1>2 DEF TokenInv

(* ... so it always holds.                                                 *)
LEMMA TokenInvariance == Spec => []TokenInv
  BY TokenInit, TokenStep, PTL DEF Spec

(* Whatever calls race for a token, however often it is presented again,   *)
(* and whether the clock moves or the server restarts in between, one call *)
(* at most has an effect on its strength: Store.Consume deletes a record   *)
(* before it looks at it, and a spent record never comes back.             *)
THEOREM TokenHasOneEffect == Spec => []OneEffectPerToken
<1>1. TokenInv => OneEffectPerToken
  <2> SUFFICES ASSUME TokenInv, NEW c1 \in Gated, NEW c2 \in Gated,
                      request[c1].token = request[c2].token
               PROVE  c1 = c2
    BY DEF OneEffectPerToken
  <2>1. ASSUME NEW c \in Gated PROVE c \in accepted /\ request[c] # None
    <3>1. /\ c \in Confirm /\ c \in effects /\ IsGated(c)
          /\ request[c] # None
      BY NoneAssumption DEF Gated, TokenInv, TypeInv, TypeOK, RequestHeld
    <3> QED BY <3>1 DEF TokenInv, TokenParts, GatedNeedsToken, Through
  <2> QED BY <2>1 DEF TokenInv, TokenParts, AcceptedTokensDiffer
<1> QED BY <1>1, TokenInvariance, PTL

(* No high-risk operation takes effect except by a token whose dry run was *)
(* answered, and only for the operation, the unsafe mode and the review    *)
(* that dry run had, which the confirm call has come to again by looking   *)
(* at the item itself (what happens to it after that look is not said):    *)
(* handlers that ignore an error of their own review are saved by the      *)
(* comparison of bindings.                                                 *)
THEOREM HighRiskTakesConfirmation == Spec => []HighRiskIsConfirmed
<1>1. TokenInv => HighRiskIsConfirmed
  <2> SUFFICES ASSUME TokenInv, NEW c \in effects,
                      Class(request[c].op) \in HighRisk
               PROVE  /\ IsGated(c)
                      /\ pc[request[c].token] = "returned"
                      /\ offered[request[c].token] = BindingOf(c)
                      /\ request[c].review.kind # "failed"
    BY DEF HighRiskIsConfirmed
  <2>1. c \in Confirm /\ request[c] \in Request /\ request[c] # None
    BY NoneAssumption DEF TokenInv, TypeInv, TypeOK, RequestHeld
  <2>2. IsGated(c)
    BY <2>1 DEF TokenInv, TokenParts, UngatedIsLowRisk
  <2>3. c \in accepted
    BY <2>1, <2>2 DEF TokenInv, TokenParts, GatedNeedsToken, Through
  <2>4. /\ request[c].token \in DryRun
        /\ offered[request[c].token] = BindingOf(c)
    BY <2>1, <2>3 DEF TokenInv, TokenParts, AcceptedTokenIsSpent
  <2>5. pc[request[c].token] = "returned"
    BY <2>1, <2>4 DEF TokenInv, TokenParts, InputsAreKnown
  <2>6. BindingOf(c) \in Binding
    BY <2>1, BindingType DEF TokenInv, TypeInv
  <2>7. BindingOf(c).review.kind # "failed"
    BY <2>4, <2>6, NoneAssumption DEF TokenInv, TokenParts, OffersAreReviewed
  <2> QED BY <2>2, <2>4, <2>5, <2>7 DEF BindingOf
<1> QED BY <1>1, TokenInvariance, PTL
-----------------------------------------------------------------------------
(* The approval part of the invariant.                                     *)

(* A call holds an approval only after the store has vouched for it.       *)
LEMMA ConfirmKeepsPending ==
  ASSUME IInv, NEW c \in Confirm, ConfirmStep(c)
  PROVE  PendingIsSigned' /\ HighRiskIsPending'
<1> USE DEF IInv, TokenInv, TokenParts
<1>1. /\ UNCHANGED << offered, signed, approvalPolicy >>
      /\ \A other \in Call : other # c => pc'[other] = pc[other]
      /\ \A other \in Confirm : other # c =>
           /\ request'[other] = request[other]
           /\ other \in pending' <=> other \in pending
           /\ other \in effects' <=> other \in effects
  BY ConfirmFrame
<1>2. Outcome(c)
  BY ConfirmOutcome
<1>3. pending \subseteq Confirm /\ pending' \subseteq Confirm
  BY ConfirmStepType DEF TypeInv, TypeOK
<1>4. PendingIsSigned'
  <2>1. CASE Validates(c) /\ c \in pending'
    <3>1. request'[c] = request[c] /\ request[c] # None /\ ApprovalIsValid(c)
      BY <2>1 DEF Validates, Moved
    <3>2. /\ request[c].challenge \in DryRun
          /\ request[c].approval = request[c].challenge
          /\ offered[request[c].challenge] = BindingOf(c)
      BY <3>1 DEF ApprovalIsValid, Approvals!Accepts, Approvals!Known,
         RecordsMatchOffers
    <3>3. request[c].challenge \in signed
      BY <3>1, <3>2 DEF InputsAreKnown
    <3> QED BY <1>1, <1>3, <3>1, <3>2, <3>3 DEF PendingIsSigned, BindingOf
  <2>2. CASE ~ (Validates(c) /\ c \in pending')
    <3>1. c \notin pending' \/ (c \in pending /\ request'[c] = request[c])
      BY <1>2, <2>2 DEF Outcome, Gone, Begun, SpendsToken, SpendsApproval, Moved,
         HistoryIsPast
    <3> QED BY <1>1, <1>3, <3>1 DEF PendingIsSigned, BindingOf
  <2> QED BY <2>1, <2>2
<1>5. HighRiskIsPending'
  BY <1>1, <1>2, CallTypes DEF HighRiskIsPending, Through, HistoryIsPast, Outcome,
     Gone, Begun, Validates, SpendsToken, SpendsApproval, Moved, ConfirmLive
<1> QED BY <1>4, <1>5

(* A challenge is consumed by one call only, whoever validated it before.  *)
LEMMA ConfirmKeepsApprovals ==
  ASSUME IInv, NEW c \in Confirm, ConfirmStep(c)
  PROVE  ApprovedChallengeIsSpent'
<1> USE DEF IInv, TokenInv, TokenParts
<1>1. /\ \A other \in Call : other # c => pc'[other] = pc[other]
      /\ \A other \in Confirm : other # c =>
           /\ request'[other] = request[other]
           /\ other \in pending' <=> other \in pending
           /\ other \in effects' <=> other \in effects
      /\ \A d \in DryRun : approvalRecords'[d] \in {approvalRecords[d], None}
  BY ConfirmFrame
<1>2. pending \subseteq Confirm /\ pending' \subseteq Confirm
  BY ConfirmStepType DEF TypeInv, TypeOK
<1>3. \A other \in pending : request[other].challenge \in DryRun
  BY DEF PendingIsSigned
<1>4. \A other \in Confirm : other # c =>
        (PastApproval(other)' <=> PastApproval(other))
  BY <1>1, CallTypes DEF PastApproval, Through
<1>5. CASE SpendsApproval(c) /\ c \in pending
  <2>1. /\ request'[c] = request[c] /\ c \in pending'
        /\ approvalRecords[request[c].challenge] # None
        /\ approvalRecords'[request[c].challenge] = None
    BY <1>5 DEF SpendsApproval, Moved, ApprovalIsValid, Approvals!Accepts,
       Approvals!Known
  <2>2. \A other \in pending : PastApproval(other) =>
          request[other].challenge # request[c].challenge
    BY <2>1 DEF ApprovedChallengeIsSpent
  <2> QED BY <1>1, <1>2, <1>3, <1>4, <2>1, <2>2 DEF ApprovedChallengeIsSpent
<1>6. CASE ~ (SpendsApproval(c) /\ c \in pending)
  <2>1. \/ c \notin pending'
        \/ ~ PastApproval(c)'
        \/ c \in pending /\ request'[c] = request[c] /\ PastApproval(c)
    <3>1. CASE SpendsApproval(c)
      BY <1>6, <3>1 DEF SpendsApproval, Moved
    <3>2. CASE Validates(c) \/ SpendsToken(c)
      BY <3>2 DEF Validates, SpendsToken, Moved, PastApproval, Through,
         HistoryIsPast, ConfirmLive
    <3>3. CASE Gone(c) \/ Begun(c)
      BY <3>3 DEF Gone, Begun, HistoryIsPast
    <3>4. CASE \/ Moved(c, "approved", "confirmed")
               \/ Moved(c, "confirmed", "executed")
               \/ Moved(c, "executed", "done")
      BY <3>4 DEF Moved, PastApproval, Through
    <3> QED BY <3>1, <3>2, <3>3, <3>4, ConfirmOutcome DEF Outcome
  <2> QED BY <1>1, <1>2, <1>3, <1>4, <2>1 DEF ApprovedChallengeIsSpent
<1> QED BY <1>5, <1>6

(* The host, remote edits and the clock keep the approval part.            *)
LEMMA EnvironmentKeepsApprovalParts ==
  ASSUME IInv,
         \/ \E d \in DryRun : HostSigns(d)
         \/ \E op \in Operation : RemoteEdit(op)
         \/ Tick
         \/ UNCHANGED vars
  PROVE  PendingIsSigned' /\ HighRiskIsPending' /\ ApprovedChallengeIsSpent'
<1>1. /\ UNCHANGED << approvalPolicy, stores, history, pc, offered, request,
                      pending >>
      /\ signed \subseteq signed'
  BY EnvironmentFrame DEF IInv, TokenInv
<1> QED BY <1>1 DEF IInv, stores, history, PendingIsSigned, HighRiskIsPending,
     ApprovedChallengeIsSpent, PastApproval, Through, BindingOf

(* So does a restart.                                                      *)
LEMMA RestartKeepsApprovalParts ==
  ASSUME IInv, Restart
  PROVE  PendingIsSigned' /\ HighRiskIsPending' /\ ApprovedChallengeIsSpent'
<1> USE DEF IInv, TokenInv, TokenParts
<1>1. /\ UNCHANGED << approvalPolicy, signed, effects, offered >>
      /\ approvalRecords' = [d \in DryRun |-> None]
      /\ \A c \in Call : pc'[c] = IF pc[c] \in DryRunLive \cup ConfirmLive
                                  THEN "lost" ELSE pc[c]
      /\ \A c \in Confirm : request'[c] \in {request[c], None}
      /\ \A c \in Confirm : request'[c] # None =>
           /\ pc[c] \notin ConfirmLive \/ c \in effects
           /\ c \in pending' <=> c \in pending
      /\ pending' \subseteq pending
      /\ \A c \in pending' : request'[c] = request[c]
  BY RestartFrame
<1>2. pending \subseteq Confirm
  BY DEF TypeInv, TypeOK
<1>3. PendingIsSigned'
  BY <1>1 DEF PendingIsSigned, BindingOf
<1>4. \A c \in Confirm : request'[c] # None =>
        (pc'[c] \in ConfirmLive \/ c \in effects' => c \in effects)
  BY <1>1, CallTypes DEF ConfirmLive, DryRunLive
<1>5. HighRiskIsPending'
  BY <1>1, <1>4, CallTypes DEF HighRiskIsPending, Through, ConfirmLive
<1>6. ApprovedChallengeIsSpent'
  <2>1. \A c \in pending' : PastApproval(c)' => c \in pending /\ PastApproval(c)
    BY <1>1, <1>2, <1>4 DEF PastApproval, Through, ConfirmLive
  <2> QED BY <1>1, <1>2, <2>1 DEF ApprovedChallengeIsSpent, PendingIsSigned
<1> QED BY <1>3, <1>5, <1>6

(* The whole invariant holds at first, ...                                 *)
LEMMA IInit == Init => IInv
<1> SUFFICES ASSUME Init PROVE IInv
  OBVIOUS
<1>1. TokenInv
  BY TokenInit
<1>2. pending = {} /\ effects = {} /\ \A c \in Confirm : request[c] = None
  BY DEF Init
<1> QED BY <1>1, <1>2 DEF IInv, PendingIsSigned, HighRiskIsPending,
     ApprovedChallengeIsSpent, Through

(* ... every step keeps it, ...                                            *)
LEMMA IStep ==
  ASSUME IInv, [Next]_vars
  PROVE  IInv'
<1>1. TokenInv'
  BY TokenStep DEF IInv
<1>2. PendingIsSigned' /\ HighRiskIsPending' /\ ApprovedChallengeIsSpent'
  <2>1. ASSUME NEW c \in Confirm, ConfirmStep(c)
        PROVE  PendingIsSigned' /\ HighRiskIsPending' /\ ApprovedChallengeIsSpent'
    BY <2>1, ConfirmKeepsPending, ConfirmKeepsApprovals
  <2> QED BY <2>1, DryRunKeepsApprovalParts, EnvironmentKeepsApprovalParts,
       RestartKeepsApprovalParts DEF Next
<1> QED BY <1>1, <1>2 DEF IInv

(* ... so it always holds.                                                 *)
LEMMA IInvariance == Spec => []IInv
  BY IInit, IStep, PTL DEF Spec

(* In required mode no high-risk operation takes effect unless the host    *)
(* signed a challenge for that operation, unsafe mode and review: a call   *)
(* that presents somebody else's challenge, or none, never gets there.     *)
THEOREM HighRiskTakesApproval == Spec => []HighRiskIsApproved
<1>1. IInv => HighRiskIsApproved
  <2> SUFFICES ASSUME IInv, NEW c \in effects, Class(request[c].op) \in HighRisk,
                      approvalPolicy.mode = "required"
               PROVE  /\ c \in pending
                      /\ request[c].challenge \in signed
                      /\ offered[request[c].challenge] = BindingOf(c)
    BY DEF HighRiskIsApproved
  <2>1. c \in Confirm /\ request[c] # None
    BY NoneAssumption DEF IInv, TokenInv, TypeInv, TypeOK, RequestHeld
  <2>2. c \in pending
    BY <2>1 DEF IInv, HighRiskIsPending, Through
  <2> QED BY <2>2 DEF IInv, PendingIsSigned
<1> QED BY <1>1, IInvariance, PTL

(* One signature of the host is good for one effect, although a call       *)
(* validates its challenge in one step and consumes it in a later one: the *)
(* second look, not the first, is what counts.                             *)
THEOREM ChallengeHasOneEffect == Spec => []OneEffectPerChallenge
<1>1. IInv => OneEffectPerChallenge
  <2> SUFFICES ASSUME IInv, NEW c1 \in Gated \cap pending,
                      NEW c2 \in Gated \cap pending,
                      request[c1].challenge = request[c2].challenge
               PROVE  c1 = c2
    BY DEF OneEffectPerChallenge
  <2>1. ASSUME NEW c \in Gated PROVE PastApproval(c)
    BY NoneAssumption DEF Gated, IInv, TokenInv, TypeInv, TypeOK, RequestHeld,
       PastApproval, Through
  <2> QED BY <2>1 DEF IInv, ApprovedChallengeIsSpent
<1> QED BY <1>1, IInvariance, PTL
-----------------------------------------------------------------------------
(* Policy.                                                                 *)

(* A dry run offers only what the policy would let through once confirmed. *)
OffersAreAllowed ==
  \A d \in DryRun : offered[d] # None =>
    /\ OpInfo[offered[d].op].wellFormed
    /\ ConfirmedAllowed(offered[d].op, offered[d].unsafe)

(* A call begins only on a well-formed operation, and without a token only *)
(* on what the policy lets through directly.                               *)
RequestsAreAllowed ==
  \A c \in Confirm : request[c] # None =>
    /\ OpInfo[request[c].op].wellFormed
    /\ ~ IsGated(c) =>
         \E intent \in BOOLEAN :
           DirectlyAllowed(request[c].handler, request[c].op, intent,
                           request[c].unsafe)

PolicyInv == OffersAreAllowed /\ RequestsAreAllowed

(* A dry run asks the policy before it offers, ...                         *)
LEMMA DryRunKeepsPolicy ==
  ASSUME TypeInv, PolicyInv, NEW d \in DryRun, DryRunStep(d)
  PROVE  PolicyInv'
<1>1. /\ request' = request
      /\ pc[d] # "idle" => offered' = offered
      /\ \A other \in DryRun : other # d => offered'[other] = offered[other]
  BY DryRunFrame
<1>2. RequestsAreAllowed'
  BY <1>1 DEF PolicyInv, RequestsAreAllowed, IsGated
<1>3. OffersAreAllowed'
  <2>1. CASE DryRunReview(d)
    <3>1. PICK op \in Operation, unsafe \in UnsafeInputs : \E review \in Reviews(op) :
            /\ OpInfo[op].wellFormed
            /\ ConfirmedAllowed(op, unsafe)
            /\ offered' = [offered EXCEPT ![d] =
                             [op |-> op, unsafe |-> unsafe, review |-> review]]
      BY <2>1 DEF DryRunReview
    <3>2. /\ OpInfo[op].wellFormed /\ ConfirmedAllowed(op, unsafe)
          /\ offered'[d].op = op /\ offered'[d].unsafe = unsafe
      BY <3>1 DEF TypeInv, TypeOK
    <3> QED BY <1>1, <3>2 DEF PolicyInv, OffersAreAllowed
  <2>2. CASE ~ DryRunReview(d)
    <3>1. offered' = offered
      BY <2>2 DEF DryRunStep, DryRunRefuse, GenerateToken, IssueChallenge,
         DryRunFails, DryRunRespond
    <3> QED BY <3>1 DEF PolicyInv, OffersAreAllowed
  <2> QED BY <2>1, <2>2
<1> QED BY <1>2, <1>3 DEF PolicyInv

(* ... a confirm call before it begins, ...                                *)
LEMMA ConfirmKeepsPolicy ==
  ASSUME TokenInv, PolicyInv, NEW c \in Confirm, ConfirmStep(c)
  PROVE  PolicyInv'
<1>1. /\ offered' = offered
      /\ \A other \in Confirm : other # c => request'[other] = request[other]
  BY ConfirmFrame DEF TokenInv
<1>2. Outcome(c)
  BY ConfirmOutcome
<1>3. \/ request'[c] = None \/ request'[c] = request[c] \/ Begun(c)
  BY <1>2 DEF Outcome, Gone, Validates, SpendsToken, SpendsApproval, Moved
<1>4. OffersAreAllowed'
  BY <1>1 DEF PolicyInv, OffersAreAllowed
<1>5. RequestsAreAllowed'
  BY <1>1, <1>3 DEF PolicyInv, RequestsAreAllowed, IsGated, Begun
<1> QED BY <1>4, <1>5 DEF PolicyInv

(* ... so the policy has been asked for all that is under way.             *)
LEMMA PolicyInvariance == Spec => []PolicyInv
<1>1. Init => PolicyInv
  BY DEF Init, PolicyInv, OffersAreAllowed, RequestsAreAllowed
<1>2. TokenInv /\ PolicyInv /\ [Next]_vars => PolicyInv'
  <2> SUFFICES ASSUME TokenInv, PolicyInv, [Next]_vars PROVE PolicyInv'
    OBVIOUS
  <2>1. CASE Restart
    <3>1. /\ offered' = offered
          /\ \A c \in Confirm : request'[c] \in {request[c], None}
      BY <2>1, RestartFrame DEF TokenInv
    <3> QED BY <3>1 DEF PolicyInv, OffersAreAllowed, RequestsAreAllowed, IsGated
  <2>2. CASE \/ \E d \in DryRun : HostSigns(d)
             \/ \E op \in Operation : RemoteEdit(op)
             \/ Tick
             \/ UNCHANGED vars
    <3>1. UNCHANGED << offered, request >>
      BY <2>2, EnvironmentFrame DEF TokenInv
    <3> QED BY <3>1 DEF PolicyInv, OffersAreAllowed, RequestsAreAllowed, IsGated
  <2> QED BY <2>1, <2>2, DryRunKeepsPolicy, ConfirmKeepsPolicy
       DEF Next, TokenInv
<1> QED BY <1>1, <1>2, TokenInvariance, PTL DEF Spec

(* What the tables of the policy let through, confirmed or directly: they  *)
(* never let an operation of an unsafe class through outside unsafe mode,  *)
(* nor an explicit read without its target.                                *)
WithinPolicy(op, unsafe) ==
  /\ Class(op) \in {"destructive", "unknown"} => unsafe
  /\ Class(op) \in ExplicitRead => OpInfo[op].explicitTarget

LEMMA ConfirmedWithinPolicy ==
  ASSUME NEW op, NEW unsafe, ConfirmedAllowed(op, unsafe)
  PROVE  WithinPolicy(op, unsafe)
  BY DEF WithinPolicy, ConfirmedAllowed, PolicyQuestion, EvaluateConfirmed,
     AllowsConfirmed, AllowsDirectly, Decide, ExplicitRead, NeedsUnsafe

LEMMA DirectWithinPolicy ==
  ASSUME NEW op, NEW unsafe, NEW handler, NEW intent,
         DirectlyAllowed(handler, op, intent, unsafe)
  PROVE  WithinPolicy(op, unsafe)
  BY DEF WithinPolicy, DirectlyAllowed, PolicyQuestion, Evaluate,
     AllowsDirectly, Decide, ExplicitRead

(* No operation takes effect outside the policy, although two of the       *)
(* handlers do not ask it again when the call is confirmed: a token is     *)
(* compared with the operation and the unsafe mode its dry run asked for.  *)
THEOREM EffectsAreAllowedByPolicy == Spec => []EffectIsAllowedByPolicy
<1>1. TokenInv /\ PolicyInv => EffectIsAllowedByPolicy
  <2> SUFFICES ASSUME TokenInv, PolicyInv, NEW c \in effects
               PROVE  /\ OpInfo[request[c].op].wellFormed
                      /\ WithinPolicy(request[c].op, request[c].unsafe)
    BY DEF EffectIsAllowedByPolicy, WithinPolicy, Class
  <2>1. c \in Confirm /\ request[c] \in Request /\ request[c] # None
    BY NoneAssumption DEF TokenInv, TypeInv, TypeOK, RequestHeld
  <2>2. OpInfo[request[c].op].wellFormed
    BY <2>1 DEF PolicyInv, RequestsAreAllowed
  <2>3. CASE IsGated(c)
    <3>1. c \in accepted
      BY <2>1, <2>3 DEF TokenInv, TokenParts, GatedNeedsToken, Through
    <3>2. /\ request[c].token \in DryRun
          /\ offered[request[c].token] = BindingOf(c)
      BY <2>1, <3>1 DEF TokenInv, TokenParts, AcceptedTokenIsSpent
    <3>3. BindingOf(c) # None
      BY <2>1, BindingType, NoneAssumption DEF TokenInv, TypeInv
    <3>4. ConfirmedAllowed(request[c].op, request[c].unsafe)
      BY <3>2, <3>3 DEF PolicyInv, OffersAreAllowed, BindingOf
    <3> QED BY <2>2, <3>4, ConfirmedWithinPolicy
  <2>4. CASE ~ IsGated(c)
    <3>1. PICK intent \in BOOLEAN :
            DirectlyAllowed(request[c].handler, request[c].op, intent,
                            request[c].unsafe)
      BY <2>1, <2>4 DEF PolicyInv, RequestsAreAllowed
    <3> QED BY <2>2, <3>1, DirectWithinPolicy
  <2> QED BY <2>3, <2>4
<1> QED BY <1>1, TokenInvariance, PolicyInvariance, PTL
-----------------------------------------------------------------------------
(* The audit log.                                                          *)

(* Only a call that has been refused is logged as rejected, and it stays   *)
(* refused.                                                                *)
RejectedIsRefused ==
  \A c \in Confirm : <<c, "reject">> \in audit => pc[c] = "refused"

(* A sink that works has a line for every step that must have been logged. *)
StepsAreLogged ==
  ~ AuditMayFail =>
    /\ \A c \in Confirm : Through(c, {"confirmed", "executed"}) /\ IsGated(c)
         => <<c, "confirm">> \in audit
    /\ \A d \in DryRun : pc[d] = "returned" => <<d, "dry_run">> \in audit

(* The log grows, by lines about the call that takes the step.             *)
LEMMA DryRunLogs ==
  ASSUME TypeInv, NEW d \in DryRun, DryRunStep(d)
  PROVE  /\ audit \subseteq audit'
         /\ \A c \in Confirm, event \in AuditEvent :
              <<c, event>> \in audit' => <<c, event>> \in audit
         /\ ~ AuditMayFail /\ pc'[d] = "returned" => <<d, "dry_run">> \in audit'
<1>1. \A c \in Confirm : c # d
  BY CallAssumption
<1>2. pc'[d] = "returned" => DryRunRespond(d)
  BY CallTypes DEF DryRunStep, DryRunRefuse, DryRunReview, GenerateToken,
     IssueChallenge, DryRunFails, Goto, TypeInv, TypeOK
<1> QED BY <1>1, <1>2 DEF DryRunStep, DryRunRefuse, DryRunReview, GenerateToken,
     IssueChallenge, DryRunFails, DryRunRespond, Log

(* So do the steps of a confirm call.                                      *)
LEMMA ConfirmLogs ==
  ASSUME TokenInv, NEW c \in Confirm, ConfirmStep(c)
  PROVE  /\ pc[c] # "refused"
         /\ audit \subseteq audit'
         /\ \A other \in Confirm, event \in AuditEvent : other # c =>
              (<<other, event>> \in audit' => <<other, event>> \in audit)
         /\ <<c, "reject">> \in audit' =>
              <<c, "reject">> \in audit \/ pc'[c] = "refused"
         /\ ~ AuditMayFail /\ Moved(c, "approved", "confirmed") =>
              <<c, "confirm">> \in audit'
<1> USE CallTypes DEF TokenInv, TypeInv, TypeOK, Log, Refuse, Goto
<1>1. CASE RejectInput(c)
  BY <1>1 DEF RejectInput, Moved
<1>2. CASE ReviewAgain(c)
  BY <1>2 DEF ReviewAgain, Moved
<1>3. CASE ReviewFails(c)
  BY <1>3 DEF ReviewFails, Moved
<1>4. CASE EvaluateDirectly(c)
  BY <1>4 DEF EvaluateDirectly, Moved
<1>5. CASE ValidateApproval(c)
  BY <1>5 DEF ValidateApproval, Moved
<1>6. CASE ConsumeToken(c)
  BY <1>6 DEF ConsumeToken, Moved
<1>7. CASE ConsumeApproval(c)
  BY <1>7 DEF ConsumeApproval, Moved
<1>8. CASE AuthorizeExecution(c)
  BY <1>8 DEF AuthorizeExecution, Moved
<1>9. CASE Execute(c)
  BY <1>9 DEF Execute, Moved
<1>10. CASE RecordExecution(c)
  BY <1>10 DEF RecordExecution, Moved
<1> QED BY <1>1, <1>2, <1>3, <1>4, <1>5, <1>6, <1>7, <1>8, <1>9, <1>10
    DEF ConfirmStep, ConfirmContinues

(* What is logged as rejected is refused ...                               *)
LEMMA RejectedInvariance == Spec => []RejectedIsRefused
<1>1. Init => RejectedIsRefused
  BY DEF Init, RejectedIsRefused
<1>2. TokenInv /\ RejectedIsRefused /\ [Next]_vars => RejectedIsRefused'
  <2> SUFFICES ASSUME TokenInv, RejectedIsRefused, [Next]_vars
               PROVE  RejectedIsRefused'
    OBVIOUS
  <2> USE CallTypes DEF RejectedIsRefused, AuditEvent, TokenInv
  <2>1. ASSUME NEW d \in DryRun, DryRunStep(d) PROVE RejectedIsRefused'
    <3>1. \A c \in Confirm : c # d /\ pc'[c] = pc[c]
      BY <2>1, DryRunFrame, CallAssumption
    <3> QED BY <2>1, <3>1, DryRunLogs
  <2>2. ASSUME NEW c \in Confirm, ConfirmStep(c) PROVE RejectedIsRefused'
    <3>1. \A other \in Confirm : other # c => pc'[other] = pc[other]
      BY <2>2, ConfirmFrame
    <3> QED BY <2>2, <3>1, ConfirmLogs
  <2>3. CASE Restart
    <3>1. \A c \in Confirm : pc[c] = "refused" => pc'[c] = "refused"
      BY <2>3, RestartFrame DEF DryRunLive, ConfirmLive
    <3> QED BY <2>3, <3>1 DEF Restart
  <2>4. CASE \/ \E d \in DryRun : HostSigns(d)
             \/ \E op \in Operation : RemoteEdit(op)
             \/ Tick
             \/ UNCHANGED vars
    BY <2>4 DEF HostSigns, RemoteEdit, Tick, vars
  <2> QED BY <2>1, <2>2, <2>3, <2>4 DEF Next
<1> QED BY <1>1, <1>2, TokenInvariance, PTL DEF Spec

(* ... and what must be logged is, when the sink works.                    *)
LEMMA LoggedInvariance == Spec => []StepsAreLogged
<1>1. Init => StepsAreLogged
  BY CallTypes DEF Init, StepsAreLogged, Through
<1>2. TokenInv /\ StepsAreLogged /\ [Next]_vars => StepsAreLogged'
  <2> SUFFICES ASSUME TokenInv, StepsAreLogged, [Next]_vars, ~ AuditMayFail
               PROVE  StepsAreLogged'
    BY DEF StepsAreLogged
  <2> USE CallTypes DEF StepsAreLogged, TokenInv
  <2>1. ASSUME NEW d \in DryRun, DryRunStep(d) PROVE StepsAreLogged'
    <3>1. /\ UNCHANGED << request, effects >>
          /\ \A other \in Call : other # d => pc'[other] = pc[other]
      BY <2>1, DryRunFrame
    <3>2. \A c \in Confirm : c # d
      BY CallAssumption
    <3> QED BY <2>1, <3>1, <3>2, DryRunLogs DEF Through, IsGated
  <2>2. ASSUME NEW c \in Confirm, ConfirmStep(c) PROVE StepsAreLogged'
    <3>1. /\ \A other \in Call : other # c => pc'[other] = pc[other]
          /\ \A other \in Confirm : other # c =>
               /\ request'[other] = request[other]
               /\ other \in effects' <=> other \in effects
      BY <2>2, ConfirmFrame
    <3>2. \A d \in DryRun : d # c
      BY CallAssumption
    <3>3. audit \subseteq audit'
      BY <2>2, ConfirmLogs
    <3>4. \A d \in DryRun : pc'[d] = "returned" => <<d, "dry_run">> \in audit'
      BY <3>1, <3>2, <3>3
    <3>5. (Through(c, {"confirmed", "executed"}) /\ IsGated(c))'
            => <<c, "confirm">> \in audit'
      BY <2>2, <3>3, ConfirmLogs, ConfirmOutcome
      DEF Outcome, Gone, Begun, Validates, SpendsToken, SpendsApproval, Moved,
          Through, IsGated, TokenParts, HistoryIsPast, ConfirmLive
    <3> QED BY <3>1, <3>3, <3>4, <3>5 DEF Through, IsGated
  <2>3. CASE Restart
    <3>1. /\ effects' = effects /\ audit' = audit
          /\ \A c \in Confirm : request'[c] \in {request[c], None}
          /\ \A c \in Call : pc'[c] \in {pc[c], "lost"}
      BY <2>3, RestartFrame DEF Restart
    <3> QED BY <3>1 DEF Through, IsGated
  <2>4. CASE \/ \E d \in DryRun : HostSigns(d)
             \/ \E op \in Operation : RemoteEdit(op)
             \/ Tick
             \/ UNCHANGED vars
    <3>1. UNCHANGED << pc, request, effects, audit >>
      BY <2>4 DEF HostSigns, RemoteEdit, Tick, vars, history
    <3> QED BY <3>1 DEF Through, IsGated
  <2> QED BY <2>1, <2>2, <2>3, <2>4 DEF Next
<1> QED BY <1>1, <1>2, TokenInvariance, PTL DEF Spec

(* A call that the log says was rejected has had no effect and never will: *)
(* nothing is logged as rejected before its outcome is settled.            *)
THEOREM RejectionIsFinal == Spec => []RejectedHasNoEffect
<1>1. TokenInv /\ RejectedIsRefused => RejectedHasNoEffect
  BY DEF RejectedIsRefused, RejectedHasNoEffect, TokenInv, TokenParts,
     HistoryIsPast
<1> QED BY <1>1, TokenInvariance, RejectedInvariance, PTL

(* With a sink that works, no gated effect comes before the line of its    *)
(* confirmation and the line of the dry run it answers.                    *)
THEOREM EffectsAreLoggedAhead == Spec => []EffectIsLoggedAhead
<1>1. TokenInv /\ StepsAreLogged => EffectIsLoggedAhead
  <2> SUFFICES ASSUME TokenInv, StepsAreLogged, ~ AuditMayFail, NEW c \in Gated
               PROVE  /\ <<c, "confirm">> \in audit
                      /\ <<request[c].token, "dry_run">> \in audit
    BY DEF EffectIsLoggedAhead
  <2>1. /\ c \in Confirm /\ c \in effects /\ IsGated(c)
        /\ request[c] # None
    BY NoneAssumption DEF Gated, TokenInv, TypeInv, TypeOK, RequestHeld
  <2>2. c \in accepted
    BY <2>1 DEF TokenInv, TokenParts, GatedNeedsToken, Through
  <2>3. request[c].token \in DryRun /\ pc[request[c].token] = "returned"
    BY <2>1, <2>2 DEF TokenInv, TokenParts, AcceptedTokenIsSpent, InputsAreKnown
  <2> QED BY <2>1, <2>3 DEF StepsAreLogged, Through
<1> QED BY <1>1, TokenInvariance, LoggedInvariance, PTL
-----------------------------------------------------------------------------
(* How challenges leave the store.                                         *)

(* A call past the token store has had its token accepted.                 *)
SpenderIsAccepted ==
  \A c \in Confirm : pc[c] \in {"token_spent", "approved"} => c \in accepted

LEMMA SpenderInvariance == Spec => []SpenderIsAccepted
<1>1. Init => SpenderIsAccepted
  BY CallTypes DEF Init, SpenderIsAccepted
<1>2. TokenInv /\ SpenderIsAccepted /\ [Next]_vars => SpenderIsAccepted'
  <2> SUFFICES ASSUME TokenInv, SpenderIsAccepted, [Next]_vars
               PROVE  SpenderIsAccepted'
    OBVIOUS
  <2> USE CallTypes DEF SpenderIsAccepted, TokenInv
  <2>1. ASSUME NEW d \in DryRun, DryRunStep(d) PROVE SpenderIsAccepted'
    <3>1. \A c \in Confirm : c # d
      BY CallAssumption
    <3> QED BY <2>1, <3>1, DryRunFrame
  <2>2. ASSUME NEW c \in Confirm, ConfirmStep(c) PROVE SpenderIsAccepted'
    <3>1. pc'[c] \in {"token_spent", "approved"} => c \in accepted'
      BY <2>2, ConfirmOutcome
      DEF Outcome, Gone, Begun, Validates, SpendsToken, SpendsApproval, Moved
    <3> QED BY <2>2, <3>1, ConfirmFrame
  <2>3. CASE Restart
    BY <2>3, RestartFrame
  <2>4. CASE \/ \E d \in DryRun : HostSigns(d)
             \/ \E op \in Operation : RemoteEdit(op)
             \/ Tick
             \/ UNCHANGED vars
    BY <2>4, EnvironmentFrame DEF history
  <2> QED BY <2>1, <2>2, <2>3, <2>4 DEF Next
<1> QED BY <1>1, <1>2, TokenInvariance, PTL DEF Spec

(* A dry run never takes a challenge away, ...                             *)
LEMMA DryRunKeepsChallenges ==
  ASSUME TypeInv, NEW d \in DryRun, DryRunStep(d),
         NEW id \in DryRun, Approvals!Known(id)
  PROVE  Approvals!Known(id)'
<1>1. CASE IssueChallenge(d)
  <2>1. approvalRecords' = [approvalRecords EXCEPT ![d] =
                              [binding |-> offered[d], expiresAt |-> clock + TTL]]
    BY <1>1 DEF IssueChallenge, Approvals!Issue
  <2>2. offered[d] \in Binding /\ clock + TTL \in Nat
    BY <1>1, ConstantAssumption
    DEF IssueChallenge, TypeInv, TypeOK, OfferHeld
  <2>3. approvalRecords'[d] # None
    BY <2>1, <2>2, NoneAssumption
    DEF TypeInv, TypeOK, Approvals!TypeOK, Approvals!Record
  <2> QED BY <2>1, <2>3 DEF Approvals!Known, TypeInv, TypeOK, Approvals!TypeOK
<1>2. CASE ~ IssueChallenge(d)
  <2>1. approvalRecords' = approvalRecords
    BY <1>2 DEF DryRunStep, DryRunRefuse, DryRunReview, GenerateToken,
       DryRunFails, DryRunRespond, stores
  <2> QED BY <2>1 DEF Approvals!Known
<1> QED BY <1>1, <1>2

(* ... and a confirm call takes its own, or one that has expired.          *)
LEMMA ConfirmTakesItsChallenge ==
  ASSUME IInv, SpenderIsAccepted, NEW c \in Confirm, ConfirmStep(c),
         NEW id \in DryRun, Approvals!Known(id),
         ~ Approvals!Expired(id, clock), ~ Approvals!Known(id)'
  PROVE  /\ c \in accepted \cap pending
         /\ pc[c] = "token_spent" /\ pc'[c] = "approved"
         /\ request[c].challenge = id
         /\ offered[id] = BindingOf(c)
<1>1. approvalRecords[id] # None /\ approvalRecords'[id] = None
  BY DEF Approvals!Known
<1>2. ValidateApproval(c) \/ ConsumeApproval(c)
  BY <1>1 DEF ConfirmStep, ConfirmContinues, RejectInput, ReviewAgain,
     ReviewFails, EvaluateDirectly, ConsumeToken, AuthorizeExecution, Execute,
     RecordExecution, stores
<1>3. \A other : approvalRecords' = Approvals!Drop(other) => id = other
  BY <1>1 DEF Approvals!Drop
<1>4. ~ ValidateApproval(c)
  BY <1>1, <1>3 DEF ValidateApproval, Approvals!Validate
<1>5. /\ pc[c] = "token_spent" /\ c \in pending /\ ApprovalIsValid(c)
      /\ Approvals!Consume(approvalPolicy, request[c].challenge,
                           request[c].approval, BindingOf(c), clock)
      /\ Goto(c, "approved")
  BY <1>1, <1>2, <1>3, <1>4
  DEF ConsumeApproval, Approvals!Consume, ApprovalIsValid
<1>6. request[c].challenge = id
  BY <1>1, <1>3, <1>5 DEF Approvals!Consume
<1>7. pc'[c] = "approved"
  BY <1>5, CallTypes DEF Goto, IInv, TokenInv, TypeInv, TypeOK
<1>8. offered[id] = BindingOf(c)
  BY <1>1, <1>5, <1>6 DEF ApprovalIsValid, Approvals!Accepts, IInv, TokenInv,
     TokenParts, RecordsMatchOffers
<1>9. c \in accepted
  BY <1>5 DEF SpenderIsAccepted
<1> QED BY <1>5, <1>6, <1>7, <1>8, <1>9

(* Nobody can use up somebody else's challenge: short of its expiry or a   *)
(* restart it goes when a call that it was made for presents it with its   *)
(* signature, after that call's token was accepted.                        *)
THEOREM ChallengesAreSpentWithTokens == Spec => ChallengeIsOnlySpentWithToken
<1> DEFINE Fair(d) ==
      \/ \E c \in accepted \cap pending :
           /\ pc[c] = "token_spent" /\ pc'[c] = "approved"
           /\ request[c].challenge = d
           /\ offered[d] = BindingOf(c)
      \/ Restart
    A == \A d \in DryRun :
           Approvals!Known(d) /\ ~ Approvals!Expired(d, clock)
             /\ ~ Approvals!Known(d)'
           => Fair(d)
<1>1. ASSUME IInv, SpenderIsAccepted, Next, NEW d \in DryRun, Approvals!Known(d),
             ~ Approvals!Expired(d, clock), ~ Approvals!Known(d)'
      PROVE  Fair(d)
  <2>1. ASSUME NEW c \in Confirm, ConfirmStep(c) PROVE Fair(d)
    BY <1>1, <2>1, ConfirmTakesItsChallenge
  <2>2. ASSUME NEW e \in DryRun, DryRunStep(e) PROVE FALSE
    BY <1>1, <2>2, DryRunKeepsChallenges DEF IInv, TokenInv
  <2>3. CASE \/ \E e \in DryRun : HostSigns(e)
             \/ \E op \in Operation : RemoteEdit(op)
             \/ Tick
    <3>1. approvalRecords' = approvalRecords
      BY <2>3 DEF HostSigns, RemoteEdit, Tick, stores
    <3> QED BY <1>1, <3>1 DEF Approvals!Known
  <2> QED BY <1>1, <2>1, <2>2, <2>3 DEF Next
<1>2. IInv /\ SpenderIsAccepted /\ [Next]_vars => [A]_vars
  BY <1>1
<1>3. Spec => [][A]_vars
  BY <1>2, IInvariance, SpenderInvariance, PTL DEF Spec
<1> QED BY <1>3 DEF ChallengeIsOnlySpentWithToken
-----------------------------------------------------------------------------
(* Tokens are one-shot grants.                                             *)

Performed(d) == \E c \in Gated : request[c].token = d
Open(d) == confirmRecords[d] # None
Spent(d) ==
  \E c \in accepted : pc[c] \in ConfirmLive /\ request[c].token = d
Fresh(d) == pc[d] \in {"idle", "reviewed"}

(* The state of a grant, now and after a step.                             *)
LEMMA StateOfGrant ==
  ASSUME NEW d \in DryRun
  PROVE  GrantState(d) =
           IF Performed(d) THEN "performed"
           ELSE IF Open(d) THEN "open"
           ELSE IF Spent(d) THEN "spent"
           ELSE IF Fresh(d) THEN "none" ELSE "void"
  BY DEF GrantState, Performed, Open, Spent, Fresh, Tokens!Known

LEMMA NextStateOfGrant ==
  ASSUME NEW d \in DryRun
  PROVE  GrantState(d)' =
           IF Performed(d)' THEN "performed"
           ELSE IF Open(d)' THEN "open"
           ELSE IF Spent(d)' THEN "spent"
           ELSE IF Fresh(d)' THEN "none" ELSE "void"
  BY DEF GrantState, Performed, Open, Spent, Fresh, Tokens!Known

(* A step that voids grants, or does nothing to any.                       *)
LEMMA VoidsOrNothing ==
  ASSUME \A d \in DryRun :
           \/ GrantState(d)' = GrantState(d)
           \/ GrantState(d)' = "void" /\ GrantState(d) # "performed"
  PROVE  Grants!Next
<1> DEFINE S == [d \in DryRun |-> GrantState(d)]
           lost == {d \in DryRun : GrantState(d)' # GrantState(d)}
<1>1. lost \in SUBSET {d \in DryRun : S[d] # "performed"}
  OBVIOUS
<1>2. S' = [d \in DryRun |-> GrantState(d)']
  OBVIOUS
<1>3. [d \in DryRun |-> GrantState(d)'] =
        [d \in DryRun |-> IF d \in lost THEN "void" ELSE S[d]]
  OBVIOUS
<1> QED BY <1>1, <1>2, <1>3 DEF Grants!Next, Grants!Void

(* A step that takes one grant further.                                    *)
LEMMA MovesOne ==
  ASSUME NEW g \in DryRun,
         \A d \in DryRun : d # g => GrantState(d)' = GrantState(d),
         \/ GrantState(g) = "none" /\ GrantState(g)' = "open"
         \/ GrantState(g) = "open" /\ GrantState(g)' = "spent"
         \/ GrantState(g) = "spent" /\ GrantState(g)' = "performed"
  PROVE  Grants!Next
<1> DEFINE S == [d \in DryRun |-> GrantState(d)]
<1>1. S' = [d \in DryRun |-> GrantState(d)'] /\ S[g] = GrantState(g)
  OBVIOUS
<1>2. [d \in DryRun |-> GrantState(d)'] = [S EXCEPT ![g] = GrantState(g)']
  OBVIOUS
<1> QED BY <1>1, <1>2 DEF Grants!Next, Grants!Offer, Grants!Spend,
     Grants!Perform, Grants!Move

(* The states exclude each other: a token that is in the store was not     *)
(* accepted from any call, and one that was answered is not fresh.         *)
LEMMA GrantsExclude ==
  ASSUME TokenInv, NEW d \in DryRun
  PROVE  /\ Performed(d) \/ Spent(d) => ~ Open(d)
         /\ Performed(d) \/ Spent(d) => pc[d] = "returned"
         /\ Open(d) => ~ Fresh(d)
<1> USE DEF TokenInv, TokenParts
<1>1. \A c \in Gated : c \in accepted /\ request[c] # None
  BY NoneAssumption DEF Gated, TypeInv, TypeOK, RequestHeld, GatedNeedsToken,
     Through
<1>2. \A c \in accepted : pc[c] \in ConfirmLive => request[c] # None
  BY NoneAssumption DEF TypeInv, TypeOK, RequestHeld
<1>3. Performed(d) \/ Spent(d) =>
        \E c \in accepted : request[c] # None /\ request[c].token = d
  BY <1>1, <1>2 DEF Performed, Spent
<1>4. accepted \subseteq Confirm
  BY DEF TypeInv, TypeOK
<1> QED BY <1>3, <1>4 DEF AcceptedTokenIsSpent, InputsAreKnown, Open, Fresh,
     RecordsMatchOffers

(* What leaves a grant as it is, or voids it.                              *)
LEMMA StaysOrVoid ==
  ASSUME TokenInv, NEW d \in DryRun,
         Performed(d)' <=> Performed(d), Spent(d)' => Spent(d),
         Fresh(d)' => Fresh(d), confirmRecords'[d] \in {confirmRecords[d], None}
  PROVE  \/ GrantState(d)' = GrantState(d)
         \/ GrantState(d)' = "void" /\ GrantState(d) # "performed"
<1>1. Fresh(d) => ~ Performed(d) /\ ~ Spent(d) /\ ~ Open(d)
  BY GrantsExclude DEF Fresh
<1>2. Open(d)' => Open(d)
  BY DEF Open
<1>3. CASE Performed(d)
  BY <1>3, StateOfGrant, NextStateOfGrant
<1>4. CASE ~ Performed(d) /\ Open(d)'
  BY <1>2, <1>4, StateOfGrant, NextStateOfGrant
<1>5. CASE ~ Performed(d) /\ ~ Open(d)' /\ Spent(d)'
  BY <1>5, GrantsExclude, StateOfGrant, NextStateOfGrant
<1>6. CASE ~ Performed(d) /\ ~ Open(d)' /\ ~ Spent(d)'
  BY <1>1, <1>6, StateOfGrant, NextStateOfGrant
<1> QED BY <1>3, <1>4, <1>5, <1>6

(* The dry run that makes a token offers its grant.                        *)
LEMMA DryRunGrants ==
  ASSUME TokenInv, NEW g \in DryRun, DryRunStep(g)
  PROVE  Grants!Next
<1> USE CallTypes DEF TokenInv
<1>1. /\ UNCHANGED << request, accepted, effects >>
      /\ \A other \in Call : other # g => pc'[other] = pc[other]
      /\ pc[g] \in {"idle", "reviewed", "generated", "issued"}
      /\ pc'[g] # "idle"
      /\ \A other \in DryRun : other # g =>
           confirmRecords'[other] = confirmRecords[other]
  BY DryRunFrame
<1>2. \A c \in accepted : pc'[c] = pc[c]
  BY <1>1, CallAssumption DEF TypeInv, TypeOK
<1>3. \A d \in DryRun : (Performed(d)' <=> Performed(d)) /\ (Spent(d)' <=> Spent(d))
  BY <1>1, <1>2 DEF Performed, Spent, Gated, IsGated
<1>4. ~ Performed(g) /\ ~ Spent(g)
  BY <1>1, GrantsExclude
<1>5. CASE GenerateToken(g)
  <2>1. Fresh(g) /\ offered[g] \in Binding /\ clock + TTL \in Nat
    BY <1>5, ConstantAssumption
    DEF GenerateToken, Fresh, TypeInv, TypeOK, OfferHeld
  <2>2. Open(g)'
    BY <1>5, <2>1, NoneAssumption DEF GenerateToken, Tokens!Generate, Open,
       TypeInv, TypeOK, Tokens!TypeOK, Tokens!Record
  <2>3. GrantState(g) = "none" /\ GrantState(g)' = "open"
    BY <1>3, <1>4, <2>1, <2>2, GrantsExclude, StateOfGrant, NextStateOfGrant
  <2>4. \A d \in DryRun : d # g => GrantState(d)' = GrantState(d)
    <3> SUFFICES ASSUME NEW d \in DryRun, d # g PROVE GrantState(d)' = GrantState(d)
      OBVIOUS
    <3>1. (Open(d)' <=> Open(d)) /\ (Fresh(d)' <=> Fresh(d))
      BY <1>1 DEF Open, Fresh
    <3> QED BY <1>3, <3>1, StateOfGrant, NextStateOfGrant
  <2> QED BY <2>3, <2>4, MovesOne
<1>6. CASE ~ GenerateToken(g)
  <2>1. confirmRecords' = confirmRecords
    BY <1>6 DEF DryRunStep, DryRunRefuse, DryRunReview, IssueChallenge,
       DryRunFails, DryRunRespond, stores
  <2>2. Fresh(g)' => Fresh(g)
    BY <1>6 DEF DryRunStep, DryRunRefuse, DryRunReview, IssueChallenge,
       DryRunFails, DryRunRespond, Goto, Fresh, TypeInv, TypeOK
  <2>3. \A d \in DryRun : Fresh(d)' => Fresh(d)
    BY <1>1, <2>2 DEF Fresh
  <2> QED BY <1>3, <2>1, <2>3, StaysOrVoid, VoidsOrNothing
<1> QED BY <1>5, <1>6

(* The call whose token is accepted spends its grant, and performs it when *)
(* its operation takes effect; every other step of a call leaves grants    *)
(* alone or voids the one it had.                                          *)
LEMMA ConfirmGrants ==
  ASSUME TokenInv, NEW c \in Confirm, ConfirmStep(c)
  PROVE  Grants!Next
<1> USE CallTypes DEF TokenInv, TokenParts
<1>1. /\ \A other \in Call : other # c => pc'[other] = pc[other]
      /\ \A other \in Confirm : other # c =>
           /\ request'[other] = request[other]
           /\ other \in accepted' <=> other \in accepted
           /\ other \in effects' <=> other \in effects
      /\ \A d \in DryRun : confirmRecords'[d] \in {confirmRecords[d], None}
  BY ConfirmFrame
<1>2. /\ accepted \subseteq Confirm /\ accepted' \subseteq Confirm
      /\ effects \subseteq Confirm /\ effects' \subseteq Confirm
  BY ConfirmStepType DEF TypeInv, TypeOK
<1>3. \A d \in DryRun : Fresh(d)' <=> Fresh(d)
  BY <1>1, CallAssumption DEF Fresh
<1>4. effects \subseteq effects'
  BY DEF ConfirmStep, ConfirmContinues, RejectInput, ReviewAgain, ReviewFails,
     EvaluateDirectly, ValidateApproval, ConsumeToken, ConsumeApproval,
     AuthorizeExecution, Execute, RecordExecution, history
<1>5. ASSUME c \notin effects' \/ (c \in effects /\ request'[c] = request[c])
      PROVE  \A d \in DryRun : Performed(d)' <=> Performed(d)
  BY <1>1, <1>2, <1>4, <1>5 DEF Performed, Gated, IsGated
<1>6. ASSUME \/ c \notin accepted' \/ pc'[c] \notin ConfirmLive
             \/ /\ c \in accepted /\ pc[c] \in ConfirmLive
                /\ request'[c] = request[c]
      PROVE  \A d \in DryRun : Spent(d)' => Spent(d)
  BY <1>1, <1>2, <1>6 DEF Spent
<1>7. CASE SpendsToken(c)
  <2>0. PICK g : g = request[c].token
    OBVIOUS
  <2>1. /\ pc[c] = "validated" /\ pc'[c] = "token_spent" /\ c \in accepted'
        /\ request'[c] = request[c]
        /\ c \notin effects' /\ c \notin accepted
        /\ g \in DryRun /\ Open(g) /\ ~ Open(g)'
    BY <1>7, <2>0 DEF SpendsToken, Moved, HistoryIsPast, Tokens!Accepts, Tokens!Known,
       Open, ConfirmLive
  <2>2. ConsumeToken(c)
    BY <2>1 DEF ConfirmStep, ConfirmContinues, RejectInput, ReviewAgain,
       ReviewFails, EvaluateDirectly, ValidateApproval, ConsumeApproval,
       AuthorizeExecution, Execute, RecordExecution
  <2>3. \A d \in DryRun : d # g => confirmRecords'[d] = confirmRecords[d]
    BY <2>0, <2>2 DEF ConsumeToken, Tokens!Consume
  <2>4. \A d \in DryRun : Performed(d)' <=> Performed(d)
    BY <1>5, <2>1
  <2>5. Spent(g)'
    BY <2>0, <2>1 DEF Spent, ConfirmLive
  <2>6. \A d \in DryRun : d # g => (Spent(d)' <=> Spent(d))
    BY <1>1, <1>2, <2>0, <2>1 DEF Spent
  <2>7. GrantState(g) = "open" /\ GrantState(g)' = "spent"
    BY <2>1, <2>4, <2>5, GrantsExclude, StateOfGrant, NextStateOfGrant
  <2>8. \A d \in DryRun : d # g => GrantState(d)' = GrantState(d)
    <3> SUFFICES ASSUME NEW d \in DryRun, d # g PROVE GrantState(d)' = GrantState(d)
      OBVIOUS
    <3>1. Open(d)' <=> Open(d)
      BY <2>3 DEF Open
    <3> QED BY <1>3, <2>4, <2>6, <3>1, StateOfGrant, NextStateOfGrant
  <2> QED BY <2>1, <2>7, <2>8, MovesOne
<1>8. CASE Moved(c, "confirmed", "executed") /\ c \in effects' /\ IsGated(c)
  <2>0. PICK g : g = request[c].token
    OBVIOUS
  <2>1. /\ pc[c] = "confirmed" /\ pc'[c] = "executed"
        /\ request[c] # None /\ request'[c] = request[c]
        /\ (c \in accepted' <=> c \in accepted) /\ c \notin effects
    BY <1>8 DEF Moved, HistoryIsPast, ConfirmLive
  <2>2. c \in accepted
    BY <1>8, <2>1 DEF GatedNeedsToken, Through
  <2>3. g \in DryRun /\ Spent(g) /\ Spent(g)'
    BY <2>0, <2>1, <2>2 DEF AcceptedTokenIsSpent, Spent, ConfirmLive
  <2>4. Execute(c)
    BY <2>1 DEF ConfirmStep, ConfirmContinues, RejectInput, ReviewAgain,
       ReviewFails, EvaluateDirectly, ValidateApproval, ConsumeToken,
       ConsumeApproval, AuthorizeExecution, RecordExecution
  <2>5. confirmRecords' = confirmRecords
    BY <2>4 DEF Execute, stores
  <2>6. ~ Performed(g)
    <3>1. ASSUME NEW other \in Gated, request[other].token = g PROVE FALSE
      <4>1. /\ other \in Confirm /\ other \in effects /\ IsGated(other)
            /\ request[other] # None
        BY NoneAssumption DEF Gated, TypeInv, TypeOK, RequestHeld
      <4>2. other \in accepted
        BY <4>1 DEF GatedNeedsToken, Through
      <4> QED BY <2>0, <2>1, <2>2, <3>1, <4>1, <4>2 DEF AcceptedTokensDiffer
    <3> QED BY <3>1 DEF Performed
  <2>7. Performed(g)'
    BY <1>8, <2>0, <2>1 DEF Performed, Gated, IsGated
  <2>8. \A d \in DryRun : d # g =>
          (Performed(d)' <=> Performed(d)) /\ (Spent(d)' <=> Spent(d))
    BY <1>1, <1>2, <2>0, <2>1 DEF Performed, Spent, Gated, IsGated, ConfirmLive
  <2>9. GrantState(g) = "spent" /\ GrantState(g)' = "performed"
    BY <2>1, <2>3, <2>6, <2>7, GrantsExclude, StateOfGrant, NextStateOfGrant
  <2>10. \A d \in DryRun : d # g => GrantState(d)' = GrantState(d)
    <3> SUFFICES ASSUME NEW d \in DryRun, d # g PROVE GrantState(d)' = GrantState(d)
      OBVIOUS
    <3>1. Open(d)' <=> Open(d)
      BY <2>5 DEF Open
    <3> QED BY <1>3, <2>8, <3>1, StateOfGrant, NextStateOfGrant
  <2> QED BY <2>1, <2>3, <2>9, <2>10, MovesOne
<1>9. CASE Moved(c, "confirmed", "executed") /\ ~ (c \in effects' /\ IsGated(c))
  <2>1. /\ request'[c] = request[c] /\ c \notin effects
        /\ pc[c] \in ConfirmLive /\ (c \in accepted' <=> c \in accepted)
    BY <1>9 DEF Moved, HistoryIsPast, ConfirmLive
  <2>2. \A d \in DryRun : Performed(d)' <=> Performed(d)
    BY <1>1, <1>2, <1>9, <2>1 DEF Performed, Gated, IsGated
  <2> QED BY <1>1, <1>3, <1>6, <2>1, <2>2, StaysOrVoid, VoidsOrNothing
<1>10. CASE ~ SpendsToken(c) /\ ~ Moved(c, "confirmed", "executed")
  <2>1. Outcome(c)
    BY ConfirmOutcome
  <2>2. c \notin effects' \/ (c \in effects /\ request'[c] = request[c])
    BY <1>10, <2>1 DEF Outcome, Gone, Begun, Validates, SpendsApproval, Moved,
       HistoryIsPast, ConfirmLive
  <2>3. \/ c \notin accepted' \/ pc'[c] \notin ConfirmLive
        \/ /\ c \in accepted /\ pc[c] \in ConfirmLive
           /\ request'[c] = request[c]
    BY <1>10, <2>1 DEF Outcome, Gone, Begun, Validates, SpendsApproval, Moved,
       HistoryIsPast, ConfirmLive
  <2> QED BY <1>1, <1>3, <1>5, <1>6, <2>2, <2>3, StaysOrVoid, VoidsOrNothing
<1> QED BY <1>7, <1>8, <1>9, <1>10

(* A restart voids the grants it loses.                                    *)
LEMMA RestartGrants ==
  ASSUME TokenInv, Restart
  PROVE  Grants!Next
<1> USE CallTypes DEF TokenInv, TypeInv, TypeOK
<1>1. /\ UNCHANGED << accepted, effects >>
      /\ \A d \in DryRun : confirmRecords'[d] = None
      /\ \A c \in Call : pc'[c] = IF pc[c] \in DryRunLive \cup ConfirmLive
                                  THEN "lost" ELSE pc[c]
  BY RestartFrame
<1>2. \A c \in effects : request'[c] = request[c]
  BY DEF Restart, Forget
<1>3. \A d \in DryRun : (Performed(d)' <=> Performed(d)) /\ ~ Spent(d)'
  BY <1>1, <1>2 DEF Performed, Spent, Gated, IsGated, ConfirmLive
<1>4. \A d \in DryRun : Fresh(d)' => Fresh(d)
  BY <1>1 DEF Fresh
<1> QED BY <1>1, <1>3, <1>4, StaysOrVoid, VoidsOrNothing

(* Confirmation tokens, with their stores, races, expiry and restarts,     *)
(* implement one-shot grants: each is spent by one call at most, and only  *)
(* that call performs what it stands for, once.                            *)
THEOREM TokensAreOneShotGrants == Spec => ImplementsOneShotGrant
<1> DEFINE S == [d \in DryRun |-> GrantState(d)]
<1>1. Init => Grants!Init
  <2> SUFFICES ASSUME Init PROVE Grants!Init
    OBVIOUS
  <2>1. \A d \in DryRun : GrantState(d) = "none"
    BY CallTypes DEF Init, GrantState, Gated, Tokens!Init, Tokens!Known
  <2> QED BY <2>1 DEF Grants!Init
<1>2. TokenInv /\ [Next]_vars => [Grants!Next]_S
  <2> SUFFICES ASSUME TokenInv, [Next]_vars PROVE Grants!Next
    OBVIOUS
  <2>1. CASE \/ \E d \in DryRun : HostSigns(d)
             \/ \E op \in Operation : RemoteEdit(op)
             \/ Tick
             \/ UNCHANGED vars
    <3>1. UNCHANGED << stores, history, pc, request >>
      BY <2>1, EnvironmentFrame DEF TokenInv
    <3>2. \A d \in DryRun : GrantState(d)' = GrantState(d)
      BY <3>1 DEF stores, history, GrantState, Gated, IsGated, Tokens!Known
    <3> QED BY <3>2, VoidsOrNothing
  <2> QED BY <2>1, DryRunGrants, ConfirmGrants, RestartGrants DEF Next
<1>3. Spec => Grants!Init /\ [][Grants!Next]_S
  BY <1>1, <1>2, TokenInvariance, PTL DEF Spec
<1> QED BY <1>3, PTL DEF ImplementsOneShotGrant, Grants!Spec
=============================================================================
