-------------------------- MODULE OwaSession_proofs --------------------------
(***************************************************************************)
(* Proofs about OwaSession, for any sets of calls, numbers of attempts and *)
(* times.                                                                  *)
(***************************************************************************)
EXTENDS OwaSession, FiniteSetTheorems, TLAPS

(* A request has been applied only if its call has ended, and then once;   *)
(* it has been, if the call is a typed one and reports success.            *)
AppliedInv ==
  /\ \A c \in Call : /\ applied[c] <= 1
                     /\ pc[c] \notin Ended => applied[c] = 0
  /\ \A c \in Typed : pc[c] = "answered" => applied[c] = 1

(* While a call that was refused is on its way to a session, the one it    *)
(* was refused with is not in the cache; there it could not have come from *)
(* but a login that had not happened yet.                                  *)
Seeking == {"entering"} \cup LoggingIn

RetryInv ==
  \A c \in Call :
    /\ pc[c] = "idle" => refused[c] = 0
    /\ pc[c] \in Seeking /\ refused[c] # 0 =>
         session = None \/ session.id # refused[c]
    /\ pc[c] = "ready" => using[c] # refused[c]

(* The cached session is one of those that there have been, and so is the  *)
(* session a request is sent with.                                         *)
SessionInv ==
  /\ session # None => session.id \in 1..sessions
  /\ \A c \in Call : pc[c] \in {"ready", "rejected"} => using[c] \in
     1..sessions

(* The holder of the mutex is the call that is logging in.                 *)
MutexInv ==
  /\ mutex # None => pc[mutex.by] \in LoggingIn
  /\ \A c \in Call : pc[c] \in LoggingIn => mutex # None /\ mutex.by = c
  /\ \A c \in Call : pc[c] = "logging_in" => mutex.posts >= 1
  /\ \A c \in Call : pc[c] = "reading_secret" => mutex.posts = 0
  /\ \A c \in Call : pc[c] = "backing_off" => mutex.posts < Attempts

IInv == TypeOK /\ AppliedInv /\ SessionInv /\ RetryInv /\ MutexInv

(* The first state satisfies the invariant.                                *)
LEMMA InvInit == Init => IInv
<1> SUFFICES ASSUME Init PROVE IInv
  OBVIOUS
<1>1. TypeOK
  BY ConstantAssumption DEF Init, TypeOK
<1>2. AppliedInv /\ SessionInv /\ RetryInv /\ MutexInv
  BY DEF Init, AppliedInv, Call, SessionInv, RetryInv, MutexInv, Seeking, LoggingIn
<1> QED BY <1>1, <1>2 DEF IInv

(* Every step keeps the types.                                             *)
LEMMA TypeStep ==
  ASSUME TypeOK, SessionInv, MutexInv, [Next]_vars
  PROVE  TypeOK'
<1> USE DEF TypeOK, SessionInv, MutexInv, Live, LoggingIn, Ended,
            CachedSession, LoginState
<1>1. ASSUME NEW c \in Call, Begin(c)
      PROVE  TypeOK'
  BY <1>1 DEF Begin, Goto, server
<1>2. ASSUME NEW c \in Call, TakeCachedSession(c)
      PROVE  TypeOK'
  BY <1>2 DEF TakeCachedSession, Goto, server, AfterLogin, Fresh
<1>3. ASSUME NEW c \in Call, StartLogin(c)
      PROVE  TypeOK'
  BY <1>3, ConstantAssumption DEF StartLogin, Goto, server, Fresh
<1>4. ASSUME NEW c \in Call, ReadSecret(c)
      PROVE  TypeOK'
  BY <1>4, ConstantAssumption DEF ReadSecret, Goto, server, Post, GiveUp
<1>5. ASSUME NEW c \in Call, LoginSucceeds(c)
      PROVE  TypeOK'
  BY <1>5, ConstantAssumption DEF LoginSucceeds, Goto, server, AfterLogin
<1>6. ASSUME NEW c \in Call, LoginFails(c)
      PROVE  TypeOK'
  BY <1>6 DEF LoginFails, Goto, server, GiveUp
<1>7. ASSUME NEW c \in Call, BackOff(c)
      PROVE  TypeOK'
  BY <1>7, ConstantAssumption DEF BackOff, Goto, server, Post, GiveUp
<1>8. ASSUME NEW c \in Call, ServiceAnswers(c)
      PROVE  TypeOK'
  BY <1>8 DEF ServiceAnswers, Goto, server, Apply
<1>9. ASSUME NEW c \in Call, ServiceFails(c)
      PROVE  TypeOK'
  BY <1>9 DEF ServiceFails, Goto, server, Apply
<1>10. ASSUME NEW c \in Call, ServiceRefuses(c)
      PROVE  TypeOK'
  BY <1>10 DEF ServiceRefuses, Goto, server
<1>11. ASSUME NEW c \in Call, LogonPageIsAnswered(c)
      PROVE  TypeOK'
  BY <1>11 DEF LogonPageIsAnswered, Goto, server
<1>12. ASSUME NEW c \in Call, InvalidateAndRetry(c)
      PROVE  TypeOK'
  BY <1>12 DEF InvalidateAndRetry, Goto, server
<1>13. ASSUME NEW id \in alive, ServerDrops(id)
      PROVE  TypeOK'
  BY <1>13 DEF ServerDrops
<1>14. CASE Tick
  BY <1>14, ConstantAssumption DEF Tick, server
<1>15. CASE UNCHANGED vars
  BY <1>15 DEF vars
<1> QED
  BY <1>1, <1>2, <1>3, <1>4, <1>5, <1>6, <1>7, <1>8,
     <1>9, <1>10, <1>11, <1>12, <1>13, <1>14, <1>15
     DEF Next, Login, Serve

(* Every step keeps AppliedInv: what is sent a second time was refused.    *)
LEMMA AppliedStep ==
  ASSUME TypeOK, AppliedInv, [Next]_vars
  PROVE  AppliedInv'
<1> USE CallAssumption DEF TypeOK, AppliedInv, Call, Live, LoggingIn, Ended
<1>1. ASSUME NEW c \in Call, Begin(c)
      PROVE  AppliedInv'
  BY <1>1 DEF Begin, Goto, server
<1>2. ASSUME NEW c \in Call, TakeCachedSession(c)
      PROVE  AppliedInv'
  BY <1>2 DEF TakeCachedSession, Goto, server, AfterLogin, Fresh
<1>3. ASSUME NEW c \in Call, StartLogin(c)
      PROVE  AppliedInv'
  BY <1>3 DEF StartLogin, Goto, server, Fresh
<1>4. ASSUME NEW c \in Call, ReadSecret(c)
      PROVE  AppliedInv'
  BY <1>4 DEF ReadSecret, Goto, server, Post, GiveUp
<1>5. ASSUME NEW c \in Call, LoginSucceeds(c)
      PROVE  AppliedInv'
  BY <1>5 DEF LoginSucceeds, Goto, server, AfterLogin
<1>6. ASSUME NEW c \in Call, LoginFails(c)
      PROVE  AppliedInv'
  BY <1>6 DEF LoginFails, Goto, server, GiveUp
<1>7. ASSUME NEW c \in Call, BackOff(c)
      PROVE  AppliedInv'
  BY <1>7 DEF BackOff, Goto, server, Post, GiveUp
<1>8. ASSUME NEW c \in Call, ServiceAnswers(c)
      PROVE  AppliedInv'
  BY <1>8 DEF ServiceAnswers, Goto, server, Apply
<1>9. ASSUME NEW c \in Call, ServiceFails(c)
      PROVE  AppliedInv'
  BY <1>9 DEF ServiceFails, Goto, server, Apply
<1>10. ASSUME NEW c \in Call, ServiceRefuses(c)
      PROVE  AppliedInv'
  BY <1>10 DEF ServiceRefuses, Goto, server
<1>11. ASSUME NEW c \in Call, LogonPageIsAnswered(c)
      PROVE  AppliedInv'
  BY <1>11 DEF LogonPageIsAnswered, Goto, server
<1>12. ASSUME NEW c \in Call, InvalidateAndRetry(c)
      PROVE  AppliedInv'
  BY <1>12 DEF InvalidateAndRetry, Goto, server
<1>13. ASSUME NEW id \in alive, ServerDrops(id)
      PROVE  AppliedInv'
  BY <1>13 DEF ServerDrops
<1>14. CASE Tick
  BY <1>14, ConstantAssumption DEF Tick, server
<1>15. CASE UNCHANGED vars
  BY <1>15 DEF vars
<1> QED
  BY <1>1, <1>2, <1>3, <1>4, <1>5, <1>6, <1>7, <1>8,
     <1>9, <1>10, <1>11, <1>12, <1>13, <1>14, <1>15
     DEF Next, Login, Serve

(* Every step keeps SessionInv.                                            *)
LEMMA SessionStep ==
  ASSUME TypeOK, SessionInv, [Next]_vars
  PROVE  SessionInv'
<1> USE DEF TypeOK, SessionInv, Live, LoggingIn, Ended, CachedSession
<1>1. ASSUME NEW c \in Call, Begin(c)
      PROVE  SessionInv'
  BY <1>1 DEF Begin, Goto, server
<1>2. ASSUME NEW c \in Call, TakeCachedSession(c)
      PROVE  SessionInv'
  BY <1>2 DEF TakeCachedSession, Goto, server, AfterLogin, Fresh
<1>3. ASSUME NEW c \in Call, StartLogin(c)
      PROVE  SessionInv'
  BY <1>3 DEF StartLogin, Goto, server, Fresh
<1>4. ASSUME NEW c \in Call, ReadSecret(c)
      PROVE  SessionInv'
  BY <1>4 DEF ReadSecret, Goto, server, Post, GiveUp
<1>5. ASSUME NEW c \in Call, LoginSucceeds(c)
      PROVE  SessionInv'
  BY <1>5 DEF LoginSucceeds, Goto, server, AfterLogin
<1>6. ASSUME NEW c \in Call, LoginFails(c)
      PROVE  SessionInv'
  BY <1>6 DEF LoginFails, Goto, server, GiveUp
<1>7. ASSUME NEW c \in Call, BackOff(c)
      PROVE  SessionInv'
  BY <1>7 DEF BackOff, Goto, server, Post, GiveUp
<1>8. ASSUME NEW c \in Call, ServiceAnswers(c)
      PROVE  SessionInv'
  BY <1>8 DEF ServiceAnswers, Goto, server, Apply
<1>9. ASSUME NEW c \in Call, ServiceFails(c)
      PROVE  SessionInv'
  BY <1>9 DEF ServiceFails, Goto, server, Apply
<1>10. ASSUME NEW c \in Call, ServiceRefuses(c)
      PROVE  SessionInv'
  BY <1>10 DEF ServiceRefuses, Goto, server
<1>11. ASSUME NEW c \in Call, LogonPageIsAnswered(c)
      PROVE  SessionInv'
  BY <1>11 DEF LogonPageIsAnswered, Goto, server
<1>12. ASSUME NEW c \in Call, InvalidateAndRetry(c)
      PROVE  SessionInv'
  BY <1>12 DEF InvalidateAndRetry, Goto, server
<1>13. ASSUME NEW id \in alive, ServerDrops(id)
      PROVE  SessionInv'
  BY <1>13 DEF ServerDrops
<1>14. CASE Tick
  BY <1>14, ConstantAssumption DEF Tick, server
<1>15. CASE UNCHANGED vars
  BY <1>15 DEF vars
<1> QED
  BY <1>1, <1>2, <1>3, <1>4, <1>5, <1>6, <1>7, <1>8,
     <1>9, <1>10, <1>11, <1>12, <1>13, <1>14, <1>15
     DEF Next, Login, Serve

(* Every step keeps RetryInv.                                              *)
LEMMA RetryStep ==
  ASSUME TypeOK, SessionInv, RetryInv, [Next]_vars
  PROVE  RetryInv'
<1> USE DEF TypeOK, SessionInv, RetryInv, Seeking, Live, LoggingIn, Ended,
            CachedSession
<1>1. ASSUME NEW c \in Call, Begin(c)
      PROVE  RetryInv'
  BY <1>1 DEF Begin, Goto, server
<1>2. ASSUME NEW c \in Call, TakeCachedSession(c)
      PROVE  RetryInv'
  BY <1>2 DEF TakeCachedSession, Goto, server, AfterLogin, Fresh
<1>3. ASSUME NEW c \in Call, StartLogin(c)
      PROVE  RetryInv'
  BY <1>3 DEF StartLogin, Goto, server, Fresh
<1>4. ASSUME NEW c \in Call, ReadSecret(c)
      PROVE  RetryInv'
  BY <1>4 DEF ReadSecret, Goto, server, Post, GiveUp
<1>5. ASSUME NEW c \in Call, LoginSucceeds(c)
      PROVE  RetryInv'
  BY <1>5 DEF LoginSucceeds, Goto, server, AfterLogin
<1>6. ASSUME NEW c \in Call, LoginFails(c)
      PROVE  RetryInv'
  BY <1>6 DEF LoginFails, Goto, server, GiveUp
<1>7. ASSUME NEW c \in Call, BackOff(c)
      PROVE  RetryInv'
  BY <1>7 DEF BackOff, Goto, server, Post, GiveUp
<1>8. ASSUME NEW c \in Call, ServiceAnswers(c)
      PROVE  RetryInv'
  BY <1>8 DEF ServiceAnswers, Goto, server, Apply
<1>9. ASSUME NEW c \in Call, ServiceFails(c)
      PROVE  RetryInv'
  BY <1>9 DEF ServiceFails, Goto, server, Apply
<1>10. ASSUME NEW c \in Call, ServiceRefuses(c)
      PROVE  RetryInv'
  BY <1>10 DEF ServiceRefuses, Goto, server
<1>11. ASSUME NEW c \in Call, LogonPageIsAnswered(c)
      PROVE  RetryInv'
  BY <1>11 DEF LogonPageIsAnswered, Goto, server
<1>12. ASSUME NEW c \in Call, InvalidateAndRetry(c)
      PROVE  RetryInv'
  BY <1>12 DEF InvalidateAndRetry, Goto, server
<1>13. ASSUME NEW id \in alive, ServerDrops(id)
      PROVE  RetryInv'
  BY <1>13 DEF ServerDrops
<1>14. CASE Tick
  BY <1>14, ConstantAssumption DEF Tick, server
<1>15. CASE UNCHANGED vars
  BY <1>15 DEF vars
<1> QED
  BY <1>1, <1>2, <1>3, <1>4, <1>5, <1>6, <1>7, <1>8,
     <1>9, <1>10, <1>11, <1>12, <1>13, <1>14, <1>15
     DEF Next, Login, Serve

(* Every step keeps MutexInv.                                              *)
LEMMA MutexStep ==
  ASSUME TypeOK, MutexInv, [Next]_vars
  PROVE  MutexInv'
<1> USE DEF TypeOK, MutexInv, Live, LoggingIn, Ended, LoginState
<1>1. ASSUME NEW c \in Call, Begin(c)
      PROVE  MutexInv'
  BY <1>1 DEF Begin, Goto, server
<1>2. ASSUME NEW c \in Call, TakeCachedSession(c)
      PROVE  MutexInv'
  BY <1>2 DEF TakeCachedSession, Goto, server, AfterLogin, Fresh
<1>3. ASSUME NEW c \in Call, StartLogin(c)
      PROVE  MutexInv'
  BY <1>3, ConstantAssumption DEF StartLogin, Goto, server, Fresh
<1>4. ASSUME NEW c \in Call, ReadSecret(c)
      PROVE  MutexInv'
  BY <1>4, ConstantAssumption DEF ReadSecret, Goto, server, Post, GiveUp
<1>5. ASSUME NEW c \in Call, LoginSucceeds(c)
      PROVE  MutexInv'
  BY <1>5 DEF LoginSucceeds, Goto, server, AfterLogin
<1>6. ASSUME NEW c \in Call, LoginFails(c)
      PROVE  MutexInv'
  BY <1>6 DEF LoginFails, Goto, server, GiveUp
<1>7. ASSUME NEW c \in Call, BackOff(c)
      PROVE  MutexInv'
  BY <1>7, ConstantAssumption DEF BackOff, Goto, server, Post, GiveUp
<1>8. ASSUME NEW c \in Call, ServiceAnswers(c)
      PROVE  MutexInv'
  BY <1>8 DEF ServiceAnswers, Goto, server, Apply
<1>9. ASSUME NEW c \in Call, ServiceFails(c)
      PROVE  MutexInv'
  BY <1>9 DEF ServiceFails, Goto, server, Apply
<1>10. ASSUME NEW c \in Call, ServiceRefuses(c)
      PROVE  MutexInv'
  BY <1>10 DEF ServiceRefuses, Goto, server
<1>11. ASSUME NEW c \in Call, LogonPageIsAnswered(c)
      PROVE  MutexInv'
  BY <1>11 DEF LogonPageIsAnswered, Goto, server
<1>12. ASSUME NEW c \in Call, InvalidateAndRetry(c)
      PROVE  MutexInv'
  BY <1>12 DEF InvalidateAndRetry, Goto, server
<1>13. ASSUME NEW id \in alive, ServerDrops(id)
      PROVE  MutexInv'
  BY <1>13 DEF ServerDrops
<1>14. CASE Tick
  BY <1>14, ConstantAssumption DEF Tick, server
<1>15. CASE UNCHANGED vars
  BY <1>15 DEF vars
<1> QED
  BY <1>1, <1>2, <1>3, <1>4, <1>5, <1>6, <1>7, <1>8,
     <1>9, <1>10, <1>11, <1>12, <1>13, <1>14, <1>15
     DEF Next, Login, Serve

(* The invariant holds throughout.                                         *)
LEMMA Invariance == Spec => []IInv
<1>1. IInv /\ [Next]_vars => IInv'
  BY TypeStep, AppliedStep, SessionStep, RetryStep, MutexStep DEF IInv
<1> QED BY InvInit, <1>1, PTL DEF Spec

(* The state is well typed; in particular the password is posted at most   *)
(* Attempts times per login (loginWithRetry).                              *)
THEOREM TypeCorrect == Spec => []TypeOK
<1>1. IInv => TypeOK
  BY DEF IInv
<1> QED BY Invariance, <1>1, PTL

(* The server applies the request of a call at most once, although the     *)
(* call may send it twice (executeService).                                *)
THEOREM AppliedOnce == Spec => []RequestIsAppliedOnce
<1>1. IInv => RequestIsAppliedOnce
  BY DEF IInv, AppliedInv, RequestIsAppliedOnce
<1> QED BY Invariance, <1>1, PTL

(* A retry never uses the session it was refused with, whatever the calls  *)
(* that share the cache do in between (invalidateSession).                 *)
THEOREM RetriesWithNewSession == Spec => []RetryUsesNewSession
<1>1. IInv => RetryUsesNewSession
  BY DEF IInv, RetryInv, RetryUsesNewSession
<1> QED BY Invariance, <1>1, PTL

(* A typed call never takes the logon page, or anything else that is not   *)
(* the service's answer, for its success (executeServiceOnce).             *)
THEOREM SuccessIsApplied == Spec => []SuccessIsReal
<1>1. IInv => SuccessIsReal
  BY DEF IInv, AppliedInv, SuccessIsReal
<1> QED BY Invariance, <1>1, PTL
-----------------------------------------------------------------------------
(* How many logins there are.                                              *)

(* The calls that were refused: each of them has thrown a session away.    *)
Refused == {c \in Call : refused[c] # 0}

(* The logins so far are paid for by the refused calls and the time t.     *)
Covered(t) == sessions * TTL <= Cardinality(Refused) * TTL + t

(* The cached session stands for one login more than the clock pays for, a *)
(* login that is under way for none: it began without a session that was   *)
(* still good.                                                             *)
LoginInv ==
  /\ IsFiniteSet(Refused)
  /\ \A c \in Call : pc[c] = "rejected" => refused[c] = 0
  /\ session # None =>
       Covered(session.expiresAt) /\ session.expiresAt <= clock + TTL
  /\ session = None /\ mutex = None => Covered(clock)
  /\ mutex # None => Covered(mutex.started) /\ mutex.started <= clock

(* What the numbers in it are.                                             *)
LEMMA LoginNumbers ==
  ASSUME TypeOK, LoginInv
  PROVE  /\ TTL \in Nat /\ clock \in Nat /\ sessions \in Nat
         /\ Cardinality(Refused) \in Nat
         /\ session # None => session.expiresAt \in Nat
         /\ mutex # None => mutex.started \in Nat
<1>1. Cardinality(Refused) \in Nat
  BY FS_CardinalityType DEF LoginInv
<1> QED BY <1>1, ConstantAssumption DEF TypeOK, CachedSession, LoginState

(* What is covered by a time is covered by a later one.                    *)
LEMMA CoveredLater ==
  ASSUME TypeOK, LoginInv, NEW t \in Nat, NEW u \in Nat, t <= u, Covered(t)
  PROVE  Covered(u)
<1>1. sessions * TTL \in Nat /\ Cardinality(Refused) * TTL \in Nat
  BY LoginNumbers
<1> QED BY <1>1 DEF Covered

(* The steps that neither look at the cache nor touch it keep the account. *)
LEMMA LoginKept ==
  ASSUME LoginInv, UNCHANGED << clock, mutex, session, sessions, refused >>,
         \A c \in Call : pc'[c] = "rejected" =>
           pc[c] = "rejected" \/ refused[c] = 0
  PROVE  LoginInv'
  BY DEF LoginInv, Covered, Refused

(* A login that begins finds no session, or one whose time is over, ...    *)
LEMMA StartLoginKeepsAccount ==
  ASSUME TypeOK, LoginInv, NEW c \in Call, StartLogin(c)
  PROVE  LoginInv'
<1>1. /\ UNCHANGED << clock, session, sessions, refused >>
      /\ mutex = None /\ ~ Fresh /\ mutex'.started = clock
      /\ \A other \in Call : pc'[other] = "rejected" => pc[other] = "rejected"
  BY DEF StartLogin, Goto, server, TypeOK
<1>2. Covered(clock)
  <2>1. CASE session = None
    BY <1>1, <2>1 DEF LoginInv
  <2>2. CASE session # None
    BY <1>1, <2>2, LoginNumbers, CoveredLater DEF LoginInv, Fresh
  <2> QED BY <2>1, <2>2
<1>3. clock <= clock
  BY LoginNumbers
<1> QED BY <1>1, <1>2, <1>3 DEF LoginInv, Covered, Refused

(* ... one that succeeds adds a login and the time it is good for, ...     *)
LEMMA LoginKeepsAccount ==
  ASSUME TypeOK, LoginInv, MutexInv, NEW c \in Call, LoginSucceeds(c)
  PROVE  LoginInv'
<1>1. /\ UNCHANGED << clock, refused >>
      /\ mutex # None /\ mutex' = None /\ sessions' = sessions + 1
      /\ session' = [ id |-> sessions', expiresAt |-> mutex.started + TTL ]
      /\ \A other \in Call : pc'[other] = "rejected" => pc[other] = "rejected"
  BY DEF LoginSucceeds, Goto, AfterLogin, TypeOK, MutexInv, LoggingIn
<1>2. session' # None
  <2>1. [ id |-> sessions', expiresAt |-> mutex.started + TTL ] \in CachedSession
    BY <1>1, LoginNumbers DEF CachedSession
  <2> QED BY <1>1, <2>1, ConstantAssumption
<1>3. Refused' = Refused
  BY <1>1 DEF Refused
<1>4. (sessions + 1) * TTL <= Cardinality(Refused) * TTL + (mutex.started + TTL)
  <2>1. sessions * TTL <= Cardinality(Refused) * TTL + mutex.started
    BY <1>1 DEF LoginInv, Covered
  <2>2. (sessions + 1) * TTL = sessions * TTL + TTL
    BY LoginNumbers
  <2>3. /\ sessions * TTL \in Nat /\ Cardinality(Refused) * TTL \in Nat
        /\ mutex.started \in Nat /\ TTL \in Nat
    BY <1>1, LoginNumbers
  <2> QED BY <2>1, <2>2, <2>3
<1>5. mutex.started + TTL <= clock + TTL
  BY <1>1, LoginNumbers DEF LoginInv
<1> QED BY <1>1, <1>2, <1>3, <1>4, <1>5 DEF LoginInv, Covered

(* ... one that is given up leaves what was there, ...                     *)
LEMMA GiveUpKeepsAccount ==
  ASSUME TypeOK, LoginInv, MutexInv, NEW c \in Call, pc[c] \in LoggingIn, GiveUp(c),
         UNCHANGED << clock, session, sessions, refused >>
  PROVE  LoginInv'
<1>1. /\ mutex # None /\ mutex' = None
      /\ \A other \in Call : pc'[other] = "rejected" => pc[other] = "rejected"
  BY DEF GiveUp, Goto, TypeOK, MutexInv
<1>2. Covered(clock)
  BY <1>1, LoginNumbers, CoveredLater DEF LoginInv
<1> QED BY <1>1, <1>2 DEF LoginInv, Covered, Refused

(* ... as does the next attempt of the same login, ...                     *)
LEMMA AttemptKeepsAccount ==
  ASSUME TypeOK, LoginInv, MutexInv, MutexInv',
         NEW c \in Call, pc[c] \in LoggingIn, NEW to \in LoggingIn, Goto(c, to),
         mutex' = mutex \/ mutex' = [mutex EXCEPT !.posts = @ + 1],
         UNCHANGED << clock, session, sessions, refused >>
  PROVE  LoginInv'
<1>1. /\ mutex # None /\ mutex' # None /\ mutex.started \in Nat
      /\ \A other \in Call : pc'[other] = "rejected" => pc[other] = "rejected"
  BY LoginNumbers DEF Goto, TypeOK, MutexInv, LoggingIn
<1>2. mutex'.started = mutex.started
  BY <1>1 DEF TypeOK, LoginState
<1> QED BY <1>1, <1>2 DEF LoginInv, Covered, Refused

(* ... and a session is thrown away on a refused call's account: a call    *)
(* does so once.                                                           *)
LEMMA InvalidateKeepsAccount ==
  ASSUME TypeOK, LoginInv, SessionInv, NEW c \in Call, InvalidateAndRetry(c)
  PROVE  LoginInv'
<1>1. /\ UNCHANGED << clock, mutex, sessions >>
      /\ mutex = None /\ session' = None
      /\ refused[c] = 0 /\ refused'[c] # 0
      /\ \A other \in Call : other # c => refused'[other] = refused[other]
      /\ \A other \in Call :
           pc'[other] = "rejected" => pc[other] = "rejected" /\ other # c
  BY DEF InvalidateAndRetry, Goto, server, TypeOK, LoginInv, SessionInv
<1>2. Refused' = Refused \cup {c} /\ c \notin Refused
  BY <1>1 DEF Refused
<1>3. /\ IsFiniteSet(Refused')
      /\ Cardinality(Refused') = Cardinality(Refused) + 1
  BY <1>2, FS_AddElement DEF LoginInv
<1>4. sessions * TTL <= Cardinality(Refused) * TTL + (clock + TTL)
  <2>1. CASE session = None
    BY <1>1, <2>1, LoginNumbers, CoveredLater DEF LoginInv, Covered
  <2>2. CASE session # None
    BY <2>2, LoginNumbers, CoveredLater DEF LoginInv, Covered
  <2> QED BY <2>1, <2>2
<1>5. (Cardinality(Refused) + 1) * TTL = Cardinality(Refused) * TTL + TTL
  BY LoginNumbers
<1>6. sessions * TTL <= (Cardinality(Refused) + 1) * TTL + clock
  <2>1. /\ sessions * TTL \in Nat /\ Cardinality(Refused) * TTL \in Nat
        /\ clock \in Nat /\ TTL \in Nat
    BY LoginNumbers
  <2> QED BY <1>4, <1>5, <2>1
<1> QED BY <1>1, <1>3, <1>6 DEF LoginInv, Covered

(* The account is always in order.                                         *)
LEMMA LoginInvariance == Spec => []LoginInv
<1>1. Init => LoginInv
  <2> SUFFICES ASSUME Init PROVE LoginInv
    OBVIOUS
  <2>1. Refused = {} /\ IsFiniteSet(Refused) /\ Cardinality(Refused) = 0
    BY FS_EmptySet DEF Init, Refused
  <2>2. 0 * TTL = 0 /\ TTL \in Nat
    BY ConstantAssumption
  <2> QED BY <2>1, <2>2 DEF Init, LoginInv, Covered
<1>2. IInv /\ LoginInv /\ [Next]_vars => LoginInv'
  <2> SUFFICES ASSUME IInv, LoginInv, [Next]_vars PROVE LoginInv'
    OBVIOUS
  <2>0. TypeOK /\ MutexInv /\ SessionInv
    BY DEF IInv
  <2>1. ASSUME NEW c \in Call,
               \/ Begin(c) \/ TakeCachedSession(c) \/ ServiceAnswers(c)
               \/ ServiceFails(c) \/ ServiceRefuses(c) \/ LogonPageIsAnswered(c)
        PROVE  LoginInv'
    BY <2>0, <2>1, LoginKept DEF Begin, TakeCachedSession, ServiceAnswers,
       ServiceFails, ServiceRefuses, LogonPageIsAnswered, AfterLogin, Goto,
       server, TypeOK
  <2>2. ASSUME NEW c \in Call, ReadSecret(c) \/ LoginFails(c) \/ BackOff(c)
        PROVE  LoginInv'
    <3>1. /\ pc[c] \in LoggingIn
          /\ UNCHANGED << clock, session, sessions, refused >>
          /\ \/ GiveUp(c)
             \/ Goto(c, "backing_off") /\ mutex' = mutex
             \/ Goto(c, "logging_in") /\ mutex' = [mutex EXCEPT !.posts = @ + 1]
      BY <2>2 DEF ReadSecret, LoginFails, BackOff, Post, LoggingIn, server
    <3>2. MutexInv'
      BY <2>0, MutexStep
    <3>3. {"backing_off", "logging_in"} \subseteq LoggingIn
      BY DEF LoggingIn
    <3> QED BY <2>0, <3>1, <3>2, <3>3, GiveUpKeepsAccount, AttemptKeepsAccount
  <2>3. ASSUME NEW c \in Call, StartLogin(c) PROVE LoginInv'
    BY <2>0, <2>3, StartLoginKeepsAccount
  <2>4. ASSUME NEW c \in Call, LoginSucceeds(c) PROVE LoginInv'
    BY <2>0, <2>4, LoginKeepsAccount
  <2>5. ASSUME NEW c \in Call, InvalidateAndRetry(c) PROVE LoginInv'
    BY <2>0, <2>5, InvalidateKeepsAccount
  <2>6. CASE Tick
    <3>1. /\ UNCHANGED << mutex, session, sessions, pc, refused >>
          /\ clock' = clock + 1
      BY <2>6 DEF Tick, server
    <3>2. session = None /\ mutex = None => Covered(clock + 1)
      BY <2>0, LoginNumbers, CoveredLater DEF LoginInv
    <3>3. /\ session # None => session.expiresAt <= clock + 1 + TTL
          /\ mutex # None => mutex.started <= clock + 1
      BY <2>0, LoginNumbers DEF LoginInv
    <3> QED BY <3>1, <3>2, <3>3 DEF LoginInv, Covered, Refused
  <2>7. CASE (\E id \in alive : ServerDrops(id)) \/ UNCHANGED vars
    BY <2>7, LoginKept DEF ServerDrops, vars, server
  <2> QED BY <2>1, <2>2, <2>3, <2>4, <2>5, <2>6, <2>7 DEF Next, Login, Serve
<1> QED BY <1>1, <1>2, Invariance, PTL DEF Spec

(* However many calls there are, and however they race for the cache, they *)
(* log in once, once for each of them that was refused, and once for each  *)
(* lifetime of a session that passes: the password is not posted for every *)
(* call that finds the cache empty.                                        *)
THEOREM LoginsShared == Spec => []LoginsAreShared
<1>1. TypeOK /\ LoginInv => LoginsAreShared
  <2> SUFFICES ASSUME TypeOK, LoginInv PROVE LoginsAreShared
    OBVIOUS
  <2> DEFINE R == Cardinality(Refused)
             q == clock \div TTL
  <2>1. /\ TTL \in Nat \ {0} /\ clock \in Nat /\ sessions \in Nat /\ R \in Nat
        /\ session # None => session.expiresAt \in Nat
        /\ mutex # None => mutex.started \in Nat
    BY LoginNumbers, ConstantAssumption
  <2>2. Covered(clock + TTL)
    <3>1. CASE session # None
      BY <2>1, <3>1, CoveredLater DEF LoginInv
    <3>2. CASE session = None /\ mutex = None
      BY <2>1, <3>2, CoveredLater DEF LoginInv
    <3>3. CASE mutex # None
      BY <2>1, <3>3, CoveredLater DEF LoginInv
    <3> QED BY <3>1, <3>2, <3>3
  <2>3. q \in Nat /\ clock < (q + 1) * TTL
    BY <2>1
  <2>4. (q + 1) * TTL + R * TTL + TTL = (R + q + 2) * TTL
    BY <2>1, <2>3
  <2>5. sessions * TTL < (R + q + 2) * TTL
    <3>1. /\ sessions * TTL \in Nat /\ R * TTL \in Nat /\ (q + 1) * TTL \in Nat
          /\ (R + q + 2) * TTL \in Nat
      BY <2>1, <2>3
    <3> QED BY <2>1, <2>2, <2>3, <2>4, <3>1 DEF Covered
  <2>6. ASSUME sessions >= R + q + 2 PROVE FALSE
    <3>1. sessions * TTL >= (R + q + 2) * TTL
      BY <2>1, <2>3, <2>6
    <3> QED BY <2>1, <2>3, <2>5, <3>1
  <2>7. sessions <= 1 + R + q
    BY <2>1, <2>3, <2>6
  <2> QED BY <2>7 DEF LoginsAreShared, Refused
<1>2. IInv => TypeOK
  BY DEF IInv
<1> QED BY <1>1, <1>2, Invariance, LoginInvariance, PTL
=============================================================================
