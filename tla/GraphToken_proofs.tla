-------------------------- MODULE GraphToken_proofs --------------------------
(***************************************************************************)
(* Proofs about GraphToken, for any processes, calls, enrolments and       *)
(* times.                                                                  *)
(***************************************************************************)
EXTENDS GraphToken, TLAPS

(* A call that is past the cache holds the mutex of its process, and no    *)
(* other call does.                                                        *)
LockInv ==
  \A c \in Call : pc[c] \in {"reading", "refreshing", "persisting"} =>
    mutex[Owner[c]] # None /\ mutex[Owner[c]].by = c

(* A task that refreshes or stores works with a credential.                *)
HeldInv ==
  \A t \in Task : pc[t] \in {"refreshing", "persisting"} =>
    cred[t] \in Credential

TypeInv == TypeOK /\ LockInv /\ HeldInv

(* The refresh tokens that the code knows have been granted.               *)
GrantedInv ==
  /\ stored # Bare => stored.refresh <= granted
  /\ \A t \in Task : pc[t] \in {"refreshing", "persisting"} =>
       cred[t].refresh <= granted

(* Unless the provider keeps refresh tokens, the one that a task is about  *)
(* to store is known to nobody else: neither to the store, nor to a call   *)
(* that might redeem it, nor to another task.                              *)
SoleInv ==
  rotation # "keep" =>
    \A t \in Task : pc[t] = "persisting" =>
      /\ stored # Bare => stored.refresh # cred[t].refresh
      /\ \A u \in Task \ {t} : pc[u] \in {"refreshing", "persisting"} =>
           cred[u].refresh # cred[t].refresh

(* What a task is about to store is good.                                  *)
LiveInv == \A t \in Task : pc[t] = "persisting" => cred[t].refresh \in live

IInv == TypeInv /\ GrantedInv /\ SoleInv /\ LiveInv /\ SignInIsKept

(* Calls and enrolments are tasks, and have a process.                     *)
LEMMA TaskTypes ==
  /\ Call \subseteq Task /\ Enrolment \subseteq Task
  /\ \A t \in Task : Owner[t] \in Process
BY TaskAssumption DEF Task

(* What a grant does to the provider.                                      *)
LEMMA GrantFacts ==
  ASSUME TypeOK, NEW r \in Nat, Grant(r)
  PROVE  /\ granted' \in Nat /\ granted <= granted'
         /\ rotation' = rotation
         /\ live' \subseteq 1..granted'
         /\ live \ {r} \subseteq live'
         /\ rotation # "one_time" => live \subseteq live'
         /\ ~ Keeps(r) => granted' = granted + 1 /\ granted' \in live'
<1>1. granted \in Nat /\ live \subseteq 1..granted
  BY DEF TypeOK
<1>2. granted' \in Nat /\ granted <= granted'
  BY <1>1 DEF Grant
<1>3. live' \subseteq live \cup 1..granted'
  BY DEF Grant
<1>4. ~ Keeps(r) => granted' = granted + 1 /\ granted' \in live'
  BY <1>1 DEF Grant
<1>5. 1..granted \subseteq 1..granted'
  BY <1>1, <1>2
<1> QED BY <1>1, <1>2, <1>3, <1>4, <1>5 DEF Grant

(* The first state is well typed.                                          *)
LEMMA TypeInit == Init => TypeInv
<1> SUFFICES ASSUME Init PROVE TypeInv
  OBVIOUS
<1>1. clock \in 0..MaxClock /\ stored \in Credential \cup {Bare}
  BY ConstantAssumption DEF Init
<1>2. granted \in Nat /\ live \subseteq 1..granted
  BY DEF Init
<1>3. cached \in [Process -> Credential \cup {None}]
  BY DEF Init
<1>4. mutex \in [Process -> Lock \cup {None}]
  BY DEF Init
<1>5. /\ pc \in [Task -> {"idle"} \cup Running \cup Ended]
      /\ cred \in [Task -> Credential \cup {Bare, None}]
  BY DEF Init
<1>6. TypeOK
  BY <1>1, <1>2, <1>3, <1>4, <1>5 DEF Init, TypeOK
<1> QED BY <1>6 DEF Init, TypeInv, LockInv, HeldInv, Task

(* Every step keeps the types and the mutex.                               *)
LEMMA TypeStep ==
  ASSUME TypeInv, [Next]_vars
  PROVE  TypeInv'
<1> USE TaskTypes
   DEF TypeInv, TypeOK, LockInv, HeldInv, Task, Running, Ended, Lock,
       Credential
<1>1. ASSUME NEW c \in Call, Begin(c)
      PROVE  TypeInv'
  BY <1>1 DEF Begin, Goto, provider
<1>2. ASSUME NEW c \in Call, TakeCachedToken(c)
      PROVE  TypeInv'
  BY <1>2 DEF TakeCachedToken, AnswerWith, Goto, Unlock, provider
<1>3. ASSUME NEW c \in Call, LookAtStore(c)
      PROVE  TypeInv'
  BY <1>3, NoneAssumption DEF LookAtStore, Goto, provider
<1>4. ASSUME NEW c \in Call, StoreFails(c)
      PROVE  TypeInv'
  BY <1>4 DEF StoreFails, GiveUp, Goto, Unlock, provider
<1>5. ASSUME NEW c \in Call, ReadBareToken(c)
      PROVE  TypeInv'
  BY <1>5 DEF ReadBareToken, AnswerWith, Goto, Unlock, provider
<1>6. ASSUME NEW c \in Call, ReadUnexpired(c)
      PROVE  TypeInv'
  BY <1>6 DEF ReadUnexpired, AnswerWith, Goto, Unlock, provider
<1>7. ASSUME NEW c \in Call, ReadExpired(c)
      PROVE  TypeInv'
  BY <1>7 DEF ReadExpired, GiveUp, Goto, Unlock, provider
<1>8. ASSUME NEW c \in Call, Refresh(c)
      PROVE  TypeInv'
  BY <1>8, GrantFacts, ConstantAssumption DEF Refresh, NewCredential, Now, Goto
<1>9. ASSUME NEW c \in Call, RefreshFails(c)
      PROVE  TypeInv'
  <2>1. cred[c].refresh \in Nat
    BY <1>9 DEF RefreshFails
  <2>2. /\ granted' \in Nat /\ live' \subseteq 1..granted'
        /\ rotation' \in Rotations /\ mishap' \in BOOLEAN
    BY <1>9, <2>1, GrantFacts DEF RefreshFails, provider
  <2>3. /\ pc[c] = "refreshing" /\ pc' = [pc EXCEPT ![c] = "failed"]
        /\ mutex' = [mutex EXCEPT ![Owner[c]] = None]
        /\ UNCHANGED << clock, stored, cached, cred >>
    BY <1>9 DEF RefreshFails, GiveUp, Goto, Unlock
  <2> QED BY <2>2, <2>3
<1>10. ASSUME NEW c \in Call, Persist(c)
      PROVE  TypeInv'
  BY <1>10 DEF Persist, AnswerWith, Goto, Unlock, provider
<1>11. ASSUME NEW e \in Enrolment, Enrol(e)
      PROVE  TypeInv'
  BY <1>11, GrantFacts, ConstantAssumption, TaskAssumption
     DEF Enrol, NewCredential, Goto
<1>12. ASSUME NEW e \in Enrolment, PersistEnrolment(e)
      PROVE  TypeInv'
  BY <1>12 DEF PersistEnrolment, Goto, provider
<1>13. ASSUME NEW t \in Task, PersistFails(t)
      PROVE  TypeInv'
  BY <1>13, TaskAssumption DEF PersistFails, GiveUp, Goto, Unlock, provider
<1>14. ASSUME NEW p \in Process, Restart(p)
      PROVE  TypeInv'
  BY <1>14 DEF Restart, provider
<1>15. CASE Tick
  BY <1>15, ConstantAssumption DEF Tick, provider
<1>16. CASE UNCHANGED vars
  BY <1>16 DEF vars
<1> QED
  BY <1>1, <1>2, <1>3, <1>4, <1>5, <1>6, <1>7, <1>8, <1>9, <1>10, <1>11, <1>12,
     <1>13, <1>14, <1>15, <1>16 DEF Next, Bearer

(* Every step keeps GrantedInv: new refresh tokens have new numbers.       *)
LEMMA GrantedStep ==
  ASSUME TypeInv, TypeInv', GrantedInv, [Next]_vars
  PROVE  GrantedInv'
<1> USE DEF TypeInv, TypeOK, HeldInv, GrantedInv, Credential
<1>1. ASSUME NEW c \in Call, Begin(c)
      PROVE  GrantedInv'
  BY <1>1 DEF Begin, Goto, provider
<1>2. ASSUME NEW c \in Call, TakeCachedToken(c)
      PROVE  GrantedInv'
  BY <1>2 DEF TakeCachedToken, AnswerWith, Goto, provider
<1>3. ASSUME NEW c \in Call, LookAtStore(c)
      PROVE  GrantedInv'
  BY <1>3 DEF LookAtStore, Goto, provider
<1>4. ASSUME NEW c \in Call, StoreFails(c)
      PROVE  GrantedInv'
  BY <1>4 DEF StoreFails, GiveUp, Goto, provider
<1>5. ASSUME NEW c \in Call, ReadBareToken(c)
      PROVE  GrantedInv'
  BY <1>5 DEF ReadBareToken, AnswerWith, Goto, provider
<1>6. ASSUME NEW c \in Call, ReadUnexpired(c)
      PROVE  GrantedInv'
  BY <1>6 DEF ReadUnexpired, AnswerWith, Goto, provider
<1>7. ASSUME NEW c \in Call, ReadExpired(c)
      PROVE  GrantedInv'
  BY <1>7 DEF ReadExpired, GiveUp, Goto, provider
<1>8. ASSUME NEW c \in Call, Refresh(c)
      PROVE  GrantedInv'
  BY <1>8, GrantFacts DEF Refresh, NewCredential, Goto
<1>9. ASSUME NEW c \in Call, RefreshFails(c)
      PROVE  GrantedInv'
  BY <1>9, GrantFacts DEF RefreshFails, GiveUp, Goto, provider
<1>10. ASSUME NEW c \in Call, Persist(c)
      PROVE  GrantedInv'
  BY <1>10 DEF Persist, AnswerWith, Goto, provider
<1>11. ASSUME NEW e \in Enrolment, Enrol(e)
      PROVE  GrantedInv'
  BY <1>11, GrantFacts DEF Enrol, NewCredential, Goto
<1>12. ASSUME NEW e \in Enrolment, PersistEnrolment(e)
      PROVE  GrantedInv'
  BY <1>12 DEF PersistEnrolment, Goto, provider
<1>13. ASSUME NEW t \in Task, PersistFails(t)
      PROVE  GrantedInv'
  BY <1>13 DEF PersistFails, GiveUp, Goto, provider
<1>14. ASSUME NEW p \in Process, Restart(p)
      PROVE  GrantedInv'
  BY <1>14 DEF Restart, provider
<1>15. CASE Tick
  BY <1>15 DEF Tick, provider
<1>16. CASE UNCHANGED vars
  BY <1>16 DEF vars
<1> QED
  BY <1>1, <1>2, <1>3, <1>4, <1>5, <1>6, <1>7, <1>8, <1>9, <1>10, <1>11, <1>12,
     <1>13, <1>14, <1>15, <1>16 DEF Next, Bearer

(* Every step keeps SoleInv.                                               *)
LEMMA SoleStep ==
  ASSUME TypeInv, TypeInv', GrantedInv, SoleInv, [Next]_vars
  PROVE  SoleInv'
<1> USE DEF TypeInv, TypeOK, HeldInv, GrantedInv, SoleInv, Credential
<1>1. ASSUME NEW c \in Call, Begin(c)
      PROVE  SoleInv'
  BY <1>1 DEF Begin, Goto, provider
<1>2. ASSUME NEW c \in Call, TakeCachedToken(c)
      PROVE  SoleInv'
  BY <1>2 DEF TakeCachedToken, AnswerWith, Goto, provider
<1>3. ASSUME NEW c \in Call, LookAtStore(c)
      PROVE  SoleInv'
  BY <1>3 DEF LookAtStore, Goto, provider
<1>4. ASSUME NEW c \in Call, StoreFails(c)
      PROVE  SoleInv'
  BY <1>4 DEF StoreFails, GiveUp, Goto, provider
<1>5. ASSUME NEW c \in Call, ReadBareToken(c)
      PROVE  SoleInv'
  BY <1>5 DEF ReadBareToken, AnswerWith, Goto, provider
<1>6. ASSUME NEW c \in Call, ReadUnexpired(c)
      PROVE  SoleInv'
  BY <1>6 DEF ReadUnexpired, AnswerWith, Goto, provider
<1>7. ASSUME NEW c \in Call, ReadExpired(c)
      PROVE  SoleInv'
  BY <1>7 DEF ReadExpired, GiveUp, Goto, provider
<1>8. ASSUME NEW c \in Call, Refresh(c)
      PROVE  SoleInv'
  BY <1>8, GrantFacts DEF Refresh, Keeps, NewCredential, Goto
<1>9. ASSUME NEW c \in Call, RefreshFails(c)
      PROVE  SoleInv'
  BY <1>9, GrantFacts DEF RefreshFails, GiveUp, Goto, provider
<1>10. ASSUME NEW c \in Call, Persist(c)
      PROVE  SoleInv'
  BY <1>10 DEF Persist, AnswerWith, Goto, provider
<1>11. ASSUME NEW e \in Enrolment, Enrol(e)
      PROVE  SoleInv'
  BY <1>11, GrantFacts DEF Enrol, Keeps, NewCredential, Goto
<1>12. ASSUME NEW e \in Enrolment, PersistEnrolment(e)
      PROVE  SoleInv'
  BY <1>12 DEF PersistEnrolment, Goto, provider
<1>13. ASSUME NEW t \in Task, PersistFails(t)
      PROVE  SoleInv'
  BY <1>13 DEF PersistFails, GiveUp, Goto, provider
<1>14. ASSUME NEW p \in Process, Restart(p)
      PROVE  SoleInv'
  BY <1>14 DEF Restart, provider
<1>15. CASE Tick
  BY <1>15 DEF Tick, provider
<1>16. CASE UNCHANGED vars
  BY <1>16 DEF vars
<1> QED
  BY <1>1, <1>2, <1>3, <1>4, <1>5, <1>6, <1>7, <1>8, <1>9, <1>10, <1>11, <1>12,
     <1>13, <1>14, <1>15, <1>16 DEF Next, Bearer

(* Every step keeps LiveInv: no call redeems what another is about to      *)
(* store.                                                                  *)
LEMMA LiveStep ==
  ASSUME TypeInv, GrantedInv, SoleInv, LiveInv, [Next]_vars
  PROVE  LiveInv'
<1> USE TaskTypes DEF TypeInv, TypeOK, HeldInv, SoleInv, LiveInv, Credential
<1>1. ASSUME NEW c \in Call, Begin(c)
      PROVE  LiveInv'
  BY <1>1 DEF Begin, Goto, provider
<1>2. ASSUME NEW c \in Call, TakeCachedToken(c)
      PROVE  LiveInv'
  BY <1>2 DEF TakeCachedToken, AnswerWith, Goto, provider
<1>3. ASSUME NEW c \in Call, LookAtStore(c)
      PROVE  LiveInv'
  BY <1>3 DEF LookAtStore, Goto, provider
<1>4. ASSUME NEW c \in Call, StoreFails(c)
      PROVE  LiveInv'
  BY <1>4 DEF StoreFails, GiveUp, Goto, provider
<1>5. ASSUME NEW c \in Call, ReadBareToken(c)
      PROVE  LiveInv'
  BY <1>5 DEF ReadBareToken, AnswerWith, Goto, provider
<1>6. ASSUME NEW c \in Call, ReadUnexpired(c)
      PROVE  LiveInv'
  BY <1>6 DEF ReadUnexpired, AnswerWith, Goto, provider
<1>7. ASSUME NEW c \in Call, ReadExpired(c)
      PROVE  LiveInv'
  BY <1>7 DEF ReadExpired, GiveUp, Goto, provider
<1>8. ASSUME NEW c \in Call, Refresh(c)
      PROVE  LiveInv'
  BY <1>8, GrantFacts DEF Refresh, Keeps, NewCredential, Goto
<1>9. ASSUME NEW c \in Call, RefreshFails(c)
      PROVE  LiveInv'
  BY <1>9, GrantFacts DEF RefreshFails, GiveUp, Goto, provider
<1>10. ASSUME NEW c \in Call, Persist(c)
      PROVE  LiveInv'
  BY <1>10 DEF Persist, AnswerWith, Goto, provider
<1>11. ASSUME NEW e \in Enrolment, Enrol(e)
      PROVE  LiveInv'
  BY <1>11, GrantFacts DEF Enrol, Keeps, NewCredential, Goto
<1>12. ASSUME NEW e \in Enrolment, PersistEnrolment(e)
      PROVE  LiveInv'
  BY <1>12 DEF PersistEnrolment, Goto, provider
<1>13. ASSUME NEW t \in Task, PersistFails(t)
      PROVE  LiveInv'
  BY <1>13 DEF PersistFails, GiveUp, Goto, provider
<1>14. ASSUME NEW p \in Process, Restart(p)
      PROVE  LiveInv'
  BY <1>14 DEF Restart, provider
<1>15. CASE Tick
  BY <1>15 DEF Tick, provider
<1>16. CASE UNCHANGED vars
  BY <1>16 DEF vars
<1> QED
  BY <1>1, <1>2, <1>3, <1>4, <1>5, <1>6, <1>7, <1>8, <1>9, <1>10, <1>11, <1>12,
     <1>13, <1>14, <1>15, <1>16 DEF Next, Bearer

(* Every step keeps the sign-in, if the store can be written.              *)
LEMMA KeptStep ==
  ASSUME Writable, TypeInv, TypeInv', LiveInv, LiveInv',
         SignInIsKept, [Next]_vars
  PROVE  SignInIsKept'
<1> USE TaskTypes
   DEF TypeInv, TypeOK, HeldInv, LiveInv, SignInIsKept, Usable, Credential
<1>1. ASSUME NEW c \in Call, Begin(c)
      PROVE  SignInIsKept'
  BY <1>1 DEF Begin, Goto, provider
<1>2. ASSUME NEW c \in Call, TakeCachedToken(c)
      PROVE  SignInIsKept'
  BY <1>2 DEF TakeCachedToken, AnswerWith, Goto, provider
<1>3. ASSUME NEW c \in Call, LookAtStore(c)
      PROVE  SignInIsKept'
  BY <1>3 DEF LookAtStore, Goto, provider
<1>4. ASSUME NEW c \in Call, StoreFails(c)
      PROVE  SignInIsKept'
  BY <1>4 DEF StoreFails, GiveUp, Goto, provider
<1>5. ASSUME NEW c \in Call, ReadBareToken(c)
      PROVE  SignInIsKept'
  BY <1>5 DEF ReadBareToken
<1>6. ASSUME NEW c \in Call, ReadUnexpired(c)
      PROVE  SignInIsKept'
  BY <1>6 DEF ReadUnexpired, AnswerWith, Goto, provider
<1>7. ASSUME NEW c \in Call, ReadExpired(c)
      PROVE  SignInIsKept'
  BY <1>7 DEF ReadExpired, GiveUp, Goto, provider
<1>8. ASSUME NEW c \in Call, Refresh(c)
      PROVE  SignInIsKept'
  <2>1. c \in Task /\ pc'[c] = "persisting"
    BY <1>8 DEF Refresh, Goto
  <2>2. cred'[c] # None /\ cred'[c].refresh \in live'
    BY <2>1, NoneAssumption
  <2> QED BY <2>1, <2>2
<1>9. ASSUME NEW c \in Call, RefreshFails(c)
      PROVE  SignInIsKept'
  BY <1>9 DEF RefreshFails, GiveUp, Goto, provider
<1>10. ASSUME NEW c \in Call, Persist(c)
      PROVE  SignInIsKept'
  BY <1>10, NoneAssumption DEF Persist, provider
<1>11. ASSUME NEW e \in Enrolment, Enrol(e)
      PROVE  SignInIsKept'
  BY <1>11, GrantFacts DEF Enrol, Goto
<1>12. ASSUME NEW e \in Enrolment, PersistEnrolment(e)
      PROVE  SignInIsKept'
  BY <1>12, NoneAssumption DEF PersistEnrolment, provider
<1>13. ASSUME NEW t \in Task, PersistFails(t)
      PROVE  SignInIsKept'
  BY <1>13 DEF PersistFails
<1>14. ASSUME NEW p \in Process, Restart(p)
      PROVE  SignInIsKept'
  BY <1>14 DEF Restart, provider
<1>15. CASE Tick
  BY <1>15 DEF Tick, provider
<1>16. CASE UNCHANGED vars
  BY <1>16 DEF vars
<1> QED
  BY <1>1, <1>2, <1>3, <1>4, <1>5, <1>6, <1>7, <1>8, <1>9, <1>10, <1>11, <1>12,
     <1>13, <1>14, <1>15, <1>16 DEF Next, Bearer

(* The state is well typed, and no two calls of a process are between the  *)
(* cache and the end of the refresh (tokenMu).                             *)
THEOREM TypeCorrect == Spec => []TypeOK
<1>1. TypeInv /\ [Next]_vars => TypeInv'
  BY TypeStep
<1>2. TypeInv => TypeOK
  BY DEF TypeInv
<1> QED BY TypeInit, <1>1, <1>2, PTL DEF Spec

(* The user need not sign in again as long as no new credential is lost on *)
(* its way, whatever the processes and enrolments that share a store do:   *)
(* bearerToken stores what it refreshed, if the store can be written and   *)
(* holds a refresh token that the provider accepts at first.               *)
THEOREM SignInStaysKept ==
  ASSUME Writable,
         \A k \in FirstStored : k # Bare => k.refresh = 1
  PROVE  Spec => []SignInIsKept
<1>1. Init => IInv
  <2> SUFFICES ASSUME Init PROVE IInv
    OBVIOUS
  <2>1. stored # Bare => stored.refresh = 1
    BY DEF Init
  <2>2. TypeInv
    BY TypeInit
  <2>3. GrantedInv /\ SoleInv /\ LiveInv
    BY <2>1 DEF Init, GrantedInv, SoleInv, LiveInv
  <2>4. SignInIsKept
    BY <2>1, NoneAssumption, ConstantAssumption DEF Init, SignInIsKept, Usable
  <2> QED BY <2>2, <2>3, <2>4 DEF IInv
<1>2. IInv /\ [Next]_vars => IInv'
  BY TypeStep, GrantedStep, SoleStep, LiveStep, KeptStep DEF IInv
<1>3. IInv => SignInIsKept
  BY DEF IInv
<1> QED BY <1>1, <1>2, <1>3, PTL DEF Spec
-----------------------------------------------------------------------------
(* Answered tokens.                                                        *)

(* The code judges a token by an expiresAt that is later than the death of *)
(* the token by the time that a call may have waited for its grant.        *)
InTime(k) == k.expiresAt <= k.dies + Hold

(* A call that holds the mutex has not held it for longer than Hold, every *)
(* credential is in time, and a new one lives since the call began.        *)
TimeInv ==
  /\ \A p \in Process : mutex[p] # None =>
       mutex[p].now <= clock /\ clock <= mutex[p].now + Hold
  /\ stored # Bare => InTime(stored)
  /\ \A p \in Process : cached[p] # None => InTime(cached[p])
  /\ \A t \in Task : pc[t] = "persisting" => InTime(cred[t])
  /\ \A c \in Call : pc[c] = "persisting" => Now(c) + Life <= cred[c].dies

(* Every step keeps TimeInv.                                               *)
LEMMA TimeStep ==
  ASSUME TypeInv, TypeInv', TimeInv, [Next]_vars
  PROVE  TimeInv'
<1> USE TaskTypes
   DEF TypeInv, TypeOK, LockInv, HeldInv, TimeInv, InTime, Now, Credential, Lock
<1>1. ASSUME NEW c \in Call, Begin(c)
      PROVE  TimeInv'
  BY <1>1 DEF Begin, Goto, provider
<1>2. ASSUME NEW c \in Call, TakeCachedToken(c)
      PROVE  TimeInv'
  BY <1>2 DEF TakeCachedToken, AnswerWith, Goto, Unlock, provider
<1>3. ASSUME NEW c \in Call, LookAtStore(c)
      PROVE  TimeInv'
  <2>1. /\ Owner[c] \in Process /\ clock \in Nat /\ Hold \in Nat
        /\ mutex' = [mutex EXCEPT ![Owner[c]] = [ by |-> c, now |-> clock ]]
        /\ UNCHANGED << clock, stored, cached, cred >>
        /\ pc' = [pc EXCEPT ![c] = "reading"]
        /\ mutex[Owner[c]] = None /\ c \in Task
    BY <1>3, ConstantAssumption DEF LookAtStore, Goto
  <2>2. \A p \in Process : mutex'[p] # None =>
          mutex'[p].now <= clock' /\ clock' <= mutex'[p].now + Hold
    BY <2>1
  <2>3. \A d \in Call : pc[d] = "persisting" => Owner[d] # Owner[c]
    BY <2>1
  <2>4. \A d \in Call : pc'[d] = "persisting" => Now(d)' + Life <= cred'[d].dies
    BY <2>1, <2>3
  <2> QED BY <2>1, <2>2, <2>4
<1>4. ASSUME NEW c \in Call, StoreFails(c)
      PROVE  TimeInv'
  BY <1>4 DEF StoreFails, GiveUp, Goto, Unlock, provider
<1>5. ASSUME NEW c \in Call, ReadBareToken(c)
      PROVE  TimeInv'
  BY <1>5 DEF ReadBareToken, AnswerWith, Goto, Unlock, provider
<1>6. ASSUME NEW c \in Call, ReadUnexpired(c)
      PROVE  TimeInv'
  BY <1>6 DEF ReadUnexpired, AnswerWith, Goto, Unlock, provider
<1>7. ASSUME NEW c \in Call, ReadExpired(c)
      PROVE  TimeInv'
  BY <1>7 DEF ReadExpired, GiveUp, Goto, Unlock, provider
<1>8. ASSUME NEW c \in Call, Refresh(c)
      PROVE  TimeInv'
  <2>1. PICK since \in Now(c)..clock :
          cred' = [cred EXCEPT ![c] = NewCredential(cred[c].refresh, since)]
    BY <1>8 DEF Refresh
  <2>2. /\ pc[c] = "refreshing" /\ pc' = [pc EXCEPT ![c] = "persisting"]
        /\ UNCHANGED << clock, stored, cached, mutex >>
    BY <1>8 DEF Refresh, Goto
  <2>3. /\ mutex[Owner[c]].now \in Nat /\ clock \in Nat
        /\ Life \in Nat /\ Hold \in Nat /\ since \in Nat
        /\ mutex[Owner[c]].now <= since /\ since <= clock
        /\ clock <= mutex[Owner[c]].now + Hold
    BY <2>1, <2>2, ConstantAssumption
  <2>4. cred'[c].expiresAt = clock + Life /\ cred'[c].dies = since + Life
    BY <2>1 DEF NewCredential
  <2>5. InTime(cred'[c]) /\ Now(c) + Life <= cred'[c].dies
    BY <2>3, <2>4
  <2>6. \A t \in Task \ {c} : cred'[t] = cred[t]
    BY <2>1
  <2> QED BY <2>2, <2>5, <2>6
<1>9. ASSUME NEW c \in Call, RefreshFails(c)
      PROVE  TimeInv'
  BY <1>9 DEF RefreshFails, GiveUp, Goto, Unlock, provider
<1>10. ASSUME NEW c \in Call, Persist(c)
      PROVE  TimeInv'
  BY <1>10 DEF Persist, AnswerWith, Goto, Unlock, provider
<1>11. ASSUME NEW e \in Enrolment, Enrol(e)
      PROVE  TimeInv'
  BY <1>11, ConstantAssumption, TaskAssumption DEF Enrol, NewCredential, Goto
<1>12. ASSUME NEW e \in Enrolment, PersistEnrolment(e)
      PROVE  TimeInv'
  BY <1>12 DEF PersistEnrolment, Goto, provider
<1>13. ASSUME NEW t \in Task, PersistFails(t)
      PROVE  TimeInv'
  BY <1>13 DEF PersistFails, GiveUp, Goto, Unlock, provider
<1>14. ASSUME NEW p \in Process, Restart(p)
      PROVE  TimeInv'
  BY <1>14 DEF Restart, provider
<1>15. CASE Tick
  <2>1. \A p \in Process : mutex[p] # None =>
          mutex[p].now <= clock + 1 /\ clock + 1 <= mutex[p].now + Hold
    BY <1>15, ConstantAssumption DEF Tick
  <2> QED BY <1>15, <2>1 DEF Tick, provider
<1>16. CASE UNCHANGED vars
  BY <1>16 DEF vars
<1> QED
  BY <1>1, <1>2, <1>3, <1>4, <1>5, <1>6, <1>7, <1>8, <1>9, <1>10, <1>11, <1>12,
     <1>13, <1>14, <1>15, <1>16 DEF Next, Bearer

(* How a call comes to answer.                                             *)
LEMMA WhoAnswers ==
  ASSUME TypeInv, [Next]_vars, NEW c \in Call,
         pc[c] # "answered", pc'[c] = "answered"
  PROVE  \/ TakeCachedToken(c) \/ ReadBareToken(c)
         \/ ReadUnexpired(c) \/ Persist(c)
<1> USE TaskTypes DEF TypeInv, TypeOK
<1>1. ASSUME NEW d \in Call, Bearer(d), d # c
      PROVE  pc'[c] = pc[c]
  BY <1>1 DEF Bearer, Begin, TakeCachedToken, LookAtStore, StoreFails,
     ReadBareToken, ReadUnexpired, ReadExpired, Refresh, RefreshFails,
     Persist, AnswerWith, GiveUp, Goto
<1>2. ASSUME Bearer(c)
      PROVE  \/ TakeCachedToken(c) \/ ReadBareToken(c)
             \/ ReadUnexpired(c) \/ Persist(c)
  BY <1>2 DEF Bearer, Begin, LookAtStore, StoreFails, ReadExpired, Refresh,
     RefreshFails, GiveUp, Goto
<1>3. ASSUME NEW e \in Enrolment, Enrol(e) \/ PersistEnrolment(e)
      PROVE  pc'[c] = pc[c]
  BY <1>3, TaskAssumption DEF Enrol, PersistEnrolment, Goto
<1>4. ASSUME NEW t \in Task, PersistFails(t)
      PROVE  pc'[c] # "answered"
  BY <1>4 DEF PersistFails, GiveUp, Goto
<1>5. ASSUME NEW p \in Process, Restart(p)
      PROVE  pc'[c] # "answered"
  BY <1>5 DEF Restart
<1>6. CASE Tick \/ UNCHANGED vars
  BY <1>6 DEF Tick, vars
<1> QED BY <1>1, <1>2, <1>3, <1>4, <1>5, <1>6 DEF Next

(* What a call answers with is alive, or a bare token: the margin of       *)
(* expired covers the wait for the store and for the grant.                *)
LEMMA AnswersAreAlive ==
  ASSUME TypeInv, TimeInv, 2 * Hold <= Skew, Hold < Life,
         [Next]_vars, NEW c \in Call, pc[c] # "answered", pc'[c] = "answered"
  PROVE  cred'[c] = Bare \/ clock < cred'[c].dies
<1> USE TaskTypes, ConstantAssumption
   DEF TypeInv, TypeOK, LockInv, HeldInv, TimeInv, InTime, Now, Credential,
       Lock, Expired
<1>1. \/ TakeCachedToken(c) \/ ReadBareToken(c)
      \/ ReadUnexpired(c) \/ Persist(c)
  BY WhoAnswers
<1>2. CASE TakeCachedToken(c)
  BY <1>2 DEF TakeCachedToken, HasToken, AnswerWith
<1>3. CASE ReadBareToken(c)
  BY <1>3 DEF ReadBareToken, AnswerWith
<1>4. CASE ReadUnexpired(c)
  BY <1>4 DEF ReadUnexpired, AnswerWith
<1>5. CASE Persist(c)
  BY <1>5 DEF Persist, AnswerWith
<1> QED BY <1>1, <1>2, <1>3, <1>4, <1>5

(* bearerToken answers with a token that the provider still accepts, if    *)
(* the margin of expired (five minutes) covers twice the time that a call  *)
(* may hold the mutex, the provider's tokens live longer than that, and    *)
(* what is stored at first was stored by this code, or as it would have.   *)
THEOREM AnswersAreAccepted ==
  ASSUME 2 * Hold <= Skew, Hold < Life,
         \A k \in FirstStored : k # Bare => InTime(k)
  PROVE  Spec => AnsweredTokenIsAccepted
<1>1. Init => TimeInv
  BY TaskAssumption DEF Init, TimeInv, Task
<1>2. /\ TypeInv /\ [Next]_vars => TypeInv'
      /\ TypeInv /\ TypeInv' /\ TimeInv /\ [Next]_vars => TimeInv'
  BY TypeStep, TimeStep
<1>3. TypeInv /\ TimeInv /\ [Next]_vars =>
        [\A c \in Call : pc[c] # "answered" /\ pc'[c] = "answered" =>
           cred'[c] = Bare \/ clock < cred'[c].dies]_vars
  BY AnswersAreAlive
<1> QED BY TypeInit, <1>1, <1>2, <1>3, PTL DEF Spec, AnsweredTokenIsAccepted
-----------------------------------------------------------------------------
(* Replaced refresh tokens.                                                *)

(* What the store and the caches hold, and calls have answered with.       *)
Published ==
  ( {stored} \cup {cached[p] : p \in Process}
             \cup {cred[c] : c \in {d \in Call : pc[d] = "answered"}} )
  \ {Bare, None}

(* A refresh token that nobody will find in the store again.               *)
Retired(x) ==
  /\ x <= granted
  /\ stored # Bare => stored.refresh # x
  /\ \A t \in Task : pc[t] = "persisting" => cred[t].refresh # x

(* Unless the provider keeps refresh tokens, the one that a published      *)
(* credential replaced is retired, and the one that a credential on its    *)
(* way to the store replaced will be once it is published.                 *)
RetiredInv ==
  rotation # "keep" =>
    /\ \A k \in Published : k.from # 0 => Retired(k.from)
    /\ \A t \in Task : pc[t] = "persisting" =>
         /\ cred[t].from <= granted
         /\ \A u \in Task : pc[u] = "persisting" /\ cred[t].from # 0 =>
              cred[u].refresh # cred[t].from

(* A provider that keeps refresh tokens replaces none.                     *)
KeptInv ==
  rotation = "keep" =>
    /\ \A k \in Published : k.from \in {0, k.refresh}
    /\ \A t \in Task : pc[t] = "persisting" =>
         cred[t].from \in {0, cred[t].refresh}

RedeemInv ==
  TypeInv /\ GrantedInv /\ SoleInv /\ RetiredInv /\ KeptInv
          /\ ReplacedTokenIsNotRedeemed

(* Only a credential that has just been stored is newly published.         *)
LEMMA PublishedWhenStored ==
  ASSUME Writable, TypeInv, [Next]_vars,
         NEW k \in Published', k \notin Published
  PROVE  \E t \in Task : /\ pc[t] = "persisting" /\ k = cred[t] /\ stored' = k
                         /\ UNCHANGED granted
                         /\ \A u \in Task : pc'[u] = "persisting" =>
                              pc[u] = "persisting" /\ cred'[u] = cred[u]
<1> DEFINE Stored ==
      \E t \in Task : /\ pc[t] = "persisting" /\ k = cred[t] /\ stored' = k
                      /\ UNCHANGED granted
                      /\ \A u \in Task : pc'[u] = "persisting" =>
                           pc[u] = "persisting" /\ cred'[u] = cred[u]
<1> SUFFICES Stored
  OBVIOUS
<1> USE TaskTypes DEF TypeInv, TypeOK, LockInv, HeldInv, Published
<1>1. ASSUME NEW b \in Call, Begin(b)
      PROVE  Stored
  BY <1>1 DEF Begin, Goto, provider
<1>2. ASSUME NEW b \in Call, TakeCachedToken(b)
      PROVE  Stored
  BY <1>2 DEF TakeCachedToken, HasToken, AnswerWith, Goto, provider
<1>3. ASSUME NEW b \in Call, LookAtStore(b)
      PROVE  Stored
  BY <1>3 DEF LookAtStore, Goto, provider
<1>4. ASSUME NEW b \in Call, StoreFails(b)
      PROVE  Stored
  BY <1>4 DEF StoreFails, GiveUp, Goto, provider
<1>5. ASSUME NEW b \in Call, ReadBareToken(b)
      PROVE  Stored
  BY <1>5 DEF ReadBareToken, AnswerWith, Goto, provider
<1>6. ASSUME NEW b \in Call, ReadUnexpired(b)
      PROVE  Stored
  BY <1>6 DEF ReadUnexpired, AnswerWith, Goto, provider
<1>7. ASSUME NEW b \in Call, ReadExpired(b)
      PROVE  Stored
  BY <1>7 DEF ReadExpired, GiveUp, Goto, provider
<1>8. ASSUME NEW b \in Call, Refresh(b)
      PROVE  Stored
  BY <1>8 DEF Refresh, Goto
<1>9. ASSUME NEW b \in Call, RefreshFails(b)
      PROVE  Stored
  BY <1>9 DEF RefreshFails, GiveUp, Goto
<1>10. ASSUME NEW b \in Call, Persist(b)
      PROVE  Stored
  BY <1>10 DEF Persist, AnswerWith, Goto, provider
<1>11. ASSUME NEW e \in Enrolment, Enrol(e)
      PROVE  Stored
  BY <1>11 DEF Enrol, Goto
<1>12. ASSUME NEW e \in Enrolment, PersistEnrolment(e)
      PROVE  Stored
  BY <1>12 DEF PersistEnrolment, Goto, provider
<1>13. ASSUME NEW s \in Task, PersistFails(s)
      PROVE  Stored
  BY <1>13 DEF PersistFails, GiveUp, Goto, provider
<1>14. ASSUME NEW p \in Process, Restart(p)
      PROVE  Stored
  BY <1>14 DEF Restart, provider
<1>15. CASE Tick
  BY <1>15 DEF Tick, provider
<1>16. CASE UNCHANGED vars
  BY <1>16 DEF vars
<1> QED
  BY <1>1, <1>2, <1>3, <1>4, <1>5, <1>6, <1>7, <1>8, <1>9, <1>10, <1>11, <1>12,
     <1>13, <1>14, <1>15, <1>16 DEF Next, Bearer

(* A retired refresh token stays retired.                                  *)
LEMMA RetiredStays ==
  ASSUME TypeInv, GrantedInv, rotation # "keep",
         [Next]_vars, NEW x \in Nat, Retired(x)
  PROVE  Retired(x)'
<1> USE TaskTypes DEF TypeInv, TypeOK, HeldInv, GrantedInv, Retired, Credential
<1>1. ASSUME NEW b \in Call, Begin(b)
      PROVE  Retired(x)'
  BY <1>1 DEF Begin, Goto, provider
<1>2. ASSUME NEW b \in Call, TakeCachedToken(b)
      PROVE  Retired(x)'
  BY <1>2 DEF TakeCachedToken, HasToken, AnswerWith, Goto, provider
<1>3. ASSUME NEW b \in Call, LookAtStore(b)
      PROVE  Retired(x)'
  BY <1>3 DEF LookAtStore, Goto, provider
<1>4. ASSUME NEW b \in Call, StoreFails(b)
      PROVE  Retired(x)'
  BY <1>4 DEF StoreFails, GiveUp, Goto, provider
<1>5. ASSUME NEW b \in Call, ReadBareToken(b)
      PROVE  Retired(x)'
  BY <1>5 DEF ReadBareToken, AnswerWith, Goto, provider
<1>6. ASSUME NEW b \in Call, ReadUnexpired(b)
      PROVE  Retired(x)'
  BY <1>6 DEF ReadUnexpired, AnswerWith, Goto, provider
<1>7. ASSUME NEW b \in Call, ReadExpired(b)
      PROVE  Retired(x)'
  BY <1>7 DEF ReadExpired, GiveUp, Goto, provider
<1>8. ASSUME NEW b \in Call, Refresh(b)
      PROVE  Retired(x)'
  BY <1>8, GrantFacts DEF Refresh, Keeps, NewCredential, Goto
<1>9. ASSUME NEW b \in Call, RefreshFails(b)
      PROVE  Retired(x)'
  BY <1>9, GrantFacts DEF RefreshFails, GiveUp, Goto, provider
<1>10. ASSUME NEW b \in Call, Persist(b)
      PROVE  Retired(x)'
  BY <1>10 DEF Persist, AnswerWith, Goto, provider
<1>11. ASSUME NEW e \in Enrolment, Enrol(e)
      PROVE  Retired(x)'
  BY <1>11, GrantFacts DEF Enrol, Keeps, NewCredential, Goto
<1>12. ASSUME NEW e \in Enrolment, PersistEnrolment(e)
      PROVE  Retired(x)'
  BY <1>12 DEF PersistEnrolment, Goto, provider
<1>13. ASSUME NEW s \in Task, PersistFails(s)
      PROVE  Retired(x)'
  BY <1>13 DEF PersistFails, GiveUp, Goto, provider
<1>14. ASSUME NEW p \in Process, Restart(p)
      PROVE  Retired(x)'
  BY <1>14 DEF Restart, provider
<1>15. CASE Tick
  BY <1>15 DEF Tick, provider
<1>16. CASE UNCHANGED vars
  BY <1>16 DEF vars
<1> QED
  BY <1>1, <1>2, <1>3, <1>4, <1>5, <1>6, <1>7, <1>8, <1>9, <1>10, <1>11, <1>12,
     <1>13, <1>14, <1>15, <1>16 DEF Next, Bearer

(* No credential on its way to the store replaced one that is on its way.  *)
LEMMA PersistingStep ==
  ASSUME TypeInv, TypeInv', GrantedInv, SoleInv, RetiredInv,
         rotation # "keep", [Next]_vars,
         NEW t \in Task, NEW u \in Task,
         pc'[t] = "persisting", pc'[u] = "persisting"
  PROVE  /\ cred'[t].from <= granted'
         /\ cred'[t].from # 0 => cred'[u].refresh # cred'[t].from
<1> DEFINE Goal == /\ cred'[t].from <= granted'
                   /\ cred'[t].from # 0 => cred'[u].refresh # cred'[t].from
<1> SUFFICES Goal
  OBVIOUS
<1> USE TaskTypes
   DEF TypeInv, TypeOK, HeldInv, GrantedInv, SoleInv, RetiredInv, Credential
<1>1. ASSUME NEW b \in Call, Begin(b)
      PROVE  Goal
  BY <1>1 DEF Begin, Goto, provider
<1>2. ASSUME NEW b \in Call, TakeCachedToken(b)
      PROVE  Goal
  BY <1>2 DEF TakeCachedToken, HasToken, AnswerWith, Goto, provider
<1>3. ASSUME NEW b \in Call, LookAtStore(b)
      PROVE  Goal
  BY <1>3 DEF LookAtStore, Goto, provider
<1>4. ASSUME NEW b \in Call, StoreFails(b)
      PROVE  Goal
  BY <1>4 DEF StoreFails, GiveUp, Goto, provider
<1>5. ASSUME NEW b \in Call, ReadBareToken(b)
      PROVE  Goal
  BY <1>5 DEF ReadBareToken, AnswerWith, Goto, provider
<1>6. ASSUME NEW b \in Call, ReadUnexpired(b)
      PROVE  Goal
  BY <1>6 DEF ReadUnexpired, AnswerWith, Goto, provider
<1>7. ASSUME NEW b \in Call, ReadExpired(b)
      PROVE  Goal
  BY <1>7 DEF ReadExpired, GiveUp, Goto, provider
<1>8. ASSUME NEW b \in Call, Refresh(b)
      PROVE  Goal
  BY <1>8, GrantFacts DEF Refresh, Keeps, NewCredential, Goto
<1>9. ASSUME NEW b \in Call, RefreshFails(b)
      PROVE  Goal
  BY <1>9, GrantFacts DEF RefreshFails, GiveUp, Goto, provider
<1>10. ASSUME NEW b \in Call, Persist(b)
      PROVE  Goal
  BY <1>10 DEF Persist, AnswerWith, Goto, provider
<1>11. ASSUME NEW e \in Enrolment, Enrol(e)
      PROVE  Goal
  BY <1>11, GrantFacts DEF Enrol, Keeps, NewCredential, Goto
<1>12. ASSUME NEW e \in Enrolment, PersistEnrolment(e)
      PROVE  Goal
  BY <1>12 DEF PersistEnrolment, Goto, provider
<1>13. ASSUME NEW s \in Task, PersistFails(s)
      PROVE  Goal
  BY <1>13 DEF PersistFails, GiveUp, Goto, provider
<1>14. ASSUME NEW p \in Process, Restart(p)
      PROVE  Goal
  BY <1>14 DEF Restart, provider
<1>15. CASE Tick
  BY <1>15 DEF Tick, provider
<1>16. CASE UNCHANGED vars
  BY <1>16 DEF vars
<1> QED
  BY <1>1, <1>2, <1>3, <1>4, <1>5, <1>6, <1>7, <1>8, <1>9, <1>10, <1>11, <1>12,
     <1>13, <1>14, <1>15, <1>16 DEF Next, Bearer

(* Every step keeps RetiredInv.                                            *)
LEMMA RetiredStep ==
  ASSUME Writable, TypeInv, TypeInv', GrantedInv, SoleInv, RetiredInv,
         [Next]_vars
  PROVE  RetiredInv'
<1>0. rotation' = rotation
  BY DEF Next, Bearer, Begin, TakeCachedToken, LookAtStore, StoreFails,
     ReadBareToken, ReadUnexpired, ReadExpired, Refresh, RefreshFails,
     Persist, Enrol, PersistEnrolment, PersistFails, Restart, Tick, vars,
     provider, Grant
<1> SUFFICES ASSUME rotation # "keep" PROVE RetiredInv'
  BY <1>0 DEF RetiredInv
<1>1. ASSUME NEW k \in Published', k.from # 0
      PROVE  Retired(k.from)'
  <2>1. k.from \in Nat
    BY TaskTypes DEF TypeInv, TypeOK, Published, Credential
  <2>2. CASE k \in Published
    BY <1>1, <2>1, <2>2, RetiredStays DEF RetiredInv
  <2>3. CASE k \notin Published
    <3>1. PICK t \in Task :
            /\ pc[t] = "persisting" /\ k = cred[t] /\ stored' = k
            /\ UNCHANGED granted
            /\ \A u \in Task : pc'[u] = "persisting" =>
                 pc[u] = "persisting" /\ cred'[u] = cred[u]
      BY <2>3, PublishedWhenStored
    <3> QED BY <1>1, <3>1 DEF RetiredInv, Retired
  <2> QED BY <2>2, <2>3
<1>2. ASSUME NEW t \in Task, pc'[t] = "persisting"
      PROVE  /\ cred'[t].from <= granted'
             /\ \A u \in Task : pc'[u] = "persisting" /\ cred'[t].from # 0 =>
                  cred'[u].refresh # cred'[t].from
  BY <1>2, PersistingStep
<1> QED BY <1>1, <1>2 DEF RetiredInv

(* Every step keeps KeptInv.                                               *)
LEMMA KeptRefreshStep ==
  ASSUME Writable, TypeInv, TypeInv', KeptInv, [Next]_vars
  PROVE  KeptInv'
<1>0. rotation' = rotation
  BY DEF Next, Bearer, Begin, TakeCachedToken, LookAtStore, StoreFails,
     ReadBareToken, ReadUnexpired, ReadExpired, Refresh, RefreshFails,
     Persist, Enrol, PersistEnrolment, PersistFails, Restart, Tick, vars,
     provider, Grant
<1> SUFFICES ASSUME rotation = "keep" PROVE KeptInv'
  BY <1>0 DEF KeptInv
<1>1. ASSUME NEW k \in Published'
      PROVE  k.from \in {0, k.refresh}
  BY PublishedWhenStored DEF KeptInv
<1>2. ASSUME NEW t \in Task, pc'[t] = "persisting"
      PROVE  cred'[t].from \in {0, cred'[t].refresh}
  <2> DEFINE Goal == cred'[t].from \in {0, cred'[t].refresh}
  <2> SUFFICES Goal
    OBVIOUS
  <2> USE <1>2, TaskTypes DEF TypeInv, TypeOK, HeldInv, KeptInv, Credential
  <2>1. ASSUME NEW b \in Call, Begin(b)
        PROVE  Goal
    BY <2>1 DEF Begin, Goto, provider
  <2>2. ASSUME NEW b \in Call, TakeCachedToken(b)
        PROVE  Goal
    BY <2>2 DEF TakeCachedToken, HasToken, AnswerWith, Goto, provider
  <2>3. ASSUME NEW b \in Call, LookAtStore(b)
        PROVE  Goal
    BY <2>3 DEF LookAtStore, Goto, provider
  <2>4. ASSUME NEW b \in Call, StoreFails(b)
        PROVE  Goal
    BY <2>4 DEF StoreFails, GiveUp, Goto, provider
  <2>5. ASSUME NEW b \in Call, ReadBareToken(b)
        PROVE  Goal
    BY <2>5 DEF ReadBareToken, AnswerWith, Goto, provider
  <2>6. ASSUME NEW b \in Call, ReadUnexpired(b)
        PROVE  Goal
    BY <2>6 DEF ReadUnexpired, AnswerWith, Goto, provider
  <2>7. ASSUME NEW b \in Call, ReadExpired(b)
        PROVE  Goal
    BY <2>7 DEF ReadExpired, GiveUp, Goto, provider
  <2>8. ASSUME NEW b \in Call, Refresh(b)
        PROVE  Goal
    BY <2>8, GrantFacts DEF Refresh, Keeps, NewCredential, Goto
  <2>9. ASSUME NEW b \in Call, RefreshFails(b)
        PROVE  Goal
    BY <2>9, GrantFacts DEF RefreshFails, GiveUp, Goto, provider
  <2>10. ASSUME NEW b \in Call, Persist(b)
        PROVE  Goal
    BY <2>10 DEF Persist, AnswerWith, Goto, provider
  <2>11. ASSUME NEW e \in Enrolment, Enrol(e)
        PROVE  Goal
    BY <2>11, GrantFacts DEF Enrol, Keeps, NewCredential, Goto
  <2>12. ASSUME NEW e \in Enrolment, PersistEnrolment(e)
        PROVE  Goal
    BY <2>12 DEF PersistEnrolment, Goto, provider
  <2>13. ASSUME NEW s \in Task, PersistFails(s)
        PROVE  Goal
    BY <2>13 DEF PersistFails, GiveUp, Goto, provider
  <2>14. ASSUME NEW p \in Process, Restart(p)
        PROVE  Goal
    BY <2>14 DEF Restart, provider
  <2>15. CASE Tick
    BY <2>15 DEF Tick, provider
  <2>16. CASE UNCHANGED vars
    BY <2>16 DEF vars
  <2> QED
    BY <2>1, <2>2, <2>3, <2>4, <2>5, <2>6, <2>7, <2>8, <2>9, <2>10, <2>11,
       <2>12, <2>13, <2>14, <2>15, <2>16 DEF Next, Bearer
<1> QED BY <1>1, <1>2 DEF KeptInv

(* A call that has just answered leaves its process without one that       *)
(* refreshes.                                                              *)
LEMMA AnswerFreesMutex ==
  ASSUME TypeInv, [Next]_vars, NEW c \in Call,
         pc'[c] = "answered", pc[c] # "answered"
  PROVE  mutex'[Owner[c]] = None
<1>1. \/ TakeCachedToken(c) \/ ReadBareToken(c)
      \/ ReadUnexpired(c) \/ Persist(c)
  BY WhoAnswers
<1> QED
  BY <1>1, TaskTypes DEF TypeInv, TypeOK, TakeCachedToken, ReadBareToken,
     ReadUnexpired, Persist, AnswerWith, Unlock

(* A call that goes on to refresh does so with what the store holds, and   *)
(* the others work with what they had.                                     *)
LEMMA RedeemsTheStored ==
  ASSUME TypeInv, [Next]_vars, NEW d \in Call, pc'[d] = "refreshing"
  PROVE  \/ pc[d] = "refreshing" /\ cred'[d] = cred[d]
         \/ cred'[d] = stored /\ stored # Bare /\ stored.refresh # 0
<1> DEFINE Goal ==
      \/ pc[d] = "refreshing" /\ cred'[d] = cred[d]
      \/ cred'[d] = stored /\ stored # Bare /\ stored.refresh # 0
<1> SUFFICES Goal
  OBVIOUS
<1> USE TaskTypes DEF TypeInv, TypeOK
<1>1. ASSUME NEW b \in Call, Begin(b)
      PROVE  Goal
  BY <1>1 DEF Begin, Goto, provider
<1>2. ASSUME NEW b \in Call, TakeCachedToken(b)
      PROVE  Goal
  BY <1>2 DEF TakeCachedToken, HasToken, AnswerWith, Goto, provider
<1>3. ASSUME NEW b \in Call, LookAtStore(b)
      PROVE  Goal
  BY <1>3 DEF LookAtStore, Goto, provider
<1>4. ASSUME NEW b \in Call, StoreFails(b)
      PROVE  Goal
  BY <1>4 DEF StoreFails, GiveUp, Goto, provider
<1>5. ASSUME NEW b \in Call, ReadBareToken(b)
      PROVE  Goal
  BY <1>5 DEF ReadBareToken, AnswerWith, Goto, provider
<1>6. ASSUME NEW b \in Call, ReadUnexpired(b)
      PROVE  Goal
  BY <1>6 DEF ReadUnexpired, AnswerWith, Goto, provider
<1>7. ASSUME NEW b \in Call, ReadExpired(b)
      PROVE  Goal
  BY <1>7 DEF ReadExpired, GiveUp, Goto, provider
<1>8. ASSUME NEW b \in Call, Refresh(b)
      PROVE  Goal
  BY <1>8 DEF Refresh, Goto
<1>9. ASSUME NEW b \in Call, RefreshFails(b)
      PROVE  Goal
  BY <1>9 DEF RefreshFails, GiveUp, Goto
<1>10. ASSUME NEW b \in Call, Persist(b)
      PROVE  Goal
  BY <1>10 DEF Persist, AnswerWith, Goto, provider
<1>11. ASSUME NEW e \in Enrolment, Enrol(e)
      PROVE  Goal
  BY <1>11 DEF Enrol, Goto
<1>12. ASSUME NEW e \in Enrolment, PersistEnrolment(e)
      PROVE  Goal
  BY <1>12 DEF PersistEnrolment, Goto, provider
<1>13. ASSUME NEW s \in Task, PersistFails(s)
      PROVE  Goal
  BY <1>13 DEF PersistFails, GiveUp, Goto, provider
<1>14. ASSUME NEW p \in Process, Restart(p)
      PROVE  Goal
  BY <1>14 DEF Restart, provider
<1>15. CASE Tick
  BY <1>15 DEF Tick, provider
<1>16. CASE UNCHANGED vars
  BY <1>16 DEF vars
<1> QED
  BY <1>1, <1>2, <1>3, <1>4, <1>5, <1>6, <1>7, <1>8, <1>9, <1>10, <1>11, <1>12,
     <1>13, <1>14, <1>15, <1>16 DEF Next, Bearer

(* An answer stays what it is.                                             *)
LEMMA AnswersStay ==
  ASSUME TypeInv, [Next]_vars, NEW c \in Call, pc[c] = "answered"
  PROVE  cred'[c] = cred[c]
<1> DEFINE Goal == cred'[c] = cred[c]
<1> SUFFICES Goal
  OBVIOUS
<1> USE TaskTypes, TaskAssumption DEF TypeInv, TypeOK
<1>1. ASSUME NEW b \in Call, Begin(b)
      PROVE  Goal
  BY <1>1 DEF Begin, Goto, provider
<1>2. ASSUME NEW b \in Call, TakeCachedToken(b)
      PROVE  Goal
  BY <1>2 DEF TakeCachedToken, HasToken, AnswerWith, Goto, provider
<1>3. ASSUME NEW b \in Call, LookAtStore(b)
      PROVE  Goal
  BY <1>3 DEF LookAtStore, Goto, provider
<1>4. ASSUME NEW b \in Call, StoreFails(b)
      PROVE  Goal
  BY <1>4 DEF StoreFails, GiveUp, Goto, provider
<1>5. ASSUME NEW b \in Call, ReadBareToken(b)
      PROVE  Goal
  BY <1>5 DEF ReadBareToken, AnswerWith, Goto, provider
<1>6. ASSUME NEW b \in Call, ReadUnexpired(b)
      PROVE  Goal
  BY <1>6 DEF ReadUnexpired, AnswerWith, Goto, provider
<1>7. ASSUME NEW b \in Call, ReadExpired(b)
      PROVE  Goal
  BY <1>7 DEF ReadExpired, GiveUp, Goto, provider
<1>8. ASSUME NEW b \in Call, Refresh(b)
      PROVE  Goal
  BY <1>8 DEF Refresh, Goto
<1>9. ASSUME NEW b \in Call, RefreshFails(b)
      PROVE  Goal
  BY <1>9 DEF RefreshFails, GiveUp, Goto
<1>10. ASSUME NEW b \in Call, Persist(b)
      PROVE  Goal
  BY <1>10 DEF Persist, AnswerWith, Goto, provider
<1>11. ASSUME NEW e \in Enrolment, Enrol(e)
      PROVE  Goal
  BY <1>11 DEF Enrol, Goto
<1>12. ASSUME NEW e \in Enrolment, PersistEnrolment(e)
      PROVE  Goal
  BY <1>12 DEF PersistEnrolment, Goto, provider
<1>13. ASSUME NEW s \in Task, PersistFails(s)
      PROVE  Goal
  BY <1>13 DEF PersistFails, GiveUp, Goto, provider
<1>14. ASSUME NEW p \in Process, Restart(p)
      PROVE  Goal
  BY <1>14 DEF Restart, provider
<1>15. CASE Tick
  BY <1>15 DEF Tick, provider
<1>16. CASE UNCHANGED vars
  BY <1>16 DEF vars
<1> QED
  BY <1>1, <1>2, <1>3, <1>4, <1>5, <1>6, <1>7, <1>8, <1>9, <1>10, <1>11, <1>12,
     <1>13, <1>14, <1>15, <1>16 DEF Next, Bearer

(* Every step keeps replaced refresh tokens from being redeemed.           *)
LEMMA RedeemStep ==
  ASSUME TypeInv, TypeInv', RetiredInv, KeptInv, ReplacedTokenIsNotRedeemed,
         [Next]_vars
  PROVE  ReplacedTokenIsNotRedeemed'
<1> SUFFICES ASSUME NEW c \in Call, NEW d \in Call, Owner[c] = Owner[d],
                    pc'[c] = "answered", cred'[c] \notin {Bare, None},
                    pc'[d] = "refreshing", cred'[c].from # cred'[c].refresh
             PROVE  cred'[d].refresh # cred'[c].from
  BY DEF ReplacedTokenIsNotRedeemed
<1>1. pc[c] = "answered"
  BY AnswerFreesMutex DEF TypeInv, LockInv
<1>2. cred'[c] = cred[c]
  BY <1>1, AnswersStay
<1>3. CASE pc[d] = "refreshing" /\ cred'[d] = cred[d]
  BY <1>1, <1>2, <1>3 DEF ReplacedTokenIsNotRedeemed
<1>4. CASE cred'[d] = stored /\ stored # Bare /\ stored.refresh # 0
  <2>1. cred[c] \in Published
    BY <1>1, <1>2 DEF Published
  <2>2. rotation = "keep" => cred[c].from = 0
    BY <1>2, <2>1 DEF KeptInv
  <2>3. cred[c].from # 0 => stored.refresh # cred[c].from
    BY <1>4, <2>1, <2>2 DEF RetiredInv, Retired
  <2> QED BY <1>2, <1>4, <2>3
<1> QED BY <1>3, <1>4, RedeemsTheStored

(* No call of a process redeems a refresh token that an earlier answer in  *)
(* it already replaced, whatever other processes and enrolments store, if  *)
(* the store can be written and holds, at first, nothing that replaced a   *)
(* refresh token granted here.                                             *)
THEOREM ReplacedTokensStayUnredeemed ==
  ASSUME Writable,
         \A k \in FirstStored : k # Bare => k.from = 0 /\ k.refresh <= 1
  PROVE  Spec => []ReplacedTokenIsNotRedeemed
<1>1. Init => RedeemInv
  <2> SUFFICES ASSUME Init PROVE RedeemInv
    OBVIOUS
  <2>1. stored # Bare => stored.from = 0 /\ stored.refresh <= 1
    BY DEF Init
  <2>2. \A k \in Published : k.from = 0
    BY <2>1 DEF Init, Published, Task
  <2>3. TypeInv /\ GrantedInv /\ SoleInv
    BY <2>1, TypeInit DEF Init, GrantedInv, SoleInv
  <2>4. RetiredInv /\ KeptInv
    BY <2>2 DEF Init, RetiredInv, KeptInv
  <2>5. ReplacedTokenIsNotRedeemed
    BY DEF Init, ReplacedTokenIsNotRedeemed, Task
  <2> QED BY <2>3, <2>4, <2>5 DEF RedeemInv
<1>2. RedeemInv /\ [Next]_vars => RedeemInv'
  BY TypeStep, GrantedStep, SoleStep, RetiredStep, KeptRefreshStep, RedeemStep
     DEF RedeemInv
<1>3. RedeemInv => ReplacedTokenIsNotRedeemed
  BY DEF RedeemInv
<1> QED BY <1>1, <1>2, <1>3, PTL DEF Spec
=============================================================================
