----------------------------- MODULE GraphToken -----------------------------
(***************************************************************************)
(* The access token of the Graph transport (internal/transport/graph):     *)
(* bearerToken takes it from the cache of the process, or from the secret  *)
(* store, or has it refreshed and stores the outcome.                      *)
(*                                                                         *)
(* Several processes (servers, command line calls) share the secret store; *)
(* the calls of a process share its cache and its mutex, which is held     *)
(* from the look at the cache to the end of the refresh.  An enrolment     *)
(* (EnrollDeviceCode) stores the credential of a sign-in.                  *)
(***************************************************************************)
EXTENDS Naturals, FiniteSets

CONSTANTS
  Process,
  Call, Enrolment,  \* what runs in them: bearerToken, EnrollDeviceCode
  Owner,            \* the process of each
  FirstStored,      \* what the secret store may hold at first
  Writable,         \* whether the secret store is a WritableStore
  Rotations,        \* what the provider may do with refresh tokens
  Skew, Life,       \* the margin of expired; how long tokens live
  Hold,             \* bound on the time that a call holds the mutex
  MaxClock,         \* bound on the clock
  Bare,             \* an access token that is stored with nothing else
  None

Task == Call \cup Enrolment

(* The credential that was granted for refresh token "from", of which the  *)
(* code sees the refresh token (0: there is none) and expiresAt.  The      *)
(* provider accepts its access token until it dies.  An expires_at that    *)
(* is empty is a late one, and one that is malformed is 0.                 *)
Credential == [ refresh : Nat, from : Nat, expiresAt : Nat, dies : Nat ]

VARIABLES
  clock,
  stored,   \* the secret store
  live,     \* the refresh tokens that the provider accepts
  granted,  \* how many refresh tokens it has granted
  rotation, \* "keep", "rotate" or "one_time", see Grant
  cached,   \* per process, Transport.tokenCached
  mutex,    \* per process, Transport.tokenMu: the call that holds it, and the
            \* time it read then
  pc,       \* per task, where it is
  cred,     \* per task, the credential it works with or has answered
  mishap    \* whether a new credential was lost on its way to the store

vars == << clock, stored, live, granted, rotation, cached, mutex, pc, cred,
           mishap >>

provider == << live, granted, rotation >>

Running == {"entering", "reading", "refreshing", "persisting"}
Ended == {"answered", "failed", "lost"}

ASSUME TaskAssumption ==
  /\ Call \cap Enrolment = {}
  /\ Owner \in [Task -> Process]
  /\ \A c \in Call, e \in Enrolment : Owner[c] # Owner[e]

ASSUME ConstantAssumption ==
  /\ FirstStored \subseteq Credential \cup {Bare}
  /\ Writable \in BOOLEAN
  /\ Rotations \subseteq {"keep", "rotate", "one_time"}
  /\ {Skew, Life, Hold, MaxClock} \subseteq Nat

Lock == [ by : Call, now : 0..MaxClock ]

ASSUME NoneAssumption ==
  None \notin Credential \cup Lock \cup {Bare} /\ Bare \notin Credential

TypeOK ==
  /\ clock \in 0..MaxClock
  /\ stored \in Credential \cup {Bare}
  /\ granted \in Nat /\ live \subseteq 1..granted
  /\ rotation \in Rotations
  /\ cached \in [Process -> Credential \cup {None}]
  /\ mutex \in [Process -> Lock \cup {None}]
  /\ pc \in [Task -> {"idle"} \cup Running \cup Ended]
  /\ cred \in [Task -> Credential \cup {Bare, None}]
  /\ mishap \in BOOLEAN

Init ==
  /\ clock = 0
  /\ stored \in FirstStored
  /\ granted = 1 /\ live = {1} /\ rotation \in Rotations
  /\ cached = [p \in Process |-> None]
  /\ mutex = [p \in Process |-> None]
  /\ pc = [t \in Task |-> "idle"]
  /\ cred = [t \in Task |-> None]
  /\ mishap = FALSE

Goto(t, to) == pc' = [pc EXCEPT ![t] = to]
Unlock(t) == mutex' = [mutex EXCEPT ![Owner[t]] = None]

Now(t) == mutex[Owner[t]].now

(* Seeded fault: no margin.                                                *)
ExpiredWithoutMargin(k, now) == k.expiresAt <= now

Expired(k, now) == k.expiresAt <= now + Skew

(* The call answers with the access token of a credential, or an error.    *)
AnswerWith(t, k) ==
  /\ cred' = [cred EXCEPT ![t] = k]
  /\ Goto(t, "answered")
  /\ Unlock(t)

GiveUp(t) == Goto(t, "failed") /\ Unlock(t)
-----------------------------------------------------------------------------
(* bearerToken.                                                            *)

Begin(c) ==
  /\ c \in Call /\ pc[c] = "idle"
  /\ Goto(c, "entering")
  /\ UNCHANGED << clock, stored, provider, cached, mutex, cred, mishap >>

HasToken(p) == cached[p] # None /\ ~ Expired(cached[p], clock)

TakeCachedToken(c) ==
  /\ pc[c] = "entering" /\ mutex[Owner[c]] = None
  /\ HasToken(Owner[c])
  /\ AnswerWith(c, cached[Owner[c]])
  /\ UNCHANGED << clock, stored, provider, cached, mishap >>

LookAtStore(c) ==
  /\ pc[c] = "entering" /\ mutex[Owner[c]] = None
  /\ ~ HasToken(Owner[c])
  /\ mutex' = [mutex EXCEPT ![Owner[c]] = [ by |-> c, now |-> clock ]]
  /\ Goto(c, "reading")
  /\ UNCHANGED << clock, stored, provider, cached, cred, mishap >>

(* The secret store fails, or holds no credential.                         *)
StoreFails(c) ==
  /\ pc[c] = "reading"
  /\ GiveUp(c)
  /\ UNCHANGED << clock, stored, provider, cached, cred, mishap >>

(* Seeded fault: a bare token is cached, too.                              *)
ReadAndCacheBareToken(c) ==
  /\ pc[c] = "reading" /\ stored = Bare
  /\ cached' = [cached EXCEPT ![Owner[c]] = Bare]
  /\ AnswerWith(c, Bare)
  /\ UNCHANGED << clock, stored, provider, mishap >>

ReadBareToken(c) ==
  /\ pc[c] = "reading" /\ stored = Bare
  /\ AnswerWith(c, Bare)
  /\ UNCHANGED << clock, stored, provider, cached, mishap >>

ReadUnexpired(c) ==
  /\ pc[c] = "reading" /\ stored # Bare
  /\ ~ Expired(stored, Now(c))
  /\ cached' = [cached EXCEPT ![Owner[c]] = stored]
  /\ AnswerWith(c, stored)
  /\ UNCHANGED << clock, stored, provider, mishap >>

ReadExpired(c) ==
  /\ pc[c] = "reading" /\ stored # Bare
  /\ Expired(stored, Now(c))
  /\ IF stored.refresh = 0
     THEN GiveUp(c) /\ UNCHANGED cred
     ELSE /\ cred' = [cred EXCEPT ![c] = stored]
          /\ Goto(c, "refreshing")
          /\ UNCHANGED mutex
  /\ UNCHANGED << clock, stored, provider, cached, mishap >>
-----------------------------------------------------------------------------
(* refreshTokenCredential.                                                 *)

(* The provider grants a token for refresh token r.  It may send no new    *)
(* refresh token with it; if it does, it may accept r no more.             *)
Keeps(r) == rotation = "keep" /\ r # 0

Grant(r) ==
  /\ granted' = IF Keeps(r) THEN granted ELSE granted + 1
  /\ live' = (IF rotation = "one_time" THEN live \ {r} ELSE live)
               \cup (1..granted' \ 1..granted)
  /\ UNCHANGED rotation

(* Seeded fault: a missing refresh token is taken as it comes.             *)
NewCredentialAsSent(r, since) ==
  [ refresh |-> IF Keeps(r) THEN 0 ELSE granted',
    from |-> r, expiresAt |-> clock + Life, dies |-> since + Life ]

(* What the code makes of the provider's answer: the old refresh token     *)
(* stands in for a missing one, and the lifetime counts from the arrival   *)
(* of the answer.                                                          *)
NewCredential(r, since) ==
  [ refresh |-> IF Keeps(r) THEN r ELSE granted',
    from |-> r, expiresAt |-> clock + Life, dies |-> since + Life ]

Refresh(c) ==
  /\ pc[c] = "refreshing" /\ cred[c].refresh \in live
  /\ Grant(cred[c].refresh)
  /\ \E since \in Now(c)..clock :
       cred' = [cred EXCEPT ![c] = NewCredential(cred[c].refresh, since)]
  /\ Goto(c, "persisting")
  /\ UNCHANGED << clock, stored, cached, mutex, mishap >>

(* The provider does not know the refresh token, or cannot be reached, or  *)
(* its answer is lost or no token.                                         *)
RefreshFails(c) ==
  /\ pc[c] = "refreshing"
  /\ \/ UNCHANGED << provider, mishap >>
     \/ /\ cred[c].refresh \in live
        /\ Grant(cred[c].refresh)
        /\ mishap' = TRUE
  /\ GiveUp(c)
  /\ UNCHANGED << clock, stored, cached, cred >>

(* Seeded fault: the new credential is only cached.                        *)
PersistInCacheOnly(c) ==
  /\ c \in Call /\ pc[c] = "persisting"
  /\ cached' = [cached EXCEPT ![Owner[c]] = cred[c]]
  /\ AnswerWith(c, cred[c])
  /\ UNCHANGED << clock, stored, provider, mishap >>

(* The credential is stored, if the store can be written, and only then    *)
(* cached and answered.                                                    *)
Persist(c) ==
  /\ c \in Call /\ pc[c] = "persisting"
  /\ stored' = IF Writable THEN cred[c] ELSE stored
  /\ cached' = [cached EXCEPT ![Owner[c]] = cred[c]]
  /\ AnswerWith(c, cred[c])
  /\ UNCHANGED << clock, provider, mishap >>

PersistFails(t) ==
  /\ Writable
  /\ pc[t] = "persisting"
  /\ mishap' = TRUE
  /\ GiveUp(t)
  /\ UNCHANGED << clock, stored, provider, cached, cred >>
-----------------------------------------------------------------------------
(* EnrollDeviceCode, from the answer to the poll that ends the sign-in,    *)
(* which is taken to have asked for a refresh token (offline_access).      *)

Enrol(e) ==
  /\ e \in Enrolment /\ pc[e] = "idle"
  /\ Writable
  /\ Grant(0)
  /\ cred' = [cred EXCEPT ![e] = NewCredential(0, clock)]
  /\ Goto(e, "persisting")
  /\ UNCHANGED << clock, stored, cached, mutex, mishap >>

PersistEnrolment(e) ==
  /\ e \in Enrolment /\ pc[e] = "persisting"
  /\ stored' = cred[e]
  /\ Goto(e, "answered")
  /\ UNCHANGED << clock, provider, cached, mutex, cred, mishap >>
-----------------------------------------------------------------------------
(* The environment.                                                        *)

Tick ==
  /\ clock < MaxClock
  /\ \A p \in Process : mutex[p] # None => clock < mutex[p].now + Hold
  /\ clock' = clock + 1
  /\ UNCHANGED << stored, provider, cached, mutex, pc, cred, mishap >>

(* A process ends, and is started again for its later tasks.               *)
Restart(p) ==
  LET ending == {t \in Task : Owner[t] = p /\ pc[t] \in Running}
  IN  /\ pc' = [t \in Task |-> IF t \in ending THEN "lost" ELSE pc[t]]
      /\ cached' = [cached EXCEPT ![p] = None]
      /\ mutex' = [mutex EXCEPT ![p] = None]
      /\ mishap' = (mishap \/ \E t \in ending : pc[t] = "persisting")
      /\ UNCHANGED << clock, stored, provider, cred >>
-----------------------------------------------------------------------------
Bearer(c) ==
  \/ Begin(c) \/ TakeCachedToken(c) \/ LookAtStore(c)
  \/ StoreFails(c) \/ ReadBareToken(c) \/ ReadUnexpired(c) \/ ReadExpired(c)
  \/ Refresh(c) \/ RefreshFails(c) \/ Persist(c)

Next ==
  \/ \E c \in Call : Bearer(c)
  \/ \E e \in Enrolment : Enrol(e) \/ PersistEnrolment(e)
  \/ \E t \in Task : PersistFails(t)
  \/ \E p \in Process : Restart(p)
  \/ Tick

Spec == Init /\ [][Next]_vars
-----------------------------------------------------------------------------
(* Properties.                                                             *)

(* A token that bearerToken returns is one the provider still accepts,     *)
(* though it was judged by a clock read before the store and the provider  *)
(* were waited for, and counts from the arrival of its grant (the margin   *)
(* of expired covers both).                                                *)
AnsweredTokenIsAccepted ==
  [][\A c \in Call : pc[c] # "answered" /\ pc'[c] = "answered" =>
       cred'[c] = Bare \/ clock < cred'[c].dies]_vars

(* Within a process no call has a refresh token redeemed that an earlier   *)
(* answer already replaced: waiting calls share one refresh (tokenMu), and *)
(* a restart does not go back to the old token.                            *)
ReplacedTokenIsNotRedeemed ==
  \A c, d \in Call :
    /\ Owner[c] = Owner[d]
    /\ pc[c] = "answered" /\ cred[c] \notin {Bare, None}
    /\ pc[d] = "refreshing"
    /\ cred[c].from # cred[c].refresh
    => cred[d].refresh # cred[c].from

(* The user need not sign in again, unless a new credential was lost on    *)
(* its way (an answer of the provider, a write, a process): the store, or  *)
(* a task about to write it, has a refresh token that the provider         *)
(* accepts, whichever processes and enrolments overtake each other.        *)
Usable(k) == k = Bare \/ (k # None /\ k.refresh \in live)

SignInIsKept ==
  mishap \/ Usable(stored)
         \/ \E t \in Task : pc[t] = "persisting" /\ Usable(cred[t])
=============================================================================
