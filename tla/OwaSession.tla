----------------------------- MODULE OwaSession -----------------------------
(***************************************************************************)
(* The session of the OWA transport (internal/transport/owa): one login is *)
(* cached and shared by all calls; a call whose session the server refuses *)
(* throws the cached one away, logs in again and tries once more.          *)
(*                                                                         *)
(* Calls run concurrently and happen at most once each.  The mutex of the  *)
(* transport is held from the look at the cache to the end of the login,   *)
(* and not while a session is used.  Sessions are numbered in the order    *)
(* the server made them.                                                   *)
(***************************************************************************)
EXTENDS Naturals, FiniteSets

CONSTANTS
  Probe,       \* the calls of Authenticate
  Typed, Raw,  \* the calls of executeService and of executeRawService
  Attempts,    \* loginRetries + 1
  TTL,         \* sessionTTL
  MaxClock,    \* bound on the clock
  None

Call == Probe \cup Typed \cup Raw

VARIABLES
  clock,
  mutex,     \* Transport.mu: the login that holds it
  session,   \* Transport.session
  alive,     \* the sessions the server accepts
  sessions,  \* how many sessions there have been
  pc,        \* per call, where it is
  using,     \* per call, the session it was given (0: none)
  refused,   \* per call, the session its first attempt was refused with (0:
             \* this is the first)
  applied    \* per call, how often the server applied its request

vars == << clock, mutex, session, alive, sessions, pc, using, refused, applied >>

server == << alive, sessions, applied >>

CachedSession == [ id : Nat \ {0}, expiresAt : Nat ]

(* What a login remembers: the time it read before, and how often it has   *)
(* posted the password.                                                    *)
LoginState == [ by : Call, started : 0..MaxClock, posts : 0..Attempts ]

LoggingIn == {"reading_secret", "logging_in", "backing_off"}
Live == {"entering", "ready", "rejected"} \cup LoggingIn
Ended == {"answered", "failed"}

ASSUME CallAssumption ==
  Probe \cap Typed = {} /\ Probe \cap Raw = {} /\ Typed \cap Raw = {}

ASSUME ConstantAssumption ==
  /\ {Attempts, TTL} \subseteq Nat \ {0}
  /\ MaxClock \in Nat
  /\ None \notin CachedSession \cup LoginState

TypeOK ==
  /\ clock \in 0..MaxClock
  /\ mutex \in LoginState \cup {None}
  /\ session \in CachedSession \cup {None}
  /\ sessions \in Nat
  /\ alive \subseteq 1..sessions
  /\ pc \in [Call -> {"idle"} \cup Live \cup Ended]
  /\ using \in [Call -> 0..sessions]
  /\ refused \in [Call -> 0..sessions]
  /\ applied \in [Call -> Nat]

Init ==
  /\ clock = 0
  /\ mutex = None /\ session = None
  /\ alive = {} /\ sessions = 0
  /\ pc = [c \in Call |-> "idle"]
  /\ using = [c \in Call |-> 0]
  /\ refused = [c \in Call |-> 0]
  /\ applied = [c \in Call |-> 0]

Goto(c, to) == pc' = [pc EXCEPT ![c] = to]

(* Authenticate is answered as soon as there is a session.                 *)
AfterLogin(c) == IF c \in Probe THEN "answered" ELSE "ready"
-----------------------------------------------------------------------------
(* login.                                                                  *)

Begin(c) ==
  /\ pc[c] = "idle"
  /\ Goto(c, "entering")
  /\ UNCHANGED << clock, mutex, session, server, using, refused >>

Fresh == session # None /\ clock < session.expiresAt

TakeCachedSession(c) ==
  /\ pc[c] = "entering" /\ mutex = None
  /\ Fresh
  /\ using' = [using EXCEPT ![c] = session.id]
  /\ Goto(c, AfterLogin(c))
  /\ UNCHANGED << clock, mutex, session, server, refused >>

(* Seeded fault: the cache is not looked at again once the mutex is free.  *)
StartLoginBlindly(c) ==
  /\ pc[c] = "entering" /\ mutex = None
  /\ mutex' = [ by |-> c, started |-> clock, posts |-> 0 ]
  /\ Goto(c, "reading_secret")
  /\ UNCHANGED << clock, session, server, using, refused >>

(* The time of the look at the cache is the time the new session counts    *)
(* from.                                                                   *)
StartLogin(c) ==
  /\ pc[c] = "entering" /\ mutex = None
  /\ ~ Fresh
  /\ mutex' = [ by |-> c, started |-> clock, posts |-> 0 ]
  /\ Goto(c, "reading_secret")
  /\ UNCHANGED << clock, session, server, using, refused >>

(* The password is posted, for the first time or again.                    *)
Post(c) ==
  /\ mutex' = [mutex EXCEPT !.posts = @ + 1]
  /\ Goto(c, "logging_in")

(* Seeded fault: an error leaves the mutex locked.                         *)
GiveUpLocked(c) == UNCHANGED mutex /\ Goto(c, "failed")

GiveUp(c) == mutex' = None /\ Goto(c, "failed")

ReadSecret(c) ==
  /\ pc[c] = "reading_secret"
  /\ Post(c) \/ GiveUp(c)
  /\ UNCHANGED << clock, session, server, using, refused >>

LoginSucceeds(c) ==
  /\ pc[c] = "logging_in"
  /\ sessions' = sessions + 1
  /\ alive' = alive \cup {sessions'}
  /\ session' = [ id |-> sessions', expiresAt |-> mutex.started + TTL ]
  /\ using' = [using EXCEPT ![c] = sessions']
  /\ mutex' = None
  /\ Goto(c, AfterLogin(c))
  /\ UNCHANGED << clock, refused, applied >>

(* Seeded fault: off by one.                                               *)
LoginFailsOnceMore(c) ==
  /\ pc[c] = "logging_in"
  /\ \/ GiveUp(c)
     \/ mutex.posts <= Attempts /\ Goto(c, "backing_off") /\ UNCHANGED mutex
  /\ UNCHANGED << clock, session, server, using, refused >>

(* Only an answer of HTTP 500 or more is worth another attempt             *)
(* (transientLoginError); any other error ends the login: no answer, no    *)
(* canary, a logon page.                                                   *)
LoginFails(c) ==
  /\ pc[c] = "logging_in"
  /\ \/ GiveUp(c)
     \/ mutex.posts < Attempts /\ Goto(c, "backing_off") /\ UNCHANGED mutex
  /\ UNCHANGED << clock, session, server, using, refused >>

(* The back-off ends, or the caller gives up meanwhile.                    *)
BackOff(c) ==
  /\ pc[c] = "backing_off"
  /\ Post(c) \/ GiveUp(c)
  /\ UNCHANGED << clock, session, server, using, refused >>
-----------------------------------------------------------------------------
(* executeServiceOnce and executeRawServiceOnce, one action per outcome.   *)

Apply(c) == applied' = [applied EXCEPT ![c] = @ + 1]

ServiceAnswers(c) ==
  /\ pc[c] = "ready" /\ using[c] \in alive
  /\ Apply(c)
  /\ Goto(c, "answered")
  /\ UNCHANGED << clock, mutex, session, alive, sessions, using, refused >>

(* Seeded fault: a lost answer is tried again like a refusal.              *)
ServiceFailureIsRetried(c) ==
  /\ pc[c] = "ready"
  /\ (using[c] \in alive /\ Apply(c)) \/ UNCHANGED applied
  /\ Goto(c, IF refused[c] = 0 THEN "rejected" ELSE "failed")
  /\ UNCHANGED << clock, mutex, session, alive, sessions, using, refused >>

(* The request cannot be built or sent, its answer is lost, too long, not  *)
(* JSON, or an error that says nothing about the session.                  *)
ServiceFails(c) ==
  /\ pc[c] = "ready"
  /\ (using[c] \in alive /\ Apply(c)) \/ UNCHANGED applied
  /\ Goto(c, "failed")
  /\ UNCHANGED << clock, mutex, session, alive, sessions, using, refused >>

(* isOWAAuthFailureResponse: the server does not accept the session, or    *)
(* does not let its user do this.  Either way nothing has been applied.    *)
ServiceRefuses(c) ==
  /\ pc[c] = "ready"
  /\ Goto(c, IF refused[c] = 0 THEN "rejected" ELSE "failed")
  /\ UNCHANGED << clock, mutex, session, server, using, refused >>

(* Seeded fault: so does a typed call.                                     *)
AnyLogonPageIsAnswered(c) ==
  /\ pc[c] = "ready" /\ using[c] \notin alive
  /\ Goto(c, "answered")
  /\ UNCHANGED << clock, mutex, session, server, using, refused >>

(* A dead session may also be answered by the logon page, with HTTP 200: a *)
(* raw call passes the page on as its result.                              *)
LogonPageIsAnswered(c) ==
  /\ c \in Raw /\ pc[c] = "ready" /\ using[c] \notin alive
  /\ Goto(c, "answered")
  /\ UNCHANGED << clock, mutex, session, server, using, refused >>

(* Seeded fault: the cache is left alone.                                  *)
RetryWithoutInvalidating(c) ==
  /\ pc[c] = "rejected" /\ mutex = None
  /\ refused' = [refused EXCEPT ![c] = using[c]]
  /\ Goto(c, "entering")
  /\ UNCHANGED << clock, mutex, session, server, using >>

(* invalidateSession, and the second attempt of executeService and         *)
(* executeRawService.  Whatever is cached by now is thrown away.           *)
InvalidateAndRetry(c) ==
  /\ pc[c] = "rejected" /\ mutex = None
  /\ session' = None
  /\ refused' = [refused EXCEPT ![c] = using[c]]
  /\ Goto(c, "entering")
  /\ UNCHANGED << clock, mutex, server, using >>
-----------------------------------------------------------------------------
(* The environment.                                                        *)

ServerDrops(id) ==
  /\ alive' = alive \ {id}
  /\ UNCHANGED << clock, mutex, session, sessions, applied, pc, using, refused >>

Tick ==
  /\ clock < MaxClock
  /\ clock' = clock + 1
  /\ UNCHANGED << mutex, session, server, pc, using, refused >>
-----------------------------------------------------------------------------
Login(c) ==
  \/ TakeCachedSession(c) \/ StartLogin(c) \/ ReadSecret(c)
  \/ LoginSucceeds(c) \/ LoginFails(c) \/ BackOff(c)

Serve(c) ==
  \/ ServiceAnswers(c) \/ ServiceFails(c) \/ ServiceRefuses(c)
  \/ LogonPageIsAnswered(c) \/ InvalidateAndRetry(c)

Next ==
  \/ \E c \in Call : Begin(c) \/ Login(c) \/ Serve(c)
  \/ \E id \in alive : ServerDrops(id)
  \/ Tick

(* A running call goes on: requests end with the HTTP client's timeout,    *)
(* secrets with theirs, and the mutex goes to a call that waits for it.    *)
Spec == Init /\ [][Next]_vars
FairSpec == Spec /\ \A c \in Call : WF_vars(Login(c) \/ Serve(c))
-----------------------------------------------------------------------------
(* Properties.                                                             *)

(* The server applies the request of a call at most once, although the     *)
(* call may send it twice: only a refusal is tried again, never a request  *)
(* whose answer was lost.                                                  *)
RequestIsAppliedOnce == \A c \in Call : applied[c] <= 1

(* The second attempt never uses the session that the first was refused    *)
(* with, whatever other calls put into the cache or threw out of it.       *)
RetryUsesNewSession ==
  \A c \in Call : pc[c] = "ready" => using[c] # refused[c]

(* Calls share logins: there is one for the first of them, at most one for *)
(* each call that was refused, and at most one for each TTL that passes.   *)
LoginsAreShared ==
  sessions <= 1 + Cardinality({c \in Call : refused[c] # 0}) + clock \div TTL

(* A typed call that reports success was applied: the logon page is not    *)
(* taken for the service's answer (executeServiceOnce).                    *)
SuccessIsReal == \A c \in Typed : pc[c] = "answered" => applied[c] = 1

(* Every call ends, and with it its hold of the mutex: a failed login lets *)
(* the calls waiting behind it go on.                                      *)
CallEnds == \A c \in Call : pc[c] \in Live ~> pc[c] \in Ended
=============================================================================
