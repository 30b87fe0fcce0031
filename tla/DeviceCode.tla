----------------------------- MODULE DeviceCode -----------------------------
(***************************************************************************)
(* An enrolment by device code (internal/transport/graph,                  *)
(* oauth_device_code.go): the program asks the provider for a code, shows  *)
(* it to the user, and polls until the user has entered it or it expires.  *)
(*                                                                         *)
(* Time is counted in ticks.  A request takes up to Delay of them, and the *)
(* provider acts on it somewhere in between.                               *)
(***************************************************************************)
EXTENDS Null, Naturals

CONSTANTS
  Intervals, Lifetimes, \* what the provider may ask for, in ticks; 0: nothing
  DefaultInterval, DefaultLifetime,
  SlowDown,             \* by how much slow_down lengthens the interval
  Delay, MaxClock

ASSUME EnrolAssumption ==
  /\ Intervals \cup Lifetimes \cup {SlowDown, Delay, MaxClock} \subseteq Nat
  /\ {DefaultInterval, DefaultLifetime} \subseteq Nat \ {0}
  /\ None \notin Nat /\ None \notin {"pending", "approved", "declined", "expired", "error"}

VARIABLES
  clock,
  enrolPc,    \* where EnrollDeviceCode is
  due,        \* when what it waits for has happened
  interval,   \* between its polls
  deadline,   \* when it gives up
  polled,     \* when it polled last
  code,       \* the device code at the provider
  dies,       \* when that expires
  demanded,   \* the interval that the provider has asked for since
  approvedAt, \* when the user approved
  why         \* why the enrolment has failed

enrolVars == << clock, enrolPc, due, interval, deadline, polled, code, dies,
                demanded, approvedAt, why >>

own == << interval, deadline, polled >>
provider == << code, dies, demanded, approvedAt >>

Waiting == {"requesting", "polling", "sleeping"}
Ended == {"done", "failed"}

EnrolTypeOK ==
  /\ clock \in 0..MaxClock
  /\ enrolPc \in {"idle", "looping", "persisting"} \cup Waiting \cup Ended
  /\ due \in Nat /\ (enrolPc \in Waiting => clock <= due)
  /\ interval \in Nat /\ deadline \in Nat /\ polled \in Nat \cup {None}
  /\ (polled # None => polled <= deadline)
  /\ code \in {None, "pending", "approved", "declined", "redeemed"}
  /\ dies \in Nat /\ demanded \in Nat
  /\ approvedAt \in 0..MaxClock \cup {None}
  /\ why \in {None, "expired", "declined", "error"}
  /\ enrolPc = "failed" <=> why # None
  /\ enrolPc \in {"persisting", "done"} => code = "redeemed"

EnrolInit ==
  /\ clock = 0 /\ enrolPc = "idle" /\ due = 0
  /\ interval = 0 /\ deadline = 0 /\ polled = None
  /\ code = None /\ dies = 0 /\ demanded = 0 /\ approvedAt = None
  /\ why = None

FailBecause(reason) == enrolPc' = "failed" /\ why' = reason

Send(to) == enrolPc' = to /\ due' = clock + Delay /\ UNCHANGED why

(* requestDeviceCode.                                                      *)
RequestCode ==
  /\ enrolPc = "idle" /\ Send("requesting")
  /\ UNCHANGED << clock, own, provider >>

OrDefault(n, default) == IF n = 0 THEN default ELSE n

(* The code counts from the moment the provider issued it, the deadline    *)
(* from the arrival of the answer.                                         *)
CodeArrives ==
  /\ enrolPc = "requesting"
  /\ \E i \in Intervals, life \in Lifetimes :
       /\ interval' = OrDefault(i, DefaultInterval)
       /\ demanded' = i
       /\ deadline' = clock + OrDefault(life, DefaultLifetime)
       /\ \E issued \in (due - Delay)..clock :
            dies' = issued + OrDefault(life, DefaultLifetime)
  /\ code' = "pending"
  /\ enrolPc' = "looping"
  /\ UNCHANGED << clock, due, polled, approvedAt, why >>

CodeIsRefused ==
  /\ enrolPc = "requesting" /\ FailBecause("error")
  /\ UNCHANGED << clock, due, own, provider >>
-----------------------------------------------------------------------------
(* pollDeviceCodeToken, pollDeviceCodeTokenOnce.                           *)

Poll ==
  /\ enrolPc = "looping" /\ clock <= deadline
  /\ polled' = clock
  /\ Send("polling")
  /\ UNCHANGED << clock, interval, deadline, provider >>

GiveUp ==
  /\ enrolPc = "looping" /\ clock > deadline
  /\ FailBecause("expired")
  /\ UNCHANGED << clock, due, own, provider >>

Sleep(time) == enrolPc' = "sleeping" /\ due' = clock + time /\ UNCHANGED why

(* The user may have approved, or the code expired, while the answer came. *)
WasPending ==
  /\ code \in {"pending", "approved", "declined"} /\ polled < dies
  /\ approvedAt # None => polled <= approvedAt

IsPending ==
  /\ enrolPc = "polling" /\ WasPending
  /\ Sleep(interval)
  /\ UNCHANGED << clock, own, provider >>

(* Seeded fault: only the next sleep is longer.                            *)
IsToldToSlowDownOnce ==
  /\ enrolPc = "polling" /\ WasPending
  /\ demanded' = demanded + SlowDown
  /\ Sleep(interval + SlowDown)
  /\ UNCHANGED << clock, own, code, dies, approvedAt >>

IsToldToSlowDown ==
  /\ enrolPc = "polling" /\ WasPending
  /\ demanded' = demanded + SlowDown
  /\ interval' = interval + SlowDown
  /\ Sleep(interval')
  /\ UNCHANGED << clock, deadline, polled, code, dies, approvedAt >>

IsDeclined ==
  /\ enrolPc = "polling" /\ code = "declined"
  /\ FailBecause("declined")
  /\ UNCHANGED << clock, due, own, provider >>

IsExpired ==
  /\ enrolPc = "polling" /\ clock >= dies
  /\ FailBecause("expired")
  /\ UNCHANGED << clock, due, own, provider >>

IsGranted ==
  /\ enrolPc = "polling" /\ code = "approved" /\ polled < dies
  /\ code' = "redeemed" /\ enrolPc' = "persisting"
  /\ UNCHANGED << clock, due, own, dies, demanded, approvedAt, why >>

(* No answer, one of another kind, or a grant that is lost on its way.     *)
PollFails ==
  /\ enrolPc = "polling"
  /\ code' \in {code} \cup (IF code = "approved" THEN {"redeemed"} ELSE {})
  /\ FailBecause("error")
  /\ UNCHANGED << clock, due, own, dies, demanded, approvedAt >>

(* Seeded fault: the deadline is not looked at after a sleep.              *)
WakeAndPoll ==
  /\ enrolPc = "sleeping" /\ clock = due
  /\ polled' = clock
  /\ Send("polling")
  /\ UNCHANGED << clock, interval, deadline, provider >>

Wake ==
  /\ enrolPc = "sleeping" /\ clock = due
  /\ enrolPc' = "looping"
  /\ UNCHANGED << clock, due, own, provider, why >>

Persist ==
  /\ enrolPc = "persisting" /\ enrolPc' = "done"
  /\ UNCHANGED << clock, due, own, provider, why >>

PersistFails ==
  /\ enrolPc = "persisting" /\ FailBecause("error")
  /\ UNCHANGED << clock, due, own, provider >>
-----------------------------------------------------------------------------
(* The user, with the code in another device.                              *)

Approve ==
  /\ code = "pending" /\ clock < dies
  /\ code' = "approved" /\ approvedAt' = clock
  /\ UNCHANGED << clock, enrolPc, due, own, dies, demanded, why >>

Decline ==
  /\ code = "pending" /\ clock < dies
  /\ code' = "declined"
  /\ UNCHANGED << clock, enrolPc, due, own, dies, demanded, approvedAt, why >>

(* Timers are on time, and only requests and sleeps take any.              *)
Tick ==
  /\ clock < MaxClock
  /\ enrolPc \in Waiting /\ clock < due
  /\ clock' = clock + 1
  /\ UNCHANGED << enrolPc, due, own, provider, why >>
-----------------------------------------------------------------------------
EnrolStep ==
  \/ CodeArrives \/ CodeIsRefused
  \/ Poll \/ GiveUp \/ IsPending \/ IsToldToSlowDown \/ IsDeclined
  \/ IsExpired \/ IsGranted \/ PollFails \/ Wake \/ Persist \/ PersistFails

EnrolNext == RequestCode \/ EnrolStep \/ Approve \/ Decline \/ Tick

EnrolFairness == WF_enrolVars(EnrolStep) /\ WF_enrolVars(Tick)

EnrolSpec == EnrolInit /\ [][EnrolNext]_enrolVars
EnrolFairSpec == EnrolSpec /\ EnrolFairness
-----------------------------------------------------------------------------
(* Properties.                                                             *)

(* Polls keep the distance that the provider has asked for, every slow_down *)
(* included.                                                               *)
PollsKeepDistance ==
  [][polled' # polled /\ polled # None => polled' >= polled + demanded]_enrolVars

(* Who approves early enough, an interval and two requests before the code *)
(* expires, is not told that it has expired: a poll still comes in time.   *)
ApprovalIsNoticed ==
  why = "expired" /\ approvedAt # None =>
    approvedAt + interval + 2 * Delay >= dies

(* An enrolment ends, whether the user does anything or not.               *)
EnrolmentEnds == (enrolPc = "requesting") ~> (enrolPc \in Ended)
=============================================================================
