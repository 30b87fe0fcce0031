------------------------ MODULE Activities_proofs ---------------------------
(***************************************************************************)
(* Proofs about Activities, activity by activity: the enrolment by device  *)
(* code, the changes of the OWA calendar, the discovery of service actions *)
(* and the search for a meeting time.  (Those about setup are in           *)
(* SetupApply_proofs.)  In the end, what was proved of each of them holds  *)
(* of the program that runs any one of them.                               *)
(***************************************************************************)
EXTENDS Activities, SetupApply_proofs, Selection_proofs, SequenceTheorems, TLAPS

(***************************************************************************)
(* Enrolment by device code.                                               *)
(***************************************************************************)

(* The interval is at least what the provider asks for, and there is none  *)
(* before there is a code.                                                 *)
IntervalIsLongEnough ==
  /\ demanded <= interval
  /\ enrolPc \in {"idle", "requesting"} => code = None /\ polled = None

(* What is known of the last poll where the program is between two.        *)
DistanceIsKept ==
  /\ polled # None => polled <= clock
  /\ enrolPc = "looping" /\ polled # None => polled + interval <= clock
  /\ enrolPc = "sleeping" => polled # None /\ polled + interval <= due

(* The deadline is that of the provider or later, and the program is never *)
(* further from its last poll than a request and an interval.              *)
PollsKeepUp ==
  /\ enrolPc = "requesting" => Delay <= due
  /\ dies <= deadline
  /\ enrolPc = "polling" => polled # None /\ due = polled + Delay
  /\ enrolPc = "sleeping" => due <= polled + Delay + interval
  /\ enrolPc = "looping" /\ polled # None => clock <= polled + Delay + interval

(* An approval that has not been seen came after the last poll or, while   *)
(* the next is under way, after the one before.                            *)
ApprovalIsRecent ==
  /\ approvedAt # None => approvedAt <= clock
  /\ enrolPc \in {"idle", "requesting"} => approvedAt = None
  /\ approvedAt # None =>
       /\ enrolPc = "looping" /\ polled = None => approvedAt = clock
       /\ enrolPc \in {"looping", "sleeping"} /\ polled # None => polled <= approvedAt
       /\ enrolPc = "polling" => polled <= approvedAt + Delay + interval

ExpiredIsLate == why = "expired" => dies <= clock

EnrolInv ==
  /\ EnrolTypeOK
  /\ IntervalIsLongEnough
  /\ DistanceIsKept
  /\ PollsKeepUp
  /\ ApprovalIsRecent
  /\ ExpiredIsLate
  /\ ApprovalIsNoticed

LEMMA Durations == SlowDown \in Nat /\ Delay \in Nat /\ MaxClock \in Nat
  BY EnrolAssumption

LEMMA EnrolInitially == EnrolInit => EnrolInv
  BY EnrolAssumption, SMT DEF EnrolInit, EnrolInv, EnrolTypeOK, IntervalIsLongEnough,
     DistanceIsKept, PollsKeepUp, ApprovalIsRecent, ExpiredIsLate,
     ApprovalIsNoticed, Waiting, Ended

LEMMA EnrolStepKeeps == EnrolInv /\ [EnrolNext]_enrolVars => EnrolInv'
<1> SUFFICES ASSUME EnrolInv, [EnrolNext]_enrolVars PROVE EnrolInv'
  OBVIOUS
<1> USE EnrolAssumption, Durations
     DEF EnrolInv, EnrolTypeOK, IntervalIsLongEnough, DistanceIsKept, PollsKeepUp,
         ApprovalIsRecent, ExpiredIsLate, ApprovalIsNoticed, Waiting, Ended, own,
         provider, Send, Sleep, FailBecause, WasPending
<1>1. CASE RequestCode
  BY <1>1, SMTT(30) DEF RequestCode
<1>2. CASE CodeArrives
  BY <1>2, SMTT(30) DEF CodeArrives, OrDefault
<1>3. CASE CodeIsRefused
  BY <1>3, SMTT(30) DEF CodeIsRefused
<1>4. CASE Poll
  BY <1>4, SMTT(30) DEF Poll
<1>5. CASE GiveUp
  BY <1>5, SMTT(30) DEF GiveUp
<1>6. CASE IsPending
  BY <1>6, SMTT(30) DEF IsPending
<1>7. CASE IsToldToSlowDown
  BY <1>7, SMTT(30) DEF IsToldToSlowDown
<1>8. CASE IsDeclined \/ IsExpired
  BY <1>8, SMTT(30) DEF IsDeclined, IsExpired
<1>9. CASE IsGranted \/ PollFails
  BY <1>9, SMTT(30) DEF IsGranted, PollFails
<1>10. CASE Wake
  BY <1>10, SMTT(30) DEF Wake
<1>11. CASE Persist \/ PersistFails
  BY <1>11, SMTT(30) DEF Persist, PersistFails
<1>12. CASE Approve \/ Decline
  BY <1>12, SMTT(30) DEF Approve, Decline
<1>13. CASE Tick
  BY <1>13, SMTT(30) DEF Tick
<1>14. CASE UNCHANGED enrolVars
  BY <1>14, SMTT(30) DEF enrolVars
<1> QED
  BY <1>1, <1>2, <1>3, <1>4, <1>5, <1>6, <1>7, <1>8, <1>9, <1>10, <1>11, <1>12,
     <1>13, <1>14 DEF EnrolNext, EnrolStep

(* The enrolment keeps its types: among them, no poll is sent after the    *)
(* deadline, and a credential is only stored that was granted.             *)
THEOREM EnrolTypeCorrect == EnrolSpec => []EnrolTypeOK
<1>1. EnrolInv => EnrolTypeOK
  BY DEF EnrolInv
<1> QED
  BY <1>1, EnrolInitially, EnrolStepKeeps, PTL DEF EnrolSpec

(* Who approves an interval and two requests before the code expires is    *)
(* never told that it has expired.                                         *)
THEOREM ApprovalIsSeen == EnrolSpec => []ApprovalIsNoticed
<1>1. EnrolInv => ApprovalIsNoticed
  BY DEF EnrolInv
<1> QED
  BY <1>1, EnrolInitially, EnrolStepKeeps, PTL DEF EnrolSpec

(* Two polls are never closer than the provider has asked for, every       *)
(* slow_down included.                                                     *)
THEOREM PollsAreApart == EnrolSpec => PollsKeepDistance
<1>1. EnrolInv /\ [EnrolNext]_enrolVars =>
        [polled' # polled /\ polled # None => polled' >= polled + demanded]_enrolVars
  <2> SUFFICES ASSUME EnrolInv, EnrolNext, polled' # polled, polled # None
               PROVE  polled' >= polled + demanded
    BY DEF enrolVars
  <2>1. Poll
    BY DEF EnrolNext, EnrolStep, RequestCode, CodeArrives, CodeIsRefused, GiveUp,
       IsPending, IsToldToSlowDown, IsDeclined, IsExpired, IsGranted, PollFails,
       Wake, Persist, PersistFails, Approve, Decline, Tick, own
  <2> QED
    BY <2>1, SMT DEF EnrolInv, EnrolTypeOK, IntervalIsLongEnough, DistanceIsKept, Poll
<1> QED
  BY <1>1, EnrolInitially, EnrolStepKeeps, PTL DEF EnrolSpec, PollsKeepDistance

-----------------------------------------------------------------------------
(***************************************************************************)
(* The changes of the OWA calendar.                                        *)
(***************************************************************************)

(* Which steps belong to which call, and what it has been given for them.  *)
CallIsItsOwn ==
  /\ calendarPc \in {"inviting", "creating", "verifying"} => meeting \in Meeting
  /\ calendarPc = "locating" => eventId \in EventId /\ changeKey = None
  /\ calendarPc \in {"inviting", "creating", "verifying"} => mutation = "create"
  /\ calendarPc \in {"locating", "removing"} => mutation \in {"delete", "cancel"}
  /\ calendarPc \in {"inviting", "creating"} => made = None /\ removed = None
  /\ calendarPc = "verifying" => removed = None
  /\ calendarPc \in {"locating", "removing"} => made = None /\ removed = None

(* An address that was given is the one that is invited.                   *)
AddressesAreKept ==
  \A n \in DOMAIN invitees : invited[n].who \in Address => invitees[n] = invited[n].who

(* What the call has created is in the calendar as it was asked for, until *)
(* somebody else changes it.                                               *)
CreatedIsThere ==
  calendarPc = "verifying" /\ made # None /\ made \notin touched =>
    /\ calendar[made] # None
    /\ calendar[made].meeting = meeting
    /\ calendar[made].invitees = Range(invitees)

CalendarInv ==
  /\ CalendarTypeOK
  /\ CallIsItsOwn
  /\ AddressesAreKept
  /\ CreatedIsThere

-----------------------------------------------------------------------------
LEMMA CalendarInitially == CalendarInit => CalendarInv
<1> SUFFICES ASSUME CalendarInit PROVE CalendarInv
  OBVIOUS
<1>1. unsaid \in BOOLEAN
  BY DEF CalendarInit
<1>2. CalendarTypeOK
  BY <1>1, CalendarAssumption, SMTT(30)
     DEF CalendarInit, CalendarTypeOK, EventId, Version, Over
<1> QED
  BY <1>2 DEF CalendarInit, CalendarInv, CallIsItsOwn, AddressesAreKept, CreatedIsThere

LEMMA CalendarStepKeeps == CalendarInv /\ [CalendarNext]_calendarVars => CalendarInv'
<1> SUFFICES ASSUME CalendarInv, [CalendarNext]_calendarVars PROVE CalendarInv'
  OBVIOUS
<1> USE CalendarAssumption
     DEF CalendarInv, CalendarTypeOK, CallIsItsOwn, AddressesAreKept, CreatedIsThere,
         Over, payload, effects, verdict
<1>1. CASE BeginCreate
  <2>1. unsaid' \in BOOLEAN
    BY <1>1 DEF BeginCreate, BeginCall
  <2> QED
    BY <1>1, <2>1, SMTT(30) DEF BeginCreate, BeginCall
<1>2. ASSUME NEW m \in {"delete", "cancel"}, BeginRemove(m) PROVE CalendarInv'
  <2>1. unsaid' \in BOOLEAN
    BY <1>2 DEF BeginRemove, BeginCall
  <2> QED
    BY <1>2, <2>1, SMTT(30) DEF BeginRemove, BeginCall, EventId
<1>3. ASSUME NEW a \in Address, MayInvite, Invite(a),
             Given.who \in Address => a = Given.who
      PROVE  CalendarInv'
  BY <1>3, SMTT(30) DEF MayInvite, Invite, Given
<1>4. CASE InviteAddress \/ InviteByName
  BY <1>3, <1>4 DEF InviteAddress, InviteByName
<1>5. CASE CannotInvite \/ CannotVerify \/ CannotLocate \/ CreateIsRefused
  BY <1>5, SMTT(30) DEF CannotInvite, CannotVerify, CannotLocate, CreateIsRefused,
     CallFails, MayInvite
<1>6. CASE RemoveIsRefused
  <2>1. unsaid' \in BOOLEAN
    BY <1>6 DEF RemoveIsRefused, IsTakenForSuccess
  <2> QED
    BY <1>6, <2>1, SMTT(30) DEF RemoveIsRefused, StaysThere, IsTakenForSuccess
<1>7. CASE EverybodyIsInvited
  BY <1>7, SMTT(30) DEF EverybodyIsInvited
<1>8. CASE CreateEvent
  <2> DEFINE new == [ meeting |-> meeting, invitees |-> Range(invitees), version |-> 1 ]
  <2>1. new \in CalendarEvent
    BY <1>8 DEF CreateEvent, CalendarEvent, Version, Range
  <2>2. issued' \in EventId /\ issued' = issued + 1 /\ made' = issued'
    BY <1>8 DEF CreateEvent, EventId
  <2>3. /\ calendar' \in [EventId -> CalendarEvent \cup {None}]
        /\ calendar'[issued'] = new
        /\ \A id \in EventId : id # issued' => calendar'[id] = calendar[id]
    BY <1>8, <2>1, <2>2 DEF CreateEvent
  <2>4. CalendarTypeOK' /\ CallIsItsOwn' /\ AddressesAreKept'
    BY <1>8, <2>2, <2>3, SMTT(30) DEF CreateEvent, EventId
  <2>5. CreatedIsThere'
    BY <1>8, <2>1, <2>2, <2>3 DEF CreateEvent, CalendarEvent
  <2> QED
    BY <2>4, <2>5
<1>9. CASE Verify
  BY <1>9, SMTT(30) DEF Verify
<1>10. CASE Locate
  <2>1. calendar[eventId].version \in Version
    BY <1>10 DEF Locate, CalendarEvent
  <2> QED
    BY <1>10, <2>1, SMTT(30) DEF Locate
<1>11. CASE RemoveEvent
  BY <1>11, SMTT(30) DEF RemoveEvent, IsCurrent, IsTakenForSuccess
<1>12. CASE OtherCreates
  <2>1. PICK m \in Meeting, S \in SUBSET Address :
          calendar' = [calendar EXCEPT ![issued'] =
                         [ meeting |-> m, invitees |-> S, version |-> 1 ]]
    BY <1>12 DEF OtherCreates
  <2>2. [ meeting |-> m, invitees |-> S, version |-> 1 ] \in CalendarEvent
    BY DEF CalendarEvent, Version
  <2>3. issued' \in EventId /\ issued' = issued + 1
    BY <1>12 DEF OtherCreates, EventId
  <2>4. /\ calendar' \in [EventId -> CalendarEvent \cup {None}]
        /\ \A id \in EventId : id # issued' => calendar'[id] = calendar[id]
    BY <2>1, <2>2, <2>3
  <2> QED
    BY <1>12, <2>3, <2>4, SMTT(30) DEF OtherCreates, EventId
<1>13. ASSUME NEW id \in EventId, OtherEdits(id) \/ OtherRemoves(id)
       PROVE  CalendarInv'
  <2>1. PICK event \in CalendarEvent \cup {None} : Touch(id, event)
    <3>1. CASE OtherRemoves(id)
      BY <3>1 DEF OtherRemoves
    <3>2. CASE OtherEdits(id)
      <4>1. calendar[id] \in CalendarEvent /\ calendar[id].version + 1 \in Version
        BY <3>2, SMT DEF OtherEdits, CalendarEvent, Version
      <4>2. PICK S \in SUBSET Address :
              Touch(id, [calendar[id] EXCEPT !.invitees = S, !.version = @ + 1])
        BY <3>2 DEF OtherEdits
      <4>3. [calendar[id] EXCEPT !.invitees = S, !.version = @ + 1] \in CalendarEvent
        BY <4>1 DEF CalendarEvent
      <4> QED
        BY <4>2, <4>3
    <3> QED
      BY <1>13, <3>1, <3>2
  <2>2. calendar[id] # None
    BY <1>13 DEF OtherEdits, OtherRemoves
  <2> QED
    BY <2>1, <2>2, SMTT(30) DEF Touch
<1>14. CASE UNCHANGED calendarVars
  BY <1>14, SMTT(30) DEF calendarVars
<1> QED
  BY <1>1, <1>2, <1>4, <1>5, <1>6, <1>7, <1>8, <1>9, <1>10, <1>11, <1>12, <1>13, <1>14
     DEF CalendarNext, CalendarStep
-----------------------------------------------------------------------------
(* The calendar and the call that changes it keep their types: among them, *)
(* a removal is only asked for by a version, the one given if one was.     *)
THEOREM CalendarTypeCorrect == CalendarSpec => []CalendarTypeOK
<1>1. CalendarInv => CalendarTypeOK
  BY DEF CalendarInv
<1> QED
  BY <1>1, CalendarInitially, CalendarStepKeeps, PTL DEF CalendarSpec

(* Success is about the event that was meant.  That was created as asked,  *)
(* or removed at the version given unless the answer said nothing of it,   *)
(* which passes for success; a refusal means that nothing was done.        *)
THEOREM AnswersStayTrue == CalendarSpec => AnswersAreTrue
<1>1. ASSUME CalendarInv, CalendarNext, calendarPc' = "ok", calendarPc # "ok"
      PROVE  IF mutation = "create" THEN CreatedIsAnswered ELSE RemovedIsAnswered
  <2> USE CalendarAssumption, <1>1
       DEF CalendarInv, CalendarTypeOK, CallIsItsOwn, AddressesAreKept,
           CreatedIsThere, Over, payload, effects, verdict
  <2>1. CreateEvent \/ Verify \/ RemoveEvent \/ RemoveIsRefused
    BY DEF CalendarNext, CalendarStep, BeginCreate, BeginRemove, InviteAddress,
       InviteByName, Invite, CannotInvite, EverybodyIsInvited, CreateIsRefused,
       CallFails, CannotVerify, Locate, CannotLocate, OtherCreates, OtherEdits,
       OtherRemoves, Touch
  <2>2. CASE CreateEvent
    BY <2>2, SMTT(30) DEF CreateEvent, CreatedIsAnswered, EventId, CalendarEvent
  <2>3. CASE Verify
    BY <2>3, SMTT(30) DEF Verify, Matches, CreatedIsAnswered
  <2>4. CASE RemoveEvent
    BY <2>4, SMTT(30) DEF RemoveEvent, IsCurrent, IsTakenForSuccess, RemovedIsAnswered
  <2>5. CASE RemoveIsRefused
    <3>1. IsTakenForSuccess(TRUE) /\ UNCHANGED << payload, effects >>
      BY <2>5 DEF RemoveIsRefused, StaysThere
    <3>2. mutation # "create" /\ removed = None
      BY <2>5 DEF RemoveIsRefused, StaysThere
    <3> QED
      BY <3>1, <3>2 DEF IsTakenForSuccess, RemovedIsAnswered
  <2> QED
    BY <2>1, <2>2, <2>3, <2>4, <2>5
<1>2. ASSUME CalendarInv, CalendarNext, calendarPc' = "refused", calendarPc # "refused"
      PROVE  made' = None /\ removed' = None
  BY <1>2 DEF CalendarInv, CallIsItsOwn, CalendarNext, CalendarStep, BeginCreate,
     BeginRemove, InviteAddress, InviteByName, Invite, CannotInvite,
     EverybodyIsInvited, CreateEvent, CreateIsRefused, CallFails, Verify, CannotVerify,
     Locate, CannotLocate, RemoveEvent, RemoveIsRefused, StaysThere, IsTakenForSuccess,
     OtherCreates, OtherEdits, OtherRemoves, Touch, effects, verdict, Over
<1> QED
  BY <1>1, <1>2, CalendarInitially, CalendarStepKeeps, PTL
     DEF CalendarSpec, AnswersAreTrue, calendarVars, verdict

-----------------------------------------------------------------------------
(***************************************************************************)
(* The discovery of service actions.                                       *)
(***************************************************************************)

(* What is left to read from a start URL.                                  *)
Left(i) == IF i = at THEN Range(agenda) ELSE {}

(* Nothing has been read but what the start URL leads to by links of pages *)
(* that have been read, and nothing else is left to read.                  *)
OnlyReachable(i) ==
  \A S \in SUBSET Url :
    /\ web.starts[i] \in S
    /\ \A url \in S : url \in Range(seen[i]) \ failed[i] =>
         Range(Links(url)) \subseteq S \cup {Elsewhere}
    => Range(seen[i]) \subseteq S /\ Left(i) \subseteq S \cup {Elsewhere}

(* Unless the limit is reached, the links of what has been read have been  *)
(* read, or are left to read.                                              *)
AllLinks(i) ==
  \/ Len(seen[i]) = limit
  \/ \A url \in Range(seen[i]) \ failed[i] :
       Range(Links(url)) \subseteq Range(seen[i]) \cup Left(i) \cup {Elsewhere}

AllNames(i) ==
  \A url \in Range(seen[i]) \ failed[i] : Found(url) \subseteq found

(* The start URL comes first.                                              *)
StartIsFirst ==
  \A i \in 1..at : IF seen[i] = << >>
                   THEN i = at /\ agenda = << web.starts[i] >>
                   ELSE web.starts[i] \in Range(seen[i])

DiscoverInv ==
  /\ DiscoverTypeOK
  /\ discovery = None => found = {} /\ discovered = None
  /\ discovery # None =>
       /\ StartIsFirst
       /\ \A i \in 1..at : OnlyReachable(i) /\ AllLinks(i) /\ AllNames(i)

(* Pages link to URLs or elsewhere.                                        *)
LEMMA LinkTypes ==
  ASSUME web \in Webs, NEW url \in Url
  PROVE  Links(url) \in Seq(Link)
<1>1. web \in Web
  BY WebAssumption
<1>2. /\ web.lands[url] \in Url
      /\ \A u \in Url : web.hints[u] \in Seq(Link) /\ web.scripts[u] \in Seq(Link)
  BY <1>1 DEF Web
<1>3. HintsOf(Landed(url)) \in Seq(Link) /\ ScriptsOf(Landed(url)) \in Seq(Link)
  BY <1>2 DEF HintsOf, ScriptsOf, Landed
<1> QED BY <1>3, ConcatProperties DEF Links

(* And the names that are looked for in them are names of actions.         *)
LEMMA NameTypes ==
  ASSUME web \in Webs, NEW url \in Url
  PROVE  Found(url) \subseteq Action
<1>1. web \in Web
  BY WebAssumption
<1>2. web.lands[url] \in Url /\ \A u \in Url : web.names[u] \subseteq Action
  BY <1>1 DEF Web
<1> QED BY <1>2 DEF Found, Landed, NamesIn, ContextsIn

(* What a discovery is about stays the same while it runs.                 *)
LEMMA GivenStays ==
  ASSUME UNCHANGED given
  PROVE  /\ UNCHANGED << web, discovery, wanted, hints, scripts, goOn, limit >>
         /\ \A url : Links(url)' = Links(url) /\ Found(url)' = Found(url)
BY DEF given, Links, HintsOf, ScriptsOf, Landed, Found, NamesIn, ContextsIn

LEMMA DiscoverInitially == DiscoverInit => DiscoverInv
BY DEF DiscoverInit, DiscoverInv, DiscoverTypeOK, DiscoverCommand

LEMMA BeginKeeps ==
  ASSUME DiscoverInv, NEW c \in DiscoverCommand, BeginDiscovery(c)
  PROVE  DiscoverInv'
<1>1. web' \in Web /\ web'.starts # << >>
  BY WebAssumption DEF BeginDiscovery
<1>2. web'.starts \in Seq(Link)
  BY <1>1 DEF Web
<1>3. Len(web'.starts) \in Nat \ {0} /\ DOMAIN web'.starts = 1..Len(web'.starts)
  BY <1>1, <1>2
<1>4. web'.starts[1] \in Link
  BY <1>3, <1>2, ElementOfSeq
<1>5. /\ discovery' \in DiscoverCommand /\ discovery' # None
      /\ limit' \in Limits /\ limit' \in Nat \ {0}
      /\ at' = 1 /\ agenda' = << web'.starts[1] >>
      /\ found' = {} /\ discovered' = None
  BY WebAssumption DEF BeginDiscovery, DiscoverInv, DiscoverCommand
<1>6. /\ DOMAIN seen' = DOMAIN web'.starts /\ DOMAIN failed' = DOMAIN seen'
      /\ \A i \in DOMAIN seen' : seen'[i] = << >> /\ failed'[i] = {}
  BY DEF BeginDiscovery
<1>7. agenda' \in Seq(Link) /\ Range(agenda') = {web'.starts[1]}
  BY <1>4, <1>5 DEF Range
<1>8. Range(<< >>) = {} /\ IsInjective(<< >>) /\ << >> \in Seq(Url) /\ Len(<< >>) = 0
  BY DEF Range, IsInjective
<1>9. wanted' \in Action \cup {None} /\ {hints', scripts', goOn'} \subseteq BOOLEAN
  BY DEF BeginDiscovery
<1>10. DiscoverTypeOK'
  BY <1>3, <1>5, <1>6, <1>7, <1>8, <1>9 DEF DiscoverTypeOK, BeginDiscovery
<1>11. (StartIsFirst /\ \A i \in 1..at : OnlyReachable(i) /\ AllLinks(i) /\ AllNames(i))'
  <2>1. \A i \in 1..at' : i = 1 /\ i \in DOMAIN seen'
    BY <1>3, <1>5, <1>6
  <2> QED
    BY <2>1, <1>5, <1>6, <1>7, <1>8
       DEF StartIsFirst, OnlyReachable, AllLinks, AllNames, Left
<1> QED BY <1>5, <1>10, <1>11 DEF DiscoverInv

(* The head of the agenda is read, or fails to be read: what is common.    *)
LEMMA MarkKeeps ==
  ASSUME DiscoverInv, MayRead, Head(agenda) \in Url, Mark(Head(agenda)),
         UNCHANGED << given, at, discovered >>,
         NEW more \in SUBSET Link, agenda' \in Seq(Link),
         Range(agenda') = more \cup Range(Tail(agenda)),
         \/ /\ more = Range(Links(Head(agenda))) /\ UNCHANGED failed
            /\ found' = found \cup Found(Head(agenda))
         \/ /\ more = {} /\ UNCHANGED found
            /\ failed' = [failed EXCEPT ![at] = @ \cup {Head(agenda)}]
  PROVE  DiscoverInv'
<1> DEFINE h == Head(agenda)
<1>1. /\ discovery # None /\ agenda # << >> /\ ~ AtLimit /\ ~ HasSeen(h)
      /\ DiscoverTypeOK
      /\ at \in 1..at /\ at \in DOMAIN seen /\ web \in Webs
      /\ Range(agenda) = {h} \cup Range(Tail(agenda))
      /\ limit \in Nat \ {0}
  <2>1. discovery # None /\ agenda # << >> /\ ~ AtLimit /\ ~ HasSeen(h)
    BY DEF MayRead, Running
  <2>2. /\ at \in 1..Len(web.starts) /\ DOMAIN seen = DOMAIN web.starts
        /\ web \in Webs /\ agenda \in Seq(Link)
    BY <2>1 DEF DiscoverInv, DiscoverTypeOK
  <2>3. web.starts \in Seq(Link)
    BY <2>2, WebAssumption DEF Web
  <2>4. at \in 1..at /\ at \in DOMAIN seen
    BY <2>2, <2>3
  <2>5. limit \in Nat \ {0}
    BY <2>1, WebAssumption DEF DiscoverInv, DiscoverTypeOK
  <2> QED BY <2>1, <2>2, <2>4, <2>5, Unpacked DEF DiscoverInv
<1>2. /\ DOMAIN seen' = DOMAIN seen /\ seen'[at] = Append(seen[at], h)
      /\ \A i \in DOMAIN seen \ {at} : seen'[i] = seen[i]
  BY <1>1 DEF Mark
<1>3. /\ DOMAIN failed' = DOMAIN failed
      /\ \A i \in DOMAIN seen \ {at} : failed'[i] = failed[i]
      /\ \/ more = Range(Links(h)) /\ failed'[at] = failed[at]
         \/ more = {} /\ failed'[at] = failed[at] \cup {h}
  BY <1>1 DEF DiscoverTypeOK
<1>4. /\ seen[at] \in Seq(Url) /\ Len(seen[at]) <= limit /\ IsInjective(seen[at])
      /\ failed[at] \subseteq Range(seen[at])
      /\ \A i \in DOMAIN seen : i > at => seen[i] = << >>
  BY <1>1 DEF DiscoverTypeOK
<1>5. /\ seen'[at] \in Seq(Url) /\ Len(seen'[at]) = Len(seen[at]) + 1
      /\ seen'[at] # << >> /\ Range(seen'[at]) = Range(seen[at]) \cup {h}
  BY <1>2, <1>4, Appended
<1>6. Len(seen'[at]) <= limit
  BY <1>1, <1>4, <1>5 DEF AtLimit
<1>7. h \notin Range(seen[at])
  BY <1>1 DEF HasSeen
<1>8. IsInjective(seen'[at])
  BY <1>2, <1>4, <1>7 DEF IsInjective, Range
<1>9. /\ UNCHANGED << web, discovery, wanted, hints, scripts, goOn, limit, at >>
      /\ \A url : Links(url)' = Links(url) /\ Found(url)' = Found(url)
  BY GivenStays
<1>10. found \subseteq found' /\ found' \subseteq Action
       /\ (h \notin failed'[at] => Found(h) \subseteq found')
  BY <1>1, <1>3, <1>4, <1>7, NameTypes DEF DiscoverTypeOK
<1>11. DiscoverTypeOK'
  <2>1. \A i \in DOMAIN seen' :
          /\ seen'[i] \in Seq(Url) /\ IsInjective(seen'[i])
          /\ Len(seen'[i]) <= limit
          /\ failed'[i] \subseteq Range(seen'[i])
          /\ i > at => seen'[i] = << >>
    <3> SUFFICES ASSUME NEW i \in DOMAIN seen
                 PROVE  /\ seen'[i] \in Seq(Url) /\ IsInjective(seen'[i])
                        /\ Len(seen'[i]) <= limit
                        /\ failed'[i] \subseteq Range(seen'[i])
                        /\ i > at => seen'[i] = << >>
      BY <1>2
    <3>1. CASE i = at
      BY <3>1, <1>1, <1>3, <1>4, <1>5, <1>6, <1>8
    <3>2. CASE i # at
      BY <3>2, <1>1, <1>2, <1>3 DEF DiscoverTypeOK
    <3> QED BY <3>1, <3>2
  <2> QED BY <2>1, <1>1, <1>2, <1>3, <1>9, <1>10 DEF DiscoverTypeOK
<1>12. StartIsFirst'
  <2>1. seen[at] = << >> => web.starts[at] = h
    BY <1>1 DEF DiscoverInv, StartIsFirst
  <2>2. web.starts[at] \in Range(seen'[at])
    BY <1>1, <1>5, <2>1 DEF DiscoverInv, StartIsFirst
  <2>3. ASSUME NEW i \in 1..at, i # at
        PROVE  seen'[i] = seen[i] /\ seen[i] # << >>
                 /\ web.starts[i] \in Range(seen[i])
    <3>1. i \in DOMAIN seen
      BY <1>1 DEF DiscoverTypeOK
    <3> QED BY <1>1, <1>2, <2>3, <3>1 DEF DiscoverInv, StartIsFirst
  <2> QED BY <1>5, <1>9, <2>2, <2>3 DEF StartIsFirst
<1>13. ASSUME NEW i \in 1..at'
       PROVE  (OnlyReachable(i) /\ AllLinks(i) /\ AllNames(i))'
  <2>1. i \in 1..at /\ i \in DOMAIN seen
    BY <1>1, <1>9 DEF DiscoverTypeOK
  <2>2. OnlyReachable(i) /\ AllLinks(i) /\ AllNames(i)
    BY <1>1, <2>1 DEF DiscoverInv
  <2>3. CASE i # at
    BY <2>1, <2>2, <2>3, <1>2, <1>3, <1>9, <1>10
       DEF OnlyReachable, AllLinks, AllNames, Left
  <2>4. CASE i = at
    <3>1. (OnlyReachable(at))'
      <4> SUFFICES ASSUME NEW S \in SUBSET Url, web.starts[at] \in S,
                          \A url \in S : url \in Range(seen'[at]) \ failed'[at] =>
                            Range(Links(url)) \subseteq S \cup {Elsewhere}
                   PROVE  /\ Range(seen'[at]) \subseteq S
                          /\ Range(agenda') \subseteq S \cup {Elsewhere}
        BY <1>9 DEF OnlyReachable, Left
      <4>1. \A url \in S : url \in Range(seen[at]) \ failed[at] =>
              Range(Links(url)) \subseteq S \cup {Elsewhere}
        BY <1>3, <1>5, <1>7
      <4>2. /\ Range(seen[at]) \subseteq S
            /\ Range(agenda) \subseteq S \cup {Elsewhere}
        BY <4>1, <2>2, <2>4 DEF OnlyReachable, Left
      <4>3. h \in S
        BY <4>2, <1>1, WebAssumption
      <4>4. more \subseteq S \cup {Elsewhere}
        BY <4>3, <1>3, <1>4, <1>5, <1>7
      <4> QED BY <4>2, <4>3, <4>4, <1>1, <1>5
    <3>2. (AllLinks(at))'
      <4>1. \A url \in Range(seen[at]) \ failed[at] :
              Range(Links(url)) \subseteq Range(seen[at]) \cup Range(agenda)
                                                          \cup {Elsewhere}
        BY <1>1, <1>4, <2>2, <2>4 DEF AllLinks, AtLimit, Left
      <4>2. Range(agenda) \subseteq Range(seen'[at]) \cup Range(agenda')
        BY <1>1, <1>5
      <4>3. \A url \in Range(seen'[at]) \ failed'[at] :
              \/ url \in Range(seen[at]) \ failed[at]
              \/ url = h /\ more = Range(Links(h))
        BY <1>3, <1>5
      <4>4. \A url \in Range(seen'[at]) \ failed'[at] :
              Range(Links(url)) \subseteq Range(seen'[at]) \cup Range(agenda')
                                                           \cup {Elsewhere}
        BY <4>1, <4>2, <4>3, <1>5
      <4> QED BY <4>4, <1>9 DEF AllLinks, Left
    <3>3. (AllNames(at))'
      BY <2>2, <2>4, <1>3, <1>5, <1>9, <1>10 DEF AllNames
    <3> QED BY <2>4, <3>1, <3>2, <3>3
  <2> QED BY <2>3, <2>4
<1> QED BY <1>11, <1>12, <1>13, <1>1, <1>9 DEF DiscoverInv

LEMMA DropKeeps == DiscoverInv /\ Drop => DiscoverInv'
<1> SUFFICES ASSUME DiscoverInv, Drop PROVE DiscoverInv'
  OBVIOUS
<1>1. /\ discovery # None /\ discovered = None /\ agenda # << >>
      /\ AtLimit \/ HasSeen(Head(agenda)) \/ LeadsElsewhere(Head(agenda))
      /\ agenda' = Tail(agenda)
      /\ UNCHANGED << given, at, seen, failed, found, discovered >>
  BY DEF Drop, Running
<1>2. /\ UNCHANGED << web, discovery, wanted, hints, scripts, goOn, limit, at >>
      /\ \A url : Links(url)' = Links(url) /\ Found(url)' = Found(url)
  BY <1>1, GivenStays
<1>3. /\ agenda \in Seq(Link) /\ web \in Webs /\ limit \in Nat \ {0}
      /\ at \in 1..Len(web.starts) /\ DOMAIN seen = DOMAIN web.starts
  BY <1>1, WebAssumption DEF DiscoverInv, DiscoverTypeOK
<1>4. at \in 1..at /\ at \in DOMAIN seen
  <2>1. web.starts \in Seq(Link)
    BY <1>3, WebAssumption DEF Web
  <2> QED BY <1>3, <2>1
<1>5. agenda' \in Seq(Link) /\ Range(agenda) = {Head(agenda)} \cup Range(agenda')
  BY <1>1, <1>3, Unpacked
<1>6. DiscoverTypeOK'
  BY <1>1, <1>2, <1>5 DEF DiscoverInv, DiscoverTypeOK
<1>7. seen[at] \in Seq(Url) /\ Len(seen[at]) <= limit
  BY <1>1, <1>4 DEF DiscoverInv, DiscoverTypeOK
<1>8. seen[at] # << >>
  <2>1. Len(<< >>) = 0 /\ Range(<< >>) = {}
    BY DEF Range
  <2> QED BY <1>1, <1>3, <2>1 DEF AtLimit, HasSeen, LeadsElsewhere, IsStart
<1>9. StartIsFirst'
  BY <1>1, <1>2, <1>8 DEF DiscoverInv, StartIsFirst
<1>10. ASSUME NEW i \in 1..at'
       PROVE  (OnlyReachable(i) /\ AllLinks(i) /\ AllNames(i))'
  <2>1. OnlyReachable(i) /\ AllLinks(i) /\ AllNames(i)
    BY <1>1, <1>2 DEF DiscoverInv
  <2>2. OnlyReachable(i)' /\ AllNames(i)'
    BY <1>1, <1>2, <1>5, <2>1 DEF OnlyReachable, AllNames, Left
  <2>3. AllLinks(i)'
    BY <1>1, <1>2, <1>3, <1>5, <1>7, <2>1
       DEF AllLinks, Left, AtLimit, HasSeen, LeadsElsewhere
  <2> QED BY <2>2, <2>3
<1> QED BY <1>1, <1>2, <1>6, <1>9, <1>10 DEF DiscoverInv

LEMMA NextStartKeeps == DiscoverInv /\ NextStart => DiscoverInv'
<1> SUFFICES ASSUME DiscoverInv, NextStart PROVE DiscoverInv'
  OBVIOUS
<1>1. /\ discovery # None /\ agenda = << >> /\ at < Len(web.starts)
      /\ at' = at + 1 /\ agenda' = << web.starts[at + 1] >>
      /\ UNCHANGED << given, seen, failed, found, discovered >>
  BY DEF NextStart, Running
<1>2. /\ UNCHANGED << web, discovery, wanted, hints, scripts, goOn, limit >>
      /\ \A url : Links(url)' = Links(url) /\ Found(url)' = Found(url)
  BY <1>1, GivenStays
<1>3. /\ web \in Webs /\ at \in 1..Len(web.starts)
      /\ DOMAIN seen = DOMAIN web.starts
  BY <1>1 DEF DiscoverInv, DiscoverTypeOK
<1>4. web.starts \in Seq(Link)
  BY <1>3, WebAssumption DEF Web
<1>5. /\ DOMAIN web.starts = 1..Len(web.starts) /\ Len(web.starts) \in Nat
      /\ at \in Nat \ {0} /\ at + 1 \in DOMAIN seen
      /\ web.starts[at + 1] \in Link
  BY <1>1, <1>3, <1>4
<1>6. seen[at + 1] = << >> /\ failed[at + 1] \subseteq Range(<< >>)
  <2>1. at + 1 > at
    BY <1>5
  <2> QED BY <1>1, <1>5, <2>1 DEF DiscoverInv, DiscoverTypeOK
<1>7. Range(<< >>) = {} /\ Range(agenda') = {web.starts[at + 1]}
      /\ agenda' \in Seq(Link)
  BY <1>1, <1>5 DEF Range
<1>8. DiscoverTypeOK'
  BY <1>1, <1>2, <1>5, <1>7 DEF DiscoverInv, DiscoverTypeOK
<1>9. seen[at] # << >>
  BY <1>1, <1>5 DEF DiscoverInv, StartIsFirst
<1>10. \A i \in 1..at' : i = at' \/ (i \in 1..at /\ i # at')
  BY <1>1, <1>5
<1>11. StartIsFirst'
  BY <1>1, <1>2, <1>6, <1>9, <1>10 DEF DiscoverInv, StartIsFirst
<1>12. ASSUME NEW i \in 1..at'
       PROVE  (OnlyReachable(i) /\ AllLinks(i) /\ AllNames(i))'
  <2>1. CASE i = at'
    BY <1>1, <1>2, <1>6, <1>7, <2>1 DEF OnlyReachable, AllLinks, AllNames, Left
  <2>2. CASE i \in 1..at /\ i # at'
    <3>1. OnlyReachable(i) /\ AllLinks(i) /\ AllNames(i)
      BY <1>1, <2>2 DEF DiscoverInv
    <3>2. Left(i) = {} /\ Left(i)' = {}
      BY <1>1, <1>7, <2>2 DEF Left
    <3> QED BY <1>1, <1>2, <3>1, <3>2 DEF OnlyReachable, AllLinks, AllNames
  <2> QED BY <1>10, <2>1, <2>2
<1> QED BY <1>1, <1>2, <1>8, <1>11, <1>12 DEF DiscoverInv

(* Every step of a discovery keeps DiscoverInv.                            *)
LEMMA DiscoverStepKeeps == DiscoverInv /\ [DiscoverNext]_discoverVars => DiscoverInv'
<1> SUFFICES ASSUME DiscoverInv, [DiscoverNext]_discoverVars PROVE DiscoverInv'
  OBVIOUS
<1>1. CASE \E c \in DiscoverCommand : BeginDiscovery(c)
  BY <1>1, BeginKeeps
<1>2. CASE Drop
  BY <1>2, DropKeeps
<1>3. ASSUME MayRead
      PROVE  /\ Head(agenda) \in Link /\ Tail(agenda) \in Seq(Link)
             /\ web \in Webs /\ agenda # << >>
  BY <1>3, Unpacked DEF MayRead, Running, DiscoverInv, DiscoverTypeOK
<1>4. CASE Load
  <2>1. /\ MayRead /\ Head(agenda) \in Url /\ Mark(Head(agenda))
        /\ agenda' = Links(Head(agenda)) \o Tail(agenda)
        /\ found' = found \cup Found(Head(agenda))
        /\ UNCHANGED << given, at, failed, discovered >>
    BY <1>3, <1>4 DEF Load, Link, MayRead
  <2>2. Links(Head(agenda)) \in Seq(Link)
    BY <1>3, <2>1, LinkTypes
  <2>3. /\ agenda' \in Seq(Link)
        /\ Range(agenda') = Range(Links(Head(agenda))) \cup Range(Tail(agenda))
        /\ Range(Links(Head(agenda))) \in SUBSET Link
    <3>1. /\ Links(Head(agenda)) \o Tail(agenda) \in Seq(Link)
          /\ Range(Links(Head(agenda)) \o Tail(agenda)) =
               Range(Links(Head(agenda))) \cup Range(Tail(agenda))
      BY <1>3, <2>1, <2>2, Joined
    <3>2. Range(Links(Head(agenda))) \in SUBSET Link
      BY <2>2, RangeOfSeq
    <3> QED BY <2>1, <3>1, <3>2
  <2> QED BY <2>1, <2>3, MarkKeeps
<1>5. CASE LoadFails
  <2>1. /\ MayRead /\ Head(agenda) \in Url /\ Mark(Head(agenda))
        /\ agenda' = Tail(agenda)
        /\ failed' = [failed EXCEPT ![at] = @ \cup {Head(agenda)}]
        /\ UNCHANGED << given, at, found, discovered >>
    BY <1>5, WebAssumption DEF LoadFails
  <2>2. /\ agenda' \in Seq(Link) /\ {} \in SUBSET Link
        /\ Range(agenda') = {} \cup Range(Tail(agenda))
    BY <1>3, <2>1
  <2> QED BY <2>1, <2>2, MarkKeeps
<1>6. CASE Abort \/ LoginFails \/ Report \/ UNCHANGED discoverVars
  <2>1. /\ UNCHANGED << given, at, agenda, seen, failed, found >>
        /\ discovered' \in {"ok", "error", discovered}
        /\ discovered' # discovered => discovery # None
    BY <1>6 DEF Abort, LoginFails, Report, Running, MayRead, discoverVars
  <2>2. /\ UNCHANGED << web, discovery, wanted, hints, scripts, goOn, limit >>
        /\ \A url : Links(url)' = Links(url) /\ Found(url)' = Found(url)
    BY <2>1, GivenStays
  <2> QED
    BY <2>1, <2>2 DEF DiscoverInv, DiscoverTypeOK, StartIsFirst, OnlyReachable,
       AllLinks, AllNames, Left
<1>7. CASE NextStart
  BY <1>7, NextStartKeeps
<1> QED
  BY <1>1, <1>2, <1>4, <1>5, <1>6, <1>7 DEF DiscoverNext, DiscoverStep

(* A report comes when all start URLs have been read from.                 *)
EndIsReached ==
  discovered = "ok" =>
    discovery # None /\ agenda = << >> /\ at = Len(web.starts)

LEMMA EndStays ==
  DiscoverInv /\ EndIsReached /\ [DiscoverNext]_discoverVars => EndIsReached'
<1> SUFFICES ASSUME EndIsReached, [DiscoverNext]_discoverVars, DiscoverInv
             PROVE  EndIsReached'
  OBVIOUS
<1>1. CASE Report
  BY <1>1 DEF Report, EndIsReached, Running, given
<1>2. CASE Running /\ discovered' # "ok"
  BY <1>2 DEF EndIsReached
<1>3. CASE discovery = None /\ discovered' = discovered
  BY <1>3, WebAssumption DEF DiscoverInv, EndIsReached
<1>4. CASE UNCHANGED discoverVars
  BY <1>4 DEF discoverVars, given, EndIsReached
<1> QED
  BY <1>1, <1>2, <1>3, <1>4, WebAssumption
     DEF DiscoverNext, DiscoverStep, BeginDiscovery, Drop, MayRead, Load,
         LoadFails, Abort, LoginFails, NextStart, Running

(* A report is complete when it comes.                                     *)
LEMMA CompleteAtEnd ==
  ASSUME DiscoverInv, EndIsReached
  PROVE  ReportIsComplete
<1> SUFFICES ASSUME discovered = "ok", NEW i \in DOMAIN seen
             PROVE  LET reachable == Reachable(web.starts[i], failed[i])
                    IN  /\ Range(seen[i]) \subseteq reachable
                        /\ Range(seen[i]) = reachable \/ Len(seen[i]) = limit
                        /\ \A url \in Range(seen[i]) \ failed[i] :
                             /\ Found(url) \subseteq Classified \cup Unknown
                             /\ Found(url) \cap MissingClassified = {}
  BY DEF ReportIsComplete
<1> DEFINE reachable == Reachable(web.starts[i], failed[i])
<1>1. /\ discovery # None /\ agenda = << >> /\ at = Len(web.starts)
      /\ DOMAIN seen = DOMAIN web.starts /\ web \in Webs
      /\ seen[i] \in Seq(Url)
  BY DEF EndIsReached, DiscoverInv, DiscoverTypeOK
<1>2. web.starts \in Seq(Link)
  BY <1>1, WebAssumption DEF Web
<1>3. i \in 1..at
  BY <1>1, <1>2
<1>4. OnlyReachable(i) /\ AllLinks(i) /\ AllNames(i) /\ StartIsFirst
  BY <1>1, <1>3 DEF DiscoverInv
<1>5. Left(i) = {}
  BY <1>1 DEF Left, Range
<1>6. web.starts[i] \in Range(seen[i]) /\ Range(seen[i]) \in SUBSET Url
  BY <1>1, <1>3, <1>4, RangeOfSeq DEF StartIsFirst
<1>7. Range(seen[i]) \subseteq reachable
  <2> SUFFICES ASSUME NEW url \in Range(seen[i]), NEW S \in SUBSET Url,
                      web.starts[i] \in S, Closed(S, failed[i])
               PROVE  url \in S
    BY <1>6 DEF Reachable
  <2> QED BY <1>4 DEF OnlyReachable, Closed
<1>8. Range(seen[i]) = reachable \/ Len(seen[i]) = limit
  <2> SUFFICES ASSUME Len(seen[i]) # limit
               PROVE  reachable \subseteq Range(seen[i])
    BY <1>7
  <2>1. Closed(Range(seen[i]), failed[i])
    BY <1>4, <1>5 DEF AllLinks, Closed
  <2> QED BY <2>1, <1>6 DEF Reachable
<1>9. \A url \in Range(seen[i]) \ failed[i] :
        /\ Found(url) \subseteq Classified \cup Unknown
        /\ Found(url) \cap MissingClassified = {}
  BY <1>4 DEF AllNames, Classified, Unknown, MissingClassified
<1> QED BY <1>7, <1>8, <1>9

(* A discovery keeps its types: among them, it asks for no URL twice and   *)
(* for no more than the limit from a start URL.                            *)
THEOREM DiscoverTypeCorrect == DiscoverSpec => []DiscoverTypeOK
<1>1. DiscoverInv => DiscoverTypeOK
  BY DEF DiscoverInv
<1> QED
  BY <1>1, DiscoverInitially, DiscoverStepKeeps, PTL DEF DiscoverSpec

(* What a discovery reports is about all that its start URLs lead to, or   *)
(* as much of it as the limit allows, whatever pages link to what, however *)
(* they are redirected, and whichever of them fail.                        *)
THEOREM ReportsAreComplete == DiscoverSpec => []ReportIsComplete
<1>1. DiscoverInit => EndIsReached
  BY WebAssumption DEF DiscoverInit, EndIsReached
<1> QED
  BY <1>1, DiscoverInitially, DiscoverStepKeeps, EndStays, CompleteAtEnd, PTL
     DEF DiscoverSpec

-----------------------------------------------------------------------------
(***************************************************************************)
(* The search for a meeting time.                                          *)
(***************************************************************************)

(* Of finitely many intervals one starts last.                             *)
LEMMA LatestFacts ==
  ASSUME NEW S \in SUBSET Event, IsFiniteSet(S), S # {}
  PROVE  Latest(S) \in S /\ \A j \in S : j.from <= Latest(S).from
<1> DEFINE After(i) == { j \in S : i.from < j.from }
<1>1. \A i \in S : i.from \in Nat
  BY DEF Event
<1>2. \A i \in S : IsFiniteSet(After(i)) /\ Cardinality(After(i)) \in Nat
  BY FS_Subset, FS_CardinalityType
<1>3. PICK m \in { Cardinality(After(i)) : i \in S } :
        \A k \in { Cardinality(After(i)) : i \in S } : m <= k
  <2> DEFINE counts == { Cardinality(After(i)) : i \in S }
  <2>1. counts \in SUBSET Nat /\ counts # {}
    BY <1>2
  <2> HIDE DEF counts
  <2>2. \E m \in counts : \A k \in counts : m <= k
    BY <2>1, LeastNatural
  <2> QED
    BY <2>2 DEF counts
<1>4. PICK i \in S : Cardinality(After(i)) = m
  BY <1>3
<1>5. ASSUME NEW j \in S, ~ (j.from <= i.from)
      PROVE  FALSE
  <2>1. After(j) \subseteq After(i) /\ j \in After(i) /\ j \notin After(j)
    BY <1>1, <1>5
  <2>2. /\ Cardinality(After(j)) <= Cardinality(After(i))
        /\ Cardinality(After(j)) # Cardinality(After(i))
    BY <1>2, <2>1, FS_Subset
  <2>3. Cardinality(After(i)) <= Cardinality(After(j))
    BY <1>3, <1>4
  <2> QED
    BY <1>2, <2>2, <2>3
<1> HIDE DEF After
<1> QED
  BY <1>5 DEF Latest

(* Merging one interval after the other is well defined.                   *)
LEMMA MergeIsDefined ==
  ASSUME NEW S \in SUBSET Event, IsFiniteSet(S)
  PROVE  \E f : f = [T \in SUBSET S |->
                       IF T = {} THEN << >>
                       ELSE MergeInto(f[T \ {Latest(T)}], Latest(T))]
<1> DEFINE Small(n) == { T \in SUBSET S : Cardinality(T) <= n }
           IsMerge(f, n) ==
             f = [T \in Small(n) |->
                    IF T = {} THEN << >>
                    ELSE MergeInto(f[T \ {Latest(T)}], Latest(T))]
           Bad == { n \in Nat : ~ \E f : IsMerge(f, n) }
<1>1. \A T \in SUBSET S : /\ IsFiniteSet(T) /\ Cardinality(T) \in Nat
                          /\ Cardinality(T) <= Cardinality(S)
                          /\ Cardinality(T) = 0 <=> T = {}
  BY FS_Subset, FS_CardinalityType, FS_EmptySet
<1>2. \A T \in SUBSET S : T # {} => /\ T \ {Latest(T)} \in SUBSET S
                                    /\ Cardinality(T \ {Latest(T)}) = Cardinality(T) - 1
  <2> SUFFICES ASSUME NEW T \in SUBSET S, T # {}
               PROVE  Cardinality(T \ {Latest(T)}) = Cardinality(T) - 1
    OBVIOUS
  <2>1. Latest(T) \in T
    BY <1>1, LatestFacts
  <2> QED
    BY <1>1, <2>1, FS_RemoveElement
<1>3. Bad = {}
  <2> SUFFICES ASSUME Bad # {} PROVE FALSE
    OBVIOUS
  <2>1. PICK n \in Bad : \A k \in Bad : n <= k
    <3> HIDE DEF Bad
    <3>1. Bad \in SUBSET Nat
      BY DEF Bad
    <3> QED
      BY <3>1, LeastNatural
  <2>2. n \in Nat /\ ~ \E f : IsMerge(f, n)
    OBVIOUS
  <2>3. CASE n = 0
    <3>1. \A T \in Small(0) : T = {}
      BY <1>1
    <3> DEFINE f == [T \in Small(0) |-> << >>]
    <3>2. IsMerge(f, 0)
      BY <3>1
    <3> QED
      BY <2>2, <2>3, <3>2
  <2>4. CASE n # 0
    <3>1. n - 1 \in Nat /\ n - 1 \notin Bad
      <4>1. n - 1 \in Nat /\ ~ (n <= n - 1)
        BY <2>2, <2>4
      <4> QED
        BY <2>1, <4>1
    <3>2. PICK g : IsMerge(g, n - 1)
      BY <3>1
    <3> DEFINE f == [T \in Small(n) |->
                       IF T = {} THEN << >>
                       ELSE MergeInto(g[T \ {Latest(T)}], Latest(T))]
    <3>3. \A T \in Small(n) : T # {} => T \ {Latest(T)} \in Small(n - 1)
      BY <1>1, <1>2, <2>2
    <3>4. \A T \in Small(n - 1) : T \in Small(n) /\ f[T] = g[T]
      <4>1. \A T \in Small(n - 1) : T \in Small(n)
        BY <1>1, <2>2
      <4>2. \A T \in Small(n - 1) :
               g[T] = IF T = {} THEN << >>
                      ELSE MergeInto(g[T \ {Latest(T)}], Latest(T))
        <5> HIDE DEF Small
        <5> QED
          BY <3>2
      <4> HIDE DEF Small
      <4> QED
        BY <4>1, <4>2
    <3>5. \A T \in Small(n) : T # {} => f[T \ {Latest(T)}] = g[T \ {Latest(T)}]
      BY <3>3, <3>4
    <3>6. IsMerge(f, n)
      <4> HIDE DEF Small
      <4> QED
        BY <3>5
    <3> QED
      BY <2>2, <3>6
  <2> QED
    BY <2>3, <2>4
<1>4. Cardinality(S) \in Nat /\ Small(Cardinality(S)) = SUBSET S
  BY <1>1
<1>5. PICK f : IsMerge(f, Cardinality(S))
  BY <1>3, <1>4
<1> HIDE DEF Small
<1>6. f = [T \in SUBSET S |-> IF T = {} THEN << >>
                              ELSE MergeInto(f[T \ {Latest(T)}], Latest(T))]
  BY <1>4, <1>5, Zenon
<1> QED
  BY <1>6

(* The moments at which somebody is in one of the intervals of a set.      *)
Meets(a, b, T) == \E i \in T : a < i.to /\ b > i.from

(* What has been merged so far: it covers what was merged, and begins its  *)
(* last interval where one of those began.                                 *)
Covers(merged, T) ==
  /\ merged \in Seq(Event) /\ (T # {} => merged # << >>)
  /\ \A a, b \in Nat : a < b => (OverlapsAny(a, b, merged) <=> Meets(a, b, T))
  /\ merged # << >> => \E i \in T : Last(merged).from = i.from

LEMMA ExtendFacts ==
  ASSUME NEW last \in Event, NEW i \in Event, i.from < i.to,
         last.from <= i.from, i.from <= last.to
  PROVE  /\ Extend(last, i) \in Event /\ Extend(last, i).from = last.from
         /\ \A a, b \in Nat : a < b =>
              (a < Extend(last, i).to /\ b > Extend(last, i).from <=>
                 (a < last.to /\ b > last.from) \/ (a < i.to /\ b > i.from))
<1>1. /\ last.from \in Nat /\ last.to \in Nat /\ i.from \in Nat /\ i.to \in Nat
      /\ Extend(last, i) \in Event
      /\ Extend(last, i).from = last.from
      /\ Extend(last, i).to = IF i.to > last.to THEN i.to ELSE last.to
  BY DEF Event, Extend
<1> QED
  BY <1>1

(* Overlapping a sequence, element by element.                             *)
LEMMA OverlapAppended ==
  ASSUME NEW s \in Seq(Event), NEW i \in Event, NEW a, NEW b
  PROVE  OverlapsAny(a, b, Append(s, i)) <=>
           OverlapsAny(a, b, s) \/ (a < i.to /\ b > i.from)
<1>1. /\ DOMAIN Append(s, i) = 1..(Len(s) + 1) /\ DOMAIN s = 1..Len(s)
      /\ \A k \in 1..Len(s) : Append(s, i)[k] = s[k]
      /\ Append(s, i)[Len(s) + 1] = i
      /\ 1..(Len(s) + 1) = 1..Len(s) \cup {Len(s) + 1}
  OBVIOUS
<1> QED
  BY <1>1 DEF OverlapsAny

LEMMA LastOfSeq ==
  ASSUME NEW s \in Seq(Event), s # << >>
  PROVE  /\ Last(s) \in Event /\ Front(s) \in Seq(Event)
         /\ s = Append(Front(s), Last(s))
BY DEF Last, Front

LEMMA LastAppended ==
  ASSUME NEW s \in Seq(Event), NEW i \in Event
  PROVE  /\ Append(s, i) \in Seq(Event) /\ Append(s, i) # << >>
         /\ Last(Append(s, i)) = i
BY DEF Last

LEMMA MergeIntoCovers ==
  ASSUME NEW T \in SUBSET Event, NEW i \in Event, NEW merged, Covers(merged, T),
         i.from < i.to, \A j \in T : j.from <= i.from
  PROVE  Covers(MergeInto(merged, i), T \cup {i})
<1>1. merged \in Seq(Event)
  BY DEF Covers
<1>2. \A a, b : Meets(a, b, T \cup {i}) <=> Meets(a, b, T) \/ (a < i.to /\ b > i.from)
  BY DEF Meets
<1>3. CASE merged = << >> \/ i.from > Last(merged).to
  <2>1. MergeInto(merged, i) = Append(merged, i)
    BY <1>3 DEF MergeInto
  <2>2. /\ Append(merged, i) \in Seq(Event) /\ Append(merged, i) # << >>
        /\ Last(Append(merged, i)) = i
    BY <1>1, LastAppended
  <2>3. \A a, b \in Nat : a < b =>
          (OverlapsAny(a, b, Append(merged, i)) <=> Meets(a, b, T \cup {i}))
    BY <1>1, <1>2, OverlapAppended DEF Covers
  <2> QED
    BY <2>1, <2>2, <2>3 DEF Covers
<1>4. CASE merged # << >> /\ ~ (i.from > Last(merged).to)
  <2> DEFINE last == Last(merged)
             front == Front(merged)
  <2>1. last \in Event /\ front \in Seq(Event) /\ merged = Append(front, last)
    BY <1>1, <1>4, LastOfSeq
  <2>2. PICK j \in T : last.from = j.from
    BY <1>4 DEF Covers
  <2>3. last.from <= i.from /\ i.from <= last.to
    <3>1. last.to \in Nat /\ i.from \in Nat
      BY <2>1 DEF Event
    <3> QED
      BY <1>4, <2>2, <3>1
  <2>4. MergeInto(merged, i) = Append(front, Extend(last, i))
    BY <1>4 DEF MergeInto
  <2> HIDE DEF last, front
  <2>5. /\ Extend(last, i) \in Event /\ Extend(last, i).from = last.from
        /\ \A a, b \in Nat : a < b =>
             (a < Extend(last, i).to /\ b > Extend(last, i).from <=>
                (a < last.to /\ b > last.from) \/ (a < i.to /\ b > i.from))
    BY <2>1, <2>3, ExtendFacts
  <2>6. /\ Append(front, Extend(last, i)) \in Seq(Event)
        /\ Append(front, Extend(last, i)) # << >>
        /\ Last(Append(front, Extend(last, i))) = Extend(last, i)
    BY <2>1, <2>5, LastAppended
  <2>7. ASSUME NEW a \in Nat, NEW b \in Nat, a < b
        PROVE  OverlapsAny(a, b, Append(front, Extend(last, i)))
                 <=> Meets(a, b, T \cup {i})
    <3>1. OverlapsAny(a, b, Append(front, Extend(last, i))) <=>
            OverlapsAny(a, b, front) \/
              (a < Extend(last, i).to /\ b > Extend(last, i).from)
      BY <2>1, <2>5, OverlapAppended
    <3>2. OverlapsAny(a, b, merged) <=>
            OverlapsAny(a, b, front) \/ (a < last.to /\ b > last.from)
      BY <2>1, OverlapAppended
    <3>3. OverlapsAny(a, b, merged) <=> Meets(a, b, T)
      BY <2>7 DEF Covers
    <3> QED
      BY <1>2, <2>5, <2>7, <3>1, <3>2, <3>3
  <2> QED
    BY <2>2, <2>4, <2>5, <2>6, <2>7 DEF Covers
<1> QED
  BY <1>3, <1>4

(* Merging loses no moment at which one of the intervals blocks, and adds  *)
(* none.                                                                   *)
LEMMA MergeFacts ==
  ASSUME NEW S \in SUBSET Event, IsFiniteSet(S), \A i \in S : i.from < i.to
  PROVE  Covers(MergeIntervals(S), S)
<1> DEFINE merge == CHOOSE f : f = [T \in SUBSET S |->
                       IF T = {} THEN << >>
                       ELSE MergeInto(f[T \ {Latest(T)}], Latest(T))]
           Bad == { n \in Nat : \E T \in SUBSET S : /\ Cardinality(T) = n
                                                    /\ ~ Covers(merge[T], T) }
<1>1. MergeIntervals(S) = merge[S]
  BY DEF MergeIntervals
<1>2. merge = [T \in SUBSET S |-> IF T = {} THEN << >>
                                  ELSE MergeInto(merge[T \ {Latest(T)}], Latest(T))]
  BY MergeIsDefined, Zenon
<1> HIDE DEF merge
<1>3. \A T \in SUBSET S : IsFiniteSet(T) /\ Cardinality(T) \in Nat
  BY FS_Subset, FS_CardinalityType
<1>4. Bad = {}
  <2> SUFFICES ASSUME Bad # {} PROVE FALSE
    OBVIOUS
  <2>1. PICK n \in Bad : \A k \in Bad : n <= k
    <3> HIDE DEF Bad
    <3>1. Bad \in SUBSET Nat
      BY DEF Bad
    <3> QED
      BY <3>1, LeastNatural
  <2>2. PICK T \in SUBSET S : Cardinality(T) = n /\ ~ Covers(merge[T], T)
    BY <2>1
  <2>3. CASE T = {}
    <3>1. merge[T] = << >>
      BY <1>2, <2>3
    <3>2. Covers(<< >>, {})
      BY DEF Covers, OverlapsAny, Meets
    <3> QED
      BY <2>2, <2>3, <3>1, <3>2
  <2>4. CASE T # {}
    <3> DEFINE i == Latest(T)
               R == T \ {i}
    <3>1. i \in T /\ \A j \in T : j.from <= i.from
      BY <1>3, <2>4, LatestFacts
    <3>2. R \in SUBSET S /\ Cardinality(R) = n - 1 /\ n \in Nat /\ n - 1 \in Nat
      <4>1. Cardinality(R) = Cardinality(T) - 1 /\ Cardinality(R) \in Nat
        BY <1>3, <3>1, FS_RemoveElement
      <4> QED
        BY <1>3, <2>2, <4>1
    <3>3. merge[T] = MergeInto(merge[R], i)
      BY <1>2, <2>4
    <3>4. T = R \cup {i}
      BY <3>1
    <3> HIDE DEF i, R
    <3>5. n - 1 \notin Bad
      <4>1. ~ (n <= n - 1)
        BY <3>2
      <4> QED
        BY <2>1, <4>1
    <3>6. Covers(merge[R], R)
      BY <3>2, <3>5
    <3>7. Covers(MergeInto(merge[R], i), R \cup {i})
      BY <3>1, <3>2, <3>4, <3>6, MergeIntoCovers
    <3> QED
      BY <2>2, <3>3, <3>4, <3>7
  <2> QED
    BY <2>3, <2>4
<1> QED
  BY <1>1, <1>3, <1>4

(* Division with remainder.                                                *)
LEMMA Quotients ==
  ASSUME NEW a \in Nat, NEW g \in Nat \ {0}
  PROVE  /\ a \div g \in Nat /\ a % g \in Nat /\ a = g * (a \div g) + (a % g)
         /\ a % g < g
BY SMT

LEMMA Multiples ==
  ASSUME NEW k \in Nat, NEW g \in Nat \ {0}
  PROVE  (k * g) % g = 0 /\ (k * g) \div g = k
BY SMT

LEMMA QuotientsGrow ==
  ASSUME NEW a \in Nat, NEW b \in Nat, a <= b, NEW g \in Nat \ {0}
  PROVE  a \div g <= b \div g
BY SMT

LEMMA ProductsGrow ==
  ASSUME NEW i \in Nat, NEW j \in Nat, NEW g \in Nat \ {0}
  PROVE  i < j <=> i * g < j * g
BY SMT

Fits(r) == { s \in r.from..r.to : /\ (s - r.from) % Grid = 0
                                  /\ s + DurationOf(r) <= r.to }

LEMMA RequestNumbers ==
  ASSUME NEW r \in Requests
  PROVE  /\ r.from \in Nat /\ r.to \in Nat
         /\ DurationOf(r) \in Nat /\ DurationOf(r) > 0
         /\ Grid \in Nat \ {0} /\ MaxSuggestions \in Nat \ {0}
         /\ r.attendees \in Seq(Person) /\ r.tentativeIsFree \in BOOLEAN
BY FindAssumption DEF DurationOf, Request

Slot(r, n) == r.from + (n - 1) * Grid

(* The slots are the times that fit, in their order.                       *)
LEMMA SlotFacts ==
  ASSUME NEW r \in Requests
  PROVE  /\ Slots(r) \in Seq(Nat) /\ Range(Slots(r)) = Fits(r)
         /\ \A i, j \in DOMAIN Slots(r) : i < j => Slots(r)[i] < Slots(r)[j]
<1> DEFINE d == DurationOf(r)
           from == r.from
           to == r.to
<1>1. from \in Nat /\ to \in Nat /\ d \in Nat /\ d > 0 /\ Grid \in Nat \ {0}
  BY RequestNumbers
<1>2. CASE from + d > to
  <2>1. Slots(r) = << >>
    BY <1>2 DEF Slots
  <2>2. \A s \in from..to : ~ (s + d <= to)
    BY <1>1, <1>2
  <2>3. Fits(r) = {}
    BY <2>2 DEF Fits
  <2> QED
    BY <2>1, <2>3 DEF Range
<1>3. CASE ~ (from + d > to)
  <2> DEFINE room == to - d - from
             last == room \div Grid
  <2>1. room \in Nat
    BY <1>1, <1>3
  <2>2. Slots(r) = [n \in 1..(last + 1) |-> Slot(r, n)]
    BY <1>3 DEF Slots, Slot
  <2> HIDE DEF room
  <2>3. last \in Nat
    BY <1>1, <2>1, Quotients
  <2> HIDE DEF d, from, to
  <2>4. ASSUME NEW n \in 1..(last + 1)
        PROVE  Slot(r, n) \in from..to /\ (Slot(r, n) - from) % Grid = 0 /\ Slot(r, n) + d <= to
    <3> DEFINE k == n - 1
    <3>1. k \in Nat /\ k <= last
      BY <2>3
    <3>2. k * Grid \in Nat /\ (k * Grid) % Grid = 0
      BY <1>1, <3>1, Multiples
    <3>3. k * Grid <= room
      <4>1. room = Grid * last + (room % Grid) /\ room % Grid \in Nat
        BY <1>1, <2>1, Quotients
      <4>2. k * Grid <= last * Grid
        <5>1. k < last \/ k = last
          BY <2>3, <3>1
        <5>2. k < last => k * Grid < last * Grid
          BY <1>1, <2>3, <3>1, ProductsGrow
        <5> HIDE DEF last, k
        <5> QED
          BY <1>1, <2>3, <3>1, <5>1, <5>2
      <4> HIDE DEF last, k
      <4>3. last * Grid = Grid * last /\ last * Grid \in Nat
        BY <1>1, <2>3
      <4> QED
        BY <2>1, <3>2, <4>1, <4>2, <4>3
    <3> DEFINE m == k * Grid
    <3>4. m \in Nat /\ m <= to - d - from /\ m % Grid = 0
      BY <3>2, <3>3 DEF room, d, from, to
    <3> HIDE DEF m
    <3>5. Slot(r, n) = from + m
      BY DEF m, Slot, from
    <3>6. Slot(r, n) \in from..to /\ Slot(r, n) - from = m /\ Slot(r, n) + d <= to
      BY <1>1, <3>4, <3>5
    <3> QED
      BY <3>4, <3>6
  <2>5. ASSUME NEW s \in from..to, (s - from) % Grid = 0, s + d <= to
        PROVE  \E n \in 1..(last + 1) : s = Slot(r, n)
    <3> DEFINE a == s - from
               k == a \div Grid
    <3>1. a \in Nat /\ a <= room /\ s = from + a
      BY <1>1, <2>5 DEF room, d, from, to
    <3>2. k \in Nat /\ a = Grid * k + 0
      BY <1>1, <2>5, <3>1, Quotients
    <3>3. k <= last
      BY <1>1, <2>1, <3>1, QuotientsGrow
    <3> HIDE DEF a, k, last
    <3>4. k + 1 \in 1..(last + 1) /\ (k + 1) - 1 = k
      BY <2>3, <3>2, <3>3
    <3>5. s = from + ((k + 1) - 1) * Grid
      BY <1>1, <3>1, <3>2, <3>4
    <3> QED
      BY <3>4, <3>5 DEF Slot, from
  <2>6. \A i, j \in 1..(last + 1) : i < j => Slot(r, i) < Slot(r, j)
    <3> SUFFICES ASSUME NEW i \in 1..(last + 1), NEW j \in 1..(last + 1), i < j
                 PROVE  Slot(r, i) < Slot(r, j)
      OBVIOUS
    <3>1. i - 1 \in Nat /\ j - 1 \in Nat /\ i - 1 < j - 1
      BY <2>3
    <3>2. (i - 1) * Grid < (j - 1) * Grid
      BY <1>1, <3>1, ProductsGrow
    <3>3. (i - 1) * Grid \in Nat /\ (j - 1) * Grid \in Nat
      BY <1>1, <3>1
    <3> QED
      BY <1>1, <3>2, <3>3 DEF Slot, from
  <2> HIDE DEF last
  <2>7. Slots(r) \in Seq(Nat)
    BY <1>1, <2>2, <2>3, <2>4
  <2>8. DOMAIN Slots(r) = 1..(last + 1)
        /\ \A n \in 1..(last + 1) : Slots(r)[n] = Slot(r, n)
    BY <2>2
  <2>9. \A s : s \in Range(Slots(r)) <=> s \in Fits(r)
    <3>1. \A s \in Range(Slots(r)) : s \in from..to /\ (s - from) % Grid = 0 /\ s + d <= to
      <4> SUFFICES ASSUME NEW n \in 1..(last + 1)
                   PROVE  /\ Slots(r)[n] \in from..to
                          /\ (Slots(r)[n] - from) % Grid = 0 /\ Slots(r)[n] + d <= to
        BY <2>8 DEF Range
      <4> QED
        BY <2>4, <2>8
    <3>2. \A s \in from..to : (s - from) % Grid = 0 /\ s + d <= to => s \in Range(Slots(r))
      BY <2>5, <2>8 DEF Range
    <3> QED
      BY <3>1, <3>2 DEF Fits, d, from, to
  <2> QED
    BY <2>6, <2>7, <2>8, <2>9
<1> QED
  BY <1>2, <1>3

(* The first of the slots that nothing blocks.                             *)
FirstOf(first, free) ==
  /\ first \in Seq(Nat) /\ Len(first) <= MaxSuggestions
  /\ Range(first) \subseteq free
  /\ \A s \in free : \/ s \in Range(first)
                     \/ /\ Len(first) = MaxSuggestions
                        /\ \A t \in Range(first) : t < s
  /\ \A n \in 2..Len(first) : first[n - 1] < first[n]

LEMMA FirstSelected ==
  ASSUME NEW s \in Seq(Nat), NEW max \in Nat,
         \A n, m \in DOMAIN s : n < m => s[n] < s[m], max = MaxSuggestions
  PROVE  FirstOf(SubSeq(s, 1, IF Len(s) < max THEN Len(s) ELSE max), Range(s))
<1> DEFINE count == IF Len(s) < max THEN Len(s) ELSE max
           first == SubSeq(s, 1, count)
<1>1. Len(s) \in Nat /\ DOMAIN s = 1..Len(s)
  OBVIOUS
<1>2. count \in 0..Len(s) /\ count <= max /\ (count < Len(s) => count = max)
  <2>1. \A l \in Nat : LET c == IF l < max THEN l ELSE max
                       IN  c \in 0..l /\ c <= max /\ (c < l => c = max)
    OBVIOUS
  <2> QED
    BY <1>1, <2>1
<1> HIDE DEF count
<1>3. /\ first \in Seq(Nat) /\ Len(first) = count /\ DOMAIN first = 1..count
      /\ \A n \in 1..count : n \in 1..Len(s) /\ first[n] = s[n]
  BY <1>1, <1>2, SubSeqProperties
<1> HIDE DEF first
<1>4. Range(first) \subseteq Range(s)
  BY <1>1, <1>3 DEF Range
<1>5. ASSUME NEW x \in Range(s)
      PROVE  \/ x \in Range(first)
             \/ Len(first) = max /\ \A t \in Range(first) : t < x
  <2>1. PICK n \in 1..Len(s) : x = s[n]
    BY <1>1 DEF Range
  <2>2. CASE n \in 1..count
    BY <1>3, <2>1, <2>2 DEF Range
  <2>3. CASE n \notin 1..count
    <3>1. count < Len(s) /\ \A m \in 1..count : m < n
      BY <1>1, <1>2, <2>3
    <3>2. Len(first) = max
      BY <1>2, <1>3, <3>1
    <3>3. \A t \in Range(first) : \E m \in 1..count : t = s[m]
      BY <1>3 DEF Range
    <3>4. \A m \in 1..count : s[m] < s[n]
      BY <1>1, <1>3, <3>1
    <3> QED
      BY <2>1, <3>2, <3>3, <3>4
  <2> QED
    BY <2>2, <2>3
<1>6. ASSUME NEW n \in 2..Len(first)
      PROVE  first[n - 1] < first[n]
  <2>1. n - 1 \in 1..count /\ n \in 1..count /\ n - 1 < n
    BY <1>1, <1>2, <1>3
  <2> QED
    BY <1>1, <1>3, <2>1
<1> QED
  BY <1>2, <1>3, <1>4, <1>5, <1>6 DEF FirstOf, first, count

LEMMA SuggestionFacts ==
  ASSUME NEW r \in Requests, NEW blocking
  PROVE  FirstOf(FindSuggestions(r, blocking),
                 { s \in Fits(r) : ~ OverlapsAny(s, s + DurationOf(r), blocking) })
<1> DEFINE slots == Slots(r)
           free == { n \in DOMAIN slots :
                       ~ OverlapsAny(slots[n], slots[n] + DurationOf(r), blocking) }
           kept == Select(slots, free)
<1>1. /\ slots \in Seq(Nat) /\ Range(slots) = Fits(r)
      /\ \A i, j \in DOMAIN slots : i < j => slots[i] < slots[j]
  BY SlotFacts
<1>2. free \subseteq DOMAIN slots
  OBVIOUS
<1>3. FindSuggestions(r, blocking) =
        SubSeq(kept, 1, IF Cardinality(free) < MaxSuggestions THEN Cardinality(free)
                                                              ELSE MaxSuggestions)
  BY DEF FindSuggestions
<1>4. { slots[n] : n \in free } =
        { s \in Fits(r) : ~ OverlapsAny(s, s + DurationOf(r), blocking) }
  BY <1>1 DEF Range
<1> HIDE DEF slots, free
<1>5. /\ kept \in Seq(Nat) /\ Len(kept) = Cardinality(free)
      /\ Cardinality(free) \in Nat /\ Range(kept) = { slots[n] : n \in free }
  BY <1>1, <1>2, SelectFacts
<1>6. \A n, m \in DOMAIN kept : n < m => kept[n] < kept[m]
  <2>1. DOMAIN kept = 1..Cardinality(free)
    BY <1>5
  <2> QED
    BY <1>1, <1>2, <2>1, SelectKeepsOrder
<1>7. MaxSuggestions \in Nat
  BY RequestNumbers
<1> HIDE DEF kept
<1> QED
  BY <1>3, <1>4, <1>5, <1>6, <1>7, FirstSelected

LEMMA TakeKeepsTypes ==
  ASSUME NEW who \in Person \cup {Organizer}, NEW events \in Answers,
         intervals \subseteq Event, Take(who, events),
         held \subseteq (Person \cup {Organizer}) \X Answers
  PROVE  /\ intervals' \subseteq Event
         /\ held' \subseteq (Person \cup {Organizer}) \X Answers
<1>1. events \subseteq Event
  BY FindAssumption
<1>2. \A e \in events : [e EXCEPT !.status = StatusOf(who, @)] \in Event
  BY <1>1 DEF Event, Status, StatusOf, OwnStatus, AttendeeStatus
<1> QED
  BY <1>2 DEF Take

(* A search begins with nobody resolved or asked.                          *)
FindInv ==
  /\ FindTypeOK
  /\ findPc = "idle" => resolved = 0 /\ asked = 0

LEMMA FindInitially == FindInit => FindInv
BY FindAssumption, SMT DEF FindInit, FindInv, FindTypeOK

LEMMA FindStepKeeps == FindInv /\ [FindNext]_findVars => FindInv'
<1> SUFFICES ASSUME FindInv, [FindNext]_findVars PROVE FindInv'
  OBVIOUS
<1> USE FindAssumption DEF FindInv, FindTypeOK
<1>1. CASE FindTime
  <2>1. request' \in Requests /\ request' \in Request
    BY <1>1 DEF FindTime
  <2>2. /\ request'.attendees \in Seq(Person) /\ request'.names \in Seq(Name)
    BY <2>1 DEF Request
  <2> QED
    BY <1>1, <2>1, <2>2, SMT DEF FindTime
<1>2. CASE ResolveName
  <2>1. request.names \in Seq(Name) /\ request.attendees \in Seq(Person)
    BY <1>2 DEF ResolveName, Request
  <2>2. Len(request.names) \in Nat /\ Len(request.attendees) \in Nat
    BY <2>1
  <2>3. PICK p \in Person : attendees' = Append(attendees, p)
    BY <1>2 DEF ResolveName
  <2>4. /\ attendees \in Seq(Person) /\ asked \in 0..Len(attendees)
        /\ Len(attendees) = Len(request.attendees) + resolved
    BY <1>2 DEF ResolveName
  <2>5. attendees' \in Seq(Person) /\ Len(attendees') = Len(attendees) + 1
    BY <2>3, <2>4
  <2>6. Len(attendees) \in Nat /\ resolved \in Nat
    BY <1>2, <2>2, <2>4 DEF ResolveName
  <2>7. resolved < Len(request.names) /\ resolved' = resolved + 1
    BY <1>2 DEF ResolveName
  <2> HIDE FindAssumption DEF FindInv, FindTypeOK
  <2>8. /\ resolved' \in 0..Len(request.names) /\ asked \in 0..Len(attendees')
        /\ Len(attendees') = Len(request.attendees) + resolved'
    <3> DEFINE all == Len(request.names)
               known == Len(request.attendees)
               now == Len(attendees)
    <3>1. /\ all \in Nat /\ known \in Nat /\ now \in Nat /\ resolved \in Nat
          /\ asked \in 0..now /\ now = known + resolved
          /\ resolved < all /\ resolved' = resolved + 1
      BY <2>2, <2>4, <2>6, <2>7
    <3>2. Len(attendees') = now + 1
      BY <2>5
    <3> HIDE DEF all, known, now
    <3>3. /\ resolved' \in 0..all /\ asked \in 0..(now + 1)
          /\ now + 1 = known + resolved'
      BY <3>1
    <3> QED
      BY <3>2, <3>3 DEF all, known, now
  <2> USE DEF FindInv, FindTypeOK
  <2> QED
    BY <1>2, <2>5, <2>8 DEF ResolveName
<1>3. CASE NamesAreResolved \/ TooManyPages \/ FindFails
  <2>1. /\ findPc' \in {"organizer", "failed"} /\ findPc # "idle"
        /\ UNCHANGED << request, attendees, resolved, pages, asked, intervals, held,
                        suggestions >>
    BY <1>3 DEF NamesAreResolved, TooManyPages, FindFails
  <2> QED
    BY <2>1
<1>4. CASE ReadOwnPage
  <2>1. /\ intervals' \subseteq Event
        /\ held' \subseteq (Person \cup {Organizer}) \X Answers
    <3>1. PICK events \in Answers : Take(Organizer, events)
      BY <1>4 DEF ReadOwnPage
    <3> QED
      BY <3>1, TakeKeepsTypes
  <2>2. findPc' \in {findPc, "attendees"} /\ findPc = "organizer"
    BY <1>4 DEF ReadOwnPage
  <2>3. pages' \in 0..MaxPages
    BY <1>4 DEF ReadOwnPage
  <2> QED
    BY <1>4, <2>1, <2>2, <2>3, SMT DEF ReadOwnPage
<1>5. CASE ReadAttendee
  <2>1. asked + 1 \in 1..Len(attendees) /\ attendees \in Seq(Person)
    BY <1>5, SMT DEF ReadAttendee
  <2>2. attendees[asked + 1] \in Person
    BY <2>1, ElementOfSeq
  <2>3. /\ intervals' \subseteq Event
        /\ held' \subseteq (Person \cup {Organizer}) \X Answers
    BY <1>5, <2>2, TakeKeepsTypes DEF ReadAttendee
  <2> QED
    BY <1>5, <2>1, <2>3, SMT DEF ReadAttendee
<1>6. CASE Suggest
  <2>1. PICK blocking : suggestions' = FindSuggestions(request, blocking)
    BY <1>6 DEF Suggest
  <2>2. request \in Requests
    BY <1>6 DEF Suggest
  <2>3. suggestions' \in Seq(Nat) /\ Len(suggestions') <= MaxSuggestions
    BY <2>1, <2>2, SuggestionFacts DEF FirstOf
  <2> QED
    BY <1>6, <2>3 DEF Suggest
<1>7. CASE UNCHANGED findVars
  BY <1>7 DEF findVars
<1> QED
  BY <1>1, <1>2, <1>3, <1>4, <1>5, <1>6, <1>7 DEF FindNext, FindStep

(* The search keeps its types: among them, nobody is asked twice, and what *)
(* is suggested are times, at most as many as were asked for.              *)
THEOREM FindTypeCorrect == FindSpec => []FindTypeOK
<1>1. FindInv => FindTypeOK
  BY DEF FindInv
<1> QED
  BY <1>1, FindInitially, FindStepKeeps, PTL DEF FindSpec

(* An event of somebody's calendar, as an interval to plan with.           *)
Taken(who, e) == [e EXCEPT !.status = StatusOf(who, @)]

(* Whether a meeting that starts then clashes with a blocking interval, or *)
(* with somebody who is prevented from coming, is the same.                *)
LEMMA PreventedIsBlocked ==
  ASSUME request \in Requests, NEW who \in Person \cup {Organizer},
         NEW event \in Event, NEW start \in Nat
  PROVE  LET i == Taken(who, event)
         IN  Prevents(who, event, start) <=>
               /\ i.to > i.from /\ Blocks(i.status, request.tentativeIsFree)
               /\ start < i.to /\ start + DurationOf(request) > i.from
<1> DEFINE i == Taken(who, event)
           d == DurationOf(request)
<1>1. /\ event.from \in Nat /\ event.to \in Nat /\ d \in Nat /\ d > 0
      /\ i.from = event.from /\ i.to = event.to
      /\ i.status = StatusOf(who, event.status) /\ event.status \in Status
  BY RequestNumbers DEF Event, Taken
<1> HIDE DEF d
<1>2. ASSUME event.from < event.to
      PROVE  (\E t \in start..(start + d - 1) : event.from <= t /\ t < event.to)
               <=> start < event.to /\ start + d > event.from
  <2>1. ASSUME NEW t \in start..(start + d - 1), event.from <= t, t < event.to
        PROVE  start < event.to /\ start + d > event.from
    BY <1>1, <2>1
  <2>2. ASSUME start < event.to, start + d > event.from
        PROVE  \E t \in start..(start + d - 1) : event.from <= t /\ t < event.to
    <3> DEFINE t == IF start < event.from THEN event.from ELSE start
    <3>1. t \in start..(start + d - 1) /\ event.from <= t /\ t < event.to
      BY <1>1, <1>2, <2>2
    <3> QED
      BY <3>1
  <2> QED
    BY <2>1, <2>2
<1>3. Blocks(i.status, request.tentativeIsFree) <=>
        \/ event.status = "busy"
        \/ event.status = "tentative" /\ ~ request.tentativeIsFree
        \/ event.status = "blank" /\ who = Organizer
  BY <1>1 DEF Blocks, StatusOf, OwnStatus, AttendeeStatus, Status
<1>4. i.to > i.from <=> event.from < event.to
  BY <1>1
<1> QED
  BY <1>1, <1>2, <1>3, <1>4 DEF Prevents, d

(* The intervals are what was read of the calendars, and whose calendars   *)
(* those are is known from how far the search has come.                    *)
IntervalsAreHeld ==
  /\ IsFiniteSet(intervals)
  /\ \A i : i \in intervals <=>
       \E h \in held : \E e \in h[2] : i = Taken(h[1], e)

CalendarsAreRead ==
  LET read == { attendees[k] : k \in 1..asked }
      owners == { h[1] : h \in held }
  IN  /\ findPc \in {"idle", "resolving", "organizer"} =>
           asked = 0 /\ owners \subseteq {Organizer}
      /\ findPc \in {"attendees", "ok"} => owners = read \cup {Organizer}

OkIsTrue == findPc = "ok" => asked = Len(attendees) /\ SuggestionsAreFree

SearchInv == FindInv /\ IntervalsAreHeld /\ CalendarsAreRead /\ OkIsTrue

LEMMA BlockingFacts ==
  ASSUME FindTypeOK, IntervalsAreHeld, request \in Requests, NEW start \in Nat
  PROVE  LET blocking == MergeIntervals(
                           BlockingIntervals(intervals, request.tentativeIsFree))
         IN  OverlapsAny(start, start + DurationOf(request), blocking) <=>
               \E h \in held : \E e \in h[2] : Prevents(h[1], e, start)
<1> DEFINE S == BlockingIntervals(intervals, request.tentativeIsFree)
           b == start + DurationOf(request)
<1>1. S \subseteq intervals /\ intervals \subseteq Event
  BY DEF BlockingIntervals, FindTypeOK
<1>2. IsFiniteSet(S) /\ \A i \in S : i.from < i.to
  <2>1. IsFiniteSet(S)
    BY <1>1, FS_Subset DEF IntervalsAreHeld
  <2>2. \A i \in Event : i.to > i.from => i.from < i.to
    BY DEF Event
  <2> QED
    BY <1>1, <2>1, <2>2 DEF BlockingIntervals
<1>3. b \in Nat /\ start < b
  BY RequestNumbers
<1>4. Covers(MergeIntervals(S), S)
  BY <1>1, <1>2, MergeFacts
<1>5. OverlapsAny(start, b, MergeIntervals(S)) <=> Meets(start, b, S)
  BY <1>3, <1>4 DEF Covers
<1>6. \A h \in held : \A e \in h[2] :
        LET i == Taken(h[1], e)
        IN  Prevents(h[1], e, start) <=>
              /\ i.to > i.from /\ Blocks(i.status, request.tentativeIsFree)
              /\ start < i.to /\ b > i.from
  <2> SUFFICES ASSUME NEW h \in held, NEW e \in h[2]
               PROVE  LET i == Taken(h[1], e)
                      IN  Prevents(h[1], e, start) <=>
                            /\ i.to > i.from
                            /\ Blocks(i.status, request.tentativeIsFree)
                            /\ start < i.to /\ b > i.from
    OBVIOUS
  <2>1. h[1] \in Person \cup {Organizer} /\ h[2] \in Answers
    BY DEF FindTypeOK
  <2>2. e \in Event
    BY <2>1, FindAssumption
  <2> QED
    BY <2>1, <2>2, PreventedIsBlocked
<1> HIDE DEF b
<1>7. Meets(start, b, S) => \E h \in held : \E e \in h[2] : Prevents(h[1], e, start)
  <2> SUFFICES ASSUME NEW i \in S, start < i.to /\ b > i.from
               PROVE  \E h \in held : \E e \in h[2] : Prevents(h[1], e, start)
    BY DEF Meets
  <2>1. /\ i \in intervals /\ i.to > i.from
        /\ Blocks(i.status, request.tentativeIsFree)
    BY DEF BlockingIntervals
  <2>2. PICK h \in held : \E e \in h[2] : i = Taken(h[1], e)
    BY <2>1 DEF IntervalsAreHeld
  <2>3. PICK e \in h[2] : i = Taken(h[1], e)
    BY <2>2
  <2> QED
    BY <1>6, <2>1, <2>3
<1>8. ASSUME NEW h \in held, NEW e \in h[2], Prevents(h[1], e, start)
      PROVE  Meets(start, b, S)
  <2> DEFINE i == Taken(h[1], e)
  <2>1. /\ i.to > i.from /\ Blocks(i.status, request.tentativeIsFree)
        /\ start < i.to /\ b > i.from
    BY <1>6, <1>8
  <2>2. i \in intervals
    BY DEF IntervalsAreHeld
  <2> HIDE DEF i
  <2>3. i \in S
    BY <2>1, <2>2 DEF BlockingIntervals
  <2> QED
    BY <2>1, <2>3 DEF Meets
<1> QED
  BY <1>5, <1>7, <1>8 DEF b

LEMMA TakeKeepsIntervals ==
  ASSUME IntervalsAreHeld, NEW who, NEW events \in Answers, Take(who, events)
  PROVE  /\ IntervalsAreHeld'
         /\ { h[1] : h \in held' } = { h[1] : h \in held } \cup {who}
<1> DEFINE new == { Taken(who, e) : e \in events }
           take == [e \in events |-> Taken(who, e)]
<1>1. intervals' = intervals \cup new /\ held' = held \cup {<< who, events >>}
  BY DEF Take, Taken
<1>2. IsFiniteSet(new)
  <2>1. take \in Surjection(events, new)
    BY DEF Surjection
  <2> QED
    BY <2>1, FindAssumption, FS_Surjection
<1>3. IsFiniteSet(intervals')
  BY <1>1, <1>2, FS_Union DEF IntervalsAreHeld
<1>4. \A i \in intervals' :
        \E h \in held' : \E e \in h[2] : i = Taken(h[1], e)
  <2>1. ASSUME NEW i \in new
        PROVE  \E h \in held' : \E e \in h[2] : i = Taken(h[1], e)
    <3>1. PICK e \in events : i = Taken(who, e)
      OBVIOUS
    <3> DEFINE h == << who, events >>
    <3>2. h \in held' /\ h[1] = who /\ h[2] = events
      BY <1>1
    <3> QED
      BY <3>1, <3>2
  <2> HIDE DEF new
  <2>2. ASSUME NEW i \in intervals
        PROVE  \E h \in held' : \E e \in h[2] : i = Taken(h[1], e)
    BY <1>1 DEF IntervalsAreHeld
  <2> QED
    BY <1>1, <2>1, <2>2
<1>5. ASSUME NEW h \in held', NEW e \in h[2]
      PROVE  Taken(h[1], e) \in intervals'
  <2>1. CASE h \in held
    BY <1>1, <2>1 DEF IntervalsAreHeld
  <2>2. CASE h = << who, events >>
    BY <1>1, <2>2
  <2> QED
    BY <1>1, <2>1, <2>2
<1>6. IntervalsAreHeld'
  BY <1>3, <1>4, <1>5 DEF IntervalsAreHeld, Taken, StatusOf, OwnStatus, AttendeeStatus
<1>7. { h[1] : h \in held' } = { h[1] : h \in held } \cup {who}
  <2>1. << who, events >>[1] = who
    OBVIOUS
  <2> QED
    BY <1>1, <2>1
<1> QED
  BY <1>6, <1>7

LEMMA SearchInitially == FindInit => SearchInv
<1> SUFFICES ASSUME FindInit PROVE SearchInv
  OBVIOUS
<1>1. FindInv
  BY FindInitially
<1>2. /\ findPc = "idle" /\ intervals = {} /\ held = {} /\ asked = 0
  BY DEF FindInit
<1>3. IntervalsAreHeld
  BY <1>2, FS_EmptySet DEF IntervalsAreHeld
<1>4. CalendarsAreRead /\ OkIsTrue
  BY <1>2 DEF CalendarsAreRead, OkIsTrue
<1> QED
  BY <1>1, <1>3, <1>4 DEF SearchInv

(* When everyone has been asked, the suggestions are what they should be.  *)
LEMMA SuggestKeeps == SearchInv /\ Suggest => OkIsTrue'
<1> SUFFICES ASSUME SearchInv, Suggest PROVE OkIsTrue'
  OBVIOUS
<1> DEFINE blocking == MergeIntervals(
                         BlockingIntervals(intervals, request.tentativeIsFree))
           d == DurationOf(request)
           free == { s \in Fits(request) : \A h \in held : \A e \in h[2] :
                                             ~ Prevents(h[1], e, s) }
           unblocked == { s \in Fits(request) : ~ OverlapsAny(s, s + d, blocking) }
<1>1. /\ findPc = "attendees" /\ asked = Len(attendees) /\ findPc' = "ok"
      /\ suggestions' = FindSuggestions(request, blocking)
      /\ UNCHANGED << request, attendees, asked, held, intervals >>
  BY DEF Suggest
<1>2. FindTypeOK /\ IntervalsAreHeld /\ CalendarsAreRead
  BY DEF SearchInv, FindInv
<1>3. request \in Requests /\ attendees \in Seq(Person)
  BY <1>1, <1>2 DEF FindTypeOK
<1>4. \A s \in Fits(request) : s \in Nat
  BY <1>3, RequestNumbers DEF Fits
<1>5. unblocked = free
  <2>1. \A s \in Fits(request) :
          OverlapsAny(s, s + d, blocking) <=>
            \E h \in held : \E e \in h[2] : Prevents(h[1], e, s)
    BY <1>2, <1>3, <1>4, BlockingFacts
  <2> HIDE DEF blocking
  <2> QED
    BY <2>1
<1>6. FirstOf(suggestions', unblocked)
  BY <1>1, <1>3, SuggestionFacts
<1>7. Range(attendees) \cup {Organizer} = { h[1] : h \in held }
  <2>1. DOMAIN attendees = 1..asked
    BY <1>1, <1>3
  <2>2. Range(attendees) = { attendees[k] : k \in 1..asked }
    BY <2>1 DEF Range
  <2> QED
    BY <1>1, <1>2, <2>2 DEF CalendarsAreRead
<1>8. free = { s \in { t \in request.from..request.to :
                         /\ (t - request.from) % Grid = 0
                         /\ t + DurationOf(request) <= request.to } :
                 \A h \in held : \A e \in h[2] : ~ Prevents(h[1], e, s) }
  BY DEF Fits
<1> HIDE DEF blocking, free, unblocked
<1>9. FirstOf(suggestions', free)
  BY <1>5, <1>6
<1>10. \A s : \A h \in held : \A e \in h[2] :
         Prevents(h[1], e, s)' <=> Prevents(h[1], e, s)
  BY <1>1 DEF Prevents, DurationOf
<1>11. SuggestionsAreFree'
  <2>1. { s \in { t \in request'.from..request'.to :
                    /\ (t - request'.from) % Grid = 0
                    /\ t + DurationOf(request') <= request'.to } :
            \A h \in held' : \A e \in h[2] : ~ Prevents(h[1], e, s)' } = free
    BY <1>1, <1>8, <1>10
  <2> QED
    BY <1>1, <1>7, <1>9, <2>1 DEF SuggestionsAreFree, FirstOf
<1> QED
  BY <1>1, <1>11 DEF OkIsTrue

LEMMA SearchStepKeeps == SearchInv /\ [FindNext]_findVars => SearchInv'
<1> SUFFICES ASSUME SearchInv, [FindNext]_findVars PROVE SearchInv'
  OBVIOUS
<1>0. FindInv /\ FindInv' /\ IntervalsAreHeld /\ CalendarsAreRead /\ OkIsTrue
  BY FindStepKeeps DEF SearchInv
<1>1. CASE FindTime \/ ResolveName \/ NamesAreResolved \/ TooManyPages \/ FindFails
  <2>1. /\ UNCHANGED << intervals, held, asked >>
        /\ findPc' \in {"resolving", "organizer", "failed"}
        /\ findPc' \in {"resolving", "organizer"} =>
             findPc \in {"idle", "resolving"}
    BY <1>1 DEF FindTime, ResolveName, NamesAreResolved, TooManyPages, FindFails
  <2>2. IntervalsAreHeld'
    BY <1>0, <2>1 DEF IntervalsAreHeld
  <2>3. CalendarsAreRead' /\ OkIsTrue'
    BY <1>0, <2>1 DEF CalendarsAreRead, OkIsTrue
  <2> QED
    BY <1>0, <2>2, <2>3 DEF SearchInv
<1>2. CASE ReadOwnPage
  <2>1. PICK events \in Answers : Take(Organizer, events)
    BY <1>2 DEF ReadOwnPage
  <2>2. /\ findPc = "organizer" /\ findPc' \in {"organizer", "attendees"}
        /\ UNCHANGED asked
    BY <1>2 DEF ReadOwnPage
  <2>3. /\ IntervalsAreHeld'
        /\ { h[1] : h \in held' } = { h[1] : h \in held } \cup {Organizer}
    BY <1>0, <2>1, TakeKeepsIntervals
  <2>4. asked' = 0 /\ { h[1] : h \in held } \subseteq {Organizer}
    BY <1>0, <2>2 DEF CalendarsAreRead
  <2>5. { attendees'[k] : k \in 1..0 } = {}
    OBVIOUS
  <2>6. CalendarsAreRead' /\ OkIsTrue'
    BY <2>2, <2>3, <2>4, <2>5 DEF CalendarsAreRead, OkIsTrue
  <2> QED
    BY <1>0, <2>3, <2>6 DEF SearchInv
<1>3. CASE ReadAttendee
  <2>1. PICK events \in Answers : Take(attendees[asked + 1], events)
    BY <1>3 DEF ReadAttendee
  <2>2. /\ findPc = "attendees" /\ findPc' = "attendees"
        /\ asked' = asked + 1 /\ UNCHANGED attendees
    BY <1>3 DEF ReadAttendee
  <2>3. /\ IntervalsAreHeld'
        /\ { h[1] : h \in held' } = { h[1] : h \in held } \cup {attendees[asked + 1]}
    BY <1>0, <2>1, TakeKeepsIntervals
  <2>4. 1..(asked + 1) = 1..asked \cup {asked + 1}
    <3>1. asked \in Nat
      BY <1>0, <2>2 DEF FindInv, FindTypeOK
    <3> QED
      BY <3>1
  <2>5. { attendees[k] : k \in 1..(asked + 1) } =
          { attendees[k] : k \in 1..asked } \cup {attendees[asked + 1]}
    BY <2>4
  <2>6. CalendarsAreRead' /\ OkIsTrue'
    BY <1>0, <2>2, <2>3, <2>5 DEF CalendarsAreRead, OkIsTrue
  <2> QED
    BY <1>0, <2>3, <2>6 DEF SearchInv
<1>4. CASE Suggest
  <2>1. OkIsTrue'
    BY <1>4, SuggestKeeps
  <2>2. /\ findPc = "attendees" /\ findPc' = "ok"
        /\ UNCHANGED << attendees, asked, held, intervals >>
    BY <1>4 DEF Suggest
  <2>3. IntervalsAreHeld' /\ CalendarsAreRead'
    BY <1>0, <2>2 DEF IntervalsAreHeld, CalendarsAreRead
  <2> QED
    BY <1>0, <2>1, <2>3 DEF SearchInv
<1>5. CASE UNCHANGED findVars
  <2>1. UNCHANGED << findPc, request, attendees, asked, intervals, held, suggestions >>
    BY <1>5 DEF findVars
  <2>2. IntervalsAreHeld' /\ CalendarsAreRead'
    BY <1>0, <2>1 DEF IntervalsAreHeld, CalendarsAreRead
  <2>3. SuggestionsAreFree' <=> SuggestionsAreFree
    BY <2>1 DEF SuggestionsAreFree, Prevents, DurationOf
  <2> QED
    BY <1>0, <2>1, <2>2, <2>3 DEF SearchInv, OkIsTrue
<1> QED
  BY <1>1, <1>2, <1>3, <1>4, <1>5 DEF FindNext, FindStep

(* What is suggested is free for the organizer and everyone asked for, by  *)
(* all that was read of their calendars, and is the first that is:         *)
(* mergeIntervals covers just the moments that block, for any calendars,   *)
(* and no slot of FindSuggestions is left out.                             *)
THEOREM SuggestionsStayFree == FindSpec => []SuggestionsAreFree
<1>1. SearchInv => SuggestionsAreFree
  BY DEF SearchInv, OkIsTrue, SuggestionsAreFree
<1> QED
  BY <1>1, SearchInitially, SearchStepKeeps, PTL DEF FindSpec
-----------------------------------------------------------------------------
(***************************************************************************)
(* The program runs one activity, and what that does is a behavior of its  *)
(* own; the others stutter.                                                *)
(***************************************************************************)

LEMMA StepsAreOfOne ==
  ASSUME [Next]_activityVars
  PROVE  /\ [SetupNext]_setupVars /\ [EnrolNext]_enrolVars
         /\ [DiscoverNext]_discoverVars /\ [FindNext]_findVars
         /\ [CalendarNext]_calendarVars
         /\ UNCHANGED activity
BY DEF Next, RunSetup, RunEnrolment, RunDiscovery, RunFindTime, ChangeCalendar,
       activityVars

LEMMA ActivitiesAreTheirOwn ==
  Spec => SetupSpec /\ EnrolSpec /\ DiscoverSpec /\ FindSpec /\ CalendarSpec
<1>1. Init => SetupInit /\ EnrolInit /\ DiscoverInit /\ FindInit /\ CalendarInit
  BY DEF Init
<1> QED
  BY <1>1, StepsAreOfOne, PTL
     DEF Spec, SetupSpec, EnrolSpec, DiscoverSpec, FindSpec, CalendarSpec

(* Every activity keeps its types in the program that runs one of them.    *)
THEOREM ActivityTypeCorrect == Spec => []TypeOK
<1>1. Spec => [](activity \in Activity)
  <2>1. Init => activity \in Activity
    BY DEF Init
  <2>2. activity \in Activity /\ [Next]_activityVars => (activity \in Activity)'
    BY StepsAreOfOne
  <2> QED
    BY <2>1, <2>2, PTL DEF Spec
<1> QED
  BY <1>1, ActivitiesAreTheirOwn, SetupTypeCorrect, EnrolTypeCorrect,
     DiscoverTypeCorrect, FindTypeCorrect, CalendarTypeCorrect, PTL DEF TypeOK

(* And what was proved of one of them is so in the program.                *)
THEOREM ActivitiesAreSafe ==
  Spec => /\ [](WrapperHasSecret /\ SuccessIsComplete)
          /\ NothingIsLost
          /\ []ApprovalIsNoticed /\ PollsKeepDistance
          /\ [](ReportIsComplete /\ SuggestionsAreFree)
          /\ AnswersAreTrue
BY ActivitiesAreTheirOwn, WrapperIsUsable, SuccessfulSetupIsComplete,
   NothingGetsLost, ApprovalIsSeen, PollsAreApart, ReportsAreComplete,
   SuggestionsStayFree, AnswersStayTrue, PTL
=============================================================================
