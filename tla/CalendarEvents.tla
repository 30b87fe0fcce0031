--------------------------- MODULE CalendarEvents ---------------------------
(***************************************************************************)
(* The actions of the OWA transport that change the calendar               *)
(* (internal/transport/owa, highlevel.go): calendar.create_meeting,        *)
(* calendar.delete_event and calendar.cancel_meeting.  Other clients       *)
(* change the calendar between any two of their requests.                  *)
(*                                                                         *)
(* The server numbers the versions of an event (ChangeKey), and refuses to *)
(* delete or cancel one by a version that is not the current one.          *)
(***************************************************************************)
EXTENDS Null, Naturals, Sequences, SequencesExt

CONSTANTS
  Meeting,           \* a subject, a start and an end
  Address, DisplayName,
  Invited,           \* the attendees that a call may be given
  MaxEvents, MaxVersion, MaxCalls

EventId == 1..MaxEvents
Version == 1..MaxVersion
CalendarEvent == [ meeting : Meeting, invitees : SUBSET Address, version : Version ]

(* An attendee is given by an address, with a name or without, or by a     *)
(* name alone.                                                             *)
Attendee == [ who : Address \cup DisplayName, named : BOOLEAN ]

ASSUME CalendarAssumption ==
  /\ Address \cap DisplayName = {} /\ None \notin EventId \cup Version \cup CalendarEvent
  /\ Invited \subseteq Seq(Attendee)
  /\ {MaxEvents, MaxVersion, MaxCalls} \subseteq Nat /\ MaxVersion > 0

VARIABLES
  calendar, issued, \* the events of the mailbox, and the ids given out
  calendarPc, mutation,
  meeting, invited, \* the payload of calendar.create_meeting
  eventId, changeKey, \* that of the other two; None: not given
  invitees,     \* the attendees that are resolved
  key,          \* the version to delete or cancel
  answered,     \* the event that "ok" is about
  unsaid,       \* whether the answer of the provider said nothing of it
  made, removed, \* what the call has done
  touched,      \* what others have changed since it began
  calls

payload == << mutation, meeting, invited, eventId, changeKey >>
effects == << made, removed >>
verdict == << answered, unsaid >>
calendarVars == << calendar, issued, calendarPc, payload, invitees, key,
                   verdict, effects, touched, calls >>

Over == {"ok", "refused", "failed"}

CalendarTypeOK ==
  /\ calendar \in [EventId -> CalendarEvent \cup {None}]
  /\ issued \in 0..MaxEvents /\ \A id \in EventId : calendar[id] # None => id <= issued
  /\ calendarPc \in {"idle", "inviting", "creating", "verifying", "locating",
                     "removing"} \cup Over
  /\ mutation \in {None, "create", "delete", "cancel"}
  /\ meeting \in Meeting \cup {None} /\ invited \in Invited \cup {<< >>}
  /\ invitees \in Seq(Address) /\ Len(invitees) <= Len(invited)
  /\ {eventId, answered, made} \subseteq EventId \cup {None}
  /\ {changeKey, key, removed} \subseteq Version \cup {None}
  /\ touched \subseteq EventId /\ unsaid \in BOOLEAN
  /\ calls \in 0..MaxCalls
  /\ calendarPc \in {"creating", "verifying"} => Len(invitees) = Len(invited)
  /\ calendarPc = "removing" => eventId # None /\ key # None
  /\ changeKey # None /\ key # None => key = changeKey

CalendarInit ==
  /\ calendar = [id \in EventId |-> None] /\ issued = 0
  /\ calendarPc = "idle" /\ mutation = None
  /\ meeting = None /\ invited = << >> /\ eventId = None /\ changeKey = None
  /\ invitees = << >> /\ key = None /\ answered = None /\ unsaid = FALSE
  /\ made = None /\ removed = None
  /\ touched = {} /\ calls = 0

BeginCall(m) ==
  /\ calendarPc \in {"idle"} \cup Over
  /\ calls < MaxCalls /\ calls' = calls + 1
  /\ mutation' = m
  /\ invitees' = << >> /\ answered' = None /\ unsaid' = FALSE
  /\ made' = None /\ removed' = None /\ touched' = {}
  /\ UNCHANGED << calendar, issued >>

CallFails(how) ==
  /\ calendarPc' = how
  /\ UNCHANGED << calendar, issued, payload, invitees, key, verdict, effects,
                  touched, calls >>
-----------------------------------------------------------------------------
(* calendar.create_meeting: resolveCreateMeetingAttendees.                 *)

BeginCreate ==
  /\ BeginCall("create") /\ calendarPc' = "inviting"
  /\ meeting' \in Meeting /\ invited' \in Invited
  /\ eventId' = None /\ changeKey' = None /\ key' = None

(* The attendee that is looked up next.                                    *)
Given == invited[Len(invitees) + 1]

MayInvite == calendarPc = "inviting" /\ Len(invitees) < Len(invited)

Invite(address) ==
  /\ invitees' = Append(invitees, address)
  /\ UNCHANGED << calendar, issued, calendarPc, payload, key, verdict, effects,
                  touched, calls >>

(* An address is kept, whether it is found or not: what is found only adds *)
(* a name to it.                                                           *)
InviteAddress ==
  /\ MayInvite /\ Given.who \in Address
  /\ Invite(Given.who)

(* FindPeople finds one person by the name.                                *)
InviteByName ==
  /\ MayInvite /\ Given.who \in DisplayName
  /\ \E a \in Address : Invite(a)

(* It finds none, or several, or fails.                                    *)
CannotInvite ==
  /\ MayInvite /\ Given.who \in DisplayName
  /\ CallFails("failed")

EverybodyIsInvited ==
  /\ calendarPc = "inviting" /\ Len(invitees) = Len(invited)
  /\ calendarPc' = "creating"
  /\ UNCHANGED << calendar, issued, payload, invitees, key, verdict, effects,
                  touched, calls >>
-----------------------------------------------------------------------------
(* CreateCalendarEvent and recoverCreatedMeetingEvent.                     *)

(* The event may be created, and its id returned, left out of the answer,  *)
(* or lost with it.                                                        *)
CreateEvent ==
  /\ calendarPc = "creating" /\ issued < MaxEvents
  /\ issued' = issued + 1 /\ made' = issued'
  /\ calendar' = [calendar EXCEPT ![issued'] =
                    [ meeting |-> meeting, invitees |-> Range(invitees), version |-> 1 ]]
  /\ \/ calendarPc' = "ok" /\ answered' = issued'
     \/ calendarPc' \in {"verifying", "failed"} /\ UNCHANGED answered
  /\ UNCHANGED << payload, invitees, key, removed, unsaid, touched, calls >>

(* Or nothing is, and an answer of HTTP 200 says so in its body: that is   *)
(* an answer without an id.                                                *)
CreateIsRefused ==
  /\ calendarPc = "creating"
  /\ CallFails("verifying") \/ CallFails("failed")

(* matchingCreatedMeetingEvents.                                           *)
Matches ==
  { id \in EventId : /\ calendar[id] # None
                     /\ calendar[id].meeting = meeting
                     /\ calendar[id].invitees = Range(invitees) }

(* Seeded fault: of several, one is as good as another.                    *)
VerifyByAny ==
  /\ calendarPc = "verifying"
  /\ \E id \in Matches : answered' = id
  /\ calendarPc' = "ok"
  /\ UNCHANGED << calendar, issued, payload, invitees, key, effects, unsaid, touched,
                  calls >>

Verify ==
  /\ calendarPc = "verifying"
  /\ \E id \in EventId : Matches = {id} /\ answered' = id
  /\ calendarPc' = "ok"
  /\ UNCHANGED << calendar, issued, payload, invitees, key, effects, unsaid, touched,
                  calls >>

(* There is none, or there are several, or GetCalendarView fails.          *)
CannotVerify == calendarPc = "verifying" /\ CallFails("failed")
-----------------------------------------------------------------------------
(* calendar.delete_event and calendar.cancel_meeting, with                 *)
(* resolveCalendarMutationTarget.                                          *)

BeginRemove(m) ==
  /\ BeginCall(m)
  /\ eventId' \in 1..issued /\ changeKey' \in Version \cup {None}
  /\ key' = changeKey'
  /\ calendarPc' = IF changeKey' = None THEN "locating" ELSE "removing"
  /\ meeting' = None /\ invited' = << >>

Locate ==
  /\ calendarPc = "locating" /\ calendar[eventId] # None
  /\ key' = calendar[eventId].version
  /\ calendarPc' = "removing"
  /\ UNCHANGED << calendar, issued, payload, invitees, verdict, effects, touched,
                  calls >>

(* An error, no event, or one without a key.                               *)
CannotLocate == calendarPc = "locating" /\ CallFails("failed")

IsCurrent == calendar[eventId] # None /\ calendar[eventId].version = key

(* Success: an answer of HTTP 200 that says so, or says nothing about the  *)
(* item, having no response message or one without a class.                *)
IsTakenForSuccess(silently) ==
  calendarPc' = "ok" /\ answered' = eventId /\ unsaid' = silently

(* The event is removed, and the answer may be lost.                       *)
RemoveEvent ==
  /\ calendarPc = "removing" /\ IsCurrent
  /\ calendar' = [calendar EXCEPT ![eventId] = None]
  /\ removed' = key
  /\ \/ \E silently \in BOOLEAN : IsTakenForSuccess(silently)
     \/ calendarPc' = "failed" /\ UNCHANGED verdict
  /\ UNCHANGED << issued, payload, invitees, key, made, touched, calls >>

StaysThere ==
  /\ calendarPc = "removing"
  /\ UNCHANGED << calendar, issued, payload, invitees, key, effects, touched, calls >>

(* Seeded fault: what an answer of HTTP 200 says of the item is not read.  *)
RefusalIsTakenForSuccess == StaysThere /\ IsTakenForSuccess(FALSE)

(* The version is not current, or there is another reason; the answer says *)
(* so, or nothing, or there is none.                                       *)
RemoveIsRefused ==
  /\ StaysThere
  /\ \/ calendarPc' \in {"refused", "failed"} /\ UNCHANGED verdict
     \/ IsTakenForSuccess(TRUE)
-----------------------------------------------------------------------------
(* What other clients do.                                                  *)

OtherCreates ==
  /\ issued < MaxEvents /\ issued' = issued + 1
  /\ \E m \in Meeting, S \in SUBSET Address :
       calendar' = [calendar EXCEPT ![issued'] =
                      [ meeting |-> m, invitees |-> S, version |-> 1 ]]
  /\ UNCHANGED << calendarPc, payload, invitees, key, verdict, effects, touched,
                  calls >>

Touch(id, event) ==
  /\ calendar' = [calendar EXCEPT ![id] = event]
  /\ touched' = touched \cup {id}
  /\ UNCHANGED << issued, calendarPc, payload, invitees, key, verdict, effects, calls >>

OtherEdits(id) ==
  /\ calendar[id] # None /\ calendar[id].version < MaxVersion
  /\ \E S \in SUBSET Address :
       Touch(id, [calendar[id] EXCEPT !.invitees = S, !.version = @ + 1])

OtherRemoves(id) == calendar[id] # None /\ Touch(id, None)
-----------------------------------------------------------------------------
CalendarStep ==
  \/ InviteAddress \/ InviteByName \/ CannotInvite \/ EverybodyIsInvited
  \/ CreateEvent \/ CreateIsRefused \/ Verify \/ CannotVerify
  \/ Locate \/ CannotLocate \/ RemoveEvent \/ RemoveIsRefused

CalendarNext ==
  \/ BeginCreate \/ (\E m \in {"delete", "cancel"} : BeginRemove(m))
  \/ CalendarStep
  \/ OtherCreates \/ (\E id \in EventId : OtherEdits(id) \/ OtherRemoves(id))

CalendarFairness == WF_calendarVars(CalendarStep)

CalendarSpec == CalendarInit /\ [][CalendarNext]_calendarVars
CalendarFairSpec == CalendarSpec /\ CalendarFairness
-----------------------------------------------------------------------------
(* Properties.                                                             *)

(* Success of calendar.create_meeting is about an event like the one asked *)
(* for, at every address that was given, and about the very one that the   *)
(* call created if nobody has changed that meanwhile.                      *)
CreatedIsAnswered ==
  /\ calendar'[answered'].meeting = meeting
  /\ calendar'[answered'].invitees = Range(invitees)
  /\ \A n \in DOMAIN invited :
       invited[n].who \in Address => invitees[n] = invited[n].who
  /\ made' # None /\ made' \notin touched => answered' = made'

(* Success of the others is about the event that was given, and the call  *)
(* has removed that, unless the answer said nothing of it: that passes for *)
(* success, and nobody looks whether the event is still there.  What is    *)
(* removed, if anything, is the version given or, if none was, one that    *)
(* the event has had since.                                                *)
RemovedIsAnswered ==
  /\ answered' = eventId
  /\ ~unsaid' => removed' # None /\ calendar'[eventId] = None
  /\ removed' # None /\ changeKey # None => removed' = changeKey

(* What an answer says is so: success is about the event that was meant    *)
(* (which is there, or gone, as far as the provider said anything of it),  *)
(* and a refusal means that nothing was done.                              *)
AnswersAreTrue ==
  [][/\ calendarPc' = "ok" /\ calendarPc # "ok" =>
          IF mutation = "create" THEN CreatedIsAnswered ELSE RemovedIsAnswered
     /\ calendarPc' = "refused" /\ calendarPc # "refused" =>
          made' = None /\ removed' = None]_calendarVars

(* Every call is answered.                                                 *)
CallsEnd == (calendarPc = "inviting" \/ calendarPc = "locating") ~> (calendarPc \in Over)
=============================================================================
