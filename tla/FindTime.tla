------------------------------ MODULE FindTime ------------------------------
(***************************************************************************)
(* "calendar find-time" (internal/cli) and the action calendar.find_time   *)
(* of the OWA and Graph transports: names are resolved to addresses, the   *)
(* calendar of the organizer and the availability of every attendee are    *)
(* read, and FindSuggestions (internal/calendarplan) looks for slots that  *)
(* none of them blocks.                                                    *)
(*                                                                         *)
(* Times are numbers, of quarters of an hour say.  The statuses are those  *)
(* that the code tells apart: "busy" stands for all that block, "free" for *)
(* all that do not, "blank" for none.                                      *)
(***************************************************************************)
EXTENDS Null, Selection, Naturals, Sequences, SequencesExt

CONSTANTS
  Person, Organizer, Name,
  Requests,         \* what may be asked for
  Answers,          \* the sets of events that a read may return
  DefaultDuration, Grid, MaxSuggestions, \* calendarplan.Options
  MaxPages          \* maxCalendarViewPages

Status == {"busy", "tentative", "free", "blank"}
Event == [ from : Nat, to : Nat, status : Status ]

Request == [ provider : {"owa", "graph"}, from : Nat, to : Nat, duration : Nat,
             tentativeIsFree : BOOLEAN, attendees : Seq(Person),
             names : Seq(Name) ]

ASSUME FindAssumption ==
  /\ Organizer \notin Person
  /\ Requests \subseteq Request /\ Answers \subseteq SUBSET Event
  /\ \A events \in Answers : IsFiniteSet(events)
  /\ \A r \in Requests : r.attendees # << >> \/ r.names # << >>
  /\ {DefaultDuration, Grid, MaxSuggestions, MaxPages} \subseteq Nat \ {0}

VARIABLES
  findPc,
  request,
  attendees,   \* those given and those resolved
  resolved,    \* how many names have been
  pages,       \* of the organizer's calendar that have been read
  asked,       \* how many attendees have been
  intervals,   \* what was found, as FindSuggestions takes it
  held,        \* and in whose calendar
  suggestions

findVars == << findPc, request, attendees, resolved, pages, asked, intervals,
               held, suggestions >>

FindTypeOK ==
  /\ findPc \in {"idle", "resolving", "organizer", "attendees", "ok", "failed"}
  /\ findPc # "idle" =>
       /\ request \in Requests
       /\ attendees \in Seq(Person)
       /\ resolved \in 0..Len(request.names)
       /\ Len(attendees) = Len(request.attendees) + resolved
       /\ asked \in 0..Len(attendees)
  /\ pages \in 0..MaxPages
  /\ intervals \subseteq Event
  /\ held \subseteq (Person \cup {Organizer}) \X Answers
  /\ suggestions \in Seq(Nat) /\ Len(suggestions) <= MaxSuggestions

FindInit ==
  /\ findPc = "idle" /\ request = None
  /\ attendees = << >> /\ resolved = 0 /\ pages = 0 /\ asked = 0
  /\ intervals = {} /\ held = {} /\ suggestions = << >>

FindTime ==
  /\ findPc = "idle" /\ findPc' = "resolving"
  /\ request' \in Requests
  /\ attendees' = request'.attendees
  /\ UNCHANGED << resolved, pages, asked, intervals, held, suggestions >>

(* resolvePersonEmail, by people.resolve.                                  *)
ResolveName ==
  /\ findPc = "resolving" /\ resolved < Len(request.names)
  /\ resolved' = resolved + 1
  /\ \E p \in Person : attendees' = Append(attendees, p)
  /\ UNCHANGED << findPc, request, pages, asked, intervals, held, suggestions >>

NamesAreResolved ==
  /\ findPc = "resolving" /\ resolved = Len(request.names)
  /\ findPc' = "organizer"
  /\ UNCHANGED << request, attendees, resolved, pages, asked, intervals, held,
                  suggestions >>
-----------------------------------------------------------------------------
(* An event of the organizer without a status is one that blocks.          *)
OwnStatus(s) == IF s = "blank" THEN "busy" ELSE s

AttendeeStatus(s) == s

StatusOf(who, s) == IF who = Organizer THEN OwnStatus(s) ELSE AttendeeStatus(s)

Take(who, events) ==
  /\ intervals' = intervals \cup { [e EXCEPT !.status = StatusOf(who, @)] : e \in events }
  /\ held' = held \cup {<< who, events >>}

MayHaveMore == IF request.provider = "graph" THEN BOOLEAN ELSE {FALSE}

(* GetCalendarView of OWA, and listCalendarEvents of Graph with its pages. *)
(* An error inside an answer of OWA is not looked at: no events are read.  *)
ReadOwnPage ==
  /\ findPc = "organizer" /\ pages < MaxPages
  /\ pages' = pages + 1
  /\ \E events \in Answers, more \in MayHaveMore :
       /\ Take(Organizer, events)
       /\ findPc' = IF more THEN findPc ELSE "attendees"
  /\ UNCHANGED << request, attendees, resolved, asked, suggestions >>

TooManyPages ==
  /\ findPc = "organizer" /\ pages = MaxPages
  /\ findPc' = "failed"
  /\ UNCHANGED << request, attendees, resolved, pages, asked, intervals, held,
                  suggestions >>

(* GetUserAvailabilityInternal, getSchedule.                               *)
ReadAttendee ==
  /\ findPc = "attendees" /\ asked < Len(attendees)
  /\ asked' = asked + 1
  /\ \E events \in Answers : Take(attendees[asked + 1], events)
  /\ UNCHANGED << findPc, request, attendees, resolved, pages, suggestions >>

(* A name that nobody or several have, an error of the provider, also one  *)
(* inside an answer about attendees, times or links that cannot be parsed. *)
FindFails ==
  /\ \/ findPc = "resolving" /\ resolved < Len(request.names)
     \/ findPc = "organizer"
     \/ findPc = "attendees" /\ asked < Len(attendees)
  /\ findPc' = "failed"
  /\ UNCHANGED << request, attendees, resolved, pages, asked, intervals, held,
                  suggestions >>
-----------------------------------------------------------------------------
(* internal/calendarplan.                                                  *)

DurationOf(r) == IF r.duration = 0 THEN DefaultDuration ELSE r.duration

Blocks(status, tentativeIsFree) ==
  status = "busy" \/ (status = "tentative" /\ ~ tentativeIsFree)

BlockingIntervals(S, tentativeIsFree) ==
  { i \in S : i.to > i.from /\ Blocks(i.status, tentativeIsFree) }

(* Seeded fault: an interval inside the last one shortens it.              *)
ExtendByEnd(last, interval) == [last EXCEPT !.to = interval.to]

Extend(last, interval) ==
  [last EXCEPT !.to = IF interval.to > @ THEN interval.to ELSE @]

(* The intervals by their start, as sort.Slice leaves them: whichever of    *)
(* those that start last is merged last.                                   *)
Latest(S) == CHOOSE i \in S : \A j \in S : j.from <= i.from

MergeInto(merged, interval) ==
  IF merged = << >> \/ interval.from > Last(merged).to
  THEN Append(merged, interval)
  ELSE Append(Front(merged), Extend(Last(merged), interval))

MergeIntervals(S) ==
  LET merge[T \in SUBSET S] ==
        IF T = {} THEN << >>
        ELSE MergeInto(merge[T \ {Latest(T)}], Latest(T))
  IN  merge[S]

OverlapsAny(from, to, list) ==
  \E n \in DOMAIN list : from < list[n].to /\ to > list[n].from

(* Where slots may start, one after the other.                             *)
Slots(r) ==
  LET last == (r.to - DurationOf(r) - r.from) \div Grid
  IN  IF r.from + DurationOf(r) > r.to THEN << >>
      ELSE [n \in 1..(last + 1) |-> r.from + (n - 1) * Grid]

FindSuggestions(r, blocking) ==
  LET slots == Slots(r)
      free == { n \in DOMAIN slots :
                  ~ OverlapsAny(slots[n], slots[n] + DurationOf(r), blocking) }
      count == IF Cardinality(free) < MaxSuggestions THEN Cardinality(free)
                                                     ELSE MaxSuggestions
  IN  SubSeq(Select(slots, free), 1, count)

Suggest ==
  /\ findPc = "attendees" /\ asked = Len(attendees)
  /\ \E blocking \in {MergeIntervals(
                        BlockingIntervals(intervals, request.tentativeIsFree))} :
       suggestions' = FindSuggestions(request, blocking)
  /\ findPc' = "ok"
  /\ UNCHANGED << request, attendees, resolved, pages, asked, intervals, held >>
-----------------------------------------------------------------------------
FindStep ==
  \/ ResolveName \/ NamesAreResolved \/ ReadOwnPage \/ TooManyPages
  \/ ReadAttendee \/ FindFails \/ Suggest

FindNext == FindTime \/ FindStep

FindFairness == WF_findVars(FindStep)

FindSpec == FindInit /\ [][FindNext]_findVars
FindFairSpec == FindSpec /\ FindFairness
-----------------------------------------------------------------------------
(* Properties.                                                             *)

(* Whether someone cannot come to a meeting that starts then.              *)
Prevents(who, event, start) ==
  /\ event.from < event.to
  /\ \/ event.status = "busy"
     \/ event.status = "tentative" /\ ~ request.tentativeIsFree
     \/ event.status = "blank" /\ who = Organizer
  /\ \E t \in start..(start + DurationOf(request) - 1) :
       event.from <= t /\ t < event.to

(* The slots suggested are the first of those that fit into the window and *)
(* at which the organizer and everyone asked for are free, by all that was *)
(* read of their calendars; nobody and no slot is left out.                *)
SuggestionsAreFree ==
  findPc = "ok" =>
    LET fits == { s \in request.from..request.to :
                    /\ (s - request.from) % Grid = 0
                    /\ s + DurationOf(request) <= request.to }
        free == { s \in fits : \A h \in held : \A e \in h[2] :
                                 ~ Prevents(h[1], e, s) }
    IN  /\ Range(attendees) \cup {Organizer} = { h[1] : h \in held }
        /\ Range(suggestions) \subseteq free
        /\ \A s \in free :
             \/ s \in Range(suggestions)
             \/ /\ Len(suggestions) = MaxSuggestions
                /\ \A t \in Range(suggestions) : t < s
        /\ \A n \in 2..Len(suggestions) : suggestions[n - 1] < suggestions[n]

(* A search ends, whatever the provider says of further pages.             *)
FindTimeEnds == (findPc # "idle") ~> (findPc \in {"ok", "failed"})
=============================================================================
