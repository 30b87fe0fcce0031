---------------------------- MODULE MCActivities ----------------------------
(***************************************************************************)
(* An instance of Activities for TLC.                                      *)
(***************************************************************************)
EXTENDS Activities, TLC

CONSTANTS root, nested, skill, manifest, p, q, r, find, move, ann, bob, someone

ConfigPlaces == << root, nested >>
SkillFiles == << skill >>
PluginFiles == << manifest >>

(* Pages that link to each other, to themselves and elsewhere.             *)
Cycle ==
  [ starts  |-> << p >>,
    lands   |-> [u \in Url |-> u],
    hints   |-> (p :> << q, Elsewhere >>) @@ (q :> << p >>) @@ (r :> << >>),
    scripts |-> (p :> << r, q >>) @@ (q :> << r >>) @@ (r :> << p, r >>),
    names   |-> (p :> {find}) @@ (q :> {}) @@ (r :> {find, move}) ]

TwoStarts ==
  [ Cycle EXCEPT !.starts = << q, p >>, !.lands = [u \in Url |-> IF u = p THEN q ELSE u] ]

StrangeStart == [ Cycle EXCEPT !.starts = << p, Elsewhere >> ]

WebsToRead == { Cycle, TwoStarts, StrangeStart }

(* Events inside each other, that touch, that overlap the ends of the      *)
(* window, that are empty, and that block some or nobody.                  *)
Entry(from, to, status) == [ from |-> from, to |-> to, status |-> status ]

Outer == Entry(2, 6, "busy")
Inner == Entry(3, 4, "busy")
Touching == Entry(6, 7, "busy")
Early == Entry(0, 3, "tentative")
Late == Entry(8, 12, "busy")
Empty == Entry(4, 4, "busy")
Blank == Entry(5, 9, "blank")
Free == Entry(7, 9, "free")

CalendarsToRead ==
  { {}, {Outer, Inner}, {Inner}, {Touching, Outer}, {Early, Free}, {Late, Empty},
    {Blank} }

Ask(whom, to, duration, tentativeIsFree, people, names) ==
  [ provider |-> whom, from |-> 1, to |-> to, duration |-> duration,
    tentativeIsFree |-> tentativeIsFree, attendees |-> people, names |-> names ]

TimesToFind ==
  { Ask("graph", 10, 2, FALSE, << ann >>, << >>),
    Ask("owa", 10, 0, TRUE, << ann >>, << someone >>),
    Ask("owa", 9, 3, FALSE, << >>, << someone >>),
    Ask("graph", 2, 3, FALSE, << ann >>, << >>) }

AttendeesToInvite ==
  { << [ who |-> ann, named |-> FALSE ] >>,
    << [ who |-> bob, named |-> TRUE ], [ who |-> someone, named |-> FALSE ] >> }
=============================================================================
