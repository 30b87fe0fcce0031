------------------------------ MODULE Discovery ------------------------------
(***************************************************************************)
(* The discovery of service actions (internal/transport/owa, discovery.go) *)
(* for the commands "owa discover-actions" and "discover-action-context":  *)
(* from each URL it is given it reads pages and scripts of the OWA server  *)
(* depth first, up to a limit.                                             *)
(*                                                                         *)
(* What is left to do is a sequence of targets, where the code has the     *)
(* loops of its recursion.  A link is a target: the URL it resolves to, or *)
(* Elsewhere for all that is malformed or of another origin.               *)
(***************************************************************************)
EXTENDS Null, Naturals, Sequences, SequencesExt

CONSTANTS
  Url, Elsewhere,
  Action, Known,    \* the names in pages; those of rawServiceCapabilities
  Webs,             \* what the server may hold, and the URLs it is read from
  Limits,           \* --max-sources
  Broken            \* the URLs that may fail to be loaded

Link == Url \cup {Elsewhere}

(* A URL is answered by a page at "lands", after redirects of its origin.  *)
Web == [ starts : Seq(Link), lands : [Url -> Url],
         hints : [Url -> Seq(Link)], scripts : [Url -> Seq(Link)],
         names : [Url -> SUBSET Action] ]

DiscoverCommand == { "actions", "context" }

ASSUME WebAssumption ==
  /\ Elsewhere \notin Url /\ Webs \subseteq Web /\ Broken \subseteq Url
  /\ \A w \in Webs : w.starts # << >>
  /\ Limits \subseteq Nat \ {0}
  /\ None \notin Action \cup DiscoverCommand \cup {"ok", "error"}

VARIABLES
  web, discovery, wanted, \* the server; the command and the action it is about
  hints, scripts,       \* FollowNavigationHints, IncludeLinkedScripts
  goOn, limit,          \* ContinueOnHTTPError, MaxSources
  at,                   \* the start URL that is being read from
  agenda,               \* what is left to read from it
  seen,                 \* per start URL, the URLs asked for, in their order
  failed,               \* and those among them that could not be loaded
  found,                \* the actions found in what was read
  discovered

given == << web, discovery, wanted, hints, scripts, goOn, limit >>
discoverVars == << given, at, agenda, seen, failed, found, discovered >>

Running == discovery # None /\ discovered = None

DiscoverTypeOK ==
  /\ discovery \in DiscoverCommand \cup {None}
  /\ discovered \in {None, "ok", "error"}
  /\ discovery # None =>
       /\ web \in Webs /\ wanted \in Action \cup {None}
       /\ {hints, scripts, goOn} \subseteq BOOLEAN /\ limit \in Limits
       /\ at \in 1..Len(web.starts)
       /\ agenda \in Seq(Link)
       /\ DOMAIN seen = DOMAIN web.starts /\ DOMAIN failed = DOMAIN seen
       /\ \A i \in DOMAIN seen :
            /\ seen[i] \in Seq(Url) /\ IsInjective(seen[i])
            /\ Len(seen[i]) <= limit
            /\ failed[i] \subseteq Range(seen[i])
            /\ i > at => seen[i] = << >>
       /\ found \subseteq Action

DiscoverInit ==
  /\ discovery = None
  /\ web = None /\ wanted = None
  /\ hints = FALSE /\ scripts = FALSE /\ goOn = FALSE /\ limit = 0
  /\ at = 0 /\ agenda = << >> /\ seen = << >> /\ failed = << >>
  /\ found = {} /\ discovered = None

(* runOWADiscoverActions, runOWADiscoverActionContext.  The latter always  *)
(* goes on after an error.                                                 *)
BeginDiscovery(c) ==
  /\ discovery = None /\ discovery' = c
  /\ web' \in Webs
  /\ wanted' \in IF c = "context" THEN Action ELSE {None}
  /\ hints' \in BOOLEAN /\ scripts' \in BOOLEAN /\ limit' \in Limits
  /\ goOn' \in IF c = "context" THEN {TRUE} ELSE BOOLEAN
  /\ at' = 1 /\ agenda' = << web'.starts[1] >>
  /\ seen' = [i \in DOMAIN web'.starts |-> << >>]
  /\ failed' = [i \in DOMAIN web'.starts |-> {}]
  /\ UNCHANGED << found, discovered >>
-----------------------------------------------------------------------------
(* discoverSource, discoverActionContextSource.                            *)

(* fetchDiscoveryTextRelativeTo: where the page is in the end.             *)
Landed(url) == web.lands[url]

HintsOf(page) == IF hints THEN web.hints[page] ELSE << >>
ScriptsOf(page) == IF scripts THEN web.scripts[page] ELSE << >>

Links(url) == HintsOf(Landed(url)) \o ScriptsOf(Landed(url))

NamesIn(page) == web.names[page]
ContextsIn(page) == NamesIn(page) \cap {wanted}

Found(url) ==
  IF discovery = "context" THEN ContextsIn(Landed(url)) ELSE NamesIn(Landed(url))

AtLimit == Len(seen[at]) >= limit

HasSeen(t) == t \in Range(seen[at])

(* What is read first is the start URL, what follows are links.            *)
IsStart == seen[at] = << >>

(* Links that lead elsewhere are passed over.                              *)
LeadsElsewhere(t) == t = Elsewhere /\ ~ IsStart

(* Seeded fault: only what has been read is passed over.                   *)
DropOnlySeen ==
  /\ Running /\ agenda # << >>
  /\ HasSeen(Head(agenda)) \/ LeadsElsewhere(Head(agenda))
  /\ agenda' = Tail(agenda)
  /\ UNCHANGED << given, at, seen, failed, found, discovered >>

Drop ==
  /\ Running /\ agenda # << >>
  /\ AtLimit \/ HasSeen(Head(agenda)) \/ LeadsElsewhere(Head(agenda))
  /\ agenda' = Tail(agenda)
  /\ UNCHANGED << given, at, seen, failed, found, discovered >>

MayRead ==
  /\ Running /\ agenda # << >>
  /\ ~ AtLimit /\ ~ HasSeen(Head(agenda)) /\ ~ LeadsElsewhere(Head(agenda))

Mark(url) == seen' = [seen EXCEPT ![at] = Append(@, url)]

Load ==
  /\ MayRead /\ Head(agenda) # Elsewhere
  /\ Mark(Head(agenda))
  /\ agenda' = Links(Head(agenda)) \o Tail(agenda)
  /\ found' = found \cup Found(Head(agenda))
  /\ UNCHANGED << given, at, failed, discovered >>

(* Seeded fault: an error that is passed over ends the reading.            *)
LoadFailsAndEnds ==
  /\ MayRead /\ goOn /\ Head(agenda) \in Broken
  /\ Mark(Head(agenda))
  /\ failed' = [failed EXCEPT ![at] = @ \cup {Head(agenda)}]
  /\ agenda' = << >>
  /\ UNCHANGED << given, at, found, discovered >>

LoadFails ==
  /\ MayRead /\ goOn /\ Head(agenda) \in Broken
  /\ Mark(Head(agenda))
  /\ failed' = [failed EXCEPT ![at] = @ \cup {Head(agenda)}]
  /\ agenda' = Tail(agenda)
  /\ UNCHANGED << given, at, found, discovered >>

(* A start URL that leads elsewhere is an error whatever the options say.  *)
Abort ==
  /\ MayRead
  /\ \/ Head(agenda) = Elsewhere
     \/ ~ goOn /\ Head(agenda) \in Broken
  /\ discovered' = "error"
  /\ UNCHANGED << given, at, agenda, seen, failed, found >>

(* No login.                                                               *)
LoginFails ==
  /\ Running /\ IsStart
  /\ discovered' = "error"
  /\ UNCHANGED << given, at, agenda, seen, failed, found >>

NextStart ==
  /\ Running /\ agenda = << >> /\ at < Len(web.starts)
  /\ at' = at + 1 /\ agenda' = << web.starts[at + 1] >>
  /\ UNCHANGED << given, seen, failed, found, discovered >>

Report ==
  /\ Running /\ agenda = << >> /\ at = Len(web.starts)
  /\ discovered' = "ok"
  /\ UNCHANGED << given, at, agenda, seen, failed, found >>

(* CompareDiscoveredServiceActions.                                        *)
Classified == found \cap Known
Unknown == found \ Known
MissingClassified == Known \ found
-----------------------------------------------------------------------------
DiscoverStep ==
  \/ Drop \/ Load \/ LoadFails \/ Abort \/ LoginFails \/ NextStart \/ Report

DiscoverNext == (\E c \in DiscoverCommand : BeginDiscovery(c)) \/ DiscoverStep

DiscoverSpec == DiscoverInit /\ [][DiscoverNext]_discoverVars
DiscoverFairness == WF_discoverVars(DiscoverStep)
DiscoverFairSpec == DiscoverSpec /\ DiscoverFairness
-----------------------------------------------------------------------------
(* Properties.                                                             *)

(* The URLs that lead from one by links, those which failed having none.   *)
Closed(S, failures) ==
  \A url \in S \ failures : Range(Links(url)) \subseteq S \cup {Elsewhere}

Reachable(start, failures) ==
  { url \in Url : \A S \in SUBSET Url :
                    start \in S /\ Closed(S, failures) => url \in S }

(* A report is about all that can be reached from each start URL or, if    *)
(* that is too much, about as much of it as the limit allows: neither the  *)
(* order of links, cycles, redirects, errors nor an earlier start hide any *)
(* of it.  What is reported missing occurs on no page that was read.       *)
ReportIsComplete ==
  discovered = "ok" =>
    \A i \in DOMAIN seen :
      LET reachable == Reachable(web.starts[i], failed[i])
      IN  /\ Range(seen[i]) \subseteq reachable
          /\ Range(seen[i]) = reachable \/ Len(seen[i]) = limit
          /\ \A url \in Range(seen[i]) \ failed[i] :
               /\ Found(url) \subseteq Classified \cup Unknown
               /\ Found(url) \cap MissingClassified = {}

(* Discovery ends although pages link to each other.                       *)
DiscoveryEnds == (discovery # None) ~> (discovered # None)
=============================================================================
