---------------------------- MODULE BulkMutation ----------------------------
(***************************************************************************)
(* Mutations of several messages, from Transport.Execute to the answer     *)
(* (attachMutationManifest), and the audits of their bodies by manifest.   *)
(*                                                                         *)
(* Graph is asked for one message after the other, OWA for all at once.    *)
(* A move gives a message a new id, which ends the old one.  Other clients *)
(* of the mailbox move messages, too.                                      *)
(***************************************************************************)
EXTENDS Selection, Naturals, Sequences, FiniteSets, SequencesExt

CONSTANTS
  Message,
  Mutation, Audit,  \* the calls; each happens at most once
  Moving,           \* the mutations that move messages; others patch them
  Backends,         \* \subseteq {"graph", "owa"}
  Targets,          \* per backend, what agents ask it for: sequences of
                    \* messages and Blank
  MaxBodies,        \* maxBatchBodyFetch
  Shared,           \* the messages that other clients of the mailbox move
  TTL, MaxClock, MaxVersion,
  Blank,            \* an id of white space
  None

Id == Message \X (0..MaxVersion)

Manifests == INSTANCE ManifestStore

ASSUME CallAssumption ==
  Mutation \cap Audit = {} /\ Moving \subseteq Mutation /\ None \notin Mutation

ASSUME ConstantAssumption ==
  /\ Backends \subseteq {"graph", "owa"}
  /\ Targets \in [Backends -> SUBSET Seq(Message \cup {Blank})]
  /\ MaxBodies \in Nat \ {0} /\ Shared \subseteq Message
  /\ {TTL, MaxClock, MaxVersion} \subseteq Nat
  /\ Blank \notin Id /\ None \notin Manifests!Record

VARIABLES
  clock,
  backend,        \* the transport
  version,        \* per message, which of its ids is current
  changer,        \* per message, the mutation that changed it last, or None
  applied,        \* per mutation, the messages the provider changed for it
  silent,         \* per mutation, those of which an answer said nothing, and
  named,          \* those whose new id an answer told (read by no action)
  manifests,
  pc,             \* per call, where it is
  asked,          \* per call, the ids it asks the provider for
  report,         \* per mutation, what it has learnt
  fetched,        \* per audit, how many of its ids it has asked for
  read            \* per audit, the messages whose bodies it has got

vars == << clock, backend, version, changer, applied, silent, named, manifests,
           pc, asked, report, fetched, read >>

mailbox == << version, changer, applied >>
answers == << silent, named >>
audits == << fetched, read >>

Call == Mutation \cup Audit

(* bulkMoveResult, or the result of OWA: whether all went well, the ids    *)
(* that succeeded and that failed, as they were requested, and the ids     *)
(* under which the provider has the messages now.                          *)
Report == [ ok : BOOLEAN, succeeded : Seq(Id), failed : Seq(Id \cup {Blank}),
            moved : Seq(Id) ]

Nothing == [ ok |-> FALSE, succeeded |-> << >>, failed |-> << >>, moved |-> << >> ]

TypeOK ==
  /\ clock \in 0..MaxClock
  /\ backend \in Backends
  /\ version \in [Message -> 0..MaxVersion]
  /\ changer \in [Message -> Mutation \cup {None}]
  /\ {applied, silent, named} \subseteq [Mutation -> SUBSET Message]
  /\ manifests \in [Mutation -> Manifests!Record \cup {None}]
  /\ \A c \in Mutation :
       manifests[c] # None => manifests[c].expiresAt <= clock + TTL
  /\ pc \in [Call -> {"idle", "executing", "executed", "answered", "lost"}]
  /\ asked \in [Call -> Seq(Id \cup {Blank})]
  /\ report \in [Mutation -> Report]
  /\ fetched \in [Audit -> 0..MaxBodies]
  /\ read \in [Audit -> SUBSET Message]

Init ==
  /\ clock = 0
  /\ backend \in Backends
  /\ version = [m \in Message |-> 0]
  /\ changer = [m \in Message |-> None]
  /\ applied = [c \in Mutation |-> {}]
  /\ silent = [c \in Mutation |-> {}] /\ named = [c \in Mutation |-> {}]
  /\ manifests = Manifests!Init
  /\ pc = [c \in Call |-> "idle"]
  /\ asked = [c \in Call |-> << >>]
  /\ report = [c \in Mutation |-> Nothing]
  /\ fetched = [a \in Audit |-> 0]
  /\ read = [a \in Audit |-> {}]

Goto(c, to) == pc' = [pc EXCEPT ![c] = to]

IdOf(t) == IF t = Blank THEN Blank ELSE << t, version[t] >>

Current(id) == id # Blank /\ version[id[1]] = id[2]

(* A mutation leaves the gate with the ids that the agent saw last, some   *)
(* of them perhaps twice.                                                  *)
Begin(c) ==
  /\ c \in Mutation /\ pc[c] = "idle"
  /\ backend = "owa" => c \in Moving
  /\ \E targets \in Targets[backend] :
       /\ \E i \in DOMAIN targets : targets[i] # Blank
       /\ asked' = [asked EXCEPT ![c] = [i \in DOMAIN targets |->
                                           IdOf(targets[i])]]
  /\ Goto(c, "executing")
  /\ UNCHANGED << clock, backend, mailbox, answers, manifests, report, audits >>
-----------------------------------------------------------------------------
(* What the provider does to messages for a mutation.                      *)

CanChange(c, id) == Current(id) /\ (c \in Moving => id[2] < MaxVersion)

Apply(c, ms) ==
  /\ version' = [m \in Message |->
                   IF c \in Moving /\ m \in ms THEN version[m] + 1
                                               ELSE version[m]]
  /\ changer' = [m \in Message |-> IF m \in ms THEN c ELSE changer[m]]
  /\ applied' = [applied EXCEPT ![c] = @ \cup ms]

(* The id by which the provider answers for a message it changed.          *)
NewId(c, id) == << id[1], IF c \in Moving THEN id[2] + 1 ELSE id[2] >>
-----------------------------------------------------------------------------
(* Graph: moveMessages, patchMessages.                                     *)

Tried(c) == Len(report[c].succeeded) + Len(report[c].failed)

NextId(c) == asked[c][Tried(c) + 1]

AskGraph(c) ==
  /\ backend = "graph"
  /\ c \in Mutation /\ pc[c] = "executing" /\ Tried(c) < Len(asked[c])
  /\ UNCHANGED << clock, backend, manifests, pc, asked, audits >>

(* The message is changed.  Of one that was moved the answer tells the new *)
(* id, or not; the code asks no more of it than to be of HTTP 2xx.         *)
Changes(c, told) ==
  /\ AskGraph(c)
  /\ CanChange(c, NextId(c)) /\ (told => c \in Moving)
  /\ Apply(c, {NextId(c)[1]})
  /\ named' = [named EXCEPT ![c] = IF told THEN @ \cup {NextId(c)[1]} ELSE @]
  /\ UNCHANGED silent

(* Seeded fault: the manifest gets the id that was asked for.              *)
GraphAnswersOldId(c) ==
  \E told \in BOOLEAN :
    /\ Changes(c, told)
    /\ report' = [report EXCEPT
         ![c].succeeded = Append(@, NextId(c)),
         ![c].moved = IF told THEN Append(@, NextId(c)) ELSE @]

GraphAnswers(c) ==
  \E told \in BOOLEAN :
    /\ Changes(c, told)
    /\ report' = [report EXCEPT
         ![c].succeeded = Append(@, NextId(c)),
         ![c].moved = IF told THEN Append(@, NewId(c, NextId(c))) ELSE @]

(* Seeded fault: a message that fails is passed over.                      *)
GraphFailsSilently(c) ==
  /\ AskGraph(c)
  /\ NextId(c) # Blank
  /\ UNCHANGED << mailbox, answers >>
  /\ report' = [report EXCEPT ![c].succeeded = Append(@, NextId(c))]

(* There is no token, the provider refuses or cannot be reached, or it     *)
(* does what it was asked for and its answer is lost.  The others follow.  *)
GraphFails(c) ==
  /\ AskGraph(c)
  /\ \/ UNCHANGED mailbox
     \/ CanChange(c, NextId(c)) /\ Apply(c, {NextId(c)[1]})
  /\ report' = [report EXCEPT ![c].failed = Append(@, NextId(c))]
  /\ UNCHANGED answers

(* reversibleMutationResponse, and the same for deleted items.             *)
GraphIsDone(c) ==
  /\ backend = "graph"
  /\ c \in Mutation /\ pc[c] = "executing" /\ Tried(c) = Len(asked[c])
  /\ report' = [report EXCEPT ![c].ok = (report[c].failed = << >>)]
  /\ Goto(c, "executed")
  /\ UNCHANGED << clock, backend, mailbox, answers, manifests, asked, audits >>
-----------------------------------------------------------------------------
(* OWA: one MoveItem or DeleteItem for all ids, blank ones as well.        *)

AskOwa(c) ==
  /\ backend = "owa"
  /\ c \in Mutation /\ pc[c] = "executing"
  /\ Goto(c, "executed")
  /\ UNCHANGED << clock, backend, manifests, asked, audits >>

(* The provider changes some of the items; of an item that is listed twice *)
(* it finds the first occurrence only.                                     *)
Doable(c) ==
  { i \in DOMAIN asked[c] :
      /\ CanChange(c, asked[c][i])
      /\ \A j \in 1..(i - 1) : asked[c][j] # asked[c][i] }

MessagesAt(c, done) == { asked[c][i][1] : i \in done }

NotBlank(ids) == Select(ids, { i \in DOMAIN ids : ids[i] # Blank })

(* Seeded fault: the messages of the answer are not looked at.             *)
OwaReportAll(c, class, told) ==
  [ ok |-> TRUE, succeeded |-> NotBlank(asked[c]),
    failed |-> << >>, moved |-> << >> ]

(* anyStrings, and the loop of moveItemResult and moveToDeletedResult: the *)
(* blank ids are dropped from what was requested, but not from what was    *)
(* sent, and the response messages are matched by their index among the    *)
(* former.  What fails is only what a message has a class for other than   *)
(* Success; a message that is missing or has no class passes for success,  *)
(* an answer without messages for the success of all.                      *)
OwaReport(c, class, told) ==
  LET requested == NotBlank(asked[c])
      bad == { i \in DOMAIN requested \cap DOMAIN class : class[i] = "other" }
      good == DOMAIN requested \ bad
      items == Select(asked[c], good \cap told)
  IN  [ ok        |-> bad = {},
        succeeded |-> Select(requested, good),
        failed    |-> Select(requested, bad),
        moved     |-> [n \in DOMAIN items |-> NewId(c, items[n])] ]

(* The indices of the ids of which an answer says nothing.                 *)
Unsaid(c, class) ==
  { i \in DOMAIN asked[c] : /\ asked[c][i] # Blank
                            /\ i \in DOMAIN class => class[i] = "blank" }

(* An answer of HTTP 200 with a response message for each of the first n   *)
(* ids, or for none: Success is said of what was done only, but a message  *)
(* can say nothing, be missing, or be a warning about what was done.  The  *)
(* new id of an item that was moved is told or not, item by item.          *)
OwaAnswers(c) ==
  /\ AskOwa(c)
  /\ \E done \in SUBSET Doable(c), n \in 0..Len(asked[c]) :
     \E class \in [1..n -> {"success", "blank", "other"}],
        told \in SUBSET (done \cap 1..n) :
       /\ \A i \in 1..n : class[i] = "success" => i \in done
       /\ \A i \in told : class[i] # "other"
       /\ Apply(c, MessagesAt(c, done))
       /\ report' = [report EXCEPT ![c] = OwaReport(c, class, told)]
       /\ silent' = [silent EXCEPT ![c] = MessagesAt(c, Unsaid(c, class))]
       /\ named' = [named EXCEPT ![c] = MessagesAt(c, told)]

(* No session, no answer, or an error for the whole request.               *)
OwaFails(c) ==
  /\ AskOwa(c)
  /\ \/ UNCHANGED mailbox
     \/ \E done \in SUBSET Doable(c) : Apply(c, MessagesAt(c, done))
  /\ UNCHANGED << report, answers >>
-----------------------------------------------------------------------------
(* attachMutationManifest: a manifest of the new ids, or for mutations     *)
(* that keep ids of those that succeeded.  (Of a transport that lists      *)
(* nothing it would be the ids of the payload; both list.)                 *)

ManifestIds(c) ==
  IF report[c].moved # << >> THEN report[c].moved
  ELSE IF c \in Moving THEN << >>
  ELSE report[c].succeeded

Respond(c) ==
  /\ c \in Mutation /\ pc[c] = "executed"
  /\ \/ /\ ManifestIds(c) # << >>
        /\ manifests' = Manifests!Issue(manifests, c, ManifestIds(c), clock)
     \/ UNCHANGED manifests   \* nothing to list, or no random id
  /\ Goto(c, "answered")
  /\ UNCHANGED << clock, backend, mailbox, answers, asked, report, audits >>
-----------------------------------------------------------------------------
(* mailAuditManifestBodiesHandler and fetchBodies.                         *)

Bodies(ids) == SubSeq(ids, 1, IF Len(ids) < MaxBodies THEN Len(ids) ELSE MaxBodies)

BeginAudit(a) ==
  /\ a \in Audit /\ pc[a] = "idle"
  /\ \E c \in Mutation :
       /\ pc[c] = "answered"
       /\ manifests' = Manifests!Get(manifests, c, clock)
       /\ IF Manifests!Live(manifests, c, clock)
          THEN /\ asked' = [asked EXCEPT ![a] = Bodies(manifests[c].ids)]
               /\ Goto(a, "executing")
          ELSE Goto(a, "answered") /\ UNCHANGED asked
  /\ UNCHANGED << clock, backend, mailbox, answers, report, audits >>

(* One mail.fetch_body: a body, or an error that is counted.               *)
FetchBody(a) ==
  /\ a \in Audit /\ pc[a] = "executing" /\ fetched[a] < Len(asked[a])
  /\ fetched' = [fetched EXCEPT ![a] = @ + 1]
  /\ LET id == asked[a][fetched[a] + 1]
     IN  \/ Current(id) /\ read' = [read EXCEPT ![a] = @ \cup {id[1]}]
         \/ UNCHANGED read
  /\ UNCHANGED << clock, backend, mailbox, answers, manifests, pc, asked, report >>

AnswerAudit(a) ==
  /\ a \in Audit /\ pc[a] = "executing" /\ fetched[a] = Len(asked[a])
  /\ Goto(a, "answered")
  /\ UNCHANGED << clock, backend, mailbox, answers, manifests, asked, report, audits >>
-----------------------------------------------------------------------------
(* The environment.                                                        *)

Tick ==
  /\ clock < MaxClock
  /\ clock' = clock + 1
  /\ UNCHANGED << backend, mailbox, answers, manifests, pc, asked, report, audits >>

(* Another client of the mailbox moves a message.                          *)
MoveElsewhere(m) ==
  /\ version[m] < MaxVersion
  /\ version' = [version EXCEPT ![m] = @ + 1]
  /\ changer' = [changer EXCEPT ![m] = None]
  /\ UNCHANGED << clock, backend, applied, answers, manifests, pc, asked, report,
                  audits >>

(* The server process ends and another starts.                             *)
Restart ==
  /\ manifests' = Manifests!Init
  /\ pc' = [c \in Call |-> IF pc[c] \in {"executing", "executed"}
                           THEN "lost" ELSE pc[c]]
  /\ UNCHANGED << clock, backend, mailbox, answers, asked, report, audits >>
-----------------------------------------------------------------------------
Next ==
  \/ \E c \in Mutation :
       \/ Begin(c) \/ GraphAnswers(c) \/ GraphFails(c) \/ GraphIsDone(c)
       \/ OwaAnswers(c) \/ OwaFails(c) \/ Respond(c)
  \/ \E a \in Audit : BeginAudit(a) \/ FetchBody(a) \/ AnswerAudit(a)
  \/ \E m \in Shared : MoveElsewhere(m)
  \/ Tick
  \/ Restart

Spec == Init /\ [][Next]_vars
-----------------------------------------------------------------------------
(* Properties.                                                             *)

MessagesOf(ids) == { id[1] : id \in Range(ids) }

(* What is reported to have succeeded has been done, unless it is of a     *)
(* message of which OWA's answer said nothing, since there silence passes  *)
(* for success; an id that was asked for is reported once; and a mutation  *)
(* whose answer is a success has done everything, but for what was passed  *)
(* over in silence, although each message fails or succeeds by itself,     *)
(* answers are lost or incomplete and ids become outdated on the way.      *)
SuccessIsReal ==
  \A c \in Mutation : pc[c] \in {"executed", "answered"} =>
    /\ MessagesOf(report[c].succeeded) \subseteq applied[c] \cup silent[c]
    /\ report[c].ok =>
         \A i \in DOMAIN asked[c] : asked[c][i] # Blank =>
           asked[c][i][1] \in applied[c] \cup silent[c]
    /\ \/ report[c] = Nothing
       \/ Tried(c) = Cardinality({ i \in DOMAIN asked[c] : asked[c][i] # Blank
                                                         \/ backend = "graph" })

(* A manifest of a move lists exactly the messages whose new id the        *)
(* answers told, which may be fewer than were moved, any other manifest    *)
(* those that were reported to have changed; all of them were reported as  *)
(* successes and really changed, and they are listed under the ids they    *)
(* have now unless they were changed since: no id of before the move, none *)
(* of a message that failed or of which nothing was said.  And the bodies  *)
(* that an audit reads by it are all of messages that one mutation has     *)
(* changed, whatever has happened to their ids since.                      *)
ManifestIsHonest ==
  /\ \A c \in Mutation : manifests[c] # None =>
       /\ MessagesOf(manifests[c].ids) =
            IF c \in Moving THEN named[c] ELSE MessagesOf(report[c].succeeded)
       /\ MessagesOf(manifests[c].ids) \subseteq MessagesOf(report[c].succeeded)
       /\ \A id \in Range(manifests[c].ids) :
            id[1] \in applied[c] /\ (changer[id[1]] = c => Current(id))
  /\ \A a \in Audit : \E c \in Mutation : read[a] \subseteq applied[c]
=============================================================================
