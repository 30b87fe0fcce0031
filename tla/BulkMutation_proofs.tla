------------------------- MODULE BulkMutation_proofs -------------------------
(***************************************************************************)
(* Proofs about mutations of several messages: what they report to have    *)
(* done has been done, or OWA said nothing of it, and their manifests list *)
(* just what was done and named, however many mutations, audits and other  *)
(* clients of the mailbox there are, and whichever requests fail or lose   *)
(* their answers.  The one exception is what OWA is asked for with a blank *)
(* id, so there is none here.                                              *)
(***************************************************************************)
EXTENDS BulkMutation, Selection_proofs

(* What an audit has asked for is part of what it was to read.             *)
AuditTypes ==
  \A a \in Audit :
    /\ asked[a] \in Seq(Id) /\ Len(asked[a]) <= MaxBodies
    /\ fetched[a] <= Len(asked[a])
    /\ pc[a] = "idle" => fetched[a] = 0 /\ read[a] = {}

TypeInv == TypeOK /\ AuditTypes

(* Ids that are not blank name a message and one of its versions.          *)
LEMMA IdParts ==
  ASSUME NEW id \in Id \cup {Blank}, id # Blank
  PROVE  id \in Id /\ id[1] \in Message /\ id[2] \in 0..MaxVersion
                   /\ id[2] \in Nat /\ id = << id[1], id[2] >>
<1>1. MaxVersion \in Nat
  BY ConstantAssumption
<1> QED
  BY <1>1 DEF Id

LEMMA CallFacts ==
  /\ Mutation \cap Audit = {} /\ Moving \subseteq Mutation
  /\ \A c \in Mutation : c # None
  /\ Mutation \subseteq Call /\ Audit \subseteq Call
BY CallAssumption DEF Call

(* The provider changes the messages of some ids that a mutation asks for. *)
Did(c, ids) ==
  /\ ids \subseteq Range(asked[c])
  /\ \A id \in ids : CanChange(c, id)
  /\ Apply(c, { id[1] : id \in ids })

LEMMA DidFacts ==
  ASSUME TypeInv, NEW c \in Mutation, NEW ids, Did(c, ids)
  PROVE  /\ \A id \in ids : /\ id \in Id /\ id # Blank /\ id[1] \in Message
                            /\ Current(id) /\ NewId(c, id) \in Id
                            /\ NewId(c, id)[1] = id[1]
         /\ version' \in [Message -> 0..MaxVersion]
         /\ changer' \in [Message -> Mutation \cup {None}]
         /\ applied' \in [Mutation -> SUBSET Message]
         /\ \A m \in Message : version[m] <= version'[m]
         /\ \A d \in Mutation : applied[d] \subseteq applied'[d]
         /\ \A d \in Mutation \ {c} : applied'[d] = applied[d]
         /\ \A id \in ids :
              /\ version'[id[1]] = NewId(c, id)[2] /\ id[1] \in applied'[c]
              /\ changer'[id[1]] = c
         /\ \A m \in applied'[c] : m \in applied[c] \/ \E id \in ids : m = id[1]
         /\ \A m \in Message : (\E id \in ids : m = id[1]) \/
              (version'[m] = version[m] /\ changer'[m] = changer[m])
<1> DEFINE ms == { id[1] : id \in ids }
<1>0. MaxVersion \in Nat
  BY ConstantAssumption
<1>1. /\ asked[c] \in Seq(Id \cup {Blank})
      /\ version \in [Message -> 0..MaxVersion]
      /\ changer \in [Message -> Mutation \cup {None}]
      /\ applied \in [Mutation -> SUBSET Message]
  BY CallFacts DEF TypeInv, TypeOK
<1>2. ids \subseteq Id \cup {Blank}
  BY <1>1, RangeOfSeq DEF Did
<1>3. ASSUME NEW id \in ids
      PROVE  /\ id \in Id /\ id # Blank /\ id[1] \in Message /\ Current(id)
             /\ id[2] = version[id[1]] /\ id[2] \in 0..MaxVersion
             /\ c \in Moving => id[2] < MaxVersion
             /\ NewId(c, id) \in Id /\ NewId(c, id)[1] = id[1]
             /\ NewId(c, id)[2] = IF c \in Moving THEN id[2] + 1 ELSE id[2]
  <2>1. Current(id) /\ id # Blank /\ (c \in Moving => id[2] < MaxVersion)
    BY DEF Did, CanChange, Current
  <2>2. /\ id \in Id /\ id[1] \in Message /\ id[2] \in 0..MaxVersion
        /\ id[2] = version[id[1]]
    BY <2>1, <1>2, IdParts DEF Current
  <2>3. (IF c \in Moving THEN id[2] + 1 ELSE id[2]) \in 0..MaxVersion
    BY <1>0, <2>1, <2>2
  <2> QED
    BY <2>1, <2>2, <2>3 DEF NewId, Id
<1>4. /\ version' = [m \in Message |-> IF c \in Moving /\ m \in ms THEN version[m] + 1
                                                                  ELSE version[m]]
      /\ changer' = [m \in Message |-> IF m \in ms THEN c ELSE changer[m]]
      /\ applied' = [applied EXCEPT ![c] = @ \cup ms]
  BY DEF Did, Apply
<1>5. ms \subseteq Message /\ \A m \in ms : \E id \in ids : m = id[1]
  BY <1>3
<1>6. \A id \in ids : id[1] \in ms
  OBVIOUS
<1>7. ASSUME NEW m \in Message
      PROVE  version'[m] \in 0..MaxVersion /\ version[m] <= version'[m]
  <2>1. CASE c \in Moving /\ m \in ms
    <3>1. version[m] < MaxVersion
      BY <1>3, <1>5, <2>1
    <3> QED BY <1>0, <1>1, <1>4, <2>1, <3>1
  <2>2. CASE ~ (c \in Moving /\ m \in ms)
    BY <1>0, <1>1, <1>4, <2>2
  <2> QED BY <2>1, <2>2
<1>8. \A id \in ids :
        /\ version'[id[1]] = NewId(c, id)[2] /\ id[1] \in applied'[c]
        /\ changer'[id[1]] = c
  <2> SUFFICES ASSUME NEW id \in ids
               PROVE  /\ version'[id[1]] = NewId(c, id)[2] /\ id[1] \in applied'[c]
                      /\ changer'[id[1]] = c
    OBVIOUS
  <2>1. id[1] \in ms /\ id[1] \in Message
    BY <1>3, <1>6
  <2> HIDE DEF ms
  <2>2. version'[id[1]] = IF c \in Moving THEN version[id[1]] + 1 ELSE version[id[1]]
    BY <1>4, <2>1
  <2> QED BY <1>1, <1>3, <1>4, <2>1, <2>2
<1>9. /\ changer' \in [Message -> Mutation \cup {None}]
      /\ applied' \in [Mutation -> SUBSET Message]
  BY <1>1, <1>4, <1>5
<1>10. version' \in [Message -> 0..MaxVersion]
  BY <1>4, <1>7
<1>11. \A m \in applied'[c] : m \in applied[c] \/ \E id \in ids : m = id[1]
  BY <1>1, <1>4, <1>5
<1>12. \A m \in Message : (\E id \in ids : m = id[1]) \/
              (version'[m] = version[m] /\ changer'[m] = changer[m])
  BY <1>4, <1>5
<1>13. /\ \A d \in Mutation : applied[d] \subseteq applied'[d]
       /\ \A d \in Mutation \ {c} : applied'[d] = applied[d]
  BY <1>1, <1>4
<1> QED
  BY <1>3, <1>7, <1>8, <1>9, <1>10, <1>11, <1>12, <1>13

(* To do nothing is to change the messages of no id.                       *)
LEMMA NothingDone ==
  ASSUME TypeInv, NEW c \in Mutation, UNCHANGED mailbox
  PROVE  Did(c, {})
<1>1. UNCHANGED version /\ UNCHANGED changer /\ UNCHANGED applied
  BY DEF mailbox
<1>2. /\ version \in [Message -> 0..MaxVersion]
      /\ changer \in [Message -> Mutation \cup {None}]
      /\ applied \in [Mutation -> SUBSET Message]
  BY DEF TypeInv, TypeOK
<1>3. { id[1] : id \in {} } = {}
  OBVIOUS
<1>4. Apply(c, {})
  BY <1>1, <1>2 DEF Apply
<1> QED
  BY <1>3, <1>4 DEF Did

LEMMA NextIdFacts ==
  ASSUME TypeInv, NEW c \in Mutation, Tried(c) < Len(asked[c])
  PROVE  /\ Tried(c) \in Nat /\ Tried(c) + 1 \in DOMAIN asked[c]
         /\ NextId(c) \in Range(asked[c]) /\ NextId(c) \in Id \cup {Blank}
         /\ report[c] \in Report /\ asked[c] \in Seq(Id \cup {Blank})
<1>1. report[c] \in Report /\ asked[c] \in Seq(Id \cup {Blank})
  BY CallFacts DEF TypeInv, TypeOK
<1>2. report[c].succeeded \in Seq(Id) /\ report[c].failed \in Seq(Id \cup {Blank})
  BY <1>1 DEF Report
<1>3. Len(report[c].succeeded) \in Nat /\ Len(report[c].failed) \in Nat
      /\ Len(asked[c]) \in Nat /\ DOMAIN asked[c] = 1..Len(asked[c])
  BY <1>1, <1>2
<1>4. Tried(c) \in Nat /\ Tried(c) + 1 \in 1..Len(asked[c])
  <2>1. \A m, n \in Nat : m + n \in Nat
    OBVIOUS
  <2>2. Tried(c) \in Nat
    BY <1>3, <2>1, Zenon DEF Tried
  <2> QED
    BY <1>3, <2>2
<1>5. NextId(c) \in Range(asked[c])
  BY <1>3, <1>4 DEF NextId, Range
<1> QED
  BY <1>1, <1>3, <1>4, <1>5, RangeOfSeq

LEMMA Narrowed ==
  ASSUME NEW S, NEW T, NEW s \in Seq(S), Range(s) \subseteq T
  PROVE  s \in Seq(T)
<1>1. Len(s) \in Nat /\ DOMAIN s = 1..Len(s) /\ s = [i \in 1..Len(s) |-> s[i]]
  OBVIOUS
<1>2. \A i \in 1..Len(s) : s[i] \in T
  BY <1>1 DEF Range
<1>3. s \in [1..Len(s) -> T]
  BY <1>1, <1>2
<1> QED
  BY <1>1, <1>3, SeqDef

(* What is requested of OWA is what is sent, without the blank ids.        *)
LEMMA NotBlankFacts ==
  ASSUME NEW s \in Seq(Id \cup {Blank})
  PROVE  /\ NotBlank(s) \in Seq(Id)
         /\ Len(NotBlank(s)) = Cardinality({ i \in DOMAIN s : s[i] # Blank })
         /\ Blank \notin Range(s) => NotBlank(s) = s
<1> DEFINE kept == { i \in DOMAIN s : s[i] # Blank }
<1>1. NotBlank(s) = Select(s, kept)
  BY DEF NotBlank
<1>2. kept \subseteq DOMAIN s /\ \A i \in kept : s[i] \in Id
  OBVIOUS
<1>3. Blank \notin Range(s) => kept = DOMAIN s
  BY DEF Range
<1> HIDE DEF kept
<1>4. /\ Select(s, kept) \in Seq(Id \cup {Blank})
      /\ Len(Select(s, kept)) = Cardinality(kept)
      /\ Range(Select(s, kept)) = { s[i] : i \in kept }
  BY <1>2, SelectFacts
<1>5. Range(Select(s, kept)) \subseteq Id
  BY <1>2, <1>4
<1>6. Select(s, kept) \in Seq(Id)
  BY <1>4, <1>5, Narrowed
<1>7. Blank \notin Range(s) => Select(s, kept) = s
  BY <1>3, SelectAll
<1> QED
  BY <1>1, <1>4, <1>6, <1>7 DEF kept

(* The ids of the items that OWA changes, and of the items that it moves   *)
(* among those with a response message.                                    *)
IdsAt(c, done) == { asked[c][i] : i \in done }

LEMMA DoneFacts ==
  ASSUME TypeInv, NEW c \in Mutation, NEW done \in SUBSET Doable(c)
  PROVE  /\ asked[c] \in Seq(Id \cup {Blank}) /\ done \subseteq DOMAIN asked[c]
         /\ IdsAt(c, done) \subseteq Range(asked[c])
         /\ \A id \in IdsAt(c, done) : CanChange(c, id)
         /\ MessagesAt(c, done) = { id[1] : id \in IdsAt(c, done) }
<1>1. asked[c] \in Seq(Id \cup {Blank})
  BY CallFacts DEF TypeInv, TypeOK
<1>2. done \subseteq DOMAIN asked[c] /\ \A i \in done : CanChange(c, asked[c][i])
  BY DEF Doable
<1> QED
  BY <1>1, <1>2 DEF IdsAt, MessagesAt, Range

LEMMA DidAtOwa ==
  ASSUME TypeInv, NEW c \in Mutation, NEW done \in SUBSET Doable(c),
         Apply(c, MessagesAt(c, done))
  PROVE  Did(c, IdsAt(c, done))
BY DoneFacts DEF Did

LEMMA NewIdsAreIds ==
  ASSUME NEW c \in Mutation, NEW id \in Id, CanChange(c, id)
  PROVE  NewId(c, id) \in Id /\ NewId(c, id)[1] = id[1]
<1>1. /\ id # Blank /\ MaxVersion \in Nat
  BY ConstantAssumption
<1>2. id[1] \in Message /\ id[2] \in 0..MaxVersion
  BY <1>1, IdParts
<1>3. (IF c \in Moving THEN id[2] + 1 ELSE id[2]) \in 0..MaxVersion
  BY <1>1, <1>2 DEF CanChange
<1> QED
  BY <1>2, <1>3 DEF NewId, Id

(* An answer of OWA is about items that it has changed; Success is said of *)
(* none but these, and new ids are told of none but these.                 *)
Answer(c, done, class, told) ==
  /\ done \in SUBSET Doable(c) /\ told \subseteq done
  /\ \A i \in told : i \in DOMAIN class /\ class[i] # "other"
  /\ \A i \in DOMAIN class : class[i] \in {"success", "blank", "other"}
  /\ \A i \in DOMAIN class : class[i] = "success" => i \in done

LEMMA UnsaidFacts ==
  ASSUME TypeInv, NEW c \in Mutation, NEW class
  PROVE  /\ Unsaid(c, class) \subseteq DOMAIN asked[c]
         /\ \A i \in Unsaid(c, class) : asked[c][i] \in Id
         /\ MessagesAt(c, Unsaid(c, class)) \subseteq Message
<1>1. asked[c] \in Seq(Id \cup {Blank})
  BY CallFacts DEF TypeInv, TypeOK
<1>2. \A i \in Unsaid(c, class) : asked[c][i] \in Id
  BY <1>1 DEF Unsaid
<1> QED
  BY <1>2 DEF Unsaid, MessagesAt, Id

(* What is reported of OWA's answer: what succeeded was done, or nothing   *)
(* was said of it.                                                         *)
LEMMA OwaReportFacts ==
  ASSUME TypeInv, NEW c \in Mutation, NEW done, NEW class, NEW told,
         Answer(c, done, class, told)
  PROVE  LET r == OwaReport(c, class, told)
         IN  /\ r \in Report
             /\ Len(r.succeeded) + Len(r.failed)
                  = Cardinality({ i \in DOMAIN asked[c] : asked[c][i] # Blank })
             /\ Blank \notin Range(asked[c]) =>
                  /\ Range(r.succeeded) \subseteq IdsAt(c, done \cup Unsaid(c, class))
                  /\ IdsAt(c, told) \subseteq Range(r.succeeded)
                  /\ Range(r.moved) = { NewId(c, id) : id \in IdsAt(c, told) }
                  /\ r.ok => DOMAIN asked[c] \subseteq done \cup Unsaid(c, class)
<1> DEFINE requested == NotBlank(asked[c])
           bad == { i \in DOMAIN requested \cap DOMAIN class : class[i] = "other" }
           good == DOMAIN requested \ bad
           both == good \cap told
           sent == Select(asked[c], both)
           movedIds == [n \in DOMAIN sent |-> NewId(c, sent[n])]
<1>0. /\ done \in SUBSET Doable(c) /\ told \subseteq done
      /\ \A i \in told : i \in DOMAIN class /\ class[i] # "other"
      /\ \A i \in DOMAIN class : class[i] \in {"success", "blank", "other"}
      /\ \A i \in DOMAIN class : class[i] = "success" => i \in done
  BY DEF Answer
<1>1. /\ asked[c] \in Seq(Id \cup {Blank}) /\ done \subseteq DOMAIN asked[c]
      /\ told \subseteq DOMAIN asked[c]
      /\ \A id \in IdsAt(c, told) : CanChange(c, id)
  <2>1. told \in SUBSET Doable(c)
    BY <1>0
  <2> QED
    BY <1>0, <2>1, DoneFacts
<1>2. /\ requested \in Seq(Id)
      /\ Len(requested) = Cardinality({ i \in DOMAIN asked[c] : asked[c][i] # Blank })
      /\ Blank \notin Range(asked[c]) => requested = asked[c]
  BY <1>1, NotBlankFacts
<1>3. /\ good \subseteq DOMAIN requested /\ bad \subseteq DOMAIN requested
      /\ both \subseteq DOMAIN asked[c] /\ both \subseteq told
  BY <1>1
<1> HIDE DEF requested, good, bad, both
<1>4. /\ Select(requested, good) \in Seq(Id) /\ Select(requested, bad) \in Seq(Id)
      /\ Len(Select(requested, good)) = Cardinality(good)
      /\ Len(Select(requested, bad)) = Cardinality(bad)
      /\ Range(Select(requested, good)) = { requested[i] : i \in good }
      /\ Range(Select(requested, bad)) = { requested[i] : i \in bad }
  BY <1>2, <1>3, SelectFacts
<1>5. /\ sent \in Seq(Id \cup {Blank})
      /\ Range(sent) = { asked[c][i] : i \in both }
  BY <1>1, <1>3, SelectFacts
<1>6. Range(sent) \subseteq IdsAt(c, told)
  BY <1>3, <1>5 DEF IdsAt
<1> HIDE DEF sent
<1>7. /\ DOMAIN sent = 1..Len(sent) /\ Len(sent) \in Nat
      /\ \A n \in DOMAIN sent : sent[n] \in IdsAt(c, told) /\ sent[n] \in Id \cup {Blank}
  BY <1>5, <1>6 DEF Range
<1>8. \A n \in DOMAIN sent : NewId(c, sent[n]) \in Id
  <2>1. \A n \in DOMAIN sent : CanChange(c, sent[n])
    BY <1>1, <1>7
  <2>2. \A n \in DOMAIN sent : sent[n] \in Id
    BY <1>7, <2>1 DEF CanChange, Current
  <2> QED
    BY <2>1, <2>2, NewIdsAreIds
<1>9. movedIds \in Seq(Id) /\ Range(movedIds) = { NewId(c, id) : id \in Range(sent) }
  <2>1. movedIds \in [1..Len(sent) -> Id]
    BY <1>7, <1>8
  <2>2. movedIds \in Seq(Id)
    BY <1>7, <2>1, SeqDef
  <2>3. /\ DOMAIN movedIds = DOMAIN sent
        /\ \A n \in DOMAIN sent : movedIds[n] = NewId(c, sent[n])
    OBVIOUS
  <2>4. \A x : x \in Range(movedIds) <=> x \in { NewId(c, id) : id \in Range(sent) }
    BY <2>3 DEF Range
  <2> QED
    BY <2>2, <2>4
<1> DEFINE r == OwaReport(c, class, told)
<1>10. r = [ ok |-> bad = {}, succeeded |-> Select(requested, good),
             failed |-> Select(requested, bad), moved |-> movedIds ]
  BY DEF OwaReport, requested, good, bad, both, sent
<1> HIDE DEF movedIds
<1>11. /\ r.ok = (bad = {}) /\ r.succeeded = Select(requested, good)
       /\ r.failed = Select(requested, bad) /\ r.moved = movedIds
       /\ r \in Report
  <2>1. Select(requested, bad) \in Seq(Id \cup {Blank})
    BY <1>4, SeqMonotonic
  <2>2. (bad = {}) \in BOOLEAN
    OBVIOUS
  <2> QED
    BY <1>4, <1>9, <1>10, <2>1, <2>2 DEF Report
<1> HIDE DEF r
<1>12. Cardinality(good) + Cardinality(bad) = Len(requested)
  <2>1. DOMAIN requested = 1..Len(requested) /\ Len(requested) \in Nat
    BY <1>2
  <2>2. IsFiniteSet(DOMAIN requested) /\ Cardinality(DOMAIN requested) = Len(requested)
    <3>1. \A n \in Nat : IsFiniteSet(1..n) /\ Cardinality(1..n) = n
      BY FS_Interval
    <3> QED
      BY <2>1, <3>1
  <2>3. IsFiniteSet(good) /\ IsFiniteSet(bad)
    BY <1>3, <2>2, FS_Subset
  <2>4. good \cup bad = DOMAIN requested /\ good \cap bad = {}
    BY <1>3 DEF good
  <2>5. Cardinality(good \cup bad) =
          Cardinality(good) + Cardinality(bad) - Cardinality(good \cap bad)
    BY <2>3, FS_Union
  <2>6. Cardinality(good) \in Nat /\ Cardinality(bad) \in Nat
    BY <2>3, FS_CardinalityType
  <2>7. Cardinality({}) = 0
    BY FS_EmptySet
  <2>8. Len(requested) = Cardinality(good) + Cardinality(bad) - 0
    BY <2>2, <2>4, <2>5, <2>7
  <2> QED
    BY <2>6, <2>8
<1>13. ASSUME Blank \notin Range(asked[c])
       PROVE  /\ Range(r.succeeded) \subseteq IdsAt(c, done \cup Unsaid(c, class))
              /\ IdsAt(c, told) \subseteq Range(r.succeeded)
              /\ Range(r.moved) = { NewId(c, id) : id \in IdsAt(c, told) }
              /\ r.ok => DOMAIN asked[c] \subseteq done \cup Unsaid(c, class)
  <2>1. requested = asked[c] /\ \A i \in DOMAIN asked[c] : asked[c][i] # Blank
    BY <1>2, <1>13 DEF Range
  <2>2. good \subseteq done \cup Unsaid(c, class)
    BY <1>0, <2>1 DEF good, bad, Unsaid
  <2>3. told \subseteq good
    BY <1>0, <1>1, <2>1 DEF good, bad
  <2>4. Range(r.succeeded) = IdsAt(c, good)
    <3>1. Range(Select(requested, good)) = { requested[i] : i \in good }
      BY <1>4
    <3> QED
      BY <1>11, <2>1, <3>1 DEF IdsAt
  <2>5. /\ IdsAt(c, good) \subseteq IdsAt(c, done \cup Unsaid(c, class))
        /\ IdsAt(c, told) \subseteq IdsAt(c, good)
    BY <2>2, <2>3 DEF IdsAt
  <2>6. Range(sent) = IdsAt(c, told)
    <3>1. both = told
      BY <2>3 DEF both
    <3> QED
      BY <1>5, <3>1 DEF IdsAt
  <2>7. r.ok => DOMAIN asked[c] \subseteq done \cup Unsaid(c, class)
    BY <1>11, <2>1, <2>2 DEF good
  <2> QED
    BY <1>9, <1>11, <2>4, <2>5, <2>6, <2>7
<1> QED
  BY <1>2, <1>4, <1>11, <1>12, <1>13 DEF r
-----------------------------------------------------------------------------
(* What the answers and failures of the provider have in common: they may  *)
(* change messages that were asked for, and are added to one report.       *)
Provides(c, ids) ==
  /\ pc[c] = "executing"
  /\ Did(c, ids)
  /\ report' \in [Mutation -> Report]
  /\ silent' \in [Mutation -> SUBSET Message] /\ named' \in [Mutation -> SUBSET Message]
  /\ \A d \in Mutation \ {c} :
       report'[d] = report[d] /\ silent'[d] = silent[d] /\ named'[d] = named[d]
  /\ pc' \in {pc, [pc EXCEPT ![c] = "executed"]}
  /\ UNCHANGED << clock, backend, manifests, asked, audits >>

LEMMA AnswersUnchanged ==
  ASSUME TypeInv, UNCHANGED answers
  PROVE  /\ silent' \in [Mutation -> SUBSET Message]
         /\ named' \in [Mutation -> SUBSET Message]
         /\ UNCHANGED << silent, named >>
BY DEF TypeInv, TypeOK, answers

LEMMA GraphAnswersFacts ==
  ASSUME TypeInv, NEW c \in Mutation, GraphAnswers(c)
  PROVE  /\ backend = "graph" /\ Tried(c) < Len(asked[c]) /\ UNCHANGED pc
         /\ CanChange(c, NextId(c)) /\ NextId(c) \in Id
         /\ Provides(c, {NextId(c)})
         /\ report'[c].ok = report[c].ok /\ report'[c].failed = report[c].failed
         /\ report'[c].succeeded = Append(report[c].succeeded, NextId(c))
         /\ silent'[c] = silent[c]
         /\ \/ /\ report'[c].moved = report[c].moved /\ named'[c] = named[c]
            \/ /\ c \in Moving
               /\ report'[c].moved = Append(report[c].moved, NewId(c, NextId(c)))
               /\ named'[c] = named[c] \cup {NextId(c)[1]}
<1>0. PICK told \in BOOLEAN :
        /\ Changes(c, told)
        /\ report' = [report EXCEPT
             ![c].succeeded = Append(@, NextId(c)),
             ![c].moved = IF told THEN Append(@, NewId(c, NextId(c))) ELSE @]
  BY DEF GraphAnswers
<1> DEFINE first == [report[c] EXCEPT !.succeeded = Append(@, NextId(c))]
           now == IF told THEN Append(report[c].moved, NewId(c, NextId(c)))
                          ELSE report[c].moved
           r == [first EXCEPT !.moved = now]
<1>1. /\ backend = "graph" /\ Tried(c) < Len(asked[c]) /\ UNCHANGED pc
      /\ pc[c] = "executing"
      /\ UNCHANGED << clock, backend, manifests, asked, audits, silent >>
      /\ CanChange(c, NextId(c)) /\ Apply(c, {NextId(c)[1]})
      /\ told => c \in Moving
      /\ named' = [named EXCEPT ![c] = IF told THEN @ \cup {NextId(c)[1]} ELSE @]
  BY <1>0 DEF Changes, AskGraph
<1>2. /\ NextId(c) \in Range(asked[c]) /\ NextId(c) \in Id \cup {Blank}
      /\ report[c] \in Report
  BY <1>1, NextIdFacts
<1>3. NextId(c) \in Id /\ NewId(c, NextId(c)) \in Id
  BY <1>1, <1>2, NewIdsAreIds DEF CanChange, Current
<1>4. { id[1] : id \in {NextId(c)} } = {NextId(c)[1]}
  OBVIOUS
<1>5. Did(c, {NextId(c)})
  BY <1>1, <1>2, <1>4 DEF Did
<1>6. /\ report \in [Mutation -> Report] /\ silent \in [Mutation -> SUBSET Message]
      /\ named \in [Mutation -> SUBSET Message]
  BY DEF TypeInv, TypeOK
<1>7. report[c].succeeded \in Seq(Id) /\ report[c].moved \in Seq(Id)
  BY <1>2 DEF Report
<1>8. Append(report[c].succeeded, NextId(c)) \in Seq(Id) /\ now \in Seq(Id)
  BY <1>3, <1>7, AppendProperties
<1> HIDE DEF now
<1>9. /\ first \in Report /\ first.moved = report[c].moved
      /\ first.ok = report[c].ok /\ first.failed = report[c].failed
      /\ first.succeeded = Append(report[c].succeeded, NextId(c))
  BY <1>2, <1>8 DEF Report
<1>10. report' = [report EXCEPT ![c] = r]
  <2> DEFINE half == [report EXCEPT ![c].succeeded = Append(@, NextId(c))]
  <2>1. half = [report EXCEPT ![c] = first]
    OBVIOUS
  <2>2. report' = [half EXCEPT ![c].moved =
                     IF told THEN Append(@, NewId(c, NextId(c))) ELSE @]
    BY <1>0
  <2> HIDE DEF half, first
  <2>3. half[c] = first
    BY <1>6, <2>1
  <2>4. report' = [half EXCEPT ![c] = r]
    BY <1>9, <2>2, <2>3 DEF now
  <2> QED
    BY <1>6, <2>1, <2>4
<1> HIDE DEF first
<1>11. /\ r \in Report /\ r.moved = now /\ r.ok = first.ok
       /\ r.failed = first.failed /\ r.succeeded = first.succeeded
  BY <1>8, <1>9 DEF Report
<1> HIDE DEF r
<1>12. report'[c] = r /\ report' \in [Mutation -> Report]
       /\ \A d \in Mutation \ {c} : report'[d] = report[d]
  BY <1>6, <1>10, <1>11
<1>13. /\ silent' \in [Mutation -> SUBSET Message] /\ silent' = silent
       /\ named' \in [Mutation -> SUBSET Message]
       /\ \A d \in Mutation \ {c} : named'[d] = named[d]
       /\ named'[c] = IF told THEN named[c] \cup {NextId(c)[1]} ELSE named[c]
  <2>1. NextId(c)[1] \in Message
    BY <1>3 DEF Id
  <2> QED
    BY <1>1, <1>6, <2>1
<1>14. Provides(c, {NextId(c)})
  BY <1>1, <1>5, <1>12, <1>13 DEF Provides
<1> QED
  BY <1>1, <1>3, <1>9, <1>11, <1>12, <1>13, <1>14 DEF now

LEMMA GraphFailsFacts ==
  ASSUME TypeInv, NEW c \in Mutation, GraphFails(c)
  PROVE  /\ backend = "graph" /\ Tried(c) < Len(asked[c]) /\ UNCHANGED pc
         /\ \E ids \in SUBSET {NextId(c)} : Provides(c, ids)
         /\ report'[c] = [report[c] EXCEPT !.failed = Append(@, NextId(c))]
         /\ silent'[c] = silent[c] /\ named'[c] = named[c]
<1>1. /\ backend = "graph" /\ Tried(c) < Len(asked[c]) /\ UNCHANGED pc
      /\ pc[c] = "executing"
      /\ UNCHANGED << clock, backend, manifests, asked, audits, answers >>
      /\ \/ UNCHANGED mailbox
         \/ CanChange(c, NextId(c)) /\ Apply(c, {NextId(c)[1]})
      /\ report' = [report EXCEPT ![c].failed = Append(@, NextId(c))]
  BY DEF GraphFails, AskGraph
<1>2. /\ NextId(c) \in Range(asked[c]) /\ NextId(c) \in Id \cup {Blank}
      /\ report[c] \in Report
  BY <1>1, NextIdFacts
<1>3. { id[1] : id \in {NextId(c)} } = {NextId(c)[1]}
  OBVIOUS
<1>4. \E ids \in SUBSET {NextId(c)} : Did(c, ids)
  <2>1. CASE UNCHANGED mailbox
    BY <2>1, NothingDone
  <2>2. CASE CanChange(c, NextId(c)) /\ Apply(c, {NextId(c)[1]})
    <3>1. Did(c, {NextId(c)})
      BY <1>2, <1>3, <2>2 DEF Did
    <3> QED
      BY <3>1
  <2> QED
    BY <1>1, <2>1, <2>2
<1>5. report[c].failed \in Seq(Id \cup {Blank})
  BY <1>2 DEF Report
<1>6. Append(report[c].failed, NextId(c)) \in Seq(Id \cup {Blank})
  BY <1>2, <1>5, AppendProperties
<1>7. [report[c] EXCEPT !.failed = Append(@, NextId(c))] \in Report
  BY <1>2, <1>6 DEF Report
<1>8. report \in [Mutation -> Report]
  BY DEF TypeInv, TypeOK
<1>9. /\ report'[c] = [report[c] EXCEPT !.failed = Append(@, NextId(c))]
      /\ report' \in [Mutation -> Report]
      /\ \A d \in Mutation \ {c} : report'[d] = report[d]
  BY <1>1, <1>7, <1>8
<1> QED
  BY <1>1, <1>4, <1>9, AnswersUnchanged DEF Provides

LEMMA GraphIsDoneFacts ==
  ASSUME TypeInv, NEW c \in Mutation, GraphIsDone(c)
  PROVE  /\ backend = "graph" /\ Tried(c) = Len(asked[c])
         /\ pc' = [pc EXCEPT ![c] = "executed"]
         /\ Provides(c, {}) /\ UNCHANGED mailbox
         /\ report'[c] = [report[c] EXCEPT !.ok = (report[c].failed = << >>)]
         /\ silent'[c] = silent[c] /\ named'[c] = named[c]
<1>1. /\ backend = "graph" /\ Tried(c) = Len(asked[c]) /\ pc[c] = "executing"
      /\ pc' = [pc EXCEPT ![c] = "executed"]
      /\ UNCHANGED << clock, backend, manifests, asked, audits, answers >>
      /\ UNCHANGED mailbox
      /\ report' = [report EXCEPT ![c].ok = (report[c].failed = << >>)]
  BY DEF GraphIsDone, Goto
<1>2. report \in [Mutation -> Report] /\ report[c] \in Report
  BY DEF TypeInv, TypeOK
<1>3. (report[c].failed = << >>) \in BOOLEAN
  OBVIOUS
<1>4. [report[c] EXCEPT !.ok = (report[c].failed = << >>)] \in Report
  BY <1>2, <1>3 DEF Report
<1>5. /\ report'[c] = [report[c] EXCEPT !.ok = (report[c].failed = << >>)]
      /\ report' \in [Mutation -> Report]
      /\ \A d \in Mutation \ {c} : report'[d] = report[d]
  BY <1>1, <1>2, <1>4
<1> QED
  BY <1>1, <1>5, NothingDone, AnswersUnchanged DEF Provides

LEMMA OwaFacts ==
  ASSUME TypeInv, NEW c \in Mutation, AskOwa(c), NEW ids, Did(c, ids),
         NEW r \in Report, report' = [report EXCEPT ![c] = r],
         NEW S \in SUBSET Message, silent' = [silent EXCEPT ![c] = S],
         NEW N \in SUBSET Message, named' = [named EXCEPT ![c] = N]
  PROVE  /\ backend = "owa" /\ pc' = [pc EXCEPT ![c] = "executed"]
         /\ Provides(c, ids) /\ report'[c] = r
         /\ silent'[c] = S /\ named'[c] = N
<1>1. /\ report \in [Mutation -> Report] /\ silent \in [Mutation -> SUBSET Message]
      /\ named \in [Mutation -> SUBSET Message]
  BY DEF TypeInv, TypeOK
<1> QED
  BY <1>1 DEF AskOwa, Goto, Provides

LEMMA OwaAnswersFacts ==
  ASSUME TypeInv, NEW c \in Mutation, OwaAnswers(c)
  PROVE  /\ backend = "owa" /\ pc' = [pc EXCEPT ![c] = "executed"]
         /\ \E done, class, told :
              /\ Answer(c, done, class, told)
              /\ Provides(c, IdsAt(c, done)) /\ report'[c] = OwaReport(c, class, told)
              /\ silent'[c] = MessagesAt(c, Unsaid(c, class))
              /\ named'[c] = MessagesAt(c, told)
<1>1. PICK done \in SUBSET Doable(c), n \in 0..Len(asked[c]) :
        \E class \in [1..n -> {"success", "blank", "other"}],
           told \in SUBSET (done \cap 1..n) :
          /\ \A i \in 1..n : class[i] = "success" => i \in done
          /\ \A i \in told : class[i] # "other"
          /\ Apply(c, MessagesAt(c, done))
          /\ report' = [report EXCEPT ![c] = OwaReport(c, class, told)]
          /\ silent' = [silent EXCEPT ![c] = MessagesAt(c, Unsaid(c, class))]
          /\ named' = [named EXCEPT ![c] = MessagesAt(c, told)]
  BY DEF OwaAnswers
<1>2. PICK class \in [1..n -> {"success", "blank", "other"}],
           told \in SUBSET (done \cap 1..n) :
        /\ \A i \in 1..n : class[i] = "success" => i \in done
        /\ \A i \in told : class[i] # "other"
        /\ Apply(c, MessagesAt(c, done))
        /\ report' = [report EXCEPT ![c] = OwaReport(c, class, told)]
        /\ silent' = [silent EXCEPT ![c] = MessagesAt(c, Unsaid(c, class))]
        /\ named' = [named EXCEPT ![c] = MessagesAt(c, told)]
  BY <1>1
<1>3. AskOwa(c)
  BY DEF OwaAnswers
<1>4. Answer(c, done, class, told)
  BY <1>2 DEF Answer
<1>5. Did(c, IdsAt(c, done)) /\ OwaReport(c, class, told) \in Report
  BY <1>2, <1>4, DidAtOwa, OwaReportFacts
<1>6. MessagesAt(c, Unsaid(c, class)) \in SUBSET Message
  BY UnsaidFacts
<1>7. MessagesAt(c, told) \in SUBSET Message
  <2>1. MessagesAt(c, told) \subseteq MessagesAt(c, done)
    BY <1>2 DEF MessagesAt
  <2>2. MessagesAt(c, done) = { id[1] : id \in IdsAt(c, done) }
    BY DoneFacts
  <2> QED
    BY <1>5, <2>1, <2>2, DidFacts
<1> DEFINE ids == IdsAt(c, done)
           now == OwaReport(c, class, told)
           S == MessagesAt(c, Unsaid(c, class))
           N == MessagesAt(c, told)
<1>8. /\ report' = [report EXCEPT ![c] = now] /\ silent' = [silent EXCEPT ![c] = S]
      /\ named' = [named EXCEPT ![c] = N]
  BY <1>2
<1>9. now \in Report /\ S \in SUBSET Message /\ N \in SUBSET Message /\ Did(c, ids)
  BY <1>5, <1>6, <1>7
<1> HIDE DEF ids, now, S, N
<1>10. /\ backend = "owa" /\ pc' = [pc EXCEPT ![c] = "executed"]
       /\ Provides(c, ids) /\ report'[c] = now /\ silent'[c] = S /\ named'[c] = N
  BY <1>3, <1>8, <1>9, OwaFacts
<1> QED
  BY <1>4, <1>10 DEF ids, now, S, N

LEMMA OwaFailsFacts ==
  ASSUME TypeInv, NEW c \in Mutation, OwaFails(c)
  PROVE  /\ backend = "owa" /\ pc' = [pc EXCEPT ![c] = "executed"]
         /\ \E ids : Provides(c, ids)
         /\ UNCHANGED report /\ silent'[c] = silent[c] /\ named'[c] = named[c]
<1>1. AskOwa(c) /\ UNCHANGED << report, answers >>
  BY DEF OwaFails
<1>2. PICK ids : Did(c, ids)
  <2>1. CASE UNCHANGED mailbox
    BY <2>1, NothingDone
  <2>2. ASSUME NEW done \in SUBSET Doable(c), Apply(c, MessagesAt(c, done))
        PROVE  Did(c, IdsAt(c, done))
    BY <2>2, DidAtOwa
  <2> QED
    BY <2>1, <2>2 DEF OwaFails
<1>3. /\ report \in [Mutation -> Report] /\ silent \in [Mutation -> SUBSET Message]
      /\ named \in [Mutation -> SUBSET Message]
  BY DEF TypeInv, TypeOK
<1>4. /\ report' = [report EXCEPT ![c] = report[c]]
      /\ silent' = [silent EXCEPT ![c] = silent[c]]
      /\ named' = [named EXCEPT ![c] = named[c]]
  BY <1>1, <1>3 DEF answers
<1>5. AskOwa(c) /\ Did(c, ids)
  BY <1>1, <1>2
<1>6. report[c] \in Report /\ silent[c] \in SUBSET Message /\ named[c] \in SUBSET Message
  BY <1>3
<1> DEFINE r == report[c]  S == silent[c]  N == named[c]
<1>7. /\ r \in Report /\ report' = [report EXCEPT ![c] = r]
      /\ S \in SUBSET Message /\ silent' = [silent EXCEPT ![c] = S]
      /\ N \in SUBSET Message /\ named' = [named EXCEPT ![c] = N]
  BY <1>4, <1>6
<1>8. silent' = silent /\ named' = named
  BY <1>1 DEF answers
<1> HIDE DEF r, S, N
<1>9. /\ backend = "owa" /\ pc' = [pc EXCEPT ![c] = "executed"]
      /\ Provides(c, ids)
  BY <1>5, <1>7, OwaFacts
<1> QED
  BY <1>1, <1>8, <1>9

(* Every step of the provider for a mutation is one of these.              *)
ProviderStep(c) ==
  \/ GraphAnswers(c) \/ GraphFails(c) \/ GraphIsDone(c)
  \/ OwaAnswers(c) \/ OwaFails(c)

LEMMA ProviderStepProvides ==
  ASSUME TypeInv, NEW c \in Mutation, ProviderStep(c)
  PROVE  \E ids : Provides(c, ids)
BY GraphAnswersFacts, GraphFailsFacts, GraphIsDoneFacts, OwaAnswersFacts,
   OwaFailsFacts DEF ProviderStep
-----------------------------------------------------------------------------
LEMMA BulkTypesInitially == Init => TypeInv
<1> SUFFICES ASSUME Init PROVE TypeInv
  OBVIOUS
<1>1. Nothing \in Report /\ << >> \in Seq(Id) /\ << >> \in Seq(Id \cup {Blank})
      /\ Len(<< >>) = 0
  BY DEF Nothing, Report
<1>2. /\ 0 \in 0..MaxClock /\ 0 \in 0..MaxVersion /\ 0 \in 0..MaxBodies
      /\ 0 <= MaxBodies
  BY ConstantAssumption
<1>3. TypeOK
  BY <1>1, <1>2 DEF Init, TypeOK, Manifests!Init
<1>4. AuditTypes
  BY <1>1, <1>2, CallFacts DEF Init, AuditTypes
<1> QED
  BY <1>3, <1>4 DEF TypeInv

LEMMA ProviderKeepsTypes ==
  ASSUME TypeInv, NEW c \in Mutation, NEW ids, Provides(c, ids)
  PROVE  TypeInv'
<1>1. /\ version' \in [Message -> 0..MaxVersion]
      /\ changer' \in [Message -> Mutation \cup {None}]
      /\ applied' \in [Mutation -> SUBSET Message]
  BY DidFacts DEF Provides
<1>2. /\ report' \in [Mutation -> Report]
      /\ silent' \in [Mutation -> SUBSET Message]
      /\ named' \in [Mutation -> SUBSET Message]
      /\ pc' \in {pc, [pc EXCEPT ![c] = "executed"]}
      /\ UNCHANGED << clock, backend, manifests, asked, fetched, read >>
  BY DEF Provides, audits
<1>3. /\ pc' \in [Call -> {"idle", "executing", "executed", "answered", "lost"}]
      /\ \A a \in Audit : pc'[a] = pc[a]
  <2>1. pc \in [Call -> {"idle", "executing", "executed", "answered", "lost"}]
    BY DEF TypeInv, TypeOK
  <2>2. c \in Call /\ c \notin Audit /\ Audit \subseteq Call
    BY CallFacts
  <2> QED
    BY <1>2, <2>1, <2>2
<1>4. TypeOK'
  BY <1>1, <1>2, <1>3 DEF TypeInv, TypeOK
<1>5. AuditTypes'
  BY <1>2, <1>3 DEF TypeInv, AuditTypes
<1> QED
  BY <1>4, <1>5 DEF TypeInv

(* The ids that an agent asks for are the current ones.                    *)
LEMMA BeginFacts ==
  ASSUME TypeInv, NEW c \in Mutation, Begin(c)
  PROVE  \E targets \in Targets[backend] :
           /\ targets \in Seq(Message \cup {Blank})
           /\ asked'[c] = [i \in DOMAIN targets |-> IdOf(targets[i])]
           /\ asked'[c] \in Seq(Id \cup {Blank})
           /\ \A d \in Call \ {c} : asked'[d] = asked[d]
           /\ asked' \in [Call -> Seq(Id \cup {Blank})]
<1>1. PICK targets \in Targets[backend] :
        asked' = [asked EXCEPT ![c] = [i \in DOMAIN targets |-> IdOf(targets[i])]]
  BY DEF Begin
<1>2. backend \in Backends /\ asked \in [Call -> Seq(Id \cup {Blank})] /\ c \in Call
      /\ version \in [Message -> 0..MaxVersion]
  BY CallFacts DEF TypeInv, TypeOK
<1>3. targets \in Seq(Message \cup {Blank})
  BY <1>2, ConstantAssumption
<1>4. DOMAIN targets = 1..Len(targets) /\ Len(targets) \in Nat
      /\ \A i \in 1..Len(targets) : targets[i] \in Message \cup {Blank}
  BY <1>3
<1>5. \A i \in 1..Len(targets) : IdOf(targets[i]) \in Id \cup {Blank}
  BY <1>2, <1>4 DEF IdOf, Id
<1>6. [i \in DOMAIN targets |-> IdOf(targets[i])] \in Seq(Id \cup {Blank})
  <2>1. [i \in 1..Len(targets) |-> IdOf(targets[i])] \in [1..Len(targets) -> Id \cup {Blank}]
    BY <1>5
  <2> QED
    BY <1>4, <2>1, SeqDef
<1> QED
  BY <1>1, <1>2, <1>3, <1>6

LEMMA BeginKeepsTypes ==
  ASSUME TypeInv, NEW c \in Mutation, Begin(c)
  PROVE  TypeInv'
<1>1. /\ asked' \in [Call -> Seq(Id \cup {Blank})]
      /\ \A d \in Call \ {c} : asked'[d] = asked[d]
  BY BeginFacts
<1>2. /\ pc' = [pc EXCEPT ![c] = "executing"]
      /\ UNCHANGED << clock, backend, version, changer, applied, silent, named, manifests,
                      report, fetched, read >>
  BY DEF Begin, Goto, mailbox, answers, audits
<1>3. /\ pc' \in [Call -> {"idle", "executing", "executed", "answered", "lost"}]
      /\ \A a \in Audit : pc'[a] = pc[a]
  <2>1. pc \in [Call -> {"idle", "executing", "executed", "answered", "lost"}]
    BY DEF TypeInv, TypeOK
  <2> QED
    BY <1>2, <2>1, CallFacts
<1>4. TypeOK'
  BY <1>1, <1>2, <1>3 DEF TypeInv, TypeOK
<1>5. AuditTypes'
  BY <1>1, <1>2, <1>3, CallFacts DEF TypeInv, AuditTypes
<1> QED
  BY <1>4, <1>5 DEF TypeInv

LEMMA RespondFacts ==
  ASSUME TypeInv, NEW c \in Mutation, Respond(c)
  PROVE  /\ ManifestIds(c) \in Seq(Id)
         /\ \/ UNCHANGED manifests
            \/ /\ manifests' \in [Mutation -> Manifests!Record \cup {None}]
               /\ manifests'[c].ids = ManifestIds(c) /\ ManifestIds(c) # << >>
               /\ manifests'[c].expiresAt = clock + TTL
               /\ \A d \in Mutation \ {c} : manifests'[d] = manifests[d]
<1>1. report[c] \in Report /\ clock \in Nat /\ TTL \in Nat
      /\ manifests \in [Mutation -> Manifests!Record \cup {None}]
  BY ConstantAssumption DEF TypeInv, TypeOK
<1>2. ManifestIds(c) \in Seq(Id)
  BY <1>1 DEF ManifestIds, Report
<1>3. CASE /\ ManifestIds(c) # << >>
           /\ manifests' = Manifests!Issue(manifests, c, ManifestIds(c), clock)
  <2> DEFINE new == [ ids |-> ManifestIds(c), expiresAt |-> clock + TTL ]
  <2>1. manifests' = [manifests EXCEPT ![c] = new]
    BY <1>3 DEF Manifests!Issue
  <2>2. clock + TTL \in Nat
    BY <1>1
  <2>3. new \in Manifests!Record
    BY <1>2, <2>2 DEF Manifests!Record
  <2>4. manifests'[c] = new
    BY <1>1, <2>1
  <2> QED
    BY <1>1, <1>2, <1>3, <2>1, <2>3, <2>4
<1> QED
  BY <1>2, <1>3 DEF Respond

LEMMA RespondKeepsTypes ==
  ASSUME TypeInv, NEW c \in Mutation, Respond(c)
  PROVE  TypeInv'
<1>1. /\ pc' = [pc EXCEPT ![c] = "answered"]
      /\ UNCHANGED << clock, backend, version, changer, applied, silent, named, asked,
                      report, fetched, read >>
  BY DEF Respond, Goto, mailbox, answers, audits
<1>2. /\ pc' \in [Call -> {"idle", "executing", "executed", "answered", "lost"}]
      /\ \A a \in Audit : pc'[a] = pc[a]
  BY <1>1, CallFacts DEF TypeInv, TypeOK
<1>3. /\ manifests' \in [Mutation -> Manifests!Record \cup {None}]
      /\ \A d \in Mutation :
           manifests'[d] # None => manifests'[d].expiresAt <= clock' + TTL
  <2>1. /\ clock \in Nat /\ TTL \in Nat
        /\ manifests \in [Mutation -> Manifests!Record \cup {None}]
        /\ \A d \in Mutation :
             manifests[d] # None => manifests[d].expiresAt <= clock + TTL
    BY ConstantAssumption DEF TypeInv, TypeOK
  <2> QED
    BY <1>1, <2>1, RespondFacts
<1>4. TypeOK'
  BY <1>1, <1>2, <1>3 DEF TypeInv, TypeOK
<1>5. AuditTypes'
  BY <1>1, <1>2 DEF TypeInv, AuditTypes
<1> QED
  BY <1>4, <1>5 DEF TypeInv

(* An audit reads the first ids of a manifest that is still alive.         *)
LEMMA BeginAuditFacts ==
  ASSUME TypeInv, NEW a \in Audit, BeginAudit(a)
  PROVE  \E c \in Mutation :
           /\ manifests' \in {manifests, [manifests EXCEPT ![c] = None]}
           /\ \/ UNCHANGED asked
              \/ /\ manifests[c] # None
                 /\ asked' = [asked EXCEPT ![a] = asked'[a]]
                 /\ asked'[a] \in Seq(Id) /\ Len(asked'[a]) <= MaxBodies
                 /\ Range(asked'[a]) \subseteq Range(manifests[c].ids)
<1>1. PICK c \in Mutation :
       /\ manifests' = Manifests!Get(manifests, c, clock)
       /\ IF Manifests!Live(manifests, c, clock)
          THEN asked' = [asked EXCEPT ![a] = Bodies(manifests[c].ids)]
          ELSE UNCHANGED asked
  BY DEF BeginAudit
<1>2. manifests' \in {manifests, [manifests EXCEPT ![c] = None]}
  BY <1>1 DEF Manifests!Get
<1>3. CASE Manifests!Live(manifests, c, clock)
  <2> DEFINE ids == manifests[c].ids
             n == IF Len(ids) < MaxBodies THEN Len(ids) ELSE MaxBodies
  <2>1. manifests[c] # None /\ manifests[c] \in Manifests!Record
    BY <1>3 DEF Manifests!Live, TypeInv, TypeOK
  <2>2. ids \in Seq(Id)
    BY <2>1 DEF Manifests!Record
  <2>3. Len(ids) \in Nat /\ MaxBodies \in Nat
    BY <2>2, ConstantAssumption
  <2>4. n \in 0..Len(ids) /\ n <= MaxBodies
    BY <2>3
  <2>5. asked' = [asked EXCEPT ![a] = SubSeq(ids, 1, n)]
    BY <1>1, <1>3 DEF Bodies
  <2> HIDE DEF ids, n
  <2>6. /\ SubSeq(ids, 1, n) \in Seq(Id) /\ Len(SubSeq(ids, 1, n)) = n
        /\ \A i \in 1..n : SubSeq(ids, 1, n)[i] = ids[i]
    BY <2>2, <2>4, SubSeqProperties
  <2>7. Range(SubSeq(ids, 1, n)) \subseteq Range(ids)
    BY <2>2, <2>3, <2>4, <2>6 DEF Range
  <2>8. asked'[a] = SubSeq(ids, 1, n)
    BY <2>5, CallFacts DEF TypeInv, TypeOK
  <2> QED
    BY <1>2, <2>1, <2>4, <2>5, <2>6, <2>7, <2>8 DEF ids
<1> QED
  BY <1>1, <1>2, <1>3

LEMMA AuditKeepsTypes ==
  ASSUME TypeInv, NEW a \in Audit, BeginAudit(a) \/ FetchBody(a) \/ AnswerAudit(a)
  PROVE  TypeInv'
<1>1. UNCHANGED << clock, backend, version, changer, applied, silent, named, report >>
  BY DEF BeginAudit, FetchBody, AnswerAudit, mailbox, answers
<1>2. /\ a \in Call /\ a \notin Mutation
      /\ pc \in [Call -> {"idle", "executing", "executed", "answered", "lost"}]
      /\ asked \in [Call -> Seq(Id \cup {Blank})] /\ asked[a] \in Seq(Id)
      /\ fetched \in [Audit -> 0..MaxBodies] /\ read \in [Audit -> SUBSET Message]
      /\ manifests \in [Mutation -> Manifests!Record \cup {None}]
      /\ \A c \in Mutation :
           manifests[c] # None => manifests[c].expiresAt <= clock + TTL
      /\ Len(asked[a]) \in Nat /\ Len(asked[a]) <= MaxBodies
      /\ MaxBodies \in Nat
  BY CallFacts, ConstantAssumption DEF TypeInv, TypeOK, AuditTypes
<1>3. CASE BeginAudit(a)
  <2>1. /\ pc[a] = "idle" /\ UNCHANGED << fetched, read >>
        /\ pc' \in {[pc EXCEPT ![a] = "executing"], [pc EXCEPT ![a] = "answered"]}
    BY <1>3 DEF BeginAudit, Goto, audits
  <2>2. PICK c \in Mutation :
           /\ manifests' \in {manifests, [manifests EXCEPT ![c] = None]}
           /\ \/ UNCHANGED asked
              \/ /\ asked' = [asked EXCEPT ![a] = asked'[a]]
                 /\ asked'[a] \in Seq(Id) /\ Len(asked'[a]) <= MaxBodies
    BY <1>3, BeginAuditFacts
  <2>3. /\ manifests' \in [Mutation -> Manifests!Record \cup {None}]
        /\ \A d \in Mutation :
             manifests'[d] # None => manifests'[d].expiresAt <= clock' + TTL
    BY <1>1, <1>2, <2>2
  <2>4. /\ asked' \in [Call -> Seq(Id \cup {Blank})]
        /\ asked'[a] \in Seq(Id) /\ Len(asked'[a]) <= MaxBodies
        /\ \A b \in Audit \ {a} : asked'[b] = asked[b]
    <3>1. asked'[a] \in Seq(Id) /\ Len(asked'[a]) <= MaxBodies
      BY <1>2, <2>2
    <3>2. asked'[a] \in Seq(Id \cup {Blank})
      BY <3>1, SeqMonotonic
    <3> QED
      BY <1>2, <2>2, <3>1, <3>2, CallFacts
  <2>5. /\ pc' \in [Call -> {"idle", "executing", "executed", "answered", "lost"}]
        /\ pc'[a] # "idle" /\ \A b \in Audit \ {a} : pc'[b] = pc[b]
    BY <1>2, <2>1, CallFacts
  <2>6. fetched[a] = 0 /\ fetched[a] <= Len(asked'[a])
    <3>1. fetched[a] = 0
      BY <2>1 DEF TypeInv, AuditTypes
    <3>2. Len(asked'[a]) \in Nat
      BY <2>4
    <3> QED
      BY <3>1, <3>2
  <2>7. TypeOK'
    BY <1>1, <2>1, <2>3, <2>4, <2>5 DEF TypeInv, TypeOK
  <2>8. AuditTypes'
    BY <2>1, <2>4, <2>5, <2>6 DEF TypeInv, AuditTypes
  <2> QED
    BY <2>7, <2>8 DEF TypeInv
<1>4. CASE FetchBody(a)
  <2>1. /\ pc[a] = "executing" /\ fetched[a] < Len(asked[a])
        /\ fetched' = [fetched EXCEPT ![a] = fetched[a] + 1]
        /\ UNCHANGED << manifests, pc, asked >>
        /\ \/ UNCHANGED read
           \/ read' = [read EXCEPT ![a] = @ \cup {asked[a][fetched[a] + 1][1]}]
    BY <1>4 DEF FetchBody
  <2>2. /\ fetched[a] + 1 \in 0..MaxBodies /\ fetched[a] + 1 <= Len(asked[a])
        /\ fetched[a] + 1 \in 1..Len(asked[a])
    BY <1>2, <2>1
  <2>3. asked[a][fetched[a] + 1][1] \in Message
    <3>1. asked[a][fetched[a] + 1] \in Id
      BY <1>2, <2>2, ElementOfSeq
    <3> QED
      BY <3>1 DEF Id
  <2>4. /\ fetched' \in [Audit -> 0..MaxBodies] /\ fetched'[a] <= Len(asked[a])
        /\ \A b \in Audit \ {a} : fetched'[b] = fetched[b]
    BY <1>2, <2>1, <2>2
  <2>5. /\ read' \in [Audit -> SUBSET Message]
        /\ \A b \in Audit \ {a} : read'[b] = read[b]
    BY <1>2, <2>1, <2>3
  <2>6. TypeOK'
    BY <1>1, <2>1, <2>4, <2>5 DEF TypeInv, TypeOK
  <2>7. AuditTypes'
    BY <2>1, <2>4, <2>5 DEF TypeInv, AuditTypes
  <2> QED
    BY <2>6, <2>7 DEF TypeInv
<1>5. CASE AnswerAudit(a)
  <2>1. /\ pc' = [pc EXCEPT ![a] = "answered"]
        /\ UNCHANGED << manifests, asked, fetched, read >>
    BY <1>5 DEF AnswerAudit, Goto, audits
  <2>2. /\ pc' \in [Call -> {"idle", "executing", "executed", "answered", "lost"}]
        /\ pc'[a] # "idle" /\ \A b \in Audit \ {a} : pc'[b] = pc[b]
    BY <1>2, <2>1, CallFacts
  <2>3. TypeOK'
    BY <1>1, <2>1, <2>2 DEF TypeInv, TypeOK
  <2>4. AuditTypes'
    BY <2>1, <2>2 DEF TypeInv, AuditTypes
  <2> QED
    BY <2>3, <2>4 DEF TypeInv
<1> QED
  BY <1>3, <1>4, <1>5

LEMMA EnvironmentKeepsTypes ==
  ASSUME TypeInv,
         Tick \/ Restart \/ (\E m \in Shared : MoveElsewhere(m)) \/ UNCHANGED vars
  PROVE  TypeInv'
<1>1. /\ clock \in 0..MaxClock /\ MaxClock \in Nat /\ TTL \in Nat /\ MaxVersion \in Nat
      /\ version \in [Message -> 0..MaxVersion]
      /\ changer \in [Message -> Mutation \cup {None}]
      /\ manifests \in [Mutation -> Manifests!Record \cup {None}]
      /\ \A c \in Mutation : /\ manifests[c] \in Manifests!Record \cup {None}
                             /\ manifests[c] # None =>
                                  manifests[c].expiresAt <= clock + TTL
      /\ pc \in [Call -> {"idle", "executing", "executed", "answered", "lost"}]
  BY ConstantAssumption DEF TypeInv, TypeOK
<1>2. CASE Tick
  <2>1. /\ clock' \in 0..MaxClock /\ clock' = clock + 1
        /\ UNCHANGED << backend, version, changer, applied, silent, named, manifests, pc,
                        asked, report, fetched, read >>
    BY <1>1, <1>2 DEF Tick, mailbox, answers, audits
  <2>2. \A c \in Mutation :
          manifests[c] # None => manifests[c].expiresAt <= clock' + TTL
    <3> SUFFICES ASSUME NEW c \in Mutation, manifests[c] # None
                 PROVE  manifests[c].expiresAt <= clock' + TTL
      OBVIOUS
    <3>1. manifests[c].expiresAt \in Nat /\ manifests[c].expiresAt <= clock + TTL
      BY <1>1 DEF Manifests!Record
    <3> QED
      BY <1>1, <2>1, <3>1
  <2>3. TypeOK'
    BY <2>1, <2>2 DEF TypeInv, TypeOK
  <2> QED
    BY <2>1, <2>3 DEF TypeInv, AuditTypes
<1>3. CASE Restart
  <2>1. /\ manifests' = [c \in Mutation |-> None]
        /\ pc' = [c \in Call |-> IF pc[c] \in {"executing", "executed"}
                                 THEN "lost" ELSE pc[c]]
        /\ UNCHANGED << clock, backend, version, changer, applied, silent, named, asked,
                        report, fetched, read >>
    BY <1>3 DEF Restart, mailbox, answers, audits, Manifests!Init
  <2>2. /\ pc' \in [Call -> {"idle", "executing", "executed", "answered", "lost"}]
        /\ \A c \in Call : pc'[c] = "idle" => pc[c] = "idle"
    BY <1>1, <2>1
  <2>3. /\ manifests' \in [Mutation -> Manifests!Record \cup {None}]
        /\ \A c \in Mutation : manifests'[c] = None
    BY <2>1
  <2>4. TypeOK'
    BY <2>1, <2>2, <2>3 DEF TypeInv, TypeOK
  <2> QED
    BY <2>1, <2>2, <2>4, CallFacts DEF TypeInv, AuditTypes
<1>4. ASSUME NEW m \in Shared, MoveElsewhere(m)
      PROVE  TypeInv'
  <2>1. /\ version[m] < MaxVersion /\ m \in Message
        /\ version' = [version EXCEPT ![m] = version[m] + 1]
        /\ changer' = [changer EXCEPT ![m] = None]
        /\ UNCHANGED << clock, backend, applied, silent, named, manifests, pc, asked,
                        report, fetched, read >>
    BY <1>4, ConstantAssumption DEF MoveElsewhere, answers, audits
  <2>2. version' \in [Message -> 0..MaxVersion]
        /\ changer' \in [Message -> Mutation \cup {None}]
    BY <1>1, <2>1
  <2>3. TypeOK'
    BY <2>1, <2>2 DEF TypeInv, TypeOK
  <2> QED
    BY <2>1, <2>3 DEF TypeInv, AuditTypes
<1>5. CASE UNCHANGED vars
  BY <1>5 DEF vars, mailbox, answers, audits, TypeInv, TypeOK, AuditTypes
<1> QED
  BY <1>2, <1>3, <1>4, <1>5

(* The actions by kind.                                                    *)
LEMMA BulkActions ==
  ASSUME [Next]_vars
  PROVE  \/ \E c \in Mutation : Begin(c) \/ ProviderStep(c) \/ Respond(c)
         \/ \E a \in Audit : BeginAudit(a) \/ FetchBody(a) \/ AnswerAudit(a)
         \/ Tick \/ Restart \/ (\E m \in Shared : MoveElsewhere(m)) \/ UNCHANGED vars
BY DEF Next, ProviderStep

LEMMA BulkTypesKept == TypeInv /\ [Next]_vars => TypeInv'
BY BulkActions, BeginKeepsTypes, ProviderStepProvides, ProviderKeepsTypes,
   RespondKeepsTypes, AuditKeepsTypes, EnvironmentKeepsTypes

(* Mutations and audits keep their types: among them, an audit reads no    *)
(* more bodies than it may, whatever the manifest lists.                   *)
THEOREM BulkTypeCorrect == Spec => []TypeOK
<1>1. TypeInv => TypeOK
  BY DEF TypeInv
<1> QED
  BY <1>1, BulkTypesInitially, BulkTypesKept, PTL DEF Spec
-----------------------------------------------------------------------------
(* What a mutation asks for: no two ids of a message, and of what it has   *)
(* moved an id that is no longer current.                                  *)
AskedOnce(c) ==
  \A id, other \in Range(asked[c]) \ {Blank} :
    /\ id[1] = other[1] => id = other
    /\ c \in Moving /\ id[1] \in applied[c] => id[2] < version[id[1]]

OwaIsAsked(c) ==
  backend = "owa" => /\ Blank \notin Range(asked[c])
                     /\ pc[c] # "idle" => c \in Moving

(* Nothing is reported before it is done, and OWA does all at once.        *)
NothingYet(c) ==
  pc[c] = "idle" \/ (backend = "owa" /\ pc[c] = "executing") =>
    report[c] = Nothing /\ applied[c] = {}

(* Graph is asked for one id after the other, and each of them is reported *)
(* to have succeeded or failed.                                            *)
GraphReports(c) ==
  backend = "graph" =>
    /\ Tried(c) <= Len(asked[c])
    /\ Range(report[c].succeeded) \cup Range(report[c].failed) =
         { asked[c][i] : i \in 1..Tried(c) }
    /\ pc[c] \in {"executed", "answered"} => Tried(c) = Len(asked[c])

Counted(c) ==
  pc[c] \in {"executed", "answered"} =>
    \/ report[c] = Nothing
    \/ Tried(c) = Cardinality({ i \in DOMAIN asked[c] : asked[c][i] # Blank
                                                       \/ backend = "graph" })

ReportIsReal(c) ==
  /\ MessagesOf(report[c].succeeded) \subseteq applied[c] \cup silent[c]
  /\ report[c].ok =>
       \A i \in DOMAIN asked[c] : asked[c][i] # Blank =>
         asked[c][i][1] \in applied[c] \cup silent[c]
  /\ IF c \in Moving
     THEN MessagesOf(report[c].moved) = named[c]
     ELSE /\ Range(report[c].succeeded) \subseteq Range(asked[c])
          /\ report[c].moved = << >>
  /\ MessagesOf(report[c].moved) \subseteq MessagesOf(report[c].succeeded)

(* The ids that may be listed in a manifest are those of now, unless the   *)
(* message was changed since.                                              *)
Listed(c) ==
  Range(report[c].moved) \cup
  (IF c \in Moving THEN {} ELSE Range(report[c].succeeded))

ListedIsCurrent(c) ==
  \A id \in Listed(c) :
    id[1] \in applied[c] /\ (changer[id[1]] = c => version[id[1]] = id[2])

ManifestIsListed(c) ==
  manifests[c] # None => /\ pc[c] = "answered"
                         /\ manifests[c].ids = ManifestIds(c) /\ ManifestIds(c) # << >>

MutationInv(c) ==
  /\ AskedOnce(c) /\ OwaIsAsked(c) /\ NothingYet(c)
  /\ GraphReports(c) /\ Counted(c) /\ ReportIsReal(c)
  /\ ListedIsCurrent(c) /\ ManifestIsListed(c)

AuditInv ==
  \A a \in Audit : \E c \in Mutation :
    MessagesOf(asked[a]) \cup read[a] \subseteq applied[c]

BulkInv == TypeInv /\ (\A c \in Mutation : MutationInv(c)) /\ AuditInv

(* Since OWA is sent blank ids that it has no response messages for, but   *)
(* the code counts without them, it is only right where there are none.    *)
OwaHasNoBlanks ==
  \A b \in Backends : b = "owa" => \A t \in Targets[b] : Blank \notin Range(t)

LEMMA ListedAreIds ==
  ASSUME TypeInv, NEW c \in Mutation
  PROVE  /\ \A id \in Listed(c) : id \in Id /\ id # Blank /\ id[1] \in Message
         /\ \A id \in Range(asked[c]) \ {Blank} :
              id \in Id /\ id[1] \in Message /\ id[2] \in Nat
         /\ ManifestIds(c) \in Seq(Id) /\ Range(ManifestIds(c)) \subseteq Listed(c)
<1>1. report[c] \in Report /\ asked[c] \in Seq(Id \cup {Blank})
  BY CallFacts DEF TypeInv, TypeOK
<1>2. report[c].moved \in Seq(Id) /\ report[c].succeeded \in Seq(Id)
  BY <1>1 DEF Report
<1>3. Range(report[c].moved) \subseteq Id /\ Range(report[c].succeeded) \subseteq Id
      /\ Range(asked[c]) \subseteq Id \cup {Blank}
  BY <1>1, <1>2, RangeOfSeq
<1>4. Listed(c) \subseteq Id
  BY <1>3 DEF Listed
<1>5. \A id \in Id : id # Blank
  BY ConstantAssumption
<1>6. Range(<< >>) = {} /\ << >> \in Seq(Id)
  BY DEF Range
<1>7. ManifestIds(c) \in Seq(Id) /\ Range(ManifestIds(c)) \subseteq Listed(c)
  BY <1>2, <1>6 DEF ManifestIds, Listed
<1> QED
  BY <1>3, <1>4, <1>5, <1>7, IdParts

(* What others do, and the end of the process, cannot make it wrong.       *)
LeavesAlone(c) ==
  /\ UNCHANGED backend
  /\ report'[c] = report[c] /\ asked'[c] = asked[c] /\ applied'[c] = applied[c]
  /\ silent'[c] = silent[c] /\ named'[c] = named[c]
  /\ \/ pc'[c] = pc[c] /\ manifests'[c] \in {manifests[c], None}
     \/ pc[c] # "idle" /\ pc'[c] = "lost" /\ manifests'[c] = None
  /\ \A m \in Message :
       /\ version[m] <= version'[m]
       /\ changer'[m] = c => changer[m] = c /\ version'[m] = version[m]

LEMMA MutationFrame ==
  ASSUME TypeInv, TypeInv', NEW c \in Mutation, MutationInv(c), LeavesAlone(c)
  PROVE  MutationInv(c)'
<1>0. /\ UNCHANGED backend
      /\ report'[c] = report[c] /\ asked'[c] = asked[c] /\ applied'[c] = applied[c]
      /\ silent'[c] = silent[c] /\ named'[c] = named[c]
      /\ \/ pc'[c] = pc[c] /\ manifests'[c] \in {manifests[c], None}
         \/ pc[c] # "idle" /\ pc'[c] = "lost" /\ manifests'[c] = None
      /\ \A m \in Message :
           /\ version[m] <= version'[m]
           /\ changer'[m] = c => changer[m] = c /\ version'[m] = version[m]
  BY DEF LeavesAlone
<1> USE <1>0
<1>1. /\ Tried(c)' = Tried(c) /\ ManifestIds(c)' = ManifestIds(c)
      /\ Listed(c)' = Listed(c)
  BY DEF Tried, ManifestIds, Listed
<1>2. \A m \in Message : version[m] \in Nat /\ version'[m] \in Nat
  BY ConstantAssumption DEF TypeInv, TypeOK
<1>3. AskedOnce(c)'
  <2> SUFFICES ASSUME NEW id \in Range(asked[c]) \ {Blank},
                      NEW other \in Range(asked[c]) \ {Blank}
               PROVE  /\ id[1] = other[1] => id = other
                      /\ c \in Moving /\ id[1] \in applied[c] =>
                           id[2] < version'[id[1]]
    BY DEF AskedOnce
  <2>1. /\ id[1] = other[1] => id = other
        /\ c \in Moving /\ id[1] \in applied[c] => id[2] < version[id[1]]
    BY DEF MutationInv, AskedOnce
  <2>2. id[1] \in Message /\ id[2] \in Nat
    BY ListedAreIds
  <2>3. version[id[1]] <= version'[id[1]]
    BY <2>2
  <2> QED
    BY <1>2, <2>1, <2>2, <2>3
<1>4. OwaIsAsked(c)' /\ NothingYet(c)'
  BY DEF MutationInv, OwaIsAsked, NothingYet
<1>5. GraphReports(c)' /\ Counted(c)'
  BY <1>1 DEF MutationInv, GraphReports, Counted
<1>6. ReportIsReal(c)'
  BY DEF MutationInv, ReportIsReal
<1>7. ListedIsCurrent(c)'
  BY <1>1, ListedAreIds DEF MutationInv, ListedIsCurrent
<1>8. ManifestIsListed(c)'
  BY <1>1 DEF MutationInv, ManifestIsListed
<1> QED
  BY <1>3, <1>4, <1>5, <1>6, <1>7, <1>8 DEF MutationInv

(* What is common to all steps of the provider.                            *)
LEMMA ProvidesKeeps ==
  ASSUME BulkInv, NEW c \in Mutation, NEW ids, Provides(c, ids),
         backend = "graph" \/ pc'[c] = "executed"
  PROVE  /\ TypeInv' /\ AuditInv' /\ \A d \in Mutation \ {c} : MutationInv(d)'
         /\ AskedOnce(c)' /\ OwaIsAsked(c)' /\ NothingYet(c)' /\ ManifestIsListed(c)'
         /\ applied[c] \subseteq applied'[c]
         /\ \A id \in Listed(c) : id[1] \in applied'[c] /\
              (changer'[id[1]] = c => version'[id[1]] = id[2])
<1>1. TypeInv /\ TypeInv' /\ MutationInv(c)
  BY ProviderKeepsTypes DEF BulkInv
<1>2. /\ \A id \in ids : /\ id \in Id /\ id # Blank /\ id[1] \in Message
                         /\ id[2] = version[id[1]]
                         /\ id \in Range(asked[c])
                         /\ version'[id[1]] = NewId(c, id)[2]
                         /\ changer'[id[1]] = c
      /\ \A m \in Message : version[m] <= version'[m]
      /\ \A d \in Mutation : applied[d] \subseteq applied'[d]
      /\ \A d \in Mutation \ {c} : applied'[d] = applied[d]
      /\ \A m \in applied'[c] : m \in applied[c] \/ \E id \in ids : m = id[1]
      /\ \A m \in Message : (\E id \in ids : m = id[1]) \/
           (version'[m] = version[m] /\ changer'[m] = changer[m])
  <2>1. Did(c, ids)
    BY DEF Provides
  <2>2. ids \subseteq Range(asked[c])
    BY <2>1 DEF Did
  <2>3. \A id \in ids : /\ id \in Id /\ id # Blank /\ id[1] \in Message
                        /\ id[2] = version[id[1]]
                        /\ version'[id[1]] = NewId(c, id)[2]
                        /\ changer'[id[1]] = c
    BY <1>1, <2>1, DidFacts DEF Current
  <2>4. /\ \A m \in Message : version[m] <= version'[m]
        /\ \A d \in Mutation : applied[d] \subseteq applied'[d]
        /\ \A d \in Mutation \ {c} : applied'[d] = applied[d]
        /\ \A m \in applied'[c] : m \in applied[c] \/ \E id \in ids : m = id[1]
        /\ \A m \in Message : (\E id \in ids : m = id[1]) \/
             (version'[m] = version[m] /\ changer'[m] = changer[m])
    BY <1>1, <2>1, DidFacts
  <2> QED
    BY <2>2, <2>3, <2>4
<1>3. \A m \in Message : version[m] \in Nat /\ version'[m] \in Nat
  BY <1>1, ConstantAssumption DEF TypeInv, TypeOK
<1>4. /\ pc[c] = "executing"
      /\ \A d \in Mutation \ {c} :
           /\ report'[d] = report[d] /\ pc'[d] = pc[d]
           /\ silent'[d] = silent[d] /\ named'[d] = named[d]
      /\ pc'[c] \in {"executing", "executed"}
      /\ UNCHANGED << backend, manifests, asked, fetched, read >>
  <2>1. pc \in [Call -> {"idle", "executing", "executed", "answered", "lost"}]
    BY <1>1 DEF TypeInv, TypeOK
  <2>2. \A d \in Mutation : d \in Call
    BY CallFacts
  <2> QED
    BY <2>1, <2>2 DEF Provides, audits
<1>5. ASSUME NEW d \in Mutation \ {c}
      PROVE  MutationInv(d)'
  <2>1. \A m \in Message : changer'[m] = d => changer[m] = d /\ version'[m] = version[m]
    BY <1>2
  <2>2. /\ MutationInv(d) /\ d \in Mutation /\ asked'[d] = asked[d]
        /\ manifests'[d] = manifests[d]
    BY <1>4 DEF BulkInv
  <2>3. /\ report'[d] = report[d] /\ pc'[d] = pc[d] /\ applied'[d] = applied[d]
        /\ silent'[d] = silent[d] /\ named'[d] = named[d]
    BY <1>2, <1>4
  <2>4. UNCHANGED backend /\ \A m \in Message : version[m] <= version'[m]
    BY <1>2, <1>4
  <2>5. LeavesAlone(d)
    BY <2>1, <2>2, <2>3, <2>4 DEF LeavesAlone
  <2> QED
    BY <1>1, <2>2, <2>5, MutationFrame
<1>6. AuditInv'
  BY <1>2, <1>4 DEF BulkInv, AuditInv, MessagesOf
<1>7. AskedOnce(c)'
  <2> SUFFICES ASSUME NEW id \in Range(asked[c]) \ {Blank},
                      NEW other \in Range(asked[c]) \ {Blank}
               PROVE  /\ id[1] = other[1] => id = other
                      /\ c \in Moving /\ id[1] \in applied'[c] =>
                           id[2] < version'[id[1]]
    BY <1>4 DEF AskedOnce
  <2>1. /\ \A x \in Range(asked[c]) \ {Blank} : id[1] = x[1] => id = x
        /\ c \in Moving /\ id[1] \in applied[c] => id[2] < version[id[1]]
    BY <1>1 DEF MutationInv, AskedOnce
  <2>2. id[1] \in Message /\ id[2] \in Nat
    BY <1>1, ListedAreIds
  <2>3. CASE id[1] \in applied[c]
    <3>1. version[id[1]] <= version'[id[1]]
      BY <1>2, <2>2
    <3> QED
      BY <1>3, <2>1, <2>2, <2>3, <3>1
  <2>4. CASE \E x \in ids : id[1] = x[1]
    <3>1. id \in ids
      BY <1>2, <2>1, <2>4
    <3>2. c \in Moving => version'[id[1]] = id[2] + 1
      BY <1>2, <3>1 DEF NewId
    <3> QED
      BY <2>1, <2>2, <3>2
  <2> QED
    BY <1>2, <2>1, <2>3, <2>4
<1>8. OwaIsAsked(c)' /\ NothingYet(c)' /\ ManifestIsListed(c)'
  BY <1>1, <1>4 DEF MutationInv, OwaIsAsked, NothingYet, ManifestIsListed
<1>9. ASSUME NEW id \in Listed(c)
      PROVE  /\ id[1] \in applied'[c]
             /\ changer'[id[1]] = c => version'[id[1]] = id[2]
  <2>1. /\ id[1] \in applied[c] /\ (changer[id[1]] = c => version[id[1]] = id[2])
        /\ id \in Id /\ id # Blank /\ id[1] \in Message
    BY <1>1, ListedAreIds DEF MutationInv, ListedIsCurrent
  <2>2. id[1] \in applied'[c]
    BY <1>2, <2>1
  <2>3. CASE \E x \in ids : id[1] = x[1]
    <3>1. PICK x \in ids : id[1] = x[1]
      BY <2>3
    <3>2. /\ x \in Range(asked[c]) \ {Blank} /\ x[2] = version[x[1]]
          /\ x[1] \in Message
      BY <1>2
    <3>3. c \notin Moving
      <4>1. c \in Moving => x[2] < version[x[1]]
        BY <1>1, <2>1, <3>1, <3>2 DEF MutationInv, AskedOnce
      <4> QED
        BY <1>3, <3>2, <4>1
    <3>4. id \in Range(asked[c]) \ {Blank}
      <4>1. Range(<< >>) = {}
        BY DEF Range
      <4> QED
        BY <1>1, <2>1, <3>3, <4>1 DEF MutationInv, ReportIsReal, Listed
    <3>5. id = x
      BY <1>1, <3>1, <3>2, <3>4 DEF MutationInv, AskedOnce
    <3>6. version'[id[1]] = id[2]
      BY <1>2, <3>3, <3>5 DEF NewId
    <3> QED
      BY <2>2, <3>6
  <2>4. CASE version'[id[1]] = version[id[1]] /\ changer'[id[1]] = changer[id[1]]
    BY <2>1, <2>2, <2>4
  <2> QED
    BY <1>2, <2>1, <2>3, <2>4
<1> QED
  BY <1>1, <1>2, <1>5, <1>6, <1>7, <1>8, <1>9

LEMMA MessagesAppended ==
  ASSUME NEW S, NEW s \in Seq(S), NEW id \in S
  PROVE  MessagesOf(Append(s, id)) = MessagesOf(s) \cup {id[1]}
BY Appended DEF MessagesOf

LEMMA NothingFacts ==
  /\ Nothing.ok = FALSE /\ Nothing.succeeded = << >>
  /\ Nothing.failed = << >> /\ Nothing.moved = << >>
  /\ Range(<< >>) = {} /\ MessagesOf(<< >>) = {} /\ Len(<< >>) = 0
BY DEF Nothing, MessagesOf, Range

(* One more id has been tried.                                             *)
LEMMA OneMoreTried ==
  ASSUME NEW s, NEW n \in Nat, n + 1 \in DOMAIN s
  PROVE  { s[i] : i \in 1..(n + 1) } = { s[i] : i \in 1..n } \cup {s[n + 1]}
<1>1. 1..(n + 1) = 1..n \cup {n + 1}
  OBVIOUS
<1> QED
  BY <1>1

(* Where Graph is, when it is asked for one more.                          *)
LEMMA GraphIsAsked ==
  ASSUME BulkInv, NEW c \in Mutation, backend = "graph", Tried(c) < Len(asked[c])
  PROVE  /\ report[c].succeeded \in Seq(Id) /\ report[c].moved \in Seq(Id)
         /\ report[c].failed \in Seq(Id \cup {Blank})
         /\ Tried(c) \in Nat /\ NextId(c) \in Id \cup {Blank}
         /\ NextId(c) \in Range(asked[c]) /\ Tried(c) + 1 \in DOMAIN asked[c]
         /\ Len(asked[c]) \in Nat /\ Tried(c) + 1 <= Len(asked[c])
         /\ Len(report[c].succeeded) \in Nat /\ Len(report[c].failed) \in Nat
         /\ { asked[c][i] : i \in 1..(Tried(c) + 1) } =
              Range(report[c].succeeded) \cup Range(report[c].failed) \cup {NextId(c)}
<1>1. TypeInv /\ MutationInv(c)
  BY DEF BulkInv
<1>2. /\ Tried(c) \in Nat /\ NextId(c) \in Id \cup {Blank}
      /\ NextId(c) \in Range(asked[c]) /\ Tried(c) + 1 \in DOMAIN asked[c]
      /\ report[c] \in Report /\ asked[c] \in Seq(Id \cup {Blank})
  BY <1>1, NextIdFacts
<1>3. { asked[c][i] : i \in 1..(Tried(c) + 1) } =
        { asked[c][i] : i \in 1..Tried(c) } \cup {NextId(c)}
  BY <1>2, OneMoreTried DEF NextId
<1>4. /\ report[c].succeeded \in Seq(Id) /\ report[c].moved \in Seq(Id)
      /\ report[c].failed \in Seq(Id \cup {Blank})
  BY <1>2 DEF Report
<1>5. Len(asked[c]) \in Nat /\ Len(report[c].succeeded) \in Nat
      /\ Len(report[c].failed) \in Nat
  BY <1>2, <1>4
<1>6. Tried(c) + 1 <= Len(asked[c])
  BY <1>2, <1>5
<1>7. Range(report[c].succeeded) \cup Range(report[c].failed) =
        { asked[c][i] : i \in 1..Tried(c) }
  BY <1>1 DEF MutationInv, GraphReports
<1> QED
  BY <1>2, <1>3, <1>4, <1>5, <1>6, <1>7

LEMMA GraphAnswersKeeps ==
  ASSUME BulkInv, NEW c \in Mutation, GraphAnswers(c)
  PROVE  BulkInv'
<1> DEFINE id == NextId(c)
<1>1. TypeInv /\ MutationInv(c)
  BY DEF BulkInv
<1>2. /\ backend = "graph" /\ Tried(c) < Len(asked[c]) /\ UNCHANGED pc
      /\ CanChange(c, id) /\ id \in Id
      /\ Provides(c, {id})
      /\ report'[c].ok = report[c].ok /\ report'[c].failed = report[c].failed
      /\ report'[c].succeeded = Append(report[c].succeeded, id)
      /\ silent'[c] = silent[c]
      /\ \/ report'[c].moved = report[c].moved /\ named'[c] = named[c]
         \/ /\ c \in Moving
            /\ report'[c].moved = Append(report[c].moved, NewId(c, id))
            /\ named'[c] = named[c] \cup {id[1]}
  BY <1>1, GraphAnswersFacts
<1>3. UNCHANGED << backend, asked >> /\ pc'[c] = "executing"
  BY <1>2 DEF Provides
<1>4. /\ TypeInv' /\ AuditInv' /\ \A d \in Mutation \ {c} : MutationInv(d)'
      /\ AskedOnce(c)' /\ OwaIsAsked(c)' /\ NothingYet(c)' /\ ManifestIsListed(c)'
      /\ applied[c] \subseteq applied'[c]
      /\ \A x \in Listed(c) : x[1] \in applied'[c] /\
           (changer'[x[1]] = c => version'[x[1]] = x[2])
  BY <1>2, ProvidesKeeps
<1>5. /\ id # Blank /\ id[1] \in Message /\ id[1] \in applied'[c]
      /\ version'[id[1]] = NewId(c, id)[2] /\ NewId(c, id)[1] = id[1]
      /\ NewId(c, id) \in Id
  BY <1>1, <1>2, DidFacts DEF Provides
<1>6. /\ report[c].succeeded \in Seq(Id) /\ report[c].moved \in Seq(Id)
      /\ Tried(c) \in Nat /\ id \in Range(asked[c])
      /\ Len(asked[c]) \in Nat /\ Tried(c) + 1 <= Len(asked[c])
      /\ Len(report[c].succeeded) \in Nat /\ Len(report[c].failed) \in Nat
      /\ { asked[c][i] : i \in 1..(Tried(c) + 1) } =
           Range(report[c].succeeded) \cup Range(report[c].failed) \cup {id}
  BY <1>2, GraphIsAsked
<1> HIDE DEF id
<1>7. /\ Len(report'[c].succeeded) = Len(report[c].succeeded) + 1
      /\ Range(report'[c].succeeded) = Range(report[c].succeeded) \cup {id}
      /\ MessagesOf(report'[c].succeeded) = MessagesOf(report[c].succeeded) \cup {id[1]}
  BY <1>2, <1>6, Appended, MessagesAppended
<1>8. \/ report'[c].moved = report[c].moved /\ named'[c] = named[c]
      \/ /\ c \in Moving /\ named'[c] = named[c] \cup {id[1]}
         /\ Range(report'[c].moved) = Range(report[c].moved) \cup {NewId(c, id)}
         /\ MessagesOf(report'[c].moved) = MessagesOf(report[c].moved) \cup {id[1]}
  <2>1. CASE report'[c].moved = report[c].moved /\ named'[c] = named[c]
    BY <2>1
  <2>2. CASE /\ c \in Moving
             /\ report'[c].moved = Append(report[c].moved, NewId(c, id))
             /\ named'[c] = named[c] \cup {id[1]}
    <3>1. /\ Range(report'[c].moved) = Range(report[c].moved) \cup {NewId(c, id)}
          /\ MessagesOf(report'[c].moved) =
               MessagesOf(report[c].moved) \cup {NewId(c, id)[1]}
      BY <1>5, <1>6, <2>2, Appended, MessagesAppended
    <3> QED
      BY <1>5, <2>2, <3>1
  <2> QED
    BY <1>2, <2>1, <2>2
<1>9. Tried(c)' = Tried(c) + 1
  <2> DEFINE n == Len(report[c].succeeded)
             m == Len(report[c].failed)
  <2>1. Tried(c) = n + m /\ Tried(c)' = (n + 1) + m
    BY <1>2, <1>7 DEF Tried
  <2>2. n \in Nat /\ m \in Nat
    BY <1>6
  <2> HIDE DEF n, m
  <2> QED
    BY <2>1, <2>2
<1>10. GraphReports(c)'
  <2>1. Range(report'[c].succeeded) \cup Range(report'[c].failed) =
          { asked[c][i] : i \in 1..(Tried(c) + 1) }
    BY <1>2, <1>6, <1>7
  <2> QED
    BY <1>3, <1>6, <1>9, <2>1 DEF GraphReports
<1>11. Counted(c)'
  BY <1>3 DEF Counted
<1>12. ReportIsReal(c)'
  <2>1. ReportIsReal(c)
    BY <1>1 DEF MutationInv
  <2>2. MessagesOf(report'[c].succeeded) \subseteq applied'[c] \cup silent'[c]
    BY <1>2, <1>4, <1>5, <1>7, <2>1 DEF ReportIsReal
  <2>3. report'[c].ok => \A i \in DOMAIN asked[c] : asked[c][i] # Blank =>
          asked[c][i][1] \in applied'[c] \cup silent'[c]
    BY <1>2, <1>4, <2>1 DEF ReportIsReal
  <2>4. c \in Moving => MessagesOf(report'[c].moved) = named'[c]
    BY <1>8, <2>1 DEF ReportIsReal
  <2>5. c \notin Moving => /\ Range(report'[c].succeeded) \subseteq Range(asked[c])
                           /\ report'[c].moved = << >>
    BY <1>6, <1>7, <1>8, <2>1 DEF ReportIsReal
  <2>6. MessagesOf(report'[c].moved) \subseteq MessagesOf(report'[c].succeeded)
    BY <1>7, <1>8, <2>1 DEF ReportIsReal
  <2> QED
    BY <1>3, <2>2, <2>3, <2>4, <2>5, <2>6 DEF ReportIsReal
<1>13. ListedIsCurrent(c)'
  <2>1. \A x \in Listed(c)' : \/ x \in Listed(c)
                              \/ x = NewId(c, id)
                              \/ c \notin Moving /\ x = id
    BY <1>7, <1>8 DEF Listed
  <2>2. c \notin Moving => version'[id[1]] = id[2]
    BY <1>5 DEF NewId
  <2> QED
    BY <1>4, <1>5, <2>1, <2>2 DEF ListedIsCurrent
<1> QED
  BY <1>4, <1>10, <1>11, <1>12, <1>13 DEF BulkInv, MutationInv

LEMMA GraphFailsKeeps ==
  ASSUME BulkInv, NEW c \in Mutation, GraphFails(c)
  PROVE  BulkInv'
<1> DEFINE id == NextId(c)
<1>1. TypeInv /\ MutationInv(c)
  BY DEF BulkInv
<1>2. /\ backend = "graph" /\ Tried(c) < Len(asked[c]) /\ UNCHANGED pc
      /\ \E ids \in SUBSET {id} : Provides(c, ids)
      /\ report'[c] = [report[c] EXCEPT !.failed = Append(@, id)]
      /\ silent'[c] = silent[c] /\ named'[c] = named[c]
  BY <1>1, GraphFailsFacts
<1>3. UNCHANGED << backend, asked >> /\ pc'[c] = "executing"
  BY <1>2 DEF Provides
<1>4. /\ TypeInv' /\ AuditInv' /\ \A d \in Mutation \ {c} : MutationInv(d)'
      /\ AskedOnce(c)' /\ OwaIsAsked(c)' /\ NothingYet(c)' /\ ManifestIsListed(c)'
      /\ applied[c] \subseteq applied'[c]
      /\ \A x \in Listed(c) : x[1] \in applied'[c] /\
           (changer'[x[1]] = c => version'[x[1]] = x[2])
  BY <1>2, ProvidesKeeps
<1>5. /\ report[c].failed \in Seq(Id \cup {Blank}) /\ id \in Id \cup {Blank}
      /\ Tried(c) \in Nat
      /\ Len(asked[c]) \in Nat /\ Tried(c) + 1 <= Len(asked[c])
      /\ Len(report[c].succeeded) \in Nat /\ Len(report[c].failed) \in Nat
      /\ { asked[c][i] : i \in 1..(Tried(c) + 1) } =
           Range(report[c].succeeded) \cup Range(report[c].failed) \cup {id}
  BY <1>2, GraphIsAsked
<1> HIDE DEF id
<1>6. report[c] \in Report
  BY <1>1 DEF TypeInv, TypeOK
<1>7. /\ report'[c].ok = report[c].ok /\ report'[c].moved = report[c].moved
      /\ report'[c].succeeded = report[c].succeeded
      /\ report'[c].failed = Append(report[c].failed, id)
  BY <1>2, <1>6 DEF Report
<1>8. /\ Len(report'[c].failed) = Len(report[c].failed) + 1
      /\ Range(report'[c].failed) = Range(report[c].failed) \cup {id}
  BY <1>5, <1>7, Appended
<1>9. Tried(c)' = Tried(c) + 1
  <2> DEFINE n == Len(report[c].succeeded)
             m == Len(report[c].failed)
  <2>1. Tried(c) = n + m /\ Tried(c)' = n + (m + 1)
    BY <1>7, <1>8 DEF Tried
  <2>2. n \in Nat /\ m \in Nat
    BY <1>5
  <2> HIDE DEF n, m
  <2> QED
    BY <2>1, <2>2
<1>10. GraphReports(c)'
  <2>1. Range(report'[c].succeeded) \cup Range(report'[c].failed) =
          { asked[c][i] : i \in 1..(Tried(c) + 1) }
    BY <1>5, <1>7, <1>8
  <2> QED
    BY <1>1, <1>2, <1>3, <1>5, <1>7, <1>9, <2>1 DEF MutationInv, GraphReports
<1>11. Counted(c)'
  BY <1>3 DEF Counted
<1>12. ReportIsReal(c)'
  BY <1>1, <1>2, <1>3, <1>4, <1>7 DEF MutationInv, ReportIsReal
<1>13. ListedIsCurrent(c)'
  BY <1>4, <1>7 DEF ListedIsCurrent, Listed
<1> QED
  BY <1>4, <1>10, <1>11, <1>12, <1>13 DEF BulkInv, MutationInv

LEMMA GraphIsDoneKeeps ==
  ASSUME BulkInv, NEW c \in Mutation, GraphIsDone(c)
  PROVE  BulkInv'
<1>1. TypeInv /\ MutationInv(c)
  BY DEF BulkInv
<1>2. /\ backend = "graph" /\ Tried(c) = Len(asked[c])
      /\ pc' = [pc EXCEPT ![c] = "executed"]
      /\ Provides(c, {}) /\ UNCHANGED mailbox
      /\ report'[c] = [report[c] EXCEPT !.ok = (report[c].failed = << >>)]
      /\ silent'[c] = silent[c] /\ named'[c] = named[c]
  BY <1>1, GraphIsDoneFacts
<1>3. UNCHANGED << backend, asked, applied >>
  BY <1>2 DEF Provides, mailbox
<1>4. /\ TypeInv' /\ AuditInv' /\ \A d \in Mutation \ {c} : MutationInv(d)'
      /\ AskedOnce(c)' /\ OwaIsAsked(c)' /\ NothingYet(c)' /\ ManifestIsListed(c)'
      /\ \A x \in Listed(c) : x[1] \in applied'[c] /\
           (changer'[x[1]] = c => version'[x[1]] = x[2])
  BY <1>2, ProvidesKeeps
<1>5. report[c] \in Report /\ asked[c] \in Seq(Id \cup {Blank})
  BY <1>1, CallFacts DEF TypeInv, TypeOK
<1>6. /\ report'[c].ok = (report[c].failed = << >>)
      /\ report'[c].succeeded = report[c].succeeded
      /\ report'[c].failed = report[c].failed /\ report'[c].moved = report[c].moved
  BY <1>2, <1>5 DEF Report
<1>7. Tried(c)' = Tried(c)
  BY <1>6 DEF Tried
<1>8. /\ DOMAIN asked[c] = 1..Len(asked[c]) /\ Len(asked[c]) \in Nat
      /\ Range(report[c].succeeded) \cup Range(report[c].failed) = Range(asked[c])
  <2>1. DOMAIN asked[c] = 1..Len(asked[c]) /\ Len(asked[c]) \in Nat
    BY <1>5
  <2>2. Range(report[c].succeeded) \cup Range(report[c].failed) =
          { asked[c][i] : i \in 1..Tried(c) }
    BY <1>1, <1>2 DEF MutationInv, GraphReports
  <2> QED
    BY <1>2, <2>1, <2>2 DEF Range
<1>9. GraphReports(c)'
  <2>1. Tried(c) <= Len(asked[c])
    BY <1>2, <1>8
  <2> QED
    BY <1>1, <1>2, <1>3, <1>6, <1>7, <2>1 DEF MutationInv, GraphReports
<1>10. Counted(c)'
  <2>1. { i \in DOMAIN asked[c] : asked[c][i] # Blank \/ backend = "graph" } =
          1..Len(asked[c])
    BY <1>2, <1>8
  <2>2. Cardinality(1..Len(asked[c])) = Len(asked[c])
    BY <1>8, FS_Interval
  <2> QED
    BY <1>2, <1>3, <1>7, <2>1, <2>2 DEF Counted
<1>11. ReportIsReal(c)'
  <2>1. ASSUME report'[c].ok, NEW i \in DOMAIN asked[c], asked[c][i] # Blank
        PROVE  asked[c][i][1] \in applied[c] \cup silent[c]
    <3>1. Range(report[c].failed) = {}
      <4>1. report[c].failed = << >>
        BY <1>6, <2>1
      <4> QED
        BY <4>1, NothingFacts
    <3>2. asked[c][i] \in Range(report[c].succeeded)
      BY <1>8, <3>1 DEF Range
    <3>3. MessagesOf(report[c].succeeded) \subseteq applied[c] \cup silent[c]
      BY <1>1 DEF MutationInv, ReportIsReal
    <3> QED
      BY <3>2, <3>3 DEF MessagesOf
  <2> QED
    BY <1>1, <1>2, <1>3, <1>6, <2>1 DEF MutationInv, ReportIsReal
<1>12. ListedIsCurrent(c)'
  BY <1>4, <1>6 DEF ListedIsCurrent, Listed
<1> QED
  BY <1>4, <1>9, <1>10, <1>11, <1>12 DEF BulkInv, MutationInv

(* What is common to the answers of OWA.                                   *)
LEMMA OwaKeeps ==
  ASSUME BulkInv, NEW c \in Mutation, NEW ids, Provides(c, ids),
         backend = "owa", pc' = [pc EXCEPT ![c] = "executed"]
  PROVE  /\ TypeInv' /\ AuditInv' /\ \A d \in Mutation \ {c} : MutationInv(d)'
         /\ AskedOnce(c)' /\ OwaIsAsked(c)' /\ NothingYet(c)' /\ ManifestIsListed(c)'
         /\ GraphReports(c)'
         /\ UNCHANGED << backend, asked >>
         /\ report[c] = Nothing /\ c \in Moving /\ Blank \notin Range(asked[c])
         /\ ReportIsReal(c) /\ applied[c] \subseteq applied'[c]
         /\ asked[c] \in Seq(Id \cup {Blank})
         /\ \A id \in ids : /\ id \in Id /\ id # Blank /\ id[1] \in applied'[c]
                            /\ NewId(c, id)[1] = id[1]
                            /\ version'[id[1]] = NewId(c, id)[2]
<1>1. TypeInv /\ MutationInv(c)
  BY DEF BulkInv
<1>2. pc[c] = "executing" /\ UNCHANGED << backend, asked >> /\ Did(c, ids)
  BY DEF Provides
<1>3. pc'[c] = "executed" /\ asked[c] \in Seq(Id \cup {Blank})
  BY <1>1, CallFacts DEF TypeInv, TypeOK
<1>4. /\ report[c] = Nothing /\ c \in Moving /\ Blank \notin Range(asked[c])
      /\ ReportIsReal(c)
  BY <1>1, <1>2 DEF MutationInv, NothingYet, OwaIsAsked
<1>5. GraphReports(c)'
  BY <1>2 DEF GraphReports
<1>6. \A id \in ids : /\ id \in Id /\ id # Blank /\ id[1] \in applied'[c]
                      /\ NewId(c, id)[1] = id[1]
                      /\ version'[id[1]] = NewId(c, id)[2]
  BY <1>1, <1>2, DidFacts
<1> QED
  BY <1>2, <1>3, <1>4, <1>5, <1>6, ProvidesKeeps

LEMMA OwaAnswersKeeps ==
  ASSUME BulkInv, NEW c \in Mutation, OwaAnswers(c)
  PROVE  BulkInv'
<1>1. TypeInv
  BY DEF BulkInv
<1>2. PICK done, class, told :
        /\ Answer(c, done, class, told)
        /\ backend = "owa" /\ pc' = [pc EXCEPT ![c] = "executed"]
        /\ Provides(c, IdsAt(c, done)) /\ report'[c] = OwaReport(c, class, told)
        /\ silent'[c] = MessagesAt(c, Unsaid(c, class))
        /\ named'[c] = MessagesAt(c, told)
  BY <1>1, OwaAnswersFacts
<1>3. /\ TypeInv' /\ AuditInv' /\ \A d \in Mutation \ {c} : MutationInv(d)'
      /\ AskedOnce(c)' /\ OwaIsAsked(c)' /\ NothingYet(c)' /\ ManifestIsListed(c)'
      /\ GraphReports(c)'
      /\ UNCHANGED << backend, asked >>
      /\ c \in Moving /\ Blank \notin Range(asked[c])
      /\ \A id \in IdsAt(c, done) : /\ id \in Id /\ id # Blank /\ id[1] \in applied'[c]
                                    /\ NewId(c, id)[1] = id[1]
                                    /\ version'[id[1]] = NewId(c, id)[2]
  BY <1>2, OwaKeeps
<1>4. /\ Len(report'[c].succeeded) + Len(report'[c].failed)
           = Cardinality({ i \in DOMAIN asked[c] : asked[c][i] # Blank })
      /\ Range(report'[c].succeeded) \subseteq IdsAt(c, done \cup Unsaid(c, class))
      /\ IdsAt(c, told) \subseteq Range(report'[c].succeeded)
      /\ Range(report'[c].moved) = { NewId(c, id) : id \in IdsAt(c, told) }
      /\ report'[c].ok => DOMAIN asked[c] \subseteq done \cup Unsaid(c, class)
  <2> DEFINE now == OwaReport(c, class, told)
  <2>1. /\ Len(now.succeeded) + Len(now.failed)
             = Cardinality({ i \in DOMAIN asked[c] : asked[c][i] # Blank })
        /\ Blank \notin Range(asked[c]) =>
             /\ Range(now.succeeded) \subseteq IdsAt(c, done \cup Unsaid(c, class))
             /\ IdsAt(c, told) \subseteq Range(now.succeeded)
             /\ Range(now.moved) = { NewId(c, id) : id \in IdsAt(c, told) }
             /\ now.ok => DOMAIN asked[c] \subseteq done \cup Unsaid(c, class)
    <3>1. TypeInv /\ Answer(c, done, class, told)
      BY <1>1, <1>2
    <3> QED
      BY <3>1, OwaReportFacts
  <2>2. report'[c] = now /\ Blank \notin Range(asked[c])
    BY <1>2, <1>3
  <2> HIDE DEF now
  <2> QED
    BY <2>1, <2>2
<1>5. IdsAt(c, told) \subseteq IdsAt(c, done)
  BY <1>2 DEF Answer, IdsAt
<1>6. Counted(c)'
  <2>1. { i \in DOMAIN asked'[c] : asked'[c][i] # Blank \/ backend' = "graph" } =
          { i \in DOMAIN asked[c] : asked[c][i] # Blank }
    BY <1>2, <1>3
  <2> QED
    BY <1>4, <2>1 DEF Counted, Tried
<1>7. \A i \in done \cup Unsaid(c, class) : asked[c][i][1] \in applied'[c] \cup silent'[c]
  BY <1>2, <1>3 DEF IdsAt, MessagesAt
<1>8. ReportIsReal(c)'
  <2>1. MessagesOf(report'[c].succeeded) \subseteq applied'[c] \cup silent'[c]
    BY <1>4, <1>7 DEF MessagesOf, IdsAt
  <2>2. report'[c].ok => \A i \in DOMAIN asked[c] :
                           asked[c][i][1] \in applied'[c] \cup silent'[c]
    BY <1>4, <1>7
  <2>3. MessagesOf(report'[c].moved) = { id[1] : id \in IdsAt(c, told) }
    <3>1. \A x : x \in MessagesOf(report'[c].moved) <=>
                   \E id \in IdsAt(c, told) : x = id[1]
      BY <1>3, <1>4, <1>5 DEF MessagesOf
    <3> QED
      BY <3>1
  <2>4. MessagesOf(report'[c].moved) = named'[c]
    <3>1. MessagesAt(c, told) = { id[1] : id \in IdsAt(c, told) }
      BY DEF MessagesAt, IdsAt
    <3> QED
      BY <1>2, <2>3, <3>1
  <2>5. MessagesOf(report'[c].moved) \subseteq MessagesOf(report'[c].succeeded)
    BY <1>4, <2>3 DEF MessagesOf
  <2> QED
    BY <1>3, <2>1, <2>2, <2>4, <2>5 DEF ReportIsReal
<1>9. ListedIsCurrent(c)'
  <2>1. \A x \in Listed(c)' : \E id \in IdsAt(c, done) : x = NewId(c, id)
    BY <1>3, <1>4, <1>5 DEF Listed
  <2> QED
    BY <1>3, <2>1 DEF ListedIsCurrent
<1> QED
  BY <1>3, <1>6, <1>8, <1>9 DEF BulkInv, MutationInv

LEMMA OwaFailsKeeps ==
  ASSUME BulkInv, NEW c \in Mutation, OwaFails(c)
  PROVE  BulkInv'
<1>1. TypeInv
  BY DEF BulkInv
<1>2. PICK ids : /\ backend = "owa" /\ pc' = [pc EXCEPT ![c] = "executed"]
                 /\ Provides(c, ids) /\ UNCHANGED report
                 /\ silent'[c] = silent[c] /\ named'[c] = named[c]
  BY <1>1, OwaFailsFacts
<1>3. /\ TypeInv' /\ AuditInv' /\ \A d \in Mutation \ {c} : MutationInv(d)'
      /\ AskedOnce(c)' /\ OwaIsAsked(c)' /\ NothingYet(c)' /\ ManifestIsListed(c)'
      /\ GraphReports(c)' /\ report[c] = Nothing /\ c \in Moving
      /\ ReportIsReal(c) /\ applied[c] \subseteq applied'[c]
  BY <1>2, OwaKeeps
<1>4. report'[c] = Nothing
  BY <1>2, <1>3
<1>5. Counted(c)'
  BY <1>4 DEF Counted
<1>6. ReportIsReal(c)' /\ ListedIsCurrent(c)'
  BY <1>2, <1>3, <1>4, NothingFacts DEF ReportIsReal, ListedIsCurrent, Listed
<1> QED
  BY <1>3, <1>5, <1>6 DEF BulkInv, MutationInv

LEMMA BeginMutationKeeps ==
  ASSUME BulkInv, OwaHasNoBlanks, NEW c \in Mutation, Begin(c)
  PROVE  BulkInv'
<1>1. TypeInv /\ TypeInv' /\ MutationInv(c)
  BY BeginKeepsTypes DEF BulkInv
<1>2. /\ pc[c] = "idle" /\ (backend = "owa" => c \in Moving)
      /\ pc' = [pc EXCEPT ![c] = "executing"]
      /\ UNCHANGED << backend, version, changer, applied, silent, named, manifests, report,
                      fetched, read >>
  BY DEF Begin, Goto, mailbox, answers, audits
<1>3. PICK targets \in Targets[backend] :
           /\ targets \in Seq(Message \cup {Blank})
           /\ asked'[c] = [i \in DOMAIN targets |-> IdOf(targets[i])]
           /\ \A d \in Call \ {c} : asked'[d] = asked[d]
  BY <1>1, BeginFacts
<1>4. /\ \A d \in Mutation \ {c} : asked'[d] = asked[d] /\ pc'[d] = pc[d]
      /\ \A a \in Audit : asked'[a] = asked[a]
      /\ pc'[c] = "executing" /\ asked'[c] \in Seq(Id \cup {Blank})
  <2>1. pc \in [Call -> {"idle", "executing", "executed", "answered", "lost"}]
    BY <1>1 DEF TypeInv, TypeOK
  <2>2. asked'[c] \in Seq(Id \cup {Blank})
    BY <1>1, CallFacts DEF TypeInv, TypeOK
  <2> QED
    BY <1>2, <1>3, <2>1, <2>2, CallFacts
<1>5. ASSUME NEW d \in Mutation \ {c}
      PROVE  MutationInv(d)'
  <2>1. \A m \in Message : version[m] \in Nat
    BY <1>1, ConstantAssumption DEF TypeInv, TypeOK
  <2>2. LeavesAlone(d) /\ MutationInv(d)
    BY <1>2, <1>4, <2>1 DEF LeavesAlone, BulkInv
  <2> QED
    BY <1>1, <2>2, MutationFrame
<1>6. AuditInv'
  BY <1>2, <1>4 DEF BulkInv, AuditInv, MessagesOf
<1>7. report'[c] = Nothing /\ applied'[c] = {} /\ manifests'[c] = None
  BY <1>1, <1>2 DEF MutationInv, NothingYet, ManifestIsListed
<1>8. \A id \in Range(asked'[c]) \ {Blank} :
        \E m \in Message : m \in Range(targets) /\ id = << m, version[m] >>
  <2>1. \A i \in DOMAIN targets : targets[i] \in Message \cup {Blank}
    BY <1>3
  <2> QED
    BY <1>3, <2>1 DEF IdOf, Range
<1>9. AskedOnce(c)'
  BY <1>7, <1>8 DEF AskedOnce
<1>10. OwaIsAsked(c)'
  <2>1. ASSUME backend = "owa"
        PROVE  Blank \notin Range(asked'[c])
    <3>1. Blank \notin Range(targets)
      BY <1>1, <2>1 DEF OwaHasNoBlanks, TypeInv, TypeOK
    <3>2. \A i \in DOMAIN targets : targets[i] # Blank /\ targets[i] \in Message
      BY <1>3, <3>1 DEF Range
    <3>3. \A i \in DOMAIN targets : IdOf(targets[i]) \in Id
      BY <1>1, <3>2 DEF IdOf, Id, TypeInv, TypeOK
    <3> QED
      BY <1>3, <3>3, ConstantAssumption DEF Range
  <2> QED
    BY <1>2, <2>1 DEF OwaIsAsked
<1>11. NothingYet(c)' /\ Counted(c)' /\ ManifestIsListed(c)'
  BY <1>4, <1>7 DEF NothingYet, Counted, ManifestIsListed
<1>12. ReportIsReal(c)' /\ ListedIsCurrent(c)'
  <2>1. ReportIsReal(c) /\ report[c] = Nothing /\ UNCHANGED named
    BY <1>1, <1>2 DEF MutationInv, NothingYet
  <2> QED
    BY <1>7, <2>1, NothingFacts DEF ReportIsReal, ListedIsCurrent, Listed
<1>13. GraphReports(c)'
  <2>1. Tried(c)' = 0
    BY <1>7, NothingFacts DEF Tried
  <2>2. Len(asked'[c]) \in Nat
    BY <1>4
  <2>3. { asked'[c][i] : i \in 1..0 } = {} /\ 0 <= Len(asked'[c])
    BY <2>2
  <2> QED
    BY <1>4, <1>7, <2>1, <2>3, NothingFacts DEF GraphReports
<1> QED
  BY <1>1, <1>5, <1>6, <1>9, <1>10, <1>11, <1>12, <1>13 DEF BulkInv, MutationInv

LEMMA RespondKeeps ==
  ASSUME BulkInv, NEW c \in Mutation, Respond(c)
  PROVE  BulkInv'
<1>1. TypeInv /\ TypeInv' /\ MutationInv(c)
  BY RespondKeepsTypes DEF BulkInv
<1>2. /\ pc[c] = "executed" /\ pc' = [pc EXCEPT ![c] = "answered"]
      /\ UNCHANGED << backend, version, changer, applied, silent, named, asked, report,
                      fetched, read >>
  BY DEF Respond, Goto, mailbox, answers, audits
<1>3. /\ pc'[c] = "answered"
      /\ \A d \in Mutation \ {c} : pc'[d] = pc[d] /\ manifests'[d] = manifests[d]
  <2>1. pc \in [Call -> {"idle", "executing", "executed", "answered", "lost"}]
    BY <1>1 DEF TypeInv, TypeOK
  <2> QED
    BY <1>1, <1>2, <2>1, CallFacts, RespondFacts
<1>4. ASSUME NEW d \in Mutation \ {c}
      PROVE  MutationInv(d)'
  <2>1. \A m \in Message : version[m] \in Nat
    BY <1>1, ConstantAssumption DEF TypeInv, TypeOK
  <2>2. LeavesAlone(d) /\ MutationInv(d)
    BY <1>2, <1>3, <2>1 DEF LeavesAlone, BulkInv
  <2> QED
    BY <1>1, <2>2, MutationFrame
<1>5. AuditInv'
  BY <1>2 DEF BulkInv, AuditInv, MessagesOf
<1>6. /\ Tried(c)' = Tried(c) /\ ManifestIds(c)' = ManifestIds(c)
      /\ Listed(c)' = Listed(c)
  BY <1>2 DEF Tried, ManifestIds, Listed
<1>7. AskedOnce(c)' /\ OwaIsAsked(c)' /\ NothingYet(c)'
  BY <1>1, <1>2, <1>3 DEF MutationInv, AskedOnce, OwaIsAsked, NothingYet
<1>8. GraphReports(c)' /\ Counted(c)'
  BY <1>1, <1>2, <1>3, <1>6 DEF MutationInv, GraphReports, Counted
<1>9. ReportIsReal(c)' /\ ListedIsCurrent(c)'
  BY <1>1, <1>2, <1>6 DEF MutationInv, ReportIsReal, ListedIsCurrent
<1>10. ManifestIsListed(c)'
  <2>1. manifests[c] = None
    BY <1>1, <1>2 DEF MutationInv, ManifestIsListed
  <2>2. \/ manifests'[c] = None
        \/ manifests'[c].ids = ManifestIds(c) /\ ManifestIds(c) # << >>
    BY <1>1, <2>1, RespondFacts
  <2> QED
    BY <1>3, <1>6, <2>2 DEF ManifestIsListed
<1> QED
  BY <1>1, <1>4, <1>5, <1>7, <1>8, <1>9, <1>10 DEF BulkInv, MutationInv

(* The ids of a manifest are of messages that its mutation has changed, so *)
(* what an audit finds under them is one of these.                         *)
LEMMA AuditKeeps ==
  ASSUME BulkInv, NEW a \in Audit, BeginAudit(a) \/ FetchBody(a) \/ AnswerAudit(a)
  PROVE  BulkInv'
<1>1. TypeInv /\ TypeInv' /\ AuditInv
  BY AuditKeepsTypes DEF BulkInv
<1>2. UNCHANGED << backend, version, changer, applied, silent, named, report >>
  BY DEF BeginAudit, FetchBody, AnswerAudit, mailbox, answers
<1>3. /\ pc \in [Call -> {"idle", "executing", "executed", "answered", "lost"}]
      /\ asked \in [Call -> Seq(Id \cup {Blank})] /\ read \in [Audit -> SUBSET Message]
      /\ manifests \in [Mutation -> Manifests!Record \cup {None}]
      /\ a \in Call /\ a \notin Mutation
  BY <1>1, CallFacts DEF TypeInv, TypeOK
<1>4. \A c \in Mutation : /\ pc'[c] = pc[c] /\ asked'[c] = asked[c]
                          /\ manifests'[c] \in {manifests[c], None}
  <2>1. CASE BeginAudit(a)
    <3>1. /\ pc' \in {[pc EXCEPT ![a] = "executing"], [pc EXCEPT ![a] = "answered"]}
          /\ asked' = [asked EXCEPT ![a] = asked'[a]]
      BY <1>3, <2>1, BeginAuditFacts DEF BeginAudit, Goto
    <3>2. \A c \in Mutation : manifests'[c] \in {manifests[c], None}
      BY <1>1, <1>3, <2>1, BeginAuditFacts
    <3> QED
      BY <1>3, <3>1, <3>2, CallFacts
  <2>2. CASE FetchBody(a) \/ AnswerAudit(a)
    BY <1>3, <2>2, CallFacts DEF FetchBody, AnswerAudit, Goto
  <2> QED
    BY <2>1, <2>2
<1>5. ASSUME NEW c \in Mutation
      PROVE  MutationInv(c)'
  <2>1. \A m \in Message : version[m] \in Nat
    BY <1>1, ConstantAssumption DEF TypeInv, TypeOK
  <2>2. LeavesAlone(c) /\ MutationInv(c)
    BY <1>2, <1>4, <2>1 DEF LeavesAlone, BulkInv
  <2> QED
    BY <1>1, <2>2, MutationFrame
<1>6. AuditInv'
  <2>1. CASE BeginAudit(a)
    <3>1. pc[a] = "idle" /\ UNCHANGED read
      BY <2>1 DEF BeginAudit, audits
    <3>2. read[a] = {}
      BY <1>1, <3>1 DEF TypeInv, AuditTypes
    <3>3. CASE UNCHANGED asked
      BY <1>1, <1>2, <3>1, <3>3 DEF AuditInv, MessagesOf
    <3>4. ASSUME NEW c \in Mutation, manifests[c] # None,
                 asked' = [asked EXCEPT ![a] = asked'[a]],
                 Range(asked'[a]) \subseteq Range(manifests[c].ids)
          PROVE  AuditInv'
      <4>1. MessagesOf(asked'[a]) \subseteq applied[c]
        <5>1. /\ manifests[c].ids = ManifestIds(c)
              /\ \A id \in Listed(c) : id[1] \in applied[c]
          BY <3>4 DEF BulkInv, MutationInv, ManifestIsListed, ListedIsCurrent
        <5>2. Range(ManifestIds(c)) \subseteq Listed(c)
          BY <1>1, ListedAreIds
        <5> QED
          BY <3>4, <5>1, <5>2 DEF MessagesOf
      <4>2. MessagesOf(asked'[a]) \cup read'[a] \subseteq applied'[c]
        BY <1>2, <3>1, <3>2, <4>1
      <4>3. \A b \in Audit \ {a} : asked'[b] = asked[b]
        BY <1>3, <3>4, CallFacts
      <4> QED
        BY <1>1, <1>2, <3>1, <4>2, <4>3 DEF AuditInv, MessagesOf
    <3> QED
      BY <1>1, <2>1, <3>3, <3>4, BeginAuditFacts
  <2>2. CASE FetchBody(a)
    <3>1. /\ fetched[a] < Len(asked[a]) /\ UNCHANGED asked
          /\ \/ UNCHANGED read
             \/ read' = [read EXCEPT ![a] = @ \cup {asked[a][fetched[a] + 1][1]}]
      BY <2>2 DEF FetchBody
    <3>2. asked[a][fetched[a] + 1][1] \in MessagesOf(asked[a])
      <4>1. asked[a] \in Seq(Id) /\ fetched[a] \in Nat
        BY <1>1, ConstantAssumption DEF TypeInv, TypeOK, AuditTypes
      <4>2. fetched[a] + 1 \in DOMAIN asked[a]
        BY <3>1, <4>1
      <4> QED
        BY <4>2 DEF MessagesOf, Range
    <3>3. /\ \A b \in Audit \ {a} : read'[b] = read[b]
          /\ read'[a] \subseteq read[a] \cup MessagesOf(asked[a])
      BY <1>3, <3>1, <3>2
    <3> QED
      BY <1>1, <1>2, <3>1, <3>3 DEF AuditInv, MessagesOf
  <2>3. CASE AnswerAudit(a)
    BY <1>1, <1>2, <2>3 DEF AnswerAudit, audits, AuditInv, MessagesOf
  <2> QED
    BY <2>1, <2>2, <2>3
<1> QED
  BY <1>1, <1>5, <1>6 DEF BulkInv

LEMMA EnvironmentKeeps ==
  ASSUME BulkInv,
         Tick \/ Restart \/ (\E m \in Shared : MoveElsewhere(m)) \/ UNCHANGED vars
  PROVE  BulkInv'
<1>1. TypeInv /\ TypeInv' /\ AuditInv
  BY EnvironmentKeepsTypes DEF BulkInv
<1>2. UNCHANGED << backend, applied, silent, named, asked, report, read >>
  BY DEF Tick, Restart, MoveElsewhere, vars, mailbox, answers, audits
<1>3. \A c \in Mutation :
        \/ pc'[c] = pc[c] /\ manifests'[c] \in {manifests[c], None}
        \/ pc[c] # "idle" /\ pc'[c] = "lost" /\ manifests'[c] = None
  <2>1. CASE Restart
    BY <2>1, CallFacts DEF Restart, Manifests!Init
  <2>2. CASE ~ Restart
    BY <2>2 DEF Tick, MoveElsewhere, vars
  <2> QED
    BY <2>1, <2>2
<1>4. ASSUME NEW c \in Mutation, NEW m \in Message
      PROVE  /\ version[m] <= version'[m]
             /\ changer'[m] = c => changer[m] = c /\ version'[m] = version[m]
  <2>1. /\ version \in [Message -> 0..MaxVersion] /\ version[m] \in Nat
        /\ changer \in [Message -> Mutation \cup {None}] /\ c # None
    BY <1>1, ConstantAssumption, CallFacts DEF TypeInv, TypeOK
  <2>2. CASE UNCHANGED << version, changer >>
    BY <2>1, <2>2
  <2>3. CASE \E s \in Shared : MoveElsewhere(s)
    <3>1. PICK s \in Shared :
            /\ version' = [version EXCEPT ![s] = version[s] + 1]
            /\ changer' = [changer EXCEPT ![s] = None]
      BY <2>3 DEF MoveElsewhere
    <3>2. CASE s = m
      <4>1. version'[m] = version[m] + 1 /\ changer'[m] = None
        BY <2>1, <3>1, <3>2
      <4> QED
        BY <2>1, <4>1
    <3>3. CASE s # m
      <4>1. version'[m] = version[m] /\ changer'[m] = changer[m]
        BY <2>1, <3>1, <3>3
      <4> QED
        BY <2>1, <4>1
    <3> QED
      BY <3>2, <3>3
  <2> QED
    BY <2>2, <2>3 DEF Tick, Restart, vars, mailbox
<1>5. ASSUME NEW c \in Mutation
      PROVE  MutationInv(c)'
  <2>1. LeavesAlone(c) /\ MutationInv(c)
    BY <1>2, <1>3, <1>4 DEF LeavesAlone, BulkInv
  <2> QED
    BY <1>1, <2>1, MutationFrame
<1>6. AuditInv'
  BY <1>1, <1>2 DEF AuditInv, MessagesOf
<1> QED
  BY <1>1, <1>5, <1>6 DEF BulkInv
-----------------------------------------------------------------------------
LEMMA BulkInitially ==
  ASSUME Init, Mutation # {}
  PROVE  BulkInv
<1>1. TypeInv
  BY BulkTypesInitially
<1>2. \A c \in Call : asked[c] = << >> /\ pc[c] = "idle"
  BY DEF Init
<1>3. ASSUME NEW c \in Mutation
      PROVE  MutationInv(c)
  <2>1. /\ asked[c] = << >> /\ pc[c] = "idle" /\ report[c] = Nothing
        /\ applied[c] = {} /\ named[c] = {} /\ manifests[c] = None
    BY <1>2, CallFacts DEF Init, Manifests!Init
  <2>2. Tried(c) = 0 /\ { asked[c][i] : i \in 1..0 } = {} /\ Len(asked[c]) = 0
    BY <2>1, NothingFacts DEF Tried
  <2>3. AskedOnce(c) /\ OwaIsAsked(c)
    BY <2>1, NothingFacts DEF AskedOnce, OwaIsAsked
  <2>4. NothingYet(c) /\ Counted(c) /\ ManifestIsListed(c)
    BY <2>1 DEF NothingYet, Counted, ManifestIsListed
  <2>5. GraphReports(c)
    BY <2>1, <2>2, NothingFacts DEF GraphReports
  <2>6. ReportIsReal(c) /\ ListedIsCurrent(c)
    BY <2>1, NothingFacts DEF ReportIsReal, ListedIsCurrent, Listed
  <2> QED
    BY <2>3, <2>4, <2>5, <2>6 DEF MutationInv
<1>4. AuditInv
  BY <1>2, CallFacts, NothingFacts DEF Init, AuditInv
<1> QED
  BY <1>1, <1>3, <1>4 DEF BulkInv

LEMMA BulkKept ==
  ASSUME OwaHasNoBlanks, BulkInv, [Next]_vars
  PROVE  BulkInv'
<1>1. ASSUME NEW c \in Mutation, ProviderStep(c)
      PROVE  BulkInv'
  BY <1>1, GraphAnswersKeeps, GraphFailsKeeps, GraphIsDoneKeeps, OwaAnswersKeeps,
     OwaFailsKeeps DEF ProviderStep
<1> QED
  BY <1>1, BulkActions, BeginMutationKeeps, RespondKeeps, AuditKeeps, EnvironmentKeeps

LEMMA BulkInvariant ==
  ASSUME OwaHasNoBlanks, Mutation # {}
  PROVE  Spec => []BulkInv
<1>1. Init => BulkInv
  BY BulkInitially
<1>2. BulkInv /\ [Next]_vars => BulkInv'
  BY BulkKept
<1> QED
  BY <1>1, <1>2, PTL DEF Spec

(* What a mutation reports to have succeeded has been done, each id once,  *)
(* and if its answer is a success, all of it has, although each message    *)
(* fails or succeeds by itself (moveMessages, patchMessages), answers are  *)
(* lost and other clients move messages meanwhile.  With OWA there are two *)
(* exceptions: messages of which the answer says nothing, since silence    *)
(* passes for success (moveItemResult), and blank ids, since it counts     *)
(* without those it has sent; so none is asked for here.                   *)
THEOREM ReportedSuccessIsReal ==
  ASSUME OwaHasNoBlanks, Mutation # {}
  PROVE  Spec => []SuccessIsReal
<1>1. BulkInv => SuccessIsReal
  BY DEF BulkInv, MutationInv, Counted, ReportIsReal, SuccessIsReal
<1> QED
  BY <1>1, BulkInvariant, PTL

(* A manifest of a move lists the messages whose new id the answers told,  *)
(* any other manifest what succeeded (attachMutationManifest): all of them *)
(* really changed, and under the ids of now unless they were changed       *)
(* since; and the bodies that an audit reads by it are all of messages     *)
(* that one mutation has changed.                                          *)
THEOREM ManifestsAreHonest ==
  ASSUME OwaHasNoBlanks, Mutation # {}
  PROVE  Spec => []ManifestIsHonest
<1>1. ASSUME BulkInv
      PROVE  ManifestIsHonest
  <2>1. ASSUME NEW c \in Mutation, manifests[c] # None
        PROVE  /\ MessagesOf(manifests[c].ids) =
                    IF c \in Moving THEN named[c] ELSE MessagesOf(report[c].succeeded)
               /\ MessagesOf(manifests[c].ids) \subseteq MessagesOf(report[c].succeeded)
               /\ \A id \in Range(manifests[c].ids) :
                    id[1] \in applied[c] /\ (changer[id[1]] = c => Current(id))
    <3>1. /\ manifests[c].ids = ManifestIds(c) /\ ManifestIds(c) # << >>
          /\ ReportIsReal(c) /\ ListedIsCurrent(c)
      BY <1>1, <2>1 DEF BulkInv, MutationInv, ManifestIsListed
    <3>2. /\ Range(ManifestIds(c)) \subseteq Listed(c)
          /\ \A id \in Listed(c) : id # Blank
      BY <1>1, ListedAreIds DEF BulkInv
    <3>3. /\ MessagesOf(ManifestIds(c)) =
               IF c \in Moving THEN named[c] ELSE MessagesOf(report[c].succeeded)
          /\ MessagesOf(ManifestIds(c)) \subseteq MessagesOf(report[c].succeeded)
      BY <3>1 DEF ManifestIds, ReportIsReal
    <3> QED
      BY <3>1, <3>2, <3>3 DEF ListedIsCurrent, Current
  <2>2. \A a \in Audit : \E c \in Mutation : read[a] \subseteq applied[c]
    BY <1>1 DEF BulkInv, AuditInv
  <2> QED
    BY <2>1, <2>2 DEF ManifestIsHonest
<1> QED
  BY <1>1, BulkInvariant, PTL
=============================================================================
