-------------------------- MODULE SetupApply_proofs --------------------------
(***************************************************************************)
(* Proofs about the setup commands: for any files, however often commands  *)
(* are repeated, wherever they end and whatever the user edits meanwhile.  *)
(***************************************************************************)
EXTENDS SetupApply, TLAPS

(* An operation by itself.                                                 *)
OperationIsGood(o) ==
  /\ o \in Operation
  /\ o.kind = "secret" <=> o.file = Secret
  /\ Ours \in o.content
  /\ o.kind = "create" => o.content = {Ours}
  /\ o.file \in Configs /\ o.seen # None => o.seen \subseteq o.content

(* What the disk is to an operation that is planned now.                   *)
OperationIsFresh(o) ==
  /\ o.kind = "create" => disk[o.file] \in {None, {}}
  /\ o.kind = "update" => disk[o.file] # None
  /\ o.kind = "skip" => disk[o.file] = o.content

FilesDiffer(plan) ==
  \A m, n \in DOMAIN plan : plan[m].file = plan[n].file => m = n

(* A plan, as it is until the next one is made: there is no update of a    *)
(* user's file unless it was allowed, and no wrapper without its secret.   *)
PlanIsGood ==
  /\ ops \in Seq(Operation)
  /\ FilesDiffer(ops)
  /\ \A n \in DOMAIN ops :
       /\ OperationIsGood(ops[n])
       /\ ops[n].kind = "update" => backup \/ force \/ ops[n].file = Wrapper
       /\ ops[n].file = Wrapper => n > 1 /\ ops[1].file = Secret
       /\ setupCommand = "opencode" => ops[n].file \in Configs \cup Range(Skills)

(* Where an operation has made its file absent, or has emptied it.         *)
InTheMiddle(n) == n = nextOp /\ setupPc \in {"absent", "truncated"}

(* What is known of the files that are still to be done.                   *)
PendingIsKnown ==
  setupPc # "idle" => \A n \in nextOp..Len(ops) :
    /\ ops[n].kind = "create" \/ InTheMiddle(n) =>
         \A u \in UserEntry : Holds(disk[ops[n].file], u) => << ops[n].file, u >> \in unseen
    /\ ops[n].kind = "update" /\ ~ InTheMiddle(n) => disk[ops[n].file] # None
    /\ ops[n].kind = "skip" => ~ InTheMiddle(n) /\ disk[ops[n].file] \in Text
                               /\ ops[n].content \subseteq disk[ops[n].file]
    /\ InTheMiddle(n) /\ setupPc = "truncated" =>
         setupCommand = "opencode" /\ disk[ops[n].file] \in Text

IsDone(o) ==
  /\ disk[o.file] \notin {None, Torn}
  /\ o.file # Secret => Ours \in disk[o.file]
  /\ o.file \in Configs /\ o.seen # None => o.seen \subseteq disk[o.file]

(* What is done stays done until the next plan is made.                    *)
DoneStaysDone ==
  /\ setupPc # "idle" \/ outcome = "done" => \A n \in 1..(nextOp - 1) : IsDone(ops[n])
  /\ setupPc # "idle" => outcome = None
  /\ outcome = "done" => nextOp = Len(ops) + 1

SetupInv ==
  /\ SetupTypeOK
  /\ PlanIsGood
  /\ PendingIsKnown
  /\ DoneStaysDone
  /\ WrapperHasSecret
-----------------------------------------------------------------------------
(* The plans.                                                              *)

LEMMA PlacesAreFiles ==
  /\ Configs \subseteq File /\ Range(Skills) \subseteq File /\ Range(Plugin) \subseteq File
  /\ Wrapper \in File /\ Secret \in File
  BY DEF File

LEMMA TargetIsConfig == Target \in Configs
<1>1. Config \in Seq(Configs) /\ Config # << >>
  BY FileAssumption
<1>2. 1 \in DOMAIN Config
  BY <1>1, SMT
<1> QED
  BY <1>1, <1>2, Zenon DEF Target, Configs, Range

LEMMA PlanIsFresh ==
  ASSUME SetupTypeOK, NEW f \in File \ {Secret}, NEW text \in Text, NEW e \in BOOLEAN,
         Ours \in text,
         f \notin Configs => text = {Ours},
         f \in Configs => disk[f] # Torn /\ text = Merged(f)
  PROVE  /\ OperationIsGood(Plan(f, text, e)) /\ OperationIsFresh(Plan(f, text, e))
         /\ Plan(f, text, e).file = f
         /\ Plan(f, text, e).kind = "update" => Exists(f)
         /\ Plan(f, text, e).seen = disk[f]
<1> DEFINE o == Plan(f, text, e)
<1>1. /\ o.file = f /\ o.seen = disk[f] /\ o.content = text
      /\ o.kind = IF ~ Exists(f) \/ (e /\ disk[f] = {}) THEN "create"
                  ELSE IF disk[f] = text THEN "skip" ELSE "update"
  BY DEF Plan
<1>2. o.kind \in {"create", "skip", "update"}
  BY <1>1
<1>3. disk[f] \in Content
  BY DEF SetupTypeOK
<1>4. o \in Operation
  BY <1>1, <1>2, <1>3 DEF Operation, Plan
<1>5. o.kind = "create" => text = {Ours}
  BY <1>1 DEF Exists, Merged
<1>6. f \in Configs /\ disk[f] # None => disk[f] \subseteq text
  BY DEF Merged, Exists
<1>7. OperationIsGood(o)
  BY <1>1, <1>2, <1>4, <1>5, <1>6 DEF OperationIsGood
<1>8. OperationIsFresh(o)
  BY <1>1, <1>2 DEF OperationIsFresh, Exists
<1> QED
  BY <1>1, <1>7, <1>8, <1>2

(* A plan that has just been made.                                         *)
PlanIsNew(plan) ==
  /\ plan \in Seq(Operation)
  /\ FilesDiffer(plan)
  /\ \A n \in DOMAIN plan : OperationIsGood(plan[n]) /\ OperationIsFresh(plan[n])

LEMMA CopiesAreNew ==
  ASSUME SetupTypeOK, NEW files \in {Skills, Plugin}
  PROVE  /\ PlanIsNew(Copies(files)) /\ DOMAIN Copies(files) = DOMAIN files
         /\ \A n \in DOMAIN files : /\ Copies(files)[n].file = files[n]
                                    /\ Copies(files)[n].kind = "update" => Exists(files[n])
<1>1. {Ours} \in Text
  BY DEF Text
<1>2. ASSUME NEW n \in DOMAIN files
      PROVE  /\ OperationIsGood(Copies(files)[n]) /\ OperationIsFresh(Copies(files)[n])
             /\ Copies(files)[n].file = files[n]
             /\ Copies(files)[n].kind = "update" => Exists(files[n])
  <2>1. files[n] \in File \ {Secret} /\ files[n] \notin Configs
    BY FileAssumption, PlacesAreFiles DEF Range
  <2>2. Copies(files)[n] = Plan(files[n], {Ours}, FALSE)
    BY DEF Copies
  <2>3. Ours \in {Ours} /\ FALSE \in BOOLEAN
    OBVIOUS
  <2>4. /\ OperationIsGood(Plan(files[n], {Ours}, FALSE))
        /\ OperationIsFresh(Plan(files[n], {Ours}, FALSE))
        /\ Plan(files[n], {Ours}, FALSE).file = files[n]
        /\ Plan(files[n], {Ours}, FALSE).kind = "update" => Exists(files[n])
    BY <1>1, <2>1, <2>3, PlanIsFresh, Zenon
  <2> QED
    BY <2>2, <2>4, Zenon
<1>3. Copies(files) \in Seq(Operation) /\ DOMAIN Copies(files) = DOMAIN files
  <2>1. files \in Seq(Range(files))
    BY FileAssumption
  <2>2. Len(files) \in Nat /\ DOMAIN files = 1..Len(files)
    BY <2>1
  <2>3. \A n \in 1..Len(files) : Copies(files)[n] \in Operation
    BY <1>2, <2>2 DEF OperationIsGood
  <2>4. Copies(files) = [n \in 1..Len(files) |-> Copies(files)[n]]
    BY <2>2 DEF Copies
  <2> QED
    BY <2>2, <2>3, <2>4
<1>4. FilesDiffer(Copies(files))
  <2>1. IsInjective(files)
    BY FileAssumption, Zenon
  <2>2. \A m, n \in DOMAIN files : files[m] = files[n] => m = n
    BY <2>1, Zenon DEF IsInjective
  <2> QED
    BY <1>2, <1>3, <2>2 DEF FilesDiffer
<1> QED
  BY <1>2, <1>3, <1>4 DEF PlanIsNew

LEMMA ConfigIsNew ==
  ASSUME SetupTypeOK, disk[Target] # Torn, NEW e \in BOOLEAN
  PROVE  /\ OperationIsGood(Plan(Target, Merged(Target), e))
         /\ OperationIsFresh(Plan(Target, Merged(Target), e))
         /\ Plan(Target, Merged(Target), e).file = Target
<1>1. Target \in File \ {Secret}
  BY TargetIsConfig, PlacesAreFiles, FileAssumption
<1>2. disk[Target] \in Content
  BY <1>1 DEF SetupTypeOK
<1>3. Merged(Target) \in Text /\ Ours \in Merged(Target)
  BY <1>2 DEF Merged, Content, Text, Exists
<1> QED
  BY <1>1, <1>3, TargetIsConfig, PlanIsFresh

LEMMA JoinedPlansAreNew ==
  ASSUME NEW p, NEW q, PlanIsNew(p), PlanIsNew(q),
         \A m \in DOMAIN p, n \in DOMAIN q : p[m].file # q[n].file
  PROVE  PlanIsNew(p \o q)
<1>1. /\ p \in Seq(Operation) /\ q \in Seq(Operation)
      /\ p \o q \in Seq(Operation) /\ Len(p \o q) = Len(p) + Len(q)
      /\ Len(p) \in Nat /\ Len(q) \in Nat
      /\ DOMAIN p = 1..Len(p) /\ DOMAIN q = 1..Len(q)
      /\ DOMAIN (p \o q) = 1..(Len(p) + Len(q))
  BY DEF PlanIsNew
<1>2. \A n \in DOMAIN (p \o q) :
        \/ n \in DOMAIN p /\ (p \o q)[n] = p[n]
        \/ n - Len(p) \in DOMAIN q /\ (p \o q)[n] = q[n - Len(p)]
  BY <1>1, SMT
<1>3. FilesDiffer(p \o q)
  BY <1>1, <1>2, SMT DEF FilesDiffer, PlanIsNew
<1> QED
  BY <1>1, <1>2, <1>3 DEF PlanIsNew

LEMMA ConfigPlanIsNew ==
  ASSUME SetupTypeOK, disk[Target] # Torn, NEW e \in BOOLEAN
  PROVE  /\ PlanIsNew(<< Plan(Target, Merged(Target), e) >>)
         /\ PlanIsNew(<< Plan(Target, Merged(Target), e) >> \o Copies(Skills))
         /\ PlanIsNew(Copies(Skills) \o << Plan(Target, Merged(Target), e) >>)
<1> DEFINE o == Plan(Target, Merged(Target), e)
<1>1. OperationIsGood(o) /\ OperationIsFresh(o) /\ o.file = Target
  BY ConfigIsNew, Zenon
<1>2. OperationIsGood(o) => o \in Operation
  BY DEF OperationIsGood
<1> HIDE DEF o
<1>3. << o >> \in Seq(Operation) /\ DOMAIN << o >> = {1} /\ << o >>[1] = o
  BY <1>1, <1>2, SMT
<1>4. PlanIsNew(<< o >>)
  BY <1>1, <1>3 DEF PlanIsNew, FilesDiffer
<1>5. PlanIsNew(Copies(Skills)) /\ DOMAIN Copies(Skills) = DOMAIN Skills
      /\ \A n \in DOMAIN Skills : Copies(Skills)[n].file = Skills[n]
  BY CopiesAreNew, Zenon
<1>6. \A n \in DOMAIN Skills : Skills[n] # Target
  BY TargetIsConfig, FileAssumption DEF Range
<1>7. \A m \in DOMAIN << o >>, n \in DOMAIN Copies(Skills) :
        << o >>[m].file # Copies(Skills)[n].file
  BY <1>1, <1>3, <1>5, <1>6, Zenon
<1>8. PlanIsNew(<< o >> \o Copies(Skills))
  BY <1>4, <1>5, <1>7, JoinedPlansAreNew, Zenon
<1>9. \A m \in DOMAIN Copies(Skills), n \in DOMAIN << o >> :
        Copies(Skills)[m].file # << o >>[n].file
  BY <1>7, Zenon
<1>10. PlanIsNew(Copies(Skills) \o << o >>)
  BY <1>4, <1>5, <1>9, JoinedPlansAreNew, Zenon
<1> QED
  BY <1>4, <1>8, <1>10 DEF o

LEMMA ApprovalPlanIsNew ==
  ASSUME SetupTypeOK
  PROVE  /\ PlanIsNew(ApprovalOps) /\ DOMAIN ApprovalOps = {1, 2}
         /\ ApprovalOps[1].file = Secret /\ ApprovalOps[2].file = Wrapper
         /\ ApprovalOps[1].kind = "secret"
<1> DEFINE o == Plan(Wrapper, {Ours}, TRUE)
<1>1. Wrapper \in File \ {Secret} /\ Wrapper \notin Configs /\ Secret \in File
      /\ Secret \notin Configs
  BY FileAssumption, PlacesAreFiles
<1>2. {Ours} \in Text /\ Ours \in {Ours} /\ TRUE \in BOOLEAN /\ {Ours} \in Content
  BY DEF Text, Content
<1>3. OperationIsGood(o) /\ OperationIsFresh(o) /\ o.file = Wrapper
  BY <1>1, <1>2, PlanIsFresh, Zenon
<1>4. SecretOp \in Operation /\ SecretOp.file = Secret /\ SecretOp.kind = "secret"
  BY <1>1, <1>2 DEF SecretOp, Operation, SetupTypeOK
<1>5. OperationIsGood(SecretOp) /\ OperationIsFresh(SecretOp)
  BY <1>1, <1>2, <1>4 DEF OperationIsGood, OperationIsFresh, SecretOp
<1>6. o \in Operation
  BY <1>3 DEF OperationIsGood
<1>7. ApprovalOps = << SecretOp, o >>
  BY DEF ApprovalOps
<1> HIDE DEF o
<1>8. /\ ApprovalOps \in Seq(Operation) /\ DOMAIN ApprovalOps = {1, 2}
      /\ ApprovalOps[1] = SecretOp /\ ApprovalOps[2] = o
  BY <1>4, <1>6, <1>7, SMT
<1> QED
  BY <1>1, <1>3, <1>4, <1>5, <1>8, FileAssumption DEF PlanIsNew, FilesDiffer

(* Whatever is planned now is right, and an update of a user's file is     *)
(* only applied if it was allowed.                                         *)
LEMMA PlansAreNew ==
  ASSUME SetupTypeOK, NEW c \in Command, CanPlan(c)
  PROVE  /\ PlanIsNew(Ops(c))
         /\ \A n \in DOMAIN Ops(c) :
              /\ Ops(c)[n].file = Wrapper => n > 1 /\ Ops(c)[1].file = Secret
              /\ c = "opencode" => Ops(c)[n].file \in Configs \cup Range(Skills)
<1>1. TRUE \in BOOLEAN /\ FALSE \in BOOLEAN
  OBVIOUS
<1>2. /\ PlanIsNew(Copies(Skills)) /\ DOMAIN Copies(Skills) = DOMAIN Skills
      /\ \A n \in DOMAIN Skills : Copies(Skills)[n].file = Skills[n]
      /\ PlanIsNew(Copies(Plugin)) /\ DOMAIN Copies(Plugin) = DOMAIN Plugin
      /\ \A n \in DOMAIN Plugin : Copies(Plugin)[n].file = Plugin[n]
  BY CopiesAreNew, Zenon
<1>3. /\ \A n \in DOMAIN Skills : Skills[n] \in Range(Skills) /\ Skills[n] # Wrapper
      /\ \A n \in DOMAIN Plugin : Plugin[n] # Wrapper
      /\ Target \in Configs /\ Target # Wrapper
  BY TargetIsConfig, FileAssumption DEF Range
<1>4. CASE c = "agent"
  <2>1. disk[Target] # Torn
    BY <1>4 DEF CanPlan
  <2>2. Ops(c) = << AgentConfig >> \o Copies(Skills)
    BY <1>4 DEF Ops, AgentOps
  <2>3. PlanIsNew(Ops(c)) /\ PlanIsNew(<< AgentConfig >>)
    BY <1>1, <2>1, <2>2, ConfigPlanIsNew, Zenon DEF AgentConfig
  <2>4. AgentConfig.file = Target
    BY <1>1, <2>1, ConfigIsNew, Zenon DEF AgentConfig
  <2>5. \A n \in DOMAIN Ops(c) : Ops(c)[n].file # Wrapper
    BY <1>2, <1>3, <2>2, <2>3, <2>4, SMT DEF PlanIsNew
  <2> QED
    BY <1>4, <2>3, <2>5
<1>5. CASE c = "skills"
  BY <1>2, <1>3, <1>5 DEF Ops
<1>6. CASE c = "opencode"
  <2>1. disk[Target] # Torn
    BY <1>6 DEF CanPlan
  <2>2. Ops(c) = IF Target \in Ahead THEN << OpencodeConfig >> \o Copies(Skills)
                 ELSE Copies(Skills) \o << OpencodeConfig >>
    BY <1>6 DEF Ops, OpencodeOps, PlanTarget, Copies
  <2>3. /\ PlanIsNew(<< OpencodeConfig >> \o Copies(Skills))
        /\ PlanIsNew(Copies(Skills) \o << OpencodeConfig >>)
        /\ PlanIsNew(<< OpencodeConfig >>)
    BY <1>1, <2>1, ConfigPlanIsNew, Zenon DEF OpencodeConfig, PlanTarget
  <2>4. OpencodeConfig.file = Target
    BY <1>1, <2>1, ConfigIsNew, Zenon DEF OpencodeConfig, PlanTarget
  <2>5. \A n \in DOMAIN (<< OpencodeConfig >> \o Copies(Skills)) :
          LET f == (<< OpencodeConfig >> \o Copies(Skills))[n].file
          IN  f # Wrapper /\ f \in Configs \cup Range(Skills)
    BY <1>2, <1>3, <2>3, <2>4, SMT DEF PlanIsNew
  <2>6. \A n \in DOMAIN (Copies(Skills) \o << OpencodeConfig >>) :
          LET f == (Copies(Skills) \o << OpencodeConfig >>)[n].file
          IN  f # Wrapper /\ f \in Configs \cup Range(Skills)
    BY <1>2, <1>3, <2>3, <2>4, SMT DEF PlanIsNew
  <2> QED
    BY <1>6, <2>2, <2>3, <2>5, <2>6
<1>7. CASE c = "approval"
  <2>1. Ops(c) = ApprovalOps
    BY <1>7 DEF Ops
  <2> QED
    BY <1>7, <2>1, ApprovalPlanIsNew, FileAssumption
<1>8. CASE c = "plugin"
  BY <1>2, <1>3, <1>8 DEF Ops, PluginOps
<1> QED
  BY <1>4, <1>5, <1>6, <1>7, <1>8 DEF Command

LEMMA UpdatesAreAllowed ==
  ASSUME SetupTypeOK, NEW c \in Command, NEW b \in BOOLEAN, NEW f \in BOOLEAN,
         ~ Refuses(c, b, f), NEW n \in DOMAIN Ops(c), Ops(c)[n].kind = "update"
  PROVE  b \/ f \/ Ops(c)[n].file = Wrapper
<1>1. Has("update", Ops(c))
  BY DEF Has
<1>2. CASE c \in {"agent", "skills"}
  BY <1>1, <1>2 DEF Refuses, RefusesChange
<1>3. CASE c = "opencode"
  BY <1>1, <1>3 DEF Refuses, RefusesOpencode, Ops
<1>4. CASE c = "approval"
  <2>1. Ops(c) = ApprovalOps
    BY <1>4 DEF Ops
  <2> QED
    BY <2>1, ApprovalPlanIsNew
<1>5. CASE c = "plugin"
  <2>1. Ops(c) = Copies(Plugin) /\ Ops(c) = PluginOps
    BY <1>5 DEF Ops, PluginOps
  <2>2. n \in DOMAIN Plugin /\ Exists(Plugin[n])
    BY <2>1, CopiesAreNew
  <2> QED
    BY <1>1, <1>5, <2>1, <2>2 DEF Refuses, RefusesOutput
<1> QED
  BY <1>2, <1>3, <1>4, <1>5 DEF Command
-----------------------------------------------------------------------------
(* The invariant.                                                          *)

LEMMA TextIsContent ==
  /\ None \in Content /\ Torn \in Content /\ Text \subseteq Content /\ {} \in Text
  /\ None \notin Text /\ Torn \notin Text /\ None # Torn /\ Ours \notin UserEntry
  /\ \A t \in Text, u \in UserEntry : t \cup {u} \in Text
  /\ \A u \in UserEntry : {u} \in Text
  /\ \A t \in Content : t \notin {None, Torn} => t \in Text
  /\ \A o \in Operation : /\ o.file \in File /\ o.content \in Text
                          /\ o.kind \in {"create", "update", "skip", "secret"}
<1>1. {} \in Text /\ \A u \in UserEntry : {u} \in Text /\ \A t \in Text : t \cup {u} \in Text
  BY DEF Text
<1>2. None \notin Text /\ Torn \notin Text /\ None # Torn /\ Ours \notin UserEntry
  BY EntryAssumption, Zenon
<1>3. \A o \in Operation : /\ o.file \in File /\ o.content \in Text
                          /\ o.kind \in {"create", "update", "skip", "secret"}
  BY DEF Operation
<1>4. /\ None \in Content /\ Torn \in Content /\ Text \subseteq Content
      /\ \A t \in Content : t \notin {None, Torn} => t \in Text
  BY DEF Content
<1> QED
  BY <1>1, <1>2, <1>3, <1>4, Zenon

(* The operation that a command is at.                                     *)
LEMMA OpIsGood ==
  ASSUME SetupInv, setupPc # "idle", nextOp <= Len(ops)
  PROVE  /\ nextOp \in DOMAIN ops /\ nextOp \in nextOp..Len(ops)
         /\ Op \in Operation /\ Op.file \in File /\ Op.content \in Text
         /\ OperationIsGood(Op)
         /\ Op.kind = "update" => backup \/ force \/ Op.file = Wrapper
         /\ Op.file = Wrapper => nextOp > 1 /\ ops[1].file = Secret
         /\ setupCommand = "opencode" => Op.file \in Configs \cup Range(Skills)
         /\ \A n \in DOMAIN ops : n # nextOp => ops[n].file # Op.file
         /\ nextOp + 1 \in 1..(Len(ops) + 1)
<1>1. /\ ops \in Seq(Operation) /\ nextOp \in 1..(Len(ops) + 1) /\ Len(ops) \in Nat
      /\ DOMAIN ops = 1..Len(ops)
  BY DEF SetupInv, SetupTypeOK
<1>2. nextOp \in DOMAIN ops /\ nextOp \in nextOp..Len(ops) /\ nextOp + 1 \in 1..(Len(ops) + 1)
  BY <1>1
<1>3. Op \in Operation
  BY <1>1, <1>2 DEF Op
<1> QED
  BY <1>2, <1>3, TextIsContent, Zenon DEF SetupInv, PlanIsGood, FilesDiffer, Op

LEMMA SetupInitially == SetupInit => SetupInv
<1> SUFFICES ASSUME SetupInit PROVE SetupInv
  OBVIOUS
<1>1. SetupTypeOK
  <2>1. disk \in [File -> Content] /\ backups \in [File -> Seq(Content \ {None})]
    BY TextIsContent DEF SetupInit
  <2>2. \A f \in File : disk[f] # Torn /\ Range(backups[f]) = {}
    BY TextIsContent DEF SetupInit, Range
  <2>3. ops \in Seq(Operation) /\ nextOp \in 1..(Len(ops) + 1)
    BY DEF SetupInit
  <2>4. /\ setupCommand \in Command \cup {None} /\ backup \in BOOLEAN /\ force \in BOOLEAN
        /\ setupPc \in {"idle", "next", "absent", "truncated"}
        /\ setupPc \notin {"absent", "truncated"}
        /\ outcome \in {None, "done", "failed"} /\ unseen \subseteq File \X UserEntry
    BY Zenon DEF SetupInit
  <2>5. runs \in 0..MaxRuns /\ edits \in 0..MaxEdits
    BY BoundAssumption DEF SetupInit
  <2> QED
    BY <2>1, <2>2, <2>3, <2>4, <2>5, Zenon DEF SetupTypeOK
<1>2. PlanIsGood /\ PendingIsKnown /\ DoneStaysDone /\ WrapperHasSecret
  BY PlacesAreFiles, EntryAssumption
     DEF SetupInit, PlanIsGood, FilesDiffer, PendingIsKnown, DoneStaysDone,
         WrapperHasSecret, Holds
<1> QED
  BY <1>1, <1>2 DEF SetupInv

LEMMA BuildPlanKeeps ==
  ASSUME SetupInv, NEW c \in Command, BuildPlan(c)
  PROVE  SetupInv'
<1>1. SetupTypeOK
  BY DEF SetupInv
<1>2. PICK flags \in Flags(c), duplicates \in MayHaveDuplicates(c) :
        /\ backup' = flags[1] /\ force' = flags[2]
        /\ IF CanPlan(c) /\ ~ duplicates /\ ~ Refuses(c, flags[1], flags[2])
           THEN ops' = Ops(c) /\ setupPc' = "next" /\ outcome' = None
           ELSE ops' = << >> /\ UNCHANGED setupPc /\ outcome' = "failed"
  BY DEF BuildPlan
<1>3. flags[1] \in BOOLEAN /\ flags[2] \in BOOLEAN
  BY DEF Flags, Command
<1>4. /\ setupPc = "idle" /\ runs < MaxRuns /\ runs' = runs + 1 /\ unseen' = {}
      /\ setupCommand' = c /\ nextOp' = 1 /\ UNCHANGED << disk, backups, edits >>
  BY DEF BuildPlan
<1>5. WrapperHasSecret'
  BY <1>4 DEF SetupInv, WrapperHasSecret, Holds, Exists
<1>6. ASSUME ops' \in Seq(Operation), setupPc' \in {"idle", "next"},
             outcome' \in {None, "failed"}
      PROVE  SetupTypeOK'
  BY <1>1, <1>2, <1>3, <1>4, <1>6, BoundAssumption DEF SetupTypeOK
<1>7. CASE CanPlan(c) /\ ~ duplicates /\ ~ Refuses(c, flags[1], flags[2])
  <2>1. ops' = Ops(c) /\ setupPc' = "next" /\ outcome' = None
    BY <1>2, <1>7
  <2>2. /\ PlanIsNew(Ops(c))
        /\ \A n \in DOMAIN Ops(c) :
             /\ Ops(c)[n].file = Wrapper => n > 1 /\ Ops(c)[1].file = Secret
             /\ c = "opencode" => Ops(c)[n].file \in Configs \cup Range(Skills)
    BY <1>1, <1>7, PlansAreNew
  <2>3. \A n \in DOMAIN Ops(c) : Ops(c)[n].kind = "update" =>
          flags[1] \/ flags[2] \/ Ops(c)[n].file = Wrapper
    BY <1>1, <1>3, <1>7, UpdatesAreAllowed, Zenon
  <2>4. PlanIsGood'
    BY <1>2, <1>4, <2>1, <2>2, <2>3 DEF PlanIsGood, PlanIsNew, FilesDiffer, OperationIsGood
  <2>5. PendingIsKnown'
    <3>1. DOMAIN Ops(c) = 1..Len(Ops(c))
      BY <2>2 DEF PlanIsNew
    <3>2. ASSUME NEW n \in DOMAIN Ops(c)
          PROVE  LET o == Ops(c)[n]
                 IN  /\ o.kind = "create" => \A u \in UserEntry : ~ Holds(disk[o.file], u)
                     /\ o.kind = "update" => disk[o.file] # None
                     /\ o.kind = "skip" => disk[o.file] \in Text /\ o.content = disk[o.file]
      BY <2>2, TextIsContent DEF PlanIsNew, OperationIsFresh, OperationIsGood, Holds
    <3> QED
      BY <1>4, <2>1, <3>1, <3>2 DEF PendingIsKnown, InTheMiddle, Holds
  <2>6. DoneStaysDone'
    BY <1>4, <2>1, EntryAssumption DEF DoneStaysDone
  <2> QED
    BY <1>5, <1>6, <2>1, <2>2, <2>4, <2>5, <2>6 DEF SetupInv, PlanIsNew
<1>8. CASE ~ (CanPlan(c) /\ ~ duplicates /\ ~ Refuses(c, flags[1], flags[2]))
  <2>1. ops' = << >> /\ setupPc' = "idle" /\ outcome' = "failed"
    BY <1>2, <1>4, <1>8
  <2>2. PlanIsGood' /\ PendingIsKnown' /\ DoneStaysDone'
    BY <1>4, <2>1 DEF PlanIsGood, FilesDiffer, PendingIsKnown, DoneStaysDone
  <2> QED
    BY <1>5, <1>6, <2>1, <2>2 DEF SetupInv
<1> QED
  BY <1>7, <1>8

(* An operation is done: its file now holds "text".                        *)
LEMMA AdvanceKeeps ==
  ASSUME SetupInv, setupPc # "idle", nextOp <= Len(ops), NEW text \in Text,
         Op.file # Secret => Ours \in text,
         Op.file \in Configs /\ Op.seen # None => Op.seen \subseteq text,
         disk' = [disk EXCEPT ![Op.file] = text], Advance,
         UNCHANGED << backups, invocation, ops, outcome, unseen, runs, edits >>
  PROVE  SetupInv'
<1>1. /\ ops \in Seq(Operation) /\ nextOp \in 1..(Len(ops) + 1) /\ Len(ops) \in Nat
      /\ DOMAIN ops = 1..Len(ops) /\ disk \in [File -> Content]
  BY DEF SetupInv, SetupTypeOK
<1>2. /\ Op.file \in File /\ nextOp + 1 \in 1..(Len(ops) + 1) /\ nextOp \in DOMAIN ops
      /\ \A n \in DOMAIN ops : n # nextOp => ops[n].file # Op.file
      /\ Op.file = Wrapper => nextOp > 1 /\ ops[1].file = Secret
  BY OpIsGood, Zenon
<1>3. \A n \in DOMAIN ops : ops[n].file \in File
  BY <1>1, TextIsContent
<1>4. /\ disk'[Op.file] = text /\ text # None /\ text # Torn
      /\ \A f \in File : f # Op.file => disk'[f] = disk[f]
  BY <1>1, <1>2, TextIsContent
<1>5. /\ ops' = ops /\ nextOp' = nextOp + 1 /\ setupPc' = "next" /\ outcome' = outcome
      /\ setupCommand' = setupCommand /\ backup' = backup /\ force' = force
      /\ unseen' = unseen /\ backups' = backups /\ runs' = runs /\ edits' = edits
  BY DEF Advance, invocation
<1>6. SetupTypeOK'
  BY <1>1, <1>2, <1>4, <1>5, TextIsContent DEF SetupInv, SetupTypeOK
<1>7. PlanIsGood'
  BY <1>5 DEF SetupInv, PlanIsGood, FilesDiffer, OperationIsGood
<1>8. PendingIsKnown'
  <2>1. ASSUME NEW n \in (nextOp + 1)..Len(ops)
        PROVE  /\ n \in nextOp..Len(ops) /\ ~ InTheMiddle(n) /\ ~ InTheMiddle(n)'
               /\ disk'[ops[n].file] = disk[ops[n].file]
    BY <1>1, <1>2, <1>3, <1>4, <1>5 DEF InTheMiddle
  <2> QED
    BY <1>5, <2>1, Zenon DEF SetupInv, PendingIsKnown, Holds
<1>9. DoneStaysDone'
  <2>1. ASSUME NEW n \in 1..(nextOp - 1) PROVE IsDone(ops[n])'
    <3>1. n \in DOMAIN ops /\ n # nextOp
      BY <1>1
    <3>2. disk'[ops[n].file] = disk[ops[n].file]
      BY <1>2, <1>3, <1>4, <3>1
    <3> QED
      BY <1>5, <3>2 DEF SetupInv, DoneStaysDone, IsDone
  <2>2. \A n : n = nextOp => IsDone(ops[n])'
    BY <1>4, <1>5 DEF IsDone, Op
  <2>3. \A n \in 1..nextOp : n = nextOp \/ n \in 1..(nextOp - 1)
    BY <1>1
  <2>4. nextOp' - 1 = nextOp /\ outcome' = None /\ outcome' # "done"
    BY <1>1, <1>5, EntryAssumption DEF SetupInv, DoneStaysDone
  <2>5. ASSUME NEW n \in 1..(nextOp' - 1) PROVE IsDone(ops[n])'
    BY <2>1, <2>2, <2>3, <2>4
  <2> QED
    BY <1>5, <2>4, <2>5, Zenon DEF DoneStaysDone
<1>10. WrapperHasSecret'
  <2>1. CASE Op.file = Wrapper
    <3>1. 1 \in 1..(nextOp - 1) /\ ops[1].file = Secret /\ Secret # Op.file
      BY <1>1, <1>2, <2>1, FileAssumption
    <3>2. IsDone(ops[1])
      BY <3>1 DEF SetupInv, DoneStaysDone
    <3> QED
      BY <1>4, <3>1, <3>2, PlacesAreFiles DEF WrapperHasSecret, IsDone, Exists
  <2>2. CASE Op.file # Wrapper
    BY <1>4, <2>2, PlacesAreFiles DEF SetupInv, WrapperHasSecret, Exists, Holds
  <2> QED
    BY <2>1, <2>2
<1> QED
  BY <1>6, <1>7, <1>8, <1>9, <1>10 DEF SetupInv

(* An operation makes its file absent, or empties it, and is not done yet. *)
LEMMA StayKeeps ==
  ASSUME SetupInv, setupPc # "idle", nextOp <= Len(ops), NEW left \in {None, {}},
         disk' = [disk EXCEPT ![Op.file] = left],
         Op.kind # "skip", Op.file = Secret => disk' = disk,
         setupPc' \in {"absent", "truncated"},
         setupPc' = "truncated" => left = {} /\ setupCommand = "opencode",
         backups' \in [File -> Seq(Content \ {None})],
         \A f \in File : Torn \in Range(backups'[f]) => f \in Configs \cup Range(Skills),
         UNCHANGED << invocation, ops, nextOp, outcome, unseen, runs, edits >>
  PROVE  SetupInv'
<1>1. /\ ops \in Seq(Operation) /\ nextOp \in 1..(Len(ops) + 1) /\ Len(ops) \in Nat
      /\ DOMAIN ops = 1..Len(ops) /\ disk \in [File -> Content]
  BY DEF SetupInv, SetupTypeOK
<1>2. /\ Op.file \in File /\ nextOp \in DOMAIN ops
      /\ \A n \in DOMAIN ops : n # nextOp => ops[n].file # Op.file
  BY OpIsGood, Zenon
<1>3. \A n \in DOMAIN ops : ops[n].file \in File
  BY <1>1, TextIsContent
<1>4. /\ disk'[Op.file] = left /\ \A u : ~ Holds(left, u)
      /\ left \in Content /\ left # Torn
      /\ \A f \in File : f # Op.file => disk'[f] = disk[f]
  BY <1>1, <1>2, TextIsContent DEF Holds
<1>5. /\ ops' = ops /\ nextOp' = nextOp /\ outcome' = outcome
      /\ setupCommand' = setupCommand /\ backup' = backup /\ force' = force
      /\ unseen' = unseen /\ runs' = runs /\ edits' = edits
  BY DEF invocation
<1>6. SetupTypeOK'
  BY <1>1, <1>2, <1>4, <1>5 DEF SetupInv, SetupTypeOK
<1>7. PlanIsGood'
  BY <1>5 DEF SetupInv, PlanIsGood, FilesDiffer, OperationIsGood
<1>8. PendingIsKnown'
  <2>1. ASSUME NEW n \in nextOp..Len(ops), n # nextOp
        PROVE  /\ ~ InTheMiddle(n) /\ ~ InTheMiddle(n)'
               /\ disk'[ops[n].file] = disk[ops[n].file]
    BY <1>1, <1>2, <1>3, <1>4, <1>5, <2>1 DEF InTheMiddle
  <2>2. \A n : n = nextOp => /\ disk'[ops[n].file] = left
                             /\ ops[n].kind # "skip" /\ InTheMiddle(n)'
    BY <1>4, <1>5 DEF Op, InTheMiddle
  <2>3. ASSUME NEW n \in nextOp..Len(ops)
        PROVE  /\ ops[n].kind = "create" \/ InTheMiddle(n)' =>
                    \A u \in UserEntry : Holds(disk'[ops[n].file], u) =>
                                          << ops[n].file, u >> \in unseen
               /\ ops[n].kind = "update" /\ ~ InTheMiddle(n)' => disk'[ops[n].file] # None
               /\ ops[n].kind = "skip" => ~ InTheMiddle(n)' /\ disk'[ops[n].file] \in Text
                                         /\ ops[n].content \subseteq disk'[ops[n].file]
               /\ InTheMiddle(n)' /\ setupPc' = "truncated" =>
                    setupCommand = "opencode" /\ disk'[ops[n].file] \in Text
    <3>1. CASE n = nextOp
      <4>1. disk'[ops[n].file] = left /\ ops[n].kind # "skip" /\ InTheMiddle(n)'
        BY <2>2, <3>1, Zenon
      <4>2. \A u \in UserEntry : ~ Holds(disk'[ops[n].file], u)
        BY <1>4, <4>1, Zenon
      <4>3. setupPc' = "truncated" =>
              setupCommand = "opencode" /\ disk'[ops[n].file] \in Text
        BY <4>1, TextIsContent, Zenon
      <4> QED
        BY <4>1, <4>2, <4>3, Zenon
    <3>2. CASE n # nextOp
      BY <2>1, <3>2, Zenon DEF SetupInv, PendingIsKnown
    <3> QED
      BY <3>1, <3>2
  <2> QED
    BY <1>5, <2>3, Zenon DEF PendingIsKnown
<1>9. DoneStaysDone'
  <2>1. ASSUME NEW n \in 1..(nextOp - 1) PROVE IsDone(ops[n])'
    <3>1. n \in DOMAIN ops /\ n # nextOp
      BY <1>1
    <3>2. disk'[ops[n].file] = disk[ops[n].file]
      BY <1>2, <1>3, <1>4, <3>1
    <3> QED
      BY <1>5, <3>2 DEF SetupInv, DoneStaysDone, IsDone
  <2>2. outcome' = None /\ outcome' # "done"
    BY <1>5, EntryAssumption DEF SetupInv, DoneStaysDone
  <2> QED
    BY <1>5, <2>1, <2>2 DEF SetupInv, DoneStaysDone
<1>10. WrapperHasSecret'
  BY <1>4, PlacesAreFiles, TextIsContent DEF SetupInv, WrapperHasSecret, Exists, Holds
<1> QED
  BY <1>6, <1>7, <1>8, <1>9, <1>10 DEF SetupInv

LEMMA FailKeeps == ASSUME SetupInv, Fail PROVE SetupInv'
<1>1. /\ setupPc # "idle" /\ setupPc' = "idle" /\ outcome' = "failed"
      /\ UNCHANGED << backups, invocation, ops, nextOp, unseen, runs, edits >>
  BY DEF Fail
<1>2. /\ disk \in [File -> Content] /\ disk' \in [File -> Content]
      /\ \A f \in File : disk'[f] # disk[f] => disk'[f] = Torn /\ f \in Configs \cup Range(Skills)
  <2>1. CASE setupPc = "truncated"
    <3>1. nextOp <= Len(ops) /\ disk \in [File -> Content]
      BY <2>1 DEF SetupInv, SetupTypeOK
    <3>2. setupCommand = "opencode"
      BY <2>1, <3>1, OpIsGood DEF SetupInv, PendingIsKnown, InTheMiddle
    <3>3. Op.file \in File /\ Op.file \in Configs \cup Range(Skills)
      BY <1>1, <3>1, <3>2, OpIsGood
    <3>4. PICK left \in {disk[Op.file], Torn} : disk' = [disk EXCEPT ![Op.file] = left]
      BY <2>1 DEF Fail
    <3>5. left \in Content
      BY <3>1, <3>3, <3>4, TextIsContent
    <3>6. /\ disk' \in [File -> Content] /\ disk'[Op.file] = left
          /\ \A f \in File : f # Op.file => disk'[f] = disk[f]
      BY <3>1, <3>3, <3>4, <3>5
    <3>7. ASSUME NEW f \in File
          PROVE  disk'[f] # disk[f] => disk'[f] = Torn /\ f \in Configs \cup Range(Skills)
      BY <3>3, <3>4, <3>6, Zenon
    <3> QED
      BY <3>1, <3>6, <3>7, Zenon
  <2>2. CASE setupPc # "truncated"
    <3>1. disk' = disk
      BY <2>2 DEF Fail
    <3>2. disk \in [File -> Content]
      BY Zenon DEF SetupInv, SetupTypeOK
    <3> QED
      BY <3>1, <3>2, Zenon
  <2> QED
    BY <2>1, <2>2
<1>3. SetupTypeOK'
  BY <1>1, <1>2 DEF SetupInv, SetupTypeOK, invocation
<1>4. PlanIsGood' /\ PendingIsKnown' /\ DoneStaysDone'
  BY <1>1 DEF SetupInv, PlanIsGood, FilesDiffer, OperationIsGood, PendingIsKnown,
              DoneStaysDone, invocation
<1>5. disk'[Wrapper] = disk[Wrapper] /\ disk'[Secret] = disk[Secret]
  BY <1>2, PlacesAreFiles, FileAssumption
<1>6. WrapperHasSecret'
  BY <1>5 DEF SetupInv, WrapperHasSecret, Exists, Holds
<1> QED
  BY <1>3, <1>4, <1>6 DEF SetupInv

LEMMA EditKeeps ==
  ASSUME SetupInv, NEW f \in File, NEW u \in UserEntry, Edit(f, u)
  PROVE  SetupInv'
<1> DEFINE text == IF disk[f] \in {None, Torn} THEN {u} ELSE disk[f] \cup {u}
<1>1. /\ disk \in [File -> Content] /\ disk' = [disk EXCEPT ![f] = text]
      /\ edits < MaxEdits /\ edits' = edits + 1
      /\ unseen' = IF Missed(f) THEN unseen \cup {<< f, u >>} ELSE unseen
      /\ UNCHANGED << backups, invocation, ops, nextOp, setupPc, outcome, runs >>
  BY DEF SetupInv, SetupTypeOK, Edit
<1>2. text \in Text
  BY <1>1, TextIsContent
<1>3. /\ \A x : Holds(disk[f], x) => x \in text
      /\ \A x : x \in text => Holds(disk[f], x) \/ x = u
      /\ disk[f] \notin {None, Torn} => disk[f] \subseteq text
  BY DEF Holds
<1> HIDE DEF text
<1>4. /\ disk'[f] = text /\ text # None /\ text # Torn /\ disk' \in [File -> Content]
      /\ \A g \in File : g # f => disk'[g] = disk[g]
  BY <1>1, <1>2, TextIsContent
<1>5. /\ ops \in Seq(Operation) /\ DOMAIN ops = 1..Len(ops) /\ Len(ops) \in Nat
      /\ nextOp \in 1..(Len(ops) + 1)
  BY DEF SetupInv, SetupTypeOK
<1>6. \A n \in DOMAIN ops : ops[n].file \in File
  BY <1>5, TextIsContent
<1>7. SetupTypeOK'
  BY <1>1, <1>4, BoundAssumption DEF SetupInv, SetupTypeOK, invocation
<1>8. PlanIsGood'
  BY <1>1 DEF SetupInv, PlanIsGood, FilesDiffer, OperationIsGood, invocation
<1>9. PendingIsKnown'
  <2> SUFFICES ASSUME setupPc # "idle", NEW n \in nextOp..Len(ops)
               PROVE  /\ ops[n].kind = "create" \/ InTheMiddle(n) =>
                           \A x \in UserEntry : Holds(disk'[ops[n].file], x) =>
                                                 << ops[n].file, x >> \in unseen'
                      /\ ops[n].kind = "update" /\ ~ InTheMiddle(n) => disk'[ops[n].file] # None
                      /\ ops[n].kind = "skip" => ~ InTheMiddle(n) /\ disk'[ops[n].file] \in Text
                                                 /\ ops[n].content \subseteq disk'[ops[n].file]
                      /\ InTheMiddle(n) /\ setupPc = "truncated" =>
                           setupCommand = "opencode" /\ disk'[ops[n].file] \in Text
    BY <1>1 DEF PendingIsKnown, InTheMiddle, invocation
  <2>1. /\ ops[n].kind = "create" \/ InTheMiddle(n) =>
             \A x \in UserEntry : Holds(disk[ops[n].file], x) => << ops[n].file, x >> \in unseen
        /\ ops[n].kind = "update" /\ ~ InTheMiddle(n) => disk[ops[n].file] # None
        /\ ops[n].kind = "skip" => ~ InTheMiddle(n) /\ disk[ops[n].file] \in Text
                                   /\ ops[n].content \subseteq disk[ops[n].file]
        /\ InTheMiddle(n) /\ setupPc = "truncated" =>
             setupCommand = "opencode" /\ disk[ops[n].file] \in Text
    BY Zenon DEF SetupInv, PendingIsKnown
  <2>2. CASE ops[n].file # f
    <3>1. disk'[ops[n].file] = disk[ops[n].file] /\ unseen \subseteq unseen'
      BY <1>1, <1>4, <1>5, <1>6, <2>2
    <3> QED
      BY <2>1, <3>1, Zenon
  <2>3. CASE ops[n].file = f
    <3>1. ops[n].kind = "create" \/ InTheMiddle(n) => unseen' = unseen \cup {<< f, u >>}
      BY <1>1, <2>3 DEF Missed, InTheMiddle
    <3>2. ASSUME ops[n].kind = "create" \/ InTheMiddle(n), NEW x \in UserEntry,
                 Holds(disk'[f], x)
          PROVE  << f, x >> \in unseen'
      <4>1. Holds(disk[f], x) \/ x = u
        BY <1>3, <1>4, <3>2 DEF Holds
      <4> QED
        BY <2>1, <2>3, <3>1, <3>2, <4>1
    <3>3. ops[n].kind = "skip" => ops[n].content \subseteq disk'[f]
      BY <1>3, <1>4, <2>1, <2>3, TextIsContent
    <3> QED
      BY <1>2, <1>4, <2>1, <2>3, <3>2, <3>3, Zenon
  <2> QED
    BY <2>2, <2>3
<1>10. DoneStaysDone'
  <2>1. ASSUME NEW n \in 1..(nextOp - 1), IsDone(ops[n]) PROVE IsDone(ops[n])'
    <3>1. CASE ops[n].file = f
      BY <1>1, <1>3, <1>4, <2>1, <3>1 DEF IsDone
    <3>2. CASE ops[n].file # f
      <4>1. disk'[ops[n].file] = disk[ops[n].file]
        BY <1>4, <1>5, <1>6, <3>2
      <4> QED
        BY <1>1, <2>1, <4>1 DEF IsDone
    <3> QED
      BY <3>1, <3>2
  <2> QED
    BY <1>1, <2>1 DEF SetupInv, DoneStaysDone
<1>11. WrapperHasSecret'
  BY <1>3, <1>4, PlacesAreFiles, TextIsContent DEF SetupInv, WrapperHasSecret, Exists, Holds
<1> QED
  BY <1>7, <1>8, <1>9, <1>10, <1>11 DEF SetupInv

(* What is known where an operation begins, and in the middle of it.       *)
LEMMA OpIsKnown ==
  ASSUME SetupInv, setupPc # "idle", nextOp <= Len(ops)
  PROVE  /\ disk \in [File -> Content]
         /\ Op.kind = "create" \/ setupPc # "next" =>
              \A u \in UserEntry : Holds(disk[Op.file], u) => << Op.file, u >> \in unseen
         /\ setupPc = "next" /\ Op.kind = "update" => disk[Op.file] # None
         /\ Op.kind = "skip" => setupPc = "next" /\ disk[Op.file] \in Text
                                /\ Op.content \subseteq disk[Op.file]
<1>1. nextOp \in nextOp..Len(ops) /\ disk \in [File -> Content]
  BY OpIsGood DEF SetupInv, SetupTypeOK
<1>2. setupPc = "next" \/ setupPc \in {"absent", "truncated"}
  BY DEF SetupInv, SetupTypeOK
<1>3. /\ Op.kind = "create" \/ InTheMiddle(nextOp) =>
           \A u \in UserEntry : Holds(disk[Op.file], u) => << Op.file, u >> \in unseen
      /\ Op.kind = "update" /\ ~ InTheMiddle(nextOp) => disk[Op.file] # None
      /\ Op.kind = "skip" => ~ InTheMiddle(nextOp) /\ disk[Op.file] \in Text
                             /\ Op.content \subseteq disk[Op.file]
  BY <1>1, Zenon DEF SetupInv, PendingIsKnown, Op
<1>4. InTheMiddle(nextOp) <=> setupPc # "next"
  BY <1>2 DEF InTheMiddle
<1> QED
  BY <1>1, <1>3, <1>4, Zenon

LEMMA MayWriteIsGood ==
  ASSUME SetupInv, MayWrite
  PROVE  /\ setupPc # "idle" /\ nextOp <= Len(ops) /\ Op.kind # "skip"
         /\ MovesAside \/ Op.kind # "update" \/ force \/ Op.file = Wrapper \/ setupPc # "next"
<1>1. setupPc # "idle" /\ nextOp <= Len(ops)
  BY DEF MayWrite, At
<1> QED
  BY <1>1, OpIsGood, OpIsKnown DEF MayWrite, At, MovesAside

LEMMA SetupStepKeeps == SetupInv /\ [SetupNext]_setupVars => SetupInv'
<1> SUFFICES ASSUME SetupInv, [SetupNext]_setupVars PROVE SetupInv'
  OBVIOUS
<1>1. CASE \E c \in Command : BuildPlan(c)
  BY <1>1, BuildPlanKeeps
<1>2. CASE SkipOp
  <2>1. /\ setupPc # "idle" /\ nextOp <= Len(ops) /\ Op.kind = "skip" /\ Advance
        /\ UNCHANGED << disk, backups, invocation, ops, outcome, unseen, runs, edits >>
    BY <1>2 DEF SkipOp, At
  <2>2. /\ disk[Op.file] \in Text /\ Op.content \subseteq disk[Op.file]
        /\ OperationIsGood(Op) /\ disk \in [File -> Content] /\ Op.file \in File
    BY <2>1, OpIsGood, OpIsKnown, Zenon
  <2>3. disk' = [disk EXCEPT ![Op.file] = disk[Op.file]]
    BY <2>1, <2>2
  <2>4. /\ Op.file # Secret => Ours \in disk[Op.file]
        /\ Op.file \in Configs /\ Op.seen # None => Op.seen \subseteq disk[Op.file]
    BY <2>2 DEF OperationIsGood
  <2> QED
    BY <2>1, <2>2, <2>3, <2>4, AdvanceKeeps
<1>3. CASE LookForSecret
  <2>1. /\ setupPc = "next" /\ setupPc # "idle" /\ nextOp <= Len(ops) /\ Op.kind = "secret"
        /\ IF Exists(Secret) THEN Advance ELSE setupPc' = "absent" /\ UNCHANGED nextOp
        /\ UNCHANGED << disk, backups, invocation, ops, outcome, unseen, runs, edits >>
    BY <1>3 DEF LookForSecret, At
  <2>2. OperationIsGood(Op) /\ disk \in [File -> Content] /\ Op.file \in File
    BY <2>1, OpIsGood, OpIsKnown, Zenon
  <2>3. Op.file = Secret /\ Op.file \notin Configs /\ Secret \notin Configs \cup Range(Skills)
    BY <2>1, <2>2, FileAssumption DEF OperationIsGood
  <2>4. disk[Secret] # Torn /\ disk[Secret] \in Content
    BY <2>2, <2>3 DEF SetupInv, SetupTypeOK
  <2>5. disk' = [disk EXCEPT ![Op.file] = disk[Op.file]]
    BY <2>1, <2>2
  <2>6. CASE Exists(Secret)
    <3>1. disk[Op.file] \in Text
      BY <2>3, <2>4, <2>6, TextIsContent DEF Exists
    <3> QED
      BY <2>1, <2>3, <2>5, <2>6, <3>1, AdvanceKeeps
  <2>7. CASE ~ Exists(Secret)
    <3>1. disk[Op.file] \in {None, {}} /\ setupPc' = "absent" /\ nextOp' = nextOp
      BY <2>1, <2>3, <2>7 DEF Exists
    <3>2. /\ backups' \in [File -> Seq(Content \ {None})]
          /\ \A f \in File : Torn \in Range(backups'[f]) => f \in Configs \cup Range(Skills)
      BY <2>1 DEF SetupInv, SetupTypeOK
    <3> QED
      BY <2>1, <2>5, <3>1, <3>2, StayKeeps
  <2> QED
    BY <2>6, <2>7
<1>4. CASE MoveAside
  <2>1. /\ setupPc = "next" /\ setupPc # "idle" /\ nextOp <= Len(ops) /\ Op.kind = "update"
        /\ backups' = [backups EXCEPT ![Op.file] = Append(@, disk[Op.file])]
        /\ disk' = [disk EXCEPT ![Op.file] = None] /\ setupPc' = "absent"
        /\ UNCHANGED << invocation, ops, nextOp, outcome, unseen, runs, edits >>
    BY <1>4 DEF MoveAside, MovesAside, At
  <2>2. /\ OperationIsGood(Op) /\ Op.file \in File /\ disk \in [File -> Content]
        /\ disk[Op.file] # None
    BY <2>1, OpIsGood, OpIsKnown, Zenon
  <2>3. Op.file # Secret
    BY <2>1, <2>2 DEF OperationIsGood
  <2>4. /\ backups \in [File -> Seq(Content \ {None})] /\ disk[Op.file] \in Content \ {None}
        /\ \A f \in File : disk[f] = Torn \/ Torn \in Range(backups[f]) =>
                             f \in Configs \cup Range(Skills)
    BY <2>2 DEF SetupInv, SetupTypeOK
  <2>5. backups' \in [File -> Seq(Content \ {None})]
    BY <2>1, <2>2, <2>4
  <2>6. ASSUME NEW f \in File, Torn \in Range(backups'[f])
        PROVE  f \in Configs \cup Range(Skills)
    <3>1. CASE f # Op.file
      BY <2>1, <2>4, <2>6, <3>1
    <3>2. CASE f = Op.file
      <4>1. backups'[f] = Append(backups[f], disk[f]) /\ backups[f] \in Seq(Content \ {None})
        BY <2>1, <2>2, <2>4, <3>2
      <4>2. Torn \in Range(backups[f]) \/ Torn = disk[f]
        BY <2>6, <4>1 DEF Range
      <4> QED
        BY <2>4, <4>2
    <3> QED
      BY <3>1, <3>2
  <2> QED
    BY <2>1, <2>3, <2>5, <2>6, StayKeeps
<1>5. CASE WriteAtomically \/ Fill
  <2>1. /\ setupPc # "idle" /\ nextOp <= Len(ops) /\ Advance
        /\ disk' = [disk EXCEPT ![Op.file] = Op.content]
        /\ UNCHANGED << backups, invocation, ops, outcome, unseen, runs, edits >>
    BY <1>5 DEF WriteAtomically, Fill, MayWrite, At
  <2>2. Op.content \in Text /\ OperationIsGood(Op)
    BY <2>1, OpIsGood, Zenon
  <2>3. /\ Op.file # Secret => Ours \in Op.content
        /\ Op.file \in Configs /\ Op.seen # None => Op.seen \subseteq Op.content
    BY <2>2 DEF OperationIsGood
  <2> QED
    BY <2>1, <2>2, <2>3, AdvanceKeeps
<1>6. CASE Truncate
  <2>1. /\ MayWrite /\ setupCommand = "opencode" /\ disk' = [disk EXCEPT ![Op.file] = {}]
        /\ setupPc' = "truncated"
        /\ UNCHANGED << backups, invocation, ops, nextOp, outcome, unseen, runs, edits >>
    BY <1>6 DEF Truncate
  <2>2. setupPc # "idle" /\ nextOp <= Len(ops) /\ Op.kind # "skip"
    BY <2>1, MayWriteIsGood
  <2>3. Op.file # Secret
    BY <2>1, <2>2, OpIsGood, FileAssumption
  <2>4. /\ backups' \in [File -> Seq(Content \ {None})]
        /\ \A f \in File : Torn \in Range(backups'[f]) => f \in Configs \cup Range(Skills)
    BY <2>1 DEF SetupInv, SetupTypeOK
  <2>5. {} \in {None, {}}
    OBVIOUS
  <2> QED
    BY <2>1, <2>2, <2>3, <2>4, <2>5, StayKeeps
<1>7. CASE Succeed
  <2>1. /\ setupPc = "next" /\ nextOp > Len(ops) /\ outcome' = "done" /\ setupPc' = "idle"
        /\ UNCHANGED << disk, backups, invocation, ops, nextOp, unseen, runs, edits >>
    BY <1>7 DEF Succeed
  <2>2. SetupTypeOK'
    <3>1. SetupTypeOK /\ setupPc' \in {"idle"} /\ outcome' \in {"done"}
      BY <2>1 DEF SetupInv
    <3> QED
      BY <2>1, <3>1, Zenon DEF SetupTypeOK, invocation
  <2>3. nextOp = Len(ops) + 1
    <3>1. nextOp \in 1..(Len(ops) + 1) /\ Len(ops) \in Nat
      BY DEF SetupInv, SetupTypeOK
    <3> QED
      BY <2>1, <3>1
  <2>4. PlanIsGood' /\ PendingIsKnown' /\ WrapperHasSecret'
    BY <2>1 DEF SetupInv, PlanIsGood, FilesDiffer, OperationIsGood, PendingIsKnown,
                WrapperHasSecret, Holds, Exists, invocation
  <2>5. DoneStaysDone'
    BY <2>1, <2>3 DEF SetupInv, DoneStaysDone, IsDone
  <2> QED
    BY <2>2, <2>4, <2>5 DEF SetupInv
<1>8. CASE Fail
  BY <1>8, FailKeeps
<1>9. CASE \E f \in File, u \in UserEntry : Edit(f, u)
  BY <1>9, EditKeeps
<1>10. CASE UNCHANGED setupVars
  BY <1>10 DEF setupVars, invocation, SetupInv, SetupTypeOK, PlanIsGood, FilesDiffer,
     OperationIsGood, PendingIsKnown, InTheMiddle, DoneStaysDone, IsDone,
     WrapperHasSecret, Holds, Exists
<1> QED
  BY <1>1, <1>2, <1>3, <1>4, <1>5, <1>6, <1>7, <1>8, <1>9, <1>10 DEF SetupNext, SetupStep
-----------------------------------------------------------------------------
(* The theorems.                                                           *)

(* Setup keeps its types: among them, only a config or a skill is ever     *)
(* torn, and never what is written through a temporary file.               *)
THEOREM SetupTypeCorrect == SetupSpec => []SetupTypeOK
<1>1. SetupInv => SetupTypeOK
  BY DEF SetupInv
<1> QED
  BY <1>1, SetupInitially, SetupStepKeeps, PTL DEF SetupSpec

(* There is never a wrapper of the approval host without the secret that   *)
(* it reads, wherever a setup ends.                                        *)
THEOREM WrapperIsUsable == SetupSpec => []WrapperHasSecret
<1>1. SetupInv => WrapperHasSecret
  BY DEF SetupInv
<1> QED
  BY <1>1, SetupInitially, SetupStepKeeps, PTL DEF SetupSpec

(* A setup that reports success has left every file of its plan whole.     *)
THEOREM SuccessfulSetupIsComplete == SetupSpec => []SuccessIsComplete
<1>1. SetupInv => SuccessIsComplete
  <2> SUFFICES ASSUME SetupInv, setupPc = "idle", outcome = "done", NEW n \in DOMAIN ops
               PROVE  IsDone(ops[n])
    BY DEF SuccessIsComplete, IsDone
  <2>1. ops \in Seq(Operation) /\ nextOp = Len(ops) + 1
    BY DEF SetupInv, SetupTypeOK, DoneStaysDone
  <2>2. n \in 1..(nextOp - 1)
    BY <2>1
  <2> QED
    BY <2>2 DEF SetupInv, DoneStaysDone
<1> QED
  BY <1>1, SetupInitially, SetupStepKeeps, PTL DEF SetupSpec

(* No step loses what the user has written and setup has seen: an update   *)
(* that was not allowed is never applied, a backup never replaces another, *)
(* and a file that setup found absent holds nothing it has not missed.     *)
THEOREM NothingGetsLost == SetupSpec => NothingIsLost
<1>1. ASSUME SetupInv, [SetupNext]_setupVars
      PROVE  [\A f \in File \ {Wrapper}, u \in UserEntry :
                Kept(f, u) /\ ~ force /\ << f, u >> \notin unseen => Kept(f, u)']_setupVars
  <2> SUFFICES ASSUME SetupNext, NEW f \in File \ {Wrapper}, NEW u \in UserEntry,
                      Kept(f, u), ~ force, << f, u >> \notin unseen
               PROVE  Kept(f, u)'
    BY <1>1
  <2>1. disk \in [File -> Content] /\ backups \in [File -> Seq(Content \ {None})]
    BY <1>1 DEF SetupInv, SetupTypeOK
  <2>2. ASSUME disk'[f] = disk[f], backups'[f] = backups[f]
        PROVE  Kept(f, u)'
    BY <2>2 DEF Kept, Holds
  <2>3. ASSUME MayWrite, NEW text, disk' = [disk EXCEPT ![Op.file] = text],
               backups' = backups, ~ MovesAside \/ setupPc # "next"
        PROVE  Kept(f, u)'
    <3>1. CASE f # Op.file
      BY <2>1, <2>2, <2>3, <3>1
    <3>2. CASE f = Op.file
      <4>1. /\ setupPc # "idle" /\ nextOp <= Len(ops)
            /\ Op.kind # "update" \/ setupPc # "next"
        BY <1>1, <2>3, <3>2, MayWriteIsGood
      <4>2. Op.kind = "create" \/ setupPc # "next"
        BY <2>3, <4>1 DEF MayWrite, At
      <4>3. ~ Holds(disk[f], u)
        BY <1>1, <3>2, <4>1, <4>2, OpIsKnown, Zenon
      <4> QED
        BY <2>3, <4>3 DEF Kept
    <3> QED
      BY <3>1, <3>2
  <2>4. CASE \E c \in Command : BuildPlan(c)
    BY <2>2, <2>4 DEF BuildPlan
  <2>5. CASE SkipOp \/ LookForSecret \/ Succeed
    BY <2>2, <2>5 DEF SkipOp, LookForSecret, Succeed
  <2>6. CASE MoveAside
    <3>1. /\ backups' = [backups EXCEPT ![Op.file] = Append(@, disk[Op.file])]
          /\ disk' = [disk EXCEPT ![Op.file] = None]
      BY <2>6 DEF MoveAside
    <3>2. CASE f # Op.file
      BY <2>1, <2>2, <3>1, <3>2
    <3>3. CASE f = Op.file
      <4>1. backups'[f] = Append(backups[f], disk[f]) /\ backups[f] \in Seq(Content \ {None})
        BY <2>1, <3>1, <3>3
      <4>2. Range(backups[f]) \subseteq Range(backups'[f]) /\ disk[f] \in Range(backups'[f])
        <5>1. /\ DOMAIN backups[f] = 1..Len(backups[f]) /\ Len(backups[f]) \in Nat
              /\ DOMAIN backups'[f] = 1..(Len(backups[f]) + 1)
              /\ backups'[f][Len(backups[f]) + 1] = disk[f]
              /\ \A n \in 1..Len(backups[f]) : backups'[f][n] = backups[f][n]
          BY <4>1
        <5>2. /\ Len(backups[f]) + 1 \in DOMAIN backups'[f]
              /\ DOMAIN backups[f] \subseteq DOMAIN backups'[f]
          BY <5>1
        <5> QED
          BY <5>1, <5>2, Zenon DEF Range
      <4> QED
        BY <4>2 DEF Kept
    <3> QED
      BY <3>2, <3>3
  <2>7. CASE WriteAtomically \/ Truncate
    <3>1. MayWrite /\ backups' = backups /\ \E text : disk' = [disk EXCEPT ![Op.file] = text]
      BY <2>7 DEF WriteAtomically, Truncate
    <3>2. ~ MovesAside \/ setupPc # "next"
      BY <3>1 DEF MayWrite, At
    <3> QED
      BY <2>3, <3>1, <3>2
  <2>8. CASE Fill
    <3>1. /\ setupPc = "truncated" /\ nextOp <= Len(ops) /\ backups' = backups
          /\ disk' = [disk EXCEPT ![Op.file] = Op.content]
      BY <2>8 DEF Fill, At
    <3>2. f = Op.file => ~ Holds(disk[f], u)
      BY <1>1, <3>1, OpIsKnown
    <3> QED
      BY <2>1, <2>2, <3>1, <3>2 DEF Kept
  <2>9. CASE Fail
    <3>1. /\ setupPc # "idle" /\ backups' = backups
          /\ setupPc # "truncated" => disk' = disk
          /\ setupPc = "truncated" => \E left : disk' = [disk EXCEPT ![Op.file] = left]
      BY <2>9 DEF Fail
    <3>2. setupPc = "truncated" /\ f = Op.file => ~ Holds(disk[f], u)
      <4>1. setupPc = "truncated" => nextOp <= Len(ops)
        BY <1>1 DEF SetupInv, SetupTypeOK
      <4> QED
        BY <1>1, <3>1, <4>1, OpIsKnown
    <3> QED
      BY <2>1, <2>2, <3>1, <3>2 DEF Kept
  <2>10. CASE \E g \in File, v \in UserEntry : Edit(g, v)
    <3>1. PICK g \in File, v \in UserEntry : Edit(g, v)
      BY <2>10
    <3>2. /\ backups' = backups
          /\ disk' = [disk EXCEPT ![g] = IF @ \in {None, Torn} THEN {v} ELSE @ \cup {v}]
      BY <3>1 DEF Edit
    <3>3. Holds(disk[f], u) => Holds(disk'[f], u)
      <4>1. CASE f # g
        BY <2>1, <3>2, <4>1
      <4>2. CASE f = g
        <5>1. ASSUME Holds(disk[f], u)
              PROVE  disk'[f] = disk[f] \cup {v} /\ disk[f] \in Text
          BY <2>1, <3>2, <4>2, <5>1, TextIsContent DEF Holds
        <5> QED
          BY <5>1, TextIsContent DEF Holds
      <4> QED
        BY <4>1, <4>2
    <3> QED
      BY <3>2, <3>3 DEF Kept
  <2> QED
    BY <2>4, <2>5, <2>6, <2>7, <2>8, <2>9, <2>10 DEF SetupNext, SetupStep
<1> QED
  BY <1>1, SetupInitially, SetupStepKeeps, PTL DEF SetupSpec, NothingIsLost
=============================================================================
