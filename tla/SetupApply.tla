----------------------------- MODULE SetupApply -----------------------------
(***************************************************************************)
(* The setup commands: "agent", "skills", "approval" and "plugin"          *)
(* (internal/setup) and "opencode" (internal/setupopencode).  Each builds  *)
(* a plan from the files it finds, and applies it file by file.            *)
(*                                                                         *)
(* A file is what is in it: entries of the user and Ours, the entry or the *)
(* text that setup writes.  A JSON config is merged, other files are       *)
(* replaced.  Commands do not overlap, but may end anywhere, and the user  *)
(* edits files all the while.                                              *)
(***************************************************************************)
EXTENDS Null, Naturals, Sequences, SequencesExt

CONSTANTS
  Config,           \* where a client looks for its config, best place first
  Skills, Plugin,   \* the other files of a client, and those of a plugin
  Wrapper, Secret,  \* of the approval host
  Ahead,            \* the configs whose path sorts before those of the skills
  UserEntry, Ours, Torn,
  MaxRuns, MaxEdits

Configs == Range(Config)
File == Configs \cup Range(Skills) \cup Range(Plugin) \cup {Wrapper, Secret}

Text == SUBSET (UserEntry \cup {Ours})
Content == {None, Torn} \cup Text

Command == {"agent", "skills", "opencode", "approval", "plugin"}

ASSUME FileAssumption ==
  /\ Config \in Seq(Configs) /\ Skills \in Seq(Range(Skills))
  /\ Plugin \in Seq(Range(Plugin))
  /\ Config # << >> /\ Ahead \subseteq Configs
  /\ Configs \cap (Range(Skills) \cup Range(Plugin) \cup {Wrapper, Secret}) = {}
  /\ Range(Skills) \cap (Range(Plugin) \cup {Wrapper, Secret}) = {}
  /\ Range(Plugin) \cap {Wrapper, Secret} = {} /\ Wrapper # Secret
  /\ IsInjective(Skills) /\ IsInjective(Plugin)

ASSUME EntryAssumption ==
  /\ Ours \notin UserEntry /\ None # Torn /\ \A t \in Text : t # None /\ t # Torn
  /\ None \notin {"done", "failed"}

ASSUME BoundAssumption == MaxRuns \in Nat /\ MaxEdits \in Nat

Operation == [ file : File, kind : {"create", "update", "skip", "secret"},
               seen : Content, content : Text ]

VARIABLES
  disk,         \* what each file holds
  backups,      \* what was moved out of its way
  setupCommand, backup, force, \* the last command and its flags
  ops, nextOp,  \* its plan, and the operation it is at
  setupPc,      \* and how far it is with that
  outcome,      \* how it has ended
  unseen,       \* what the user wrote where setup saw, or left, no file
  runs, edits

setupVars == << disk, backups, setupCommand, backup, force, ops, nextOp,
                setupPc, outcome, unseen, runs, edits >>

invocation == << setupCommand, backup, force >>

SetupTypeOK ==
  /\ disk \in [File -> Content]
  /\ backups \in [File -> Seq(Content \ {None})]
  /\ setupCommand \in Command \cup {None} /\ backup \in BOOLEAN /\ force \in BOOLEAN
  /\ ops \in Seq(Operation) /\ nextOp \in 1..(Len(ops) + 1)
  /\ setupPc \in {"idle", "next", "absent", "truncated"}
  /\ outcome \in {None, "done", "failed"}
  /\ unseen \subseteq File \X UserEntry
  /\ runs \in 0..MaxRuns /\ edits \in 0..MaxEdits
  /\ setupPc \in {"absent", "truncated"} => nextOp <= Len(ops)
  /\ \A f \in File : disk[f] = Torn \/ Torn \in Range(backups[f]) =>
                       f \in Configs \cup Range(Skills)

SetupInit ==
  /\ disk = [f \in File |-> None]
  /\ backups = [f \in File |-> << >>]
  /\ setupCommand = None /\ backup = FALSE /\ force = FALSE
  /\ ops = << >> /\ nextOp = 1
  /\ setupPc = "idle" /\ outcome = None
  /\ unseen = {}
  /\ runs = 0 /\ edits = 0
-----------------------------------------------------------------------------
(* The plans.                                                              *)

Exists(f) == disk[f] # None

(* mcpTargetPath and existingConfigTarget: the first config that exists.   *)
IsFirst(n) == Exists(Config[n]) /\ \A m \in 1..(n - 1) : ~ Exists(Config[m])

Target ==
  IF \E n \in DOMAIN Config : IsFirst(n)
  THEN Config[CHOOSE n \in DOMAIN Config : IsFirst(n)]
  ELSE Config[1]

Merged(f) == (IF Exists(f) THEN disk[f] ELSE {}) \cup {Ours}

(* An empty file is an absent one to some, and one that differs to others. *)
Plan(f, content, emptyIsAbsent) ==
  [ file |-> f, seen |-> disk[f], content |-> content,
    kind |-> IF ~ Exists(f) \/ (emptyIsAbsent /\ disk[f] = {}) THEN "create"
             ELSE IF disk[f] = content THEN "skip"
             ELSE "update" ]

Copies(files) == [n \in DOMAIN files |-> Plan(files[n], {Ours}, FALSE)]

AgentConfig == Plan(Target, Merged(Target), TRUE)

AgentOps == << AgentConfig >> \o Copies(Skills)

(* The targets of "opencode" are sorted by their paths.                    *)
PlanTarget(f, content) == Plan(f, content, FALSE)

OpencodeConfig == PlanTarget(Target, Merged(Target))

OpencodeOps ==
  LET skills == [n \in DOMAIN Skills |-> PlanTarget(Skills[n], {Ours})]
  IN  IF Target \in Ahead THEN << OpencodeConfig >> \o skills
                          ELSE skills \o << OpencodeConfig >>

SecretOp == [ file |-> Secret, kind |-> "secret", seen |-> disk[Secret],
              content |-> {Ours} ]

(* Seeded fault: the wrapper first.                                        *)
ApprovalOpsWrapperFirst == << Plan(Wrapper, {Ours}, TRUE), SecretOp >>

ApprovalOps == << SecretOp, Plan(Wrapper, {Ours}, TRUE) >>

PluginOps == Copies(Plugin)

Ops(c) ==
  CASE c = "agent"    -> AgentOps
    [] c = "skills"   -> Copies(Skills)
    [] c = "opencode" -> OpencodeOps
    [] c = "approval" -> ApprovalOps
    [] c = "plugin"   -> PluginOps

(* A config that cannot be parsed cannot be merged.                        *)
CanPlan(c) == c \in {"agent", "opencode"} => disk[Target] # Torn

Has(kind, operations) == \E n \in DOMAIN operations : operations[n].kind = kind

(* Refusals before anything is written.                                    *)
RefusesChange(c, b) == c \in {"agent", "skills"} /\ Has("update", Ops(c)) /\ ~ b

RefusesOpencode(b, f) == (b /\ f) \/ (Has("update", OpencodeOps) /\ ~ b /\ ~ f)

(* (This one is decided upon what is there when the plan is applied.)      *)
RefusesOutput(f) ==
  /\ ~ f /\ \E n \in DOMAIN Plugin : Exists(Plugin[n])
  /\ Has("create", PluginOps) \/ Has("update", PluginOps)

(* Skills that a client already finds elsewhere.                           *)
MayHaveDuplicates(c) == IF c \in {"agent", "skills"} THEN BOOLEAN ELSE {FALSE}

Refuses(c, b, f) ==
  \/ RefusesChange(c, b)
  \/ c = "opencode" /\ RefusesOpencode(b, f)
  \/ c = "plugin" /\ RefusesOutput(f)

Flags(c) ==
  CASE c \in {"agent", "skills"} -> BOOLEAN \X {FALSE}
    [] c = "opencode" -> BOOLEAN \X BOOLEAN
    [] c = "approval" -> {FALSE} \X {FALSE}
    [] c = "plugin"   -> {FALSE} \X BOOLEAN

BuildPlan(c) ==
  /\ setupPc = "idle" /\ runs < MaxRuns
  /\ runs' = runs + 1
  /\ unseen' = {}
  /\ setupCommand' = c
  /\ \E flags \in Flags(c), duplicates \in MayHaveDuplicates(c) :
       /\ backup' = flags[1] /\ force' = flags[2]
       /\ IF CanPlan(c) /\ ~ duplicates /\ ~ Refuses(c, flags[1], flags[2])
          THEN ops' = Ops(c) /\ setupPc' = "next" /\ outcome' = None
          ELSE ops' = << >> /\ UNCHANGED setupPc /\ outcome' = "failed"
  /\ nextOp' = 1
  /\ UNCHANGED << disk, backups, edits >>
-----------------------------------------------------------------------------
(* Applying a plan.                                                        *)

At(place) == setupPc = place /\ nextOp <= Len(ops)

Op == ops[nextOp]

Advance == nextOp' = nextOp + 1 /\ setupPc' = "next"

SkipOp ==
  /\ At("next") /\ Op.kind = "skip"
  /\ Advance
  /\ UNCHANGED << disk, backups, invocation, ops, outcome, unseen, runs, edits >>

(* writeApprovalSecretIfMissing looks for the secret.                      *)
LookForSecret ==
  /\ At("next") /\ Op.kind = "secret"
  /\ IF Exists(Secret) THEN Advance ELSE setupPc' = "absent" /\ UNCHANGED nextOp
  /\ UNCHANGED << disk, backups, invocation, ops, outcome, unseen, runs, edits >>

MovesAside == Op.kind = "update" /\ backup

(* Seeded fault: the next backup takes the name of the last.               *)
MoveAsideToOneName ==
  /\ At("next") /\ MovesAside
  /\ backups' = [backups EXCEPT ![Op.file] = << disk[Op.file] >>]
  /\ disk' = [disk EXCEPT ![Op.file] = None]
  /\ setupPc' = "absent"
  /\ UNCHANGED << invocation, ops, nextOp, outcome, unseen, runs, edits >>

(* The file, whatever has become of it since it was planned, is renamed to *)
(* the next name that is free.                                             *)
MoveAside ==
  /\ At("next") /\ MovesAside
  /\ backups' = [backups EXCEPT ![Op.file] = Append(@, disk[Op.file])]
  /\ disk' = [disk EXCEPT ![Op.file] = None]
  /\ setupPc' = "absent"
  /\ UNCHANGED << invocation, ops, nextOp, outcome, unseen, runs, edits >>

MayWrite ==
  \/ At("absent")
  \/ At("next") /\ Op.kind \in {"create", "update"} /\ ~ MovesAside

(* atomicWriteFile: a temporary file that is renamed.                      *)
WriteAtomically ==
  /\ setupCommand # "opencode" /\ MayWrite
  /\ disk' = [disk EXCEPT ![Op.file] = Op.content]
  /\ Advance
  /\ UNCHANGED << backups, invocation, ops, outcome, unseen, runs, edits >>

(* os.WriteFile empties the file and fills it.                             *)
Truncate ==
  /\ setupCommand = "opencode" /\ MayWrite
  /\ disk' = [disk EXCEPT ![Op.file] = {}]
  /\ setupPc' = "truncated"
  /\ UNCHANGED << backups, invocation, ops, nextOp, outcome, unseen, runs, edits >>

Fill ==
  /\ At("truncated")
  /\ disk' = [disk EXCEPT ![Op.file] = Op.content]
  /\ Advance
  /\ UNCHANGED << backups, invocation, ops, outcome, unseen, runs, edits >>

Succeed ==
  /\ setupPc = "next" /\ nextOp > Len(ops)
  /\ outcome' = "done" /\ setupPc' = "idle"
  /\ UNCHANGED << disk, backups, invocation, ops, nextOp, unseen, runs, edits >>

(* Seeded fault: an error of one file does not end the command.            *)
FailAndGoOn ==
  /\ \E place \in {"next", "absent", "truncated"} : At(place)
  /\ Advance
  /\ UNCHANGED << disk, backups, invocation, ops, outcome, unseen, runs, edits >>

(* The process ends, or returns an error: there is no --yes, there is a    *)
(* symbolic link on the way, a write fails.                                *)
Fail ==
  /\ setupPc # "idle"
  /\ IF setupPc = "truncated"
     THEN \E left \in {disk[Op.file], Torn} :
            disk' = [disk EXCEPT ![Op.file] = left]
     ELSE UNCHANGED disk
  /\ outcome' = "failed" /\ setupPc' = "idle"
  /\ UNCHANGED << backups, invocation, ops, nextOp, unseen, runs, edits >>
-----------------------------------------------------------------------------
(* The user, or a client, adds an entry to a file, or starts it anew.      *)

Missed(f) ==
  \E n \in nextOp..Len(ops) :
    /\ setupPc # "idle" /\ ops[n].file = f
    /\ \/ ops[n].kind = "create"
       \/ n = nextOp /\ setupPc \in {"absent", "truncated"}

Edit(f, u) ==
  /\ edits < MaxEdits /\ edits' = edits + 1
  /\ disk' = [disk EXCEPT ![f] = IF @ \in {None, Torn} THEN {u} ELSE @ \cup {u}]
  /\ unseen' = IF Missed(f) THEN unseen \cup {<< f, u >>} ELSE unseen
  /\ UNCHANGED << backups, invocation, ops, nextOp, setupPc, outcome, runs >>
-----------------------------------------------------------------------------
SetupStep ==
  \/ SkipOp \/ LookForSecret \/ MoveAside \/ WriteAtomically
  \/ Truncate \/ Fill \/ Succeed \/ Fail

SetupNext ==
  \/ \E c \in Command : BuildPlan(c)
  \/ SetupStep
  \/ \E f \in File, u \in UserEntry : Edit(f, u)

SetupFairness == WF_setupVars(SetupStep)

SetupSpec == SetupInit /\ [][SetupNext]_setupVars
SetupFairSpec == SetupSpec /\ SetupFairness
-----------------------------------------------------------------------------
(* Properties.                                                             *)

Holds(text, u) == text \notin {None, Torn} /\ u \in text

Kept(f, u) == Holds(disk[f], u) \/ \E b \in Range(backups[f]) : Holds(b, u)

(* Nothing that the user has written is lost, wherever a command ends and  *)
(* however often it is repeated: it stays in its file or in a backup of    *)
(* it.  (This is not promised with --force, for the wrapper, or for what   *)
(* is written during a command to a file that it found or made absent.)    *)
NothingIsLost ==
  [][\A f \in File \ {Wrapper}, u \in UserEntry :
       Kept(f, u) /\ ~ force /\ << f, u >> \notin unseen => Kept(f, u)']_setupVars

(* A command that reports success leaves each of its files whole and with  *)
(* Ours, and the config with every entry that it had when the plan was     *)
(* made; a secret that was there may be any.                               *)
SuccessIsComplete ==
  setupPc = "idle" /\ outcome = "done" =>
    \A n \in DOMAIN ops :
      LET f == ops[n].file
      IN  /\ disk[f] \notin {None, Torn}
          /\ f # Secret => Ours \in disk[f]
          /\ f \in Configs /\ ops[n].seen # None => ops[n].seen \subseteq disk[f]

(* There is no wrapper without the secret that it reads, even if setup     *)
(* ends between the two.                                                   *)
WrapperHasSecret == Holds(disk[Wrapper], Ours) => Exists(Secret)

(* A setup that was started ends, however the files change meanwhile.      *)
SetupEnds == (setupPc # "idle") ~> (setupPc = "idle")
=============================================================================
