--------------------------- MODULE BackupProofs ---------------------------
(***************************************************************************)
(* Proofs about Backup, for every number of workspaces, files and commits  *)
(* and every bound: the types, what a backup that holds the ref has passed *)
(* through, that it can be restored, and that the reports are true.        *)
(***************************************************************************)
EXTENDS Backup, TLAPS

\* What the endpoint must do for an answer "I have it" to mean the right bytes: hash
\* what is put, or register an object only when the one workspace asks it to verify.
\* BackupClient sends before it compares the digest (lfs_http.rs), so an endpoint that
\* does neither keeps what a damaged spool file held.
Trustworthy == Hashes \/ (Verifies /\ \A v, w \in Workspaces : v = w)

----------------------------------------------------------------------------
(* The inductive invariant *)

\* The endpoint has answered that it has every large file, or lost it since.
Covered(files) == \A o \in Required(files) : lfs[o].known \/ o \in lost

Exists(o) == o \in Oids /\ objects[o] # NoObject

\* An intent names a commit that exists, builds on the base that was observed, and
\* holds exactly the snapshot.
SoundRun(run) ==
  /\ run \in BackupRun
  /\ run.spec.tree = run.snap
  /\ run.spec.parent = run.base
  /\ objects[run.desired] = run.spec

Executing ==
  {"Built", "Loaded", "Matched", "Ensured", "Confirming", "Uploading", "Spooled", "Sent",
   "Pushing", "Rejected"}

Backing == {"Snapped", "Based"} \cup Executing

Successes == {"BackedUp", "AlreadyBackedUp"}

\* The ref, and every push that may still move it.
RefInv ==
  /\ remote # RefMissing => Exists(remote)
  /\ holder # Others =>
       SoundRun(holder) /\ remote = holder.desired /\ Covered(holder.snap)
  /\ \A run \in orphans : SoundRun(run) /\ Covered(run.snap)

\* What a command has in its hands.
CommandInv(w) ==
  /\ pc[w] \in {"Based", "Verifying", "Rooted"} => Exists(at[w].seen)
  /\ pc[w] \in Executing => SoundRun(at[w].run) /\ at[w].run.snap = at[w].snap
  /\ pc[w] \in {"Spooled", "Sent"} => at[w].obj \in Large /\ at[w].sent # "Absent"
  /\ pc[w] = "Pushing" /\ at[w].ack = "Waiting" => Covered(at[w].run.snap)

\* The values of the ref a backup has met.
HeldInv(w) ==
  /\ pc[w] \in Backing => remote \in held[w]
  /\ pc[w] = "Based" => at[w].seen \in held[w]
  /\ pc[w] = "Confirming" => at[w].run.desired \in held[w]
  /\ pc[w] = "Pushing" /\ at[w].ack = "Applied" => at[w].run.desired \in held[w]

\* What a report rests on, in terms of what the endpoint answered.
ReportInv(w) ==
  /\ outcome[w].kind \in Successes \cup {"Verified"} => Exists(outcome[w].commit)
  /\ outcome[w].kind \in Successes =>
       /\ outcome[w].commit \in held[w]
       /\ objects[outcome[w].commit].tree = outcome[w].snap
  /\ outcome[w].kind = "Verified" => Covered(objects[outcome[w].commit].tree)

\* An upload under way, where the endpoint does not hash: nobody else puts the object,
\* and it is not registered yet.
UploadInv(w) ==
  ~ Hashes =>
    /\ pc[w] \in {"Uploading", "Spooled", "Sent"} => \A o \in at[w].todo : ~ lfs[o].known
    /\ pc[w] \in {"Spooled", "Sent"} => at[w].obj \in at[w].todo
    /\ pc[w] = "Sent" => lfs[at[w].obj].bytes \in {at[w].sent, "Absent"}

\* The endpoint has the right bytes of what it says it has.
StoreInv ==
  \A o \in Large : /\ lfs[o].known => lfs[o].bytes = "Genuine"
                   /\ Hashes => lfs[o].bytes # "Damaged"

EndpointInv == Trustworthy => StoreInv /\ \A w \in Workspaces : UploadInv(w)

CommandsInv == \A w \in Workspaces : CommandInv(w) /\ HeldInv(w) /\ ReportInv(w)

IInv == TypeOK /\ RefInv /\ CommandsInv /\ EndpointInv

----------------------------------------------------------------------------
(* Types *)

SharedTypes ==
  /\ objects \in [Oids -> CommitFacts \cup {NoObject}]
  /\ remote \in RefState
  /\ holder \in BackupRun \cup {Others}
  /\ lfs \in [Large -> [bytes : Bytes, known : BOOLEAN]]
  /\ lost \subseteq Large
  /\ orphans \subseteq BackupRun

DurableTypes ==
  /\ vault \in [Workspaces -> SUBSET Contents]
  /\ cas \in [Workspaces -> [Contents -> Bytes]]
  /\ local \in [Workspaces -> SUBSET Oids]
  /\ intents \subseteq BackupRun

MemoryTypes ==
  /\ pc \in [Workspaces -> Phases]
  /\ at \in [Workspaces -> Locals]
  /\ outcome \in [Workspaces -> Report]

HistoryTypes ==
  /\ held \in [Workspaces -> SUBSET RefState]
  /\ edits \in Nat
  /\ faults \in Nat

LEMMA TypeParts == TypeOK <=> SharedTypes /\ DurableTypes /\ MemoryTypes /\ HistoryTypes
BY DEF TypeOK, SharedTypes, DurableTypes, MemoryTypes, HistoryTypes

\* The locals of a command that is not running.
LEMMA NoLocalsType == NoLocals \in Locals /\ NoReport \in Report
<1>1. NoLocals \in Locals
  BY DEF NoLocals, Locals, RefState, Bytes
<1>2. NoReport \in Report
  BY DEF NoReport, Report, RefState, Outcomes
<1> QED
  BY <1>1, <1>2

\* Returning keeps the types.
LEMMA ReturnType ==
  ASSUME MemoryTypes, NEW w \in Workspaces, NEW kind \in Outcomes, NEW commit \in RefState,
         Return(w, kind, commit)
  PROVE  /\ MemoryTypes'
         /\ pc'[w] = "Idle" /\ at'[w] = NoLocals
         /\ outcome'[w] = [kind |-> kind, commit |-> commit,
                           snap |-> IF kind = "Error" THEN {} ELSE at[w].snap]
<1> DEFINE report == [kind |-> kind, commit |-> commit,
                      snap |-> IF kind = "Error" THEN {} ELSE at[w].snap]
<1>1. at[w].snap \in SUBSET Contents
  BY DEF MemoryTypes, Locals
<1>2. report \in Report
  BY <1>1 DEF Report
<1>3. "Idle" \in Phases
  BY DEF Phases
<1> HIDE DEF report
<1>4. /\ pc' = [pc EXCEPT ![w] = "Idle"]
      /\ at' = [at EXCEPT ![w] = NoLocals]
      /\ outcome' = [outcome EXCEPT ![w] = report]
  BY DEF Return, report
<1>5. MemoryTypes'
  BY <1>2, <1>3, <1>4, NoLocalsType DEF MemoryTypes
<1>6. pc'[w] = "Idle" /\ at'[w] = NoLocals /\ outcome'[w] = report
  BY <1>4 DEF MemoryTypes
<1> QED
  BY <1>5, <1>6 DEF report

\* So does going on to another phase without a change of the locals.
LEMMA GotoType ==
  ASSUME MemoryTypes, NEW w \in Workspaces, NEW phase \in Phases, Goto(w, phase)
  PROVE  pc' \in [Workspaces -> Phases] /\ pc'[w] = phase
BY DEF MemoryTypes, Goto

\* A step that writes one part of the locals keeps the types of all.
LEMMA LocalsType ==
  ASSUME MemoryTypes, NEW w \in Workspaces, NEW locals \in Locals,
         at' = [at EXCEPT ![w] = locals]
  PROVE  at' \in [Workspaces -> Locals] /\ at'[w] = locals
BY DEF MemoryTypes

----------------------------------------------------------------------------
(* What never shrinks *)

\* Every commit stays what it is.
Grows == \A o \in Oids : Exists(o) => objects'[o] = objects[o]

\* What was answered for stays answered for, or is known to be lost.
Sheltered == \A o \in Large : lfs[o].known \/ o \in lost => lfs'[o].known \/ o \in lost'

LEMMA CommitGrows ==
  ASSUME SharedTypes, NEW w \in Workspaces, NEW o \in Oids, NEW facts, CreateCommit(w, o, facts),
         facts \in CommitFacts
  PROVE  Grows /\ objects' \in [Oids -> CommitFacts \cup {NoObject}] /\ objects'[o] = facts
BY DEF CreateCommit, Identifies, SharedTypes, Grows, Exists

\* Asking for a set of files takes only what is there off the list of losses.
LEMMA AskingShelters ==
  ASSUME SharedTypes, NEW files, MissingFrom(files) = {}, lost' = lost \ Required(files), lfs' = lfs
  PROVE  Sheltered /\ Covered(files)
BY DEF MissingFrom, Sheltered, Covered, Required, SharedTypes

\* What holds of commits, intents and files goes on holding.
LEMMA ExistsKept ==
  ASSUME Grows, NEW o, Exists(o)
  PROVE  Exists(o)' /\ objects'[o] = objects[o]
BY DEF Grows, Exists

LEMMA SoundKept ==
  ASSUME Grows, NEW run, SoundRun(run)
  PROVE  SoundRun(run)' /\ Exists(run.desired)
<1>1. run.desired \in Oids /\ run.spec \in CommitFacts
  BY DEF SoundRun, BackupRun
<1>2. Exists(run.desired)
  BY <1>1, BackupSentinels DEF SoundRun, Exists
<1> QED
  BY <1>1, <1>2 DEF SoundRun, Grows

LEMMA CoveredKept ==
  ASSUME Sheltered, NEW files, Covered(files)
  PROVE  Covered(files)'
BY DEF Sheltered, Covered, Required

----------------------------------------------------------------------------
(* The commands a step is not about *)

CommandOK(w) == CommandInv(w) /\ HeldInv(w) /\ ReportInv(w)

\* A step leaves a command alone: at most the ref moves while it runs.
Bystander(w) ==
  /\ pc'[w] = pc[w] /\ at'[w] = at[w] /\ outcome'[w] = outcome[w]
  /\ held[w] \subseteq held'[w]
  /\ pc[w] # "Idle" /\ remote \in held[w] => remote' \in held'[w]

LEMMA ReportKept ==
  ASSUME Grows, Sheltered, NEW w \in Workspaces, ReportInv(w),
         outcome'[w] = outcome[w], held[w] \subseteq held'[w]
  PROVE  ReportInv(w)'
<1>1. ASSUME Exists(outcome[w].commit)
      PROVE  objects'[outcome[w].commit] = objects[outcome[w].commit]
  BY <1>1 DEF Grows, Exists
<1>2. ASSUME outcome[w].kind = "Verified"
      PROVE  Covered(objects[outcome[w].commit].tree)'
  <2>1. Covered(objects[outcome[w].commit].tree)
    BY <1>2 DEF ReportInv
  <2>2. objects'[outcome[w].commit] = objects[outcome[w].commit]
    BY <1>1, <1>2 DEF ReportInv
  <2> QED
    BY <2>1, <2>2 DEF Covered, Sheltered, Required
<1> QED
  BY <1>1, <1>2 DEF ReportInv, Successes, Exists

LEMMA BystanderKept ==
  ASSUME Grows, Sheltered, NEW w \in Workspaces, CommandOK(w), Bystander(w)
  PROVE  CommandOK(w)'
<1>1. CommandInv(w)'
  BY ExistsKept, SoundKept, CoveredKept DEF CommandInv, CommandOK, Bystander
<1>2. HeldInv(w)'
  BY DEF HeldInv, CommandOK, Bystander, Backing, Executing
<1>3. ReportInv(w)'
  BY ReportKept DEF CommandOK, Bystander
<1> QED
  BY <1>1, <1>2, <1>3 DEF CommandOK

\* The ref and the pushes under way, when a step leaves them alone.
LEMMA RefKept ==
  ASSUME RefInv, Grows, Sheltered, UNCHANGED <<remote, holder, orphans>>
  PROVE  RefInv'
<1>1. remote # RefMissing => Exists(remote)'
  BY ExistsKept DEF RefInv
<1>2. holder # Others => SoundRun(holder)' /\ remote = holder.desired /\ Covered(holder.snap)'
  BY SoundKept, CoveredKept DEF RefInv
<1>3. \A run \in orphans : SoundRun(run)' /\ Covered(run.snap)'
  BY SoundKept, CoveredKept DEF RefInv
<1> QED
  BY <1>1, <1>2, <1>3 DEF RefInv, SoundRun, Exists, Covered

\* A command that returns says nothing more than it has to show for.
LEMMA Returns ==
  ASSUME TypeOK, NEW w \in Workspaces, NEW kind \in Outcomes, NEW commit \in RefState,
         Return(w, kind, commit),
         kind \in Successes => /\ Exists(commit)' /\ commit \in held'[w]
                               /\ objects'[commit].tree = at[w].snap,
         kind = "Verified" => /\ Exists(commit)'
                              /\ \A o \in Required(objects'[commit].tree) :
                                   lfs'[o].known \/ o \in lost'
  PROVE  MemoryTypes' /\ CommandOK(w)' /\ pc'[w] = "Idle"
<1>1. MemoryTypes
  BY TypeParts
<1>2. /\ MemoryTypes'
      /\ pc'[w] = "Idle" /\ at'[w] = NoLocals
      /\ outcome'[w] = [kind |-> kind, commit |-> commit,
                        snap |-> IF kind = "Error" THEN {} ELSE at[w].snap]
  BY <1>1, ReturnType
<1>3. CommandInv(w)' /\ HeldInv(w)'
  BY <1>2 DEF CommandInv, HeldInv, Backing, Executing
<1>4. /\ outcome'[w].kind = kind /\ outcome'[w].commit = commit
      /\ kind # "Error" => outcome'[w].snap = at[w].snap
  BY <1>2
<1>5. ReportInv(w)'
  BY <1>4 DEF ReportInv, Successes, Covered
<1> QED
  BY <1>2, <1>3, <1>5 DEF CommandOK

----------------------------------------------------------------------------
(* One lemma per action of a command *)

\* What each of them shows of the action it is about.
Kept(w) ==
  /\ SharedTypes' /\ DurableTypes' /\ MemoryTypes' /\ HistoryTypes'
  /\ Grows /\ Sheltered
  /\ RefInv'
  /\ CommandOK(w)'
  /\ \A v \in Workspaces \ {w} : Bystander(v)

\* A step that leaves the ref alone.
LEMMA RefStays ==
  ASSUME TypeOK, RefInv, NEW w \in Workspaces, Grows, Sheltered, SharedTypes',
         UNCHANGED <<remote, holder, orphans, held, edits>>, faults' \in Nat,
         DurableTypes', MemoryTypes', CommandOK(w)',
         \A v \in Workspaces \ {w} : pc'[v] = pc[v] /\ at'[v] = at[v] /\ outcome'[v] = outcome[v]
  PROVE  Kept(w)
<1>1. RefInv'
  BY RefKept
<1>2. HistoryTypes'
  BY TypeParts DEF HistoryTypes
<1>3. \A v \in Workspaces \ {w} : Bystander(v)
  BY DEF Bystander
<1> QED
  BY <1>1, <1>2, <1>3 DEF Kept

\* A step that changes nothing but the durable stores and the memory of its command.
LEMMA Alone ==
  ASSUME TypeOK, RefInv, NEW w \in Workspaces, UNCHANGED <<shared, held, edits>>,
         faults' \in Nat, DurableTypes', MemoryTypes', CommandOK(w)',
         \A v \in Workspaces \ {w} : pc'[v] = pc[v] /\ at'[v] = at[v] /\ outcome'[v] = outcome[v]
  PROVE  Kept(w)
<1>1. Grows /\ Sheltered
  BY DEF Grows, Sheltered, shared
<1>2. SharedTypes'
  BY TypeParts DEF SharedTypes, shared
<1> QED
  BY <1>1, <1>2, RefStays DEF shared

\* A command that goes on with other locals.
GoesOn(w, phase, locals) ==
  /\ Goto(w, phase)
  /\ at' = [at EXCEPT ![w] = locals]
  /\ UNCHANGED outcome

LEMMA GoesOnEffect ==
  ASSUME TypeOK, NEW w \in Workspaces, NEW phase \in Phases, NEW locals \in Locals,
         GoesOn(w, phase, locals)
  PROVE  /\ MemoryTypes'
         /\ pc'[w] = phase /\ at'[w] = locals /\ outcome'[w] = outcome[w]
         /\ \A v \in Workspaces \ {w} :
              pc'[v] = pc[v] /\ at'[v] = at[v] /\ outcome'[v] = outcome[v]
<1>1. MemoryTypes'
  BY TypeParts DEF GoesOn, Goto, MemoryTypes
<1> QED
  BY <1>1, TypeParts DEF GoesOn, Goto, MemoryTypes

LEMMA ReturnLeavesOthers ==
  ASSUME TypeOK, NEW w \in Workspaces, NEW kind, NEW commit, Return(w, kind, commit)
  PROVE  \A v \in Workspaces \ {w} : pc'[v] = pc[v] /\ at'[v] = at[v] /\ outcome'[v] = outcome[v]
BY DEF TypeOK, Return

\* An attempt that fails, or finds the remote changed, shows nothing.
LEMMA Fails ==
  ASSUME TypeOK, RefInv, NEW w \in Workspaces, NEW kind \in Outcomes, NEW commit \in RefState,
         kind \notin Successes \cup {"Verified"},
         Return(w, kind, commit), UNCHANGED <<shared, held, edits>>, faults' \in Nat,
         DurableTypes'
  PROVE  Kept(w)
BY Returns, ReturnLeavesOthers, Alone

LEMMA KeptTakeSnapshot ==
  ASSUME TypeOK, RefInv, NEW w \in Workspaces, CommandOK(w), TakeSnapshot(w)
  PROVE  Kept(w)
<1>1. DurableTypes'
  <2>1. DurableTypes /\ "Genuine" \in Bytes
    BY TypeParts DEF Bytes
  <2>2. PICK stored : cas' = [cas EXCEPT ![w] =
                                [c \in Contents |-> IF c \in stored THEN "Genuine" ELSE @[c]]]
    BY DEF TakeSnapshot
  <2>3. [c \in Contents |-> IF c \in stored THEN "Genuine" ELSE cas[w][c]] \in [Contents -> Bytes]
    BY <2>1 DEF DurableTypes
  <2>4. cas' \in [Workspaces -> [Contents -> Bytes]]
    BY <2>1, <2>2, <2>3 DEF DurableTypes
  <2> QED
    BY <2>1, <2>4 DEF TakeSnapshot, DurableTypes
<1>2. "Snapped" \in Phases /\ "Error" \in Outcomes /\ RefMissing \in RefState
  BY DEF Phases, Outcomes, RefState
<1>3. Grows /\ Sheltered
  BY DEF TakeSnapshot, Grows, Sheltered, shared
<1>4. RefInv' /\ SharedTypes'
  BY <1>3, TypeParts, RefKept DEF TakeSnapshot, shared, SharedTypes
<1>5. HistoryTypes' /\ held'[w] = {remote} /\ remote' = remote
      /\ \A v \in Workspaces \ {w} : held'[v] = held[v]
  BY TypeParts DEF TakeSnapshot, HistoryTypes, shared, TypeOK
<1>6. CASE Return(w, "Error", RefMissing)
  BY <1>1, <1>2, <1>3, <1>4, <1>5, <1>6, Returns, ReturnLeavesOthers DEF Kept, Successes, Bystander
<1>7. CASE /\ at' = [at EXCEPT ![w].snap = vault[w]]
           /\ outcome' = [outcome EXCEPT ![w] = NoReport]
           /\ Goto(w, "Snapped")
  <2>1. MemoryTypes
    BY TypeParts
  <2>2. MemoryTypes'
    <3>1. PICK locals : locals = [at[w] EXCEPT !.snap = vault[w]]
      OBVIOUS
    <3>2. locals \in Locals
      BY <2>1, <3>1 DEF Locals, MemoryTypes, TypeOK
    <3>3. at' = [at EXCEPT ![w] = locals]
      BY <1>7, <3>1
    <3> QED
      BY <1>2, <1>7, <2>1, <3>2, <3>3, LocalsType, NoLocalsType DEF MemoryTypes, Goto
  <2>3. pc'[w] = "Snapped" /\ outcome'[w] = NoReport
    BY <1>7, <2>1 DEF MemoryTypes, Goto
  <2>4. CommandOK(w)'
    BY <1>5, <2>3 DEF CommandOK, CommandInv, HeldInv, ReportInv, Executing, Successes, NoReport
  <2>5. \A v \in Workspaces \ {w} : Bystander(v)
    BY <1>5, <1>7, <2>1 DEF Bystander, MemoryTypes, Goto
  <2> QED
    BY <1>1, <1>3, <1>4, <1>5, <2>2, <2>4, <2>5 DEF Kept
<1> QED
  BY <1>6, <1>7 DEF TakeSnapshot

\* The report of the last command stays as true as it was while this one goes on.
LEMMA StillReported ==
  ASSUME Grows, Sheltered, NEW w \in Workspaces, CommandOK(w), outcome'[w] = outcome[w],
         held[w] \subseteq held'[w], CommandInv(w)', HeldInv(w)'
  PROVE  CommandOK(w)'
BY ReportKept DEF CommandOK

\* The commonest step: the command goes on, and nobody else can tell.
LEMMA GoesOnAlone ==
  ASSUME TypeOK, RefInv, NEW w \in Workspaces, CommandOK(w),
         NEW phase \in Phases, NEW locals \in Locals, GoesOn(w, phase, locals),
         UNCHANGED <<shared, held, edits>>, faults' \in Nat, DurableTypes',
         CommandInv(w)', HeldInv(w)'
  PROVE  Kept(w)
<1>1. Grows /\ Sheltered
  BY DEF Grows, Sheltered, shared
<1>2. /\ MemoryTypes'
      /\ pc'[w] = phase /\ at'[w] = locals /\ outcome'[w] = outcome[w]
      /\ \A v \in Workspaces \ {w} :
           pc'[v] = pc[v] /\ at'[v] = at[v] /\ outcome'[v] = outcome[v]
  BY GoesOnEffect
<1>3. CommandOK(w)'
  BY <1>1, <1>2, StillReported
<1> QED
  BY <1>2, <1>3, Alone

LEMMA KeptObserveBase ==
  ASSUME TypeOK, RefInv, NEW w \in Workspaces, CommandOK(w), ObserveBase(w)
  PROVE  Kept(w)
<1>1. DurableTypes' /\ faults' \in Nat /\ UNCHANGED <<shared, held, edits>>
  BY TypeParts DEF ObserveBase, DurableTypes, durable, HistoryTypes
<1>2. "Based" \in Phases /\ "Error" \in Outcomes /\ RefMissing \in RefState
  BY DEF Phases, Outcomes, RefState
<1>3. CASE Return(w, "Error", RefMissing)
  BY <1>1, <1>2, <1>3, Fails DEF Successes
<1>4. CASE remote # RefMissing /\ at' = [at EXCEPT ![w].seen = remote] /\ Goto(w, "Based")
           /\ UNCHANGED outcome
  <2>1. PICK locals : locals = [at[w] EXCEPT !.seen = remote]
    OBVIOUS
  <2>2. locals \in Locals /\ locals.seen = remote
    BY <2>1 DEF Locals, TypeOK
  <2>3. GoesOn(w, "Based", locals)
    BY <1>4, <2>1 DEF GoesOn
  <2>4. pc'[w] = "Based" /\ at'[w] = locals
    BY <1>2, <2>2, <2>3, GoesOnEffect
  <2>5. CommandInv(w)'
    BY <1>1, <1>4, <2>2, <2>4 DEF CommandInv, Executing, RefInv, Exists, shared
  <2>6. HeldInv(w)'
    BY <1>1, <2>2, <2>4 DEF CommandOK, HeldInv, Backing, ObserveBase, shared
  <2> QED
    BY <1>1, <1>2, <2>2, <2>3, <2>5, <2>6, GoesOnAlone
<1> QED
  BY <1>3, <1>4 DEF ObserveBase

LEMMA KeptBuildIntent ==
  ASSUME TypeOK, RefInv, NEW w \in Workspaces, CommandOK(w), BuildIntent(w)
  PROVE  Kept(w)
<1> DEFINE base  == at[w].seen
           files == at[w].snap
<1>1. /\ UNCHANGED <<remote, holder, lfs, lost, orphans, vault, cas, intents, held, edits, faults>>
      /\ faults' \in Nat
  BY DEF BuildIntent, TypeOK
<1>2. /\ "Built" \in Phases /\ {"Error", "AlreadyBackedUp"} \subseteq Outcomes
      /\ RefMissing \in RefState
  BY DEF Phases, Outcomes, RefState
<1>3. Exists(base) /\ base \in held[w] /\ base \in RefState /\ base \in Oids
  BY DEF BuildIntent, CommandOK, CommandInv, HeldInv, Exists, RefState
<1>4. files \in SUBSET Contents /\ files \in Tree
  BY DEF TypeOK, Locals, Tree
<1>5. CASE UNCHANGED <<objects, local>> /\ Return(w, "Error", RefMissing)
  <2>1. DurableTypes' /\ UNCHANGED <<shared, held, edits>>
    BY <1>1, <1>5, TypeParts DEF DurableTypes, shared
  <2> QED
    BY <1>1, <1>2, <1>5, <2>1, Fails DEF Successes
<1>6. CASE /\ objects[base].tree = files
           /\ Return(w, "AlreadyBackedUp", base)
           /\ UNCHANGED <<objects, local>>
  <2>1. DurableTypes' /\ UNCHANGED <<shared, held, edits>>
    BY <1>1, <1>6, TypeParts DEF DurableTypes, shared
  <2>2. /\ base \in Oids /\ objects'[base] # NoObject
        /\ base \in held'[w] /\ objects'[base].tree = files
    BY <1>3, <1>6, <2>1 DEF Exists
  <2>3. MemoryTypes' /\ CommandOK(w)'
    <3> HIDE DEF base
    <3>1. PICK commit : commit = base
      OBVIOUS
    <3>2. Exists(commit)' /\ commit \in held'[w] /\ objects'[commit].tree = at[w].snap
      BY <2>2, <3>1 DEF Exists
    <3>3. Return(w, "AlreadyBackedUp", commit) /\ commit \in RefState
      BY <1>3, <1>6, <3>1
    <3> QED
      BY <1>2, <3>2, <3>3, Returns
  <2> QED
    BY <1>1, <1>6, <2>1, <2>3, ReturnLeavesOthers, Alone
<1>7. ASSUME NEW o \in Oids, NEW stamp \in Stamps,
             CreateCommit(w, o, [parent |-> base, tree |-> files, stamp |-> stamp]),
             at' = [at EXCEPT ![w].run =
                      [ws |-> w, snap |-> files, base |-> base, desired |-> o,
                       spec |-> [parent |-> base, tree |-> files, stamp |-> stamp]]],
             Goto(w, "Built"), UNCHANGED outcome
      PROVE  Kept(w)
  <2> DEFINE spec == [parent |-> base, tree |-> files, stamp |-> stamp]
             run  == [ws |-> w, snap |-> files, base |-> base, desired |-> o, spec |-> spec]
  <2>1. spec \in CommitFacts
    BY <1>3, <1>4 DEF CommitFacts
  <2>2. /\ run \in BackupRun /\ run.spec = spec /\ run.desired = o
        /\ run.snap = files /\ run.base = base
    BY <1>3, <1>4, <2>1 DEF BackupRun
  <2>3. spec.tree = files /\ spec.parent = base
    OBVIOUS
  <2> HIDE DEF spec
  <2>4. CreateCommit(w, o, spec)
    BY <1>7 DEF spec
  <2>5. Grows /\ objects' \in [Oids -> CommitFacts \cup {NoObject}] /\ objects'[o] = spec
    BY <2>1, <2>4, TypeParts, CommitGrows
  <2>6. SharedTypes' /\ Sheltered
    BY <1>1, <2>5, TypeParts DEF SharedTypes, Sheltered
  <2>7. DurableTypes'
    BY <1>1, <2>4, TypeParts DEF DurableTypes, CreateCommit
  <2> HIDE DEF run
  <2>8. PICK locals : locals = [at[w] EXCEPT !.run = run]
    OBVIOUS
  <2>9. locals \in Locals /\ locals.run = run /\ locals.snap = files
    BY <2>2, <2>8 DEF Locals, TypeOK
  <2>10. GoesOn(w, "Built", locals)
    BY <1>7, <2>8 DEF GoesOn, run, spec
  <2>11. /\ MemoryTypes'
         /\ pc'[w] = "Built" /\ at'[w] = locals /\ outcome'[w] = outcome[w]
         /\ \A v \in Workspaces \ {w} :
              pc'[v] = pc[v] /\ at'[v] = at[v] /\ outcome'[v] = outcome[v]
    BY <1>2, <2>9, <2>10, GoesOnEffect
  <2>12. CommandInv(w)'
    BY <2>2, <2>3, <2>5, <2>9, <2>11 DEF CommandInv, Executing, SoundRun
  <2>13. HeldInv(w)'
    BY <1>1, <2>11 DEF CommandOK, HeldInv, Backing, BuildIntent
  <2>14. CommandOK(w)'
    BY <1>1, <2>5, <2>6, <2>11, <2>12, <2>13, StillReported
  <2> QED
    BY <1>1, <2>5, <2>6, <2>7, <2>11, <2>14, RefStays
<1> QED
  BY <1>5, <1>6, <1>7 DEF BuildIntent

\* What a command that executes an intent knows of it.
LEMMA ExecutingFacts ==
  ASSUME TypeOK, NEW w \in Workspaces, CommandOK(w), pc[w] \in Executing
  PROVE  /\ SoundRun(at[w].run) /\ at[w].run.snap = at[w].snap
         /\ at[w].run \in BackupRun
         /\ at[w].run.desired \in Oids /\ at[w].run.base \in Oids
         /\ remote \in held[w]
         /\ at[w] \in Locals
BY DEF CommandOK, CommandInv, HeldInv, SoundRun, BackupRun, Backing, TypeOK

LEMMA KeptSaveRun ==
  ASSUME TypeOK, RefInv, NEW w \in Workspaces, CommandOK(w), SaveRun(w)
  PROVE  Kept(w)
<1>1. pc[w] \in Executing
  BY DEF SaveRun, Executing
<1>2. /\ SoundRun(at[w].run) /\ at[w].run.snap = at[w].snap /\ at[w].run \in BackupRun
      /\ remote \in held[w] /\ at[w] \in Locals
  BY <1>1, ExecutingFacts
<1>3. DurableTypes' /\ faults' \in Nat /\ UNCHANGED <<shared, held, edits>>
  BY <1>2, TypeParts DEF SaveRun, DurableTypes, HistoryTypes
<1>4. GoesOn(w, "Loaded", at[w]) /\ "Loaded" \in Phases
  BY DEF GoesOn, SaveRun, TypeOK, Phases
<1>5. pc'[w] = "Loaded" /\ at'[w] = at[w]
  BY <1>2, <1>4, GoesOnEffect
<1>6. CommandInv(w)' /\ HeldInv(w)'
  BY <1>2, <1>3, <1>5 DEF CommandInv, HeldInv, Executing, Backing, SoundRun, shared
<1> QED
  BY <1>2, <1>3, <1>4, <1>6, GoesOnAlone

LEMMA KeptReconcile ==
  ASSUME TypeOK, RefInv, NEW w \in Workspaces, CommandOK(w), Reconcile(w)
  PROVE  Kept(w)
<1>1. pc[w] \in Executing
  BY DEF Reconcile, Executing
<1>2. /\ SoundRun(at[w].run) /\ at[w].run.snap = at[w].snap
      /\ at[w].run.base \in Oids
      /\ remote \in held[w] /\ at[w] \in Locals
  BY <1>1, ExecutingFacts
<1>3. DurableTypes' /\ faults' \in Nat /\ UNCHANGED <<shared, held, edits>>
  BY TypeParts DEF Reconcile, durable, DurableTypes, HistoryTypes
<1>4. CASE Return(w, "RemoteChanged", at[w].run.base)
  BY <1>2, <1>3, <1>4, Fails DEF Successes, Outcomes, RefState
<1>5. ASSUME NEW phase \in {"Confirming", "Matched"}, Goto(w, phase), UNCHANGED <<at, outcome>>,
             phase = "Confirming" => remote = at[w].run.desired
      PROVE  Kept(w)
  <2>1. GoesOn(w, phase, at[w]) /\ phase \in Phases
    BY <1>5 DEF GoesOn, TypeOK, Phases
  <2>2. pc'[w] = phase /\ at'[w] = at[w]
    BY <1>2, <2>1, GoesOnEffect
  <2>3. CommandInv(w)' /\ HeldInv(w)'
    BY <1>2, <1>3, <1>5, <2>2 DEF CommandInv, HeldInv, Executing, Backing, SoundRun, shared
  <2> QED
    BY <1>2, <1>3, <2>1, <2>3, GoesOnAlone
<1> QED
  BY <1>4, <1>5 DEF Reconcile

LEMMA KeptEnsureCommit ==
  ASSUME TypeOK, RefInv, NEW w \in Workspaces, CommandOK(w), EnsureCommit(w)
  PROVE  Kept(w)
<1>1. pc[w] \in Executing
  BY DEF EnsureCommit, Executing
<1>2. /\ SoundRun(at[w].run) /\ at[w].run.snap = at[w].snap
      /\ at[w].run.desired \in Oids
      /\ remote \in held[w] /\ at[w] \in Locals
  BY <1>1, ExecutingFacts
<1>3. faults' \in Nat /\ UNCHANGED <<shared, vault, cas, intents, held, edits>>
  BY TypeParts DEF EnsureCommit, HistoryTypes
<1>4. CASE Return(w, "Error", RefMissing) /\ UNCHANGED local
  <2>1. DurableTypes'
    BY <1>3, <1>4, TypeParts DEF DurableTypes
  <2> QED
    BY <1>3, <1>4, <2>1, Fails DEF Successes, Outcomes, RefState
<1>5. CASE /\ local' = [local EXCEPT ![w] = @ \cup {at[w].run.desired}]
           /\ Goto(w, "Ensured") /\ UNCHANGED <<at, outcome>>
  <2>1. GoesOn(w, "Ensured", at[w]) /\ "Ensured" \in Phases
    BY <1>5 DEF GoesOn, TypeOK, Phases
  <2>2. pc'[w] = "Ensured" /\ at'[w] = at[w]
    BY <1>2, <2>1, GoesOnEffect
  <2>3. CommandInv(w)' /\ HeldInv(w)'
    BY <1>2, <1>3, <2>2 DEF CommandInv, HeldInv, Executing, Backing, SoundRun, shared
  <2>4. DurableTypes'
    BY <1>2, <1>3, <1>5, TypeParts DEF DurableTypes
  <2> QED
    BY <1>2, <1>3, <2>1, <2>3, <2>4, GoesOnAlone
<1> QED
  BY <1>4, <1>5 DEF EnsureCommit

LEMMA KeptPlanUploads ==
  ASSUME TypeOK, RefInv, NEW w \in Workspaces, CommandOK(w), PlanUploads(w)
  PROVE  Kept(w)
<1>1. pc[w] \in Executing
  BY DEF PlanUploads, Executing
<1>2. /\ SoundRun(at[w].run) /\ at[w].run.snap = at[w].snap
      /\ remote \in held[w] /\ at[w] \in Locals
  BY <1>1, ExecutingFacts
<1>3. DurableTypes' /\ faults' \in Nat /\ UNCHANGED <<shared, held, edits>>
  BY TypeParts DEF PlanUploads, durable, DurableTypes, HistoryTypes
<1>4. PICK locals : locals = [at[w] EXCEPT !.todo = MissingFrom(at[w].run.snap)]
  OBVIOUS
<1>5. locals \in Locals /\ locals.run = at[w].run /\ locals.snap = at[w].snap
  BY <1>2, <1>4 DEF Locals, MissingFrom, Required
<1>6. GoesOn(w, "Uploading", locals) /\ "Uploading" \in Phases
  BY <1>4 DEF GoesOn, PlanUploads, Phases
<1>7. pc'[w] = "Uploading" /\ at'[w] = locals
  BY <1>5, <1>6, GoesOnEffect
<1>8. CommandInv(w)' /\ HeldInv(w)'
  BY <1>2, <1>3, <1>5, <1>7 DEF CommandInv, HeldInv, Executing, Backing, SoundRun, shared
<1> QED
  BY <1>3, <1>5, <1>6, <1>8, GoesOnAlone

LEMMA KeptSpoolObject ==
  ASSUME TypeOK, RefInv, NEW w \in Workspaces, CommandOK(w), SpoolObject(w)
  PROVE  Kept(w)
<1>1. pc[w] \in Executing
  BY DEF SpoolObject, Executing
<1>2. /\ SoundRun(at[w].run) /\ at[w].run.snap = at[w].snap
      /\ remote \in held[w] /\ at[w] \in Locals
  BY <1>1, ExecutingFacts
<1>3. DurableTypes' /\ faults' \in Nat /\ UNCHANGED <<shared, held, edits>>
  BY TypeParts DEF SpoolObject, durable, DurableTypes, HistoryTypes
<1>4. CASE Return(w, "Error", RefMissing)
  BY <1>3, <1>4, Fails DEF Successes, Outcomes, RefState
<1>5. ASSUME NEW o \in at[w].todo, Goto(w, "Spooled"), UNCHANGED outcome,
             at' = [at EXCEPT ![w].obj = o, ![w].sent = cas[w][o]], cas[w][o] # "Absent"
      PROVE  Kept(w)
  <2>1. PICK locals : locals = [at[w] EXCEPT !.obj = o, !.sent = cas[w][o]]
    OBVIOUS
  <2>2. o \in Large /\ cas[w][o] \in Bytes
    BY <1>2, BackupConstants DEF Locals, TypeOK
  <2>3. /\ locals \in Locals /\ locals.run = at[w].run /\ locals.snap = at[w].snap
        /\ locals.obj \in Large /\ locals.sent # "Absent"
    BY <1>2, <1>5, <2>1, <2>2 DEF Locals
  <2>4. GoesOn(w, "Spooled", locals) /\ "Spooled" \in Phases
    BY <1>5, <2>1 DEF GoesOn, Phases, TypeOK
  <2>5. pc'[w] = "Spooled" /\ at'[w] = locals
    BY <2>3, <2>4, GoesOnEffect
  <2>6. CommandInv(w)' /\ HeldInv(w)'
    BY <1>2, <1>3, <2>3, <2>5 DEF CommandInv, HeldInv, Executing, Backing, SoundRun, shared
  <2> QED
    BY <1>3, <2>3, <2>4, <2>6, GoesOnAlone
<1> QED
  BY <1>4, <1>5 DEF SpoolObject

\* What putting or registering one object does to the endpoint.
LEMMA EndpointWrite ==
  ASSUME SharedTypes, NEW o \in Large, NEW bytes \in Bytes, NEW known \in BOOLEAN,
         lfs[o].known => known, lfs' = [lfs EXCEPT ![o] = [bytes |-> bytes, known |-> known]],
         UNCHANGED <<objects, remote, holder, lost, orphans>>
  PROVE  SharedTypes' /\ Grows /\ Sheltered
<1>1. [bytes |-> bytes, known |-> known] \in [bytes : Bytes, known : BOOLEAN]
  OBVIOUS
<1>2. lfs' \in [Large -> [bytes : Bytes, known : BOOLEAN]]
  BY <1>1 DEF SharedTypes
<1>3. Sheltered
  BY DEF Sheltered, SharedTypes
<1> QED
  BY <1>2, <1>3 DEF SharedTypes, Grows

LEMMA KeptPutObject ==
  ASSUME TypeOK, RefInv, NEW w \in Workspaces, CommandOK(w), PutObject(w)
  PROVE  Kept(w)
<1>1. at[w].obj \in Large /\ at[w].sent # "Absent"
  BY DEF CommandOK, CommandInv, PutObject
<1>2. pc[w] \in Executing
  BY DEF PutObject, Executing
<1>3. /\ SoundRun(at[w].run) /\ at[w].run.snap = at[w].snap
      /\ remote \in held[w] /\ at[w] \in Locals
  BY <1>2, ExecutingFacts
<1>4. DurableTypes' /\ faults' \in Nat
      /\ UNCHANGED <<objects, remote, holder, lost, orphans, held, edits>>
  BY TypeParts DEF PutObject, durable, DurableTypes, HistoryTypes
<1>5. CASE Return(w, "Error", RefMissing) /\ UNCHANGED lfs
  <2>1. UNCHANGED <<shared, held, edits>>
    BY <1>4, <1>5 DEF shared
  <2> QED
    BY <1>4, <1>5, <2>1, Fails DEF Successes, Outcomes, RefState
<1>6. CASE /\ lfs' = [lfs EXCEPT ![at[w].obj] =
                        [bytes |-> at[w].sent, known |-> @.known \/ ~ Verifies]]
           /\ Goto(w, "Sent") /\ UNCHANGED <<at, outcome>>
  <2>1. SharedTypes /\ at[w].sent \in Bytes
    BY <1>3, TypeParts DEF Locals
  <2>2. PICK known : known = (lfs[at[w].obj].known \/ ~ Verifies)
    OBVIOUS
  <2>3. known \in BOOLEAN /\ (lfs[at[w].obj].known => known)
    BY <1>1, <2>1, <2>2 DEF SharedTypes
  <2>4. lfs' = [lfs EXCEPT ![at[w].obj] = [bytes |-> at[w].sent, known |-> known]]
    BY <1>6, <1>1, <2>1, <2>2 DEF SharedTypes
  <2>5. SharedTypes' /\ Grows /\ Sheltered
    BY <1>4, <1>1, <2>1, <2>3, <2>4, EndpointWrite
  <2>6. GoesOn(w, "Sent", at[w]) /\ "Sent" \in Phases
    BY <1>6 DEF GoesOn, TypeOK, Phases
  <2>7. /\ MemoryTypes'
        /\ pc'[w] = "Sent" /\ at'[w] = at[w] /\ outcome'[w] = outcome[w]
        /\ \A v \in Workspaces \ {w} :
             pc'[v] = pc[v] /\ at'[v] = at[v] /\ outcome'[v] = outcome[v]
    BY <1>3, <2>6, GoesOnEffect
  <2>8. CommandInv(w)' /\ HeldInv(w)'
    BY <1>1, <1>3, <1>4, <2>7 DEF CommandInv, HeldInv, Executing, Backing, SoundRun
  <2>9. CommandOK(w)'
    BY <1>4, <2>5, <2>7, <2>8, StillReported
  <2> QED
    BY <1>4, <2>5, <2>7, <2>9, RefStays
<1> QED
  BY <1>5, <1>6 DEF PutObject

LEMMA KeptFinishUpload ==
  ASSUME TypeOK, RefInv, NEW w \in Workspaces, CommandOK(w), FinishUpload(w)
  PROVE  Kept(w)
<1>1. at[w].obj \in Large
  BY DEF CommandOK, CommandInv, FinishUpload
<1>2. pc[w] \in Executing
  BY DEF FinishUpload, Executing
<1>3. /\ SoundRun(at[w].run) /\ at[w].run.snap = at[w].snap
      /\ remote \in held[w] /\ at[w] \in Locals
  BY <1>2, ExecutingFacts
<1>4. DurableTypes' /\ faults' \in Nat
      /\ UNCHANGED <<objects, remote, holder, lost, orphans, held, edits>>
  BY TypeParts DEF FinishUpload, durable, DurableTypes, HistoryTypes
<1>5. CASE Return(w, "Error", RefMissing) /\ UNCHANGED lfs
  <2>1. UNCHANGED <<shared, held, edits>>
    BY <1>4, <1>5 DEF shared
  <2> QED
    BY <1>4, <1>5, <2>1, Fails DEF Successes, Outcomes, RefState
<1>6. CASE /\ lfs' = [lfs EXCEPT ![at[w].obj].known = @ \/ Verifies]
           /\ at' = [at EXCEPT ![w].todo = @ \ {at[w].obj}]
           /\ Goto(w, "Uploading") /\ UNCHANGED outcome
  <2> DEFINE o == at[w].obj
  <2>1. SharedTypes /\ lfs[o] \in [bytes : Bytes, known : BOOLEAN]
    BY <1>1, TypeParts DEF SharedTypes
  <2>2. PICK known : known = (lfs[o].known \/ Verifies)
    OBVIOUS
  <2>3. known \in BOOLEAN /\ (lfs[o].known => known) /\ lfs[o].bytes \in Bytes
    BY <2>1, <2>2
  <2>4. lfs' = [lfs EXCEPT ![o] = [bytes |-> lfs[o].bytes, known |-> known]]
    <3>1. lfs' = [lfs EXCEPT ![o] = [lfs[o] EXCEPT !.known = known]]
      BY <1>6, <2>2
    <3>2. [lfs[o] EXCEPT !.known = known] = [bytes |-> lfs[o].bytes, known |-> known]
      BY <2>1
    <3> QED
      BY <3>1, <3>2
  <2>5. SharedTypes' /\ Grows /\ Sheltered
    BY <1>4, <1>1, <2>1, <2>3, <2>4, EndpointWrite
  <2>6. PICK locals : locals = [at[w] EXCEPT !.todo = @ \ {o}]
    OBVIOUS
  <2>7. locals \in Locals /\ locals.run = at[w].run /\ locals.snap = at[w].snap
    BY <1>3, <2>6 DEF Locals
  <2>8. GoesOn(w, "Uploading", locals) /\ "Uploading" \in Phases
    BY <1>6, <2>6 DEF GoesOn, TypeOK, Phases
  <2>9. /\ MemoryTypes'
        /\ pc'[w] = "Uploading" /\ at'[w] = locals /\ outcome'[w] = outcome[w]
        /\ \A v \in Workspaces \ {w} :
             pc'[v] = pc[v] /\ at'[v] = at[v] /\ outcome'[v] = outcome[v]
    BY <2>7, <2>8, GoesOnEffect
  <2>10. CommandInv(w)' /\ HeldInv(w)'
    BY <1>3, <1>4, <2>7, <2>9 DEF CommandInv, HeldInv, Executing, Backing, SoundRun
  <2>11. CommandOK(w)'
    BY <1>4, <2>5, <2>9, <2>10, StillReported
  <2> QED
    BY <1>4, <2>5, <2>9, <2>11, RefStays
<1> QED
  BY <1>5, <1>6 DEF FinishUpload

LEMMA KeptPassGate ==
  ASSUME TypeOK, RefInv, NEW w \in Workspaces, CommandOK(w), PassGate(w)
  PROVE  Kept(w)
<1>1. pc[w] \in Executing
  BY DEF PassGate, Executing
<1>2. /\ SoundRun(at[w].run) /\ at[w].run.snap = at[w].snap
      /\ at[w].run.desired \in Oids /\ remote \in held[w] /\ at[w] \in Locals
  BY <1>1, ExecutingFacts
<1>3. DurableTypes' /\ faults' \in Nat
      /\ UNCHANGED <<objects, remote, holder, lfs, orphans, held, edits>>
  BY TypeParts DEF PassGate, durable, DurableTypes, HistoryTypes
<1>4. MissingFrom(at[w].run.snap) = {} /\ lost' = lost \ Required(at[w].run.snap)
  BY DEF PassGate
<1>5. Sheltered /\ \A o \in Required(at[w].run.snap) : lfs'[o].known
  <2>1. \A o \in Required(at[w].run.snap) : lfs[o].known
    BY <1>4 DEF MissingFrom
  <2> QED
    BY <1>3, <1>4, <2>1 DEF Sheltered
<1>6. SharedTypes' /\ Grows
  BY <1>3, <1>4, TypeParts DEF SharedTypes, Grows
<1>7. CASE /\ at' = [at EXCEPT ![w].ack = "Waiting"]
           /\ Goto(w, "Pushing") /\ UNCHANGED outcome
  <2>1. PICK locals : locals = [at[w] EXCEPT !.ack = "Waiting"]
    OBVIOUS
  <2>2. locals \in Locals /\ locals.run = at[w].run /\ locals.snap = at[w].snap
        /\ locals.ack = "Waiting"
    BY <1>2, <2>1 DEF Locals
  <2>3. GoesOn(w, "Pushing", locals) /\ "Pushing" \in Phases
    BY <1>7, <2>1 DEF GoesOn, Phases
  <2>4. /\ MemoryTypes'
        /\ pc'[w] = "Pushing" /\ at'[w] = locals /\ outcome'[w] = outcome[w]
        /\ \A v \in Workspaces \ {w} :
             pc'[v] = pc[v] /\ at'[v] = at[v] /\ outcome'[v] = outcome[v]
    BY <2>2, <2>3, GoesOnEffect
  <2>5. CommandInv(w)' /\ HeldInv(w)'
    BY <1>2, <1>3, <1>5, <2>2, <2>4 DEF CommandInv, HeldInv, Executing, Backing, SoundRun, Covered,
       Required
  <2>6. CommandOK(w)'
    BY <1>3, <1>5, <1>6, <2>4, <2>5, StillReported
  <2> QED
    BY <1>3, <1>5, <1>6, <2>4, <2>6, RefStays
<1>8. CASE pc[w] = "Confirming" /\ Return(w, "AlreadyBackedUp", at[w].run.desired)
  <2>1. PICK commit : commit = at[w].run.desired
    OBVIOUS
  <2>2. at[w].run.desired \in held[w]
    BY <1>8 DEF CommandOK, HeldInv
  <2>3. Exists(commit)' /\ commit \in held'[w] /\ objects'[commit].tree = at[w].snap
    BY <1>2, <1>3, <2>1, <2>2, BackupSentinels DEF SoundRun, BackupRun, Exists
  <2>4. /\ Return(w, "AlreadyBackedUp", commit)
        /\ commit \in RefState /\ "AlreadyBackedUp" \in Outcomes
    BY <1>2, <1>8, <2>1 DEF RefState, Outcomes
  <2>5. MemoryTypes' /\ CommandOK(w)'
    BY <2>3, <2>4, Returns
  <2> QED
    BY <1>3, <1>5, <1>6, <2>4, <2>5, ReturnLeavesOthers, RefStays
<1> QED
  BY <1>7, <1>8 DEF PassGate

LEMMA KeptFailGate ==
  ASSUME TypeOK, RefInv, NEW w \in Workspaces, CommandOK(w), FailGate(w)
  PROVE  Kept(w)
<1>1. DurableTypes' /\ faults' \in Nat /\ UNCHANGED <<shared, held, edits>>
  BY TypeParts DEF FailGate, durable, DurableTypes, HistoryTypes
<1> QED
  BY <1>1, Fails DEF FailGate, Successes, Outcomes, RefState

----------------------------------------------------------------------------
(* The ref moves *)

\* What a move of the ref shows the commands that run.
SeesTheRef(w) ==
  /\ held[w] \subseteq held'[w]
  /\ pc[w] # "Idle" /\ remote \in held[w] => remote' \in held'[w]

LEMMA MoveRefEffect ==
  ASSUME TypeOK, NEW o \in RefState, NEW by \in BackupRun \cup {Others}, MoveRef(o, by)
  PROVE  /\ remote' = o /\ holder' = by
         /\ remote' \in RefState /\ holder' \in BackupRun \cup {Others}
         /\ held' \in [Workspaces -> SUBSET RefState]
         /\ \A w \in Workspaces : SeesTheRef(w) /\ (pc[w] # "Idle" => o \in held'[w])
BY DEF MoveRef, TypeOK, SeesTheRef

\* What holds of the ref when it was moved by an intent, or by somebody else.
RefOK ==
  /\ remote # RefMissing => Exists(remote)
  /\ holder # Others =>
       SoundRun(holder) /\ remote = holder.desired /\ Covered(holder.snap)

PushesOK == \A run \in orphans : SoundRun(run) /\ Covered(run.snap)

LEMMA PushesKept ==
  ASSUME PushesOK, Grows, Sheltered, orphans' \subseteq orphans
  PROVE  PushesOK'
<1>1. \A run \in orphans : SoundRun(run)' /\ Covered(run.snap)'
  BY SoundKept, CoveredKept DEF PushesOK
<1> QED
  BY <1>1 DEF PushesOK, SoundRun, Covered

LEMMA RefMoves ==
  ASSUME RefInv, RefOK', Grows, Sheltered, orphans' \subseteq orphans
  PROVE  RefInv'
<1>1. PushesOK'
  BY PushesKept DEF RefInv, PushesOK
<1> QED
  BY <1>1 DEF RefInv, RefOK, PushesOK

\* Whatever the server does with the push of an intent that passed the gate.
LEMMA SwapEffect ==
  ASSUME TypeOK, RefInv, NEW run, SoundRun(run), Covered(run.snap), NEW ok \in BOOLEAN,
         CompareAndSwap(run, ok), UNCHANGED <<objects, lfs, lost>>
  PROVE  /\ remote' \in RefState /\ holder' \in BackupRun \cup {Others}
         /\ held' \in [Workspaces -> SUBSET RefState]
         /\ RefOK'
         /\ Grows /\ Sheltered
         /\ \A w \in Workspaces :
              /\ SeesTheRef(w)
              /\ ok /\ pc[w] # "Idle" /\ remote \in held[w] => run.desired \in held'[w]
<1>1. Grows /\ Sheltered
  BY DEF Grows, Sheltered
<1>2. run \in BackupRun /\ run.desired \in RefState
  BY DEF SoundRun, BackupRun, RefState
<1>3. CASE remote = run.base
  <2>1. MoveRef(run.desired, run)
    BY <1>3 DEF CompareAndSwap
  <2>2. /\ remote' = run.desired /\ holder' = run
        /\ remote' \in RefState /\ holder' \in BackupRun \cup {Others}
        /\ held' \in [Workspaces -> SUBSET RefState]
        /\ \A w \in Workspaces :
             SeesTheRef(w) /\ (pc[w] # "Idle" => run.desired \in held'[w])
    BY <1>2, <2>1, MoveRefEffect
  <2>3. RefOK'
    BY <1>1, <2>2, SoundKept, CoveredKept DEF RefOK, Exists
  <2> QED
    BY <1>1, <2>2, <2>3
<1>4. CASE remote # run.base
  <2>1. UNCHANGED <<remote, holder, held>> /\ (ok => remote = run.desired)
    BY <1>4 DEF CompareAndSwap
  <2>2. RefOK'
    BY <2>1 DEF RefInv, RefOK, Exists, SoundRun, Covered
  <2>3. \A w \in Workspaces :
          /\ SeesTheRef(w)
          /\ ok /\ pc[w] # "Idle" /\ remote \in held[w] => run.desired \in held'[w]
    BY <2>1 DEF SeesTheRef
  <2> QED
    BY <1>1, <2>1, <2>2, <2>3 DEF TypeOK
<1> QED
  BY <1>3, <1>4

LEMMA KeptServerAnswers ==
  ASSUME TypeOK, RefInv, NEW w \in Workspaces, CommandOK(w), ServerAnswers(w)
  PROVE  Kept(w)
<1>1. pc[w] \in Executing /\ pc[w] = "Pushing" /\ at[w].ack = "Waiting"
  BY DEF ServerAnswers, Executing
<1>2. /\ SoundRun(at[w].run) /\ at[w].run.snap = at[w].snap
      /\ remote \in held[w] /\ at[w] \in Locals
  BY <1>1, ExecutingFacts
<1>3. Covered(at[w].run.snap)
  BY <1>1 DEF CommandOK, CommandInv
<1>4. PICK ok \in BOOLEAN : /\ CompareAndSwap(at[w].run, ok)
                            /\ at' = [at EXCEPT ![w].ack = IF ok THEN "Applied" ELSE "Refused"]
  BY DEF ServerAnswers
<1>5. PICK run : run = at[w].run
  OBVIOUS
<1>6. /\ remote' \in RefState /\ holder' \in BackupRun \cup {Others}
      /\ held' \in [Workspaces -> SUBSET RefState]
      /\ RefOK'
      /\ Grows /\ Sheltered
      /\ \A v \in Workspaces :
           /\ SeesTheRef(v)
           /\ ok /\ pc[v] # "Idle" /\ remote \in held[v] => run.desired \in held'[v]
  BY <1>2, <1>3, <1>4, <1>5, SwapEffect DEF ServerAnswers
<1>7. RefInv'
  BY <1>6, RefMoves DEF ServerAnswers
<1>8. /\ SharedTypes' /\ DurableTypes' /\ HistoryTypes'
  BY <1>6, TypeParts DEF ServerAnswers, durable, SharedTypes, DurableTypes, HistoryTypes
<1>9. PICK locals : locals = [at[w] EXCEPT !.ack = IF ok THEN "Applied" ELSE "Refused"]
  OBVIOUS
<1>10. /\ locals \in Locals /\ locals.run = at[w].run /\ locals.snap = at[w].snap
       /\ locals.ack \in {"Applied", "Refused"} /\ (locals.ack = "Applied" => ok)
  BY <1>2, <1>9 DEF Locals
<1>11. GoesOn(w, "Pushing", locals) /\ "Pushing" \in Phases
  BY <1>1, <1>4, <1>9 DEF GoesOn, Phases, ServerAnswers, Goto, TypeOK
<1>12. /\ MemoryTypes'
       /\ pc'[w] = "Pushing" /\ at'[w] = locals /\ outcome'[w] = outcome[w]
       /\ \A v \in Workspaces \ {w} :
            pc'[v] = pc[v] /\ at'[v] = at[v] /\ outcome'[v] = outcome[v]
  BY <1>10, <1>11, GoesOnEffect
<1>13. CommandInv(w)'
  BY <1>2, <1>10, <1>12 DEF CommandInv, Executing, SoundRun, ServerAnswers
<1>14. HeldInv(w)'
  BY <1>1, <1>2, <1>5, <1>6, <1>10, <1>12 DEF HeldInv, Backing, Executing, SeesTheRef
<1>15. CommandOK(w)'
  BY <1>6, <1>12, <1>13, <1>14, StillReported DEF SeesTheRef
<1>16. \A v \in Workspaces \ {w} : Bystander(v)
  BY <1>6, <1>12 DEF Bystander, SeesTheRef
<1> QED
  BY <1>6, <1>7, <1>8, <1>12, <1>15, <1>16 DEF Kept

LEMMA KeptServerRefuses ==
  ASSUME TypeOK, RefInv, NEW w \in Workspaces, CommandOK(w), ServerRefuses(w)
  PROVE  Kept(w)
<1>1. pc[w] \in Executing /\ pc[w] = "Pushing"
  BY DEF ServerRefuses, Executing
<1>2. /\ SoundRun(at[w].run) /\ at[w].run.snap = at[w].snap
      /\ remote \in held[w] /\ at[w] \in Locals
  BY <1>1, ExecutingFacts
<1>3. DurableTypes' /\ faults' \in Nat /\ UNCHANGED <<shared, held, edits>>
  BY TypeParts DEF ServerRefuses, Fault, durable, DurableTypes, HistoryTypes
<1>4. PICK locals : locals = [at[w] EXCEPT !.ack = "Refused"]
  OBVIOUS
<1>5. locals \in Locals /\ locals.run = at[w].run /\ locals.snap = at[w].snap
      /\ locals.ack = "Refused"
  BY <1>2, <1>4 DEF Locals
<1>6. GoesOn(w, "Pushing", locals) /\ "Pushing" \in Phases
  BY <1>1, <1>4 DEF GoesOn, Phases, ServerRefuses, Goto, TypeOK
<1>7. pc'[w] = "Pushing" /\ at'[w] = locals
  BY <1>5, <1>6, GoesOnEffect
<1>8. CommandInv(w)' /\ HeldInv(w)'
  BY <1>2, <1>3, <1>5, <1>7 DEF CommandInv, HeldInv, Executing, Backing, SoundRun, shared
<1> QED
  BY <1>3, <1>5, <1>6, <1>8, GoesOnAlone

\* A backup that names the commit it executed, once that was on the ref.
LEMMA ReturnsTheCommit ==
  ASSUME TypeOK, RefInv, NEW w \in Workspaces, CommandOK(w), pc[w] \in Executing,
         at[w].run.desired \in held[w], NEW kind \in Successes,
         Return(w, kind, at[w].run.desired),
         UNCHANGED <<shared, held, edits>>, faults' \in Nat, DurableTypes'
  PROVE  Kept(w)
<1>1. /\ SoundRun(at[w].run) /\ at[w].run.snap = at[w].snap /\ at[w].run.desired \in Oids
      /\ at[w] \in Locals
  BY ExecutingFacts
<1>2. PICK commit : commit = at[w].run.desired
  OBVIOUS
<1>3. Exists(commit)' /\ commit \in held'[w] /\ objects'[commit].tree = at[w].snap
  BY <1>1, <1>2, BackupSentinels DEF SoundRun, BackupRun, Exists, shared
<1>4. Return(w, kind, commit) /\ commit \in RefState /\ kind \in Outcomes /\ kind # "Verified"
  BY <1>1, <1>2 DEF RefState, Outcomes, Successes
<1>5. MemoryTypes' /\ CommandOK(w)'
  BY <1>3, <1>4, Returns
<1> QED
  BY <1>4, <1>5, ReturnLeavesOthers, Alone

LEMMA KeptPushReports ==
  ASSUME TypeOK, RefInv, NEW w \in Workspaces, CommandOK(w), PushReports(w)
  PROVE  Kept(w)
<1>1. pc[w] \in Executing /\ pc[w] = "Pushing"
  BY DEF PushReports, Executing
<1>2. /\ SoundRun(at[w].run) /\ at[w].run.snap = at[w].snap
      /\ remote \in held[w] /\ at[w] \in Locals
  BY <1>1, ExecutingFacts
<1>3. DurableTypes' /\ faults' \in Nat /\ UNCHANGED <<shared, held, edits>>
  BY TypeParts DEF PushReports, durable, DurableTypes, HistoryTypes
<1>4. CASE at[w].ack = "Applied" /\ Return(w, "BackedUp", at[w].run.desired)
  BY <1>1, <1>3, <1>4, ReturnsTheCommit DEF CommandOK, HeldInv, Successes
<1>5. CASE Goto(w, "Rejected") /\ UNCHANGED <<at, outcome>>
  <2>1. GoesOn(w, "Rejected", at[w]) /\ "Rejected" \in Phases
    BY <1>5 DEF GoesOn, TypeOK, Phases
  <2>2. pc'[w] = "Rejected" /\ at'[w] = at[w]
    BY <1>2, <2>1, GoesOnEffect
  <2>3. CommandInv(w)' /\ HeldInv(w)'
    BY <1>2, <1>3, <2>2 DEF CommandInv, HeldInv, Executing, Backing, SoundRun, shared
  <2> QED
    BY <1>2, <1>3, <2>1, <2>3, GoesOnAlone
<1> QED
  BY <1>4, <1>5 DEF PushReports

LEMMA KeptObserveRejection ==
  ASSUME TypeOK, RefInv, NEW w \in Workspaces, CommandOK(w), ObserveRejection(w)
  PROVE  Kept(w)
<1>1. pc[w] \in Executing
  BY DEF ObserveRejection, Executing
<1>2. at[w].run.base \in Oids /\ remote \in held[w]
  BY <1>1, ExecutingFacts
<1>3. DurableTypes' /\ faults' \in Nat /\ UNCHANGED <<shared, held, edits>>
  BY TypeParts DEF ObserveRejection, durable, DurableTypes, HistoryTypes
<1>4. CASE remote = at[w].run.desired
  <2>1. Return(w, "AlreadyBackedUp", at[w].run.desired)
    BY <1>4 DEF ObserveRejection
  <2> QED
    BY <1>1, <1>2, <1>3, <1>4, <2>1, ReturnsTheCommit DEF Successes
<1>5. CASE remote # at[w].run.desired
  <2>1. Return(w, "RemoteChanged", at[w].run.base)
    BY <1>5 DEF ObserveRejection
  <2> QED
    BY <1>2, <1>3, <2>1, Fails DEF Successes, Outcomes, RefState
<1> QED
  BY <1>4, <1>5

\* A push under way when its client stops waiting joins those nobody waits for.
LEMMA OrphanEffect ==
  ASSUME TypeOK, RefInv, NEW w \in Workspaces, CommandOK(w), Orphan(w),
         UNCHANGED <<objects, remote, holder, lfs, lost>>
  PROVE  SharedTypes' /\ RefInv' /\ Grows /\ Sheltered
<1>1. Grows /\ Sheltered
  BY DEF Grows, Sheltered
<1>2. orphans' = orphans \/ (/\ pc[w] = "Pushing" /\ at[w].ack = "Waiting"
                             /\ orphans' = orphans \cup {at[w].run})
  BY DEF Orphan
<1>3. pc[w] = "Pushing" /\ at[w].ack = "Waiting" => SoundRun(at[w].run) /\ Covered(at[w].run.snap)
  BY DEF CommandOK, CommandInv, Executing
<1>4. \A run \in orphans' : SoundRun(run) /\ Covered(run.snap)
  BY <1>2, <1>3 DEF RefInv
<1>5. RefInv'
  BY <1>4 DEF RefInv, SoundRun, Covered, Exists
<1>6. SharedTypes'
  BY <1>4, TypeParts DEF SharedTypes, SoundRun
<1> QED
  BY <1>1, <1>5, <1>6

LEMMA KeptPushMisreports ==
  ASSUME TypeOK, RefInv, NEW w \in Workspaces, CommandOK(w), PushMisreports(w)
  PROVE  Kept(w)
<1>1. pc[w] \in Executing
  BY DEF PushMisreports, Executing
<1>2. /\ SoundRun(at[w].run) /\ at[w].run.snap = at[w].snap
      /\ remote \in held[w] /\ at[w] \in Locals
  BY <1>1, ExecutingFacts
<1>3. SharedTypes' /\ RefInv' /\ Grows /\ Sheltered
  BY OrphanEffect DEF PushMisreports
<1>4. DurableTypes' /\ HistoryTypes' /\ UNCHANGED <<objects, remote, held>>
  BY TypeParts DEF PushMisreports, Fault, durable, DurableTypes, HistoryTypes
<1>5. PICK locals : locals = [at[w] EXCEPT !.ack = "Refused"]
  OBVIOUS
<1>6. locals \in Locals /\ locals.run = at[w].run /\ locals.snap = at[w].snap
  BY <1>2, <1>5 DEF Locals
<1>7. GoesOn(w, "Rejected", locals) /\ "Rejected" \in Phases
  BY <1>5 DEF GoesOn, Phases, PushMisreports
<1>8. /\ MemoryTypes'
      /\ pc'[w] = "Rejected" /\ at'[w] = locals /\ outcome'[w] = outcome[w]
      /\ \A v \in Workspaces \ {w} :
           pc'[v] = pc[v] /\ at'[v] = at[v] /\ outcome'[v] = outcome[v]
  BY <1>6, <1>7, GoesOnEffect
<1>9. CommandInv(w)' /\ HeldInv(w)'
  BY <1>2, <1>4, <1>6, <1>8 DEF CommandInv, HeldInv, Executing, Backing, SoundRun
<1>10. CommandOK(w)'
  BY <1>3, <1>4, <1>8, <1>9, StillReported
<1>11. \A v \in Workspaces \ {w} : Bystander(v)
  BY <1>4, <1>8 DEF Bystander
<1> QED
  BY <1>3, <1>4, <1>8, <1>10, <1>11 DEF Kept

LEMMA KeptAbort ==
  ASSUME TypeOK, RefInv, NEW w \in Workspaces, CommandOK(w), Abort(w)
  PROVE  Kept(w)
<1>1. SharedTypes' /\ RefInv' /\ Grows /\ Sheltered
  BY OrphanEffect DEF Abort
<1>2. DurableTypes' /\ HistoryTypes' /\ UNCHANGED <<remote, held>>
  BY TypeParts DEF Abort, Fault, durable, DurableTypes, HistoryTypes
<1>3. MemoryTypes' /\ CommandOK(w)'
  BY Returns DEF Abort, Outcomes, RefState, Successes
<1>4. \A v \in Workspaces \ {w} : Bystander(v)
  BY <1>2, ReturnLeavesOthers DEF Abort, Bystander
<1> QED
  BY <1>1, <1>2, <1>3, <1>4 DEF Kept

\* A command that begins forgets the report of the last one.
LEMMA BeginsEffect ==
  ASSUME TypeOK, NEW w \in Workspaces, NEW phase \in Phases, NEW seen \in RefState,
         at' = [at EXCEPT ![w].seen = seen], outcome' = [outcome EXCEPT ![w] = NoReport],
         Goto(w, phase)
  PROVE  /\ MemoryTypes'
         /\ pc'[w] = phase /\ at'[w].seen = seen /\ ReportInv(w)'
         /\ \A v \in Workspaces \ {w} :
              pc'[v] = pc[v] /\ at'[v] = at[v] /\ outcome'[v] = outcome[v]
<1>1. PICK locals : locals = [at[w] EXCEPT !.seen = seen]
  OBVIOUS
<1>2. locals \in Locals /\ locals.seen = seen
  BY <1>1 DEF Locals, TypeOK
<1>3. at' = [at EXCEPT ![w] = locals]
  BY <1>1
<1>4. MemoryTypes' /\ pc'[w] = phase /\ at'[w].seen = seen /\ outcome'[w] = NoReport
  BY <1>2, <1>3, NoLocalsType, TypeParts DEF MemoryTypes, Goto
<1>5. ReportInv(w)'
  BY <1>4 DEF ReportInv, NoReport, Successes
<1>6. \A v \in Workspaces \ {w} : pc'[v] = pc[v] /\ at'[v] = at[v] /\ outcome'[v] = outcome[v]
  BY <1>3 DEF Goto, TypeOK
<1> QED
  BY <1>4, <1>5, <1>6

LEMMA KeptObserveToVerify ==
  ASSUME TypeOK, RefInv, NEW w \in Workspaces, CommandOK(w), ObserveToVerify(w)
  PROVE  Kept(w)
<1>1. DurableTypes' /\ faults' \in Nat /\ UNCHANGED <<shared, held, edits>>
  BY TypeParts DEF ObserveToVerify, durable, DurableTypes, HistoryTypes
<1>2. CASE Return(w, "Error", RefMissing)
  BY <1>1, <1>2, Fails DEF Successes, Outcomes, RefState
<1>3. CASE /\ remote # RefMissing /\ at' = [at EXCEPT ![w].seen = remote]
           /\ outcome' = [outcome EXCEPT ![w] = NoReport] /\ Goto(w, "Verifying")
  <2>1. remote \in RefState /\ "Verifying" \in Phases
    BY DEF TypeOK, Phases
  <2>2. /\ MemoryTypes'
        /\ pc'[w] = "Verifying" /\ at'[w].seen = remote /\ ReportInv(w)'
        /\ \A v \in Workspaces \ {w} :
             pc'[v] = pc[v] /\ at'[v] = at[v] /\ outcome'[v] = outcome[v]
    BY <1>3, <2>1, BeginsEffect
  <2>3. CommandInv(w)' /\ HeldInv(w)'
    BY <1>1, <1>3, <2>2 DEF CommandInv, HeldInv, Executing, Backing, RefInv, Exists, shared
  <2> QED
    BY <1>1, <2>2, <2>3, Alone DEF CommandOK
<1> QED
  BY <1>2, <1>3 DEF ObserveToVerify

LEMMA KeptVerify ==
  ASSUME TypeOK, RefInv, NEW w \in Workspaces, CommandOK(w), Verify(w)
  PROVE  Kept(w)
<1> DEFINE tree == objects[at[w].seen].tree
<1>1. DurableTypes' /\ faults' \in Nat
      /\ UNCHANGED <<objects, remote, holder, lfs, orphans, held, edits>>
  BY TypeParts DEF Verify, durable, DurableTypes, HistoryTypes
<1>2. CASE Return(w, "Error", RefMissing) /\ UNCHANGED lost
  <2>1. UNCHANGED <<shared, held, edits>>
    BY <1>1, <1>2 DEF shared
  <2> QED
    BY <1>1, <1>2, <2>1, Fails DEF Successes, Outcomes, RefState
<1>3. CASE /\ MissingFrom(tree) = {}
           /\ lost' = lost \ Required(tree)
           /\ Return(w, "Verified", at[w].seen)
  <2>1. \A o \in Required(tree) : lfs'[o].known
    BY <1>1, <1>3 DEF MissingFrom
  <2>2. SharedTypes' /\ Grows /\ Sheltered
    BY <1>1, <1>3, <2>1, TypeParts DEF SharedTypes, Grows, Sheltered
  <2>3. PICK commit : commit = at[w].seen
    OBVIOUS
  <2>4. Exists(commit)' /\ \A o \in Required(objects'[commit].tree) : lfs'[o].known
    BY <1>1, <2>1, <2>3 DEF CommandOK, CommandInv, Exists, Verify
  <2>5. Return(w, "Verified", commit) /\ commit \in RefState /\ "Verified" \in Outcomes
    BY <1>3, <2>3, <2>4 DEF RefState, Outcomes, Exists
  <2>6. MemoryTypes' /\ CommandOK(w)'
    BY <2>4, <2>5, Returns DEF Successes
  <2> QED
    BY <1>1, <2>2, <2>5, <2>6, ReturnLeavesOthers, RefStays
<1> QED
  BY <1>2, <1>3 DEF Verify

LEMMA KeptBeginInit ==
  ASSUME TypeOK, RefInv, NEW w \in Workspaces, CommandOK(w), BeginInit(w)
  PROVE  Kept(w)
<1>1. /\ UNCHANGED <<remote, holder, lfs, lost, orphans, vault, cas, intents, held, edits, faults>>
      /\ faults' \in Nat
  BY DEF BeginInit, TypeOK
<1>2. CASE Return(w, "AlreadyPresent", remote) /\ UNCHANGED <<objects, local>>
  <2>1. DurableTypes' /\ UNCHANGED <<shared, held, edits>>
    BY <1>1, <1>2, TypeParts DEF DurableTypes, shared
  <2>2. PICK commit \in RefState : commit = remote
    BY DEF TypeOK
  <2> QED
    BY <1>1, <1>2, <2>1, <2>2, Fails DEF Successes, Outcomes
<1>3. ASSUME NEW o \in Oids, NEW stamp \in Stamps,
             CreateCommit(w, o, [parent |-> NoCommit, tree |-> NotBackup, stamp |-> stamp]),
             at' = [at EXCEPT ![w].seen = o],
             outcome' = [outcome EXCEPT ![w] = NoReport], Goto(w, "Rooted")
      PROVE  Kept(w)
  <2> DEFINE facts == [parent |-> NoCommit, tree |-> NotBackup, stamp |-> stamp]
  <2>1. facts \in CommitFacts
    <3>1. NotBackup \in Tree
      BY DEF Tree
    <3> QED
      BY <3>1 DEF CommitFacts
  <2> HIDE DEF facts
  <2>2. CreateCommit(w, o, facts)
    BY <1>3 DEF facts
  <2>3. Grows /\ objects' \in [Oids -> CommitFacts \cup {NoObject}] /\ objects'[o] = facts
    BY <2>1, <2>2, TypeParts, CommitGrows
  <2>4. SharedTypes' /\ Sheltered
    BY <1>1, <2>3, TypeParts DEF SharedTypes, Sheltered
  <2>5. DurableTypes'
    BY <1>1, <2>2, TypeParts DEF DurableTypes, CreateCommit
  <2>6. "Rooted" \in Phases /\ o \in RefState
    BY DEF Phases, RefState
  <2>7. /\ MemoryTypes'
        /\ pc'[w] = "Rooted" /\ at'[w].seen = o /\ ReportInv(w)'
        /\ \A v \in Workspaces \ {w} :
             pc'[v] = pc[v] /\ at'[v] = at[v] /\ outcome'[v] = outcome[v]
    BY <1>3, <2>6, BeginsEffect
  <2>8. CommandInv(w)' /\ HeldInv(w)'
    BY <2>1, <2>3, <2>7, BackupSentinels DEF CommandInv, HeldInv, Executing, Backing, Exists
  <2> QED
    BY <1>1, <2>3, <2>4, <2>5, <2>7, <2>8, RefStays DEF CommandOK
<1> QED
  BY <1>2, <1>3 DEF BeginInit

LEMMA KeptPushRoot ==
  ASSUME TypeOK, RefInv, NEW w \in Workspaces, CommandOK(w), PushRoot(w)
  PROVE  Kept(w)
<1>1. DurableTypes' /\ faults' \in Nat /\ edits' \in Nat
      /\ UNCHANGED <<objects, lfs, lost, orphans, edits>>
  BY TypeParts DEF PushRoot, durable, DurableTypes, HistoryTypes
<1>2. Exists(at[w].seen)
  BY DEF PushRoot, CommandOK, CommandInv
<1>3. PICK seen \in RefState : seen = at[w].seen /\ Exists(seen)
  BY <1>2 DEF Exists, RefState
<1>4. ASSUME NEW kind \in {"Created", "Error"}, NEW commit \in RefState,
             Return(w, kind, commit), UNCHANGED <<remote, holder, held>>
      PROVE  Kept(w)
  <2>1. UNCHANGED <<shared, held, edits>>
    BY <1>1, <1>4 DEF shared
  <2> QED
    BY <1>1, <1>4, <2>1, Fails DEF Successes, Outcomes
<1>5. CASE MoveRef(seen, Others) /\ Return(w, "Created", seen)
  <2>1. /\ remote' = seen /\ holder' = Others
        /\ remote' \in RefState /\ holder' \in BackupRun \cup {Others}
        /\ held' \in [Workspaces -> SUBSET RefState]
        /\ \A v \in Workspaces : SeesTheRef(v)
    BY <1>5, MoveRefEffect
  <2>2. Grows /\ Sheltered
    BY <1>1 DEF Grows, Sheltered
  <2>3. RefOK'
    BY <1>1, <1>3, <2>1 DEF RefOK, Exists
  <2>4. RefInv'
    BY <1>1, <2>2, <2>3, RefMoves
  <2>5. SharedTypes' /\ HistoryTypes'
    BY <1>1, <2>1, TypeParts DEF SharedTypes, HistoryTypes
  <2>6. MemoryTypes' /\ CommandOK(w)'
    BY <1>5, Returns DEF Successes, Outcomes
  <2>7. \A v \in Workspaces \ {w} : Bystander(v)
    BY <1>5, <2>1, ReturnLeavesOthers DEF Bystander, SeesTheRef
  <2> QED
    BY <1>1, <2>2, <2>4, <2>5, <2>6, <2>7 DEF Kept
<1> QED
  BY <1>3, <1>4, <1>5 DEF PushRoot, RefState

----------------------------------------------------------------------------
(* The outside *)

\* What a step of nobody's command shows.
Untouched ==
  /\ SharedTypes' /\ DurableTypes' /\ MemoryTypes' /\ HistoryTypes'
  /\ Grows /\ Sheltered
  /\ RefInv'
  /\ \A w \in Workspaces : Bystander(w)

Outside ==
  \/ \E w \in Workspaces :
       \/ EditSource(w)
       \/ \E c \in Contents : BlobSpoils(w, c)
       \/ CloneReplaced(w)
       \/ Fetch(w)
  \/ \E run \in orphans : OrphanLands(run)
  \/ \E o \in Large : ObjectLost(o)
  \/ ForeignPush
  \/ RefDeleted

\* Steps that leave the shared state and the commands alone.
LEMMA Unseen ==
  ASSUME TypeOK, RefInv, UNCHANGED <<shared, memory, held>>, DurableTypes',
         edits' \in Nat, faults' \in Nat
  PROVE  Untouched
<1>1. Grows /\ Sheltered
  BY DEF Grows, Sheltered, shared
<1>2. RefInv'
  BY <1>1, RefKept DEF shared
<1>3. SharedTypes' /\ MemoryTypes' /\ HistoryTypes'
  BY TypeParts DEF SharedTypes, MemoryTypes, HistoryTypes, shared, memory
<1> QED
  BY <1>1, <1>2, <1>3 DEF Untouched, Bystander, shared, memory

\* Steps that move the ref on behalf of somebody else.
LEMMA MovedByOthers ==
  ASSUME TypeOK, RefInv, NEW o \in RefState, MoveRef(o, Others),
         o # RefMissing => Exists(o)', Grows, objects' \in [Oids -> CommitFacts \cup {NoObject}],
         UNCHANGED <<lfs, lost, orphans, durable, memory, edits>>, faults' \in Nat
  PROVE  Untouched
<1>1. /\ remote' = o /\ holder' = Others
      /\ remote' \in RefState /\ holder' \in BackupRun \cup {Others}
      /\ held' \in [Workspaces -> SUBSET RefState]
      /\ \A w \in Workspaces : SeesTheRef(w)
  BY MoveRefEffect
<1>2. Sheltered
  BY DEF Sheltered
<1>3. RefOK'
  BY <1>1 DEF RefOK, Exists
<1>4. RefInv'
  BY <1>2, <1>3, RefMoves
<1>5. SharedTypes' /\ HistoryTypes' /\ DurableTypes' /\ MemoryTypes'
  BY <1>1, TypeParts DEF SharedTypes, HistoryTypes, DurableTypes, MemoryTypes, durable, memory
<1>6. \A w \in Workspaces : Bystander(w)
  BY <1>1 DEF Bystander, SeesTheRef, memory
<1> QED
  BY <1>2, <1>4, <1>5, <1>6 DEF Untouched

LEMMA KeptOutside ==
  ASSUME TypeOK, RefInv, Outside
  PROVE  Untouched
<1>1. ASSUME NEW w \in Workspaces, EditSource(w)
      PROVE  Untouched
  <2>1. DurableTypes'
    BY <1>1, TypeParts DEF EditSource, DurableTypes
  <2> QED
    BY <1>1, <2>1, Unseen DEF EditSource, TypeOK
<1>2. ASSUME NEW w \in Workspaces, NEW c \in Contents, BlobSpoils(w, c)
      PROVE  Untouched
  <2>1. DurableTypes'
    BY <1>2, TypeParts DEF BlobSpoils, DurableTypes, Bytes
  <2> QED
    BY <1>2, <2>1, Unseen DEF BlobSpoils, Fault, TypeOK
<1>3. ASSUME NEW w \in Workspaces, CloneReplaced(w)
      PROVE  Untouched
  <2>1. DurableTypes'
    BY <1>3, TypeParts DEF CloneReplaced, DurableTypes
  <2> QED
    BY <1>3, <2>1, Unseen DEF CloneReplaced, Fault, TypeOK
<1>4. ASSUME NEW w \in Workspaces, Fetch(w)
      PROVE  Untouched
  <2>1. DurableTypes'
    BY <1>4, TypeParts DEF Fetch, DurableTypes
  <2> QED
    BY <1>4, <2>1, Unseen DEF Fetch, TypeOK
<1>5. ASSUME NEW run \in orphans, OrphanLands(run)
      PROVE  Untouched
  <2>1. SoundRun(run) /\ Covered(run.snap)
    BY <1>5 DEF RefInv
  <2>2. PICK ok \in BOOLEAN : CompareAndSwap(run, ok)
    BY <1>5 DEF OrphanLands
  <2>3. /\ orphans' \subseteq orphans
        /\ UNCHANGED <<objects, lfs, lost, vault, cas, local, intents, pc, at, outcome, edits,
                       faults>>
    BY <1>5 DEF OrphanLands, durable, memory
  <2>4. /\ remote' \in RefState /\ holder' \in BackupRun \cup {Others}
        /\ held' \in [Workspaces -> SUBSET RefState]
        /\ RefOK'
        /\ Grows /\ Sheltered
        /\ \A w \in Workspaces : SeesTheRef(w)
    BY <2>1, <2>2, <2>3, SwapEffect
  <2>5. RefInv'
    BY <2>3, <2>4, RefMoves
  <2>6. SharedTypes' /\ HistoryTypes' /\ DurableTypes' /\ MemoryTypes'
    BY <2>3, <2>4, TypeParts DEF SharedTypes, HistoryTypes, DurableTypes, MemoryTypes
  <2>7. \A w \in Workspaces : Bystander(w)
    BY <2>3, <2>4 DEF Bystander, SeesTheRef
  <2> QED
    BY <2>4, <2>5, <2>6, <2>7 DEF Untouched
<1>6. ASSUME NEW o \in Large, ObjectLost(o)
      PROVE  Untouched
  <2>1. UNCHANGED <<objects, remote, holder, orphans, durable, memory, held, edits>>
        /\ faults' \in Nat
    BY <1>6 DEF ObjectLost, Fault, TypeOK
  <2>2. Grows /\ Sheltered
    BY <1>6 DEF ObjectLost, Grows, Sheltered, TypeOK
  <2>3. RefInv'
    BY <2>1, <2>2, RefKept
  <2>4. SharedTypes' /\ HistoryTypes' /\ DurableTypes' /\ MemoryTypes'
    <3>1. [bytes |-> "Absent", known |-> FALSE] \in [bytes : Bytes, known : BOOLEAN]
      BY DEF Bytes
    <3>2. SharedTypes'
      BY <1>6, <3>1, TypeParts DEF ObjectLost, SharedTypes
    <3> QED
      BY <2>1, <3>2, TypeParts DEF HistoryTypes, DurableTypes, MemoryTypes, durable, memory
  <2> QED
    BY <2>1, <2>2, <2>3, <2>4 DEF Untouched, Bystander, memory
<1>7. CASE ForeignPush
  <2>1. PICK o \in Oids : /\ \/ objects[o] # NoObject /\ UNCHANGED objects
                             \/ \E tree \in Tree, stamp \in Stamps :
                                  LET parent == IF remote = RefMissing THEN NoCommit ELSE remote
                                      facts  == [parent |-> parent, tree |-> tree, stamp |-> stamp]
                                  IN /\ Identifies(o, facts)
                                     /\ objects' = [objects EXCEPT ![o] = facts]
                          /\ MoveRef(o, Others)
    BY <1>7 DEF ForeignPush
  <2>2. UNCHANGED <<lfs, lost, orphans, durable, memory, edits>> /\ faults' \in Nat
        /\ o \in RefState
    BY <1>7 DEF ForeignPush, Fault, TypeOK, RefState
  <2>3. CASE objects[o] # NoObject /\ UNCHANGED objects
    BY <2>1, <2>2, <2>3, MovedByOthers DEF Grows, Exists, TypeOK
  <2>4. ASSUME NEW facts \in CommitFacts, Identifies(o, facts),
               objects' = [objects EXCEPT ![o] = facts]
        PROVE  Untouched
    <3>1. Grows /\ objects' \in [Oids -> CommitFacts \cup {NoObject}]
      BY <2>4 DEF Grows, Exists, Identifies, TypeOK
    <3>2. Exists(o)'
      BY <2>4, BackupSentinels DEF Exists, TypeOK
    <3> QED
      BY <2>1, <2>2, <3>1, <3>2, MovedByOthers
  <2>5. ASSUME NEW tree \in Tree, NEW stamp \in Stamps
        PROVE  [parent |-> IF remote = RefMissing THEN NoCommit ELSE remote,
                tree |-> tree, stamp |-> stamp] \in CommitFacts
    BY DEF CommitFacts, TypeOK, RefState
  <2> QED
    BY <2>1, <2>3, <2>4, <2>5
<1>8. CASE RefDeleted
  <2>1. MoveRef(RefMissing, Others) /\ RefMissing \in RefState /\ faults' \in Nat
        /\ UNCHANGED <<objects, lfs, lost, orphans, durable, memory, edits>>
    BY <1>8 DEF RefDeleted, Fault, TypeOK, RefState
  <2> QED
    BY <2>1, MovedByOthers DEF Grows, TypeOK
<1> QED
  BY <1>1, <1>2, <1>3, <1>4, <1>5, <1>6, <1>7, <1>8 DEF Outside

----------------------------------------------------------------------------
(* Every step keeps the types, the ref and the commands *)

CommandStep(w) ==
  \/ TakeSnapshot(w)
  \/ ObserveToVerify(w)
  \/ BeginInit(w)
  \/ Progress(w)
  \/ ServerRefuses(w)
  \/ PushMisreports(w)
  \/ Abort(w)

LEMMA StepKinds == Next <=> (\E w \in Workspaces : CommandStep(w)) \/ Outside
BY DEF Next, CommandStep, Outside

LEMMA KeptStep ==
  ASSUME TypeOK, RefInv, NEW w \in Workspaces, CommandOK(w), CommandStep(w)
  PROVE  Kept(w)
BY KeptTakeSnapshot, KeptObserveToVerify, KeptBeginInit, KeptServerRefuses, KeptPushMisreports,
   KeptAbort, KeptObserveBase, KeptBuildIntent, KeptSaveRun, KeptReconcile, KeptEnsureCommit,
   KeptPlanUploads, KeptSpoolObject, KeptPutObject, KeptFinishUpload, KeptPassGate, KeptFailGate,
   KeptServerAnswers, KeptPushReports, KeptObserveRejection, KeptVerify, KeptPushRoot
   DEF CommandStep, Progress

LEMMA CommandsStep ==
  ASSUME TypeOK, RefInv, CommandsInv, Next
  PROVE  TypeOK' /\ RefInv' /\ CommandsInv' /\ Grows /\ Sheltered
<1>1. \A v \in Workspaces : CommandOK(v)
  BY DEF CommandsInv, CommandOK
<1>2. ASSUME NEW w \in Workspaces, CommandStep(w)
      PROVE  /\ TypeOK' /\ RefInv' /\ Grows /\ Sheltered
             /\ \A v \in Workspaces : CommandOK(v)'
  <2>1. Kept(w)
    BY <1>1, <1>2, KeptStep
  <2>2. TypeOK'
    BY <2>1 DEF Kept, TypeOK, SharedTypes, DurableTypes, MemoryTypes, HistoryTypes
  <2>3. Grows /\ Sheltered
    BY <2>1 DEF Kept
  <2>4. \A v \in Workspaces : CommandOK(v)'
    BY <1>1, <2>1, <2>3, BystanderKept DEF Kept
  <2> QED
    BY <2>1, <2>2, <2>3, <2>4 DEF Kept
<1>3. ASSUME Outside
      PROVE  /\ TypeOK' /\ RefInv' /\ Grows /\ Sheltered
             /\ \A v \in Workspaces : CommandOK(v)'
  <2>1. Untouched
    BY <1>3, KeptOutside
  <2>2. TypeOK'
    BY <2>1 DEF Untouched, TypeOK, SharedTypes, DurableTypes, MemoryTypes, HistoryTypes
  <2>3. Grows /\ Sheltered
    BY <2>1 DEF Untouched
  <2>4. \A v \in Workspaces : CommandOK(v)'
    BY <1>1, <2>1, <2>3, BystanderKept DEF Untouched
  <2> QED
    BY <2>1, <2>2, <2>3, <2>4 DEF Untouched
<1> QED
  BY <1>2, <1>3, StepKinds DEF CommandsInv, CommandOK

----------------------------------------------------------------------------
(* The endpoint *)

StoresWell == StoreInv /\ \A w \in Workspaces : UploadInv(w)

\* No upload is in the hands of the command after such a step.
NoUpload(w) == lfs' = lfs /\ pc'[w] \notin {"Uploading", "Spooled", "Sent"}

LEMMA OtherSteps ==
  ASSUME TypeOK, NEW w \in Workspaces, CommandStep(w)
  PROVE  NoUpload(w) \/ PlanUploads(w) \/ SpoolObject(w) \/ PutObject(w) \/ FinishUpload(w)
<1> USE DEF TypeOK, NoUpload, shared, Return, Goto
<1>1. CASE TakeSnapshot(w) \/ ObserveToVerify(w) \/ BeginInit(w) \/ ServerRefuses(w)
           \/ PushMisreports(w) \/ Abort(w)
  BY <1>1 DEF TakeSnapshot, ObserveToVerify, BeginInit, ServerRefuses, PushMisreports, Abort
<1>2. CASE ObserveBase(w) \/ BuildIntent(w) \/ SaveRun(w) \/ Reconcile(w) \/ EnsureCommit(w)
  BY <1>2 DEF ObserveBase, BuildIntent, SaveRun, Reconcile, EnsureCommit
<1>3. CASE PassGate(w) \/ FailGate(w) \/ ServerAnswers(w) \/ PushReports(w)
           \/ ObserveRejection(w) \/ Verify(w) \/ PushRoot(w)
  BY <1>3 DEF PassGate, FailGate, ServerAnswers, PushReports, ObserveRejection, Verify, PushRoot
<1> QED
  BY <1>1, <1>2, <1>3 DEF CommandStep, Progress

LEMMA SoleWorkspace ==
  ASSUME Trustworthy, ~ Hashes
  PROVE  Verifies /\ \A v, w \in Workspaces : v = w
BY DEF Trustworthy

\* The uploads of the one workspace decide, where the endpoint does not hash.
LEMMA UploadsOf ==
  ASSUME Trustworthy, NEW w \in Workspaces, ~ Hashes => UploadInv(w)'
  PROVE  \A v \in Workspaces : UploadInv(v)'
<1>1. CASE Hashes
  BY <1>1 DEF UploadInv
<1>2. CASE ~ Hashes
  BY <1>2, SoleWorkspace
<1> QED
  BY <1>1, <1>2

LEMMA EndpointNoUpload ==
  ASSUME Trustworthy, StoresWell, NEW w \in Workspaces, NoUpload(w)
  PROVE  StoresWell'
<1>1. StoreInv'
  BY DEF StoresWell, StoreInv, NoUpload
<1>2. UploadInv(w)'
  BY DEF UploadInv, NoUpload
<1> QED
  BY <1>1, <1>2, UploadsOf DEF StoresWell

LEMMA EndpointPlan ==
  ASSUME TypeOK, Trustworthy, StoresWell, NEW w \in Workspaces, PlanUploads(w)
  PROVE  StoresWell'
<1>1. lfs' = lfs /\ pc'[w] = "Uploading" /\ at'[w].todo = MissingFrom(at[w].run.snap)
  BY DEF PlanUploads, shared, Goto, TypeOK, Locals
<1>2. StoreInv'
  BY <1>1 DEF StoresWell, StoreInv
<1>3. UploadInv(w)'
  BY <1>1 DEF UploadInv, MissingFrom
<1> QED
  BY <1>2, <1>3, UploadsOf DEF StoresWell

LEMMA EndpointSpool ==
  ASSUME TypeOK, Trustworthy, StoresWell, NEW w \in Workspaces, SpoolObject(w)
  PROVE  StoresWell'
<1>1. CASE Return(w, "Error", RefMissing)
  BY <1>1, EndpointNoUpload DEF SpoolObject, NoUpload, shared, Return, TypeOK
<1>2. ASSUME NEW o \in at[w].todo, Goto(w, "Spooled"),
             at' = [at EXCEPT ![w].obj = o, ![w].sent = cas[w][o]]
      PROVE  StoresWell'
  <2>1. /\ lfs' = lfs /\ pc[w] = "Uploading" /\ pc'[w] = "Spooled"
        /\ at'[w].todo = at[w].todo /\ at'[w].obj = o
    BY <1>2 DEF SpoolObject, shared, Goto, TypeOK, Locals
  <2>2. StoreInv'
    BY <2>1 DEF StoresWell, StoreInv
  <2>3. UploadInv(w)'
    BY <1>2, <2>1 DEF StoresWell, UploadInv
  <2> QED
    BY <2>2, <2>3, UploadsOf DEF StoresWell
<1> QED
  BY <1>1, <1>2 DEF SpoolObject

LEMMA EndpointPut ==
  ASSUME TypeOK, CommandsInv, Trustworthy, StoresWell, NEW w \in Workspaces, PutObject(w)
  PROVE  StoresWell'
<1>1. CASE Return(w, "Error", RefMissing) /\ UNCHANGED lfs
  BY <1>1, EndpointNoUpload DEF NoUpload, Return, TypeOK
<1>2. CASE /\ ~ (Hashes /\ at[w].sent = "Damaged")
           /\ lfs' = [lfs EXCEPT ![at[w].obj] =
                        [bytes |-> at[w].sent, known |-> @.known \/ ~ Verifies]]
           /\ Goto(w, "Sent") /\ UNCHANGED <<at, outcome>>
  <2>1. /\ pc[w] = "Spooled" /\ pc'[w] = "Sent" /\ at'[w] = at[w]
        /\ at[w].obj \in Large /\ at[w].sent \in Bytes \ {"Absent"}
    BY <1>2 DEF PutObject, Goto, TypeOK, CommandsInv, CommandInv, Locals
  <2>2. PICK o \in Large : o = at[w].obj
    BY <2>1
  <2>3. /\ lfs'[o].bytes = at[w].sent /\ lfs'[o].known = (lfs[o].known \/ ~ Verifies)
        /\ \A p \in Large \ {o} : lfs'[p] = lfs[p]
    BY <1>2, <2>2 DEF TypeOK
  <2>4. CASE Hashes
    <3>1. lfs'[o].bytes = "Genuine"
      BY <1>2, <2>1, <2>3, <2>4 DEF Bytes
    <3>2. StoreInv'
      BY <2>3, <3>1 DEF StoresWell, StoreInv
    <3> QED
      BY <2>4, <3>2, UploadsOf DEF StoresWell
  <2>5. CASE ~ Hashes
    <3>1. Verifies /\ o \in at[w].todo /\ \A p \in at[w].todo : ~ lfs[p].known
      BY <2>1, <2>2, <2>5, SoleWorkspace DEF StoresWell, UploadInv
    <3>2. ~ lfs'[o].known /\ \A p \in at[w].todo : ~ lfs'[p].known
      <4>1. at[w].todo \subseteq Large
        BY DEF TypeOK, Locals
      <4> QED
        BY <2>3, <3>1, <4>1
    <3>3. StoreInv'
      BY <2>3, <2>5, <3>2 DEF StoresWell, StoreInv
    <3>4. UploadInv(w)'
      BY <2>1, <2>2, <2>3, <3>1, <3>2 DEF UploadInv
    <3> QED
      BY <3>3, <3>4, UploadsOf DEF StoresWell
  <2> QED
    BY <2>4, <2>5
<1> QED
  BY <1>1, <1>2 DEF PutObject

LEMMA EndpointFinish ==
  ASSUME TypeOK, CommandsInv, Trustworthy, StoresWell, NEW w \in Workspaces, FinishUpload(w)
  PROVE  StoresWell'
<1>1. CASE Return(w, "Error", RefMissing) /\ UNCHANGED lfs
  BY <1>1, EndpointNoUpload DEF NoUpload, Return, TypeOK
<1>2. CASE /\ at[w].sent # "Damaged"
           /\ ~ (Verifies /\ lfs[at[w].obj].bytes = "Absent")
           /\ lfs' = [lfs EXCEPT ![at[w].obj].known = @ \/ Verifies]
           /\ at' = [at EXCEPT ![w].todo = @ \ {at[w].obj}]
           /\ Goto(w, "Uploading")
  <2>1. /\ pc[w] = "Sent" /\ pc'[w] = "Uploading"
        /\ at'[w].todo = at[w].todo \ {at[w].obj}
        /\ at[w].obj \in Large /\ at[w].sent = "Genuine"
    BY <1>2 DEF FinishUpload, Goto, TypeOK, CommandsInv, CommandInv, Locals, Bytes
  <2>2. PICK o \in Large : o = at[w].obj
    BY <2>1
  <2>3. /\ lfs'[o].bytes = lfs[o].bytes /\ lfs'[o].known = (lfs[o].known \/ Verifies)
        /\ lfs[o].bytes \in Bytes
        /\ \A p \in Large \ {o} : lfs'[p] = lfs[p]
    BY <1>2, <2>2 DEF TypeOK
  <2>4. CASE Hashes
    <3>1. Verifies => lfs[o].bytes = "Genuine"
      BY <1>2, <2>2, <2>3, <2>4 DEF StoresWell, StoreInv, Bytes
    <3>2. StoreInv'
      BY <2>3, <3>1 DEF StoresWell, StoreInv
    <3> QED
      BY <2>4, <3>2, UploadsOf DEF StoresWell
  <2>5. CASE ~ Hashes
    <3>1. Verifies /\ lfs[o].bytes \in {"Genuine", "Absent"} /\ \A p \in at[w].todo : ~ lfs[p].known
      BY <2>1, <2>2, <2>5, SoleWorkspace DEF StoresWell, UploadInv
    <3>2. lfs'[o].bytes = "Genuine"
      BY <1>2, <2>2, <2>3, <3>1
    <3>3. StoreInv'
      BY <2>3, <2>5, <3>2 DEF StoresWell, StoreInv
    <3>4. at[w].todo \subseteq Large
      BY DEF TypeOK, Locals
    <3>5. UploadInv(w)'
      BY <2>1, <2>2, <2>3, <3>1, <3>4 DEF UploadInv
    <3> QED
      BY <3>3, <3>5, UploadsOf DEF StoresWell
  <2> QED
    BY <2>4, <2>5
<1> QED
  BY <1>1, <1>2 DEF FinishUpload

LEMMA EndpointOutside ==
  ASSUME TypeOK, Trustworthy, StoresWell, Outside
  PROVE  StoresWell'
<1>1. UNCHANGED <<pc, at>>
  BY DEF Outside, EditSource, BlobSpoils, CloneReplaced, Fetch, OrphanLands, ObjectLost, ForeignPush,
     RefDeleted, memory
<1>2. \A o \in Large : lfs'[o] = lfs[o] \/ lfs'[o] = [bytes |-> "Absent", known |-> FALSE]
  BY DEF Outside, EditSource, BlobSpoils, CloneReplaced, Fetch, OrphanLands, ObjectLost, ForeignPush,
     RefDeleted, shared, TypeOK
<1>3. StoreInv'
  BY <1>2 DEF StoresWell, StoreInv
<1>4. ASSUME NEW w \in Workspaces, ~ Hashes
      PROVE  UploadInv(w)'
  <2>1. pc'[w] = pc[w] /\ at'[w] = at[w]
    BY <1>1
  <2>2. at[w].todo \subseteq Large
    BY DEF TypeOK, Locals
  <2>3. UploadInv(w)
    BY DEF StoresWell
  <2> QED
    BY <1>2, <1>4, <2>1, <2>2, <2>3 DEF UploadInv
<1>5. \A w \in Workspaces : UploadInv(w)'
  BY <1>4, UploadsOf
<1> QED
  BY <1>3, <1>5 DEF StoresWell

LEMMA EndpointStep ==
  ASSUME TypeOK, CommandsInv, Trustworthy, StoresWell, Next
  PROVE  StoresWell'
BY StepKinds, OtherSteps, EndpointNoUpload, EndpointPlan, EndpointSpool, EndpointPut, EndpointFinish,
   EndpointOutside

----------------------------------------------------------------------------
(* Results *)

LEMMA InitInv == Init => IInv
<1> SUFFICES ASSUME Init PROVE IInv
  OBVIOUS
<1>1. PICK root \in Oids, stamp \in Stamps :
        /\ remote = root
        /\ objects = [o \in Oids |->
             IF o = root THEN [parent |-> NoCommit, tree |-> NotBackup, stamp |-> stamp]
             ELSE NoObject]
        /\ local = [w \in Workspaces |-> {root}]
  BY DEF Init
<1>2. [parent |-> NoCommit, tree |-> NotBackup, stamp |-> stamp] \in CommitFacts
  <2>1. NotBackup \in Tree
    BY DEF Tree
  <2> QED
    BY <2>1 DEF CommitFacts
<1>3. /\ objects \in [Oids -> CommitFacts \cup {NoObject}] /\ remote \in RefState
      /\ Exists(remote)
  BY <1>1, <1>2, BackupSentinels DEF RefState, Exists
<1>4. holder = Others /\ lost = {} /\ orphans = {} /\ intents = {}
      /\ lfs = [o \in Large |-> [bytes |-> "Absent", known |-> FALSE]]
      /\ pc = [w \in Workspaces |-> "Idle"]
      /\ at = [w \in Workspaces |-> NoLocals]
      /\ outcome = [w \in Workspaces |-> NoReport]
  BY DEF Init
<1>5. TypeOK
  <2>1. [bytes |-> "Absent", known |-> FALSE] \in [bytes : Bytes, known : BOOLEAN]
    BY DEF Bytes
  <2>2. SharedTypes
    BY <1>3, <1>4, <2>1 DEF SharedTypes
  <2>3. DurableTypes
    BY <1>1 DEF Init, DurableTypes, Bytes
  <2>4. MemoryTypes
    BY <1>4, NoLocalsType DEF MemoryTypes, Phases
  <2>5. HistoryTypes
    BY <1>3 DEF Init, HistoryTypes
  <2> QED
    BY <2>2, <2>3, <2>4, <2>5, TypeParts
<1>6. RefInv
  BY <1>3, <1>4 DEF RefInv
<1>7. CommandsInv
  BY <1>4 DEF CommandsInv, CommandInv, HeldInv, ReportInv, Executing, Backing, Successes, NoReport
<1>8. EndpointInv
  BY <1>4 DEF EndpointInv, StoreInv, UploadInv
<1> QED
  BY <1>5, <1>6, <1>7, <1>8 DEF IInv

LEMMA StepInv ==
  ASSUME IInv, [Next]_vars
  PROVE  IInv' /\ Grows /\ Sheltered
<1>1. CASE Next
  <2>1. TypeOK' /\ RefInv' /\ CommandsInv' /\ Grows /\ Sheltered
    BY <1>1, CommandsStep DEF IInv
  <2>2. ASSUME Trustworthy PROVE StoresWell'
    BY <1>1, <2>2, EndpointStep DEF IInv, EndpointInv, StoresWell
  <2>3. EndpointInv'
    BY <2>2 DEF EndpointInv, StoresWell, Trustworthy
  <2> QED
    BY <2>1, <2>3 DEF IInv
<1>2. CASE UNCHANGED vars
  <2> USE <1>2 DEF vars, shared, durable, memory
  <2>1. TypeOK'
    BY DEF IInv, TypeOK
  <2>2. RefInv'
    BY DEF IInv, RefInv, Exists, SoundRun, Covered
  <2>3. CommandsInv'
    BY DEF IInv, CommandsInv, CommandInv, HeldInv, ReportInv, Exists, SoundRun, Covered
  <2>4. EndpointInv'
    BY DEF IInv, EndpointInv, StoreInv, UploadInv
  <2> QED
    BY <2>1, <2>2, <2>3, <2>4 DEF IInv, Grows, Sheltered
<1> QED
  BY <1>1, <1>2

\* The parts of the inductive invariant hold in every reachable state, whatever the
\* endpoint does with what it is sent.
THEOREM Invariant == Spec => []IInv
<1>1. IInv /\ [Next]_vars => IInv'
  BY StepInv
<1> QED
  BY InitInv, <1>1, PTL DEF Spec

\* The variables keep their types (Backup.TypeOK).
THEOREM TypesAreKept == Spec => []TypeOK
<1>1. IInv => TypeOK
  BY DEF IInv
<1> QED
  BY <1>1, Invariant, PTL

\* While the ref is where a backup put it, it names a complete backup, and the endpoint
\* answered for every large file of it: no push, however late, moved the ref for an
\* attempt that had not passed the gate (execute_backup, require_lfs_complete).
BackupPassedTheGate ==
  holder # Others => /\ objects[remote].tree # NotBackup
                     /\ Covered(objects[remote].tree)

LEMMA HolderPassedTheGate ==
  ASSUME IInv
  PROVE  BackupPassedTheGate
<1> SUFFICES ASSUME holder # Others
             PROVE  objects[remote].tree # NotBackup /\ Covered(objects[remote].tree)
  BY DEF BackupPassedTheGate
<1>1. /\ holder \in BackupRun /\ objects[remote].tree = holder.snap
      /\ Covered(holder.snap)
  BY DEF IInv, RefInv, SoundRun
<1>2. objects[remote].tree \in SUBSET Contents
  BY <1>1 DEF BackupRun
<1>3. objects[remote].tree # NotBackup
  BY <1>2, BackupConstants DEF NotBackup
<1> QED
  BY <1>1, <1>3 DEF Covered

\* The gate holds whatever the endpoint is like.
THEOREM GateIsPassed == Spec => []BackupPassedTheGate
<1>1. IInv => BackupPassedTheGate
  BY HolderPassedTheGate
<1> QED
  BY <1>1, Invariant, PTL

LEMMA CoveredIsRestorable ==
  ASSUME IInv, Trustworthy, NEW tree, Covered(tree)
  PROVE  Restorable(tree)
BY DEF IInv, EndpointInv, StoreInv, Covered, Restorable, Required

\* With an endpoint that can be trusted, a backup that holds the ref can be restored
\* (Backup.BackupIsRestorable).
THEOREM BackupsCanBeRestored == Spec => [](Trustworthy => BackupIsRestorable)
<1>1. ASSUME IInv, Trustworthy
      PROVE  BackupIsRestorable
  <2>1. BackupPassedTheGate
    BY <1>1, HolderPassedTheGate
  <2> QED
    BY <1>1, <2>1, CoveredIsRestorable DEF BackupPassedTheGate, BackupIsRestorable
<1>2. IInv => (Trustworthy => BackupIsRestorable)
  BY <1>1
<1> QED
  BY <1>2, Invariant, PTL

\* A report of success names a commit that was on the ref while the command ran and
\* holds the snapshot it took, and what it calls verified can be restored
\* (Backup.ReportsAreTrue).
THEOREM ReportsTellTheTruth == Spec => [](Trustworthy => ReportsAreTrue)
<1>1. ASSUME IInv, Trustworthy
      PROVE  ReportsAreTrue
  <2> SUFFICES ASSUME NEW w \in Workspaces
               PROVE  /\ outcome[w].kind \in {"BackedUp", "AlreadyBackedUp"} =>
                           /\ outcome[w].commit \in held[w]
                           /\ objects[outcome[w].commit].tree = outcome[w].snap
                      /\ outcome[w].kind = "Verified" =>
                           Restorable(objects[outcome[w].commit].tree)
    BY DEF ReportsAreTrue
  <2>1. ReportInv(w)
    BY <1>1 DEF IInv, CommandsInv
  <2> QED
    BY <1>1, <2>1, CoveredIsRestorable DEF ReportInv, Successes
<1>2. IInv => (Trustworthy => ReportsAreTrue)
  BY <1>1
<1> QED
  BY <1>2, Invariant, PTL

\* What a report of success says of the ref and the source needs no such endpoint.
SuccessesAreTrue ==
  \A w \in Workspaces :
    outcome[w].kind \in Successes =>
      /\ outcome[w].commit \in held[w]
      /\ objects[outcome[w].commit].tree = outcome[w].snap

\* A command reports a backup only where the ref did name it, and it is of the snapshot
\* the command took (run_backup, execute_backup), however the endpoint stores its bytes.
THEOREM SuccessesTellTheTruth == Spec => []SuccessesAreTrue
<1>1. IInv => SuccessesAreTrue
  BY DEF IInv, CommandsInv, ReportInv, SuccessesAreTrue
<1> QED
  BY <1>1, Invariant, PTL

\* A backup that takes the ref builds on the very commit it replaces: what others pushed
\* is never dropped from its history, not even by a push that was given up and lands
\* late (GitRemoteAdapter::compare_and_swap).
NothingIsOverwritten ==
  [][remote' # remote /\ holder' # Others => objects'[remote'].parent = remote]_vars

\* A run whose push moves the ref was built on the value the ref had.
LEMMA SwapBuildsOn ==
  ASSUME NEW run, SoundRun(run), NEW ok, CompareAndSwap(run, ok), UNCHANGED objects,
         remote' # remote
  PROVE  objects'[remote'].parent = remote
BY DEF CompareAndSwap, MoveRef, SoundRun

LEMMA OnlyIntentsTakeTheRef ==
  ASSUME IInv, Next, remote' # remote, holder' # Others
  PROVE  \E run : SoundRun(run) /\ UNCHANGED objects /\ \E ok \in BOOLEAN : CompareAndSwap(run, ok)
<1>1. ASSUME NEW w \in Workspaces, ServerAnswers(w)
      PROVE  SoundRun(at[w].run) /\ UNCHANGED objects
             /\ \E ok \in BOOLEAN : CompareAndSwap(at[w].run, ok)
  BY <1>1 DEF ServerAnswers, IInv, CommandsInv, CommandInv, Executing
<1>2. ASSUME NEW run \in orphans, OrphanLands(run)
      PROVE  SoundRun(run) /\ UNCHANGED objects /\ \E ok \in BOOLEAN : CompareAndSwap(run, ok)
  BY <1>2 DEF OrphanLands, IInv, RefInv
<1>3. ASSUME NEW w \in Workspaces, CommandStep(w), ~ ServerAnswers(w)
      PROVE  FALSE
  <2>1. ~ PushRoot(w)
    BY DEF PushRoot, MoveRef
  <2>2. remote' = remote
    BY <1>3, <2>1 DEF CommandStep, Progress, TakeSnapshot, ObserveToVerify, BeginInit, ServerRefuses,
       PushMisreports, Abort, ObserveBase, BuildIntent, SaveRun, Reconcile, EnsureCommit, PlanUploads,
       SpoolObject, PutObject, FinishUpload, PassGate, FailGate, PushReports, ObserveRejection,
       Verify, shared
  <2> QED
    BY <2>2
<1>4. ASSUME Outside, ~ \E run \in orphans : OrphanLands(run)
      PROVE  FALSE
  <2>1. ~ ForeignPush /\ ~ RefDeleted
    BY DEF ForeignPush, RefDeleted, MoveRef
  <2>2. remote' = remote
    BY <1>4, <2>1 DEF Outside, EditSource, BlobSpoils, CloneReplaced, Fetch, ObjectLost, shared
  <2> QED
    BY <2>2
<1> QED
  BY <1>1, <1>2, <1>3, <1>4, StepKinds

\* A backup extends the history it finds.
THEOREM HistoryIsKept == Spec => NothingIsOverwritten
<1>1. ASSUME IInv, [Next]_vars, remote' # remote, holder' # Others
      PROVE  objects'[remote'].parent = remote
  <2>1. Next
    BY <1>1 DEF vars, shared
  <2> QED
    BY <1>1, <2>1, OnlyIntentsTakeTheRef, SwapBuildsOn
<1>2. IInv /\ [Next]_vars =>
        [remote' # remote /\ holder' # Others => objects'[remote'].parent = remote]_vars
  BY <1>1
<1> QED
  BY <1>2, Invariant, PTL DEF Spec, NothingIsOverwritten
=============================================================================
