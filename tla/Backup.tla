------------------------------- MODULE Backup -------------------------------
(***************************************************************************)
(* The private backup of Mineral Publisher: a snapshot of the source is    *)
(* frozen as a Git tree whose large files are Git LFS pointers, the LFS    *)
(* objects are uploaded, and only then the backup ref moves.               *)
(*                                                                         *)
(* Each workspace runs one backup command at a time.  Outside the program  *)
(* people edit the source, push to the ref, delete it, replace the clone,  *)
(* and blobs of the content store and objects of the endpoint get lost or  *)
(* damaged; a push the client gave up on may still be carried out.         *)
(*                                                                         *)
(* Simplifications:                                                        *)
(*   - a file is one content: a snapshot is a set of contents, and so is   *)
(*     the tree of a backup commit (any other tree is NotBackup);          *)
(*   - whether a file is large is a property of its content;               *)
(*   - the pointer, manifest and attribute blobs a delivery derives are    *)
(*     written and read by the same attempt and left out;                  *)
(*   - damage keeps the size of a blob: any other damage is refused where  *)
(*     sizes are compared, before anything is sent;                        *)
(*   - commits are as in Publication, and so are pushes; an attempt that   *)
(*     returns an error and one that never returns are both Abort.         *)
(***************************************************************************)
EXTENDS Naturals

CONSTANTS
  Workspaces,   \* installations that back up to the same ref and endpoint
  Contents,     \* contents of files
  Large,        \* the contents the representation policy stores as LFS objects
  Oids,         \* commit object identities
  Stamps,       \* author, message and time of a commit
  ReusesBySize, \* BOOLEAN: the source trusts a stored blob of the right size
  Hashes,       \* BOOLEAN: the endpoint compares an upload with its object id
  Verifies,     \* BOOLEAN: the endpoint asks for a verify request
  MaxEdits,     \* bound: changes of a source
  MaxFaults     \* bound: aborts, refusals and outside interference

CONSTANTS NoCommit, NoObject, NoIntent, NoContent, RefMissing, Others

ASSUME BackupConstants ==
  /\ Large \subseteq Contents
  /\ {ReusesBySize, Hashes, Verifies} \subseteq BOOLEAN
  /\ MaxEdits \in Nat
  /\ MaxFaults \in Nat
  /\ NoContent \notin Contents
  /\ {NoCommit, RefMissing} \cap Oids = {}

\* The tree of a commit that is no backup: it holds no manifest.
NotBackup == {NoContent}

Tree        == (SUBSET Contents) \cup {NotBackup}
CommitFacts == [parent : Oids \cup {NoCommit}, tree : Tree, stamp : Stamps]
RefState    == Oids \cup {RefMissing}
Bytes       == {"Absent", "Genuine", "Damaged"}
BackupRun   == [ws : Workspaces, snap : SUBSET Contents, base : Oids, desired : Oids,
                spec : CommitFacts]

ASSUME BackupSentinels ==
  /\ NoObject \notin CommitFacts
  /\ NoIntent \notin BackupRun
  /\ Others \notin BackupRun

Phases ==
  {"Idle", "Snapped", "Based", "Built",                       \* run_backup
   "Loaded", "Matched", "Ensured", "Confirming",              \* execute_backup
   "Uploading", "Spooled", "Sent", "Pushing", "Rejected",
   "Verifying", "Rooted"}                                     \* verify and init

\* BackupExecutionOutcome, "Error" for an attempt that returned an error or never
\* returned, and what the verify and init commands report.
Outcomes ==
  {"None", "Error", "BackedUp", "AlreadyBackedUp", "RemoteChanged", "Verified",
   "Created", "AlreadyPresent"}

VARIABLES
  \* Shared with the outside.
  objects,   \* every commit that exists anywhere, by identity
  remote,    \* the backup ref
  holder,    \* history: the intent that last moved the ref, or Others
  lfs,       \* the endpoint: the bytes it keeps per object, and whether it
             \* answers that it has the object
  lost,      \* history: objects the endpoint lost since it was last asked for all
  orphans,   \* the intents of pushes whose client gave up and the server did not
  \* Durable, per workspace.
  vault,     \* the source
  cas,       \* the content store
  local,     \* commits held by the backup repository
  intents,   \* BackupRunStore, of all workspaces
  \* Lost when the process stops.
  pc, at,
  outcome,   \* what the last command reported, and of which commit
  \* History and bounds.
  held,      \* the values the ref had while the last backup ran
  edits, faults

shared  == <<objects, remote, holder, lfs, lost, orphans>>
durable == <<vault, cas, local, intents>>
memory  == <<pc, at, outcome>>
vars    == <<shared, durable, memory, held, edits, faults>>

Locals ==
  [snap : SUBSET Contents,              \* the snapshot of this attempt
   seen : RefState,                     \* the ref value last read
   run  : BackupRun \cup {NoIntent},    \* the intent built, then executed
   todo : SUBSET Large,                 \* uploads the plan still has
   obj  : Large \cup {NoContent},       \* the object being uploaded
   sent : Bytes,                        \* what its spool file holds
   ack  : {"None", "Waiting", "Applied", "Refused"}]

NoLocals ==
  [snap |-> {}, seen |-> RefMissing, run |-> NoIntent, todo |-> {}, obj |-> NoContent,
   sent |-> "Absent", ack |-> "None"]

Report == [kind : Outcomes, commit : RefState, snap : SUBSET Contents]

----------------------------------------------------------------------------
(* Helpers *)

\* BackupDeliveryProjection::required_lfs_objects.
Required(files) == files \cap Large

\* LfsUploadPlan::missing, from one batch answer.
MissingFrom(files) == {o \in Required(files) : ~ lfs[o].known}

\* An identity is the hash of the facts; which unused one stands for new facts
\* makes no difference, so it is a fixed one.
Identifies(o, facts) ==
  /\ objects[o] \in {facts, NoObject}
  /\ o = IF \E p \in Oids : objects[p] = facts
         THEN CHOOSE p \in Oids : objects[p] = facts
         ELSE CHOOSE p \in Oids : objects[p] = NoObject

\* GitBackupRepository::create_commit.
CreateCommit(w, o, facts) ==
  /\ Identifies(o, facts)
  /\ objects' = [objects EXCEPT ![o] = facts]
  /\ local' = [local EXCEPT ![w] = @ \cup {o}]

\* GitBackupRepository::materialize_backup reads and hashes every blob that is
\* stored in Git, and needs the base commit.
Materializable(w, base, files) ==
  /\ base \in local[w]
  /\ \A c \in files \ Large : cas[w][c] = "Genuine"

Goto(w, phase) == pc' = [pc EXCEPT ![w] = phase]

NoReport == [kind |-> "None", commit |-> RefMissing, snap |-> {}]

\* The command returns; its locals go out of scope.
Return(w, kind, commit) ==
  /\ pc' = [pc EXCEPT ![w] = "Idle"]
  /\ at' = [at EXCEPT ![w] = NoLocals]
  /\ outcome' = [outcome EXCEPT ![w] =
                   [kind |-> kind, commit |-> commit,
                    snap |-> IF kind = "Error" THEN {} ELSE at[w].snap]]

\* The ref takes the value o.
MoveRef(o, by) ==
  /\ remote' = o
  /\ holder' = by
  /\ held' = [w \in Workspaces |-> IF pc[w] = "Idle" THEN held[w] ELSE held[w] \cup {o}]

Fault == faults < MaxFaults /\ faults' = faults + 1

----------------------------------------------------------------------------
(* run_backup: everything before the intent is durable *)

\* Read the source into the content store.  A stored blob that is damaged is an
\* error where the source hashes it again, and passes where only its size counts.
TakeSnapshot(w) ==
  /\ pc[w] = "Idle"
  /\ LET damaged == {c \in vault[w] : cas[w][c] = "Damaged"}
         absent  == {c \in vault[w] : cas[w][c] = "Absent"}
     IN \/ /\ damaged = {} \/ ReusesBySize
           /\ cas' = [cas EXCEPT ![w] =
                        [c \in Contents |-> IF c \in absent THEN "Genuine" ELSE @[c]]]
           /\ at' = [at EXCEPT ![w].snap = vault[w]]
           /\ outcome' = [outcome EXCEPT ![w] = NoReport]
           /\ Goto(w, "Snapped")
        \/ /\ damaged # {}
           /\ \E stored \in SUBSET absent :
                cas' = [cas EXCEPT ![w] =
                          [c \in Contents |-> IF c \in stored THEN "Genuine" ELSE @[c]]]
           /\ Return(w, "Error", RefMissing)
  /\ held' = [held EXCEPT ![w] = {remote}]
  /\ UNCHANGED <<shared, vault, local, intents, edits, faults>>

\* The base is observed, never chosen; a missing ref is an error.
ObserveBase(w) ==
  /\ pc[w] = "Snapped"
  /\ \/ /\ remote # RefMissing
        /\ at' = [at EXCEPT ![w].seen = remote]
        /\ Goto(w, "Based")
        /\ UNCHANGED outcome
     \/ /\ remote = RefMissing
        /\ Return(w, "Error", RefMissing)
  /\ UNCHANGED <<shared, durable, held, edits, faults>>

\* Materialize the tree on the base: the base's own tree means that there is
\* nothing to do, any other becomes a commit and an intent.
BuildIntent(w) ==
  /\ pc[w] = "Based"
  /\ LET base  == at[w].seen
         files == at[w].snap
     IN \/ /\ ~ Materializable(w, base, files)
           /\ Return(w, "Error", RefMissing)
           /\ UNCHANGED <<objects, local>>
        \/ /\ Materializable(w, base, files)
           /\ objects[base].tree = files
           /\ Return(w, "AlreadyBackedUp", base)
           /\ UNCHANGED <<objects, local>>
        \/ /\ Materializable(w, base, files)
           /\ objects[base].tree # files
           /\ \E o \in Oids, stamp \in Stamps :
                LET spec == [parent |-> base, tree |-> files, stamp |-> stamp]
                IN /\ CreateCommit(w, o, spec)
                   /\ at' = [at EXCEPT ![w].run =
                               [ws |-> w, snap |-> files, base |-> base, desired |-> o,
                                spec |-> spec]]
           /\ Goto(w, "Built")
           /\ UNCHANGED outcome
  /\ UNCHANGED <<remote, holder, lfs, lost, orphans, vault, cas, intents, held, edits,
                 faults>>

\* SqliteBackupRunStore::save, and the read that begins the execution.
SaveRun(w) ==
  /\ pc[w] = "Built"
  /\ intents' = intents \cup {at[w].run}
  /\ Goto(w, "Loaded")
  /\ UNCHANGED <<shared, vault, cas, local, at, outcome, held, edits, faults>>

----------------------------------------------------------------------------
(* execute_backup *)

\* Compare the ref with the intent before anything with side effects.
Reconcile(w) ==
  /\ pc[w] = "Loaded"
  /\ LET run == at[w].run
     IN \/ remote = run.desired /\ Goto(w, "Confirming") /\ UNCHANGED <<at, outcome>>
        \/ /\ remote # run.desired /\ remote = run.base
           /\ Goto(w, "Matched")
           /\ UNCHANGED <<at, outcome>>
        \/ /\ remote \notin {run.desired, run.base}
           /\ Return(w, "RemoteChanged", run.base)
  /\ UNCHANGED <<shared, durable, held, edits, faults>>

\* ensure_commit: held with the frozen parent and tree, or rebuilt as frozen.
EnsureCommit(w) ==
  /\ pc[w] = "Matched"
  /\ LET run       == at[w].run
         trusted   == /\ run.desired \in local[w]
                      /\ objects[run.desired].parent = run.base
                      /\ objects[run.desired].tree = run.spec.tree
         rebuilt   == /\ run.desired \notin local[w]
                      /\ Materializable(w, run.base, run.snap)
                      /\ run.snap = run.spec.tree
                      /\ objects[run.desired] = run.spec
     IN \/ /\ trusted \/ rebuilt
           /\ local' = [local EXCEPT ![w] = @ \cup {run.desired}]
           /\ Goto(w, "Ensured")
           /\ UNCHANGED <<at, outcome>>
        \/ /\ ~ (trusted \/ rebuilt)
           /\ Return(w, "Error", RefMissing)
           /\ UNCHANGED local
  /\ UNCHANGED <<shared, vault, cas, intents, held, edits, faults>>

\* Mutant: every file is uploaded, those stored in Git too.
PlanUploadsOfAllFiles(w) ==
  /\ pc[w] = "Ensured"
  /\ at' = [at EXCEPT ![w].todo = at[w].run.snap]
  /\ Goto(w, "Uploading")
  /\ UNCHANGED <<shared, durable, outcome, held, edits, faults>>

\* LfsHttpRemote::prepare_upload: one batch request for all required objects.
PlanUploads(w) ==
  /\ pc[w] = "Ensured"
  /\ at' = [at EXCEPT ![w].todo = MissingFrom(at[w].run.snap)]
  /\ Goto(w, "Uploading")
  /\ UNCHANGED <<shared, durable, outcome, held, edits, faults>>

\* Open the next missing object's blob and copy it into a spool file.
SpoolObject(w) ==
  /\ pc[w] = "Uploading"
  /\ \E o \in at[w].todo :
       \/ /\ cas[w][o] = "Absent"
          /\ Return(w, "Error", RefMissing)
       \/ /\ cas[w][o] # "Absent"
          /\ at' = [at EXCEPT ![w].obj = o, ![w].sent = cas[w][o]]
          /\ Goto(w, "Spooled")
          /\ UNCHANGED outcome
  /\ UNCHANGED <<shared, durable, held, edits, faults>>

\* The PUT request.  The digest of the spool file is known and not looked at yet:
\* an endpoint that hashes refuses wrong bytes, another one keeps them.
PutObject(w) ==
  /\ pc[w] = "Spooled"
  /\ \/ /\ Hashes /\ at[w].sent = "Damaged"
        /\ Return(w, "Error", RefMissing)
        /\ UNCHANGED lfs
     \/ /\ ~ (Hashes /\ at[w].sent = "Damaged")
        /\ lfs' = [lfs EXCEPT ![at[w].obj] =
                     [bytes |-> at[w].sent, known |-> @.known \/ ~ Verifies]]
        /\ Goto(w, "Sent")
        /\ UNCHANGED <<at, outcome>>
  /\ UNCHANGED <<objects, remote, holder, lost, orphans, durable, held, edits, faults>>

\* Mutant: the verify request the endpoint asked for is not made.
FinishUploadUnverified(w) ==
  /\ pc[w] = "Sent"
  /\ \/ /\ at[w].sent = "Damaged"
        /\ Return(w, "Error", RefMissing)
     \/ /\ at[w].sent # "Damaged"
        /\ at' = [at EXCEPT ![w].todo = @ \ {at[w].obj}]
        /\ Goto(w, "Uploading")
        /\ UNCHANGED outcome
  /\ UNCHANGED <<shared, durable, held, edits, faults>>

\* Compare the digest of what was sent, then make the verify request if the
\* endpoint asked for one; it registers the object if it still has the bytes.
FinishUpload(w) ==
  /\ pc[w] = "Sent"
  /\ LET o      == at[w].obj
         failed == \/ at[w].sent = "Damaged"
                   \/ Verifies /\ lfs[o].bytes = "Absent"
     IN \/ /\ failed
           /\ Return(w, "Error", RefMissing)
           /\ UNCHANGED lfs
        \/ /\ ~ failed
           /\ lfs' = [lfs EXCEPT ![o].known = @ \/ Verifies]
           /\ at' = [at EXCEPT ![w].todo = @ \ {o}]
           /\ Goto(w, "Uploading")
           /\ UNCHANGED outcome
  /\ UNCHANGED <<objects, remote, holder, lost, orphans, durable, held, edits, faults>>

\* Mutant: the endpoint is not asked again once everything was uploaded.
PassGateUnasked(w) ==
  /\ pc[w] \in {"Uploading", "Confirming"} /\ at[w].todo = {}
  /\ lost' = lost \ Required(at[w].run.snap)
  /\ \/ /\ pc[w] = "Uploading"
        /\ at' = [at EXCEPT ![w].ack = "Waiting"]
        /\ Goto(w, "Pushing")
        /\ UNCHANGED outcome
     \/ /\ pc[w] = "Confirming"
        /\ Return(w, "AlreadyBackedUp", at[w].run.desired)
  /\ UNCHANGED <<objects, remote, holder, lfs, orphans, durable, held, edits, faults>>

\* require_lfs_complete: ask again for all required objects.  Then either the
\* attempt is over, the ref being there already, or the push is sent.
PassGate(w) ==
  /\ pc[w] \in {"Uploading", "Confirming"} /\ at[w].todo = {}
  /\ MissingFrom(at[w].run.snap) = {}
  /\ lost' = lost \ Required(at[w].run.snap)
  /\ \/ /\ pc[w] = "Uploading"
        /\ at' = [at EXCEPT ![w].ack = "Waiting"]
        /\ Goto(w, "Pushing")
        /\ UNCHANGED outcome
     \/ /\ pc[w] = "Confirming"
        /\ Return(w, "AlreadyBackedUp", at[w].run.desired)
  /\ UNCHANGED <<objects, remote, holder, lfs, orphans, durable, held, edits, faults>>

FailGate(w) ==
  /\ pc[w] \in {"Uploading", "Confirming"} /\ at[w].todo = {}
  /\ MissingFrom(at[w].run.snap) # {}
  /\ Return(w, "Error", RefMissing)
  /\ UNCHANGED <<shared, durable, held, edits, faults>>

\* What the server does with the push of an intent; TRUE for ok if it accepts it.
CompareAndSwap(run, ok) ==
  /\ ok = (remote \in {run.base, run.desired})
  /\ IF remote = run.base
     THEN MoveRef(run.desired, run)
     ELSE UNCHANGED <<remote, holder, held>>

ServerAnswers(w) ==
  /\ pc[w] = "Pushing" /\ at[w].ack = "Waiting"
  /\ \E ok \in BOOLEAN :
       /\ CompareAndSwap(at[w].run, ok)
       /\ at' = [at EXCEPT ![w].ack = IF ok THEN "Applied" ELSE "Refused"]
  /\ UNCHANGED <<objects, lfs, lost, orphans, durable, pc, outcome, edits, faults>>

\* The server declines without looking at the lease (a hook, a protected ref).
ServerRefuses(w) ==
  /\ Fault
  /\ pc[w] = "Pushing" /\ at[w].ack = "Waiting"
  /\ at' = [at EXCEPT ![w].ack = "Refused"]
  /\ UNCHANGED <<shared, durable, pc, outcome, held, edits>>

\* Mutant: the command looks at the end of the push, not at its status.
PushReportsSuccess(w) ==
  /\ pc[w] = "Pushing" /\ at[w].ack \in {"Applied", "Refused"}
  /\ Return(w, "BackedUp", at[w].run.desired)
  /\ UNCHANGED <<shared, durable, held, edits, faults>>

\* GitRemoteAdapter::compare_and_swap returns.
PushReports(w) ==
  /\ pc[w] = "Pushing" /\ at[w].ack \in {"Applied", "Refused"}
  /\ \/ /\ at[w].ack = "Applied"
        /\ Return(w, "BackedUp", at[w].run.desired)
     \/ /\ at[w].ack = "Refused"
        /\ Goto(w, "Rejected")
        /\ UNCHANGED <<at, outcome>>
  /\ UNCHANGED <<shared, durable, held, edits, faults>>

\* A live push whose client stops waiting is still under way at the server.
Orphan(w) ==
  orphans' = IF pc[w] = "Pushing" /\ at[w].ack = "Waiting"
             THEN orphans \cup {at[w].run} ELSE orphans

\* A failure that does not look like a network failure reads as a rejection,
\* whatever became of the push.
PushMisreports(w) ==
  /\ Fault
  /\ pc[w] = "Pushing" /\ at[w].ack \in {"Applied", "Waiting"}
  /\ Orphan(w)
  /\ at' = [at EXCEPT ![w].ack = "Refused"]
  /\ Goto(w, "Rejected")
  /\ UNCHANGED <<objects, remote, holder, lfs, lost, durable, outcome, held, edits>>

\* A push nobody waits for any more reaches the server.
OrphanLands(run) ==
  /\ run \in orphans
  /\ orphans' = orphans \ {run}
  /\ \E ok \in BOOLEAN : CompareAndSwap(run, ok)
  /\ UNCHANGED <<objects, lfs, lost, durable, memory, edits, faults>>

\* After a rejection a fresh observation tells success from a changed remote.
ObserveRejection(w) ==
  /\ pc[w] = "Rejected"
  /\ IF remote = at[w].run.desired
     THEN Return(w, "AlreadyBackedUp", at[w].run.desired)
     ELSE Return(w, "RemoteChanged", at[w].run.base)
  /\ UNCHANGED <<shared, durable, held, edits, faults>>

----------------------------------------------------------------------------
(* verify_backup and backup_init *)

ObserveToVerify(w) ==
  /\ pc[w] = "Idle"
  /\ \/ /\ remote # RefMissing
        /\ at' = [at EXCEPT ![w].seen = remote]
        /\ outcome' = [outcome EXCEPT ![w] = NoReport]
        /\ Goto(w, "Verifying")
     \/ /\ remote = RefMissing
        /\ Return(w, "Error", RefMissing)
  /\ UNCHANGED <<shared, durable, held, edits, faults>>

\* Mutant: the manifest and the tree are taken for the evidence.
VerifyTreeAlone(w) ==
  /\ pc[w] = "Verifying"
  /\ LET tree == objects[at[w].seen].tree
     IN \/ /\ at[w].seen \in local[w] /\ tree # NotBackup
           /\ lost' = lost \ Required(tree)
           /\ Return(w, "Verified", at[w].seen)
        \/ /\ at[w].seen \notin local[w] \/ tree = NotBackup
           /\ Return(w, "Error", RefMissing)
           /\ UNCHANGED lost
  /\ UNCHANGED <<objects, remote, holder, lfs, orphans, durable, held, edits, faults>>

\* Read manifest and tree from the clone, compare them, and ask the endpoint for
\* every object the pointers name.
Verify(w) ==
  /\ pc[w] = "Verifying"
  /\ LET tree == objects[at[w].seen].tree
         good == at[w].seen \in local[w] /\ tree # NotBackup /\ MissingFrom(tree) = {}
     IN \/ /\ good
           /\ lost' = lost \ Required(tree)
           /\ Return(w, "Verified", at[w].seen)
        \/ /\ ~ good
           /\ Return(w, "Error", RefMissing)
           /\ UNCHANGED lost
  /\ UNCHANGED <<objects, remote, holder, lfs, orphans, durable, held, edits, faults>>

\* backup_init: an existing ref is left alone, a missing one gets a root commit.
BeginInit(w) ==
  /\ pc[w] = "Idle"
  /\ \/ /\ remote # RefMissing
        /\ Return(w, "AlreadyPresent", remote)
        /\ UNCHANGED <<objects, local>>
     \/ /\ remote = RefMissing
        /\ \E o \in Oids, stamp \in Stamps :
             /\ CreateCommit(w, o, [parent |-> NoCommit, tree |-> NotBackup, stamp |-> stamp])
             /\ at' = [at EXCEPT ![w].seen = o]
        /\ outcome' = [outcome EXCEPT ![w] = NoReport]
        /\ Goto(w, "Rooted")
  /\ UNCHANGED <<remote, holder, lfs, lost, orphans, vault, cas, intents, held, edits,
                 faults>>

\* A plain push: the server creates the ref, and refuses to replace another one.
PushRoot(w) ==
  /\ pc[w] = "Rooted"
  /\ \/ /\ remote = RefMissing
        /\ MoveRef(at[w].seen, Others)
        /\ Return(w, "Created", at[w].seen)
     \/ /\ remote = at[w].seen
        /\ Return(w, "Created", at[w].seen)
        /\ UNCHANGED <<remote, holder, held>>
     \/ /\ remote \notin {RefMissing, at[w].seen}
        /\ Return(w, "Error", RefMissing)
        /\ UNCHANGED <<remote, holder, held>>
  /\ UNCHANGED <<objects, lfs, lost, orphans, durable, edits, faults>>

----------------------------------------------------------------------------
(* Failures and the outside *)

\* A port error or a crash: the command ends, what is durable stays.
Abort(w) ==
  /\ Fault
  /\ pc[w] # "Idle"
  /\ Orphan(w)
  /\ Return(w, "Error", RefMissing)
  /\ UNCHANGED <<objects, remote, holder, lfs, lost, durable, held, edits>>

EditSource(w) ==
  /\ edits < MaxEdits /\ edits' = edits + 1
  /\ \E files \in (SUBSET Contents) \ {vault[w]} : vault' = [vault EXCEPT ![w] = files]
  /\ UNCHANGED <<shared, cas, local, intents, memory, held, faults>>

\* A blob of the content store is lost, or its bytes change under its name.
BlobSpoils(w, c) ==
  /\ Fault
  /\ cas[w][c] # "Absent"
  /\ \E bytes \in {"Absent", "Damaged"} \ {cas[w][c]} :
       cas' = [cas EXCEPT ![w][c] = bytes]
  /\ UNCHANGED <<shared, vault, local, intents, memory, held, edits>>

\* The endpoint loses an object.
ObjectLost(o) ==
  /\ Fault
  /\ lfs[o].bytes # "Absent"
  /\ lfs' = [lfs EXCEPT ![o] = [bytes |-> "Absent", known |-> FALSE]]
  /\ lost' = lost \cup {o}
  /\ UNCHANGED <<objects, remote, holder, orphans, durable, memory, held, edits>>

\* Somebody else pushes a commit, with or without the objects its pointers name.
ForeignPush ==
  /\ Fault
  /\ \E o \in Oids \ {remote} :
       /\ \/ objects[o] # NoObject /\ UNCHANGED objects
          \/ \E tree \in Tree, stamp \in Stamps :
               LET parent == IF remote = RefMissing THEN NoCommit ELSE remote
                   facts  == [parent |-> parent, tree |-> tree, stamp |-> stamp]
               IN /\ Identifies(o, facts)
                  /\ objects' = [objects EXCEPT ![o] = facts]
       /\ MoveRef(o, Others)
  /\ UNCHANGED <<lfs, lost, orphans, durable, memory, edits>>

RefDeleted ==
  /\ Fault
  /\ remote # RefMissing
  /\ MoveRef(RefMissing, Others)
  /\ UNCHANGED <<objects, lfs, lost, orphans, durable, memory, edits>>

\* The operator replaces or prunes the clone: it now holds what the remote offers.
\* (Once an execution has its commit, the same makes the push fail.)
CloneReplaced(w) ==
  /\ Fault
  /\ pc[w] \in {"Idle", "Snapped", "Based", "Built", "Loaded", "Matched"}
  /\ local' = [local EXCEPT ![w] = {remote} \cap Oids]
  /\ UNCHANGED <<shared, vault, cas, intents, memory, held, edits>>

\* The operator fetches; the program itself never does.
Fetch(w) ==
  /\ remote \in Oids \ local[w]
  /\ local' = [local EXCEPT ![w] = @ \cup {remote}]
  /\ UNCHANGED <<shared, vault, cas, intents, memory, held, edits, faults>>

----------------------------------------------------------------------------
(* The specification *)

\* The ref holds the root commit that backup_init made.
Init ==
  /\ \E root \in Oids, stamp \in Stamps :
       /\ root = CHOOSE o \in Oids : TRUE
       /\ remote = root
       /\ objects = [o \in Oids |->
            IF o = root THEN [parent |-> NoCommit, tree |-> NotBackup, stamp |-> stamp]
            ELSE NoObject]
       /\ local = [w \in Workspaces |-> {root}]
  /\ holder = Others
  /\ lfs = [o \in Large |-> [bytes |-> "Absent", known |-> FALSE]]
  /\ lost = {}
  /\ orphans = {}
  /\ vault \in [Workspaces -> SUBSET Contents]
  /\ cas = [w \in Workspaces |-> [c \in Contents |-> "Absent"]]
  /\ intents = {}
  /\ pc = [w \in Workspaces |-> "Idle"]
  /\ at = [w \in Workspaces |-> NoLocals]
  /\ outcome = [w \in Workspaces |-> NoReport]
  /\ held = [w \in Workspaces |-> {remote}]
  /\ edits = 0
  /\ faults = 0

\* Steps a command takes by itself once it started.
Progress(w) ==
  \/ ObserveBase(w)
  \/ BuildIntent(w)
  \/ SaveRun(w)
  \/ Reconcile(w)
  \/ EnsureCommit(w)
  \/ PlanUploads(w)
  \/ SpoolObject(w)
  \/ PutObject(w)
  \/ FinishUpload(w)
  \/ PassGate(w)
  \/ FailGate(w)
  \/ ServerAnswers(w)
  \/ PushReports(w)
  \/ ObserveRejection(w)
  \/ Verify(w)
  \/ PushRoot(w)

Next ==
  \/ \E w \in Workspaces :
       \/ TakeSnapshot(w)
       \/ ObserveToVerify(w)
       \/ BeginInit(w)
       \/ Progress(w)
       \/ ServerRefuses(w)
       \/ PushMisreports(w)
       \/ Abort(w)
       \/ EditSource(w)
       \/ \E c \in Contents : BlobSpoils(w, c)
       \/ CloneReplaced(w)
       \/ Fetch(w)
  \/ \E run \in orphans : OrphanLands(run)
  \/ \E o \in Large : ObjectLost(o)
  \/ ForeignPush
  \/ RefDeleted

Spec == Init /\ [][Next]_vars

\* A command that started runs on, and backups are started again and again,
\* whatever other commands come between.
Fairness ==
  \A w \in Workspaces : WF_vars(Progress(w)) /\ SF_vars(TakeSnapshot(w))

FairSpec == Spec /\ Fairness

----------------------------------------------------------------------------
(* Properties *)

\* The variables hold values of their types.
TypeOK ==
  /\ objects \in [Oids -> CommitFacts \cup {NoObject}]
  /\ remote \in RefState
  /\ holder \in BackupRun \cup {Others}
  /\ lfs \in [Large -> [bytes : Bytes, known : BOOLEAN]]
  /\ lost \subseteq Large
  /\ orphans \subseteq BackupRun
  /\ vault \in [Workspaces -> SUBSET Contents]
  /\ cas \in [Workspaces -> [Contents -> Bytes]]
  /\ local \in [Workspaces -> SUBSET Oids]
  /\ intents \subseteq BackupRun
  /\ pc \in [Workspaces -> Phases]
  /\ at \in [Workspaces -> Locals]
  /\ outcome \in [Workspaces -> Report]
  /\ held \in [Workspaces -> SUBSET RefState]
  /\ edits \in Nat
  /\ faults \in Nat

Restorable(tree) == \A o \in Required(tree) : lfs[o].bytes = "Genuine" \/ o \in lost

\* While the ref is where a backup put it, the endpoint has the very bytes of
\* every large file of that commit, unless it lost them after the gate was
\* passed: no retry, late push or rival attempt gets past the gate.
BackupIsRestorable ==
  holder # Others =>
    objects[remote].tree # NotBackup /\ Restorable(objects[remote].tree)

\* A command that reports success tells the truth about the remote, the source and
\* the endpoint.  The commit a backup names was on the ref while it ran, and its tree
\* is the snapshot this command took; what was verified could be restored, and can be
\* until the endpoint loses it.
ReportsAreTrue ==
  \A w \in Workspaces :
    /\ outcome[w].kind \in {"BackedUp", "AlreadyBackedUp"} =>
         /\ outcome[w].commit \in held[w]
         /\ objects[outcome[w].commit].tree = outcome[w].snap
    /\ outcome[w].kind = "Verified" => Restorable(objects[outcome[w].commit].tree)

\* While backups are attempted, the ref comes to hold the source as it is, again
\* after every change: an attempt that was cut off anywhere is made up for by a
\* later one.  The exceptions need a person: the ref is gone, the clone does not
\* hold its commit, or a blob in the content store is damaged.
BackupsCatchUp ==
  \A w \in Workspaces : []<>(
    \/ remote = RefMissing
    \/ remote \notin local[w]
    \/ \E c \in vault[w] : cas[w][c] = "Damaged"
    \/ objects[remote].tree = vault[w])
=============================================================================
