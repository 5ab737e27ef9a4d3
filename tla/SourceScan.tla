----------------------------- MODULE SourceScan -----------------------------
(***************************************************************************)
(* How Mineral Publisher reads its source while other people write to it.  *)
(*                                                                         *)
(* A bucket (R2) is listed, read under the listed revisions, and listed    *)
(* again: the state is accepted if both listings are equal, and tried      *)
(* again a few times if not.  What was read is bound to its revision in a  *)
(* durable table, so that a later scan need not read it again.  A local    *)
(* directory is walked and read twice: the first pass gives the snapshot   *)
(* its identity, the second one its files.                                 *)
(*                                                                         *)
(* Simplifications:                                                        *)
(*   - paths are numbered in the order in which a listing names them, and  *)
(*     a listing comes in pages of any size;                               *)
(*   - a revision is the ETag and the time of a write.  The ETag stands    *)
(*     for the content, and no two writes have the same time;              *)
(*   - one GET, and one read of a file, sees one version of it;            *)
(*   - the refresh decision reads the tables of its own installation,      *)
(*     which works alone, and is one step;                                 *)
(*   - a transfer that is cut short, a port error and a crash are Abort.   *)
(***************************************************************************)
EXTENDS Naturals

CONSTANTS
  Count,        \* how many paths there may be
  Contents,     \* contents of files
  Kinds,        \* the kinds of source a configuration may name
  MaxAttempts,  \* listings a scan may find changed before it gives up
  MaxWrites,    \* bound: writes and deletions in the source
  MaxFaults     \* bound: aborts and damage to the content store

CONSTANTS NoFile, NoContent

Paths   == 1..Count
Objects == [content : Contents, time : 0..MaxWrites]

ASSUME ScanConstants ==
  /\ Count \in Nat \ {0}
  /\ Kinds \subseteq {"R2", "Local"}
  /\ MaxAttempts \in Nat \ {0}
  /\ MaxWrites \in Nat
  /\ MaxFaults \in Nat
  /\ NoContent \notin Contents
  /\ NoFile \notin Objects

Listing  == [Paths -> Objects \cup {NoFile}]
Files    == [Paths -> Contents \cup {NoContent}]
Bindings == [path : Paths, rev : Objects, content : Contents]
Bytes    == {"Absent", "Genuine", "Damaged", "Cut"}   \* Cut: of another size

Phases ==
  {"Idle", "Before", "Plan", "Materialize", "Bind", "After", "Judge",   \* R2
   "Walk", "Read"}                                                      \* Local

VARIABLES
  kind,      \* the kind of this source
  \* Outside.
  source,    \* what is there now
  \* Durable.
  blobs,     \* the content store
  bindings,  \* SqliteSourceMaterializationStore
  \* The scan under way, and what the last one returned.
  pc, at, result,
  \* History and bounds.
  seen,      \* the states of the source while the scan ran
  spoiled,   \* contents whose blob was damaged or lost since the scan began
  writes, faults

scan == <<pc, at, result>>
vars == <<kind, source, blobs, bindings, scan, seen, spoiled, writes, faults>>

NoListing == [p \in Paths |-> NoFile]
NoFiles   == [p \in Paths |-> NoContent]

Locals ==
  [attempt : 1..MaxAttempts,           \* of a bucket
   pass    : 1..2,                     \* over a directory
   pos     : 1..(Count + 1),           \* the path the next page starts with
   list    : Listing,                  \* the listing being read
   before  : Listing,                  \* the first listing
   reuse   : SUBSET Paths,             \* the plan: these are not read again
   got     : Files,                    \* what was materialized
   read    : Contents \cup {NoContent},\* the object just stored
   id      : Files]                    \* what the identity is derived from

NoLocals ==
  [attempt |-> 1, pass |-> 1, pos |-> 1, list |-> NoListing, before |-> NoListing,
   reuse |-> {}, got |-> NoFiles, read |-> NoContent, id |-> NoFiles]

Results == [kind : {"None", "Snapshot", "Unstable", "Error"}, files : Files, id : Files]

NoResult == [kind |-> "None", files |-> NoFiles, id |-> NoFiles]

----------------------------------------------------------------------------
(* Helpers *)

Listed(listing) == {p \in Paths : listing[p] # NoFile}

ContentAt(state, p) == IF state[p] = NoFile THEN NoContent ELSE state[p].content

\* Listed, and not materialized yet: taken in the order of the paths.
Todo      == {p \in Listed(at.before) : at.got[p] = NoContent}
IsNext(p) == p \in Todo /\ \A q \in Todo : p <= q

\* SqliteSourceMaterializationStore::get for the revision that was listed.
Bound(p) == {b \in bindings : b.path = p /\ b.rev = at.before[p]}

BoundContent(p) == (CHOOSE b \in Bound(p) : TRUE).content

\* Storing bytes under their own identity: an existing blob is hashed.
Storable(c) == c # NoContent /\ blobs[c] \in {"Absent", "Genuine"}

Finish(answer) ==
  /\ pc' = "Idle"
  /\ at' = NoLocals
  /\ result' = answer

Fail == Finish([NoResult EXCEPT !.kind = "Error"])

Fault == faults < MaxFaults /\ faults' = faults + 1

----------------------------------------------------------------------------
(* Reading the source *)

BeginScan ==
  /\ pc = "Idle"
  /\ pc' = IF kind = "R2" THEN "Before" ELSE "Walk"
  /\ at' = NoLocals
  /\ result' = NoResult
  /\ seen' = {source}
  /\ spoiled' = {}
  /\ UNCHANGED <<kind, source, blobs, bindings, writes, faults>>

\* One page of a listing, or one directory of a walk.  The last one completes it.
ListPage ==
  /\ pc \in {"Before", "After", "Walk"}
  /\ \E last \in at.pos..Count :
       LET list == [p \in Paths |-> IF p \in at.pos..last THEN source[p] ELSE at.list[p]]
       IN \/ /\ last < Count
             /\ at' = [at EXCEPT !.pos = last + 1, !.list = list]
             /\ UNCHANGED pc
          \/ /\ last = Count /\ pc # "After"
             /\ at' = [at EXCEPT !.pos = last + 1, !.list = list, !.before = list]
             /\ pc' = IF pc = "Before" THEN "Plan" ELSE "Read"
          \/ /\ last = Count /\ pc = "After"
             /\ at' = [at EXCEPT !.pos = last + 1, !.list = list]
             /\ pc' = "Judge"
  /\ UNCHANGED <<kind, source, blobs, bindings, result, seen, spoiled, writes, faults>>

\* Mutant: a binding is enough, whether or not the blob is there.
PlanByBindings ==
  /\ pc = "Plan"
  /\ at' = [at EXCEPT !.reuse = {p \in Listed(at.before) : Bound(p) # {}}]
  /\ pc' = "Materialize"
  /\ UNCHANGED <<kind, source, blobs, bindings, result, seen, spoiled, writes, faults>>

\* Mutant: a blob that is gone contradicts its binding, as one of another size does.
PlanWithoutRefetch ==
  /\ pc = "Plan"
  /\ LET bound == {p \in Listed(at.before) : Bound(p) # {}}
         bad   == {p \in bound : blobs[BoundContent(p)] \in {"Absent", "Cut"}}
     IN \/ /\ bad = {}
           /\ at' = [at EXCEPT !.reuse = bound]
           /\ pc' = "Materialize"
           /\ UNCHANGED result
        \/ bad # {} /\ Fail
  /\ UNCHANGED <<kind, source, blobs, bindings, seen, spoiled, writes, faults>>

\* plan_source_refresh: reuse what is bound and stored, fetch the rest, and stop if a
\* blob does not have the size its binding says.
PlanRefresh ==
  /\ pc = "Plan"
  /\ LET bound == {p \in Listed(at.before) : Bound(p) # {}}
     IN \/ /\ \A p \in bound : blobs[BoundContent(p)] # "Cut"
           /\ at' = [at EXCEPT !.reuse = {p \in bound : blobs[BoundContent(p)] # "Absent"}]
           /\ pc' = "Materialize"
           /\ UNCHANGED result
        \/ /\ \E p \in bound : blobs[BoundContent(p)] = "Cut"
           /\ Fail
  /\ UNCHANGED <<kind, source, blobs, bindings, seen, spoiled, writes, faults>>

ReuseEntry(p) ==
  /\ pc = "Materialize" /\ IsNext(p) /\ p \in at.reuse
  /\ at' = [at EXCEPT !.got[p] = BoundContent(p)]
  /\ UNCHANGED <<kind, source, blobs, bindings, pc, result, seen, spoiled, writes, faults>>

\* Mutant: a read without a precondition.
FetchAnyVersion(p) ==
  /\ pc = "Materialize" /\ IsNext(p) /\ p \notin at.reuse
  /\ LET c == ContentAt(source, p)
     IN \/ /\ Storable(c)
           /\ blobs' = [blobs EXCEPT ![c] = "Genuine"]
           /\ at' = [at EXCEPT !.read = c]
           /\ pc' = "Bind"
           /\ UNCHANGED result
        \/ /\ ~ Storable(c)
           /\ Fail
           /\ UNCHANGED blobs
  /\ UNCHANGED <<kind, source, bindings, seen, spoiled, writes, faults>>

\* Read the object if it still has the listed ETag, into the content store.
FetchObject(p) ==
  /\ pc = "Materialize" /\ IsNext(p) /\ p \notin at.reuse
  /\ LET c       == at.before[p].content
         matches == ContentAt(source, p) = c
     IN \/ /\ matches /\ Storable(c)
           /\ blobs' = [blobs EXCEPT ![c] = "Genuine"]
           /\ at' = [at EXCEPT !.read = c]
           /\ pc' = "Bind"
           /\ UNCHANGED result
        \/ /\ ~ (matches /\ Storable(c))
           /\ Fail
           /\ UNCHANGED blobs
  /\ UNCHANGED <<kind, source, bindings, seen, spoiled, writes, faults>>

\* SqliteSourceMaterializationStore::save: the same fact twice is success, another
\* content for the same revision is an error.
BindObject(p) ==
  /\ pc = "Bind" /\ IsNext(p)
  /\ LET fact == [path |-> p, rev |-> at.before[p], content |-> at.read]
     IN \/ /\ Bound(p) \subseteq {fact}
           /\ bindings' = bindings \cup {fact}
           /\ at' = [at EXCEPT !.got[p] = at.read, !.read = NoContent]
           /\ pc' = "Materialize"
           /\ UNCHANGED result
        \/ /\ ~ (Bound(p) \subseteq {fact})
           /\ Fail
           /\ UNCHANGED bindings
  /\ UNCHANGED <<kind, source, blobs, seen, spoiled, writes, faults>>

ListAgain ==
  /\ pc = "Materialize" /\ Todo = {}
  /\ at' = [at EXCEPT !.pos = 1, !.list = NoListing]
  /\ pc' = "After"
  /\ UNCHANGED <<kind, source, blobs, bindings, result, seen, spoiled, writes, faults>>

Snapshot(files, id) == Finish([kind |-> "Snapshot", files |-> files, id |-> id])

\* Mutant: the second listing is not compared with the first.
JudgeUnchecked ==
  /\ pc = "Judge"
  /\ Snapshot(at.got, at.got)
  /\ UNCHANGED <<kind, source, blobs, bindings, seen, spoiled, writes, faults>>

\* Mutant: the budget is counted from nought.
JudgeOneMore ==
  /\ pc = "Judge"
  /\ \/ at.before = at.list /\ Snapshot(at.got, at.got)
     \/ /\ at.before # at.list /\ at.attempt <= MaxAttempts
        /\ at' = [NoLocals EXCEPT !.attempt = at.attempt + 1]
        /\ pc' = "Before"
        /\ UNCHANGED result
     \/ /\ at.before # at.list /\ at.attempt > MaxAttempts
        /\ Finish([NoResult EXCEPT !.kind = "Unstable"])
  /\ UNCHANGED <<kind, source, blobs, bindings, seen, spoiled, writes, faults>>

\* stabilize_scan: accept if nothing changed, or start over within the budget.
Judge ==
  /\ pc = "Judge"
  /\ \/ at.before = at.list /\ Snapshot(at.got, at.got)
     \/ /\ at.before # at.list /\ at.attempt < MaxAttempts
        /\ at' = [NoLocals EXCEPT !.attempt = at.attempt + 1]
        /\ pc' = "Before"
        /\ UNCHANGED result
     \/ /\ at.before # at.list /\ at.attempt = MaxAttempts
        /\ Finish([NoResult EXCEPT !.kind = "Unstable"])
  /\ UNCHANGED <<kind, source, blobs, bindings, seen, spoiled, writes, faults>>

\* LocalSource::read_snapshot_file: whatever the file holds now is stored.
ReadFile(p) ==
  /\ pc = "Read" /\ IsNext(p)
  /\ LET c == ContentAt(source, p)
     IN \/ /\ Storable(c)
           /\ blobs' = [blobs EXCEPT ![c] = "Genuine"]
           /\ at' = [at EXCEPT !.got[p] = c]
           /\ UNCHANGED <<pc, result>>
        \/ /\ ~ Storable(c)
           /\ Fail
           /\ UNCHANGED blobs
  /\ UNCHANGED <<kind, source, bindings, seen, spoiled, writes, faults>>

\* The first pass names the snapshot, the second one fills it.
EndPass ==
  /\ pc = "Read" /\ Todo = {}
  /\ \/ /\ at.pass = 1
        /\ at' = [NoLocals EXCEPT !.pass = 2, !.id = at.got]
        /\ pc' = "Walk"
        /\ UNCHANGED result
     \/ at.pass = 2 /\ Snapshot(at.got, at.id)
  /\ UNCHANGED <<kind, source, blobs, bindings, seen, spoiled, writes, faults>>

----------------------------------------------------------------------------
(* Failures and the outside *)

Abort ==
  /\ Fault
  /\ pc # "Idle"
  /\ Fail
  /\ UNCHANGED <<kind, source, blobs, bindings, seen, spoiled, writes>>

\* A blob is lost, or its bytes change.
BlobSpoils(c) ==
  /\ Fault
  /\ blobs[c] # "Absent"
  /\ \E bytes \in Bytes \ {"Genuine", blobs[c]} : blobs' = [blobs EXCEPT ![c] = bytes]
  /\ spoiled' = spoiled \cup {c}
  /\ UNCHANGED <<kind, source, bindings, scan, seen, writes>>

Change(p, object) ==
  /\ writes < MaxWrites /\ writes' = writes + 1
  /\ source' = [source EXCEPT ![p] = object]
  /\ seen' = IF pc = "Idle" THEN seen ELSE seen \cup {source'}
  /\ UNCHANGED <<kind, blobs, bindings, scan, spoiled, faults>>

Write(p)  == \E c \in Contents : Change(p, [content |-> c, time |-> writes + 1])
Delete(p) == source[p] # NoFile /\ Change(p, NoFile)

----------------------------------------------------------------------------
(* The specification *)

Init ==
  /\ kind \in Kinds
  /\ source \in [Paths -> [content : Contents, time : {0}] \cup {NoFile}]
  /\ blobs = [c \in Contents |-> "Absent"]
  /\ bindings = {}
  /\ pc = "Idle"
  /\ at = NoLocals
  /\ result = NoResult
  /\ seen = {source}
  /\ spoiled = {}
  /\ writes = 0
  /\ faults = 0

\* Steps a scan takes by itself.
Step ==
  \/ ListPage
  \/ PlanRefresh
  \/ \E p \in Paths : ReuseEntry(p) \/ FetchObject(p) \/ BindObject(p) \/ ReadFile(p)
  \/ ListAgain
  \/ Judge
  \/ EndPass

Next ==
  \/ BeginScan
  \/ Step
  \/ Abort
  \/ \E c \in Contents : BlobSpoils(c)
  \/ \E p \in Paths : Write(p) \/ Delete(p)

Spec == Init /\ [][Next]_vars

\* A scan that began runs on, and the source is scanned again and again.
FairSpec == Spec /\ WF_vars(Step) /\ WF_vars(BeginScan)

----------------------------------------------------------------------------
(* Properties *)

\* The variables hold values of their types.
TypeOK ==
  /\ kind \in Kinds
  /\ source \in Listing
  /\ blobs \in [Contents -> Bytes]
  /\ bindings \subseteq Bindings
  /\ pc \in Phases
  /\ at \in Locals
  /\ result \in Results
  /\ seen \subseteq Listing
  /\ spoiled \subseteq Contents
  /\ writes \in 0..MaxWrites
  /\ faults \in Nat

\* What StabilizedSource claims.  Every path of a snapshot, and every absence of one,
\* was so at some moment of the scan: no file is invented and none is silently
\* missing.  And the files of a bucket were all current together at one moment.
SnapshotIsTrue ==
  result.kind = "Snapshot" =>
    /\ \A p \in Paths : \E s \in seen : ContentAt(s, p) = result.files[p]
    /\ kind = "R2" => \E s \in seen : \A p \in Paths :
         result.files[p] # NoContent => ContentAt(s, p) = result.files[p]

\* A blob that was damaged before the scan passes in a bucket if its size is right,
\* and never in a directory.
Readable(c) ==
  \/ c \in spoiled \cup {NoContent}
  \/ blobs[c] = "Genuine"
  \/ blobs[c] = "Damaged" /\ kind = "R2"

\* What lets a scan skip a download is true.  The content bound to a revision is what
\* that revision holds; and every file of a snapshot can be read from the content
\* store, but for blobs that were spoiled during or after the scan.
SkippingIsSafe ==
  /\ \A b \in bindings : b.content = b.rev.content
  /\ result.kind = "Snapshot" => \A p \in Paths :
       Readable(result.files[p])

\* Once the writers are quiet, scans come to return the source as it is, whatever
\* earlier ones left behind.  The exception needs a person: a damaged blob of a
\* content that is there.
ScansCatchUp ==
  []<>(\/ /\ result.kind = "Snapshot"
          /\ result.files = [p \in Paths |-> ContentAt(source, p)]
       \/ \E p \in Listed(source) : ~ Storable(source[p].content))
=============================================================================
