----------------------- MODULE FilesystemAssetTarget -----------------------
(***************************************************************************)
(* The asset target of a native installation: FilesystemObjectStore under  *)
(* the streaming driver, as the asset gate of the engine uses it.          *)
(*                                                                         *)
(* Several publisher processes share one directory.  Each handles one      *)
(* asset at a time: it inspects the frozen key, streams a missing object   *)
(* into a temporary file, links it into place, records the media type      *)
(* beside it, and inspects again.  Every file system call is a step of its *)
(* own; a process may fail or die between any two of them, and a process   *)
(* that is started again counts its temporary files from one.              *)
(*                                                                         *)
(* A file is an inode: a hard link gives it a second name, and writing     *)
(* through one name is seen through the other.  The blob a process streams *)
(* has been verified already and never changes.                            *)
(***************************************************************************)
EXTENDS Integers, Sequences, FiniteSets

CONSTANTS
  Procs,       \* publisher processes
  Assets,      \* frozen published assets, one object key each
  Length,      \* chunks of each asset's bytes
  Pids,        \* process ids
  Inodes,      \* bound: files that may exist at a time
  ReusesPids,  \* whether a new process may get the id of one that is gone
  MaxFaults,   \* bound: failures and deaths
  NoFile, NoName, NoAsset

Chunk == Assets \X Nat

\* NEXT_TEMPORARY counts from 1 in every process.
Names == Pids \X (Nat \ {0})

\* No two processes have the same id at a time.
Distinct(ids) == \A p, q \in Procs : p # q => ids[p] # ids[q]

ConstantsOK ==
  /\ Length \in [Assets -> Nat]
  /\ Inodes \subseteq Nat
  /\ Pids \subseteq Nat
  /\ ReusesPids \in BOOLEAN
  /\ MaxFaults \in Nat
  /\ NoFile \notin Inodes
  /\ NoAsset \notin Assets
  /\ NoName \notin Names
  /\ \E ids \in [Procs -> Pids] : Distinct(ids)

\* The bytes the asset's key stands for.
Frozen(a) == [k \in 1 .. Length[a] |-> <<a, k>>]

\* What a process holds of the asset it handles: whether this attempt has placed
\* it already, what is_file said of the object, CreateWriter.temporary_path, and
\* the chunks written.
Attempts == [asset  : Assets \cup {NoAsset},
             placed : BOOLEAN,
             exists : BOOLEAN,
             name   : Names \cup {NoName},
             sent   : Nat]

NoAttempt == [asset |-> NoAsset, placed |-> FALSE, exists |-> FALSE, name |-> NoName, sent |-> 0]

VARIABLES
  \* The directory.
  content,     \* the bytes of every file
  temp,        \* temporary files in the root, by name
  object,      \* the file under each object key
  described,   \* the keys whose metadata is recorded
  \* The processes.
  pid,
  sequence,    \* NEXT_TEMPORARY
  pc,
  attempt,
  \* History and bound.
  retired,     \* ids of processes that are gone
  ready,       \* assets some process judged ready
  faults

directory == <<content, temp, object, described>>
process   == <<pid, sequence>>
history   == <<retired, ready>>
vars      == <<directory, process, pc, attempt, history, faults>>

Goto(p, phase) == pc' = [pc EXCEPT ![p] = phase]

\* The attempt is over, with an answer or an error.
Return(p) == Goto(p, "Idle") /\ attempt' = [attempt EXCEPT ![p] = NoAttempt]

Key(p) == attempt[p].asset

Intact(a) == object[a] # NoFile /\ content[object[a]] = Frozen(a)

----------------------------------------------------------------------------
(* The asset gate and the driver *)

\* Handle one asset: inspect it, and place it if it is missing.
Begin(p, a) ==
  /\ pc[p] = "Idle"
  /\ attempt' = [attempt EXCEPT ![p].asset = a]
  /\ Goto(p, "Inspect")
  /\ UNCHANGED <<directory, process, history, faults>>

\* FilesystemObjectStore::inspect and ::open_writer look for the object first ...
LookForObject(p) ==
  /\ pc[p] \in {"Inspect", "Open"}
  /\ attempt' = [attempt EXCEPT ![p].exists = object[Key(p)] # NoFile]
  /\ Goto(p, IF pc[p] = "Inspect" THEN "InspectMetadata" ELSE "OpenMetadata")
  /\ UNCHANGED <<directory, process, history, faults>>

\* Mutant: an object is taken for present before its metadata is there.
InspectObjectAlone(p) ==
  /\ pc[p] = "InspectMetadata"
  /\ IF attempt[p].exists THEN Goto(p, "Read") /\ UNCHANGED attempt
     ELSE IF attempt[p].placed THEN Return(p) ELSE Goto(p, "Open") /\ UNCHANGED attempt
  /\ UNCHANGED <<directory, process, history, faults>>

\* ... and for its metadata next; half an object is an error.  A missing object
\* is placed, once.
InspectMetadata(p) ==
  /\ pc[p] = "InspectMetadata"
  /\ LET complete == attempt[p].exists /\ Key(p) \in described
         missing  == ~ attempt[p].exists /\ Key(p) \notin described
     IN \/ complete /\ Goto(p, "Read") /\ UNCHANGED attempt
        \/ missing /\ ~ attempt[p].placed /\ Goto(p, "Open") /\ UNCHANGED attempt
        \/ ~ complete /\ (missing => attempt[p].placed) /\ Return(p)
  /\ UNCHANGED <<directory, process, history, faults>>

\* Read and hash the object; only the frozen bytes are judged ready.
ReadObject(p) ==
  /\ pc[p] = "Read"
  /\ ready' = IF Intact(Key(p)) THEN ready \cup {Key(p)} ELSE ready
  /\ Return(p)
  /\ UNCHANGED <<directory, process, retired, faults>>

\* open_writer: reuse an object that holds the frozen bytes, completing its
\* metadata if that is missing; create one where there is nothing.
OpenWriter(p) ==
  /\ pc[p] = "OpenMetadata"
  /\ LET reuse  == attempt[p].exists /\ Intact(Key(p))
         create == ~ attempt[p].exists /\ Key(p) \notin described
     IN \/ /\ reuse
           /\ Goto(p, IF Key(p) \in described THEN "Finished" ELSE "Describe")
           /\ UNCHANGED attempt
        \/ create /\ Goto(p, "Stream") /\ UNCHANGED attempt
        \/ ~ reuse /\ ~ create /\ Return(p)
  /\ UNCHANGED <<directory, process, history, faults>>

----------------------------------------------------------------------------
(* CreateWriter *)

\* Mutant: the temporary path does not say which process it belongs to.
SharedTemporaryPath(p) ==
  IF attempt[p].name = NoName THEN <<CHOOSE id \in Pids : TRUE, sequence[p]>> ELSE attempt[p].name

\* The temporary path, named on first use after the process and a counter.
TemporaryPath(p) ==
  IF attempt[p].name = NoName THEN <<pid[p], sequence[p]>> ELSE attempt[p].name

CountTemporary(p) ==
  sequence' = [sequence EXCEPT ![p] = IF attempt[p].name = NoName THEN @ + 1 ELSE @]

Unused == Inodes \ ({temp[n] : n \in DOMAIN temp} \cup {object[a] : a \in Assets})

IsNewFile(file) == file \in Unused /\ \A other \in Unused : file <= other

\* write: append the chunk to the temporary file, creating it if there is none.
WriteChunk(p) ==
  /\ pc[p] = "Stream"
  /\ attempt[p].sent < Length[Key(p)]
  /\ LET path  == TemporaryPath(p)
         chunk == <<Key(p), attempt[p].sent + 1>>
     IN /\ \/ /\ path \in DOMAIN temp
              /\ content' = [content EXCEPT ![temp[path]] = Append(@, chunk)]
              /\ UNCHANGED temp
           \/ /\ path \notin DOMAIN temp
              /\ \E file \in Inodes :
                   /\ IsNewFile(file)
                   /\ content' = [content EXCEPT ![file] = <<chunk>>]
                   /\ temp' = [n \in DOMAIN temp \cup {path} |->
                                 IF n = path THEN file ELSE temp[n]]
        /\ attempt' = [attempt EXCEPT ![p].name = path, ![p].sent = @ + 1]
  /\ CountTemporary(p)
  /\ UNCHANGED <<object, described, pid, pc, history, faults>>

\* finish: every byte was sent and verified; link the file into place.  An object
\* that is already there is never replaced.
LinkObject(p) ==
  /\ pc[p] = "Stream"
  /\ attempt[p].sent = Length[Key(p)]
  /\ LET path   == TemporaryPath(p)
         linked == path \in DOMAIN temp /\ object[Key(p)] = NoFile
     IN /\ \/ /\ linked
              /\ object' = [object EXCEPT ![Key(p)] = temp[path]]
              /\ Goto(p, "Linked")
           \/ ~ linked /\ Goto(p, "NotLinked") /\ UNCHANGED object
        /\ attempt' = [attempt EXCEPT ![p].name = path]
  /\ CountTemporary(p)
  /\ UNCHANGED <<content, temp, described, pid, history, faults>>

\* Remove the temporary name; a failure to do so is ignored.
RemoveTemporary(p) ==
  /\ pc[p] \in {"Linked", "NotLinked"}
  /\ \/ /\ temp' = [n \in DOMAIN temp \ {attempt[p].name} |-> temp[n]]
        /\ UNCHANGED faults
     \/ /\ faults < MaxFaults /\ faults' = faults + 1
        /\ UNCHANGED temp
  /\ \/ pc[p] = "Linked" /\ Goto(p, "Describe") /\ UNCHANGED attempt
     \/ pc[p] = "NotLinked" /\ Return(p)
  /\ UNCHANGED <<content, object, described, process, history>>

\* write_metadata: a temporary file of its own name, renamed into place.
Describe(p) ==
  /\ pc[p] = "Describe"
  /\ described' = described \cup {Key(p)}
  /\ sequence' = [sequence EXCEPT ![p] = @ + 1]
  /\ Goto(p, "Finished")
  /\ UNCHANGED <<content, temp, object, pid, attempt, history, faults>>

\* The engine takes no success for evidence: it inspects again.
Reinspect(p) ==
  /\ pc[p] = "Finished"
  /\ attempt' = [attempt EXCEPT ![p] = [NoAttempt EXCEPT !.asset = Key(p), !.placed = TRUE]]
  /\ Goto(p, "Inspect")
  /\ UNCHANGED <<directory, process, history, faults>>

----------------------------------------------------------------------------
(* Failures *)

Fault == faults < MaxFaults /\ faults' = faults + 1

\* An I/O error ends the attempt; a writer that is dropped removes nothing.
Fail(p) ==
  /\ Fault
  /\ pc[p] # "Idle"
  /\ Return(p)
  /\ UNCHANGED <<directory, process, history>>

Free == Pids \ (retired \cup {pid[q] : q \in Procs})

\* The id of the next process: one that no process ever had, or with ReusesPids
\* also one whose process is gone.
NextPids ==
  LET fresh == {id \in Free : \A other \in Free : id <= other}
      gone  == retired \ {pid[q] : q \in Procs}
  IN IF ReusesPids THEN fresh \cup gone ELSE fresh

\* The process dies and another is started in its place.
Restart(p) ==
  /\ Fault
  /\ \E id \in NextPids : pid' = [pid EXCEPT ![p] = id]
  /\ retired' = retired \cup {pid[p]}
  /\ sequence' = [sequence EXCEPT ![p] = 1]
  /\ Return(p)
  /\ UNCHANGED <<directory, ready>>

----------------------------------------------------------------------------
(* The specification *)

Init ==
  /\ content = [file \in Inodes |-> <<>>]
  /\ temp = <<>>
  /\ object = [a \in Assets |-> NoFile]
  /\ described = {}
  /\ pid = CHOOSE ids \in [Procs -> Pids] : Distinct(ids)
  /\ sequence = [p \in Procs |-> 1]
  /\ pc = [p \in Procs |-> "Idle"]
  /\ attempt = [p \in Procs |-> NoAttempt]
  /\ retired = {}
  /\ ready = {}
  /\ faults = 0

Step(p) ==
  \/ LookForObject(p)
  \/ InspectMetadata(p)
  \/ ReadObject(p)
  \/ OpenWriter(p)
  \/ WriteChunk(p)
  \/ LinkObject(p)
  \/ RemoveTemporary(p)
  \/ Describe(p)
  \/ Reinspect(p)

Next ==
  \E p \in Procs :
    \/ \E a \in Assets : Begin(p, a)
    \/ Step(p)
    \/ Fail(p)
    \/ Restart(p)

Spec == Init /\ [][Next]_vars

\* A process that began an attempt goes on with it, and every asset is tried again
\* and again; nothing has to fail.
FairSpec ==
  /\ Spec
  /\ \A p \in Procs : WF_vars(Step(p)) /\ \A a \in Assets : SF_vars(Begin(p, a))

----------------------------------------------------------------------------
(* Properties *)

\* The types of the variables; a writer never sends more than the asset has.
TypeOK ==
  /\ content \in [Inodes -> Seq(Chunk)]
  /\ DOMAIN temp \subseteq Names /\ \A n \in DOMAIN temp : temp[n] \in Inodes
  /\ object \in [Assets -> Inodes \cup {NoFile}]
  /\ described \subseteq Assets
  /\ pid \in [Procs -> Pids]
  /\ sequence \in [Procs -> Nat \ {0}]
  /\ pc \in [Procs -> {"Idle", "Inspect", "InspectMetadata", "Read", "Open", "OpenMetadata",
                       "Stream", "Linked", "NotLinked", "Describe", "Finished"}]
  /\ attempt \in [Procs -> Attempts]
  /\ \A p \in Procs : pc[p] = "Stream" => attempt[p].sent <= Length[Key(p)]
  /\ retired \subseteq Pids
  /\ ready \subseteq Assets
  /\ faults \in 0 .. MaxFaults

\* Whatever attempts failed or died before, and whoever races, a key that holds an
\* object holds the bytes its frozen identity is the hash of.
OnlyVerifiedBytes ==
  \A a \in Assets : object[a] # NoFile => Intact(a)

Target == INSTANCE AssetTarget WITH
  Shared <- FALSE,
  holds  <- [a \in Assets |->
    IF object[a] = NoFile THEN [bytes |-> "none", by |-> "nobody"]
    ELSE [bytes |-> IF Intact(a) THEN "frozen" ELSE "other", by |-> "publisher"]]

\* Whatever attempts failed or died before, and whoever races: an object appears
\* only with the frozen bytes, is never replaced or changed, and an asset is judged
\* ready only by an object that is there.
ImplementsTarget == Target!Spec

\* An asset that was once judged ready stays ready: its object is intact and an
\* inspection of it meets no error.
ReadyStaysReady ==
  \A a \in ready : Intact(a) /\ a \in described

Half(a) == object[a] # NoFile /\ a \notin described

\* An asset that is tried again and again becomes ready, whatever failed and
\* whoever raced, unless an attempt ended between its two files, or there is
\* nothing to stream.
RetriesSettle ==
  \A a \in Assets : Length[a] > 0 => <>(a \in ready \/ [] Half(a))
=============================================================================
