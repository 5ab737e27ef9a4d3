-------------------- MODULE FilesystemAssetTargetProofs --------------------
(***************************************************************************)
(* Proofs about FilesystemAssetTarget where process ids are not reused,    *)
(* for every number of processes, assets, chunks, files and failures: only *)
(* verified bytes are ever stored, and the directory is a target the       *)
(* engine can rely on.  (Where ids are reused, it is not.)                 *)
(***************************************************************************)
EXTENDS FilesystemAssetTarget, SequenceTheorems, TLAPS

\* What the theorems are about.
FreshIds == ConstantsOK /\ ~ ReusesPids

----------------------------------------------------------------------------
(* The inductive invariant *)

\* The first n chunks of an asset.
Prefix(a, n) == [k \in 1 .. n |-> <<a, k>>]

\* The running processes have ids of their own, which nobody had before.
PidInv ==
  /\ Distinct(pid)
  /\ \A p \in Procs : pid[p] \notin retired

\* A temporary file was named by a process that is gone, or by one that counts on;
\* and no file has two such names.
TempInv ==
  /\ \A n \in DOMAIN temp :
       n[1] \in retired \/ \E p \in Procs : n[1] = pid[p] /\ n[2] < sequence[p]
  /\ \A n, k \in DOMAIN temp : temp[n] = temp[k] => n = k

Writing == {"Stream", "Linked", "NotLinked"}

\* The name a process writes under is its own.
OwnName(p) ==
  /\ pc[p] # "Idle" => Key(p) \in Assets
  /\ attempt[p].name # NoName /\ pc[p] \in Writing =>
       attempt[p].name[1] = pid[p] /\ attempt[p].name[2] < sequence[p]
  /\ pc[p] \in {"Idle", "Inspect", "InspectMetadata", "Read", "Open", "OpenMetadata"} =>
       attempt[p].name = NoName /\ attempt[p].sent = 0

\* The file a process streams into holds exactly what it has written, and is not
\* yet an object.
OwnFile(p) ==
  pc[p] = "Stream" =>
    LET name == attempt[p].name
    IN /\ name = NoName => attempt[p].sent = 0
       /\ name # NoName =>
            /\ name \in DOMAIN temp
            /\ content[temp[name]] = Prefix(Key(p), attempt[p].sent)
            /\ \A a \in Assets : object[a] # temp[name]

AttemptInv == \A p \in Procs : OwnName(p) /\ OwnFile(p)

\* What an inspection that found both files knows.
ReadyInv ==
  /\ ReadyStaysReady
  /\ \A p \in Procs : pc[p] = "Read" => Key(p) \in described

IInv ==
  /\ TypeOK
  /\ temp = [n \in DOMAIN temp |-> temp[n]]
  /\ PidInv
  /\ TempInv
  /\ AttemptInv
  /\ OnlyVerifiedBytes
  /\ ReadyInv

----------------------------------------------------------------------------
(* Bytes and names *)

LEMMA LengthType == FreshIds => \A a \in Assets : Length[a] \in Nat
BY DEF FreshIds, ConstantsOK

\* A sequence of chunks grows by the next one.
LEMMA PrefixFacts ==
  ASSUME NEW a \in Assets, NEW n \in Nat
  PROVE  /\ Prefix(a, n) \in Seq(Chunk)
         /\ Append(Prefix(a, n), <<a, n + 1>>) = Prefix(a, n + 1)
<1>1. \A k \in Nat : <<a, k>> \in Chunk
  BY DEF Chunk
<1>2. Prefix(a, n) \in [1 .. n -> Chunk] /\ Prefix(a, n + 1) \in [1 .. n + 1 -> Chunk]
  BY <1>1 DEF Prefix
<1>3. Prefix(a, n) \in Seq(Chunk) /\ Prefix(a, n + 1) \in Seq(Chunk)
  BY <1>2
<1>4. Len(Prefix(a, n)) = n /\ Len(Prefix(a, n + 1)) = n + 1
  BY <1>2, <1>3
<1>5. DEFINE longer == Append(Prefix(a, n), <<a, n + 1>>)
<1>6. longer \in Seq(Chunk) /\ Len(longer) = n + 1
  BY <1>1, <1>3, <1>4
<1>7. \A k \in 1 .. n + 1 : longer[k] = Prefix(a, n + 1)[k]
  <2> SUFFICES ASSUME NEW k \in 1 .. n + 1
               PROVE  longer[k] = Prefix(a, n + 1)[k]
    OBVIOUS
  <2>1. CASE k = n + 1
    BY <1>3, <1>4, <2>1 DEF Prefix
  <2>2. CASE k \in 1 .. n
    BY <1>3, <1>4, <2>2 DEF Prefix
  <2>3. k = n + 1 \/ k \in 1 .. n
    <3> HIDE DEF longer
    <3> QED
      OBVIOUS
  <2> QED
    BY <2>1, <2>2, <2>3
<1>8. longer = Prefix(a, n + 1)
  BY <1>3, <1>4, <1>6, <1>7, SeqEqual
<1> QED
  BY <1>3, <1>8

LEMMA FirstChunk ==
  ASSUME NEW a \in Assets
  PROVE  <<<<a, 1>>>> = Prefix(a, 1) /\ <<<<a, 1>>>> \in Seq(Chunk)
<1>1. <<a, 1>> \in Chunk
  BY DEF Chunk
<1>2. Prefix(a, 1) = [k \in 1 .. 1 |-> <<a, k>>]
  BY DEF Prefix
<1>3. Prefix(a, 1) \in Seq(Chunk) /\ Len(Prefix(a, 1)) = 1 /\ Prefix(a, 1)[1] = <<a, 1>>
  <2>1. Prefix(a, 1) \in [1 .. 1 -> Chunk]
    BY <1>1, <1>2
  <2> QED
    BY <1>2, <2>1
<1>4. <<<<a, 1>>>> \in Seq(Chunk)
  BY <1>1
<1>5. \A k \in 1 .. 1 : <<<<a, 1>>>>[k] = Prefix(a, 1)[k]
  BY <1>3
<1>6. <<<<a, 1>>>> = Prefix(a, 1)
  BY <1>3, <1>4, <1>5, SeqEqual
<1> QED
  BY <1>4, <1>6

\* What is known of a process that is handling an asset.
LEMMA ProcessFacts ==
  ASSUME FreshIds, IInv, NEW p \in Procs
  PROVE  /\ attempt[p] \in Attempts
         /\ attempt[p].name \in Names \cup {NoName} /\ attempt[p].sent \in Nat
         /\ pc[p] # "Idle" => Key(p) \in Assets /\ Length[Key(p)] \in Nat
         /\ pid[p] \in Pids /\ sequence[p] \in Nat \ {0}
         /\ <<pid[p], sequence[p]>> \in Names
         /\ <<pid[p], sequence[p]>> \notin DOMAIN temp
         /\ <<pid[p], sequence[p]>> # NoName
         /\ OwnName(p) /\ OwnFile(p)
<1>1. attempt[p] \in Attempts /\ pid[p] \in Pids /\ sequence[p] \in Nat \ {0}
      /\ OwnName(p) /\ OwnFile(p)
  BY DEF IInv, TypeOK, AttemptInv
<1>2. attempt[p].name \in Names \cup {NoName} /\ attempt[p].sent \in Nat
  BY <1>1 DEF Attempts
<1>3. pc[p] # "Idle" => Key(p) \in Assets /\ Length[Key(p)] \in Nat
  BY <1>1, LengthType DEF OwnName
<1>4. <<pid[p], sequence[p]>> \in Names
  BY <1>1 DEF Names
<1>5. <<pid[p], sequence[p]>> # NoName
  BY <1>4 DEF FreshIds, ConstantsOK
<1>6. ASSUME <<pid[p], sequence[p]>> \in DOMAIN temp
      PROVE  FALSE
  <2>1. pid[p] \notin retired
    BY DEF IInv, PidInv
  <2>2. PICK q \in Procs : pid[p] = pid[q] /\ sequence[p] < sequence[q]
    BY <1>6, <2>1 DEF IInv, TempInv
  <2>3. q = p
    BY <2>2 DEF IInv, PidInv, Distinct
  <2> QED
    BY <1>1, <2>2, <2>3
<1> QED
  BY <1>1, <1>2, <1>3, <1>4, <1>5, <1>6

\* Two processes never write under the same name, nor into the same file.
LEMMA NamesApart ==
  ASSUME FreshIds, IInv, NEW p \in Procs, NEW q \in Procs, p # q,
         pc[p] \in Writing, pc[q] = "Stream",
         attempt[p].name # NoName, attempt[q].name # NoName
  PROVE  /\ attempt[p].name # attempt[q].name
         /\ attempt[p].name \in DOMAIN temp => temp[attempt[p].name] # temp[attempt[q].name]
<1>1. attempt[p].name[1] = pid[p] /\ attempt[q].name[1] = pid[q]
  BY DEF IInv, AttemptInv, OwnName, Writing
<1>2. attempt[p].name # attempt[q].name
  BY <1>1 DEF IInv, PidInv, Distinct
<1>3. attempt[q].name \in DOMAIN temp
  BY DEF IInv, AttemptInv, OwnFile
<1> QED
  BY <1>2, <1>3 DEF IInv, TempInv

----------------------------------------------------------------------------
(* Steps that store nothing *)

PhaseSet == {"Idle", "Inspect", "InspectMetadata", "Read", "Open", "OpenMetadata",
             "Stream", "Linked", "NotLinked", "Describe", "Finished"}

\* An attempt goes on or ends ...
Moved(p, phase, next) ==
  /\ phase \in PhaseSet /\ pc' = [pc EXCEPT ![p] = phase]
  /\ next \in Attempts /\ attempt' = [attempt EXCEPT ![p] = next]
  /\ phase = "Stream" => next.sent <= Length[next.asset]
  /\ phase = "Read" => next.asset \in described'

\* ... it may lose a temporary name that nobody else streams into ...
Kept(p, kept) ==
  /\ kept \subseteq DOMAIN temp
  /\ temp' = [n \in kept |-> temp[n]]
  /\ \A q \in Procs \ {p} : pc[q] = "Stream" /\ attempt[q].name # NoName =>
       attempt[q].name \in kept

\* ... and complete the metadata of its asset, or find it ready.
NothingStored ==
  /\ UNCHANGED <<content, object, pid, retired>>
  /\ sequence' \in [Procs -> Nat \ {0}] /\ \A q \in Procs : sequence[q] <= sequence'[q]
  /\ described \subseteq described' /\ described' \subseteq Assets
  /\ ready' \subseteq Assets /\ \A a \in ready' \ ready : Intact(a) /\ a \in described
  /\ faults' \in 0 .. MaxFaults

LEMMA Moves ==
  ASSUME FreshIds, IInv, NEW p \in Procs, NEW phase, NEW next, NEW kept,
         Moved(p, phase, next), Kept(p, kept), NothingStored, OwnName(p)', OwnFile(p)'
  PROVE  IInv'
<1> USE DEF Moved, Kept, NothingStored
<1>1. /\ pc'[p] = phase /\ attempt'[p] = next
      /\ \A q \in Procs \ {p} : pc'[q] = pc[q] /\ attempt'[q] = attempt[q]
  BY DEF IInv, TypeOK
<1>2. DOMAIN temp' = kept /\ \A n \in kept : temp'[n] = temp[n]
  OBVIOUS
<1>3. TypeOK'
  <2>1. \A q \in Procs : pc'[q] = "Stream" => attempt'[q].sent <= Length[attempt'[q].asset]
    BY <1>1 DEF IInv, TypeOK, Key
  <2>2. DOMAIN temp' \subseteq Names /\ \A n \in DOMAIN temp' : temp'[n] \in Inodes
    BY <1>2 DEF IInv, TypeOK
  <2> QED
    BY <2>1, <2>2 DEF IInv, TypeOK, PhaseSet, Key
<1>4. (temp = [n \in DOMAIN temp |-> temp[n]])'
  BY <1>2
<1>5. PidInv'
  BY DEF IInv, PidInv, Distinct
<1>6. TempInv'
  <2>1. \A n \in kept : n[1] \in retired \/
          \E q \in Procs : n[1] = pid[q] /\ n[2] < sequence'[q]
    <3> SUFFICES ASSUME NEW n \in kept, n[1] \notin retired
                 PROVE  \E q \in Procs : n[1] = pid[q] /\ n[2] < sequence'[q]
      OBVIOUS
    <3>1. PICK q \in Procs : n[1] = pid[q] /\ n[2] < sequence[q]
      BY DEF IInv, TempInv
    <3>2. n[2] \in Nat /\ sequence[q] \in Nat /\ sequence'[q] \in Nat
      BY DEF IInv, TypeOK, Names
    <3> QED
      BY <3>1, <3>2
  <2> QED
    BY <1>2, <2>1 DEF IInv, TempInv
<1>7. AttemptInv'
  <2> SUFFICES ASSUME NEW q \in Procs, q # p
               PROVE  (OwnName(q) /\ OwnFile(q))'
    BY DEF AttemptInv
  <2>1. OwnName(q) /\ OwnFile(q) /\ pc'[q] = pc[q] /\ attempt'[q] = attempt[q]
    BY <1>1 DEF IInv, AttemptInv
  <2>2. OwnName(q)'
    <3>1. ASSUME attempt[q].name # NoName, pc[q] \in Writing
          PROVE  attempt[q].name[2] < sequence'[q]
      <4>1. attempt[q].name \in Names
        BY <3>1, ProcessFacts
      <4>2. attempt[q].name[2] \in Nat /\ sequence[q] \in Nat /\ sequence'[q] \in Nat
        BY <4>1 DEF IInv, TypeOK, Names
      <4>3. attempt[q].name[2] < sequence[q]
        BY <2>1, <3>1 DEF OwnName
      <4> QED
        BY <4>2, <4>3
    <3> QED
      BY <2>1, <3>1 DEF OwnName, Key
  <2>3. OwnFile(q)'
    BY <1>2, <2>1 DEF OwnFile, Key
  <2> QED
    BY <2>2, <2>3
<1>8. OnlyVerifiedBytes'
  BY DEF IInv, OnlyVerifiedBytes, Intact
<1>9. ReadyInv'
  <2>1. \A a \in ready' : Intact(a)' /\ a \in described'
    BY DEF IInv, ReadyInv, ReadyStaysReady, Intact
  <2> QED
    BY <1>1, <2>1 DEF IInv, ReadyInv, ReadyStaysReady, Key
<1> QED
  BY <1>3, <1>4, <1>5, <1>6, <1>7, <1>8, <1>9 DEF IInv

\* The same, where the files stay as they are and nothing is being streamed.
Quiet(p, phase, next) ==
  /\ phase \in PhaseSet \ Writing /\ pc' = [pc EXCEPT ![p] = phase]
  /\ next \in Attempts /\ attempt' = [attempt EXCEPT ![p] = next]
  /\ phase # "Idle" => next.asset \in Assets
  /\ phase = "Read" => next.asset \in described
  /\ phase \in {"Idle", "Inspect", "InspectMetadata", "Read", "Open", "OpenMetadata"} =>
       next.name = NoName /\ next.sent = 0

LEMMA QuietMove ==
  ASSUME FreshIds, IInv, NEW p \in Procs,
         NEW phase, NEW next, Quiet(p, phase, next),
         UNCHANGED <<directory, process, retired>>,
         ready' \subseteq Assets, \A a \in ready' \ ready : Intact(a) /\ a \in described,
         faults' \in 0 .. MaxFaults
  PROVE  IInv'
<1> USE DEF directory, process, Quiet
<1>1. pc'[p] = phase /\ attempt'[p] = next
  BY DEF IInv, TypeOK
<1>2. OwnName(p)' /\ OwnFile(p)'
  BY <1>1 DEF OwnName, OwnFile, Key, Writing
<1>3. Moved(p, phase, next)
  BY DEF Moved, Writing
<1>4. Kept(p, DOMAIN temp)
  <2>1. temp' = [n \in DOMAIN temp |-> temp[n]]
    BY DEF IInv
  <2>2. \A q \in Procs \ {p} : pc[q] = "Stream" /\ attempt[q].name # NoName =>
          attempt[q].name \in DOMAIN temp
    BY DEF IInv, AttemptInv, OwnFile
  <2> QED
    BY <2>1, <2>2 DEF Kept
<1>5. NothingStored
  <2>1. sequence' \in [Procs -> Nat \ {0}] /\ \A q \in Procs : sequence[q] <= sequence'[q]
    BY DEF IInv, TypeOK
  <2>2. described \subseteq described' /\ described' \subseteq Assets
    BY DEF IInv, TypeOK
  <2> QED
    BY <2>1, <2>2 DEF NothingStored
<1> HIDE DEF directory, process, Quiet
<1> QED
  BY <1>2, <1>3, <1>4, <1>5, Moves

LEMMA NoAttemptType ==
  FreshIds => NoAttempt \in Attempts /\ NoAttempt.name = NoName /\ NoAttempt.sent = 0
BY DEF NoAttempt, Attempts

LEMMA ReturnMove ==
  ASSUME FreshIds, IInv, NEW p \in Procs, Return(p),
         UNCHANGED <<directory, process, retired>>,
         ready' \subseteq Assets, \A a \in ready' \ ready : Intact(a) /\ a \in described,
         faults' \in 0 .. MaxFaults
  PROVE  IInv'
<1> PICK phase \in PhaseSet \ Writing : phase = "Idle"
  BY DEF PhaseSet, Writing
<1> PICK next \in Attempts : next = NoAttempt
  BY NoAttemptType
<1>1. Quiet(p, phase, next)
  BY NoAttemptType DEF Quiet, Return, Goto
<1> QED
  BY <1>1, QuietMove

LEMMA BeginStep ==
  ASSUME FreshIds, IInv, NEW p \in Procs, NEW a \in Assets, Begin(p, a)
  PROVE  IInv'
<1>1. /\ attempt[p] \in Attempts /\ pc[p] = "Idle" /\ OwnName(p)
  BY ProcessFacts DEF Begin
<1> PICK next : next = [attempt[p] EXCEPT !.asset = a]
  OBVIOUS
<1> PICK phase \in PhaseSet \ Writing : phase = "Inspect"
  BY DEF PhaseSet, Writing
<1>2. /\ next \in Attempts /\ next.asset = a
      /\ next.name = attempt[p].name /\ next.sent = attempt[p].sent
  BY <1>1 DEF Attempts
<1>3. next.name = NoName /\ next.sent = 0
  BY <1>1, <1>2 DEF OwnName
<1>4. /\ attempt' = [attempt EXCEPT ![p] = next] /\ pc' = [pc EXCEPT ![p] = phase]
      /\ UNCHANGED <<directory, process, retired, ready, faults>>
  BY DEF Begin, Goto, history, IInv, TypeOK
<1>5. ready' \subseteq Assets /\ faults' \in 0 .. MaxFaults
  BY <1>4 DEF IInv, TypeOK
<1>6. Quiet(p, phase, next)
  BY <1>2, <1>3, <1>4 DEF Quiet
<1> QED
  BY <1>4, <1>5, <1>6, QuietMove

\* An action that only moves on, or ends the attempt.
LEMMA GotoMove ==
  ASSUME FreshIds, IInv, NEW p \in Procs, NEW phase \in PhaseSet \ Writing, Goto(p, phase),
         pc[p] \notin Writing \cup {"Idle", "Describe", "Finished"},
         phase = "Read" => Key(p) \in described,
         UNCHANGED <<directory, process, attempt, history, faults>>
  PROVE  IInv'
<1>1. attempt[p] \in Attempts /\ Key(p) \in Assets /\ OwnName(p) /\ pc[p] \in PhaseSet
  BY ProcessFacts DEF IInv, TypeOK, PhaseSet
<1> PICK next \in Attempts : next = attempt[p]
  BY <1>1
<1>2. next.asset = Key(p) /\ next.name = NoName /\ next.sent = 0
  BY <1>1 DEF OwnName, Key, PhaseSet, Writing
<1>3. attempt' = [attempt EXCEPT ![p] = next] /\ pc' = [pc EXCEPT ![p] = phase]
  BY DEF Goto, IInv, TypeOK
<1>4. /\ UNCHANGED <<directory, process, retired, ready, faults>>
      /\ ready' \subseteq Assets /\ faults' \in 0 .. MaxFaults
  BY DEF history, IInv, TypeOK
<1>5. Quiet(p, phase, next)
  BY <1>1, <1>2, <1>3 DEF Quiet
<1> QED
  BY <1>4, <1>5, QuietMove

LEMMA EndMove ==
  ASSUME FreshIds, IInv, NEW p \in Procs, Return(p),
         UNCHANGED <<directory, process, history, faults>>
  PROVE  IInv'
<1>1. UNCHANGED <<retired, ready>> /\ ready' \subseteq Assets /\ faults' \in 0 .. MaxFaults
  BY DEF history, IInv, TypeOK
<1> QED
  BY <1>1, ReturnMove

LEMMA LookForObjectStep ==
  ASSUME FreshIds, IInv, NEW p \in Procs, LookForObject(p)
  PROVE  IInv'
<1>1. attempt[p] \in Attempts /\ Key(p) \in Assets /\ OwnName(p)
  BY ProcessFacts DEF LookForObject
<1> PICK next : next = [attempt[p] EXCEPT !.exists = (object[Key(p)] # NoFile)]
  OBVIOUS
<1> PICK phase \in PhaseSet \ Writing :
       phase = IF pc[p] = "Inspect" THEN "InspectMetadata" ELSE "OpenMetadata"
  BY DEF PhaseSet, Writing
<1>2. /\ next \in Attempts /\ next.asset = Key(p)
      /\ next.name = attempt[p].name /\ next.sent = attempt[p].sent
  BY <1>1 DEF Attempts, Key
<1>3. next.name = NoName /\ next.sent = 0
  BY <1>1, <1>2 DEF OwnName, LookForObject
<1>4. /\ attempt' = [attempt EXCEPT ![p] = next] /\ pc' = [pc EXCEPT ![p] = phase]
      /\ UNCHANGED <<directory, process, retired, ready, faults>>
  BY DEF LookForObject, Goto, history, IInv, TypeOK
<1>5. ready' \subseteq Assets /\ faults' \in 0 .. MaxFaults
  BY <1>4 DEF IInv, TypeOK
<1>6. Quiet(p, phase, next)
  BY <1>1, <1>2, <1>3, <1>4 DEF Quiet
<1> QED
  BY <1>4, <1>5, <1>6, QuietMove

LEMMA InspectMetadataStep ==
  ASSUME FreshIds, IInv, NEW p \in Procs, InspectMetadata(p)
  PROVE  IInv'
<1>1. pc[p] = "InspectMetadata" /\ UNCHANGED <<directory, process, history, faults>>
  BY DEF InspectMetadata
<1>2. CASE Goto(p, "Read") /\ Key(p) \in described /\ UNCHANGED attempt
  BY <1>1, <1>2, GotoMove DEF PhaseSet, Writing
<1>3. CASE Goto(p, "Open") /\ UNCHANGED attempt
  BY <1>1, <1>3, GotoMove DEF PhaseSet, Writing
<1>4. CASE Return(p)
  BY <1>1, <1>4, EndMove
<1> QED
  BY <1>2, <1>3, <1>4 DEF InspectMetadata

LEMMA ReadObjectStep ==
  ASSUME FreshIds, IInv, NEW p \in Procs, ReadObject(p)
  PROVE  IInv'
<1>1. /\ pc[p] = "Read" /\ Return(p) /\ UNCHANGED <<directory, process, retired, faults>>
      /\ ready' = IF Intact(Key(p)) THEN ready \cup {Key(p)} ELSE ready
  BY DEF ReadObject
<1>2. Key(p) \in Assets /\ Key(p) \in described
  BY <1>1, ProcessFacts DEF IInv, ReadyInv
<1>3. ready' \subseteq Assets /\ \A a \in ready' \ ready : Intact(a) /\ a \in described
  BY <1>1, <1>2 DEF IInv, TypeOK
<1>4. faults' \in 0 .. MaxFaults
  BY <1>1 DEF IInv, TypeOK
<1> QED
  BY <1>1, <1>3, <1>4, ReturnMove

LEMMA OpenWriterStep ==
  ASSUME FreshIds, IInv, NEW p \in Procs, OpenWriter(p)
  PROVE  IInv'
<1>1. pc[p] = "OpenMetadata" /\ UNCHANGED <<directory, process, history, faults>>
  BY DEF OpenWriter
<1>2. CASE Goto(p, IF Key(p) \in described THEN "Finished" ELSE "Describe") /\ UNCHANGED attempt
  <2> PICK phase \in PhaseSet \ Writing :
         phase = IF Key(p) \in described THEN "Finished" ELSE "Describe"
    BY DEF PhaseSet, Writing
  <2> QED
    BY <1>1, <1>2, GotoMove DEF Writing
<1>3. CASE Goto(p, "Stream") /\ UNCHANGED attempt
  <2>1. /\ attempt[p] \in Attempts /\ Key(p) \in Assets /\ Length[Key(p)] \in Nat
        /\ OwnName(p)
    BY <1>1, ProcessFacts
  <2> PICK next \in Attempts : next = attempt[p]
    BY <2>1
  <2> PICK phase \in PhaseSet : phase = "Stream"
    BY DEF PhaseSet
  <2>2. next.asset = Key(p) /\ next.name = NoName /\ next.sent = 0
    BY <1>1, <2>1 DEF OwnName, Key
  <2>3. attempt' = [attempt EXCEPT ![p] = next] /\ pc' = [pc EXCEPT ![p] = phase]
    BY <1>3 DEF Goto, IInv, TypeOK
  <2>4. pc'[p] = "Stream" /\ attempt'[p] = next
    BY <2>3 DEF IInv, TypeOK
  <2>5. OwnName(p)' /\ OwnFile(p)'
    BY <2>1, <2>2, <2>4 DEF OwnName, OwnFile, Key
  <2>6. Kept(p, DOMAIN temp)
    <3>1. temp' = [n \in DOMAIN temp |-> temp[n]]
      BY <1>1 DEF IInv, directory
    <3>2. \A q \in Procs \ {p} : pc[q] = "Stream" /\ attempt[q].name # NoName =>
            attempt[q].name \in DOMAIN temp
      BY DEF IInv, AttemptInv, OwnFile
    <3> QED
      BY <3>1, <3>2 DEF Kept
  <2>7. NothingStored
    <3>1. /\ UNCHANGED <<content, object, pid, retired, sequence, described, ready, faults>>
          /\ sequence \in [Procs -> Nat \ {0}] /\ described \subseteq Assets
          /\ ready \subseteq Assets /\ faults \in 0 .. MaxFaults
      BY <1>1 DEF IInv, TypeOK, directory, process, history
    <3>2. \A q \in Procs : sequence[q] <= sequence[q]
      BY <3>1
    <3> QED
      BY <3>1, <3>2 DEF NothingStored
  <2>8. Moved(p, phase, next)
    BY <2>1, <2>2, <2>3 DEF Moved
  <2> QED
    BY <2>5, <2>6, <2>7, <2>8, Moves
<1>4. CASE Return(p)
  BY <1>1, <1>4, EndMove
<1> QED
  BY <1>2, <1>3, <1>4 DEF OpenWriter

LEMMA ReinspectStep ==
  ASSUME FreshIds, IInv, NEW p \in Procs, Reinspect(p)
  PROVE  IInv'
<1>1. Key(p) \in Assets
  BY ProcessFacts DEF Reinspect
<1> PICK next : next = [NoAttempt EXCEPT !.asset = Key(p), !.placed = TRUE]
  OBVIOUS
<1> PICK phase \in PhaseSet \ Writing : phase = "Inspect"
  BY DEF PhaseSet, Writing
<1>2. next \in Attempts /\ next.asset = Key(p) /\ next.name = NoName /\ next.sent = 0
  BY <1>1 DEF NoAttempt, Attempts
<1>3. /\ attempt' = [attempt EXCEPT ![p] = next] /\ pc' = [pc EXCEPT ![p] = phase]
      /\ UNCHANGED <<directory, process, retired, ready, faults>>
  BY DEF Reinspect, Goto, history
<1>4. ready' \subseteq Assets /\ faults' \in 0 .. MaxFaults
  BY <1>3 DEF IInv, TypeOK
<1>5. Quiet(p, phase, next)
  BY <1>1, <1>2, <1>3 DEF Quiet
<1> QED
  BY <1>3, <1>4, <1>5, QuietMove

LEMMA FailStep ==
  ASSUME FreshIds, IInv, NEW p \in Procs, Fail(p)
  PROVE  IInv'
<1>1. Return(p) /\ UNCHANGED <<directory, process, retired, ready>>
  BY DEF Fail, history
<1>2. faults' \in 0 .. MaxFaults /\ ready' \subseteq Assets
  BY <1>1 DEF Fail, Fault, FreshIds, ConstantsOK, IInv, TypeOK
<1> QED
  BY <1>1, <1>2, ReturnMove

LEMMA RemoveTemporaryStep ==
  ASSUME FreshIds, IInv, NEW p \in Procs, RemoveTemporary(p)
  PROVE  IInv'
<1>1. /\ pc[p] \in Writing \ {"Stream"} /\ attempt[p] \in Attempts
      /\ Key(p) \in Assets /\ OwnName(p)
  BY ProcessFacts DEF RemoveTemporary, Writing
<1> PICK kept : /\ kept \in {DOMAIN temp, DOMAIN temp \ {attempt[p].name}}
                /\ temp' = [n \in kept |-> temp[n]]
  <2>1. temp = [n \in DOMAIN temp |-> temp[n]]
    BY DEF IInv
  <2> QED
    BY <2>1 DEF RemoveTemporary
<1>2. Kept(p, kept)
  <2>1. ASSUME NEW q \in Procs \ {p}, pc[q] = "Stream", attempt[q].name # NoName
        PROVE  attempt[q].name \in kept
    <3>1. attempt[q].name \in DOMAIN temp
      BY <2>1 DEF IInv, AttemptInv, OwnFile
    <3>2. attempt[q].name # attempt[p].name
      BY <1>1, <2>1, NamesApart
    <3> QED
      BY <3>1, <3>2
  <2> QED
    BY <2>1 DEF Kept
<1>3. NothingStored
  <2>1. /\ UNCHANGED <<content, object, pid, retired, sequence, described, ready>>
        /\ sequence \in [Procs -> Nat \ {0}] /\ described \subseteq Assets
        /\ ready \subseteq Assets
    BY DEF RemoveTemporary, IInv, TypeOK, process, history
  <2>2. \A q \in Procs : sequence[q] <= sequence[q]
    BY <2>1
  <2>3. faults' \in 0 .. MaxFaults
    BY DEF RemoveTemporary, IInv, TypeOK, FreshIds, ConstantsOK
  <2> QED
    BY <2>1, <2>2, <2>3 DEF NothingStored
<1>4. CASE Goto(p, "Describe") /\ UNCHANGED attempt
  <2> PICK phase : phase = "Describe"
    OBVIOUS
  <2> PICK next \in Attempts : next = attempt[p]
    BY <1>1
  <2>1. attempt' = [attempt EXCEPT ![p] = next] /\ pc' = [pc EXCEPT ![p] = phase]
    BY <1>4 DEF Goto, IInv, TypeOK
  <2>2. Moved(p, phase, next)
    BY <2>1 DEF Moved, PhaseSet
  <2>3. pc'[p] = "Describe" /\ attempt'[p] = attempt[p]
    BY <2>1 DEF IInv, TypeOK
  <2>4. OwnName(p)' /\ OwnFile(p)'
    BY <1>1, <2>3 DEF OwnName, OwnFile, Key, Writing
  <2> QED
    BY <1>2, <1>3, <2>2, <2>4, Moves
<1>5. CASE Return(p)
  <2> PICK phase : phase = "Idle"
    OBVIOUS
  <2> PICK next \in Attempts : next = NoAttempt
    BY NoAttemptType
  <2>1. attempt' = [attempt EXCEPT ![p] = next] /\ pc' = [pc EXCEPT ![p] = phase]
    BY <1>5 DEF Return, Goto
  <2>2. Moved(p, phase, next)
    BY <2>1 DEF Moved, PhaseSet
  <2>3. pc'[p] = "Idle" /\ attempt'[p] = NoAttempt
    BY <2>1 DEF IInv, TypeOK
  <2>4. OwnName(p)' /\ OwnFile(p)'
    BY <2>3, NoAttemptType DEF OwnName, OwnFile, Key, Writing
  <2> QED
    BY <1>2, <1>3, <2>2, <2>4, Moves
<1> QED
  BY <1>4, <1>5 DEF RemoveTemporary

LEMMA DescribeStep ==
  ASSUME FreshIds, IInv, NEW p \in Procs, Describe(p)
  PROVE  IInv'
<1>1. pc[p] = "Describe" /\ attempt[p] \in Attempts /\ Key(p) \in Assets
  BY ProcessFacts DEF Describe
<1> PICK phase : phase = "Finished"
  OBVIOUS
<1> PICK next \in Attempts : next = attempt[p]
  BY <1>1
<1>2. attempt' = [attempt EXCEPT ![p] = next] /\ pc' = [pc EXCEPT ![p] = phase]
  BY DEF Describe, Goto, IInv, TypeOK
<1>3. Moved(p, phase, next)
  BY <1>2 DEF Moved, PhaseSet
<1>4. pc'[p] = "Finished" /\ attempt'[p] = attempt[p]
  BY <1>2 DEF IInv, TypeOK
<1>5. OwnName(p)' /\ OwnFile(p)'
  BY <1>1, <1>4 DEF OwnName, OwnFile, Key, Writing
<1>6. Kept(p, DOMAIN temp)
  <2>1. temp' = [n \in DOMAIN temp |-> temp[n]]
    BY DEF IInv, Describe
  <2>2. \A q \in Procs \ {p} : pc[q] = "Stream" /\ attempt[q].name # NoName =>
          attempt[q].name \in DOMAIN temp
    BY DEF IInv, AttemptInv, OwnFile
  <2> QED
    BY <2>1, <2>2 DEF Kept
<1>7. NothingStored
  <2>1. /\ UNCHANGED <<content, object, pid, retired, ready, faults>>
        /\ ready \subseteq Assets /\ faults \in 0 .. MaxFaults
    BY DEF Describe, IInv, TypeOK, history
  <2>2. /\ sequence' \in [Procs -> Nat \ {0}]
        /\ \A q \in Procs : sequence[q] <= sequence'[q]
    BY DEF Describe, IInv, TypeOK
  <2>3. described \subseteq described' /\ described' \subseteq Assets
    BY <1>1 DEF Describe, IInv, TypeOK
  <2> QED
    BY <2>1, <2>2, <2>3 DEF NothingStored
<1> QED
  BY <1>3, <1>5, <1>6, <1>7, Moves

----------------------------------------------------------------------------
(* Steps that store something, or end a process *)

\* The path a process writes to is its own, and there is a file only if it made it.
LEMMA PathFacts ==
  ASSUME FreshIds, IInv, NEW p \in Procs, pc[p] = "Stream", CountTemporary(p)
  PROVE  /\ TemporaryPath(p) \in Names /\ TemporaryPath(p) # NoName
         /\ TemporaryPath(p)[1] = pid[p] /\ TemporaryPath(p)[2] < sequence'[p]
         /\ TemporaryPath(p) \in DOMAIN temp <=> attempt[p].name # NoName
         /\ attempt[p].name # NoName => TemporaryPath(p) = attempt[p].name
         /\ sequence' \in [Procs -> Nat \ {0}]
         /\ \A q \in Procs : sequence[q] <= sequence'[q]
         /\ \A q \in Procs \ {p} : sequence'[q] = sequence[q]
<1>1. sequence[p] \in Nat \ {0} /\ OwnName(p) /\ OwnFile(p) /\ attempt[p].name \in Names \cup {NoName}
  BY ProcessFacts DEF IInv, TypeOK
<1>2. /\ sequence' \in [Procs -> Nat \ {0}]
      /\ \A q \in Procs : sequence[q] <= sequence'[q]
      /\ \A q \in Procs \ {p} : sequence'[q] = sequence[q]
  BY DEF CountTemporary, IInv, TypeOK
<1>3. CASE attempt[p].name = NoName
  <2>1. TemporaryPath(p) = <<pid[p], sequence[p]>> /\ sequence'[p] = sequence[p] + 1
    BY <1>3 DEF TemporaryPath, CountTemporary, IInv, TypeOK
  <2>2. <<pid[p], sequence[p]>> \in Names /\ <<pid[p], sequence[p]>> # NoName
        /\ <<pid[p], sequence[p]>> \notin DOMAIN temp
    BY ProcessFacts
  <2>3. <<pid[p], sequence[p]>>[1] = pid[p] /\ <<pid[p], sequence[p]>>[2] = sequence[p]
    OBVIOUS
  <2> QED
    BY <1>1, <1>2, <1>3, <2>1, <2>2, <2>3
<1>4. CASE attempt[p].name # NoName
  <2>1. TemporaryPath(p) = attempt[p].name /\ sequence'[p] = sequence[p]
    BY <1>4 DEF TemporaryPath, CountTemporary, IInv, TypeOK
  <2> QED
    BY <1>1, <1>2, <1>4, <2>1 DEF OwnName, OwnFile, Writing
<1> QED
  BY <1>3, <1>4

\* The names of files stay apart while the counters grow.
LEMMA OldNames ==
  ASSUME FreshIds, IInv, NEW n \in DOMAIN temp, UNCHANGED <<pid, retired>>,
         sequence' \in [Procs -> Nat \ {0}], \A q \in Procs : sequence[q] <= sequence'[q]
  PROVE  n[1] \in retired' \/ \E q \in Procs : n[1] = pid'[q] /\ n[2] < sequence'[q]
<1> SUFFICES ASSUME n[1] \notin retired
             PROVE  \E q \in Procs : n[1] = pid[q] /\ n[2] < sequence'[q]
  OBVIOUS
<1>1. PICK q \in Procs : n[1] = pid[q] /\ n[2] < sequence[q]
  BY DEF IInv, TempInv
<1>2. n[2] \in Nat /\ sequence[q] \in Nat /\ sequence'[q] \in Nat
  BY DEF IInv, TypeOK, Names
<1> QED
  BY <1>1, <1>2

LEMMA LinkObjectStep ==
  ASSUME FreshIds, IInv, NEW p \in Procs, LinkObject(p)
  PROVE  IInv'
<1> PICK path : path = TemporaryPath(p)
  OBVIOUS
<1>1. /\ pc[p] = "Stream" /\ attempt[p].sent = Length[Key(p)]
      /\ CountTemporary(p) /\ UNCHANGED <<content, temp, described, pid, history, faults>>
      /\ attempt' = [attempt EXCEPT ![p].name = path]
  BY DEF LinkObject
<1>2. /\ attempt[p] \in Attempts /\ Key(p) \in Assets /\ Length[Key(p)] \in Nat
      /\ OwnName(p) /\ OwnFile(p)
  BY <1>1, ProcessFacts DEF IInv, AttemptInv
<1>3. /\ path \in Names /\ path # NoName /\ path[1] = pid[p] /\ path[2] < sequence'[p]
      /\ path \in DOMAIN temp <=> attempt[p].name # NoName
      /\ attempt[p].name # NoName => path = attempt[p].name
      /\ sequence' \in [Procs -> Nat \ {0}]
      /\ \A q \in Procs : sequence[q] <= sequence'[q]
      /\ \A q \in Procs \ {p} : sequence'[q] = sequence[q]
  BY <1>1, PathFacts
<1>4. PICK phase \in {"Linked", "NotLinked"} : pc' = [pc EXCEPT ![p] = phase]
  BY DEF LinkObject, Goto
<1>5. \/ UNCHANGED object
      \/ /\ path \in DOMAIN temp /\ object[Key(p)] = NoFile
         /\ object' = [object EXCEPT ![Key(p)] = temp[path]]
  BY DEF LinkObject
<1>6. /\ pc' \in [Procs -> PhaseSet] /\ pc'[p] = phase
      /\ \A q \in Procs \ {p} : pc'[q] = pc[q] /\ attempt'[q] = attempt[q]
      /\ attempt' \in [Procs -> Attempts] /\ attempt'[p].name = path
      /\ attempt'[p].asset = Key(p)
  <2>1. [attempt[p] EXCEPT !.name = path] \in Attempts
    BY <1>2, <1>3 DEF Attempts
  <2>2. pc' \in [Procs -> PhaseSet] /\ pc'[p] = phase
    BY <1>4 DEF IInv, TypeOK, PhaseSet
  <2>3. /\ attempt' \in [Procs -> Attempts]
        /\ attempt'[p] = [attempt[p] EXCEPT !.name = path]
        /\ \A q \in Procs \ {p} : attempt'[q] = attempt[q]
    BY <1>1, <2>1 DEF IInv, TypeOK
  <2>4. \A q \in Procs \ {p} : pc'[q] = pc[q]
    BY <1>4 DEF IInv, TypeOK
  <2>5. /\ [attempt[p] EXCEPT !.name = path].name = path
        /\ [attempt[p] EXCEPT !.name = path].asset = Key(p)
    BY <1>2 DEF Attempts, Key
  <2> QED
    BY <2>2, <2>3, <2>4, <2>5
<1>7. path \in DOMAIN temp => content[temp[path]] = Frozen(Key(p))
  BY <1>1, <1>2, <1>3 DEF OwnFile, Prefix, Frozen
<1>8. /\ object' \in [Assets -> Inodes \cup {NoFile}]
      /\ \A a \in Assets : object[a] # NoFile => object'[a] = object[a]
      /\ \A a \in Assets : object'[a] # object[a] =>
           a = Key(p) /\ path \in DOMAIN temp /\ object'[a] = temp[path]
  <2>1. object \in [Assets -> Inodes \cup {NoFile}]
    BY DEF IInv, TypeOK
  <2>2. CASE UNCHANGED object
    BY <2>1, <2>2
  <2>3. CASE /\ path \in DOMAIN temp /\ object[Key(p)] = NoFile
             /\ object' = [object EXCEPT ![Key(p)] = temp[path]]
    <3> PICK key \in Assets : key = Key(p)
      BY <1>2
    <3> PICK file \in Inodes : file = temp[path]
      BY <2>3 DEF IInv, TypeOK
    <3>1. object' = [object EXCEPT ![key] = file] /\ object[key] = NoFile
      BY <2>3
    <3>2. object' \in [Assets -> Inodes \cup {NoFile}]
      BY <2>1, <3>1
    <3>3. object'[key] = file /\ \A a \in Assets \ {key} : object'[a] = object[a]
      BY <2>1, <3>1
    <3> QED
      BY <2>3, <3>1, <3>2, <3>3
  <2> QED
    BY <1>5, <2>2, <2>3
<1>9. TypeOK'
  <2>1. \A q \in Procs : pc'[q] = "Stream" => attempt'[q].sent <= Length[attempt'[q].asset]
    BY <1>6 DEF IInv, TypeOK, Key
  <2> QED
    BY <1>1, <1>3, <1>6, <1>8, <2>1 DEF IInv, TypeOK, PhaseSet, Key, history
<1>10. (temp = [n \in DOMAIN temp |-> temp[n]])'
  BY <1>1 DEF IInv
<1>11. PidInv'
  BY <1>1 DEF IInv, PidInv, Distinct, history
<1>12. TempInv'
  <2>1. \A n \in DOMAIN temp : n[1] \in retired' \/
          \E q \in Procs : n[1] = pid'[q] /\ n[2] < sequence'[q]
    BY <1>1, <1>3, OldNames DEF history
  <2> QED
    BY <1>1, <2>1 DEF IInv, TempInv
<1>13. AttemptInv'
  <2> SUFFICES ASSUME NEW q \in Procs
               PROVE  (OwnName(q) /\ OwnFile(q))'
    BY DEF AttemptInv
  <2>1. CASE q = p
    <3>1. OwnName(p)'
      BY <1>1, <1>2, <1>3, <1>6 DEF OwnName, Key
    <3>2. OwnFile(p)'
      BY <1>6 DEF OwnFile
    <3> QED
      BY <2>1, <3>1, <3>2
  <2>2. CASE q # p
    <3>1. OwnName(q) /\ OwnFile(q) /\ pc'[q] = pc[q] /\ attempt'[q] = attempt[q]
          /\ sequence'[q] = sequence[q]
      BY <1>3, <1>6, <2>2 DEF IInv, AttemptInv
    <3>2. OwnName(q)'
      BY <1>1, <3>1 DEF OwnName, Key
    <3>3. OwnFile(q)'
      <4> SUFFICES ASSUME pc[q] = "Stream"
                   PROVE  OwnFile(q)'
        BY <3>1 DEF OwnFile
      <4>1. CASE attempt[q].name = NoName
        BY <3>1, <4>1 DEF OwnFile
      <4>2. CASE attempt[q].name # NoName
        <5>1. path \in DOMAIN temp => temp[path] # temp[attempt[q].name]
          BY <1>1, <1>3, <2>2, <4>2, NamesApart DEF Writing
        <5>2. /\ attempt[q].name \in DOMAIN temp
              /\ content[temp[attempt[q].name]] = Prefix(Key(q), attempt[q].sent)
              /\ \A a \in Assets : object[a] # temp[attempt[q].name]
          BY <3>1, <4>2 DEF OwnFile
        <5>3. \A a \in Assets : object'[a] # temp[attempt[q].name]
          BY <1>8, <5>1, <5>2
        <5> QED
          BY <1>1, <3>1, <4>2, <5>2, <5>3 DEF OwnFile, Key
      <4> QED
        BY <4>1, <4>2
    <3> QED
      BY <3>2, <3>3
  <2> QED
    BY <2>1, <2>2
<1>14. OnlyVerifiedBytes'
  BY <1>1, <1>7, <1>8 DEF IInv, OnlyVerifiedBytes, Intact
<1>15. ReadyInv'
  <2>1. \A a \in ready' : Intact(a)' /\ a \in described'
    BY <1>1, <1>8 DEF IInv, TypeOK, ReadyInv, ReadyStaysReady, Intact, history
  <2> QED
    BY <1>1, <1>6, <2>1 DEF IInv, ReadyInv, ReadyStaysReady, Key
<1> QED
  BY <1>9, <1>10, <1>11, <1>12, <1>13, <1>14, <1>15 DEF IInv

\* The files, after one chunk more.
LEMMA WriteChunkFiles ==
  ASSUME FreshIds, IInv, NEW p \in Procs, WriteChunk(p)
  PROVE  LET path == TemporaryPath(p)
         IN /\ content' \in [Inodes -> Seq(Chunk)]
            /\ DOMAIN temp' = DOMAIN temp \cup {path}
            /\ temp' = [n \in DOMAIN temp' |-> temp'[n]]
            /\ temp'[path] \in Inodes
            /\ \A n \in DOMAIN temp : temp'[n] = temp[n]
            /\ path \notin DOMAIN temp => \A n \in DOMAIN temp : temp[n] # temp'[path]
            /\ \A a \in Assets : object[a] # temp'[path]
            /\ content'[temp'[path]] = Prefix(Key(p), attempt[p].sent + 1)
            /\ \A file \in Inodes : file # temp'[path] => content'[file] = content[file]
<1> PICK path : path = TemporaryPath(p)
  OBVIOUS
<1> PICK chunk : chunk = <<Key(p), attempt[p].sent + 1>>
  OBVIOUS
<1>1. pc[p] = "Stream" /\ CountTemporary(p)
  BY DEF WriteChunk
<1>2. /\ Key(p) \in Assets /\ attempt[p].sent \in Nat /\ OwnFile(p)
  BY <1>1, ProcessFacts DEF IInv, AttemptInv
<1>3. /\ path \in DOMAIN temp <=> attempt[p].name # NoName
      /\ attempt[p].name # NoName => path = attempt[p].name
  BY <1>1, PathFacts
<1>4. content \in [Inodes -> Seq(Chunk)] /\ \A n \in DOMAIN temp : temp[n] \in Inodes
  BY DEF IInv, TypeOK
<1>5. temp = [n \in DOMAIN temp |-> temp[n]]
  BY DEF IInv
<1>6. CASE /\ path \in DOMAIN temp
           /\ content' = [content EXCEPT ![temp[path]] = Append(@, chunk)]
           /\ UNCHANGED temp
  <2>1. /\ content[temp[path]] = Prefix(Key(p), attempt[p].sent)
        /\ \A a \in Assets : object[a] # temp[path]
    BY <1>1, <1>2, <1>3, <1>6 DEF OwnFile
  <2>2. /\ Append(content[temp[path]], chunk) = Prefix(Key(p), attempt[p].sent + 1)
        /\ Prefix(Key(p), attempt[p].sent + 1) \in Seq(Chunk)
    <3>1. attempt[p].sent + 1 \in Nat
      BY <1>2
    <3> QED
      BY <1>2, <2>1, <3>1, PrefixFacts
  <2>3. temp[path] \in Inodes
    BY <1>4, <1>6
  <2>4. content' = [content EXCEPT ![temp[path]] = Prefix(Key(p), attempt[p].sent + 1)]
    BY <1>4, <1>6, <2>2, <2>3
  <2>5. DOMAIN temp \cup {path} = DOMAIN temp
    BY <1>6
  <2>6. /\ content' \in [Inodes -> Seq(Chunk)]
        /\ content'[temp[path]] = Prefix(Key(p), attempt[p].sent + 1)
        /\ \A file \in Inodes : file # temp[path] => content'[file] = content[file]
    BY <1>4, <2>2, <2>3, <2>4
  <2> QED
    BY <1>5, <1>6, <2>1, <2>3, <2>5, <2>6
<1>7. ASSUME path \notin DOMAIN temp, NEW file \in Inodes, IsNewFile(file),
             content' = [content EXCEPT ![file] = <<chunk>>],
             temp' = [n \in DOMAIN temp \cup {path} |-> IF n = path THEN file ELSE temp[n]]
      PROVE  /\ content' \in [Inodes -> Seq(Chunk)]
             /\ DOMAIN temp' = DOMAIN temp \cup {path}
             /\ temp' = [n \in DOMAIN temp' |-> temp'[n]]
             /\ temp'[path] \in Inodes
             /\ \A n \in DOMAIN temp : temp'[n] = temp[n]
             /\ path \notin DOMAIN temp => \A n \in DOMAIN temp : temp[n] # temp'[path]
             /\ \A a \in Assets : object[a] # temp'[path]
             /\ content'[temp'[path]] = Prefix(Key(p), attempt[p].sent + 1)
             /\ \A f \in Inodes : f # temp'[path] => content'[f] = content[f]
  <2>1. attempt[p].sent = 0
    BY <1>1, <1>2, <1>3, <1>7 DEF OwnFile
  <2>2. <<chunk>> = Prefix(Key(p), attempt[p].sent + 1) /\ <<chunk>> \in Seq(Chunk)
    <3>1. chunk = <<Key(p), 1>> /\ attempt[p].sent + 1 = 1
      BY <2>1
    <3> QED
      BY <1>2, <3>1, FirstChunk
  <2>3. (\A n \in DOMAIN temp : temp[n] # file) /\ \A a \in Assets : object[a] # file
    BY <1>7 DEF IsNewFile, Unused
  <2>4. /\ content' \in [Inodes -> Seq(Chunk)] /\ content'[file] = <<chunk>>
        /\ \A f \in Inodes : f # file => content'[f] = content[f]
    BY <1>4, <1>7, <2>2
  <2>5. temp'[path] = file /\ \A n \in DOMAIN temp : temp'[n] = temp[n]
    BY <1>7
  <2>6. DOMAIN temp' = DOMAIN temp \cup {path} /\ temp' = [n \in DOMAIN temp' |-> temp'[n]]
    BY <1>7
  <2> QED
    BY <1>7, <2>2, <2>3, <2>4, <2>5, <2>6
<1> QED
  BY <1>6, <1>7 DEF WriteChunk

LEMMA WriteChunkStep ==
  ASSUME FreshIds, IInv, NEW p \in Procs, WriteChunk(p)
  PROVE  IInv'
<1> PICK path : path = TemporaryPath(p)
  OBVIOUS
<1> PICK file : file = temp'[path]
  OBVIOUS
<1>1. /\ pc[p] = "Stream" /\ attempt[p].sent < Length[Key(p)]
      /\ CountTemporary(p) /\ UNCHANGED <<object, described, pid, pc, history, faults>>
      /\ attempt' = [attempt EXCEPT ![p].name = path, ![p].sent = @ + 1]
  BY DEF WriteChunk
<1>2. /\ attempt[p] \in Attempts /\ attempt[p].sent \in Nat
      /\ Key(p) \in Assets /\ Length[Key(p)] \in Nat /\ OwnName(p) /\ OwnFile(p)
  BY <1>1, ProcessFacts DEF IInv, AttemptInv
<1>3. /\ path \in Names /\ path # NoName /\ path[1] = pid[p] /\ path[2] < sequence'[p]
      /\ path \in DOMAIN temp <=> attempt[p].name # NoName
      /\ attempt[p].name # NoName => path = attempt[p].name
      /\ sequence' \in [Procs -> Nat \ {0}]
      /\ \A q \in Procs : sequence[q] <= sequence'[q]
      /\ \A q \in Procs \ {p} : sequence'[q] = sequence[q]
  BY <1>1, PathFacts
<1>4. /\ content' \in [Inodes -> Seq(Chunk)]
      /\ DOMAIN temp' = DOMAIN temp \cup {path}
      /\ temp' = [n \in DOMAIN temp' |-> temp'[n]]
      /\ file \in Inodes
      /\ \A n \in DOMAIN temp : temp'[n] = temp[n]
      /\ path \notin DOMAIN temp => \A n \in DOMAIN temp : temp[n] # file
      /\ \A a \in Assets : object[a] # file
      /\ content'[file] = Prefix(Key(p), attempt[p].sent + 1)
      /\ \A f \in Inodes : f # file => content'[f] = content[f]
  BY WriteChunkFiles
<1>5. /\ attempt' \in [Procs -> Attempts] /\ attempt'[p].name = path
      /\ attempt'[p].asset = Key(p) /\ attempt'[p].sent = attempt[p].sent + 1
      /\ \A q \in Procs \ {p} : attempt'[q] = attempt[q]
  <2> PICK next : next = [asset |-> Key(p), placed |-> attempt[p].placed,
                          exists |-> attempt[p].exists, name |-> path,
                          sent |-> attempt[p].sent + 1]
    OBVIOUS
  <2>1. attempt[p].sent + 1 \in Nat
    BY <1>2
  <2>2. attempt[p].placed \in BOOLEAN /\ attempt[p].exists \in BOOLEAN
    BY <1>2 DEF Attempts
  <2>3. next \in Attempts
    BY <1>2, <1>3, <2>1, <2>2 DEF Attempts
  <2>4. /\ next.name = path /\ next.asset = Key(p) /\ next.sent = attempt[p].sent + 1
    OBVIOUS
  <2>5. next = [attempt[p] EXCEPT !.name = path, !.sent = @ + 1]
    <3> PICK other : other = [attempt[p] EXCEPT !.name = path, !.sent = @ + 1]
      OBVIOUS
    <3>1. other = [asset |-> Key(p), placed |-> attempt[p].placed, exists |-> attempt[p].exists,
                   name |-> path, sent |-> attempt[p].sent + 1]
      BY <1>2 DEF Attempts, Key
    <3> QED
      BY <3>1
  <2>6. attempt' = [attempt EXCEPT ![p] = next]
    BY <1>1, <2>5 DEF IInv, TypeOK
  <2> QED
    BY <2>3, <2>4, <2>6 DEF IInv, TypeOK
<1>6. \A a \in Assets : object[a] # NoFile => content'[object[a]] = content[object[a]]
  BY <1>4 DEF IInv, TypeOK
<1>7. TypeOK'
  <2>1. \A q \in Procs : pc'[q] = "Stream" => attempt'[q].sent <= Length[attempt'[q].asset]
    BY <1>1, <1>2, <1>5 DEF IInv, TypeOK, Key
  <2>2. DOMAIN temp' \subseteq Names /\ \A n \in DOMAIN temp' : temp'[n] \in Inodes
    BY <1>3, <1>4 DEF IInv, TypeOK
  <2> QED
    BY <1>1, <1>3, <1>4, <1>5, <2>1, <2>2 DEF IInv, TypeOK, Key, history
<1>8. (temp = [n \in DOMAIN temp |-> temp[n]])'
  BY <1>4
<1>9. PidInv'
  BY <1>1 DEF IInv, PidInv, Distinct, history
<1>10. TempInv'
  <2>1. \A n \in DOMAIN temp : n[1] \in retired' \/
          \E q \in Procs : n[1] = pid'[q] /\ n[2] < sequence'[q]
    BY <1>1, <1>3, OldNames DEF history
  <2>2. path[1] = pid'[p] /\ path[2] < sequence'[p]
    BY <1>1, <1>3
  <2>3. \A n, k \in DOMAIN temp' : temp'[n] = temp'[k] => n = k
    BY <1>4 DEF IInv, TempInv
  <2> QED
    BY <1>4, <2>1, <2>2, <2>3 DEF TempInv
<1>11. AttemptInv'
  <2> SUFFICES ASSUME NEW q \in Procs
               PROVE  (OwnName(q) /\ OwnFile(q))'
    BY DEF AttemptInv
  <2>1. CASE q = p
    <3>1. OwnName(p)'
      BY <1>1, <1>2, <1>3, <1>5 DEF OwnName, Key
    <3>2. OwnFile(p)'
      BY <1>1, <1>3, <1>4, <1>5 DEF OwnFile, Key
    <3> QED
      BY <2>1, <3>1, <3>2
  <2>2. CASE q # p
    <3>1. OwnName(q) /\ OwnFile(q) /\ pc'[q] = pc[q] /\ attempt'[q] = attempt[q]
          /\ sequence'[q] = sequence[q]
      BY <1>1, <1>3, <1>5, <2>2 DEF IInv, AttemptInv
    <3>2. OwnName(q)'
      BY <1>1, <3>1 DEF OwnName, Key
    <3>3. OwnFile(q)'
      <4> SUFFICES ASSUME pc[q] = "Stream"
                   PROVE  OwnFile(q)'
        BY <3>1 DEF OwnFile
      <4>1. CASE attempt[q].name = NoName
        BY <3>1, <4>1 DEF OwnFile
      <4>2. CASE attempt[q].name # NoName
        <5>1. /\ attempt[q].name \in DOMAIN temp
              /\ content[temp[attempt[q].name]] = Prefix(Key(q), attempt[q].sent)
              /\ \A a \in Assets : object[a] # temp[attempt[q].name]
          BY <3>1, <4>2 DEF OwnFile
        <5>2. temp[attempt[q].name] # file
          <6>1. CASE path \notin DOMAIN temp
            BY <1>4, <5>1, <6>1
          <6>2. CASE path \in DOMAIN temp
            <7>1. temp[path] # temp[attempt[q].name]
              BY <1>1, <1>3, <2>2, <4>2, <6>2, NamesApart DEF Writing
            <7> QED
              BY <1>4, <6>2, <7>1
          <6> QED
            BY <6>1, <6>2
        <5>3. temp'[attempt[q].name] = temp[attempt[q].name]
          BY <1>4, <5>1
        <5>4. content'[temp[attempt[q].name]] = content[temp[attempt[q].name]]
          BY <1>4, <5>1, <5>2 DEF IInv, TypeOK
        <5>5. attempt[q].name \in DOMAIN temp'
          BY <1>4, <5>1
        <5> QED
          BY <1>1, <3>1, <4>2, <5>1, <5>3, <5>4, <5>5 DEF OwnFile, Key
      <4> QED
        BY <4>1, <4>2
    <3> QED
      BY <3>2, <3>3
  <2> QED
    BY <2>1, <2>2
<1>12. OnlyVerifiedBytes'
  BY <1>1, <1>6 DEF IInv, OnlyVerifiedBytes, Intact
<1>13. ReadyInv'
  <2>1. \A a \in ready' : Intact(a)' /\ a \in described'
    BY <1>1, <1>6 DEF IInv, TypeOK, ReadyInv, ReadyStaysReady, Intact, history
  <2>2. \A q \in Procs : pc'[q] = "Read" => attempt'[q].asset \in described'
    BY <1>1, <1>5 DEF IInv, ReadyInv, Key
  <2> QED
    BY <2>1, <2>2 DEF ReadyInv, ReadyStaysReady, Key
<1> QED
  BY <1>7, <1>8, <1>9, <1>10, <1>11, <1>12, <1>13 DEF IInv

\* The process is another one, under an id that nobody had; the files of the one
\* before are never looked at again.
LEMMA RestartStep ==
  ASSUME FreshIds, IInv, NEW p \in Procs, Restart(p)
  PROVE  IInv'
<1>1. /\ UNCHANGED <<content, temp, object, described, ready>>
      /\ retired' = retired \cup {pid[p]} /\ sequence' = [sequence EXCEPT ![p] = 1]
      /\ pc' = [pc EXCEPT ![p] = "Idle"] /\ attempt' = [attempt EXCEPT ![p] = NoAttempt]
      /\ faults' = faults + 1 /\ faults < MaxFaults
  BY DEF Restart, Return, Goto, Fault, directory
<1>2. PICK id \in Pids : /\ pid' = [pid EXCEPT ![p] = id] /\ id \notin retired
                         /\ \A q \in Procs : pid[q] # id
  <2>1. \A id \in NextPids : id \in Pids /\ id \notin retired /\ \A q \in Procs : pid[q] # id
    BY DEF NextPids, Free, FreshIds
  <2> QED
    BY <2>1 DEF Restart
<1>3. /\ pid' \in [Procs -> Pids] /\ pid'[p] = id
      /\ \A q \in Procs \ {p} : pid'[q] = pid[q]
  BY <1>2 DEF IInv, TypeOK
<1>4. /\ sequence' \in [Procs -> Nat \ {0}]
      /\ \A q \in Procs \ {p} : sequence'[q] = sequence[q]
  BY <1>1 DEF IInv, TypeOK
<1>5. /\ pc' \in [Procs -> PhaseSet] /\ pc'[p] = "Idle"
      /\ attempt' \in [Procs -> Attempts] /\ attempt'[p] = NoAttempt
      /\ \A q \in Procs \ {p} : pc'[q] = pc[q] /\ attempt'[q] = attempt[q]
  BY <1>1, NoAttemptType DEF IInv, TypeOK, PhaseSet
<1>6. TypeOK'
  <2>1. \A q \in Procs : pc'[q] = "Stream" => attempt'[q].sent <= Length[attempt'[q].asset]
    BY <1>5 DEF IInv, TypeOK, Key
  <2>2. faults' \in 0 .. MaxFaults
    BY <1>1 DEF IInv, TypeOK, FreshIds, ConstantsOK
  <2>3. retired' \subseteq Pids
    BY <1>1 DEF IInv, TypeOK
  <2> QED
    BY <1>1, <1>3, <1>4, <1>5, <2>1, <2>2, <2>3 DEF IInv, TypeOK, PhaseSet, Key
<1>7. (temp = [n \in DOMAIN temp |-> temp[n]])'
  BY <1>1 DEF IInv
<1>8. PidInv'
  <2>1. Distinct(pid)'
    BY <1>2, <1>3 DEF IInv, PidInv, Distinct
  <2>2. \A q \in Procs : pid'[q] \notin retired'
    BY <1>1, <1>2, <1>3 DEF IInv, PidInv, Distinct
  <2> QED
    BY <2>1, <2>2 DEF PidInv
<1>9. TempInv'
  <2>1. ASSUME NEW n \in DOMAIN temp
        PROVE  n[1] \in retired' \/ \E q \in Procs : n[1] = pid'[q] /\ n[2] < sequence'[q]
    <3>1. CASE n[1] \in retired
      BY <1>1, <3>1
    <3>2. CASE n[1] \notin retired
      <4>1. PICK q \in Procs : n[1] = pid[q] /\ n[2] < sequence[q]
        BY <3>2 DEF IInv, TempInv
      <4> QED
        BY <1>1, <1>3, <1>4, <4>1
    <3> QED
      BY <3>1, <3>2
  <2> QED
    BY <1>1, <2>1 DEF IInv, TempInv
<1>10. AttemptInv'
  <2> SUFFICES ASSUME NEW q \in Procs
               PROVE  (OwnName(q) /\ OwnFile(q))'
    BY DEF AttemptInv
  <2>1. CASE q = p
    BY <1>5, <2>1, NoAttemptType DEF OwnName, OwnFile, Writing
  <2>2. CASE q # p
    <3>1. OwnName(q) /\ OwnFile(q) /\ pc'[q] = pc[q] /\ attempt'[q] = attempt[q]
          /\ sequence'[q] = sequence[q] /\ pid'[q] = pid[q]
      BY <1>3, <1>4, <1>5, <2>2 DEF IInv, AttemptInv
    <3>2. OwnName(q)'
      BY <3>1 DEF OwnName, Key
    <3>3. OwnFile(q)'
      BY <1>1, <3>1 DEF OwnFile, Key
    <3> QED
      BY <3>2, <3>3
  <2> QED
    BY <2>1, <2>2
<1>11. OnlyVerifiedBytes'
  BY <1>1 DEF IInv, OnlyVerifiedBytes, Intact
<1>12. ReadyInv'
  <2>1. \A a \in ready' : Intact(a)' /\ a \in described'
    BY <1>1 DEF IInv, ReadyInv, ReadyStaysReady, Intact
  <2>2. \A q \in Procs : pc'[q] = "Read" => attempt'[q].asset \in described'
    BY <1>1, <1>5 DEF IInv, ReadyInv, Key
  <2> QED
    BY <2>1, <2>2 DEF ReadyInv, ReadyStaysReady, Key
<1> QED
  BY <1>6, <1>7, <1>8, <1>9, <1>10, <1>11, <1>12 DEF IInv

----------------------------------------------------------------------------
(* The theorems *)

LEMMA InitInv == FreshIds /\ Init => IInv
<1> SUFFICES ASSUME FreshIds, Init
             PROVE  IInv
  OBVIOUS
<1>1. pid \in [Procs -> Pids] /\ Distinct(pid)
  BY DEF Init, FreshIds, ConstantsOK
<1>2. /\ content = [file \in Inodes |-> <<>>] /\ object = [a \in Assets |-> NoFile]
      /\ sequence = [p \in Procs |-> 1] /\ pc = [p \in Procs |-> "Idle"]
      /\ attempt = [p \in Procs |-> NoAttempt]
      /\ temp = <<>> /\ described = {} /\ retired = {} /\ ready = {} /\ faults = 0
  BY DEF Init
<1>3. DOMAIN temp = {} /\ temp = [n \in DOMAIN temp |-> temp[n]]
  BY <1>2
<1>4. TypeOK
  <2>1. faults \in 0 .. MaxFaults
    BY <1>2 DEF FreshIds, ConstantsOK
  <2>2. attempt \in [Procs -> Attempts]
    BY <1>2, NoAttemptType
  <2>3. content \in [Inodes -> Seq(Chunk)]
    BY <1>2
  <2> QED
    BY <1>1, <1>2, <1>3, <2>1, <2>2, <2>3 DEF TypeOK
<1>5. PidInv /\ TempInv
  BY <1>1, <1>2, <1>3 DEF PidInv, TempInv
<1>6. AttemptInv /\ OnlyVerifiedBytes /\ ReadyInv
  BY <1>2, NoAttemptType
     DEF AttemptInv, OwnName, OwnFile, OnlyVerifiedBytes, ReadyInv, ReadyStaysReady, Writing
<1> QED
  BY <1>3, <1>4, <1>5, <1>6 DEF IInv

LEMMA StutterInv ==
  ASSUME IInv, UNCHANGED vars
  PROVE  IInv'
<1> USE DEF vars, directory, process, history
<1>1. TypeOK'
  BY DEF IInv, TypeOK, Key
<1>2. (temp = [n \in DOMAIN temp |-> temp[n]])' /\ PidInv' /\ TempInv'
  BY DEF IInv, PidInv, TempInv, Distinct
<1>3. AttemptInv'
  BY DEF IInv, AttemptInv, OwnName, OwnFile, Key
<1>4. OnlyVerifiedBytes' /\ ReadyInv'
  BY DEF IInv, OnlyVerifiedBytes, ReadyInv, ReadyStaysReady, Intact, Key
<1> QED
  BY <1>1, <1>2, <1>3, <1>4 DEF IInv

LEMMA NextInv ==
  ASSUME FreshIds, IInv, [Next]_vars
  PROVE  IInv'
<1>1. CASE \E p \in Procs : \E a \in Assets : Begin(p, a)
  BY <1>1, BeginStep
<1>2. CASE \E p \in Procs : Step(p)
  BY <1>2, LookForObjectStep, InspectMetadataStep, ReadObjectStep, OpenWriterStep,
     WriteChunkStep, LinkObjectStep, RemoveTemporaryStep, DescribeStep, ReinspectStep DEF Step
<1>3. CASE \E p \in Procs : Fail(p) \/ Restart(p)
  BY <1>3, FailStep, RestartStep
<1>4. CASE UNCHANGED vars
  BY <1>4, StutterInv
<1> QED
  BY <1>1, <1>2, <1>3, <1>4 DEF Next

\* The strengthening is inductive where no id is given twice: whatever fails or dies
\* between two file system calls, and whoever races.
THEOREM Invariant ==
  ASSUME FreshIds
  PROVE  Spec => []IInv
<1>1. Init => IInv
  BY InitInv
<1>2. IInv /\ [Next]_vars => IInv'
  BY NextInv
<1> QED
  BY <1>1, <1>2, PTL DEF Spec

\* Every variable keeps its type, and a writer never sends more than the asset has.
THEOREM TypesAreKept ==
  ASSUME FreshIds
  PROVE  Spec => []TypeOK
<1>1. IInv => TypeOK
  BY DEF IInv
<1> QED
  BY <1>1, Invariant, PTL

\* A key that holds an object holds the bytes its frozen identity is the hash of.
THEOREM OnlyVerifiedBytesAreStored ==
  ASSUME FreshIds
  PROVE  Spec => []OnlyVerifiedBytes
<1>1. IInv => OnlyVerifiedBytes
  BY DEF IInv
<1> QED
  BY <1>1, Invariant, PTL

\* An asset that was judged ready stays ready, whatever later attempts do.
THEOREM ReadyIsFinal ==
  ASSUME FreshIds
  PROVE  Spec => []ReadyStaysReady
<1>1. IInv => ReadyStaysReady
  BY DEF IInv, ReadyInv
<1> QED
  BY <1>1, Invariant, PTL

----------------------------------------------------------------------------
(* The refinement *)

\* What the contract sees under a key.
FileHolds(a) ==
  IF object[a] = NoFile THEN [bytes |-> "none", by |-> "nobody"]
  ELSE [bytes |-> IF Intact(a) THEN "frozen" ELSE "other", by |-> "publisher"]

LEMMA HoldsFacts ==
  ASSUME IInv, NEW a \in Assets
  PROVE  FileHolds(a) = IF object[a] = NoFile THEN Target!Nothing ELSE Target!Ours
BY DEF IInv, OnlyVerifiedBytes, FileHolds, Target!Nothing, Target!Ours

\* Every step places an object, judges one, or changes nothing the contract sees.
LEMMA StepRefines ==
  ASSUME FreshIds, IInv, [Next]_vars
  PROVE  [Target!Next]_Target!vars
<1>1. IInv'
  BY NextInv
<1>2. \A a \in Assets :
        FileHolds(a)' = IF object'[a] = NoFile THEN Target!Nothing ELSE Target!Ours
  BY <1>1 DEF IInv, OnlyVerifiedBytes, FileHolds, Target!Nothing, Target!Ours
<1>3. CASE UNCHANGED <<object, ready>>
  <2>1. \A a \in Assets : FileHolds(a)' = FileHolds(a)
    BY <1>2, <1>3, HoldsFacts
  <2>2. [a \in Assets |-> FileHolds(a)'] = [a \in Assets |-> FileHolds(a)]
    BY <2>1
  <2> QED
    BY <1>3, <2>2 DEF Target!vars, FileHolds
<1>4. ASSUME NEW p \in Procs, LinkObject(p), ~ UNCHANGED object
      PROVE  Target!Next
  <2> PICK a \in Assets : a = Key(p)
    BY <1>4, ProcessFacts DEF LinkObject
  <2>1. /\ UNCHANGED ready /\ object[a] = NoFile
        /\ TemporaryPath(p) \in DOMAIN temp
        /\ object' = [object EXCEPT ![a] = temp[TemporaryPath(p)]]
    BY <1>4 DEF LinkObject, history
  <2>2. temp[TemporaryPath(p)] \in Inodes /\ object \in [Assets -> Inodes \cup {NoFile}]
    BY <2>1 DEF IInv, TypeOK
  <2>3. object'[a] # NoFile /\ \A b \in Assets : b # a => object'[b] = object[b]
    BY <2>1, <2>2 DEF FreshIds, ConstantsOK
  <2>4. FileHolds(a) = Target!Nothing /\ FileHolds(a)' = Target!Ours
    BY <1>2, <2>1, <2>3, HoldsFacts
  <2>5. \A b \in Assets : b # a => FileHolds(b)' = FileHolds(b)
    BY <1>2, <2>3, HoldsFacts
  <2>6. [b \in Assets |-> FileHolds(b)'] =
          [[b \in Assets |-> FileHolds(b)] EXCEPT ![a] = Target!Ours]
    BY <2>4, <2>5
  <2>7. Target!Place(a)
    BY <2>1, <2>4, <2>6 DEF Target!Place, FileHolds
  <2> QED
    BY <2>7 DEF Target!Next
<1>5. ASSUME NEW p \in Procs, ReadObject(p), ~ UNCHANGED ready
      PROVE  Target!Next
  <2> PICK a \in Assets : a = Key(p)
    BY <1>5, ProcessFacts DEF ReadObject
  <2>1. UNCHANGED object /\ Intact(a) /\ ready' = ready \cup {a}
    BY <1>5 DEF ReadObject, directory
  <2>2. \A b \in Assets : FileHolds(b)' = FileHolds(b)
    BY <1>2, <2>1, HoldsFacts
  <2>3. [b \in Assets |-> FileHolds(b)'] = [b \in Assets |-> FileHolds(b)]
    BY <2>2
  <2>4. FileHolds(a).bytes = "frozen"
    BY <2>1 DEF FileHolds, Intact
  <2>5. Target!Judge(a)
    BY <2>1, <2>3, <2>4 DEF Target!Judge, FileHolds
  <2> QED
    BY <2>5 DEF Target!Next
<1>6. ASSUME NEW p \in Procs, Step(p)
      PROVE  \/ UNCHANGED <<object, ready>>
             \/ LinkObject(p) /\ ~ UNCHANGED object
             \/ ReadObject(p) /\ ~ UNCHANGED ready
  <2>1. CASE LinkObject(p)
    BY <2>1 DEF LinkObject, history
  <2>2. CASE ReadObject(p)
    BY <2>2 DEF ReadObject, directory
  <2>3. CASE LookForObject(p) \/ InspectMetadata(p) \/ OpenWriter(p) \/ Reinspect(p)
    BY <2>3 DEF LookForObject, InspectMetadata, OpenWriter, Reinspect, directory, history
  <2>4. CASE WriteChunk(p) \/ RemoveTemporary(p) \/ Describe(p)
    BY <2>4 DEF WriteChunk, RemoveTemporary, Describe, history
  <2> QED
    BY <1>6, <2>1, <2>2, <2>3, <2>4 DEF Step
<1>7. CASE \E p \in Procs : (\E a \in Assets : Begin(p, a)) \/ Fail(p) \/ Restart(p)
  BY <1>3, <1>7 DEF Begin, Fail, Restart, directory, history
<1>8. CASE UNCHANGED vars
  BY <1>3, <1>8 DEF vars, directory, history
<1> QED
  BY <1>3, <1>4, <1>5, <1>6, <1>7, <1>8 DEF Next

LEMMA InitRefines == Init => Target!Init
<1> SUFFICES ASSUME Init
             PROVE  Target!Init
  OBVIOUS
<1>1. \A a \in Assets : FileHolds(a) = Target!Nothing
  BY DEF Init, FileHolds, Target!Nothing
<1>2. [a \in Assets |-> FileHolds(a)] = [a \in Assets |-> Target!Nothing]
  BY <1>1
<1> QED
  BY <1>2 DEF Init, Target!Init, FileHolds

\* The directory is a target the engine can rely on: an object appears only with the
\* frozen bytes, is never replaced or changed, and an asset is judged ready only by
\* an object that is there.
THEOREM FilesImplementTarget ==
  ASSUME FreshIds
  PROVE  Spec => ImplementsTarget
<1>1. IInv /\ [Next]_vars => [Target!Next]_Target!vars
  BY StepRefines
<1> QED
  BY <1>1, InitRefines, Invariant, PTL DEF Spec, Target!Spec, ImplementsTarget
=============================================================================
