-------------------------- MODULE SupervisorProofs --------------------------
(***************************************************************************)
(* Proofs about Console and DailyService, the two users of                 *)
(* OperationSupervisor: first what the actions of the supervisor preserve, *)
(* whoever calls them, then each component, for every number of operations *)
(* and every value of its other constants and bounds.                      *)
(***************************************************************************)
EXTENDS Console, DailyService, TLAPS, FiniteSetTheorems

InProgress == {"Spawned", "Running", "Released"}

\* What the gate, the map and the worker threads know of each other.
GateInv ==
  \A o \in Operations :
    /\ o >= nextId => worker[o] = "None"
    /\ worker[o] = "None" => o \notin retained
    /\ worker[o] \in InProgress => o \in retained
    /\ worker[o] = "Finished" <=> IsTerminal(o)
    /\ worker[o] = "None" <=> state[o] = "None"
    /\ mutating[o] /\ worker[o] \in {"Spawned", "Running"} => active = o
    /\ active = o => worker[o] \in {"Spawned", "Running"}

----------------------------------------------------------------------------
(* Types *)

\* start keeps the types.
LEMMA TypeStart ==
  ASSUME TypeOK, NEW b \in BOOLEAN, Start(b)
  PROVE  TypeOK'
<1> USE SupervisorAssumption DEF TypeOK
<1>1. nextId \in Operations /\ nextId' \in 1 .. MaxOperations + 1
  BY DEF Start, Operations
<1>2. retained' \subseteq Operations
  BY <1>1 DEF Start
<1>3. active' \in Operations \cup {NoOperation}
  BY <1>1 DEF Start
<1>4. /\ mutating' \in [Operations -> BOOLEAN]
      /\ state' \in [Operations -> {"None", "Queued", "Running"} \cup Terminal]
      /\ worker' \in [Operations -> {"None", "Spawned", "Running", "Released", "Finished"}]
  BY <1>1 DEF Start
<1> QED
  BY <1>1, <1>2, <1>3, <1>4 DEF Start, clients

\* So does a worker thread.
LEMMA TypeWork ==
  ASSUME TypeOK, NEW o \in Operations, Work(o)
  PROVE  TypeOK'
<1> USE SupervisorAssumption DEF TypeOK, clients, records
<1>1. CASE Run(o)
  BY <1>1 DEF Run
<1>2. CASE Push(o)
  <2>1. progress[o] + 1 \in Event
    BY DEF Event
  <2>2. channel' \in [Clients -> Seq(Event)]
    BY <1>2, <2>1 DEF Push
  <2> QED
    BY <1>2, <2>2 DEF Push
<1>3. CASE Release(o)
  BY <1>3 DEF Release
<1>4. CASE \E result \in Terminal : Finish(o, result)
  <2>1. FinishedEvent \in Event
    BY DEF Event
  <2>2. channel' \in [Clients -> Seq(Event)]
    BY <1>4, <2>1 DEF Finish
  <2> QED
    BY <1>4, <2>2 DEF Finish, Terminal
<1> QED
  BY <1>1, <1>2, <1>3, <1>4 DEF Work

----------------------------------------------------------------------------
(* The gate *)

\* start keeps the gate: a mutating operation passes only when no other is under way.
LEMMA GateStart ==
  ASSUME TypeOK, GateInv, NEW b \in BOOLEAN, Start(b)
  PROVE  GateInv'
<1> USE SupervisorAssumption DEF TypeOK
<1>1. nextId \in Operations /\ nextId' = nextId + 1 /\ nextId \in Nat
  BY DEF Start, Operations
<1>2. worker[nextId] = "None" /\ state[nextId] = "None" /\ nextId \notin retained
  BY <1>1 DEF GateInv
<1>3. active' = IF b THEN nextId ELSE active
  BY DEF Start
<1>4. ASSUME NEW o \in Operations, o # nextId
      PROVE  /\ worker'[o] = worker[o]
             /\ state'[o] = state[o]
             /\ mutating'[o] = mutating[o]
             /\ o \in retained' => o \in retained
             /\ o \in retained /\ ~ IsTerminal(o) => o \in retained'
  BY <1>1, <1>4 DEF Start, Evicted
<1>5. /\ worker'[nextId] = "Spawned" /\ state'[nextId] = "Queued"
      /\ mutating'[nextId] = b /\ nextId \in retained'
  BY <1>1 DEF Start
<1>6. b => \A o \in Operations : ~ (mutating[o] /\ worker[o] \in {"Spawned", "Running"})
  <2> SUFFICES ASSUME b, NEW o \in Operations, mutating[o], worker[o] \in {"Spawned", "Running"}
               PROVE  FALSE
    OBVIOUS
  <2>1. active = o /\ o \in retained /\ ~ IsTerminal(o)
    BY DEF GateInv, InProgress
  <2>2. o # NoOperation
    BY DEF Operations
  <2> QED
    BY <2>1, <2>2 DEF Start, Busy
<1> SUFFICES ASSUME NEW o \in Operations
             PROVE  /\ o >= nextId' => worker'[o] = "None"
                    /\ worker'[o] = "None" => o \notin retained'
                    /\ worker'[o] \in InProgress => o \in retained'
                    /\ worker'[o] = "Finished" <=> IsTerminal(o)'
                    /\ worker'[o] = "None" <=> state'[o] = "None"
                    /\ mutating'[o] /\ worker'[o] \in {"Spawned", "Running"} => active' = o
                    /\ active' = o => worker'[o] \in {"Spawned", "Running"}
  BY DEF GateInv, InProgress
<1>7. CASE o = nextId
  BY <1>1, <1>3, <1>5, <1>7 DEF InProgress, IsTerminal, Terminal, GateInv
<1>8. CASE o # nextId
  <2>1. IsTerminal(o)' = IsTerminal(o)
    BY <1>4, <1>8 DEF IsTerminal
  <2>2. o \in Int
    BY DEF Operations
  <2>3. /\ o >= nextId => worker[o] = "None"
        /\ worker[o] = "None" => o \notin retained
        /\ worker[o] \in InProgress => o \in retained
        /\ worker[o] = "Finished" <=> IsTerminal(o)
        /\ worker[o] = "None" <=> state[o] = "None"
        /\ mutating[o] /\ worker[o] \in {"Spawned", "Running"} => active = o
        /\ active = o => worker[o] \in {"Spawned", "Running"}
    BY DEF GateInv
  <2>4. worker[o] \in InProgress => ~ IsTerminal(o)
    BY <2>3 DEF InProgress
  <2>5. /\ o >= nextId' => worker'[o] = "None"
        /\ worker'[o] = "None" => o \notin retained'
        /\ worker'[o] \in InProgress => o \in retained'
        /\ worker'[o] = "Finished" <=> IsTerminal(o)'
        /\ worker'[o] = "None" <=> state'[o] = "None"
    BY <1>1, <1>4, <1>8, <2>1, <2>2, <2>3, <2>4
  <2>6. mutating'[o] /\ worker'[o] \in {"Spawned", "Running"} => active' = o
    BY <1>3, <1>4, <1>6, <1>8, <2>3
  <2>7. active' = o => worker'[o] \in {"Spawned", "Running"}
    BY <1>3, <1>4, <1>8, <2>3
  <2> QED
    BY <2>5, <2>6, <2>7
<1> QED
  BY <1>7, <1>8

\* A worker keeps the gate: it leaves the workspace before its end is recorded.
LEMMA GateWork ==
  ASSUME TypeOK, GateInv, NEW o \in Operations, Work(o)
  PROVE  GateInv'
<1> USE DEF TypeOK, GateInv, InProgress, IsTerminal, Terminal
<1>1. CASE Run(o)
  BY <1>1 DEF Run
<1>2. CASE Push(o)
  BY <1>2 DEF Push
<1>3. CASE Release(o)
  <2>1. o # NoOperation /\ NoOperation \notin Operations
    BY SupervisorAssumption DEF Operations
  <2>2. /\ worker[o] = "Running" /\ worker' = [worker EXCEPT ![o] = "Released"]
        /\ active' = IF active = o THEN NoOperation ELSE active
        /\ nextId' = nextId /\ retained' = retained /\ state' = state /\ mutating' = mutating
    BY <1>3 DEF Release, records
  <2>3. worker'[o] = "Released" /\ \A p \in Operations \ {o} : worker'[p] = worker[p]
    BY <2>2
  <2> QED
    BY <2>1, <2>2, <2>3
<1>4. CASE \E result \in Terminal : Finish(o, result)
  BY <1>4 DEF Finish
<1> QED
  BY <1>1, <1>2, <1>3, <1>4 DEF Work

----------------------------------------------------------------------------
(* Console: the inductive invariant, GateInv and what follows              *)

\* What is on its way to a client, between what it has and what the record has.
Pending(c) ==
  LET o == watching[c]
      n == progress[o] - Len(got[c])
  IN /\ Len(channel[c]) = n + (IF IsTerminal(o) THEN 1 ELSE 0)
     /\ \A i \in 1 .. n : channel[c][i] = Len(got[c]) + i
     /\ IsTerminal(o) => channel[c][n + 1] = FinishedEvent

ClientInv(c) ==
  /\ \A i \in DOMAIN got[c] : got[c][i] = i
  /\ watching[c] \in Operations =>
       /\ watching[c] < nextId
       /\ worker[watching[c]] # "None" => Len(got[c]) <= progress[watching[c]]
  /\ stream[c] \in {"Found", "Attached", "Ended"} =>
       watching[c] \in Operations /\ worker[watching[c]] # "None"
  /\ stream[c] \in {"Found", "Attached"} => after[c] <= Len(got[c])
  /\ stream[c] = "Found" => after[c] = Len(got[c])
  /\ stream[c] = "Attached" => Pending(c)
  /\ stream[c] = "Ended" =>
       /\ IsTerminal(watching[c])
       /\ Len(got[c]) = progress[watching[c]]

StreamInv == \A c \in Clients : ClientInv(c)

\* A call that may find its operation going on, and then opens a stream.
Lively(k) ==
  \/ k.answer \in {"Queued", "Running"}
  \/ k.answer = "Asked" /\ session /\ k.op \in retained /\ ~ IsTerminal(k.op)

\* There is one of them at most, and no stream and no command beside it.
OneFollower ==
  page = "Console" =>
    \A k \in calls :
      Lively(k) => /\ command.phase = "Idle"
                   /\ open = {}
                   /\ \A j \in calls : Lively(j) => j = k

\* What a call was answered stays true: the end of an operation is final.
CallOK(k) ==
  /\ k.op < nextId
  /\ k.answer \in Terminal => k.answer = state[k.op] /\ k.lines = progress[k.op]

CallsOK == \A k \in calls : CallOK(k)

\* The page shows a beginning of the history, and a true end.
ViewOK ==
  /\ \A i \in DOMAIN view.lines : view.lines[i] = i
  /\ view.state \in Terminal =>
       /\ view.op \in Operations
       /\ view.state = state[view.op]
       /\ Len(view.lines) = progress[view.op]

\* It reads one stream at most, and shows all that came on it.
ReadsOK ==
  /\ open \subseteq {current}
  /\ page = "Login" => open = {}
  /\ \A c \in open :
       /\ watching[c] \in Operations
       /\ view.op = watching[c] => Len(got[c]) <= Len(view.lines)

\* It knows only identities that were given.
KnownOK ==
  /\ command.phase = "Accepted" => command.op \in Operations /\ command.op < nextId
  /\ stored \in Operations => stored < nextId

PageInv == ViewOK /\ CallsOK /\ ReadsOK /\ KnownOK /\ OneFollower

ConsoleIInv == ConsoleTypeOK /\ GateInv /\ StreamInv /\ PageInv

----------------------------------------------------------------------------
(* Lemmas about lines *)

\* Lines(n, m) are the lines n + 1 to m, in order.
LEMMA LinesFacts ==
  ASSUME NEW n \in Nat, NEW m \in Nat, n <= m
  PROVE  /\ Lines(n, m) \in Seq(Nat)
         /\ Len(Lines(n, m)) = m - n
         /\ \A i \in 1 .. m - n : Lines(n, m)[i] = n + i
<1>1. (IF n < m THEN m - n ELSE 0) = m - n /\ m - n \in Nat
  OBVIOUS
<1>2. Lines(n, m) = [k \in 1 .. m - n |-> n + k]
  BY <1>1 DEF Lines
<1> QED
  BY <1>1, <1>2

\* Lines are numbers, and events.
LEMMA LinesAreLines ==
  ASSUME NEW n \in Nat, NEW m \in Nat
  PROVE  Lines(n, m) \in Seq(Nat) /\ Lines(n, m) \in Seq(Event)
<1> DEFINE k == IF n < m THEN m - n ELSE 0
<1>1. k \in Nat
  OBVIOUS
<1>2. Lines(n, m) = [i \in 1 .. k |-> n + i]
  BY DEF Lines
<1> HIDE DEF k
<1>3. \A i \in 1 .. k : n + i \in Nat /\ n + i \in Event
  BY <1>1 DEF Event
<1> QED
  BY <1>1, <1>2, <1>3

\* What was there stays where it was.
LEMMA AppendKeeps ==
  ASSUME NEW s \in Seq(Nat), NEW n \in Nat, NEW i \in 1 .. Len(s)
  PROVE  Append(s, n)[i] = s[i]
OBVIOUS

----------------------------------------------------------------------------
(* Types *)

\* The initial states are well typed.
LEMMA TypeInit == ConsoleInit => ConsoleTypeOK
BY SupervisorAssumption DEF ConsoleInit, Init, ConsoleTypeOK, TypeOK, NoView, NoCommand, Operations

PageTypeOK ==
  /\ session \in BOOLEAN
  /\ page \in {"Console", "Login"}
  /\ stored \in Operations \cup {NoOperation}
  /\ view \in [op: Operations \cup {NoOperation},
               state: {"None", "Queued", "Running"} \cup Terminal, lines: Seq(Nat)]
  /\ calls \subseteq [op: Operations,
                     answer: {"Asked", "Unknown", "Queued", "Running"} \cup Terminal,
                     lines: 0 .. MaxProgress, resumes: BOOLEAN]
  /\ command \in [phase: {"Idle", "Sent", "Accepted"}, op: Operations \cup {NoOperation}]
  /\ open \subseteq Clients
  /\ current \in Clients \cup {NoClient}
  /\ stranded \subseteq Operations

\* The variables only the server's side of a step changes.
server == <<nextId, active, retained, records, worker>>

\* So does the end of a connection.
LEMMA TypeHangUp ==
  ASSUME TypeOK, NEW sources, HangUp(sources), UNCHANGED server, drops' \in 0 .. MaxDrops
  PROVE  TypeOK'
BY DEF TypeOK, HangUp, server, records

\* A question of settle is a call.
LEMMA TypeAsked ==
  ASSUME NEW o \in Operations
  PROVE  Asked(o) \in [op: Operations,
                       answer: {"Asked", "Unknown", "Queued", "Running"} \cup Terminal,
                       lines: 0 .. MaxProgress, resumes: BOOLEAN]
BY SupervisorAssumption DEF Asked

\* So is that of a mount.
LEMMA TypeResumed ==
  ASSUME NEW o \in Operations
  PROVE  Resumed(o) \in [op: Operations,
                         answer: {"Asked", "Unknown", "Queued", "Running"} \cup Terminal,
                         lines: 0 .. MaxProgress, resumes: BOOLEAN]
BY SupervisorAssumption DEF Resumed

\* A call that was answered is a call.
LEMMA TypeAnswered ==
  ASSUME NEW k \in [op: Operations,
                    answer: {"Asked", "Unknown", "Queued", "Running"} \cup Terminal,
                    lines: 0 .. MaxProgress, resumes: BOOLEAN],
         NEW a \in {"Asked", "Unknown", "Queued", "Running"} \cup Terminal,
         NEW n \in 0 .. MaxProgress
  PROVE  /\ [k EXCEPT !.answer = a, !.lines = n]
              \in [op: Operations,
                   answer: {"Asked", "Unknown", "Queued", "Running"} \cup Terminal,
                   lines: 0 .. MaxProgress, resumes: BOOLEAN]
         /\ [k EXCEPT !.answer = a]
              \in [op: Operations,
                   answer: {"Asked", "Unknown", "Queued", "Running"} \cup Terminal,
                   lines: 0 .. MaxProgress, resumes: BOOLEAN]
OBVIOUS

\* An identity that was forgotten is none.
LEMMA TypeForget ==
  ASSUME stored \in Operations \cup {NoOperation}, NEW failed, Forget(failed)
  PROVE  stored' \in Operations \cup {NoOperation} /\ stored' \in {stored, NoOperation}
BY DEF Forget

\* The empty view is a view.
LEMMA TypeNoView ==
  NoView \in [op: Operations \cup {NoOperation},
              state: {"None", "Queued", "Running"} \cup Terminal, lines: Seq(Nat)]
BY DEF NoView

\* What an answered call shows is a view.
LEMMA TypeShown ==
  ASSUME PageTypeOK, NEW k \in calls, k.answer \notin {"Asked", "Unknown"}
  PROVE  Shown(k) \in [op: Operations \cup {NoOperation},
                       state: {"None", "Queued", "Running"} \cup Terminal, lines: Seq(Nat)]
<1>1. Lines(0, k.lines) \in Seq(Nat)
  BY SupervisorAssumption, LinesAreLines DEF PageTypeOK
<1> QED
  BY <1>1 DEF PageTypeOK, Shown

\* Every step keeps the types.
LEMMA ConsoleTypeStep ==
  ASSUME ConsoleIInv, ConsoleNext
  PROVE  ConsoleTypeOK'
<1> TypeOK /\ PageTypeOK
  BY DEF ConsoleIInv, ConsoleTypeOK, PageTypeOK
<1> SUFFICES TypeOK' /\ PageTypeOK'
  BY DEF ConsoleTypeOK, PageTypeOK
<1> USE SupervisorAssumption
<1>0. /\ command.phase = "Accepted" => command.op \in Operations
      /\ \A c \in open : watching[c] \in Operations
  BY DEF ConsoleIInv, PageInv, KnownOK, ReadsOK
<1>1. CASE SendCommand
  BY <1>1 DEF SendCommand, TypeOK, PageTypeOK, supervision, records, clients, NoCommand
<1>2. CASE RunCommand
  <2>1. CASE ServeCommand
    <3>1. CASE command' = NoCommand /\ UNCHANGED supervision
      BY <2>1, <3>1 DEF ServeCommand, TypeOK, PageTypeOK, supervision, records, clients, NoCommand
    <3>2. CASE (\E b \in BOOLEAN : Start(b)) /\ command' = [phase |-> "Accepted", op |-> nextId]
      <4>1. TypeOK'
        BY <3>2, TypeStart DEF ConsoleIInv
      <4>2. nextId \in Operations
        BY <3>2 DEF Start, Operations, TypeOK
      <4> QED
        BY <2>1, <3>2, <4>1, <4>2 DEF ServeCommand, PageTypeOK
    <3> QED
      BY <2>1, <3>1, <3>2 DEF ServeCommand
  <2>2. CASE CommandUnauthorised
    <3>1. TypeOK'
      BY <2>2, TypeHangUp DEF CommandUnauthorised, Unmount, server, TypeOK
    <3> QED
      BY <2>2, <3>1, TypeNoView DEF CommandUnauthorised, Unmount, PageTypeOK, NoCommand
  <2>3. CASE CommandAccepted
    <3>1. TypeOK'
      BY <2>3, TypeHangUp DEF CommandAccepted, server, TypeOK
    <3>2. Asked(command.op) \in [op: Operations,
                       answer: {"Asked", "Unknown", "Queued", "Running"} \cup Terminal,
                       lines: 0 .. MaxProgress, resumes: BOOLEAN]
      BY <2>3, <1>0, TypeAsked DEF CommandAccepted
    <3> QED
      BY <2>3, <3>1, <3>2, <1>0 DEF CommandAccepted, PageTypeOK, AskFor, NoCommand
  <2> QED
    BY <1>2, <2>1, <2>2, <2>3 DEF RunCommand
<1>3. CASE \E k \in calls : ServeSnapshot(k)
  <2> PICK k \in calls : ServeSnapshot(k)
    BY <1>3
  <2>1. TypeOK'
    BY DEF ServeSnapshot, TypeOK, supervision, records, clients
  <2>2. k.op \in Operations
    BY DEF PageTypeOK
  <2>3. CASE k.op \notin retained
    BY <2>1, <2>2, <2>3 DEF ServeSnapshot, Snapshot, PageTypeOK
  <2>4. CASE k.op \in retained
    <3>1. state[k.op] # "None"
      BY <2>2, <2>4 DEF ConsoleIInv, GateInv
    <3>2. Snapshot(k) \in [op: Operations,
                       answer: {"Asked", "Unknown", "Queued", "Running"} \cup Terminal,
                       lines: 0 .. MaxProgress, resumes: BOOLEAN]
      <4>1. Snapshot(k) = [k EXCEPT !.answer = state[k.op], !.lines = progress[k.op]]
        BY <2>4 DEF Snapshot
      <4>2. /\ state[k.op] \in {"Asked", "Unknown", "Queued", "Running"} \cup Terminal
            /\ progress[k.op] \in 0 .. MaxProgress
        BY <2>2, <3>1 DEF TypeOK
      <4>3. k \in [op: Operations,
                   answer: {"Asked", "Unknown", "Queued", "Running"} \cup Terminal,
                   lines: 0 .. MaxProgress, resumes: BOOLEAN]
        BY DEF PageTypeOK
      <4> QED
        BY <4>1, <4>2, <4>3, TypeAnswered
    <3> QED
      BY <2>1, <3>2 DEF ServeSnapshot, PageTypeOK
  <2> QED
    BY <2>3, <2>4
<1>4. CASE \E k \in calls : SnapshotUnauthorised(k)
  <2> PICK k \in calls : SnapshotUnauthorised(k)
    BY <1>4
  <2>1. TypeOK'
    BY TypeHangUp DEF SnapshotUnauthorised, Unmount, server, TypeOK
  <2>2. stored' \in Operations \cup {NoOperation}
    BY TypeForget DEF SnapshotUnauthorised, PageTypeOK
  <2> QED
    BY <2>1, <2>2, TypeNoView DEF SnapshotUnauthorised, Unmount, PageTypeOK
<1>5. CASE \E k \in calls : Settled(k)
  <2> PICK k \in calls : Settled(k)
    BY <1>5
  <2>1. CASE SnapshotTerminal(k)
    <3>1. k.answer \notin {"Asked", "Unknown"}
      BY <2>1 DEF SnapshotTerminal, Terminal
    <3> QED
      BY <2>1, <3>1, TypeShown
      DEF SnapshotTerminal, TypeOK, PageTypeOK, supervision, records, clients
  <2>2. CASE SnapshotRunning(k)
    <3>1. k.answer \notin {"Asked", "Unknown"} /\ k.op \in Operations
      BY <2>2 DEF SnapshotRunning, PageTypeOK
    <3>2. CASE page = "Console"
      <4> PICK c \in Clients \ open :
            /\ stream' = [stream EXCEPT ![c] = "New"]
            /\ watching' = [watching EXCEPT ![c] = k.op]
            /\ after' = [after EXCEPT ![c] = 0]
            /\ got' = [got EXCEPT ![c] = <<>>]
            /\ channel' = [channel EXCEPT ![c] = <<>>]
        BY <2>2, <3>2 DEF SnapshotRunning
      <4>1. /\ stream' \in [Clients -> {"New", "Found", "NotFound", "Attached", "Away", "Ended"}]
            /\ watching' \in [Clients -> Operations \cup {NoOperation}]
            /\ after' \in [Clients -> Nat]
        BY <3>1 DEF TypeOK
      <4>2. <<>> \in Seq(Nat) /\ <<>> \in Seq(Event)
        OBVIOUS
      <4>3. got' \in [Clients -> Seq(Nat)] /\ channel' \in [Clients -> Seq(Event)]
        BY <4>2 DEF TypeOK
      <4>4. TypeOK'
        BY <2>2, <4>1, <4>3 DEF SnapshotRunning, TypeOK, records
      <4> QED
        BY <2>2, <3>1, <3>2, <4>4, TypeShown DEF SnapshotRunning, PageTypeOK
    <3>3. CASE page # "Console"
      <4>1. TypeOK'
        BY <2>2, <3>3 DEF SnapshotRunning, TypeOK, records, clients
      <4> QED
        BY <2>2, <3>1, <3>3, <4>1, TypeShown DEF SnapshotRunning, PageTypeOK
    <3> QED
      BY <3>2, <3>3
  <2>3. CASE SnapshotUnknown(k)
    BY <2>3, TypeNoView DEF SnapshotUnknown, TypeOK, PageTypeOK, supervision, records, clients
  <2> QED
    BY <2>1, <2>2, <2>3 DEF Settled
<1>6. CASE \E k \in calls : LoseSnapshot(k)
  <2>1. stored' \in Operations \cup {NoOperation}
    BY <1>6, TypeForget DEF LoseSnapshot, PageTypeOK
  <2> QED
    BY <1>6, <2>1 DEF LoseSnapshot, Interrupt, TypeOK, PageTypeOK, records, clients
<1>7. CASE \E c \in Clients : Follow(c) \/ ConnectionDrops(c)
  <2> PICK c \in Clients : Follow(c) \/ ConnectionDrops(c)
    BY <1>7
  <2>0. ASSUME c \in open, Interrupted(c)
        PROVE  /\ calls' \subseteq [op: Operations,
                       answer: {"Asked", "Unknown", "Queued", "Running"} \cup Terminal,
                       lines: 0 .. MaxProgress, resumes: BOOLEAN]
               /\ open' \subseteq Clients
               /\ current' \in Clients \cup {NoClient}
               /\ stranded' \subseteq Operations
    <3>1. Asked(watching[c]) \in [op: Operations,
                       answer: {"Asked", "Unknown", "Queued", "Running"} \cup Terminal,
                       lines: 0 .. MaxProgress, resumes: BOOLEAN]
      BY <1>0, <2>0, TypeAsked
    <3> QED
      BY <2>0, <3>1 DEF Interrupted, PageTypeOK
  <2>1. CASE Connect(c)
    <3>1. CASE session /\ LookUp(c, watching[c])
      <4>1. TypeOK'
        BY <3>1, <2>1, <1>0 DEF Connect, LookUp, TypeOK, records
      <4> QED
        BY <4>1, <3>1, <2>1, <2>0 DEF Connect, PageTypeOK
    <3>2. CASE UNCHANGED supervision /\ Interrupted(c)
      BY <3>2, <2>1, <2>0 DEF Connect, PageTypeOK, TypeOK, supervision, records, clients
    <3> QED
      BY <2>1, <3>1, <3>2 DEF Connect
  <2>2. CASE ServerAttaches(c)
    <3>1. channel'[c] \in Seq(Event)
      <4> DEFINE o == watching[c]
                 rest == IF IsTerminal(o) THEN <<FinishedEvent>> ELSE <<>>
      <4>1. o \in Operations
        BY <2>2 DEF ServerAttaches, Attach, ConsoleIInv, StreamInv, ClientInv
      <4>2. Lines(after[c], progress[o]) \in Seq(Event)
        <5>1. after[c] \in Nat /\ progress[o] \in Nat
          BY <4>1 DEF TypeOK
        <5> QED
          BY <5>1, LinesAreLines
      <4>3. rest \in Seq(Event)
        <5>1. FinishedEvent \in Event
          BY DEF Event
        <5>2. <<FinishedEvent>> \in Seq(Event) /\ <<>> \in Seq(Event)
          BY <5>1
        <5> QED
          BY <5>2
      <4>4. channel'[c] = Lines(after[c], progress[o]) \o rest
        BY <2>2 DEF ServerAttaches, Attach, TypeOK
      <4> HIDE DEF rest
      <4> QED
        BY <4>2, <4>3, <4>4
    <3>2. channel' \in [Clients -> Seq(Event)]
      BY <3>1, <2>2 DEF ServerAttaches, Attach, TypeOK
    <3> QED
      BY <3>2, <2>2 DEF ServerAttaches, Attach, TypeOK, PageTypeOK, pageVars, records
  <2>3. CASE Hear(c)
    <3>1. channel[c] \in Seq(Event) /\ channel[c] # <<>> /\ got[c] \in Seq(Nat)
      BY <2>3 DEF Hear, Receive, TypeOK
    <3>2. Head(channel[c]) \in Event /\ Tail(channel[c]) \in Seq(Event)
      BY <3>1
    <3>3. CASE Head(channel[c]) = FinishedEvent
      BY <2>3, <2>0, <3>2, <3>3 DEF Hear, Receive, TypeOK, PageTypeOK, records
    <3>4. CASE Head(channel[c]) # FinishedEvent
      <4>1. Head(channel[c]) \in Nat
        BY <3>2, <3>4 DEF Event
      <4>2. TypeOK'
        <5>1. channel' \in [Clients -> Seq(Event)]
          BY <2>3, <3>2 DEF Hear, Receive, TypeOK
        <5>2. Append(got[c], Head(channel[c])) \in Seq(Nat)
          BY <3>1, <4>1
        <5>3. got' \in [Clients -> Seq(Nat)]
          BY <2>3, <3>4, <5>2 DEF Hear, Receive, TypeOK
        <5> QED
          BY <2>3, <3>4, <5>1, <5>3 DEF Hear, Receive, TypeOK, records
      <4>3. Appended(watching[c], Head(channel[c]))
              \in [op: Operations \cup {NoOperation},
                   state: {"None", "Queued", "Running"} \cup Terminal, lines: Seq(Nat)]
        <5>1. view.lines \in Seq(Nat)
          BY DEF PageTypeOK
        <5>2. Append(view.lines, Head(channel[c])) \in Seq(Nat)
          BY <4>1, <5>1
        <5>3. CASE Appended(watching[c], Head(channel[c])) = view
          BY <5>3 DEF PageTypeOK
        <5>4. CASE Appended(watching[c], Head(channel[c]))
                     = [view EXCEPT !.state = IF @ = "Queued" THEN "Running" ELSE @,
                                    !.lines = Append(@, Head(channel[c]))]
          BY <5>2, <5>4 DEF PageTypeOK
        <5> QED
          BY <5>3, <5>4 DEF Appended
      <4> QED
        BY <2>3, <3>4, <4>2, <4>3 DEF Hear, PageTypeOK
    <3> QED
      BY <3>3, <3>4
  <2>4. CASE ConnectionDrops(c)
    BY <2>4 DEF ConnectionDrops, Drop, TypeOK, PageTypeOK, pageVars, records
  <2> QED
    BY <2>1, <2>2, <2>3, <2>4 DEF Follow
<1>8. CASE \E o \in Operations : ServerWorks(o)
  <2>1. TypeOK'
    BY <1>8, TypeWork DEF ServerWorks, ConsoleIInv
  <2> QED
    BY <1>8, <2>1 DEF ServerWorks, PageTypeOK, pageVars
<1>9. CASE SchedulerStarts
  <2>1. TypeOK'
    BY <1>9, TypeStart DEF SchedulerStarts, ConsoleIInv
  <2> QED
    BY <1>9, <2>1 DEF SchedulerStarts, PageTypeOK, pageVars
<1>10. CASE LoseCommand
  BY <1>10 DEF LoseCommand, Interrupt, TypeOK, PageTypeOK, records, clients, NoCommand
<1>11. CASE Poll
  <2>1. TypeOK'
    BY <1>11, TypeHangUp DEF Poll, Unmount, server, TypeOK
  <2> QED
    BY <1>11, <2>1, TypeNoView DEF Poll, Unmount, PageTypeOK
<1>12. CASE LogIn
  <2>1. calls' \subseteq [op: Operations,
                       answer: {"Asked", "Unknown", "Queued", "Running"} \cup Terminal,
                       lines: 0 .. MaxProgress, resumes: BOOLEAN]
    BY <1>12, TypeResumed DEF LogIn, Mount, PageTypeOK
  <2> QED
    BY <1>12, <2>1, TypeNoView
    DEF LogIn, Mount, TypeOK, PageTypeOK, supervision, records, clients, NoCommand
<1>13. CASE Expire
  <2>1. TypeOK'
    BY <1>13 DEF Expire, Interrupt, TypeOK, records, clients
  <2> QED
    BY <1>13, <2>1 DEF Expire, PageTypeOK, pageVars
<1>14. CASE Reload
  <2>1. TypeOK'
    BY <1>14, TypeHangUp DEF Reload, Interrupt, server, TypeOK
  <2>2. calls' \subseteq [op: Operations,
                       answer: {"Asked", "Unknown", "Queued", "Running"} \cup Terminal,
                       lines: 0 .. MaxProgress, resumes: BOOLEAN]
    BY <1>14, TypeResumed DEF Reload, Mount, PageTypeOK
  <2> QED
    BY <1>14, <2>1, <2>2, TypeNoView DEF Reload, Mount, PageTypeOK, NoCommand
<1>15. CASE Restart
  <2>1. TypeOK'
    <3>1. drops' \in 0 .. MaxDrops
      BY <1>15 DEF Restart, Interrupt, TypeOK
    <3>2. /\ worker' \in [Operations -> {"None", "Spawned", "Running", "Released", "Finished"}]
          /\ mutating' \in [Operations -> BOOLEAN]
          /\ state' \in [Operations -> {"None", "Queued", "Running"} \cup Terminal]
          /\ progress' \in [Operations -> 0 .. MaxProgress]
      <4>1. worker' = [o \in Operations |-> IF worker[o] = "Finished" THEN worker[o] ELSE "None"]
        BY <1>15 DEF Restart
      <4>2. mutating' = [o \in Operations |-> IF worker[o] = "Finished" THEN mutating[o] ELSE FALSE]
        BY <1>15 DEF Restart
      <4>3. state' = [o \in Operations |-> IF worker[o] = "Finished" THEN state[o] ELSE "None"]
        BY <1>15 DEF Restart
      <4>4. progress' = [o \in Operations |-> IF worker[o] = "Finished" THEN progress[o] ELSE 0]
        BY <1>15 DEF Restart
      <4>5. mutating' \in [Operations -> BOOLEAN]
        BY <4>2 DEF TypeOK
      <4> QED
        BY <4>1, <4>3, <4>4, <4>5 DEF TypeOK
    <3>3. /\ stream' \in [Clients -> {"New", "Found", "NotFound", "Attached", "Away", "Ended"}]
          /\ channel' \in [Clients -> Seq(Event)]
      BY <1>15 DEF Restart, TypeOK
    <3>4. nextId' = nextId /\ active' = NoOperation /\ retained' = {}
          /\ watching' = watching /\ after' = after /\ got' = got
      BY <1>15 DEF Restart
    <3> QED
      BY <3>1, <3>2, <3>3, <3>4 DEF TypeOK
  <2>2. stored' \in Operations \cup {NoOperation}
    BY <1>15, TypeForget DEF Restart, PageTypeOK
  <2> QED
    BY <1>15, <2>1, <2>2 DEF Restart, PageTypeOK, NoCommand
<1> QED
  BY <1>1, <1>2, <1>3, <1>4, <1>5, <1>6, <1>7, <1>8, <1>9, <1>10, <1>11, <1>12,
     <1>13, <1>14, <1>15 DEF ConsoleNext, Settle

----------------------------------------------------------------------------
(* The gate *)

\* To the supervisor's own state a step is a start, a worker's, a restart or none.
LEMMA ConsoleStepKinds ==
  ASSUME ConsoleNext
  PROVE  \/ \E b \in BOOLEAN : Start(b)
         \/ \E o \in Operations : Work(o)
         \/ Restart
         \/ UNCHANGED server
<1> USE DEF server, records, supervision
<1>1. CASE SendCommand \/ RunCommand
  BY <1>1 DEF SendCommand, RunCommand, ServeCommand, CommandUnauthorised, CommandAccepted
<1>2. CASE Settle
  BY <1>2 DEF Settle, ServeSnapshot, SnapshotUnauthorised, Settled, SnapshotTerminal,
              SnapshotRunning, SnapshotUnknown
<1>3. CASE \E c \in Clients : Follow(c) \/ ConnectionDrops(c)
  BY <1>3 DEF Follow, ConnectionDrops, Connect, ServerAttaches, Hear, LookUp, Attach, Receive, Drop
<1>4. CASE (\E k \in calls : LoseSnapshot(k)) \/ LoseCommand
  BY <1>4 DEF LoseSnapshot, LoseCommand
<1>5. CASE SchedulerStarts
  BY <1>5 DEF SchedulerStarts
<1>6. CASE Poll \/ LogIn \/ Expire \/ Reload
  BY <1>6 DEF Poll, LogIn, Expire, Reload
<1>7. CASE \E o \in Operations : ServerWorks(o)
  BY <1>7 DEF ServerWorks
<1> QED
  BY <1>1, <1>2, <1>3, <1>4, <1>5, <1>6, <1>7 DEF ConsoleNext

\* After a restart nothing is under way, and what had ended is as it was.
LEMMA RestartEffect ==
  ASSUME Restart
  PROVE  /\ active' = NoOperation /\ retained' = {} /\ nextId' = nextId
         /\ worker' = [o \in Operations |-> IF worker[o] = "Finished" THEN worker[o] ELSE "None"]
         /\ mutating' = [o \in Operations |-> IF worker[o] = "Finished" THEN mutating[o] ELSE FALSE]
         /\ state' = [o \in Operations |-> IF worker[o] = "Finished" THEN state[o] ELSE "None"]
         /\ progress' = [o \in Operations |-> IF worker[o] = "Finished" THEN progress[o] ELSE 0]
<1>1. worker' = [o \in Operations |-> IF worker[o] = "Finished" THEN worker[o] ELSE "None"]
  BY DEF Restart
<1>2. mutating' = [o \in Operations |-> IF worker[o] = "Finished" THEN mutating[o] ELSE FALSE]
  BY DEF Restart
<1>3. state' = [o \in Operations |-> IF worker[o] = "Finished" THEN state[o] ELSE "None"]
  BY DEF Restart
<1>4. progress' = [o \in Operations |-> IF worker[o] = "Finished" THEN progress[o] ELSE 0]
  BY DEF Restart
<1> QED
  BY <1>1, <1>2, <1>3, <1>4 DEF Restart

\* Every step keeps the gate.
LEMMA GateStep ==
  ASSUME ConsoleIInv, ConsoleNext
  PROVE  GateInv'
<1> ConsoleTypeOK /\ TypeOK /\ GateInv
  BY DEF ConsoleIInv, ConsoleTypeOK
<1>1. CASE \E b \in BOOLEAN : Start(b)
  BY <1>1, GateStart
<1>2. CASE \E o \in Operations : Work(o)
  BY <1>2, GateWork
<1>3. CASE Restart
  <2>1. NoOperation \notin Operations
    BY SupervisorAssumption DEF Operations
  <2> QED
    BY <1>3, <2>1, RestartEffect DEF GateInv, InProgress, IsTerminal, Terminal
<1>4. CASE UNCHANGED server
  BY <1>4 DEF server, records, GateInv, IsTerminal
<1> QED
  BY <1>1, <1>2, <1>3, <1>4, ConsoleStepKinds

----------------------------------------------------------------------------
(* The streams *)

\* A client whose own state, and whose operation, are as they were.
LEMMA ClientKept ==
  ASSUME NEW c \in Clients, ClientInv(c),
         watching'[c] = watching[c], stream'[c] = stream[c], after'[c] = after[c],
         channel'[c] = channel[c], got'[c] = got[c],
         watching[c] \in Operations =>
           /\ watching[c] < nextId => watching[c] < nextId'
           /\ worker'[watching[c]] # "None" <=> worker[watching[c]] # "None"
           /\ IsTerminal(watching[c])' <=> IsTerminal(watching[c])
           /\ progress'[watching[c]] = progress[watching[c]]
  PROVE  ClientInv(c)'
<1> DEFINE o == watching[c]
<1>1. ASSUME stream[c] = "Attached"
      PROVE  Pending(c)'
  <2>1. o \in Operations /\ Pending(c)
    BY <1>1 DEF ClientInv
  <2>2. o' = o /\ progress'[o] = progress[o] /\ (IsTerminal(o)' <=> IsTerminal(o))
    BY <2>1
  <2>3. IsTerminal(watching[c])' <=> IsTerminal(watching[c])
    BY <2>1
  <2> QED
    BY <2>1, <2>2, <2>3 DEF Pending
<1> QED
  BY <1>1 DEF ClientInv

\* A step that touches neither the records nor the clients.
LEMMA StreamsKept ==
  ASSUME StreamInv, UNCHANGED <<server, clients>>
  PROVE  StreamInv'
BY ClientKept DEF StreamInv, server, records, clients, IsTerminal

\* A stream that is over promises nothing.
LEMMA ClientGone ==
  ASSUME NEW c \in Clients, stream'[c] \in {"New", "NotFound", "Away"}, got'[c] = <<>>,
         watching'[c] \in Operations => watching'[c] < nextId' /\ progress'[watching'[c]] \in Nat
  PROVE  ClientInv(c)'
BY DEF ClientInv

\* Closed sources are at their beginning again.
LEMMA StreamHangUp ==
  ASSUME ConsoleTypeOK, StreamInv, NEW sources, HangUp(sources), UNCHANGED server
  PROVE  StreamInv'
<1> SUFFICES ASSUME NEW c \in Clients
             PROVE  ClientInv(c)'
  BY DEF StreamInv
<1>0. NoOperation \notin Operations
  BY SupervisorAssumption DEF Operations
<1>1. CASE c \in sources /\ stream[c] # "Ended"
  <2>1. stream'[c] = "Away" /\ watching'[c] = NoOperation /\ got'[c] = <<>>
    BY <1>1 DEF HangUp
  <2> QED
    BY <1>0, <2>1, ClientGone
<1>2. CASE ~ (c \in sources /\ stream[c] # "Ended")
  <2>1. /\ stream'[c] = stream[c] /\ watching'[c] = watching[c] /\ got'[c] = got[c]
        /\ after'[c] = after[c] /\ channel'[c] = channel[c]
    BY <1>2 DEF HangUp, ConsoleTypeOK, TypeOK
  <2> QED
    BY <2>1, ClientKept DEF StreamInv, server, records, IsTerminal
<1> QED
  BY <1>1, <1>2

\* A new operation has no client yet, and eviction takes no record from a client.
LEMMA StreamStart ==
  ASSUME ConsoleTypeOK, StreamInv, NEW b \in BOOLEAN, Start(b)
  PROVE  StreamInv'
<1> SUFFICES ASSUME NEW c \in Clients
             PROVE  ClientInv(c)'
  BY DEF StreamInv
<1>1. UNCHANGED clients /\ progress' = progress /\ nextId' = nextId + 1
  BY DEF Start
<1>2. nextId \in Nat
  BY SupervisorAssumption DEF ConsoleTypeOK, TypeOK
<1>3. ASSUME watching[c] \in Operations
      PROVE  /\ watching[c] < nextId'
             /\ worker'[watching[c]] = worker[watching[c]]
             /\ state'[watching[c]] = state[watching[c]]
  <2>1. watching[c] < nextId
    BY <1>3 DEF StreamInv, ClientInv
  <2>2. watching[c] # nextId /\ watching[c] \in Int
    BY <1>2, <1>3, <2>1 DEF Operations
  <2> QED
    BY <1>1, <1>2, <1>3, <2>1, <2>2 DEF Start, ConsoleTypeOK, TypeOK
<1> QED
  BY <1>1, <1>3, ClientKept DEF StreamInv, clients, IsTerminal

\* A restart cuts the connections off, and what had ended stays true.
LEMMA StreamRestart ==
  ASSUME ConsoleIInv, Restart
  PROVE  StreamInv'
<1> SUFFICES ASSUME NEW c \in Clients
             PROVE  ClientInv(c)'
  BY DEF StreamInv
<1>1. ClientInv(c) /\ GateInv /\ ConsoleTypeOK
  BY DEF ConsoleIInv, StreamInv
<1>2. /\ watching' = watching /\ got' = got /\ after' = after /\ nextId' = nextId
      /\ stream'[c] = IF stream[c] \in {"Found", "Attached"} THEN "Away" ELSE stream[c]
  BY DEF Restart
<1>3. \A o \in Operations :
        /\ worker'[o] = IF worker[o] = "Finished" THEN "Finished" ELSE "None"
        /\ worker[o] = "Finished" => state'[o] = state[o] /\ progress'[o] = progress[o]
  BY RestartEffect
<1>4. stream[c] = "Ended" => worker[watching[c]] = "Finished" /\ watching[c] \in Operations
  BY <1>1 DEF ClientInv, GateInv
<1> QED
  BY <1>1, <1>2, <1>3, <1>4 DEF ClientInv, IsTerminal

\* A line reaches every client that is attached and has not seen it.
LEMMA StreamPush ==
  ASSUME ConsoleIInv, NEW o \in Operations, Push(o)
  PROVE  StreamInv'
<1> SUFFICES ASSUME NEW c \in Clients
             PROVE  ClientInv(c)'
  BY DEF StreamInv
<1>1. ClientInv(c) /\ GateInv /\ ConsoleTypeOK
  BY DEF ConsoleIInv, StreamInv
<1>2. /\ UNCHANGED <<watching, stream, after, got, nextId, state>>
      /\ worker' = worker /\ worker[o] = "Running"
      /\ progress' = [progress EXCEPT ![o] = @ + 1]
      /\ channel'[c] = IF Subscribed(c, o) /\ progress[o] + 1 > after[c]
                       THEN Append(channel[c], progress[o] + 1) ELSE channel[c]
  BY DEF Push
<1>3. CASE watching[c] # o
  BY <1>1, <1>2, <1>3, ClientKept DEF Subscribed, IsTerminal, ConsoleTypeOK, TypeOK
<1>4. CASE watching[c] = o
  <2>1. ~ IsTerminal(o) /\ ~ IsTerminal(o)'
    BY <1>1, <1>2 DEF GateInv, IsTerminal
  <2>2. progress[o] \in Nat /\ progress'[o] = progress[o] + 1
    BY <1>1, <1>2 DEF ConsoleTypeOK, TypeOK
  <2>3. channel[c] \in Seq(Event) /\ got[c] \in Seq(Nat) /\ after[c] \in Nat
    BY <1>1 DEF ConsoleTypeOK, TypeOK
  <2>4. CASE stream[c] # "Attached"
    BY <1>1, <1>2, <1>4, <2>1, <2>2, <2>3, <2>4 DEF ClientInv
  <2>5. CASE stream[c] = "Attached"
    <3> DEFINE n == progress[o] - Len(got[c])
    <3>0. Len(got[c]) <= progress[o] /\ after[c] <= Len(got[c]) /\ Pending(c)
      BY <1>1, <1>2, <1>4, <2>5 DEF ClientInv
    <3>1. /\ Len(got[c]) <= progress[o] /\ after[c] <= Len(got[c])
          /\ Len(channel[c]) = n /\ \A i \in 1 .. n : channel[c][i] = Len(got[c]) + i
      BY <1>4, <2>1, <2>2, <2>3, <3>0 DEF Pending
    <3>2. channel'[c] = Append(channel[c], progress[o] + 1)
      BY <1>2, <1>4, <2>2, <2>3, <2>5, <3>1 DEF Subscribed
    <3>3. Len(channel'[c]) = n + 1 /\ n \in Nat
      BY <2>2, <2>3, <3>1, <3>2
    <3>4. \A i \in 1 .. n + 1 : channel'[c][i] = Len(got[c]) + i
      <4> SUFFICES ASSUME NEW i \in 1 .. n + 1
                   PROVE  channel'[c][i] = Len(got[c]) + i
        OBVIOUS
      <4>1. CASE i = n + 1
        BY <2>2, <2>3, <3>1, <3>2, <3>3, <4>1
      <4>2. CASE i # n + 1
        <5>1. i \in 1 .. n
          BY <3>3, <4>2
        <5> QED
          BY <2>2, <2>3, <3>1, <3>2, <5>1
      <4> QED
        BY <4>1, <4>2
    <3>5. progress'[o] - Len(got[c]) = n + 1
      BY <2>2, <2>3
    <3>6. Pending(c)'
      BY <1>2, <1>4, <2>1, <3>3, <3>4, <3>5 DEF Pending
    <3> QED
      BY <1>1, <1>2, <1>4, <2>1, <2>2, <2>3, <2>5, <3>1, <3>6 DEF ClientInv
  <2> QED
    BY <2>4, <2>5
<1> QED
  BY <1>3, <1>4

\* The end reaches every client that is attached.
LEMMA StreamFinish ==
  ASSUME ConsoleIInv, NEW o \in Operations, NEW result \in Terminal, Finish(o, result)
  PROVE  StreamInv'
<1> SUFFICES ASSUME NEW c \in Clients
             PROVE  ClientInv(c)'
  BY DEF StreamInv
<1>1. ClientInv(c) /\ GateInv /\ ConsoleTypeOK
  BY DEF ConsoleIInv, StreamInv
<1>2. /\ UNCHANGED <<watching, stream, after, got, nextId, progress>>
      /\ worker[o] = "Released" /\ worker' = [worker EXCEPT ![o] = "Finished"]
      /\ state' = [state EXCEPT ![o] = result]
      /\ channel'[c] = IF Subscribed(c, o) THEN Append(channel[c], FinishedEvent) ELSE channel[c]
  BY DEF Finish
<1>3. CASE watching[c] # o
  BY <1>1, <1>2, <1>3, ClientKept DEF Subscribed, IsTerminal, ConsoleTypeOK, TypeOK
<1>4. CASE watching[c] = o
  <2>1. ~ IsTerminal(o)
    BY <1>1, <1>2 DEF GateInv
  <2>2. state'[o] \in Terminal /\ worker'[o] = "Finished"
    BY <1>1, <1>2 DEF ConsoleTypeOK, TypeOK
  <2>3. channel[c] \in Seq(Event) /\ got[c] \in Seq(Nat) /\ progress[o] \in Nat
    BY <1>1 DEF ConsoleTypeOK, TypeOK
  <2>4. CASE stream[c] # "Attached"
    BY <1>1, <1>2, <1>4, <2>1, <2>2, <2>4 DEF ClientInv
  <2>5. CASE stream[c] = "Attached"
    <3> DEFINE n == progress[o] - Len(got[c])
    <3>0. Len(got[c]) <= progress[o] /\ Pending(c)
      BY <1>1, <1>2, <1>4, <2>5 DEF ClientInv
    <3>1. /\ Len(got[c]) <= progress[o]
          /\ Len(channel[c]) = n /\ \A i \in 1 .. n : channel[c][i] = Len(got[c]) + i
      BY <1>4, <2>1, <2>3, <3>0 DEF Pending
    <3>2. channel'[c] = Append(channel[c], FinishedEvent)
      BY <1>2, <1>4, <2>5 DEF Subscribed
    <3>3. Len(channel'[c]) = n + 1 /\ n \in Nat /\ FinishedEvent \in Event
      BY <2>3, <3>1, <3>2 DEF Event
    <3>4. /\ \A i \in 1 .. n : channel'[c][i] = Len(got[c]) + i
          /\ channel'[c][n + 1] = FinishedEvent
      BY <2>3, <3>1, <3>2, <3>3
    <3>5. IsTerminal(watching[c])'
      BY <1>2, <1>4, <2>2 DEF IsTerminal
    <3>6. Pending(c)'
      BY <1>2, <1>4, <3>3, <3>4, <3>5 DEF Pending
    <3> QED
      BY <1>1, <1>2, <1>4, <2>2, <2>5, <3>1, <3>6 DEF ClientInv
  <2> QED
    BY <2>4, <2>5
<1> QED
  BY <1>3, <1>4

\* A worker's step keeps what the clients know.
LEMMA StreamWork ==
  ASSUME ConsoleIInv, NEW o \in Operations, Work(o)
  PROVE  StreamInv'
<1>1. CASE Run(o) \/ Release(o)
  <2> SUFFICES ASSUME NEW c \in Clients
               PROVE  ClientInv(c)'
    BY DEF StreamInv
  <2>1. ClientInv(c) /\ ConsoleTypeOK /\ GateInv
    BY DEF ConsoleIInv, StreamInv
  <2>2. UNCHANGED <<clients, progress, nextId>>
    BY <1>1 DEF Run, Release, records
  <2>3. \A p \in Operations :
          /\ worker'[p] # "None" <=> worker[p] # "None"
          /\ IsTerminal(p)' <=> IsTerminal(p)
    BY <1>1, <2>1 DEF Run, Release, records, ConsoleTypeOK, TypeOK, IsTerminal, Terminal, GateInv
  <2> QED
    BY <2>1, <2>2, <2>3, ClientKept DEF clients
<1>2. CASE Push(o)
  BY <1>2, StreamPush
<1>3. CASE \E result \in Terminal : Finish(o, result)
  BY <1>3, StreamFinish
<1> QED
  BY <1>1, <1>2, <1>3 DEF Work

\* A step of one client changes nothing for the others.
LEMMA OtherClients ==
  ASSUME StreamInv, NEW c \in Clients, UNCHANGED server,
         \A d \in Clients \ {c} :
           /\ watching'[d] = watching[d] /\ stream'[d] = stream[d] /\ after'[d] = after[d]
           /\ channel'[d] = channel[d] /\ got'[d] = got[d],
         ClientInv(c)'
  PROVE  StreamInv'
BY ClientKept DEF StreamInv, server, records, IsTerminal

\* A source that comes back asks for what follows the last line it has.
LEMMA StreamLookUp ==
  ASSUME ConsoleIInv, NEW c \in open, LookUp(c, watching[c])
  PROVE  StreamInv'
<1>1. /\ c \in Clients /\ ClientInv(c) /\ GateInv /\ ConsoleTypeOK /\ StreamInv
      /\ watching[c] \in Operations
  BY DEF ConsoleIInv, StreamInv, PageInv, ReadsOK, ConsoleTypeOK
<1>2. /\ watching' = watching /\ UNCHANGED <<server, channel, got>>
      /\ after' = [after EXCEPT ![c] = Len(got[c])]
      /\ stream' = [stream EXCEPT ![c] = IF watching[c] \in retained THEN "Found" ELSE "NotFound"]
  BY <1>1 DEF LookUp, server, ConsoleTypeOK, TypeOK
<1>3. ClientInv(c)'
  <2>1. after'[c] = Len(got[c]) /\ Len(got[c]) \in Nat
    BY <1>1, <1>2 DEF ConsoleTypeOK, TypeOK
  <2>2. stream'[c] = IF watching[c] \in retained THEN "Found" ELSE "NotFound"
    BY <1>1, <1>2 DEF ConsoleTypeOK, TypeOK
  <2>3. watching[c] \in retained => worker[watching[c]] # "None"
    BY <1>1 DEF GateInv
  <2> QED
    BY <1>1, <1>2, <2>1, <2>2, <2>3 DEF ClientInv, server, records
<1> QED
  BY <1>1, <1>2, <1>3, OtherClients DEF ConsoleTypeOK, TypeOK

\* The replay is what lies between what the client has and what the record has.
LEMMA StreamAttach ==
  ASSUME ConsoleIInv, NEW c \in Clients, Attach(c)
  PROVE  StreamInv'
<1> DEFINE o == watching[c]
           n == progress[o] - Len(got[c])
           rest == IF IsTerminal(o) THEN <<FinishedEvent>> ELSE <<>>
<1>1. ClientInv(c) /\ ConsoleTypeOK /\ StreamInv /\ stream[c] = "Found"
  BY DEF ConsoleIInv, StreamInv, Attach
<1>2. /\ UNCHANGED <<server, watching, after, got>>
      /\ channel' = [channel EXCEPT ![c] = Lines(after[c], progress[o]) \o rest]
      /\ stream' = [stream EXCEPT ![c] = "Attached"]
  BY DEF Attach, server
<1>3. /\ o \in Operations /\ worker[o] # "None" /\ Len(got[c]) <= progress[o]
      /\ after[c] = Len(got[c]) /\ Len(got[c]) \in Nat /\ progress[o] \in Nat
  BY <1>1 DEF ClientInv, ConsoleTypeOK, TypeOK
<1>4. channel'[c] = Lines(after[c], progress[o]) \o rest /\ stream'[c] = "Attached"
  BY <1>1, <1>2 DEF ConsoleTypeOK, TypeOK
<1>5. /\ Lines(after[c], progress[o]) \in Seq(Event)
      /\ Len(Lines(after[c], progress[o])) = n
      /\ \A i \in 1 .. n : Lines(after[c], progress[o])[i] = Len(got[c]) + i
  <2>1. after[c] \in Nat /\ after[c] <= progress[o]
    BY <1>3
  <2>2. /\ Len(Lines(after[c], progress[o])) = progress[o] - after[c]
        /\ \A i \in 1 .. progress[o] - after[c] : Lines(after[c], progress[o])[i] = after[c] + i
    BY <1>3, <2>1, LinesFacts
  <2>3. Lines(after[c], progress[o]) \in Seq(Event)
    BY <1>3, <2>1, LinesAreLines
  <2> QED
    BY <1>3, <2>2, <2>3
<1>6. n \in Nat /\ FinishedEvent \in Event
  BY <1>3 DEF Event
<1>7. Pending(c)'
  <2>1. CASE IsTerminal(o)
    <3>1. channel'[c] = Append(Lines(after[c], progress[o]), FinishedEvent)
      BY <1>4, <1>5, <1>6, <2>1
    <3>2. /\ Len(channel'[c]) = n + 1 /\ channel'[c][n + 1] = FinishedEvent
          /\ \A i \in 1 .. n : channel'[c][i] = Len(got[c]) + i
      BY <1>5, <1>6, <3>1
    <3> QED
      BY <1>2, <2>1, <3>2 DEF Pending, server, records, IsTerminal
  <2>2. CASE ~ IsTerminal(o)
    <3>1. channel'[c] = Lines(after[c], progress[o])
      BY <1>4, <1>5, <2>2
    <3>2. /\ Len(channel'[c]) = n + 0
          /\ \A i \in 1 .. n : channel'[c][i] = Len(got[c]) + i
      BY <1>5, <1>6, <3>1
    <3> QED
      BY <1>2, <2>2, <3>2 DEF Pending, server, records, IsTerminal
  <2> QED
    BY <2>1, <2>2
<1>8. ClientInv(c)'
  BY <1>1, <1>2, <1>3, <1>4, <1>7 DEF ClientInv, server, records
<1> QED
  BY <1>1, <1>2, <1>8, OtherClients DEF ConsoleTypeOK, TypeOK

\* What a client takes from its channel is the next line, or the end.
LEMMA NextEvent ==
  ASSUME ConsoleIInv, NEW c \in Clients, stream[c] = "Attached", channel[c] # <<>>
  PROVE  /\ Head(channel[c]) = FinishedEvent =>
              IsTerminal(watching[c]) /\ Len(got[c]) = progress[watching[c]]
         /\ Head(channel[c]) # FinishedEvent =>
              /\ Head(channel[c]) = Len(got[c]) + 1
              /\ Len(got[c]) + 1 <= progress[watching[c]]
<1> DEFINE o == watching[c]
           n == progress[o] - Len(got[c])
<1>1. ClientInv(c) /\ ConsoleTypeOK
  BY DEF ConsoleIInv, StreamInv
<1>2. o \in Operations /\ Len(got[c]) <= progress[o] /\ Pending(c)
  BY <1>1 DEF ClientInv
<1>3. progress[o] \in Nat /\ Len(got[c]) \in Nat /\ channel[c] \in Seq(Event)
  BY <1>1, <1>2 DEF ConsoleTypeOK, TypeOK
<1>4. n \in Nat /\ FinishedEvent \notin Nat
  BY <1>2, <1>3, SupervisorAssumption
<1>5. Head(channel[c]) = channel[c][1] /\ Len(channel[c]) > 0
  BY <1>3
<1>6. CASE n = 0
  <2>1. IsTerminal(o) /\ channel[c][0 + 1] = FinishedEvent
    BY <1>2, <1>5, <1>6 DEF Pending
  <2> QED
    BY <1>3, <1>5, <1>6, <2>1
<1>7. CASE n > 0
  <2>1. channel[c][1] = Len(got[c]) + 1
    BY <1>2, <1>4, <1>7 DEF Pending
  <2> QED
    BY <1>3, <1>4, <1>5, <1>7, <2>1
<1> QED
  BY <1>4, <1>6, <1>7

\* Taking the next event leaves the rest pending.
LEMMA StreamReceive ==
  ASSUME ConsoleIInv, NEW c \in Clients, Receive(c)
  PROVE  StreamInv'
<1> DEFINE o == watching[c]
           n == progress[o] - Len(got[c])
<1>1. /\ ClientInv(c) /\ ConsoleTypeOK /\ StreamInv
      /\ stream[c] = "Attached" /\ channel[c] # <<>>
  BY DEF ConsoleIInv, StreamInv, Receive
<1>2. /\ UNCHANGED <<server, watching, after>>
      /\ channel' = [channel EXCEPT ![c] = Tail(@)]
  BY DEF Receive, server
<1>3. o \in Operations /\ worker[o] # "None" /\ Len(got[c]) <= progress[o] /\ Pending(c)
  BY <1>1 DEF ClientInv
<1>4. /\ progress[o] \in Nat /\ got[c] \in Seq(Nat) /\ channel[c] \in Seq(Event)
      /\ after[c] \in Nat
  BY <1>1, <1>3 DEF ConsoleTypeOK, TypeOK
<1>5. CASE Head(channel[c]) = FinishedEvent
  <2>1. IsTerminal(o) /\ Len(got[c]) = progress[o]
    BY <1>1, <1>5, NextEvent
  <2>2. stream'[c] = "Ended" /\ got' = got /\ \A d \in Clients \ {c} : stream'[d] = stream[d]
    BY <1>1, <1>5 DEF Receive, ConsoleTypeOK, TypeOK
  <2>3. ClientInv(c)'
    BY <1>1, <1>2, <1>3, <1>4, <2>1, <2>2 DEF ClientInv, server, records, IsTerminal
  <2> QED
    BY <1>1, <1>2, <2>2, <2>3, OtherClients DEF ConsoleTypeOK, TypeOK
<1>6. CASE Head(channel[c]) # FinishedEvent
  <2>1. Head(channel[c]) = Len(got[c]) + 1 /\ Len(got[c]) + 1 <= progress[o]
    BY <1>1, <1>6, NextEvent
  <2>2. /\ stream' = stream /\ got' = [got EXCEPT ![c] = Append(@, Head(channel[c]))]
    BY <1>6 DEF Receive
  <2>3. /\ got'[c] = Append(got[c], Len(got[c]) + 1) /\ channel'[c] = Tail(channel[c])
    BY <1>1, <1>2, <2>1, <2>2 DEF ConsoleTypeOK, TypeOK
  <2>4. Len(got'[c]) = Len(got[c]) + 1 /\ Len(got[c]) \in Nat
    BY <1>4, <2>3
  <2>5. \A i \in DOMAIN got'[c] : got'[c][i] = i
    <3> SUFFICES ASSUME NEW i \in DOMAIN got'[c]
                 PROVE  got'[c][i] = i
      OBVIOUS
    <3>1. CASE i = Len(got[c]) + 1
      BY <1>4, <2>3, <3>1
    <3>2. CASE i # Len(got[c]) + 1
      <4>1. i \in DOMAIN got[c] /\ got'[c][i] = got[c][i]
        BY <1>4, <2>3, <3>2
      <4> QED
        BY <1>1, <4>1 DEF ClientInv
    <3> QED
      BY <3>1, <3>2
  <2>6. /\ Len(channel'[c]) = Len(channel[c]) - 1
        /\ \A i \in 1 .. Len(channel[c]) - 1 : channel'[c][i] = channel[c][i + 1]
    BY <1>1, <1>4, <2>3
  <2>7. Pending(c)'
    <3>1. /\ Len(channel[c]) = n + (IF IsTerminal(o) THEN 1 ELSE 0)
          /\ \A i \in 1 .. n : channel[c][i] = Len(got[c]) + i
          /\ IsTerminal(o) => channel[c][n + 1] = FinishedEvent
      BY <1>3 DEF Pending
    <3>2. progress[o] - Len(got'[c]) = n - 1 /\ n \in Nat /\ n >= 1
      BY <1>4, <2>1, <2>4
    <3>3. Len(channel'[c]) = (n - 1) + (IF IsTerminal(o) THEN 1 ELSE 0)
      BY <2>6, <3>1, <3>2
    <3>4. \A i \in 1 .. n - 1 : channel'[c][i] = Len(got'[c]) + i
      <4> SUFFICES ASSUME NEW i \in 1 .. n - 1
                   PROVE  channel'[c][i] = Len(got'[c]) + i
        OBVIOUS
      <4>1. i \in 1 .. Len(channel[c]) - 1 /\ i + 1 \in 1 .. n
        BY <3>1, <3>2
      <4> QED
        BY <2>4, <2>6, <3>1, <4>1
    <3>5. IsTerminal(o) => channel'[c][(n - 1) + 1] = FinishedEvent
      <4> SUFFICES ASSUME IsTerminal(o)
                   PROVE  channel'[c][n] = FinishedEvent
        BY <3>2
      <4>1. n \in 1 .. Len(channel[c]) - 1
        BY <3>1, <3>2
      <4> QED
        BY <2>6, <3>1, <4>1
    <3> QED
      BY <1>2, <3>2, <3>3, <3>4, <3>5 DEF Pending, server, records, IsTerminal
  <2>8. ClientInv(c)'
    BY <1>1, <1>2, <1>3, <1>4, <2>1, <2>2, <2>4, <2>5, <2>7 DEF ClientInv, server, records
  <2> QED
    BY <1>1, <1>2, <2>2, <2>8, OtherClients DEF ConsoleTypeOK, TypeOK
<1> QED
  BY <1>5, <1>6

\* A lost connection loses what was on its way and no line that arrived.
LEMMA StreamDrop ==
  ASSUME ConsoleIInv, NEW c \in Clients, Drop(c)
  PROVE  StreamInv'
<1>1. ClientInv(c) /\ ConsoleTypeOK /\ StreamInv
  BY DEF ConsoleIInv, StreamInv
<1>2. /\ UNCHANGED <<server, watching, after, got>>
      /\ stream' = [stream EXCEPT ![c] = "Away"] /\ channel' = [channel EXCEPT ![c] = <<>>]
  BY DEF Drop, server
<1>3. stream'[c] = "Away"
  BY <1>1, <1>2 DEF ConsoleTypeOK, TypeOK
<1>4. ClientInv(c)'
  BY <1>1, <1>2, <1>3 DEF ClientInv, server, records
<1> QED
  BY <1>1, <1>2, <1>4, OtherClients DEF ConsoleTypeOK, TypeOK

\* A new source has nothing.
LEMMA StreamOpen ==
  ASSUME ConsoleIInv, NEW k \in calls, SnapshotRunning(k)
  PROVE  StreamInv'
<1>1. ConsoleTypeOK /\ StreamInv /\ UNCHANGED server
  BY DEF ConsoleIInv, SnapshotRunning, server
<1>2. CASE page = "Console"
  <2> PICK c \in Clients \ open :
        /\ stream' = [stream EXCEPT ![c] = "New"]
        /\ watching' = [watching EXCEPT ![c] = k.op]
        /\ after' = [after EXCEPT ![c] = 0]
        /\ got' = [got EXCEPT ![c] = <<>>]
        /\ channel' = [channel EXCEPT ![c] = <<>>]
    BY <1>2 DEF SnapshotRunning
  <2>1. k.op \in Operations /\ k.op < nextId /\ progress[k.op] \in Nat
    BY <1>1 DEF ConsoleIInv, PageInv, CallsOK, CallOK, ConsoleTypeOK, TypeOK
  <2>2. stream'[c] = "New" /\ watching'[c] = k.op /\ got'[c] = <<>>
    BY <1>1 DEF ConsoleTypeOK, TypeOK
  <2>3. ClientInv(c)'
    BY <1>1, <2>1, <2>2, ClientGone DEF server, records
  <2> QED
    BY <1>1, <2>3, OtherClients DEF ConsoleTypeOK, TypeOK
<1>3. CASE page # "Console"
  <2>1. UNCHANGED clients
    BY <1>3 DEF SnapshotRunning
  <2> QED
    BY <1>1, <2>1, StreamsKept
<1> QED
  BY <1>2, <1>3

\* Every step keeps what the clients know true.
LEMMA StreamStep ==
  ASSUME ConsoleIInv, ConsoleNext
  PROVE  StreamInv'
<1>0. ConsoleTypeOK /\ StreamInv /\ GateInv
  BY DEF ConsoleIInv
<1>1. ASSUME UNCHANGED supervision
      PROVE  StreamInv'
  BY <1>0, <1>1, StreamsKept DEF supervision, server
<1>2. ASSUME NEW sources, HangUp(sources), UNCHANGED server
      PROVE  StreamInv'
  BY <1>0, <1>2, StreamHangUp
<1>3. CASE SendCommand
  BY <1>1, <1>3 DEF SendCommand
<1>4. CASE RunCommand
  <2>1. CASE ServeCommand
    BY <1>0, <1>1, <2>1, StreamStart DEF ServeCommand
  <2>2. CASE CommandUnauthorised
    BY <1>2, <2>2 DEF CommandUnauthorised, Unmount, server
  <2>3. CASE CommandAccepted
    BY <1>2, <2>3 DEF CommandAccepted, server
  <2> QED
    BY <1>4, <2>1, <2>2, <2>3 DEF RunCommand
<1>5. CASE Settle
  <2> PICK k \in calls : ServeSnapshot(k) \/ SnapshotUnauthorised(k) \/ Settled(k)
    BY <1>5 DEF Settle
  <2>1. CASE ServeSnapshot(k)
    BY <1>1, <2>1 DEF ServeSnapshot
  <2>2. CASE SnapshotUnauthorised(k)
    BY <1>2, <2>2 DEF SnapshotUnauthorised, Unmount, server
  <2>3. CASE SnapshotTerminal(k) \/ SnapshotUnknown(k)
    BY <1>1, <2>3 DEF SnapshotTerminal, SnapshotUnknown
  <2>4. CASE SnapshotRunning(k)
    BY <2>4, StreamOpen
  <2> QED
    BY <2>1, <2>2, <2>3, <2>4 DEF Settled
<1>6. CASE (\E k \in calls : LoseSnapshot(k)) \/ LoseCommand \/ Expire
  <2>1. UNCHANGED <<server, clients>>
    BY <1>6 DEF LoseSnapshot, LoseCommand, Expire, server
  <2> QED
    BY <1>0, <2>1, StreamsKept
<1>7. CASE \E c \in Clients : Follow(c) \/ ConnectionDrops(c)
  <2> PICK c \in Clients : Follow(c) \/ ConnectionDrops(c)
    BY <1>7
  <2>1. CASE Connect(c)
    BY <1>1, <2>1, StreamLookUp DEF Connect
  <2>2. CASE ServerAttaches(c)
    BY <2>2, StreamAttach DEF ServerAttaches
  <2>3. CASE Hear(c)
    BY <2>3, StreamReceive DEF Hear
  <2>4. CASE ConnectionDrops(c)
    BY <2>4, StreamDrop DEF ConnectionDrops
  <2> QED
    BY <2>1, <2>2, <2>3, <2>4 DEF Follow
<1>8. CASE \E o \in Operations : ServerWorks(o)
  BY <1>8, StreamWork DEF ServerWorks
<1>9. CASE SchedulerStarts
  BY <1>0, <1>9, StreamStart DEF SchedulerStarts
<1>10. CASE Poll
  BY <1>2, <1>10 DEF Poll, Unmount, server
<1>11. CASE LogIn
  BY <1>1, <1>11 DEF LogIn
<1>12. CASE Reload
  BY <1>2, <1>12 DEF Reload, server
<1>13. CASE Restart
  BY <1>13, StreamRestart
<1> QED
  BY <1>3, <1>4, <1>5, <1>6, <1>7, <1>8, <1>9, <1>10, <1>11, <1>12, <1>13 DEF ConsoleNext

----------------------------------------------------------------------------
(* The page *)

\* What has ended stays as it is, whatever the server does.
LEMMA EndsAreFinal ==
  ASSUME ConsoleIInv, ConsoleNext, NEW o \in Operations, IsTerminal(o)
  PROVE  state'[o] = state[o] /\ progress'[o] = progress[o]
<1>1. worker[o] = "Finished" /\ ConsoleTypeOK
  BY DEF ConsoleIInv, GateInv
<1>2. CASE \E b \in BOOLEAN : Start(b)
  <2>1. worker[nextId] = "None" \/ nextId \notin Operations
    BY DEF ConsoleIInv, GateInv, ConsoleTypeOK, TypeOK
  <2> QED
    BY <1>1, <1>2, <2>1 DEF Start, ConsoleTypeOK, TypeOK
<1>3. CASE \E p \in Operations : Work(p)
  BY <1>1, <1>3 DEF Work, Run, Push, Release, Finish, records, ConsoleTypeOK, TypeOK
<1>4. CASE Restart
  BY <1>1, <1>4, RestartEffect
<1>5. CASE UNCHANGED server
  BY <1>5 DEF server, records
<1> QED
  BY <1>2, <1>3, <1>4, <1>5, ConsoleStepKinds

\* An identity is never given twice, not even by the next process.
LEMMA ServerGoesOn ==
  ASSUME ConsoleIInv, ConsoleNext
  PROVE  nextId' >= nextId
<1>1. nextId \in Nat
  BY DEF ConsoleIInv, ConsoleTypeOK, TypeOK
<1>2. CASE \E b \in BOOLEAN : Start(b)
  BY <1>1, <1>2 DEF Start
<1>3. CASE \E o \in Operations : Work(o)
  BY <1>1, <1>3 DEF Work, Run, Push, Release, Finish
<1>4. CASE Restart
  BY <1>1, <1>4, RestartEffect
<1>5. CASE UNCHANGED server
  BY <1>1, <1>5 DEF server
<1> QED
  BY <1>2, <1>3, <1>4, <1>5, ConsoleStepKinds

\* What a call waits for, or was answered, stays true.
LEMMA CallKept ==
  ASSUME ConsoleIInv, ConsoleNext, NEW k \in calls
  PROVE  CallOK(k)'
<1>1. CallOK(k) /\ k.op \in Operations /\ k.op \in Nat
  BY DEF ConsoleIInv, PageInv, CallsOK, ConsoleTypeOK, Operations
<1>4. nextId \in Nat /\ nextId' \in Nat
  BY SupervisorAssumption, ConsoleTypeStep DEF ConsoleIInv, ConsoleTypeOK, TypeOK
<1>2. nextId' >= nextId
  BY ServerGoesOn
<1>3. k.answer \in Terminal => IsTerminal(k.op)
  BY <1>1 DEF CallOK, IsTerminal
<1> QED
  BY <1>1, <1>2, <1>3, <1>4, EndsAreFinal DEF CallOK

\* A view that is not touched stays true.
LEMMA ViewKept ==
  ASSUME ConsoleIInv, ConsoleNext, view' = view
  PROVE  ViewOK'
<1>1. ViewOK
  BY DEF ConsoleIInv, PageInv
<1>2. view.state \in Terminal => view.op \in Operations /\ IsTerminal(view.op)
  BY <1>1 DEF ViewOK, IsTerminal
<1> QED
  BY <1>1, <1>2, EndsAreFinal DEF ViewOK

\* The empty view claims nothing.
LEMMA NoViewIsOK ==
  ASSUME view' = NoView
  PROVE  ViewOK' /\ view'.op \notin Operations
BY SupervisorAssumption DEF ViewOK, NoView, Terminal, Operations

\* A view taken from an answer is true, whenever the answer was given.
LEMMA ShownIsOK ==
  ASSUME ConsoleIInv, ConsoleNext, NEW k \in calls, view' = Shown(k), k.answer \notin {"Asked", "Unknown"}
  PROVE  ViewOK'
<1>1. CASE page = "Console"
  <2>1. k.op \in Operations /\ k.lines \in 0 .. MaxProgress /\ CallOK(k)'
    BY CallKept DEF ConsoleIInv, ConsoleTypeOK
  <2>2. k.lines \in Nat
    BY <2>1, SupervisorAssumption
  <2>3. view'.op = k.op /\ view'.state = k.answer /\ view'.lines = Lines(0, k.lines)
    BY <1>1 DEF Shown
  <2>4. Len(Lines(0, k.lines)) = k.lines /\ \A i \in 1 .. k.lines : Lines(0, k.lines)[i] = i
    <3>1. 0 \in Nat /\ 0 <= k.lines /\ k.lines - 0 = k.lines
      BY <2>2
    <3>2. /\ Len(Lines(0, k.lines)) = k.lines - 0
          /\ \A i \in 1 .. k.lines - 0 : Lines(0, k.lines)[i] = 0 + i
      BY <2>2, <3>1, LinesFacts
    <3> QED
      BY <3>1, <3>2
  <2>5. DOMAIN view'.lines = 1 .. k.lines
    BY <2>2, <2>3, <2>4, LinesAreLines
  <2> QED
    BY <2>1, <2>3, <2>4, <2>5 DEF ViewOK, CallOK
<1>2. CASE page # "Console"
  BY <1>2, ViewKept DEF Shown
<1> QED
  BY <1>1, <1>2

\* The line a stream brings is the next one of the view, or is there already.
LEMMA AppendedIsOK ==
  ASSUME ConsoleIInv, NEW c \in open, stream[c] = "Attached", channel[c] # <<>>,
         Head(channel[c]) # FinishedEvent,
         UNCHANGED <<state, progress>>, got' = [got EXCEPT ![c] = Append(@, Head(channel[c]))],
         view' = Appended(watching[c], Head(channel[c]))
  PROVE  /\ ViewOK'
         /\ view'.op = watching[c] => Len(got'[c]) <= Len(view'.lines)
<1> DEFINE o == watching[c]
           n == Head(channel[c])
<1>1. /\ c \in Clients /\ ConsoleTypeOK /\ ViewOK
      /\ got[c] \in Seq(Nat) /\ view.lines \in Seq(Nat) /\ Len(got[c]) \in Nat
      /\ Len(view.lines) \in Nat
  <2>1. ConsoleTypeOK /\ ViewOK
    BY DEF ConsoleIInv, PageInv
  <2>2. c \in Clients /\ view.lines \in Seq(Nat)
    BY <2>1 DEF ConsoleTypeOK
  <2>3. got[c] \in Seq(Nat)
    BY <2>1, <2>2 DEF ConsoleTypeOK, TypeOK
  <2> QED
    BY <2>1, <2>2, <2>3
<1>2. n = Len(got[c]) + 1 /\ Len(got[c]) + 1 <= progress[o]
  BY <1>1, NextEvent
<1>3. Len(got'[c]) = n /\ n \in Nat
  BY <1>1, <1>2 DEF ConsoleTypeOK, TypeOK
<1>4. view.op = o => Len(got[c]) <= Len(view.lines)
  BY DEF ConsoleIInv, PageInv, ReadsOK
<1>5. CASE view.op # o \/ \E i \in DOMAIN view.lines : view.lines[i] = n
  <2>1. view' = view
    BY <1>5 DEF Appended
  <2>2. view.op = o => n <= Len(view.lines)
    BY <1>1, <1>5 DEF ViewOK
  <2> QED
    BY <1>1, <1>3, <2>1, <2>2 DEF ViewOK
<1>6. CASE view.op = o /\ \A i \in DOMAIN view.lines : view.lines[i] # n
  <2>1. n = Len(view.lines) + 1
    <3>1. n <= Len(view.lines) => n \in DOMAIN view.lines
      BY <1>1, <1>2
    <3>2. ~ (n <= Len(view.lines))
      BY <1>6, <3>1, <1>1 DEF ViewOK
    <3> QED
      BY <1>1, <1>2, <1>4, <1>6, <3>2
  <2>2. view.state \notin Terminal
    <3>1. progress[o] \in Nat \/ o \notin Operations
      BY <1>1, SupervisorAssumption DEF ConsoleTypeOK, TypeOK
    <3> QED
      BY <1>1, <1>2, <1>6, <2>1, <3>1 DEF ViewOK
  <2>3. view' = [view EXCEPT !.state = IF @ = "Queued" THEN "Running" ELSE @,
                             !.lines = Append(@, n)]
    BY <1>6 DEF Appended
  <2>4. /\ view'.lines = Append(view.lines, n) /\ view'.op = o
        /\ view'.state = IF view.state = "Queued" THEN "Running" ELSE view.state
    BY <1>1, <1>6, <2>3 DEF ConsoleTypeOK
  <2>5. Len(view'.lines) = n /\ DOMAIN view'.lines = 1 .. n
    BY <1>1, <1>2, <2>1, <2>4
  <2>6. \A i \in 1 .. n : view'.lines[i] = i
    <3> SUFFICES ASSUME NEW i \in 1 .. n
                 PROVE  view'.lines[i] = i
      OBVIOUS
    <3>1. CASE i = n
      BY <1>1, <2>1, <2>4, <3>1
    <3>2. CASE i # n
      <4>1. i \in 1 .. Len(view.lines)
        BY <1>1, <1>3, <2>1, <3>2
      <4>2. DOMAIN view.lines = 1 .. Len(view.lines)
        BY <1>1
      <4>3. view'.lines[i] = view.lines[i]
        BY <1>1, <1>3, <2>4, <4>1, AppendKeeps
      <4> QED
        BY <1>1, <4>1, <4>2, <4>3 DEF ViewOK
    <3> QED
      BY <3>1, <3>2
  <2>7. view'.state \notin Terminal
    BY <2>2, <2>4 DEF Terminal
  <2> QED
    BY <1>3, <2>4, <2>5, <2>6, <2>7 DEF ViewOK
<1> QED
  BY <1>5, <1>6

\* Without a new answer, a step of the server turns no call into a lively one.
LEMMA LivelyFades ==
  ASSUME ConsoleIInv, ConsoleNext, session' => session, NEW k \in calls, Lively(k)'
  PROVE  Lively(k)
<1>1. CASE k.answer \in {"Queued", "Running"}
  BY <1>1 DEF Lively
<1>2. CASE k.answer = "Asked" /\ session' /\ k.op \in retained' /\ ~ IsTerminal(k.op)'
  <2>1. k.op \in Operations /\ k.op \in Nat /\ k.op < nextId /\ nextId \in Nat
    BY DEF ConsoleIInv, PageInv, CallsOK, CallOK, ConsoleTypeOK, TypeOK, Operations
  <2>2. ~ IsTerminal(k.op)
    BY <1>2, <2>1, EndsAreFinal DEF IsTerminal
  <2>3. k.op \in retained
    <3>1. CASE \E b \in BOOLEAN : Start(b)
      BY <1>2, <2>1, <3>1 DEF Start
    <3>2. CASE \E o \in Operations : Work(o)
      BY <1>2, <3>2 DEF Work, Run, Push, Release, Finish
    <3>3. CASE Restart
      BY <1>2, <3>3, RestartEffect
    <3>4. CASE UNCHANGED server
      BY <1>2, <3>4 DEF server
    <3> QED
      BY <3>1, <3>2, <3>3, <3>4, ConsoleStepKinds
  <2> QED
    BY <1>2, <2>2, <2>3 DEF Lively
<1> QED
  BY <1>1, <1>2 DEF Lively

\* A step that opens nothing and asks nothing leaves at most one follower.
LEMMA FollowerKept ==
  ASSUME ConsoleIInv, ConsoleNext, session' => session,
         page' = "Console" => page = "Console",
         calls' \subseteq calls, open' \subseteq open,
         command.phase = "Idle" => command'.phase = "Idle"
  PROVE  OneFollower'
<1>1. \A k \in calls' : k \in calls /\ (Lively(k)' => Lively(k))
  BY LivelyFades
<1>2. OneFollower
  BY DEF ConsoleIInv, PageInv
<1> SUFFICES ASSUME page' = "Console", NEW k \in calls', Lively(k)'
             PROVE  /\ command'.phase = "Idle" /\ open' = {}
                    /\ \A j \in calls' : Lively(j)' => j = k
  BY DEF OneFollower
<1>3. page = "Console" /\ Lively(k) /\ k \in calls
  BY <1>1
<1>4. command.phase = "Idle" /\ open = {} /\ \A j \in calls : Lively(j) => j = k
  BY <1>2, <1>3 DEF OneFollower
<1> QED
  BY <1>1, <1>4

\* One that reads no new stream, and shows what it showed.
LEMMA ReadsKept ==
  ASSUME ReadsOK, view' = view, current' = current, open' = open, page' = page,
         \A c \in open : watching'[c] = watching[c] /\ got'[c] = got[c]
  PROVE  ReadsOK'
BY DEF ReadsOK

\* A page without a stream has read all of it.
LEMMA ReadsNothing ==
  ASSUME open' = {}
  PROVE  ReadsOK'
BY DEF ReadsOK

\* Every step leaves a true view.
LEMMA ViewStep ==
  ASSUME ConsoleIInv, ConsoleNext
  PROVE  ViewOK'
<1>1. ASSUME view' = view
      PROVE  ViewOK'
  BY <1>1, ViewKept
<1>2. ASSUME view' = NoView
      PROVE  ViewOK'
  BY <1>2, NoViewIsOK
<1>3. CASE SendCommand \/ RunCommand
  BY <1>1, <1>2, <1>3 DEF SendCommand, RunCommand, ServeCommand, CommandUnauthorised, Unmount, CommandAccepted
<1>4. CASE Settle
  <2> PICK k \in calls : ServeSnapshot(k) \/ SnapshotUnauthorised(k) \/ Settled(k)
    BY <1>4 DEF Settle
  <2>1. CASE ServeSnapshot(k) \/ SnapshotUnauthorised(k) \/ SnapshotUnknown(k)
    BY <1>1, <1>2, <2>1 DEF ServeSnapshot, SnapshotUnauthorised, Unmount, SnapshotUnknown
  <2>2. CASE SnapshotTerminal(k) \/ SnapshotRunning(k)
    <3>1. view' = Shown(k) /\ k.answer \notin {"Asked", "Unknown"}
      BY <2>2 DEF SnapshotTerminal, SnapshotRunning, Terminal
    <3> QED
      BY <3>1, ShownIsOK
  <2> QED
    BY <2>1, <2>2 DEF Settled
<1>5. CASE (\E k \in calls : LoseSnapshot(k)) \/ LoseCommand \/ SchedulerStarts \/ Expire \/ Restart
  BY <1>1, <1>5 DEF LoseSnapshot, LoseCommand, SchedulerStarts, pageVars, Expire, Restart
<1>6. CASE \E c \in Clients : Follow(c) \/ ConnectionDrops(c)
  <2> PICK c \in Clients : Follow(c) \/ ConnectionDrops(c)
    BY <1>6
  <2>1. CASE Connect(c) \/ ServerAttaches(c) \/ ConnectionDrops(c)
    BY <1>1, <2>1 DEF Connect, ServerAttaches, ConnectionDrops, pageVars
  <2>2. CASE Hear(c)
    <3>1. CASE Head(channel[c]) = FinishedEvent
      BY <1>1, <2>2, <3>1 DEF Hear
    <3>2. CASE Head(channel[c]) # FinishedEvent
      BY <2>2, <3>2, AppendedIsOK DEF Hear, Receive, records
    <3> QED
      BY <3>1, <3>2
  <2> QED
    BY <2>1, <2>2 DEF Follow
<1>7. CASE \E o \in Operations : ServerWorks(o)
  BY <1>1, <1>7 DEF ServerWorks, pageVars
<1>8. CASE Poll \/ LogIn \/ Reload
  BY <1>2, <1>8 DEF Poll, Unmount, LogIn, Reload, Mount
<1> QED
  BY <1>3, <1>4, <1>5, <1>6, <1>7, <1>8 DEF ConsoleNext

\* Every step leaves the page with identities that were given.
LEMMA KnownStep ==
  ASSUME ConsoleIInv, ConsoleNext
  PROVE  KnownOK'
<1>1. KnownOK /\ ConsoleTypeOK /\ ConsoleTypeOK' /\ nextId' >= nextId
  BY ConsoleTypeStep, ServerGoesOn DEF ConsoleIInv, PageInv
<1>2. /\ nextId \in Nat /\ nextId' \in Nat /\ NoOperation \notin Operations
      /\ \A o \in Operations : o \in Nat
  BY <1>1, SupervisorAssumption DEF ConsoleTypeOK, TypeOK, Operations
<1>3. ASSUME \/ UNCHANGED command
             \/ command' = NoCommand
             \/ command'.phase = "Sent",
             stored' \in {stored, NoOperation}
      PROVE  KnownOK'
  BY <1>1, <1>2, <1>3 DEF KnownOK, NoCommand
<1>4. CASE SendCommand
  BY <1>1, <1>3, <1>4 DEF SendCommand, NoCommand
<1>5. CASE RunCommand
  <2>1. CASE ServeCommand /\ ~ UNCHANGED command
    <3>1. CASE command' = NoCommand
      BY <1>3, <2>1, <3>1 DEF ServeCommand
    <3>2. CASE (\E b \in BOOLEAN : Start(b)) /\ command' = [phase |-> "Accepted", op |-> nextId]
      <4>1. nextId \in Operations /\ nextId' = nextId + 1 /\ stored' = stored
        BY <1>1, <1>2, <2>1, <3>2 DEF Start, ServeCommand, Operations, ConsoleTypeOK, TypeOK
      <4>2. command'.op = nextId
        BY <3>2
      <4>3. command'.op \in Operations /\ command'.op < nextId'
        BY <1>2, <4>1, <4>2
      <4>4. stored' \in Operations => stored' < nextId'
        BY <1>1, <1>2, <4>1 DEF KnownOK
      <4> QED
        BY <4>3, <4>4 DEF KnownOK
    <3> QED
      BY <2>1, <3>1, <3>2 DEF ServeCommand
  <2>2. CASE ServeCommand /\ UNCHANGED command
    BY <1>3, <2>2 DEF ServeCommand
  <2>3. CASE CommandUnauthorised
    BY <1>3, <2>3 DEF CommandUnauthorised
  <2>4. CASE CommandAccepted
    BY <1>1, <1>2, <2>4 DEF CommandAccepted, KnownOK, NoCommand
  <2> QED
    BY <1>5, <2>1, <2>2, <2>3, <2>4 DEF RunCommand
<1>6. CASE Settle
  <2> PICK k \in calls : ServeSnapshot(k) \/ SnapshotUnauthorised(k) \/ Settled(k)
    BY <1>6 DEF Settle
  <2>1. CASE SnapshotUnknown(k)
    BY <1>1, <1>2, <2>1 DEF SnapshotUnknown, KnownOK
  <2>2. CASE ServeSnapshot(k) \/ SnapshotUnauthorised(k) \/ SnapshotTerminal(k) \/ SnapshotRunning(k)
    BY <1>3, <2>2 DEF ServeSnapshot, SnapshotUnauthorised, Forget, SnapshotTerminal, SnapshotRunning
  <2> QED
    BY <2>1, <2>2 DEF Settled
<1>7. CASE (\E k \in calls : LoseSnapshot(k)) \/ LoseCommand \/ SchedulerStarts \/ Expire \/ Restart
  BY <1>3, <1>7 DEF LoseSnapshot, Forget, LoseCommand, SchedulerStarts, pageVars, Expire, Restart
<1>8. CASE \E c \in Clients : Follow(c) \/ ConnectionDrops(c)
  BY <1>3, <1>8 DEF Follow, Connect, ServerAttaches, Hear, ConnectionDrops, pageVars
<1>9. CASE \E o \in Operations : ServerWorks(o)
  BY <1>3, <1>9 DEF ServerWorks, pageVars
<1>10. CASE Poll \/ LogIn \/ Reload
  BY <1>3, <1>10 DEF Poll, LogIn, Reload
<1> QED
  BY <1>4, <1>5, <1>6, <1>7, <1>8, <1>9, <1>10 DEF ConsoleNext

\* Every step leaves true calls.
LEMMA CallsStep ==
  ASSUME ConsoleIInv, ConsoleNext
  PROVE  CallsOK'
<1>0. /\ ConsoleTypeOK /\ KnownOK /\ StreamInv /\ ReadsOK
      /\ nextId \in Nat /\ nextId' \in Nat /\ nextId' >= nextId
      /\ \A o \in Operations : o \in Nat
  <2>1. ConsoleTypeOK /\ KnownOK /\ StreamInv /\ ReadsOK
    BY DEF ConsoleIInv, PageInv
  <2>2. ConsoleTypeOK' /\ nextId' >= nextId
    BY ConsoleTypeStep, ServerGoesOn
  <2>3. nextId \in 1 .. MaxOperations + 1 /\ nextId' \in 1 .. MaxOperations + 1
    BY <2>1, <2>2 DEF ConsoleTypeOK, TypeOK
  <2> QED
    BY <2>1, <2>2, <2>3, SupervisorAssumption DEF Operations
<1>1. ASSUME calls' \subseteq calls
      PROVE  CallsOK'
  BY <1>1, CallKept DEF CallsOK
<1>2. ASSUME NEW o \in Operations, o < nextId
      PROVE  CallOK(Asked(o))' /\ CallOK(Resumed(o))'
  BY <1>0, <1>2 DEF CallOK, Asked, Resumed, Terminal
<1>3. ASSUME NEW o \in Operations, o < nextId, calls' \subseteq calls \cup {Asked(o), Resumed(o)}
      PROVE  CallsOK'
  BY <1>2, <1>3, CallKept DEF CallsOK
<1>4. CASE SendCommand
  BY <1>1, <1>4 DEF SendCommand
<1>5. CASE RunCommand
  <2>1. CASE ServeCommand \/ CommandUnauthorised
    BY <1>1, <2>1 DEF ServeCommand, CommandUnauthorised
  <2>2. CASE CommandAccepted
    BY <1>0, <1>3, <2>2 DEF CommandAccepted, AskFor, KnownOK
  <2> QED
    BY <1>5, <2>1, <2>2 DEF RunCommand
<1>6. CASE Settle
  <2> PICK k \in calls : ServeSnapshot(k) \/ SnapshotUnauthorised(k) \/ Settled(k)
    BY <1>6 DEF Settle
  <2>1. CASE ServeSnapshot(k)
    <3>1. k.op \in Operations /\ k.op < nextId
      BY <1>0 DEF ConsoleIInv, PageInv, CallsOK, CallOK, ConsoleTypeOK
    <3>2. UNCHANGED server /\ calls' \subseteq calls \cup {Snapshot(k)}
      BY <2>1 DEF ServeSnapshot, supervision, server
    <3> DEFINE s == Snapshot(k)
    <3>3. /\ s.op < nextId'
          /\ s.answer \in Terminal => s.answer = state'[s.op] /\ s.lines = progress'[s.op]
      BY <1>0, <3>1, <3>2 DEF Snapshot, Terminal, server, records
    <3> QED
      <4>1. \A j \in calls : CallOK(j)'
        BY CallKept
      <4> SUFFICES ASSUME NEW j \in calls'
                   PROVE  CallOK(j)'
        BY DEF CallsOK
      <4>2. CASE j = Snapshot(k)
        BY <3>3, <4>2 DEF CallOK
      <4> QED
        BY <3>2, <4>1, <4>2
  <2>2. CASE SnapshotUnauthorised(k) \/ Settled(k)
    BY <1>1, <2>2 DEF SnapshotUnauthorised, Settled, SnapshotTerminal, SnapshotRunning, SnapshotUnknown
  <2> QED
    BY <2>1, <2>2
<1>7. CASE (\E k \in calls : LoseSnapshot(k)) \/ LoseCommand \/ SchedulerStarts \/ Expire \/ Restart
  BY <1>1, <1>7 DEF LoseSnapshot, LoseCommand, SchedulerStarts, pageVars, Expire, Restart
<1>8. CASE \E c \in Clients : Follow(c) \/ ConnectionDrops(c)
  <2> PICK c \in Clients : Follow(c) \/ ConnectionDrops(c)
    BY <1>8
  <2>1. ASSUME c \in open, calls' = calls \/ Interrupted(c)
        PROVE  CallsOK'
    <3>1. watching[c] \in Operations /\ watching[c] < nextId
      BY <1>0, <2>1 DEF ReadsOK, StreamInv, ClientInv
    <3> QED
      BY <1>1, <1>3, <2>1, <3>1 DEF Interrupted
  <2>2. CASE Connect(c)
    BY <2>1, <2>2 DEF Connect
  <2>3. CASE Hear(c)
    BY <2>1, <2>3 DEF Hear
  <2>4. CASE ServerAttaches(c) \/ ConnectionDrops(c)
    BY <1>1, <2>4 DEF ServerAttaches, ConnectionDrops, pageVars
  <2> QED
    BY <2>2, <2>3, <2>4 DEF Follow
<1>9. CASE \E o \in Operations : ServerWorks(o)
  BY <1>1, <1>9 DEF ServerWorks, pageVars
<1>10. CASE Poll
  BY <1>1, <1>10 DEF Poll
<1>11. CASE LogIn \/ Reload
  <2>1. calls' = {} \/ (stored \in Operations /\ calls' = {Resumed(stored)})
    BY <1>0, <1>11 DEF LogIn, Reload, Mount, ConsoleTypeOK
  <2> QED
    BY <1>0, <1>1, <1>3, <2>1 DEF KnownOK
<1> QED
  BY <1>4, <1>5, <1>6, <1>7, <1>8, <1>9, <1>10, <1>11 DEF ConsoleNext

\* Every step leaves one stream at most, and all it brought on the screen.
LEMMA ReadsStep ==
  ASSUME ConsoleIInv, ConsoleNext
  PROVE  ReadsOK'
<1>0. /\ ConsoleTypeOK /\ ReadsOK /\ StreamInv /\ CallsOK /\ OneFollower /\ GateInv
      /\ open \subseteq Clients
  BY DEF ConsoleIInv, PageInv, ConsoleTypeOK
<1>1. ASSUME UNCHANGED <<view, current, open, page, watching, got>>
      PROVE  ReadsOK'
  BY <1>0, <1>1, ReadsKept
<1>2. ASSUME page' = "Login", open' = open \ {current}
      PROVE  ReadsOK'
  BY <1>0, <1>2 DEF ReadsOK
<1>3. CASE SendCommand
  BY <1>1, <1>3 DEF SendCommand, supervision, clients
<1>4. CASE RunCommand
  <2>1. CASE ServeCommand
    BY <1>1, <2>1 DEF ServeCommand, Start, supervision, clients
  <2>2. CASE CommandUnauthorised
    BY <1>2, <2>2 DEF CommandUnauthorised, Unmount
  <2>3. CASE CommandAccepted
    <3>1. open' = {}
      BY <1>0, <2>3 DEF CommandAccepted, AskFor, ReadsOK
    <3> QED
      BY <3>1, ReadsNothing
  <2> QED
    BY <1>4, <2>1, <2>2, <2>3 DEF RunCommand
<1>5. CASE Settle
  <2> PICK k \in calls : ServeSnapshot(k) \/ SnapshotUnauthorised(k) \/ Settled(k)
    BY <1>5 DEF Settle
  <2>0. k.op \in Operations /\ k.lines \in 0 .. MaxProgress /\ CallOK(k)
    BY <1>0 DEF CallsOK, ConsoleTypeOK
  <2>1. CASE ServeSnapshot(k)
    BY <1>1, <2>1 DEF ServeSnapshot, supervision, clients
  <2>2. CASE SnapshotUnauthorised(k)
    BY <1>2, <2>2 DEF SnapshotUnauthorised, Unmount
  <2>3. CASE SnapshotTerminal(k)
    <3>1. UNCHANGED <<current, open, page, watching, got>>
      BY <2>3 DEF SnapshotTerminal, supervision, clients
    <3>2. CASE page = "Console"
      <4>1. view'.op = k.op /\ view'.lines = Lines(0, k.lines) /\ IsTerminal(k.op)
            /\ k.lines = progress[k.op]
        BY <2>0, <2>3, <3>2 DEF SnapshotTerminal, Shown, CallOK, IsTerminal
      <4>2. Len(view'.lines) = progress[k.op]
        <5>1. progress[k.op] \in Nat /\ 0 \in Nat /\ 0 <= progress[k.op]
          BY <2>0, <4>1, SupervisorAssumption
        <5>2. Len(Lines(0, progress[k.op])) = progress[k.op] - 0
          BY <5>1, LinesFacts
        <5> QED
          BY <4>1, <5>1, <5>2
      <4>3. \A c \in open : watching[c] = k.op => Len(got[c]) <= progress[k.op]
        BY <1>0, <2>0, <4>1 DEF StreamInv, ClientInv, GateInv
      <4> QED
        BY <1>0, <3>1, <4>1, <4>2, <4>3 DEF ReadsOK
    <3>3. CASE page # "Console"
      BY <1>1, <2>3, <3>1, <3>3 DEF SnapshotTerminal, Shown
    <3> QED
      BY <3>2, <3>3
  <2>4. CASE SnapshotRunning(k)
    <3>1. page' = page /\ k.answer \in {"Queued", "Running"}
      BY <2>4 DEF SnapshotRunning
    <3>2. CASE page = "Console"
      <4>1. open = {}
        BY <1>0, <3>1, <3>2 DEF OneFollower, Lively
      <4> PICK c \in Clients \ open :
            /\ open' = open \cup {c} /\ current' = c
            /\ watching' = [watching EXCEPT ![c] = k.op] /\ got' = [got EXCEPT ![c] = <<>>]
        BY <2>4, <3>2 DEF SnapshotRunning
      <4>2. watching'[c] = k.op /\ got'[c] = <<>>
        BY <1>0 DEF ConsoleTypeOK, TypeOK
      <4>3. Len(got'[c]) <= Len(view'.lines)
        <5>1. Len(got'[c]) = 0
          BY <4>2
        <5>2. view'.lines \in Seq(Nat)
          BY ConsoleTypeStep DEF ConsoleTypeOK
        <5>3. Len(view'.lines) \in Nat
          BY <5>2
        <5> QED
          BY <5>1, <5>3
      <4> QED
        BY <2>0, <3>1, <3>2, <4>1, <4>2, <4>3 DEF ReadsOK
    <3>3. CASE page # "Console"
      BY <1>1, <2>4, <3>1, <3>3 DEF SnapshotRunning, Shown, clients
    <3> QED
      BY <3>2, <3>3
  <2>5. CASE SnapshotUnknown(k)
    <3>1. UNCHANGED <<current, open, page, watching, got>> /\ view'.op \notin Operations
      BY <2>5, NoViewIsOK DEF SnapshotUnknown, supervision, clients
    <3> QED
      BY <1>0, <3>1 DEF ReadsOK
  <2> QED
    BY <2>1, <2>2, <2>3, <2>4, <2>5 DEF Settled
<1>6. CASE (\E k \in calls : LoseSnapshot(k)) \/ LoseCommand \/ Expire \/ Restart
  BY <1>1, <1>6 DEF LoseSnapshot, LoseCommand, Expire, Restart, clients, pageVars
<1>7. CASE SchedulerStarts
  BY <1>1, <1>7 DEF SchedulerStarts, Start, clients, pageVars
<1>8. CASE \E o \in Operations : ServerWorks(o)
  BY <1>1, <1>8 DEF ServerWorks, Work, Run, Push, Release, Finish, clients, pageVars
<1>9. CASE \E c \in Clients : Follow(c) \/ ConnectionDrops(c)
  <2> PICK c \in Clients : Follow(c) \/ ConnectionDrops(c)
    BY <1>9
  <2>1. ASSUME c \in open, Interrupted(c)
        PROVE  ReadsOK'
    <3>1. open' = {}
      BY <1>0, <2>1 DEF Interrupted, ReadsOK
    <3> QED
      BY <3>1, ReadsNothing
  <2>2. CASE Connect(c)
    <3>1. CASE Interrupted(c)
      BY <2>1, <2>2, <3>1 DEF Connect
    <3>2. CASE LookUp(c, watching[c]) /\ UNCHANGED <<open, current>>
      <4>1. watching' = watching /\ got' = got
        BY <1>0, <3>2 DEF LookUp, ConsoleTypeOK, TypeOK
      <4> QED
        BY <1>1, <2>2, <3>2, <4>1 DEF Connect
    <3> QED
      BY <2>2, <3>1, <3>2 DEF Connect
  <2>3. CASE Hear(c)
    <3>1. CASE Head(channel[c]) = FinishedEvent
      BY <2>1, <2>3, <3>1 DEF Hear
    <3>2. CASE Head(channel[c]) # FinishedEvent
      <4>1. /\ c \in open /\ open = {c}
            /\ UNCHANGED <<open, current, page, watching>>
        BY <1>0, <2>3, <3>2 DEF Hear, Receive, ReadsOK
      <4>2. view'.op = watching[c] => Len(got'[c]) <= Len(view'.lines)
        BY <2>3, <3>2, AppendedIsOK DEF Hear, Receive, records
      <4> QED
        BY <1>0, <4>1, <4>2 DEF ReadsOK
    <3> QED
      BY <3>1, <3>2
  <2>4. CASE ServerAttaches(c)
    BY <1>1, <2>4 DEF ServerAttaches, Attach, pageVars
  <2>5. CASE ConnectionDrops(c)
    BY <1>1, <2>5 DEF ConnectionDrops, Drop, pageVars
  <2> QED
    BY <2>2, <2>3, <2>4, <2>5 DEF Follow
<1>10. CASE Poll
  BY <1>2, <1>10 DEF Poll, Unmount
<1>11. CASE LogIn \/ Reload
  BY <1>11, ReadsNothing DEF LogIn, Reload, Mount
<1> QED
  BY <1>3, <1>4, <1>5, <1>6, <1>7, <1>8, <1>9, <1>10, <1>11 DEF ConsoleNext

\* Every step leaves one call at most that may open a stream.
LEMMA FollowerStep ==
  ASSUME ConsoleIInv, ConsoleNext
  PROVE  OneFollower'
<1>0. /\ ConsoleTypeOK /\ OneFollower /\ ReadsOK /\ CallsOK /\ GateInv
  BY DEF ConsoleIInv, PageInv
<1>1. ASSUME session' => session, page' = page,
             calls' \subseteq calls, open' \subseteq open,
             command' = command \/ command' = NoCommand
      PROVE  OneFollower'
  BY <1>1, FollowerKept DEF NoCommand
<1>2. ASSUME page' = "Login"
      PROVE  OneFollower'
  BY <1>2 DEF OneFollower
<1>3. ASSUME open' = {}, command'.phase = "Idle", NEW o, calls' \subseteq {Resumed(o)}
      PROVE  OneFollower'
  BY <1>3 DEF OneFollower
<1>4. CASE SendCommand
  BY <1>4 DEF SendCommand, OneFollower
<1>5. CASE RunCommand
  <2>1. CASE ServeCommand
    <3>1. /\ command.phase = "Sent" /\ UNCHANGED <<session, page, calls, open>>
      BY <2>1 DEF ServeCommand
    <3> QED
      BY <3>1, FollowerKept
  <2>2. CASE CommandUnauthorised
    BY <1>2, <2>2 DEF CommandUnauthorised, Unmount
  <2>3. CASE CommandAccepted
    <3>1. /\ command.phase = "Accepted" /\ command' = NoCommand /\ page' = page
          /\ session' = session /\ open' = {}
          /\ calls' = calls \cup {Asked(command.op)}
      BY <1>0, <2>3 DEF CommandAccepted, AskFor, ReadsOK
    <3>2. page = "Console" => \A k \in calls : ~ Lively(k)
      BY <1>0, <3>1 DEF OneFollower
    <3>3. \A k \in calls : Lively(k)' => Lively(k)
      BY <3>1, LivelyFades
    <3>4. page' = "Console" => \A k \in calls' : Lively(k)' => k = Asked(command.op)
      BY <3>1, <3>2, <3>3
    <3> QED
      BY <3>1, <3>4 DEF OneFollower, NoCommand
  <2> QED
    BY <1>5, <2>1, <2>2, <2>3 DEF RunCommand
<1>6. CASE Settle
  <2> PICK k \in calls : ServeSnapshot(k) \/ SnapshotUnauthorised(k) \/ Settled(k)
    BY <1>6 DEF Settle
  <2>1. CASE ServeSnapshot(k)
    <3> DEFINE s == Snapshot(k)
    <3>1. /\ k.answer = "Asked" /\ session /\ k.op \in Operations
          /\ UNCHANGED <<server, session, page, command, open>>
          /\ calls' = (calls \ {k}) \cup {s}
      BY <1>0, <2>1 DEF ServeSnapshot, supervision, server, ConsoleTypeOK
    <3>2. s.answer \in {"Queued", "Running"} => Lively(k)
      BY <3>1 DEF Snapshot, Lively, IsTerminal, Terminal
    <3>3. s.answer # "Asked"
      BY <1>0, <3>1 DEF Snapshot, ConsoleTypeOK, TypeOK, Terminal
    <3>4. \A j \in calls' : Lively(j)' => \/ j = s /\ Lively(k)
                                          \/ j \in calls \ {k} /\ Lively(j)
      <4> SUFFICES ASSUME NEW j \in calls', Lively(j)'
                   PROVE  (j = s /\ Lively(k)) \/ (j \in calls \ {k} /\ Lively(j))
        OBVIOUS
      <4>1. CASE j \in calls \ {k}
        BY <3>1, <4>1, LivelyFades
      <4>2. CASE j = s
        <5>1. j.answer # "Asked"
          BY <3>3, <4>2
        <5>2. j.answer \in {"Queued", "Running"}
          BY <5>1 DEF Lively
        <5> QED
          BY <3>2, <4>2, <5>2
      <4> QED
        BY <3>1, <4>1, <4>2
    <3> SUFFICES ASSUME page' = "Console", NEW j \in calls', Lively(j)'
                 PROVE  /\ command'.phase = "Idle" /\ open' = {}
                        /\ \A i \in calls' : Lively(i)' => i = j
      BY DEF OneFollower
    <3>5. CASE j = s /\ Lively(k)
      <4>1. command.phase = "Idle" /\ open = {} /\ \A i \in calls : Lively(i) => i = k
        BY <1>0, <3>1, <3>5 DEF OneFollower
      <4> QED
        BY <3>1, <3>4, <3>5, <4>1
    <3>6. CASE j \in calls \ {k} /\ Lively(j)
      <4>1. command.phase = "Idle" /\ open = {} /\ \A i \in calls : Lively(i) => i = j
        BY <1>0, <3>1, <3>6 DEF OneFollower
      <4>2. ~ Lively(k)
        BY <3>6, <4>1
      <4> QED
        BY <3>1, <3>4, <4>1, <4>2
    <3> QED
      BY <3>4, <3>5, <3>6
  <2>2. CASE SnapshotUnauthorised(k)
    BY <1>2, <2>2 DEF SnapshotUnauthorised, Unmount
  <2>3. CASE SnapshotTerminal(k) \/ SnapshotUnknown(k)
    BY <1>1, <2>3 DEF SnapshotTerminal, SnapshotUnknown
  <2>4. CASE SnapshotRunning(k)
    <3>1. /\ calls' = calls \ {k} /\ k.answer \in {"Queued", "Running"}
          /\ UNCHANGED <<session, page, command>>
      BY <2>4 DEF SnapshotRunning
    <3>2. page = "Console" => \A j \in calls' : ~ Lively(j)
      BY <1>0, <3>1 DEF OneFollower, Lively
    <3>3. \A j \in calls' : Lively(j)' => Lively(j)
      BY <3>1, LivelyFades
    <3> QED
      BY <3>1, <3>2, <3>3 DEF OneFollower
  <2> QED
    BY <2>1, <2>2, <2>3, <2>4 DEF Settled
<1>7. CASE (\E k \in calls : LoseSnapshot(k)) \/ LoseCommand \/ Expire \/ SchedulerStarts
  BY <1>1, <1>7 DEF LoseSnapshot, LoseCommand, Expire, SchedulerStarts, pageVars
<1>8. CASE Restart
  BY <1>1, <1>8 DEF Restart
<1>9. CASE \E o \in Operations : ServerWorks(o)
  BY <1>1, <1>9 DEF ServerWorks, pageVars
<1>10. CASE \E c \in Clients : Follow(c) \/ ConnectionDrops(c)
  <2> PICK c \in Clients : Follow(c) \/ ConnectionDrops(c)
    BY <1>10
  <2>1. ASSUME c \in open, Interrupted(c), UNCHANGED <<session, page>>,
               \A k : k = Asked(watching[c]) => ~ Lively(k)'
        PROVE  OneFollower'
    <3>1. page = "Console" => \A k \in calls : ~ Lively(k)
      BY <1>0, <2>1 DEF OneFollower
    <3>2. \A k \in calls : Lively(k)' => Lively(k)
      BY <2>1, LivelyFades
    <3>3. calls' = calls \cup {Asked(watching[c])}
      BY <2>1 DEF Interrupted
    <3> QED
      BY <2>1, <3>1, <3>2, <3>3 DEF OneFollower
  <2>2. CASE Connect(c)
    <3>1. CASE Interrupted(c) /\ (~ session \/ watching[c] \notin retained)
      <4>1. retained' = retained /\ session' = session
        BY <2>2 DEF Connect, LookUp, supervision
      <4>2. \A k : k = Asked(watching[c]) => ~ Lively(k)'
        BY <3>1, <4>1 DEF Lively, Asked
      <4> QED
        BY <2>1, <2>2, <3>1, <4>2 DEF Connect
    <3>2. CASE UNCHANGED <<calls, open, current>>
      BY <1>1, <2>2, <3>2 DEF Connect
    <3> QED
      BY <2>2, <3>1, <3>2 DEF Connect
  <2>3. CASE Hear(c)
    <3>1. CASE Head(channel[c]) = FinishedEvent
      <4>1. IsTerminal(watching[c]) /\ state' = state /\ watching' = watching
        BY <2>3, <3>1, NextEvent DEF Hear, Receive, records
      <4>2. \A k : k = Asked(watching[c]) => ~ Lively(k)'
        BY <4>1 DEF Lively, Asked, IsTerminal
      <4> QED
        BY <2>1, <2>3, <3>1, <4>2 DEF Hear
    <3>2. CASE Head(channel[c]) # FinishedEvent
      BY <1>1, <2>3, <3>2 DEF Hear
    <3> QED
      BY <3>1, <3>2
  <2>4. CASE ServerAttaches(c) \/ ConnectionDrops(c)
    BY <1>1, <2>4 DEF ServerAttaches, ConnectionDrops, pageVars
  <2> QED
    BY <2>2, <2>3, <2>4 DEF Follow
<1>11. CASE Poll
  BY <1>2, <1>11 DEF Poll, Unmount
<1>12. CASE LogIn \/ Reload
  <2>1. \/ page' = "Login"
        \/ open' = {} /\ command'.phase = "Idle" /\ calls' \subseteq {Resumed(stored)}
    BY <1>12 DEF LogIn, Reload, Mount, NoCommand
  <2> QED
    BY <1>2, <1>3, <2>1
<1> QED
  BY <1>4, <1>5, <1>6, <1>7, <1>8, <1>9, <1>10, <1>11, <1>12 DEF ConsoleNext

----------------------------------------------------------------------------
(* The theorems *)

\* The initial states satisfy the strengthening.
LEMMA ConsoleInitInv == ConsoleInit => ConsoleIInv
<1> SUFFICES ASSUME ConsoleInit
             PROVE  ConsoleIInv
  OBVIOUS
<1>1. ConsoleTypeOK
  BY TypeInit
<1>2. GateInv
  BY SupervisorAssumption DEF ConsoleInit, Init, GateInv, InProgress, IsTerminal, Terminal, Operations
<1>3. StreamInv
  BY SupervisorAssumption DEF ConsoleInit, Init, StreamInv, ClientInv, Operations
<1>4. PageInv
  BY SupervisorAssumption DEF ConsoleInit, PageInv, ViewOK, CallsOK, ReadsOK, KnownOK, OneFollower,
                              NoView, NoCommand, Terminal, Operations
<1> QED
  BY <1>1, <1>2, <1>3, <1>4 DEF ConsoleIInv

\* So does a stuttering step.
LEMMA ConsoleStutterInv ==
  ASSUME ConsoleIInv, UNCHANGED vars
  PROVE  ConsoleIInv'
<1> USE DEF vars, supervision, records, clients, pageVars
<1>1. ConsoleTypeOK'
  BY DEF ConsoleIInv, ConsoleTypeOK, TypeOK
<1>2. GateInv'
  BY DEF ConsoleIInv, GateInv, IsTerminal
<1>3. StreamInv'
  BY StreamsKept DEF ConsoleIInv, server
<1>4. PageInv'
  BY DEF ConsoleIInv, PageInv, ViewOK, CallsOK, CallOK, ReadsOK, KnownOK, OneFollower, Lively, IsTerminal
<1> QED
  BY <1>1, <1>2, <1>3, <1>4 DEF ConsoleIInv

\* The strengthening is inductive: whatever the server, the streams, the page and
\* its interruptions do next.
THEOREM ConsoleInvariant == ConsoleSpec => []ConsoleIInv
<1>1. ConsoleInit => ConsoleIInv
  BY ConsoleInitInv
<1>2. ConsoleIInv /\ [ConsoleNext]_vars => ConsoleIInv'
  <2>1. ASSUME ConsoleIInv, ConsoleNext
        PROVE  ConsoleIInv'
    <3>1. PageInv'
      BY <2>1, ViewStep, CallsStep, ReadsStep, KnownStep, FollowerStep DEF PageInv
    <3> QED
      BY <2>1, <3>1, ConsoleTypeStep, GateStep, StreamStep DEF ConsoleIInv
  <2> QED
    BY <2>1, ConsoleStutterInv
<1> QED
  BY <1>1, <1>2, PTL DEF ConsoleSpec

\* Every variable keeps its type, for every number of operations, lines and
\* event sources.
THEOREM ConsoleTypesAreKept == ConsoleSpec => []ConsoleTypeOK
<1>1. ConsoleIInv => ConsoleTypeOK
  BY DEF ConsoleIInv
<1> QED
  BY <1>1, ConsoleInvariant, PTL

\* The gate: one mutating operation at a time in the workspace, none under way is
\* dropped by retention, and none holds the gate once a client was told of its end.
THEOREM OneMutationAtATime == ConsoleSpec => []SingleFlight
<1>1. ConsoleIInv => SingleFlight
  <2> SUFFICES ASSUME ConsoleIInv
               PROVE  SingleFlight
    OBVIOUS
  <2>1. GateInv /\ StreamInv /\ ConsoleTypeOK
    BY DEF ConsoleIInv
  <2>2. \A o, p \in Operations : InWorkspace(o) /\ InWorkspace(p) => o = p
    BY <2>1 DEF GateInv, InWorkspace
  <2>3. \A o \in Operations : worker[o] \notin {"None", "Finished"} => o \in retained
    BY <2>1 DEF GateInv, InProgress, ConsoleTypeOK, TypeOK
  <2>4. \A c \in Clients : stream[c] = "Ended" => active # watching[c]
    BY <2>1 DEF GateInv, StreamInv, ClientInv
  <2> QED
    BY <2>2, <2>3, <2>4 DEF SingleFlight
<1> QED
  BY <1>1, ConsoleInvariant, PTL

\* What a stream brought, over all its connections, is the history from its first
\* line on, and all of it once it was told of the end.
THEOREM StreamsTellHistory == ConsoleSpec => []StreamIsHistory
<1>1. ConsoleIInv => StreamIsHistory
  BY DEF ConsoleIInv, StreamInv, ClientInv, StreamIsHistory
<1> QED
  BY <1>1, ConsoleInvariant, PTL

\* The page never shows a line that was not written, or that is out of order, nor
\* an end that was not the operation's, and it reads one stream at most.
THEOREM PageTellsHistory == ConsoleSpec => []ViewIsHistory
<1>1. ConsoleIInv => ViewIsHistory
  BY DEF ConsoleIInv, PageInv, ViewOK, ReadsOK, ViewIsHistory
<1> QED
  BY <1>1, ConsoleInvariant, PTL

----------------------------------------------------------------------------
(* DailyService: the inductive invariant                                   *)

\* The scheduler runs, and operations are under way, in a service that is up.
LifeInv ==
  /\ tick # "Idle" => Up
  /\ \A o \in Operations : worker[o] \in InProgress => Up

\* The use case runs only inside its worker's call, and a worker goes on only
\* with what its call returned.
ExecutionInv ==
  \A o \in Operations :
    /\ inner[o] = "Running" => worker[o] = "Running" /\ outcome[o] = "None"
    /\ worker[o] = "Released" => outcome[o] \in Terminal

\* A slot for which something was started has a row, and the claim the scheduler
\* works with is its own.
SlotInv ==
  /\ \A s \in Slots :
       /\ slots[s] = "None" => scheduled[s] = {}
       /\ scheduled[s] = {} \/ \E o \in Operations : scheduled[s] = {o}
  /\ tick \in {"Claimed", "Started", "Refused"} => plan # <<>>
  /\ tick \in {"Claimed", "Refused"} => slots[Visited] = "claimed" /\ scheduled[Visited] = {}

ServiceIInv ==
  /\ TypeOK
  /\ ServiceTypeOK
  /\ GateInv
  /\ LifeInv
  /\ ExecutionInv
  /\ JournalIsTruthful
  /\ SlotInv

----------------------------------------------------------------------------
(* What the steps have in common *)

BoundsOK ==
  bounds \in [requests : 0 .. MaxRequests, edits : 0 .. MaxEdits,
              crashes : 0 .. MaxCrashes, storage : 0 .. MaxStorageFaults]

\* Whoever uses up a unit of a bound stays within it.
LEMMA SpendsWithinBounds ==
  ASSUME BoundsOK
  PROVE  /\ UNCHANGED bounds => BoundsOK'
         /\ StorageFault => BoundsOK'
         /\ Spend("requests", MaxRequests) => BoundsOK'
         /\ Spend("edits", MaxEdits) => BoundsOK'
         /\ Spend("crashes", MaxCrashes) => BoundsOK'
<1>1. UNCHANGED bounds => BoundsOK'
  BY DEF BoundsOK
<1>2. MaxRequests \in Nat /\ MaxEdits \in Nat /\ MaxCrashes \in Nat /\ MaxStorageFaults \in Nat
  BY ServiceAssumption
<1>3. ASSUME Spend("storage", MaxStorageFaults) PROVE BoundsOK'
  <2>1. bounds.storage + 1 \in 0 .. MaxStorageFaults
    BY <1>2, <1>3 DEF Spend, BoundsOK
  <2>2. bounds' = [bounds EXCEPT !.storage = bounds.storage + 1]
    BY <1>3 DEF Spend
  <2> QED
    BY <2>1, <2>2 DEF BoundsOK
<1>4. ASSUME Spend("requests", MaxRequests) PROVE BoundsOK'
  <2>1. bounds.requests + 1 \in 0 .. MaxRequests
    BY <1>2, <1>4 DEF Spend, BoundsOK
  <2>2. bounds' = [bounds EXCEPT !.requests = bounds.requests + 1]
    BY <1>4 DEF Spend
  <2> QED
    BY <2>1, <2>2 DEF BoundsOK
<1>5. ASSUME Spend("edits", MaxEdits) PROVE BoundsOK'
  <2>1. bounds.edits + 1 \in 0 .. MaxEdits
    BY <1>2, <1>5 DEF Spend, BoundsOK
  <2>2. bounds' = [bounds EXCEPT !.edits = bounds.edits + 1]
    BY <1>5 DEF Spend
  <2> QED
    BY <2>1, <2>2 DEF BoundsOK
<1>6. ASSUME Spend("crashes", MaxCrashes) PROVE BoundsOK'
  <2>1. bounds.crashes + 1 \in 0 .. MaxCrashes
    BY <1>2, <1>6 DEF Spend, BoundsOK
  <2>2. bounds' = [bounds EXCEPT !.crashes = bounds.crashes + 1]
    BY <1>6 DEF Spend
  <2> QED
    BY <2>1, <2>2 DEF BoundsOK
<1> QED
  BY <1>1, <1>3, <1>4, <1>5, <1>6 DEF StorageFault

\* The slot the tick is at is one.
LEMMA VisitedIsASlot ==
  ASSUME plan \in Seq(Rows), plan # <<>>
  PROVE  Head(plan) \in Rows /\ Visited \in Slots /\ Tail(plan) \in Seq(Rows)
<1>1. Head(plan) \in Rows /\ Tail(plan) \in Seq(Rows)
  OBVIOUS
<1> QED
  BY <1>1 DEF Rows, Visited

\* To the supervisor a step is a start, a worker's, the end of its process or none.
LEMMA ServiceStepKinds ==
  ASSUME ServiceNext
  PROVE  \/ \E b \in BOOLEAN : Start(b)
         \/ \E o \in Operations : Supervise(o)
         \/ ProcessEnds
         \/ UNCHANGED supervision
<1>1. CASE Acquire \/ Open \/ Shutdown \/ CommandStarts \/ CommandEnds \/ NewDay
  BY <1>1 DEF Acquire, Open, Shutdown, CommandStarts, CommandEnds, NewDay
<1>2. CASE Crash \/ Exit
  BY <1>2 DEF Crash, Exit
<1>3. CASE \/ \E k \in Kinds : TimePasses(k)
           \/ \E k \in Kinds, d \in 0 .. MaxDay, isDue \in BOOLEAN : SaveSchedule(k, d, isDue)
  BY <1>3 DEF TimePasses, SaveSchedule
<1>4. CASE Schedule
  BY <1>4 DEF Schedule, TickBegins, Claim, TickStarts, TickRecords
<1>5. CASE \E isMutating \in BOOLEAN : Request(isMutating)
  BY <1>5 DEF Request
<1>6. CASE \E o \in Operations : Execute(o)
  BY <1>6 DEF Execute, JournalBegins, ApplicationReturns, JournalFinishes, Return
<1> QED
  BY <1>1, <1>2, <1>3, <1>4, <1>5, <1>6 DEF ServiceNext

\* A worker does what its supervisor has it do.
LEMMA SupervisedWork ==
  ASSUME ExecutionInv, NEW o \in Operations, Supervise(o)
  PROVE  Work(o)
BY DEF ExecutionInv, Supervise, Work, Finish

----------------------------------------------------------------------------
(* The supervisor *)

\* Every step keeps the types of the supervisor and its gate.
LEMMA SupervisorStep ==
  ASSUME ServiceIInv, ServiceNext
  PROVE  TypeOK' /\ GateInv'
<1> TypeOK /\ GateInv /\ ExecutionInv
  BY DEF ServiceIInv
<1>1. CASE \E b \in BOOLEAN : Start(b)
  BY <1>1, TypeStart, GateStart
<1>2. CASE \E o \in Operations : Supervise(o)
  BY <1>2, SupervisedWork, TypeWork, GateWork
<1>3. CASE ProcessEnds
  <2>1. NoOperation \notin Operations
    BY SupervisorAssumption DEF Operations
  <2>2. TypeOK'
    BY <1>3, SupervisorAssumption DEF ProcessEnds, TypeOK, clients
  <2>3. GateInv'
    BY <1>3, <2>1 DEF ProcessEnds, GateInv, InProgress, IsTerminal, Terminal
  <2> QED
    BY <2>2, <2>3
<1>4. CASE UNCHANGED supervision
  BY <1>4 DEF supervision, records, clients, TypeOK, GateInv, IsTerminal
<1> QED
  BY <1>1, <1>2, <1>3, <1>4, ServiceStepKinds

\* A start gives the next identity to an operation that was not there.
LEMMA StartEffect ==
  ASSUME TypeOK, GateInv, NEW b \in BOOLEAN, Start(b)
  PROVE  /\ nextId \in Operations
         /\ worker[nextId] = "None"
         /\ worker' = [worker EXCEPT ![nextId] = "Spawned"]
<1>1. nextId \in Operations
  BY DEF Start, TypeOK, Operations
<1> QED
  BY <1>1, SupervisorAssumption DEF Start, GateInv, Operations

----------------------------------------------------------------------------
(* Types *)

LifeTypeOK ==
  /\ owner \in {"Nobody", "Service", "Command"}
  /\ service \in {"Down", "Leased", "Up", "Draining"}
  /\ service = "Down" <=> owner # "Service"

DatabaseTypeOK ==
  /\ slots \in [Slots -> {"None", "claimed", "dispatched", "interrupted"}]
  /\ history \in [Operations -> {"None", "running", "succeeded", "failed", "interrupted"}]

ClockTypeOK ==
  /\ today \in [Kinds -> 0 .. MaxDay]
  /\ due \subseteq Kinds

ThreadTypeOK ==
  /\ tick \in {"Idle", "Visit", "Claimed", "Started", "Refused"}
  /\ plan \in Seq(Rows)

WorkTypeOK ==
  /\ inner \in [Operations -> {"None", "Running", "Lost"} \cup Terminal]
  /\ outcome \in [Operations -> {"None"} \cup Terminal]
  /\ scheduled \in [Slots -> SUBSET Operations]

TypesOK ==
  LifeTypeOK /\ DatabaseTypeOK /\ ClockTypeOK /\ ThreadTypeOK /\ WorkTypeOK /\ BoundsOK

\* The types of the service, part by part.
LEMMA ServiceTypeParts ==
  ServiceTypeOK <=> TypesOK
BY
   DEF TypesOK, ServiceTypeOK, LifeTypeOK, DatabaseTypeOK, ClockTypeOK, ThreadTypeOK, WorkTypeOK, BoundsOK

\* Every step keeps the types of the service.
LEMMA ServiceTypeStep ==
  ASSUME ServiceIInv, ServiceNext
  PROVE  ServiceTypeOK'
<1> TypeOK /\ TypesOK /\ SlotInv /\ GateInv
  BY ServiceTypeParts DEF ServiceIInv, TypesOK
<1> SUFFICES TypesOK'
  BY DEF TypesOK, ServiceTypeOK, LifeTypeOK, DatabaseTypeOK, ClockTypeOK, ThreadTypeOK,
         WorkTypeOK, BoundsOK
<1> USE DEF TypesOK, database, clock, thread
<1>1. CASE Acquire
  BY <1>1 DEF Acquire, LifeTypeOK, DatabaseTypeOK, ClockTypeOK, ThreadTypeOK, WorkTypeOK, BoundsOK
<1>2. CASE Open
  BY <1>2 DEF Open, LifeTypeOK, DatabaseTypeOK, ClockTypeOK, ThreadTypeOK, WorkTypeOK, BoundsOK
<1>3. CASE Crash \/ Exit
  <2>1. ProcessEnds /\ BoundsOK'
    BY <1>3, SpendsWithinBounds DEF Crash, Exit
  <2>2. plan' \in Seq(Rows)
    BY <2>1 DEF ProcessEnds
  <2> QED
    BY <2>1, <2>2 DEF ProcessEnds, LifeTypeOK, DatabaseTypeOK, ClockTypeOK, ThreadTypeOK, WorkTypeOK
<1>4. CASE Shutdown \/ CommandStarts \/ CommandEnds
  BY <1>4 DEF Shutdown, CommandStarts, CommandEnds, LifeTypeOK, DatabaseTypeOK, ClockTypeOK,
              ThreadTypeOK, WorkTypeOK, BoundsOK
<1>5. CASE NewDay
  <2>1. ClockTypeOK'
    BY <1>5, ServiceAssumption DEF NewDay, ClockTypeOK
  <2> QED
    BY <1>5, <2>1 DEF NewDay, LifeTypeOK, DatabaseTypeOK, ThreadTypeOK, WorkTypeOK, BoundsOK
<1>6. CASE \E k \in Kinds : TimePasses(k)
  BY <1>6 DEF TimePasses, LifeTypeOK, DatabaseTypeOK, ClockTypeOK, ThreadTypeOK, WorkTypeOK, BoundsOK
<1>7. CASE \E k \in Kinds, d \in 0 .. MaxDay, isDue \in BOOLEAN : SaveSchedule(k, d, isDue)
  <2>1. BoundsOK' /\ ClockTypeOK'
    BY <1>7, SpendsWithinBounds DEF SaveSchedule, ClockTypeOK
  <2> QED
    BY <1>7, <2>1 DEF SaveSchedule, LifeTypeOK, DatabaseTypeOK, ThreadTypeOK, WorkTypeOK
<1>8. CASE TickBegins
  <2>1. \A i \in DOMAIN Order : Order[i] \in Kinds
    BY DEF Kinds
  <2>2. \A i \in DOMAIN Order :
          [slot |-> <<Order[i], today[Order[i]]>>, due |-> Order[i] \in due] \in Rows
    BY <2>1 DEF ClockTypeOK, Rows, Slots
  <2>3. DOMAIN Order = 1 .. Len(Order) /\ Len(Order) \in Nat
    BY ServiceAssumption
  <2>4. plan' \in Seq(Rows)
    BY <1>8, <2>2, <2>3 DEF TickBegins
  <2> QED
    BY <1>8, <2>4
       DEF TickBegins, LifeTypeOK, DatabaseTypeOK, ClockTypeOK, ThreadTypeOK, WorkTypeOK, BoundsOK
<1>9. CASE Claim
  <2>1. plan # <<>> => Visited \in Slots /\ Tail(plan) \in Seq(Rows)
    BY VisitedIsASlot DEF ThreadTypeOK
  <2>2. BoundsOK'
    BY <1>9, SpendsWithinBounds DEF Claim
  <2>3. ThreadTypeOK'
    <3>1. \/ tick' = "Idle" /\ plan' = <<>>
          \/ plan # <<>> /\ plan' = Tail(plan) /\ tick' = tick
          \/ tick' = "Claimed" /\ plan' = plan
      BY <1>9 DEF Claim, TickEnds
    <3>2. <<>> \in Seq(Rows)
      OBVIOUS
    <3>3. plan' \in Seq(Rows)
      BY <2>1, <3>1, <3>2 DEF ThreadTypeOK
    <3>4. tick' \in {"Idle", "Visit", "Claimed", "Started", "Refused"}
      BY <3>1 DEF ThreadTypeOK
    <3> QED
      BY <3>3, <3>4 DEF ThreadTypeOK
  <2>4. slots' \in [Slots -> {"None", "claimed", "dispatched", "interrupted"}]
    BY <1>9 DEF Claim, DatabaseTypeOK
  <2> QED
    BY <1>9, <2>2, <2>3, <2>4 DEF Claim, LifeTypeOK, DatabaseTypeOK, ClockTypeOK, WorkTypeOK
<1>10. CASE TickStarts
  <2>1. nextId \in Operations \/ ~ Start(TRUE)
    BY StartEffect
  <2>2. scheduled' \in [Slots -> SUBSET Operations]
    BY <1>10, <2>1 DEF TickStarts, WorkTypeOK
  <2> QED
    BY <1>10, <2>2
       DEF TickStarts, LifeTypeOK, DatabaseTypeOK, ClockTypeOK, ThreadTypeOK, WorkTypeOK, BoundsOK
<1>11. CASE TickRecords
  <2>1. BoundsOK'
    BY <1>11, SpendsWithinBounds DEF TickRecords
  <2>2. slots' \in [Slots -> {"None", "claimed", "dispatched", "interrupted"}]
    BY <1>11 DEF TickRecords, DatabaseTypeOK
  <2>3. ThreadTypeOK'
    BY <1>11 DEF TickRecords, TickEnds, ThreadTypeOK
  <2> QED
    BY <1>11, <2>1, <2>2, <2>3 DEF TickRecords, LifeTypeOK, DatabaseTypeOK, ClockTypeOK, WorkTypeOK
<1>12. CASE \E isMutating \in BOOLEAN : Request(isMutating)
  <2>1. BoundsOK'
    BY <1>12, SpendsWithinBounds DEF Request
  <2> QED
    BY <1>12, <2>1 DEF Request, LifeTypeOK, DatabaseTypeOK, ClockTypeOK, ThreadTypeOK, WorkTypeOK
<1>13. CASE \E o \in Operations : Execute(o)
  <2> PICK o \in Operations : Execute(o)
    BY <1>13
  <2>1. CASE Supervise(o)
    BY <2>1
       DEF Supervise, serving, LifeTypeOK, DatabaseTypeOK, ClockTypeOK, ThreadTypeOK, WorkTypeOK, BoundsOK
  <2>2. CASE JournalBegins(o)
    <3>1. BoundsOK'
      BY <2>2, SpendsWithinBounds DEF JournalBegins
    <3>2. DatabaseTypeOK' /\ WorkTypeOK'
      BY <2>2 DEF JournalBegins, Return, DatabaseTypeOK, WorkTypeOK, Terminal
    <3> QED
      BY <2>2, <3>1, <3>2 DEF JournalBegins, LifeTypeOK, ClockTypeOK, ThreadTypeOK
  <2>3. CASE \E result \in Terminal : ApplicationReturns(o, result)
    BY <2>3
       DEF ApplicationReturns, LifeTypeOK, DatabaseTypeOK, ClockTypeOK, ThreadTypeOK, WorkTypeOK, BoundsOK
  <2>4. CASE JournalFinishes(o)
    <3>1. BoundsOK'
      BY <2>4, SpendsWithinBounds DEF JournalFinishes
    <3>2. DatabaseTypeOK' /\ WorkTypeOK'
      BY <2>4 DEF JournalFinishes, Return, DatabaseTypeOK, WorkTypeOK, Terminal
    <3> QED
      BY <2>4, <3>1, <3>2 DEF JournalFinishes, LifeTypeOK, ClockTypeOK, ThreadTypeOK
  <2> QED
    BY <2>1, <2>2, <2>3, <2>4 DEF Execute
<1> QED
  BY <1>1, <1>2, <1>3, <1>4, <1>5, <1>6, <1>7, <1>8, <1>9, <1>10, <1>11, <1>12, <1>13
     DEF ServiceNext, Schedule

----------------------------------------------------------------------------
(* The life of the process *)

\* Nothing is under way in a service that is not up.
LEMMA LifeStep ==
  ASSUME ServiceIInv, ServiceNext
  PROVE  LifeInv'
<1> TypeOK /\ ServiceTypeOK /\ GateInv /\ LifeInv /\ ExecutionInv
  BY DEF ServiceIInv
<1> USE DEF LifeInv, Up
<1>1. CASE Acquire \/ Open
  BY <1>1 DEF Acquire, Open, supervision, thread
<1>2. CASE Crash \/ Exit
  <2>1. tick' = "Idle" /\ worker' = [o \in Operations |-> "None"]
    BY <1>2 DEF Crash, Exit, ProcessEnds
  <2> QED
    BY <2>1 DEF InProgress
<1>3. CASE Shutdown \/ CommandStarts \/ CommandEnds \/ NewDay
  BY <1>3 DEF Shutdown, CommandStarts, CommandEnds, NewDay, supervision, thread
<1>4. CASE \/ \E k \in Kinds : TimePasses(k)
           \/ \E k \in Kinds, d \in 0 .. MaxDay, isDue \in BOOLEAN : SaveSchedule(k, d, isDue)
  BY <1>4 DEF TimePasses, SaveSchedule, supervision, thread
<1>5. CASE TickBegins \/ Claim \/ TickRecords
  BY <1>5 DEF TickBegins, Claim, TickRecords, TickEnds, supervision
<1>6. CASE TickStarts
  <2>1. Up /\ UNCHANGED service
    BY <1>6 DEF TickStarts
  <2> QED
    BY <2>1
<1>7. CASE \E isMutating \in BOOLEAN : Request(isMutating)
  <2>1. Up /\ UNCHANGED service
    BY <1>7 DEF Request
  <2> QED
    BY <2>1
<1>8. CASE \E o \in Operations : Execute(o)
  <2> PICK o \in Operations : Execute(o)
    BY <1>8
  <2>1. CASE Supervise(o)
    <3>1. worker[o] \in InProgress
      BY <2>1 DEF Supervise, Run, Release, Finish, InProgress
    <3>2. UNCHANGED <<service, tick>>
      BY <2>1 DEF Supervise, serving, thread
    <3> QED
      BY <3>1, <3>2
  <2>2. CASE ~ Supervise(o)
    <3>1. UNCHANGED <<service, tick, worker>>
      BY <2>2 DEF Execute, JournalBegins, ApplicationReturns, JournalFinishes, Return,
                  supervision, thread
    <3> QED
      BY <3>1
  <2> QED
    BY <2>1, <2>2
<1> QED
  BY <1>1, <1>2, <1>3, <1>4, <1>5, <1>6, <1>7, <1>8 DEF ServiceNext, Schedule

----------------------------------------------------------------------------
(* The journal *)

JournalInv == ExecutionInv /\ JournalIsTruthful

\* Where the workers, their calls and their rows are as they were.
LEMMA JournalKept ==
  ASSUME JournalInv, UNCHANGED <<worker, outcome, inner, history>>
  PROVE  JournalInv'
BY DEF JournalInv, ExecutionInv, JournalIsTruthful

\* A start touches no call that is under way.
LEMMA JournalStart ==
  ASSUME TypeOK, GateInv, JournalInv, NEW b \in BOOLEAN, Start(b),
         UNCHANGED <<outcome, inner, history>>
  PROVE  JournalInv'
<1>1. /\ nextId \in Operations
      /\ worker[nextId] = "None"
      /\ worker' = [worker EXCEPT ![nextId] = "Spawned"]
  BY StartEffect
<1>2. \A o \in Operations : worker'[o] = IF o = nextId THEN "Spawned" ELSE worker[o]
  BY <1>1 DEF TypeOK
<1> QED
  BY <1>1, <1>2 DEF JournalInv, ExecutionInv, JournalIsTruthful

\* Every step keeps the calls and the journal together.
LEMMA JournalStep ==
  ASSUME ServiceIInv, ServiceNext
  PROVE  JournalInv'
<1> TypeOK /\ ServiceTypeOK /\ GateInv /\ LifeInv /\ JournalInv
  BY DEF ServiceIInv, JournalInv
<1>1. CASE Acquire \/ Shutdown \/ CommandStarts \/ CommandEnds \/ NewDay
  BY <1>1, JournalKept DEF Acquire, Shutdown, CommandStarts, CommandEnds, NewDay, supervision, database
<1>2. CASE Open
  <2>1. \A o \in Operations : inner[o] # "Running"
    BY <1>2 DEF Open, LifeInv, Up, JournalInv, ExecutionInv, InProgress
  <2>2. /\ UNCHANGED <<worker, outcome, inner>>
        /\ \A o \in Operations :
             history'[o] = IF history[o] = "running" THEN "interrupted" ELSE history[o]
    BY <1>2 DEF Open, supervision
  <2> QED
    BY <2>1, <2>2 DEF JournalInv, ExecutionInv, JournalIsTruthful
<1>3. CASE Crash \/ Exit
  <2>1. /\ UNCHANGED history
        /\ \A o \in Operations :
             /\ inner'[o] = IF inner[o] = "Running" THEN "Lost" ELSE inner[o]
             /\ worker'[o] = "None"
    BY <1>3 DEF Crash, Exit, ProcessEnds, database
  <2> QED
    BY <2>1 DEF JournalInv, ExecutionInv, JournalIsTruthful
<1>4. CASE \/ \E k \in Kinds : TimePasses(k)
           \/ \E k \in Kinds, d \in 0 .. MaxDay, isDue \in BOOLEAN : SaveSchedule(k, d, isDue)
  BY <1>4, JournalKept DEF TimePasses, SaveSchedule, supervision, database
<1>5. CASE TickBegins \/ Claim \/ TickRecords
  BY <1>5, JournalKept DEF TickBegins, Claim, TickRecords, supervision, database
<1>6. CASE TickStarts
  <2>1. CASE Start(TRUE)
    BY <1>6, <2>1, JournalStart DEF TickStarts, database
  <2>2. CASE UNCHANGED supervision
    BY <1>6, <2>2, JournalKept DEF TickStarts, database, supervision
  <2> QED
    BY <1>6, <2>1, <2>2 DEF TickStarts
<1>7. CASE \E isMutating \in BOOLEAN : Request(isMutating)
  BY <1>7, JournalStart DEF Request, database
<1>8. CASE \E o \in Operations : Execute(o)
  <2> PICK o \in Operations : Execute(o)
    BY <1>8
  <2> USE DEF JournalInv, ExecutionInv, JournalIsTruthful
  <2>1. CASE Supervise(o)
    <3>1. UNCHANGED <<outcome, inner, history>>
      BY <2>1 DEF Supervise, serving, database
    <3>2. CASE Run(o)
      <4>1. \A p \in Operations : p # o => worker'[p] = worker[p]
        BY <3>2 DEF Run, TypeOK
      <4>2. worker[o] = "Spawned" /\ worker'[o] = "Running"
        BY <3>2 DEF Run, TypeOK
      <4> QED
        BY <3>1, <4>1, <4>2
    <3>3. CASE outcome[o] # "None" /\ Release(o)
      <4>1. \A p \in Operations : p # o => worker'[p] = worker[p]
        BY <3>3 DEF Release, TypeOK
      <4>2. worker'[o] = "Released" /\ outcome[o] \in Terminal
        BY <3>3 DEF Release, TypeOK, ServiceTypeOK
      <4> QED
        BY <3>1, <3>3, <4>1, <4>2
    <3>4. CASE Finish(o, outcome[o])
      <4>1. \A p \in Operations : p # o => worker'[p] = worker[p]
        BY <3>4 DEF Finish, TypeOK
      <4>2. worker[o] = "Released" /\ worker'[o] = "Finished"
        BY <3>4 DEF Finish, TypeOK
      <4> QED
        BY <3>1, <4>1, <4>2
    <3> QED
      BY <2>1, <3>2, <3>3, <3>4 DEF Supervise
  <2>2. CASE JournalBegins(o)
    <3>1. UNCHANGED worker
      BY <2>2 DEF JournalBegins, Return, supervision
    <3>2. worker[o] = "Running"
      BY <2>2 DEF JournalBegins
    <3>3. CASE history' = [history EXCEPT ![o] = "running"]
               /\ inner' = [inner EXCEPT ![o] = "Running"] /\ UNCHANGED outcome
      <4>1. outcome[o] = "None"
        BY <2>2 DEF JournalBegins
      <4> QED
        BY <3>1, <3>2, <3>3, <4>1 DEF ServiceTypeOK
    <3>4. CASE Return(o, "Failed") /\ UNCHANGED <<history, inner>>
      <4>1. inner[o] = "None"
        BY <2>2 DEF JournalBegins
      <4> QED
        BY <3>1, <3>2, <3>4, <4>1 DEF Return, ServiceTypeOK
    <3> QED
      BY <2>2, <3>3, <3>4 DEF JournalBegins
  <2>3. CASE \E result \in Terminal : ApplicationReturns(o, result)
    <3> PICK result \in Terminal : ApplicationReturns(o, result)
      BY <2>3
    <3>1. UNCHANGED <<worker, outcome, history>> /\ history[o] = "running"
      BY DEF ApplicationReturns, supervision, database
    <3>2. inner' = [inner EXCEPT ![o] = result] /\ result # "Running"
      BY DEF ApplicationReturns, Terminal
    <3> QED
      BY <3>1, <3>2 DEF ServiceTypeOK
  <2>4. CASE JournalFinishes(o)
    <3>1. UNCHANGED <<worker, inner>> /\ worker[o] = "Running" /\ inner[o] \in Terminal
      BY <2>4 DEF JournalFinishes, Return, supervision
    <3>2. \A p \in Operations : p # o => outcome'[p] = outcome[p] /\ history'[p] = history[p]
      BY <2>4 DEF JournalFinishes, Return, ServiceTypeOK
    <3>3. \/ history'[o] = IF inner[o] = "Succeeded" THEN "succeeded" ELSE "failed"
          \/ history'[o] = history[o]
      BY <2>4 DEF JournalFinishes, ServiceTypeOK
    <3> QED
      BY <3>1, <3>2, <3>3 DEF Terminal
  <2> QED
    BY <2>1, <2>2, <2>3, <2>4 DEF Execute
<1> QED
  BY <1>1, <1>2, <1>3, <1>4, <1>5, <1>6, <1>7, <1>8 DEF ServiceNext, Schedule

----------------------------------------------------------------------------
(* The slots *)

\* Where the slots, the tick and what was started are as they were.
LEMMA SlotsKept ==
  ASSUME SlotInv, UNCHANGED <<slots, scheduled, tick, plan>>
  PROVE  SlotInv'
BY DEF SlotInv, Visited

\* Every step keeps a slot to one start.
LEMMA SlotStep ==
  ASSUME ServiceIInv, ServiceNext
  PROVE  SlotInv'
<1> TypeOK /\ ServiceTypeOK /\ GateInv /\ LifeInv /\ SlotInv
  BY DEF ServiceIInv
<1>0. plan # <<>> => Visited \in Slots
  BY VisitedIsASlot DEF ServiceTypeOK
<1>1. CASE Acquire \/ Shutdown \/ CommandStarts \/ CommandEnds \/ NewDay
  BY <1>1, SlotsKept
     DEF Acquire, Shutdown, CommandStarts, CommandEnds, NewDay, database, thread
<1>2. CASE Open
  <2>1. tick = "Idle" /\ tick' = tick /\ UNCHANGED scheduled
    BY <1>2 DEF Open, LifeInv, Up, thread
  <2>2. \A s \in Slots :
          slots'[s] = IF slots[s] = "claimed" THEN "interrupted" ELSE slots[s]
    BY <1>2 DEF Open
  <2> QED
    BY <2>1, <2>2 DEF SlotInv
<1>3. CASE Crash \/ Exit
  <2>1. tick' = "Idle" /\ UNCHANGED <<slots, scheduled>>
    BY <1>3 DEF Crash, Exit, ProcessEnds, database
  <2> QED
    BY <2>1 DEF SlotInv
<1>4. CASE \/ \E k \in Kinds : TimePasses(k)
           \/ \E k \in Kinds, d \in 0 .. MaxDay, isDue \in BOOLEAN : SaveSchedule(k, d, isDue)
  BY <1>4, SlotsKept DEF TimePasses, SaveSchedule, database, thread
<1>5. CASE TickBegins
  <2>1. tick' = "Visit" /\ UNCHANGED <<slots, scheduled>>
    BY <1>5 DEF TickBegins, database
  <2> QED
    BY <2>1 DEF SlotInv
<1>6. CASE Claim
  <2>1. CASE UNCHANGED slots /\ tick' \in {"Idle", "Visit"}
    BY <1>6, <2>1 DEF Claim, SlotInv
  <2>2. CASE /\ plan # <<>> /\ slots[Visited] = "None"
             /\ slots' = [slots EXCEPT ![Visited] = "claimed"]
             /\ tick' = "Claimed" /\ UNCHANGED plan
    <3>1. UNCHANGED scheduled /\ Visited' = Visited
      BY <1>6, <2>2 DEF Claim, Visited
    <3>2. slots'[Visited] = "claimed" /\ scheduled[Visited] = {}
      BY <2>2, <1>0 DEF SlotInv, ServiceTypeOK
    <3>3. \A s \in Slots : slots'[s] = "None" => slots[s] = "None"
      BY <2>2 DEF ServiceTypeOK
    <3> QED
      BY <2>2, <3>1, <3>2, <3>3 DEF SlotInv
  <2> QED
    BY <1>6, <2>1, <2>2 DEF Claim, TickEnds
<1>7. CASE TickStarts
  <2>1. plan # <<>> /\ Visited \in Slots /\ slots[Visited] = "claimed" /\ scheduled[Visited] = {}
    BY <1>7, <1>0 DEF TickStarts, SlotInv
  <2>2. UNCHANGED <<slots, plan>> /\ Visited' = Visited
    BY <1>7 DEF TickStarts, database, Visited
  <2>3. CASE Start(TRUE) /\ tick' = "Started"
             /\ scheduled' = [scheduled EXCEPT ![Visited] = @ \cup {nextId}]
    <3>1. nextId \in Operations
      BY <2>3, StartEffect
    <3>2. scheduled'[Visited] = {nextId}
          /\ \A s \in Slots : s # Visited => scheduled'[s] = scheduled[s]
      BY <2>1, <2>3 DEF ServiceTypeOK
    <3> QED
      BY <2>1, <2>2, <2>3, <3>1, <3>2 DEF SlotInv
  <2>4. CASE tick' = "Refused" /\ UNCHANGED scheduled
    BY <2>1, <2>2, <2>4 DEF SlotInv
  <2> QED
    BY <1>7, <2>3, <2>4 DEF TickStarts
<1>8. CASE TickRecords
  <2>1. tick' = "Idle" /\ UNCHANGED scheduled
    BY <1>8 DEF TickRecords, TickEnds
  <2>2. plan # <<>> /\ Visited \in Slots
    BY <1>8, <1>0 DEF TickRecords, SlotInv
  <2>3. \A s \in Slots : slots'[s] = "None" => scheduled[s] = {}
    <3>1. CASE UNCHANGED slots
      BY <3>1 DEF SlotInv
    <3>2. CASE tick = "Started" /\ slots' = [slots EXCEPT ![Visited] = "dispatched"]
      BY <3>2 DEF SlotInv, ServiceTypeOK
    <3>3. CASE tick = "Refused" /\ scheduled[Visited] = {}
               /\ \A s \in Slots : s # Visited => slots'[s] = slots[s]
      BY <3>3 DEF SlotInv
    <3>4. tick = "Refused" => scheduled[Visited] = {}
      BY DEF SlotInv
    <3> QED
      BY <1>8, <3>1, <3>2, <3>3, <3>4 DEF TickRecords, ServiceTypeOK
  <2> QED
    BY <2>1, <2>3 DEF SlotInv
<1>9. CASE \E isMutating \in BOOLEAN : Request(isMutating)
  BY <1>9, SlotsKept DEF Request, database, thread
<1>10. CASE \E o \in Operations : Execute(o)
  BY <1>10, SlotsKept
     DEF Execute, Supervise, JournalBegins, ApplicationReturns, JournalFinishes,
         serving, database, thread
<1> QED
  BY <1>1, <1>2, <1>3, <1>4, <1>5, <1>6, <1>7, <1>8, <1>9, <1>10 DEF ServiceNext, Schedule

----------------------------------------------------------------------------
(* The theorems *)

\* The initial states satisfy the strengthening.
LEMMA ServiceInitInv == ServiceInit => ServiceIInv
<1> SUFFICES ASSUME ServiceInit
             PROVE  ServiceIInv
  OBVIOUS
<1> USE SupervisorAssumption, ServiceAssumption
<1>1. TypeOK /\ GateInv
  BY DEF ServiceInit, Init, TypeOK, GateInv, InProgress, IsTerminal, Terminal, Operations
<1>2. ServiceTypeOK
  <2>1. <<>> \in Seq(Rows)
    OBVIOUS
  <2>2. 0 \in 0 .. MaxDay
    OBVIOUS
  <2>3. BoundsOK
    BY DEF ServiceInit, BoundsOK
  <2> QED
    BY <2>1, <2>2, <2>3 DEF ServiceInit, ServiceTypeOK, BoundsOK
<1>3. LifeInv /\ ExecutionInv /\ JournalIsTruthful
  BY DEF ServiceInit, Init, LifeInv, ExecutionInv, JournalIsTruthful, InProgress
<1>4. SlotInv
  BY DEF ServiceInit, SlotInv
<1> QED
  BY <1>1, <1>2, <1>3, <1>4 DEF ServiceIInv

\* So does a stuttering step.
LEMMA ServiceStutterInv ==
  ASSUME ServiceIInv, UNCHANGED allVars
  PROVE  ServiceIInv'
<1> USE DEF allVars, serving, supervision, records, clients, database, clock, thread
<1>1. TypeOK' /\ GateInv'
  BY DEF ServiceIInv, TypeOK, GateInv, IsTerminal
<1>2. ServiceTypeOK' /\ LifeInv' /\ ExecutionInv' /\ JournalIsTruthful'
  BY DEF ServiceIInv, ServiceTypeOK, LifeInv, Up, ExecutionInv, JournalIsTruthful
<1>3. SlotInv'
  BY SlotsKept DEF ServiceIInv
<1> QED
  BY <1>1, <1>2, <1>3 DEF ServiceIInv

\* The strengthening is inductive: whatever is requested, edited, refused, lost or
\* restarted next.
THEOREM ServiceInvariant == ServiceSpec => []ServiceIInv
<1>1. ServiceInit => ServiceIInv
  BY ServiceInitInv
<1>2. ServiceIInv /\ [ServiceNext]_allVars => ServiceIInv'
  <2>1. ASSUME ServiceIInv, ServiceNext
        PROVE  ServiceIInv'
    BY <2>1, SupervisorStep, ServiceTypeStep, LifeStep, JournalStep, SlotStep DEF ServiceIInv, JournalInv
  <2> QED
    BY <2>1, ServiceStutterInv
<1> QED
  BY <1>1, <1>2, PTL DEF ServiceSpec

\* Every variable of the service keeps its type, and only the holder of the lease
\* is up.
THEOREM ServiceTypesAreKept == ServiceSpec => []ServiceTypeOK
<1>1. ServiceIInv => ServiceTypeOK
  BY DEF ServiceIInv
<1> QED
  BY <1>1, ServiceInvariant, PTL

\* Scheduled work is started at most once for each of its dates, over any number
\* of deaths of the service, failed transactions and edits of the schedules.
THEOREM OncePerDate == ServiceSpec => []AtMostOncePerDate
<1>1. ServiceIInv => AtMostOncePerDate
  <2> SUFFICES ASSUME ServiceIInv, NEW s \in Slots
               PROVE  Cardinality(scheduled[s]) <= 1
    BY DEF AtMostOncePerDate
  <2>1. CASE scheduled[s] = {}
    <3>1. Cardinality(scheduled[s]) = 0
      BY <2>1, FS_EmptySet
    <3> QED
      BY <3>1
  <2>2. CASE \E o \in Operations : scheduled[s] = {o}
    <3>1. Cardinality(scheduled[s]) = 1
      BY <2>2, FS_Singleton
    <3> QED
      BY <3>1
  <2> QED
    BY <2>1, <2>2 DEF ServiceIInv, SlotInv
<1> QED
  BY <1>1, ServiceInvariant, PTL

\* Nobody else is in the workspace while an operation of the service is under way,
\* and no two of its operations change it together.
THEOREM OneInTheWorkspace == ServiceSpec => []WorkspaceIsExclusive
<1>1. ServiceIInv => WorkspaceIsExclusive
  <2> SUFFICES ASSUME ServiceIInv
               PROVE  WorkspaceIsExclusive
    OBVIOUS
  <2>1. \A o \in Operations : worker[o] \notin {"None", "Finished"} => owner = "Service"
    BY DEF ServiceIInv, TypeOK, ServiceTypeOK, LifeInv, InProgress, Up
  <2>2. \A o, p \in Operations : Mutates(o) /\ Mutates(p) => o = p
    BY DEF ServiceIInv, ExecutionInv, GateInv, Mutates
  <2>3. service = "Leased" => \A o \in Operations : inner[o] # "Running"
    BY DEF ServiceIInv, ExecutionInv, LifeInv, InProgress, Up
  <2> QED
    BY <2>1, <2>2, <2>3 DEF WorkspaceIsExclusive
<1> QED
  BY <1>1, ServiceInvariant, PTL

\* The journal says of no execution what did not happen, whenever the service died
\* and whichever transaction failed.
THEOREM JournalTellsTheTruth == ServiceSpec => []JournalIsTruthful
<1>1. ServiceIInv => JournalIsTruthful
  BY DEF ServiceIInv
<1> QED
  BY <1>1, ServiceInvariant, PTL
============================================================================
