------------------------ MODULE OperationSupervisor ------------------------
(***************************************************************************)
(* OperationSupervisor: accepts a use case as an operation, runs it on a   *)
(* thread of its own, lets any number of clients watch it, and keeps one   *)
(* mutating operation at a time in the workspace.                          *)
(*                                                                         *)
(* The supervisor's map and each record have a mutex of their own.  A step *)
(* here is what happens under one of them; the worker threads and the      *)
(* clients interleave between steps.  A record is shared: one that was     *)
(* evicted from the map lives on for whoever holds it.                     *)
(*                                                                         *)
(* A progress line is its sequence number.  A client follows one operation;*)
(* it may lose its connection and come back with the last number it saw    *)
(* (the Last-Event-ID of the event stream).  Console puts the supervisor   *)
(* together with whoever starts operations and watches them.               *)
(***************************************************************************)
EXTENDS Integers, Sequences, FiniteSets

CONSTANTS
  Clients,
  CompletedLimit,  \* finished operations kept
  MaxOperations,   \* bound: operations accepted
  MaxProgress,     \* bound: progress lines of one operation
  MaxDrops,        \* bound: connections lost
  NoOperation,
  FinishedEvent

ASSUME SupervisorAssumption ==
  /\ CompletedLimit \in Nat
  /\ MaxOperations \in Nat
  /\ MaxProgress \in Nat
  /\ MaxDrops \in Nat
  /\ NoOperation \notin Nat
  /\ FinishedEvent \notin Nat

Operations == 1 .. MaxOperations

Terminal == {"Succeeded", "Failed"}

Event == Nat \cup {FinishedEvent}

VARIABLES
  \* Shared.
  nextId,
  active,      \* active_mutation
  retained,    \* the operations in the map
  \* Record, per operation.
  mutating,    \* kind.is_mutating()
  state,       \* "None" until it is accepted
  progress,    \* progress lines so far, numbered from 1
  \* The worker thread, per operation.
  worker,
  \* Clients.
  watching,    \* the operation a client follows
  stream,      \* the life of its subscription
  after,       \* the number it asked to be told of nothing before
  channel,     \* events sent to it and not received
  got,         \* history: the numbers it received
  drops

records     == <<mutating, state, progress>>
clients     == <<watching, stream, after, channel, got>>
supervision == <<nextId, active, retained, records, worker, clients, drops>>

IsTerminal(o) == state[o] \in Terminal

\* The lines n + 1 to m.
Lines(n, m) == [k \in 1 .. (IF n < m THEN m - n ELSE 0) |-> n + k]

----------------------------------------------------------------------------
(* start *)

\* Mutant: an operation that is accepted and not yet running does not count.
BusyRunning == active # NoOperation /\ active \in retained /\ state[active] = "Running"

Busy == active # NoOperation /\ active \in retained /\ ~ IsTerminal(active)

\* The oldest finished operations beyond the limit.
Evicted(known) ==
  LET finished == {o \in known : IsTerminal(o)}
  IN {o \in finished :
        Cardinality({p \in finished : p >= o}) > CompletedLimit}

\* Under the lock of the map: refuse, or allocate an identity, take the gate and
\* apply retention.
Start(isMutating) ==
  /\ nextId <= MaxOperations
  /\ ~ (isMutating /\ Busy)
  /\ nextId' = nextId + 1
  /\ retained' = (retained \ Evicted(retained)) \cup {nextId}
  /\ active' = IF isMutating THEN nextId ELSE active
  /\ mutating' = [mutating EXCEPT ![nextId] = isMutating]
  /\ state' = [state EXCEPT ![nextId] = "Queued"]
  /\ worker' = [worker EXCEPT ![nextId] = "Spawned"]
  /\ UNCHANGED <<progress, clients, drops>>

----------------------------------------------------------------------------
(* The worker thread *)

Run(o) ==
  /\ worker[o] = "Spawned"
  /\ worker' = [worker EXCEPT ![o] = "Running"]
  /\ state' = [state EXCEPT ![o] = "Running"]
  /\ UNCHANGED <<nextId, active, retained, mutating, progress, clients, drops>>

\* The clients a line or the end of operation o is sent to.
Subscribed(c, o) == stream[c] = "Attached" /\ watching[c] = o

\* Record::push: append a line and fan it out to those who have not seen it.
Push(o) ==
  /\ worker[o] = "Running"
  /\ progress[o] < MaxProgress
  /\ progress' = [progress EXCEPT ![o] = @ + 1]
  /\ channel' = [c \in Clients |->
                  IF Subscribed(c, o) /\ progress[o] + 1 > after[c]
                  THEN Append(channel[c], progress[o] + 1) ELSE channel[c]]
  /\ UNCHANGED <<nextId, active, retained, mutating, state, worker,
                 watching, stream, after, got, drops>>

\* The executor returned, and the gate is cleared before anyone is told.
Release(o) ==
  /\ worker[o] = "Running"
  /\ worker' = [worker EXCEPT ![o] = "Released"]
  /\ active' = IF active = o THEN NoOperation ELSE active
  /\ UNCHANGED <<nextId, retained, records, clients, drops>>

\* Record::finish: the terminal state, and its event to every subscriber.  A panic
\* is a failure.
Finish(o, result) ==
  /\ worker[o] = "Released"
  /\ worker' = [worker EXCEPT ![o] = "Finished"]
  /\ state' = [state EXCEPT ![o] = result]
  /\ channel' = [c \in Clients |->
                  IF Subscribed(c, o) THEN Append(channel[c], FinishedEvent) ELSE channel[c]]
  /\ UNCHANGED <<nextId, active, retained, mutating, progress,
                 watching, stream, after, got, drops>>

----------------------------------------------------------------------------
(* Clients *)

\* Mutant: a client asks for one line too many.
LookUpOneEarly(c, o) ==
  /\ stream[c] = "New" \/ (stream[c] = "Away" /\ watching[c] = o)
  /\ o < nextId
  /\ watching' = [watching EXCEPT ![c] = o]
  /\ after' = [after EXCEPT ![c] = Len(got[c]) - 1]
  /\ stream' = [stream EXCEPT ![c] = IF o \in retained THEN "Found" ELSE "NotFound"]
  /\ UNCHANGED <<nextId, active, retained, records, worker, channel, got, drops>>

\* subscribe_after takes the record out of the map ...
LookUp(c, o) ==
  /\ \/ stream[c] = "New"
     \/ stream[c] = "Away" /\ watching[c] = o
  /\ o < nextId
  /\ watching' = [watching EXCEPT ![c] = o]
  /\ after' = [after EXCEPT ![c] = Len(got[c])]
  /\ stream' = [stream EXCEPT ![c] = IF o \in retained THEN "Found" ELSE "NotFound"]
  /\ UNCHANGED <<nextId, active, retained, records, worker, channel, got, drops>>

\* Mutant: the replay starts from the first line whatever the client has seen.
AttachFromStart(c) ==
  /\ stream[c] = "Found"
  /\ LET o == watching[c]
     IN channel' = [channel EXCEPT ![c] =
          Lines(0, progress[o]) \o IF IsTerminal(o) THEN <<FinishedEvent>> ELSE <<>>]
  /\ stream' = [stream EXCEPT ![c] = "Attached"]
  /\ UNCHANGED <<nextId, active, retained, records, worker, watching, after, got, drops>>

\* Mutant: a client that comes after the end waits with the others.
AttachForEver(c) ==
  /\ stream[c] = "Found"
  /\ channel' = [channel EXCEPT ![c] = Lines(after[c], progress[watching[c]])]
  /\ stream' = [stream EXCEPT ![c] = "Attached"]
  /\ UNCHANGED <<nextId, active, retained, records, worker, watching, after, got, drops>>

\* ... and, under the record's lock, replays what the client has not seen and
\* leaves its sender there, unless the operation is over.
Attach(c) ==
  /\ stream[c] = "Found"
  /\ LET o == watching[c]
     IN channel' = [channel EXCEPT ![c] =
          Lines(after[c], progress[o]) \o IF IsTerminal(o) THEN <<FinishedEvent>> ELSE <<>>]
  /\ stream' = [stream EXCEPT ![c] = "Attached"]
  /\ UNCHANGED <<nextId, active, retained, records, worker, watching, after, got, drops>>

Receive(c) ==
  /\ stream[c] = "Attached"
  /\ channel[c] # <<>>
  /\ channel' = [channel EXCEPT ![c] = Tail(@)]
  /\ IF Head(channel[c]) = FinishedEvent
     THEN stream' = [stream EXCEPT ![c] = "Ended"] /\ UNCHANGED got
     ELSE got' = [got EXCEPT ![c] = Append(@, Head(channel[c]))] /\ UNCHANGED stream
  /\ UNCHANGED <<nextId, active, retained, records, worker, watching, after, drops>>

\* The connection is lost, with what was on its way.
Drop(c) ==
  /\ stream[c] = "Attached"
  /\ drops < MaxDrops
  /\ drops' = drops + 1
  /\ stream' = [stream EXCEPT ![c] = "Away"]
  /\ channel' = [channel EXCEPT ![c] = <<>>]
  /\ UNCHANGED <<nextId, active, retained, records, worker, watching, after, got>>

----------------------------------------------------------------------------
(* The initial states, and the work of one operation *)

Init ==
  /\ nextId = 1
  /\ active = NoOperation
  /\ retained = {}
  /\ mutating = [o \in Operations |-> FALSE]
  /\ state = [o \in Operations |-> "None"]
  /\ progress = [o \in Operations |-> 0]
  /\ worker = [o \in Operations |-> "None"]
  /\ watching = [c \in Clients |-> NoOperation]
  /\ stream = [c \in Clients |-> "New"]
  /\ after = [c \in Clients |-> 0]
  /\ channel = [c \in Clients |-> <<>>]
  /\ got = [c \in Clients |-> <<>>]
  /\ drops = 0

Work(o) ==
  \/ Run(o)
  \/ Push(o)
  \/ Release(o)
  \/ \E result \in Terminal : Finish(o, result)

----------------------------------------------------------------------------
(* Properties *)

\* The types of the variables.
TypeOK ==
  /\ nextId \in 1 .. MaxOperations + 1
  /\ active \in Operations \cup {NoOperation}
  /\ retained \subseteq Operations
  /\ mutating \in [Operations -> BOOLEAN]
  /\ state \in [Operations -> {"None", "Queued", "Running"} \cup Terminal]
  /\ progress \in [Operations -> 0 .. MaxProgress]
  /\ worker \in [Operations -> {"None", "Spawned", "Running", "Released", "Finished"}]
  /\ watching \in [Clients -> Operations \cup {NoOperation}]
  /\ stream \in [Clients -> {"New", "Found", "NotFound", "Attached", "Away", "Ended"}]
  /\ after \in [Clients -> Nat]
  /\ channel \in [Clients -> Seq(Event)]
  /\ got \in [Clients -> Seq(Nat)]
  /\ drops \in 0 .. MaxDrops

InWorkspace(o) == mutating[o] /\ worker[o] \in {"Spawned", "Running"}

\* Two mutating operations are never in the workspace at once, however starts and
\* endings interleave; retention drops none that is under way; and a client that
\* was told its operation finished can start the next one: the gate is not held
\* by an operation whose end somebody has seen.
SingleFlight ==
  /\ \A o, p \in Operations : InWorkspace(o) /\ InWorkspace(p) => o = p
  /\ \A o \in Operations : worker[o] \notin {"None", "Finished"} => o \in retained
  /\ \A c \in Clients : stream[c] = "Ended" => active # watching[c]

\* Whenever a client joins, leaves or comes back, what it received is the
\* operation's history from its first line on, with no gap and nothing twice; and
\* when it is told of the end it has received all of it.
StreamIsHistory ==
  \A c \in Clients :
    /\ \A k \in DOMAIN got[c] : got[c][k] = k
    /\ stream[c] = "Ended" =>
         /\ IsTerminal(watching[c])
         /\ Len(got[c]) = progress[watching[c]]

\* Nobody waits for ever: a client that found its operation is told of its end, or
\* loses its connection; and the workspace always comes free again.
WatchersAreReleased ==
  /\ \A c \in Clients : stream[c] = "Found" ~> stream[c] \in {"Ended", "Away", "NotFound"}
  /\ \A o \in Operations : active = o ~> active # o
=============================================================================
