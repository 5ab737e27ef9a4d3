------------------------------ MODULE Console ------------------------------
(***************************************************************************)
(* Console: one browser page that starts operations and follows the one it *)
(* remembers, over the web API, against the OperationSupervisor.           *)
(*                                                                         *)
(* The page keeps the identity of its operation in the session storage and *)
(* shows a view of it.  A call of `settle` reads the snapshot, the record; *)
(* while that is not terminal the page watches an event stream, the        *)
(* notification, and settles again when the stream ends.  Commands,        *)
(* snapshots and streams are requests of their own and overlap.  A session *)
(* may expire, and the server may be restarted: it then knows neither the  *)
(* session nor any operation, and never gives an identity twice.           *)
(*                                                                         *)
(* A client of the supervisor is an EventSource of the page.  The user is  *)
(* slower than a request: a command is issued, or the user logs in, when   *)
(* no earlier request of the page is unanswered.  (The code only disables  *)
(* a button until its `run` returns.)  An answer that carries nothing that *)
(* could be stale (401, busy) arrives at once.                             *)
(***************************************************************************)
EXTENDS OperationSupervisor

CONSTANT NoClient

ASSUME ConsoleAssumption == NoClient \notin Clients

VARIABLES
  \* The server.
  session,     \* the page's cookie is a session the server knows
  \* The page.
  page,        \* "Console" or "Login"
  stored,      \* sessionStorage: the operation to pick up again
  view,        \* active: the snapshot on the screen
  calls,       \* calls of settle that wait for their snapshot
  command,     \* the POST in flight
  open,        \* EventSources that are not closed
  current,     \* watch.current
  stranded     \* history: operations whose last settle failed

pageVars == <<page, stored, view, calls, command, open, current, stranded>>
vars     == <<supervision, session, pageVars>>

NoView == [op |-> NoOperation, state |-> "None", lines |-> <<>>]
NoCommand == [phase |-> "Idle", op |-> NoOperation]

Asked(o) == [op |-> o, answer |-> "Asked", lines |-> 0, resumes |-> FALSE]

\* The call of a mount, which forgets the operation when it fails.
Resumed(o) == [op |-> o, answer |-> "Asked", lines |-> 0, resumes |-> TRUE]

\* These calls failed.
Forget(failed) == stored' = IF \E k \in failed : k.resumes THEN NoOperation ELSE stored

\* An interruption: bounded together with the lost connections.
Interrupt == drops < MaxDrops /\ drops' = drops + 1

\* These sources are closed, and their streams are over for the server as well.
HangUp(sources) ==
  LET over == {c \in Clients \cap sources : stream[c] # "Ended"}
      Reset(f, value) == [c \in Clients |-> IF c \in over THEN value ELSE f[c]]
  IN /\ stream' = Reset(stream, "Away")
     /\ channel' = Reset(channel, <<>>)
     /\ watching' = Reset(watching, NoOperation)
     /\ after' = Reset(after, 0)
     /\ got' = Reset(got, <<>>)

\* Mutant: an earlier watch is forgotten and goes on.
AskForAndGoOn(o) ==
  /\ calls' = calls \cup {Asked(o)}
  /\ current' = NoClient
  /\ stranded' = stranded \ {o}
  /\ UNCHANGED open

\* settle, up to its await: stop watching, ask for the snapshot.
AskFor(o) ==
  /\ calls' = calls \cup {Asked(o)}
  /\ open' = open \ {current}
  /\ current' = NoClient
  /\ stranded' = stranded \ {o}

\* The provider is mounted: pick up where this browser left off.
Mount ==
  /\ page' = "Console"
  /\ view' = NoView
  /\ calls' = IF stored = NoOperation THEN {} ELSE {Resumed(stored)}
  /\ open' = {}
  /\ current' = NoClient
  /\ stranded' = {}

\* A request was answered 401: the provider is unmounted.
Unmount ==
  /\ page' = "Login"
  /\ view' = NoView
  /\ open' = open \ {current}
  /\ current' = NoClient
  /\ HangUp({current})

----------------------------------------------------------------------------
(* Commands: the starter of run *)

SendCommand ==
  /\ page = "Console" /\ command = NoCommand /\ calls = {}
  /\ nextId <= MaxOperations
  /\ command' = [NoCommand EXCEPT !.phase = "Sent"]
  /\ UNCHANGED <<supervision, session, page, stored, view, calls, open, current, stranded>>

\* accept: the supervisor starts it, or the workspace is busy.
ServeCommand ==
  /\ command.phase = "Sent"
  /\ session
  /\ \/ /\ Busy
        /\ command' = NoCommand
        /\ UNCHANGED supervision
     \/ /\ \E isMutating \in BOOLEAN : Start(isMutating)
        /\ command' = [phase |-> "Accepted", op |-> nextId]
  /\ UNCHANGED <<session, page, stored, view, calls, open, current, stranded>>

\* The server's guard answers 401, and the page leaves for the login.
CommandUnauthorised ==
  /\ command.phase = "Sent"
  /\ ~ session
  /\ command' = NoCommand
  /\ Unmount
  /\ UNCHANGED <<nextId, active, retained, records, worker, drops, session,
                 stored, calls, stranded>>

\* The identity is remembered, then settled.
CommandAccepted ==
  /\ command.phase = "Accepted"
  /\ command' = NoCommand
  /\ stored' = command.op
  /\ AskFor(command.op)
  /\ HangUp({current})
  /\ UNCHANGED <<nextId, active, retained, records, worker, drops, session, page, view>>

----------------------------------------------------------------------------
(* settle, from its await on *)

\* The handler of GET /operations/:id.
Snapshot(k) ==
  IF k.op \in retained
  THEN [k EXCEPT !.answer = state[k.op], !.lines = progress[k.op]]
  ELSE [k EXCEPT !.answer = "Unknown"]

ServeSnapshot(k) ==
  /\ k.answer = "Asked"
  /\ session
  /\ calls' = (calls \ {k}) \cup {Snapshot(k)}
  /\ UNCHANGED <<supervision, session, page, stored, view, command, open, current, stranded>>

SnapshotUnauthorised(k) ==
  /\ k.answer = "Asked"
  /\ ~ session
  /\ calls' = calls \ {k}
  /\ Forget({k})
  /\ Unmount
  /\ UNCHANGED <<nextId, active, retained, records, worker, drops, session,
                 command, stranded>>

\* setActive(snapshot): what a mounted page shows.
Shown(k) ==
  IF page = "Console"
  THEN [op |-> k.op, state |-> k.answer, lines |-> Lines(0, k.lines)]
  ELSE view

SnapshotTerminal(k) ==
  /\ k.answer \in Terminal
  /\ calls' = calls \ {k}
  /\ view' = Shown(k)
  /\ UNCHANGED <<supervision, session, page, stored, command, open, current, stranded>>

\* The operation goes on: a new EventSource, which has seen nothing yet.
SnapshotRunning(k) ==
  /\ k.answer \in {"Queued", "Running"}
  /\ calls' = calls \ {k}
  /\ view' = Shown(k)
  /\ IF page = "Console"
     THEN \E c \in Clients \ open :
            /\ open' = open \cup {c}
            /\ current' = c
            /\ stream' = [stream EXCEPT ![c] = "New"]
            /\ watching' = [watching EXCEPT ![c] = k.op]
            /\ after' = [after EXCEPT ![c] = 0]
            /\ got' = [got EXCEPT ![c] = <<>>]
            /\ channel' = [channel EXCEPT ![c] = <<>>]
     ELSE UNCHANGED <<open, current, clients>>
  /\ UNCHANGED <<nextId, active, retained, records, worker, drops,
                 session, page, stored, command, stranded>>

\* The server does not know it (any more): no failure of the work.
SnapshotUnknown(k) ==
  /\ k.answer = "Unknown"
  /\ calls' = calls \ {k}
  /\ stored' = NoOperation
  /\ view' = NoView
  /\ UNCHANGED <<supervision, session, page, command, open, current, stranded>>

Settled(k) ==
  \/ SnapshotTerminal(k)
  \/ SnapshotRunning(k)
  \/ SnapshotUnknown(k)

----------------------------------------------------------------------------
(* watchOperation *)

\* The source is CLOSED for good: onInterrupted.
Interrupted(c) ==
  /\ calls' = calls \cup {Asked(watching[c])}
  /\ open' = open \ {c, current}
  /\ current' = NoClient
  /\ stranded' = stranded \ {watching[c]}

\* Mutant: a source that was closed is waited for.
ConnectOrWait(c) ==
  /\ c \in open
  /\ session
  /\ LookUp(c, watching[c])
  /\ UNCHANGED <<session, pageVars>>

\* A source asks for its events, the first time or with its Last-Event-ID; an
\* answer that is no stream closes it.
Connect(c) ==
  /\ c \in open
  /\ \/ /\ session
        /\ LookUp(c, watching[c])
        /\ IF watching[c] \in retained
           THEN UNCHANGED <<calls, open, current, stranded>>
           ELSE Interrupted(c)
     \/ /\ ~ session
        /\ stream[c] \in {"New", "Away"}
        /\ Interrupted(c)
        /\ UNCHANGED supervision
  /\ UNCHANGED <<session, page, stored, view, command>>

\* Mutant: appendProgress without the look for the same sequence.
AppendedTwice(o, n) ==
  IF view.op # o THEN view
  ELSE [view EXCEPT !.state = IF @ = "Queued" THEN "Running" ELSE @,
                    !.lines = Append(@, n)]

\* appendProgress.
Appended(o, n) ==
  IF view.op # o \/ \E i \in DOMAIN view.lines : view.lines[i] = n
  THEN view
  ELSE [view EXCEPT !.state = IF @ = "Queued" THEN "Running" ELSE @,
                    !.lines = Append(@, n)]

Hear(c) ==
  /\ c \in open
  /\ Receive(c)
  /\ IF Head(channel[c]) = FinishedEvent
     THEN Interrupted(c) /\ UNCHANGED view
     ELSE /\ view' = Appended(watching[c], Head(channel[c]))
          /\ UNCHANGED <<calls, open, current, stranded>>
  /\ UNCHANGED <<session, page, stored, command>>

----------------------------------------------------------------------------
(* Sessions, and what interrupts the page *)

\* A page that polls is answered 401.
Poll ==
  /\ page = "Console"
  /\ ~ session
  /\ Unmount
  /\ UNCHANGED <<nextId, active, retained, records, worker, drops, session,
                 stored, calls, command, stranded>>

LogIn ==
  /\ page = "Login" /\ command = NoCommand /\ calls = {}
  /\ session' = TRUE
  /\ Mount
  /\ UNCHANGED <<supervision, stored, command>>

Expire ==
  /\ session
  /\ Interrupt
  /\ session' = FALSE
  /\ UNCHANGED <<nextId, active, retained, records, worker, clients, pageVars>>

\* The document is loaded again; what it had asked for is forgotten.
Reload ==
  /\ page = "Console"
  /\ Interrupt
  /\ command' = NoCommand
  /\ HangUp(open)
  /\ IF session
     THEN Mount
     ELSE /\ page' = "Login"
          /\ view' = NoView
          /\ calls' = {}
          /\ open' = {}
          /\ current' = NoClient
          /\ stranded' = {}
  /\ UNCHANGED <<nextId, active, retained, records, worker, session, stored>>

\* A request or its answer is lost: settle throws, and nothing asks again.
LoseSnapshot(k) ==
  /\ Interrupt
  /\ calls' = calls \ {k}
  /\ Forget({k})
  /\ stranded' = stranded \cup {k.op}
  /\ UNCHANGED <<nextId, active, retained, records, worker, clients,
                 session, page, view, command, open, current>>

LoseCommand ==
  /\ command # NoCommand
  /\ Interrupt
  /\ command' = NoCommand
  /\ UNCHANGED <<nextId, active, retained, records, worker, clients,
                 session, page, stored, view, calls, open, current, stranded>>

\* The process dies with its threads, its records, its sessions and its
\* connections, and a new one starts.  What had ended by then is kept as history.
Restart ==
  LET Ended(f, value) ==
        [o \in Operations |-> IF worker[o] = "Finished" THEN f[o] ELSE value]
  IN /\ Interrupt
     /\ session' = FALSE
     /\ active' = NoOperation
     /\ retained' = {}
     /\ worker' = Ended(worker, "None")
     /\ mutating' = Ended(mutating, FALSE)
     /\ state' = Ended(state, "None")
     /\ progress' = Ended(progress, 0)
     /\ stream' = [c \in Clients |->
                     IF stream[c] \in {"Found", "Attached"} THEN "Away" ELSE stream[c]]
     /\ channel' = [c \in Clients |-> <<>>]
     /\ calls' = {k \in calls : k.answer # "Asked"}
     /\ Forget(calls \ calls')
     /\ stranded' = stranded \cup {k.op : k \in calls \ calls'}
     /\ command' = IF command.phase = "Sent" THEN NoCommand ELSE command
     /\ UNCHANGED <<nextId, watching, after, got, page, view, open, current>>

\* The scheduler starts publications and backups.
SchedulerStarts ==
  /\ nextId < MaxOperations \/ command.phase # "Sent"
  /\ Start(TRUE)
  /\ UNCHANGED <<session, pageVars>>

----------------------------------------------------------------------------
(* The specification *)

ConsoleInit ==
  /\ Init
  /\ session = TRUE
  /\ page = "Console"
  /\ stored = NoOperation
  /\ view = NoView
  /\ calls = {}
  /\ command = NoCommand
  /\ open = {}
  /\ current = NoClient
  /\ stranded = {}

ServerWorks(o) == Work(o) /\ UNCHANGED <<session, pageVars>>

ServerAttaches(c) == Attach(c) /\ UNCHANGED <<session, pageVars>>

ConnectionDrops(c) == c \in open /\ Drop(c) /\ UNCHANGED <<session, pageVars>>

Follow(c) == Connect(c) \/ ServerAttaches(c) \/ Hear(c)

RunCommand == ServeCommand \/ CommandUnauthorised \/ CommandAccepted

Settle == \E k \in calls : ServeSnapshot(k) \/ SnapshotUnauthorised(k) \/ Settled(k)

ConsoleNext ==
  \/ SendCommand
  \/ RunCommand
  \/ Settle
  \/ \E k \in calls : LoseSnapshot(k)
  \/ \E c \in Clients : Follow(c) \/ ConnectionDrops(c)
  \/ \E o \in Operations : ServerWorks(o)
  \/ SchedulerStarts
  \/ LoseCommand
  \/ Poll
  \/ LogIn
  \/ Expire
  \/ Reload
  \/ Restart

\* Threads go on and use cases end, streams connect and are read, a snapshot that
\* was asked for is answered or lost; nobody has to issue a command, to log in, to
\* poll or to interrupt anything.
ConsoleSpec ==
  /\ ConsoleInit /\ [][ConsoleNext]_vars
  /\ \A o \in Operations : WF_vars(ServerWorks(o))
  /\ \A c \in Clients : WF_vars(Follow(c))
  /\ WF_vars(Settle)

----------------------------------------------------------------------------
(* Properties *)

\* The types of the variables.
ConsoleTypeOK ==
  /\ TypeOK
  /\ session \in BOOLEAN
  /\ page \in {"Console", "Login"}
  /\ stored \in Operations \cup {NoOperation}
  /\ view \in [op: Operations \cup {NoOperation},
               state: {"None", "Queued", "Running"} \cup Terminal, lines: Seq(Nat)]
  /\ calls \subseteq [op: Operations,
                     answer: {"Asked", "Unknown", "Queued", "Running"} \cup Terminal,
                     lines: 0 .. MaxProgress, resumes: BOOLEAN]
  /\ command \in [phase: {"Idle", "Sent", "Accepted"}, op: Operations \cup {NoOperation}]
  /\ open \subseteq Clients
  /\ current \in Clients \cup {NoClient}
  /\ stranded \subseteq Operations

\* However snapshots, streams, commands and restarts overlap, the lines on the
\* screen are the operation's first lines in order; an operation is shown as over
\* only with the end it had and every line of it; and the page reads one stream
\* at most.
ViewIsHistory ==
  /\ \A i \in DOMAIN view.lines : view.lines[i] = i
  /\ view.state \in Terminal =>
       /\ view.state = state[view.op]
       /\ Len(view.lines) = progress[view.op]
  /\ open \subseteq {current}

\* An operation the page asks about, or shows as going on, is shown with its end in
\* time, or replaced by a newer one, or forgotten because the server does not know
\* it: unless the session is over or its snapshot was lost, the page is never left
\* showing work that ended as work that goes on.
ViewCatchesUp ==
  \A o \in Operations :
    \/ \E k \in calls : k.op = o
    \/ view.op = o /\ view.state \notin Terminal
    ~> \/ stored # o
       \/ view.op = o /\ view.state \in Terminal
       \/ o \in stranded
       \/ page = "Login"
=============================================================================
