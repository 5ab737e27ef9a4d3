--------------------------- MODULE DailyService ---------------------------
(***************************************************************************)
(* The resident service: the Web API and the daily scheduler over one      *)
(* OperationSupervisor, the durable journal of what was executed, and the  *)
(* lease that keeps other processes (a second service, the command line)   *)
(* out of the workspace.                                                   *)
(*                                                                         *)
(* The scheduler's thread claims a (kind, date) slot in the database,      *)
(* starts the operation and records the dispatch, each in a transaction of *)
(* its own; API requests start operations in between.  The process may die *)
(* at any point: what the supervisor holds is then gone, the database and  *)
(* what the operation did to the workspace are not.                        *)
(*                                                                         *)
(* A clock, a schedule's time and its UTC offset appear as the calendar    *)
(* date of each kind of work and whether its time has passed on it.        *)
(* Identities restart from a fresh random seed with every process, so no   *)
(* identity is ever given out twice.                                       *)
(***************************************************************************)
EXTENDS OperationSupervisor

CONSTANTS
  Order,            \* the kinds of scheduled work, in the order tick visits them
  MaxDay,           \* bound: the last date
  MaxRequests,      \* bound: operations started through the API
  MaxEdits,         \* bound: changes of the schedules
  MaxCrashes,       \* bound: deaths of the service
  MaxStorageFaults  \* bound: failed transactions

ASSUME ServiceAssumption ==
  /\ Order \in Seq({Order[i] : i \in DOMAIN Order})
  /\ MaxDay \in Nat
  /\ {MaxRequests, MaxEdits, MaxCrashes, MaxStorageFaults} \subseteq Nat

Kinds == {Order[i] : i \in DOMAIN Order}
Slots == Kinds \X (0 .. MaxDay)

\* What Schedule::slot makes of a row: a date, and whether its time has passed.
Rows == [slot : Slots, due : BOOLEAN]

VARIABLES
  \* Processes.
  owner,      \* who holds the lease
  service,    \* the life of the service process
  \* Durable.
  slots,
  history,    \* per operation: the state of its row
  \* The clock and the schedules.
  today,      \* per kind: the date at its UTC offset
  due,        \* kinds that are enabled and whose time has passed today
  \* The scheduler's thread.
  tick,
  plan,       \* rows this tick has still to look at
  \* The application under JournalExecutor.
  inner,      \* per operation: whether it was entered and how it returned
  outcome,    \* per operation: what JournalExecutor returned to the supervisor
  scheduled,  \* history: the operations started for each slot
  bounds

database == <<slots, history>>
clock    == <<today, due>>
thread   == <<tick, plan>>
serving  == <<owner, service, database, clock, thread, inner, outcome, scheduled, bounds>>
allVars  == <<supervision, serving>>

\* Use up one unit of the bound b.
Spend(b, limit) == bounds[b] < limit /\ bounds' = [bounds EXCEPT ![b] = @ + 1]

StorageFault == Spend("storage", MaxStorageFaults)

Up == service \in {"Up", "Draining"}

----------------------------------------------------------------------------
(* The process and its lease *)

\* Only the holder of the exclusive transaction goes on.
Acquire ==
  /\ service = "Down"
  /\ owner = "Nobody"
  /\ owner' = "Service"
  /\ service' = "Leased"
  /\ UNCHANGED <<supervision, database, clock, thread, inner, outcome, scheduled, bounds>>

\* Mutant: a claim of the last process is dropped with it.
OpenDropsClaims ==
  /\ service = "Leased"
  /\ service' = "Up"
  /\ history' = [o \in Operations |->
                  IF history[o] = "running" THEN "interrupted" ELSE history[o]]
  /\ slots' = [s \in Slots |-> IF slots[s] = "claimed" THEN "None" ELSE slots[s]]
  /\ UNCHANGED <<supervision, owner, clock, thread, inner, outcome, scheduled, bounds>>

\* ServiceStore::open: what was under way when the last process ended is marked,
\* and never taken up again.
Open ==
  /\ service = "Leased"
  /\ service' = "Up"
  /\ history' = [o \in Operations |->
                  IF history[o] = "running" THEN "interrupted" ELSE history[o]]
  /\ slots' = [s \in Slots |-> IF slots[s] = "claimed" THEN "interrupted" ELSE slots[s]]
  /\ UNCHANGED <<supervision, owner, clock, thread, inner, outcome, scheduled, bounds>>

\* Mutant: the lease is not released with the process.
ProcessEndsOwning ==
  /\ service' = "Down"
  /\ active' = NoOperation
  /\ retained' = {}
  /\ mutating' = [o \in Operations |-> FALSE]
  /\ state' = [o \in Operations |-> "None"]
  /\ progress' = [o \in Operations |-> 0]
  /\ worker' = [o \in Operations |-> "None"]
  /\ outcome' = [o \in Operations |-> "None"]
  /\ tick' = "Idle"
  /\ plan' = <<>>
  /\ inner' = [o \in Operations |-> IF inner[o] = "Running" THEN "Lost" ELSE inner[o]]
  /\ UNCHANGED <<owner, nextId, clients, drops, database, clock, scheduled>>

\* Everything in memory is gone; the lease goes with the process.
ProcessEnds ==
  /\ owner' = "Nobody"
  /\ service' = "Down"
  /\ active' = NoOperation
  /\ retained' = {}
  /\ mutating' = [o \in Operations |-> FALSE]
  /\ state' = [o \in Operations |-> "None"]
  /\ progress' = [o \in Operations |-> 0]
  /\ worker' = [o \in Operations |-> "None"]
  /\ outcome' = [o \in Operations |-> "None"]
  /\ tick' = "Idle"
  /\ plan' = <<>>
  /\ inner' = [o \in Operations |-> IF inner[o] = "Running" THEN "Lost" ELSE inner[o]]
  /\ UNCHANGED <<nextId, clients, drops, database, clock, scheduled>>

Crash ==
  /\ owner = "Service"
  /\ Spend("crashes", MaxCrashes)
  /\ ProcessEnds

\* SIGTERM: no further tick, no further request ...
Shutdown ==
  /\ service = "Up"
  /\ service' = "Draining"
  /\ UNCHANGED <<supervision, owner, database, clock, thread, inner, outcome, scheduled, bounds>>

\* ... and the lease is given up when the scheduler's thread and every accepted
\* operation are done.
Exit ==
  /\ service = "Draining"
  /\ tick = "Idle"
  /\ \A o \in Operations : worker[o] \in {"None", "Finished"}
  /\ ProcessEnds
  /\ UNCHANGED bounds

\* Mutant: the command line does not ask for the lease.
CommandStartsAnyway ==
  /\ owner' = "Command"
  /\ UNCHANGED <<supervision, service, database, clock, thread, inner, outcome, scheduled, bounds>>

\* A command line that mutates takes the lease for as long as it runs.
CommandStarts ==
  /\ owner = "Nobody"
  /\ owner' = "Command"
  /\ UNCHANGED <<supervision, service, database, clock, thread, inner, outcome, scheduled, bounds>>

CommandEnds ==
  /\ owner = "Command"
  /\ owner' = "Nobody"
  /\ UNCHANGED <<supervision, service, database, clock, thread, inner, outcome, scheduled, bounds>>

----------------------------------------------------------------------------
(* Time and schedules *)

NewDay ==
  /\ \A k \in Kinds : today[k] < MaxDay
  /\ today' = [k \in Kinds |-> today[k] + 1]
  /\ due' = {}
  /\ UNCHANGED <<supervision, owner, service, database, thread, inner, outcome, scheduled, bounds>>

TimePasses(k) ==
  /\ k \notin due
  /\ due' = due \cup {k}
  /\ UNCHANGED <<supervision, owner, service, database, today, thread, inner, outcome, scheduled, bounds>>

\* save_schedule: another time, offset or switch, so perhaps another date, and due
\* or not.
SaveSchedule(k, d, isDue) ==
  /\ service = "Up"
  /\ d \in {today[k] - 1, today[k], today[k] + 1} \cap 0 .. MaxDay
  /\ Spend("edits", MaxEdits)
  /\ today' = [today EXCEPT ![k] = d]
  /\ due' = IF isDue THEN due \cup {k} ELSE due \ {k}
  /\ UNCHANGED <<supervision, owner, service, database, thread, inner, outcome, scheduled>>

----------------------------------------------------------------------------
(* tick *)

\* Nothing is done while the workspace is held; else the schedules are read once,
\* and the clock.
TickBegins ==
  /\ service = "Up"
  /\ tick = "Idle"
  /\ active = NoOperation
  /\ tick' = "Visit"
  /\ plan' = [i \in DOMAIN Order |->
                [slot |-> <<Order[i], today[Order[i]]>>, due |-> Order[i] \in due]]
  /\ UNCHANGED <<supervision, owner, service, database, clock, inner, outcome, scheduled, bounds>>

TickEnds == tick' = "Idle" /\ plan' = <<>>

\* The slot this tick is at.
Visited == Head(plan).slot

\* INSERT OR IGNORE: a slot that has a row is left alone.
Claim ==
  /\ tick = "Visit"
  /\ \/ /\ plan = <<>>
        /\ TickEnds
        /\ UNCHANGED <<slots, bounds>>
     \/ /\ plan # <<>>
        /\ ~ Head(plan).due \/ slots[Visited] # "None"
        /\ plan' = Tail(plan)
        /\ UNCHANGED <<tick, slots, bounds>>
     \/ /\ plan # <<>>
        /\ Head(plan).due /\ slots[Visited] = "None"
        /\ slots' = [slots EXCEPT ![Visited] = "claimed"]
        /\ tick' = "Claimed"
        /\ UNCHANGED <<plan, bounds>>
     \/ /\ plan # <<>>
        /\ Head(plan).due
        /\ StorageFault /\ TickEnds /\ UNCHANGED slots
  /\ UNCHANGED <<supervision, owner, service, history, clock, inner, outcome, scheduled>>

\* supervisor.start: by now somebody else may have taken the workspace.
TickStarts ==
  /\ tick = "Claimed"
  /\ \/ /\ Start(TRUE)
        /\ scheduled' = [scheduled EXCEPT ![Visited] = @ \cup {nextId}]
        /\ tick' = "Started"
     \/ /\ Busy
        /\ tick' = "Refused"
        /\ UNCHANGED <<supervision, scheduled>>
  /\ UNCHANGED <<owner, service, database, clock, plan, inner, outcome, bounds>>

\* Mutant: a refused claim is not released.
TickRecordsStarts ==
  /\ tick \in {"Started", "Refused"}
  /\ slots' = IF tick = "Started" THEN [slots EXCEPT ![Visited] = "dispatched"] ELSE slots
  /\ TickEnds
  /\ UNCHANGED <<supervision, owner, service, history, clock, inner, outcome, scheduled, bounds>>

\* dispatched, after a start; release, after a refusal.  A transaction that fails
\* ends the tick.
TickRecords ==
  /\ tick \in {"Started", "Refused"}
  /\ \/ /\ slots' = [slots EXCEPT ![Visited] =
                      IF tick = "Started" THEN "dispatched"
                      ELSE IF @ = "claimed" THEN "None" ELSE @]
        /\ UNCHANGED bounds
     \/ StorageFault /\ UNCHANGED slots
  /\ TickEnds
  /\ UNCHANGED <<supervision, owner, service, history, clock, inner, outcome, scheduled>>

----------------------------------------------------------------------------
(* Operations *)

\* An API request for any operation; the identity of the last one is kept for the
\* scheduler's slots.
Request(isMutating) ==
  /\ service = "Up"
  /\ Spend("requests", MaxRequests)
  /\ Start(isMutating)
  /\ UNCHANGED <<owner, service, database, clock, thread, inner, outcome, scheduled>>

\* What the supervisor's worker does around the executor.
Supervise(o) ==
  /\ \/ Run(o)
     \/ outcome[o] # "None" /\ Release(o)
     \/ Finish(o, outcome[o])
  /\ UNCHANGED serving

\* The call the worker made comes back with a result.
Return(o, result) ==
  /\ worker[o] = "Running"
  /\ outcome[o] = "None"
  /\ outcome' = [outcome EXCEPT ![o] = result]
  /\ UNCHANGED supervision

\* JournalExecutor: no row, no execution.
JournalBegins(o) ==
  /\ worker[o] = "Running"
  /\ inner[o] = "None"
  /\ outcome[o] = "None"
  /\ \/ /\ history' = [history EXCEPT ![o] = "running"]
        /\ inner' = [inner EXCEPT ![o] = "Running"]
        /\ UNCHANGED <<supervision, outcome, bounds>>
     \/ StorageFault /\ Return(o, "Failed") /\ UNCHANGED <<history, inner>>
  /\ UNCHANGED <<owner, service, slots, clock, thread, scheduled>>

\* The application returns, or panics: a progress line that cannot be journaled is
\* a panic too.
ApplicationReturns(o, result) ==
  /\ inner[o] = "Running"
  /\ inner' = [inner EXCEPT ![o] = result]
  /\ UNCHANGED <<supervision, owner, service, database, clock, thread, outcome, scheduled, bounds>>

\* Mutant: the row says the call was made, not how it ended.
JournalFinishesAlike(o) ==
  /\ inner[o] \in Terminal
  /\ history' = [history EXCEPT ![o] = "succeeded"]
  /\ Return(o, inner[o])
  /\ UNCHANGED <<owner, service, slots, clock, thread, inner, scheduled, bounds>>

JournalFinishes(o) ==
  /\ inner[o] \in Terminal
  /\ \/ /\ history' = [history EXCEPT ![o] =
                        IF inner[o] = "Succeeded" THEN "succeeded" ELSE "failed"]
        /\ Return(o, inner[o])
        /\ UNCHANGED bounds
     \/ StorageFault /\ Return(o, "Failed") /\ UNCHANGED history
  /\ UNCHANGED <<owner, service, slots, clock, thread, inner, scheduled>>

----------------------------------------------------------------------------
(* The specification *)

ServiceInit ==
  /\ Init
  /\ owner = "Nobody"
  /\ service = "Down"
  /\ slots = [s \in Slots |-> "None"]
  /\ history = [o \in Operations |-> "None"]
  /\ today = [k \in Kinds |-> 0]
  /\ due = {}
  /\ tick = "Idle"
  /\ plan = <<>>
  /\ inner = [o \in Operations |-> "None"]
  /\ outcome = [o \in Operations |-> "None"]
  /\ scheduled = [s \in Slots |-> {}]
  /\ bounds = [requests |-> 0, edits |-> 0, crashes |-> 0, storage |-> 0]

Schedule == TickBegins \/ Claim \/ TickStarts \/ TickRecords

Execute(o) ==
  \/ Supervise(o)
  \/ JournalBegins(o)
  \/ \E result \in Terminal : ApplicationReturns(o, result)
  \/ JournalFinishes(o)

ServiceNext ==
  \/ Acquire \/ Open \/ Crash \/ Shutdown \/ Exit
  \/ CommandStarts \/ CommandEnds
  \/ NewDay
  \/ \E k \in Kinds : TimePasses(k)
  \/ \E k \in Kinds, d \in 0 .. MaxDay, isDue \in BOOLEAN : SaveSchedule(k, d, isDue)
  \/ Schedule
  \/ \E isMutating \in BOOLEAN : Request(isMutating)
  \/ \E o \in Operations : Execute(o)

ServiceSpec == ServiceInit /\ [][ServiceNext]_allVars

\* The scheduler looks every ten seconds, threads go on, a use case comes to an
\* end, and a service that holds the lease opens its database.
FairService ==
  /\ ServiceSpec
  /\ WF_allVars(Schedule)
  /\ WF_allVars(Open)
  /\ \A o \in Operations : WF_allVars(Execute(o))

----------------------------------------------------------------------------
(* Properties *)

\* The types of the variables of this module.
ServiceTypeOK ==
  /\ owner \in {"Nobody", "Service", "Command"}
  /\ service \in {"Down", "Leased", "Up", "Draining"}
  /\ service = "Down" <=> owner # "Service"
  /\ slots \in [Slots -> {"None", "claimed", "dispatched", "interrupted"}]
  /\ history \in [Operations -> {"None", "running", "succeeded", "failed", "interrupted"}]
  /\ today \in [Kinds -> 0 .. MaxDay]
  /\ due \subseteq Kinds
  /\ tick \in {"Idle", "Visit", "Claimed", "Started", "Refused"}
  /\ plan \in Seq(Rows)
  /\ inner \in [Operations -> {"None", "Running", "Lost"} \cup Terminal]
  /\ outcome \in [Operations -> {"None"} \cup Terminal]
  /\ scheduled \in [Slots -> SUBSET Operations]
  /\ bounds \in [requests : 0 .. MaxRequests, edits : 0 .. MaxEdits,
                 crashes : 0 .. MaxCrashes, storage : 0 .. MaxStorageFaults]

\* Whatever is edited, refused, lost or restarted, the scheduler starts the work of
\* one kind at most once for one of its dates.
AtMostOncePerDate ==
  \A s \in Slots : Cardinality(scheduled[s]) <= 1

Mutates(o) == mutating[o] /\ inner[o] = "Running"

\* No two processes have a mutating operation in the workspace, and no two
\* operations of the service are in it together; a database is never opened while
\* an operation it holds as running really runs.
WorkspaceIsExclusive ==
  /\ (\E o \in Operations : worker[o] \notin {"None", "Finished"}) => owner = "Service"
  /\ \A o, p \in Operations : Mutates(o) /\ Mutates(p) => o = p
  /\ service = "Leased" => \A o \in Operations : inner[o] # "Running"

\* The journal never says of an execution what did not happen: one it calls finished
\* returned that way, and one it calls interrupted is not under way.
JournalIsTruthful ==
  \A o \in Operations :
    /\ history[o] = "succeeded" => inner[o] = "Succeeded"
    /\ history[o] = "failed" => inner[o] = "Failed"
    /\ history[o] = "interrupted" => inner[o] # "Running"
    /\ inner[o] = "Running" => history[o] = "running"

\* Work whose time has come is started that day, or the service was stopped, the
\* schedule changed or the day ended before.
DueWorkIsStarted ==
  \A s \in Slots :
    service = "Up" /\ s[1] \in due /\ today[s[1]] = s[2]
      ~> \/ scheduled[s] # {} \/ slots[s] = "interrupted"
         \/ service # "Up" \/ s[1] \notin due \/ today[s[1]] # s[2]
=============================================================================
