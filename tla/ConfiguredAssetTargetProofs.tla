--------------------- MODULE ConfiguredAssetTargetProofs ---------------------
(***************************************************************************)
(* The asset target of a workspace, whichever is configured, is one the    *)
(* engine can rely on, for every number of machines, assets, chunks,       *)
(* failures and things strangers do.  First the bucket, alone; then the    *)
(* directory, whose proofs are those of FilesystemAssetTargetProofs, as    *)
(* the other choice.                                                       *)
(***************************************************************************)
EXTENDS ConfiguredAssetTarget, TLAPS

----------------------------------------------------------------------------
(* The inductive invariant *)

\* A PUT that may still reach the store was signed for the frozen bytes, and only
\* creates.
Signed(r) == r.digest = Frozen(r.asset) /\ r.createOnly

Waiting == {"Sent", "Accepted", "Refused"}

SignedOK(m) == pc[m] \in Waiting => Signed(put[m])

SignedInv ==
  /\ \A r \in late : Signed(r)
  /\ \A m \in Machines : SignedOK(m)

\* A spool that was begun holds what was written to it, and perhaps more: what a
\* process that died had left in it.  So a body as long as the asset can be read.
SpoolOK(m) ==
  /\ pc[m] \in {"Idle", "Head", "Get", "OpenHead", "OpenGet"} => attempt[m].sent = 0
  /\ pc[m] = "Stream" =>
       LET n == attempt[m].spool
       IN /\ attempt[m].sent > 0 => n \in DOMAIN spools[m]
          /\ n \in DOMAIN spools[m] => Len(spools[m][n]) >= attempt[m].sent

SpoolInv ==
  /\ spools = [m \in Machines |-> spools[m]]
  /\ \A m \in Machines : SpoolOK(m)

IInv == TypeOK /\ SignedInv /\ SpoolInv

----------------------------------------------------------------------------
(* The bytes of an asset *)

LEMMA LengthType == \A a \in Assets : Length[a] \in Nat
BY BucketAssumption

\* The first n chunks of an asset.
LEMMA FrozenType ==
  ASSUME NEW a \in Assets
  PROVE  Frozen(a) \in Seq(Chunk)
<1>1. \A k \in 1 .. Length[a] : <<a, k>> \in Chunk
  BY LengthType DEF Chunk
<1>2. Frozen(a) \in [1 .. Length[a] -> Chunk]
  BY <1>1 DEF Frozen
<1> QED
  BY <1>2, LengthType

\* A body is read from a file that is long enough.
LEMMA BodyType ==
  ASSUME NEW a \in Assets, NEW file \in Seq(Chunk), Len(file) >= Length[a]
  PROVE  Body(a, file) \in Seq(Chunk)
BY LengthType DEF Body

LEMMA StrangeType ==
  ASSUME NEW a \in Assets, NEW o \in Strange(a)
  PROVE  o \in Objects /\ o.by = "stranger"
<1>1. <<<<NoAsset, 0>>>> \in Seq(Chunk)
  BY DEF Chunk
<1>2. \/ o = [bytes |-> <<<<NoAsset, 0>>>>, type |-> "frozen", by |-> "stranger"]
      \/ o = [bytes |-> Frozen(a), type |-> "other", by |-> "stranger"]
      \/ o = [bytes |-> Frozen(a), type |-> "none", by |-> "stranger"]
  BY DEF Strange
<1>3. PICK bytes \in Seq(Chunk), type \in Types :
        o = [bytes |-> bytes, type |-> type, by |-> "stranger"]
  BY <1>1, <1>2, FrozenType DEF Types
<1>4. [bytes |-> bytes, type |-> type, by |-> "stranger"] \in Objects
  BY DEF Objects
<1> QED
  BY <1>3, <1>4

----------------------------------------------------------------------------
(* What one machine does *)

\* TypeOK says this of each machine.
MachineOK(m) ==
  /\ DOMAIN spools[m] \subseteq Nat \ {0}
  /\ \A n \in DOMAIN spools[m] : spools[m][n] \in Seq(Chunk)
  /\ pc[m] # "Idle" => Key(m) # NoAsset
  /\ pc[m] \in Waiting => put[m] \in Puts /\ put[m].asset = Key(m)
  /\ pc[m] = "Stream" => attempt[m].spool # 0 /\ attempt[m].sent <= Length[Key(m)]

PhaseSet == {"Idle", "Head", "Get", "OpenHead", "OpenGet", "Stream", "Sent",
             "Accepted", "Refused", "Placed"}

SharedOK ==
  /\ bucket \in [Assets -> Objects \cup {Missing}]
  /\ late \subseteq Puts
  /\ \A r \in late : Signed(r)
  /\ sequence \in [Machines -> Nat \ {0}]
  /\ pc \in [Machines -> PhaseSet]
  /\ attempt \in [Machines -> Attempts]
  /\ put \in [Machines -> Puts \cup {NoPut}]
  /\ spools = [m \in Machines |-> spools[m]]
  /\ ready \subseteq Assets
  /\ faults \in 0 .. MaxFaults

LEMMA Split ==
  IInv <=> SharedOK /\ \A m \in Machines : MachineOK(m) /\ SignedOK(m) /\ SpoolOK(m)
BY DEF IInv, TypeOK, SignedInv, SpoolInv, SharedOK, MachineOK, PhaseSet, Waiting

\* The others are not disturbed by what a machine does with its own state.
LEMMA OneMachine ==
  ASSUME IInv, NEW m \in Machines, SharedOK',
         \A q \in Machines \ {m} : /\ pc'[q] = pc[q] /\ attempt'[q] = attempt[q]
                                   /\ spools'[q] = spools[q] /\ put'[q] = put[q],
         MachineOK(m)', SignedOK(m)', SpoolOK(m)'
  PROVE  IInv'
<1>1. ASSUME NEW q \in Machines, q # m
      PROVE  (MachineOK(q) /\ SignedOK(q) /\ SpoolOK(q))'
  <2>1. MachineOK(q) /\ SignedOK(q) /\ SpoolOK(q)
    BY Split
  <2> QED
    BY <1>1, <2>1 DEF MachineOK, SignedOK, SpoolOK, Key
<1>2. (\A q \in Machines : MachineOK(q) /\ SignedOK(q) /\ SpoolOK(q))'
  BY <1>1
<1> QED
  BY <1>2 DEF IInv, TypeOK, SignedInv, SpoolInv, SharedOK, MachineOK, PhaseSet, Waiting

\* Where a machine may be, and what it has.
LEMMA MachineFacts ==
  ASSUME IInv, NEW m \in Machines
  PROVE  /\ pc[m] \in PhaseSet /\ attempt[m] \in Attempts /\ Key(m) \in Assets \cup {NoAsset}
         /\ pc[m] # "Idle" => Key(m) \in Assets
         /\ attempt[m].spool \in Nat /\ attempt[m].sent \in Nat
         /\ SharedOK /\ MachineOK(m) /\ SignedOK(m) /\ SpoolOK(m)
<1>1. SharedOK /\ MachineOK(m) /\ SignedOK(m) /\ SpoolOK(m)
  BY Split
<1>2. attempt[m] \in Attempts /\ pc[m] \in PhaseSet
  BY <1>1 DEF SharedOK
<1> QED
  BY <1>1, <1>2 DEF Attempts, Key, MachineOK

LEMMA NoAttemptType ==
  /\ NoAttempt \in Attempts
  /\ NoAttempt.sent = 0
  /\ NoAttempt.asset = NoAsset
BY DEF NoAttempt, Attempts, Types

\* An attempt that is over is over with nothing.
LEMMA ReturnInv ==
  ASSUME IInv, NEW m \in Machines, Return(m),
         bucket' \in [Assets -> Objects \cup {Missing}],
         late' \subseteq Puts, \A r \in late' : Signed(r),
         sequence' \in [Machines -> Nat \ {0}],
         put' = put \/ put' = [put EXCEPT ![m] = NoPut],
         NEW kept \in SUBSET DOMAIN spools[m],
         spools' = [spools EXCEPT ![m] = [k \in kept |-> spools[m][k]]] \/ spools' = spools,
         ready' \subseteq Assets,
         faults' \in 0 .. MaxFaults
  PROVE  IInv'
<1>1. SharedOK /\ MachineOK(m)
  BY MachineFacts
<1>2. /\ pc' = [pc EXCEPT ![m] = "Idle"] /\ attempt' = [attempt EXCEPT ![m] = NoAttempt]
  BY DEF Return, Goto
<1>3. SharedOK'
  BY <1>1, <1>2, NoAttemptType DEF SharedOK, PhaseSet
<1>4. pc'[m] = "Idle" /\ attempt'[m] = NoAttempt
  BY <1>1, <1>2 DEF SharedOK
<1>5. MachineOK(m)'
  <2>1. DOMAIN spools'[m] \subseteq DOMAIN spools[m]
        /\ \A n \in DOMAIN spools'[m] : spools'[m][n] = spools[m][n]
    BY <1>1 DEF SharedOK
  <2> QED
    BY <1>1, <1>4, <2>1 DEF MachineOK, Waiting
<1>6. SignedOK(m)' /\ SpoolOK(m)'
  BY <1>4, NoAttemptType DEF SignedOK, SpoolOK, Waiting
<1>7. \A q \in Machines \ {m} : /\ pc'[q] = pc[q] /\ attempt'[q] = attempt[q]
                                /\ spools'[q] = spools[q] /\ put'[q] = put[q]
  BY <1>1, <1>2 DEF SharedOK
<1> QED
  BY <1>3, <1>5, <1>6, <1>7, OneMachine

----------------------------------------------------------------------------
(* One lemma for each action *)

\* An attempt goes on: only its own state changes.
LEMMA GoesOn ==
  ASSUME IInv, NEW m \in Machines, NEW phase \in PhaseSet, NEW next \in Attempts,
         pc' = [pc EXCEPT ![m] = phase],
         attempt' = [attempt EXCEPT ![m] = next],
         sequence' \in [Machines -> Nat \ {0}],
         ready' \subseteq Assets,
         next.asset \in Assets,
         phase \in {"Head", "Get", "OpenHead", "OpenGet"} => next.sent = 0,
         phase \notin Waiting \cup {"Idle"},
         phase = "Stream" => next.spool # 0 /\ next.sent = 0,
         UNCHANGED <<store, spools, put, faults>>
  PROVE  IInv'
<1>1. SharedOK /\ MachineOK(m)
  BY MachineFacts
<1>2. SharedOK'
  BY <1>1 DEF SharedOK, store
<1>3. pc'[m] = phase /\ attempt'[m] = next
  BY <1>1 DEF SharedOK
<1>4. MachineOK(m)'
  <2>1. next.asset # NoAsset /\ Length[next.asset] \in Nat
    BY BucketAssumption, LengthType
  <2> QED
    BY <1>1, <1>3, <2>1 DEF MachineOK, Key
<1>5. SignedOK(m)'
  BY <1>3 DEF SignedOK
<1>6. SpoolOK(m)'
  <2>1. \A n \in DOMAIN spools[m] : Len(spools[m][n]) >= 0
    BY <1>1 DEF MachineOK
  <2> QED
    BY <1>3, <2>1 DEF SpoolOK
<1>7. \A q \in Machines \ {m} : /\ pc'[q] = pc[q] /\ attempt'[q] = attempt[q]
                                /\ spools'[q] = spools[q] /\ put'[q] = put[q]
  BY <1>1 DEF SharedOK
<1> QED
  BY <1>2, <1>4, <1>5, <1>6, <1>7, OneMachine

\* An attempt ends and nothing else happens, but that the asset may be judged ready.
LEMMA Ends ==
  ASSUME IInv, NEW m \in Machines, Return(m), ready' \subseteq Assets,
         UNCHANGED <<store, disk, put, faults>>
  PROVE  IInv'
<1>1. SharedOK
  BY MachineFacts
<1> PICK kept \in SUBSET DOMAIN spools[m] : kept = {}
  OBVIOUS
<1> QED
  BY <1>1, ReturnInv DEF SharedOK, store, disk

LEMMA BeginStep ==
  ASSUME IInv, NEW m \in Machines, NEW a \in Assets, Begin(m, a)
  PROVE  IInv'
<1>1. SharedOK /\ SpoolOK(m) /\ attempt[m] \in Attempts /\ pc[m] = "Idle"
  BY MachineFacts DEF Begin
<1> PICK next : next = [attempt[m] EXCEPT !.asset = a]
  OBVIOUS
<1>2. next \in Attempts /\ next.asset = a /\ next.sent = 0
  BY <1>1 DEF Attempts, SpoolOK
<1>3. attempt' = [attempt EXCEPT ![m] = next]
  BY <1>1 DEF Begin, SharedOK
<1> PICK phase \in PhaseSet : phase = "Head"
  BY DEF PhaseSet
<1>4. /\ pc' = [pc EXCEPT ![m] = phase] /\ phase = "Head"
      /\ UNCHANGED <<store, sequence, spools, put, ready, faults>>
  BY DEF Begin, Goto, disk
<1>5. sequence' \in [Machines -> Nat \ {0}] /\ ready' \subseteq Assets
  BY <1>1, <1>4 DEF SharedOK
<1> QED
  BY <1>2, <1>3, <1>4, <1>5, GoesOn DEF Waiting

LEMMA NoObjectStep ==
  ASSUME IInv, NEW m \in Machines, NoObject(m),
         UNCHANGED <<store, spools, put, ready, faults>>
  PROVE  IInv'
<1>1. SharedOK /\ SpoolOK(m) /\ attempt[m] \in Attempts /\ pc[m] \in PhaseSet
  BY MachineFacts
<1>2. CASE pc[m] \in {"Head", "Get"} /\ Goto(m, "OpenHead") /\ UNCHANGED <<attempt, sequence>>
  <2> PICK next : next = attempt[m]
    OBVIOUS
  <2> PICK phase \in PhaseSet : phase = "OpenHead"
    BY DEF PhaseSet
  <2>1. attempt' = [attempt EXCEPT ![m] = next]
    BY <1>1, <1>2 DEF SharedOK
  <2>2. next.asset \in Assets /\ next.sent = 0
    BY <1>1, <1>2, MachineFacts DEF SpoolOK, Key
  <2> QED
    BY <1>1, <1>2, <2>1, <2>2, GoesOn DEF Goto, Waiting, SharedOK
<1>3. CASE Return(m) /\ UNCHANGED sequence
  BY <1>1, <1>3, Ends DEF SharedOK, disk
<1>4. CASE /\ pc[m] \in {"OpenHead", "OpenGet"}
           /\ attempt' = [attempt EXCEPT ![m].spool = sequence[m]]
           /\ sequence' = [sequence EXCEPT ![m] = @ + 1]
           /\ Goto(m, "Stream")
  <2> PICK next : next = [attempt[m] EXCEPT !.spool = sequence[m]]
    OBVIOUS
  <2> PICK phase \in PhaseSet : phase = "Stream"
    BY DEF PhaseSet
  <2>1. sequence[m] \in Nat \ {0} /\ sequence' \in [Machines -> Nat \ {0}]
    BY <1>1, <1>4 DEF SharedOK
  <2>2. next \in Attempts /\ next.asset = attempt[m].asset /\ next.sent = 0 /\ next.spool # 0
    BY <1>1, <1>4, <2>1 DEF Attempts, SpoolOK
  <2>3. attempt' = [attempt EXCEPT ![m] = next]
    BY <1>1, <1>4 DEF SharedOK
  <2>4. next.asset \in Assets
    BY <1>4, <2>2, MachineFacts DEF Key
  <2> QED
    BY <1>1, <1>4, <2>1, <2>2, <2>3, <2>4, GoesOn DEF Goto, Waiting, SharedOK
<1> QED
  BY <1>2, <1>3, <1>4 DEF NoObject

LEMMA HeadObjectStep ==
  ASSUME IInv, NEW m \in Machines, HeadObject(m)
  PROVE  IInv'
<1>1. SharedOK /\ SpoolOK(m) /\ attempt[m] \in Attempts /\ Key(m) \in Assets
  BY MachineFacts DEF HeadObject
<1>2. CASE NoObject(m)
  BY <1>2, NoObjectStep DEF HeadObject
<1>3. CASE ~ NoObject(m)
  <2> PICK next : next = [attempt[m] EXCEPT !.type = bucket[Key(m)].type]
    OBVIOUS
  <2> PICK phase \in PhaseSet : phase = IF pc[m] = "Head" THEN "Get" ELSE "OpenGet"
    BY DEF PhaseSet
  <2>1. bucket[Key(m)] \in Objects
    BY <1>1, <1>3 DEF HeadObject, SharedOK
  <2>2. next \in Attempts /\ next.asset = Key(m) /\ next.sent = attempt[m].sent
    BY <1>1, <2>1 DEF Attempts, Objects, Key
  <2>3. next.sent = 0
    BY <1>1, <2>2 DEF SpoolOK, HeadObject
  <2>4. attempt' = [attempt EXCEPT ![m] = next]
    BY <1>1, <1>3 DEF HeadObject, SharedOK
  <2>5. /\ pc' = [pc EXCEPT ![m] = phase] /\ phase \in {"Get", "OpenGet"}
        /\ UNCHANGED <<store, sequence, spools, put, ready, faults>>
    BY <1>3 DEF HeadObject, Goto
  <2>6. sequence' \in [Machines -> Nat \ {0}] /\ ready' \subseteq Assets
    BY <1>1, <2>5 DEF SharedOK
  <2> QED
    BY <1>1, <2>2, <2>3, <2>4, <2>5, <2>6, GoesOn DEF Waiting
<1> QED
  BY <1>2, <1>3

LEMMA GetObjectStep ==
  ASSUME IInv, NEW m \in Machines, GetObject(m)
  PROVE  IInv'
<1>1. SharedOK /\ attempt[m] \in Attempts /\ Key(m) \in Assets
  BY MachineFacts DEF GetObject
<1>2. CASE NoObject(m) /\ UNCHANGED ready
  BY <1>2, NoObjectStep DEF GetObject
<1>3. CASE Return(m) /\ UNCHANGED sequence
  <2>1. ready' \subseteq Assets
    BY <1>1, <1>3 DEF GetObject, SharedOK
  <2> QED
    BY <1>3, <2>1, Ends DEF GetObject, disk
<1>4. CASE Goto(m, "Placed") /\ UNCHANGED <<attempt, ready, sequence>>
  <2> PICK next : next = attempt[m]
    OBVIOUS
  <2> PICK phase \in PhaseSet : phase = "Placed"
    BY DEF PhaseSet
  <2>1. attempt' = [attempt EXCEPT ![m] = next]
    BY <1>1, <1>4 DEF SharedOK
  <2> QED
    BY <1>1, <1>4, <2>1, GoesOn DEF GetObject, Goto, Waiting, SharedOK, Key
<1> QED
  BY <1>2, <1>3, <1>4 DEF GetObject

LEMMA ReinspectStep ==
  ASSUME IInv, NEW m \in Machines, Reinspect(m)
  PROVE  IInv'
<1>1. SharedOK /\ Key(m) \in Assets
  BY MachineFacts DEF Reinspect
<1> PICK next : next = [NoAttempt EXCEPT !.asset = Key(m), !.placed = TRUE]
  OBVIOUS
<1> PICK phase \in PhaseSet : phase = "Head"
  BY DEF PhaseSet
<1>2. next \in Attempts /\ next.asset = Key(m) /\ next.sent = 0
  BY <1>1 DEF NoAttempt, Attempts, Types
<1> QED
  BY <1>1, <1>2, GoesOn DEF Reinspect, Goto, Waiting, SharedOK, disk

LEMMA WriteChunkStep ==
  ASSUME IInv, NEW m \in Machines, WriteChunk(m)
  PROVE  IInv'
<1>1. /\ SharedOK /\ MachineOK(m) /\ SpoolOK(m)
      /\ attempt[m] \in Attempts /\ Key(m) \in Assets /\ pc[m] = "Stream"
      /\ attempt[m].sent \in Nat
  BY MachineFacts DEF WriteChunk
<1> PICK n : n = attempt[m].spool
  OBVIOUS
<1> PICK chunk : chunk = <<Key(m), attempt[m].sent + 1>>
  OBVIOUS
<1> PICK file : file = IF n \in DOMAIN spools[m] THEN spools[m][n] ELSE <<>>
  OBVIOUS
<1> PICK spool : spool = [k \in DOMAIN spools[m] \cup {n} |->
                            IF k = n THEN Append(file, chunk) ELSE spools[m][k]]
  OBVIOUS
<1> PICK next : next = [attempt[m] EXCEPT !.sent = @ + 1]
  OBVIOUS
<1>2. /\ attempt[m].sent < Length[Key(m)]
      /\ spools' = [spools EXCEPT ![m] = spool]
      /\ attempt' = [attempt EXCEPT ![m] = next]
      /\ UNCHANGED <<store, sequence, pc, put, ready, faults>>
  BY <1>1 DEF WriteChunk, SharedOK
<1>3. chunk \in Chunk
  BY <1>1 DEF Chunk
<1>4. file \in Seq(Chunk) /\ Len(file) >= attempt[m].sent
  <2>1. CASE n \in DOMAIN spools[m]
    BY <1>1, <2>1 DEF MachineOK, SpoolOK
  <2>2. CASE n \notin DOMAIN spools[m]
    <3>1. attempt[m].sent = 0
      BY <1>1, <2>2 DEF SpoolOK
    <3> QED
      BY <2>2, <3>1
  <2> QED
    BY <2>1, <2>2
<1>5. Append(file, chunk) \in Seq(Chunk) /\ Len(Append(file, chunk)) >= attempt[m].sent + 1
  BY <1>1, <1>3, <1>4
<1>6. /\ attempt'[m].sent = attempt[m].sent + 1 /\ attempt'[m].spool = n
      /\ attempt'[m].asset = Key(m) /\ attempt' \in [Machines -> Attempts]
  <2>1. /\ next \in Attempts /\ next.sent = attempt[m].sent + 1 /\ next.spool = n
        /\ next.asset = Key(m)
    BY <1>1 DEF Attempts, Key
  <2> QED
    BY <1>1, <1>2, <2>1 DEF SharedOK
<1>7. /\ spools'[m] = spool
      /\ \A q \in Machines \ {m} : spools'[q] = spools[q] /\ attempt'[q] = attempt[q]
      /\ spools' = [q \in Machines |-> spools'[q]]
  BY <1>1, <1>2 DEF SharedOK
<1>8. SharedOK'
  BY <1>1, <1>2, <1>6, <1>7 DEF SharedOK, store
<1>9. /\ DOMAIN spool = DOMAIN spools[m] \cup {n} /\ spool[n] = Append(file, chunk)
      /\ \A k \in DOMAIN spools[m] : k # n => spool[k] = spools[m][k]
  OBVIOUS
<1>10. MachineOK(m)'
  <2>1. n \in Nat \ {0} /\ Length[Key(m)] \in Nat /\ Key(m) # NoAsset
    BY <1>1, LengthType, BucketAssumption DEF MachineOK, Attempts
  <2>2. DOMAIN spool \subseteq Nat \ {0} /\ \A k \in DOMAIN spool : spool[k] \in Seq(Chunk)
    BY <1>1, <1>5, <1>9, <2>1 DEF MachineOK
  <2>3. attempt[m].sent + 1 <= Length[Key(m)]
    BY <1>1, <1>2, <2>1
  <2>4. pc'[m] = "Stream" /\ Key(m)' = Key(m)
    BY <1>1, <1>2, <1>6 DEF Key
  <2> QED
    BY <1>6, <1>7, <2>1, <2>2, <2>3, <2>4 DEF MachineOK, Waiting
<1>11. SignedOK(m)'
  BY <1>1, <1>2 DEF SignedOK, Waiting
<1>12. SpoolOK(m)'
  BY <1>1, <1>2, <1>5, <1>6, <1>7, <1>9 DEF SpoolOK
<1> QED
  BY <1>2, <1>7, <1>8, <1>10, <1>11, <1>12, OneMachine

LEMMA FinishStep ==
  ASSUME IInv, NEW m \in Machines, Finish(m)
  PROVE  IInv'
<1>1. /\ SharedOK /\ MachineOK(m) /\ SpoolOK(m) /\ Key(m) \in Assets /\ pc[m] = "Stream"
  BY MachineFacts DEF Finish
<1>2. CASE Return(m) /\ UNCHANGED put
  BY <1>1, <1>2, Ends DEF Finish, SharedOK
<1>3. CASE ~ (Return(m) /\ UNCHANGED put)
  <2> PICK file : file = spools[m][attempt[m].spool]
    OBVIOUS
  <2> PICK r : r = Put(Key(m), file)
    OBVIOUS
  <2>1. /\ attempt[m].spool \in DOMAIN spools[m] /\ attempt[m].sent = Length[Key(m)]
        /\ put' = [put EXCEPT ![m] = r] /\ pc' = [pc EXCEPT ![m] = "Sent"]
        /\ UNCHANGED <<store, disk, attempt, ready, faults>>
    BY <1>3 DEF Finish, Goto
  <2>2. file \in Seq(Chunk) /\ Len(file) >= Length[Key(m)]
    BY <1>1, <2>1 DEF MachineOK, SpoolOK
  <2>3. r \in Puts /\ r.asset = Key(m) /\ Signed(r)
    BY <1>1, <2>2, FrozenType, BodyType DEF Put, Puts, Signed
  <2>4. SharedOK'
    BY <1>1, <2>1, <2>3 DEF SharedOK, PhaseSet, store, disk
  <2>5. /\ pc'[m] = "Sent" /\ put'[m] = r
        /\ \A q \in Machines \ {m} : pc'[q] = pc[q] /\ put'[q] = put[q]
    BY <1>1, <2>1 DEF SharedOK
  <2>6. MachineOK(m)'
    BY <1>1, <2>1, <2>3, <2>5 DEF MachineOK, Key, disk
  <2>7. SignedOK(m)' /\ SpoolOK(m)'
    BY <2>3, <2>5 DEF SignedOK, SpoolOK
  <2> QED
    BY <2>1, <2>4, <2>5, <2>6, <2>7, OneMachine DEF disk
<1> QED
  BY <1>2, <1>3

\* What the store accepts are the frozen bytes, where there was nothing.
LEMMA AcceptsFrozen ==
  ASSUME SharedOK, NEW r \in Puts, Signed(r), Accepts(r)
  PROVE  /\ bucket[r.asset] = Missing
         /\ Created(r) \in Objects
         /\ Created(r).bytes = Frozen(r.asset) /\ Created(r).by = "publisher"
BY DEF Signed, Accepts, Created, Objects, Types, Puts

LEMMA ServeStep ==
  ASSUME IInv, NEW m \in Machines, Serve(m)
  PROVE  IInv'
<1>1. /\ SharedOK /\ MachineOK(m) /\ SignedOK(m) /\ pc[m] = "Sent" /\ Key(m) \in Assets
  BY MachineFacts DEF Serve
<1>2. put[m] \in Puts /\ put[m].asset = Key(m) /\ Signed(put[m])
  BY <1>1 DEF MachineOK, SignedOK, Waiting
<1>3. bucket' \in [Assets -> Objects \cup {Missing}]
  BY <1>1, <1>2, AcceptsFrozen DEF Serve, SharedOK
<1>4. \E phase \in {"Accepted", "Refused"} : pc' = [pc EXCEPT ![m] = phase]
  BY DEF Serve, Goto
<1>5. UNCHANGED <<late, disk, attempt, put, ready, faults>>
  BY DEF Serve
<1>6. SharedOK'
  BY <1>1, <1>3, <1>4, <1>5 DEF SharedOK, PhaseSet, disk
<1>7. pc'[m] \in {"Accepted", "Refused"} /\ \A q \in Machines \ {m} : pc'[q] = pc[q]
  BY <1>1, <1>4 DEF SharedOK
<1>8. MachineOK(m)'
  BY <1>1, <1>2, <1>5, <1>7 DEF MachineOK, Key, disk
<1>9. SignedOK(m)' /\ SpoolOK(m)'
  BY <1>2, <1>5, <1>7 DEF SignedOK, SpoolOK
<1> QED
  BY <1>5, <1>6, <1>7, <1>8, <1>9, OneMachine DEF disk

LEMMA AnswerStep ==
  ASSUME IInv, NEW m \in Machines, Answer(m)
  PROVE  IInv'
<1>1. /\ SharedOK /\ MachineOK(m) /\ Key(m) \in Assets
  BY MachineFacts DEF Answer
<1> PICK kept \in SUBSET DOMAIN spools[m] : kept = DOMAIN spools[m] \ {attempt[m].spool}
  OBVIOUS
<1>2. /\ spools' = [spools EXCEPT ![m] = [k \in kept |-> spools[m][k]]]
      /\ put' = [put EXCEPT ![m] = NoPut]
      /\ UNCHANGED <<store, sequence, ready, faults>>
  BY DEF Answer, RemoveSpool
<1>3. CASE Return(m)
  BY <1>1, <1>2, <1>3, ReturnInv DEF SharedOK, store
<1>4. CASE pc' = [pc EXCEPT ![m] = "Placed"] /\ UNCHANGED attempt
  <2>1. SharedOK'
    BY <1>1, <1>2, <1>4 DEF SharedOK, PhaseSet, store
  <2>2. /\ pc'[m] = "Placed" /\ spools'[m] = [k \in kept |-> spools[m][k]]
        /\ \A q \in Machines \ {m} : pc'[q] = pc[q] /\ put'[q] = put[q] /\ spools'[q] = spools[q]
    BY <1>1, <1>2, <1>4 DEF SharedOK
  <2>3. MachineOK(m)'
    BY <1>1, <1>4, <2>2, BucketAssumption DEF MachineOK, Key, Waiting
  <2>4. SignedOK(m)' /\ SpoolOK(m)'
    BY <2>2 DEF SignedOK, SpoolOK, Waiting
  <2> QED
    BY <1>4, <2>1, <2>2, <2>3, <2>4, OneMachine
<1> QED
  BY <1>3, <1>4 DEF Answer, Goto

LEMMA AbandonFacts ==
  ASSUME IInv, NEW m \in Machines, Abandon(m)
  PROVE  /\ late' \subseteq Puts /\ \A r \in late' : Signed(r)
         /\ put' = [put EXCEPT ![m] = NoPut]
<1>1. SharedOK /\ MachineOK(m) /\ SignedOK(m)
  BY MachineFacts
<1> QED
  BY <1>1 DEF Abandon, SharedOK, MachineOK, SignedOK, Waiting

LEMMA FailStep ==
  ASSUME IInv, NEW m \in Machines, Fail(m)
  PROVE  IInv'
<1>1. SharedOK
  BY MachineFacts
<1> PICK kept \in SUBSET DOMAIN spools[m] : kept = DOMAIN spools[m] \ {attempt[m].spool}
  OBVIOUS
<1>2. spools' = [spools EXCEPT ![m] = [k \in kept |-> spools[m][k]]]
  BY DEF Fail, RemoveSpool
<1>3. Abandon(m) /\ Return(m) /\ UNCHANGED <<bucket, sequence, ready>>
  BY DEF Fail
<1>4. faults' \in 0 .. MaxFaults
  BY <1>1, BucketAssumption DEF Fail, Fault, SharedOK
<1> QED
  BY <1>1, <1>2, <1>3, <1>4, AbandonFacts, ReturnInv DEF SharedOK

LEMMA RestartStep ==
  ASSUME IInv, NEW m \in Machines, Restart(m)
  PROVE  IInv'
<1>1. SharedOK /\ MachineOK(m)
  BY MachineFacts
<1>2. Abandon(m) /\ Return(m) /\ UNCHANGED <<bucket, ready>>
  BY DEF Restart
<1>3. faults' \in 0 .. MaxFaults /\ sequence' \in [Machines -> Nat \ {0}]
  BY <1>1, BucketAssumption DEF Restart, Fault, SharedOK
<1>4. CASE spools' = [spools EXCEPT ![m] = spools[m]]
  <2>1. spools' = spools
    BY <1>1, <1>4 DEF SharedOK
  <2> PICK kept \in SUBSET DOMAIN spools[m] : kept = {}
    OBVIOUS
  <2> QED
    BY <1>1, <1>2, <1>3, <2>1, AbandonFacts, ReturnInv DEF SharedOK
<1>5. CASE spools' = [spools EXCEPT ![m] = <<>>]
  <2> PICK kept \in SUBSET DOMAIN spools[m] : kept = {}
    OBVIOUS
  <2>1. <<>> = [k \in kept |-> spools[m][k]]
    OBVIOUS
  <2>2. spools' = [spools EXCEPT ![m] = [k \in kept |-> spools[m][k]]]
    BY <1>5, <2>1
  <2> QED
    BY <1>1, <1>2, <1>3, <2>2, AbandonFacts, ReturnInv DEF SharedOK
<1> QED
  BY <1>4, <1>5 DEF Restart

\* What happens at the store, out of sight of the machines.
LEMMA StoreStep ==
  ASSUME IInv,
         bucket' \in [Assets -> Objects \cup {Missing}],
         late' \subseteq late, faults' \in 0 .. MaxFaults,
         UNCHANGED <<disk, pc, attempt, put, ready>>
  PROVE  IInv'
<1>1. TypeOK'
  BY DEF IInv, TypeOK, disk, Key
<1>2. SignedInv' /\ SpoolInv'
  BY DEF IInv, SignedInv, SignedOK, SpoolInv, SpoolOK, disk
<1> QED
  BY <1>1, <1>2 DEF IInv

LEMMA LateStep ==
  ASSUME IInv, NEW r \in late, ServeLate(r) \/ LoseLate(r)
  PROVE  IInv'
<1>1. r \in Puts /\ Signed(r) /\ SharedOK
  BY DEF IInv, TypeOK, SignedInv, SharedOK, SpoolInv, PhaseSet
<1>2. bucket' \in [Assets -> Objects \cup {Missing}]
  BY <1>1, AcceptsFrozen DEF ServeLate, LoseLate, SharedOK, Puts
<1>3. late' \subseteq late /\ faults' \in 0 .. MaxFaults
  BY <1>1 DEF ServeLate, LoseLate, SharedOK
<1> QED
  BY <1>2, <1>3, StoreStep DEF ServeLate, LoseLate

LEMMA MeddleStep ==
  ASSUME IInv, NEW a \in Assets, Meddle(a)
  PROVE  IInv'
<1>1. bucket' \in [Assets -> Objects \cup {Missing}]
  BY StrangeType DEF Meddle, IInv, TypeOK
<1>2. late' \subseteq late /\ faults' \in 0 .. MaxFaults
  BY BucketAssumption DEF Meddle, Fault, IInv, TypeOK
<1> QED
  BY <1>1, <1>2, StoreStep DEF Meddle

----------------------------------------------------------------------------
(* The theorems *)

LEMMA InitInv == Init => IInv
<1> SUFFICES ASSUME Init
             PROVE  IInv
  OBVIOUS
<1>1. NoAttempt \in Attempts /\ NoPut \in Puts \cup {NoPut} /\ 0 \in 0 .. MaxFaults
  BY NoAttemptType, BucketAssumption
<1>2. TypeOK
  BY <1>1 DEF Init, TypeOK
<1>3. SignedInv /\ SpoolInv
  BY NoAttemptType DEF Init, SignedInv, SignedOK, SpoolInv, SpoolOK, Waiting
<1> QED
  BY <1>2, <1>3 DEF IInv

LEMMA StutterInv ==
  ASSUME IInv, UNCHANGED vars
  PROVE  IInv'
<1> USE DEF vars, store, disk
<1>1. TypeOK'
  BY DEF IInv, TypeOK, Key
<1>2. SignedInv' /\ SpoolInv'
  BY DEF IInv, SignedInv, SignedOK, SpoolInv, SpoolOK
<1> QED
  BY <1>1, <1>2 DEF IInv

LEMMA NextInv ==
  ASSUME IInv, [Next]_vars
  PROVE  IInv'
<1>1. CASE \E m \in Machines : \E a \in Assets : Begin(m, a)
  BY <1>1, BeginStep
<1>2. CASE \E m \in Machines : Step(m)
  BY <1>2, HeadObjectStep, GetObjectStep, ReinspectStep, WriteChunkStep, FinishStep,
     ServeStep, AnswerStep DEF Step
<1>3. CASE \E m \in Machines : Fail(m) \/ Restart(m)
  BY <1>3, FailStep, RestartStep
<1>4. CASE \E r \in late : ServeLate(r) \/ LoseLate(r)
  BY <1>4, LateStep
<1>5. CASE \E a \in Assets : Meddle(a)
  BY <1>5, MeddleStep
<1>6. CASE UNCHANGED vars
  BY <1>6, StutterInv
<1> QED
  BY <1>1, <1>2, <1>3, <1>4, <1>5, <1>6 DEF Next

\* The strengthening is inductive, whatever fails, dies, comes late or is meddled with.
THEOREM BucketInvariant == Spec => []IInv
<1>1. IInv /\ [Next]_vars => IInv'
  BY NextInv
<1> QED
  BY <1>1, InitInv, PTL DEF Spec

----------------------------------------------------------------------------
(* The refinement *)

\* A PUT that the store accepts places the frozen bytes where there was nothing.
LEMMA PutRefines ==
  ASSUME IInv, NEW r \in Puts, Signed(r), Accepts(r), UNCHANGED ready,
         bucket' = [bucket EXCEPT ![r.asset] = Created(r)]
  PROVE  Target!Next
<1> PICK a \in Assets : a = r.asset
  BY DEF Puts
<1>1. SharedOK
  BY DEF IInv, TypeOK, SignedInv, SharedOK, SpoolInv, PhaseSet
<1>2. /\ bucket[a] = Missing /\ Created(r) \in Objects
      /\ Created(r).bytes = Frozen(a) /\ Created(r).by = "publisher"
  BY <1>1, AcceptsFrozen
<1>3. /\ bucket'[a] = Created(r) /\ bucket'[a] # Missing
      /\ \A b \in Assets : b # a => bucket'[b] = bucket[b]
  BY <1>1, <1>2, MissingAssumption DEF SharedOK
<1>4. Holds(a) = Target!Nothing /\ Holds(a)' = Target!Ours
  BY <1>2, <1>3 DEF Holds, Intact, Target!Nothing, Target!Ours
<1>5. \A b \in Assets : b # a => Holds(b)' = Holds(b)
  BY <1>3 DEF Holds, Intact
<1>6. Target!Place(a)
  BY <1>4, <1>5 DEF Target!Place
<1> QED
  BY <1>6 DEF Target!Next

\* An inspection that judges an asset ready has read its bytes.
LEMMA JudgeRefines ==
  ASSUME IInv, NEW m \in Machines, GetObject(m)
  PROVE  Target!Next \/ UNCHANGED Target!vars
<1>1. UNCHANGED bucket /\ pc[m] # "Idle"
  BY DEF GetObject, store
<1>2. \A a \in Assets : Holds(a)' = Holds(a)
  BY <1>1 DEF Holds, Intact
<1>3. CASE UNCHANGED ready
  BY <1>2, <1>3 DEF Target!vars
<1>4. CASE ~ UNCHANGED ready
  <2> PICK a \in Assets : a = Key(m)
    BY <1>1, MachineFacts
  <2>1. /\ bucket[a] # Missing /\ IsReady(a, Facts(m)) /\ ready' = ready \cup {a}
    BY <1>4 DEF GetObject
  <2>2. bucket[a].bytes = Frozen(a)
    BY <2>1 DEF IsReady, Facts
  <2>3. Holds(a).bytes = "frozen"
    BY <2>1, <2>2 DEF Holds, Intact
  <2>4. Target!Judge(a)
    BY <1>2, <2>1, <2>3 DEF Target!Judge
  <2> QED
    BY <2>4 DEF Target!Next
<1> QED
  BY <1>3, <1>4

\* Strangers may do what they like to an object, and their objects are theirs.
LEMMA MeddleRefines ==
  ASSUME IInv, NEW a \in Assets, Meddle(a)
  PROVE  Target!Next
<1>1. PICK o \in Strange(a) \cup {Missing} : bucket' = [bucket EXCEPT ![a] = o]
  BY DEF Meddle
<1>2. bucket \in [Assets -> Objects \cup {Missing}] /\ UNCHANGED ready
  BY DEF IInv, TypeOK, Meddle
<1>3. bucket'[a] = o /\ \A b \in Assets : b # a => bucket'[b] = bucket[b]
  BY <1>1, <1>2
<1>4. Holds(a)' \in {Target!Nothing} \cup Target!Theirs
  BY <1>3, StrangeType DEF Holds, Intact, Target!Nothing, Target!Theirs
<1>5. \A b \in Assets : b # a => Holds(b)' = Holds(b)
  BY <1>3 DEF Holds, Intact
<1>6. Target!Interfere(a)
  BY <1>2, <1>4, <1>5 DEF Target!Interfere
<1> QED
  BY <1>6 DEF Target!Next

LEMMA StepRefines ==
  ASSUME IInv, [Next]_vars
  PROVE  [Target!Next]_Target!vars
<1>1. ASSUME UNCHANGED <<bucket, ready>>
      PROVE  UNCHANGED Target!vars
  BY <1>1 DEF Target!vars, Holds, Intact
<1>2. CASE \E m \in Machines : \E a \in Assets : Begin(m, a)
  BY <1>1, <1>2 DEF Begin, store
<1>3. ASSUME NEW m \in Machines, Step(m)
      PROVE  Target!Next \/ UNCHANGED Target!vars
  <2>1. CASE HeadObject(m)
    BY <1>1, <2>1 DEF HeadObject, store
  <2>2. CASE GetObject(m)
    BY <2>2, JudgeRefines
  <2>3. CASE Reinspect(m) \/ WriteChunk(m) \/ Finish(m) \/ Answer(m)
    BY <1>1, <2>3 DEF Reinspect, WriteChunk, Finish, Answer, store
  <2>4. CASE Serve(m)
    <3>1. CASE UNCHANGED bucket
      BY <1>1, <2>4, <3>1 DEF Serve
    <3>2. CASE ~ UNCHANGED bucket
      <4> PICK r : r = put[m]
        OBVIOUS
      <4>1. Accepts(r) /\ bucket' = [bucket EXCEPT ![Key(m)] = Created(r)] /\ UNCHANGED ready
        BY <2>4, <3>2 DEF Serve
      <4>2. r \in Puts /\ r.asset = Key(m) /\ Signed(r)
        BY <2>4, MachineFacts DEF Serve, MachineOK, SignedOK, Waiting
      <4> QED
        BY <4>1, <4>2, PutRefines
    <3> QED
      BY <3>1, <3>2
  <2> QED
    BY <1>3, <2>1, <2>2, <2>3, <2>4 DEF Step
<1>4. CASE \E m \in Machines : Fail(m) \/ Restart(m)
  BY <1>1, <1>4 DEF Fail, Restart
<1>5. ASSUME NEW r \in late, ServeLate(r) \/ LoseLate(r)
      PROVE  Target!Next \/ UNCHANGED Target!vars
  <2>1. CASE UNCHANGED bucket
    BY <1>1, <1>5, <2>1 DEF ServeLate, LoseLate
  <2>2. CASE ~ UNCHANGED bucket
    <3>1. Accepts(r) /\ bucket' = [bucket EXCEPT ![r.asset] = Created(r)] /\ UNCHANGED ready
      BY <1>5, <2>2 DEF ServeLate, LoseLate
    <3>2. r \in Puts /\ Signed(r)
      BY DEF IInv, TypeOK, SignedInv
    <3> QED
      BY <3>1, <3>2, PutRefines
  <2> QED
    BY <2>1, <2>2
<1>6. CASE \E a \in Assets : Meddle(a)
  BY <1>6, MeddleRefines
<1>7. CASE UNCHANGED vars
  BY <1>1, <1>7 DEF vars, store
<1> QED
  BY <1>2, <1>3, <1>4, <1>5, <1>6, <1>7 DEF Next

LEMMA InitRefines == Init => Target!Init
<1> SUFFICES ASSUME Init
             PROVE  Target!Init
  OBVIOUS
<1>1. \A a \in Assets : Holds(a) = Target!Nothing
  BY DEF Init, Holds, Target!Nothing
<1> QED
  BY <1>1 DEF Init, Target!Init

\* The bucket is a target the engine can rely on: whatever attempts failed or died
\* before, whatever their spools and PUTs come to and whoever else writes, a machine
\* places only the frozen bytes, never over another object, and judges an asset ready
\* only by bytes it has read.
THEOREM BucketImplementsTarget == Spec => ImplementsTarget
<1>1. IInv /\ [Next]_vars => [Target!Next]_Target!vars
  BY StepRefines
<1> QED
  BY <1>1, InitRefines, BucketInvariant, PTL DEF Spec, Target!Spec, ImplementsTarget

----------------------------------------------------------------------------
(* The directory, as one of the two targets *)

FileProofs == INSTANCE FilesystemAssetTargetProofs WITH
  Procs    <- Machines,
  sequence <- fileSequence,
  pc       <- filePc,
  attempt  <- fileAttempt,
  ready    <- fileReady,
  faults   <- fileFaults

LEMMA FreshIds == ~ ReusesPids => FileProofs!FreshIds
BY FilesAssumption
   DEF Files!ConstantsOK, FileProofs!FreshIds, FileProofs!ConstantsOK, Files!Names,
       FileProofs!Names, Files!Distinct, FileProofs!Distinct

\* What was proved about the directory is about this directory.
LEMMA SameInit == Files!Init <=> FileProofs!Init
BY DEF Files!Init, FileProofs!Init, Files!Distinct, FileProofs!Distinct,
       Files!NoAttempt, FileProofs!NoAttempt

LEMMA SameNext ==
  /\ Files!Next <=> FileProofs!Next
  /\ Files!vars = FileProofs!vars /\ (Files!vars)' = (FileProofs!vars)'
<1> USE DEF Files!directory, FileProofs!directory, Files!process, FileProofs!process,
            Files!history, FileProofs!history, Files!Goto, FileProofs!Goto,
            Files!Return, FileProofs!Return, Files!Key, FileProofs!Key, Files!NoAttempt,
            FileProofs!NoAttempt, Files!Intact, FileProofs!Intact, Files!Frozen,
            FileProofs!Frozen, Files!Fault, FileProofs!Fault
<1> SUFFICES Files!Next <=> FileProofs!Next
  BY DEF Files!vars, FileProofs!vars
<1>1. ASSUME NEW p \in Machines, NEW a \in Assets
      PROVE  Files!Begin(p, a) <=> FileProofs!Begin(p, a)
  BY DEF Files!Begin, FileProofs!Begin
<1>2. ASSUME NEW p \in Machines
      PROVE  (Files!Step(p) <=> FileProofs!Step(p)) /\ (Files!Fail(p) <=> FileProofs!Fail(p))
             /\ (Files!Restart(p) <=> FileProofs!Restart(p))
  <2>1. Files!LookForObject(p) <=> FileProofs!LookForObject(p)
    BY DEF Files!LookForObject, FileProofs!LookForObject
  <2>2. Files!InspectMetadata(p) <=> FileProofs!InspectMetadata(p)
    BY DEF Files!InspectMetadata, FileProofs!InspectMetadata
  <2>3. Files!ReadObject(p) <=> FileProofs!ReadObject(p)
    BY DEF Files!ReadObject, FileProofs!ReadObject
  <2>4. Files!OpenWriter(p) <=> FileProofs!OpenWriter(p)
    BY DEF Files!OpenWriter, FileProofs!OpenWriter
  <2>5. Files!WriteChunk(p) <=> FileProofs!WriteChunk(p)
    BY DEF Files!WriteChunk, FileProofs!WriteChunk, Files!TemporaryPath,
           FileProofs!TemporaryPath, Files!CountTemporary, FileProofs!CountTemporary,
           Files!IsNewFile, FileProofs!IsNewFile, Files!Unused, FileProofs!Unused
  <2>6. Files!LinkObject(p) <=> FileProofs!LinkObject(p)
    BY DEF Files!LinkObject, FileProofs!LinkObject, Files!TemporaryPath,
           FileProofs!TemporaryPath, Files!CountTemporary, FileProofs!CountTemporary
  <2>7. Files!RemoveTemporary(p) <=> FileProofs!RemoveTemporary(p)
    BY DEF Files!RemoveTemporary, FileProofs!RemoveTemporary
  <2>8. Files!Describe(p) <=> FileProofs!Describe(p)
    BY DEF Files!Describe, FileProofs!Describe
  <2>9. Files!Reinspect(p) <=> FileProofs!Reinspect(p)
    BY DEF Files!Reinspect, FileProofs!Reinspect
  <2>10. Files!Fail(p) <=> FileProofs!Fail(p)
    BY DEF Files!Fail, FileProofs!Fail
  <2>11. Files!Restart(p) <=> FileProofs!Restart(p)
    BY DEF Files!Restart, FileProofs!Restart, Files!NextPids, FileProofs!NextPids,
           Files!Free, FileProofs!Free
  <2> QED
    BY <2>1, <2>2, <2>3, <2>4, <2>5, <2>6, <2>7, <2>8, <2>9, <2>10, <2>11
       DEF Files!Step, FileProofs!Step
<1> QED
  BY <1>1, <1>2 DEF Files!Next, FileProofs!Next

LEMMA SameTarget ==
  /\ Files!Target!Init <=> FileProofs!Target!Init
  /\ Files!Target!Next <=> FileProofs!Target!Next
  /\ Files!Target!vars = FileProofs!Target!vars
  /\ (Files!Target!vars)' = (FileProofs!Target!vars)'
<1> USE DEF Files!Intact, FileProofs!Intact, Files!Frozen, FileProofs!Frozen,
            Files!Target!Nothing, FileProofs!Target!Nothing, Files!Target!Ours,
            FileProofs!Target!Ours, Files!Target!Theirs, FileProofs!Target!Theirs
<1>1. Files!Target!Init <=> FileProofs!Target!Init
  BY DEF Files!Target!Init, FileProofs!Target!Init
<1>2. ASSUME NEW a \in Assets
      PROVE  /\ Files!Target!Place(a) <=> FileProofs!Target!Place(a)
             /\ Files!Target!Judge(a) <=> FileProofs!Target!Judge(a)
             /\ Files!Target!Interfere(a) <=> FileProofs!Target!Interfere(a)
  <2>1. Files!Target!Place(a) <=> FileProofs!Target!Place(a)
    BY DEF Files!Target!Place, FileProofs!Target!Place
  <2>2. Files!Target!Judge(a) <=> FileProofs!Target!Judge(a)
    BY DEF Files!Target!Judge, FileProofs!Target!Judge
  <2>3. Files!Target!Interfere(a) <=> FileProofs!Target!Interfere(a)
    BY DEF Files!Target!Interfere, FileProofs!Target!Interfere
  <2> QED
    BY <2>1, <2>2, <2>3
<1>3. Files!Target!Next <=> FileProofs!Target!Next
  BY <1>2 DEF Files!Target!Next, FileProofs!Target!Next
<1>4. /\ Files!Target!vars = FileProofs!Target!vars
      /\ (Files!Target!vars)' = (FileProofs!Target!vars)'
  BY DEF Files!Target!vars, FileProofs!Target!vars
<1> QED
  BY <1>1, <1>3, <1>4

----------------------------------------------------------------------------
(* The configured target *)

\* What is configured never changes, both invariants hold, and the target that is
\* not configured is never touched.
ConfiguredInv ==
  /\ configured \in {"filesystem", "r2"}
  /\ FileProofs!IInv
  /\ IInv

\* A step of a workspace is a step of one target, and nothing to the other.
LEMMA OneTarget ==
  ASSUME [ConfiguredNext]_targets
  PROVE  [FileProofs!Next]_FileProofs!vars /\ [Next]_vars /\ UNCHANGED configured
<1>1. CASE ToFilesystem(Files!Next)
  BY <1>1, SameNext DEF ToFilesystem
<1>2. CASE ToBucket(Next)
  BY <1>2 DEF ToBucket, files, FileProofs!vars, FileProofs!directory, FileProofs!process,
     FileProofs!history
<1>3. CASE UNCHANGED targets
  BY <1>3 DEF targets, files, FileProofs!vars, FileProofs!directory, FileProofs!process,
     FileProofs!history
<1> QED
  BY <1>1, <1>2, <1>3 DEF ConfiguredNext

\* Whichever target is configured, its strengthening is inductive.
THEOREM ConfiguredInvariant ==
  ASSUME ~ ReusesPids
  PROVE  ConfiguredSpec => []ConfiguredInv
<1>1. ConfiguredInit => ConfiguredInv
  BY FreshIds, SameInit, InitInv, FileProofs!InitInv DEF ConfiguredInit, ConfiguredInv
<1>2. ConfiguredInv /\ [ConfiguredNext]_targets => ConfiguredInv'
  <2> SUFFICES ASSUME ConfiguredInv, [ConfiguredNext]_targets
               PROVE  ConfiguredInv'
    OBVIOUS
  <2>1. [FileProofs!Next]_FileProofs!vars /\ [Next]_vars /\ UNCHANGED configured
    BY OneTarget
  <2>2. IInv'
    BY <2>1, NextInv DEF ConfiguredInv
  <2>3. FileProofs!IInv'
    BY <2>1, FreshIds, FileProofs!NextInv DEF ConfiguredInv
  <2> QED
    BY <2>1, <2>2, <2>3 DEF ConfiguredInv
<1> QED
  BY <1>1, <1>2, PTL DEF ConfiguredSpec

\* Every variable of both targets keeps its type, and a writer of either stops at the
\* length of the asset.
THEOREM TypesAreKept ==
  ASSUME ~ ReusesPids
  PROVE  ConfiguredSpec => []TargetsTypeOK
<1>1. FileProofs!TypeOK => Files!TypeOK
  BY DEF Files!TypeOK, FileProofs!TypeOK, Files!Chunk, FileProofs!Chunk, Files!Names,
     FileProofs!Names, Files!Attempts, FileProofs!Attempts, Files!Key, FileProofs!Key
<1>2. ConfiguredInv => TargetsTypeOK
  BY <1>1 DEF ConfiguredInv, TargetsTypeOK, IInv, FileProofs!IInv
<1> QED
  BY <1>2, ConfiguredInvariant, PTL

\* An asset that was judged ready in the directory stays ready: nothing the writers do
\* later changes its object or loses its metadata.
THEOREM ReadyIsFinal ==
  ASSUME ~ ReusesPids
  PROVE  ConfiguredSpec => []ReadyStaysReady
<1>1. ConfiguredInv => ReadyStaysReady
  BY DEF ConfiguredInv, FileProofs!IInv, FileProofs!ReadyInv, FileProofs!ReadyStaysReady,
     ReadyStaysReady, Files!ReadyStaysReady, Files!Intact, FileProofs!Intact, Files!Frozen,
     FileProofs!Frozen
<1> QED
  BY <1>1, ConfiguredInvariant, PTL

\* Either target is one the engine can rely on, whatever failed, died, came late or was
\* raced: nothing but the frozen bytes is placed, never over an object, and nothing is
\* judged ready that is not there.
THEOREM Reliable ==
  ASSUME ~ ReusesPids
  PROVE  ConfiguredSpec => EitherImplementsTarget
<1>1. ConfiguredInit => Files!Target!Init /\ Target!Init
  BY SameInit, SameTarget, InitRefines, FileProofs!InitRefines DEF ConfiguredInit
<1>2. ConfiguredInv /\ [ConfiguredNext]_targets =>
        [Files!Target!Next]_(Files!Target!vars) /\ [Target!Next]_Target!vars
  <2> SUFFICES ASSUME ConfiguredInv, [ConfiguredNext]_targets
               PROVE  [Files!Target!Next]_(Files!Target!vars) /\ [Target!Next]_Target!vars
    OBVIOUS
  <2>1. [FileProofs!Next]_FileProofs!vars /\ [Next]_vars
    BY OneTarget
  <2>2. [Target!Next]_Target!vars
    BY <2>1, StepRefines DEF ConfiguredInv
  <2>3. [FileProofs!Target!Next]_(FileProofs!Target!vars)
    BY <2>1, FreshIds, FileProofs!StepRefines DEF ConfiguredInv
  <2> QED
    BY <2>2, <2>3, SameTarget
<1> QED
  BY <1>1, <1>2, ConfiguredInvariant, PTL
     DEF ConfiguredSpec, EitherImplementsTarget, ImplementsTarget, Target!Spec,
         Files!ImplementsTarget, Files!Target!Spec
=============================================================================
