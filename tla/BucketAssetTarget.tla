------------------------- MODULE BucketAssetTarget -------------------------
(***************************************************************************)
(* The asset target of an installation that publishes to a bucket:         *)
(* R2ObjectStore under the streaming driver, as the asset gate of the      *)
(* engine uses it.                                                         *)
(*                                                                         *)
(* Several machines share the bucket.  A machine handles one asset at a    *)
(* time: it inspects the frozen key with a HEAD and a GET, spools a        *)
(* missing object to a file of its own, sends the file with one signed     *)
(* PUT, and inspects again.  Every request and every file system call is a *)
(* step of its own, and so is what the store does with a PUT: a client may *)
(* give up waiting, or die, while its request is still on its way.         *)
(*                                                                         *)
(* A machine that is started again counts its spools from one.  Its        *)
(* process id may be the one that was used before, and then it meets the   *)
(* spools that were left behind; under a new one they are never looked at. *)
(* The blob a machine streams has been verified already and never changes. *)
(***************************************************************************)
EXTENDS Integers, Sequences

CONSTANTS
  Machines,
  Assets,      \* frozen published assets, one object key each
  Length,      \* chunks of each asset's bytes
  MaxFaults,   \* bound: failures, deaths and what strangers do
  NoAsset, Missing

ASSUME BucketAssumption ==
  /\ Length \in [Assets -> Nat]
  /\ MaxFaults \in Nat
  /\ NoAsset \notin Assets

Chunk == (Assets \cup {NoAsset}) \X Nat

\* The bytes the asset's key stands for; the verifier accepts these and no others.
Frozen(a) == [k \in 1 .. Length[a] |-> <<a, k>>]

\* A media type: the one that was frozen, another one, or none.
Types == {"frozen", "other", "none"}

\* What the store keeps, and (history) who wrote it.
Objects == [bytes : Seq(Chunk), type : Types, by : {"publisher", "stranger"}]

ASSUME MissingAssumption == Missing \notin Objects

\* What somebody else may leave under the key of a.
Strange(a) ==
  {[bytes |-> content[1], type |-> content[2], by |-> "stranger"] : content \in
     {<<<<<<NoAsset, 0>>>>, "frozen">>, <<Frozen(a), "other">>, <<Frozen(a), "none">>}}

\* A PUT: the key, the digest and the media type are signed, and it only creates.
\* The body is not part of the signature; it is what the store has to compare
\* with the digest.
Puts == [asset : Assets, digest : Seq(Chunk), body : Seq(Chunk), createOnly : BOOLEAN]

NoPut == [asset |-> NoAsset]

\* What a machine holds of the asset it handles: whether this attempt has placed
\* it already, the media type HEAD reported, the number of its spool (0: none
\* yet), and the chunks written.
Attempts == [asset  : Assets \cup {NoAsset},
             placed : BOOLEAN,
             type   : Types,
             spool  : Nat,
             sent   : Nat]

NoAttempt == [asset |-> NoAsset, placed |-> FALSE, type |-> "none", spool |-> 0, sent |-> 0]

VARIABLES
  bucket,      \* the object under each key
  late,        \* PUTs nobody waits for any more
  \* Each machine.
  spools,      \* its spool files, by number
  sequence,    \* NEXT_SPOOL
  pc,
  attempt,
  put,         \* its PUT, while it waits for the answer
  \* History and bound.
  ready,       \* assets some machine judged ready
  faults

store   == <<bucket, late>>
disk    == <<spools, sequence>>
vars    == <<store, disk, pc, attempt, put, ready, faults>>

Goto(m, phase) == pc' = [pc EXCEPT ![m] = phase]

\* The attempt is over, with an answer or an error.
Return(m) == Goto(m, "Idle") /\ attempt' = [attempt EXCEPT ![m] = NoAttempt]

Key(m) == attempt[m].asset

----------------------------------------------------------------------------
(* Inspecting *)

Begin(m, a) ==
  /\ pc[m] = "Idle"
  /\ attempt' = [attempt EXCEPT ![m].asset = a]
  /\ Goto(m, "Head")
  /\ UNCHANGED <<store, disk, put, ready, faults>>

\* There is no object.  The engine has it placed, once; open_writer, which looks
\* for itself, starts a spool.
NoObject(m) ==
  \/ pc[m] \in {"Head", "Get"} /\ ~ attempt[m].placed
       /\ Goto(m, "OpenHead") /\ UNCHANGED <<attempt, sequence>>
  \/ pc[m] \in {"Head", "Get"} /\ attempt[m].placed
       /\ Return(m) /\ UNCHANGED sequence
  \/ /\ pc[m] \in {"OpenHead", "OpenGet"}
     /\ attempt' = [attempt EXCEPT ![m].spool = sequence[m]]
     /\ sequence' = [sequence EXCEPT ![m] = @ + 1]
     /\ Goto(m, "Stream")

HeadObject(m) ==
  /\ pc[m] \in {"Head", "OpenHead"}
  /\ \/ bucket[Key(m)] = Missing /\ NoObject(m)
     \/ /\ bucket[Key(m)] # Missing
        /\ attempt' = [attempt EXCEPT ![m].type = bucket[Key(m)].type]
        /\ Goto(m, IF pc[m] = "Head" THEN "Get" ELSE "OpenGet")
        /\ UNCHANGED sequence
  /\ UNCHANGED <<store, spools, put, ready, faults>>

\* The bytes are those that were read; the media type is that of the GET, and if
\* it has none that of the HEAD before.
Facts(m) ==
  [bytes |-> bucket[Key(m)].bytes,
   type  |-> IF bucket[Key(m)].type = "none" THEN attempt[m].type ELSE bucket[Key(m)].type]

\* PublishedAsset::judge, of an object whose bytes were hashed.
IsReady(a, facts) == facts.bytes = Frozen(a) /\ facts.type = "frozen"

\* GET: an object that does not satisfy the asset, or says no type, is an error.
GetObject(m) ==
  /\ pc[m] \in {"Get", "OpenGet"}
  /\ \/ bucket[Key(m)] = Missing /\ NoObject(m) /\ UNCHANGED ready
     \/ /\ bucket[Key(m)] # Missing
        /\ ~ IsReady(Key(m), Facts(m))
        /\ Return(m) /\ UNCHANGED <<sequence, ready>>
     \/ /\ bucket[Key(m)] # Missing
        /\ IsReady(Key(m), Facts(m))
        /\ \/ pc[m] = "Get" /\ ready' = ready \cup {Key(m)} /\ Return(m)
           \/ pc[m] = "OpenGet" /\ Goto(m, "Placed") /\ UNCHANGED <<attempt, ready>>
        /\ UNCHANGED sequence
  /\ UNCHANGED <<store, spools, put, faults>>

\* The engine takes no success for evidence: it inspects again.
Reinspect(m) ==
  /\ pc[m] = "Placed"
  /\ attempt' = [attempt EXCEPT ![m] = [NoAttempt EXCEPT !.asset = Key(m), !.placed = TRUE]]
  /\ Goto(m, "Head")
  /\ UNCHANGED <<store, disk, put, ready, faults>>

----------------------------------------------------------------------------
(* R2Upload *)

\* Mutant: the length of the source is not looked at.
WriteWithoutEnd(m) ==
  /\ pc[m] = "Stream"
  /\ attempt[m].sent <= Length[Key(m)]
  /\ attempt' = [attempt EXCEPT ![m].sent = @ + 1]
  /\ UNCHANGED <<store, disk, pc, put, ready, faults>>

\* write: append the chunk to the spool, creating it if there is none.
WriteChunk(m) ==
  /\ pc[m] = "Stream"
  /\ attempt[m].sent < Length[Key(m)]
  /\ LET n     == attempt[m].spool
         chunk == <<Key(m), attempt[m].sent + 1>>
         file  == IF n \in DOMAIN spools[m] THEN spools[m][n] ELSE <<>>
     IN spools' = [spools EXCEPT ![m] =
          [k \in DOMAIN spools[m] \cup {n} |->
             IF k = n THEN Append(file, chunk) ELSE spools[m][k]]]
  /\ attempt' = [attempt EXCEPT ![m].sent = @ + 1]
  /\ UNCHANGED <<store, sequence, pc, put, ready, faults>>

\* The body is as long as the asset, whatever the spool holds.
Body(a, file) == SubSeq(file, 1, Length[a])

\* Mutant: what is signed is the digest of the spool.
PutOfSpool(a, file) ==
  [asset |-> a, digest |-> Body(a, file), body |-> Body(a, file), createOnly |-> TRUE]

Put(a, file) ==
  [asset |-> a, digest |-> Frozen(a), body |-> Body(a, file), createOnly |-> TRUE]

\* The spool of the attempt is gone, whatever came of it.
RemoveSpool(m) ==
  spools' = [spools EXCEPT ![m] =
    [k \in DOMAIN spools[m] \ {attempt[m].spool} |-> spools[m][k]]]

\* finish: every byte was written and verified; send the spool.  There is no file
\* if there was nothing to write.
Finish(m) ==
  /\ pc[m] = "Stream"
  /\ attempt[m].sent = Length[Key(m)]
  /\ \/ /\ attempt[m].spool \in DOMAIN spools[m]
        /\ put' = [put EXCEPT ![m] = Put(Key(m), spools[m][attempt[m].spool])]
        /\ Goto(m, "Sent")
        /\ UNCHANGED attempt
     \/ /\ attempt[m].spool \notin DOMAIN spools[m]
        /\ Return(m)
        /\ UNCHANGED put
  /\ UNCHANGED <<store, disk, ready, faults>>

\* The store accepts a body that is what was signed, and with if-none-match only
\* where there is nothing.
Accepts(r) ==
  /\ r.body = r.digest
  /\ r.createOnly => bucket[r.asset] = Missing

Created(r) == [bytes |-> r.body, type |-> "frozen", by |-> "publisher"]

Serve(m) ==
  /\ pc[m] = "Sent"
  /\ \/ Accepts(put[m]) /\ bucket' = [bucket EXCEPT ![Key(m)] = Created(put[m])]
          /\ Goto(m, "Accepted")
     \/ ~ Accepts(put[m]) /\ UNCHANGED bucket /\ Goto(m, "Refused")
  /\ UNCHANGED <<late, disk, attempt, put, ready, faults>>

\* Mutant: a PUT that was refused is sent again.
AnswerSendsAgain(m) ==
  /\ pc[m] \in {"Accepted", "Refused"}
  /\ put' = [put EXCEPT ![m] = NoPut]
  /\ \/ pc[m] = "Accepted" /\ Goto(m, "Placed") /\ RemoveSpool(m)
     \/ pc[m] = "Refused" /\ Goto(m, "Stream") /\ UNCHANGED spools
  /\ UNCHANGED <<store, sequence, attempt, ready, faults>>

\* The answer arrives; a refusal is an error.
Answer(m) ==
  /\ pc[m] \in {"Accepted", "Refused"}
  /\ RemoveSpool(m)
  /\ put' = [put EXCEPT ![m] = NoPut]
  /\ \/ pc[m] = "Accepted" /\ Goto(m, "Placed") /\ UNCHANGED attempt
     \/ pc[m] = "Refused" /\ Return(m)
  /\ UNCHANGED <<store, sequence, ready, faults>>

\* A PUT that was given up reaches the store after all, or never.
ServeLate(r) ==
  /\ bucket' = IF Accepts(r) THEN [bucket EXCEPT ![r.asset] = Created(r)] ELSE bucket
  /\ late' = late \ {r}
  /\ UNCHANGED <<disk, pc, attempt, put, ready, faults>>

LoseLate(r) ==
  /\ late' = late \ {r}
  /\ UNCHANGED <<bucket, disk, pc, attempt, put, ready, faults>>

----------------------------------------------------------------------------
(* Failures *)

Fault == faults < MaxFaults /\ faults' = faults + 1

\* A PUT whose client is gone.
Abandon(m) ==
  /\ late' = IF pc[m] = "Sent" THEN late \cup {put[m]} ELSE late
  /\ put' = [put EXCEPT ![m] = NoPut]

\* A request, a file system call or the blob fails, or the client has waited long
\* enough: the writer is dropped, and its spool with it.
Fail(m) ==
  /\ Fault
  /\ pc[m] # "Idle"
  /\ Abandon(m)
  /\ RemoveSpool(m)
  /\ Return(m)
  /\ UNCHANGED <<bucket, sequence, ready>>

\* The process dies and another is started: under the same id, with the spools of
\* the one before, or under a new one.
Restart(m) ==
  /\ Fault
  /\ Abandon(m)
  /\ \E left \in {spools[m], <<>>} : spools' = [spools EXCEPT ![m] = left]
  /\ sequence' = [sequence EXCEPT ![m] = 1]
  /\ Return(m)
  /\ UNCHANGED <<bucket, ready>>

\* Somebody else removes or writes an object.
Meddle(a) ==
  /\ Fault
  /\ \E o \in Strange(a) \cup {Missing} : bucket' = [bucket EXCEPT ![a] = o]
  /\ UNCHANGED <<late, disk, pc, attempt, put, ready>>

----------------------------------------------------------------------------
(* The specification *)

Init ==
  /\ bucket = [a \in Assets |-> Missing]
  /\ late = {}
  /\ spools = [m \in Machines |-> <<>>]
  /\ sequence = [m \in Machines |-> 1]
  /\ pc = [m \in Machines |-> "Idle"]
  /\ attempt = [m \in Machines |-> NoAttempt]
  /\ put = [m \in Machines |-> NoPut]
  /\ ready = {}
  /\ faults = 0

Step(m) ==
  \/ HeadObject(m)
  \/ GetObject(m)
  \/ Reinspect(m)
  \/ WriteChunk(m)
  \/ Finish(m)
  \/ Serve(m)
  \/ Answer(m)

Next ==
  \/ \E m \in Machines :
       \/ \E a \in Assets : Begin(m, a)
       \/ Step(m)
       \/ Fail(m)
       \/ Restart(m)
  \/ \E r \in late : ServeLate(r) \/ LoseLate(r)
  \/ \E a \in Assets : Meddle(a)

Spec == Init /\ [][Next]_vars

\* A machine that began an attempt goes on with it, the store answers, and every
\* asset is tried again and again; a late PUT need never arrive, and nothing has
\* to fail.
FairSpec ==
  /\ Spec
  /\ \A m \in Machines : WF_vars(Step(m)) /\ \A a \in Assets : SF_vars(Begin(m, a))

----------------------------------------------------------------------------
(* Properties *)

\* The types of the variables; a machine that waits has sent what it signed.
TypeOK ==
  /\ bucket \in [Assets -> Objects \cup {Missing}]
  /\ late \subseteq Puts
  /\ \A m \in Machines :
       /\ DOMAIN spools[m] \subseteq Nat \ {0}
       /\ \A n \in DOMAIN spools[m] : spools[m][n] \in Seq(Chunk)
  /\ sequence \in [Machines -> Nat \ {0}]
  /\ pc \in [Machines -> {"Idle", "Head", "Get", "OpenHead", "OpenGet", "Stream", "Sent",
                          "Accepted", "Refused", "Placed"}]
  /\ attempt \in [Machines -> Attempts]
  /\ put \in [Machines -> Puts \cup {NoPut}]
  /\ \A m \in Machines :
       /\ pc[m] # "Idle" => Key(m) # NoAsset
       /\ pc[m] \in {"Sent", "Accepted", "Refused"} => put[m] \in Puts /\ put[m].asset = Key(m)
       /\ pc[m] = "Stream" => attempt[m].spool # 0 /\ attempt[m].sent <= Length[Key(m)]
  /\ ready \subseteq Assets
  /\ faults \in 0 .. MaxFaults

Intact(a) == bucket[a] # Missing /\ bucket[a].bytes = Frozen(a)

Holds(a) ==
  IF bucket[a] = Missing THEN [bytes |-> "none", by |-> "nobody"]
  ELSE [bytes |-> IF Intact(a) THEN "frozen" ELSE "other", by |-> bucket[a].by]

Target == INSTANCE AssetTarget WITH
  Shared <- TRUE,
  holds  <- [a \in Assets |-> Holds(a)]

\* Whatever attempts failed or died before, whatever their spools and their PUTs
\* come to, and whoever else writes: a machine places only the frozen bytes, never
\* over another object, and judges an asset ready only by bytes it has read.
ImplementsTarget == Target!Spec

\* An object that would have to be replaced before the asset could be placed.
Occupied(a) ==
  bucket[a] # Missing /\ ~ (Intact(a) /\ bucket[a].type = "frozen")

\* An asset that is tried again and again is judged ready, and comes back when it is
\* lost, whatever failed, died or arrived late; unless a stranger's object is in
\* the way, or there is nothing to stream.
RetriesSettle ==
  \A a \in Assets : Length[a] > 0 =>
    /\ <>(a \in ready \/ [] Occupied(a))
    /\ <>[](Occupied(a) \/ Intact(a))
=============================================================================
