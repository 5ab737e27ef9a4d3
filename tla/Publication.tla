---------------------------- MODULE Publication ----------------------------
(***************************************************************************)
(* The publication engine of Mineral Publisher: how one workspace freezes  *)
(* a publication intent (a PublishRun) and executes it against the Git     *)
(* ref readers clone and the asset target readers fetch from.              *)
(*                                                                         *)
(* Several workspaces may publish to the same ref and the same asset       *)
(* target.  Each runs one publication at a time (the operation gate and    *)
(* the process lease serialize it), may stop between any two of its steps, *)
(* and later resumes from what it had made durable.  Outside the program,  *)
(* people push to the ref, delete it, and touch stored objects; a push the *)
(* client gave up on may still be carried out by the server.               *)
(*                                                                         *)
(* Simplifications:                                                        *)
(*   - a Git object id is a model value; `objects' is the content-address  *)
(*     function, from ids to the facts they are the hash of;               *)
(*   - author, message and both timestamps of a commit are one `stamp';    *)
(*   - a tree is the pair of its part under the managed root (`managed')   *)
(*     and everything else (`rest');                                       *)
(*   - every port error and every crash ends the execution in the same     *)
(*     durable state, so both are the action Abort;                        *)
(*   - random identifiers are fresh.                                       *)
(***************************************************************************)
EXTENDS Integers, Sequences

CONSTANTS
  Workspaces,   \* installations that publish to the same targets
  Runs,         \* publish run identifiers
  LegacyRuns,   \* the runs an earlier release stored, without spec or binding
  Oids,         \* commit object identities
  Texts,        \* contents of the managed root
  Rests,        \* contents of the rest of the repository
  Stamps,       \* frozen author, message and time of a commit
  Assets,       \* frozen published assets, one object key each
  Deliveries,   \* delivery projections
  TextOf,       \* the text side of each delivery projection
  AssetsOf,     \* its assets, in canonical order
  Evidence,     \* how the asset target knows the bytes it serves
  MaxOrphans,   \* bound: abandoned pushes of one run still under way
  MaxFaults     \* bound: aborts, refusals and outside interference

CONSTANTS NoRun, NoCommit, NoObject, NoIntent, NoDelivery, NoSpec, RefMissing, Others

ASSUME ConstantsAssumption ==
  /\ LegacyRuns \subseteq Runs
  /\ TextOf \in [Deliveries -> Texts]
  /\ AssetsOf \in [Deliveries -> Seq(Assets)]
  /\ Evidence \subseteq {"Verified", "Attested", "Unavailable"}
  /\ MaxOrphans \in Nat
  /\ MaxFaults \in Nat
  /\ NoRun \notin Runs
  /\ Others \notin Runs
  /\ NoCommit \notin Oids
  /\ RefMissing \notin Oids

Tree == [managed : Texts, rest : Rests]

\* What a commit id is the hash of; also what a GitCommitSpec freezes.
CommitFacts == [parent : Oids \cup {NoCommit}, tree : Tree, stamp : Stamps]

ASSUME SentinelsAssumption ==
  /\ NoObject \notin CommitFacts
  /\ NoSpec \notin CommitFacts
  /\ NoDelivery \notin Deliveries

RefState == Oids \cup {RefMissing}

PublishRun ==
  [ws : Workspaces, base : Oids, reviewed : Tree, desired : Oids \cup {NoCommit},
   spec : CommitFacts \cup {NoSpec}, delivery : Deliveries \cup {NoDelivery}]

\* What a run stands for in the contract of PublicRef.
PublicPlan == [base : Oids, desired : Oids, needs : SUBSET Assets]

ASSUME IntentAssumption == NoIntent \notin PublishRun /\ NoIntent \notin PublicPlan

\* What an asset target stores under one frozen key: nothing, the frozen
\* representation, the frozen bytes under another media type, or other bytes.
Stored == {"Absent", "Frozen", "Retyped", "Other"}

Verdicts == {"Missing", "Ready", "Conflict", "Unverifiable"}

Phases ==
  {"Idle",
   "BaseObserved", "DeliveryFrozen", "IntentBuilt",           \* preparing
   "Loaded", "RefObserved", "ReadyToPush",                    \* executing
   "Gate", "Inspected", "Missing", "Placed", "Reinspected",   \* the asset gate
   "Push", "Pushing", "Pushed", "PostObserved"}

GatePhases == {"Gate", "Inspected", "Missing", "Placed", "Reinspected"}

\* GitPublicationExecution, the decisions of PublishReconciliation on the way,
\* and "Error" for an execution that returned an error or never returned.
GitResults ==
  {"None", "Error", "NoopSatisfied", "AlreadyPublished", "ReadyToPush", "Published",
   "PushFailedButRemoteUnchanged", "RemoteUnchangedAfterSuccessfulPush",
   "RemoteChanged", "TargetMissing", "Indeterminate"}

GitSatisfied == {"NoopSatisfied", "AlreadyPublished", "Published"}

VARIABLES
  \* Shared with the outside.
  objects,      \* every commit that exists anywhere, by identity
  remote,       \* the publication ref
  holder,       \* history: the run that last moved the ref, or Others
  target,       \* the asset target, per frozen object key
  tampered,     \* history: the keys somebody else touched
  orphans,      \* per run, pushes whose client gave up and the server did not
  \* Durable, per workspace.
  local,        \* commits held by the local repository
  intents,      \* PublishRunStore
  projections,  \* DeliveryProjectionStore
  refFacts,     \* RemoteObservationStore: <<run, observed ref>>
  assetFacts,   \* AssetObservationStore: <<run, asset, judged state>>
  \* Lost when the process stops.
  pc,           \* phase of the publication under way
  run,          \* the run being built or executed, then the last one executed
  git,          \* the Git side of the execution's result
  verified,     \* the assets this execution counted as verified
  at,           \* the other locals of the execution under way
  \* Bound.
  faults        \* aborts, refusals and interferences so far

shared  == <<objects, remote, holder, target, tampered, orphans>>
durable == <<local, intents, projections, refFacts, assetFacts>>
memory  == <<pc, run, git, verified, at>>
vars    == <<shared, durable, memory, faults>>

Locals ==
  [proj  : Deliveries \cup {NoDelivery},   \* the projection frozen by preparation
   draft : PublishRun \cup {NoIntent},     \* the intent built and not saved
   seen  : RefState,                       \* the ref value last read
   found : Verdicts,                       \* the verdict on the asset last read
   pos   : Nat,                            \* position in the asset list
   ack   : {"None", "Waiting", "Applied", "Refused"}, \* the server's answer
   cas   : {"None", "Updated", "Rejected"}]           \* CasOutcome

NoLocals ==
  [proj |-> NoDelivery, draft |-> NoIntent, seen |-> RefMissing, found |-> "Missing",
   pos |-> 1, ack |-> "None", cas |-> "None"]

----------------------------------------------------------------------------
(* Helpers *)

\* The assets a run must see verified: none when it binds no projection.
Required(r) ==
  IF intents[r].delivery = NoDelivery THEN <<>> ELSE AssetsOf[intents[r].delivery]

RequiredSet(r) == {Required(r)[k] : k \in DOMAIN Required(r)}

\* Mutant: the index starts empty instead of from the base's tree.
MaterializeAlone(base, text) == [managed |-> text, rest |-> CHOOSE rest \in Rests : TRUE]

\* GitRepository::materialize: the base's tree with its managed root replaced.
Materialize(base, text) == [objects[base].tree EXCEPT !.managed = text]

\* GitRepository::create_commit: a commit's identity is the hash of its facts.
CreateCommit(w, o, facts) ==
  /\ \/ objects[o] = facts
     \/ objects[o] = NoObject /\ \A p \in Oids : objects[p] # facts
  /\ objects' = [objects EXCEPT ![o] = facts]
  /\ local' = [local EXCEPT ![w] = @ \cup {o}]

\* PublishReconciliation::derive.
Reconcile(intent, observed) ==
  CASE observed = RefMissing -> "TargetMissing"
    [] observed = intent.desired -> "AlreadyPublished"
    [] observed = intent.base ->
         IF intent.desired = NoCommit THEN "NoopSatisfied" ELSE "ReadyToPush"
    [] OTHER -> "RemoteChanged"

\* The facts an inspection may report of what is stored: size, media type, and
\* the byte identity the target claims, with the strength of the claim.  Only a
\* claim derived from the bytes is about the bytes served now.
Facts(stored) ==
  {f \in [size : {"frozen", "other"}, ctype : {"frozen", "other"},
          proof : Evidence, bytes : {"frozen", "other"}] :
     /\ stored # "Other" => f.size = "frozen" /\ f.bytes = "frozen"
     /\ stored = "Other" /\ f.proof = "Verified" => f.bytes = "other"
     /\ f.ctype = IF stored = "Retyped" THEN "other" ELSE "frozen"}

\* Mutant: what is not proven is reported by the strength of its proof.
JudgeByProof(f) ==
  CASE f.size # "frozen" \/ f.ctype # "frozen" -> "Conflict"
    [] f.proof \in {"Unavailable", "Attested"} -> f.proof
    [] f.bytes # "frozen" -> "Conflict"
    [] OTHER -> "Ready"

\* PublishedAsset::judge.
Judge(f) ==
  CASE f.size # "frozen" \/ f.ctype # "frozen" -> "Conflict"
    [] f.proof = "Unavailable" -> "Unverifiable"
    [] f.bytes # "frozen" -> "Conflict"
    [] f.proof = "Attested" -> "Unverifiable"
    [] OTHER -> "Ready"

\* What inspecting one key and judging the facts can yield.
Inspections(a) ==
  IF target[a] = "Absent" THEN {"Missing"} ELSE {Judge(f) : f \in Facts(target[a])}

\* verify_commit_facts: the parent is the base and the tree is the reviewed one.
CommitVerified(intent) ==
  /\ objects[intent.desired] # NoObject
  /\ objects[intent.desired].parent = intent.base
  /\ objects[intent.desired].tree = intent.reviewed

\* Mutant: a commit the clone does not hold is never rebuilt.
NeverRebuilt(w, intent) == FALSE

\* rematerialize_reviewed_tree and create_commit from the frozen specification.
Rebuildable(w, intent) ==
  /\ intent.spec # NoSpec
  /\ intent.delivery # NoDelivery =>
       /\ intent.base \in local[w]
       /\ Materialize(intent.base, TextOf[intent.delivery]) = intent.reviewed
  /\ objects[intent.desired] = intent.spec

\* ensure_desired_commit: held locally or rebuilt, and verified either way.
CommitEnsured(w, intent) ==
  /\ intent.desired \in local[w] \/ Rebuildable(w, intent)
  /\ CommitVerified(intent)

Asset(w) == Required(run[w])[at[w].pos]

\* The execution returns g; its locals go out of scope.
Return(w, g) ==
  /\ pc' = [pc EXCEPT ![w] = "Idle"]
  /\ git' = [git EXCEPT ![w] = g]
  /\ at' = [at EXCEPT ![w] = NoLocals]

Goto(w, phase) == pc' = [pc EXCEPT ![w] = phase]

Fault == faults < MaxFaults /\ faults' = faults + 1

----------------------------------------------------------------------------
(* Preparing: GitPublicationApplication::prepare_and_publish *)

\* Observe the exact remote base; a missing target is an error.  The fresh run
\* id r is reserved here, so that the bound on runs stops no attempt half way.
ObserveBase(w, r) ==
  /\ pc[w] = "Idle"
  /\ intents[r] = NoIntent /\ \A v \in Workspaces \ {w} : run[v] # r
  /\ \/ /\ remote = RefMissing
        /\ Return(w, "Error")
     \/ /\ remote # RefMissing
        /\ Goto(w, "BaseObserved")
        /\ at' = [at EXCEPT ![w].seen = remote]
        /\ git' = [git EXCEPT ![w] = "None"]
  /\ run' = [run EXCEPT ![w] = r]
  /\ verified' = [verified EXCEPT ![w] = {}]
  /\ UNCHANGED <<shared, durable, faults>>

\* Mutant: the projection stays in memory.
FreezeDeliveryInMemory(w, d) ==
  /\ pc[w] = "BaseObserved"
  /\ at' = [at EXCEPT ![w].proj = d]
  /\ Goto(w, "DeliveryFrozen")
  /\ UNCHANGED <<shared, durable, run, git, verified, faults>>

\* Build the delivery projection and make it durable before any Git object.
FreezeDelivery(w, d) ==
  /\ pc[w] = "BaseObserved"
  /\ projections' = [projections EXCEPT ![w] = @ \cup {d}]
  /\ at' = [at EXCEPT ![w].proj = d]
  /\ Goto(w, "DeliveryFrozen")
  /\ UNCHANGED <<shared, local, intents, refFacts, assetFacts, run, git, verified, faults>>

\* GitPublicationPreparer::prepare: materialize the reviewed tree, and unless it
\* is the base's own tree freeze and create the commit.
PrepareIntent(w) ==
  /\ pc[w] = "DeliveryFrozen"
  /\ at[w].seen \in local[w]
  /\ LET base     == at[w].seen
         d        == at[w].proj
         reviewed == Materialize(base, TextOf[d])
         Intent(desired, spec) ==
           [ws |-> w, base |-> base, reviewed |-> reviewed, desired |-> desired,
            spec |-> spec, delivery |-> d]
     IN \/ /\ reviewed = objects[base].tree
           /\ at' = [at EXCEPT ![w].draft = Intent(NoCommit, NoSpec)]
           /\ UNCHANGED <<objects, local>>
        \/ /\ reviewed # objects[base].tree
           /\ \E o \in Oids, stamp \in Stamps :
                LET spec == [parent |-> base, tree |-> reviewed, stamp |-> stamp]
                IN /\ CreateCommit(w, o, spec)
                   /\ at' = [at EXCEPT ![w].draft = Intent(o, spec)]
  /\ Goto(w, "IntentBuilt")
  /\ UNCHANGED <<remote, holder, target, tampered, orphans, intents, projections,
                 refFacts, assetFacts, run, git, verified, faults>>

\* The local repository does not hold the observed base: preparation fails.
PrepareFails(w) ==
  /\ pc[w] = "DeliveryFrozen"
  /\ at[w].seen \notin local[w]
  /\ Return(w, "Error")
  /\ UNCHANGED <<shared, durable, run, verified, faults>>

\* SqlitePublishRunStore::save: the intent is durable before anything remote.
SaveIntent(w) ==
  /\ pc[w] = "IntentBuilt"
  /\ intents' = [intents EXCEPT ![run[w]] = at[w].draft]
  /\ at' = [at EXCEPT ![w] = NoLocals]
  /\ Goto(w, "Loaded")
  /\ UNCHANGED <<shared, local, projections, refFacts, assetFacts, run, git, verified,
                 faults>>

----------------------------------------------------------------------------
(* Executing: DeliveryPublicationExecutor::execute *)

\* Resume a persisted run; one that was never stored has no effect at all.
Resume(w, r) ==
  /\ pc[w] = "Idle"
  /\ intents[r] # NoIntent /\ intents[r].ws = w
  /\ intents[r].delivery \in projections[w] \cup {NoDelivery}
  /\ run' = [run EXCEPT ![w] = r]
  /\ git' = [git EXCEPT ![w] = "None"]
  /\ verified' = [verified EXCEPT ![w] = {}]
  /\ Goto(w, "Loaded")
  /\ UNCHANGED <<shared, durable, at, faults>>

ObserveRef(w) ==
  /\ pc[w] = "Loaded"
  /\ at' = [at EXCEPT ![w].seen = remote]
  /\ Goto(w, "RefObserved")
  /\ UNCHANGED <<shared, durable, run, git, verified, faults>>

\* Mutant: a ref that needs no push ends the execution, without the asset gate.
ReconcileRefAndStop(w) ==
  /\ pc[w] = "RefObserved"
  /\ refFacts' = refFacts \cup {<<run[w], at[w].seen>>}
  /\ LET decision == Reconcile(intents[run[w]], at[w].seen)
     IN \/ /\ decision = "ReadyToPush"
           /\ Goto(w, "ReadyToPush")
           /\ git' = [git EXCEPT ![w] = decision]
           /\ UNCHANGED at
        \/ /\ decision # "ReadyToPush"
           /\ Return(w, decision)
  /\ UNCHANGED <<shared, local, intents, projections, assetFacts, run, verified, faults>>

\* Persist the observation, then reconcile the intent with it.
ReconcileRef(w) ==
  /\ pc[w] = "RefObserved"
  /\ refFacts' = refFacts \cup {<<run[w], at[w].seen>>}
  /\ LET decision == Reconcile(intents[run[w]], at[w].seen)
     IN \/ /\ decision = "ReadyToPush"
           /\ Goto(w, "ReadyToPush")
           /\ git' = [git EXCEPT ![w] = decision]
           /\ UNCHANGED at
        \/ /\ decision \in {"NoopSatisfied", "AlreadyPublished"}
           /\ Goto(w, "Gate")
           /\ git' = [git EXCEPT ![w] = decision]
           /\ UNCHANGED at
        \/ /\ decision \in {"RemoteChanged", "TargetMissing"}
           /\ Return(w, decision)
  /\ UNCHANGED <<shared, local, intents, projections, assetFacts, run, verified, faults>>

\* Show that the desired commit exists and is the reviewed one, or give up.
EnsureDesiredCommit(w) ==
  /\ pc[w] = "ReadyToPush"
  /\ LET intent == intents[run[w]]
     IN \/ /\ CommitEnsured(w, intent)
           /\ local' = [local EXCEPT ![w] = @ \cup {intent.desired}]
           /\ Goto(w, "Gate")
           /\ UNCHANGED <<git, at>>
        \/ /\ ~ CommitEnsured(w, intent)
           /\ Return(w, "Error")
           /\ UNCHANGED local
  /\ UNCHANGED <<shared, intents, projections, refFacts, assetFacts, run, verified, faults>>

(* The asset gate: AssetPublication::ensure_required *)

\* Read what the target holds, before placing the object and again after.
InspectAsset(w) ==
  /\ pc[w] \in {"Gate", "Placed"}
  /\ at[w].pos <= Len(Required(run[w]))
  /\ \E verdict \in Inspections(Asset(w)) : at' = [at EXCEPT ![w].found = verdict]
  /\ Goto(w, IF pc[w] = "Gate" THEN "Inspected" ELSE "Reinspected")
  /\ UNCHANGED <<shared, durable, run, git, verified, faults>>

\* Mutant: the inspection that follows a placement is judged and not persisted.
JudgeAssetUnrecorded(w) ==
  /\ pc[w] \in {"Inspected", "Reinspected"}
  /\ IF pc[w] = "Inspected"
     THEN assetFacts' = assetFacts \cup {<<run[w], Asset(w), at[w].found>>}
     ELSE UNCHANGED assetFacts
  /\ \/ /\ at[w].found = "Ready"
        /\ verified' = [verified EXCEPT ![w] = @ \cup {Asset(w)}]
        /\ at' = [at EXCEPT ![w].pos = @ + 1]
        /\ Goto(w, "Gate")
        /\ UNCHANGED git
     \/ /\ at[w].found = "Missing" /\ pc[w] = "Inspected"
        /\ Goto(w, "Missing")
        /\ UNCHANGED <<git, verified, at>>
     \/ /\ at[w].found # "Ready"
        /\ at[w].found = "Missing" => pc[w] = "Reinspected"
        /\ Return(w, "Error")
        /\ UNCHANGED verified
  /\ UNCHANGED <<shared, local, intents, projections, refFacts, run, faults>>

\* Persist the fact, then judge it: only a proven object is counted, a missing
\* one is placed once, anything else ends the execution.
JudgeAsset(w) ==
  /\ pc[w] \in {"Inspected", "Reinspected"}
  /\ assetFacts' = assetFacts \cup {<<run[w], Asset(w), at[w].found>>}
  /\ \/ /\ at[w].found = "Ready"
        /\ verified' = [verified EXCEPT ![w] = @ \cup {Asset(w)}]
        /\ at' = [at EXCEPT ![w].pos = @ + 1]
        /\ Goto(w, "Gate")
        /\ UNCHANGED git
     \/ /\ at[w].found = "Missing" /\ pc[w] = "Inspected"
        /\ Goto(w, "Missing")
        /\ UNCHANGED <<git, verified, at>>
     \/ /\ at[w].found # "Ready"
        /\ at[w].found = "Missing" => pc[w] = "Reinspected"
        /\ Return(w, "Error")
        /\ UNCHANGED verified
  /\ UNCHANGED <<shared, local, intents, projections, refFacts, run, faults>>

\* AssetTarget::publish: create the object, reuse the same bytes, never replace.
PlaceAsset(w) ==
  /\ pc[w] = "Missing"
  /\ \/ /\ target[Asset(w)] \in {"Absent", "Frozen"}
        /\ target' = [target EXCEPT ![Asset(w)] = "Frozen"]
        /\ Goto(w, "Placed")
        /\ UNCHANGED <<git, at>>
     \/ /\ target[Asset(w)] \in {"Retyped", "Other"}
        /\ Return(w, "Error")
        /\ UNCHANGED target
  /\ UNCHANGED <<objects, remote, holder, tampered, orphans, durable, run, verified, faults>>

\* Mutant: the last required asset is not waited for.
GateDoneOneEarly(w) ==
  /\ pc[w] = "Gate"
  /\ at[w].pos >= Len(Required(run[w]))
  /\ \/ git[w] = "ReadyToPush" /\ Goto(w, "Push") /\ UNCHANGED <<git, at>>
     \/ git[w] # "ReadyToPush" /\ Return(w, git[w])
  /\ UNCHANGED <<shared, durable, run, verified, faults>>

\* Every required asset was handled: push, or return the satisfied result.
GateDone(w) ==
  /\ pc[w] = "Gate"
  /\ at[w].pos > Len(Required(run[w]))
  /\ \/ git[w] = "ReadyToPush" /\ Goto(w, "Push") /\ UNCHANGED <<git, at>>
     \/ git[w] # "ReadyToPush" /\ Return(w, git[w])
  /\ UNCHANGED <<shared, durable, run, verified, faults>>

(* The compare-and-swap: git push with an explicit lease *)

SendPush(w) ==
  /\ pc[w] = "Push"
  /\ at' = [at EXCEPT ![w].ack = "Waiting"]
  /\ Goto(w, "Pushing")
  /\ UNCHANGED <<shared, durable, run, git, verified, faults>>

\* Mutant: a deleted ref is created again.
RecreatingPush(r, ok) ==
  /\ ok = (remote \in {intents[r].base, intents[r].desired, RefMissing})
  /\ IF remote \in {intents[r].base, RefMissing}
     THEN remote' = intents[r].desired /\ holder' = r
     ELSE UNCHANGED <<remote, holder>>

\* Mutant: a push without a lease.
ForcedPush(r, ok) == ok = TRUE /\ remote' = intents[r].desired /\ holder' = r

\* What the server does with a push of run r; TRUE for ok when it accepts it.
CompareAndSwap(r, ok) ==
  /\ ok = (remote \in {intents[r].base, intents[r].desired})
  /\ IF remote = intents[r].base
     THEN remote' = intents[r].desired /\ holder' = r
     ELSE UNCHANGED <<remote, holder>>

ServerAnswers(w) ==
  /\ pc[w] = "Pushing" /\ at[w].ack = "Waiting"
  /\ \E ok \in BOOLEAN :
       /\ CompareAndSwap(run[w], ok)
       /\ at' = [at EXCEPT ![w].ack = IF ok THEN "Applied" ELSE "Refused"]
  /\ UNCHANGED <<objects, target, tampered, orphans, durable, pc, run, git, verified, faults>>

\* The server declines without looking at the lease (a hook, a protected ref).
ServerRefuses(w) ==
  /\ Fault
  /\ pc[w] = "Pushing" /\ at[w].ack = "Waiting"
  /\ at' = [at EXCEPT ![w].ack = "Refused"]
  /\ UNCHANGED <<shared, durable, pc, run, git, verified>>

\* The client learns the answer.
PushReports(w) ==
  /\ pc[w] = "Pushing" /\ at[w].ack \in {"Applied", "Refused"}
  /\ at' = [at EXCEPT ![w].cas = IF at[w].ack = "Applied" THEN "Updated" ELSE "Rejected"]
  /\ Goto(w, "Pushed")
  /\ UNCHANGED <<shared, durable, run, git, verified, faults>>

\* A live push whose client stops waiting is still under way at the server.
Orphan(w) ==
  IF at[w].ack = "Waiting"
  THEN orphans[run[w]] < MaxOrphans /\ orphans' = [orphans EXCEPT ![run[w]] = @ + 1]
  ELSE UNCHANGED orphans

\* The client reports a refusal for a failure it does not recognise as a
\* network failure, whatever became of the push.
PushMisreports(w) ==
  /\ Fault
  /\ pc[w] = "Pushing" /\ at[w].ack \in {"Applied", "Waiting"}
  /\ Orphan(w)
  /\ at' = [at EXCEPT ![w].cas = "Rejected", ![w].ack = "None"]
  /\ Goto(w, "Pushed")
  /\ UNCHANGED <<objects, remote, holder, target, tampered, durable, run, git, verified>>

\* A push nobody waits for any more reaches the server.
OrphanLands(r) ==
  /\ orphans[r] > 0
  /\ orphans' = [orphans EXCEPT ![r] = @ - 1]
  /\ \E ok \in BOOLEAN : CompareAndSwap(r, ok)
  /\ UNCHANGED <<objects, target, tampered, durable, memory, faults>>

\* Observe again; the result is never drawn from the attempt itself.
PostObserveRef(w) ==
  /\ pc[w] = "Pushed"
  /\ at' = [at EXCEPT ![w].seen = remote]
  /\ Goto(w, "PostObserved")
  /\ UNCHANGED <<shared, durable, run, git, verified, faults>>

\* The second observation failed: nothing is recorded and nothing is claimed.
PostObserveFails(w) ==
  /\ Fault
  /\ pc[w] = "Pushed"
  /\ Return(w, "Indeterminate")
  /\ UNCHANGED <<shared, durable, run, verified>>

\* Persist the second observation, reconcile again and classify.
ClassifyResult(w) ==
  /\ pc[w] = "PostObserved"
  /\ refFacts' = refFacts \cup {<<run[w], at[w].seen>>}
  /\ LET decision == Reconcile(intents[run[w]], at[w].seen)
     IN Return(w, CASE decision = "AlreadyPublished" -> "Published"
                    [] decision = "ReadyToPush" /\ at[w].cas = "Rejected" ->
                         "PushFailedButRemoteUnchanged"
                    [] decision = "ReadyToPush" /\ at[w].cas # "Rejected" ->
                         "RemoteUnchangedAfterSuccessfulPush"
                    [] decision = "NoopSatisfied" -> "Error"
                    [] OTHER -> decision)
  /\ UNCHANGED <<shared, local, intents, projections, assetFacts, run, verified, faults>>

----------------------------------------------------------------------------
(* Failures and the outside *)

\* A port error or a crash: the execution ends, what is durable stays.
Abort(w) ==
  /\ Fault
  /\ pc[w] # "Idle"
  /\ IF pc[w] = "Pushing" THEN Orphan(w) ELSE UNCHANGED orphans
  /\ Return(w, "Error")
  /\ UNCHANGED <<objects, remote, holder, target, tampered, durable, run, verified>>

\* Somebody else pushes a commit of theirs, or one that already exists.
ForeignPush ==
  /\ Fault
  /\ \E o \in Oids \ {remote} :
       /\ \/ objects[o] # NoObject /\ UNCHANGED objects
          \/ /\ objects[o] = NoObject
             /\ \E facts \in CommitFacts :
                  /\ facts.parent = (IF remote = RefMissing THEN NoCommit ELSE remote)
                  /\ \A p \in Oids : objects[p] # facts
                  /\ objects' = [objects EXCEPT ![o] = facts]
       /\ remote' = o
  /\ holder' = Others
  /\ UNCHANGED <<target, tampered, orphans, durable, memory>>

RefDeleted ==
  /\ Fault
  /\ remote' = RefMissing
  /\ holder' = Others
  /\ UNCHANGED <<objects, target, tampered, orphans, durable, memory>>

\* An object is lost, replaced, re-typed or restored behind the publisher's back.
Tamper(a) ==
  /\ Fault
  /\ \E stored \in Stored \ {target[a]} : target' = [target EXCEPT ![a] = stored]
  /\ tampered' = tampered \cup {a}
  /\ UNCHANGED <<objects, remote, holder, orphans, durable, memory>>

\* The operator replaces the clone: it now holds what the remote offers.
CloneReplaced(w) ==
  /\ Fault
  /\ pc[w] = "Idle"
  /\ local' = [local EXCEPT ![w] = {remote} \cap Oids]
  /\ UNCHANGED <<shared, intents, projections, refFacts, assetFacts, memory>>

\* The operator fetches; the program itself never does.
Fetch(w) ==
  /\ remote \in Oids \ local[w]
  /\ local' = [local EXCEPT ![w] = @ \cup {remote}]
  /\ UNCHANGED <<shared, intents, projections, refFacts, assetFacts, memory, faults>>

----------------------------------------------------------------------------
(* The specification *)

\* The ref exists; runs an earlier release stored want a child of it, which
\* their workspace still holds, and name neither a spec nor a projection.
Init ==
  /\ \E root \in Oids, facts \in CommitFacts, w \in Workspaces :
       /\ facts.parent = NoCommit
       /\ remote = root
       /\ \/ /\ LegacyRuns = {}
             /\ objects = [o \in Oids |-> IF o = root THEN facts ELSE NoObject]
             /\ intents = [r \in Runs |-> NoIntent]
             /\ local = [v \in Workspaces |-> {root}]
          \/ /\ LegacyRuns # {}
             /\ \E old \in Oids \ {root}, child \in CommitFacts :
                  /\ child.parent = root /\ child.tree # facts.tree
                  /\ objects = [o \in Oids |-> IF o = root THEN facts
                                              ELSE IF o = old THEN child ELSE NoObject]
                  /\ intents = [r \in Runs |->
                       IF r \in LegacyRuns
                       THEN [ws |-> w, base |-> root, reviewed |-> child.tree,
                             desired |-> old, spec |-> NoSpec, delivery |-> NoDelivery]
                       ELSE NoIntent]
                  /\ local = [v \in Workspaces |-> IF v = w THEN {root, old} ELSE {root}]
  /\ holder = Others
  /\ target \in [Assets -> Stored]
  /\ tampered = {}
  /\ orphans = [r \in Runs |-> 0]
  /\ projections = [w \in Workspaces |-> {}]
  /\ refFacts = {}
  /\ assetFacts = {}
  /\ pc = [w \in Workspaces |-> "Idle"]
  /\ run = [w \in Workspaces |-> NoRun]
  /\ git = [w \in Workspaces |-> "None"]
  /\ verified = [w \in Workspaces |-> {}]
  /\ at = [w \in Workspaces |-> NoLocals]
  /\ faults = 0

\* Steps the program or the server takes by itself once an execution started.
Progress(w) ==
  \/ \E d \in Deliveries : FreezeDelivery(w, d)
  \/ PrepareIntent(w)
  \/ PrepareFails(w)
  \/ SaveIntent(w)
  \/ ObserveRef(w)
  \/ ReconcileRef(w)
  \/ EnsureDesiredCommit(w)
  \/ InspectAsset(w)
  \/ JudgeAsset(w)
  \/ PlaceAsset(w)
  \/ GateDone(w)
  \/ SendPush(w)
  \/ ServerAnswers(w)
  \/ PushReports(w)
  \/ PostObserveRef(w)
  \/ ClassifyResult(w)

Next ==
  \/ \E w \in Workspaces :
       \/ \E r \in Runs : ObserveBase(w, r)
       \/ \E r \in Runs : Resume(w, r)
       \/ Progress(w)
       \/ ServerRefuses(w)
       \/ PushMisreports(w)
       \/ PostObserveFails(w)
       \/ Abort(w)
       \/ CloneReplaced(w)
       \/ Fetch(w)
  \/ \E r \in Runs : OrphanLands(r)
  \/ ForeignPush
  \/ RefDeleted
  \/ \E a \in Assets : Tamper(a)

Spec == Init /\ [][Next]_vars

\* Started executions run on, the server answers, and the operator resumes a
\* persisted run again and again; nobody else owes a step.
Fairness ==
  \A w \in Workspaces :
    /\ WF_vars(Progress(w))
    /\ \A r \in Runs : SF_vars(Resume(w, r))

FairSpec == Spec /\ Fairness

----------------------------------------------------------------------------
(* Properties *)

\* The variables hold values of their types.
TypeOK ==
  /\ objects \in [Oids -> CommitFacts \cup {NoObject}]
  /\ remote \in RefState
  /\ holder \in Runs \cup {Others}
  /\ target \in [Assets -> Stored]
  /\ tampered \subseteq Assets
  /\ orphans \in [Runs -> Nat]
  /\ local \in [Workspaces -> SUBSET Oids]
  /\ intents \in [Runs -> PublishRun \cup {NoIntent}]
  /\ projections \in [Workspaces -> SUBSET Deliveries]
  /\ refFacts \subseteq Runs \X RefState
  /\ assetFacts \subseteq Runs \X Assets \X Verdicts
  /\ pc \in [Workspaces -> Phases]
  /\ run \in [Workspaces -> Runs \cup {NoRun}]
  /\ git \in [Workspaces -> GitResults]
  /\ verified \in [Workspaces -> SUBSET Assets]
  /\ at \in [Workspaces -> Locals]
  /\ faults \in Nat

Bound(r) == intents[r] # NoIntent /\ intents[r].delivery # NoDelivery

\* While the ref is where run r put it, every asset r's documents point at is
\* on the target as frozen, unless somebody else touched it: no interleaving of
\* workspaces, late pushes and retries gets past the asset gate.
AssetGateHolds ==
  \A r \in Runs : holder = r =>
    \A a \in RequiredSet(r) : target[a] = "Frozen" \/ a \in tampered

\* What run r made public is the tree that was reviewed on the base it was
\* reviewed against: its managed root is the frozen text and everything outside
\* the managed root is the base's own.
PublishedTreeWasReviewed ==
  \A r \in Runs : holder = r =>
    LET intent == intents[r]
    IN /\ remote = intent.desired
       /\ objects[remote].parent = intent.base
       /\ objects[remote].tree = intent.reviewed
       /\ Bound(r) => /\ objects[remote].tree.managed = TextOf[intent.delivery]
                      /\ objects[remote].tree.rest = objects[intent.base].tree.rest

\* The publisher only ever replaces a commit by its own child: whatever late,
\* repeated or misreported pushes do, nobody's commit is overwritten.
OnlyFastForwards ==
  [][holder' \in Runs /\ remote' # remote => objects[remote'].parent = remote]_vars

\* No push is sent, survives its client or takes effect before the facts that
\* authorise it are durable: the base observed on the ref, and every required
\* asset observed ready.
EffectsAreAudited ==
  \A r \in Runs :
    (holder = r \/ orphans[r] > 0 \/ \E w \in Workspaces : run[w] = r /\ pc[w] = "Pushing")
    => /\ <<r, intents[r].base>> \in refFacts
       /\ \A a \in RequiredSet(r) : <<r, a, "Ready">> \in assetFacts

\* An execution that returns a satisfied result saw the ref hold the desired
\* state and proved every required asset itself, not in an earlier attempt.
SatisfiedIsEvidenced ==
  \A w \in Workspaces : pc[w] = "Idle" /\ git[w] \in GitSatisfied =>
    LET intent == intents[run[w]]
    IN /\ <<run[w], IF git[w] = "NoopSatisfied" THEN intent.base ELSE intent.desired>>
            \in refFacts
       /\ RequiredSet(run[w]) \subseteq verified[w]

\* A saved intent never depends on memory: the projection it binds is durable,
\* and from the intent and that projection alone the desired commit is rebuilt.
IntentIsReconstructible ==
  \A r \in Runs : Bound(r) =>
    LET intent == intents[r]
    IN /\ intent.delivery \in projections[intent.ws]
       /\ Materialize(intent.base, TextOf[intent.delivery]) = intent.reviewed
       /\ intent.desired # NoCommit =>
            /\ objects[intent.desired] = intent.spec
            /\ intent.spec.parent = intent.base /\ intent.spec.tree = intent.reviewed

\* The ref value run r is satisfied with.
Goal(r) == IF intents[r].desired = NoCommit THEN intents[r].base ELSE intents[r].desired

Occupied(r) == \E a \in RequiredSet(r) : target[a] \in {"Retyped", "Other"}

\* A saved intent that keeps being resumed never stays pending, wherever its
\* executions were cut off: in the end the ref has moved on from its base, or an
\* object that is not the frozen one occupies a key, or the clone lost the base.
SavedRunSettles ==
  \A r \in Runs : Bound(r) ~>
    /\ Bound(r)
    /\ \/ remote = Goal(r)
       \/ remote # intents[r].base
       \/ Occupied(r)
       \/ intents[r].base \notin local[intents[r].ws]

\* While the ref holds what a resumed run wants, an object that goes missing from
\* the asset target is put back.
LostAssetsComeBack ==
  \A r \in Runs : Bound(r) ~>
    /\ Bound(r)
    /\ remote = Goal(r) =>
         Occupied(r) \/ \A a \in RequiredSet(r) : target[a] = "Frozen"

----------------------------------------------------------------------------
(* What a publication promises, independent of how it is carried out. *)

Contract ==
  INSTANCE PublicRef WITH
    Commits <- Oids,
    ref     <- remote,
    plan    <- [r \in Runs |->
                 IF intents[r] = NoIntent THEN NoIntent
                 ELSE [base    |-> intents[r].base,
                       desired |-> Goal(r),
                       needs   |-> RequiredSet(r)]],
    proven  <- {<<f[1], f[2]>> : f \in {g \in assetFacts : g[3] = "Ready"}},
    NoPlan  <- NoIntent

\* Every behaviour of the engine is a behaviour of the contract.
ImplementsContract == Contract!Spec
=============================================================================
