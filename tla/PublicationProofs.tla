------------------------- MODULE PublicationProofs -------------------------
(***************************************************************************)
(* Theorems about Publication, for every number of workspaces, runs,       *)
(* commits, assets and faults.                                             *)
(***************************************************************************)
EXTENDS Publication, TLAPS

Preparing == {"BaseObserved", "DeliveryFrozen", "IntentBuilt"}
Executing == Phases \ (Preparing \cup {"Idle"})
AtAsset   == {"Inspected", "Missing", "Placed", "Reinspected"}
AfterGate == {"Push", "Pushing", "Pushed", "PostObserved"}

(* The inductive invariant, by parts *)

\* Only existing commits are on the ref.
RemoteExists == remote \in Oids => objects[remote] # NoObject

\* A run id under preparation belongs to one workspace and to no saved intent.
IdsReserved ==
  \A w \in Workspaces : pc[w] \in Preparing =>
    /\ run[w] \in Runs
    /\ intents[run[w]] = NoIntent
    /\ \A v \in Workspaces \ {w} : run[v] # run[w]

\* What an intent of workspace w says is backed by existing objects and by
\* durable projections; only an intent without a projection may lack a spec.
Sound(w, i) ==
  /\ i \in PublishRun
  /\ i.ws = w
  /\ objects[i.base] # NoObject
  /\ i.delivery # NoDelivery =>
       /\ i.delivery \in projections[w]
       /\ Materialize(i.base, TextOf[i.delivery]) = i.reviewed
       /\ i.desired # NoCommit =>
            /\ i.spec \in CommitFacts
            /\ objects[i.desired] = i.spec
            /\ i.spec.parent = i.base
            /\ i.spec.tree = i.reviewed

PreparingOK(w) ==
  /\ pc[w] \in {"BaseObserved", "DeliveryFrozen"} =>
       at[w].seen \in Oids /\ objects[at[w].seen] # NoObject
  /\ pc[w] = "DeliveryFrozen" => at[w].proj \in projections[w]
  /\ pc[w] = "IntentBuilt" => Sound(w, at[w].draft)

IntentsSound ==
  \A r \in Runs : intents[r] # NoIntent => Sound(intents[r].ws, intents[r])

\* Run r has been shown to be publishable, by durable facts.
Authorised(r) ==
  /\ intents[r] # NoIntent
  /\ intents[r].desired # NoCommit
  /\ CommitVerified(intents[r])
  /\ <<r, intents[r].base>> \in refFacts
  /\ \A a \in RequiredSet(r) : <<r, a, "Ready">> \in assetFacts

\* The facts behind the Git side of what workspace w is doing.
GitFacts(w) ==
  /\ git[w] \in {"NoopSatisfied", "ReadyToPush"} => <<run[w], intents[run[w]].base>> \in refFacts
  /\ git[w] \in {"AlreadyPublished", "Published"} =>
       <<run[w], intents[run[w]].desired>> \in refFacts
  /\ git[w] = "ReadyToPush" => intents[run[w]].desired # NoCommit

ExecutingOK(w) ==
  pc[w] \in Executing =>
    /\ run[w] \in Runs
    /\ intents[run[w]] # NoIntent
    /\ intents[run[w]].ws = w
    /\ pc[w] \in GatePhases \cup {"ReadyToPush"} => GitFacts(w)
    /\ pc[w] = "ReadyToPush" => git[w] = "ReadyToPush"

\* An asset is on the target as frozen, unless somebody else touched it.
Faithful(a) == target[a] = "Frozen" \/ a \in tampered

\* The gate has handled every asset before position pos.
GateOK(w) ==
  /\ pc[w] \in {"Idle", "Loaded", "RefObserved", "ReadyToPush"} => at[w].pos = 1
  /\ pc[w] \in GatePhases =>
       /\ git[w] \in {"NoopSatisfied", "AlreadyPublished", "ReadyToPush"}
       /\ git[w] = "ReadyToPush" => CommitVerified(intents[run[w]])
       /\ at[w].pos \in 1 .. Len(Required(run[w])) + 1
       /\ \A k \in 1 .. at[w].pos - 1 :
            /\ Required(run[w])[k] \in verified[w]
            /\ <<run[w], Required(run[w])[k], "Ready">> \in assetFacts
  /\ pc[w] \in AtAsset => at[w].pos <= Len(Required(run[w]))
  /\ pc[w] \in {"Inspected", "Reinspected"} /\ at[w].found = "Ready" => Faithful(Asset(w))
  /\ pc[w] \in AfterGate =>
       Authorised(run[w]) /\ RequiredSet(run[w]) \subseteq verified[w]

ResultOK(w) ==
  pc[w] = "Idle" /\ git[w] \in GitSatisfied =>
    /\ run[w] \in Runs
    /\ intents[run[w]] # NoIntent
    /\ GitFacts(w)
    /\ RequiredSet(run[w]) \subseteq verified[w]

\* What holds of one workspace.
WorkspaceOK(w) == PreparingOK(w) /\ ExecutingOK(w) /\ GateOK(w) /\ ResultOK(w)

\* Whatever may still move the ref, or moved it last, was authorised.
MovesAuthorised ==
  \A r \in Runs :
    /\ orphans[r] > 0 => Authorised(r)
    /\ holder = r => Authorised(r) /\ remote = intents[r].desired

\* A ready verdict is true of the target until somebody else touches it.
ReadyIsTrue ==
  \A r \in Runs, a \in Assets : <<r, a, "Ready">> \in assetFacts => Faithful(a)

IInv ==
  /\ TypeOK
  /\ RemoteExists
  /\ IdsReserved
  /\ \A w \in Workspaces : WorkspaceOK(w)
  /\ IntentsSound
  /\ MovesAuthorised
  /\ ReadyIsTrue

----------------------------------------------------------------------------
(* Lemmas *)

\* The assets a run requires are assets, and its list is a sequence of them.
LEMMA RequiredType ==
  ASSUME TypeOK, NEW r \in Runs, intents[r] # NoIntent
  PROVE  /\ Required(r) \in Seq(Assets)
         /\ RequiredSet(r) \subseteq Assets
         /\ \A k \in 1 .. Len(Required(r)) : Required(r)[k] \in RequiredSet(r)
<1>1. Required(r) \in Seq(Assets)
  BY ConstantsAssumption DEF TypeOK, PublishRun, Required
<1>2. QED
  BY <1>1 DEF RequiredSet

\* The asset a workspace is at is an asset of its run.
LEMMA AssetType ==
  ASSUME IInv, NEW w \in Workspaces, pc[w] \in AtAsset \cup {"Gate"},
         at[w].pos <= Len(Required(run[w]))
  PROVE  Asset(w) \in Assets /\ run[w] \in Runs /\ Asset(w) \in RequiredSet(run[w])
<1>1. run[w] \in Runs /\ intents[run[w]] # NoIntent /\ WorkspaceOK(w) /\ TypeOK
  BY DEF IInv, WorkspaceOK, ExecutingOK, Executing, Phases, Preparing, AtAsset
<1>2. at[w].pos \in 1 .. Len(Required(run[w]))
  BY <1>1 DEF WorkspaceOK, GateOK, GatePhases, AtAsset
<1>3. QED
  BY <1>1, <1>2, RequiredType DEF Asset

\* A ready verdict can only be had of the frozen representation: an attestation
\* or an unreadable object never yields one.
LEMMA ReadyMeansFrozen ==
  ASSUME TypeOK, NEW a \in Assets
  PROVE  /\ Inspections(a) \subseteq Verdicts
         /\ "Ready" \in Inspections(a) => target[a] = "Frozen"
<1>1. ASSUME NEW stored \in Stored \ {"Absent"}, NEW f \in Facts(stored)
      PROVE  /\ Judge(f) \in Verdicts
             /\ Judge(f) = "Ready" => stored = "Frozen"
  <2>1. /\ f.size \in {"frozen", "other"} /\ f.ctype \in {"frozen", "other"}
        /\ f.proof \in {"Verified", "Attested", "Unavailable"}
        /\ f.bytes \in {"frozen", "other"}
        /\ stored = "Other" /\ f.proof = "Verified" => f.bytes = "other"
        /\ f.ctype = IF stored = "Retyped" THEN "other" ELSE "frozen"
    BY ConstantsAssumption DEF Facts
  <2>2. CASE f.size # "frozen" \/ f.ctype # "frozen"
    BY <2>2 DEF Judge, Verdicts
  <2>3. CASE f.size = "frozen" /\ f.ctype = "frozen" /\ f.proof = "Unavailable"
    BY <2>3 DEF Judge, Verdicts
  <2>4. CASE f.size = "frozen" /\ f.ctype = "frozen" /\ f.proof # "Unavailable"
    <3>1. CASE f.bytes # "frozen"
      BY <2>4, <3>1 DEF Judge, Verdicts
    <3>2. CASE f.bytes = "frozen" /\ f.proof = "Attested"
      BY <2>4, <3>2 DEF Judge, Verdicts
    <3>3. CASE f.bytes = "frozen" /\ f.proof = "Verified"
      <4>1. stored # "Other" /\ stored # "Retyped" => stored = "Frozen"
        BY DEF Stored
      <4>2. Judge(f) = "Ready"
        BY <2>4, <3>3 DEF Judge
      <4>3. QED
        BY <2>1, <2>4, <3>3, <4>1, <4>2 DEF Verdicts
    <3>4. QED
      BY <2>1, <2>4, <3>1, <3>2, <3>3
  <2>5. QED
    BY <2>2, <2>3, <2>4
<1>2. target[a] \in Stored
  BY DEF TypeOK
<1>3. QED
  BY <1>1, <1>2 DEF Inspections, Verdicts

\* What is durable or content-addressed only ever grows.
Grows ==
  /\ \A o \in Oids : objects[o] # NoObject => objects'[o] = objects[o]
  /\ \A r \in Runs : intents[r] # NoIntent => intents'[r] = intents[r]
  /\ \A w \in Workspaces : projections[w] \subseteq projections'[w]
  /\ refFacts \subseteq refFacts'
  /\ assetFacts \subseteq assetFacts'
  /\ \A a \in Assets : Faithful(a) => Faithful(a)'

\* No step takes back a commit, a projection or a recorded fact.
LEMMA GrowsStep ==
  ASSUME IInv, [Next]_vars
  PROVE  Grows
<1> USE DEF IInv
<1> SUFFICES ASSUME Next PROVE Grows
  BY DEF Grows, vars, shared, durable, Faithful
<1>1. ASSUME NEW w \in Workspaces, SaveIntent(w) PROVE Grows
  BY <1>1 DEF SaveIntent, Grows, shared, IdsReserved, Preparing, TypeOK, Faithful
<1>2. ASSUME NEW w \in Workspaces, PrepareIntent(w) PROVE Grows
  BY <1>2 DEF PrepareIntent, CreateCommit, Grows, TypeOK, Faithful
<1>3. ASSUME NEW w \in Workspaces, NEW d \in Deliveries, FreezeDelivery(w, d) PROVE Grows
  BY <1>3 DEF FreezeDelivery, Grows, shared, TypeOK, Faithful
<1>4. ASSUME NEW w \in Workspaces, ReconcileRef(w) \/ ClassifyResult(w) \/ JudgeAsset(w)
      PROVE  Grows
  BY <1>4 DEF ReconcileRef, ClassifyResult, JudgeAsset, Grows, shared, Faithful
<1>5. ASSUME NEW w \in Workspaces, PlaceAsset(w) PROVE Grows
  BY <1>5 DEF PlaceAsset, Grows, durable, TypeOK, Faithful
<1>6. CASE ForeignPush
  BY <1>6 DEF ForeignPush, Grows, durable, TypeOK, Faithful
<1>7. ASSUME NEW a \in Assets, Tamper(a) PROVE Grows
  BY <1>7 DEF Tamper, Grows, durable, TypeOK, Faithful
<1>8. ASSUME UNCHANGED <<objects, target, tampered, intents, projections, refFacts, assetFacts>>
      PROVE  Grows
  BY <1>8 DEF Grows, Faithful
<1>9. QED
  BY <1>1, <1>2, <1>3, <1>4, <1>5, <1>6, <1>7, <1>8, ZenonT(40)
  DEF Next, Progress, shared, durable, ObserveBase, Resume, PrepareFails, ObserveRef,
      EnsureDesiredCommit, InspectAsset, GateDone, SendPush, ServerAnswers, ServerRefuses,
      PushReports, PushMisreports, OrphanLands, PostObserveRef, PostObserveFails, Abort,
      RefDeleted, CloneReplaced, Fetch

(* What holds of an intent, an authorisation or a workspace survives growth *)

\* An intent that is sound stays sound as the durable state grows.
LEMMA SoundStable ==
  ASSUME TypeOK, TypeOK', Grows, NEW w \in Workspaces, NEW i, Sound(w, i)
  PROVE  Sound(w, i)'
<1>1. i \in PublishRun /\ i.base \in Oids /\ i.desired \in Oids \cup {NoCommit}
  BY DEF Sound, PublishRun
<1>2. objects'[i.base] = objects[i.base] /\ projections[w] \subseteq projections'[w]
  BY <1>1 DEF Sound, Grows
<1>3. ASSUME i.delivery # NoDelivery, i.desired # NoCommit
      PROVE  objects'[i.desired] = objects[i.desired]
  BY <1>1, <1>3, SentinelsAssumption DEF Sound, Grows
<1>4. QED
  BY <1>1, <1>2, <1>3 DEF Sound, Materialize

\* What a saved run requires is what it will always require.
LEMMA RequiredStable ==
  ASSUME Grows, NEW r \in Runs, intents[r] # NoIntent
  PROVE  /\ intents'[r] = intents[r]
         /\ Required(r)' = Required(r)
         /\ RequiredSet(r)' = RequiredSet(r)
  BY DEF Grows, Required, RequiredSet

\* What authorised a push goes on authorising it.
LEMMA AuthorisedStable ==
  ASSUME TypeOK, Grows, NEW r \in Runs, Authorised(r)
  PROVE  Authorised(r)'
<1>1. intents[r] \in PublishRun /\ intents[r].desired \in Oids
  BY DEF Authorised, TypeOK, PublishRun
<1>2. CommitVerified(intents[r])' /\ intents'[r] = intents[r]
  <2>1. DEFINE i == intents[r]
  <2> HIDE DEF i
  <2>2. i.desired \in Oids /\ CommitVerified(i)
    BY <1>1 DEF Authorised, i
  <2>3. CommitVerified(intents[r])
    BY DEF Authorised
  <2>4. QED
    BY <1>1, <2>3 DEF Grows, Authorised, CommitVerified
<1>3. QED
  BY <1>2, RequiredStable DEF Authorised, Grows

\* A step that leaves a workspace's memory alone leaves what holds of it intact.
Untouched(w) ==
  /\ pc'[w] = pc[w] /\ run'[w] = run[w] /\ git'[w] = git[w]
  /\ verified'[w] = verified[w] /\ at'[w] = at[w]

\* What a workspace knows survives a step that leaves its memory alone.
LEMMA WorkspaceFrame ==
  ASSUME TypeOK, TypeOK', Grows, NEW w \in Workspaces, WorkspaceOK(w), Untouched(w)
  PROVE  WorkspaceOK(w)'
<1> USE DEF Untouched
<1>1. PreparingOK(w)'
  <2>1. pc[w] = "IntentBuilt" => Sound(w, at[w].draft)'
    BY SoundStable DEF WorkspaceOK, PreparingOK
  <2>2. QED
    BY <2>1 DEF WorkspaceOK, PreparingOK, Grows
<1>2. ExecutingOK(w)'
  BY RequiredStable DEF WorkspaceOK, ExecutingOK, GitFacts, Grows
<1>3. GateOK(w)'
  <2>1. CASE pc[w] \in GatePhases
    <3>1. /\ run[w] \in Runs /\ intents[run[w]] # NoIntent
          /\ intents'[run[w]] = intents[run[w]]
          /\ Required(run[w])' = Required(run[w])
      BY <2>1, RequiredStable
      DEF WorkspaceOK, ExecutingOK, Executing, Phases, Preparing, GatePhases
    <3>2. git[w] = "ReadyToPush" => CommitVerified(intents[run[w]])'
      <4> SUFFICES ASSUME git[w] = "ReadyToPush" PROVE CommitVerified(intents[run[w]])'
        OBVIOUS
      <4>1. CommitVerified(intents[run[w]]) /\ intents[run[w]].desired \in Oids
        BY <2>1, <3>1 DEF WorkspaceOK, GateOK, ExecutingOK, GitFacts, TypeOK, PublishRun,
                        Executing, Phases, Preparing, GatePhases
      <4>2. QED
        BY <3>1, <4>1 DEF CommitVerified, Grows
    <3>3. pc[w] \in AtAsset => Asset(w) \in Assets /\ Asset(w)' = Asset(w)
      BY <2>1, <3>1, RequiredType DEF WorkspaceOK, GateOK, Asset, AtAsset
    <3>4. QED
      BY <2>1, <3>1, <3>2, <3>3 DEF WorkspaceOK, GateOK, Grows, GatePhases, AtAsset, AfterGate
  <2>2. CASE pc[w] \in AfterGate
    <3>1. run[w] \in Runs /\ intents[run[w]] # NoIntent
      BY <2>2 DEF WorkspaceOK, ExecutingOK, Executing, Phases, Preparing, AfterGate
    <3>2. Authorised(run[w])' /\ RequiredSet(run[w])' = RequiredSet(run[w])
      BY <2>2, <3>1, RequiredStable, AuthorisedStable DEF WorkspaceOK, GateOK
    <3>3. QED
      BY <2>2, <3>2 DEF WorkspaceOK, GateOK, GatePhases, AtAsset, AfterGate
  <2>3. CASE pc[w] \notin GatePhases \cup AfterGate
    BY <2>3 DEF WorkspaceOK, GateOK, GatePhases, AtAsset
  <2>4. QED
    BY <2>1, <2>2, <2>3
<1>4. ResultOK(w)'
  BY RequiredStable DEF WorkspaceOK, ResultOK, GitFacts, Grows
<1>5. QED
  BY <1>1, <1>2, <1>3, <1>4 DEF WorkspaceOK

----------------------------------------------------------------------------
(* Every step preserves the type invariant *)

\* Returning, or moving on with the locals as they are, keeps the types.
LEMMA ReturnType ==
  ASSUME TypeOK, NEW w \in Workspaces, NEW g \in GitResults, Return(w, g)
  PROVE  /\ pc' \in [Workspaces -> Phases]
         /\ git' \in [Workspaces -> GitResults]
         /\ at' \in [Workspaces -> Locals]
<1>1. NoLocals \in Locals
  BY DEF NoLocals, Locals, RefState, Verdicts
<1>2. "Idle" \in Phases
  BY DEF Phases
<1>3. QED
  BY <1>1, <1>2 DEF Return, TypeOK

\* A commit created from well-typed facts keeps the types.
LEMMA CreateType ==
  ASSUME TypeOK, NEW w \in Workspaces, NEW o \in Oids, NEW facts \in CommitFacts,
         CreateCommit(w, o, facts)
  PROVE  /\ objects' \in [Oids -> CommitFacts \cup {NoObject}]
         /\ local' \in [Workspaces -> SUBSET Oids]
  BY DEF CreateCommit, TypeOK

\* An authorised run can only move the ref to a commit.
LEMMA SwapType ==
  ASSUME TypeOK, NEW r \in Runs, Authorised(r), NEW ok, CompareAndSwap(r, ok)
  PROVE  remote' \in RefState /\ holder' \in Runs \cup {Others}
  BY DEF TypeOK, Authorised, CompareAndSwap, PublishRun, RefState

\* Writing one local keeps the types.
LEMMA LocalsType ==
  ASSUME TypeOK, NEW w \in Workspaces
  PROVE  /\ \A d \in Deliveries : [at EXCEPT ![w].proj = d] \in [Workspaces -> Locals]
         /\ \A i \in PublishRun : [at EXCEPT ![w].draft = i] \in [Workspaces -> Locals]
         /\ \A s \in RefState : [at EXCEPT ![w].seen = s] \in [Workspaces -> Locals]
         /\ \A v \in Verdicts : [at EXCEPT ![w].found = v] \in [Workspaces -> Locals]
         /\ [at EXCEPT ![w].pos = @ + 1] \in [Workspaces -> Locals]
         /\ \A a \in {"None", "Waiting", "Applied", "Refused"} :
              [at EXCEPT ![w].ack = a] \in [Workspaces -> Locals]
         /\ \A c \in {"None", "Updated", "Rejected"} :
              [at EXCEPT ![w].cas = c] \in [Workspaces -> Locals]
         /\ [at EXCEPT ![w].cas = "Rejected", ![w].ack = "None"] \in [Workspaces -> Locals]
<1>1. at \in [Workspaces -> Locals] /\ at[w] \in Locals
  BY DEF TypeOK
<1>2. \A d \in Deliveries : [at[w] EXCEPT !.proj = d] \in Locals
  BY <1>1 DEF Locals
<1>3. \A i \in PublishRun : [at[w] EXCEPT !.draft = i] \in Locals
  BY <1>1 DEF Locals
<1>4. \A s \in RefState : [at[w] EXCEPT !.seen = s] \in Locals
  BY <1>1 DEF Locals
<1>5. \A v \in Verdicts : [at[w] EXCEPT !.found = v] \in Locals
  BY <1>1 DEF Locals
<1>6. [at[w] EXCEPT !.pos = @ + 1] \in Locals
  BY <1>1 DEF Locals
<1>7. \A a \in {"None", "Waiting", "Applied", "Refused"} : [at[w] EXCEPT !.ack = a] \in Locals
  BY <1>1 DEF Locals
<1>8. \A c \in {"None", "Updated", "Rejected"} : [at[w] EXCEPT !.cas = c] \in Locals
  BY <1>1 DEF Locals
<1>9. [at EXCEPT ![w].cas = "Rejected", ![w].ack = "None"] \in [Workspaces -> Locals]
  <2>1. [[at[w] EXCEPT !.cas = "Rejected"] EXCEPT !.ack = "None"] \in Locals
    BY <1>1 DEF Locals
  <2>2. QED
    BY <1>1, <2>1
<1>10. QED
  BY <1>1, <1>2, <1>3, <1>4, <1>5, <1>6, <1>7, <1>8, <1>9

\* Every step keeps the types.
LEMMA TypeStep ==
  ASSUME IInv, [Next]_vars
  PROVE  TypeOK'
<1> USE DEF IInv
<1> SUFFICES ASSUME Next PROVE TypeOK'
  BY DEF TypeOK, vars, shared, durable, memory
<1>1. ASSUME NEW w \in Workspaces, NEW r \in Runs, ObserveBase(w, r) PROVE TypeOK'
  <2>1. CASE remote = RefMissing
    BY <1>1, <2>1, ReturnType DEF ObserveBase, TypeOK, shared, durable, GitResults
  <2>2. CASE remote # RefMissing
    <3>1. at' = [at EXCEPT ![w].seen = remote]
      BY <1>1, <2>2 DEF ObserveBase
    <3>2. at' \in [Workspaces -> Locals]
      BY <3>1, LocalsType DEF TypeOK
    <3>3. QED
      BY <1>1, <2>2, <3>2 DEF ObserveBase, TypeOK, shared, durable, GitResults, Goto, Phases
  <2>3. QED
    BY <2>1, <2>2
<1>2. ASSUME NEW w \in Workspaces, NEW r \in Runs, Resume(w, r) PROVE TypeOK'
  BY <1>2 DEF Resume, TypeOK, shared, durable, Goto, Phases, GitResults
<1>3. ASSUME NEW w \in Workspaces, NEW d \in Deliveries, FreezeDelivery(w, d) PROVE TypeOK'
  <2>1. at' \in [Workspaces -> Locals]
    BY <1>3, LocalsType DEF FreezeDelivery
  <2>2. QED
    BY <1>3, <2>1 DEF FreezeDelivery, TypeOK, shared, Goto, Phases
<1>4. ASSUME NEW w \in Workspaces, PrepareIntent(w) PROVE TypeOK'
  <2> DEFINE base     == at[w].seen
             d        == at[w].proj
             reviewed == Materialize(base, TextOf[d])
             Intent(desired, spec) ==
               [ws |-> w, base |-> base, reviewed |-> reviewed, desired |-> desired,
                spec |-> spec, delivery |-> d]
  <2>1. base \in Oids /\ objects[base] \in CommitFacts /\ d \in Deliveries
    BY <1>4 DEF PrepareIntent, WorkspaceOK, PreparingOK, TypeOK
  <2>2. reviewed \in Tree
    BY <2>1, ConstantsAssumption DEF Materialize, CommitFacts, Tree
  <2>3. ASSUME at' = [at EXCEPT ![w].draft = Intent(NoCommit, NoSpec)], UNCHANGED <<objects, local>>
        PROVE  TypeOK'
    <3>1. Intent(NoCommit, NoSpec) \in PublishRun
      BY <2>1, <2>2 DEF PublishRun
    <3>2. at' \in [Workspaces -> Locals]
      BY <2>3, <3>1, LocalsType
    <3>3. QED
      BY <1>4, <2>3, <3>2 DEF PrepareIntent, TypeOK, Goto, Phases
  <2>4. ASSUME NEW o \in Oids, NEW stamp \in Stamps,
               CreateCommit(w, o, [parent |-> base, tree |-> reviewed, stamp |-> stamp]),
               at' = [at EXCEPT ![w].draft =
                        Intent(o, [parent |-> base, tree |-> reviewed, stamp |-> stamp])]
        PROVE  TypeOK'
    <3> DEFINE spec == [parent |-> base, tree |-> reviewed, stamp |-> stamp]
    <3>1. spec \in CommitFacts
      BY <2>1, <2>2 DEF CommitFacts
    <3>2. Intent(o, spec) \in PublishRun
      BY <2>1, <2>2, <3>1 DEF PublishRun
    <3>3. at' \in [Workspaces -> Locals]
      BY <2>4, <3>2, LocalsType
    <3>4. objects' \in [Oids -> CommitFacts \cup {NoObject}] /\ local' \in [Workspaces -> SUBSET Oids]
      BY <2>4, <3>1, CreateType
    <3>5. QED
      BY <1>4, <3>3, <3>4 DEF PrepareIntent, TypeOK, Goto, Phases
  <2>5. QED
    BY <1>4, <2>3, <2>4 DEF PrepareIntent
<1>5. ASSUME NEW w \in Workspaces, PrepareFails(w) PROVE TypeOK'
  BY <1>5, ReturnType DEF PrepareFails, TypeOK, shared, durable, GitResults
<1>6. ASSUME NEW w \in Workspaces, SaveIntent(w) PROVE TypeOK'
  <2>1. run[w] \in Runs /\ at[w].draft \in PublishRun
    BY <1>6 DEF SaveIntent, IdsReserved, Preparing, WorkspaceOK, PreparingOK, Sound
  <2>2. NoLocals \in Locals
    BY DEF NoLocals, Locals, RefState, Verdicts
  <2>3. QED
    BY <1>6, <2>1, <2>2 DEF SaveIntent, TypeOK, shared, Goto, Phases
<1>7. ASSUME NEW w \in Workspaces, ObserveRef(w) PROVE TypeOK'
  BY <1>7, LocalsType DEF ObserveRef, TypeOK, shared, durable, Goto, Phases
<1>8. ASSUME NEW w \in Workspaces, ReconcileRef(w) PROVE TypeOK'
  <2>1. refFacts' \subseteq Runs \X RefState
    BY <1>8 DEF ReconcileRef, TypeOK, Locals, WorkspaceOK, ExecutingOK, Executing, Phases, Preparing
  <2>2. CASE UNCHANGED at
    BY <1>8, <2>1, <2>2, ReturnType
    DEF ReconcileRef, TypeOK, shared, Goto, Phases, GitResults
  <2>3. ASSUME NEW g \in {"RemoteChanged", "TargetMissing"}, Return(w, g) PROVE TypeOK'
    BY <1>8, <2>1, <2>3, ReturnType DEF ReconcileRef, TypeOK, shared, GitResults
  <2>4. QED
    BY <1>8, <2>2, <2>3 DEF ReconcileRef
<1>9. ASSUME NEW w \in Workspaces, EnsureDesiredCommit(w) PROVE TypeOK'
  <2>1. run[w] \in Runs /\ intents[run[w]].desired \in Oids
    <3>1. /\ run[w] \in Runs /\ intents[run[w]] # NoIntent
          /\ intents[run[w]].desired # NoCommit
      BY <1>9 DEF EnsureDesiredCommit, WorkspaceOK, ExecutingOK, GitFacts,
                  Executing, Phases, Preparing
    <3>2. intents[run[w]] \in PublishRun
      BY <3>1 DEF TypeOK
    <3>3. QED
      BY <3>1, <3>2 DEF PublishRun
  <2>2. CASE UNCHANGED <<git, at>> /\ Goto(w, "Gate")
    BY <1>9, <2>1, <2>2 DEF EnsureDesiredCommit, TypeOK, shared, Goto, Phases
  <2>3. CASE Return(w, "Error")
    BY <1>9, <2>1, <2>3, ReturnType DEF EnsureDesiredCommit, TypeOK, shared, GitResults
  <2>4. QED
    BY <1>9, <2>2, <2>3 DEF EnsureDesiredCommit
<1>10. ASSUME NEW w \in Workspaces, InspectAsset(w) PROVE TypeOK'
  <2>1. Inspections(Asset(w)) \subseteq Verdicts
    BY <1>10, AssetType, ReadyMeansFrozen DEF InspectAsset, AtAsset
  <2>2. PICK verdict \in Inspections(Asset(w)) : at' = [at EXCEPT ![w].found = verdict]
    BY <1>10 DEF InspectAsset
  <2>3. at' \in [Workspaces -> Locals]
    BY <2>1, <2>2, LocalsType
  <2>4. QED
    BY <1>10, <2>3 DEF InspectAsset, TypeOK, shared, durable, Goto, Phases
<1>11. ASSUME NEW w \in Workspaces, JudgeAsset(w) PROVE TypeOK'
  <2>1. Asset(w) \in Assets /\ run[w] \in Runs
    BY <1>11, AssetType DEF JudgeAsset, AtAsset, WorkspaceOK, GateOK
  <2>2. assetFacts' \subseteq Runs \X Assets \X Verdicts
    BY <1>11, <2>1 DEF JudgeAsset, TypeOK, Locals
  <2>3. CASE /\ verified' = [verified EXCEPT ![w] = @ \cup {Asset(w)}]
             /\ at' = [at EXCEPT ![w].pos = @ + 1]
             /\ Goto(w, "Gate")
             /\ UNCHANGED git
    <3>1. at' \in [Workspaces -> Locals]
      BY <2>3, LocalsType
    <3>2. verified' \in [Workspaces -> SUBSET Assets]
      BY <2>1, <2>3 DEF TypeOK
    <3>3. QED
      BY <1>11, <2>2, <2>3, <3>1, <3>2 DEF JudgeAsset, TypeOK, shared, Goto, Phases
  <2>4. CASE Goto(w, "Missing") /\ UNCHANGED <<git, verified, at>>
    BY <1>11, <2>2, <2>4 DEF JudgeAsset, TypeOK, shared, Goto, Phases
  <2>5. CASE Return(w, "Error") /\ UNCHANGED verified
    BY <1>11, <2>2, <2>5, ReturnType DEF JudgeAsset, TypeOK, shared, GitResults
  <2>6. QED
    BY <1>11, <2>3, <2>4, <2>5 DEF JudgeAsset
<1>12. ASSUME NEW w \in Workspaces, PlaceAsset(w) PROVE TypeOK'
  <2>1. CASE Return(w, "Error") /\ UNCHANGED target
    BY <1>12, <2>1, ReturnType DEF PlaceAsset, TypeOK, durable, GitResults
  <2>2. CASE /\ target' = [target EXCEPT ![Asset(w)] = "Frozen"]
             /\ Goto(w, "Placed")
             /\ UNCHANGED <<git, at>>
    BY <1>12, <2>2 DEF PlaceAsset, TypeOK, durable, Goto, Phases, Stored
  <2>3. QED
    BY <1>12, <2>1, <2>2 DEF PlaceAsset
<1>13. ASSUME NEW w \in Workspaces, GateDone(w) PROVE TypeOK'
  BY <1>13, ReturnType DEF GateDone, TypeOK, shared, durable, Goto, Phases
<1>14. ASSUME NEW w \in Workspaces, SendPush(w) PROVE TypeOK'
  BY <1>14, LocalsType DEF SendPush, TypeOK, shared, durable, Goto, Phases
<1>15. ASSUME NEW w \in Workspaces, ServerAnswers(w) PROVE TypeOK'
  <2>1. Authorised(run[w]) /\ run[w] \in Runs
    BY <1>15 DEF ServerAnswers, WorkspaceOK, GateOK, ExecutingOK, AfterGate, Executing, Phases,
                 Preparing
  <2>2. remote' \in RefState /\ holder' \in Runs \cup {Others}
    BY <1>15, <2>1, SwapType DEF ServerAnswers
  <2>3. at' \in [Workspaces -> Locals]
    <3>1. PICK ok \in BOOLEAN :
            at' = [at EXCEPT ![w].ack = IF ok THEN "Applied" ELSE "Refused"]
      BY <1>15 DEF ServerAnswers
    <3>2. CASE ok
      BY <3>1, <3>2, LocalsType
    <3>3. CASE ~ ok
      BY <3>1, <3>3, LocalsType
    <3>4. QED
      BY <3>2, <3>3
  <2>4. QED
    BY <1>15, <2>2, <2>3 DEF ServerAnswers, TypeOK, durable
<1>16. ASSUME NEW w \in Workspaces, ServerRefuses(w) PROVE TypeOK'
  <2>1. at' \in [Workspaces -> Locals]
    BY <1>16, LocalsType DEF ServerRefuses
  <2>2. QED
    BY <1>16, <2>1 DEF ServerRefuses, TypeOK, shared, durable, Fault
<1>17. ASSUME NEW w \in Workspaces, PushReports(w) PROVE TypeOK'
  BY <1>17, LocalsType DEF PushReports, TypeOK, shared, durable, Goto, Phases
<1>18. ASSUME NEW w \in Workspaces, PushMisreports(w) PROVE TypeOK'
  <2>1. run[w] \in Runs
    BY <1>18 DEF PushMisreports, WorkspaceOK, ExecutingOK, Executing, Phases, Preparing
  <2>2. orphans' \in [Runs -> Nat]
    BY <1>18, <2>1 DEF PushMisreports, Orphan, TypeOK
  <2>3. at' \in [Workspaces -> Locals]
    BY <1>18, LocalsType DEF PushMisreports
  <2>4. QED
    BY <1>18, <2>2, <2>3 DEF PushMisreports, Fault, TypeOK, durable, Goto, Phases
<1>19. ASSUME NEW r \in Runs, OrphanLands(r) PROVE TypeOK'
  <2>1. Authorised(r)
    BY <1>19 DEF OrphanLands, MovesAuthorised
  <2>2. remote' \in RefState /\ holder' \in Runs \cup {Others}
    BY <1>19, <2>1, SwapType DEF OrphanLands
  <2>3. orphans' \in [Runs -> Nat]
    BY <1>19 DEF OrphanLands, TypeOK
  <2>4. QED
    BY <1>19, <2>2, <2>3 DEF OrphanLands, TypeOK, durable, memory
<1>20. ASSUME NEW w \in Workspaces, PostObserveRef(w) PROVE TypeOK'
  BY <1>20, LocalsType DEF PostObserveRef, TypeOK, shared, durable, Goto, Phases
<1>21. ASSUME NEW w \in Workspaces, PostObserveFails(w) PROVE TypeOK'
  BY <1>21, ReturnType DEF PostObserveFails, Fault, TypeOK, shared, durable, GitResults
<1>22. ASSUME NEW w \in Workspaces, ClassifyResult(w) PROVE TypeOK'
  <2>1. refFacts' \subseteq Runs \X RefState
    <3>1. run[w] \in Runs
      BY <1>22 DEF ClassifyResult, WorkspaceOK, ExecutingOK, Executing, Phases, Preparing
    <3>2. at[w].seen \in RefState
      BY DEF TypeOK, Locals
    <3>3. QED
      BY <1>22, <3>1, <3>2 DEF ClassifyResult, TypeOK
  <2>2. PICK g \in GitResults : Return(w, g)
    BY <1>22 DEF ClassifyResult, GitResults, Reconcile
  <2>3. QED
    BY <1>22, <2>1, <2>2, ReturnType DEF ClassifyResult, TypeOK, shared
<1>23. ASSUME NEW w \in Workspaces, Abort(w) PROVE TypeOK'
  <2>1. orphans' \in [Runs -> Nat]
    BY <1>23 DEF Abort, Orphan, TypeOK, WorkspaceOK, ExecutingOK, Executing, Phases, Preparing
  <2>2. QED
    BY <1>23, <2>1, ReturnType DEF Abort, Fault, TypeOK, durable, GitResults
<1>24. CASE ForeignPush
  BY <1>24 DEF ForeignPush, Fault, TypeOK, durable, memory, RefState
<1>25. CASE RefDeleted
  BY <1>25 DEF RefDeleted, Fault, TypeOK, durable, memory, RefState
<1>26. ASSUME NEW a \in Assets, Tamper(a) PROVE TypeOK'
  BY <1>26 DEF Tamper, Fault, TypeOK, durable, memory
<1>27. ASSUME NEW w \in Workspaces, CloneReplaced(w) \/ Fetch(w) PROVE TypeOK'
  BY <1>27 DEF CloneReplaced, Fetch, Fault, TypeOK, shared, memory, RefState
<1>28. QED
  BY <1>1, <1>2, <1>3, <1>4, <1>5, <1>6, <1>7, <1>8, <1>9, <1>10, <1>11, <1>12, <1>13, <1>14,
     <1>15, <1>16, <1>17, <1>18, <1>19, <1>20, <1>21, <1>22, <1>23, <1>24, <1>25, <1>26, <1>27
  DEF Next, Progress

----------------------------------------------------------------------------
(* Every step preserves what holds of the shared state *)

\* A push that reaches the server, waited for or not, is one that was authorised.
LEMMA PushAuthorised ==
  ASSUME IInv
  PROVE  /\ \A w \in Workspaces : pc[w] \in AfterGate => run[w] \in Runs /\ Authorised(run[w])
         /\ \A r \in Runs : orphans[r] > 0 => Authorised(r)
  BY DEF IInv, WorkspaceOK, ExecutingOK, GateOK, MovesAuthorised, AfterGate, Executing, Phases,
         Preparing

\* Who moves the ref, and from where.
Advances(r) ==
  /\ Authorised(r)
  /\ remote = intents[r].base /\ remote' = intents[r].desired /\ holder' = r
  /\ UNCHANGED objects

\* Every step that moves the ref is a push of an authorised run, or somebody else's.
LEMMA RefMoves ==
  ASSUME IInv, [Next]_vars
  PROVE  \/ UNCHANGED <<remote, holder>>
         \/ ForeignPush \/ RefDeleted
         \/ \E r \in Runs : Advances(r)
<1>1. ASSUME NEW w \in Workspaces, ServerAnswers(w)
      PROVE  UNCHANGED <<remote, holder>> \/ \E r \in Runs : Advances(r)
  BY <1>1, PushAuthorised DEF ServerAnswers, CompareAndSwap, AfterGate, Advances
<1>2. ASSUME NEW r \in Runs, OrphanLands(r)
      PROVE  UNCHANGED <<remote, holder>> \/ Advances(r)
  BY <1>2, PushAuthorised DEF OrphanLands, CompareAndSwap, Advances
<1>3. ASSUME Next
      PROVE  \/ UNCHANGED <<remote, holder>>
             \/ ForeignPush \/ RefDeleted
             \/ \E w \in Workspaces : ServerAnswers(w)
             \/ \E r \in Runs : OrphanLands(r)
  <2>1. ASSUME NEW w \in Workspaces,
               \/ PrepareIntent(w) \/ ReconcileRef(w) \/ JudgeAsset(w) \/ ClassifyResult(w)
        PROVE  UNCHANGED <<remote, holder>>
    BY <2>1 DEF PrepareIntent, ReconcileRef, JudgeAsset, ClassifyResult, shared
  <2>2. ASSUME NEW w \in Workspaces, NEW d \in Deliveries, FreezeDelivery(w, d)
        PROVE  UNCHANGED <<remote, holder>>
    BY <2>2 DEF FreezeDelivery, shared
  <2>3. QED
    BY <1>3, <2>1, <2>2, ZenonT(40)
    DEF Next, Progress, shared, ObserveBase, Resume, PrepareFails, SaveIntent, ObserveRef,
        EnsureDesiredCommit, InspectAsset, PlaceAsset, GateDone, SendPush, ServerRefuses,
        PushReports, PushMisreports, PostObserveRef, PostObserveFails, Abort, Tamper,
        CloneReplaced, Fetch
<1>4. QED
  BY <1>1, <1>2, <1>3 DEF vars, shared

\* The ref names a commit that exists, or is missing.
LEMMA RemoteStep ==
  ASSUME IInv, [Next]_vars, TypeOK', Grows
  PROVE  RemoteExists'
<1>1. CASE UNCHANGED <<remote, holder>>
  BY <1>1 DEF IInv, RemoteExists, Grows
<1>2. ASSUME NEW r \in Runs, Advances(r) PROVE RemoteExists'
  BY <1>2 DEF Advances, Authorised, CommitVerified, RemoteExists
<1>3. CASE ForeignPush
  <2>1. PICK o \in Oids :
          /\ remote' = o
          /\ \/ objects[o] # NoObject /\ UNCHANGED objects
             \/ \E facts \in CommitFacts : objects' = [objects EXCEPT ![o] = facts]
    BY <1>3 DEF ForeignPush
  <2>2. QED
    BY <2>1, SentinelsAssumption DEF RemoteExists, IInv, TypeOK
<1>4. CASE RefDeleted
  BY <1>4, ConstantsAssumption DEF RefDeleted, RemoteExists
<1>5. QED
  BY <1>1, <1>2, <1>3, <1>4, RefMoves

\* Run ids change hands only where a run is begun, saved or resumed.
LEMMA IdsStep ==
  ASSUME IInv, [Next]_vars, TypeOK'
  PROVE  IdsReserved'
<1> USE DEF IInv
<1>1. ASSUME UNCHANGED <<run, intents>>,
             \A w \in Workspaces : pc'[w] \in Preparing => pc[w] \in Preparing
      PROVE  IdsReserved'
  BY <1>1 DEF IdsReserved
<1>2. ASSUME NEW w \in Workspaces, NEW r \in Runs, ObserveBase(w, r) PROVE IdsReserved'
  BY <1>2 DEF ObserveBase, Return, Goto, IdsReserved, Preparing, TypeOK, durable
<1>3. ASSUME NEW w \in Workspaces, NEW r \in Runs, Resume(w, r) PROVE IdsReserved'
  BY <1>3 DEF Resume, Goto, IdsReserved, Preparing, TypeOK, durable
<1>4. ASSUME NEW w \in Workspaces, SaveIntent(w) PROVE IdsReserved'
  BY <1>4 DEF SaveIntent, Goto, IdsReserved, Preparing, TypeOK
<1>5. ASSUME NEW w \in Workspaces,
             \/ \E d \in Deliveries : FreezeDelivery(w, d)
             \/ PrepareIntent(w)
      PROVE  IdsReserved'
  BY <1>1, <1>5 DEF FreezeDelivery, PrepareIntent, Goto, Preparing, TypeOK
<1>6. ASSUME NEW w \in Workspaces,
             \/ ReconcileRef(w) \/ JudgeAsset(w) \/ ClassifyResult(w) \/ InspectAsset(w)
             \/ EnsureDesiredCommit(w) \/ PlaceAsset(w) \/ GateDone(w)
      PROVE  IdsReserved'
  BY <1>1, <1>6 DEF ReconcileRef, JudgeAsset, ClassifyResult, InspectAsset, EnsureDesiredCommit,
    PlaceAsset, GateDone, Goto, Return, Preparing, TypeOK, durable
<1>7. ASSUME NEW w \in Workspaces,
             \/ PrepareFails(w) \/ ObserveRef(w) \/ SendPush(w) \/ ServerAnswers(w)
             \/ PushReports(w) \/ PostObserveRef(w) \/ ServerRefuses(w) \/ PushMisreports(w)
             \/ PostObserveFails(w) \/ Abort(w) \/ CloneReplaced(w) \/ Fetch(w)
      PROVE  IdsReserved'
  BY <1>1, <1>7 DEF PrepareFails, ObserveRef, SendPush, ServerAnswers, PushReports, PostObserveRef,
    ServerRefuses, PushMisreports, PostObserveFails, Abort, CloneReplaced, Fetch, Goto, Return,
    Preparing, TypeOK, durable, memory
<1>8. CASE \/ ForeignPush \/ RefDeleted
           \/ \E a \in Assets : Tamper(a)
           \/ \E r \in Runs : OrphanLands(r)
  BY <1>1, <1>8 DEF ForeignPush, RefDeleted, Tamper, OrphanLands, durable, memory
<1>9. CASE UNCHANGED vars
  BY <1>1, <1>9 DEF vars, durable, memory
<1>10. QED
  BY <1>2, <1>3, <1>4, <1>5, <1>6, <1>7, <1>8, <1>9 DEF Next, Progress

\* An intent is saved once, from a sound draft, and stays sound.
LEMMA IntentsStep ==
  ASSUME IInv, [Next]_vars, TypeOK', Grows
  PROVE  IntentsSound'
<1> USE DEF IInv
<1>1. ASSUME UNCHANGED intents PROVE IntentsSound'
  BY <1>1, SoundStable DEF IntentsSound, TypeOK, PublishRun
<1>2. ASSUME NEW w \in Workspaces, SaveIntent(w) PROVE IntentsSound'
  <2>1. Sound(w, at[w].draft) /\ run[w] \in Runs
    BY <1>2 DEF SaveIntent, WorkspaceOK, PreparingOK, IdsReserved, Preparing
  <2> DEFINE i == at[w].draft
  <2>2. intents' = [intents EXCEPT ![run[w]] = i] /\ UNCHANGED <<objects, projections>>
    BY <1>2 DEF SaveIntent, shared
  <2>3. i.ws = w
    BY <2>1 DEF Sound
  <2> HIDE DEF i
  <2>4. ASSUME NEW r \in Runs, intents'[r] # NoIntent
        PROVE  Sound(intents[r].ws, intents[r])'
    <3>1. CASE r = run[w]
      BY <2>1, <2>2, <2>3, <3>1 DEF Sound, Materialize, TypeOK, i
    <3>2. CASE r # run[w]
      BY <2>2, <2>4, <3>2 DEF IntentsSound, Sound, Materialize, TypeOK
    <3>3. QED
      BY <3>1, <3>2
  <2>5. QED
    BY <2>4 DEF IntentsSound
<1>3. ASSUME NEW w \in Workspaces,
             \/ \E d \in Deliveries : FreezeDelivery(w, d)
             \/ PrepareIntent(w) \/ ReconcileRef(w) \/ JudgeAsset(w) \/ ClassifyResult(w)
      PROVE  UNCHANGED intents
  BY <1>3 DEF FreezeDelivery, PrepareIntent, ReconcileRef, JudgeAsset, ClassifyResult
<1>4. QED
  BY <1>1, <1>2, <1>3, ZenonT(40)
  DEF Next, Progress, vars, durable, ObserveBase, Resume, PrepareFails, ObserveRef,
      EnsureDesiredCommit, InspectAsset, PlaceAsset, GateDone, SendPush, ServerAnswers,
      ServerRefuses, PushReports, PushMisreports, OrphanLands, PostObserveRef, PostObserveFails,
      Abort, ForeignPush, RefDeleted, Tamper, CloneReplaced, Fetch

\* What may move the ref was authorised before it left, and stays authorised.
LEMMA MovesStep ==
  ASSUME IInv, [Next]_vars, TypeOK', Grows
  PROVE  MovesAuthorised'
<1> USE DEF IInv
<1>1. ASSUME NEW r \in Runs, orphans'[r] > 0 PROVE Authorised(r)'
  <2>1. CASE orphans[r] > 0
    BY <2>1, PushAuthorised, AuthorisedStable
  <2>2. CASE ~ orphans[r] > 0
    <3>1. ASSUME NEW w \in Workspaces, PushMisreports(w) \/ Abort(w)
          PROVE  Authorised(r)'
      <4>1. pc[w] = "Pushing" /\ run[w] = r
        BY <1>1, <2>2, <3>1 DEF PushMisreports, Abort, Orphan, TypeOK
      <4>2. QED
        BY <4>1, PushAuthorised, AuthorisedStable DEF AfterGate
    <3>2. ASSUME NEW q \in Runs, OrphanLands(q) PROVE FALSE
      BY <1>1, <2>2, <3>2 DEF OrphanLands, TypeOK
    <3>3. ASSUME NEW w \in Workspaces,
                 \/ \E d \in Deliveries : FreezeDelivery(w, d)
                 \/ PrepareIntent(w) \/ ReconcileRef(w) \/ JudgeAsset(w) \/ ClassifyResult(w)
          PROVE  UNCHANGED orphans
      BY <3>3 DEF FreezeDelivery, PrepareIntent, ReconcileRef, JudgeAsset, ClassifyResult, shared
    <3>4. CASE UNCHANGED orphans
      BY <1>1, <2>2, <3>4
    <3>5. ASSUME NEW w \in Workspaces,
                 \/ PrepareFails(w) \/ SaveIntent(w) \/ ObserveRef(w) \/ EnsureDesiredCommit(w)
                 \/ \E q \in Runs : ObserveBase(w, q) \/ Resume(w, q)
          PROVE  UNCHANGED orphans
      BY <3>5 DEF ObserveBase, Resume, PrepareFails, SaveIntent, ObserveRef, EnsureDesiredCommit, shared
    <3>6. ASSUME NEW w \in Workspaces,
                 \/ InspectAsset(w) \/ PlaceAsset(w) \/ GateDone(w) \/ SendPush(w)
                 \/ ServerAnswers(w) \/ ServerRefuses(w) \/ PushReports(w) \/ PostObserveRef(w)
                 \/ PostObserveFails(w) \/ CloneReplaced(w) \/ Fetch(w)
          PROVE  UNCHANGED orphans
      BY <3>6 DEF InspectAsset, PlaceAsset, GateDone, SendPush,
        ServerAnswers, ServerRefuses, PushReports, PostObserveRef, PostObserveFails,
        CloneReplaced, Fetch, shared
    <3>7. CASE ForeignPush \/ RefDeleted \/ \E a \in Assets : Tamper(a)
      BY <3>4, <3>7 DEF ForeignPush, RefDeleted, Tamper
    <3>8. CASE UNCHANGED vars
      BY <3>4, <3>8 DEF vars, shared
    <3>9. QED
      BY <3>1, <3>2, <3>3, <3>4, <3>5, <3>6, <3>7, <3>8 DEF Next, Progress
  <2>3. QED
    BY <2>1, <2>2
<1>2. ASSUME NEW r \in Runs, holder' = r PROVE Authorised(r)' /\ remote' = intents'[r].desired
  <2>1. CASE UNCHANGED <<remote, holder>>
    <3>1. Authorised(r) /\ remote = intents[r].desired
      BY <1>2, <2>1 DEF MovesAuthorised
    <3>2. QED
      BY <2>1, <3>1, AuthorisedStable DEF Authorised, Grows
  <2>2. CASE ForeignPush \/ RefDeleted
    BY <1>2, <2>2, ConstantsAssumption DEF ForeignPush, RefDeleted
  <2>3. ASSUME NEW q \in Runs, Advances(q) PROVE Authorised(r)' /\ remote' = intents'[r].desired
    BY <1>2, <2>3, AuthorisedStable DEF Advances, Authorised, Grows
  <2>4. QED
    BY <2>1, <2>2, <2>3, RefMoves
<1>3. QED
  BY <1>1, <1>2 DEF MovesAuthorised

\* A ready verdict is recorded only of an object that was inspected and faithful.
LEMMA ReadyStep ==
  ASSUME IInv, [Next]_vars, TypeOK', Grows
  PROVE  ReadyIsTrue'
<1> USE DEF IInv
<1>1. ASSUME UNCHANGED assetFacts PROVE ReadyIsTrue'
  BY <1>1 DEF ReadyIsTrue, Grows
<1>2. ASSUME NEW w \in Workspaces, JudgeAsset(w) PROVE ReadyIsTrue'
  <2>1. /\ assetFacts' = assetFacts \cup {<<run[w], Asset(w), at[w].found>>}
        /\ at[w].found = "Ready" => Faithful(Asset(w))
    BY <1>2 DEF JudgeAsset, WorkspaceOK, GateOK
  <2>2. QED
    BY <2>1 DEF ReadyIsTrue, Grows
<1>3. ASSUME NEW w \in Workspaces,
             \/ \E d \in Deliveries : FreezeDelivery(w, d)
             \/ PrepareIntent(w) \/ ReconcileRef(w) \/ ClassifyResult(w)
      PROVE  UNCHANGED assetFacts
  BY <1>3 DEF FreezeDelivery, PrepareIntent, ReconcileRef, ClassifyResult
<1>4. QED
  BY <1>1, <1>2, <1>3, ZenonT(40)
  DEF Next, Progress, vars, durable, ObserveBase, Resume, PrepareFails, SaveIntent, ObserveRef,
      EnsureDesiredCommit, InspectAsset, PlaceAsset, GateDone, SendPush, ServerAnswers,
      ServerRefuses, PushReports, PushMisreports, OrphanLands, PostObserveRef, PostObserveFails,
      Abort, ForeignPush, RefDeleted, Tamper, CloneReplaced, Fetch

----------------------------------------------------------------------------
(* Every step preserves what holds of each workspace *)

\* An execution that returned an unsatisfied result claims nothing.
LEMMA ReturnOK ==
  ASSUME TypeOK, NEW w \in Workspaces, NEW g \in GitResults \ GitSatisfied, Return(w, g)
  PROVE  WorkspaceOK(w)'
<1>1. pc'[w] = "Idle" /\ git'[w] = g /\ at'[w] = NoLocals
  BY DEF Return, TypeOK
<1>2. PreparingOK(w)' /\ ExecutingOK(w)' /\ ResultOK(w)'
  BY <1>1 DEF PreparingOK, ExecutingOK, ResultOK, Executing, Phases, Preparing
<1>3. GateOK(w)'
  BY <1>1 DEF GateOK, GatePhases, AtAsset, AfterGate, NoLocals
<1>4. QED
  BY <1>2, <1>3 DEF WorkspaceOK

\* A workspace's step touches no other workspace's memory.
LEMMA Elsewhere ==
  ASSUME TypeOK, NEW w \in Workspaces, NEW v \in Workspaces \ {w},
         \/ Progress(w)
         \/ \E r \in Runs : ObserveBase(w, r) \/ Resume(w, r)
         \/ ServerRefuses(w) \/ PushMisreports(w) \/ PostObserveFails(w) \/ Abort(w)
         \/ CloneReplaced(w) \/ Fetch(w)
  PROVE  Untouched(v)
<1> USE DEF TypeOK, Untouched, Goto, Return
<1>1. ASSUME \/ \E d \in Deliveries : FreezeDelivery(w, d)
             \/ PrepareFails(w) \/ SaveIntent(w) \/ ObserveRef(w) \/ SendPush(w)
      PROVE  Untouched(v)
  BY <1>1 DEF FreezeDelivery, PrepareFails, SaveIntent, ObserveRef, SendPush
<1>2. ASSUME PrepareIntent(w) PROVE Untouched(v)
  BY <1>2 DEF PrepareIntent
<1>3. ASSUME ReconcileRef(w) \/ EnsureDesiredCommit(w) PROVE Untouched(v)
  BY <1>3 DEF ReconcileRef, EnsureDesiredCommit
<1>4. ASSUME InspectAsset(w) \/ JudgeAsset(w) PROVE Untouched(v)
  BY <1>4 DEF InspectAsset, JudgeAsset
<1>5. ASSUME PlaceAsset(w) \/ GateDone(w) PROVE Untouched(v)
  BY <1>5 DEF PlaceAsset, GateDone
<1>6. ASSUME \/ ServerAnswers(w) \/ PushReports(w) \/ PostObserveRef(w) \/ ServerRefuses(w)
             \/ PushMisreports(w)
      PROVE  Untouched(v)
  BY <1>6 DEF ServerAnswers, PushReports, PostObserveRef, ServerRefuses, PushMisreports
<1>7. ASSUME ClassifyResult(w) \/ PostObserveFails(w) \/ Abort(w) PROVE Untouched(v)
  BY <1>7 DEF ClassifyResult, PostObserveFails, Abort
<1>8. ASSUME NEW r \in Runs, ObserveBase(w, r) \/ Resume(w, r) PROVE Untouched(v)
  BY <1>8 DEF ObserveBase, Resume
<1>9. ASSUME CloneReplaced(w) \/ Fetch(w) PROVE Untouched(v)
  BY <1>9 DEF CloneReplaced, Fetch, memory
<1>10. QED
  BY <1>1, <1>2, <1>3, <1>4, <1>5, <1>6, <1>7, <1>8, <1>9 DEF Progress

\* A step of preparation leaves its workspace with what it needs to go on.
LEMMA PreparingStep ==
  ASSUME IInv, TypeOK', Grows, NEW w \in Workspaces,
         \/ \E r \in Runs : ObserveBase(w, r)
         \/ \E d \in Deliveries : FreezeDelivery(w, d)
         \/ PrepareIntent(w) \/ PrepareFails(w) \/ SaveIntent(w)
  PROVE  WorkspaceOK(w)'
<1> USE DEF IInv
<1>1. ASSUME NEW r \in Runs, ObserveBase(w, r) PROVE WorkspaceOK(w)'
  <2>1. CASE remote = RefMissing
    BY <1>1, <2>1, ReturnOK DEF ObserveBase, GitResults, GitSatisfied
  <2>2. CASE remote # RefMissing
    <3>1. /\ pc'[w] = "BaseObserved" /\ at'[w].seen = remote /\ UNCHANGED objects
          /\ remote \in Oids /\ objects[remote] # NoObject
      BY <1>1, <2>2 DEF ObserveBase, Goto, TypeOK, Locals, shared, RefState, RemoteExists
    <3>2. QED
      BY <3>1 DEF WorkspaceOK, PreparingOK, ExecutingOK, GateOK, ResultOK, Executing, Phases,
        Preparing, GatePhases, AtAsset, AfterGate
  <2>3. QED
    BY <2>1, <2>2
<1>2. ASSUME NEW d \in Deliveries, FreezeDelivery(w, d) PROVE WorkspaceOK(w)'
  <2>1. /\ pc'[w] = "DeliveryFrozen" /\ at'[w].seen = at[w].seen /\ at'[w].proj = d
        /\ d \in projections'[w] /\ UNCHANGED objects
    BY <1>2 DEF FreezeDelivery, Goto, TypeOK, Locals, shared
  <2>2. at[w].seen \in Oids /\ objects[at[w].seen] # NoObject
    BY <1>2 DEF FreezeDelivery, WorkspaceOK, PreparingOK
  <2>3. QED
    BY <2>1, <2>2 DEF WorkspaceOK, PreparingOK, ExecutingOK, GateOK, ResultOK, Executing, Phases,
      Preparing, GatePhases, AtAsset, AfterGate
<1>3. ASSUME PrepareIntent(w) PROVE WorkspaceOK(w)'
  <2> DEFINE base     == at[w].seen
             d        == at[w].proj
             reviewed == Materialize(base, TextOf[d])
             Intent(desired, spec) ==
               [ws |-> w, base |-> base, reviewed |-> reviewed, desired |-> desired,
                spec |-> spec, delivery |-> d]
  <2>1. /\ base \in Oids /\ objects[base] # NoObject /\ d \in Deliveries
        /\ d \in projections[w] /\ UNCHANGED projections /\ pc'[w] = "IntentBuilt"
    BY <1>3 DEF PrepareIntent, WorkspaceOK, PreparingOK, TypeOK, Goto
  <2>2. reviewed \in Tree
    <3>1. objects[base] \in CommitFacts
      BY <2>1 DEF TypeOK
    <3>2. QED
      BY <2>1, <3>1, ConstantsAssumption DEF Materialize, CommitFacts, Tree
  <2>3. objects'[base] = objects[base]
    BY <2>1 DEF Grows
  <2>4. Sound(w, at[w].draft)'
    <3>1. CASE at' = [at EXCEPT ![w].draft = Intent(NoCommit, NoSpec)]
      <4> DEFINE i == Intent(NoCommit, NoSpec)
      <4>1. at'[w].draft = i
        BY <3>1 DEF TypeOK, Locals
      <4>2. i \in PublishRun
        BY <2>1, <2>2 DEF PublishRun
      <4>3. QED
        BY <2>1, <2>3, <4>1, <4>2 DEF Sound, Materialize
    <3>2. ASSUME NEW o \in Oids, NEW stamp \in Stamps,
                 CreateCommit(w, o, [parent |-> base, tree |-> reviewed, stamp |-> stamp]),
                 at' = [at EXCEPT ![w].draft =
                          Intent(o, [parent |-> base, tree |-> reviewed, stamp |-> stamp])]
          PROVE  Sound(w, at[w].draft)'
      <4> DEFINE spec == [parent |-> base, tree |-> reviewed, stamp |-> stamp]
                 i    == Intent(o, spec)
      <4>1. at'[w].draft = i
        BY <3>2 DEF TypeOK, Locals
      <4>2. spec \in CommitFacts
        BY <2>1, <2>2 DEF CommitFacts
      <4>3. i \in PublishRun
        BY <2>1, <2>2, <4>2 DEF PublishRun
      <4>4. objects'[o] = spec
        BY <3>2 DEF CreateCommit, TypeOK
      <4>5. QED
        BY <2>1, <2>3, <4>1, <4>2, <4>3, <4>4 DEF Sound, Materialize
    <3>3. QED
      BY <1>3, <3>1, <3>2 DEF PrepareIntent
  <2>5. QED
    BY <2>1, <2>4 DEF WorkspaceOK, PreparingOK, ExecutingOK, GateOK, ResultOK, Executing, Phases,
      Preparing, GatePhases, AtAsset, AfterGate
<1>4. ASSUME PrepareFails(w) PROVE WorkspaceOK(w)'
  BY <1>4, ReturnOK DEF PrepareFails, GitResults, GitSatisfied
<1>5. ASSUME SaveIntent(w) PROVE WorkspaceOK(w)'
  <2>1. /\ pc'[w] = "Loaded" /\ run'[w] = run[w] /\ run[w] \in Runs
        /\ intents'[run[w]] = at[w].draft /\ at[w].draft \in PublishRun /\ at[w].draft.ws = w
        /\ at'[w] = NoLocals
    BY <1>5 DEF SaveIntent, Goto, TypeOK, IdsReserved, Preparing, WorkspaceOK, PreparingOK, Sound
  <2>2. QED
    BY <2>1, IntentAssumption DEF WorkspaceOK, PreparingOK, ExecutingOK, GateOK, ResultOK,
      Executing, Phases, Preparing, GatePhases, AtAsset, AfterGate, NoLocals
<1>6. QED
  BY <1>1, <1>2, <1>3, <1>4, <1>5

\* What an executing workspace knows of its run, before and after a step.
LEMMA ExecutingRun ==
  ASSUME IInv, Grows, NEW w \in Workspaces, pc[w] \in Executing, run'[w] = run[w]
  PROVE  /\ run[w] \in Runs /\ intents[run[w]] # NoIntent /\ intents[run[w]].ws = w
         /\ intents[run[w]] \in PublishRun
         /\ intents'[run[w]] = intents[run[w]]
         /\ Required(run[w])' = Required(run[w])
         /\ Required(run[w]) \in Seq(Assets)
         /\ RequiredSet(run[w])' = RequiredSet(run[w])
<1>1. run[w] \in Runs /\ intents[run[w]] # NoIntent /\ intents[run[w]].ws = w
  BY DEF IInv, WorkspaceOK, ExecutingOK
<1>2. TypeOK
  BY DEF IInv
<1>3. intents[run[w]] \in PublishRun
  BY <1>1, <1>2 DEF TypeOK
<1>4. Required(run[w]) \in Seq(Assets)
  BY <1>1, <1>2, RequiredType
<1>5. QED
  BY <1>1, <1>3, <1>4, RequiredStable

\* A step up to the asset gate.
LEMMA ObservingStep ==
  ASSUME IInv, TypeOK', Grows, NEW w \in Workspaces,
         \/ \E r \in Runs : Resume(w, r)
         \/ ObserveRef(w) \/ ReconcileRef(w) \/ EnsureDesiredCommit(w)
  PROVE  WorkspaceOK(w)'
<1> USE DEF IInv
<1>1. ASSUME NEW r \in Runs, Resume(w, r) PROVE WorkspaceOK(w)'
  <2>1. /\ pc'[w] = "Loaded" /\ run'[w] = r /\ intents'[r] # NoIntent /\ intents'[r].ws = w
        /\ at'[w].pos = 1
    BY <1>1 DEF Resume, Goto, TypeOK, durable, WorkspaceOK, GateOK
  <2>2. QED
    BY <2>1 DEF WorkspaceOK, PreparingOK, ExecutingOK, GateOK, ResultOK, Executing, Phases,
      Preparing, GatePhases, AtAsset, AfterGate
<1>2. ASSUME ObserveRef(w) PROVE WorkspaceOK(w)'
  <2>1. /\ pc'[w] = "RefObserved" /\ run'[w] = run[w] /\ at'[w].pos = 1
        /\ intents'[run[w]] = intents[run[w]]
    BY <1>2 DEF ObserveRef, Goto, TypeOK, Locals, durable, WorkspaceOK, GateOK
  <2>2. run[w] \in Runs /\ intents[run[w]] # NoIntent /\ intents[run[w]].ws = w
    BY <1>2, ExecutingRun DEF ObserveRef, Executing, Phases, Preparing
  <2>3. QED
    BY <2>1, <2>2 DEF WorkspaceOK, PreparingOK, ExecutingOK, GateOK, ResultOK, Executing, Phases,
      Preparing, GatePhases, AtAsset, AfterGate
<1>3. ASSUME ReconcileRef(w) PROVE WorkspaceOK(w)'
  <2> DEFINE seen     == at[w].seen
             intent   == intents[run[w]]
             decision == Reconcile(intent, seen)
  <2>1. /\ run[w] \in Runs /\ intent # NoIntent /\ intent.ws = w /\ intent \in PublishRun
        /\ Required(run[w]) \in Seq(Assets)
        /\ run'[w] = run[w] /\ intents'[run[w]] = intent /\ at[w].pos = 1
        /\ Required(run[w])' = Required(run[w])
        /\ <<run[w], seen>> \in refFacts'
    BY <1>3, ExecutingRun DEF ReconcileRef, Executing, Phases, Preparing, WorkspaceOK, GateOK
  <2>2. CASE decision = "ReadyToPush" /\ Goto(w, "ReadyToPush") /\ UNCHANGED at
             /\ git' = [git EXCEPT ![w] = decision]
    <3>1. seen = intent.base /\ intent.desired # NoCommit
      BY <2>2 DEF Reconcile
    <3>2. pc'[w] = "ReadyToPush" /\ git'[w] = "ReadyToPush" /\ at'[w].pos = 1
      BY <2>1, <2>2 DEF Goto, TypeOK
    <3>3. QED
      BY <2>1, <3>1, <3>2 DEF WorkspaceOK, PreparingOK, ExecutingOK, GateOK, ResultOK, GitFacts,
        Executing, Phases, Preparing, GatePhases, AtAsset, AfterGate
  <2>3. CASE decision \in {"NoopSatisfied", "AlreadyPublished"} /\ Goto(w, "Gate")
             /\ git' = [git EXCEPT ![w] = decision] /\ UNCHANGED at
    <3>1. seen = IF decision = "NoopSatisfied" THEN intent.base ELSE intent.desired
      BY <2>3 DEF Reconcile
    <3>2. pc'[w] = "Gate" /\ git'[w] = decision /\ at'[w].pos = 1
      BY <2>1, <2>3 DEF Goto, TypeOK
    <3>3. at'[w].pos \in 1 .. Len(Required(run[w])) + 1 /\ at'[w].pos - 1 = 0
      BY <2>1, <3>2
    <3>4. QED
      BY <2>1, <2>3, <3>1, <3>2, <3>3 DEF WorkspaceOK, PreparingOK, ExecutingOK, GateOK, ResultOK,
        GitFacts, Executing, Phases, Preparing, GatePhases, AtAsset, AfterGate
  <2>4. CASE decision \in {"RemoteChanged", "TargetMissing"} /\ Return(w, decision)
    BY <2>4, ReturnOK DEF GitResults, GitSatisfied
  <2>5. QED
    BY <1>3, <2>2, <2>3, <2>4 DEF ReconcileRef
<1>4. ASSUME EnsureDesiredCommit(w) PROVE WorkspaceOK(w)'
  <2>1. /\ run[w] \in Runs /\ intents[run[w]] # NoIntent /\ intents[run[w]].ws = w
        /\ Required(run[w]) \in Seq(Assets)
        /\ run'[w] = run[w] /\ intents'[run[w]] = intents[run[w]]
        /\ Required(run[w])' = Required(run[w])
        /\ GitFacts(w) /\ git[w] = "ReadyToPush" /\ at[w].pos = 1
        /\ UNCHANGED <<objects, refFacts>>
    BY <1>4, ExecutingRun
    DEF EnsureDesiredCommit, Executing, Phases, Preparing, shared, WorkspaceOK, GateOK, ExecutingOK
  <2>2. CASE CommitEnsured(w, intents[run[w]]) /\ Goto(w, "Gate") /\ UNCHANGED <<git, at>>
    <3>1. CommitVerified(intents[run[w]])
      BY <2>2 DEF CommitEnsured
    <3>2. CommitVerified(intents[run[w]])' /\ GitFacts(w)'
      BY <2>1, <2>2, <3>1 DEF CommitVerified, GitFacts
    <3>3. pc'[w] = "Gate" /\ git'[w] = "ReadyToPush" /\ at'[w].pos = 1
      BY <2>1, <2>2 DEF Goto, TypeOK
    <3>4. at'[w].pos \in 1 .. Len(Required(run[w])) + 1 /\ at'[w].pos - 1 = 0
      BY <2>1, <3>3
    <3>5. QED
      BY <2>1, <3>2, <3>3, <3>4 DEF WorkspaceOK, PreparingOK, ExecutingOK, GateOK, ResultOK,
        Executing, Phases, Preparing, GatePhases, AtAsset, AfterGate
  <2>3. CASE Return(w, "Error")
    BY <2>3, ReturnOK DEF GitResults, GitSatisfied
  <2>4. QED
    BY <1>4, <2>2, <2>3 DEF EnsureDesiredCommit
<1>5. QED
  BY <1>1, <1>2, <1>3, <1>4

\* A step of the asset gate.
LEMMA GateStep ==
  ASSUME IInv, TypeOK', Grows, NEW w \in Workspaces,
         InspectAsset(w) \/ JudgeAsset(w) \/ PlaceAsset(w) \/ GateDone(w)
  PROVE  WorkspaceOK(w)'
<1> USE DEF IInv
<1> DEFINE r    == run[w]
           need == Required(r)
<1>1. pc[w] \in GatePhases
  BY DEF InspectAsset, JudgeAsset, PlaceAsset, GateDone, GatePhases
<1>2. /\ r \in Runs /\ intents[r] # NoIntent /\ intents[r].ws = w
      /\ intents'[r] = intents[r] /\ need \in Seq(Assets) /\ Required(r)' = need
      /\ RequiredSet(r)' = RequiredSet(r)
      /\ r' = r
  BY <1>1, ExecutingRun
  DEF InspectAsset, JudgeAsset, PlaceAsset, GateDone, Executing, Phases, Preparing, GatePhases
<1>3. /\ GitFacts(w)
      /\ git[w] \in {"NoopSatisfied", "AlreadyPublished", "ReadyToPush"}
      /\ at[w].pos \in 1 .. Len(need) + 1
      /\ \A k \in 1 .. at[w].pos - 1 : need[k] \in verified[w] /\ <<r, need[k], "Ready">> \in assetFacts
  BY <1>1 DEF WorkspaceOK, ExecutingOK, GateOK, Executing, Phases, Preparing, GatePhases
<1>4. git[w] = "ReadyToPush" => CommitVerified(intents[r])
  BY <1>1 DEF WorkspaceOK, GateOK
<1>5. ASSUME git'[w] = git[w]
      PROVE  GitFacts(w)' /\ (git[w] = "ReadyToPush" => CommitVerified(intents[r])')
  <2>1. GitFacts(w)'
    BY <1>2, <1>3, <1>5 DEF GitFacts, Grows
  <2>2. git[w] = "ReadyToPush" => intents[r].desired \in Oids
    BY <1>2, <1>3 DEF GitFacts, TypeOK, PublishRun
  <2>3. QED
    BY <1>2, <1>4, <2>1, <2>2 DEF CommitVerified, Grows
<1>6. ASSUME InspectAsset(w) PROVE WorkspaceOK(w)'
  <2>1. PICK verdict \in Inspections(Asset(w)) :
          at' = [at EXCEPT ![w].found = verdict]
    BY <1>6 DEF InspectAsset
  <2>2. /\ pc'[w] \in {"Inspected", "Reinspected"} /\ git'[w] = git[w]
        /\ verified'[w] = verified[w] /\ at'[w].pos = at[w].pos /\ at'[w].found = verdict
        /\ UNCHANGED <<target, tampered>>
    BY <1>6, <2>1 DEF InspectAsset, Goto, TypeOK, Locals, shared
  <2>3. Asset(w) \in Assets /\ Asset(w)' = Asset(w)
    <3>1. Asset(w) \in Assets
      BY <1>6, AssetType DEF InspectAsset, AtAsset
    <3>2. QED
      BY <1>2, <2>2, <3>1 DEF Asset
  <2>4. at'[w].found = "Ready" => Faithful(Asset(w))'
    BY <2>1, <2>2, <2>3, ReadyMeansFrozen DEF Faithful
  <2>5. at'[w].pos <= Len(need)
    BY <1>6, <2>2 DEF InspectAsset
  <2>6. QED
    BY <1>2, <1>3, <1>5, <2>2, <2>4, <2>5 DEF WorkspaceOK, PreparingOK, ExecutingOK, GateOK,
      ResultOK, Executing, Phases, Preparing, GatePhases, AtAsset, AfterGate, Grows
<1>7. ASSUME JudgeAsset(w) PROVE WorkspaceOK(w)'
  <2>1. at[w].pos \in 1 .. Len(need)
    BY <1>3, <1>7 DEF JudgeAsset, WorkspaceOK, GateOK, AtAsset
  <2>2. CASE /\ at[w].found = "Ready"
             /\ verified' = [verified EXCEPT ![w] = @ \cup {Asset(w)}]
             /\ at' = [at EXCEPT ![w].pos = @ + 1]
             /\ Goto(w, "Gate")
             /\ UNCHANGED git
    <3>1. /\ pc'[w] = "Gate" /\ git'[w] = git[w]
          /\ verified'[w] = verified[w] \cup {need[at[w].pos]}
          /\ at'[w].pos = at[w].pos + 1
          /\ assetFacts' = assetFacts \cup {<<r, need[at[w].pos], "Ready">>}
      BY <1>7, <2>2 DEF JudgeAsset, Goto, TypeOK, Locals, Asset
    <3>2. at'[w].pos \in 1 .. Len(need) + 1
      BY <1>2, <2>1, <3>1
    <3>3. \A k \in 1 .. at'[w].pos - 1 :
            need[k] \in verified'[w] /\ <<r, need[k], "Ready">> \in assetFacts'
      <4> SUFFICES ASSUME NEW k \in 1 .. at'[w].pos - 1
                   PROVE  need[k] \in verified'[w] /\ <<r, need[k], "Ready">> \in assetFacts'
        OBVIOUS
      <4>1. k \in 1 .. at[w].pos - 1 \/ k = at[w].pos
        BY <2>1, <3>1
      <4>2. QED
        BY <1>3, <3>1, <4>1
    <3>4. QED
      BY <1>2, <1>3, <1>5, <3>1, <3>2, <3>3 DEF WorkspaceOK, PreparingOK, ExecutingOK, GateOK,
        ResultOK, Executing, Phases, Preparing, GatePhases, AtAsset, AfterGate
  <2>3. CASE Goto(w, "Missing") /\ UNCHANGED <<git, verified, at>>
    <3>1. /\ pc'[w] = "Missing" /\ git'[w] = git[w] /\ verified'[w] = verified[w]
          /\ at'[w] = at[w] /\ assetFacts \subseteq assetFacts'
      BY <1>7, <2>3 DEF JudgeAsset, Goto, TypeOK
    <3>2. QED
      BY <1>2, <1>3, <1>5, <2>1, <3>1 DEF WorkspaceOK, PreparingOK, ExecutingOK, GateOK,
        ResultOK, Executing, Phases, Preparing, GatePhases, AtAsset, AfterGate
  <2>4. CASE Return(w, "Error")
    BY <2>4, ReturnOK DEF GitResults, GitSatisfied
  <2>5. QED
    BY <1>7, <2>2, <2>3, <2>4 DEF JudgeAsset
<1>8. ASSUME PlaceAsset(w) PROVE WorkspaceOK(w)'
  <2>1. CASE Return(w, "Error")
    BY <2>1, ReturnOK DEF GitResults, GitSatisfied
  <2>2. CASE Goto(w, "Placed") /\ UNCHANGED <<git, at>>
    <3>1. /\ pc'[w] = "Placed" /\ git'[w] = git[w] /\ verified'[w] = verified[w]
          /\ at'[w] = at[w]
      BY <1>8, <2>2 DEF PlaceAsset, Goto, TypeOK
    <3>2. at[w].pos <= Len(need)
      BY <1>8 DEF PlaceAsset, WorkspaceOK, GateOK, AtAsset
    <3>3. QED
      BY <1>2, <1>3, <1>5, <3>1, <3>2 DEF WorkspaceOK, PreparingOK, ExecutingOK, GateOK,
        ResultOK, Executing, Phases, Preparing, GatePhases, AtAsset, AfterGate, Grows
  <2>3. QED
    BY <1>8, <2>1, <2>2 DEF PlaceAsset
<1>9. ASSUME GateDone(w) PROVE WorkspaceOK(w)'
  <2>1. at[w].pos - 1 = Len(need)
    BY <1>2, <1>3, <1>9 DEF GateDone
  <2>2. /\ RequiredSet(r) \subseteq verified[w]
        /\ \A a \in RequiredSet(r) : <<r, a, "Ready">> \in assetFacts
    <3>1. DOMAIN need = 1 .. at[w].pos - 1
      BY <1>2, <2>1
    <3>2. \A a \in RequiredSet(r) : \E k \in 1 .. at[w].pos - 1 : a = need[k]
      BY <3>1 DEF RequiredSet
    <3>3. QED
      BY <1>3, <3>2
  <2>3. UNCHANGED <<objects, refFacts, assetFacts>> /\ verified'[w] = verified[w]
    BY <1>9 DEF GateDone, shared, durable
  <2>4. CASE git[w] = "ReadyToPush" /\ Goto(w, "Push") /\ UNCHANGED <<git, at>>
    <3>1. pc'[w] = "Push" /\ git'[w] = git[w] /\ at'[w] = at[w]
      BY <2>4 DEF Goto, TypeOK
    <3>2. Authorised(r)
      BY <1>2, <1>3, <1>4, <2>2, <2>4 DEF Authorised, GitFacts
    <3>3. Authorised(r)' /\ r \in Runs
      BY <1>2, <3>2, AuthorisedStable DEF Authorised, Grows, CommitVerified
    <3>4. QED
      BY <1>2, <2>2, <2>3, <3>1, <3>3 DEF WorkspaceOK, PreparingOK, ExecutingOK, GateOK,
        ResultOK, Executing, Phases, Preparing, GatePhases, AtAsset, AfterGate
  <2>5. CASE git[w] # "ReadyToPush" /\ Return(w, git[w])
    <3>1. pc'[w] = "Idle" /\ git'[w] = git[w] /\ at'[w] = NoLocals
      BY <2>5 DEF Return, TypeOK
    <3>2. QED
      BY <1>2, <1>3, <1>5, <2>2, <2>3, <3>1 DEF WorkspaceOK, PreparingOK, ExecutingOK, GateOK,
        ResultOK, Executing, Phases, Preparing, GatePhases, AtAsset, AfterGate, NoLocals
  <2>6. QED
    BY <1>9, <2>4, <2>5 DEF GateDone
<1>10. QED
  BY <1>6, <1>7, <1>8, <1>9

\* A step after the gate: the push, its answer, and the second observation.
LEMMA PushStep ==
  ASSUME IInv, TypeOK', Grows, NEW w \in Workspaces,
         \/ SendPush(w) \/ ServerAnswers(w) \/ ServerRefuses(w) \/ PushReports(w)
         \/ PushMisreports(w) \/ PostObserveRef(w) \/ PostObserveFails(w) \/ ClassifyResult(w)
  PROVE  WorkspaceOK(w)'
<1> USE DEF IInv
<1> DEFINE r == run[w]
<1>1. pc[w] \in AfterGate /\ r' = r /\ verified' = verified
  BY DEF SendPush, ServerAnswers, ServerRefuses, PushReports, PushMisreports, PostObserveRef,
         PostObserveFails, ClassifyResult, AfterGate, memory
<1>2. /\ r \in Runs /\ intents[r] # NoIntent /\ intents[r].ws = w
      /\ intents'[r] = intents[r] /\ RequiredSet(r)' = RequiredSet(r)
      /\ RequiredSet(r) \subseteq verified[w]
  BY <1>1, ExecutingRun DEF Executing, Phases, Preparing, AfterGate, WorkspaceOK, GateOK
<1>3. Authorised(r)'
  <2>1. Authorised(r)
    BY <1>1, <1>2, PushAuthorised
  <2>2. QED
    BY <1>1, <1>2, <2>1, AuthorisedStable DEF Authorised, Grows, CommitVerified
<1>4. ASSUME pc'[w] \in AfterGate PROVE WorkspaceOK(w)'
  BY <1>1, <1>2, <1>3, <1>4 DEF WorkspaceOK, PreparingOK, ExecutingOK, GateOK, ResultOK,
    Executing, Phases, Preparing, GatePhases, AtAsset, AfterGate
<1>5. ASSUME \/ SendPush(w) \/ ServerAnswers(w) \/ ServerRefuses(w) \/ PushReports(w)
             \/ PushMisreports(w) \/ PostObserveRef(w)
      PROVE  WorkspaceOK(w)'
  BY <1>1, <1>4, <1>5 DEF SendPush, ServerAnswers, ServerRefuses, PushReports, PushMisreports,
    PostObserveRef, Goto, AfterGate, TypeOK
<1>6. ASSUME PostObserveFails(w) PROVE WorkspaceOK(w)'
  BY <1>6, ReturnOK DEF PostObserveFails, GitResults, GitSatisfied
<1>7. ASSUME ClassifyResult(w) PROVE WorkspaceOK(w)'
  <2> DEFINE decision == Reconcile(intents[r], at[w].seen)
  <2>1. PICK g \in GitResults :
          /\ Return(w, g)
          /\ g \in GitSatisfied => g = "Published" /\ decision = "AlreadyPublished"
    <3>1. Return(w, CASE decision = "AlreadyPublished" -> "Published"
                      [] decision = "ReadyToPush" /\ at[w].cas = "Rejected" ->
                           "PushFailedButRemoteUnchanged"
                      [] decision = "ReadyToPush" /\ at[w].cas # "Rejected" ->
                           "RemoteUnchangedAfterSuccessfulPush"
                      [] decision = "NoopSatisfied" -> "Error"
                      [] OTHER -> decision)
      BY <1>7 DEF ClassifyResult
    <3>2. decision \in {"TargetMissing", "AlreadyPublished", "NoopSatisfied", "ReadyToPush",
                        "RemoteChanged"}
      BY DEF Reconcile
    <3> HIDE DEF decision
    <3>3. CASE decision = "AlreadyPublished"
      <4>1. Return(w, "Published")
        BY <3>1, <3>3
      <4>2. QED
        BY <3>3, <4>1 DEF GitResults
    <3>4. CASE decision = "ReadyToPush" /\ at[w].cas = "Rejected"
      <4>1. Return(w, "PushFailedButRemoteUnchanged")
        BY <3>1, <3>4
      <4>2. QED
        BY <4>1 DEF GitResults, GitSatisfied
    <3>5. CASE decision = "ReadyToPush" /\ at[w].cas # "Rejected"
      <4>1. Return(w, "RemoteUnchangedAfterSuccessfulPush")
        BY <3>1, <3>5
      <4>2. QED
        BY <4>1 DEF GitResults, GitSatisfied
    <3>6. CASE decision = "NoopSatisfied"
      <4>1. Return(w, "Error")
        BY <3>1, <3>6
      <4>2. QED
        BY <4>1 DEF GitResults, GitSatisfied
    <3>7. CASE decision \in {"TargetMissing", "RemoteChanged"}
      <4>1. Return(w, decision)
        BY <3>1, <3>7
      <4>2. QED
        BY <3>7, <4>1 DEF GitResults, GitSatisfied
    <3>8. QED
      BY <3>2, <3>3, <3>4, <3>5, <3>6, <3>7
  <2>2. CASE g \notin GitSatisfied
    BY <2>1, <2>2, ReturnOK
  <2>3. CASE g \in GitSatisfied
    <3>1. pc'[w] = "Idle" /\ git'[w] = "Published" /\ at'[w] = NoLocals
      BY <2>1, <2>3 DEF Return, TypeOK
    <3>2. <<r, intents[r].desired>> \in refFacts'
      BY <1>7, <2>1, <2>3 DEF ClassifyResult, Reconcile
    <3>3. QED
      BY <1>1, <1>2, <3>1, <3>2 DEF WorkspaceOK, PreparingOK, ExecutingOK, GateOK, ResultOK,
        GitFacts, Executing, Phases, Preparing, GatePhases, AtAsset, AfterGate, NoLocals
  <2>4. QED
    BY <2>2, <2>3
<1>8. QED
  BY <1>5, <1>6, <1>7

\* Every step keeps what every workspace knows.
LEMMA WorkspaceStep ==
  ASSUME IInv, [Next]_vars, TypeOK', Grows, NEW v \in Workspaces
  PROVE  WorkspaceOK(v)'
<1> USE DEF IInv
<1>1. ASSUME Untouched(v) PROVE WorkspaceOK(v)'
  BY <1>1, WorkspaceFrame
<1>2. ASSUME NEW w \in Workspaces,
             \/ Progress(w)
             \/ \E r \in Runs : ObserveBase(w, r) \/ Resume(w, r)
             \/ ServerRefuses(w) \/ PushMisreports(w) \/ PostObserveFails(w) \/ Abort(w)
             \/ CloneReplaced(w) \/ Fetch(w)
      PROVE  WorkspaceOK(v)'
  <2>1. CASE v # w
    BY <1>1, <1>2, <2>1, Elsewhere
  <2>2. CASE v = w /\ Abort(w)
    BY <2>2, ReturnOK DEF Abort, GitResults, GitSatisfied
  <2>3. CASE v = w /\ (CloneReplaced(w) \/ Fetch(w))
    BY <1>1, <2>3 DEF CloneReplaced, Fetch, memory, Untouched
  <2>4. QED
    BY <1>2, <2>1, <2>2, <2>3, PreparingStep, ObservingStep, GateStep, PushStep DEF Progress
<1>3. CASE \/ ForeignPush \/ RefDeleted
           \/ \E a \in Assets : Tamper(a)
           \/ \E r \in Runs : OrphanLands(r)
  BY <1>1, <1>3 DEF ForeignPush, RefDeleted, Tamper, OrphanLands, memory, Untouched
<1>4. CASE UNCHANGED vars
  BY <1>1, <1>4 DEF vars, memory, Untouched
<1>5. QED
  BY <1>2, <1>3, <1>4 DEF Next

----------------------------------------------------------------------------
(* The invariant, and what follows from it *)

\* The invariant holds initially.
LEMMA InitInvariant == Init => IInv
<1> SUFFICES ASSUME Init PROVE IInv
  OBVIOUS
<1>1. /\ holder = Others /\ target \in [Assets -> Stored] /\ tampered = {}
      /\ orphans = [r \in Runs |-> 0] /\ projections = [w \in Workspaces |-> {}]
      /\ refFacts = {} /\ assetFacts = {} /\ pc = [w \in Workspaces |-> "Idle"]
      /\ run = [w \in Workspaces |-> NoRun] /\ git = [w \in Workspaces |-> "None"]
      /\ verified = [w \in Workspaces |-> {}] /\ at = [w \in Workspaces |-> NoLocals]
      /\ faults = 0
  BY DEF Init
<1>2. /\ objects \in [Oids -> CommitFacts \cup {NoObject}] /\ remote \in Oids
      /\ local \in [Workspaces -> SUBSET Oids] /\ RemoteExists
      /\ intents \in [Runs -> PublishRun \cup {NoIntent}] /\ IntentsSound
  <2>1. PICK root \in Oids, facts \in CommitFacts, w \in Workspaces :
          /\ facts.parent = NoCommit
          /\ remote = root
          /\ \/ /\ LegacyRuns = {}
                /\ objects = [o \in Oids |-> IF o = root THEN facts ELSE NoObject]
                /\ intents = [r \in Runs |-> NoIntent]
                /\ local = [v \in Workspaces |-> {root}]
             \/ /\ LegacyRuns # {}
                /\ \E old \in Oids \ {root}, child \in CommitFacts :
                     /\ child.parent = root /\ child.tree # facts.tree
                     /\ objects = [o \in Oids |-> IF o = root THEN facts
                                                 ELSE IF o = old THEN child ELSE NoObject]
                     /\ intents = [r \in Runs |->
                          IF r \in LegacyRuns
                          THEN [ws |-> w, base |-> root, reviewed |-> child.tree,
                                desired |-> old, spec |-> NoSpec, delivery |-> NoDelivery]
                          ELSE NoIntent]
                     /\ local = [v \in Workspaces |-> IF v = w THEN {root, old} ELSE {root}]
    BY Zenon DEF Init
  <2>2. CASE /\ objects = [o \in Oids |-> IF o = root THEN facts ELSE NoObject]
             /\ intents = [r \in Runs |-> NoIntent]
             /\ local = [v \in Workspaces |-> {root}]
    BY <2>1, <2>2, SentinelsAssumption DEF RemoteExists, IntentsSound
  <2>3. ASSUME NEW old \in Oids \ {root}, NEW child \in CommitFacts,
               objects = [o \in Oids |-> IF o = root THEN facts
                                        ELSE IF o = old THEN child ELSE NoObject],
               intents = [r \in Runs |->
                 IF r \in LegacyRuns
                 THEN [ws |-> w, base |-> root, reviewed |-> child.tree,
                       desired |-> old, spec |-> NoSpec, delivery |-> NoDelivery]
                 ELSE NoIntent],
               local = [v \in Workspaces |-> IF v = w THEN {root, old} ELSE {root}]
        PROVE  /\ objects \in [Oids -> CommitFacts \cup {NoObject}] /\ remote \in Oids
               /\ local \in [Workspaces -> SUBSET Oids] /\ RemoteExists
               /\ intents \in [Runs -> PublishRun \cup {NoIntent}] /\ IntentsSound
    <3> DEFINE legacy == [ws |-> w, base |-> root, reviewed |-> child.tree, desired |-> old,
                          spec |-> NoSpec, delivery |-> NoDelivery]
    <3>1. legacy \in PublishRun
      <4>1. child.tree \in Tree
        BY DEF CommitFacts
      <4>2. QED
        BY <4>1 DEF PublishRun
    <3>2. objects[root] # NoObject /\ RemoteExists
      BY <2>1, <2>3, SentinelsAssumption DEF RemoteExists
    <3>3. IntentsSound
      BY <2>3, <3>1, <3>2 DEF IntentsSound, Sound
    <3>4. QED
      BY <2>1, <2>3, <3>1, <3>2, <3>3
  <2>4. QED
    BY <2>1, <2>2, <2>3
<1>3. TypeOK
  <2>1. NoLocals \in Locals
    BY DEF NoLocals, Locals, RefState, Verdicts
  <2>2. QED
    BY <1>1, <1>2, <2>1 DEF TypeOK, RefState, Phases, GitResults
<1>4. ASSUME NEW w \in Workspaces PROVE WorkspaceOK(w)
  BY <1>1 DEF WorkspaceOK, PreparingOK, ExecutingOK, GateOK, ResultOK, Executing, Phases,
    Preparing, GatePhases, AtAsset, AfterGate, NoLocals, GitSatisfied
<1>5. IdsReserved /\ MovesAuthorised /\ ReadyIsTrue
  BY <1>1, ConstantsAssumption DEF IdsReserved, Preparing, MovesAuthorised, ReadyIsTrue
<1>6. QED
  BY <1>2, <1>3, <1>4, <1>5 DEF IInv

\* Every step keeps the invariant.
LEMMA StepInvariant == IInv /\ [Next]_vars => IInv'
<1> SUFFICES ASSUME IInv, [Next]_vars PROVE IInv'
  OBVIOUS
<1>1. TypeOK' /\ Grows
  BY TypeStep, GrowsStep
<1>2. QED
  BY <1>1, RemoteStep, IdsStep, IntentsStep, MovesStep, ReadyStep, WorkspaceStep DEF IInv

\* The inductive invariant holds of every reachable state.
THEOREM Invariant == Spec => []IInv
  BY InitInvariant, StepInvariant, PTL DEF Spec

\* Every variable of the engine always holds a value of its type.
THEOREM Typing == Spec => []TypeOK
<1>1. IInv => TypeOK
  BY DEF IInv
<1>2. QED
  BY <1>1, Invariant, PTL

\* No interleaving of workspaces, aborted executions, resumptions and late pushes
\* makes a run's documents public before its assets are on the target.
THEOREM AssetGate == Spec => []AssetGateHolds
<1>1. IInv => AssetGateHolds
  BY RequiredType DEF IInv, MovesAuthorised, Authorised, ReadyIsTrue, Faithful, AssetGateHolds
<1>2. QED
  BY <1>1, Invariant, PTL

\* Whatever a run puts on the ref is the tree that was reviewed on its base.
THEOREM ReviewedTree == Spec => []PublishedTreeWasReviewed
<1>1. ASSUME IInv, NEW r \in Runs, holder = r
      PROVE  LET intent == intents[r]
             IN /\ remote = intent.desired
                /\ objects[remote].parent = intent.base
                /\ objects[remote].tree = intent.reviewed
                /\ Bound(r) =>
                     /\ objects[remote].tree.managed = TextOf[intent.delivery]
                     /\ objects[remote].tree.rest = objects[intent.base].tree.rest
  <2>1. /\ remote = intents[r].desired /\ intents[r] # NoIntent
        /\ CommitVerified(intents[r]) /\ Sound(intents[r].ws, intents[r])
    BY <1>1 DEF IInv, MovesAuthorised, Authorised, IntentsSound
  <2>2. objects[remote].parent = intents[r].base /\ objects[remote].tree = intents[r].reviewed
    BY <2>1 DEF CommitVerified
  <2>3. objects[intents[r].base] \in CommitFacts
    BY <1>1, <2>1 DEF IInv, TypeOK, PublishRun, Sound
  <2>4. ASSUME Bound(r)
        PROVE  /\ intents[r].reviewed.managed = TextOf[intents[r].delivery]
               /\ intents[r].reviewed.rest = objects[intents[r].base].tree.rest
    BY <2>1, <2>3, <2>4 DEF Bound, Sound, Materialize, CommitFacts, Tree
  <2>5. QED
    BY <2>1, <2>2, <2>4
<1>2. IInv => PublishedTreeWasReviewed
  BY <1>1 DEF PublishedTreeWasReviewed
<1>3. QED
  BY <1>2, Invariant, PTL

\* No push leaves before the facts that justify it are durable.
THEOREM Audit == Spec => []EffectsAreAudited
<1>1. IInv => EffectsAreAudited
  BY PushAuthorised DEF IInv, MovesAuthorised, Authorised, EffectsAreAudited, AfterGate
<1>2. QED
  BY <1>1, Invariant, PTL

\* A satisfied result rests on the ref observed and on every asset proven by that
\* very execution.
THEOREM Evidenced == Spec => []SatisfiedIsEvidenced
<1>1. IInv => SatisfiedIsEvidenced
  BY DEF IInv, WorkspaceOK, ResultOK, GitFacts, GitSatisfied, SatisfiedIsEvidenced
<1>2. QED
  BY <1>1, Invariant, PTL

\* A saved intent can always be carried out from what is durable.
THEOREM Reconstructible == Spec => []IntentIsReconstructible
<1>1. IInv => IntentIsReconstructible
  BY DEF IInv, IntentsSound, Sound, IntentIsReconstructible, Bound
<1>2. QED
  BY <1>1, Invariant, PTL

\* The publisher replaces a commit only by a child of it, whatever pushes arrive
\* late, twice or unreported.
THEOREM FastForwards == Spec => OnlyFastForwards
<1>1. IInv /\ [Next]_vars =>
        [holder' \in Runs /\ remote' # remote => objects[remote'].parent = remote]_vars
  BY RefMoves, ConstantsAssumption
  DEF Advances, Authorised, CommitVerified, ForeignPush, RefDeleted
<1>2. QED
  BY <1>1, Invariant, PTL DEF Spec, OnlyFastForwards

----------------------------------------------------------------------------
(* The engine implements the contract of PublicRef *)

\* The contract's variables, as the engine's state gives them.
PlanOf   == [r \in Runs |->
              IF intents[r] = NoIntent THEN NoIntent
              ELSE [base |-> intents[r].base, desired |-> Goal(r), needs |-> RequiredSet(r)]]
ProvenIn == {<<f[1], f[2]>> : f \in {g \in assetFacts : g[3] = "Ready"}}

\* A saved intent is a plan of the contract, and not the absent one.
LEMMA PlanType ==
  ASSUME TypeOK, NEW r \in Runs, intents[r] # NoIntent
  PROVE  /\ PlanOf[r] \in Contract!Plan /\ PlanOf[r] # NoIntent
         /\ PlanOf[r].base = intents[r].base
         /\ PlanOf[r].desired = Goal(r)
         /\ PlanOf[r].needs = RequiredSet(r)
<1>1. intents[r] \in PublishRun
  BY DEF TypeOK
<1>2. Goal(r) \in Oids /\ intents[r].base \in Oids
  BY <1>1 DEF Goal, PublishRun
<1>3. RequiredSet(r) \subseteq Assets
  BY RequiredType
<1>4. QED
  BY <1>2, <1>3, IntentAssumption DEF PlanOf, Contract!Plan, PublicPlan

\* What a run was proven is exactly its ready facts.
LEMMA ProvenType ==
  ASSUME TypeOK, NEW r, NEW a
  PROVE  <<r, a>> \in ProvenIn <=> <<r, a, "Ready">> \in assetFacts
<1>1. ASSUME NEW f \in assetFacts, f[3] = "Ready", <<r, a>> = <<f[1], f[2]>>
      PROVE  f = <<r, a, "Ready">>
  BY <1>1 DEF TypeOK
<1>2. QED
  BY <1>1 DEF ProvenIn

\* Plans change only by a run being saved.
LEMMA PlanFrame ==
  ASSUME UNCHANGED intents
  PROVE  UNCHANGED PlanOf
  BY DEF PlanOf, Goal, RequiredSet, Required

\* The engine starts where the contract does.
LEMMA InitRefines == Init => Contract!Init
<1> SUFFICES ASSUME Init PROVE Contract!Init
  OBVIOUS
<1>1. IInv
  BY InitInvariant
<1>2. PlanOf \in [Runs -> Contract!Plan \cup {NoIntent}]
  <2>1. \A r \in Runs : PlanOf[r] \in Contract!Plan \cup {NoIntent}
    BY <1>1, PlanType DEF IInv, PlanOf
  <2>2. QED
    BY <2>1 DEF PlanOf
<1>3. ProvenIn = {}
  BY DEF Init, ProvenIn
<1>4. remote \in Oids /\ holder = Others
  BY DEF Init
<1>5. QED
  BY <1>2, <1>3, <1>4 DEF Contract!Init, PlanOf, ProvenIn

\* Saving an intent freezes a plan.
LEMMA SaveRefines ==
  ASSUME IInv, TypeOK', NEW w \in Workspaces, SaveIntent(w), NEW r, r = run[w]
  PROVE  r \in Runs /\ Contract!Freeze(r)
<1>1. /\ r \in Runs /\ intents[r] = NoIntent
      /\ intents' = [intents EXCEPT ![r] = at[w].draft]
      /\ intents'[r] \in PublishRun
      /\ UNCHANGED <<remote, holder, assetFacts>>
  BY DEF SaveIntent, IInv, IdsReserved, Preparing, WorkspaceOK, PreparingOK, Sound, shared, TypeOK
<1>2. PlanOf[r] = NoIntent
  BY <1>1 DEF PlanOf
<1>3. PlanOf'[r] \in Contract!Plan
  <2>1. intents'[r] # NoIntent
    BY <1>1, IntentAssumption
  <2>2. Required(r)' \in Seq(Assets)
    BY <1>1, ConstantsAssumption DEF Required, PublishRun
  <2>3. RequiredSet(r)' \subseteq Assets
    BY <2>2 DEF RequiredSet
  <2>4. Goal(r)' \in Oids /\ intents'[r].base \in Oids
    BY <1>1 DEF Goal, PublishRun
  <2>5. QED
    BY <1>1, <2>1, <2>3, <2>4 DEF PlanOf, Contract!Plan
<1>4. \A q \in Runs \ {r} : PlanOf'[q] = PlanOf[q]
  BY <1>1 DEF PlanOf, Goal, RequiredSet, Required, IInv, TypeOK
<1>5. PlanOf' = [PlanOf EXCEPT ![r] = PlanOf'[r]]
  BY <1>4 DEF PlanOf
<1>6. UNCHANGED ProvenIn
  BY <1>1 DEF ProvenIn
<1>7. QED
  BY <1>1, <1>2, <1>3, <1>5, <1>6 DEF Contract!Freeze, PlanOf, ProvenIn

\* Judging an asset ready proves it for the run; any other verdict proves nothing.
LEMMA JudgeRefines ==
  ASSUME IInv, NEW w \in Workspaces, JudgeAsset(w), NEW r, r = run[w], NEW a, a = Asset(w)
  PROVE  r \in Runs /\ a \in Assets /\ (Contract!Prove(r, a) \/ UNCHANGED Contract!vars)
<1>1. /\ r \in Runs /\ a \in Assets /\ intents[r] # NoIntent
      /\ UNCHANGED <<remote, holder, intents>>
      /\ assetFacts' = assetFacts \cup {<<r, a, at[w].found>>}
  BY AssetType DEF JudgeAsset, AtAsset, IInv, WorkspaceOK, ExecutingOK, GateOK, Executing, Phases,
                   Preparing, shared
<1>2. PlanOf[r] # NoIntent /\ UNCHANGED PlanOf
  BY <1>1, PlanType, PlanFrame DEF IInv
<1>3. CASE at[w].found = "Ready"
  <2>1. ProvenIn' = ProvenIn \cup {<<r, a>>}
    <3> DEFINE new == <<r, a, "Ready">>
    <3>1. {g \in assetFacts' : g[3] = "Ready"} = {g \in assetFacts : g[3] = "Ready"} \cup {new}
      BY <1>1, <1>3
    <3>2. new[1] = r /\ new[2] = a
      OBVIOUS
    <3> HIDE DEF new
    <3>3. {<<f[1], f[2]>> : f \in {g \in assetFacts : g[3] = "Ready"} \cup {new}}
            = {<<f[1], f[2]>> : f \in {g \in assetFacts : g[3] = "Ready"}} \cup {<<new[1], new[2]>>}
      OBVIOUS
    <3>4. QED
      BY <3>1, <3>2, <3>3 DEF ProvenIn
  <2>2. QED
    BY <1>1, <1>2, <2>1 DEF Contract!Prove, PlanOf, ProvenIn
<1>4. CASE at[w].found # "Ready"
  <2>1. UNCHANGED ProvenIn
    BY <1>1, <1>4 DEF ProvenIn
  <2>2. QED
    BY <1>1, <1>2, <2>1 DEF Contract!vars, PlanOf, ProvenIn
<1>5. QED
  BY <1>3, <1>4

\* A push that takes effect is an advance of its run.
LEMMA AdvanceRefines ==
  ASSUME IInv, NEW r \in Runs, Advances(r), UNCHANGED <<intents, assetFacts>>
  PROVE  Contract!Advance(r)
<1>1. /\ intents[r] # NoIntent /\ intents[r].desired # NoCommit
      /\ \A a \in RequiredSet(r) : <<r, a, "Ready">> \in assetFacts
      /\ remote = intents[r].base /\ remote' = intents[r].desired /\ holder' = r
  BY DEF Advances, Authorised
<1>2. /\ PlanOf[r] # NoIntent /\ PlanOf[r].base = intents[r].base
      /\ PlanOf[r].desired = intents[r].desired /\ PlanOf[r].needs = RequiredSet(r)
  BY <1>1, PlanType DEF IInv, Goal
<1>3. \A a \in RequiredSet(r) : <<r, a>> \in ProvenIn
  BY <1>1, ProvenType DEF IInv
<1>4. UNCHANGED <<PlanOf, ProvenIn>>
  BY PlanFrame DEF ProvenIn
<1>5. QED
  BY <1>1, <1>2, <1>3, <1>4 DEF Contract!Advance, PlanOf, ProvenIn

\* Every step of the engine is a step of the contract, or leaves it alone.
LEMMA StepRefines ==
  ASSUME IInv, [Next]_vars
  PROVE  [Contract!Next]_Contract!vars
<1>1. ASSUME UNCHANGED <<remote, holder, intents, assetFacts>>
      PROVE  UNCHANGED Contract!vars
  BY <1>1, PlanFrame DEF Contract!vars, PlanOf
<1>2. ASSUME NEW w \in Workspaces, SaveIntent(w) PROVE Contract!Next
  <2>1. ASSUME NEW r, r = run[w] PROVE r \in Runs /\ Contract!Freeze(r)
    BY <1>2, <2>1, SaveRefines, TypeStep
  <2>2. QED
    BY <2>1 DEF Contract!Next
<1>3. ASSUME NEW w \in Workspaces, JudgeAsset(w) PROVE Contract!Next \/ UNCHANGED Contract!vars
  <2>1. ASSUME NEW r, r = run[w], NEW a, a = Asset(w)
        PROVE  r \in Runs /\ a \in Assets /\ (Contract!Prove(r, a) \/ UNCHANGED Contract!vars)
    BY <1>3, <2>1, JudgeRefines
  <2>2. QED
    BY <2>1 DEF Contract!Next
<1>4. ASSUME NEW w \in Workspaces, ServerAnswers(w)
      PROVE  Contract!Next \/ UNCHANGED Contract!vars
  <2>1. UNCHANGED <<intents, assetFacts, objects>>
    BY <1>4 DEF ServerAnswers, durable
  <2>2. UNCHANGED <<remote, holder>> \/ (Advances(run[w]) /\ run[w] \in Runs)
    BY <1>4, <2>1, PushAuthorised DEF ServerAnswers, CompareAndSwap, AfterGate, Advances
  <2>3. QED
    BY <1>1, <2>1, <2>2, AdvanceRefines DEF Contract!Next
<1>5. ASSUME NEW r \in Runs, OrphanLands(r)
      PROVE  Contract!Next \/ UNCHANGED Contract!vars
  <2>1. UNCHANGED <<intents, assetFacts, objects>>
    BY <1>5 DEF OrphanLands, durable
  <2>2. UNCHANGED <<remote, holder>> \/ Advances(r)
    BY <1>5, <2>1, PushAuthorised DEF OrphanLands, CompareAndSwap, Advances
  <2>3. QED
    BY <1>1, <2>1, <2>2, AdvanceRefines DEF Contract!Next
<1>6. CASE ForeignPush \/ RefDeleted
  <2>1. UNCHANGED <<intents, assetFacts>> /\ holder' = Others
    BY <1>6 DEF ForeignPush, RefDeleted, durable
  <2>2. remote' \in Oids \cup {RefMissing}
    BY <1>6 DEF ForeignPush, RefDeleted
  <2>3. UNCHANGED <<PlanOf, ProvenIn>>
    BY <2>1, PlanFrame DEF ProvenIn
  <2>4. QED
    BY <2>1, <2>2, <2>3 DEF Contract!Next, Contract!Interfere, PlanOf, ProvenIn
<1>7. ASSUME NEW w \in Workspaces,
             \/ \E d \in Deliveries : FreezeDelivery(w, d)
             \/ PrepareIntent(w) \/ ReconcileRef(w) \/ ClassifyResult(w)
      PROVE  UNCHANGED Contract!vars
  BY <1>1, <1>7 DEF FreezeDelivery, PrepareIntent, ReconcileRef, ClassifyResult, shared
<1>8. ASSUME NEW w \in Workspaces,
             \/ \E r \in Runs : ObserveBase(w, r) \/ Resume(w, r)
             \/ PrepareFails(w) \/ ObserveRef(w) \/ EnsureDesiredCommit(w)
             \/ InspectAsset(w) \/ PlaceAsset(w) \/ GateDone(w)
      PROVE  UNCHANGED Contract!vars
  BY <1>1, <1>8 DEF ObserveBase, Resume, PrepareFails, ObserveRef, EnsureDesiredCommit,
    InspectAsset, PlaceAsset, GateDone, shared, durable
<1>9. ASSUME NEW w \in Workspaces,
             \/ SendPush(w) \/ PushReports(w) \/ PostObserveRef(w) \/ ServerRefuses(w)
             \/ PushMisreports(w) \/ PostObserveFails(w) \/ Abort(w) \/ CloneReplaced(w)
             \/ Fetch(w)
      PROVE  UNCHANGED Contract!vars
  BY <1>1, <1>9 DEF SendPush, PushReports, PostObserveRef, ServerRefuses, PushMisreports,
    PostObserveFails, Abort, CloneReplaced, Fetch, shared, durable
<1>10. ASSUME NEW a \in Assets, Tamper(a) PROVE UNCHANGED Contract!vars
  BY <1>1, <1>10 DEF Tamper, durable
<1>11. CASE UNCHANGED vars
  BY <1>1, <1>11 DEF vars, shared, durable
<1>12. QED
  BY <1>2, <1>3, <1>4, <1>5, <1>6, <1>7, <1>8, <1>9, <1>10, <1>11 DEF Next, Progress

\* Whatever executions, retries, crashes, late pushes and strangers do, the ref moves
\* only as the contract allows.
THEOREM Refinement == Spec => ImplementsContract
<1>1. IInv /\ [Next]_vars => [Contract!Next]_Contract!vars
  BY StepRefines
<1>2. QED
  BY <1>1, InitRefines, Invariant, PTL DEF Spec, Contract!Spec, ImplementsContract
=============================================================================
