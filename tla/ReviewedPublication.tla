------------------------ MODULE ReviewedPublication ------------------------
(***************************************************************************)
(* What Mineral Publisher lets out.  A publication takes a snapshot of the *)
(* vault, keeps the documents that are in scope, public and whole, asks a  *)
(* reviewer about the ones nobody has answered for, does the same for the  *)
(* assets the approved ones need, delivers clean copies of these to a      *)
(* store under keys of their own, and replaces the public documents by the *)
(* approved ones, which then link to the keys.  It stops and changes       *)
(* nothing in public as soon as a human has to decide.                     *)
(*                                                                         *)
(* Answers outlive publications: they are durable, are about a path, a     *)
(* content and a policy (a subject), and are reused by every later         *)
(* publication.  An installation may bring answers of an earlier release,  *)
(* which reviewed every snapshot anew and bound a human decision to one    *)
(* attempt rather than to its subject.                                     *)
(*                                                                         *)
(* Simplifications:                                                        *)
(*   - a snapshot is taken in one step: SourceScan is about the scan;      *)
(*   - the documents share a folder: a name means the same in each of them;*)
(*   - assets are delivered in one step and the public documents replaced  *)
(*     in another: FilesystemAssetTarget and Publication are about these;  *)
(*   - one operation runs at a time, human decisions included, which is    *)
(*     what OperationSupervisor and DailyService show of the lease;        *)
(*   - attempts stopped by the program check are never selected again: one *)
(*     of them, with the id 0, stands for all of a subject's;              *)
(*   - candidates are answered in any order, which covers the evaluator    *)
(*     that works in path order and the bounded one;                       *)
(*   - crashes and failures of a store or of a transfer are Interrupt.     *)
(***************************************************************************)
EXTENDS Naturals

CONSTANTS
  Docs, Assets,    \* paths of Markdown documents, and of other files
  Texts, Files,    \* what a document and what another file may hold
  Outputs,         \* what is published for files
  Filenames,       \* names that files are presented with
  Names,           \* the targets of embeds, images and links
  Policies,        \* review policies: name, version and hash
  Configs,         \* the configurations an operator may choose
  FirstVaults,     \* vaults to begin with
  EarlierFacts,    \* what an earlier release may have left in the stores
  MaxIds,          \* bound: ids an attempt may draw, see IdsSuffice in the MC module
  MaxEdits,        \* bound: edits of the vault and of the configuration
  MaxFaults        \* bound: damage, failures of a reviewer, interruptions

CONSTANTS
  Privacy,    \* of a path and its text: "public", "private", or "unreadable"
  Mentions,   \* of a text: the names that have to resolve
  Named,      \* of a name: the paths it may denote
  Kind,       \* of a file: what the program check makes of its bytes
  CleanCopy,  \* of a file: what is published for it, its metadata removed
  FileName,   \* of a path and an output: the name it is presented with, or
  NoName,     \* none: the path has no name that fits the type of the output
  Absent, Nothing

Paths    == Docs \cup Assets
Contents == Texts \cup Files
Kinds    == {"image", "odd", "pdf", "broken"}
Vaults   == {v \in [Paths -> Contents \cup {Absent}] :
              /\ \A d \in Docs : v[d] \in Texts \cup {Absent}
              /\ \A a \in Assets : v[a] \in Files \cup {Absent}}

\* A delivered file is kept under what it is and how it is called; a public
\* document is its text with links to such keys, or as the author wrote it.
Keys     == [bytes : Outputs, name : Filenames]
Pages    == [text : Texts, links : [Names -> Keys \cup {Absent}]]
Trees    == [Docs -> Pages \cup {Absent}]

\* A subject, one attempt to answer for it, and what a human said of an attempt.
Subjects  == [path : Paths, content : Contents, policy : Policies]
Verdicts  == {"issues", "approved", "rejected", "asked", "failed",  \* both
              "blocked", "policy"}                                  \* assets
Attempts  == [subject : Subjects, id : 0..MaxIds, verdict : Verdicts]
Decisions == [attempt : Attempts, binds : {"subject", "attempt"},
              says : {"approve", "reject"}]

ForHumans   == {"asked", "failed", "policy"}
Conclusions == {"approved", "rejected", "asked", "blocked", "policy"}

ASSUME Inputs ==
  /\ Docs \cap Assets = {}
  /\ Texts \cap Files = {}
  /\ Absent \notin Contents \cup Keys \cup Pages
  /\ Nothing \notin [files : Vaults, rules : Configs]
  /\ Privacy \in [Docs \X Texts -> {"public", "private", "unreadable"}]
  /\ Mentions \in [Texts -> SUBSET Names]
  /\ Named \in [Names -> SUBSET Paths]
  /\ Kind \in [Files -> Kinds]
  /\ CleanCopy \in [Files -> Outputs]
  /\ FileName \in [Assets \X Outputs -> Filenames]
  /\ Configs \subseteq
       [documents : Policies, assets : Policies, excluded : SUBSET Paths]
  /\ Configs # {}
  /\ FirstVaults \subseteq Vaults
  /\ MaxIds \in Nat /\ MaxEdits \in Nat /\ MaxFaults \in Nat

(* Earlier releases, too, let a human decide only what was waiting for one,
   and bound no decision to a subject. *)
ASSUME Upgrades ==
  \A e \in EarlierFacts :
    /\ e.attempts \subseteq Attempts
    /\ e.decisions \subseteq Decisions
    /\ \A h \in e.decisions :
         /\ h.attempt \in e.attempts
         /\ h.attempt.verdict \in ForHumans
         /\ h.binds = "attempt"

VARIABLES
  \* Outside.
  vault,      \* the files the author keeps
  config,     \* the configuration
  damaged,    \* contents the content store has lost or cannot read
  public,     \* the documents everybody reads
  stored,     \* the keys at the asset target, from which nothing is removed
  \* Durable facts: review_runs, asset_review_runs, human_review_records.
  attempts,
  decisions,
  \* The publication that is running.
  phase,      \* "Idle", "Analysis", "Documents", "Assets" or "Delivery"
  taken,      \* the snapshot and the configuration it works with
  chosen,     \* the attempts it answers its candidates with
  sick,       \* contents it found damaged when it checked its assets
  \* Bounds.
  edits, faults

outside == <<vault, config, damaged, edits, faults>>
facts   == <<attempts, decisions>>
running == <<phase, taken, chosen, sick>>
vars    == <<outside, public, stored, facts, running>>

Views == [files : Vaults, rules : Configs]

(***************************************************************************)
(* What is recorded about a subject.                                       *)
(***************************************************************************)
Of(s)        == {a \in attempts : a.subject = s}
Pending(s)   == {a \in Of(s) : a.verdict \in ForHumans}
Concluded(s) == {a \in Of(s) : a.verdict \in Conclusions}

Bound(s) == {h \in decisions : h.binds = "subject" /\ h.attempt.subject = s}

\* A decision that binds its subject answers every attempt about it; an older
\* one answers the attempt it names.
Resolution(a) ==
  IF Bound(a.subject) # {}
    THEN Bound(a.subject)
    ELSE {h \in decisions : h.binds = "attempt" /\ h.attempt = a}

Answered(s) == Bound(s) # {} \/ \E a \in Of(s) : Resolution(a) # {}

First(A) == {a \in A : \A b \in A : a.id <= b.id}

\* The attempt that answers for a subject without asking again, if there is one.
Reusable(s) == First(IF Answered(s) THEN Pending(s) ELSE Concluded(s))

\* A decision that answers no attempt, or conclusions that disagree: an error.
Contradicted(s) ==
  IF Answered(s)
    THEN Pending(s) = {}
    ELSE \E a, b \in Concluded(s) : a.verdict # b.verdict

IsSaid(a, word) ==
  a.verdict \in ForHumans /\ \E h \in Resolution(a) : h.says = word
Approves(a) == a.verdict = "approved" \/ IsSaid(a, "approve")
Waits(a)    == a.verdict \in ForHumans /\ Resolution(a) = {}

(***************************************************************************)
(* What a view -- files, and the rules of a configuration -- selects.      *)
(***************************************************************************)
Now == [files |-> vault, rules |-> config]

Subject(v, p) ==
  [path |-> p, content |-> v.files[p],
   policy |-> IF p \in Docs THEN v.rules.documents ELSE v.rules.assets]

InScope(v) == {d \in Docs : v.files[d] # Absent /\ d \notin v.rules.excluded}

\* Analysis reads every document in scope, the private ones too.
Unreadable(v) == {d \in InScope(v) :
  Privacy[<<d, v.files[d]>>] = "unreadable" \/ v.files[d] \in damaged}

IsPublic(d, text) == Privacy[<<d, text>>] = "public"

Candidates(v) == {d \in InScope(v) : IsPublic(d, v.files[d])}

Targets(v, n) == {p \in Named[n] : v.files[p] # Absent}

\* The program check of a document: each name denotes exactly one file.
PassesCheck(v, d) ==
  \A n \in Mentions[v.files[d]] : \E p \in Paths : Targets(v, n) = {p}

\* An embedded note is no dependency, and neither is an ambiguous name.
Needs(v, D) == {a \in Assets :
  \E d \in D : \E n \in Mentions[v.files[d]] : Targets(v, n) = {a}}

\* What the asset policy makes of bytes: "ready" is for the reviewer to say.
Classify(c, lost) ==
  IF c \in lost \/ Kind[c] = "broken" THEN "blocked"
  ELSE IF Kind[c] = "image" THEN "ready" ELSE "policy"

\* Metadata is removed from images that decode, and from nothing else.
CanBeCleaned(c) == Kind[c] \in {"image", "odd"}

\* Mutant: an approved document is published with whatever it needs.
PublishableAnyway(v, ok) == Docs \cap ok

\* The final closure: approved documents all of whose assets are approved.
Publishable(v, ok) == {d \in Docs \cap ok : Needs(v, {d}) \subseteq ok}

\* What is published for an asset.
Cleaned(v, a) == CleanCopy[v.files[a]]

\* The key of an asset: two assets share one only with the same bytes and name.
Key(v, a) == [bytes |-> Cleaned(v, a), name |-> FileName[<<a, Cleaned(v, a)>>]]

\* Every reference that resolves to an asset is replaced by a link to its key.
Rewritten(v, d) ==
  [text  |-> v.files[d],
   links |-> [n \in Names |->
     IF n \in Mentions[v.files[d]] /\ \E a \in Assets : Targets(v, n) = {a}
       THEN Key(v, CHOOSE a \in Assets : Targets(v, n) = {a})
       ELSE Absent]]

\* Mutant: a document whose text is public needs nothing to be delivered.
DeliveryOfChanges(v, ok) ==
  {Key(v, a) : a \in
     Needs(v, {d \in Publishable(v, ok) : public[d] = Absent \/ public[d].text # v.files[d]})}

\* What is delivered: the assets the published documents need, and no other.
Delivery(v, ok) == {Key(v, a) : a \in Needs(v, Publishable(v, ok))}

Tree(v, ok) ==
  [d \in Docs |-> IF d \in Publishable(v, ok) THEN Rewritten(v, d) ELSE Absent]

(***************************************************************************)
(* Outside the program: the author, the operator, the disk.                *)
(***************************************************************************)
Edit(p) ==
  /\ edits < MaxEdits
  /\ \E c \in (IF p \in Docs THEN Texts ELSE Files) \cup {Absent} :
       /\ c # vault[p]
       /\ vault' = [vault EXCEPT ![p] = c]
  /\ edits' = edits + 1
  /\ UNCHANGED <<config, damaged, faults, public, stored, facts, running>>

Reconfigure ==
  /\ edits < MaxEdits
  /\ config' \in Configs \ {config}
  /\ edits' = edits + 1
  /\ UNCHANGED <<vault, damaged, faults, public, stored, facts, running>>

\* What is lost while nothing runs is what the next scan does not mend.
Damage(c) ==
  /\ phase # "Idle"
  /\ faults < MaxFaults
  /\ \E p \in Paths : taken.files[p] = c
  /\ c \notin damaged
  /\ damaged' = damaged \cup {c}
  /\ faults' = faults + 1
  /\ UNCHANGED <<vault, config, edits, public, stored, facts, running>>

\* Mutant: a human may overrule what was not waiting for one.
DecideAnyway(a) ==
  /\ phase = "Idle"
  /\ Resolution(a) = {}
  /\ \E says \in {"approve", "reject"} :
       decisions' = decisions \cup
         {[attempt |-> a, binds |-> "subject", says |-> says]}
  /\ UNCHANGED <<outside, public, stored, attempts, running>>

\* A human decides on an attempt; the same decision again changes nothing, and
\* the opposite one is refused.
Decide(a) ==
  /\ phase = "Idle"
  /\ a.verdict \in ForHumans
  /\ Resolution(a) = {}
  /\ \E says \in {"approve", "reject"} :
       decisions' = decisions \cup
         {[attempt |-> a, binds |-> "subject", says |-> says]}
  /\ UNCHANGED <<outside, public, stored, attempts, running>>

(***************************************************************************)
(* A publication.                                                          *)
(***************************************************************************)
\* The scan stores again what it reads again, and so mends some of the damage:
\* all of it for a directory, and for a bucket what is absent or was cut.
StartPublish ==
  /\ phase = "Idle"
  /\ phase' = "Analysis"
  /\ taken' = Now
  /\ chosen' = {}
  /\ sick' = {}
  /\ damaged' \in SUBSET damaged
  /\ UNCHANGED <<vault, config, edits, faults, public, stored, facts>>

Forget ==
  /\ phase' = "Idle"
  /\ taken' = Nothing
  /\ chosen' = {}
  /\ sick' = {}

Stop ==
  /\ Forget
  /\ UNCHANGED <<outside, public, stored, facts>>

Chosen == {a.subject.path : a \in chosen}
Passed == {a.subject.path : a \in {b \in chosen : Approves(b)}}

\* Paths that still need an answer in this phase.
Unanswered ==
  (IF phase = "Documents"
     THEN Candidates(taken)
     ELSE Needs(taken, Passed \cap Docs)) \ Chosen

Analyse ==
  /\ phase = "Analysis"
  /\ Unreadable(taken) = {}
  /\ phase' = "Documents"
  /\ UNCHANGED <<outside, public, stored, facts, taken, chosen, sick>>

StopAtAnalysis ==
  /\ phase = "Analysis"
  /\ Unreadable(taken) # {}
  /\ Stop

Choose(a) ==
  /\ chosen' = chosen \cup {a}
  /\ UNCHANGED <<outside, public, stored, facts, phase, taken, sick>>

\* Mutant: an attempt answers and is saved at the end of a run.
SaveLater(a) ==
  /\ chosen' = chosen \cup {a}
  /\ UNCHANGED <<vault, config, damaged, edits, public, stored, facts, phase, taken,
                 sick>>

\* Mutant: one attempt is kept for each subject, the last one.
SaveOver(a) ==
  /\ attempts' = (attempts \ Of(a.subject)) \cup {a}
  /\ chosen' = chosen \cup {a}
  /\ UNCHANGED <<vault, config, damaged, edits, public, stored, decisions, phase,
                 taken, sick>>

\* A new attempt is saved under a random id before it answers.
Save(a) ==
  /\ attempts' = attempts \cup {a}
  /\ chosen' = chosen \cup {a}
  /\ UNCHANGED <<vault, config, damaged, edits, public, stored, decisions, phase,
                 taken, sick>>

Attempt(s, verdict) ==
  \E id \in 1..MaxIds :
    /\ \A a \in Of(s) : a.id # id
    /\ Save([subject |-> s, id |-> id, verdict |-> verdict])
    /\ UNCHANGED faults

\* The reviewer was called and gave no valid report.
Failure(s) ==
  \E id \in 1..MaxIds :
    /\ faults < MaxFaults
    /\ \A a \in Of(s) : a.id # id
    /\ Save([subject |-> s, id |-> id, verdict |-> "failed"])
    /\ faults' = faults + 1

AskReviewer(s) ==
  \/ \E verdict \in {"approved", "rejected", "asked"} : Attempt(s, verdict)
  \/ Failure(s)

\* Nothing that is recorded answers.
IsNew(s) == ~Answered(s) /\ Concluded(s) = {}

\* The program check is made on every snapshot, whatever is recorded.
RefuseDocument(d) ==
  /\ phase = "Documents"
  /\ d \in Unanswered
  /\ ~PassesCheck(taken, d)
  /\ Save([subject |-> Subject(taken, d), id |-> 0, verdict |-> "issues"])
  /\ UNCHANGED faults

\* Mutant: what is recorded is used before the check is made.
ReuseUnchecked(d) ==
  /\ phase = "Documents"
  /\ d \in Unanswered
  /\ ~Contradicted(Subject(taken, d))
  /\ \E a \in Reusable(Subject(taken, d)) : Choose(a)

ReuseDocument(d) ==
  /\ phase = "Documents"
  /\ d \in Unanswered
  /\ PassesCheck(taken, d)
  /\ ~Contradicted(Subject(taken, d))
  /\ \E a \in Reusable(Subject(taken, d)) : Choose(a)

ReviewDocument(d) ==
  /\ phase = "Documents"
  /\ d \in Unanswered
  /\ PassesCheck(taken, d)
  /\ IsNew(Subject(taken, d))
  /\ AskReviewer(Subject(taken, d))

StopAtDocument(d) ==
  /\ phase = "Documents"
  /\ d \in Unanswered
  /\ PassesCheck(taken, d)
  /\ Contradicted(Subject(taken, d))
  /\ Stop

PauseForHuman ==
  /\ phase \in {"Documents", "Assets"}
  /\ Unanswered = {}
  /\ \E a \in chosen : Waits(a)
  /\ Stop

DocumentsAreDecided ==
  phase = "Documents" /\ Unanswered = {} /\ \A a \in chosen : ~Waits(a)

\* What keeps assets from being selected: an approved document with a name that
\* does not resolve, or an asset that is needed and out of scope.
ScopeConflicts ==
  {d \in Passed \cap Docs : ~PassesCheck(taken, d)} \cup
  (Needs(taken, Passed \cap Docs) \cap taken.rules.excluded)

SelectAssets ==
  /\ DocumentsAreDecided
  /\ ScopeConflicts = {}
  /\ phase' = "Assets"
  /\ sick' = {taken.files[a] : a \in Needs(taken, Passed \cap Docs)} \cap damaged
  /\ UNCHANGED <<outside, public, stored, facts, taken, chosen>>

StopAtSelection ==
  /\ DocumentsAreDecided
  /\ ScopeConflicts # {}
  /\ Stop

\* The answer that is recorded comes before what this run's check found.
ReuseAsset(a) ==
  /\ phase = "Assets"
  /\ a \in Unanswered
  /\ ~Contradicted(Subject(taken, a))
  /\ \E r \in Reusable(Subject(taken, a)) : Choose(r)

ReviewAsset(a) ==
  /\ phase = "Assets"
  /\ a \in Unanswered
  /\ IsNew(Subject(taken, a))
  /\ LET class == Classify(taken.files[a], sick) IN
       IF class = "ready"
         THEN AskReviewer(Subject(taken, a))
         ELSE Attempt(Subject(taken, a), class)

StopAtAsset(a) ==
  /\ phase = "Assets"
  /\ a \in Unanswered
  /\ Contradicted(Subject(taken, a))
  /\ Stop

AssetsAreDecided ==
  phase = "Assets" /\ Unanswered = {} /\ \A a \in chosen : ~Waits(a)

\* Every approved asset is cleaned, whether a document is published with it or
\* not; what is published with one must have a name, and the bytes of the assets
\* and of the documents are read again.
Unfit ==
  {a \in Passed \cap Assets :
     ~CanBeCleaned(taken.files[a]) \/ taken.files[a] \in sick \cup damaged} \cup
  {a \in Needs(taken, Publishable(taken, Passed)) : Key(taken, a).name = NoName} \cup
  {d \in Publishable(taken, Passed) : taken.files[d] \in damaged}

StopAtCleaning ==
  /\ AssetsAreDecided
  /\ Unfit # {}
  /\ Stop

\* Assets first ...
Deliver ==
  /\ AssetsAreDecided
  /\ Unfit = {}
  /\ phase' = "Delivery"
  /\ stored' = stored \cup Delivery(taken, Passed)
  /\ UNCHANGED <<outside, public, facts, taken, chosen, sick>>

\* Mutant: where nothing may be published there is nothing to do.
CompleteUnlessEmpty ==
  /\ phase = "Delivery"
  /\ public' = IF Publishable(taken, Passed) = {} THEN public
               ELSE Tree(taken, Passed)
  /\ Forget
  /\ UNCHANGED <<outside, stored, facts>>

\* ... then the documents that link to them.
Complete ==
  /\ phase = "Delivery"
  /\ public' = Tree(taken, Passed)
  /\ Forget
  /\ UNCHANGED <<outside, stored, facts>>

\* A crash, a failure of a store or of a transfer, a cancellation.
Interrupt ==
  /\ phase # "Idle"
  /\ faults < MaxFaults
  /\ faults' = faults + 1
  /\ Forget
  /\ UNCHANGED <<vault, config, damaged, edits, public, stored, facts>>

Progress ==
  \/ Analyse
  \/ StopAtAnalysis
  \/ \E d \in Docs : \/ RefuseDocument(d)
                     \/ ReuseDocument(d)
                     \/ ReviewDocument(d)
                     \/ StopAtDocument(d)
  \/ PauseForHuman
  \/ SelectAssets
  \/ StopAtSelection
  \/ \E a \in Assets : \/ ReuseAsset(a)
                       \/ ReviewAsset(a)
                       \/ StopAtAsset(a)
  \/ StopAtCleaning
  \/ Deliver
  \/ Complete

Init ==
  /\ vault \in FirstVaults
  /\ config \in Configs
  /\ damaged = {}
  /\ public = [d \in Docs |-> Absent]
  /\ stored = {}
  /\ \E e \in EarlierFacts : attempts = e.attempts /\ decisions = e.decisions
  /\ phase = "Idle"
  /\ taken = Nothing
  /\ chosen = {}
  /\ sick = {}
  /\ edits = 0
  /\ faults = 0

Next ==
  \/ \E p \in Paths : Edit(p)
  \/ Reconfigure
  \/ \E c \in Contents : Damage(c)
  \/ \E a \in attempts : Decide(a)
  \/ StartPublish
  \/ Progress
  \/ Interrupt

Spec == Init /\ [][Next]_vars

\* A publication that is due is started, and one that runs goes on: the daily
\* schedule and the supervisor see to it.  Nothing makes a human decide.
Fairness == WF_vars(StartPublish) /\ WF_vars(Progress)

FairSpec == Spec /\ Fairness

(***************************************************************************)
(* Properties.                                                             *)
(***************************************************************************)
\* Facts, snapshots and trees are what they should be.
TypeOK ==
  /\ vault \in Vaults
  /\ config \in Configs
  /\ damaged \subseteq Contents
  /\ public \in Trees
  /\ stored \subseteq Keys
  /\ attempts \subseteq Attempts
  /\ decisions \subseteq Decisions
  /\ phase \in {"Idle", "Analysis", "Documents", "Assets", "Delivery"}
  /\ taken \in Views \cup {Nothing}
  /\ phase # "Idle" => taken \in Views
  /\ chosen \subseteq attempts
  /\ sick \subseteq Contents
  /\ edits \in 0..MaxEdits
  /\ faults \in 0..MaxFaults

\* Readers find what a document shows: whatever a public document mentions that
\* is no document has become a link, and the key it links to is at the target,
\* after every change of documents or of assets and wherever a publication ends.
PublicDocs == {d \in Docs : public[d] # Absent}
PublicTreeIsClosed ==
  \A d \in PublicDocs : \A n \in Mentions[public[d].text] :
    Named[n] \cap Docs = {} => public[d].links[n] \in stored

\* A recorded approval never carries a document past the program check of this
\* snapshot: the error ApprovedDocumentsHaveDependencyProblems, which the asset
\* selection and the closure both provide for, is never raised.
ApprovedDocumentsResolve ==
  \A a \in chosen : Approves(a) /\ a.subject.path \in Docs =>
    PassesCheck(taken, a.subject.path)

\* What is made public was in scope and public by its own account, was approved
\* as this content and under the policy of this run -- by a reviewer, or by a
\* human who was asked -- and has not been rejected by a human who decided on
\* the subject.  That goes for documents and for the assets delivered with them,
\* and an asset is delivered only if a document of which this is true needs it.
MayBeReleased(p) ==
  LET s == Subject(taken, p) IN
  /\ s.path \notin taken.rules.excluded
  /\ p \in Docs => IsPublic(p, s.content)
  /\ \A h \in Bound(s) : h.says = "approve"
  /\ \/ \E a \in Of(s) : a.verdict = "approved"
     \/ \E h \in decisions : h.attempt.subject = s /\ h.says = "approve"

PublicationsAreAuthorised ==
  [][/\ public' # public =>
          \A d \in Docs : public'[d] # Absent =>
            public'[d].text = taken.files[d] /\ MayBeReleased(d)
     /\ \A k \in stored' \ stored :
          \E d \in Docs : \E a \in Needs(taken, {d}) :
            k = Key(taken, a) /\ MayBeReleased(a) /\ MayBeReleased(d)]_vars

\* An answer stands.  A subject that is approved or rejected stays so, however
\* often it is published and whatever fails, until a human decides on it; and
\* what a human decided on it is final.
Verdict(s) ==
  LET answer == Reusable(s)
  IN  CASE Contradicted(s) \/ answer = {} -> "none"
        [] ~Contradicted(s) /\ \E a \in answer : Waits(a) -> "waits"
        [] ~Contradicted(s) /\ \E a \in answer : Approves(a) -> "approved"
        [] OTHER -> "rejected"

AnswersStand ==
  [][\A s \in {a.subject : a \in attempts} :
       \/ Verdict(s) \in {"none", "waits"}
       \/ Verdict(s)' = Verdict(s)
       \/ Bound(s) = {} /\ Bound(s)' # {}]_vars

\* No run of this release makes the facts of a subject contradict each other:
\* conclusions that disagree, and decisions about nothing that waits, can only
\* have been brought along from an earlier release.
NothingNewIsContradicted ==
  [][\A s \in {a.subject : a \in attempts'} :
       Contradicted(s)' => Contradicted(s)]_vars

\* Publications settle.  When the author, the operator and the faults have come
\* to rest, the public tree is what the facts allow of the vault, or a human is
\* waited for, or there is one of the obstacles the program reports and does not
\* get over by itself.
Answer(p) == Reusable(Subject(Now, p))
OkNow ==
  {d \in Candidates(Now) : PassesCheck(Now, d) /\ \E a \in Answer(d) : Approves(a)}
    \cup {f \in Assets : \E a \in Answer(f) : Approves(a)}
ToAnswer ==
  {d \in Candidates(Now) : PassesCheck(Now, d)} \cup Needs(Now, OkNow \cap Docs)

HumanIsWaitedFor == \E p \in ToAnswer : \E a \in Answer(p) : Waits(a)
Obstructed ==
  \/ Unreadable(Now) # {}
  \/ Needs(Now, OkNow \cap Docs) \cap config.excluded # {}
  \/ \E p \in ToAnswer :
       \/ Contradicted(Subject(Now, p))
       \/ vault[p] \in damaged
       \/ p \in OkNow \cap Assets /\ ~CanBeCleaned(vault[p])
       \/ p \in Assets /\ vault[p] \in Files /\ Key(Now, p).name = NoName
UpToDate ==
  /\ \A p \in ToAnswer : \E a \in Answer(p) : ~Waits(a)
  /\ public = Tree(Now, OkNow)

PublicationSettles == <>[](HumanIsWaitedFor \/ Obstructed \/ UpToDate)

\* An asset is only held back for its bytes if its bytes are bad: a verdict of
\* the asset policy that is used again is the one the policy gives now.
ReusedVerdictsAreTrue ==
  \A r \in chosen :
    r.verdict = "blocked" =>
      Classify(r.subject.content, sick) = "blocked"
=============================================================================
