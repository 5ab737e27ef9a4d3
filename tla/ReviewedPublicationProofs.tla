---------------------- MODULE ReviewedPublicationProofs ----------------------
(***************************************************************************)
(* Theorems about ReviewedPublication, for all documents, assets, policies *)
(* and histories an earlier release may have left.                         *)
(***************************************************************************)
EXTENDS ReviewedPublication, TLAPS

(* The inductive invariant, by parts *)

\* Decisions are about attempts that are there and waited for one, and at most
\* one of them binds a subject.
DecisionsOK ==
  /\ \A h \in decisions : h.attempt \in attempts /\ h.attempt.verdict \in ForHumans
  /\ \A g, h \in decisions :
       /\ g.binds = "subject" /\ h.binds = "subject"
       /\ g.attempt.subject = h.attempt.subject
       => g = h

\* What a run goes by is about its own snapshot and policy, and was chosen as
\* the facts allow: an approval of the reviewer only where no human decided.
ChoiceOK(a) ==
  /\ a.subject = Subject(taken, a.subject.path)
  /\ a.verdict = "approved" => Bound(a.subject) = {}
  /\ a.subject.path \in Docs =>
       /\ a.subject.path \in Candidates(taken)
       /\ a.verdict # "issues" => PassesCheck(taken, a.subject.path)

RunOK ==
  /\ phase \in {"Idle", "Analysis"} => chosen = {}
  /\ \A a \in chosen : ChoiceOK(a)
  /\ phase \in {"Assets", "Delivery"} =>
       Needs(taken, Passed \cap Docs) \cap taken.rules.excluded = {}
  /\ phase = "Delivery" => Delivery(taken, Passed) \subseteq stored

IInv == TypeOK /\ DecisionsOK /\ RunOK /\ PublicTreeIsClosed

(* About views *)

LEMMA ViewTypes ==
  ASSUME NEW v \in Views
  PROVE  /\ \A p \in Paths : v.files[p] \in Contents \cup {Absent}
         /\ \A d \in Docs : v.files[d] # Absent => v.files[d] \in Texts
         /\ \A a \in Assets : v.files[a] # Absent => v.files[a] \in Files
         /\ v.rules.documents \in Policies
         /\ v.rules.assets \in Policies
BY Inputs DEF Views, Vaults, Paths, Contents

LEMMA NowIsAView ==
  ASSUME TypeOK PROVE Now \in Views
BY DEF TypeOK, Now, Views

LEMMA SubjectTypes ==
  ASSUME NEW v \in Views, NEW p \in Paths, v.files[p] # Absent
  PROVE  /\ Subject(v, p) \in Subjects
         /\ Subject(v, p).path = p
         /\ Subject(v, p).content = v.files[p]
BY ViewTypes DEF Subject, Subjects

\* What a document needs is in the snapshot, and unless it is a note it is an asset.
LEMMA NeedsAreThere ==
  ASSUME NEW v, NEW D, NEW a \in Needs(v, D)
  PROVE  a \in Assets /\ v.files[a] # Absent
BY DEF Needs, Targets

\* Needs of a set are the needs of its members.
LEMMA NeedsOfMembers ==
  ASSUME NEW v, NEW D, NEW a \in Needs(v, D)
  PROVE  \E d \in D : a \in Needs(v, {d})
BY DEF Needs

LEMMA NeedsGrow ==
  ASSUME NEW v, NEW D, NEW E, D \subseteq E
  PROVE  Needs(v, D) \subseteq Needs(v, E)
BY DEF Needs

(* Type correctness *)

LEMMA TypeInit ==
  Init => TypeOK
<1> SUFFICES ASSUME Init PROVE TypeOK
  OBVIOUS
<1>1. vault \in Vaults /\ config \in Configs /\ damaged \subseteq Contents
  BY Inputs DEF Init
<1>2. public \in Trees
  BY DEF Init, Trees
<1>3. attempts \subseteq Attempts /\ decisions \subseteq Decisions
  BY Upgrades DEF Init
<1> QED
  BY <1>1, <1>2, <1>3, Inputs DEF Init, TypeOK

LEMMA KeyTypes ==
  ASSUME NEW v \in Views, NEW D, NEW a \in Needs(v, D)
  PROVE  Key(v, a) \in Keys
<1>1. a \in Assets /\ CleanCopy[v.files[a]] \in Outputs
  BY NeedsAreThere, ViewTypes, Inputs
<1> QED
  BY <1>1, Inputs DEF Key, Keys, Cleaned

\* A name that denotes one asset becomes a link to it, and any other stays.
LEMMA LinkOfName ==
  ASSUME NEW v, NEW d, NEW n \in Names
  PROVE  \/ /\ \A a \in Assets : Targets(v, n) # {a}
            /\ Rewritten(v, d).links[n] = Absent
         \/ /\ n \notin Mentions[v.files[d]]
            /\ Rewritten(v, d).links[n] = Absent
         \/ \E a \in Needs(v, {d}) :
              Targets(v, n) = {a} /\ Rewritten(v, d).links[n] = Key(v, a)
<1> DEFINE link == Rewritten(v, d).links[n]
<1>1. link = IF n \in Mentions[v.files[d]] /\ \E a \in Assets : Targets(v, n) = {a}
               THEN Key(v, CHOOSE a \in Assets : Targets(v, n) = {a})
               ELSE Absent
  BY DEF Rewritten
<1>2. ASSUME n \in Mentions[v.files[d]], \E a \in Assets : Targets(v, n) = {a}
      PROVE  \E a \in Needs(v, {d}) : Targets(v, n) = {a} /\ link = Key(v, a)
  <2>1. PICK a \in Assets : Targets(v, n) = {a}
    BY <1>2
  <2>2. \A b : b \in Assets /\ Targets(v, n) = {b} => b = a
    BY <2>1
  <2>3. a = CHOOSE b \in Assets : Targets(v, n) = {b}
    BY <2>1, <2>2
  <2>4. a \in Needs(v, {d})
    BY <1>2, <2>1 DEF Needs
  <2> QED
    BY <1>1, <1>2, <2>1, <2>3, <2>4
<1> QED
  BY <1>1, <1>2

LEMMA TreeTypes ==
  ASSUME NEW v \in Views, NEW ok
  PROVE  (\A d \in Publishable(v, ok) : v.files[d] # Absent) => Tree(v, ok) \in Trees
<1> SUFFICES ASSUME \A d \in Publishable(v, ok) : v.files[d] # Absent
             PROVE  Tree(v, ok) \in Trees
  OBVIOUS
<1>1. ASSUME NEW d \in Publishable(v, ok)
      PROVE  Rewritten(v, d) \in Pages
  <2>1. v.files[d] \in Texts
    BY <1>1, ViewTypes DEF Publishable
  <2>2. ASSUME NEW n \in Names
        PROVE  Rewritten(v, d).links[n] \in Keys \cup {Absent}
    <3>1. CASE Rewritten(v, d).links[n] = Absent
      BY <3>1
    <3>2. CASE \E a \in Needs(v, {d}) : Rewritten(v, d).links[n] = Key(v, a)
      BY <3>2, KeyTypes
    <3> QED
      BY <3>1, <3>2, LinkOfName
  <2> QED
    BY <2>1, <2>2 DEF Rewritten, Pages
<1> QED
  BY <1>1 DEF Tree, Trees

\* What still needs an answer is in the snapshot.
LEMMA UnansweredIsThere ==
  ASSUME TypeOK, phase # "Idle", NEW p \in Unanswered
  PROVE  /\ p \in Paths
         /\ taken \in Views
         /\ taken.files[p] # Absent
         /\ Subject(taken, p) \in Subjects
         /\ Subject(taken, p).path = p
<1>1. taken \in Views
  BY DEF TypeOK
<1>2. p \in Paths /\ taken.files[p] # Absent
  BY NeedsAreThere DEF Unanswered, Candidates, InScope, Paths
<1> QED
  BY <1>1, <1>2, SubjectTypes

LEMMA SaveTypes ==
  ASSUME TypeOK, phase # "Idle", NEW p \in Unanswered, NEW id \in 0..MaxIds,
         NEW verdict \in Verdicts,
         Save([subject |-> Subject(taken, p), id |-> id, verdict |-> verdict]),
         faults' \in 0..MaxFaults
  PROVE  TypeOK'
<1>1. [subject |-> Subject(taken, p), id |-> id, verdict |-> verdict] \in Attempts
  BY UnansweredIsThere DEF Attempts
<1> QED
  BY <1>1 DEF TypeOK, Save

LEMMA AttemptTypes ==
  ASSUME TypeOK, phase # "Idle", NEW p \in Unanswered, NEW verdict \in Verdicts,
         Attempt(Subject(taken, p), verdict)
  PROVE  TypeOK'
<1>1. PICK id \in 1..MaxIds :
        /\ Save([subject |-> Subject(taken, p), id |-> id, verdict |-> verdict])
        /\ UNCHANGED faults
  BY DEF Attempt
<1>2. id \in 0..MaxIds /\ faults' \in 0..MaxFaults
  BY <1>1, Inputs DEF TypeOK
<1> QED
  BY <1>1, <1>2, SaveTypes

LEMMA AskTypes ==
  ASSUME TypeOK, phase # "Idle", NEW p \in Unanswered,
         AskReviewer(Subject(taken, p))
  PROVE  TypeOK'
<1>1. ASSUME NEW verdict \in {"approved", "rejected", "asked"},
             Attempt(Subject(taken, p), verdict)
      PROVE  TypeOK'
  BY <1>1, AttemptTypes DEF Verdicts
<1>2. CASE Failure(Subject(taken, p))
  <2>1. PICK id \in 1..MaxIds :
          /\ faults < MaxFaults
          /\ Save([subject |-> Subject(taken, p), id |-> id, verdict |-> "failed"])
          /\ faults' = faults + 1
    BY <1>2 DEF Failure
  <2>2. id \in 0..MaxIds /\ faults' \in 0..MaxFaults /\ "failed" \in Verdicts
    BY <2>1, Inputs DEF TypeOK, Verdicts
  <2> QED
    BY <2>1, <2>2, SaveTypes
<1> QED
  BY <1>1, <1>2 DEF AskReviewer

LEMMA StopTypes ==
  ASSUME TypeOK, Stop PROVE TypeOK'
BY DEF TypeOK, Stop, Forget, outside, facts

LEMMA ChooseTypes ==
  ASSUME TypeOK, NEW a \in attempts, Choose(a) PROVE TypeOK'
BY DEF TypeOK, Choose, outside, facts

LEMMA ReusableIsRecorded ==
  ASSUME NEW s, NEW a \in Reusable(s)
  PROVE  a \in attempts /\ a.subject = s
BY DEF Reusable, First, Pending, Concluded, Of

\* Types are kept, if a publication that completes has a tree to publish.
LEMMA TypeStep ==
  TypeOK /\ [Next]_vars /\ (Complete => Tree(taken, Passed) \in Trees) => TypeOK'
<1> SUFFICES ASSUME TypeOK, [Next]_vars, Complete => Tree(taken, Passed) \in Trees
             PROVE  TypeOK'
  OBVIOUS
<1>1. ASSUME NEW p \in Paths, Edit(p) PROVE TypeOK'
  <2>1. PICK c \in (IF p \in Docs THEN Texts ELSE Files) \cup {Absent} :
          vault' = [vault EXCEPT ![p] = c]
    BY <1>1 DEF Edit
  <2>2. vault' \in Vaults
    BY <2>1, Inputs DEF TypeOK, Vaults, Paths, Contents
  <2>3. edits' \in 0..MaxEdits
    BY <1>1, Inputs DEF Edit, TypeOK
  <2> QED
    BY <1>1, <2>2, <2>3 DEF Edit, TypeOK, facts, running
<1>2. CASE Reconfigure
  BY <1>2, Inputs DEF Reconfigure, TypeOK, facts, running
<1>3. ASSUME NEW c \in Contents, Damage(c) PROVE TypeOK'
  BY <1>3, Inputs DEF Damage, TypeOK, facts, running
<1>4. ASSUME NEW a \in attempts, Decide(a) PROVE TypeOK'
  <2>1. decisions' \subseteq Decisions
    BY <1>4 DEF Decide, TypeOK, Decisions
  <2> QED
    BY <1>4, <2>1 DEF Decide, TypeOK, outside, running
<1>5. CASE StartPublish
  BY <1>5, NowIsAView DEF StartPublish, TypeOK, facts, Views
<1>6. CASE Interrupt
  BY <1>6, Inputs DEF Interrupt, TypeOK, facts, Forget
<1>7. CASE Progress
  <2>1. CASE Analyse
    BY <2>1 DEF Analyse, TypeOK, outside, facts
  <2>2. ASSUME NEW d \in Docs, RefuseDocument(d) PROVE TypeOK'
    <3>1. 0 \in 0..MaxIds /\ "issues" \in Verdicts /\ faults' \in 0..MaxFaults
      BY <2>2, Inputs DEF RefuseDocument, Verdicts, TypeOK
    <3> QED
      BY <2>2, <3>1, SaveTypes DEF RefuseDocument
  <2>3. ASSUME NEW d \in Docs, ReuseDocument(d) PROVE TypeOK'
    BY <2>3, ReusableIsRecorded, ChooseTypes DEF ReuseDocument
  <2>4. ASSUME NEW d \in Docs, ReviewDocument(d) PROVE TypeOK'
    BY <2>4, AskTypes DEF ReviewDocument
  <2>5. CASE SelectAssets
    BY <2>5 DEF SelectAssets, TypeOK, DocumentsAreDecided, outside, facts
  <2>6. ASSUME NEW a \in Assets, ReuseAsset(a) PROVE TypeOK'
    BY <2>6, ReusableIsRecorded, ChooseTypes DEF ReuseAsset
  <2>7. ASSUME NEW a \in Assets, ReviewAsset(a) PROVE TypeOK'
    <3>1. CASE AskReviewer(Subject(taken, a))
      BY <2>7, <3>1, AskTypes DEF ReviewAsset
    <3>2. CASE Attempt(Subject(taken, a), Classify(taken.files[a], sick))
               /\ Classify(taken.files[a], sick) # "ready"
      <4>1. Classify(taken.files[a], sick) \in Verdicts
        BY <3>2 DEF Classify, Verdicts
      <4> QED
        BY <2>7, <3>2, <4>1, AttemptTypes DEF ReviewAsset
    <3> QED
      BY <2>7, <3>1, <3>2 DEF ReviewAsset
  <2>8. CASE Deliver
    <3>1. Delivery(taken, Passed) \subseteq Keys
      BY <2>8, KeyTypes DEF Deliver, AssetsAreDecided, TypeOK, Delivery
    <3> QED
      BY <2>8, <3>1 DEF Deliver, AssetsAreDecided, TypeOK, outside, facts
  <2>9. CASE Complete
    BY <2>9 DEF Complete, TypeOK, outside, facts, Forget
  <2>10. CASE Stop
    BY <2>10, StopTypes
  <2> QED
    BY <1>7, <2>1, <2>2, <2>3, <2>4, <2>5, <2>6, <2>7, <2>8, <2>9, <2>10
       DEF Progress, StopAtAnalysis, StopAtDocument, PauseForHuman,
           StopAtSelection, StopAtAsset, StopAtCleaning
<1>8. CASE UNCHANGED vars
  BY <1>8 DEF TypeOK, vars, outside, facts, running
<1> QED
  BY <1>1, <1>2, <1>3, <1>4, <1>5, <1>6, <1>7, <1>8 DEF Next

(* What a step does to the facts of a subject *)

\* A new attempt changes nothing that is said: no decision names it.
LEMMA SavedFacts ==
  ASSUME TypeOK, DecisionsOK, NEW a, a \notin attempts,
         attempts' = attempts \cup {a}, decisions' = decisions
  PROVE  /\ DecisionsOK'
         /\ \A s : Bound(s)' = Bound(s)
         /\ \A b : Resolution(b)' = Resolution(b)
         /\ \A b : Waits(b)' = Waits(b) /\ Approves(b)' = Approves(b)
         /\ \A s : Answered(s)' = Answered(s)
<1>1. DecisionsOK'
  BY DEF DecisionsOK
<1>2. \A s : Bound(s)' = Bound(s)
  BY DEF Bound
<1>3. \A b : Resolution(b)' = Resolution(b)
  BY <1>2 DEF Resolution
<1>4. \A b : Waits(b)' = Waits(b) /\ Approves(b)' = Approves(b)
  BY <1>3 DEF Waits, Approves, IsSaid
<1>5. ASSUME NEW s, Bound(s) = {}, a.subject = s PROVE Resolution(a) = {}
  BY <1>5 DEF DecisionsOK, Resolution
<1>6. ASSUME NEW s PROVE Answered(s)' = Answered(s)
  <2>1. Of(s)' = Of(s) \cup {b \in {a} : b.subject = s}
    BY DEF Of
  <2> QED
    BY <1>2, <1>3, <1>5, <2>1 DEF Answered
<1> QED
  BY <1>1, <1>2, <1>3, <1>4, <1>6

\* Facts that do not change say what they said.
LEMMA SameFacts ==
  ASSUME DecisionsOK, UNCHANGED facts
  PROVE  /\ DecisionsOK'
         /\ \A s : Bound(s)' = Bound(s)
         /\ \A b : Approves(b)' = Approves(b)
         /\ \A s : Reusable(s)' = Reusable(s) /\ Contradicted(s)' = Contradicted(s)
         /\ \A s : Verdict(s)' = Verdict(s)
<1> USE DEF facts
<1>1. DecisionsOK' /\ \A s : Bound(s)' = Bound(s)
  BY DEF DecisionsOK, Bound
<1>2. \A b : Resolution(b)' = Resolution(b)
  BY <1>1 DEF Resolution
<1>3. \A b : Approves(b)' = Approves(b) /\ Waits(b)' = Waits(b)
  BY <1>2 DEF Waits, Approves, IsSaid
<1>4. \A s : Of(s)' = Of(s) /\ Pending(s)' = Pending(s) /\ Concluded(s)' = Concluded(s)
  BY DEF Of, Pending, Concluded
<1>5. \A s : Answered(s)' = Answered(s)
  BY <1>1, <1>2, <1>4 DEF Answered
<1>6. \A s : Reusable(s)' = Reusable(s) /\ Contradicted(s)' = Contradicted(s)
  BY <1>4, <1>5 DEF Reusable, Contradicted
<1>7. \A s : Verdict(s)' = Verdict(s)
  BY <1>3, <1>6 DEF Verdict
<1> QED
  BY <1>1, <1>3, <1>6, <1>7

\* A decision binds the subject of the attempt it is about, and no other.
LEMMA DecidedFacts ==
  ASSUME TypeOK, DecisionsOK, NEW a \in attempts, Decide(a)
  PROVE  /\ DecisionsOK'
         /\ Bound(a.subject) = {} /\ Bound(a.subject)' # {}
         /\ a \in Pending(a.subject)'
         /\ \A s : s # a.subject => Verdict(s)' = Verdict(s)
         /\ \A s : s # a.subject => Contradicted(s)' = Contradicted(s)
<1>1. PICK says \in {"approve", "reject"} :
        decisions' = decisions \cup
          {[attempt |-> a, binds |-> "subject", says |-> says]}
  BY DEF Decide
<1> DEFINE h == [attempt |-> a, binds |-> "subject", says |-> says]
<1>2. attempts' = attempts /\ a.verdict \in ForHumans /\ Resolution(a) = {}
  BY DEF Decide
<1>3. Bound(a.subject) = {}
  BY <1>2 DEF Resolution
<1>4. \A g \in decisions : g.binds = "subject" => g.attempt.subject # a.subject
  BY <1>3 DEF Bound
<1>5. h.attempt = a /\ h.binds = "subject"
  OBVIOUS
<1>6. DecisionsOK'
  BY <1>1, <1>2, <1>4, <1>5 DEF DecisionsOK
<1>7. h \in Bound(a.subject)'
  BY <1>1, <1>5 DEF Bound
<1>8. \A s : Of(s)' = Of(s) /\ Pending(s)' = Pending(s) /\ Concluded(s)' = Concluded(s)
  BY <1>2 DEF Of, Pending, Concluded
<1>9. a \in Pending(a.subject)'
  BY <1>2, <1>8 DEF Pending, Of
<1>10. ASSUME NEW s, s # a.subject
       PROVE  Verdict(s)' = Verdict(s) /\ Contradicted(s)' = Contradicted(s)
  <2>1. Bound(s)' = Bound(s)
    BY <1>1, <1>5, <1>10 DEF Bound
  <2>2. \A b : b.subject = s => Resolution(b)' = Resolution(b)
    <3> SUFFICES ASSUME NEW b, b.subject = s PROVE Resolution(b)' = Resolution(b)
      OBVIOUS
    <3>1. {g \in decisions' : g.binds = "attempt" /\ g.attempt = b} =
            {g \in decisions : g.binds = "attempt" /\ g.attempt = b}
      BY <1>1, <1>5
    <3> QED
      BY <2>1, <3>1 DEF Resolution
  <2>3. \A b : b.subject = s => Approves(b)' = Approves(b) /\ Waits(b)' = Waits(b)
    BY <2>2 DEF Approves, Waits, IsSaid
  <2>4. Answered(s)' = Answered(s)
    BY <1>8, <2>1, <2>2 DEF Answered, Of
  <2>5. Reusable(s)' = Reusable(s) /\ Contradicted(s)' = Contradicted(s)
    BY <1>8, <2>4 DEF Reusable, Contradicted
  <2>6. \A b \in Reusable(s) : b.subject = s
    BY ReusableIsRecorded
  <2> QED
    BY <2>3, <2>5, <2>6 DEF Verdict
<1> QED
  BY <1>3, <1>6, <1>7, <1>9, <1>10

\* A step leaves the facts alone, is a human's decision, or saves one attempt:
\* about a subject nothing answers for, or about one the program check refused.
AddsAttempt(a) ==
  /\ a \notin attempts
  /\ attempts' = attempts \cup {a}
  /\ decisions' = decisions
  /\ a.verdict = "issues" \/ IsNew(a.subject)

\* An id that no attempt about the subject has makes a new attempt.
LEMMA SaveAdds ==
  ASSUME NEW s, NEW id, NEW verdict, \A a \in Of(s) : a.id # id, IsNew(s),
         Save([subject |-> s, id |-> id, verdict |-> verdict])
  PROVE  \E a : /\ AddsAttempt(a) /\ Save(a)
                /\ a.subject = s /\ a.verdict = verdict
<1> DEFINE new == [subject |-> s, id |-> id, verdict |-> verdict]
<1>1. new.subject = s /\ new.id = id /\ new.verdict = verdict
  OBVIOUS
<1>2. new \notin attempts
  BY <1>1 DEF Of
<1>3. attempts' = attempts \cup {new} /\ decisions' = decisions /\ Save(new)
  BY DEF Save
<1> HIDE DEF new
<1>4. AddsAttempt(new)
  BY <1>1, <1>2, <1>3 DEF AddsAttempt
<1> QED
  BY <1>1, <1>3, <1>4

LEMMA AttemptAdds ==
  ASSUME NEW s, NEW verdict, Attempt(s, verdict), IsNew(s)
  PROVE  \E a : /\ AddsAttempt(a) /\ Save(a)
                /\ a.subject = s /\ a.verdict = verdict
<1>1. PICK id \in 1..MaxIds :
        /\ \A a \in Of(s) : a.id # id
        /\ Save([subject |-> s, id |-> id, verdict |-> verdict])
  BY DEF Attempt
<1> QED
  BY <1>1, SaveAdds

LEMMA AskAdds ==
  ASSUME NEW s, AskReviewer(s), IsNew(s)
  PROVE  \E a : AddsAttempt(a) /\ Save(a) /\ a.subject = s
<1>1. CASE Failure(s)
  <2>1. PICK id \in 1..MaxIds :
          /\ \A a \in Of(s) : a.id # id
          /\ Save([subject |-> s, id |-> id, verdict |-> "failed"])
    BY <1>1 DEF Failure
  <2> QED
    BY <2>1, SaveAdds
<1> QED
  BY <1>1, AttemptAdds DEF AskReviewer

LEMMA FactSteps ==
  ASSUME [Next]_vars
  PROVE  \/ UNCHANGED facts
         \/ \E a \in attempts : Decide(a)
         \/ \E a : AddsAttempt(a)
<1> DEFINE Goal == \/ UNCHANGED facts
                   \/ \E a \in attempts : Decide(a)
                   \/ \E a : AddsAttempt(a)
<1>1. CASE Progress
  <2>1. ASSUME NEW d \in Docs, RefuseDocument(d) PROVE Goal
    <3> DEFINE a == [subject |-> Subject(taken, d), id |-> 0, verdict |-> "issues"]
    <3>1. a.verdict = "issues" /\ attempts' = attempts \cup {a} /\ decisions' = decisions
      BY <2>1 DEF RefuseDocument, Save
    <3>2. CASE a \in attempts
      BY <3>1, <3>2 DEF facts
    <3>3. CASE a \notin attempts
      BY <3>1, <3>3 DEF AddsAttempt
    <3> QED
      BY <3>2, <3>3
  <2>2. ASSUME NEW d \in Docs, ReviewDocument(d) PROVE Goal
    BY <2>2, AskAdds DEF ReviewDocument
  <2>3. ASSUME NEW a \in Assets, ReviewAsset(a) PROVE Goal
    BY <2>3, AskAdds, AttemptAdds DEF ReviewAsset
  <2>4. ASSUME NEW d \in Docs, ReuseDocument(d) PROVE UNCHANGED facts
    BY <2>4 DEF ReuseDocument, Choose
  <2>5. ASSUME NEW a \in Assets, ReuseAsset(a) PROVE UNCHANGED facts
    BY <2>5 DEF ReuseAsset, Choose
  <2>6. CASE Analyse \/ SelectAssets \/ Deliver \/ Complete \/ Stop
    BY <2>6 DEF Analyse, SelectAssets, Deliver, Complete, Stop
  <2> QED
    BY <1>1, <2>1, <2>2, <2>3, <2>4, <2>5, <2>6
       DEF Progress, StopAtAnalysis, StopAtDocument, PauseForHuman,
           StopAtSelection, StopAtAsset, StopAtCleaning
<1>2. CASE (\E p \in Paths : Edit(p)) \/ Reconfigure \/ (\E c \in Contents : Damage(c))
           \/ StartPublish \/ Interrupt \/ UNCHANGED vars
  BY <1>2 DEF Edit, Reconfigure, Damage, StartPublish, Interrupt, vars
<1> QED
  BY <1>1, <1>2 DEF Next

\* What an added attempt does to the subjects.
LEMMA AddedFacts ==
  ASSUME TypeOK, DecisionsOK, NEW a, AddsAttempt(a), NEW s
  PROVE  /\ Contradicted(s)' => Contradicted(s)
         /\ Verdict(s) = "none" \/ Verdict(s)' = Verdict(s)
<1>1. /\ \A b : Waits(b)' = Waits(b) /\ Approves(b)' = Approves(b)
      /\ Answered(s)' = Answered(s)
  BY SavedFacts DEF AddsAttempt
<1>2. Of(s)' = Of(s) \cup {b \in {a} : b.subject = s}
  BY DEF Of, AddsAttempt
<1>3. CASE a.subject # s \/ a.verdict = "issues"
  <2>1. Pending(s)' = Pending(s) /\ Concluded(s)' = Concluded(s)
    BY <1>2, <1>3 DEF Pending, Concluded, ForHumans, Conclusions
  <2>2. Contradicted(s)' = Contradicted(s) /\ Reusable(s)' = Reusable(s)
    BY <1>1, <2>1 DEF Contradicted, Reusable
  <2> QED
    BY <1>1, <2>2 DEF Verdict
<1>4. CASE a.subject = s /\ a.verdict # "issues"
  <2>1. ~Answered(s) /\ Concluded(s) = {}
    BY <1>4 DEF AddsAttempt, IsNew
  <2>2. Concluded(s)' \subseteq {a}
    BY <1>2, <2>1 DEF Concluded
  <2>3. ~Contradicted(s)'
    BY <1>1, <2>1, <2>2 DEF Contradicted
  <2>4. Reusable(s) = {}
    BY <2>1 DEF Reusable, First
  <2> QED
    BY <2>3, <2>4 DEF Verdict
<1> QED
  BY <1>3, <1>4

LEMMA DecisionsInit ==
  Init => DecisionsOK
BY Upgrades DEF Init, DecisionsOK

LEMMA DecisionsStep ==
  TypeOK /\ DecisionsOK /\ [Next]_vars => DecisionsOK'
BY FactSteps, SameFacts, DecidedFacts, SavedFacts DEF AddsAttempt

(* What a run goes by *)

LEMMA SaveKeeps ==
  ASSUME TypeOK, DecisionsOK, NEW a, Save(a)
  PROVE  /\ \A s : Bound(s)' = Bound(s)
         /\ \A b : Approves(b)' = Approves(b)
<1>1. CASE a \in attempts
  <2>1. UNCHANGED facts
    BY <1>1 DEF Save, facts
  <2> QED
    BY <2>1, SameFacts
<1>2. CASE a \notin attempts
  BY <1>2, SavedFacts DEF Save
<1> QED
  BY <1>1, <1>2

\* An attempt that is used again is about the subject, and if it is an approval
\* then no human has decided.
LEMMA ReusedChoice ==
  ASSUME NEW s, NEW a \in Reusable(s)
  PROVE  a.subject = s /\ (a.verdict = "approved" => Bound(s) = {})
<1>1. Answered(s) => a \in Pending(s)
  BY DEF Reusable, First
<1> QED
  BY <1>1, ReusableIsRecorded DEF Pending, Answered, ForHumans

LEMMA NewChoice ==
  ASSUME TypeOK, phase \in {"Documents", "Assets"}, NEW p \in Unanswered, NEW a,
         a.subject = Subject(taken, p),
         a.verdict = "approved" => Bound(a.subject) = {},
         phase = "Documents" /\ a.verdict # "issues" => PassesCheck(taken, p)
  PROVE  ChoiceOK(a) /\ (phase = "Assets" => a.subject.path \in Assets)
<1>1. a.subject.path = p
  BY UnansweredIsThere
<1>2. phase = "Documents" => p \in Candidates(taken)
  BY DEF Unanswered
<1>3. phase = "Assets" => p \in Assets /\ p \notin Docs
  BY NeedsAreThere, Inputs DEF Unanswered
<1> QED
  BY <1>1, <1>2, <1>3 DEF ChoiceOK

\* A run that goes by one more attempt still goes by what the facts allow.
LEMMA RunGrows ==
  ASSUME RunOK, phase \in {"Documents", "Assets"}, NEW a,
         ChoiceOK(a), phase = "Assets" => a.subject.path \in Assets,
         chosen' = chosen \cup {a}, phase' = phase, taken' = taken,
         \A s : Bound(s)' = Bound(s), \A b : Approves(b)' = Approves(b)
  PROVE  RunOK'
<1>1. \A b : ChoiceOK(b) => ChoiceOK(b)'
  BY DEF ChoiceOK, Subject, Candidates, InScope, PassesCheck, Targets
<1>2. phase = "Assets" => Passed' \cap Docs = Passed \cap Docs
  BY Inputs DEF Passed
<1>3. phase = "Assets" =>
        Needs(taken, Passed \cap Docs)' = Needs(taken, Passed \cap Docs)
  BY <1>2 DEF Needs, Targets
<1> QED
  BY <1>1, <1>3 DEF RunOK

\* A step that leaves the run and what is said alone.
LEMMA RunKept ==
  ASSUME RunOK, DecisionsOK, UNCHANGED <<facts, running, stored>>
  PROVE  RunOK'
<1>1. \A b : ChoiceOK(b) => ChoiceOK(b)'
  BY SameFacts
     DEF ChoiceOK, Subject, Candidates, InScope, PassesCheck, Targets, running
<1>2. Passed' = Passed
  BY SameFacts DEF Passed, running
<1>3. /\ Needs(taken, Passed \cap Docs)' = Needs(taken, Passed \cap Docs)
      /\ Delivery(taken, Passed)' = Delivery(taken, Passed)
  BY <1>2 DEF Delivery, Publishable, Key, Needs, Targets, running
<1> QED
  BY <1>1, <1>3 DEF RunOK, running

LEMMA RunInit ==
  Init => RunOK
BY DEF Init, RunOK

LEMMA RunStep ==
  TypeOK /\ DecisionsOK /\ RunOK /\ [Next]_vars => RunOK'
<1> SUFFICES ASSUME TypeOK, DecisionsOK, RunOK, [Next]_vars PROVE RunOK'
  OBVIOUS
<1>1. ASSUME chosen' = {}, phase' \in {"Idle", "Analysis", "Documents"}
      PROVE  RunOK'
  BY <1>1 DEF RunOK
<1>2. ASSUME NEW p \in Unanswered, phase \in {"Documents", "Assets"}, NEW a,
             a.subject = Subject(taken, p), Save(a),
             a.verdict = "issues" \/ IsNew(a.subject),
             phase = "Documents" /\ a.verdict # "issues" => PassesCheck(taken, p)
      PROVE  RunOK'
  <2>1. a.verdict = "approved" => Bound(a.subject) = {}
    BY <1>2 DEF IsNew, Answered
  <2>2. ChoiceOK(a) /\ (phase = "Assets" => a.subject.path \in Assets)
    BY <1>2, <2>1, NewChoice
  <2> QED
    BY <1>2, <2>2, SaveKeeps, RunGrows DEF Save
<1>3. ASSUME NEW p \in Unanswered, phase \in {"Documents", "Assets"},
             NEW a \in Reusable(Subject(taken, p)), Choose(a),
             phase = "Documents" => PassesCheck(taken, p)
      PROVE  RunOK'
  <2>1. ChoiceOK(a) /\ (phase = "Assets" => a.subject.path \in Assets)
    BY <1>3, ReusedChoice, NewChoice
  <2>2. UNCHANGED facts
    BY <1>3 DEF Choose
  <2> QED
    BY <1>3, <2>1, <2>2, SameFacts, RunGrows DEF Choose
<1>4. CASE Progress
  <2>1. CASE Analyse
    BY <2>1, <1>1 DEF Analyse, RunOK
  <2>2. ASSUME NEW d \in Docs, RefuseDocument(d) PROVE RunOK'
    BY <2>2, <1>2 DEF RefuseDocument
  <2>3. ASSUME NEW d \in Docs, ReuseDocument(d) PROVE RunOK'
    BY <2>3, <1>3 DEF ReuseDocument
  <2>4. ASSUME NEW d \in Docs, ReviewDocument(d) PROVE RunOK'
    <3>1. PICK a : AddsAttempt(a) /\ Save(a) /\ a.subject = Subject(taken, d)
      BY <2>4, AskAdds DEF ReviewDocument
    <3> QED
      BY <2>4, <3>1, <1>2 DEF ReviewDocument, AddsAttempt
  <2>5. CASE SelectAssets
    <3>1. phase = "Documents" /\ ScopeConflicts = {} /\ UNCHANGED <<facts, chosen, taken>>
      BY <2>5 DEF SelectAssets, DocumentsAreDecided, facts
    <3>2. \A b : ChoiceOK(b) => ChoiceOK(b)'
      BY <3>1, SameFacts
         DEF ChoiceOK, Subject, Candidates, InScope, PassesCheck, Targets
    <3>3. Passed' = Passed
      BY <3>1, SameFacts DEF Passed
    <3>4. Needs(taken, Passed \cap Docs)' = Needs(taken, Passed \cap Docs)
      BY <3>1, <3>3 DEF Needs, Targets
    <3> QED
      BY <2>5, <3>1, <3>2, <3>4 DEF RunOK, ScopeConflicts, SelectAssets
  <2>6. ASSUME NEW a \in Assets, ReuseAsset(a) PROVE RunOK'
    BY <2>6, <1>3 DEF ReuseAsset
  <2>7. ASSUME NEW a \in Assets, ReviewAsset(a) PROVE RunOK'
    <3>1. PICK b : AddsAttempt(b) /\ Save(b) /\ b.subject = Subject(taken, a)
      BY <2>7, AskAdds, AttemptAdds DEF ReviewAsset
    <3> QED
      BY <2>7, <3>1, <1>2 DEF ReviewAsset, AddsAttempt
  <2>8. CASE Deliver
    <3>1. phase = "Assets" /\ UNCHANGED <<facts, chosen, taken>>
      BY <2>8 DEF Deliver, AssetsAreDecided, facts
    <3>2. \A b : ChoiceOK(b) => ChoiceOK(b)'
      BY <3>1, SameFacts
         DEF ChoiceOK, Subject, Candidates, InScope, PassesCheck, Targets
    <3>3. Passed' = Passed
      BY <3>1, SameFacts DEF Passed
    <3>4. /\ Needs(taken, Passed \cap Docs)' = Needs(taken, Passed \cap Docs)
          /\ Delivery(taken, Passed)' = Delivery(taken, Passed)
      BY <3>1, <3>3 DEF Delivery, Publishable, Key, Needs, Targets
    <3> QED
      BY <2>8, <3>1, <3>2, <3>4 DEF RunOK, Deliver
  <2>9. CASE Complete \/ Stop
    BY <2>9, <1>1 DEF Complete, Stop, Forget
  <2> QED
    BY <1>4, <2>1, <2>2, <2>3, <2>4, <2>5, <2>6, <2>7, <2>8, <2>9
       DEF Progress, StopAtAnalysis, StopAtDocument, PauseForHuman,
           StopAtSelection, StopAtAsset, StopAtCleaning
<1>5. CASE (\E p \in Paths : Edit(p)) \/ Reconfigure
           \/ (\E c \in Contents : Damage(c)) \/ UNCHANGED vars
  BY <1>5, RunKept DEF Edit, Reconfigure, Damage, vars
<1>6. CASE StartPublish \/ Interrupt
  BY <1>6, <1>1 DEF StartPublish, Interrupt, Forget
<1>7. ASSUME NEW a \in attempts, Decide(a) PROVE RunOK'
  BY <1>7, <1>1 DEF Decide, running, RunOK
<1> QED
  BY <1>4, <1>5, <1>6, <1>7 DEF Next

(* What a publication makes public *)

\* A document that passed is a candidate, whole, and was approved: by the
\* reviewer where no human decided, or else by the human.
LEMMA PassedFacts ==
  ASSUME TypeOK, DecisionsOK, RunOK, NEW p \in Passed
  PROVE  /\ p \in Docs => p \in Candidates(taken) /\ PassesCheck(taken, p)
         /\ \A h \in Bound(Subject(taken, p)) : h.says = "approve"
         /\ \/ \E a \in Of(Subject(taken, p)) : a.verdict = "approved"
            \/ \E h \in decisions :
                 h.attempt.subject = Subject(taken, p) /\ h.says = "approve"
<1>1. PICK a \in chosen : Approves(a) /\ a.subject.path = p
  BY DEF Passed
<1>2. ChoiceOK(a) /\ a \in attempts /\ a.subject = Subject(taken, p)
  BY <1>1 DEF RunOK, TypeOK, ChoiceOK
<1>3. a.verdict # "issues"
  BY <1>1 DEF Approves, IsSaid, ForHumans
<1>4. CASE a.verdict = "approved"
  BY <1>1, <1>2, <1>3, <1>4 DEF ChoiceOK, Of
<1>5. CASE a.verdict # "approved"
  <2>1. PICK h \in Resolution(a) : h.says = "approve"
    BY <1>1, <1>5 DEF Approves, IsSaid
  <2>2. h \in decisions /\ h.attempt.subject = Subject(taken, p)
    BY <1>2, <2>1 DEF Resolution, Bound
  <2>3. \A g \in Bound(Subject(taken, p)) : g = h
    BY <1>2, <2>1 DEF Resolution, Bound, DecisionsOK
  <2> QED
    BY <1>1, <1>2, <1>3, <2>1, <2>2, <2>3 DEF ChoiceOK
<1> QED
  BY <1>4, <1>5

\* What a run may publish was selected, approved and checked, and so was what it
\* needs.
LEMMA PublishableFacts ==
  ASSUME TypeOK, DecisionsOK, RunOK, NEW d \in Publishable(taken, Passed)
  PROVE  /\ d \in Docs /\ d \in Passed /\ taken.files[d] # Absent
         /\ Needs(taken, {d}) \subseteq Passed
         /\ PassesCheck(taken, d)
<1>1. d \in Docs /\ d \in Passed /\ Needs(taken, {d}) \subseteq Passed
  BY DEF Publishable
<1> QED
  BY <1>1, PassedFacts DEF Candidates, InScope

LEMMA DocumentIsAuthorised ==
  ASSUME TypeOK, DecisionsOK, RunOK, NEW d \in Publishable(taken, Passed)
  PROVE  MayBeReleased(d)
<1>1. d \in Docs /\ d \in Passed /\ d \in Candidates(taken)
  BY PublishableFacts, PassedFacts
<1> QED
  BY <1>1, PassedFacts, Inputs DEF MayBeReleased, Subject, Candidates, InScope

LEMMA AssetIsAuthorised ==
  ASSUME TypeOK, DecisionsOK, RunOK, phase = "Assets",
         NEW d \in Publishable(taken, Passed), NEW a \in Needs(taken, {d})
  PROVE  MayBeReleased(a)
<1>1. a \in Passed /\ {d} \subseteq Passed \cap Docs /\ a \in Assets
  BY PublishableFacts, NeedsAreThere
<1>2. a \in Needs(taken, Passed \cap Docs)
  BY <1>1, NeedsGrow
<1>3. a \notin taken.rules.excluded
  BY <1>2 DEF RunOK
<1> QED
  BY <1>1, <1>3, PassedFacts, Inputs DEF MayBeReleased, Subject

\* Only delivery changes what is stored, and only completion what is public.
LEMMA PublicSteps ==
  ASSUME [Next]_vars
  PROVE  \/ public' = public /\ stored' = stored
         \/ Deliver
         \/ Complete
<1> DEFINE Same == public' = public /\ stored' = stored
<1>1. ASSUME NEW s, AskReviewer(s) PROVE Same
  BY <1>1 DEF AskReviewer, Attempt, Failure, Save
<1>2. ASSUME NEW s, NEW verdict, Attempt(s, verdict) PROVE Same
  BY <1>2 DEF Attempt, Save
<1>3. CASE Progress
  <2>1. ASSUME NEW d \in Docs, RefuseDocument(d) \/ ReuseDocument(d)
        PROVE  Same
    BY <2>1 DEF RefuseDocument, ReuseDocument, Save, Choose
  <2>2. ASSUME NEW d \in Docs, ReviewDocument(d) PROVE Same
    BY <2>2, <1>1 DEF ReviewDocument
  <2>3. ASSUME NEW a \in Assets, ReuseAsset(a) \/ ReviewAsset(a)
        PROVE  Same
    BY <2>3, <1>1, <1>2 DEF ReuseAsset, ReviewAsset, Choose
  <2>4. CASE Analyse \/ SelectAssets \/ Stop
    BY <2>4 DEF Analyse, SelectAssets, Stop
  <2> QED
    BY <1>3, <2>1, <2>2, <2>3, <2>4
       DEF Progress, StopAtAnalysis, StopAtDocument, PauseForHuman,
           StopAtSelection, StopAtAsset, StopAtCleaning
<1> QED
  BY <1>3 DEF Next, Edit, Reconfigure, Damage, Decide, StartPublish, Interrupt, vars

LEMMA ClosedStep ==
  TypeOK /\ DecisionsOK /\ RunOK /\ PublicTreeIsClosed /\ [Next]_vars
    => PublicTreeIsClosed'
<1> SUFFICES ASSUME TypeOK, DecisionsOK, RunOK, PublicTreeIsClosed, [Next]_vars
             PROVE  PublicTreeIsClosed'
  OBVIOUS
<1>1. CASE public' = public /\ stored \subseteq stored'
  BY <1>1 DEF PublicTreeIsClosed, PublicDocs
<1>2. CASE Complete
  <2> SUFFICES ASSUME NEW d \in PublicDocs', NEW n \in Mentions[public'[d].text],
                      Named[n] \cap Docs = {}
               PROVE  public'[d].links[n] \in stored
    BY <1>2 DEF PublicTreeIsClosed, Complete
  <2>1. d \in Publishable(taken, Passed) /\ public'[d] = Rewritten(taken, d)
    BY <1>2 DEF PublicDocs, Complete, Tree
  <2>2. n \in Mentions[taken.files[d]] /\ PassesCheck(taken, d)
    <3>1. public'[d].text = taken.files[d]
      BY <2>1 DEF Rewritten
    <3>2. PassesCheck(taken, d)
      BY <1>2, <2>1, PublishableFacts
    <3> QED
      BY <3>1, <3>2
  <2>3. n \in Names
    <3>1. taken \in Views /\ taken.files[d] \in Texts
      BY <1>2, <2>1, PublishableFacts, ViewTypes DEF Complete, TypeOK
    <3> QED
      BY <2>2, <3>1, Inputs
  <2>4. PICK p \in Paths : Targets(taken, n) = {p}
    BY <2>2 DEF PassesCheck
  <2>5. p \in Assets
    BY <2>4 DEF Targets, Paths
  <2>6. PICK a \in Needs(taken, {d}) : public'[d].links[n] = Key(taken, a)
    <3>1. public'[d].links[n] = Rewritten(taken, d).links[n]
      BY <2>1
    <3>2. \E a \in Assets : Targets(taken, n) = {a}
      BY <2>4, <2>5
    <3>3. \E a \in Needs(taken, {d}) : Rewritten(taken, d).links[n] = Key(taken, a)
      BY <2>2, <2>3, <3>2, LinkOfName
    <3> QED
      BY <3>1, <3>3
  <2>7. a \in Needs(taken, Publishable(taken, Passed))
    BY <2>1, <2>6, NeedsGrow
  <2> QED
    BY <1>2, <2>6, <2>7 DEF RunOK, Complete, Delivery
<1> QED
  BY <1>1, <1>2, PublicSteps DEF Deliver

LEMMA ClosedInit ==
  Init => PublicTreeIsClosed
BY DEF Init, PublicTreeIsClosed, PublicDocs

(* The theorems *)

THEOREM InvariantHolds == Spec => []IInv
<1>1. Init => IInv
  BY TypeInit, DecisionsInit, RunInit, ClosedInit DEF IInv
<1>2. IInv /\ [Next]_vars => IInv'
  <2> SUFFICES ASSUME IInv, [Next]_vars PROVE IInv'
    OBVIOUS
  <2>1. Complete => Tree(taken, Passed) \in Trees
    <3>1. Complete => taken \in Views
      BY DEF IInv, Complete, TypeOK
    <3>2. \A d \in Publishable(taken, Passed) : taken.files[d] # Absent
      BY PublishableFacts DEF IInv
    <3> QED
      BY <3>1, <3>2, TreeTypes
  <2> QED
    BY <2>1, TypeStep, DecisionsStep, RunStep, ClosedStep DEF IInv
<1> QED
  BY <1>1, <1>2, PTL DEF Spec

\* Snapshots, facts, documents and keys stay what they should be.
THEOREM TypeCorrect == Spec => []TypeOK
<1>1. IInv => TypeOK
  BY DEF IInv
<1> QED
  BY <1>1, InvariantHolds, PTL

\* The public tree is closed: the key of every link in a public document is at
\* the asset target.
THEOREM PublicTreeStaysClosed == Spec => []PublicTreeIsClosed
<1>1. IInv => PublicTreeIsClosed
  BY DEF IInv
<1> QED
  BY <1>1, InvariantHolds, PTL

\* No approval, however old, carries a document past the program check.
THEOREM ApprovalsAreChecked == Spec => []ApprovedDocumentsResolve
<1>1. IInv => ApprovedDocumentsResolve
  <2> SUFFICES ASSUME RunOK, NEW a \in chosen, Approves(a), a.subject.path \in Docs
               PROVE  PassesCheck(taken, a.subject.path)
    BY DEF IInv, ApprovedDocumentsResolve
  <2>1. a.verdict # "issues"
    BY DEF Approves, IsSaid, ForHumans
  <2> QED
    BY <2>1 DEF RunOK, ChoiceOK
<1> QED
  BY <1>1, InvariantHolds, PTL

\* Whatever is delivered or made public is in scope, public by its own account,
\* and approved as this content under this policy by a reviewer whom no human
\* overruled, or by a human.
THEOREM NothingIsReleasedUnapproved == Spec => PublicationsAreAuthorised
<1> DEFINE Documents == public' # public =>
             \A d \in Docs : public'[d] # Absent =>
               public'[d].text = taken.files[d] /\ MayBeReleased(d)
           Keyed == \A k \in stored' \ stored :
             \E d \in Docs : \E a \in Needs(taken, {d}) :
               k = Key(taken, a) /\ MayBeReleased(a) /\ MayBeReleased(d)
<1>1. IInv /\ [Next]_vars => [Documents /\ Keyed]_vars
  <2> SUFFICES ASSUME IInv, [Next]_vars PROVE Documents /\ Keyed
    OBVIOUS
  <2>1. CASE Complete
    <3>1. ASSUME NEW d \in Docs, public'[d] # Absent
          PROVE  public'[d].text = taken.files[d] /\ MayBeReleased(d)
      <4>1. d \in Publishable(taken, Passed) /\ public'[d] = Rewritten(taken, d)
        BY <2>1, <3>1 DEF Complete, Tree
      <4> QED
        BY <4>1, DocumentIsAuthorised DEF IInv, Rewritten
    <3>2. stored' = stored
      BY <2>1 DEF Complete
    <3> QED
      BY <3>1, <3>2
  <2>2. CASE Deliver
    <3>1. phase = "Assets" /\ public' = public
      BY <2>2 DEF Deliver, AssetsAreDecided
    <3>2. ASSUME NEW k \in stored' \ stored
          PROVE  \E d \in Docs : \E a \in Needs(taken, {d}) :
                   k = Key(taken, a) /\ MayBeReleased(a) /\ MayBeReleased(d)
      <4>1. PICK a \in Needs(taken, Publishable(taken, Passed)) : k = Key(taken, a)
        BY <2>2, <3>2 DEF Deliver, Delivery
      <4>2. PICK d \in Publishable(taken, Passed) : a \in Needs(taken, {d})
        BY <4>1, NeedsOfMembers
      <4>3. d \in Docs /\ MayBeReleased(d) /\ MayBeReleased(a)
        BY <3>1, <4>2, PublishableFacts, DocumentIsAuthorised, AssetIsAuthorised
           DEF IInv
      <4> QED
        BY <4>1, <4>2, <4>3
    <3> QED
      BY <3>1, <3>2
  <2>3. CASE public' = public /\ stored' = stored
    BY <2>3
  <2> QED
    BY <2>1, <2>2, <2>3, PublicSteps
<1> QED
  BY <1>1, InvariantHolds, PTL DEF Spec, PublicationsAreAuthorised

\* No run of this release makes the facts of a subject contradict each other.
THEOREM FactsStayConsistent == Spec => NothingNewIsContradicted
<1>1. IInv /\ [Next]_vars =>
        [\A s \in {a.subject : a \in attempts'} :
           Contradicted(s)' => Contradicted(s)]_vars
  <2> SUFFICES ASSUME TypeOK, DecisionsOK, [Next]_vars, NEW s, Contradicted(s)'
               PROVE  Contradicted(s)
    BY DEF IInv
  <2>1. CASE UNCHANGED facts
    BY <2>1, SameFacts
  <2>2. ASSUME NEW a \in attempts, Decide(a) PROVE Contradicted(s)
    <3>1. CASE s = a.subject
      <4>1. Answered(s)' /\ Pending(s)' # {}
        BY <2>2, <3>1, DecidedFacts DEF Answered
      <4> QED
        BY <4>1 DEF Contradicted
    <3> QED
      BY <2>2, <3>1, DecidedFacts
  <2>3. ASSUME NEW a, AddsAttempt(a) PROVE Contradicted(s)
    BY <2>3, AddedFacts
  <2> QED
    BY <2>1, <2>2, <2>3, FactSteps
<1> QED
  BY <1>1, InvariantHolds, PTL DEF Spec, NothingNewIsContradicted

\* An answer stands until a human decides on its subject, and then for good.
THEOREM AnswersAreFinal == Spec => AnswersStand
<1>1. IInv /\ [Next]_vars =>
        [\A s \in {a.subject : a \in attempts} :
           \/ Verdict(s) \in {"none", "waits"}
           \/ Verdict(s)' = Verdict(s)
           \/ Bound(s) = {} /\ Bound(s)' # {}]_vars
  <2> SUFFICES ASSUME TypeOK, DecisionsOK, [Next]_vars, NEW s
               PROVE  \/ Verdict(s) \in {"none", "waits"}
                      \/ Verdict(s)' = Verdict(s)
                      \/ Bound(s) = {} /\ Bound(s)' # {}
    BY DEF IInv
  <2>1. CASE UNCHANGED facts
    BY <2>1, SameFacts
  <2>2. ASSUME NEW a \in attempts, Decide(a)
        PROVE  Verdict(s)' = Verdict(s) \/ (Bound(s) = {} /\ Bound(s)' # {})
    BY <2>2, DecidedFacts
  <2>3. ASSUME NEW a, AddsAttempt(a)
        PROVE  Verdict(s) = "none" \/ Verdict(s)' = Verdict(s)
    BY <2>3, AddedFacts
  <2> QED
    BY <2>1, <2>2, <2>3, FactSteps
<1> QED
  BY <1>1, InvariantHolds, PTL DEF Spec, AnswersStand
=============================================================================
