----------------------------- MODULE PublicRef -----------------------------
(***************************************************************************)
(* What Mineral Publisher promises about one publication ref, whatever the *)
(* number of workspaces, retries, crashes and late pushes behind it: the   *)
(* ref moves only from the base a frozen plan was made for to the commit   *)
(* that plan froze, and only once every asset of the plan was proven.      *)
(* Other people may do to the ref what they like.                          *)
(***************************************************************************)
CONSTANTS
  Runs,       \* identifiers of publication plans
  Assets,     \* the assets a plan may need
  Commits,    \* what the ref may hold
  RefMissing, \* the ref does not exist
  Others,     \* whoever is not a run of the publisher
  NoPlan

VARIABLES
  ref,        \* the publication ref
  holder,     \* who moved it last
  plan,       \* the plans frozen so far, immutable
  proven      \* <<run, asset>>: the asset was proven for the run

vars == <<ref, holder, plan, proven>>

Plan == [base : Commits, desired : Commits, needs : SUBSET Assets]

Init ==
  /\ ref \in Commits
  /\ holder = Others
  /\ plan \in [Runs -> Plan \cup {NoPlan}]
  /\ proven = {}

Freeze(r) ==
  /\ plan[r] = NoPlan
  /\ \E p \in Plan : plan' = [plan EXCEPT ![r] = p]
  /\ UNCHANGED <<ref, holder, proven>>

Prove(r, a) ==
  /\ plan[r] # NoPlan
  /\ proven' = proven \cup {<<r, a>>}
  /\ UNCHANGED <<ref, holder, plan>>

Advance(r) ==
  /\ plan[r] # NoPlan
  /\ ref = plan[r].base
  /\ \A a \in plan[r].needs : <<r, a>> \in proven
  /\ ref' = plan[r].desired
  /\ holder' = r
  /\ UNCHANGED <<plan, proven>>

Interfere ==
  /\ ref' \in Commits \cup {RefMissing}
  /\ holder' = Others
  /\ UNCHANGED <<plan, proven>>

Next ==
  \/ \E r \in Runs : Freeze(r) \/ Advance(r)
  \/ \E r \in Runs, a \in Assets : Prove(r, a)
  \/ Interfere

Spec == Init /\ [][Next]_vars
=============================================================================
