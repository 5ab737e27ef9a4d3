---------------------------- MODULE AssetTarget ----------------------------
(***************************************************************************)
(* What the engine relies on in a target for published assets, whichever   *)
(* store is behind it: an object appears under a frozen key only where     *)
(* there was none, and with the bytes the key stands for; and an asset is  *)
(* judged ready only while those bytes are there.  Where strangers can     *)
(* reach the store, they may do to an object what they like.               *)
(***************************************************************************)
CONSTANTS
  Assets,
  Shared   \* whether strangers can reach the store

VARIABLES
  holds,   \* what is under each key, and who put it there
  ready    \* the assets that were judged ready

vars == <<holds, ready>>

Nothing == [bytes |-> "none", by |-> "nobody"]

Ours == [bytes |-> "frozen", by |-> "publisher"]

Theirs == [bytes : {"frozen", "other"}, by : {"stranger"}]

Init ==
  /\ holds = [a \in Assets |-> Nothing]
  /\ ready = {}

Place(a) ==
  /\ holds[a] = Nothing
  /\ holds' = [holds EXCEPT ![a] = Ours]
  /\ UNCHANGED ready

Judge(a) ==
  /\ holds[a].bytes = "frozen"
  /\ ready' = ready \cup {a}
  /\ UNCHANGED holds

Interfere(a) ==
  /\ Shared
  /\ \E h \in {Nothing} \cup Theirs : holds' = [holds EXCEPT ![a] = h]
  /\ UNCHANGED ready

Next == \E a \in Assets : Place(a) \/ Judge(a) \/ Interfere(a)

Spec == Init /\ [][Next]_vars
=============================================================================
