--------------------------- MODULE MCPublication ---------------------------
(***************************************************************************)
(* Small instances of Publication for TLC.                                 *)
(***************************************************************************)
EXTENDS Publication, TLC

CONSTANTS w1, w2, r1, r2, r3, c1, c2, c3, c4, c5, t1, t2, x, y, s1, a1, a2, d1, d2

\* Two deliveries with different texts: the second needs a second asset, or
\* where one asset is enough the first needs none.
MCTextOf    == d1 :> t1 @@ d2 :> t2
TwoAssets   == d1 :> <<a1>> @@ d2 :> <<a1, a2>>
OneAsset    == d1 :> <<>> @@ d2 :> <<a1>>
OneText     == d2 :> t2
OneDelivery == d2 :> <<a1>>

\* Nothing in the engine tells two commit ids, two workspaces or two contents of
\* the unmanaged part of the repository apart.
Interchangeable ==
  Permutations(Oids) \cup Permutations(Workspaces) \cup Permutations(Rests)
=============================================================================
