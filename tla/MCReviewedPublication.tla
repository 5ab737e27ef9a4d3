----------------------- MODULE MCReviewedPublication -----------------------
(***************************************************************************)
(* A small instance of ReviewedPublication for TLC.                        *)
(***************************************************************************)
EXTENDS ReviewedPublication, TLC

CONSTANTS note, cover, photo,      \* paths: a document and two assets
          essay, draft, diary, raw,\* texts
          image, scan, pdf, clean, recoded, \* files, and what is published
          n1, n2, p1, p2, f1, f2   \* names, policies, file names

MCPrivacy   == [x \in Docs \X Texts |->
                  IF x[2] = raw THEN "unreadable"
                  ELSE IF x[2] = diary THEN "private" ELSE "public"]
MCMentions  == essay :> {n1} @@ draft :> {n1, n2} @@ diary :> {}
                 @@ raw :> {}
MCNamed     == n1 :> {cover, photo} @@ n2 :> {photo}
MCKind      == image :> "image" @@ scan :> "odd" @@ pdf :> "pdf"
MCCleanCopy == image :> clean @@ scan :> recoded @@ pdf :> clean
MCFileName  == [x \in Assets \X Outputs |->
                  IF x[1] = photo THEN NoName ELSE IF x[2] = clean THEN f1 ELSE f2]
MCConfigs   == {[documents |-> p1, assets |-> p1, excluded |-> {}],
                [documents |-> p2, assets |-> p1, excluded |-> {cover}]}
MCFirstVaults == {note :> essay @@ cover :> image @@ photo :> Absent}

Earlier(p, c, id, verdict) ==
  [subject |-> [path |-> p, content |-> c, policy |-> p1], id |-> id,
   verdict |-> verdict]
MCEarlierFacts ==
  {[attempts |-> {}, decisions |-> {}],
   [attempts  |-> {Earlier(note, essay, 1, "approved"),
                   Earlier(note, essay, 2, "rejected")},
    decisions |-> {}],
   [attempts  |-> {Earlier(cover, image, 1, "approved"),
                   Earlier(cover, image, 2, "rejected")},
    decisions |-> {}],
   [attempts  |-> {Earlier(note, essay, 1, "asked"),
                   Earlier(note, essay, 2, "asked")},
    decisions |-> {[attempt |-> Earlier(note, essay, 2, "asked"),
                    binds |-> "attempt", says |-> "approve"]}]}

\* An id is always free: one for each failure, and one for the conclusion, of
\* which a subject that was brought along has one already.
ASSUME IdsSuffice ==
  /\ MaxFaults + 1 <= MaxIds
  /\ \A e \in EarlierFacts : \A a \in e.attempts : a.verdict \in Conclusions
=============================================================================
