-------------------------- MODULE SourceScanProofs --------------------------
(***************************************************************************)
(* Proofs about SourceScan, for every number of paths, contents, attempts, *)
(* writers' steps and failures: the invariants of the run hold in every    *)
(* reachable state.                                                        *)
(***************************************************************************)
EXTENDS SourceScan, TLAPS

----------------------------------------------------------------------------
(* The inductive invariant *)

BucketPhases    == {"Before", "Plan", "Materialize", "Bind", "After", "Judge"}
DirectoryPhases == {"Walk", "Read"}

\* Nothing that was read is newer than the last write.
ClockInv ==
  \A p \in Paths : \A o \in {source[p], at.list[p], at.before[p]} :
    o # NoFile => o.time <= writes

\* Each kind of source has its own scan, and a scan that ended leaves nothing.
PhaseInv ==
  /\ pc \in BucketPhases => kind = "R2"
  /\ pc \in DirectoryPhases => kind = "Local"
  /\ result.kind = "Snapshot" => pc = "Idle"
  /\ pc \in {"Idle", "Before", "Plan", "Walk"} => at.got = NoFiles
  /\ pc \in {"Idle", "Before", "Plan", "Walk", "Read"} => at.reuse = {}
  /\ pc # "Bind" => at.read = NoContent

\* What a listing says of a path was so while the scan ran.
HistoryInv ==
  pc # "Idle" =>
    /\ source \in seen
    /\ pc \in {"Before", "Walk"} =>
         \A p \in Paths : p < at.pos => \E s \in seen : s[p] = at.list[p]
    /\ pc \notin {"Before", "Walk"} =>
         \A p \in Paths : \E s \in seen : s[p] = at.before[p]

\* What was materialized for a path is what the listing promised, or, in a
\* directory, what the file held at some moment of the scan.
Obtained(p) ==
  /\ at.before[p] # NoFile
  /\ kind = "R2" => at.got[p] = at.before[p].content
  /\ kind = "Local" => \E s \in seen : ContentAt(s, p) = at.got[p]

MaterialInv ==
  /\ \A p \in Paths : at.got[p] # NoContent => Obtained(p)
  /\ pc \in {"After", "Judge"} => Todo = {}
  /\ \A p \in Paths : pc = "Bind" /\ IsNext(p) => at.read = at.before[p].content

\* Whatever the scan relies on can be read, but for what was spoiled meanwhile; and
\* a binding is what makes it skip a path.
ReadableInv ==
  /\ \A b \in bindings : b.content = b.rev.content
  /\ \A p \in Paths : Readable(at.got[p])
  /\ Readable(at.read)
  /\ \A p \in at.reuse :
       /\ at.before[p] # NoFile
       /\ Bound(p) # {}
       /\ Readable(at.before[p].content)

\* The moment between the two listings.  s is the source at that moment and w is how
\* many writes there had been: what the first listing says is not newer, what
\* changed since is, and so what the second listing confirms was there.
Between(s, w) ==
  \A p \in Paths :
    /\ at.before[p] # NoFile => at.before[p].time <= w
    /\ source[p] = s[p] \/ source[p] = NoFile \/ source[p].time > w
    /\ p < at.pos /\ at.list[p] = at.before[p] /\ at.before[p] # NoFile =>
         s[p] = at.before[p]

MomentInv ==
  /\ pc \in {"After", "Judge"} => \E s \in seen : \E w \in 0..MaxWrites : Between(s, w)
  /\ pc = "Judge" => at.pos = Count + 1

ResultInv ==
  /\ SnapshotIsTrue
  /\ result.kind = "Snapshot" => \A p \in Paths : Readable(result.files[p])

IInv ==
  /\ TypeOK
  /\ ClockInv
  /\ PhaseInv
  /\ HistoryInv
  /\ MaterialInv
  /\ ReadableInv
  /\ MomentInv
  /\ ResultInv

----------------------------------------------------------------------------
(* What the steps have in common *)

LEMMA PathFacts ==
  /\ Paths \subseteq Nat
  /\ \A p \in Paths : 1 <= p /\ p <= Count
  /\ Count \in Nat \ {0}
BY ScanConstants DEF Paths

LEMMA NoLocalsType == NoLocals \in Locals
<1>1. NoListing \in Listing /\ NoFiles \in Files
  BY DEF NoListing, NoFiles, Listing, Files
<1>2. 1 \in 1..MaxAttempts /\ 1 \in 1..2 /\ 1 \in 1..(Count + 1)
  BY ScanConstants
<1> QED
  BY <1>1, <1>2 DEF NoLocals, Locals

\* A scan that failed has no snapshot.
LEMMA FailFacts ==
  ASSUME Fail
  PROVE  /\ pc' = "Idle" /\ at' = NoLocals
         /\ result' \in Results /\ result'.kind = "Error"
<1>1. NoFiles \in Files
  BY DEF NoFiles, Files
<1> QED
  BY <1>1 DEF Fail, Finish, NoResult, Results
\* A file is readable as long as its blob is left alone, and if it is spoiled.
LEMMA ReadableStays ==
  ASSUME NEW c, Readable(c), UNCHANGED kind,
         \/ UNCHANGED <<blobs, spoiled>>
         \/ /\ UNCHANGED spoiled
            /\ blobs \in [Contents -> Bytes]
            /\ \E d \in Contents : blobs' = [blobs EXCEPT ![d] = "Genuine"]
            /\ c \in Contents \cup {NoContent}
  PROVE  Readable(c)'
BY DEF Readable

\* Nothing is left of a scan that ended, so that only its result needs to be true.
LEMMA EndInv ==
  ASSUME IInv,
         pc' = "Idle", at' = NoLocals,
         result' \in Results, ResultInv',
         blobs' \in [Contents -> Bytes], faults' \in Nat,
         UNCHANGED <<kind, source, bindings, seen, spoiled, writes>>
  PROVE  IInv'
<1>1. TypeOK'
  BY NoLocalsType DEF IInv, TypeOK, Phases
<1>2. ClockInv'
  BY DEF IInv, ClockInv, NoLocals, NoListing
<1>3. PhaseInv'
  BY DEF PhaseInv, BucketPhases, DirectoryPhases, NoLocals
<1>4. HistoryInv'
  BY DEF HistoryInv
<1>5. MaterialInv'
  BY DEF MaterialInv, NoLocals, NoFiles
<1>6. ReadableInv'
  BY DEF IInv, ReadableInv, Readable, NoLocals, NoFiles
<1>7. MomentInv'
  BY DEF MomentInv
<1> QED
  BY <1>1, <1>2, <1>3, <1>4, <1>5, <1>6, <1>7 DEF IInv

LEMMA FailInv ==
  ASSUME IInv, Fail,
         blobs' \in [Contents -> Bytes], faults' \in Nat,
         UNCHANGED <<kind, source, bindings, seen, spoiled, writes>>
  PROVE  IInv'
<1>1. ResultInv'
  BY FailFacts DEF ResultInv, SnapshotIsTrue
<1> QED
  BY <1>1, FailFacts, EndInv

----------------------------------------------------------------------------
(* One lemma for each action *)

LEMMA BeginScanStep ==
  ASSUME IInv, BeginScan
  PROVE  IInv'
<1> USE DEF BeginScan
<1>1. NoResult \in Results /\ NoResult.kind = "None"
  BY DEF NoResult, Results, NoFiles, Files
<1>2. pc' \in {"Before", "Walk"} /\ at' = NoLocals
  OBVIOUS
<1>3. TypeOK'
  BY <1>1, NoLocalsType DEF IInv, TypeOK, Phases
<1>4. ClockInv'
  BY DEF IInv, ClockInv, NoLocals, NoListing
<1>5. PhaseInv'
  BY <1>1, ScanConstants DEF IInv, TypeOK, PhaseInv, BucketPhases, DirectoryPhases, NoLocals
<1>6. HistoryInv'
  <2>1. source' \in seen' /\ at'.pos = 1
    BY DEF NoLocals
  <2> QED
    BY <1>2, <2>1, PathFacts DEF HistoryInv
<1>7. MaterialInv'
  BY <1>2 DEF MaterialInv, NoLocals, NoFiles
<1>8. ReadableInv'
  BY DEF IInv, ReadableInv, Readable, NoLocals, NoFiles
<1>9. MomentInv'
  BY <1>2 DEF MomentInv
<1>10. ResultInv'
  BY <1>1 DEF ResultInv, SnapshotIsTrue
<1> QED
  BY <1>3, <1>4, <1>5, <1>6, <1>7, <1>8, <1>9, <1>10 DEF IInv

LEMMA ListPageStep ==
  ASSUME IInv, ListPage
  PROVE  IInv'
<1> PICK last \in at.pos..Count :
       LET list == [p \in Paths |-> IF p \in at.pos..last THEN source[p] ELSE at.list[p]]
       IN \/ /\ last < Count
             /\ at' = [at EXCEPT !.pos = last + 1, !.list = list]
             /\ UNCHANGED pc
          \/ /\ last = Count /\ pc # "After"
             /\ at' = [at EXCEPT !.pos = last + 1, !.list = list, !.before = list]
             /\ pc' = IF pc = "Before" THEN "Plan" ELSE "Read"
          \/ /\ last = Count /\ pc = "After"
             /\ at' = [at EXCEPT !.pos = last + 1, !.list = list]
             /\ pc' = "Judge"
  BY DEF ListPage
<1> DEFINE list == [p \in Paths |-> IF p \in at.pos..last THEN source[p] ELSE at.list[p]]
           ended == last = Count /\ pc # "After"
<1>0. /\ pc \in {"Before", "After", "Walk"}
      /\ UNCHANGED <<kind, source, blobs, bindings, result, seen, spoiled, writes, faults>>
  BY DEF ListPage
<1>1. /\ at \in Locals /\ at.pos \in 1..(Count + 1) /\ last \in Nat /\ last <= Count
      /\ source \in Listing /\ at.list \in Listing /\ at.before \in Listing
  BY PathFacts DEF IInv, TypeOK, Locals
<1>2. list \in Listing
  BY <1>1 DEF Listing
<1>3. /\ \A p \in Paths : p \in at.pos..last => list[p] = source[p]
      /\ \A p \in Paths : p \notin at.pos..last => list[p] = at.list[p]
  OBVIOUS
<1>4. \/ ended /\ at' = [at EXCEPT !.pos = last + 1, !.list = list, !.before = list]
      \/ ~ ended /\ at' = [at EXCEPT !.pos = last + 1, !.list = list]
  BY <1>1, PathFacts
<1>5. pc' = IF last < Count THEN pc
            ELSE IF pc = "After" THEN "Judge"
            ELSE IF pc = "Before" THEN "Plan" ELSE "Read"
  BY <1>1, PathFacts
<1> HIDE DEF list, ended
<1>6. /\ at'.pos = last + 1 /\ at'.list = list
      /\ at'.before = IF ended THEN list ELSE at.before
      /\ at'.got = at.got /\ at'.reuse = at.reuse /\ at'.read = at.read
  BY <1>1, <1>4 DEF Locals
<1>7. pc \in {"Before", "Walk"} => at.got = NoFiles /\ at.reuse = {} /\ at.read = NoContent
  BY DEF IInv, PhaseInv
<1>8. pc = "After" => Todo = {} /\ at.read = NoContent
  BY DEF IInv, MaterialInv, PhaseInv
<1>9. TypeOK'
  <2>1. last + 1 \in 1..(Count + 1)
    BY <1>1, PathFacts
  <2>2. at' \in Locals
    BY <1>1, <1>2, <1>4, <2>1 DEF Locals
  <2>3. pc' \in Phases
    BY <1>0, <1>5 DEF Phases
  <2> QED
    BY <1>0, <2>2, <2>3 DEF IInv, TypeOK
<1>10. ClockInv'
  <2>1. \A p \in Paths : list[p] # NoFile => list[p].time <= writes
    BY <1>3 DEF IInv, ClockInv
  <2> QED
    BY <1>0, <1>6, <2>1 DEF IInv, ClockInv
<1>11. PhaseInv'
  BY <1>0, <1>5, <1>6, <1>7, <1>8 DEF IInv, PhaseInv, BucketPhases, DirectoryPhases
<1>12. HistoryInv'
  <2>1. source \in seen
    BY <1>0 DEF IInv, HistoryInv
  <2>2. CASE pc = "After"
    BY <1>0, <1>5, <1>6, <2>1, <2>2 DEF IInv, HistoryInv, ended
  <2>3. CASE pc \in {"Before", "Walk"}
    <3>1. \A p \in Paths : p < last + 1 => \E s \in seen : s[p] = list[p]
      BY <1>1, <1>3, <2>1, <2>3, PathFacts DEF IInv, HistoryInv
    <3>2. CASE last < Count
      BY <1>0, <1>5, <1>6, <2>1, <2>3, <3>1, <3>2 DEF HistoryInv
    <3>3. CASE last = Count
      <4>1. \A p \in Paths : p < last + 1
        BY <3>3, PathFacts
      <4> QED
        BY <1>0, <1>5, <1>6, <2>1, <2>3, <3>1, <3>3, <4>1 DEF HistoryInv, ended
    <3> QED
      BY <1>1, <3>2, <3>3, PathFacts
  <2> QED
    BY <1>0, <2>2, <2>3
<1>13. MaterialInv'
  <2>1. CASE pc = "After"
    <3>1. at'.before = at.before
      BY <1>6, <2>1 DEF ended
    <3>2. Todo' = {}
      BY <1>6, <1>8, <2>1, <3>1 DEF Todo, Listed
    <3>3. pc' # "Bind"
      BY <1>5, <2>1
    <3> QED
      BY <1>0, <1>6, <3>1, <3>2, <3>3 DEF IInv, MaterialInv, Obtained, ContentAt
  <2>2. CASE pc \in {"Before", "Walk"}
    <3>1. \A p \in Paths : at'.got[p] = NoContent
      BY <1>6, <1>7, <2>2 DEF NoFiles
    <3>2. pc' \notin {"After", "Judge", "Bind"}
      BY <1>5, <2>2
    <3> QED
      BY <3>1, <3>2 DEF MaterialInv
  <2> QED
    BY <1>0, <2>1, <2>2
<1>14. ReadableInv'
  <2>1. CASE pc = "After"
    BY <1>0, <1>6, <2>1 DEF IInv, ReadableInv, Readable, Bound, ended
  <2>2. CASE pc \in {"Before", "Walk"}
    BY <1>0, <1>6, <1>7, <2>2 DEF IInv, ReadableInv, Readable
  <2> QED
    BY <1>0, <2>1, <2>2
<1>15. MomentInv'
  <2>1. CASE pc = "After"
    <3>1. PICK s \in seen, w \in 0..MaxWrites : Between(s, w)
      BY <2>1 DEF IInv, MomentInv
    <3>2. at'.before = at.before
      BY <1>6, <2>1 DEF ended
    <3>3. Between(s, w)'
      <4> SUFFICES ASSUME NEW p \in Paths
                   PROVE  /\ at.before[p] # NoFile => at.before[p].time <= w
                          /\ source[p] = s[p] \/ source[p] = NoFile \/ source[p].time > w
                          /\ p < last + 1 /\ list[p] = at.before[p] /\ at.before[p] # NoFile =>
                               s[p] = at.before[p]
        BY <1>0, <1>6, <3>2 DEF Between
      <4>1. /\ at.before[p] # NoFile => at.before[p].time <= w
            /\ source[p] = s[p] \/ source[p] = NoFile \/ source[p].time > w
            /\ p < at.pos /\ at.list[p] = at.before[p] /\ at.before[p] # NoFile =>
                 s[p] = at.before[p]
        BY <3>1 DEF Between
      <4>2. CASE p < at.pos
        <5>1. list[p] = at.list[p]
          BY <1>1, <1>3, <4>2, PathFacts
        <5> QED
          BY <4>1, <4>2, <5>1
      <4>3. CASE p \in at.pos..last
        <5>1. at.before[p] # NoFile => at.before[p].time \in Nat
          BY <1>1, ScanConstants DEF Listing, Objects
        <5>2. w \in Nat
          BY ScanConstants
        <5> QED
          BY <1>3, <4>1, <4>3, <5>1, <5>2
      <4>4. CASE p > last
        BY <1>1, <4>1, <4>4, PathFacts
      <4> QED
        BY <1>1, <4>2, <4>3, <4>4, PathFacts
    <3> QED
      BY <1>0, <1>1, <1>5, <1>6, <2>1, <3>3, PathFacts DEF MomentInv
  <2>2. CASE pc \in {"Before", "Walk"}
    BY <1>5, <2>2 DEF MomentInv
  <2> QED
    BY <1>0, <2>1, <2>2
<1>16. ResultInv'
  BY <1>0 DEF IInv, PhaseInv, ResultInv, SnapshotIsTrue
<1> QED
  BY <1>9, <1>10, <1>11, <1>12, <1>13, <1>14, <1>15, <1>16 DEF IInv

LEMMA PlanRefreshStep ==
  ASSUME IInv, PlanRefresh
  PROVE  IInv'
<1> DEFINE bound == {p \in Listed(at.before) : Bound(p) # {}}
           kept  == {p \in bound : blobs[BoundContent(p)] # "Absent"}
<1>0. /\ pc = "Plan"
      /\ UNCHANGED <<kind, source, blobs, bindings, seen, spoiled, writes, faults>>
  BY DEF PlanRefresh
<1>1. CASE Fail
  BY <1>0, <1>1, FailInv DEF IInv, TypeOK
<1>2. CASE ~ Fail
  <2>1. /\ \A p \in bound : blobs[BoundContent(p)] # "Cut"
        /\ at' = [at EXCEPT !.reuse = kept]
        /\ pc' = "Materialize" /\ UNCHANGED result
    BY <1>2 DEF PlanRefresh
  <2>2. bound \subseteq Paths /\ \A p \in bound : at.before[p] # NoFile /\ Bound(p) # {}
    BY DEF Listed
  <2>3. kept \subseteq bound
        /\ \A p \in kept : blobs[BoundContent(p)] \notin {"Absent", "Cut"}
    BY <2>1
  <2> HIDE DEF bound, kept
  <2>4. at \in Locals
    BY DEF IInv, TypeOK
  <2>5. at'.reuse = kept /\ \A f \in {"pos", "list", "before", "got", "read"} : at'[f] = at[f]
    BY <2>1, <2>4 DEF Locals
  <2>6. /\ at'.pos = at.pos /\ at'.list = at.list /\ at'.before = at.before
        /\ at'.got = at.got /\ at'.read = at.read
    BY <2>5
  <2>7. TypeOK'
    <3>1. at' \in Locals
      BY <2>1, <2>2, <2>3, <2>4 DEF Locals
    <3> QED
      BY <1>0, <2>1, <3>1 DEF IInv, TypeOK, Phases
  <2>8. ClockInv'
    BY <1>0, <2>6 DEF IInv, ClockInv
  <2>9. PhaseInv'
    BY <1>0, <2>1, <2>6 DEF IInv, PhaseInv, BucketPhases, DirectoryPhases
  <2>10. HistoryInv'
    BY <1>0, <2>1, <2>6 DEF IInv, HistoryInv
  <2>11. MaterialInv'
    BY <1>0, <2>1, <2>6 DEF IInv, MaterialInv, Obtained, ContentAt
  <2>12. ReadableInv'
    <3>1. \A p \in kept : Readable(at.before[p].content)
      <4> SUFFICES ASSUME NEW p \in kept
                   PROVE  Readable(at.before[p].content)
        OBVIOUS
      <4>1. BoundContent(p) = at.before[p].content /\ at.before[p].content \in Contents
        BY <2>2, <2>3 DEF IInv, ReadableInv, TypeOK, Bindings, Objects, Bound, BoundContent
      <4>2. blobs[BoundContent(p)] \in {"Genuine", "Damaged"}
        BY <2>3, <4>1 DEF IInv, TypeOK, Bytes
      <4>3. kind = "R2"
        BY <1>0 DEF IInv, PhaseInv, BucketPhases
      <4> QED
        BY <4>1, <4>2, <4>3 DEF Readable
    <3> QED
      BY <1>0, <2>2, <2>3, <2>5, <2>6, <3>1 DEF IInv, ReadableInv, Readable, Bound
  <2>13. MomentInv'
    BY <2>1 DEF MomentInv
  <2>14. ResultInv'
    BY <1>0, <2>1 DEF IInv, PhaseInv, ResultInv, SnapshotIsTrue
  <2> QED
    BY <2>7, <2>8, <2>9, <2>10, <2>11, <2>12, <2>13, <2>14 DEF IInv
<1> QED
  BY <1>1, <1>2

\* Materializing the next path, from the store, a binding or a file.
LEMMA ObtainInv ==
  ASSUME IInv, NEW p \in Paths, NEW c \in Contents,
         pc \in {"Materialize", "Bind", "Read"},
         at' = [at EXCEPT !.got[p] = c, !.read = NoContent],
         pc' = IF pc = "Read" THEN "Read" ELSE "Materialize",
         at.before[p] # NoFile,
         kind = "R2" => c = at.before[p].content,
         kind = "Local" => \E s \in seen : ContentAt(s, p) = c,
         Readable(c)',
         bindings' \subseteq Bindings, bindings \subseteq bindings',
         \A b \in bindings' : b.content = b.rev.content,
         \/ blobs' = blobs
         \/ \E d \in Contents : blobs' = [blobs EXCEPT ![d] = "Genuine"],
         UNCHANGED <<kind, source, result, seen, spoiled, writes, faults>>
  PROVE  IInv'
<1>1. at \in Locals
  BY DEF IInv, TypeOK
<1>2. /\ at'.got = [at.got EXCEPT ![p] = c] /\ at'.read = NoContent
      /\ at'.pos = at.pos /\ at'.list = at.list /\ at'.before = at.before
      /\ at'.reuse = at.reuse
  BY <1>1 DEF Locals
<1>3. at'.got[p] = c /\ \A q \in Paths : q # p => at'.got[q] = at.got[q]
  BY <1>1, <1>2 DEF Locals, Files
<1>4. \A q \in Paths : at.got[q] \in Contents \cup {NoContent}
  BY <1>1 DEF Locals, Files
<1>5. TypeOK'
  <2>1. at' \in Locals
    BY <1>1 DEF Locals, Files
  <2>2. blobs' \in [Contents -> Bytes]
    BY DEF IInv, TypeOK, Bytes
  <2> QED
    BY <2>1, <2>2 DEF IInv, TypeOK, Phases
<1>6. ClockInv'
  BY <1>2 DEF IInv, ClockInv
<1>7. PhaseInv'
  BY <1>2 DEF IInv, PhaseInv, BucketPhases, DirectoryPhases
<1>8. HistoryInv'
  BY <1>2 DEF IInv, HistoryInv
<1>9. MaterialInv'
  BY <1>2, <1>3 DEF IInv, MaterialInv, Obtained, ContentAt
<1>10. ReadableInv'
  <2>1. \A d \in Contents \cup {NoContent} : Readable(d) => Readable(d)'
    BY ReadableStays DEF IInv, TypeOK
  <2>2. \A q \in Paths : Readable(at.got[q])'
    BY <1>3, <1>4, <2>1 DEF IInv, ReadableInv
  <2>3. Readable(at.read)'
    BY <1>2 DEF Readable
  <2>4. (\A q \in at.reuse : /\ at.before[q] # NoFile
                            /\ Bound(q) # {}
                            /\ Readable(at.before[q].content))'
    <3> SUFFICES ASSUME NEW q \in at.reuse
                 PROVE  /\ at.before[q] # NoFile
                        /\ Bound(q)' # {}
                        /\ Readable(at.before[q].content)'
      BY <1>2
    <3>1. q \in Paths /\ at.before[q] \in Objects \cup {NoFile}
      BY <1>1 DEF Locals, Listing
    <3>2. at.before[q] # NoFile /\ Bound(q) # {} /\ Readable(at.before[q].content)
      BY DEF IInv, ReadableInv
    <3>3. at.before[q].content \in Contents
      BY <3>1, <3>2 DEF Objects
    <3> QED
      BY <1>2, <2>1, <3>2, <3>3 DEF Bound
  <2> QED
    BY <2>2, <2>3, <2>4 DEF ReadableInv
<1>11. MomentInv'
  BY DEF MomentInv
<1>12. ResultInv'
  BY DEF IInv, PhaseInv, ResultInv, SnapshotIsTrue
<1> QED
  BY <1>5, <1>6, <1>7, <1>8, <1>9, <1>10, <1>11, <1>12 DEF IInv

LEMMA ReuseEntryStep ==
  ASSUME IInv, NEW p \in Paths, ReuseEntry(p)
  PROVE  IInv'
<1> USE DEF ReuseEntry
<1>1. /\ at.before[p] # NoFile /\ Bound(p) # {} /\ Readable(at.before[p].content)
  BY DEF IInv, ReadableInv
<1>2. BoundContent(p) = at.before[p].content /\ at.before[p].content \in Contents
  BY <1>1 DEF IInv, ReadableInv, TypeOK, Bindings, Objects, Bound, BoundContent
<1>3. kind = "R2" /\ at.read = NoContent /\ at \in Locals
  BY DEF IInv, TypeOK, PhaseInv, BucketPhases
<1> PICK c \in Contents : c = at.before[p].content
  BY <1>2
<1>4. at' = [at EXCEPT !.got[p] = c, !.read = NoContent]
  BY <1>2, <1>3 DEF Locals
<1>5. Readable(c)'
  BY <1>1 DEF Readable
<1>6. bindings' \subseteq Bindings /\ \A b \in bindings' : b.content = b.rev.content
  BY DEF IInv, TypeOK, ReadableInv
<1> QED
  BY <1>1, <1>3, <1>4, <1>5, <1>6, ObtainInv

LEMMA FetchObjectStep ==
  ASSUME IInv, NEW p \in Paths, FetchObject(p)
  PROVE  IInv'
<1>0. /\ pc = "Materialize" /\ IsNext(p)
      /\ UNCHANGED <<kind, source, bindings, seen, spoiled, writes, faults>>
  BY DEF FetchObject
<1>1. CASE Fail /\ UNCHANGED blobs
  BY <1>0, <1>1, FailInv DEF IInv, TypeOK
<1>2. CASE ~ (Fail /\ UNCHANGED blobs)
  <2> PICK c : c = at.before[p].content
    OBVIOUS
  <2>1. /\ Storable(c) /\ blobs' = [blobs EXCEPT ![c] = "Genuine"]
        /\ at' = [at EXCEPT !.read = c] /\ pc' = "Bind" /\ UNCHANGED result
    BY <1>2 DEF FetchObject
  <2>2. at \in Locals /\ at.before \in Listing
    BY DEF IInv, TypeOK, Locals
  <2>3. at.before[p] # NoFile
    BY <1>0 DEF IsNext, Todo, Listed
  <2>4. c \in Contents
    BY <2>2, <2>3 DEF Listing, Objects
  <2>5. /\ at'.read = c /\ at'.got = at.got /\ at'.pos = at.pos /\ at'.list = at.list
        /\ at'.before = at.before /\ at'.reuse = at.reuse
    BY <2>1, <2>2 DEF Locals
  <2>6. TypeOK'
    <3>1. at' \in Locals
      BY <2>1, <2>2, <2>4 DEF Locals
    <3>2. blobs' \in [Contents -> Bytes]
      BY <2>1 DEF IInv, TypeOK, Bytes
    <3> QED
      BY <1>0, <2>1, <3>1, <3>2 DEF IInv, TypeOK, Phases
  <2>7. ClockInv'
    BY <1>0, <2>5 DEF IInv, ClockInv
  <2>8. PhaseInv'
    BY <1>0, <2>1, <2>5 DEF IInv, PhaseInv, BucketPhases, DirectoryPhases
  <2>9. HistoryInv'
    BY <1>0, <2>1, <2>5 DEF IInv, HistoryInv
  <2>10. MaterialInv'
    <3>1. \A q \in Paths : IsNext(q) => q = p
      <4> SUFFICES ASSUME NEW q \in Paths, IsNext(q)
                   PROVE  q = p
        OBVIOUS
      <4>1. p <= q /\ q <= p
        BY <1>0 DEF IsNext
      <4> QED
        BY <4>1, PathFacts
    <3>2. (\A q \in Paths : IsNext(q) => q = p)'
      BY <2>5, <3>1 DEF IsNext, Todo, Listed
    <3> QED
      BY <1>0, <2>1, <2>5, <3>2 DEF IInv, MaterialInv, Obtained, ContentAt
  <2>11. ReadableInv'
    <3>1. \A d \in Contents \cup {NoContent} : Readable(d) => Readable(d)'
      BY <1>0, <2>1, <2>4, ReadableStays DEF IInv, TypeOK
    <3>2. \A q \in Paths : at.got[q] \in Contents \cup {NoContent}
      BY <2>2 DEF Locals, Files
    <3>3. (\A q \in Paths : Readable(at.got[q]))'
      BY <2>5, <3>1, <3>2 DEF IInv, ReadableInv
    <3>4. Readable(at.read)'
      BY <2>1, <2>4, <2>5 DEF Readable, IInv, TypeOK
    <3>5. (\A q \in at.reuse : /\ at.before[q] # NoFile
                               /\ Bound(q) # {}
                               /\ Readable(at.before[q].content))'
      <4> SUFFICES ASSUME NEW q \in at.reuse
                   PROVE  /\ at.before[q] # NoFile
                          /\ Bound(q) # {}
                          /\ Readable(at.before[q].content)'
        BY <1>0, <2>5 DEF Bound
      <4>1. at.before[q] # NoFile /\ Bound(q) # {} /\ Readable(at.before[q].content)
        BY DEF IInv, ReadableInv
      <4>2. at.before[q].content \in Contents
        BY <2>2, <4>1 DEF Locals, Listing, Objects
      <4>3. Readable(at.before[q].content) => Readable(at.before[q].content)'
        BY <2>5, <3>1, <4>2
      <4> QED
        BY <4>1, <4>3
    <3>6. (\A b \in bindings : b.content = b.rev.content)'
      BY <1>0 DEF IInv, ReadableInv
    <3> QED
      BY <3>3, <3>4, <3>5, <3>6 DEF ReadableInv
  <2>12. MomentInv'
    BY <2>1 DEF MomentInv
  <2>13. ResultInv'
    BY <1>0, <2>1 DEF IInv, PhaseInv, ResultInv, SnapshotIsTrue
  <2> QED
    BY <2>6, <2>7, <2>8, <2>9, <2>10, <2>11, <2>12, <2>13 DEF IInv
<1> QED
  BY <1>1, <1>2

LEMMA BindObjectStep ==
  ASSUME IInv, NEW p \in Paths, BindObject(p)
  PROVE  IInv'
<1>0. /\ pc = "Bind" /\ IsNext(p)
      /\ UNCHANGED <<kind, source, blobs, seen, spoiled, writes, faults>>
  BY DEF BindObject
<1>1. CASE Fail /\ UNCHANGED bindings
  BY <1>0, <1>1, FailInv DEF IInv, TypeOK
<1>2. CASE ~ (Fail /\ UNCHANGED bindings)
  <2> DEFINE fact == [path |-> p, rev |-> at.before[p], content |-> at.read]
  <2>1. /\ bindings' = bindings \cup {fact}
        /\ at' = [at EXCEPT !.got[p] = at.read, !.read = NoContent]
        /\ pc' = "Materialize" /\ UNCHANGED result
    BY <1>2 DEF BindObject
  <2>2. at \in Locals /\ at.before \in Listing
    BY DEF IInv, TypeOK, Locals
  <2>3. at.before[p] # NoFile
    BY <1>0 DEF IsNext, Todo, Listed
  <2>4. at.before[p] \in Objects /\ at.before[p].content \in Contents
    BY <2>2, <2>3 DEF Listing, Objects
  <2>5. at.read = at.before[p].content
    BY <1>0 DEF IInv, MaterialInv
  <2>6. kind = "R2"
    BY <1>0 DEF IInv, PhaseInv, BucketPhases
  <2>7. fact \in Bindings /\ fact.content = fact.rev.content
    BY <2>4, <2>5 DEF Bindings
  <2> HIDE DEF fact
  <2> PICK c \in Contents : c = at.read
    BY <2>4, <2>5
  <2>8. Readable(c)'
    BY <1>0 DEF IInv, ReadableInv, Readable
  <2>9. /\ bindings' \subseteq Bindings /\ bindings \subseteq bindings'
        /\ \A b \in bindings' : b.content = b.rev.content
    BY <2>1, <2>7 DEF IInv, TypeOK, ReadableInv
  <2> QED
    BY <1>0, <2>1, <2>3, <2>5, <2>6, <2>8, <2>9, ObtainInv
<1> QED
  BY <1>1, <1>2

LEMMA ReadFileStep ==
  ASSUME IInv, NEW p \in Paths, ReadFile(p)
  PROVE  IInv'
<1>0. /\ pc = "Read" /\ IsNext(p)
      /\ UNCHANGED <<kind, source, bindings, seen, spoiled, writes, faults>>
  BY DEF ReadFile
<1>1. CASE Fail /\ UNCHANGED blobs
  BY <1>0, <1>1, FailInv DEF IInv, TypeOK
<1>2. CASE ~ (Fail /\ UNCHANGED blobs)
  <2> PICK c : c = ContentAt(source, p)
    OBVIOUS
  <2>1. /\ Storable(c) /\ blobs' = [blobs EXCEPT ![c] = "Genuine"]
        /\ at' = [at EXCEPT !.got[p] = c] /\ UNCHANGED <<pc, result>>
    BY <1>2 DEF ReadFile
  <2>2. at \in Locals /\ at.read = NoContent /\ source \in Listing /\ source \in seen
    BY <1>0 DEF IInv, TypeOK, PhaseInv, HistoryInv
  <2>3. c \in Contents
    BY <2>1, <2>2 DEF Storable, ContentAt, Listing, Objects
  <2>4. at.before[p] # NoFile /\ kind = "Local"
    BY <1>0 DEF IsNext, Todo, Listed, IInv, PhaseInv, DirectoryPhases
  <2>5. at' = [at EXCEPT !.got[p] = c, !.read = NoContent]
    BY <2>1, <2>2 DEF Locals
  <2>6. Readable(c)'
    BY <2>1, <2>3 DEF Readable, IInv, TypeOK
  <2>7. bindings' \subseteq Bindings /\ \A b \in bindings' : b.content = b.rev.content
    BY <1>0 DEF IInv, TypeOK, ReadableInv
  <2> QED
    BY <1>0, <2>1, <2>2, <2>3, <2>4, <2>5, <2>6, <2>7, ObtainInv
<1> QED
  BY <1>1, <1>2

LEMMA ListAgainStep ==
  ASSUME IInv, ListAgain
  PROVE  IInv'
<1>0. /\ pc = "Materialize" /\ Todo = {} /\ pc' = "After"
      /\ at' = [at EXCEPT !.pos = 1, !.list = NoListing]
      /\ UNCHANGED <<kind, source, blobs, bindings, result, seen, spoiled, writes, faults>>
  BY DEF ListAgain
<1>1. at \in Locals /\ NoListing \in Listing /\ 1 \in 1..(Count + 1)
  BY NoLocalsType, PathFacts DEF IInv, TypeOK, NoListing, Listing
<1>2. /\ at'.pos = 1 /\ at'.list = NoListing /\ at'.before = at.before
      /\ at'.got = at.got /\ at'.reuse = at.reuse /\ at'.read = at.read
  BY <1>0, <1>1 DEF Locals
<1>3. TypeOK'
  <2>1. at' \in Locals
    BY <1>0, <1>1 DEF Locals
  <2> QED
    BY <1>0, <2>1 DEF IInv, TypeOK, Phases
<1>4. ClockInv'
  BY <1>0, <1>2 DEF IInv, ClockInv, NoListing
<1>5. PhaseInv'
  BY <1>0, <1>2 DEF IInv, PhaseInv, BucketPhases, DirectoryPhases
<1>6. HistoryInv'
  BY <1>0, <1>2 DEF IInv, HistoryInv
<1>7. MaterialInv'
  BY <1>0, <1>2 DEF IInv, MaterialInv, Obtained, ContentAt, Todo, Listed
<1>8. ReadableInv'
  BY <1>0, <1>2 DEF IInv, ReadableInv, Readable, Bound
<1>9. MomentInv'
  <2>1. source \in seen /\ writes \in 0..MaxWrites
    BY <1>0 DEF IInv, TypeOK, HistoryInv
  <2>2. \A p \in Paths : at.before[p] # NoFile => at.before[p].time <= writes
    BY DEF IInv, ClockInv
  <2>3. Between(source, writes)'
    <3> SUFFICES ASSUME NEW p \in Paths
                 PROVE  /\ at.before[p] # NoFile => at.before[p].time <= writes
                        /\ ~ (p < 1)
      BY <1>0, <1>2 DEF Between
    <3> QED
      BY <2>2, PathFacts
  <2>4. \E s \in seen' : \E w \in 0..MaxWrites : Between(s, w)'
    BY <1>0, <2>1, <2>3
  <2> QED
    BY <1>0, <2>4 DEF MomentInv
<1>10. ResultInv'
  BY <1>0 DEF IInv, PhaseInv, ResultInv, SnapshotIsTrue
<1> QED
  BY <1>3, <1>4, <1>5, <1>6, <1>7, <1>8, <1>9, <1>10 DEF IInv

\* A scan starts over, with the next attempt or the second pass.
LEMMA RestartInv ==
  ASSUME IInv,
         at' \in Locals,
         at'.pos = 1, at'.list = NoListing, at'.before = NoListing,
         at'.got = NoFiles, at'.reuse = {}, at'.read = NoContent,
         pc # "Idle",
         pc' = IF kind = "R2" THEN "Before" ELSE "Walk",
         UNCHANGED <<kind, source, blobs, bindings, result, seen, spoiled, writes, faults>>
  PROVE  IInv'
<1>1. TypeOK'
  BY DEF IInv, TypeOK, Phases
<1>2. ClockInv'
  <2>1. \A p \in Paths : at'.list[p] = NoFile /\ at'.before[p] = NoFile
    BY DEF NoListing
  <2> QED
    BY <2>1 DEF IInv, ClockInv
<1>3. PhaseInv'
  BY ScanConstants DEF IInv, TypeOK, PhaseInv, BucketPhases, DirectoryPhases
<1>4. HistoryInv'
  <2>1. source' \in seen' /\ pc' \in {"Before", "Walk"}
    BY DEF IInv, HistoryInv
  <2>2. \A p \in Paths : ~ (p < 1)
    BY PathFacts
  <2> QED
    BY <2>1, <2>2 DEF HistoryInv
<1>5. MaterialInv'
  BY DEF MaterialInv, NoFiles
<1>6. ReadableInv'
  BY DEF IInv, ReadableInv, Readable, NoFiles
<1>7. MomentInv'
  BY DEF MomentInv
<1>8. ResultInv'
  BY DEF IInv, PhaseInv, ResultInv, SnapshotIsTrue
<1> QED
  BY <1>1, <1>2, <1>3, <1>4, <1>5, <1>6, <1>7, <1>8 DEF IInv

\* The result of a scan that succeeds.
LEMMA SnapshotInv ==
  ASSUME IInv, NEW id \in Files, Snapshot(at.got, id),
         pc # "Idle", Todo = {},
         kind = "R2" => pc = "Judge" /\ at.before = at.list,
         kind = "Local" => pc = "Read",
         UNCHANGED <<kind, source, blobs, bindings, seen, spoiled, writes, faults>>
  PROVE  IInv'
<1>1. at \in Locals /\ at.got \in Files
  BY DEF IInv, TypeOK, Locals
<1>2. /\ pc' = "Idle" /\ at' = NoLocals
      /\ result' = [kind |-> "Snapshot", files |-> at.got, id |-> id]
  BY DEF Snapshot, Finish
<1>3. result' \in Results
  BY <1>1, <1>2 DEF Results
<1>4. pc \notin {"Before", "Walk"} /\ kind \in {"R2", "Local"}
  BY ScanConstants DEF IInv, TypeOK
<1>5. \A p \in Paths : \/ at.got[p] = NoContent /\ at.before[p] = NoFile
                       \/ at.got[p] # NoContent /\ Obtained(p)
  BY DEF IInv, MaterialInv, Todo, Listed
<1>6. \A p \in Paths : \E s \in seen : ContentAt(s, p) = at.got[p]
  <2> SUFFICES ASSUME NEW p \in Paths
               PROVE  \E s \in seen : ContentAt(s, p) = at.got[p]
    OBVIOUS
  <2> PICK s \in seen : s[p] = at.before[p]
    BY <1>4 DEF IInv, HistoryInv
  <2> QED
    BY <1>4, <1>5 DEF Obtained, ContentAt
<1>7. kind = "R2" => \E s \in seen : \A p \in Paths :
        at.got[p] # NoContent => ContentAt(s, p) = at.got[p]
  <2> SUFFICES ASSUME kind = "R2"
               PROVE  \E s \in seen : \A p \in Paths :
                        at.got[p] # NoContent => ContentAt(s, p) = at.got[p]
    OBVIOUS
  <2>1. PICK s \in seen, w \in 0..MaxWrites : Between(s, w)
    BY DEF IInv, MomentInv
  <2>2. at.pos = Count + 1
    BY DEF IInv, MomentInv
  <2>3. \A p \in Paths : p < at.pos
    BY <2>2, PathFacts
  <2>4. \A p \in Paths : at.before[p] # NoFile => s[p] = at.before[p]
    BY <2>1, <2>3 DEF Between
  <2> QED
    BY <1>5, <2>4 DEF Obtained, ContentAt
<1>8. \A p \in Paths : Readable(at.got[p])
  BY DEF IInv, ReadableInv
<1>9. ResultInv'
  BY <1>2, <1>6, <1>7, <1>8 DEF ResultInv, SnapshotIsTrue, Readable, ContentAt
<1>10. blobs' \in [Contents -> Bytes] /\ faults' \in Nat
  BY DEF IInv, TypeOK
<1> QED
  BY <1>2, <1>3, <1>9, <1>10, EndInv

LEMMA JudgeStep ==
  ASSUME IInv, Judge
  PROVE  IInv'
<1>0. /\ pc = "Judge" /\ kind = "R2" /\ Todo = {} /\ at \in Locals
      /\ UNCHANGED <<kind, source, blobs, bindings, seen, spoiled, writes, faults>>
  BY DEF Judge, IInv, TypeOK, PhaseInv, BucketPhases, MaterialInv
<1>1. CASE at.before = at.list /\ Snapshot(at.got, at.got)
  <2>1. at.got \in Files
    BY <1>0 DEF Locals
  <2> QED
    BY <1>0, <1>1, <2>1, SnapshotInv
<1>2. CASE /\ at.before # at.list /\ at.attempt < MaxAttempts
           /\ at' = [NoLocals EXCEPT !.attempt = at.attempt + 1]
           /\ pc' = "Before" /\ UNCHANGED result
  <2>1. at.attempt + 1 \in 1..MaxAttempts
    BY <1>0, <1>2, ScanConstants DEF Locals
  <2>2. at' \in Locals
    BY <1>2, <2>1, NoLocalsType DEF Locals
  <2>3. /\ at'.pos = 1 /\ at'.list = NoListing /\ at'.before = NoListing
        /\ at'.got = NoFiles /\ at'.reuse = {} /\ at'.read = NoContent
    BY <1>2 DEF NoLocals
  <2> QED
    BY <1>0, <1>2, <2>2, <2>3, RestartInv
<1>3. CASE Finish([NoResult EXCEPT !.kind = "Unstable"])
  <2>1. /\ pc' = "Idle" /\ at' = NoLocals
        /\ result' \in Results /\ result'.kind = "Unstable"
    BY <1>3 DEF Finish, NoResult, Results, NoFiles, Files
  <2>2. ResultInv'
    BY <2>1 DEF ResultInv, SnapshotIsTrue
  <2>3. blobs' \in [Contents -> Bytes] /\ faults' \in Nat
    BY <1>0 DEF IInv, TypeOK
  <2> QED
    BY <1>0, <2>1, <2>2, <2>3, EndInv
<1> QED
  BY <1>1, <1>2, <1>3 DEF Judge

LEMMA EndPassStep ==
  ASSUME IInv, EndPass
  PROVE  IInv'
<1>0. /\ pc = "Read" /\ kind = "Local" /\ Todo = {} /\ at \in Locals
      /\ UNCHANGED <<kind, source, blobs, bindings, seen, spoiled, writes, faults>>
  BY DEF EndPass, IInv, TypeOK, PhaseInv, DirectoryPhases
<1>1. at.got \in Files /\ at.id \in Files
  BY <1>0 DEF Locals
<1>2. CASE at.pass = 2 /\ Snapshot(at.got, at.id)
  <2> PICK id \in Files : id = at.id
    BY <1>1
  <2> QED
    BY <1>0, <1>2, SnapshotInv
<1>3. CASE /\ at' = [NoLocals EXCEPT !.pass = 2, !.id = at.got]
           /\ pc' = "Walk" /\ UNCHANGED result
  <2>1. at' \in Locals
    <3>1. 2 \in 1..2
      OBVIOUS
    <3> QED
      BY <1>1, <1>3, <3>1, NoLocalsType DEF Locals
  <2>2. /\ at'.pos = 1 /\ at'.list = NoListing /\ at'.before = NoListing
        /\ at'.got = NoFiles /\ at'.reuse = {} /\ at'.read = NoContent
    BY <1>3 DEF NoLocals
  <2> QED
    BY <1>0, <1>3, <2>1, <2>2, RestartInv
<1> QED
  BY <1>2, <1>3 DEF EndPass

LEMMA BlobSpoilsStep ==
  ASSUME IInv, NEW c \in Contents, BlobSpoils(c)
  PROVE  IInv'
<1>0. /\ \E bytes \in Bytes : blobs' = [blobs EXCEPT ![c] = bytes]
      /\ spoiled' = spoiled \cup {c} /\ faults' = faults + 1
      /\ UNCHANGED <<kind, source, bindings, pc, at, result, seen, writes>>
  BY DEF BlobSpoils, Fault, scan
<1>1. TypeOK'
  BY <1>0 DEF IInv, TypeOK
<1>2. ClockInv' /\ PhaseInv' /\ HistoryInv'
  BY <1>0 DEF IInv, ClockInv, PhaseInv, HistoryInv
<1>3. MaterialInv'
  BY <1>0 DEF IInv, MaterialInv, Obtained, ContentAt, IsNext, Todo, Listed
<1>4. \A d : Readable(d) => Readable(d)'
  BY <1>0 DEF Readable, IInv, TypeOK
<1>5. ReadableInv'
  <2>1. /\ \A p \in Paths : Readable(at.got[p])'
        /\ Readable(at.read)'
        /\ \A p \in at.reuse : Readable(at.before[p].content)'
    BY <1>0, <1>4 DEF IInv, ReadableInv
  <2> QED
    BY <1>0, <2>1 DEF IInv, ReadableInv, Bound
<1>6. MomentInv'
  BY <1>0 DEF IInv, MomentInv, Between
<1>7. ResultInv'
  <2>1. (result.kind = "Snapshot" => \A p \in Paths : Readable(result.files[p]))'
    BY <1>0, <1>4 DEF IInv, ResultInv
  <2> QED
    BY <1>0, <2>1 DEF IInv, ResultInv, SnapshotIsTrue, ContentAt
<1> QED
  BY <1>1, <1>2, <1>3, <1>5, <1>6, <1>7 DEF IInv

\* Other people write and delete while the scan runs.  What they write is newer than
\* all that was read.
LEMMA ChangeStep ==
  ASSUME IInv, NEW p \in Paths, NEW object,
         \/ object = NoFile
         \/ object \in Objects /\ object.time = writes + 1,
         Change(p, object)
  PROVE  IInv'
<1>0. /\ writes < MaxWrites /\ writes' = writes + 1
      /\ source' = [source EXCEPT ![p] = object]
      /\ seen' = IF pc = "Idle" THEN seen ELSE seen \cup {source'}
      /\ UNCHANGED <<kind, blobs, bindings, pc, at, result, spoiled, faults>>
  BY DEF Change, scan
<1>1. writes \in Nat /\ MaxWrites \in Nat /\ writes + 1 \in 0..MaxWrites
  BY <1>0, ScanConstants DEF IInv, TypeOK
<1>2. source \in Listing /\ source' \in Listing
  BY <1>0 DEF IInv, TypeOK, Listing
<1>3. source'[p] = object /\ \A q \in Paths : q # p => source'[q] = source[q]
  BY <1>0, <1>2 DEF Listing
<1>4. seen \subseteq seen' /\ (pc # "Idle" => source' \in seen')
  BY <1>0
<1>5. TypeOK'
  BY <1>0, <1>1, <1>2 DEF IInv, TypeOK
<1>6. at \in Locals /\ at.list \in Listing /\ at.before \in Listing
  BY DEF IInv, TypeOK, Locals
<1>7. ClockInv'
  <2> SUFFICES ASSUME NEW q \in Paths, NEW o \in {source'[q], at.list[q], at.before[q]},
                      o # NoFile
               PROVE  o.time <= writes + 1
    BY <1>0 DEF ClockInv
  <2>1. CASE o = object /\ object # NoFile
    BY <1>1, <2>1
  <2>2. CASE o \in {source[q], at.list[q], at.before[q]}
    <3>1. o.time \in Nat /\ o.time <= writes
      <4>1. o \in Objects
        BY <1>2, <1>6, <2>2 DEF Listing
      <4>2. o.time \in Nat
        BY <4>1, <1>1 DEF Objects
      <4> QED
        BY <2>2, <4>2 DEF IInv, ClockInv
    <3> QED
      BY <1>1, <3>1
  <2> QED
    BY <1>3, <2>1, <2>2
<1>8. PhaseInv'
  BY <1>0 DEF IInv, PhaseInv
<1>9. HistoryInv'
  BY <1>0, <1>4 DEF IInv, HistoryInv
<1>10. MaterialInv'
  BY <1>0, <1>4 DEF IInv, MaterialInv, Obtained, ContentAt, IsNext, Todo, Listed
<1>11. ReadableInv'
  BY <1>0 DEF IInv, ReadableInv, Readable, Bound
<1>12. MomentInv'
  <2>1. ASSUME NEW s \in seen, NEW w \in 0..MaxWrites, Between(s, w),
               pc \in {"After", "Judge"}
        PROVE  \E v \in 0..MaxWrites : Between(s, v)'
    <3>1. \E v \in 0..MaxWrites : v <= w /\ v <= writes /\ (v = w \/ v = writes)
      BY <1>0, <1>1
    <3> PICK v \in 0..MaxWrites : v <= w /\ v <= writes /\ (v = w \/ v = writes)
      BY <3>1
    <3>2. \A q \in Paths : at.before[q] # NoFile => at.before[q].time <= v
      BY <2>1 DEF IInv, ClockInv, Between
    <3>3. \A q \in Paths : source'[q] = s[q] \/ source'[q] = NoFile \/ source'[q].time > v
      <4> SUFFICES ASSUME NEW q \in Paths
                   PROVE  source'[q] = s[q] \/ source'[q] = NoFile \/ source'[q].time > v
        OBVIOUS
      <4>1. CASE q = p
        BY <1>1, <1>3, <3>1, <4>1
      <4>2. CASE q # p
        <5>1. source[q] # NoFile => source[q].time \in Nat
          BY <1>1, <1>2 DEF Listing, Objects
        <5>2. w \in Nat /\ v \in Nat /\ v <= w
          BY <1>1, <3>1
        <5>3. source[q] = s[q] \/ source[q] = NoFile \/ source[q].time > w
          BY <2>1 DEF Between
        <5> QED
          BY <1>3, <4>2, <5>1, <5>2, <5>3
      <4> QED
        BY <4>1, <4>2
    <3>4. Between(s, v)'
      BY <1>0, <2>1, <3>2, <3>3 DEF Between
    <3> QED
      BY <3>1, <3>4
  <2>2. CASE pc \in {"After", "Judge"}
    <3>1. PICK s \in seen, w \in 0..MaxWrites : Between(s, w)
      BY <2>2 DEF IInv, MomentInv
    <3>2. PICK v \in 0..MaxWrites : Between(s, v)'
      BY <2>1, <2>2, <3>1
    <3> QED
      BY <1>0, <1>4, <3>2 DEF IInv, MomentInv
  <2> QED
    BY <1>0, <2>2 DEF IInv, MomentInv
<1>13. ResultInv'
  <2>1. SnapshotIsTrue'
    BY <1>0, <1>4 DEF IInv, ResultInv, SnapshotIsTrue, ContentAt
  <2> QED
    BY <1>0, <2>1 DEF IInv, ResultInv, Readable
<1> QED
  BY <1>5, <1>7, <1>8, <1>9, <1>10, <1>11, <1>12, <1>13 DEF IInv

----------------------------------------------------------------------------
(* The theorems *)

LEMMA InitInv == Init => IInv
<1> SUFFICES ASSUME Init
             PROVE  IInv
  OBVIOUS
<1> USE DEF Init
<1>1. source \in Listing
  BY ScanConstants DEF Listing, Objects
<1>2. TypeOK
  <2>1. NoResult \in Results
    BY DEF NoResult, Results, NoFiles, Files
  <2>2. blobs \in [Contents -> Bytes] /\ 0 \in 0..MaxWrites
    BY ScanConstants DEF Bytes
  <2> QED
    BY <1>1, <2>1, <2>2, NoLocalsType DEF TypeOK, Phases
<1>3. ClockInv
  <2>1. \A p \in Paths : source[p] # NoFile => source[p].time = 0
    OBVIOUS
  <2> QED
    BY <2>1 DEF ClockInv, NoLocals, NoListing
<1>4. PhaseInv /\ HistoryInv /\ MomentInv
  BY DEF PhaseInv, HistoryInv, MomentInv, BucketPhases, DirectoryPhases, NoLocals, NoResult
<1>5. MaterialInv /\ ReadableInv
  BY DEF MaterialInv, ReadableInv, Readable, NoLocals, NoFiles
<1>6. ResultInv
  BY DEF ResultInv, SnapshotIsTrue, NoResult
<1> QED
  BY <1>2, <1>3, <1>4, <1>5, <1>6 DEF IInv

LEMMA StutterInv ==
  ASSUME IInv, UNCHANGED vars
  PROVE  IInv'
<1> USE DEF vars, scan
<1>1. TypeOK' /\ ClockInv' /\ PhaseInv' /\ HistoryInv'
  BY DEF IInv, TypeOK, ClockInv, PhaseInv, HistoryInv
<1>2. MaterialInv'
  BY DEF IInv, MaterialInv, Obtained, ContentAt, IsNext, Todo, Listed
<1>3. ReadableInv'
  BY DEF IInv, ReadableInv, Readable, Bound
<1>4. MomentInv'
  BY DEF IInv, MomentInv, Between
<1>5. ResultInv'
  BY DEF IInv, ResultInv, SnapshotIsTrue, ContentAt, Readable
<1> QED
  BY <1>1, <1>2, <1>3, <1>4, <1>5 DEF IInv

\* The strengthening is inductive, whatever other people write and whatever fails.
THEOREM Invariant == Spec => []IInv
<1>1. Init => IInv
  BY InitInv
<1>2. IInv /\ [Next]_vars => IInv'
  <2> SUFFICES ASSUME IInv, [Next]_vars
               PROVE  IInv'
    OBVIOUS
  <2>1. CASE BeginScan
    BY <2>1, BeginScanStep
  <2>2. CASE ListPage
    BY <2>2, ListPageStep
  <2>3. CASE PlanRefresh
    BY <2>3, PlanRefreshStep
  <2>4. CASE \E p \in Paths : ReuseEntry(p) \/ FetchObject(p) \/ BindObject(p) \/ ReadFile(p)
    BY <2>4, ReuseEntryStep, FetchObjectStep, BindObjectStep, ReadFileStep
  <2>5. CASE ListAgain
    BY <2>5, ListAgainStep
  <2>6. CASE Judge
    BY <2>6, JudgeStep
  <2>7. CASE EndPass
    BY <2>7, EndPassStep
  <2>8. CASE Abort
    <3>1. blobs' \in [Contents -> Bytes] /\ faults' \in Nat
      BY <2>8 DEF Abort, Fault, IInv, TypeOK
    <3> QED
      BY <2>8, <3>1, FailInv DEF Abort
  <2>9. CASE \E c \in Contents : BlobSpoils(c)
    BY <2>9, BlobSpoilsStep
  <2>10. CASE \E p \in Paths : Write(p) \/ Delete(p)
    <3> PICK p \in Paths : Write(p) \/ Delete(p)
      BY <2>10
    <3>1. CASE Delete(p)
      <4> PICK object : object = NoFile
        OBVIOUS
      <4> QED
        BY <3>1, ChangeStep DEF Delete
    <3>2. CASE Write(p)
      <4> PICK c \in Contents : Change(p, [content |-> c, time |-> writes + 1])
        BY <3>2 DEF Write
      <4> PICK object : object = [content |-> c, time |-> writes + 1]
        OBVIOUS
      <4>1. writes + 1 \in 0..MaxWrites
        BY ScanConstants DEF Change, IInv, TypeOK
      <4>2. object \in Objects /\ object.time = writes + 1
        BY <4>1 DEF Objects
      <4> QED
        BY <4>2, ChangeStep
    <3> QED
      BY <3>1, <3>2
  <2>11. CASE UNCHANGED vars
    BY <2>11, StutterInv
  <2> QED
    BY <2>1, <2>2, <2>3, <2>4, <2>5, <2>6, <2>7, <2>8, <2>9, <2>10, <2>11 DEF Next, Step
<1> QED
  BY <1>1, <1>2, PTL DEF Spec

\* Every variable of the scan keeps its type.
THEOREM TypesAreKept == Spec => []TypeOK
<1>1. IInv => TypeOK
  BY DEF IInv
<1> QED
  BY <1>1, Invariant, PTL

\* What a scan returns was there: each path at some moment of the scan, and all the
\* files of a bucket at one moment, however many writers there are.
THEOREM SnapshotsAreTrue == Spec => []SnapshotIsTrue
<1>1. IInv => SnapshotIsTrue
  BY DEF IInv, ResultInv
<1> QED
  BY <1>1, Invariant, PTL

\* A binding never lies about its revision, and a snapshot can be read, but for the
\* blobs that were spoiled since the scan began.
THEOREM SkippingStaysSafe == Spec => []SkippingIsSafe
<1>1. IInv => SkippingIsSafe
  BY DEF IInv, ReadableInv, ResultInv, SkippingIsSafe
<1> QED
  BY <1>1, Invariant, PTL
=============================================================================
