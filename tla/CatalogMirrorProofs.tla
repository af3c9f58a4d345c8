------------------------ MODULE CatalogMirrorProofs ------------------------
(***************************************************************************)
(* Proofs about CatalogMirror, for any number of records, any overlap and  *)
(* any number of failures: the copy is current however many syncs died     *)
(* between two pages, and nothing listed throughout a sync is dropped.     *)
(***************************************************************************)
EXTENDS CatalogMirror, TLAPS

\* What has happened happened before now; a sync is younger than the rows.
Timely ==
    /\ started <= now /\ last <= now
    /\ \A r \in Records : changed[r] <= now /\ gen[r] <= started

\* A sync that is not full reads whatever changed since the last finished one.
Reaches == next # 0 /\ ~full => incremental /\ last # 0 /\ since <= last

\* A row was read after the sync that wrote it had started.
RowsRead == \A r \in Records : changed[r] < gen[r] => entry[r] = listed[r]

\* The pages read so far brought what is listed and old enough.
Visited ==
    next # 0 => \A r \in Records :
        r < next /\ listed[r] # 0 /\ changed[r] < started /\ (full \/ changed[r] >= since)
            => gen[r] = started

\* The pages of a full sync brought what was listed all the while.
Seen ==
    next # 0 => \A r \in Records :
        /\ listed[r] = 0 => r \in unlisted
        /\ full /\ r < next /\ r \notin unlisted => gen[r] = started

\* A directory that only marks records has listed whatever is copied.
Kept == incremental => \A r \in Records : listed[r] = 0 => entry[r] = 0

IInv ==
    /\ TypeOK /\ Timely /\ Reaches /\ RowsRead /\ Visited /\ Seen /\ Kept
    /\ ServedIsCurrent

-----------------------------------------------------------------------------
LEMMA InitHolds == Init => IInv
BY MirrorAssumptions
DEF Init, IInv, TypeOK, Timely, Reaches, RowsRead, Visited, Seen, Kept, ServedIsCurrent,
    Times, Ready

LEMMA TypeStep == TypeOK /\ Timely /\ [Next]_vars => TypeOK'
<1> SUFFICES ASSUME TypeOK, Timely, [Next]_vars PROVE TypeOK'
  OBVIOUS
<1> USE MirrorAssumptions DEF TypeOK, Times
<1>1. CASE Tick  BY <1>1 DEF Tick, upstream, mirror, pass
<1>2. CASE Begin
  <2>1. since' \in Times  BY <1>2 DEF Begin
  <2>2. QED  BY <1>2, <2>1 DEF Begin, upstream, mirror
<1>3. CASE Page
  <2>1. entry' \in [Records -> Nat]  BY <1>3 DEF Page
  <2>2. gen' \in [Records -> Times]  BY <1>3 DEF Page
  <2>3. next' \in Nat  BY <1>3 DEF Page
  <2>4. QED  BY <1>3, <2>1, <2>2, <2>3 DEF Page, upstream
<1>4. CASE Finish  BY <1>4 DEF Finish, upstream
<1>5. CASE Fails  BY <1>5 DEF Fails, upstream, mirror
<1>6. ASSUME NEW r \in Records, Publishes(r) PROVE TypeOK'
  <2>1. listed' \in [Records -> Nat]  BY <1>6 DEF Publishes
  <2>2. changed' \in [Records -> Times]  BY <1>6 DEF Publishes
  <2>3. unlisted' \subseteq Records  BY <1>6 DEF Publishes
  <2>4. QED  BY <1>6, <2>1, <2>2, <2>3 DEF Publishes, mirror
<1>7. CASE UNCHANGED vars  BY <1>7 DEF vars, upstream, mirror, pass
<1>8. QED  BY <1>1, <1>2, <1>3, <1>4, <1>5, <1>6, <1>7 DEF Next

\* A version is published now, so no sync that began is older than it.
LEMMA PublishesStep ==
  ASSUME IInv, NEW r \in Records, Publishes(r)
  PROVE  Timely' /\ Reaches' /\ RowsRead' /\ Visited' /\ Seen' /\ Kept' /\ ServedIsCurrent'
<1>1. /\ changed'[r] = now /\ \A t \in Records \ {r} : changed'[t] = changed[t] /\ listed'[t] = listed[t]
      /\ unlisted \subseteq unlisted' /\ (listed'[r] = 0 => r \in unlisted')
      /\ (incremental => listed'[r] # 0)
  BY DEF Publishes, IInv, TypeOK
<1>2. UNCHANGED <<incremental, now, entry, gen, last, started, full, since, next>>
  BY DEF Publishes, mirror
<1>3. /\ now \in Nat /\ started \in Nat /\ last \in Nat
      /\ \A t \in Records : gen[t] \in Nat /\ gen[t] <= started
      /\ started <= now /\ last <= now
  BY MirrorAssumptions DEF IInv, TypeOK, Times, Timely
<1>4. Timely' /\ Reaches'  BY <1>1, <1>2, <1>3 DEF IInv, Timely, Reaches
<1>5. RowsRead' /\ ServedIsCurrent'
  BY <1>1, <1>2, <1>3 DEF IInv, RowsRead, ServedIsCurrent, Ready
<1>6. Visited'  BY <1>1, <1>2, <1>3 DEF IInv, Visited
<1>7. Seen' /\ Kept'  BY <1>1, <1>2 DEF IInv, Seen, Kept
<1>8. QED  BY <1>4, <1>5, <1>6, <1>7

\* A row that a page writes is as listed.
LEMMA PageStep ==
  ASSUME IInv, Page
  PROVE  Timely' /\ Reaches' /\ RowsRead' /\ Visited' /\ Seen' /\ Kept' /\ ServedIsCurrent'
<1>1. /\ next \in Records /\ next \in Nat /\ next # 0 /\ next' = next + 1
      /\ UNCHANGED <<incremental, now, listed, changed, last, started, full, since, unlisted>>
  BY DEF Page, Records, upstream
<1>2. \A t \in Records : t # next => entry'[t] = entry[t] /\ gen'[t] = gen[t]
  BY DEF Page, IInv, TypeOK
<1>3. \/ Returned(next) /\ entry'[next] = listed[next] /\ gen'[next] = started
      \/ ~Returned(next) /\ entry'[next] = entry[next] /\ gen'[next] = gen[next]
  BY DEF Page, IInv, TypeOK
<1>4. \A t \in Records : t \in Nat /\ (t < next + 1 => t < next \/ t = next)
  BY <1>1 DEF Records
<1>5. started \in Nat  BY MirrorAssumptions DEF IInv, TypeOK, Times
<1>6. Timely' /\ Reaches'  BY <1>1, <1>2, <1>3, <1>5 DEF IInv, Timely, Reaches
<1>7. RowsRead'  BY <1>1, <1>2, <1>3 DEF IInv, RowsRead
<1>8. Visited'  BY <1>1, <1>2, <1>3, <1>4 DEF IInv, Visited, Returned
<1>9. Seen'  BY <1>1, <1>2, <1>3, <1>4 DEF IInv, Seen, Returned
<1>10. Kept' /\ ServedIsCurrent'
  BY <1>1, <1>2, <1>3 DEF IInv, Kept, ServedIsCurrent, Ready, Returned
<1>11. QED  BY <1>6, <1>7, <1>8, <1>9, <1>10

\* What a finished sync leaves is as listed, for what changed before it.
LEMMA FinishStep ==
  ASSUME IInv, Finish
  PROVE  Timely' /\ Reaches' /\ RowsRead' /\ Visited' /\ Seen' /\ Kept' /\ ServedIsCurrent'
<1>1. /\ next # 0 /\ next' = 0 /\ last' = started
      /\ UNCHANGED <<incremental, now, listed, changed, gen, started, full, since, unlisted>>
  BY DEF Finish, upstream
<1>2. \A t \in Records : entry'[t] = IF t \in Dropped THEN 0 ELSE entry[t]
  BY DEF Finish
<1>3. \A t \in Records : t < next
  BY MirrorAssumptions DEF Finish, IInv, TypeOK, Records
<1>4. \A t \in Records : /\ gen[t] \in Nat /\ changed[t] \in Nat /\ gen[t] <= started
                         /\ t \in Dropped <=> full /\ gen[t] < started
  BY MirrorAssumptions DEF IInv, TypeOK, Times, Timely, Dropped
<1>5. started \in Nat /\ last \in Nat /\ since \in Nat
  BY MirrorAssumptions DEF IInv, TypeOK, Times
<1>6. Timely' /\ Reaches' /\ Visited' /\ Seen'
  BY <1>1 DEF IInv, Timely, Reaches, Visited, Seen
<1>7. ASSUME NEW t \in Records, changed[t] < started, full \/ changed[t] >= since
      PROVE  entry'[t] = listed[t]
  <2>1. CASE listed[t] # 0
    <3>1. gen[t] = started  BY <1>1, <1>3, <1>7, <2>1 DEF IInv, Visited
    <3>2. entry[t] = listed[t]  BY <1>7, <3>1 DEF IInv, RowsRead
    <3>3. t \notin Dropped  BY <1>4, <1>5, <3>1
    <3>4. QED  BY <1>2, <3>2, <3>3
  <2>2. CASE listed[t] = 0 /\ full
    <3>1. gen[t] = started \/ gen[t] < started  BY <1>4, <1>5
    <3>2. CASE gen[t] = started  BY <1>2, <1>7, <2>2, <3>2 DEF IInv, RowsRead
    <3>3. CASE gen[t] < started  BY <1>2, <1>4, <2>2, <3>3
    <3>4. QED  BY <3>1, <3>2, <3>3
  <2>3. CASE listed[t] = 0 /\ ~full
    BY <1>1, <1>2, <2>3 DEF IInv, Reaches, Kept
  <2>4. QED  BY <2>1, <2>2, <2>3
<1>8. ServedIsCurrent'
  <2> SUFFICES ASSUME NEW t \in Records, changed[t] < started PROVE entry'[t] = listed[t]
    BY <1>1 DEF ServedIsCurrent
  <2>1. CASE full \/ changed[t] >= since  BY <1>7, <2>1
  <2>2. CASE ~full /\ changed[t] < since
    <3>1. last # 0 /\ changed[t] < last  BY <1>1, <1>4, <1>5, <2>2 DEF IInv, Reaches
    <3>2. entry[t] = listed[t]  BY <3>1 DEF IInv, ServedIsCurrent, Ready
    <3>3. QED  BY <1>2, <1>4, <2>2, <3>2
  <2>3. QED  BY <1>4, <1>5, <2>1, <2>2
<1>9. RowsRead'
  <2> SUFFICES ASSUME NEW t \in Records, changed[t] < gen[t] PROVE entry'[t] = listed[t]
    BY <1>1 DEF RowsRead
  <2>1. changed[t] < started  BY <1>4, <1>5
  <2>2. CASE full  BY <1>7, <2>1, <2>2
  <2>3. CASE ~full  BY <1>2, <1>4, <2>3 DEF IInv, RowsRead
  <2>4. QED  BY <2>2, <2>3
<1>10. Kept'  BY <1>1, <1>2 DEF IInv, Kept
<1>11. QED  BY <1>6, <1>8, <1>9, <1>10

\* A sync begins later than every row was written, or at the same reading.
LEMMA BeginStep ==
  ASSUME IInv, Begin
  PROVE  Timely' /\ Reaches' /\ RowsRead' /\ Visited' /\ Seen' /\ Kept' /\ ServedIsCurrent'
<1>1. /\ started' = now /\ next' = 1 /\ unlisted' = {r \in Records : listed[r] = 0}
      /\ full' = (last = 0 \/ ~incremental)
      /\ UNCHANGED <<incremental, now, listed, changed, entry, gen, last>>
  BY DEF Begin, upstream, mirror
<1>2. \A t \in Records : t \in Nat /\ ~(t < 1)  BY DEF Records
<1>3. /\ now \in Nat /\ started \in Nat /\ \A t \in Records : gen[t] \in Nat
      /\ last \in Nat /\ Overlap \in Nat
  BY MirrorAssumptions DEF IInv, TypeOK, Times
<1>4. since' <= last  BY <1>3 DEF Begin
<1>5. Timely'  BY <1>1, <1>3 DEF IInv, Timely
<1>6. Reaches'  BY <1>1, <1>4 DEF Reaches
<1>7. Visited' /\ Seen'  BY <1>1, <1>2 DEF Visited, Seen
<1>8. RowsRead' /\ Kept' /\ ServedIsCurrent'
  BY <1>1 DEF IInv, RowsRead, Kept, ServedIsCurrent, Ready
<1>9. QED  BY <1>5, <1>6, <1>7, <1>8

LEMMA InvariantStep == IInv /\ [Next]_vars => IInv'
<1> SUFFICES ASSUME IInv, [Next]_vars
             PROVE  Timely' /\ Reaches' /\ RowsRead' /\ Visited' /\ Seen' /\ Kept' /\ ServedIsCurrent'
  BY TypeStep DEF IInv
<1>1. CASE Tick
  <2>1. now \in Nat /\ now' = now + 1
        /\ UNCHANGED <<incremental, listed, changed, entry, gen, last, started, full, since,
                       next, unlisted>>
    BY <1>1, MirrorAssumptions DEF Tick, upstream, mirror, pass, IInv, TypeOK, Times
  <2>2. Timely'
    <3>1. started \in Nat /\ last \in Nat /\ \A r \in Records : changed[r] \in Nat
      BY MirrorAssumptions DEF IInv, TypeOK, Times
    <3>2. QED  BY <2>1, <3>1 DEF IInv, Timely
  <2>3. QED
    BY <2>1, <2>2 DEF IInv, Reaches, RowsRead, Visited, Seen, Kept, ServedIsCurrent, Ready
<1>2. CASE Begin  BY <1>2, BeginStep
<1>3. CASE Page  BY <1>3, PageStep
<1>4. CASE Finish  BY <1>4, FinishStep
<1>5. CASE Fails
  BY <1>5 DEF Fails, upstream, mirror, IInv, Timely, Reaches, RowsRead, Visited, Seen, Kept,
              ServedIsCurrent, Ready
<1>6. CASE \E r \in Records : Publishes(r)  BY <1>6, PublishesStep
<1>7. CASE UNCHANGED vars
  BY <1>7 DEF vars, upstream, mirror, pass, IInv, Timely, Reaches, RowsRead, Visited, Seen,
              Kept, ServedIsCurrent, Ready
<1>8. QED  BY <1>1, <1>2, <1>3, <1>4, <1>5, <1>6, <1>7 DEF Next

\* mirror.py keeps its rows, their generation marks and the sync row in
\* agreement with the directory, whichever syncs died between two pages.
THEOREM Invariant == Spec => []IInv
<1>1. Init => IInv  BY InitHolds
<1>2. IInv /\ [Next]_vars => IInv'  BY InvariantStep
<1>3. QED  BY <1>1, <1>2, PTL DEF Spec

\* What the catalog serves is the directory as of the last finished sync's
\* start, or newer (sync, _write, _finish).
THEOREM Current == Spec => []CopyIsCurrent
<1>1. IInv => CopyIsCurrent  BY DEF IInv, CopyIsCurrent
<1>2. QED  BY <1>1, Invariant, PTL

\* _finish drops no record that was listed throughout its sync.
THEOREM DropsRight == Spec => DropsOnlyGone
<1>1. ASSUME IInv, [Next]_vars, NEW r \in Records, entry[r] # 0, entry'[r] = 0
      PROVE  r \in unlisted
  <2>1. CASE Finish
    <3>1. full /\ gen[r] < started
      BY <1>1, <2>1 DEF Finish, Dropped
    <3>2. next # 0 /\ r < next
      BY <1>1, <2>1, MirrorAssumptions DEF Finish, IInv, TypeOK, Records
    <3>3. gen[r] # started
      BY <1>1, <3>1, MirrorAssumptions DEF IInv, TypeOK, Times
    <3>4. QED  BY <1>1, <3>1, <3>2, <3>3 DEF IInv, Seen
  <2>2. CASE Page  BY <1>1, <2>2 DEF Page, Returned, IInv, TypeOK
  <2>3. CASE entry' = entry  BY <1>1, <2>3
  <2>4. Finish \/ Page \/ entry' = entry
    BY <1>1 DEF Next, Tick, Begin, Fails, Publishes, vars, mirror
  <2>5. QED  BY <2>1, <2>2, <2>3, <2>4
<1>2. IInv /\ [Next]_vars => [\A r \in Records : entry[r] # 0 /\ entry'[r] = 0 => r \in unlisted]_vars
  BY <1>1
<1>3. QED  BY <1>2, Invariant, PTL DEF Spec, DropsOnlyGone
=============================================================================
