--------------------------- MODULE CatalogMirror ---------------------------
(***************************************************************************)
(* The local copy of one catalog directory (backend/app/catalog/mirror.py  *)
(* and the mirror_pages of its sources).  A sync reads the directory a     *)
(* page at a time, each page one commit, while the directory changes, the  *)
(* upstream fails and the process dies; the copy is served once a first    *)
(* sync has finished.  A page holds one record, in the order of the        *)
(* upstream's cursor, which skips no record that stays listed.  A version  *)
(* of 0 is a record that is not there.                                     *)
(***************************************************************************)
EXTENDS Naturals

CONSTANTS
    Count,              \* records, numbered in the order the upstream pages them
    Overlap,            \* _OVERLAP_S
    MaxTime, MaxFaults  \* bounds: clock readings; failures and crashes

ASSUME MirrorAssumptions ==
    /\ Count \in Nat /\ Overlap \in Nat /\ MaxTime \in Nat \ {0} /\ MaxFaults \in Nat

VARIABLES
    incremental,            \* mirror_incremental: a record is marked, never removed
    now,                    \* the clock, the upstream's too
    listed, changed,        \* the directory: each record's version, its last change
    entry, gen,             \* the mirror's rows, and the sync that wrote each
    last,                   \* the sync row: when the last finished one started
    started, full, since, next,     \* the sync under way (next 0: none)
    unlisted,               \* the records seen unlisted while it runs
    faults

upstream == <<listed, changed>>
mirror == <<entry, gen, last>>
pass == <<started, full, since, next, unlisted>>
vars == <<incremental, now, upstream, mirror, pass, faults>>

Records == 1 .. Count
Times == 0 .. MaxTime
Ready == last # 0

TypeOK ==
    /\ incremental \in BOOLEAN /\ now \in Times
    /\ listed \in [Records -> Nat] /\ changed \in [Records -> Times]
    /\ entry \in [Records -> Nat] /\ gen \in [Records -> Times] /\ last \in Times
    /\ started \in Times /\ full \in BOOLEAN /\ since \in Times
    /\ next \in Nat /\ unlisted \subseteq Records /\ faults \in 0 .. MaxFaults

Init ==
    /\ incremental \in BOOLEAN /\ now = 1
    /\ listed \in [Records -> {0, 1}] /\ changed = [r \in Records |-> 1]
    /\ entry = [r \in Records |-> 0] /\ gen = [r \in Records |-> 0] /\ last = 0
    /\ started = 0 /\ full = TRUE /\ since = 0 /\ next = 0 /\ unlisted = {}
    /\ faults = 0

-----------------------------------------------------------------------------
Tick ==
    /\ now < MaxTime /\ now' = now + 1
    /\ UNCHANGED <<incremental, upstream, mirror, pass, faults>>

\* The directory publishes a version, or drops a record if it drops any.
Publishes(r) ==
    /\ \/ listed[r] < MaxTime /\ listed' = [listed EXCEPT ![r] = @ + 1]
       \/ ~incremental /\ listed[r] # 0 /\ listed' = [listed EXCEPT ![r] = 0]
    /\ changed[r] < now /\ changed' = [changed EXCEPT ![r] = now]
    /\ unlisted' = IF listed'[r] = 0 THEN unlisted \cup {r} ELSE unlisted
    /\ UNCHANGED <<incremental, now, mirror, started, full, since, next, faults>>

\* run_forever starts a sync: the interval passed, or nothing finished yet.
Begin ==
    /\ next = 0 /\ last < now
    /\ started' = now /\ next' = 1
    /\ full' = (last = 0 \/ ~incremental)
    /\ since' = IF full' \/ last < Overlap THEN 0 ELSE last - Overlap
    /\ unlisted' = {r \in Records : listed[r] = 0}
    /\ UNCHANGED <<incremental, now, upstream, mirror, faults>>

\* mirror_pages: the whole directory, or what changed since.
Returned(r) == listed[r] # 0 /\ (full \/ changed[r] >= since)

\* _write of one page.
Page ==
    /\ next \in Records
    /\ next' = next + 1
    /\ entry' = IF Returned(next) THEN [entry EXCEPT ![next] = listed[next]] ELSE entry
    /\ gen' = IF Returned(next) THEN [gen EXCEPT ![next] = started] ELSE gen
    /\ UNCHANGED <<incremental, now, upstream, last, started, full, since, unlisted, faults>>

\* Mutant: what an incremental sync did not return is dropped too.
DroppedAlways == {r \in Records : gen[r] < started}

\* What the full listing did not return.
Dropped == IF full THEN {r \in Records : gen[r] < started} ELSE {}

\* Mutant: the sync row carries when the sync ended.
FinishAtEnd ==
    /\ next # 0 /\ next \notin Records
    /\ next' = 0 /\ last' = now
    /\ entry' = [r \in Records |-> IF r \in Dropped THEN 0 ELSE entry[r]]
    /\ UNCHANGED <<incremental, now, upstream, gen, started, full, since, unlisted, faults>>

\* _finish: the stale rows and the sync row, in one commit.
Finish ==
    /\ next # 0 /\ next \notin Records
    /\ next' = 0 /\ last' = started
    /\ entry' = [r \in Records |-> IF r \in Dropped THEN 0 ELSE entry[r]]
    /\ UNCHANGED <<incremental, now, upstream, gen, started, full, since, unlisted, faults>>

\* Mutant: a failed sync counts as finished, so that its interval applies.
FailsFinished ==
    /\ next # 0 /\ faults < MaxFaults /\ faults' = faults + 1
    /\ next' = 0 /\ last' = started
    /\ UNCHANGED <<incremental, now, upstream, entry, gen, started, full, since, unlisted>>

\* The upstream fails, or the process dies: the pages written so far stay.
Fails ==
    /\ next # 0 /\ faults < MaxFaults /\ faults' = faults + 1
    /\ next' = 0
    /\ UNCHANGED <<incremental, now, upstream, mirror, started, full, since, unlisted>>

Next ==
    \/ Tick \/ Begin \/ Page \/ Finish \/ Fails
    \/ \E r \in Records : Publishes(r)

Spec == Init /\ [][Next]_vars

FairSpec == Spec /\ WF_vars(Tick) /\ WF_vars(Begin) /\ WF_vars(Page) /\ WF_vars(Finish)

-----------------------------------------------------------------------------
(* What is served is as the directory was when the last finished sync      *)
(* began, or newer: no change published before it is missing, whichever    *)
(* syncs died between two pages since, and a record dropped by then is not *)
(* listed any more (sync, _write, _finish).                                *)
ServedIsCurrent ==
    Ready => \A r \in Records : changed[r] < last => entry[r] = listed[r]

(* A finished copy is current, and its rows are well-formed.               *)
CopyIsCurrent == TypeOK /\ ServedIsCurrent

(* A record leaves the copy only if the directory did not list it for part *)
(* of the sync that dropped it (_finish's gen).                            *)
DropsOnlyGone ==
    [][\A r \in Records : entry[r] # 0 /\ entry'[r] = 0 => r \in unlisted]_vars

(* Once the directory is quiet and reachable, the copy catches up with it  *)
(* (run_forever's retries).                                                *)
CatchesUp == <>[](\A r \in Records : changed[r] < MaxTime => entry[r] = listed[r])
=============================================================================
