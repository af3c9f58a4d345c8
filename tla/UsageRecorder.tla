--------------------------- MODULE UsageRecorder ---------------------------
(***************************************************************************)
(* The usage counters (backend/app/usage/recorder.py and                   *)
(* repo.bump_usage): requests count calls in memory, worker threads flush  *)
(* them into the hourly rows in SQLite, servers are deleted meanwhile and  *)
(* writes fail.  One action is what runs under one hold of _lock, or one   *)
(* transaction.  The model keeps one hour: a key is <<server, tool name>>, *)
(* and a count of 0 is a key that is not there.                            *)
(***************************************************************************)
EXTENDS Naturals, FiniteSets, FiniteSetsExt

CONSTANTS
    Servers,            \* server ids; a deleted id is never used again
    Tools,              \* tool names a caller may send
    Plain, Overflow,    \* NOT_A_TOOL, OVERFLOW_TOOL
    Catalog,            \* the tools each server exposes when it runs
    Workers,            \* threads that flush, for a read of the statistics too
    Ticker, Final,      \* the periodic one, and the flush of the shutdown
    NoWorker,
    MaxPendingKeys, MaxUnknownTools,
    MaxRecorded,        \* bound: calls counted per server
    MaxFailures         \* bound: failed writes

ASSUME RecorderAssumptions ==
    /\ IsFiniteSet(Servers) /\ IsFiniteSet(Tools)
    /\ Plain \notin Tools /\ Overflow \notin Tools /\ Plain # Overflow
    /\ Catalog \in [Servers -> SUBSET Tools]
    /\ IsFiniteSet(Workers) /\ NoWorker \notin Workers
    /\ {Ticker, Final} \subseteq Workers /\ Ticker # Final
    /\ MaxPendingKeys \in Nat /\ MaxUnknownTools \in Nat
    /\ MaxRecorded \in Nat /\ MaxFailures \in Nat

VARIABLES
    rows,        \* the servers that exist in the database
    exposed,     \* the discovered tools of each server, in its runtime row
    buckets,     \* the stored counts
    pending,     \* _pending
    inflight,    \* _inflight, counting its holders
    flushing,    \* the worker that holds _flush_lock
    at, batch,   \* where each worker is; the batch it detached
    view,        \* what each write has read: live servers, stored keys, exposed tools
    phase,       \* of the process
    forgetting,  \* deleted servers whose forget() is still to come
    recorded,    \* the calls counted of each server since it was forgotten, if it was
    everExposed, \* the tools each server ever exposed
    failures

storage == <<rows, exposed, buckets>>
memory  == <<pending, inflight>>
threads == <<flushing, at, batch, view>>
ghosts  == <<recorded, everExposed>>
vars == <<storage, memory, threads, phase, forgetting, ghosts, failures>>

Names == Tools \cup {Plain, Overflow}
Keys == Servers \X Names
KeysOf(s) == {s} \X Names
Nothing == [k \in Keys |-> 0]
Held(counts) == {k \in Keys : counts[k] > 0}
Plus(f, g) == [k \in Keys |-> f[k] + g[k]]
NoView == [live |-> {}, stored |-> {}, exposed |-> [s \in Servers |-> {}]]

TypeOK ==
    /\ rows \subseteq Servers /\ exposed \in [Servers -> SUBSET Tools]
    /\ buckets \in [Keys -> Nat] /\ pending \in [Keys -> Nat]
    /\ inflight \in [Keys -> 0 .. Cardinality(Workers)]
    /\ flushing \in Workers \cup {NoWorker}
    /\ at \in [Workers -> {"idle", "called", "taken", "read", "failed", "written", "over"}]
    /\ batch \in [Workers -> [Keys -> Nat]]
    /\ view \in [Workers -> [live : SUBSET Servers, stored : SUBSET Keys,
                             exposed : [Servers -> SUBSET Tools]]]
    /\ phase \in {"serving", "closing", "exited"} /\ forgetting \subseteq Servers
    /\ recorded \in [Servers -> Nat] /\ everExposed \in [Servers -> SUBSET Tools]
    /\ failures \in 0 .. MaxFailures

Init ==
    /\ rows = Servers /\ exposed = [s \in Servers |-> {}] /\ buckets = Nothing
    /\ pending = Nothing /\ inflight = Nothing
    /\ flushing = NoWorker /\ at = [w \in Workers |-> "idle"]
    /\ batch = [w \in Workers |-> Nothing] /\ view = [w \in Workers |-> NoView]
    /\ phase = "serving" /\ forgetting = {}
    /\ recorded = [s \in Servers |-> 0] /\ everExposed = [s \in Servers |-> {}]
    /\ failures = 0

-----------------------------------------------------------------------------
(* The event loop.                                                         *)

Tracked == Held(pending) \cup Held(inflight)

\* A new name at the ceiling is pooled with its server's others.
Counted(s, name) ==
    IF <<s, name>> \notin Tracked /\ Cardinality(Tracked) >= MaxPendingKeys
    THEN <<s, Overflow>> ELSE <<s, name>>

\* A request that a bridge answered is counted; its server may be gone by now.
Record(s, name) ==
    /\ phase = "serving" /\ recorded[s] < MaxRecorded
    /\ pending' = [pending EXCEPT ![Counted(s, name)] = @ + 1]
    /\ recorded' = [recorded EXCEPT ![s] = @ + 1]
    /\ UNCHANGED <<storage, inflight, threads, phase, forgetting, everExposed, failures>>

\* A probe finds the catalogue of a running server, a stop clears it.
ToolsDiscovered(s) ==
    /\ s \in rows /\ exposed[s] # Catalog[s]
    /\ exposed' = [exposed EXCEPT ![s] = Catalog[s]]
    /\ everExposed' = [everExposed EXCEPT ![s] = Catalog[s]]
    /\ UNCHANGED <<rows, buckets, memory, threads, phase, forgetting, recorded, failures>>

ToolsCleared(s) ==
    /\ exposed[s] # {}
    /\ exposed' = [exposed EXCEPT ![s] = {}]
    /\ UNCHANGED <<rows, buckets, memory, threads, phase, forgetting, ghosts, failures>>

\* repo.delete_server: the row, its runtime and its counters, in one commit ...
DeleteServer(s) ==
    /\ phase = "serving" /\ s \in rows
    /\ rows' = rows \ {s}
    /\ exposed' = [exposed EXCEPT ![s] = {}]
    /\ buckets' = [k \in Keys |-> IF k \in KeysOf(s) THEN 0 ELSE buckets[k]]
    /\ forgetting' = forgetting \cup {s}
    /\ UNCHANGED <<memory, threads, phase, ghosts, failures>>

\* ... and usage.forget after it.
Forget(s) ==
    /\ s \in forgetting /\ forgetting' = forgetting \ {s}
    /\ pending' = [k \in Keys |-> IF k \in KeysOf(s) THEN 0 ELSE pending[k]]
    /\ inflight' = [k \in Keys |-> IF k \in KeysOf(s) THEN 0 ELSE inflight[k]]
    /\ recorded' = [recorded EXCEPT ![s] = 0]
    /\ UNCHANGED <<storage, threads, phase, everExposed, failures>>

-----------------------------------------------------------------------------
(* A worker thread in flush_sync.                                          *)

\* The interval passed, or somebody reads the statistics; at shutdown the final
\* flush is the last one that is asked for.
FlushCalled(w) ==
    /\ at[w] = "idle"
    /\ IF w = Final THEN phase = "closing" ELSE phase = "serving"
    /\ at' = [at EXCEPT ![w] = "called"]
    /\ UNCHANGED <<storage, memory, flushing, batch, view, phase, forgetting, ghosts, failures>>

\* Mutant: flushes are not serialized.
TakesUnserialized(w) == at[w] = "called"

Takes(w) == at[w] = "called" /\ flushing = NoWorker

\* _take: the whole batch is detached, and its keys are reserved.
Take(w) ==
    /\ Takes(w)
    /\ flushing' = w
    /\ batch' = [batch EXCEPT ![w] = pending]
    /\ inflight' = [k \in Keys |-> IF pending[k] > 0 THEN inflight[k] + 1 ELSE inflight[k]]
    /\ pending' = Nothing
    /\ at' = [at EXCEPT ![w] = "taken"]
    /\ UNCHANGED <<storage, view, phase, forgetting, ghosts, failures>>

BatchServers(w) == {k[1] : k \in Held(batch[w])}

\* bump_usage reads committed state before its transaction begins (its three
\* queries at one moment).
ReadState(w) ==
    /\ at[w] = "taken"
    /\ view' = [view EXCEPT ![w] =
                    [live |-> rows \cap BatchServers(w), stored |-> Held(buckets), exposed |-> exposed]]
    /\ at' = [at EXCEPT ![w] = "read"]
    /\ UNCHANGED <<storage, memory, flushing, batch, phase, forgetting, ghosts, failures>>

BatchNames(w, s) == {n \in Names : batch[w][<<s, n>>] > 0}
StoredNames(w, s) == {n \in Names : <<s, n>> \in view[w].stored}

\* Mutant: the budget starts anew with every flush.
BudgetPerFlush(w, s) == MaxUnknownTools

\* How many more unknown names the hour may store of a server.
Budget(w, s) ==
    LET unknown == (StoredNames(w, s) \ view[w].exposed[s]) \ {Plain, Overflow}
    IN  IF Cardinality(unknown) >= MaxUnknownTools THEN 0
        ELSE MaxUnknownTools - Cardinality(unknown)

\* The names of a batch that are budgeted.  Which of them win is their
\* alphabetical order, so any may.
Unknown(w, s) == (BatchNames(w, s) \ StoredNames(w, s)) \ (view[w].exposed[s] \cup {Plain, Overflow})

Pooled(w, s) ==
    LET over == Cardinality(Unknown(w, s)) - Budget(w, s)
    IN  IF Cardinality(Unknown(w, s)) > Budget(w, s) THEN kSubset(over, Unknown(w, s)) ELSE {{}}

Calls(counts, keys) == MapThenSumSet(LAMBDA k : counts[k], keys)

\* The upserts: what is pooled is added to the pool of its server.
Upserted(w, pools) ==
    [k \in Keys |->
        LET s == k[1]
        IN  IF s \notin view[w].live THEN buckets[k]
            ELSE IF k[2] = Overflow
            THEN buckets[k] + batch[w][k] + Calls(batch[w], {s} \X pools[s])
            ELSE IF k[2] \in pools[s] THEN buckets[k]
            ELSE buckets[k] + batch[w][k]]

\* Mutant: the rows of a server that was deleted meanwhile stay.
NotSwept(w, stored) == stored

\* In the same transaction, the rows of the batch's servers that are gone.
Swept(w, stored) ==
    [k \in Keys |-> IF k[1] \in BatchServers(w) /\ k[1] \notin rows THEN 0 ELSE stored[k]]

Write(w) ==
    /\ at[w] = "read"
    /\ \E pools \in [Servers -> SUBSET Tools] :
          /\ \A s \in Servers : pools[s] \in Pooled(w, s)
          /\ buckets' = Swept(w, Upserted(w, pools))
    /\ view' = [view EXCEPT ![w] = NoView]
    /\ at' = [at EXCEPT ![w] = "written"]
    /\ UNCHANGED <<rows, exposed, memory, flushing, batch, phase, forgetting, ghosts, failures>>

\* "database is locked": the transaction is rolled back.  An empty batch never
\* gets as far as a statement.
WriteFails(w) ==
    /\ at[w] = "read" /\ Held(batch[w]) # {} /\ failures < MaxFailures
    /\ failures' = failures + 1
    /\ view' = [view EXCEPT ![w] = NoView]
    /\ at' = [at EXCEPT ![w] = "failed"]
    /\ UNCHANGED <<storage, memory, flushing, batch, phase, forgetting, ghosts>>

\* _settle: the batch gives back its reference to each key that still has one.
Settled(w) ==
    [k \in Keys |-> IF batch[w][k] > 0 /\ inflight[k] > 0 THEN inflight[k] - 1 ELSE inflight[k]]

\* _restore merges, and leaves out the keys forget() cancelled.
Restored(w) ==
    Plus(pending, [k \in Keys |-> IF inflight[k] > 0 THEN batch[w][k] ELSE 0])

\* Mutant: a flush that raises keeps _flush_lock.
EndsHoldingLock(w) ==
    /\ inflight' = Settled(w)
    /\ batch' = [batch EXCEPT ![w] = Nothing]
    /\ flushing' = IF flushing = w /\ at[w] = "written" THEN NoWorker ELSE flushing
    /\ at' = [at EXCEPT ![w] = IF w = Final THEN "over" ELSE "idle"]

\* The end of a flush: the reservations settle and _flush_lock is released.
Ends(w) ==
    /\ inflight' = Settled(w)
    /\ batch' = [batch EXCEPT ![w] = Nothing]
    /\ flushing' = IF flushing = w THEN NoWorker ELSE flushing
    /\ at' = [at EXCEPT ![w] = IF w = Final THEN "over" ELSE "idle"]

Restore(w) ==
    /\ at[w] = "failed"
    /\ pending' = Restored(w)
    /\ Ends(w)
    /\ UNCHANGED <<storage, view, phase, forgetting, ghosts, failures>>

Settle(w) ==
    /\ at[w] = "written"
    /\ Ends(w)
    /\ UNCHANGED <<storage, pending, view, phase, forgetting, ghosts, failures>>

-----------------------------------------------------------------------------
(* The lifespan's end: no more requests, no more ticks, the final flush.   *)

Close ==
    /\ phase = "serving" /\ forgetting = {}
    /\ phase' = "closing"
    /\ UNCHANGED <<storage, memory, threads, forgetting, ghosts, failures>>

Exit ==
    /\ phase = "closing" /\ at[Final] = "over"
    /\ phase' = "exited"
    /\ UNCHANGED <<storage, memory, threads, forgetting, ghosts, failures>>

-----------------------------------------------------------------------------
Flush(w) == Take(w) \/ ReadState(w) \/ Write(w) \/ WriteFails(w) \/ Restore(w) \/ Settle(w)

Next ==
    \/ \E s \in Servers : \/ \E name \in Names : Record(s, name)
                          \/ ToolsDiscovered(s) \/ ToolsCleared(s)
                          \/ DeleteServer(s) \/ Forget(s)
    \/ \E w \in Workers : FlushCalled(w) \/ Flush(w)
    \/ Close \/ Exit

Spec == Init /\ [][Next]_vars

\* The flush loop ticks for as long as the process serves; a worker thread runs
\* on, waits for _flush_lock while it is taken, and a handler past its commit
\* runs on.
FairSpec ==
    /\ Spec
    /\ WF_vars(FlushCalled(Ticker))
    /\ \A w \in Workers : /\ WF_vars(Take(w))
                          /\ WF_vars(ReadState(w) \/ Write(w) \/ Restore(w) \/ Settle(w))
    /\ \A s \in Servers : WF_vars(Forget(s))

-----------------------------------------------------------------------------
(* Properties.                                                             *)

\* The calls of a server that are in memory, detached ones not yet written
\* included, and those in storage.
Unwritten(w) == IF at[w] \in {"taken", "read", "failed"} THEN batch[w] ELSE Nothing
InMemory(s) == Calls(pending, KeysOf(s)) + Calls([w \in Workers |-> Calls(Unwritten(w), KeysOf(s))], Workers)

\* Every counted call of an existing server is in exactly one place: pending, in
\* the batch of one flush, or stored; failed writes, ceilings and caps move calls
\* between names but neither lose nor double one.
NothingLostOrDoubled ==
    \A s \in rows : recorded[s] = InMemory(s) + Calls(buckets, KeysOf(s))

\* No stored row outlives its server, although a flush decides who is alive
\* before its transaction begins and forget() cannot reach a detached batch.
NoOrphanBuckets == \A k \in Held(buckets) : k[1] \in rows

\* What forget() dropped does not come back: only later requests of a deleted
\* server are still pending, however a write under way ends.
ForgottenStaysForgotten ==
    \A s \in Servers \ (rows \cup forgetting) : Calls(pending, KeysOf(s)) <= recorded[s]

\* The distinct keys in memory, those of a batch that may come back included,
\* stay within the ceiling plus one pool per server.
MemoryBounded == Cardinality(Tracked) <= MaxPendingKeys + Cardinality(Servers)

\* Names no bridge ever served fill at most the budget of an hour, over any
\* number of flushes.
InventedNamesBounded ==
    \A s \in Servers :
        Cardinality({n \in Tools \ everExposed[s] : <<s, n>> \in Held(buckets)}) <= MaxUnknownTools

\* When the shutdown's flush has written, no count is left in memory, not even with
\* a worker whose failed write would hand it back after the last flush.
FinalFlushWritesAll ==
    at[Final] = "written" => \A w \in Workers : Held(pending) \cup Held(Unwritten(w)) = {}

\* Calls are neither lost nor doubled on their way, and none is left behind at the
\* shutdown (record, flush, _restore, the lifespan's last flush).  Two older
\* sentences of recorder.py say less than its code does, and this property sides
\* with the code: past the ceiling, counts of new keys "are dropped" (:42; record
\* pools them under OVERFLOW_TOOL), and what a failed flush could not write is
\* "simply lost" (run_forever, :268; flush_sync has merged it back).
CountsKept == TypeOK /\ NothingLostOrDoubled /\ FinalFlushWritesAll

\* Memory and the names of one hour stay bounded, whatever clients invent
\* (MAX_PENDING_KEYS, MAX_UNKNOWN_TOOLS).
Bounded == MemoryBounded /\ InventedNamesBounded

\* A deleted server's usage is gone from storage and from memory, whichever flush
\* its DELETE overlapped (forget, bump_usage).
DeletedStaysDeleted == NoOrphanBuckets /\ ForgottenStaysForgotten

\* While the process serves, the counts of an existing server arrive in storage,
\* failed writes or not.
CountsArrive ==
    \A s \in Servers :
        (Calls(pending, KeysOf(s)) > 0) ~> (InMemory(s) = 0 \/ s \notin rows \/ phase # "serving")
=============================================================================
