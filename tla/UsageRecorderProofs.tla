------------------------ MODULE UsageRecorderProofs ------------------------
(***************************************************************************)
(* Theorems of UsageRecorder, for any number of servers, tool names and    *)
(* flushing threads, any catalogue and any ceiling.                        *)
(***************************************************************************)
EXTENDS UsageRecorder, FiniteSetTheorems, WellFoundedInduction, TLAPS

\* What is detached by a flush that has _flush_lock.
Flying == {"taken", "read", "failed", "written"}

\* The pools, one key per server, are not counted against the ceiling.
Pools == Servers \X {Overflow}
Named == Tracked \ Pools

-----------------------------------------------------------------------------
(* The inductive invariant, in named parts.                                *)

Typed ==
    /\ pending \in [Keys -> Nat] /\ inflight \in [Keys -> Nat]
    /\ batch \in [Workers -> [Keys -> Nat]]
    /\ at \in [Workers -> Flying \cup {"idle", "called", "over"}]
    /\ view = [w \in Workers |-> view[w]]
    /\ phase \in {"serving", "closing", "exited"}

Serial == \A w \in Workers : at[w] \in Flying => flushing = w

\* A write only touches servers of its batch, so the sweep reaches them all.
Scoped == \A w \in Workers : at[w] = "read" => view[w].live \subseteq BatchServers(w)

NamedBounded == Cardinality(Named) <= MaxPendingKeys

\* The final flush is asked for when no request can count any more, so what it
\* detached was the rest.
FinalTookTheRest ==
    /\ at[Final] # "idle" => phase # "serving"
    /\ at[Final] \in {"taken", "read", "written"} => Held(pending) = {}

IInv == Typed /\ Serial /\ Scoped /\ NoOrphanBuckets /\ NamedBounded /\ FinalTookTheRest

-----------------------------------------------------------------------------
(* Sets of keys.                                                           *)

\* The keys are finitely many, so every set of them has a cardinality.
LEMMA KeysFinite ==
    /\ IsFiniteSet(Keys) /\ IsFiniteSet(Pools)
    /\ Cardinality(Pools) = Cardinality(Servers) /\ Cardinality(Servers) \in Nat
<1>1. IsFiniteSet(Names)
  <2>1. IsFiniteSet({Plain, Overflow})
    <3>1. IsFiniteSet({Plain} \cup {Overflow})  BY FS_Singleton, FS_AddElement
    <3>2. {Plain, Overflow} = {Plain} \cup {Overflow}  OBVIOUS
    <3>3. QED  BY <3>1, <3>2
  <2>2. QED  BY <2>1, RecorderAssumptions, FS_Union DEF Names
<1>2. IsFiniteSet({Overflow}) /\ Cardinality({Overflow}) = 1  BY FS_Singleton
<1>3. IsFiniteSet(Keys)  BY <1>1, RecorderAssumptions, FS_Product DEF Keys
<1>4. /\ IsFiniteSet(Pools)
      /\ Cardinality(Pools) = Cardinality(Servers) * Cardinality({Overflow})
  BY <1>2, RecorderAssumptions, FS_Product DEF Pools
<1>5. Cardinality(Servers) \in Nat  BY RecorderAssumptions, FS_CardinalityType
<1>6. QED  BY <1>2, <1>3, <1>4, <1>5

\* Fewer names leave the bound alone.
LEMMA NamedWithin ==
    ASSUME NamedBounded, Tracked \subseteq Keys, Named' \subseteq Named
    PROVE  NamedBounded'
<1>1. IsFiniteSet(Named)  BY KeysFinite, FS_Subset DEF Named
<1>2. Cardinality(Named') <= Cardinality(Named) /\ IsFiniteSet(Named')
  BY <1>1, FS_Subset
<1>3. Cardinality(Named') \in Nat /\ Cardinality(Named) \in Nat
  BY <1>1, <1>2, FS_CardinalityType
<1>4. QED  BY <1>2, <1>3, RecorderAssumptions DEF NamedBounded

LEMMA FewerNamed ==
    ASSUME NamedBounded, Tracked' \subseteq Tracked
    PROVE  NamedBounded'
<1>1. Tracked \subseteq Keys  BY DEF Tracked, Held
<1>2. Named' \subseteq Named  BY DEF Named, Pools
<1>3. QED  BY <1>1, <1>2, NamedWithin

-----------------------------------------------------------------------------
(* The ceiling.                                                            *)

\* A request tracks a new name only below the ceiling; at it, it fills a pool.
LEMMA RecordKeepsNamed ==
    ASSUME NEW s \in Servers, NEW name \in Names, Typed, NamedBounded, Record(s, name)
    PROVE  NamedBounded'
<1> DEFINE k == Counted(s, name)
<1>1. k \in Keys /\ pending \in [Keys -> Nat] /\ inflight' = inflight
      /\ pending' = [pending EXCEPT ![k] = @ + 1]
  BY DEF Typed, Record, Counted, Keys, Names, memory
<1>2. Tracked' \subseteq Tracked \cup {k} /\ Tracked \subseteq Keys
  BY <1>1 DEF Tracked, Held
<1>3. CASE k \in Tracked
  <2>1. Tracked' \subseteq Tracked  BY <1>2, <1>3
  <2>2. QED  BY <2>1, FewerNamed
<1>4. CASE k \in Pools
  <2>1. Named' \subseteq Named  BY <1>2, <1>4 DEF Named, Pools
  <2>2. QED  BY <2>1, <1>2, KeysFinite, NamedWithin
<1>5. CASE k \notin Tracked /\ k \notin Pools
  <2>1. <<s, Overflow>> \in Pools  BY DEF Pools
  <2>2. k = <<s, name>> /\ ~(Cardinality(Tracked) >= MaxPendingKeys)
    BY <2>1, <1>5 DEF Counted
  <2>3. IsFiniteSet(Tracked) /\ IsFiniteSet(Named) /\ Named \subseteq Tracked
    BY <1>2, KeysFinite, FS_Subset DEF Named
  <2>4. Cardinality(Named) <= Cardinality(Tracked)  BY <2>3, FS_Subset
  <2>5. Cardinality(Named) \in Nat /\ Cardinality(Tracked) \in Nat
    BY <2>3, FS_CardinalityType
  <2>6. Named' \subseteq Named \cup {k}  BY <1>2 DEF Named, Pools
  <2>7. /\ IsFiniteSet(Named \cup {k})
        /\ Cardinality(Named \cup {k}) = IF k \in Named THEN Cardinality(Named)
                                        ELSE Cardinality(Named) + 1
    BY <2>3, FS_AddElement
  <2>8. Cardinality(Named') <= Cardinality(Named \cup {k}) /\ IsFiniteSet(Named')
    BY <2>6, <2>7, FS_Subset
  <2>9. Cardinality(Named') \in Nat  BY <2>8, FS_CardinalityType
  <2>10. QED
    BY <2>2, <2>4, <2>5, <2>7, <2>8, <2>9, RecorderAssumptions DEF NamedBounded
<1>6. QED  BY <1>3, <1>4, <1>5

-----------------------------------------------------------------------------
(* The invariant holds at first and is kept by every action.               *)

LEMMA InitIInv == Init => IInv
<1> SUFFICES ASSUME Init PROVE IInv  OBVIOUS
<1>1. Nothing \in [Keys -> Nat] /\ Held(Nothing) = {}  BY DEF Nothing, Held
<1>2. Typed  BY <1>1 DEF Init, Typed, Flying
<1>3. Serial /\ Scoped /\ FinalTookTheRest
  BY <1>1, RecorderAssumptions DEF Init, Serial, Scoped, FinalTookTheRest, Flying
<1>4. NoOrphanBuckets  BY <1>1 DEF Init, NoOrphanBuckets
<1>5. NamedBounded
  <2>1. Named = {}  BY <1>1 DEF Init, Named, Tracked
  <2>2. QED  BY <2>1, FS_EmptySet, RecorderAssumptions DEF NamedBounded
<1>6. QED  BY <1>2, <1>3, <1>4, <1>5 DEF IInv

\* What touches neither the recorder's memory nor a flush.
LEMMA QuietKeeps ==
    ASSUME IInv, UNCHANGED <<memory, threads>>, phase' \in {phase, "closing", "exited"}
    PROVE  Typed' /\ Serial' /\ Scoped' /\ NamedBounded' /\ FinalTookTheRest'
<1> USE DEF IInv, memory, threads
<1>1. Typed'  BY DEF Typed
<1>2. Serial'  BY DEF Serial
<1>3. Scoped'  BY DEF Scoped, BatchServers, Held
<1>4. NamedBounded'
  <2>1. Tracked' \subseteq Tracked  BY DEF Tracked, Held
  <2>2. QED  BY <2>1, FewerNamed
<1>5. FinalTookTheRest'  BY DEF FinalTookTheRest, Held
<1>6. QED  BY <1>1, <1>2, <1>3, <1>4, <1>5
-----------------------------------------------------------------------------
(* The event loop's actions.                                               *)

LEMMA RecordKeeps ==
    ASSUME IInv, NEW s \in Servers, NEW name \in Names, Record(s, name)
    PROVE  IInv'
<1> USE DEF IInv
<1>1. UNCHANGED <<storage, inflight, threads, phase>> /\ phase = "serving"
  BY DEF Record
<1>2. Typed'
  <2>1. pending' \in [Keys -> Nat]
    BY DEF Record, Typed, Counted, Keys, Names
  <2>2. QED  BY <1>1, <2>1 DEF Typed, threads
<1>3. Serial'  BY <1>1 DEF Serial, threads
<1>4. Scoped'  BY <1>1 DEF Scoped, BatchServers, Held, threads
<1>5. NoOrphanBuckets'  BY <1>1 DEF NoOrphanBuckets, Held, storage
<1>6. NamedBounded'  BY RecordKeepsNamed
<1>7. FinalTookTheRest'  BY <1>1 DEF FinalTookTheRest, threads
<1>8. QED  BY <1>2, <1>3, <1>4, <1>5, <1>6, <1>7

LEMMA ToolsKeep ==
    ASSUME IInv, NEW s \in Servers, ToolsDiscovered(s) \/ ToolsCleared(s)
    PROVE  IInv'
<1>1. UNCHANGED <<rows, buckets, memory, threads, phase>>
  BY DEF ToolsDiscovered, ToolsCleared
<1>2. NoOrphanBuckets'  BY <1>1 DEF IInv, NoOrphanBuckets, Held
<1>3. QED  BY <1>1, <1>2, QuietKeeps DEF IInv

\* The rows of the server go with it, and no other server does.
LEMMA DeleteKeeps ==
    ASSUME IInv, NEW s \in Servers, DeleteServer(s)
    PROVE  IInv'
<1>1. UNCHANGED <<memory, threads, phase>> /\ rows' = rows \ {s}
  BY DEF DeleteServer
<1>2. buckets' = [k \in Keys |-> IF k \in KeysOf(s) THEN 0 ELSE buckets[k]]
  BY DEF DeleteServer
<1>3. NoOrphanBuckets'
  <2> SUFFICES ASSUME NEW k \in Keys, buckets'[k] > 0 PROVE k[1] \in rows \ {s}
    BY <1>1 DEF NoOrphanBuckets, Held
  <2>1. k \notin KeysOf(s) /\ buckets[k] > 0  BY <1>2
  <2>2. k[1] # s  BY <2>1 DEF Keys, KeysOf
  <2>3. k[1] \in rows  BY <2>1 DEF IInv, NoOrphanBuckets, Held
  <2>4. QED  BY <2>2, <2>3
<1>4. QED  BY <1>1, <1>3, QuietKeeps DEF IInv

\* forget() only takes away.
LEMMA ForgetKeeps ==
    ASSUME IInv, NEW s \in Servers, Forget(s)
    PROVE  IInv'
<1> USE DEF IInv
<1>1. UNCHANGED <<storage, threads, phase>>  BY DEF Forget
<1>2. /\ pending' = [k \in Keys |-> IF k \in KeysOf(s) THEN 0 ELSE pending[k]]
      /\ inflight' = [k \in Keys |-> IF k \in KeysOf(s) THEN 0 ELSE inflight[k]]
  BY DEF Forget
<1>3. Typed'  BY <1>1, <1>2 DEF Typed, threads
<1>4. Serial'  BY <1>1 DEF Serial, threads
<1>5. Scoped'  BY <1>1 DEF Scoped, BatchServers, Held, threads
<1>6. NoOrphanBuckets'  BY <1>1 DEF NoOrphanBuckets, Held, storage
<1>7. Held(pending') \subseteq Held(pending) /\ Held(inflight') \subseteq Held(inflight)
  BY <1>2 DEF Held
<1>8. NamedBounded'
  <2>1. Tracked' \subseteq Tracked  BY <1>7 DEF Tracked
  <2>2. QED  BY <2>1, FewerNamed
<1>9. FinalTookTheRest'  BY <1>1, <1>7 DEF FinalTookTheRest, threads
<1>10. QED  BY <1>3, <1>4, <1>5, <1>6, <1>8, <1>9

-----------------------------------------------------------------------------
(* The actions of a flush.                                                 *)

LEMMA FlushCalledKeeps ==
    ASSUME IInv, NEW w \in Workers, FlushCalled(w)
    PROVE  IInv'
<1> USE DEF IInv
<1>1. UNCHANGED <<storage, memory, flushing, batch, view, phase>>  BY DEF FlushCalled
<1>2. at' = [at EXCEPT ![w] = "called"] /\ (w = Final => phase = "closing")
  BY DEF FlushCalled
<1>3. Typed'  BY <1>1, <1>2 DEF Typed, Flying, memory
<1>4. Serial'  BY <1>1, <1>2 DEF Serial, Typed, Flying
<1>5. Scoped'  BY <1>1, <1>2 DEF Scoped, Typed, BatchServers, Held
<1>6. NoOrphanBuckets'  BY <1>1 DEF NoOrphanBuckets, Held, storage
<1>7. NamedBounded'
  <2>1. Tracked' \subseteq Tracked  BY <1>1 DEF Tracked, Held, memory
  <2>2. QED  BY <2>1, FewerNamed
<1>8. FinalTookTheRest'
  BY <1>1, <1>2, RecorderAssumptions DEF FinalTookTheRest, Typed, Held, memory
<1>9. QED  BY <1>3, <1>4, <1>5, <1>6, <1>7, <1>8

\* What was pending is reserved: the same keys are tracked.
LEMMA TakeKeeps ==
    ASSUME IInv, NEW w \in Workers, Take(w)
    PROVE  IInv'
<1> USE DEF IInv
<1>1. /\ UNCHANGED <<storage, view, phase>>
      /\ at[w] = "called" /\ flushing = NoWorker /\ flushing' = w
      /\ at' = [at EXCEPT ![w] = "taken"] /\ batch' = [batch EXCEPT ![w] = pending]
  BY DEF Take, Takes
<1>2. /\ pending' = Nothing
      /\ inflight' = [k \in Keys |-> IF pending[k] > 0 THEN inflight[k] + 1 ELSE inflight[k]]
  BY DEF Take
<1>3. Nothing \in [Keys -> Nat] /\ Held(Nothing) = {}  BY DEF Nothing, Held
<1>4. Typed'
  <2>1. pending' \in [Keys -> Nat] /\ inflight' \in [Keys -> Nat]
    BY <1>2, <1>3 DEF Typed
  <2>2. QED  BY <1>1, <2>1 DEF Typed, Flying
<1>5. \A v \in Workers : at[v] \notin Flying
  BY <1>1, RecorderAssumptions DEF Serial
<1>6. Serial'  BY <1>1, <1>5 DEF Serial, Typed
<1>7. Scoped'  BY <1>1, <1>5 DEF Scoped, Typed, Flying
<1>8. NoOrphanBuckets'  BY <1>1 DEF NoOrphanBuckets, Held, storage
<1>9. NamedBounded'
  <2>1. Held(inflight') \subseteq Held(pending) \cup Held(inflight)
    BY <1>2 DEF Held, Typed
  <2>2. Tracked' \subseteq Tracked  BY <1>2, <1>3, <2>1 DEF Tracked
  <2>3. QED  BY <2>2, FewerNamed
<1>10. FinalTookTheRest'  BY <1>1, <1>2, <1>3, RecorderAssumptions DEF FinalTookTheRest, Typed
<1>11. QED  BY <1>4, <1>6, <1>7, <1>8, <1>9, <1>10
\* A flush that reads, writes or fails leaves the memory alone.
LEMMA FlushMoves ==
    ASSUME IInv, NEW w \in Workers, NEW p \in Flying,
           UNCHANGED <<memory, flushing, batch, phase>>,
           at' = [at EXCEPT ![w] = p], at[w] \in Flying,
           p = "written" => at[w] \in {"taken", "read", "written"},
           p \in {"taken", "read"} => at[w] \in {"taken", "read"}
    PROVE  /\ at' \in [Workers -> Flying \cup {"idle", "called", "over"}]
           /\ Serial' /\ NamedBounded' /\ FinalTookTheRest'
<1> USE DEF IInv
<1>1. at' \in [Workers -> Flying \cup {"idle", "called", "over"}]  BY DEF Typed
<1>2. Serial'  BY DEF Serial, Typed
<1>3. NamedBounded'
  <2>1. Tracked' \subseteq Tracked  BY DEF Tracked, Held, memory
  <2>2. QED  BY <2>1, FewerNamed
<1>4. FinalTookTheRest'
  BY RecorderAssumptions DEF FinalTookTheRest, Typed, Held, memory, Flying
<1>5. QED  BY <1>1, <1>2, <1>3, <1>4

LEMMA ReadStateKeeps ==
    ASSUME IInv, NEW w \in Workers, ReadState(w)
    PROVE  IInv'
<1> USE DEF IInv
<1>1. /\ UNCHANGED <<storage, memory, flushing, batch, phase>>
      /\ at[w] = "taken" /\ at' = [at EXCEPT ![w] = "read"]
  BY DEF ReadState
<1>2. view' = [view EXCEPT ![w] = [live |-> rows \cap BatchServers(w),
                                  stored |-> Held(buckets), exposed |-> exposed]]
  BY DEF ReadState
<1>3. /\ at' \in [Workers -> Flying \cup {"idle", "called", "over"}]
      /\ Serial' /\ NamedBounded' /\ FinalTookTheRest'
  BY <1>1, FlushMoves DEF Flying
<1>4. Typed'
  <2>1. view' = [v \in Workers |-> view'[v]]  BY <1>2 DEF Typed
  <2>2. QED  BY <1>1, <1>3, <2>1 DEF Typed, memory
<1>5. Scoped'
  <2> SUFFICES ASSUME NEW v \in Workers, at'[v] = "read"
               PROVE  view'[v].live \subseteq BatchServers(v)'
    BY DEF Scoped
  <2>1. BatchServers(v)' = BatchServers(v)  BY <1>1 DEF BatchServers, Held
  <2>2. CASE v = w
    <3>1. view'[v] = [live |-> rows \cap BatchServers(w),
                      stored |-> Held(buckets), exposed |-> exposed]
      BY <1>2, <2>2 DEF Typed
    <3>2. QED  BY <2>1, <2>2, <3>1
  <2>3. CASE v # w
    <3>1. view'[v] = view[v] /\ at[v] = "read"  BY <1>1, <1>2, <2>3 DEF Typed
    <3>2. QED  BY <2>1, <3>1 DEF Scoped
  <2>4. QED  BY <2>2, <2>3
<1>6. NoOrphanBuckets'  BY <1>1 DEF NoOrphanBuckets, Held, storage
<1>7. QED  BY <1>3, <1>4, <1>5, <1>6

\* A row that is left after the write is of a server of the batch that still
\* exists, or was there before: the sweep covers what the upserts can reach.
LEMMA WriteSweeps ==
    ASSUME IInv, NEW w \in Workers, Write(w)
    PROVE  NoOrphanBuckets'
<1>1. rows' = rows /\ at[w] = "read"  BY DEF Write
<1>2. PICK pools \in [Servers -> SUBSET Tools] : buckets' = Swept(w, Upserted(w, pools))
  BY DEF Write
<1> SUFFICES ASSUME NEW k \in Keys, buckets'[k] > 0, k[1] \notin rows PROVE FALSE
  BY <1>1 DEF NoOrphanBuckets, Held
<1>3. k[1] \notin BatchServers(w)
  <2> SUFFICES ASSUME k[1] \in BatchServers(w) PROVE FALSE  OBVIOUS
  <2>1. buckets'[k] = 0  BY <1>2 DEF Swept
  <2>2. QED  BY <2>1
<1>4. k[1] \notin view[w].live  BY <1>1, <1>3 DEF IInv, Scoped
<1>5. buckets'[k] = buckets[k]  BY <1>2, <1>3, <1>4 DEF Swept, Upserted
<1>6. QED  BY <1>5 DEF IInv, NoOrphanBuckets, Held

LEMMA WriteKeeps ==
    ASSUME IInv, NEW w \in Workers, Write(w) \/ WriteFails(w)
    PROVE  IInv'
<1> USE DEF IInv
<1>1. /\ UNCHANGED <<rows, memory, flushing, batch, phase>> /\ at[w] = "read"
      /\ view' = [view EXCEPT ![w] = NoView]
  BY DEF Write, WriteFails, storage
<1>2. PICK p \in {"written", "failed"} : at' = [at EXCEPT ![w] = p]
  BY DEF Write, WriteFails
<1>3. /\ at' \in [Workers -> Flying \cup {"idle", "called", "over"}]
      /\ Serial' /\ NamedBounded' /\ FinalTookTheRest'
  BY <1>1, <1>2, FlushMoves DEF Flying
<1>4. Typed'
  <2>1. view' = [v \in Workers |-> view'[v]]  BY <1>1 DEF Typed
  <2>2. QED  BY <1>1, <1>3, <2>1 DEF Typed, memory
<1>5. Scoped'
  <2> SUFFICES ASSUME NEW v \in Workers, at'[v] = "read"
               PROVE  view'[v].live \subseteq BatchServers(v)'
    BY DEF Scoped
  <2>1. v # w /\ at[v] = "read"  BY <1>2 DEF Typed
  <2>2. view'[v] = view[v]  BY <1>1, <2>1 DEF Typed
  <2>3. BatchServers(v)' = BatchServers(v)  BY <1>1 DEF BatchServers, Held
  <2>4. QED  BY <2>1, <2>2, <2>3 DEF Scoped
<1>6. NoOrphanBuckets'
  <2>1. CASE Write(w)  BY <2>1, WriteSweeps
  <2>2. CASE WriteFails(w)  BY <2>2 DEF WriteFails, NoOrphanBuckets, Held, storage
  <2>3. QED  BY <2>1, <2>2
<1>7. QED  BY <1>3, <1>4, <1>5, <1>6

\* What a failed write hands back was reserved, so it is tracked already; and it
\* is not the final flush that finds less than it took while another hands back.
LEMMA EndKeeps ==
    ASSUME IInv, NEW w \in Workers, Restore(w) \/ Settle(w)
    PROVE  IInv'
<1> USE DEF IInv
<1>1. UNCHANGED <<storage, view, phase>> /\ Ends(w) /\ at[w] \in {"failed", "written"}
  BY DEF Restore, Settle
<1>2. /\ inflight' = Settled(w) /\ batch' = [batch EXCEPT ![w] = Nothing]
      /\ flushing' = IF flushing = w THEN NoWorker ELSE flushing
      /\ at' = [at EXCEPT ![w] = IF w = Final THEN "over" ELSE "idle"]
  BY <1>1 DEF Ends
<1>3. pending' = pending \/ pending' = Restored(w)  BY DEF Restore, Settle
<1>4. at[w] = "written" => pending' = pending  BY DEF Restore, Settle
<1>5. /\ pending' \in [Keys -> Nat] /\ inflight' \in [Keys -> Nat]
      /\ Held(inflight') \subseteq Held(inflight)
      /\ Held(pending') \subseteq Held(pending) \cup Held(inflight)
  <2>1. inflight' \in [Keys -> Nat] /\ Held(inflight') \subseteq Held(inflight)
    BY <1>2 DEF Settled, Held, Typed
  <2>2. /\ Restored(w) \in [Keys -> Nat]
        /\ Held(Restored(w)) \subseteq Held(pending) \cup Held(inflight)
    BY DEF Restored, Plus, Held, Typed
  <2>3. QED  BY <1>3, <2>1, <2>2 DEF Typed
<1>6. Typed'
  <2>1. Nothing \in [Keys -> Nat]  BY DEF Nothing
  <2>2. QED  BY <1>1, <1>2, <1>5, <2>1 DEF Typed, Flying
<1>7. flushing = w  BY <1>1 DEF Serial, Flying
<1>8. \A v \in Workers \ {w} : at[v] \notin Flying
  BY <1>7 DEF Serial
<1>9. Serial'  BY <1>2, <1>8 DEF Serial, Typed, Flying
<1>10. Scoped'  BY <1>2, <1>8 DEF Scoped, Typed, Flying
<1>11. NoOrphanBuckets'  BY <1>1 DEF NoOrphanBuckets, Held, storage
<1>12. NamedBounded'
  <2>1. Tracked' \subseteq Tracked  BY <1>5 DEF Tracked
  <2>2. QED  BY <2>1, FewerNamed
<1>13. FinalTookTheRest'
  <2>1. at'[Final] \notin {"taken", "read", "written"}
    BY <1>2, <1>8, RecorderAssumptions DEF Typed, Flying
  <2>2. at'[Final] # "idle" => at[Final] # "idle"
    BY <1>1, <1>2, RecorderAssumptions DEF Typed
  <2>3. QED  BY <1>1, <2>1, <2>2 DEF FinalTookTheRest
<1>14. QED  BY <1>6, <1>9, <1>10, <1>11, <1>12, <1>13

-----------------------------------------------------------------------------
(* The lifespan's end, and stuttering.                                     *)

LEMMA EndOfServiceKeeps ==
    ASSUME IInv, Close \/ Exit \/ UNCHANGED vars
    PROVE  IInv'
<1>1. UNCHANGED <<storage, memory, threads>> /\ phase' \in {phase, "closing", "exited"}
  BY DEF Close, Exit, vars
<1>2. NoOrphanBuckets'  BY <1>1 DEF IInv, NoOrphanBuckets, Held, storage
<1>3. QED  BY <1>1, <1>2, QuietKeeps DEF IInv

-----------------------------------------------------------------------------
(* The theorems.                                                           *)

LEMMA NextKeeps == IInv /\ [Next]_vars => IInv'
<1> SUFFICES ASSUME IInv, [Next]_vars PROVE IInv'  OBVIOUS
<1>1. ASSUME NEW s \in Servers, NEW name \in Names, Record(s, name) PROVE IInv'
  BY <1>1, RecordKeeps
<1>2. ASSUME NEW s \in Servers, ToolsDiscovered(s) \/ ToolsCleared(s) PROVE IInv'
  BY <1>2, ToolsKeep
<1>3. ASSUME NEW s \in Servers, DeleteServer(s) PROVE IInv'
  BY <1>3, DeleteKeeps
<1>4. ASSUME NEW s \in Servers, Forget(s) PROVE IInv'
  BY <1>4, ForgetKeeps
<1>5. ASSUME NEW w \in Workers, FlushCalled(w) PROVE IInv'
  BY <1>5, FlushCalledKeeps
<1>6. ASSUME NEW w \in Workers, Flush(w) PROVE IInv'
  <2>1. CASE Take(w)  BY <2>1, TakeKeeps
  <2>2. CASE ReadState(w)  BY <2>2, ReadStateKeeps
  <2>3. CASE Write(w) \/ WriteFails(w)  BY <2>3, WriteKeeps
  <2>4. CASE Restore(w) \/ Settle(w)  BY <2>4, EndKeeps
  <2>5. QED  BY <1>6, <2>1, <2>2, <2>3, <2>4 DEF Flush
<1>7. CASE Close \/ Exit \/ UNCHANGED vars  BY <1>7, EndOfServiceKeeps
<1>8. QED  BY <1>1, <1>2, <1>3, <1>4, <1>5, <1>6, <1>7 DEF Next

\* The invariant holds in every reachable state.
THEOREM Invariant == Spec => []IInv
<1>1. Init => IInv  BY InitIInv
<1>2. IInv /\ [Next]_vars => IInv'  BY NextKeeps
<1>3. QED  BY <1>1, <1>2, PTL DEF Spec

\* No row of bump_usage outlives its server, whenever the DELETE commits.
THEOREM NoOrphans == Spec => []NoOrphanBuckets
<1>1. IInv => NoOrphanBuckets  BY DEF IInv
<1>2. QED  BY <1>1, Invariant, PTL

\* The recorder holds at most MAX_PENDING_KEYS keys and a pool per server, what
\* failed writes may hand back included.
THEOREM Memory == Spec => []MemoryBounded
<1>1. IInv => MemoryBounded
  <2> SUFFICES ASSUME IInv PROVE MemoryBounded  OBVIOUS
  <2>1. Tracked \subseteq Keys /\ Tracked \subseteq Named \cup Pools
    BY DEF Tracked, Held, Named
  <2>2. IsFiniteSet(Tracked) /\ IsFiniteSet(Named)
    BY <2>1, KeysFinite, FS_Subset DEF Named
  <2>3. /\ IsFiniteSet(Named \cup Pools) /\ Named \cap Pools = {}
        /\ Cardinality(Named \cup Pools) =
              Cardinality(Named) + Cardinality(Pools) - Cardinality(Named \cap Pools)
    BY <2>2, KeysFinite, FS_Union DEF Named
  <2>4. Cardinality(Tracked) <= Cardinality(Named \cup Pools)
    BY <2>1, <2>3, FS_Subset
  <2>5. Cardinality(Tracked) \in Nat /\ Cardinality(Named) \in Nat
    BY <2>2, FS_CardinalityType
  <2>6. Cardinality(Named \cap Pools) = 0
    <3>1. Cardinality({}) = 0  BY FS_EmptySet, Zenon
    <3>2. QED  BY <2>3, <3>1, Zenon
  <2>7. Cardinality(Named) <= MaxPendingKeys  BY DEF IInv, NamedBounded
  <2>8. Cardinality(Named \cup Pools) = Cardinality(Named) + Cardinality(Servers)
    BY <2>3, <2>5, <2>6, KeysFinite
  <2>9. QED
    BY <2>4, <2>5, <2>7, <2>8, KeysFinite, RecorderAssumptions DEF MemoryBounded
<1>2. QED  BY <1>1, Invariant, PTL

\* When the flush of the shutdown has written, memory is empty: _flush_lock made
\* it wait for the worker that might hand its batch back.
THEOREM FinalFlush == Spec => []FinalFlushWritesAll
<1>1. IInv => FinalFlushWritesAll
  <2> SUFFICES ASSUME IInv, at[Final] = "written", NEW w \in Workers
               PROVE  Held(pending) \cup Held(Unwritten(w)) = {}
    BY DEF FinalFlushWritesAll
  <2>1. Held(pending) = {}  BY DEF IInv, FinalTookTheRest
  <2>2. flushing = Final  BY RecorderAssumptions DEF IInv, Serial, Flying
  <2>3. at[w] \notin {"taken", "read", "failed"}
    BY <2>2 DEF IInv, Serial, Flying
  <2>4. Unwritten(w) = Nothing  BY <2>3 DEF Unwritten
  <2>5. Held(Nothing) = {}  BY DEF Held, Nothing
  <2>6. QED  BY <2>1, <2>4, <2>5
<1>2. QED  BY <1>1, Invariant, PTL

-----------------------------------------------------------------------------
(* The budget of an hour.                                                  *)

Invented(s) == {n \in Tools \ everExposed[s] : <<s, n>> \in Held(buckets)}

\* Counts, but for the pools: what goes into those is a sum.
Stored == \A k \in Keys : k[2] # Overflow => buckets[k] \in Nat

\* What a bridge ever served includes what it serves.
Shown ==
    /\ exposed \in [Servers -> SUBSET Tools] /\ everExposed \in [Servers -> SUBSET Tools]
    /\ \A s \in Servers : exposed[s] \subseteq everExposed[s] /\ everExposed[s] \subseteq Catalog[s]

\* What a write has read still holds of the servers that exist: under _flush_lock
\* nobody else stores a name.
Viewed ==
    \A w \in Workers : at[w] = "read" =>
        /\ \A s \in Servers : view[w].exposed[s] \subseteq everExposed[s]
        /\ \A k \in Keys : k[1] \in rows => (k \in view[w].stored <=> k \in Held(buckets))

JInv == Stored /\ Shown /\ Viewed /\ InventedNamesBounded

LEMMA InventedFinite ==
    ASSUME NEW S \in SUBSET Names
    PROVE  IsFiniteSet(S) /\ Cardinality(S) \in Nat
<1>1. IsFiniteSet({Plain} \cup {Overflow})  BY FS_Singleton, FS_AddElement
<1>2. {Plain, Overflow} = {Plain} \cup {Overflow}  OBVIOUS
<1>3. IsFiniteSet(Names)  BY <1>1, <1>2, RecorderAssumptions, FS_Union DEF Names
<1>4. QED  BY <1>3, FS_Subset, FS_CardinalityType

\* Fewer invented names, or more that a bridge has served, leave the bound alone.
LEMMA FewerInvented ==
    ASSUME InventedNamesBounded, \A s \in Servers : Invented(s)' \subseteq Invented(s)
    PROVE  InventedNamesBounded'
<1> SUFFICES ASSUME NEW s \in Servers PROVE Cardinality(Invented(s)') <= MaxUnknownTools
  BY DEF InventedNamesBounded, Invented
<1>1. Invented(s) \in SUBSET Names /\ Invented(s)' \in SUBSET Invented(s)
  BY DEF Invented, Names
<1>2. IsFiniteSet(Invented(s)) /\ Cardinality(Invented(s)) \in Nat  BY <1>1, InventedFinite
<1>3. Cardinality(Invented(s)') <= Cardinality(Invented(s)) /\ Cardinality(Invented(s)') \in Nat
  BY <1>1, <1>2, FS_Subset, FS_CardinalityType
<1>4. Cardinality(Invented(s)) <= MaxUnknownTools  BY DEF InventedNamesBounded, Invented
<1>5. QED  BY <1>2, <1>3, <1>4, RecorderAssumptions

\* What stores nothing, shows nothing and reads nothing for a write.
LEMMA BudgetAside ==
    ASSUME JInv, UNCHANGED <<rows, exposed, buckets, everExposed>>,
           \A w \in Workers : at'[w] = "read" => at[w] = "read" /\ view'[w] = view[w]
    PROVE  JInv'
<1>1. Stored' /\ Shown'  BY DEF JInv, Stored, Shown
<1>2. Viewed'  BY DEF JInv, Viewed, Held
<1>3. \A s \in Servers : Invented(s)' \subseteq Invented(s)  BY DEF Invented, Held
<1>4. QED  BY <1>1, <1>2, <1>3, FewerInvented DEF JInv

LEMMA BudgetTools ==
    ASSUME JInv, NEW s \in Servers, ToolsDiscovered(s) \/ ToolsCleared(s)
    PROVE  JInv'
<1>1. UNCHANGED <<rows, buckets, at, view>>  BY DEF ToolsDiscovered, ToolsCleared, threads
<1>2. \/ /\ exposed' = [exposed EXCEPT ![s] = Catalog[s]]
         /\ everExposed' = [everExposed EXCEPT ![s] = Catalog[s]]
      \/ exposed' = [exposed EXCEPT ![s] = {}] /\ everExposed' = everExposed
  BY DEF ToolsDiscovered, ToolsCleared, ghosts
<1>3. Catalog[s] \subseteq Tools  BY RecorderAssumptions
<1>4. Shown'
  <2>1. CASE everExposed' = everExposed /\ exposed' = [exposed EXCEPT ![s] = {}]
    BY <2>1 DEF JInv, Shown
  <2>2. CASE /\ exposed' = [exposed EXCEPT ![s] = Catalog[s]]
             /\ everExposed' = [everExposed EXCEPT ![s] = Catalog[s]]
    BY <1>3, <2>2 DEF JInv, Shown
  <2>3. QED  BY <1>2, <2>1, <2>2
<1>5. \A t \in Servers : everExposed[t] \subseteq everExposed'[t]
  BY <1>2 DEF JInv, Shown
<1>6. Viewed'
  <2> SUFFICES ASSUME NEW v \in Workers, at[v] = "read"
               PROVE  /\ \A t \in Servers : view[v].exposed[t] \subseteq everExposed'[t]
                      /\ \A k \in Keys : k[1] \in rows => (k \in view[v].stored <=> k \in Held(buckets))
    BY <1>1 DEF Viewed, Held
  <2>1. QED  BY <1>5 DEF JInv, Viewed
<1>7. \A t \in Servers : Invented(t)' \subseteq Invented(t)
  BY <1>1, <1>5 DEF Invented, Held
<1>8. Stored'  BY <1>1 DEF JInv, Stored
<1>9. QED  BY <1>4, <1>6, <1>7, <1>8, FewerInvented DEF JInv

LEMMA BudgetDelete ==
    ASSUME JInv, NEW s \in Servers, DeleteServer(s)
    PROVE  JInv'
<1>1. /\ rows' = rows \ {s} /\ UNCHANGED <<everExposed, at, view>>
      /\ exposed' = [exposed EXCEPT ![s] = {}]
      /\ buckets' = [k \in Keys |-> IF k \in KeysOf(s) THEN 0 ELSE buckets[k]]
  BY DEF DeleteServer, ghosts, threads
<1>2. \A k \in Keys : k[1] # s => buckets'[k] = buckets[k]  BY <1>1 DEF KeysOf
<1>3. \A k \in Keys : buckets'[k] = 0 \/ buckets'[k] = buckets[k]  BY <1>1
<1>4. Held(buckets)' \subseteq Held(buckets)
  <2> SUFFICES ASSUME NEW k \in Keys, buckets'[k] > 0 PROVE buckets[k] > 0  BY DEF Held
  <2>1. ~(0 > 0)  OBVIOUS
  <2>2. QED  BY <1>3, <2>1
<1>5. Stored'  BY <1>3 DEF JInv, Stored
<1>6. Shown'  BY <1>1 DEF JInv, Shown
<1>7. Viewed'
  <2> SUFFICES ASSUME NEW v \in Workers, at[v] = "read"
               PROVE  /\ \A t \in Servers : view[v].exposed[t] \subseteq everExposed[t]
                      /\ \A k \in Keys : k[1] \in rows' =>
                            (k \in view[v].stored <=> k \in Held(buckets)')
    BY <1>1 DEF Viewed
  <2>1. \A t \in Servers : view[v].exposed[t] \subseteq everExposed[t]  BY DEF JInv, Viewed
  <2>2. ASSUME NEW k \in Keys, k[1] \in rows'
        PROVE  k \in view[v].stored <=> k \in Held(buckets)'
    <3>1. k[1] \in rows /\ buckets'[k] = buckets[k]  BY <1>1, <1>2, <2>2
    <3>2. k \in Held(buckets)' <=> k \in Held(buckets)  BY <3>1 DEF Held
    <3>3. QED  BY <3>1, <3>2 DEF JInv, Viewed
  <2>3. QED  BY <2>1, <2>2
<1>8. \A t \in Servers : Invented(t)' \subseteq Invented(t)  BY <1>1, <1>4 DEF Invented
<1>9. QED  BY <1>5, <1>6, <1>7, <1>8, FewerInvented DEF JInv

LEMMA BudgetRead ==
    ASSUME IInv, JInv, NEW w \in Workers, ReadState(w)
    PROVE  JInv'
<1>1. /\ UNCHANGED <<rows, exposed, buckets, everExposed>>
      /\ at' = [at EXCEPT ![w] = "read"]
      /\ view' = [view EXCEPT ![w] = [live |-> rows \cap BatchServers(w),
                                      stored |-> Held(buckets), exposed |-> exposed]]
  BY DEF ReadState, storage, ghosts
<1>2. Stored' /\ Shown'  BY <1>1 DEF JInv, Stored, Shown
<1>3. \A s \in Servers : Invented(s)' \subseteq Invented(s)  BY <1>1 DEF Invented, Held
<1>4. Viewed'
  <2> SUFFICES ASSUME NEW v \in Workers, at'[v] = "read"
               PROVE  /\ \A t \in Servers : view'[v].exposed[t] \subseteq everExposed[t]
                      /\ \A k \in Keys : k[1] \in rows => (k \in view'[v].stored <=> k \in Held(buckets))
    BY <1>1 DEF Viewed, Held
  <2>1. CASE v = w
    <3>1. view'[v] = [live |-> rows \cap BatchServers(w), stored |-> Held(buckets),
                      exposed |-> exposed]
      BY <1>1, <2>1 DEF IInv, Typed
    <3>2. view'[v].exposed = exposed /\ view'[v].stored = Held(buckets)  BY <3>1
    <3>3. QED  BY <3>2 DEF JInv, Shown
  <2>2. CASE v # w
    <3>1. view'[v] = view[v] /\ at[v] = "read"  BY <1>1, <2>2 DEF IInv, Typed
    <3>2. QED  BY <3>1 DEF JInv, Viewed
  <2>3. QED  BY <2>1, <2>2
<1>5. QED  BY <1>2, <1>3, <1>4, FewerInvented DEF JInv

\* What the pools leave of the unknown names fits the budget.
LEMMA PoolsTakeTheRest ==
    ASSUME NEW w \in Workers, NEW s \in Servers, NEW pool \in Pooled(w, s), Budget(w, s) \in Nat
    PROVE  Cardinality(Unknown(w, s) \ pool) <= Budget(w, s)
<1> DEFINE U == Unknown(w, s)
<1>1. IsFiniteSet(U) /\ Cardinality(U) \in Nat
  <2>1. U \in SUBSET Names  BY DEF Unknown, BatchNames
  <2>2. QED  BY <2>1, InventedFinite
<1> HIDE DEF U
<1>2. /\ IsFiniteSet(U \ pool) /\ Cardinality(U \ pool) = Cardinality(U) - Cardinality(U \cap pool)
  BY <1>1, FS_Difference
<1>3. CASE Cardinality(U) > Budget(w, s)
  <2>1. pool \in kSubset(Cardinality(U) - Budget(w, s), U)  BY <1>3 DEF Pooled, U
  <2>2. pool \subseteq U /\ Cardinality(pool) = Cardinality(U) - Budget(w, s)
    BY <2>1 DEF kSubset
  <2>3. U \cap pool = pool  BY <2>2
  <2>4. Cardinality(U \ pool) = Cardinality(U) - (Cardinality(U) - Budget(w, s))
    BY <1>2, <2>2, <2>3
  <2>5. Cardinality(U \ pool) = Budget(w, s)  BY <1>1, <2>4
  <2>6. QED  BY <2>5 DEF U
<1>4. CASE ~(Cardinality(U) > Budget(w, s))
  <2>1. Cardinality(U \ pool) <= Cardinality(U) /\ Cardinality(U \ pool) \in Nat
    <3>1. U \ pool \in SUBSET U  OBVIOUS
    <3>2. QED  BY <1>1, <3>1, FS_Subset, FS_CardinalityType
  <2>2. QED  BY <1>1, <1>4, <2>1 DEF U
<1>5. QED  BY <1>3, <1>4

\* A name that no bridge served and that is stored after a write was stored before
\* it, or is among those the budget let through.
LEMMA WriteInvents ==
    ASSUME IInv, JInv, NEW w \in Workers, Write(w), NEW s \in Servers,
           NEW pools \in [Servers -> SUBSET Tools], buckets' = Swept(w, Upserted(w, pools)),
           NEW n \in Invented(s)'
    PROVE  n \in Invented(s) \/ n \in Unknown(w, s) \ pools[s]
<1> DEFINE k == <<s, n>>
<1>1. /\ UNCHANGED <<rows, everExposed>> /\ at[w] = "read"  BY DEF Write, ghosts
<1>2. /\ n \in Tools \ everExposed[s] /\ n # Overflow /\ n # Plain /\ n \in Names
      /\ k \in Keys /\ buckets'[k] > 0 /\ k[1] = s /\ k[2] = n
  <2>1. n \in Tools \ everExposed[s] /\ k \in Held(buckets)'  BY <1>1 DEF Invented
  <2>2. QED  BY <2>1, RecorderAssumptions DEF Held, Names
<1> HIDE DEF k
<1>3. ~(0 > 0)  OBVIOUS
<1>4. /\ ~(s \in BatchServers(w) /\ s \notin rows)
      /\ buckets'[k] = Upserted(w, pools)[k]
  BY <1>2, <1>3 DEF Swept
<1>5. CASE buckets'[k] = buckets[k]
  <2>1. k \in Held(buckets)  BY <1>2, <1>5 DEF Held
  <2>2. QED  BY <1>2, <2>1 DEF Invented, k
<1>6. CASE n \notin pools[s] /\ buckets'[k] = buckets[k] + batch[w][k]
  <2>1. buckets[k] \in Nat /\ batch[w][k] \in Nat
    BY <1>2 DEF JInv, Stored, IInv, Typed
  <2>2. CASE buckets[k] > 0
    <3>1. k \in Held(buckets)  BY <1>2, <2>2 DEF Held
    <3>2. QED  BY <1>2, <3>1 DEF Invented, k
  <2>3. CASE ~(buckets[k] > 0)
    <3>1. batch[w][k] > 0 /\ k \notin Held(buckets)  BY <1>2, <1>6, <2>1, <2>3 DEF Held
    <3>2. k \in Held(batch[w])  BY <1>2, <3>1 DEF Held
    <3>3. s \in rows  BY <1>2, <1>4, <3>2 DEF BatchServers
    <3>4. k \notin view[w].stored  BY <1>1, <1>2, <3>1, <3>3 DEF JInv, Viewed
    <3>5. n \notin view[w].exposed[s]  BY <1>1, <1>2 DEF JInv, Viewed
    <3>6. n \in BatchNames(w, s) /\ n \notin StoredNames(w, s)
      BY <1>2, <3>1, <3>4 DEF BatchNames, StoredNames, k
    <3>7. QED  BY <1>2, <1>6, <3>5, <3>6 DEF Unknown
  <2>4. QED  BY <2>2, <2>3
<1>7. \/ buckets'[k] = buckets[k]
      \/ n \notin pools[s] /\ buckets'[k] = buckets[k] + batch[w][k]
  BY <1>2, <1>4 DEF Upserted
<1>8. QED  BY <1>5, <1>6, <1>7

LEMMA WriteWithinBudget ==
    ASSUME IInv, JInv, NEW w \in Workers, Write(w)
    PROVE  InventedNamesBounded'
<1> SUFFICES ASSUME NEW s \in Servers PROVE Cardinality(Invented(s)') <= MaxUnknownTools
  BY DEF InventedNamesBounded, Invented
<1>1. PICK pools \in [Servers -> SUBSET Tools] :
        /\ \A t \in Servers : pools[t] \in Pooled(w, t)
        /\ buckets' = Swept(w, Upserted(w, pools))
  BY DEF Write
<1> DEFINE unknown == (StoredNames(w, s) \ view[w].exposed[s]) \ {Plain, Overflow}
           allowed == Unknown(w, s) \ pools[s]
<1>2. /\ IsFiniteSet(unknown) /\ Cardinality(unknown) \in Nat
      /\ IsFiniteSet(allowed) /\ Cardinality(allowed) \in Nat
  <2>1. unknown \in SUBSET Names /\ allowed \in SUBSET Names
    BY DEF StoredNames, Unknown, BatchNames
  <2>2. QED  BY <2>1, InventedFinite
<1>3. Budget(w, s) = IF Cardinality(unknown) >= MaxUnknownTools THEN 0
                     ELSE MaxUnknownTools - Cardinality(unknown)
  BY DEF Budget
<1>4. Invented(s)' \subseteq Invented(s) \cup allowed
  BY <1>1, WriteInvents
<1>5. Invented(s) \subseteq unknown
  <2> SUFFICES ASSUME NEW n \in Invented(s) PROVE n \in unknown  OBVIOUS
  <2>1. /\ n \in Tools \ everExposed[s] /\ n \notin {Plain, Overflow} /\ n \in Names
        /\ <<s, n>> \in Held(buckets) /\ <<s, n>> \in Keys /\ <<s, n>>[1] = s
    BY RecorderAssumptions DEF Invented, Names, Keys
  <2>2. s \in rows  BY <2>1 DEF IInv, NoOrphanBuckets
  <2>3. at[w] = "read"  BY DEF Write
  <2>4. <<s, n>> \in view[w].stored /\ n \notin view[w].exposed[s]
    BY <2>1, <2>2, <2>3 DEF JInv, Viewed
  <2>5. QED  BY <2>1, <2>4 DEF StoredNames
<1> HIDE DEF unknown
<1>6. Budget(w, s) \in Nat  BY <1>2, <1>3, RecorderAssumptions
<1>7. Cardinality(allowed) <= Budget(w, s)
  BY <1>1, <1>6, PoolsTakeTheRest
<1> HIDE DEF allowed
<1>8. CASE Cardinality(unknown) >= MaxUnknownTools
  <2>1. Cardinality(allowed) = 0  BY <1>2, <1>3, <1>7, <1>8
  <2>2. allowed = {}  BY <1>2, <2>1, FS_EmptySet
  <2>3. Invented(s)' \subseteq Invented(s)  BY <1>4, <2>2
  <2>4. IsFiniteSet(Invented(s)) /\ Cardinality(Invented(s)) \in Nat
    BY <1>2, <1>5, FS_Subset, FS_CardinalityType
  <2>5. Cardinality(Invented(s)') <= Cardinality(Invented(s)) /\ Cardinality(Invented(s)') \in Nat
    BY <2>3, <2>4, FS_Subset, FS_CardinalityType
  <2>6. Cardinality(Invented(s)) <= MaxUnknownTools
    BY DEF JInv, InventedNamesBounded, Invented
  <2>7. QED  BY <2>4, <2>5, <2>6, RecorderAssumptions
<1>9. CASE ~(Cardinality(unknown) >= MaxUnknownTools)
  <2>1. /\ IsFiniteSet(unknown \cup allowed)
        /\ Cardinality(unknown \cup allowed) =
              Cardinality(unknown) + Cardinality(allowed) - Cardinality(unknown \cap allowed)
    BY <1>2, FS_Union
  <2>2. Cardinality(unknown \cap allowed) \in Nat
    BY <1>2, FS_Intersection, FS_CardinalityType
  <2>3. Invented(s)' \in SUBSET (unknown \cup allowed)  BY <1>4, <1>5
  <2>4. /\ Cardinality(Invented(s)') <= Cardinality(unknown \cup allowed)
        /\ Cardinality(Invented(s)') \in Nat
    BY <2>1, <2>3, FS_Subset, FS_CardinalityType
  <2>5. Cardinality(allowed) <= MaxUnknownTools - Cardinality(unknown)  BY <1>3, <1>7, <1>9
  <2>6. QED  BY <1>2, <2>1, <2>2, <2>4, <2>5, RecorderAssumptions
<1>10. QED  BY <1>8, <1>9

LEMMA BudgetWrite ==
    ASSUME IInv, JInv, NEW w \in Workers, Write(w)
    PROVE  JInv'
<1>1. /\ UNCHANGED <<rows, exposed, everExposed>> /\ at[w] = "read"
      /\ at' = [at EXCEPT ![w] = "written"]
  BY DEF Write, ghosts
<1>2. PICK pools \in [Servers -> SUBSET Tools] : buckets' = Swept(w, Upserted(w, pools))
  BY DEF Write
<1>3. Stored'
  <2> SUFFICES ASSUME NEW k \in Keys, k[2] # Overflow PROVE buckets'[k] \in Nat  BY DEF Stored
  <2>1. buckets[k] \in Nat /\ batch[w][k] \in Nat  BY DEF JInv, Stored, IInv, Typed
  <2>2. Upserted(w, pools)[k] \in {buckets[k], buckets[k] + batch[w][k]}  BY DEF Upserted
  <2>3. buckets'[k] \in {0, Upserted(w, pools)[k]}  BY <1>2 DEF Swept
  <2>4. QED  BY <2>1, <2>2, <2>3
<1>4. Shown'  BY <1>1 DEF JInv, Shown
<1>5. Viewed'
  <2>1. flushing = w  BY <1>1 DEF IInv, Serial, Flying
  <2>2. \A v \in Workers : at'[v] # "read"
    BY <1>1, <2>1 DEF IInv, Serial, Typed, Flying
  <2>3. QED  BY <2>2 DEF Viewed
<1>6. QED  BY <1>3, <1>4, <1>5, WriteWithinBudget DEF JInv

LEMMA BudgetInit == Init => JInv
<1> SUFFICES ASSUME Init PROVE JInv
  OBVIOUS
<1>1. Held(buckets) = {} /\ \A k \in Keys : buckets[k] = 0  BY DEF Init, Nothing, Held
<1>2. Stored /\ Shown /\ Viewed  BY <1>1 DEF Init, Stored, Shown, Viewed
<1>3. InventedNamesBounded
  <2> SUFFICES ASSUME NEW s \in Servers PROVE Cardinality(Invented(s)) <= MaxUnknownTools
    BY DEF InventedNamesBounded, Invented
  <2>1. Invented(s) = {}  BY <1>1 DEF Invented
  <2>2. Cardinality(Invented(s)) = 0  BY <2>1, FS_EmptySet
  <2>3. QED  BY <2>2, RecorderAssumptions
<1>4. QED  BY <1>2, <1>3 DEF JInv

LEMMA BudgetKeeps == IInv /\ JInv /\ [Next]_vars => JInv'
<1> SUFFICES ASSUME IInv, JInv, [Next]_vars PROVE JInv'
  OBVIOUS
<1>1. ASSUME NEW s \in Servers, ToolsDiscovered(s) \/ ToolsCleared(s) PROVE JInv'
  BY <1>1, BudgetTools
<1>2. ASSUME NEW s \in Servers, DeleteServer(s) PROVE JInv'  BY <1>2, BudgetDelete
<1>3. ASSUME NEW s \in Servers, Forget(s) \/ \E name \in Names : Record(s, name) PROVE JInv'
  BY <1>3, BudgetAside DEF Forget, Record, storage, threads, ghosts
<1>4. CASE Close \/ Exit \/ UNCHANGED vars
  BY <1>4, BudgetAside DEF Close, Exit, vars, storage, threads, ghosts
<1>5. ASSUME NEW w \in Workers, FlushCalled(w) PROVE JInv'
  <2>1. UNCHANGED <<rows, exposed, buckets, everExposed, view>> /\ at' = [at EXCEPT ![w] = "called"]
    BY <1>5 DEF FlushCalled, storage, ghosts
  <2>2. QED  BY <2>1, BudgetAside DEF IInv, Typed
<1>6. ASSUME NEW w \in Workers, Take(w) \/ WriteFails(w) \/ Restore(w) \/ Settle(w) PROVE JInv'
  <2>1. /\ UNCHANGED <<rows, exposed, buckets, everExposed>>
        /\ \E p \in {"taken", "failed", "over", "idle"} : at' = [at EXCEPT ![w] = p]
        /\ \/ view' = view
           \/ view' = [view EXCEPT ![w] = NoView]
    BY <1>6 DEF Take, WriteFails, Restore, Settle, Ends, storage, ghosts
  <2>2. \A v \in Workers : at'[v] = "read" => v # w /\ at[v] = "read" /\ view'[v] = view[v]
    BY <2>1 DEF IInv, Typed
  <2>3. QED  BY <2>1, <2>2, BudgetAside
<1>7. ASSUME NEW w \in Workers, ReadState(w) PROVE JInv'  BY <1>7, BudgetRead
<1>8. ASSUME NEW w \in Workers, Write(w) PROVE JInv'  BY <1>8, BudgetWrite
<1>9. QED  BY <1>1, <1>2, <1>3, <1>4, <1>5, <1>6, <1>7, <1>8 DEF Next, Flush

\* However many flushes write in an hour, deletes and failures among them, the
\* names no bridge ever served fill at most MAX_UNKNOWN_TOOLS of its rows.
THEOREM Budgeted == Spec => []InventedNamesBounded
<1>1. Init => IInv /\ JInv  BY InitIInv, BudgetInit
<1>2. IInv /\ JInv /\ [Next]_vars => (IInv /\ JInv)'  BY NextKeeps, BudgetKeeps
<1>3. JInv => InventedNamesBounded  BY DEF JInv
<1>4. QED  BY <1>1, <1>2, <1>3, PTL DEF Spec

\* Memory and the names of an hour are both bounded, whatever clients invent.
THEOREM Limits == Spec => []Bounded
<1>1. MemoryBounded /\ InventedNamesBounded => Bounded  BY DEF Bounded
<1>2. QED  BY <1>1, Memory, Budgeted, PTL

-----------------------------------------------------------------------------
(* Sums.  Calls folds over a set of keys; what it computes is proved by      *)
(* well-founded induction over the subsets of that set.                      *)

\* A non-empty family of subsets of a finite set has one that no member of it is
\* reached from by taking one element away.
LEMMA SmallestSet ==
    ASSUME NEW S, IsFiniteSet(S), NEW Bad \in SUBSET SUBSET S, Bad # {}
    PROVE  \E A \in Bad : \A x \in A : A \ {x} \notin Bad
<1>1. FiniteSubsetsOf(S) = SUBSET S  BY FS_FiniteSubsetsOfFinite
<1>2. IsWellFoundedOn(StrictSubsetOrdering(S), SUBSET S)
  BY <1>1, FS_StrictSubsetOrderingWellFounded
<1>3. PICK A \in Bad : \A B \in Bad : <<B, A>> \notin StrictSubsetOrdering(S)
  BY <1>2, WFMin
<1>4. \A x \in A : A \ {x} \in SUBSET S /\ <<A \ {x}, A>> \in StrictSubsetOrdering(S)
  BY DEF StrictSubsetOrdering
<1>5. QED  BY <1>3, <1>4

\* Induction over the subsets of a finite set, the property given as the set of
\* those that have it.
LEMMA SetInduction ==
    ASSUME NEW S, IsFiniteSet(S), NEW Good \in SUBSET SUBSET S, {} \in Good,
           \A A \in Good, x \in S : A \cup {x} \in Good
    PROVE  SUBSET S \subseteq Good
<1> DEFINE Bad == (SUBSET S) \ Good
<1>1. ASSUME Bad # {} PROVE FALSE
  <2>1. PICK A \in Bad : \A x \in A : A \ {x} \notin Bad  BY <1>1, SmallestSet
  <2>2. PICK x \in A : TRUE  OBVIOUS
  <2>3. A \ {x} \in Good  BY <2>1
  <2>4. (A \ {x}) \cup {x} = A  BY <2>2
  <2>5. QED  BY <2>2, <2>3, <2>4
<1>2. QED  BY <1>1

\* g gives every subset of S the sum of f over it.
IsSum(g, f, S) ==
    /\ g \in [SUBSET S -> Nat] /\ g[{}] = 0
    /\ \A A \in SUBSET S : \A x \in A : g[A] = g[A \ {x}] + f[x]

\* There are such sums ...
LEMMA SumExists ==
    ASSUME NEW S, IsFiniteSet(S), NEW f, \A x \in S : f[x] \in Nat
    PROVE  \E g : IsSum(g, f, S)
<1> DEFINE Good == {A \in SUBSET S : \E g : IsSum(g, f, A)}
<1>1. {} \in Good
  <2>1. [A \in SUBSET {} |-> 0] \in [SUBSET {} -> Nat]  OBVIOUS
  <2>2. IsSum([A \in SUBSET {} |-> 0], f, {})  BY <2>1 DEF IsSum
  <2>3. QED  BY <2>2
<1>2. ASSUME NEW A \in Good, NEW x \in S PROVE A \cup {x} \in Good
  <2>1. PICK g : IsSum(g, f, A)  OBVIOUS
  <2>2. CASE x \in A
    <3>1. A \cup {x} = A  BY <2>2
    <3>2. QED  BY <3>1
  <2>3. CASE x \notin A
    <3> DEFINE h == [B \in SUBSET (A \cup {x}) |-> g[B \ {x}] + (IF x \in B THEN f[x] ELSE 0)]
    <3>1. \A B \in SUBSET (A \cup {x}) : B \ {x} \in SUBSET A  OBVIOUS
    <3>2. h \in [SUBSET (A \cup {x}) -> Nat] /\ h[{}] = 0
      <4>1. \A B \in SUBSET (A \cup {x}) : g[B \ {x}] \in Nat  BY <2>1, <3>1 DEF IsSum
      <4>2. {} \ {x} = {}  OBVIOUS
      <4>3. QED  BY <2>1, <4>1, <4>2 DEF IsSum
    <3>3. ASSUME NEW B \in SUBSET (A \cup {x}), NEW y \in B PROVE h[B] = h[B \ {y}] + f[y]
      <4>1. B \ {y} \in SUBSET (A \cup {x})  OBVIOUS
      <4>2. g[B \ {x}] \in Nat /\ g[(B \ {y}) \ {x}] \in Nat /\ f[x] \in Nat /\ f[y] \in Nat
        <5>1. y \in S  OBVIOUS
        <5>2. QED  BY <2>1, <3>1, <4>1, <5>1 DEF IsSum
      <4>3. CASE y = x
        <5>1. (B \ {y}) \ {x} = B \ {x} /\ x \in B /\ x \notin B \ {y}  BY <4>3
        <5>2. h[B] = g[B \ {x}] + f[x] /\ h[B \ {y}] = g[B \ {x}] + 0  BY <4>1, <5>1
        <5>3. QED  BY <4>2, <4>3, <5>2
      <4>4. CASE y # x
        <5>1. (B \ {y}) \ {x} = (B \ {x}) \ {y} /\ y \in B \ {x} /\ (x \in B <=> x \in B \ {y})
          BY <4>4
        <5>2. g[B \ {x}] = g[(B \ {y}) \ {x}] + f[y]
          BY <2>1, <3>1, <5>1 DEF IsSum
        <5>3. CASE x \in B
          <6>1. h[B] = g[B \ {x}] + f[x] /\ h[B \ {y}] = g[(B \ {y}) \ {x}] + f[x]
            BY <4>1, <5>1, <5>3
          <6>2. QED  BY <4>2, <5>2, <6>1
        <5>4. CASE x \notin B
          <6>1. h[B] = g[B \ {x}] + 0 /\ h[B \ {y}] = g[(B \ {y}) \ {x}] + 0
            BY <4>1, <5>1, <5>4
          <6>2. QED  BY <4>2, <5>2, <6>1
        <5>5. QED  BY <5>3, <5>4
      <4>5. QED  BY <4>3, <4>4
    <3>4. IsSum(h, f, A \cup {x})
      <4> HIDE DEF h
      <4>1. QED BY <3>2, <3>3 DEF IsSum
    <3>5. A \cup {x} \in SUBSET S  OBVIOUS
    <3>6. QED  BY <3>4, <3>5
  <2>4. QED  BY <2>2, <2>3
<1>3. \A A \in SUBSET S : A \in Good
  <2> HIDE DEF Good
  <2>1. Good \in SUBSET SUBSET S  BY DEF Good
  <2>2. QED  BY <1>1, <1>2, <2>1, SetInduction
<1>4. QED  BY <1>3

\* ... and the fold of Calls, which takes the elements in the order CHOOSE gives,
\* computes them.
LEMMA CallsIs ==
    ASSUME NEW S, IsFiniteSet(S), NEW f, NEW g, IsSum(g, f, S), \A x \in S : f[x] \in Nat
    PROVE  Calls(f, S) = g[S]
<1> DEFINE Rec(h) == h = [A \in SUBSET S |-> IF A = {} THEN 0
                            ELSE f[CHOOSE x \in A : TRUE] + h[A \ {CHOOSE x \in A : TRUE}]]
           iter == CHOOSE h : Rec(h)
<1>1. Calls(f, S) = iter[S]
  BY DEF Calls, MapThenSumSet, MapThenFoldSet
<1>2. Rec(g)
  <2>1. ASSUME NEW A \in SUBSET S
        PROVE  g[A] = IF A = {} THEN 0
                      ELSE f[CHOOSE x \in A : TRUE] + g[A \ {CHOOSE x \in A : TRUE}]
    <3>1. CASE A = {}  BY <3>1 DEF IsSum
    <3>2. CASE A # {}
      <4> DEFINE c == CHOOSE x \in A : TRUE
      <4>1. c \in A  BY <3>2
      <4> HIDE DEF c
      <4>2. g[A] = g[A \ {c}] + f[c] /\ g[A \ {c}] \in Nat /\ f[c] \in Nat
        BY <4>1 DEF IsSum
      <4>3. g[A] = f[c] + g[A \ {c}]  BY <4>2
      <4>4. QED  BY <3>2, <4>3 DEF c
    <3>3. QED  BY <3>1, <3>2
  <2>2. g = [A \in SUBSET S |-> g[A]]  BY DEF IsSum
  <2>3. QED  BY <2>1, <2>2
<1>3. Rec(iter)
  <2> HIDE DEF Rec
  <2>1. QED  BY <1>2
<1>4. \A A \in SUBSET S : iter[A] = IF A = {} THEN 0
                      ELSE f[CHOOSE x \in A : TRUE] + iter[A \ {CHOOSE x \in A : TRUE}]
  <2> HIDE DEF iter
  <2>1. QED  BY <1>3
<1> HIDE DEF iter
<1>5. ASSUME NEW A \in SUBSET S, iter[A] # g[A] PROVE FALSE
  <2> DEFINE Bad == {B \in SUBSET S : iter[B] # g[B]}
  <2>1. PICK B \in Bad : \A x \in B : B \ {x} \notin Bad  BY <1>5, SmallestSet
  <2>2. B # {}  BY <1>4 DEF IsSum
  <2> DEFINE c == CHOOSE x \in B : TRUE
  <2>3. c \in B /\ B \ {c} \in SUBSET S  BY <2>2
  <2>4. iter[B \ {c}] = g[B \ {c}]  BY <2>1, <2>3
  <2>5. iter[B] = f[c] + iter[B \ {c}]  BY <1>4, <2>2
  <2>6. g[B] = f[c] + g[B \ {c}]
    <3>1. g[B] = IF B = {} THEN 0
                      ELSE f[CHOOSE x \in B : TRUE] + g[B \ {CHOOSE x \in B : TRUE}]
      <4>1. B \in SUBSET S  OBVIOUS
      <4> HIDE DEF Bad
      <4> DEFINE F == [D \in SUBSET S |-> IF D = {} THEN 0
                      ELSE f[CHOOSE x \in D : TRUE] + g[D \ {CHOOSE x \in D : TRUE}]]
      <4>2. g = F  BY <1>2
      <4>3. F[B] = IF B = {} THEN 0
                      ELSE f[CHOOSE x \in B : TRUE] + g[B \ {CHOOSE x \in B : TRUE}]
        BY <4>1
      <4> HIDE DEF F
      <4>4. QED  BY <4>2, <4>3
    <3>2. QED  BY <2>2, <3>1
  <2>7. QED  BY <2>1, <2>4, <2>5, <2>6
<1>6. QED  BY <1>1, <1>5

\* What a sum is, one element at a time; the lemmas below use nothing else of it.
LEMMA CallsStep ==
    ASSUME NEW S, IsFiniteSet(S), NEW f, \A x \in S : f[x] \in Nat
    PROVE  /\ Calls(f, {}) = 0
           /\ \A A \in SUBSET S : /\ Calls(f, A) \in Nat
                                 /\ \A x \in A : Calls(f, A) = Calls(f, A \ {x}) + f[x]
<1>1. PICK g : IsSum(g, f, S)  BY SumExists
<1>2. ASSUME NEW A \in SUBSET S PROVE Calls(f, A) = g[A]
  <2> DEFINE h == [B \in SUBSET A |-> g[B]]
  <2>1. IsSum(h, f, A)
    <3>1. \A B \in SUBSET A : B \in SUBSET S  OBVIOUS
    <3>2. h \in [SUBSET A -> Nat] /\ h[{}] = 0  BY <1>1, <3>1 DEF IsSum
    <3>3. ASSUME NEW B \in SUBSET A, NEW x \in B PROVE h[B] = h[B \ {x}] + f[x]
      <4>1. B \ {x} \in SUBSET A  OBVIOUS
      <4>2. g[B] = g[B \ {x}] + f[x]  BY <1>1, <3>1 DEF IsSum
      <4>3. QED  BY <4>1, <4>2
    <3> HIDE DEF h
    <3>4. QED  BY <3>2, <3>3 DEF IsSum
  <2>2. IsFiniteSet(A)  BY FS_Subset
  <2>3. h[A] = g[A]  OBVIOUS
  <2> HIDE DEF h
  <2>4. QED  BY <2>1, <2>2, <2>3, CallsIs
<1>3. {} \in SUBSET S /\ \A A \in SUBSET S : \A x \in A : A \ {x} \in SUBSET S  OBVIOUS
<1>4. QED  BY <1>1, <1>2, <1>3 DEF IsSum

\* Counts added key by key add up.
LEMMA CallsPlus ==
    ASSUME NEW S, IsFiniteSet(S), NEW f, NEW g, NEW h,
           \A x \in S : f[x] \in Nat /\ g[x] \in Nat /\ h[x] = f[x] + g[x]
    PROVE  Calls(h, S) = Calls(f, S) + Calls(g, S)
<1> DEFINE Good == {A \in SUBSET S : Calls(h, A) = Calls(f, A) + Calls(g, A)}
<1>0. \A x \in S : h[x] \in Nat  OBVIOUS
<1>1. {} \in Good  BY <1>0, CallsStep
<1>2. ASSUME NEW A \in Good, NEW x \in S PROVE A \cup {x} \in Good
  <2>1. CASE x \in A
    <3>1. A \cup {x} = A  BY <2>1
    <3>2. QED  BY <3>1
  <2>2. CASE x \notin A
    <3>1. (A \cup {x}) \ {x} = A /\ A \cup {x} \in SUBSET S /\ x \in A \cup {x}  BY <2>2
    <3>2. /\ Calls(f, A \cup {x}) = Calls(f, A) + f[x] /\ Calls(f, A) \in Nat
          /\ Calls(g, A \cup {x}) = Calls(g, A) + g[x] /\ Calls(g, A) \in Nat
      BY <3>1, CallsStep
    <3>3. Calls(h, A \cup {x}) = Calls(h, A) + h[x]  BY <1>0, <3>1, CallsStep
    <3>4. Calls(h, A) = Calls(f, A) + Calls(g, A) /\ h[x] = f[x] + g[x]
          /\ f[x] \in Nat /\ g[x] \in Nat  OBVIOUS
    <3>5. QED  BY <3>1, <3>2, <3>3, <3>4
  <2>3. QED  BY <2>1, <2>2
<1>3. SUBSET S \subseteq Good
  <2>1. Good \in SUBSET SUBSET S  OBVIOUS
  <2> HIDE DEF Good
  <2>2. QED  BY <1>1, <1>2, <2>1, SetInduction
<1>4. QED  BY <1>3

\* A number that is twice itself is none.
LEMMA NothingDoubles == \A n \in Nat : n = n + n => n = 0
  OBVIOUS

\* Only the counts of the keys that are summed matter.
LEMMA CallsSame ==
    ASSUME NEW S, IsFiniteSet(S), NEW f, NEW g,
           \A x \in S : f[x] \in Nat /\ g[x] = f[x]
    PROVE  Calls(g, S) = Calls(f, S)
<1> DEFINE none == [x \in S |-> 0]
<1>1. \A x \in S : none[x] \in Nat /\ none[x] = none[x] + none[x] /\ g[x] = f[x] + none[x]
  OBVIOUS
<1> HIDE DEF none
<1>2. Calls(none, S) = Calls(none, S) + Calls(none, S)  BY <1>1, CallsPlus
<1>3. Calls(g, S) = Calls(f, S) + Calls(none, S)  BY <1>1, CallsPlus
<1>4. Calls(none, S) \in Nat /\ Calls(f, S) \in Nat  BY <1>1, CallsStep
<1>5. Calls(none, S) = 0  BY <1>2, <1>4, NothingDoubles, Zenon
<1>6. QED  BY <1>3, <1>4, <1>5

\* No counts, no calls.
LEMMA CallsNone ==
    ASSUME NEW S, IsFiniteSet(S), NEW f, \A x \in S : f[x] = 0
    PROVE  Calls(f, S) = 0
<1>1. \A x \in S : f[x] \in Nat /\ f[x] = f[x] + f[x]  OBVIOUS
<1>2. Calls(f, S) = Calls(f, S) + Calls(f, S)  BY <1>1, CallsPlus
<1>3. Calls(f, S) \in Nat  BY <1>1, CallsStep
<1>4. QED  BY <1>2, <1>3, NothingDoubles, Zenon

\* One key alone holds the sum.
LEMMA CallsOne ==
    ASSUME NEW S, IsFiniteSet(S), NEW f, NEW x \in S, f[x] \in Nat,
           \A y \in S \ {x} : f[y] = 0
    PROVE  Calls(f, S) = f[x]
<1>1. \A y \in S : f[y] \in Nat  OBVIOUS
<1>2. Calls(f, S) = Calls(f, S \ {x}) + f[x]  BY <1>1, CallsStep
<1>3. IsFiniteSet(S \ {x})  BY FS_Subset
<1>4. Calls(f, S \ {x}) = 0  BY <1>3, CallsNone
<1>5. QED  BY <1>2, <1>4

\* The sum over a part and the sum over the rest.
LEMMA CallsSplit ==
    ASSUME NEW S, IsFiniteSet(S), NEW f, \A x \in S : f[x] \in Nat, NEW T \in SUBSET S
    PROVE  Calls(f, S) = Calls(f, T) + Calls(f, S \ T)
<1> DEFINE Good == {A \in SUBSET T : Calls(f, S) = Calls(f, A) + Calls(f, S \ A)}
<1>0. \A B \in SUBSET S : /\ Calls(f, B) \in Nat
                          /\ \A y \in B : Calls(f, B) = Calls(f, B \ {y}) + f[y]
  BY CallsStep
<1>1. {} \in Good
  <2>1. S \ {} = S  OBVIOUS
  <2>2. Calls(f, S) \in Nat /\ Calls(f, {}) = 0  BY CallsStep
  <2>3. QED  BY <2>1, <2>2
<1>2. ASSUME NEW A \in Good, NEW x \in T PROVE A \cup {x} \in Good
  <2>1. CASE x \in A
    <3>1. A \cup {x} = A  BY <2>1
    <3>2. QED  BY <3>1
  <2>2. CASE x \notin A
    <3> DEFINE B == A \cup {x}
               C == S \ A
    <3>1. /\ B \ {x} = A /\ B \in SUBSET S /\ x \in B /\ C \in SUBSET S /\ x \in C
          /\ S \ B = C \ {x} /\ C \ {x} \in SUBSET S /\ A \in SUBSET S /\ B \in SUBSET T
      BY <2>2
    <3>2. Calls(f, S) = Calls(f, A) + Calls(f, C) /\ f[x] \in Nat  OBVIOUS
    <3> HIDE DEF B, C, Good
    <3>3. Calls(f, B) = Calls(f, A) + f[x] /\ Calls(f, A) \in Nat  BY <1>0, <3>1
    <3>4. Calls(f, C) = Calls(f, C \ {x}) + f[x] /\ Calls(f, C \ {x}) \in Nat
      BY <1>0, <3>1
    <3>5. Calls(f, S) = Calls(f, B) + Calls(f, S \ B)
      <4>1. Calls(f, S \ B) = Calls(f, C \ {x})  BY <3>1
      <4>2. QED  BY <3>2, <3>3, <3>4, <4>1
    <3>6. QED  BY <3>1, <3>5 DEF B, Good
  <2>3. QED  BY <2>1, <2>2
<1>3. SUBSET T \subseteq Good
  <2>1. Good \in SUBSET SUBSET T  OBVIOUS
  <2>2. IsFiniteSet(T)  BY FS_Subset
  <2> HIDE DEF Good
  <2>3. QED  BY <1>1, <1>2, <2>1, <2>2, SetInduction
<1>4. QED  BY <1>3

\* Moving the counts of the keys T into one other key keeps the sum (the pool of
\* bump_usage).
LEMMA CallsGathered ==
    ASSUME NEW S, IsFiniteSet(S), NEW f, NEW g, NEW T \in SUBSET S, NEW p \in S \ T,
           \A x \in S : f[x] \in Nat,
           g[p] = f[p] + Calls(f, T),
           \A x \in T : g[x] = 0,
           \A x \in (S \ T) \ {p} : g[x] = f[x]
    PROVE  Calls(g, S) = Calls(f, S)
<1> DEFINE R == S \ T
           Q == R \ {p}
<1>1. T \in SUBSET S /\ R \in SUBSET S /\ Q \in SUBSET R /\ Q \in SUBSET S /\ p \in R  OBVIOUS
<1>2. IsFiniteSet(T) /\ IsFiniteSet(R) /\ IsFiniteSet(Q)  BY <1>1, FS_Subset
<1>3. Calls(f, T) \in Nat /\ Calls(f, Q) \in Nat /\ Calls(f, R) = Calls(f, Q) + f[p]
  BY <1>1, CallsStep
<1>4. \A x \in S : g[x] \in Nat  BY <1>3
<1>5. Calls(f, S) = Calls(f, T) + Calls(f, R)  BY CallsSplit
<1>6. Calls(g, S) = Calls(g, T) + Calls(g, R)  BY <1>4, CallsSplit
<1>7. Calls(g, R) = Calls(g, Q) + g[p]  BY <1>1, <1>4, CallsStep
<1>8. Calls(g, T) = 0  BY <1>2, CallsNone
<1>9. Calls(g, Q) = Calls(f, Q)
  <2>1. \A x \in Q : f[x] \in Nat /\ g[x] = f[x]  OBVIOUS
  <2>2. QED  BY <1>2, <2>1, CallsSame
<1>10. f[p] \in Nat  OBVIOUS
<1> HIDE DEF R, Q
<1>11. QED  BY <1>3, <1>5, <1>6, <1>7, <1>8, <1>9, <1>10

-----------------------------------------------------------------------------
(* Where the counted calls are.                                            *)

\* What the flush that has _flush_lock has detached and not written, and what of
\* it a failed write would hand back.
Detached == IF flushing \in Workers THEN Unwritten(flushing) ELSE Nothing
Returning == [k \in Keys |-> IF inflight[k] > 0 THEN Detached[k] ELSE 0]

Sorted ==
    /\ rows \subseteq Servers /\ forgetting \subseteq Servers /\ forgetting \cap rows = {}
    /\ buckets \in [Keys -> Nat] /\ inflight \in [Keys -> {0, 1}]
    /\ recorded \in [Servers -> Nat] /\ flushing \in Workers \cup {NoWorker}

\* A reserved key is one of the batch under way, ...
Reserved ==
    \A k \in Keys : inflight[k] > 0 =>
        flushing \in Workers /\ at[flushing] \in Flying /\ batch[flushing][k] > 0

\* ... and every key of it stays reserved while its server exists.
Guarded ==
    \A w \in Workers : at[w] \in Flying =>
        \A k \in Keys : batch[w][k] > 0 /\ k[1] \in rows => inflight[k] > 0

\* A server that still exists when the flush writes existed when it read.
Alive == \A w \in Workers : at[w] = "read" => rows \cap BatchServers(w) \subseteq view[w].live

Kept ==
    \A s \in rows :
        recorded[s] = Calls(pending, KeysOf(s)) + Calls(Detached, KeysOf(s)) + Calls(buckets, KeysOf(s))

\* Of a forgotten server, what is pending and what may return to it was recorded
\* after forget().
Later ==
    \A s \in Servers \ (rows \cup forgetting) :
        Calls(pending, KeysOf(s)) + Calls(Returning, KeysOf(s)) <= recorded[s]

KInv == Sorted /\ Reserved /\ Guarded /\ Alive /\ Kept /\ Later

LEMMA KeysOfFacts ==
    ASSUME NEW s \in Servers
    PROVE  /\ IsFiniteSet(KeysOf(s)) /\ KeysOf(s) \subseteq Keys
           /\ \A k \in Keys : k \in KeysOf(s) <=> k[1] = s
<1>1. KeysOf(s) \subseteq Keys  BY DEF KeysOf, Keys
<1>2. IsFiniteSet(KeysOf(s))  BY <1>1, KeysFinite, FS_Subset
<1>3. \A k \in Keys : k \in KeysOf(s) <=> k[1] = s  BY DEF KeysOf, Keys
<1>4. QED  BY <1>1, <1>2, <1>3

LEMMA DetachedCounts ==
    ASSUME IInv, Sorted
    PROVE  Detached \in [Keys -> Nat] /\ Returning \in [Keys -> Nat]
<1>1. Nothing \in [Keys -> Nat]  BY DEF Nothing
<1>2. Detached \in [Keys -> Nat]  BY <1>1 DEF Detached, Unwritten, IInv, Typed
<1>3. Returning \in [Keys -> Nat]  BY <1>2 DEF Returning
<1>4. QED  BY <1>2, <1>3

\* Where the calls of a server are is a number of calls.
LEMMA CallsTyped ==
    ASSUME IInv, Sorted, NEW s \in Servers
    PROVE  /\ Calls(pending, KeysOf(s)) \in Nat /\ Calls(Detached, KeysOf(s)) \in Nat
           /\ Calls(Returning, KeysOf(s)) \in Nat /\ Calls(buckets, KeysOf(s)) \in Nat
<1>1. /\ pending \in [Keys -> Nat] /\ buckets \in [Keys -> Nat]
      /\ Detached \in [Keys -> Nat] /\ Returning \in [Keys -> Nat]
  BY DetachedCounts DEF IInv, Typed, Sorted
<1>2. ASSUME NEW f \in [Keys -> Nat] PROVE Calls(f, KeysOf(s)) \in Nat
  BY KeysOfFacts, CallsStep
<1>3. QED  BY <1>1, <1>2

\* Counts that agree on the keys of a server.
LEMMA SameCalls ==
    ASSUME NEW s \in Servers, NEW f \in [Keys -> Nat], NEW g,
           \A k \in Keys : k[1] = s => g[k] = f[k]
    PROVE  Calls(g, KeysOf(s)) = Calls(f, KeysOf(s))
<1>1. \A k \in KeysOf(s) : f[k] \in Nat /\ g[k] = f[k]  BY KeysOfFacts
<1>2. QED  BY <1>1, KeysOfFacts, CallsSame

LEMMA NoCalls ==
    ASSUME NEW s \in Servers, NEW f, \A k \in Keys : k[1] = s => f[k] = 0
    PROVE  Calls(f, KeysOf(s)) = 0
<1>1. \A k \in KeysOf(s) : f[k] = 0  BY KeysOfFacts
<1>2. QED  BY <1>1, KeysOfFacts, CallsNone

LEMMA AddedCalls ==
    ASSUME NEW s \in Servers, NEW f \in [Keys -> Nat], NEW g \in [Keys -> Nat], NEW h,
           \A k \in Keys : k[1] = s => h[k] = f[k] + g[k]
    PROVE  Calls(h, KeysOf(s)) = Calls(f, KeysOf(s)) + Calls(g, KeysOf(s))
<1>1. \A k \in KeysOf(s) : f[k] \in Nat /\ g[k] \in Nat /\ h[k] = f[k] + g[k]
  BY KeysOfFacts
<1>2. QED  BY <1>1, KeysOfFacts, CallsPlus

-----------------------------------------------------------------------------
(* Each action moves calls without losing or doubling one.                 *)

LEMMA CountsInit == Init => KInv
<1> SUFFICES ASSUME Init PROVE KInv  OBVIOUS
<1>1. /\ Nothing \in [Keys -> Nat] /\ Nothing \in [Keys -> {0, 1}]
      /\ \A k \in Keys : Nothing[k] = 0
  BY DEF Nothing
<1>2. flushing \notin Workers  BY RecorderAssumptions DEF Init
<1>3. Sorted  BY <1>1 DEF Init, Sorted
<1>4. Reserved /\ Guarded /\ Alive  BY <1>1 DEF Init, Reserved, Guarded, Alive, Flying
<1>5. Detached = Nothing  BY <1>2 DEF Detached
<1>6. \A s \in Servers : Calls(Nothing, KeysOf(s)) = 0  BY <1>1, NoCalls
<1>7. Kept /\ Later  BY <1>5, <1>6 DEF Init, Kept, Later
<1>8. QED  BY <1>3, <1>4, <1>7 DEF KInv

\* What moves no call: a flush between its steps, the tools, the lifespan.
LEMMA CountsAside ==
    ASSUME IInv, KInv, Detached' = Detached, Reserved', Guarded', Alive',
           UNCHANGED <<rows, forgetting, recorded, buckets, pending, inflight>>,
           flushing' \in Workers \cup {NoWorker}
    PROVE  KInv'
<1>1. Sorted'  BY DEF KInv, Sorted
<1>2. Returning' = Returning  BY DEF Returning
<1>3. Kept'  BY DEF KInv, Kept
<1>4. Later'  BY <1>2 DEF KInv, Later
<1>5. QED  BY <1>1, <1>3, <1>4 DEF KInv

LEMMA CountsQuiet ==
    ASSUME IInv, KInv, UNCHANGED <<rows, forgetting, recorded, buckets, memory, threads>>
    PROVE  KInv'
<1> USE DEF memory, threads
<1>1. Detached' = Detached  BY DEF Detached, Unwritten
<1>2. Reserved' /\ Guarded' /\ Alive'
  BY DEF KInv, Reserved, Guarded, Alive, BatchServers, Held
<1>3. flushing' \in Workers \cup {NoWorker}  BY DEF KInv, Sorted
<1>4. QED  BY <1>1, <1>2, <1>3, CountsAside

\* A request adds one call to one key of its server.
LEMMA CountsRecord ==
    ASSUME IInv, KInv, NEW s \in Servers, NEW name \in Names, Record(s, name)
    PROVE  KInv'
<1> DEFINE c == Counted(s, name)
           one == [k \in Keys |-> IF k = c THEN 1 ELSE 0]
<1>1. /\ UNCHANGED <<rows, buckets, inflight, flushing, at, batch, view, forgetting>>
      /\ pending' = [pending EXCEPT ![c] = @ + 1]
      /\ recorded' = [recorded EXCEPT ![s] = @ + 1]
  BY DEF Record, storage, threads
<1>2. c \in Keys /\ c[1] = s  BY DEF Counted, Keys, Names
<1>3. pending \in [Keys -> Nat]  BY DEF IInv, Typed
<1> HIDE DEF c
<1>4. \A t \in Servers \ {s} : Calls(pending', KeysOf(t)) = Calls(pending, KeysOf(t))
  <2>1. ASSUME NEW t \in Servers \ {s}
        PROVE  \A k \in Keys : k[1] = t => pending'[k] = pending[k]
    BY <1>1, <1>2, <1>3
  <2>2. QED  BY <1>3, <2>1, SameCalls
<1>5. Calls(pending', KeysOf(s)) = Calls(pending, KeysOf(s)) + 1
  <2>1. one \in [Keys -> Nat] /\ \A k \in Keys : pending'[k] = pending[k] + one[k]
    BY <1>1, <1>2, <1>3
  <2>2. Calls(one, KeysOf(s)) = one[c]
    <3>1. c \in KeysOf(s) /\ one[c] = 1 /\ \A k \in KeysOf(s) \ {c} : one[k] = 0
      BY <1>2, KeysOfFacts
    <3>2. one[c] \in Nat  BY <3>1
    <3> HIDE DEF one
    <3>3. QED  BY <3>1, <3>2, KeysOfFacts, CallsOne
  <2>3. one[c] = 1  BY <1>2
  <2> HIDE DEF one
  <2>4. QED  BY <1>3, <2>1, <2>2, <2>3, AddedCalls
<1>6. Detached' = Detached /\ Returning' = Returning
  BY <1>1 DEF Detached, Unwritten, Returning
<1>7. Sorted'
  <2>1. recorded' \in [Servers -> Nat]  BY <1>1 DEF KInv, Sorted
  <2>2. QED  BY <1>1, <2>1 DEF KInv, Sorted
<1>8. Reserved' /\ Guarded' /\ Alive'
  BY <1>1 DEF KInv, Reserved, Guarded, Alive, BatchServers, Held
<1>9. \A t \in Servers : recorded'[t] = IF t = s THEN recorded[t] + 1 ELSE recorded[t]
  BY <1>1 DEF KInv, Sorted
<1>10. \A t \in Servers :
         recorded[t] \in Nat /\ Calls(pending, KeysOf(t)) \in Nat /\ Calls(Detached, KeysOf(t)) \in Nat
         /\ Calls(Returning, KeysOf(t)) \in Nat /\ Calls(buckets, KeysOf(t)) \in Nat
  BY CallsTyped DEF KInv, Sorted
<1>11. Kept'
  <2> SUFFICES ASSUME NEW t \in rows
               PROVE  recorded'[t] = Calls(pending', KeysOf(t)) + Calls(Detached, KeysOf(t))
                                     + Calls(buckets, KeysOf(t))
    BY <1>1, <1>6 DEF Kept
  <2>1. t \in Servers  BY DEF KInv, Sorted
  <2>2. recorded[t] = Calls(pending, KeysOf(t)) + Calls(Detached, KeysOf(t)) + Calls(buckets, KeysOf(t))
    BY DEF KInv, Kept
  <2>3. CASE t = s  BY <1>5, <1>9, <1>10, <2>1, <2>2, <2>3
  <2>4. CASE t # s  BY <1>4, <1>9, <1>10, <2>1, <2>2, <2>4
  <2>5. QED  BY <2>3, <2>4
<1>12. Later'
  <2> SUFFICES ASSUME NEW t \in Servers \ (rows \cup forgetting)
               PROVE  Calls(pending', KeysOf(t)) + Calls(Returning, KeysOf(t)) <= recorded'[t]
    BY <1>1, <1>6 DEF Later
  <2>1. Calls(pending, KeysOf(t)) + Calls(Returning, KeysOf(t)) <= recorded[t]  BY DEF KInv, Later
  <2>2. CASE t = s  BY <1>5, <1>9, <1>10, <2>1, <2>2
  <2>3. CASE t # s  BY <1>4, <1>9, <1>10, <2>1, <2>3
  <2>4. QED  BY <2>2, <2>3
<1>13. QED  BY <1>7, <1>8, <1>11, <1>12 DEF KInv

\* A delete takes the stored rows of one server, which no longer counts as existing
\* and does not count as forgotten yet.
LEMMA CountsDelete ==
    ASSUME IInv, KInv, NEW s \in Servers, DeleteServer(s)
    PROVE  KInv'
<1>1. /\ UNCHANGED <<pending, inflight, flushing, at, batch, view, recorded>>
      /\ rows' = rows \ {s} /\ forgetting' = forgetting \cup {s} /\ s \in rows
      /\ buckets' = [k \in Keys |-> IF k \in KeysOf(s) THEN 0 ELSE buckets[k]]
  BY DEF DeleteServer, memory, threads, ghosts
<1>2. \A k \in Keys : k[1] # s => buckets'[k] = buckets[k]  BY <1>1, KeysOfFacts
<1>3. Sorted'  BY <1>1 DEF KInv, Sorted
<1>4. Detached' = Detached /\ Returning' = Returning
  BY <1>1 DEF Detached, Unwritten, Returning
<1>5. Reserved' /\ Guarded' /\ Alive'
  BY <1>1 DEF KInv, Reserved, Guarded, Alive, BatchServers, Held
<1>6. Kept'
  <2> SUFFICES ASSUME NEW t \in rows'
               PROVE  recorded[t] = Calls(pending, KeysOf(t)) + Calls(Detached, KeysOf(t))
                                    + Calls(buckets', KeysOf(t))
    BY <1>1, <1>4 DEF Kept
  <2>1. t \in rows /\ t # s /\ t \in Servers  BY <1>1 DEF KInv, Sorted
  <2>2. Calls(buckets', KeysOf(t)) = Calls(buckets, KeysOf(t))
    <3>1. buckets \in [Keys -> Nat]  BY DEF KInv, Sorted
    <3>2. \A k \in Keys : k[1] = t => buckets'[k] = buckets[k]  BY <1>2, <2>1
    <3>3. QED  BY <2>1, <3>1, <3>2, SameCalls
  <2>3. QED  BY <2>1, <2>2 DEF KInv, Kept
<1>7. Later'
  <2>1. Servers \ (rows' \cup forgetting') = Servers \ (rows \cup forgetting)  BY <1>1
  <2>2. QED  BY <1>1, <1>4, <2>1 DEF KInv, Later
<1>8. QED  BY <1>3, <1>5, <1>6, <1>7 DEF KInv

\* forget() reaches what is pending and what would return, of that server alone.
LEMMA CountsForget ==
    ASSUME IInv, KInv, NEW s \in Servers, Forget(s)
    PROVE  KInv'
<1>1. /\ UNCHANGED <<rows, buckets, flushing, at, batch, view>>
      /\ s \in forgetting /\ forgetting' = forgetting \ {s}
      /\ pending' = [k \in Keys |-> IF k \in KeysOf(s) THEN 0 ELSE pending[k]]
      /\ inflight' = [k \in Keys |-> IF k \in KeysOf(s) THEN 0 ELSE inflight[k]]
      /\ recorded' = [recorded EXCEPT ![s] = 0]
  BY DEF Forget, storage, threads
<1>2. /\ \A k \in Keys : k[1] = s => pending'[k] = 0 /\ inflight'[k] = 0
      /\ \A k \in Keys : k[1] # s => pending'[k] = pending[k] /\ inflight'[k] = inflight[k]
  BY <1>1, KeysOfFacts
<1>3. s \notin rows /\ rows \subseteq Servers  BY <1>1 DEF KInv, Sorted
<1>4. Detached' = Detached  BY <1>1 DEF Detached, Unwritten
<1>5. /\ pending \in [Keys -> Nat] /\ Detached \in [Keys -> Nat] /\ Returning \in [Keys -> Nat]
  BY DetachedCounts DEF IInv, Typed, KInv
<1>6. Sorted'
  <2>1. inflight' \in [Keys -> {0, 1}] /\ recorded' \in [Servers -> Nat]
    BY <1>1 DEF KInv, Sorted
  <2>2. QED  BY <1>1, <2>1 DEF KInv, Sorted
<1>7. Reserved'
  <2>1. \A k \in Keys : inflight'[k] > 0 => inflight[k] > 0  BY <1>1
  <2>2. QED  BY <1>1, <2>1 DEF KInv, Reserved
<1>8. Guarded'  BY <1>1, <1>2, <1>3 DEF KInv, Guarded
<1>9. Alive'  BY <1>1 DEF KInv, Alive, BatchServers, Held
<1>10. ASSUME NEW t \in Servers \ {s}
       PROVE  /\ Calls(pending', KeysOf(t)) = Calls(pending, KeysOf(t))
              /\ Calls(Returning', KeysOf(t)) = Calls(Returning, KeysOf(t))
              /\ recorded'[t] = recorded[t]
  <2>1. \A k \in Keys : k[1] = t => pending'[k] = pending[k] /\ Returning'[k] = Returning[k]
    BY <1>2, <1>4 DEF Returning
  <2>2. recorded'[t] = recorded[t]  BY <1>1 DEF KInv, Sorted
  <2>3. QED  BY <1>5, <2>1, <2>2, SameCalls
<1>11. Kept'  BY <1>1, <1>3, <1>4, <1>10 DEF KInv, Kept
<1>12. Later'
  <2> SUFFICES ASSUME NEW t \in Servers \ (rows \cup forgetting')
               PROVE  Calls(pending', KeysOf(t)) + Calls(Returning', KeysOf(t)) <= recorded'[t]
    BY <1>1 DEF Later
  <2>1. CASE t = s
    <3>1. \A k \in Keys : k[1] = s => pending'[k] = 0 /\ Returning'[k] = 0
      BY <1>2 DEF Returning
    <3>2. Calls(pending', KeysOf(s)) = 0 /\ Calls(Returning', KeysOf(s)) = 0
      BY <3>1, NoCalls
    <3>3. recorded'[s] = 0  BY <1>1 DEF KInv, Sorted
    <3>4. QED  BY <2>1, <3>2, <3>3
  <2>2. CASE t # s
    <3>1. t \in Servers \ (rows \cup forgetting)  BY <1>1, <2>2
    <3>2. QED  BY <1>10, <2>2, <3>1 DEF KInv, Later
  <2>3. QED  BY <2>1, <2>2
<1>13. QED  BY <1>6, <1>7, <1>8, <1>9, <1>11, <1>12 DEF KInv

\* While nobody has _flush_lock, nothing is detached or reserved.
LEMMA NothingUnderWay ==
    ASSUME IInv, KInv, flushing = NoWorker
    PROVE  /\ \A v \in Workers : at[v] \notin Flying
           /\ Detached = Nothing /\ \A k \in Keys : inflight[k] = 0
<1>1. flushing \notin Workers  BY RecorderAssumptions
<1>2. \A v \in Workers : at[v] \notin Flying  BY <1>1 DEF IInv, Serial
<1>3. Detached = Nothing  BY <1>1 DEF Detached
<1>4. ASSUME NEW k \in Keys PROVE inflight[k] = 0
  <2>1. inflight[k] \in {0, 1} /\ ~(inflight[k] > 0)  BY <1>1 DEF KInv, Sorted, Reserved
  <2>2. QED  BY <2>1
<1>5. QED  BY <1>2, <1>3, <1>4

\* _take moves all that is pending into the batch, reserved.
LEMMA CountsTake ==
    ASSUME IInv, KInv, NEW w \in Workers, Take(w)
    PROVE  KInv'
<1>1. /\ UNCHANGED <<rows, exposed, buckets, view, forgetting, recorded>>
      /\ at[w] = "called" /\ flushing = NoWorker /\ flushing' = w
      /\ batch' = [batch EXCEPT ![w] = pending] /\ pending' = Nothing
      /\ inflight' = [k \in Keys |-> IF pending[k] > 0 THEN inflight[k] + 1 ELSE inflight[k]]
      /\ at' = [at EXCEPT ![w] = "taken"]
  BY DEF Take, Takes, storage, ghosts
<1>2. /\ \A v \in Workers : at[v] \notin Flying
      /\ Detached = Nothing /\ \A k \in Keys : inflight[k] = 0
  BY <1>1, NothingUnderWay
<1>3. /\ pending \in [Keys -> Nat] /\ batch \in [Workers -> [Keys -> Nat]]
      /\ at \in [Workers -> Flying \cup {"idle", "called", "over"}]
  BY DEF IInv, Typed
<1>4. \A k \in Keys : inflight'[k] = IF pending[k] > 0 THEN 1 ELSE 0  BY <1>1, <1>2
<1>5. /\ batch'[w] = pending /\ at'[w] = "taken"
      /\ \A v \in Workers \ {w} : at'[v] \notin Flying /\ at'[v] # "read"
  BY <1>1, <1>2, <1>3 DEF Flying
<1>6. Detached' = pending  BY <1>1, <1>5 DEF Detached, Unwritten
<1>7. \A k \in Keys : Returning'[k] = pending[k]
  <2> SUFFICES ASSUME NEW k \in Keys PROVE Returning'[k] = pending[k]  OBVIOUS
  <2>1. Returning'[k] = IF inflight'[k] > 0 THEN pending[k] ELSE 0  BY <1>6 DEF Returning
  <2>2. pending[k] \in Nat  BY <1>3
  <2>3. QED  BY <1>4, <2>1, <2>2
<1>8. Sorted'
  <2>1. inflight' \in [Keys -> {0, 1}]
    <3>1. inflight' = [k \in Keys |-> inflight'[k]]  BY <1>1
    <3>2. QED  BY <1>4, <3>1
  <2>2. QED  BY <1>1, <2>1 DEF KInv, Sorted
<1>9. Reserved'  BY <1>1, <1>4, <1>5 DEF Reserved, Flying
<1>10. Guarded'
  <2> SUFFICES ASSUME NEW v \in Workers, at'[v] \in Flying, NEW k \in Keys, batch'[v][k] > 0
               PROVE  inflight'[k] > 0
    BY DEF Guarded
  <2>1. v = w  BY <1>5
  <2>2. QED  BY <1>4, <1>5, <2>1
<1>11. Alive'  BY <1>5 DEF Alive
<1>12. ASSUME NEW t \in Servers
       PROVE  /\ Calls(pending', KeysOf(t)) = 0 /\ Calls(Detached, KeysOf(t)) = 0
              /\ Calls(Returning', KeysOf(t)) = Calls(pending, KeysOf(t))
              /\ Calls(pending, KeysOf(t)) \in Nat /\ Calls(Returning, KeysOf(t)) \in Nat
              /\ Calls(buckets, KeysOf(t)) \in Nat /\ recorded[t] \in Nat
  <2>1. Calls(Nothing, KeysOf(t)) = 0
    <3>1. \A k \in Keys : Nothing[k] = 0  BY DEF Nothing
    <3>2. QED  BY <3>1, NoCalls
  <2>2. Calls(Returning', KeysOf(t)) = Calls(pending, KeysOf(t))  BY <1>3, <1>7, SameCalls
  <2>3. QED  BY <1>1, <1>2, <2>1, <2>2, CallsTyped DEF KInv, Sorted
<1>13. Kept'
  <2> SUFFICES ASSUME NEW t \in rows
               PROVE  recorded[t] = Calls(pending', KeysOf(t)) + Calls(pending, KeysOf(t))
                                    + Calls(buckets, KeysOf(t))
    BY <1>1, <1>6 DEF Kept
  <2>1. t \in Servers  BY DEF KInv, Sorted
  <2>2. recorded[t] = Calls(pending, KeysOf(t)) + Calls(Detached, KeysOf(t)) + Calls(buckets, KeysOf(t))
    BY DEF KInv, Kept
  <2>3. QED  BY <1>12, <2>1, <2>2
<1>14. Later'
  <2> SUFFICES ASSUME NEW t \in Servers \ (rows \cup forgetting)
               PROVE  Calls(pending', KeysOf(t)) + Calls(Returning', KeysOf(t)) <= recorded[t]
    BY <1>1 DEF Later
  <2>1. Calls(pending, KeysOf(t)) + Calls(Returning, KeysOf(t)) <= recorded[t]  BY DEF KInv, Later
  <2>2. QED  BY <1>12, <2>1
<1>15. QED  BY <1>8, <1>9, <1>10, <1>11, <1>13, <1>14 DEF KInv

LEMMA CountsFlushCalled ==
    ASSUME IInv, KInv, NEW w \in Workers, FlushCalled(w)
    PROVE  KInv'
<1>1. /\ UNCHANGED <<rows, buckets, pending, inflight, flushing, batch, view, forgetting, recorded>>
      /\ at[w] = "idle" /\ at' = [at EXCEPT ![w] = "called"]
  BY DEF FlushCalled, storage, memory, ghosts
<1>2. \A v \in Workers : at'[v] = IF v = w THEN "called" ELSE at[v]  BY <1>1 DEF IInv, Typed
<1>3. Detached' = Detached  BY <1>1, <1>2 DEF Detached, Unwritten
<1>4. Reserved' /\ Guarded' /\ Alive'
  BY <1>1, <1>2 DEF KInv, Reserved, Guarded, Alive, BatchServers, Held, Flying
<1>5. flushing' \in Workers \cup {NoWorker}  BY <1>1 DEF KInv, Sorted
<1>6. QED  BY <1>1, <1>3, <1>4, <1>5, CountsAside

LEMMA CountsRead ==
    ASSUME IInv, KInv, NEW w \in Workers, ReadState(w)
    PROVE  KInv'
<1>1. /\ UNCHANGED <<rows, buckets, pending, inflight, flushing, batch, forgetting, recorded>>
      /\ at[w] = "taken" /\ at' = [at EXCEPT ![w] = "read"]
      /\ view' = [view EXCEPT ![w] = [live |-> rows \cap BatchServers(w),
                                      stored |-> Held(buckets), exposed |-> exposed]]
  BY DEF ReadState, storage, memory, ghosts
<1>2. \A v \in Workers : at'[v] = IF v = w THEN "read" ELSE at[v]  BY <1>1 DEF IInv, Typed
<1>3. \A v \in Workers : view'[v] = IF v = w THEN [live |-> rows \cap BatchServers(w),
                             stored |-> Held(buckets), exposed |-> exposed] ELSE view[v]
  BY <1>1 DEF IInv, Typed
<1>4. Detached' = Detached  BY <1>1, <1>2 DEF Detached, Unwritten
<1>5. Reserved'  BY <1>1, <1>2 DEF KInv, Reserved, Flying
<1>6. Guarded'  BY <1>1, <1>2 DEF KInv, Guarded, Flying
<1>7. Alive'
  <2> SUFFICES ASSUME NEW v \in Workers, at'[v] = "read"
               PROVE  rows \cap BatchServers(v) \subseteq view'[v].live
    BY <1>1 DEF Alive, BatchServers, Held
  <2>1. CASE v = w  BY <1>3, <2>1
  <2>2. CASE v # w  BY <1>2, <1>3, <2>2 DEF KInv, Alive
  <2>3. QED  BY <2>1, <2>2
<1>8. flushing' \in Workers \cup {NoWorker}  BY <1>1 DEF KInv, Sorted
<1>9. QED  BY <1>1, <1>4, <1>5, <1>6, <1>7, <1>8, CountsAside

\* A failed write leaves its batch detached.
LEMMA CountsFail ==
    ASSUME IInv, KInv, NEW w \in Workers, WriteFails(w)
    PROVE  KInv'
<1>1. /\ UNCHANGED <<rows, buckets, pending, inflight, flushing, batch, forgetting, recorded>>
      /\ at[w] = "read" /\ at' = [at EXCEPT ![w] = "failed"]
      /\ view' = [view EXCEPT ![w] = NoView]
  BY DEF WriteFails, storage, memory, ghosts
<1>2. \A v \in Workers : at'[v] = IF v = w THEN "failed" ELSE at[v]  BY <1>1 DEF IInv, Typed
<1>3. \A v \in Workers \ {w} : view'[v] = view[v]  BY <1>1 DEF IInv, Typed
<1>4. Detached' = Detached  BY <1>1, <1>2 DEF Detached, Unwritten
<1>5. Reserved' /\ Guarded'  BY <1>1, <1>2 DEF KInv, Reserved, Guarded, Flying
<1>6. Alive'
  <2> SUFFICES ASSUME NEW v \in Workers, at'[v] = "read"
               PROVE  rows \cap BatchServers(v) \subseteq view'[v].live
    BY <1>1 DEF Alive, BatchServers, Held
  <2>1. QED  BY <1>2, <1>3 DEF KInv, Alive
<1>7. flushing' \in Workers \cup {NoWorker}  BY <1>1 DEF KInv, Sorted
<1>8. QED  BY <1>1, <1>4, <1>5, <1>6, <1>7, CountsAside

\* What one server's pool takes from its keys stays a count.
LEMMA PoolCounts ==
    ASSUME IInv, KInv, NEW w \in Workers, NEW s \in Servers, NEW pool \in SUBSET Tools
    PROVE  /\ {s} \X pool \subseteq KeysOf(s) /\ <<s, Overflow>> \in KeysOf(s) \ ({s} \X pool)
           /\ \A k \in KeysOf(s) : k[2] \in pool <=> k \in {s} \X pool
           /\ \A k \in KeysOf(s) : k[2] = Overflow <=> k = <<s, Overflow>>
           /\ Calls(batch[w], {s} \X pool) \in Nat
<1>1. {s} \X pool \subseteq KeysOf(s)  BY DEF KeysOf, Names
<1>2. /\ <<s, Overflow>> \in KeysOf(s) \ ({s} \X pool)
      /\ \A k \in KeysOf(s) : k[2] \in pool <=> k \in {s} \X pool
      /\ \A k \in KeysOf(s) : k[2] = Overflow <=> k = <<s, Overflow>>
  BY RecorderAssumptions DEF KeysOf, Names
<1>3. \A k \in KeysOf(s) : batch[w][k] \in Nat  BY KeysOfFacts DEF IInv, Typed
<1>4. Calls(batch[w], {s} \X pool) \in Nat  BY <1>1, <1>3, KeysOfFacts, CallsStep
<1>5. QED  BY <1>1, <1>2, <1>4

\* The upserts of an existing server store its batch, pooled or not.
LEMMA WrittenCalls ==
    ASSUME IInv, KInv, NEW w \in Workers, at[w] = "read",
           NEW pools \in [Servers -> SUBSET Tools], NEW s \in rows
    PROVE  Calls(Swept(w, Upserted(w, pools)), KeysOf(s)) =
              Calls(buckets, KeysOf(s)) + Calls(batch[w], KeysOf(s))
<1> DEFINE into == Calls(batch[w], {s} \X pools[s])
           moved == [k \in Keys |-> IF k[2] = Overflow THEN batch[w][k] + into
                                    ELSE IF k[2] \in pools[s] THEN 0 ELSE batch[w][k]]
           stored == Swept(w, Upserted(w, pools))
<1>1. s \in Servers /\ buckets \in [Keys -> Nat] /\ batch[w] \in [Keys -> Nat]
  BY DEF KInv, Sorted, IInv, Typed
<1>2. \A k \in Keys : k[1] = s => stored[k] = Upserted(w, pools)[k]  BY DEF Swept
<1>3. pools[s] \in SUBSET Tools  BY <1>1
<1>4. CASE s \in view[w].live
  <2>1. into \in Nat  BY <1>1, <1>3, PoolCounts
  <2>2. \A k \in Keys : k[1] = s => stored[k] = buckets[k] + moved[k]
    <3> SUFFICES ASSUME NEW k \in Keys, k[1] = s
                 PROVE  Upserted(w, pools)[k] = buckets[k] + moved[k]
      BY <1>2
    <3>1. Upserted(w, pools)[k] = IF k[2] = Overflow THEN buckets[k] + batch[w][k] + into
                                  ELSE IF k[2] \in pools[s] THEN buckets[k]
                                  ELSE buckets[k] + batch[w][k]
      BY <1>4 DEF Upserted
    <3>2. buckets[k] \in Nat /\ batch[w][k] \in Nat  BY <1>1
    <3> HIDE DEF into
    <3>3. QED  BY <2>1, <3>1, <3>2
  <2>3. moved \in [Keys -> Nat]
    <3> HIDE DEF into
    <3>1. QED  BY <1>1, <2>1
  <2>4. Calls(moved, KeysOf(s)) = Calls(batch[w], KeysOf(s))
    <3> DEFINE T == {s} \X pools[s]
               o == <<s, Overflow>>
    <3>1. /\ T \in SUBSET KeysOf(s) /\ o \in KeysOf(s) \ T
          /\ \A k \in KeysOf(s) : k[2] \in pools[s] <=> k \in T
          /\ \A k \in KeysOf(s) : k[2] = Overflow <=> k = o
      BY <1>1, <1>3, PoolCounts
    <3>2. KeysOf(s) \subseteq Keys /\ IsFiniteSet(KeysOf(s))  BY <1>1, KeysOfFacts
    <3>3. \A k \in KeysOf(s) : batch[w][k] \in Nat  BY <1>1, <3>2
    <3>4. into = Calls(batch[w], T)  OBVIOUS
    <3> HIDE DEF T, o, into
    <3>5. moved[o] = batch[w][o] + Calls(batch[w], T)  BY <3>1, <3>2, <3>4
    <3>6. \A k \in T : moved[k] = 0  BY <3>1, <3>2
    <3>7. \A k \in (KeysOf(s) \ T) \ {o} : moved[k] = batch[w][k]  BY <3>1, <3>2
    <3> HIDE DEF moved
    <3>8. QED  BY <3>1, <3>2, <3>3, <3>5, <3>6, <3>7, CallsGathered
  <2> HIDE DEF moved, stored
  <2>5. Calls(stored, KeysOf(s)) = Calls(buckets, KeysOf(s)) + Calls(moved, KeysOf(s))
    BY <1>1, <2>2, <2>3, AddedCalls
  <2>6. QED  BY <2>4, <2>5 DEF stored
<1>5. CASE s \notin view[w].live
  <2>1. s \notin BatchServers(w)  BY <1>5 DEF KInv, Alive
  <2>2. \A k \in Keys : k[1] = s => batch[w][k] = 0
    <3> SUFFICES ASSUME NEW k \in Keys, k[1] = s PROVE batch[w][k] = 0  OBVIOUS
    <3>1. ~(batch[w][k] > 0)  BY <2>1 DEF BatchServers, Held
    <3>2. batch[w][k] \in Nat  BY <1>1
    <3>3. QED  BY <3>1, <3>2
  <2>3. Calls(batch[w], KeysOf(s)) = 0  BY <1>1, <2>2, NoCalls
  <2>4. \A k \in Keys : k[1] = s => stored[k] = buckets[k]  BY <1>2, <1>5 DEF Upserted
  <2> HIDE DEF stored
  <2>5. Calls(stored, KeysOf(s)) = Calls(buckets, KeysOf(s))  BY <1>1, <2>4, SameCalls
  <2>6. Calls(buckets, KeysOf(s)) \in Nat  BY <1>1, CallsTyped DEF KInv
  <2>7. QED  BY <2>3, <2>5, <2>6 DEF stored
<1>6. QED  BY <1>4, <1>5

LEMMA CountsWrite ==
    ASSUME IInv, KInv, NEW w \in Workers, Write(w)
    PROVE  KInv'
<1>1. /\ UNCHANGED <<rows, pending, inflight, flushing, batch, forgetting, recorded>>
      /\ at[w] = "read" /\ at' = [at EXCEPT ![w] = "written"]
  BY DEF Write, memory, ghosts
<1>2. PICK pools \in [Servers -> SUBSET Tools] : buckets' = Swept(w, Upserted(w, pools))
  BY DEF Write
<1>3. flushing = w /\ w \in Workers  BY <1>1 DEF IInv, Serial, Flying
<1>4. \A v \in Workers : at'[v] = IF v = w THEN "written" ELSE at[v]  BY <1>1 DEF IInv, Typed
<1>5. \A v \in Workers : at'[v] # "read"
  BY <1>3, <1>4 DEF IInv, Serial, Flying
<1>6. Detached = batch[w] /\ Detached' = Nothing
  BY <1>1, <1>3, <1>4 DEF Detached, Unwritten
<1>7. Sorted'
  <2>1. ASSUME NEW k \in Keys PROVE buckets'[k] \in Nat
    <3>1. /\ k[1] \in Servers /\ pools[k[1]] \in SUBSET Tools
          /\ buckets[k] \in Nat /\ batch[w][k] \in Nat
      BY DEF Keys, KInv, Sorted, IInv, Typed
    <3>2. Calls(batch[w], {k[1]} \X pools[k[1]]) \in Nat
      <4>1. ASSUME NEW t \in Servers, NEW pool \in SUBSET Tools
            PROVE  Calls(batch[w], {t} \X pool) \in Nat
        BY PoolCounts
      <4>2. QED  BY <3>1, <4>1
    <3>3. Upserted(w, pools)[k] \in Nat  BY <3>1, <3>2 DEF Upserted
    <3>4. QED  BY <1>2, <3>3 DEF Swept
  <2>2. buckets' = [k \in Keys |-> buckets'[k]]  BY <1>2 DEF Swept
  <2>3. buckets' \in [Keys -> Nat]  BY <2>1, <2>2
  <2>4. QED  BY <1>1, <2>3 DEF KInv, Sorted
<1>8. Reserved' /\ Guarded'  BY <1>1, <1>4 DEF KInv, Reserved, Guarded, Flying
<1>9. Alive'  BY <1>5 DEF Alive
<1>10. \A k \in Keys : Nothing[k] = 0 /\ Returning'[k] = 0  BY <1>6 DEF Nothing, Returning
<1>11. ASSUME NEW t \in Servers
       PROVE  /\ Calls(Detached', KeysOf(t)) = 0 /\ Calls(Returning', KeysOf(t)) = 0
              /\ Calls(pending, KeysOf(t)) \in Nat /\ Calls(Returning, KeysOf(t)) \in Nat
              /\ Calls(buckets, KeysOf(t)) \in Nat /\ Calls(Detached, KeysOf(t)) \in Nat
              /\ recorded[t] \in Nat
  <2>1. Calls(Nothing, KeysOf(t)) = 0 /\ Calls(Returning', KeysOf(t)) = 0  BY <1>10, NoCalls
  <2>2. QED  BY <1>6, <2>1, CallsTyped DEF KInv, Sorted
<1>12. Kept'
  <2> SUFFICES ASSUME NEW t \in rows
               PROVE  recorded[t] = Calls(pending, KeysOf(t)) + Calls(Detached', KeysOf(t))
                                    + Calls(buckets', KeysOf(t))
    BY <1>1 DEF Kept
  <2>1. t \in Servers  BY DEF KInv, Sorted
  <2>2. recorded[t] = Calls(pending, KeysOf(t)) + Calls(Detached, KeysOf(t)) + Calls(buckets, KeysOf(t))
    BY DEF KInv, Kept
  <2>3. Calls(buckets', KeysOf(t)) = Calls(buckets, KeysOf(t)) + Calls(Detached, KeysOf(t))
    BY <1>1, <1>2, <1>6, WrittenCalls
  <2>4. QED  BY <1>11, <2>1, <2>2, <2>3
<1>13. Later'
  <2> SUFFICES ASSUME NEW t \in Servers \ (rows \cup forgetting)
               PROVE  Calls(pending, KeysOf(t)) + Calls(Returning', KeysOf(t)) <= recorded[t]
    BY <1>1 DEF Later
  <2>1. Calls(pending, KeysOf(t)) + Calls(Returning, KeysOf(t)) <= recorded[t]  BY DEF KInv, Later
  <2>2. QED  BY <1>11, <2>1
<1>14. QED  BY <1>7, <1>8, <1>9, <1>12, <1>13 DEF KInv

\* _settle and _restore: of an existing server, all that is detached is reserved
\* and comes back; of a forgotten one, what was reserved again since.
LEMMA CountsEnd ==
    ASSUME IInv, KInv, NEW w \in Workers, Restore(w) \/ Settle(w)
    PROVE  KInv'
<1>1. /\ UNCHANGED <<rows, buckets, view, forgetting, recorded>>
      /\ Ends(w) /\ at[w] \in {"failed", "written"}
  BY DEF Restore, Settle, storage, ghosts
<1>2. flushing = w  BY <1>1 DEF IInv, Serial, Flying
<1>3. /\ inflight' = Settled(w) /\ batch' = [batch EXCEPT ![w] = Nothing] /\ flushing' = NoWorker
      /\ at' = [at EXCEPT ![w] = IF w = Final THEN "over" ELSE "idle"]
  BY <1>1, <1>2 DEF Ends
<1>4. \A v \in Workers : at'[v] \notin Flying
  <2>1. \A v \in Workers \ {w} : at[v] \notin Flying  BY <1>2 DEF IInv, Serial
  <2>2. \A v \in Workers : at'[v] = IF v = w THEN IF w = Final THEN "over" ELSE "idle" ELSE at[v]
    BY <1>3 DEF IInv, Typed
  <2>3. QED  BY <2>1, <2>2 DEF Flying
<1>5. Detached' = Nothing  BY <1>3, RecorderAssumptions DEF Detached
<1>6. \A k \in Keys : inflight'[k] = 0
  <2> SUFFICES ASSUME NEW k \in Keys PROVE inflight'[k] = 0  OBVIOUS
  <2>1. inflight[k] \in {0, 1} /\ (inflight[k] > 0 => batch[w][k] > 0)
    BY <1>2 DEF KInv, Sorted, Reserved
  <2>2. inflight'[k] = IF batch[w][k] > 0 /\ inflight[k] > 0 THEN inflight[k] - 1 ELSE inflight[k]
    BY <1>3 DEF Settled
  <2>3. QED  BY <2>1, <2>2
<1>7. \A k \in Keys : Nothing[k] = 0 /\ Returning'[k] = 0  BY <1>5 DEF Nothing, Returning
<1>8. /\ pending \in [Keys -> Nat] /\ Detached \in [Keys -> Nat] /\ Returning \in [Keys -> Nat]
  BY DetachedCounts DEF IInv, Typed, KInv
<1>9. Sorted'
  <2>1. inflight' = [k \in Keys |-> inflight'[k]]  BY <1>3 DEF Settled
  <2>2. inflight' \in [Keys -> {0, 1}]  BY <1>6, <2>1
  <2>3. QED  BY <1>1, <1>3, <2>2 DEF KInv, Sorted
<1>10. Reserved' /\ Guarded'  BY <1>4, <1>6 DEF Reserved, Guarded
<1>11. Alive'  BY <1>4 DEF Alive, Flying
<1>12. ASSUME NEW t \in Servers
       PROVE  /\ Calls(Detached', KeysOf(t)) = 0 /\ Calls(Returning', KeysOf(t)) = 0
              /\ Calls(pending', KeysOf(t)) = Calls(pending, KeysOf(t)) + Calls(Returning, KeysOf(t))
              /\ Calls(pending, KeysOf(t)) \in Nat /\ Calls(Returning, KeysOf(t)) \in Nat
              /\ Calls(buckets, KeysOf(t)) \in Nat /\ recorded[t] \in Nat
  <2>1. Calls(Nothing, KeysOf(t)) = 0 /\ Calls(Returning', KeysOf(t)) = 0  BY <1>7, NoCalls
  <2>2. \A k \in Keys : pending'[k] = pending[k] + Returning[k]
    <3>1. CASE Restore(w)
      <4>1. Detached = batch[w] /\ pending' = Restored(w)
        BY <1>2, <3>1 DEF Restore, Detached, Unwritten
      <4>2. QED  BY <4>1 DEF Restored, Plus, Returning
    <3>2. CASE Settle(w)
      <4>1. Detached = Nothing /\ pending' = pending
        BY <1>2, <3>2 DEF Settle, Detached, Unwritten
      <4>2. \A k \in Keys : Returning[k] = 0  BY <4>1 DEF Returning, Nothing
      <4>3. \A k \in Keys : pending[k] \in Nat  BY <1>8
      <4>4. QED  BY <4>1, <4>2, <4>3
    <3>3. QED  BY <3>1, <3>2
  <2>3. Calls(pending', KeysOf(t)) = Calls(pending, KeysOf(t)) + Calls(Returning, KeysOf(t))
    BY <1>8, <2>2, AddedCalls
  <2>4. QED  BY <1>5, <2>1, <2>3, CallsTyped DEF KInv, Sorted
<1>13. Kept'
  <2> SUFFICES ASSUME NEW t \in rows
               PROVE  recorded[t] = Calls(pending', KeysOf(t)) + Calls(Detached', KeysOf(t))
                                    + Calls(buckets, KeysOf(t))
    BY <1>1 DEF Kept
  <2>1. t \in Servers  BY DEF KInv, Sorted
  <2>2. recorded[t] = Calls(pending, KeysOf(t)) + Calls(Detached, KeysOf(t)) + Calls(buckets, KeysOf(t))
    BY DEF KInv, Kept
  <2>3. Calls(Returning, KeysOf(t)) = Calls(Detached, KeysOf(t))
    <3> SUFFICES ASSUME NEW k \in Keys, k[1] = t PROVE Returning[k] = Detached[k]
      BY <1>8, <2>1, SameCalls
    <3>1. Detached[k] \in Nat /\ Returning[k] = IF inflight[k] > 0 THEN Detached[k] ELSE 0
      BY <1>8 DEF Returning
    <3>2. CASE Detached[k] > 0
      <4>1. Detached = batch[w]
        <5>1. ~(Nothing[k] > 0)  BY <1>7
        <5>2. QED  BY <1>2, <3>2, <5>1 DEF Detached, Unwritten
      <4>2. inflight[k] > 0  BY <1>1, <3>2, <4>1 DEF KInv, Guarded, Flying
      <4>3. QED  BY <3>1, <4>2
    <3>3. QED  BY <3>1, <3>2
  <2>4. QED  BY <1>12, <2>1, <2>2, <2>3
<1>14. Later'
  <2> SUFFICES ASSUME NEW t \in Servers \ (rows \cup forgetting)
               PROVE  Calls(pending', KeysOf(t)) + Calls(Returning', KeysOf(t)) <= recorded[t]
    BY <1>1 DEF Later
  <2>1. Calls(pending, KeysOf(t)) + Calls(Returning, KeysOf(t)) <= recorded[t]  BY DEF KInv, Later
  <2>2. QED  BY <1>12, <2>1
<1>15. QED  BY <1>9, <1>10, <1>11, <1>13, <1>14 DEF KInv

LEMMA CountsKeep == IInv /\ KInv /\ [Next]_vars => KInv'
<1> SUFFICES ASSUME IInv, KInv, [Next]_vars PROVE KInv'
  OBVIOUS
<1>1. ASSUME NEW s \in Servers, NEW name \in Names, Record(s, name) PROVE KInv'
  BY <1>1, CountsRecord
<1>2. ASSUME NEW s \in Servers, ToolsDiscovered(s) \/ ToolsCleared(s) PROVE KInv'
  BY <1>2, CountsQuiet DEF ToolsDiscovered, ToolsCleared, ghosts
<1>3. ASSUME NEW s \in Servers, DeleteServer(s) PROVE KInv'  BY <1>3, CountsDelete
<1>4. ASSUME NEW s \in Servers, Forget(s) PROVE KInv'  BY <1>4, CountsForget
<1>5. ASSUME NEW w \in Workers, FlushCalled(w) PROVE KInv'  BY <1>5, CountsFlushCalled
<1>6. ASSUME NEW w \in Workers, Flush(w) PROVE KInv'
  <2>1. CASE Take(w)  BY <2>1, CountsTake
  <2>2. CASE ReadState(w)  BY <2>2, CountsRead
  <2>3. CASE Write(w)  BY <2>3, CountsWrite
  <2>4. CASE WriteFails(w)  BY <2>4, CountsFail
  <2>5. CASE Restore(w) \/ Settle(w)  BY <2>5, CountsEnd
  <2>6. QED  BY <1>6, <2>1, <2>2, <2>3, <2>4, <2>5 DEF Flush
<1>7. CASE Close \/ Exit \/ UNCHANGED vars
  BY <1>7, CountsQuiet DEF Close, Exit, vars, storage, ghosts
<1>8. QED  BY <1>1, <1>2, <1>3, <1>4, <1>5, <1>6, <1>7 DEF Next

-----------------------------------------------------------------------------
(* Types.                                                                  *)

\* The rest of the types: what a write has read, and the failures.
Read ==
    /\ view \in [Workers -> [live : SUBSET Servers, stored : SUBSET Keys,
                             exposed : [Servers -> SUBSET Tools]]]
    /\ failures \in 0 .. MaxFailures

LEMMA ReadInit == Init => Read
<1> SUFFICES ASSUME Init PROVE Read  OBVIOUS
<1>1. NoView \in [live : SUBSET Servers, stored : SUBSET Keys, exposed : [Servers -> SUBSET Tools]]
  BY DEF NoView
<1>2. QED  BY <1>1, RecorderAssumptions DEF Init, Read

LEMMA ReadKeeps == KInv /\ JInv /\ Read /\ [Next]_vars => Read'
<1> SUFFICES ASSUME KInv, JInv, Read, [Next]_vars PROVE Read'
  OBVIOUS
<1> DEFINE Views == [live : SUBSET Servers, stored : SUBSET Keys, exposed : [Servers -> SUBSET Tools]]
<1>1. view \in [Workers -> Views] /\ failures \in 0 .. MaxFailures  BY DEF Read
<1>2. NoView \in Views  BY DEF NoView
<1>3. ASSUME UNCHANGED <<view, failures>> PROVE Read'  BY <1>3 DEF Read
<1>4. ASSUME NEW w \in Workers, ReadState(w) PROVE Read'
  <2> DEFINE seen == [live |-> rows \cap BatchServers(w), stored |-> Held(buckets), exposed |-> exposed]
  <2>1. view' = [view EXCEPT ![w] = seen] /\ failures' = failures  BY <1>4 DEF ReadState
  <2>2. seen \in Views
    <3>1. rows \subseteq Servers /\ Held(buckets) \subseteq Keys /\ exposed \in [Servers -> SUBSET Tools]
      BY DEF KInv, Sorted, Held, JInv, Shown
    <3>2. QED  BY <3>1
  <2> HIDE DEF seen, Views
  <2>3. view' \in [Workers -> Views]  BY <1>1, <2>1, <2>2
  <2>4. QED  BY <1>1, <2>1, <2>3 DEF Read, Views
<1>5. ASSUME NEW w \in Workers, Write(w) \/ WriteFails(w) PROVE Read'
  <2>1. view' = [view EXCEPT ![w] = NoView]  BY <1>5 DEF Write, WriteFails
  <2>2. failures' \in 0 .. MaxFailures
    BY <1>1, <1>5, RecorderAssumptions DEF Write, WriteFails
  <2> HIDE DEF Views
  <2>3. view' \in [Workers -> Views]  BY <1>1, <1>2, <2>1
  <2>4. QED  BY <2>2, <2>3 DEF Read, Views
<1>6. ASSUME NEW s \in Servers, (\E name \in Names : Record(s, name)) \/ ToolsDiscovered(s)
                                \/ ToolsCleared(s) \/ DeleteServer(s) \/ Forget(s)
      PROVE  Read'
  BY <1>3, <1>6 DEF Record, ToolsDiscovered, ToolsCleared, DeleteServer, Forget, threads
<1>7. ASSUME NEW w \in Workers, FlushCalled(w) \/ Take(w) \/ Restore(w) \/ Settle(w) PROVE Read'
  BY <1>3, <1>7 DEF FlushCalled, Take, Restore, Settle
<1>8. CASE Close \/ Exit \/ UNCHANGED vars  BY <1>3, <1>8 DEF Close, Exit, vars, threads
<1>9. QED  BY <1>4, <1>5, <1>6, <1>7, <1>8 DEF Next, Flush

\* Everything known of a reachable state.
LEMMA Everything == Spec => [](IInv /\ JInv /\ KInv /\ Read)
<1>1. Init => IInv /\ JInv /\ KInv /\ Read  BY InitIInv, BudgetInit, CountsInit, ReadInit
<1>2. IInv /\ JInv /\ KInv /\ Read /\ [Next]_vars => (IInv /\ JInv /\ KInv /\ Read)'
  BY NextKeeps, BudgetKeeps, CountsKeep, ReadKeeps
<1>3. QED  BY <1>1, <1>2, PTL DEF Spec

\* The recorder's state is always of the types the code gives it.
THEOREM RecorderTypes == Spec => []TypeOK
<1>1. IInv /\ JInv /\ KInv /\ Read => TypeOK
  <2> SUFFICES ASSUME IInv, JInv, KInv, Read PROVE TypeOK
    OBVIOUS
  <2>1. inflight \in [Keys -> 0 .. Cardinality(Workers)]
    <3>1. Cardinality(Workers) \in Nat /\ Cardinality(Workers) >= 1
      <4>1. IsFiniteSet(Workers) /\ Final \in Workers  BY RecorderAssumptions
      <4>2. Cardinality(Workers) \in Nat  BY <4>1, FS_CardinalityType
      <4>3. Cardinality(Workers) # 0  BY <4>1, FS_EmptySet
      <4>4. QED  BY <4>2, <4>3
    <3>2. {0, 1} \subseteq 0 .. Cardinality(Workers)  BY <3>1
    <3>3. inflight \in [Keys -> {0, 1}]  BY DEF KInv, Sorted
    <3>4. QED  BY <3>2, <3>3
  <2>2. at \in [Workers -> {"idle", "called", "taken", "read", "failed", "written", "over"}]
    BY DEF IInv, Typed, Flying
  <2>3. QED  BY <2>1, <2>2 DEF TypeOK, IInv, Typed, JInv, Shown, KInv, Sorted, Read
<1>2. QED  BY <1>1, Everything, PTL

-----------------------------------------------------------------------------
(* What the counts are for.                                                *)

\* Only the holder of _flush_lock has a batch that is not written.
LEMMA InMemoryIs ==
    ASSUME IInv, KInv, NEW s \in Servers
    PROVE  InMemory(s) = Calls(pending, KeysOf(s)) + Calls(Detached, KeysOf(s))
<1> DEFINE each == [w \in Workers |-> Calls(Unwritten(w), KeysOf(s))]
<1>1. \A k \in Keys : Nothing[k] = 0  BY DEF Nothing
<1>2. Calls(Nothing, KeysOf(s)) = 0  BY <1>1, NoCalls
<1>3. ASSUME NEW w \in Workers, w # flushing PROVE each[w] = 0
  <2>1. Unwritten(w) = Nothing  BY <1>3 DEF Unwritten, IInv, Serial, Flying
  <2>2. QED  BY <1>2, <2>1
<1>4. Calls(each, Workers) = Calls(Detached, KeysOf(s))
  <2>1. CASE flushing \in Workers
    <3>1. each[flushing] = Calls(Detached, KeysOf(s))  BY <2>1 DEF Detached
    <3>2. each[flushing] \in Nat  BY <3>1, CallsTyped DEF KInv
    <3> HIDE DEF each
    <3>3. Calls(each, Workers) = each[flushing]
      BY <1>3, <2>1, <3>2, RecorderAssumptions, CallsOne
    <3>4. QED  BY <3>1, <3>3
  <2>2. CASE flushing \notin Workers
    <3>1. Detached = Nothing  BY <2>2 DEF Detached
    <3>2. \A w \in Workers : each[w] = 0  BY <1>3, <2>2
    <3> HIDE DEF each
    <3>3. Calls(each, Workers) = 0  BY <3>2, RecorderAssumptions, CallsNone
    <3>4. QED  BY <1>2, <3>1, <3>3
  <2>3. QED  BY <2>1, <2>2
<1>5. QED  BY <1>4 DEF InMemory

\* Every counted call of an existing server is pending, in the batch of one flush or
\* stored, whatever deletes, failed writes and ceilings came between, and none is in
\* memory when the shutdown's flush has written (record, flush_sync, _restore).
THEOREM CountsAreKept == Spec => []CountsKept
<1>1. IInv /\ KInv => NothingLostOrDoubled
  <2> SUFFICES ASSUME IInv, KInv, NEW s \in rows
               PROVE  recorded[s] = InMemory(s) + Calls(buckets, KeysOf(s))
    BY DEF NothingLostOrDoubled
  <2>1. s \in Servers  BY DEF KInv, Sorted
  <2>2. recorded[s] = Calls(pending, KeysOf(s)) + Calls(Detached, KeysOf(s)) + Calls(buckets, KeysOf(s))
    BY DEF KInv, Kept
  <2>3. QED  BY <2>1, <2>2, InMemoryIs
<1>2. TypeOK /\ NothingLostOrDoubled /\ FinalFlushWritesAll => CountsKept  BY DEF CountsKept
<1>3. QED  BY <1>1, <1>2, RecorderTypes, Everything, FinalFlush, PTL

\* A deleted server's rows are gone, and what a forgotten one has in memory was
\* counted after forget(), even if its DELETE overlapped a flush that then failed.
THEOREM DeletedIsGone == Spec => []DeletedStaysDeleted
<1>1. IInv /\ KInv => ForgottenStaysForgotten
  <2> SUFFICES ASSUME IInv, KInv, NEW s \in Servers \ (rows \cup forgetting)
               PROVE  Calls(pending, KeysOf(s)) <= recorded[s]
    BY DEF ForgottenStaysForgotten
  <2>1. Calls(pending, KeysOf(s)) + Calls(Returning, KeysOf(s)) <= recorded[s]  BY DEF KInv, Later
  <2>2. /\ Calls(pending, KeysOf(s)) \in Nat /\ Calls(Returning, KeysOf(s)) \in Nat
        /\ recorded[s] \in Nat
    BY CallsTyped DEF KInv, Sorted
  <2>3. QED  BY <2>1, <2>2
<1>2. NoOrphanBuckets /\ ForgottenStaysForgotten => DeletedStaysDeleted
  BY DEF DeletedStaysDeleted
<1>3. QED  BY <1>1, <1>2, NoOrphans, Everything, PTL
=============================================================================
