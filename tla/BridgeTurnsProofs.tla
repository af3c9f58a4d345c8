------------------------- MODULE BridgeTurnsProofs -------------------------
(***************************************************************************)
(* Proofs about BridgeTurns, for any calls, legacy or modern, any number   *)
(* of questions and any ring: whoever is cancelled, parked, expired or     *)
(* abandoned, the child works for the lock's holder, asks its caller, and  *)
(* what it writes to stderr is shown to nobody else.  The second half is   *)
(* about ToolPolicy, the tools such a call names: for any names, policies  *)
(* and schemas.                                                            *)
(***************************************************************************)
EXTENDS BridgeTurns, ToolPolicy, SequenceTheorems, TLAPS

\* The waiters of the lock, each once.
Queued ==
    /\ \A i, j \in 1 .. Len(queue) : queue[i] = queue[j] => i = j
    /\ \A i \in 1 .. Len(queue) : stage[queue[i]] = "queued"

\* A request that has not been admitted has touched nothing.
Fresh ==
    \A c \in Calls : stage[c] \in {"new", "queued"} =>
        /\ run[c] = "none" /\ ~released[c] /\ legs[c] = 0 /\ state[c] = 0 /\ ~closed[c]
        /\ c \notin abandoned

\* What only turns do, and where a legacy call is.
Kinds ==
    \A c \in Calls :
        /\ state[c] # 0 \/ closed[c] => c \in Modern
        /\ stage[c] = "draining" => c \in Legacy /\ run[c] # "failed"
        /\ c \in Legacy /\ run[c] = "failed" => stage[c] = "open"

\* Who has the lock, until it is released.
Holding ==
    \A c \in Calls :
        /\ c \in Legacy /\ stage[c] \in {"open", "draining"} => holder = c
        /\ c \in Modern /\ run[c] # "none" /\ ~released[c] => holder = c

\* The slot is of the holder, and a modern caller's turn is in it with it.
Slotted ==
    /\ caller # NoCall => caller = holder
    /\ turn # NoCall => turn = holder
    /\ caller \in Modern => turn = caller

Served == \A c \in Calls : Working(c) /\ c \notin abandoned => holder = c

\* Who is abandoned gave up before.
GivenUp == \A c \in abandoned : closed[c] \/ (c \in Legacy /\ stage[c] = "over")

\* A call's window holds what was written while it had the child, or nothing.
Windows ==
    /\ Len(stream) <= MaxLines /\ pumped <= Len(stream)
    /\ \A c \in Calls : Working(c) /\ c \notin abandoned =>
          \/ mark[c] >= MaxLines
          \/ abandoned = {} /\ \A n \in 1 .. Len(stream) : n > mark[c] => stream[n] = c

IInv ==
    /\ TypeOK /\ Queued /\ Fresh /\ Kinds /\ Holding /\ Slotted /\ Served /\ GivenUp /\ OneLeg
    /\ Windows /\ RightCaller /\ StderrIsOwn

-----------------------------------------------------------------------------
LEMMA InitHolds == Init => IInv
<1> SUFFICES ASSUME Init PROVE IInv
  OBVIOUS
<1>1. TypeOK  BY TurnAssumptions DEF Init, TypeOK
<1>2. Queued /\ Fresh /\ Kinds /\ Holding /\ Served /\ GivenUp /\ OneLeg
  BY DEF Init, Queued, Fresh, Kinds, Holding, Served, GivenUp, OneLeg, Working, Parked, Legacy
<1>3. Slotted  BY TurnAssumptions DEF Init, Slotted
<1>4. Windows /\ RightCaller /\ StderrIsOwn
  BY TurnAssumptions DEF Init, Windows, Working, RightCaller, StderrIsOwn
<1>5. QED  BY <1>1, <1>2, <1>3, <1>4 DEF IInv

-----------------------------------------------------------------------------
(* The queue.                                                              *)

\* Taking one of distinct elements out of a sequence.
Without(q, n) == SubSeq(q, 1, n - 1) \o SubSeq(q, n + 1, Len(q))

LEMMA WithoutOne ==
  ASSUME NEW S, NEW q \in Seq(S), NEW n \in 1 .. Len(q),
         \A i, j \in 1 .. Len(q) : q[i] = q[j] => i = j
  PROVE  /\ Without(q, n) \in Seq(S)
         /\ \A i, j \in 1 .. Len(Without(q, n)) : Without(q, n)[i] = Without(q, n)[j] => i = j
         /\ \A i \in 1 .. Len(Without(q, n)) :
               /\ Without(q, n)[i] # q[n]
               /\ \E j \in 1 .. Len(q) : Without(q, n)[i] = q[j]
<1> DEFINE a == SubSeq(q, 1, n - 1)
           b == SubSeq(q, n + 1, Len(q))
           w == a \o b
<1>0. Len(q) \in Nat /\ n \in Nat /\ n >= 1 /\ n <= Len(q)  OBVIOUS
<1>1. a \in Seq(S) /\ Len(a) = n - 1 /\ \A i \in 1 .. n - 1 : a[i] = q[i]
  BY <1>0, SubSeqProperties
<1>2. b \in Seq(S) /\ Len(b) = Len(q) - n /\ \A i \in 1 .. Len(q) - n : b[i] = q[n + i]
  BY <1>0, SubSeqProperties
<1>3. Without(q, n) = w  BY DEF Without
<1> HIDE DEF a, b
<1>4. /\ w \in Seq(S) /\ Len(w) = Len(q) - 1
      /\ \A i \in 1 .. Len(w) : w[i] = IF i < n THEN q[i] ELSE q[i + 1]
  <2>1. a \in Seq(S) /\ b \in Seq(S)  BY <1>1, <1>2
  <2>2. w \in Seq(S) /\ Len(w) = Len(a) + Len(b)
        /\ \A i \in 1 .. Len(a) + Len(b) : w[i] = IF i <= Len(a) THEN a[i] ELSE b[i - Len(a)]
    BY <2>1, ConcatProperties
  <2> HIDE DEF w
  <2>3. w \in Seq(S) /\ Len(w) = (n - 1) + (Len(q) - n)
        /\ \A i \in 1 .. (n - 1) + (Len(q) - n) : w[i] = IF i <= n - 1 THEN a[i] ELSE b[i - (n - 1)]
    BY <1>1, <1>2, <2>2
  <2>4. (n - 1) + (Len(q) - n) = Len(q) - 1  BY <1>0
  <2>5. ASSUME NEW i \in 1 .. Len(q) - 1 PROVE w[i] = IF i < n THEN q[i] ELSE q[i + 1]
    <3>1. CASE i < n
      <4>1. i \in 1 .. n - 1 /\ i <= n - 1  BY <1>0, <2>5, <3>1
      <4>2. w[i] = a[i]  BY <2>3, <2>4, <4>1
      <4>3. QED  BY <1>1, <3>1, <4>1, <4>2
    <3>2. CASE i >= n
      <4>1. i - (n - 1) \in 1 .. Len(q) - n /\ n + (i - (n - 1)) = i + 1
        BY <1>0, <2>5, <3>2
      <4>2. w[i] = b[i - (n - 1)]
        <5>1. ~(i <= n - 1)  BY <1>0, <2>5, <3>2
        <5>2. i \in 1 .. (n - 1) + (Len(q) - n)  BY <2>4, <2>5
        <5>3. QED  BY <2>3, <5>1, <5>2
      <4>3. b[i - (n - 1)] = q[n + (i - (n - 1))]  BY <1>2, <4>1
      <4>4. w[i] = q[i + 1]  BY <4>1, <4>2, <4>3
      <4>5. ~(i < n)  BY <1>0, <2>5, <3>2
      <4>6. QED  BY <4>4, <4>5
    <3>3. QED  BY <1>0, <3>1, <3>2
  <2>6. QED  BY <2>3, <2>4, <2>5
<1> HIDE DEF w
<1>5. \A i, j \in 1 .. Len(w) : w[i] = w[j] => i = j
  <2> TAKE i, j \in 1 .. Len(w)
  <2>1. /\ i \in 1 .. Len(q) /\ i + 1 \in 1 .. Len(q) /\ j \in 1 .. Len(q) /\ j + 1 \in 1 .. Len(q)
        /\ i \in Nat /\ j \in Nat
    BY <1>0, <1>4
  <2>2. /\ w[i] = IF i < n THEN q[i] ELSE q[i + 1]
        /\ w[j] = IF j < n THEN q[j] ELSE q[j + 1]
    BY <1>4
  <2>3. CASE i < n /\ j < n  BY <2>1, <2>2, <2>3
  <2>4. CASE i < n /\ ~(j < n)
    <3>1. w[i] = w[j] => i = j + 1  BY <2>1, <2>2, <2>4
    <3>2. QED  BY <1>0, <2>1, <2>4, <3>1
  <2>5. CASE ~(i < n) /\ j < n
    <3>1. w[i] = w[j] => i + 1 = j  BY <2>1, <2>2, <2>5
    <3>2. QED  BY <1>0, <2>1, <2>5, <3>1
  <2>6. CASE ~(i < n) /\ ~(j < n)
    <3>1. w[i] = w[j] => i + 1 = j + 1  BY <2>1, <2>2, <2>6
    <3>2. QED  BY <2>1, <3>1
  <2>7. QED  BY <2>3, <2>4, <2>5, <2>6
<1>6. ASSUME NEW i \in 1 .. Len(w)
      PROVE  w[i] # q[n] /\ \E j \in 1 .. Len(q) : w[i] = q[j]
  <2>1. i \in 1 .. Len(q) /\ i + 1 \in 1 .. Len(q) /\ i \in Nat  BY <1>0, <1>4
  <2>2. w[i] = IF i < n THEN q[i] ELSE q[i + 1]  BY <1>4
  <2>3. CASE i < n
    <3>1. w[i] = q[i] /\ i # n  BY <1>0, <2>1, <2>2, <2>3
    <3>2. QED  BY <2>1, <3>1
  <2>4. CASE ~(i < n)
    <3>1. w[i] = q[i + 1] /\ i + 1 # n  BY <1>0, <2>1, <2>2, <2>4
    <3>2. QED  BY <2>1, <3>1
  <2>5. QED  BY <2>3, <2>4
<1>7. QED  BY <1>3, <1>4, <1>5, <1>6

\* The others neither enter nor leave the queue.
LEMMA QueueKept ==
  ASSUME IInv, queue' = queue,
         \A c \in Calls : stage[c] = "queued" => stage'[c] = "queued"
  PROVE  queue' \in Seq(Calls) /\ Queued'
<1>1. queue \in Seq(Calls) /\ \A i \in 1 .. Len(queue) : queue[i] \in Calls
  BY ElementOfSeq DEF IInv, TypeOK
<1>2. QED  BY <1>1 DEF IInv, Queued

LEMMA QueueStep == IInv /\ [Next]_vars => queue' \in Seq(Calls) /\ Queued'
<1> SUFFICES ASSUME IInv, [Next]_vars PROVE queue' \in Seq(Calls) /\ Queued'
  OBVIOUS
<1>0. /\ queue \in Seq(Calls) /\ Len(queue) \in Nat
      /\ stage \in [Calls -> {"new", "queued", "open", "draining", "over"}]
      /\ \A i, j \in 1 .. Len(queue) : queue[i] = queue[j] => i = j
      /\ \A i \in 1 .. Len(queue) : queue[i] \in Calls /\ stage[queue[i]] = "queued"
  BY DEF IInv, TypeOK, Queued
<1>a. DOMAIN queue = 1 .. Len(queue)  BY <1>0, LenProperties
<1>1. ASSUME NEW c \in Calls, Arrive(c) PROVE queue' \in Seq(Calls) /\ Queued'
  <2>1. /\ queue' \in Seq(Calls) /\ Len(queue') = Len(queue) + 1
        /\ \A i \in 1 .. Len(queue) : queue'[i] = queue[i]
        /\ queue'[Len(queue) + 1] = c
    BY <1>0, <1>1, AppendProperties DEF Arrive
  <2>2. stage'[c] = "queued" /\ \A d \in Calls \ {c} : stage'[d] = stage[d]
    BY <1>0, <1>1 DEF Arrive
  <2>3. \A i \in 1 .. Len(queue) : queue[i] # c  BY <1>0, <1>1 DEF Arrive
  <2>4. \A i \in 1 .. Len(queue') : i \in 1 .. Len(queue) \/ i = Len(queue) + 1
    BY <1>0, <2>1
  <2>5. \A i, j \in 1 .. Len(queue') : queue'[i] = queue'[j] => i = j
    BY <1>0, <2>1, <2>3, <2>4
  <2>6. \A i \in 1 .. Len(queue') : stage'[queue'[i]] = "queued"
    BY <1>0, <2>1, <2>2, <2>3, <2>4
  <2>7. QED  BY <2>1, <2>5, <2>6 DEF Queued
<1>2. ASSUME NEW c \in Calls, CancelQueued(c) PROVE queue' \in Seq(Calls) /\ Queued'
  <2>1. PICK n \in 1 .. Len(queue) :
          queue[n] = c /\ queue' = Without(queue, n)
    BY <1>a, <1>2 DEF CancelQueued, Without
  <2>2. /\ queue' \in Seq(Calls)
        /\ \A i, j \in 1 .. Len(queue') : queue'[i] = queue'[j] => i = j
        /\ \A i \in 1 .. Len(queue') :
              queue'[i] # queue[n] /\ \E j \in 1 .. Len(queue) : queue'[i] = queue[j]
    BY <1>0, <2>1, WithoutOne
  <2>3. \A d \in Calls \ {c} : stage'[d] = stage[d]  BY <1>0, <1>2 DEF CancelQueued
  <2>4. ASSUME NEW i \in 1 .. Len(queue') PROVE stage'[queue'[i]] = "queued"
    <3>1. PICK j \in 1 .. Len(queue) : queue'[i] = queue[j]  BY <2>2
    <3>2. queue[j] \in Calls \ {c}  BY <1>0, <2>1, <2>2, <3>1
    <3>3. QED  BY <1>0, <2>3, <3>1, <3>2
  <2>5. QED  BY <2>2, <2>4 DEF Queued
<1>3. ASSUME NEW c \in Calls, Admit(c) PROVE queue' \in Seq(Calls) /\ Queued'
  <2>1. queue # <<>> /\ c = queue[1] /\ queue' = Tail(queue)  BY <1>0, <1>3 DEF Admit
  <2>2. /\ queue' \in Seq(Calls) /\ Len(queue') = Len(queue) - 1
        /\ \A i \in 1 .. Len(queue') : queue'[i] = queue[i + 1]
    BY <1>0, <2>1, HeadTailProperties
  <2>3. \A d \in Calls \ {c} : stage'[d] = stage[d]  BY <1>0, <1>3 DEF Admit
  <2>4. \A i \in 1 .. Len(queue') :
            i + 1 \in 1 .. Len(queue) /\ queue[i + 1] # c /\ queue'[i] = queue[i + 1]
    BY <1>0, <2>1, <2>2
  <2>5. \A i \in 1 .. Len(queue') : stage'[queue'[i]] = "queued"
    BY <1>0, <2>3, <2>4
  <2>6. \A i, j \in 1 .. Len(queue') : queue'[i] = queue'[j] => i = j
    <3> TAKE i, j \in 1 .. Len(queue')
    <3>1. queue'[i] = queue'[j] => i + 1 = j + 1  BY <1>0, <2>4
    <3>2. QED  BY <3>1
  <2>7. QED  BY <2>2, <2>5, <2>6 DEF Queued
<1>4. ASSUME NEW c \in Calls, CallStep(c), ~Arrive(c), ~CancelQueued(c), ~Admit(c)
      PROVE  queue' \in Seq(Calls) /\ Queued'
  <2>1. CASE LegReturns(c)
    <3>1. stage[c] # "queued"
      BY <2>1 DEF LegReturns, IInv, Fresh
    <3>2. queue' = queue /\ stage' = [stage EXCEPT ![c] = "over"]  BY <2>1 DEF LegReturns, lock
    <3>3. QED  BY <1>0, <3>1, <3>2, QueueKept
  <2>2. CASE LegacyReturns(c) \/ LegacyCancelled(c) \/ LegacyDrained(c)
    <3>1. stage[c] # "queued" /\ queue' = queue
          /\ \E v \in {"over", "draining"} : stage' = [stage EXCEPT ![c] = v]
      BY <2>2 DEF LegacyReturns, LegacyCancelled, LegacyDrained, LegacyLeaves, lock
    <3>2. QED  BY <1>0, <3>1, QueueKept
  <2>3. CASE stage' = stage /\ queue' = queue  BY <2>3, QueueKept
  <2>4. \/ LegReturns(c) \/ LegacyReturns(c) \/ LegacyCancelled(c) \/ LegacyDrained(c)
        \/ stage' = stage /\ queue' = queue
    BY <1>4
    DEF CallStep, ChildAsks, AskSettles, ChildWrites, ChildAnswers, Attach, Park, Retry,
        LegCancelled, Expire, Drained, Finished, lock
  <2>5. QED  BY <2>1, <2>2, <2>3, <2>4
<1>5. CASE Pump \/ ChildDies  BY <1>5, QueueKept DEF Pump, ChildDies, lock
<1>6. CASE UNCHANGED vars  BY <1>6, QueueKept DEF vars, lock
<1>7. QED  BY <1>1, <1>2, <1>3, <1>4, <1>5, <1>6 DEF Next

-----------------------------------------------------------------------------
(* Types.                                                                  *)

LEMMA Current1 ==
  ASSUME TypeOK PROVE Reaches \in Calls \cup {NoCall} /\ (turn # NoCall /\ Reaches # NoCall => Reaches = turn)
BY TurnAssumptions DEF TypeOK, Reaches, Current

LEMMA Within == \A m, n \in Nat : m <= n => 1 .. m \subseteq 1 .. n
OBVIOUS

LEMMA OneFewer == \A n \in Nat : n + 1 \in Nat /\ (n > 0 => n - 1 \in Nat)
OBVIOUS

LEMMA TypeStep == IInv /\ [Next]_vars => TypeOK'
<1> SUFFICES ASSUME IInv, [Next]_vars PROVE TypeOK'
  OBVIOUS
<1>0. TypeOK /\ queue' \in Seq(Calls)  BY QueueStep DEF IInv
<1> USE <1>0 DEF TypeOK
<1>1. ASSUME NEW c \in Calls, Arrive(c) \/ CancelQueued(c) PROVE TypeOK'
  <2>1. \E v \in {"queued", "over"} : stage' = [stage EXCEPT ![c] = v]
    BY <1>1 DEF Arrive, CancelQueued
  <2>2. UNCHANGED <<holder, slot, abandoned, run, turns, released, asks, stderr>>
    BY <1>1 DEF Arrive, CancelQueued
  <2>3. stage' \in [Calls -> {"new", "queued", "open", "draining", "over"}]  BY <2>1
  <2>4. QED  BY <2>2, <2>3 DEF slot, turns, asks, stderr
<1>2. ASSUME NEW c \in Calls, Admit(c) PROVE TypeOK'
  <2>1. mark' \in [Calls -> Nat]  BY <1>2, TurnAssumptions, LenProperties DEF Admit, Mark
  <2>2. /\ caller' \in Calls \cup {NoCall} /\ turn' \in Modern \cup {NoCall}
        /\ holder' \in Calls \cup {NoCall} /\ legs' \in [Calls -> Nat]
        /\ stage' \in [Calls -> {"new", "queued", "open", "draining", "over"}]
        /\ run' \in [Calls -> {"none", "busy", "failed", "done"}]
    BY <1>2 DEF Admit
  <2>3. UNCHANGED <<abandoned, state, minted, closed, asked, released, asks, stream, pumped, attached>>
    BY <1>2 DEF Admit
  <2>4. QED  BY <2>1, <2>2, <2>3 DEF asks
<1>3. ASSUME NEW c \in Calls, NEW i \in 1 .. MaxAsks, ChildAsks(c, i) PROVE TypeOK'
  <2>1. <<c, i>> \in Asks /\ Reaches \in Calls \cup {NoCall}  BY Current1 DEF Asks
  <2>2. whom' \in [Asks -> Calls \cup {NoCall}]  BY <1>3, <2>1 DEF ChildAsks
  <2>3. ask' \in [Asks -> {"unsent", "pending", "forwarded", "settled"}]
    BY <1>3, <2>1 DEF ChildAsks
  <2>4. asked' \in [Calls -> BOOLEAN]  BY <1>3 DEF ChildAsks
  <2>5. QED  BY <1>3, <2>2, <2>3, <2>4 DEF ChildAsks, lock, slot, stderr
<1>4. ASSUME NEW c \in Calls, NEW i \in 1 .. MaxAsks, AskSettles(c, i) PROVE TypeOK'
  BY <1>4 DEF AskSettles, lock, slot, turns, stderr
<1>5. ASSUME NEW c \in Calls, ChildWrites(c) PROVE TypeOK'
  <2>1. Under(c) \in Calls \cup {NoCall}  BY DEF Under
  <2>2. stream' \in Seq(Calls \cup {NoCall})  BY <1>5, <2>1, AppendProperties DEF ChildWrites
  <2>3. QED  BY <1>5, <2>2 DEF ChildWrites, lock, slot, turns, asks
<1>6. CASE Pump
  BY <1>6, LenProperties DEF Pump, lock, slot, turns, asks
<1>7. ASSUME NEW c \in Calls, NEW failed \in BOOLEAN, ChildAnswers(c, failed) PROVE TypeOK'
  BY <1>7 DEF ChildAnswers, lock, slot, turns, asks, stderr
<1>8. ASSUME NEW c \in Calls, Attach(c) PROVE TypeOK'
  <2>1. Window(c) \in SUBSET (Calls \cup {NoCall})
    <3>1. \A n \in 1 .. Len(stream) : stream[n] \in Calls \cup {NoCall}  BY ElementOfSeq
    <3>2. pumped <= Len(stream) /\ Len(stream) \in Nat /\ pumped \in Nat
      BY LenProperties DEF IInv, Windows
    <3>3. \A n \in 1 .. pumped : stream[n] \in Calls \cup {NoCall}  BY <3>1, <3>2, Within
    <3>4. ASSUME NEW d \in Window(c) PROVE d \in Calls \cup {NoCall}
      <4>1. PICK n \in 1 .. pumped : d = stream[n]  BY <3>4 DEF Window
      <4>2. QED  BY <3>3, <4>1
    <3>5. QED  BY <3>4
  <2>2. /\ attached' \in [Calls -> SUBSET (Calls \cup {NoCall})]
        /\ run' \in [Calls -> {"none", "busy", "failed", "done"}]
        /\ UNCHANGED <<lock, slot, abandoned, stage, turns, released, asks, stream, pumped, mark>>
    BY <1>8, <2>1 DEF Attach
  <2>3. QED  BY <2>2 DEF lock, slot, turns, asks
<1>9. CASE ChildDies
  <2>1. run' \in [Calls -> {"none", "busy", "failed", "done"}]  BY <1>9 DEF ChildDies
  <2>2. ask' \in [Asks -> {"unsent", "pending", "forwarded", "settled"}]  BY <1>9 DEF ChildDies
  <2>3. UNCHANGED <<lock, slot, abandoned, stage, turns, released, whom, sent, stderr>>
    BY <1>9 DEF ChildDies
  <2>4. QED  BY <2>1, <2>2, <2>3 DEF lock, slot, turns, stderr
<1>10. ASSUME NEW c \in Calls, LegacyReturns(c) \/ LegacyCancelled(c) \/ LegacyDrained(c)
       PROVE  TypeOK'
  <2>1. CASE LegacyReturns(c)
    BY <2>1 DEF LegacyReturns, LegacyLeaves, asks, stderr
  <2>2. CASE LegacyCancelled(c)
    <3>1. CASE LegacyLeaves(c)
      <4>1. /\ UNCHANGED <<abandoned, state, minted, closed, asked, asks, stderr>>
            /\ run' \in [Calls -> {"none", "busy", "failed", "done"}]
        BY <2>2, <3>1 DEF LegacyCancelled, turns
      <4>2. QED  BY <3>1, <4>1 DEF LegacyLeaves, asks, stderr
    <3>2. CASE ~LegacyLeaves(c)
      BY <2>2, <3>2 DEF LegacyCancelled, lock, turns, asks, stderr
    <3>3. QED  BY <3>1, <3>2
  <2>3. CASE LegacyDrained(c)
    BY <2>3 DEF LegacyDrained, LegacyLeaves, asks, stderr
  <2>4. QED  BY <1>10, <2>1, <2>2, <2>3
<1>11. ASSUME NEW c \in Calls, LegReturns(c) PROVE TypeOK'
  <2>1. legs[c] \in Nat /\ legs[c] > 0 /\ legs' = [legs EXCEPT ![c] = @ - 1]
    BY <1>11 DEF LegReturns
  <2>2. legs' \in [Calls -> Nat]  BY <2>1, OneFewer
  <2>3. /\ stage' \in [Calls -> {"new", "queued", "open", "draining", "over"}]
        /\ UNCHANGED <<lock, slot, abandoned, run, state, minted, closed, asked, released, asks, stderr>>
    BY <1>11 DEF LegReturns
  <2>4. QED  BY <2>2, <2>3 DEF lock, slot, asks, stderr
<1>12. ASSUME NEW c \in Calls, Park(c) PROVE TypeOK'
  <2>1. Pending(c) \ sent \in SUBSET Asks  BY DEF Pending
  <2>2. CASE Pending(c) \ sent = {}
    BY <1>12, <2>2 DEF Park, lock, slot, stderr
  <2>3. CASE Pending(c) \ sent # {}
    <3>1. /\ sent' = sent \cup (Pending(c) \ sent)
          /\ minted' = [minted EXCEPT ![c] = @ + 1] /\ state' = [state EXCEPT ![c] = minted[c] + 1]
          /\ legs[c] > 0 /\ legs' = [legs EXCEPT ![c] = @ - 1]
          /\ asked' = [asked EXCEPT ![c] = FALSE]
          /\ UNCHANGED <<lock, slot, abandoned, stage, run, closed, released, ask, whom, stderr>>
      BY <1>12, <2>3 DEF Park
    <3>2. legs[c] - 1 \in Nat /\ minted[c] + 1 \in Nat
      <4>1. legs[c] \in Nat /\ minted[c] \in Nat  OBVIOUS
      <4>2. legs[c] > 0  BY <3>1
      <4>3. QED  BY <4>1, <4>2, OneFewer
    <3>3. legs' \in [Calls -> Nat] /\ minted' \in [Calls -> Nat] /\ state' \in [Calls -> Nat]
      <4>1. legs' \in [Calls -> Nat]  BY <3>1, <3>2
      <4>2. minted' \in [Calls -> Nat]  BY <3>1, <3>2
      <4>3. state' \in [Calls -> Nat]  BY <3>1, <3>2
      <4>4. QED  BY <4>1, <4>2, <4>3
    <3>4. sent' \subseteq Asks /\ asked' \in [Calls -> BOOLEAN]  BY <2>1, <3>1
    <3>5. QED  BY <3>1, <3>3, <3>4 DEF lock, slot, stderr
  <2>4. QED  BY <2>2, <2>3
<1>13. ASSUME NEW c \in Calls, NEW token \in 1 .. minted[c], Retry(c, token) PROVE TypeOK'
  <2>1. ask' \in [Asks -> {"unsent", "pending", "forwarded", "settled"}]  BY <1>13 DEF Retry
  <2>2. sent' \subseteq Asks  BY <1>13 DEF Retry
  <2>3. /\ caller' \in Calls \cup {NoCall} /\ state' \in [Calls -> Nat]
        /\ UNCHANGED <<lock, turn, abandoned, stage, run, minted, closed, asked, released, whom, stderr>>
    BY <1>13 DEF Retry, Unparked
  <2>4. legs' \in [Calls -> Nat]
    <3>1. legs[c] \in Nat /\ legs' = [legs EXCEPT ![c] = @ + 1]  BY <1>13 DEF Retry
    <3>2. QED  BY <3>1, OneFewer
  <2>5. QED  BY <2>1, <2>2, <2>3, <2>4 DEF lock, stderr
<1>14. ASSUME NEW c \in Calls, End(c), UNCHANGED <<lock, minted, asked, released, whom, sent, stderr>>,
              UNCHANGED <<abandoned, stage, run>>, legs' \in [Calls -> Nat]
       PROVE  TypeOK'
  <2>1. ask' \in [Asks -> {"unsent", "pending", "forwarded", "settled"}]  BY <1>14 DEF End
  <2>2. QED  BY <1>14, <2>1 DEF End, Unparked, lock, slot, stderr
<1>15. ASSUME NEW c \in Calls, LegCancelled(c) PROVE TypeOK'
  <2>1. legs' \in [Calls -> Nat]
    <3>1. legs[c] \in Nat /\ legs[c] > 0 /\ legs' = [legs EXCEPT ![c] = @ - 1]
      BY <1>15 DEF LegCancelled
    <3>2. QED  BY <3>1, OneFewer
  <2>2. QED  BY <1>14, <1>15, <2>1 DEF LegCancelled
<1>16. ASSUME NEW c \in Calls, Expire(c) PROVE TypeOK'
  BY <1>14, <1>16 DEF Expire
<1>17. ASSUME NEW c \in Calls, Drained(c) \/ Finished(c) PROVE TypeOK'
  <2>1. /\ abandoned' \subseteq Calls /\ UNCHANGED <<queue, stage, run, turns, asks, stderr>>
        /\ Release(c) \/ UNCHANGED <<released, holder, slot>>
    BY <1>17 DEF Drained, Finished
  <2>2. /\ released' \in [Calls -> BOOLEAN] /\ holder' \in Calls \cup {NoCall}
        /\ caller' \in Calls \cup {NoCall} /\ turn' \in Modern \cup {NoCall}
    BY <2>1 DEF Release, slot
  <2>3. QED  BY <2>1, <2>2 DEF turns, asks, stderr
<1>18. CASE UNCHANGED vars
  BY <1>18 DEF vars, lock, slot, turns, asks, stderr
<1>19. QED
  BY <1>1, <1>2, <1>3, <1>4, <1>5, <1>6, <1>7, <1>8, <1>9, <1>10, <1>11, <1>12, <1>13, <1>15,
     <1>16, <1>17, <1>18
  DEF Next, CallStep

-----------------------------------------------------------------------------
(* Who has the child.                                                      *)

Control == Fresh /\ Kinds /\ Holding /\ Slotted /\ Served /\ GivenUp /\ OneLeg

\* The steps that move neither lock, slot, stages, runs, turns nor flags.
LEMMA ControlAside ==
  ASSUME IInv, UNCHANGED <<holder, caller, turn, abandoned, stage, run, legs, state, closed, released>>
  PROVE  Control'
BY DEF IInv, Control, Fresh, Kinds, Holding, Slotted, Served, GivenUp, OneLeg, Working, Parked

\* A call that is answered, or fails, goes on as before otherwise.
LEMMA ControlAnswers ==
  ASSUME IInv, UNCHANGED <<holder, caller, turn, abandoned, stage, legs, state, closed, released>>,
         \A c \in Calls : \/ run'[c] = run[c]
                          \/ Working(c) /\ run'[c] = "done"
                          \/ run[c] = "busy" /\ run'[c] = "failed" /\ (c \in Modern \/ stage[c] = "open")
  PROVE  Control'
<1>1. Fresh' /\ Kinds'  BY DEF IInv, Fresh, Kinds, Working, Legacy
<1>2. Holding' /\ Served'  BY DEF IInv, Holding, Served, Working
<1>3. Slotted' /\ GivenUp' /\ OneLeg'  BY DEF IInv, Slotted, GivenUp, OneLeg, Parked
<1>4. QED  BY <1>1, <1>2, <1>3 DEF Control

\* A turn that ends, and takes the slot with it unless its call was answered.
LEMMA ControlEnds ==
  ASSUME IInv, NEW c \in Modern, End(c), UNCHANGED <<holder, abandoned, stage, run, released>>,
         stage[c] \notin {"new", "queued"},
         \/ legs' = legs
         \/ legs' = [legs EXCEPT ![c] = @ - 1] /\ legs[c] > 0
  PROVE  Control'
<1>0. TypeOK /\ c \in Calls  BY TurnAssumptions DEF IInv
<1>1. /\ state' = [state EXCEPT ![c] = 0] /\ closed' = [closed EXCEPT ![c] = TRUE]
      /\ \/ turn = c /\ caller' = NoCall /\ turn' = NoCall
         \/ caller' = caller /\ turn' = turn
  BY DEF End, Unparked, slot
<1>2. Fresh'  BY <1>0, <1>1 DEF IInv, TypeOK, Fresh
<1>3. Kinds'  BY <1>0, <1>1 DEF IInv, TypeOK, Kinds
<1>4. Holding' /\ Served'  BY DEF IInv, Holding, Served, Working
<1>5. Slotted'  BY <1>1, TurnAssumptions DEF IInv, Slotted
<1>6. GivenUp'  BY <1>0, <1>1 DEF IInv, TypeOK, GivenUp
<1>7. OneLeg'
  <2>1. /\ state'[c] = 0 /\ legs[c] \in Nat
        /\ \A d \in Calls \ {c} : legs'[d] = legs[d] /\ state'[d] = state[d]
        /\ \/ legs'[c] = legs[c]
           \/ legs[c] > 0 /\ legs'[c] = legs[c] - 1
    BY <1>0, <1>1 DEF TypeOK
  <2>2. legs[c] <= 1  BY <1>0, <2>1 DEF IInv, OneLeg, Parked
  <2>3. legs'[c] <= 1  BY <2>1, <2>2
  <2>4. QED  BY <2>1, <2>3 DEF IInv, OneLeg, Parked
<1>8. QED  BY <1>2, <1>3, <1>4, <1>5, <1>6, <1>7 DEF Control

\* A legacy call leaves: done, or abandoned.
LEMMA ControlLeaves ==
  ASSUME IInv, NEW c \in Legacy, stage[c] \in {"open", "draining"}, LegacyLeaves(c),
         UNCHANGED <<state, closed>>,
         \/ run' = run /\ ~Working(c) /\ abandoned' = abandoned
         \/ run' = [run EXCEPT ![c] = "done"] /\ abandoned' = abandoned
         \/ run' = run /\ run[c] # "failed" /\ abandoned' = abandoned \cup {c}
  PROVE  Control'
<1>0. TypeOK /\ c \in Calls /\ c \notin Modern  BY DEF IInv, Legacy
<1>1. /\ stage' = [stage EXCEPT ![c] = "over"] /\ legs' = [legs EXCEPT ![c] = 0]
      /\ released' = [released EXCEPT ![c] = TRUE]
      /\ holder' = NoCall /\ caller' = NoCall /\ turn' = turn /\ holder = c
  BY <1>0 DEF LegacyLeaves, IInv, Holding
<1>2. Fresh'  BY <1>0, <1>1 DEF IInv, TypeOK, Fresh
<1>3. Kinds'
  BY <1>0, <1>1 DEF IInv, TypeOK, Kinds, Working
<1>4. Holding'
  <2>1. \A d \in Calls \ {c} : stage'[d] = stage[d] /\ run'[d] = run[d] /\ released'[d] = released[d]
    BY <1>0, <1>1 DEF IInv, TypeOK
  <2>2. stage'[c] = "over"  BY <1>0, <1>1 DEF TypeOK
  <2>3. QED  BY <1>0, <1>1, <2>1, <2>2 DEF IInv, Holding, Legacy
<1>5. Slotted'
  <2>1. turn = NoCall  BY <1>0, <1>1, TurnAssumptions DEF IInv, Slotted, TypeOK
  <2>2. QED  BY <1>1, <2>1, TurnAssumptions DEF Slotted
<1>6. Served'  BY <1>0, <1>1 DEF IInv, TypeOK, Served, Working
<1>7. GivenUp'  BY <1>0, <1>1 DEF IInv, TypeOK, GivenUp, Legacy
<1>8. OneLeg'  BY <1>0, <1>1 DEF IInv, TypeOK, OneLeg, Parked
<1>9. QED  BY <1>2, <1>3, <1>4, <1>5, <1>6, <1>7, <1>8 DEF Control

\* A turn's call lets the lock go once.
LEMMA ControlReleases ==
  ASSUME IInv, NEW c \in Modern, Release(c), ~released[c], run[c] # "none",
         UNCHANGED <<stage, run, legs, state, closed>>,
         \/ abandoned' = abandoned \cup {c} /\ closed[c]
         \/ abandoned' = abandoned \ {c} /\ run[c] = "done"
  PROVE  Control'
<1>0. TypeOK /\ c \in Calls  BY TurnAssumptions DEF IInv
<1>1. /\ released' = [released EXCEPT ![c] = TRUE] /\ holder' = NoCall
      /\ caller' = (IF turn = c THEN NoCall ELSE caller)
      /\ turn' = (IF turn = c THEN NoCall ELSE turn)
  BY DEF Release
<1>2. holder = c  BY <1>0 DEF IInv, Holding
<1>3. Fresh'  BY <1>0, <1>1 DEF IInv, TypeOK, Fresh
<1>4. Kinds' /\ OneLeg'  BY DEF IInv, Kinds, OneLeg, Parked
<1>5. Holding'  BY <1>0, <1>1, <1>2 DEF IInv, TypeOK, Holding, Legacy
<1>6. Slotted'  BY <1>0, <1>1, <1>2, TurnAssumptions DEF IInv, TypeOK, Slotted
<1>7. Served'  BY <1>0, <1>1, <1>2 DEF IInv, Served, Working
<1>8. GivenUp'  BY DEF IInv, GivenUp
<1>9. QED  BY <1>3, <1>4, <1>5, <1>6, <1>7, <1>8 DEF Control

LEMMA ControlStep == IInv /\ [Next]_vars => Control'
<1> SUFFICES ASSUME IInv, [Next]_vars PROVE Control'
  OBVIOUS
<1>0. TypeOK  BY DEF IInv
<1>1. ASSUME NEW c \in Calls, Arrive(c) \/ CancelQueued(c) PROVE Control'
  <2>1. /\ stage[c] \in {"new", "queued"}
        /\ \E v \in {"queued", "over"} : stage' = [stage EXCEPT ![c] = v]
        /\ UNCHANGED <<holder, caller, turn, abandoned, run, legs, state, closed, released>>
    BY <1>1 DEF Arrive, CancelQueued, slot, turns
  <2>2. PICK v \in {"queued", "over"} : stage' = [stage EXCEPT ![c] = v]  BY <2>1
  <2>3. run[c] = "none" /\ c \notin abandoned  BY <2>1 DEF IInv, Fresh
  <2>4. Fresh'  BY <1>0, <2>1, <2>2 DEF IInv, TypeOK, Fresh
  <2>5. Kinds' /\ Holding'  BY <1>0, <2>1, <2>2, <2>3 DEF IInv, TypeOK, Kinds, Holding
  <2>6. Slotted' /\ Served' /\ OneLeg'
    BY <2>1 DEF IInv, Slotted, Served, OneLeg, Working, Parked
  <2>7. GivenUp'  BY <1>0, <2>1, <2>2, <2>3 DEF IInv, TypeOK, GivenUp
  <2>8. QED  BY <2>4, <2>5, <2>6, <2>7 DEF Control
<1>2. ASSUME NEW c \in Calls, Admit(c) PROVE Control'
  <2>1. /\ holder = NoCall /\ holder' = c /\ caller' = c /\ turn' = IF c \in Modern THEN c ELSE NoCall
        /\ stage' = [stage EXCEPT ![c] = "open"] /\ run' = [run EXCEPT ![c] = "busy"]
        /\ legs' = [legs EXCEPT ![c] = 1]
        /\ UNCHANGED <<abandoned, state, closed, released>>
    BY <1>2 DEF Admit
  <2>2. stage[c] = "queued"
    <3>1. queue # <<>> /\ c = queue[1] /\ queue \in Seq(Calls)  BY <1>0, <1>2 DEF Admit, TypeOK
    <3>2. 1 \in 1 .. Len(queue)  BY <3>1
    <3>3. QED  BY <3>1, <3>2 DEF IInv, Queued
  <2>3. /\ run[c] = "none" /\ ~released[c] /\ legs[c] = 0 /\ state[c] = 0 /\ ~closed[c]
        /\ c \notin abandoned
    BY <2>2 DEF IInv, Fresh
  <2>4. Fresh' /\ Kinds'  BY <1>0, <2>1, <2>3 DEF IInv, TypeOK, Fresh, Kinds
  <2>5. Holding' /\ Served'
    BY <1>0, <2>1, TurnAssumptions DEF IInv, TypeOK, Holding, Served, Working
  <2>6. Slotted'  BY <2>1 DEF Slotted
  <2>7. GivenUp'  BY <1>0, <2>1, <2>3 DEF IInv, TypeOK, GivenUp
  <2>8. OneLeg'
    <3>1. legs'[c] = 1 /\ state'[c] = 0 /\ \A d \in Calls \ {c} : legs'[d] = legs[d] /\ state'[d] = state[d]
      BY <1>0, <2>1, <2>3 DEF TypeOK
    <3>2. QED  BY <3>1 DEF IInv, OneLeg, Parked
  <2>9. QED  BY <2>4, <2>5, <2>6, <2>7, <2>8 DEF Control
<1>3. ASSUME NEW c \in Calls,
             \/ \E i \in 1 .. MaxAsks : ChildAsks(c, i) \/ AskSettles(c, i)
             \/ ChildWrites(c)
      PROVE  Control'
  BY <1>3, ControlAside DEF ChildAsks, AskSettles, ChildWrites, lock, slot, turns
<1>4. ASSUME NEW c \in Calls, Attach(c) \/ \E failed \in BOOLEAN : ChildAnswers(c, failed)
      PROVE  Control'
  <2>1. UNCHANGED <<holder, caller, turn, abandoned, stage, legs, state, closed, released>>
    BY <1>4 DEF Attach, ChildAnswers, lock, slot, turns
  <2>2. /\ \A d \in Calls \ {c} : run'[d] = run[d]
        /\ \/ Working(c) /\ run'[c] = "done"
           \/ run[c] = "busy" /\ run'[c] = "failed" /\ (c \in Modern \/ stage[c] = "open")
    BY <1>0, <1>4 DEF Attach, ChildAnswers, Working, TypeOK
  <2>3. QED  BY <2>1, <2>2, ControlAnswers
<1>5. CASE Pump  BY <1>5, ControlAside DEF Pump, lock, slot, turns
<1>6. CASE ChildDies
  <2>1. UNCHANGED <<holder, caller, turn, abandoned, stage, legs, state, closed, released>>
    BY <1>6 DEF ChildDies, lock, slot, turns
  <2>2. \A c \in Calls : \/ run'[c] = run[c]
                         \/ Working(c) /\ run'[c] = "done"
    BY <1>0, <1>6 DEF ChildDies, Working, TypeOK
  <2>3. QED  BY <2>1, <2>2, ControlAnswers
<1>7. ASSUME NEW c \in Calls, LegacyReturns(c) PROVE Control'
  BY <1>7, ControlLeaves DEF LegacyReturns, Working
<1>8. ASSUME NEW c \in Calls, LegacyCancelled(c) PROVE Control'
  <2>1. CASE LegacyLeaves(c)
    <3>1. UNCHANGED <<state, closed, abandoned>> /\ c \in Legacy /\ stage[c] = "open"
          /\ run' = [run EXCEPT ![c] = "done"]
      BY <1>8, <2>1 DEF LegacyCancelled, LegacyLeaves, IInv, TypeOK
    <3>2. QED  BY <2>1, <3>1, ControlLeaves
  <2>2. CASE ~LegacyLeaves(c)
    <3>1. /\ c \in Legacy /\ stage[c] = "open" /\ run[c] = "busy" /\ caller' = NoCall
          /\ stage' = [stage EXCEPT ![c] = "draining"]
          /\ UNCHANGED <<holder, turn, abandoned, run, legs, state, closed, released>>
      BY <1>8, <2>2 DEF LegacyCancelled, lock, turns
    <3>2. Fresh' /\ Kinds' /\ Holding'  BY <1>0, <3>1 DEF IInv, TypeOK, Fresh, Kinds, Holding
    <3>3. Slotted'  BY <3>1, TurnAssumptions DEF IInv, Slotted
    <3>4. Served' /\ OneLeg'  BY <3>1 DEF IInv, Served, OneLeg, Working, Parked
    <3>5. GivenUp'  BY <1>0, <3>1 DEF IInv, TypeOK, GivenUp, Kinds, Legacy
    <3>6. QED  BY <3>2, <3>3, <3>4, <3>5 DEF Control
  <2>3. QED  BY <2>1, <2>2
<1>9. ASSUME NEW c \in Calls, LegacyDrained(c) PROVE Control'
  <2>1. c \in Legacy /\ run[c] # "failed" /\ stage[c] = "draining" /\ run' = run
        /\ LegacyLeaves(c) /\ UNCHANGED <<state, closed>>
        /\ abandoned' = IF run[c] = "busy" THEN abandoned \cup {c} ELSE abandoned
    BY <1>9 DEF LegacyDrained, IInv, Kinds
  <2>2. QED  BY <2>1, ControlLeaves DEF Working
<1>10. ASSUME NEW c \in Calls, LegReturns(c) PROVE Control'
  <2>1. /\ c \in Modern /\ c \notin Legacy /\ legs[c] > 0 /\ legs' = [legs EXCEPT ![c] = @ - 1]
        /\ stage' = [stage EXCEPT ![c] = "over"]
        /\ UNCHANGED <<holder, caller, turn, abandoned, run, state, closed, released>>
    BY <1>10 DEF LegReturns, lock, slot, Legacy
  <2>2. Fresh' /\ Kinds' /\ Holding' /\ GivenUp'
    BY <1>0, <2>1 DEF IInv, TypeOK, Fresh, Kinds, Holding, GivenUp
  <2>3. Slotted' /\ Served'  BY <2>1 DEF IInv, Slotted, Served, Working
  <2>4. OneLeg'
    <3>1. /\ legs'[c] = legs[c] - 1 /\ legs[c] \in Nat /\ state' = state
          /\ \A d \in Calls \ {c} : legs'[d] = legs[d]
      BY <1>0, <2>1 DEF TypeOK
    <3>2. legs[c] = 1 /\ state[c] = 0  BY <2>1, <3>1 DEF IInv, OneLeg, Parked
    <3>3. QED  BY <3>1, <3>2 DEF IInv, OneLeg, Parked
  <2>5. QED  BY <2>2, <2>3, <2>4 DEF Control
<1>11. ASSUME NEW c \in Calls, Park(c) PROVE Control'
  <2>1. /\ c \in Modern /\ legs[c] > 0
        /\ UNCHANGED <<holder, caller, turn, abandoned, stage, run, closed, released>>
        /\ \/ legs' = [legs EXCEPT ![c] = @ - 1] /\ state' = [state EXCEPT ![c] = minted[c] + 1]
           \/ UNCHANGED <<legs, state>>
    BY <1>11 DEF Park, lock, slot
  <2>2. CASE UNCHANGED <<legs, state>>  BY <2>1, <2>2, ControlAside
  <2>3. CASE legs' = [legs EXCEPT ![c] = @ - 1] /\ state' = [state EXCEPT ![c] = minted[c] + 1]
    <3>1. stage[c] \notin {"new", "queued"}  BY <2>1 DEF IInv, Fresh
    <3>2. Fresh' /\ Kinds'  BY <1>0, <2>1, <2>3, <3>1 DEF IInv, TypeOK, Fresh, Kinds
    <3>3. Holding' /\ Slotted' /\ Served' /\ GivenUp'
      BY <2>1 DEF IInv, Holding, Slotted, Served, GivenUp, Working
    <3>4. OneLeg'
      <4>1. /\ legs'[c] = legs[c] - 1 /\ legs[c] \in Nat
            /\ \A d \in Calls \ {c} : legs'[d] = legs[d] /\ state'[d] = state[d]
        BY <1>0, <2>3 DEF TypeOK
      <4>2. legs[c] = 1  BY <2>1, <4>1 DEF IInv, OneLeg, Parked
      <4>3. legs'[c] = 0  BY <4>1, <4>2
      <4>4. QED  BY <4>1, <4>3 DEF IInv, OneLeg, Parked
    <3>5. QED  BY <3>2, <3>3, <3>4 DEF Control
  <2>4. QED  BY <2>1, <2>2, <2>3
<1>12. ASSUME NEW c \in Calls, NEW token \in 1 .. minted[c], Retry(c, token) PROVE Control'
  <2>1. /\ state[c] # 0 /\ state' = [state EXCEPT ![c] = 0] /\ legs' = [legs EXCEPT ![c] = @ + 1]
        /\ caller' = IF turn = c THEN c ELSE caller
        /\ UNCHANGED <<holder, turn, abandoned, stage, run, closed, released>>
    BY <1>0, <1>12 DEF Retry, Unparked, lock, TypeOK
  <2>2. stage[c] \notin {"new", "queued"} /\ c \in Modern  BY <2>1 DEF IInv, Fresh, Kinds
  <2>3. Fresh' /\ Kinds'  BY <1>0, <2>1, <2>2 DEF IInv, TypeOK, Fresh, Kinds
  <2>4. Holding' /\ Served' /\ GivenUp'
    BY <2>1 DEF IInv, Holding, Served, GivenUp, Working
  <2>5. Slotted'  BY <2>1 DEF IInv, Slotted
  <2>6. OneLeg'
    <3>1. /\ legs'[c] = legs[c] + 1 /\ legs[c] \in Nat /\ state'[c] = 0
          /\ \A d \in Calls \ {c} : legs'[d] = legs[d] /\ state'[d] = state[d]
      BY <1>0, <2>1 DEF TypeOK
    <3>2. legs[c] = 0  BY <2>1, <3>1 DEF IInv, OneLeg, Parked
    <3>3. QED  BY <3>1, <3>2 DEF IInv, OneLeg, Parked
  <2>7. QED  BY <2>3, <2>4, <2>5, <2>6 DEF Control
<1>13. ASSUME NEW c \in Calls, LegCancelled(c) \/ Expire(c) PROVE Control'
  <2>1. c \in Modern /\ stage[c] \notin {"new", "queued"}
    BY <1>0, <1>13 DEF LegCancelled, Expire, Parked, IInv, Kinds, Fresh
  <2>2. CASE LegCancelled(c)  BY <2>1, <2>2, ControlEnds DEF LegCancelled, lock
  <2>3. CASE Expire(c)  BY <2>1, <2>3, ControlEnds DEF Expire, lock
  <2>4. QED  BY <1>13, <2>2, <2>3
<1>14. ASSUME NEW c \in Calls, Drained(c) PROVE Control'
  <2>1. c \in Modern /\ run[c] # "none"  BY <1>14 DEF Drained, IInv, Kinds, Working
  <2>2. QED  BY <1>14, <2>1, ControlReleases DEF Drained, turns
<1>15. ASSUME NEW c \in Calls, Finished(c) PROVE Control'
  <2>1. CASE c \in Modern /\ ~released[c]
    <3>1. /\ run[c] = "done" /\ abandoned' = abandoned \ {c} /\ Release(c)
          /\ UNCHANGED <<stage, run, legs, state, closed>>
      BY <1>15, <2>1 DEF Finished, turns
    <3>2. QED  BY <2>1, <3>1, ControlReleases
  <2>2. CASE ~(c \in Modern /\ ~released[c])
    <3>1. /\ run[c] = "done" /\ abandoned' = abandoned \ {c}
          /\ UNCHANGED <<holder, caller, turn, stage, run, legs, state, closed, released>>
      BY <1>15, <2>2 DEF Finished, Release, slot, turns
    <3>2. Fresh' /\ Kinds' /\ Holding' /\ Slotted' /\ GivenUp' /\ OneLeg'
      BY <3>1 DEF IInv, Fresh, Kinds, Holding, Slotted, GivenUp, OneLeg, Parked
    <3>3. Served'  BY <3>1 DEF IInv, Served, Working
    <3>4. QED  BY <3>2, <3>3 DEF Control
  <2>3. QED  BY <2>1, <2>2
<1>16. CASE UNCHANGED vars  BY <1>16, ControlAside DEF vars, lock, slot, turns
<1>17. QED
  BY <1>1, <1>2, <1>3, <1>4, <1>5, <1>6, <1>7, <1>8, <1>9, <1>10, <1>11, <1>12, <1>13, <1>14,
     <1>15, <1>16
  DEF Next, CallStep

-----------------------------------------------------------------------------
(* Whom the child reaches.                                                 *)

\* While nothing is abandoned, whoever is running upstream has the slot.
LEMMA ReachesOwn ==
  ASSUME IInv, NEW c \in Calls, run[c] = "busy"
  PROVE  Reaches \in {c, NoCall}
<1>1. CASE abandoned # {}
  BY <1>1, TurnAssumptions DEF Reaches, Current
<1>2. CASE abandoned = {}
  <2>1. holder = c  BY <1>2 DEF IInv, Served, Working
  <2>2. caller \in {c, NoCall} /\ turn \in {c, NoCall}  BY <2>1 DEF IInv, Slotted
  <2>3. QED  BY <1>2, <2>2 DEF Reaches, Current
<1>3. QED  BY <1>1, <1>2

LEMMA CallerStep == IInv /\ [Next]_vars => RightCaller'
<1> SUFFICES ASSUME IInv, [Next]_vars PROVE RightCaller'
  OBVIOUS
<1>0. whom \in [Asks -> Calls \cup {NoCall}] /\ RightCaller  BY DEF IInv, TypeOK
<1>1. ASSUME NEW c \in Calls, NEW i \in 1 .. MaxAsks, ChildAsks(c, i) PROVE RightCaller'
  <2>1. whom' = [whom EXCEPT ![<<c, i>>] = Reaches] /\ Reaches \in {c, NoCall}
    BY <1>1, ReachesOwn DEF ChildAsks
  <2>2. <<c, i>>[1] = c  OBVIOUS
  <2>3. \A r \in Asks : whom'[r] = IF r = <<c, i>> THEN Reaches ELSE whom[r]
    BY <1>0, <2>1
  <2>4. QED  BY <1>0, <2>1, <2>2, <2>3 DEF RightCaller
<1>2. CASE whom' = whom  BY <1>0, <1>2 DEF RightCaller
<1>3. ASSUME NEW c \in Calls,
             \/ Arrive(c) \/ CancelQueued(c) \/ Admit(c)
             \/ \E i \in 1 .. MaxAsks : AskSettles(c, i)
             \/ ChildWrites(c) \/ \E failed \in BOOLEAN : ChildAnswers(c, failed)
             \/ Attach(c)
      PROVE  whom' = whom
  BY <1>3 DEF Arrive, CancelQueued, Admit, AskSettles, ChildWrites, ChildAnswers, Attach, asks
<1>4. ASSUME NEW c \in Calls, LegacyReturns(c) \/ LegacyCancelled(c) \/ LegacyDrained(c)
      PROVE  whom' = whom
  BY <1>4 DEF LegacyReturns, LegacyCancelled, LegacyDrained, asks
<1>5. ASSUME NEW c \in Calls,
             \/ LegReturns(c) \/ Park(c) \/ \E token \in 1 .. minted[c] : Retry(c, token)
             \/ LegCancelled(c) \/ Expire(c) \/ Drained(c) \/ Finished(c)
      PROVE  whom' = whom
  BY <1>5 DEF LegReturns, Park, Retry, LegCancelled, Expire, Drained, Finished, asks
<1>6. (Pump => whom' = whom) /\ (ChildDies => whom' = whom) /\ (UNCHANGED vars => whom' = whom)
  BY DEF Pump, ChildDies, vars, asks
<1>7. QED  BY <1>1, <1>2, <1>3, <1>4, <1>5, <1>6 DEF Next, CallStep

-----------------------------------------------------------------------------
(* Whose stderr is shown.                                                  *)

\* Windows stay as long as no one else starts to work, writes or is abandoned.
LEMMA WindowsKept ==
  ASSUME IInv, UNCHANGED <<stream, mark>>, pumped' = pumped \/ pumped' = Len(stream),
         \A c \in Calls : Working(c)' => Working(c),
         \/ abandoned' = abandoned
         \/ \E c \in Calls :
               /\ abandoned' = abandoned \cup {c}
               /\ \A d \in Calls : Working(d) /\ d \notin abandoned => d = c
         \/ \E c \in Calls : ~Working(c) /\ abandoned' = abandoned \ {c}
  PROVE  Windows'
<1>1. stream' = stream /\ mark' = mark /\ Len(stream) \in Nat
  BY LenProperties DEF IInv, TypeOK
<1>2. Len(stream') <= MaxLines /\ pumped' <= Len(stream')
  BY <1>1 DEF IInv, TypeOK, Windows
<1>3. ASSUME NEW d \in Calls, Working(d)', d \notin abandoned'
      PROVE  \/ mark[d] >= MaxLines
             \/ abandoned' = {} /\ \A n \in 1 .. Len(stream) : n > mark[d] => stream[n] = d
  <2>1. Working(d)  BY <1>3
  <2>2. d \notin abandoned /\ (abandoned = {} => abandoned' = {})
    BY <1>3, <2>1
  <2>3. QED  BY <2>1, <2>2 DEF IInv, Windows
<1>4. QED  BY <1>1, <1>2, <1>3 DEF Windows

LEMMA WindowsStep == IInv /\ [Next]_vars => Windows'
<1> SUFFICES ASSUME IInv, [Next]_vars PROVE Windows'
  OBVIOUS
<1>0. TypeOK /\ Windows /\ Served /\ Len(stream) \in Nat  BY LenProperties DEF IInv, TypeOK
<1>1. ASSUME NEW c \in Calls, Admit(c) PROVE Windows'
  <2>1. /\ UNCHANGED <<abandoned, stream, pumped>> /\ holder = NoCall
        /\ run' = [run EXCEPT ![c] = "busy"]
        /\ mark' = [mark EXCEPT ![c] = IF abandoned = {} THEN Len(stream) ELSE MaxLines]
    BY <1>1 DEF Admit, Mark
  <2>2. ASSUME NEW d \in Calls, Working(d)', d \notin abandoned
        PROVE  \/ mark'[d] >= MaxLines
               \/ abandoned = {} /\ \A n \in 1 .. Len(stream) : n > mark'[d] => stream[n] = d
    <3>1. CASE d = c
      <4>1. mark'[d] = IF abandoned = {} THEN Len(stream) ELSE MaxLines
        BY <1>0, <2>1, <3>1 DEF TypeOK
      <4>2. MaxLines \in Nat /\ \A n \in 1 .. Len(stream) : ~(n > Len(stream))
        BY <1>0, TurnAssumptions
      <4>3. QED  BY <4>1, <4>2
    <3>2. CASE d # c
      <4>1. Working(d)  BY <1>0, <2>1, <2>2, <3>2 DEF TypeOK, Working
      <4>2. holder = d  BY <1>0, <2>2, <4>1 DEF Served
      <4>3. QED  BY <2>1, <4>2, TurnAssumptions
    <3>3. QED  BY <3>1, <3>2
  <2>3. QED  BY <1>0, <2>1, <2>2 DEF Windows
<1>2. ASSUME NEW c \in Calls, ChildWrites(c) PROVE Windows'
  <2>1. /\ Len(stream) < MaxLines /\ stream' = Append(stream, Under(c))
        /\ UNCHANGED <<abandoned, run, pumped, mark>>
    BY <1>2 DEF ChildWrites
  <2>1a. Under(c) \in Calls \cup {NoCall}  BY <1>0 DEF Under, TypeOK
  <2>2. /\ Len(stream') = Len(stream) + 1 /\ stream'[Len(stream) + 1] = Under(c)
        /\ \A n \in 1 .. Len(stream) : stream'[n] = stream[n]
    BY <1>0, <2>1, <2>1a, AppendProperties DEF TypeOK
  <2>3. ASSUME NEW d \in Calls, Working(d), d \notin abandoned, ~(mark[d] >= MaxLines)
        PROVE  abandoned = {} /\ \A n \in 1 .. Len(stream') : n > mark[d] => stream'[n] = d
    <3>1. abandoned = {} /\ \A n \in 1 .. Len(stream) : n > mark[d] => stream[n] = d
      BY <1>0, <2>3 DEF Windows
    <3>2. Under(c) = d
      <4>1. holder = d  BY <1>0, <2>3 DEF Served
      <4>2. run[c] = "busy" => holder = c  BY <1>0, <3>1 DEF Served, Working
      <4>3. QED  BY <4>1, <4>2 DEF Under
    <3>3. \A n \in 1 .. Len(stream) + 1 : n \in 1 .. Len(stream) \/ n = Len(stream) + 1
      BY <1>0
    <3>4. QED  BY <2>2, <3>1, <3>2, <3>3
  <2>4. Len(stream') <= MaxLines /\ pumped' <= Len(stream')
    <3>1. pumped' = pumped /\ pumped <= Len(stream) /\ pumped \in Nat /\ MaxLines \in Nat
      BY <1>0, <2>1, TurnAssumptions DEF Windows, TypeOK
    <3>2. Len(stream) < MaxLines /\ Len(stream') = Len(stream) + 1 /\ Len(stream) \in Nat
      BY <1>0, <2>1, <2>2
    <3>3. QED  BY <3>1, <3>2
  <2>5. \A d \in Calls : Working(d)' <=> Working(d)  BY <2>1 DEF Working
  <2>6. QED  BY <2>1, <2>3, <2>4, <2>5 DEF Windows
<1>3. ASSUME NEW c \in Calls, LegacyDrained(c) PROVE Windows'
  <2>1. /\ c \in Legacy /\ stage[c] = "draining" /\ UNCHANGED <<run, stream, mark, pumped>>
        /\ abandoned' = IF run[c] = "busy" THEN abandoned \cup {c} ELSE abandoned
    BY <1>3 DEF LegacyDrained, stderr, IInv, Kinds
  <2>2. holder = c  BY <2>1 DEF IInv, Holding
  <2>3. \A d \in Calls : Working(d) /\ d \notin abandoned => d = c  BY <1>0, <2>2 DEF Served
  <2>4. \A d \in Calls : Working(d)' => Working(d)  BY <2>1 DEF Working
  <2>5. QED  BY <2>1, <2>3, <2>4, WindowsKept
<1>4. ASSUME NEW c \in Calls, Drained(c) PROVE Windows'
  <2>1. /\ closed[c] /\ Working(c) /\ ~released[c] /\ UNCHANGED <<run, stream, mark, pumped>>
        /\ abandoned' = abandoned \cup {c}
    BY <1>4 DEF Drained, stderr
  <2>2. c \in Modern /\ run[c] # "none"  BY <2>1 DEF IInv, Kinds, Working
  <2>3. holder = c  BY <2>1, <2>2 DEF IInv, Holding
  <2>4. \A d \in Calls : Working(d) /\ d \notin abandoned => d = c  BY <1>0, <2>3 DEF Served
  <2>5. \A d \in Calls : Working(d)' => Working(d)  BY <2>1 DEF Working
  <2>6. QED  BY <2>1, <2>4, <2>5, WindowsKept
<1>5. ASSUME NEW c \in Calls, Finished(c) PROVE Windows'
  <2>1. ~Working(c) /\ abandoned' = abandoned \ {c} /\ UNCHANGED <<run, stream, mark, pumped>>
    BY <1>5 DEF Finished, Working, stderr
  <2>2. \A d \in Calls : Working(d)' => Working(d)  BY <2>1 DEF Working
  <2>3. QED  BY <2>1, <2>2, WindowsKept
<1>6. ASSUME NEW c \in Calls,
             Attach(c) \/ LegacyCancelled(c) \/ \E failed \in BOOLEAN : ChildAnswers(c, failed)
      PROVE  Windows'
  <2>1. /\ UNCHANGED <<abandoned, stream, mark, pumped>>
        /\ \/ run' = run
           \/ run[c] = "failed" /\ run' = [run EXCEPT ![c] = "done"]
           \/ run[c] = "busy" /\ \E v \in {"failed", "done"} : run' = [run EXCEPT ![c] = v]
    BY <1>6 DEF Attach, LegacyCancelled, ChildAnswers, stderr
  <2>2. \A d \in Calls : Working(d)' => Working(d)  BY <1>0, <2>1 DEF Working, TypeOK
  <2>3. QED  BY <2>1, <2>2, WindowsKept
<1>7. CASE Pump
  <2>1. UNCHANGED <<abandoned, run, stream, mark>> /\ pumped' = Len(stream)  BY <1>7 DEF Pump
  <2>2. \A d \in Calls : Working(d)' => Working(d)  BY <2>1 DEF Working
  <2>3. QED  BY <2>1, <2>2, WindowsKept
<1>8. CASE ChildDies
  <2>1. UNCHANGED <<abandoned, stream, mark, pumped>>  BY <1>8 DEF ChildDies, stderr
  <2>2. \A d \in Calls : Working(d)' => Working(d)  BY <1>8 DEF ChildDies, Working
  <2>3. QED  BY <2>1, <2>2, WindowsKept
<1>9. CASE UNCHANGED <<abandoned, run, stream, mark, pumped>>
  <2>1. \A d \in Calls : Working(d)' => Working(d)  BY <1>9 DEF Working
  <2>2. QED  BY <1>9, <2>1, WindowsKept
<1>10. ASSUME NEW c \in Calls, CallStep(c),
              ~Admit(c), ~ChildWrites(c), ~LegacyDrained(c), ~Drained(c), ~Finished(c),
              ~(Attach(c) \/ LegacyCancelled(c) \/ \E failed \in BOOLEAN : ChildAnswers(c, failed))
       PROVE  UNCHANGED <<abandoned, run, stream, mark, pumped>>
  BY <1>10 DEF CallStep, Arrive, CancelQueued, ChildAsks, AskSettles, LegacyReturns, LegReturns, Park,
               Retry, LegCancelled, Expire, stderr
<1>11. UNCHANGED vars => UNCHANGED <<abandoned, run, stream, mark, pumped>>  BY DEF vars, stderr
<1>12. QED
  BY <1>1, <1>2, <1>3, <1>4, <1>5, <1>6, <1>7, <1>8, <1>9, <1>10, <1>11 DEF Next

LEMMA StderrStep == IInv /\ [Next]_vars => StderrIsOwn'
<1> SUFFICES ASSUME IInv, [Next]_vars PROVE StderrIsOwn'
  OBVIOUS
<1>0. TypeOK /\ StderrIsOwn /\ Windows  BY DEF IInv
<1>1. ASSUME NEW c \in Calls, Attach(c) PROVE StderrIsOwn'
  <2>1. run[c] = "failed" /\ attached' = [attached EXCEPT ![c] = Window(c)] /\ closed' = closed
    BY <1>1 DEF Attach, turns
  <2>2. ASSUME ~closed[c] PROVE Window(c) \subseteq {c}
    <3>1. c \notin abandoned
      <4>1. c \in Legacy => stage[c] = "open"  BY <2>1 DEF IInv, Kinds
      <4>2. QED  BY <2>2, <4>1 DEF IInv, GivenUp
    <3>2. \/ mark[c] >= MaxLines
          \/ \A n \in 1 .. Len(stream) : n > mark[c] => stream[n] = c
      BY <1>0, <2>1, <3>1 DEF Windows, Working
    <3>3. \A n \in 1 .. pumped : n > mark[c] => stream[n] = c
      <4>1. /\ pumped <= Len(stream) /\ Len(stream) <= MaxLines /\ Len(stream) \in Nat
            /\ pumped \in Nat /\ mark[c] \in Nat /\ MaxLines \in Nat
        BY <1>0, LenProperties, TurnAssumptions DEF Windows, TypeOK
      <4>2. QED  BY <3>2, <4>1
    <3>4. QED  BY <3>3 DEF Window
  <2>3. \A d \in Calls \ {c} : attached'[d] = attached[d]  BY <1>0, <2>1 DEF TypeOK
  <2>4. attached'[c] = Window(c)  BY <1>0, <2>1 DEF TypeOK
  <2>5. QED  BY <1>0, <2>1, <2>2, <2>3, <2>4 DEF StderrIsOwn
<1>2. CASE attached' = attached /\ \A d \in Calls : closed[d] => closed'[d]
  BY <1>0, <1>2 DEF StderrIsOwn
<1>3. ASSUME NEW c \in Calls, LegCancelled(c) \/ Expire(c)
      PROVE  attached' = attached /\ \A d \in Calls : closed[d] => closed'[d]
  <2>1. attached' = attached /\ closed' = [closed EXCEPT ![c] = TRUE]
    <3>1. CASE LegCancelled(c)  BY <3>1 DEF LegCancelled, End, stderr
    <3>2. CASE Expire(c)  BY <3>2 DEF Expire, End, stderr
    <3>3. QED  BY <1>3, <3>1, <3>2
  <2>2. closed \in [Calls -> BOOLEAN]  BY <1>0 DEF TypeOK
  <2>3. \A d \in Calls : closed[d] => closed'[d]  BY <2>1, <2>2
  <2>4. QED  BY <2>1, <2>3
<1>4. ASSUME NEW c \in Calls, CallStep(c), ~Attach(c), ~(LegCancelled(c) \/ Expire(c))
      PROVE  attached' = attached /\ closed' = closed
  BY <1>4 DEF CallStep, Arrive, CancelQueued, Admit, ChildAsks, AskSettles, ChildWrites, ChildAnswers,
              LegacyReturns, LegacyCancelled, LegacyDrained, LegReturns, Park, Retry, Drained,
              Finished, turns, stderr
<1>5. Pump => attached' = attached /\ closed' = closed  BY DEF Pump, turns
<1>6. ChildDies => attached' = attached /\ closed' = closed  BY DEF ChildDies, turns, stderr
<1>7. UNCHANGED vars => attached' = attached /\ closed' = closed  BY DEF vars, turns, stderr
<1>8. QED  BY <1>1, <1>2, <1>3, <1>4, <1>5, <1>6, <1>7 DEF Next

-----------------------------------------------------------------------------
LEMMA InvariantStep == IInv /\ [Next]_vars => IInv'
BY QueueStep, TypeStep, ControlStep, CallerStep, WindowsStep, StderrStep DEF IInv, Control

\* Every state keeps the whole account: the queue, the lock's holder, the slot, the
\* abandoned calls and the stderr windows (_SerializeClientRequests, _Turn).
THEOREM Invariant == Spec => []IInv
<1>1. Init => IInv  BY InitHolds
<1>2. IInv /\ [Next]_vars => IInv'  BY InvariantStep
<1>3. QED  BY <1>1, <1>2, PTL DEF Spec

\* What the child asks for a call is put to that call's caller or refused,
\* whichever calls were cancelled, abandoned or parked meanwhile (_StdioRouting).
THEOREM Caller == Spec => []RightCaller
<1>1. IInv => RightCaller  BY DEF IInv
<1>2. QED  BY <1>1, Invariant, PTL

\* One caller at a time has the child, the slot and the lock agree on who, and its
\* turn has one leg or is parked (_SerializeClientRequests, _turn_leg).
THEOREM OneCaller == Spec => []Exclusive
<1>1. IInv => Exclusive  BY DEF IInv, Exclusive, OneAtATime, Served, Slotted
<1>2. QED  BY <1>1, Invariant, PTL

\* A failure carries what the child wrote while its call held it: the call's own
\* lines or late output of an answered one, never a line written before, nor one of
\* an abandoned call that still runs (_StderrTee, _with_stderr).
THEOREM OwnStderr == Spec => []StderrIsOwn
<1>1. IInv => StderrIsOwn  BY DEF IInv
<1>2. QED  BY <1>1, Invariant, PTL

-----------------------------------------------------------------------------
(* ToolPolicy: the stored policy, and what it keeps.                       *)

\* The stored policy: no rename to the own name, no two to one name, none to a name that
\* is renamed away.
Settled(p) ==
    /\ p.hide \subseteq Names
    /\ \A t \in Names : p.to[t] # t
    /\ Accepted(p)

PolicyInv == Settled(policy) /\ upstream \subseteq Names /\ schema.at # "ref"

LEMMA NormalizedSettled ==
    ASSUME NEW p \in [hide : SUBSET Names, to : [Names -> Names \cup {None}]],
           Accepted(Normalized(p))
    PROVE  Settled(Normalized(p))
<1> DEFINE n == Normalized(p)
<1>1. n.hide = p.hide /\ \A t \in Names : n.to[t] = IF p.to[t] = t THEN None ELSE p.to[t]
  BY DEF Normalized
<1> HIDE DEF n
<1>2. \A t \in Names : n.to[t] # t  BY <1>1, ToolAssumptions
<1>3. QED  BY <1>1, <1>2 DEF Settled, n

LEMMA PolicyInvariant == PolicySpec => []PolicyInv
<1>1. ASSUME PolicyInit PROVE PolicyInv
  <2>1. PICK input \in Inputs :
            /\ Accepted(Normalized(input[1])) /\ policy = Normalized(input[1]) /\ schema = input[2]
    BY <1>1 DEF PolicyInit
  <2>2. Settled(policy)  BY <2>1, NormalizedSettled, ToolAssumptions
  <2>3. QED  BY <1>1, <2>1, <2>2, ToolAssumptions DEF PolicyInv, PolicyInit
<1>2. ASSUME PolicyInv, [PolicyNext]_policyVars PROVE PolicyInv'
  <2>1. policy' = policy /\ schema' = schema
    BY <1>2 DEF PolicyNext, Answers, CallsTool, Changes, policyVars
  <2>2. upstream' \subseteq Names
    BY <1>2 DEF PolicyInv, PolicyNext, Answers, CallsTool, Changes, policyVars
  <2>3. QED  BY <1>2, <2>1, <2>2 DEF PolicyInv
<1>3. QED  BY <1>1, <1>2, PTL DEF PolicySpec

-----------------------------------------------------------------------------
(* The schemas.                                                            *)

\* A node with nothing of what the two dialects read differently asserts the same in both.
LEMMA NodeMeansTheSame ==
    ASSUME NEW kw, NEW target, NEW isRoot, ~NodeIncompatible(kw, target, isRoot)
    PROVE  /\ Asserts07(kw, target) = Asserts2020(kw, target)
           /\ kw \cap {"tuple", "misshapen", "idfrag"} = {}
           /\ "dependencies" \in kw => "ref" \in kw
           /\ "ref" \in kw => kw \ {"ref"} \subseteq Annotations /\ target = "defs"
<1>1. /\ "tuple" \notin kw /\ ("dependencies" \in kw => "ref" \in kw) /\ "unevaluated" \notin kw
      /\ ~({"contains", "minContains"} \subseteq kw) /\ "anchor" \notin kw /\ "idfrag" \notin kw
      /\ "misshapen" \notin kw /\ ~("id" \in kw /\ "ref" \in kw)
      /\ "ref" \in kw => kw \ {"ref"} \subseteq Annotations /\ target = "defs"
  BY DEF NodeIncompatible, Changed, ActivatesDormant, ShiftsResolution, NonPortable, RefIsWalked
<1>2. CASE "ref" \in kw
  <2>1. kw \cap Known2020(kw) = {}
    BY <1>1, <1>2 DEF Known2020, Annotations
  <2>2. QED  BY <1>1, <1>2, <2>1 DEF Asserts07, Asserts2020
<1>3. CASE "ref" \notin kw
  <2>1. kw \cap Known07 = kw \cap Known2020(kw)
    BY <1>1, <1>3 DEF Known07, Known2020
  <2>2. QED  BY <1>1, <1>3, <2>1 DEF Asserts07, Asserts2020
<1>4. QED  BY <1>1, <1>2, <1>3

LEMMA RelabelledMeansTheSame ==
    ASSUME NEW s, s.at # "ref", Relabelled(s)
    PROVE  Meaning07(s) = Meaning2020(s) /\ Valid2020(s)
<1> DEFINE kw == RootKeywords(s)
<1>1. ~NodeIncompatible(kw, s.rootRef, TRUE) /\ ~ChildIncompatible(s)  BY DEF Relabelled
<1>2. /\ Asserts07(kw, s.rootRef) = Asserts2020(kw, s.rootRef)
      /\ kw \cap {"tuple", "misshapen", "idfrag"} = {}
      /\ "dependencies" \in kw => "ref" \in kw
      /\ "ref" \in kw => kw \ {"ref"} \subseteq Annotations /\ s.rootRef = "defs"
  BY <1>1, NodeMeansTheSame
<1>3. s.at \in kw /\ ("ref" \in kw <=> "ref" \in s.root)  BY DEF RootKeywords
<1> HIDE DEF kw
<1>4. s.at = "dependencies" => "ref" \in s.root  BY <1>2, <1>3
<1>5. "ref" \in s.root => s.at \in Annotations /\ s.rootRef = "defs"  BY <1>2, <1>3
<1>6. ASSUME s.at \in Walked
      PROVE  /\ Asserts07(s.below, s.belowRef) = Asserts2020(s.below, s.belowRef)
             /\ s.below \cap {"tuple", "misshapen", "idfrag"} = {}
  <2>1. ~NodeIncompatible(s.below, s.belowRef, FALSE)  BY <1>1, <1>6 DEF ChildIncompatible
  <2>2. QED  BY <2>1, NodeMeansTheSame
<1>7. "ref" \in s.root /\ s.rootRef = s.at => s.at \in Walked  BY <1>5 DEF Walked
<1>8. s.at \in Applied => s.at \in Walked  BY DEF Applied, Walked
<1>9. Meaning07(s) = Meaning2020(s)
  <2> DEFINE drawn07 == \/ s.at \in Applied \cup {"dependencies"} /\ "ref" \notin s.root
                        \/ "ref" \in s.root /\ s.rootRef = s.at
             drawn2020 == s.at \in Applied \/ ("ref" \in s.root /\ s.rootRef = s.at)
  <2>1. drawn07 <=> drawn2020
    <3>1. "ref" \in s.root => s.at \notin Applied  BY <1>5 DEF Annotations, Applied
    <3>2. QED  BY <1>4, <3>1
  <2>2. drawn2020 => Asserts07(s.below, s.belowRef) = Asserts2020(s.below, s.belowRef)
    BY <1>6, <1>7, <1>8
  <2>3. Meaning07(s) = <<Asserts07(kw, s.rootRef),
                         IF drawn07 THEN Asserts07(s.below, s.belowRef) ELSE {}>>
    BY DEF Meaning07, kw
  <2>4. Meaning2020(s) = <<Asserts2020(kw, s.rootRef),
                           IF drawn2020 THEN Asserts2020(s.below, s.belowRef) ELSE {}>>
    BY DEF Meaning2020, kw
  <2> HIDE DEF drawn07, drawn2020
  <2>5. QED  BY <1>2, <2>1, <2>2, <2>3, <2>4
<1>10. Valid2020(s)  BY <1>2, <1>6, <1>7 DEF Valid2020, kw
<1>11. QED  BY <1>9, <1>10

\* Whatever keywords a schema's nodes hold, it is declared 2020-12 only where that dialect
\* accepts it and asserts what draft-07 asserted (_normalized_schema and what it asks).
THEOREM RelabelIsFaithful == PolicySpec => []RelabelKeepsMeaning
<1>1. PolicyInv => RelabelKeepsMeaning
  BY RelabelledMeansTheSame DEF PolicyInv, RelabelKeepsMeaning
<1>2. QED  BY <1>1, PolicyInvariant, PTL

-----------------------------------------------------------------------------
(* The calls.                                                              *)

ShownAs(name, up) == {t \in Taken(up) : ListedAs(t, up) = name}

\* A listing shows the only tool that goes by a name, or none.
LEMMA ListedIsShown ==
    ASSUME NEW name, NEW up
    PROVE  /\ ShownAs(name, up) = {} => Listed(name, up) = None
           /\ \A t : ShownAs(name, up) = {t} => Listed(name, up) = t
<1>1. ShownAs(name, up) = {} => Listed(name, up) = None  BY DEF ShownAs, Listed
<1>2. ASSUME NEW t, ShownAs(name, up) = {t} PROVE Listed(name, up) = t
  <2>1. Listed(name, up) = CHOOSE s \in {t} : TRUE  BY <1>2 DEF ShownAs, Listed
  <2>2. QED  BY <2>1
<1>3. QED  BY <1>1, <1>2

\* A name goes by its tool, or by the tool renamed to it where the name is free.
LEMMA WhatIsShown ==
    ASSUME NEW name, NEW up, up \subseteq Names, NEW t
    PROVE  t \in ShownAs(name, up) <=>
              /\ t \in Taken(up)
              /\ \/ t \in Renamed(policy) /\ policy.to[t] = name /\ name \notin Taken(up)
                 \/ t = name /\ (t \in Renamed(policy) => policy.to[t] \in Taken(up))
                 \/ t = name /\ policy.to[t] = name
<1>1. t \in ShownAs(name, up) <=> t \in Taken(up) /\ ListedAs(t, up) = name  BY DEF ShownAs
<1>2. t \in Taken(up) => (t \in Renamed(policy) <=> policy.to[t] # None)
  BY DEF Taken, Renamed
<1>3. QED  BY <1>1, <1>2 DEF ListedAs

\* A tool is renamed to at most one name, and no tool is renamed to one renamed away.
LEMMA SourceIsUnique ==
    ASSUME PolicyInv, NEW name
    PROVE  \/ /\ SourceOf(name) = name
              /\ \A t \in Renamed(policy) : policy.to[t] # name
           \/ /\ SourceOf(name) \in Renamed(policy) /\ SourceOf(name) # name
              /\ policy.to[SourceOf(name)] = name /\ name \notin Renamed(policy)
              /\ \A t \in Renamed(policy) : policy.to[t] = name => t = SourceOf(name)
<1> DEFINE s == {t \in Renamed(policy) : policy.to[t] = name}
<1>1. CASE s = {}  BY <1>1 DEF SourceOf
<1>2. CASE s # {}
  <2>1. SourceOf(name) \in s  BY <1>2 DEF SourceOf
  <2>2. policy.to[SourceOf(name)] # SourceOf(name)
    BY <2>1 DEF PolicyInv, Settled, Renamed
  <2>3. QED  BY <2>1, <2>2 DEF PolicyInv, Settled, Accepted
<1>3. QED  BY <1>1, <1>2

\* While a call is resolved the upstream is what the first read saw, or, after one change,
\* that but for one tool.
Follows(first) ==
    /\ call.direct <=> call.name \in first
    /\ first \in seen /\ upstream \in seen
    /\ changes = 0 => upstream = first
    /\ changes <= 1 =>
          \E t \in Names : \A other \in Names \ {t} : other \in upstream <=> other \in first

CallInv ==
    call # NoToolCall =>
        /\ call.name \in Names
        /\ changes \in Nat
        /\ \E first \in SUBSET Names : Follows(first)

LEMMA CallInvariant == PolicySpec => []CallInv
<1>1. PolicyInit => CallInv  BY DEF PolicyInit, CallInv
<1>2. ASSUME PolicyInv, CallInv, [PolicyNext]_policyVars PROVE CallInv'
  <2>1. CASE Answers  BY <2>1 DEF Answers, CallInv, NoToolCall
  <2>2. ASSUME NEW n \in Names, CallsTool(n) PROVE CallInv'
    <3>1. /\ call' = [name |-> n, direct |-> n \in upstream] /\ seen' = {upstream}
          /\ changes' = 0 /\ policy' = policy /\ upstream' = upstream
      BY <2>2 DEF CallsTool
    <3>2. upstream' \in SUBSET Names  BY <1>2, <3>1 DEF PolicyInv
    <3>3. Follows(upstream)'  BY <3>1 DEF Follows
    <3>4. QED  BY <3>1, <3>2, <3>3 DEF CallInv
  <2>3. ASSUME NEW n \in Names, Changes(n) PROVE CallInv'
    <3>1. /\ call' = call
          /\ upstream' = IF n \in upstream THEN upstream \ {n} ELSE upstream \cup {n}
      BY <2>3 DEF Changes
    <3>2. CASE call = NoToolCall  BY <3>1, <3>2 DEF CallInv, NoToolCall
    <3>3. CASE call # NoToolCall
      <4>1. changes' = changes + 1 /\ seen' = seen \cup {upstream'}
        BY <2>3, <3>3 DEF Changes
      <4>2. call.name \in Names /\ changes \in Nat  BY <1>2, <3>3 DEF CallInv
      <4>3. PICK first \in SUBSET Names : Follows(first)  BY <1>2, <3>3 DEF CallInv
      <4>4. ASSUME changes' <= 1
            PROVE  \A other \in Names \ {n} : other \in upstream' <=> other \in first
        <5>1. changes = 0  BY <4>1, <4>2, <4>4
        <5>2. QED  BY <3>1, <4>3, <5>1 DEF Follows
      <4>5. Follows(first)'
        <5>1. call'.direct <=> call'.name \in first  BY <3>1, <4>3 DEF Follows
        <5>2. first \in seen' /\ upstream' \in seen'  BY <4>1, <4>3 DEF Follows
        <5>3. changes' # 0  BY <4>1, <4>2
        <5>4. QED  BY <4>4, <5>1, <5>2, <5>3 DEF Follows
      <4>6. QED  BY <3>1, <4>1, <4>2, <4>3, <4>5 DEF CallInv
    <3>4. QED  BY <3>2, <3>3
  <2>4. CASE UNCHANGED policyVars
    BY <1>2, <2>4 DEF policyVars, CallInv, Follows
  <2>5. QED  BY <1>2, <2>1, <2>2, <2>3, <2>4 DEF PolicyNext
<1>3. QED  BY <1>1, <1>2, PolicyInvariant, PTL DEF PolicySpec

\* The answer is what a listing of some moment of the call shows.
WasListed == \E up \in seen : answer' = Listed(call.name, up)

\* The three ways a call is resolved, each with what it reads the second time.
LEMMA SourceAnswers ==
    ASSUME PolicyInv, CallInv, Answers, ReadsSource(call)
    PROVE  ReachesOneOfThatName /\ (changes <= 1 => WasListed)
<1> DEFINE name == call.name
           source == SourceOf(call.name)
<1>1. answer' = IF source \in upstream THEN source ELSE None
  BY DEF Answers, ReadsTarget
<1>2. PICK first \in SUBSET Names : Follows(first)  BY DEF CallInv, Answers
<1>3. /\ source \in Renamed(policy) /\ policy.to[source] = name /\ source # name
      /\ name \notin Renamed(policy)
      /\ \A t \in Renamed(policy) : policy.to[t] = name => t = source
  BY SourceIsUnique DEF ReadsSource
<1>4. name \notin first \/ name \in policy.hide
  BY <1>2 DEF ReadsSource, Follows, Hides
<1>5. upstream \subseteq Names /\ name \in Names /\ source \in Names /\ source \notin policy.hide
  BY <1>3 DEF PolicyInv, CallInv, Answers, Renamed
<1> HIDE DEF name, source
<1>6. ASSUME NEW up \in SUBSET Names, name \notin Taken(up)
      PROVE  Listed(name, up) = IF source \in up THEN source ELSE None
  <2>1. \A t : t \in ShownAs(name, up) => t = source /\ t \in up
    BY <1>3, <1>6, WhatIsShown DEF Taken
  <2>2. source \in up => source \in ShownAs(name, up)
    BY <1>3, <1>5, <1>6, WhatIsShown DEF Taken
  <2>3. CASE source \in up
    <3>1. ShownAs(name, up) = {source}  BY <2>1, <2>2, <2>3
    <3>2. QED  BY <2>3, <3>1, ListedIsShown
  <2>4. CASE source \notin up
    <3>1. ShownAs(name, up) = {}  BY <2>1, <2>4
    <3>2. QED  BY <2>4, <3>1, ListedIsShown
  <2>5. QED  BY <2>3, <2>4
<1>7. first \in seen /\ upstream \in seen  BY <1>2 DEF Follows
<1>8. ASSUME name \notin Taken(upstream) PROVE answer' = Listed(name, upstream)
  BY <1>1, <1>5, <1>6, <1>8
<1>9. ASSUME name \in Taken(upstream), changes <= 1 PROVE answer' = Listed(name, first)
  <2>1. name \notin first /\ name \notin Taken(first)  BY <1>4, <1>9 DEF Taken
  <2>2. source \in upstream <=> source \in first
    BY <1>2, <1>3, <1>5, <1>9, <2>1 DEF Follows, Taken
  <2>3. QED  BY <1>1, <1>6, <2>1, <2>2
<1>10. changes <= 1 => WasListed
  BY <1>7, <1>8, <1>9 DEF WasListed, name
<1>11. ReachesOneOfThatName
  BY <1>1, <1>3, <1>5, <1>7 DEF ReachesOneOfThatName, name
<1>12. QED  BY <1>10, <1>11

LEMMA TargetAnswers ==
    ASSUME PolicyInv, CallInv, Answers, ReadsTarget(call)
    PROVE  ReachesOneOfThatName /\ (changes <= 1 => WasListed)
<1> DEFINE name == call.name
           target == policy.to[call.name]
<1>1. answer' = IF target \notin upstream \/ target \in policy.hide THEN None ELSE name
  BY DEF Answers, ReadsTarget, Hides
<1>2. PICK first \in SUBSET Names : Follows(first)  BY DEF CallInv, Answers
<1>3. name \in first /\ name \notin policy.hide /\ target # None
  BY <1>2 DEF ReadsTarget, Follows, Hides
<1>4. upstream \subseteq Names /\ name \in Names
  BY DEF PolicyInv, CallInv, Answers
<1>5. name \in Renamed(policy) /\ target # name
  BY <1>3, <1>4 DEF Renamed, PolicyInv, Settled
<1>6. \A t \in Renamed(policy) : policy.to[t] # name
  BY <1>5 DEF PolicyInv, Settled, Accepted
<1>7. first \in seen /\ upstream \in seen  BY <1>2 DEF Follows
<1>8. answer' = IF target \in Taken(upstream) THEN name ELSE None
  BY <1>1 DEF Taken
<1> DEFINE shown(up) == name \in up /\ target \in Taken(up)
<1>9. ASSUME NEW up \in SUBSET Names
      PROVE  Listed(name, up) = IF shown(up) THEN name ELSE None
  <2>1. \A t : t \in ShownAs(name, up) => t = name
    BY <1>6, WhatIsShown
  <2>2. name \in ShownAs(name, up) <=> shown(up)
    BY <1>3, <1>5, WhatIsShown DEF Taken
  <2> HIDE DEF shown
  <2>3. CASE shown(up)
    <3>1. ShownAs(name, up) = {name}  BY <2>1, <2>2, <2>3
    <3>2. QED  BY <2>3, <3>1, ListedIsShown
  <2>4. CASE ~shown(up)
    <3>1. ShownAs(name, up) = {}  BY <2>1, <2>2, <2>4
    <3>2. QED  BY <2>4, <3>1, ListedIsShown
  <2>5. QED  BY <2>3, <2>4
<1> HIDE DEF name, target, shown
<1>10. ASSUME name \in upstream PROVE answer' = Listed(name, upstream)
  <2>1. shown(upstream) <=> target \in Taken(upstream)  BY <1>10 DEF shown
  <2>2. QED  BY <1>4, <1>8, <1>9, <2>1
<1>11. ASSUME name \notin upstream, changes <= 1 PROVE answer' = Listed(name, first)
  <2>1. target \in Taken(upstream) <=> target \in Taken(first)
    BY <1>2, <1>3, <1>4, <1>5, <1>11 DEF Follows, Taken
  <2>2. shown(first) <=> target \in Taken(upstream)  BY <1>3, <2>1 DEF shown
  <2>3. QED  BY <1>8, <1>9, <2>2
<1>12. changes <= 1 => WasListed
  BY <1>7, <1>10, <1>11 DEF WasListed, name
<1>13. ReachesOneOfThatName
  BY <1>3, <1>7, <1>8 DEF ReachesOneOfThatName, name
<1>14. QED  BY <1>12, <1>13

LEMMA DirectAnswers ==
    ASSUME PolicyInv, CallInv, Answers, ~ReadsSource(call), ~ReadsTarget(call)
    PROVE  ReachesOneOfThatName /\ (changes <= 1 => WasListed)
<1> DEFINE name == call.name
<1>1. answer' = IF call.direct /\ name \notin policy.hide THEN name ELSE None
  BY DEF Answers, Hides
<1>2. PICK first \in SUBSET Names : Follows(first)  BY DEF CallInv, Answers
<1>3. call.direct <=> name \in first  BY <1>2 DEF Follows
<1>4. name \in Names /\ first \in seen
  BY <1>2 DEF CallInv, Answers, Follows
<1>5. CASE name \in first /\ name \notin policy.hide
  <2>1. name \notin Renamed(policy)
    BY <1>3, <1>5 DEF ReadsTarget, Renamed, Hides
  <2>2. name \in Taken(first)  BY <1>5 DEF Taken
  <2>3. \A t : t \in ShownAs(name, first) <=> t = name
    BY <2>1, <2>2, WhatIsShown
  <2>4. ShownAs(name, first) = {name}  BY <2>3
  <2>5. Listed(name, first) = name  BY <2>4, ListedIsShown
  <2>6. answer' = name /\ WasListed  BY <1>1, <1>3, <1>4, <1>5, <2>5 DEF WasListed
  <2>7. QED  BY <1>4, <1>5, <2>6 DEF ReachesOneOfThatName
<1>6. CASE name \notin first \/ name \in policy.hide
  <2>1. SourceOf(name) = name
    BY <1>3, <1>6 DEF ReadsSource, Hides
  <2>2. \A t \in Renamed(policy) : policy.to[t] # name  BY <2>1, SourceIsUnique
  <2>3. name \notin Taken(first)  BY <1>6 DEF Taken
  <2>4. \A t : t \notin ShownAs(name, first)  BY <2>2, <2>3, WhatIsShown
  <2>5. ShownAs(name, first) = {}  BY <2>4
  <2>6. Listed(name, first) = None  BY <2>5, ListedIsShown
  <2>7. answer' = None  BY <1>1, <1>3, <1>6
  <2>8. WasListed  BY <1>4, <2>6, <2>7 DEF WasListed
  <2>9. QED  BY <2>7, <2>8 DEF ReachesOneOfThatName
<1>7. QED  BY <1>5, <1>6

\* Whatever the tools and the policy and however the upstream changes under a call, it
\* reaches nothing hidden and only a tool that was there and goes by that name; and what
\* some listing of its time shows, if one change at most overtakes it (get_tool,
\* _resolve_native).
THEOREM CallsReachWhatIsListed == PolicySpec => AnswersAsListed
<1>1. ASSUME PolicyInv, CallInv, [PolicyNext]_policyVars
      PROVE  [Answers => /\ ReachesOneOfThatName
                         /\ changes <= 1 => \E up \in seen : answer' = Listed(call.name, up)]_policyVars
  BY <1>1, SourceAnswers, TargetAnswers, DirectAnswers DEF WasListed
<1>2. QED
  BY <1>1, PolicyInvariant, CallInvariant, PTL DEF PolicySpec, AnswersAsListed
=============================================================================
