-------------------------- MODULE SupervisorProofs --------------------------
(***************************************************************************)
(* Proofs about Supervisor, for any servers, ports, operators and calls.   *)
(* What the supervisor keeps of the bridges is one table: a server's unit  *)
(* is the one in self.units, or the one _stop popped and awaits.  The      *)
(* first part is about such tables; the second about who holds the lock;   *)
(* the rest shows, part by part, that each step keeps the invariant.       *)
(***************************************************************************)
EXTENDS Supervisor, FiniteSetTheorems, SequenceTheorems, TLAPS

Tables == [Servers -> Units \cup {None}]

HasPort(f, s) == f[s] # None /\ f[s].life.port
Alive(f, s) == f[s] # None /\ f[s].life.live
PortHolders(f) == {s \in Servers : HasPort(f, s)}

\* The processes P and the allocator's ports U are those of the table f.
Sound(f, P, U) ==
    /\ \A s \in Servers : Alive(f, s) => f[s].life.port
    /\ \A s \in Servers, p \in Ports : <<s, p>> \in P <=> Alive(f, s) /\ f[s].port = p
    /\ \A p \in Ports : p \in U <=> \E s \in Servers : HasPort(f, s) /\ f[s].port = p
    /\ \A s, t \in Servers : HasPort(f, s) /\ HasPort(f, t) /\ f[s].port = f[t].port => s = t
    /\ Cardinality(PortHolders(f)) <= MaxRunning

-----------------------------------------------------------------------------
(* Tables.                                                                 *)

\* A start takes a slot and a port nobody has.
LEMMA SoundStarts ==
  ASSUME NEW f \in Tables, NEW P, NEW U, Sound(f, P, U),
         NEW s \in Servers, f[s] = None,
         NEW u \in Units, u.life = Started, u.port \notin U,
         Cardinality(PortHolders(f)) < MaxRunning
  PROVE  Sound([f EXCEPT ![s] = u], P, U \cup {u.port})
<1> DEFINE g == [f EXCEPT ![s] = u]
<1> HIDE DEF g
<1>1. g \in Tables /\ g[s] = u /\ (\A t \in Servers \ {s} : g[t] = f[t])
  BY DEF g, Tables
<1>2. u # None /\ u.life.port /\ ~u.life.live /\ u.port \in Ports
  BY NoneIsNothing DEF Started, Units, Lives
<1>3. \A t \in Servers : Alive(g, t) <=> Alive(f, t)
  BY <1>1, <1>2 DEF Alive
<1>4. \A t \in Servers : HasPort(g, t) <=> HasPort(f, t) \/ t = s
  BY <1>1, <1>2 DEF HasPort
<1>5. \A t \in Servers : HasPort(f, t) => f[t].port # u.port /\ t # s /\ g[t] = f[t]
  BY <1>1 DEF Sound, HasPort, Tables, Units
<1>6. Cardinality(PortHolders(g)) <= MaxRunning
  <2>1. PortHolders(g) = PortHolders(f) \cup {s}  BY <1>4 DEF PortHolders
  <2>2. PortHolders(f) \in SUBSET Servers  BY DEF PortHolders
  <2>3. IsFiniteSet(PortHolders(f)) /\ Cardinality(PortHolders(f)) \in Nat
    BY <2>2, FS_Subset, FS_CardinalityType, SupervisorAssumptions
  <2>4. Cardinality(PortHolders(f) \cup {s}) \in {Cardinality(PortHolders(f)), Cardinality(PortHolders(f)) + 1}
    BY <2>3, FS_AddElement
  <2>5. QED  BY <2>1, <2>3, <2>4, SupervisorAssumptions
<1>7. ASSUME NEW p \in Ports
      PROVE  p \in U \cup {u.port} <=> \E t \in Servers : HasPort(g, t) /\ g[t].port = p
  <2>1. p \in U <=> \E t \in Servers : HasPort(f, t) /\ f[t].port = p  BY DEF Sound
  <2>2. CASE p = u.port  BY <1>1, <1>4, <2>2
  <2>3. CASE p # u.port  BY <1>1, <1>4, <1>5, <2>1, <2>3
  <2>4. QED  BY <2>2, <2>3
<1>8. \A t \in Servers : Alive(g, t) => g[t].life.port  BY <1>1, <1>2, <1>3 DEF Sound
<1>9. \A t \in Servers, p \in Ports : <<t, p>> \in P <=> Alive(g, t) /\ g[t].port = p
  <2>1. ~Alive(f, s)  BY DEF Alive
  <2>2. \A t \in Servers : Alive(f, t) => g[t].port = f[t].port  BY <1>1, <2>1
  <2>3. \A t \in Servers, p \in Ports : <<t, p>> \in P <=> Alive(f, t) /\ f[t].port = p
    BY DEF Sound
  <2>4. QED  BY <1>3, <2>2, <2>3
<1>10. \A t, r \in Servers : HasPort(g, t) /\ HasPort(g, r) /\ g[t].port = g[r].port => t = r
  BY <1>1, <1>4, <1>5 DEF Sound
<1>11. QED  BY <1>6, <1>7, <1>8, <1>9, <1>10 DEF Sound, g

\* A unit's state, its process and its hold on the port change; it never takes
\* a port back, and lives only with one.
LEMMA SoundChanges ==
  ASSUME NEW f \in Tables, NEW P, NEW U, Sound(f, P, U),
         NEW s \in Servers, f[s] # None,
         NEW u \in Units, u.port = f[s].port,
         u.life.port => f[s].life.port, u.life.live => u.life.port
  PROVE  Sound([f EXCEPT ![s] = u],
               IF u.life.live THEN P \cup {<<s, u.port>>} ELSE P \ {<<s, u.port>>},
               IF f[s].life.port /\ ~u.life.port THEN U \ {u.port} ELSE U)
<1> DEFINE g == [f EXCEPT ![s] = u]
           Q == IF u.life.live THEN P \cup {<<s, u.port>>} ELSE P \ {<<s, u.port>>}
           V == IF f[s].life.port /\ ~u.life.port THEN U \ {u.port} ELSE U
<1>1. g \in Tables /\ g[s] = u /\ (\A t \in Servers \ {s} : g[t] = f[t])
  BY DEF Tables
<1> HIDE DEF g
<1>2. u # None /\ u.port \in Ports  BY NoneIsNothing DEF Units
<1>3. \A t \in Servers : HasPort(g, t) => HasPort(f, t) /\ g[t].port = f[t].port
  BY <1>1, <1>2 DEF HasPort
<1>4. Cardinality(PortHolders(g)) <= MaxRunning
  <2>1. PortHolders(g) \in SUBSET PortHolders(f)  BY <1>3 DEF PortHolders
  <2>2. PortHolders(f) \in SUBSET Servers  BY DEF PortHolders
  <2>3. IsFiniteSet(PortHolders(f)) /\ Cardinality(PortHolders(f)) \in Nat
    BY <2>2, FS_Subset, FS_CardinalityType, SupervisorAssumptions
  <2>4. /\ Cardinality(PortHolders(g)) \in Nat
        /\ Cardinality(PortHolders(g)) <= Cardinality(PortHolders(f))
    BY <2>1, <2>3, FS_Subset, FS_CardinalityType
  <2>5. QED  BY <2>3, <2>4, SupervisorAssumptions DEF Sound
<1>5. \A t \in Servers : Alive(g, t) => g[t].life.port
  BY <1>1 DEF Sound, Alive
<1>6. \A t \in Servers, p \in Ports : <<t, p>> \in Q <=> Alive(g, t) /\ g[t].port = p
  <2>1. ASSUME NEW t \in Servers \ {s}, NEW p \in Ports
        PROVE  <<t, p>> \in Q <=> Alive(g, t) /\ g[t].port = p
    BY <1>1, <2>1 DEF Sound, Alive
  <2>2. ASSUME NEW p \in Ports PROVE <<s, p>> \in Q <=> Alive(g, s) /\ g[s].port = p
    BY <1>1, <1>2 DEF Sound, Alive
  <2>3. QED  BY <2>1, <2>2
<1>7. \A p \in Ports : p \in V <=> \E t \in Servers : HasPort(g, t) /\ g[t].port = p
  <2>1. CASE f[s].life.port /\ ~u.life.port
    <3>1. \A t \in Servers : HasPort(f, t) /\ f[t].port = u.port => t = s
      BY <2>1 DEF Sound, HasPort
    <3>2. ~HasPort(g, s)  BY <1>1, <2>1 DEF HasPort
    <3>3. \A t \in Servers \ {s} : HasPort(g, t) <=> HasPort(f, t)  BY <1>1 DEF HasPort
    <3>4. QED  BY <1>1, <2>1, <3>1, <3>2, <3>3 DEF Sound
  <2>2. CASE f[s].life.port = u.life.port
    <3>1. \A t \in Servers : HasPort(g, t) <=> HasPort(f, t)
      BY <1>1, <1>2, <2>2 DEF HasPort
    <3>2. \A t \in Servers : HasPort(f, t) => g[t].port = f[t].port  BY <1>1
    <3>3. V = U  BY <2>2
    <3>4. QED  BY <3>1, <3>2, <3>3 DEF Sound
  <2>3. u.life.port \in BOOLEAN /\ f[s].life.port \in BOOLEAN  BY DEF Tables, Units, Lives
  <2>4. QED  BY <2>1, <2>2, <2>3
<1>8. \A t, r \in Servers : HasPort(g, t) /\ HasPort(g, r) /\ g[t].port = g[r].port => t = r
  BY <1>3 DEF Sound
<1>9. QED  BY <1>4, <1>5, <1>6, <1>7, <1>8 DEF Sound, g

\* A unit that is dead leaves the table and gives its port back.
LEMMA SoundEnds ==
  ASSUME NEW f \in Tables, NEW P, NEW U, Sound(f, P, U),
         NEW s \in Servers, f[s] # None, ~f[s].life.live
  PROVE  Sound([f EXCEPT ![s] = None], P, IF f[s].life.port THEN U \ {f[s].port} ELSE U)
<1> DEFINE g == [f EXCEPT ![s] = None]
           V == IF f[s].life.port THEN U \ {f[s].port} ELSE U
<1>1. g \in Tables /\ g[s] = None /\ (\A t \in Servers \ {s} : g[t] = f[t])
  BY DEF Tables
<1> HIDE DEF g
<1>2. \A t \in Servers : HasPort(g, t) <=> HasPort(f, t) /\ t # s
  BY <1>1 DEF HasPort
<1>3. \A t \in Servers : Alive(g, t) <=> Alive(f, t)
  BY <1>1 DEF Alive
<1>4. Cardinality(PortHolders(g)) <= MaxRunning
  <2>1. PortHolders(g) \in SUBSET PortHolders(f)  BY <1>2 DEF PortHolders
  <2>2. PortHolders(f) \in SUBSET Servers  BY DEF PortHolders
  <2>3. IsFiniteSet(PortHolders(f)) /\ Cardinality(PortHolders(f)) \in Nat
    BY <2>2, FS_Subset, FS_CardinalityType, SupervisorAssumptions
  <2>4. /\ Cardinality(PortHolders(g)) \in Nat
        /\ Cardinality(PortHolders(g)) <= Cardinality(PortHolders(f))
    BY <2>1, <2>3, FS_Subset, FS_CardinalityType
  <2>5. QED  BY <2>3, <2>4, SupervisorAssumptions DEF Sound
<1>5. \A t \in Servers : Alive(g, t) => g[t].life.port
  BY <1>1 DEF Sound, Alive
<1>6. \A t \in Servers, p \in Ports : <<t, p>> \in P <=> Alive(g, t) /\ g[t].port = p
  <2>1. ~Alive(f, s)  BY DEF Alive
  <2>2. \A t \in Servers : Alive(f, t) => g[t].port = f[t].port  BY <1>1, <2>1
  <2>3. \A t \in Servers, p \in Ports : <<t, p>> \in P <=> Alive(f, t) /\ f[t].port = p
    BY DEF Sound
  <2>4. QED  BY <1>3, <2>2, <2>3
<1>7. \A p \in Ports : p \in V <=> \E t \in Servers : HasPort(g, t) /\ g[t].port = p
  <2>1. CASE f[s].life.port
    <3>1. \A t \in Servers : HasPort(f, t) /\ f[t].port = f[s].port => t = s
      BY <2>1 DEF Sound, HasPort
    <3>2. \A t \in Servers \ {s} : g[t] = f[t]  BY <1>1
    <3>3. QED  BY <1>2, <2>1, <3>1, <3>2 DEF Sound
  <2>2. CASE ~f[s].life.port
    <3>1. ~HasPort(f, s)  BY <2>2 DEF HasPort
    <3>2. QED  BY <1>1, <1>2, <2>2, <3>1 DEF Sound
  <2>3. QED  BY <2>1, <2>2
<1>8. \A t, r \in Servers : HasPort(g, t) /\ HasPort(g, r) /\ g[t].port = g[r].port => t = r
  BY <1>1, <1>2 DEF Sound
<1>9. QED  BY <1>4, <1>5, <1>6, <1>7, <1>8 DEF Sound, g

\* As many bridges live as there are slots at most, and one per server.
LEMMA SoundCounts ==
  ASSUME NEW f \in Tables, NEW P \in SUBSET (Servers \X Ports), NEW U, Sound(f, P, U)
  PROVE  Cardinality(P) <= MaxRunning
<1> DEFINE A == {s \in Servers : Alive(f, s)}
           g == [s \in A |-> <<s, f[s].port>>]
<1>1. \A s \in A : f[s].port \in Ports  BY DEF Alive, Tables, Units
<1>2. g \in Surjection(A, P)
  <2>1. \A s \in A : <<s, f[s].port>> \in P  BY <1>1 DEF Sound
  <2>2. \A e \in P : e[1] \in A /\ e = <<e[1], f[e[1]].port>>
    <3> TAKE e \in P
    <3>1. PICK s \in Servers, p \in Ports : e = <<s, p>>  OBVIOUS
    <3>2. QED  BY <3>1 DEF Sound
  <2>3. QED  BY <2>1, <2>2 DEF Surjection
<1>3. A \in SUBSET PortHolders(f)  BY DEF Sound, PortHolders, HasPort, Alive
<1>4. PortHolders(f) \in SUBSET Servers  BY DEF PortHolders
<1>5. IsFiniteSet(PortHolders(f)) /\ Cardinality(PortHolders(f)) \in Nat
  BY <1>4, FS_Subset, FS_CardinalityType, SupervisorAssumptions
<1>6. IsFiniteSet(A) /\ Cardinality(A) \in Nat /\ Cardinality(A) <= Cardinality(PortHolders(f))
  BY <1>3, <1>5, FS_Subset, FS_CardinalityType
<1>7. Cardinality(P) \in Nat /\ Cardinality(P) <= Cardinality(A)
  BY <1>2, <1>6, FS_Surjection, FS_CardinalityType
<1>8. QED  BY <1>5, <1>6, <1>7, SupervisorAssumptions DEF Sound

-----------------------------------------------------------------------------
(* The lock.                                                               *)

\* The queue q of a lock: W are in it, each once, and I of them inside.
Lined(q, W, I) ==
    /\ q \in Seq(Actors)
    /\ \A i, j \in 1 .. Len(q) : q[i] = q[j] => i = j
    /\ \A a \in Actors : a \in W <=> \E i \in 1 .. Len(q) : q[i] = a
    /\ \A a \in I : q # <<>> /\ Head(q) = a

LEMMA LinedEnters ==
  ASSUME NEW q, NEW W, NEW I, Lined(q, W, I),
         NEW a, q # <<>>, Head(q) = a, NEW J, J \subseteq I \cup {a}
  PROVE  Lined(q, W, J)
BY DEF Lined

LEMMA LinedAppend ==
  ASSUME NEW q, NEW W, NEW I, Lined(q, W, I), NEW a \in Actors, a \notin W
  PROVE  Lined(Append(q, a), W \cup {a}, I)
<1> DEFINE r == Append(q, a)
<1>1. /\ q \in Seq(Actors) /\ Len(q) \in Nat
      /\ \A i, j \in 1 .. Len(q) : q[i] = q[j] => i = j
      /\ \A b \in Actors : b \in W <=> \E i \in 1 .. Len(q) : q[i] = b
  BY DEF Lined
<1>2. /\ r \in Seq(Actors) /\ r # <<>> /\ Len(r) = Len(q) + 1
      /\ \A i \in 1 .. Len(q) : r[i] = q[i]
      /\ r[Len(q) + 1] = a
  BY <1>1, AppendProperties
<1>3. \A i \in 1 .. Len(r) : i \in 1 .. Len(q) \/ i = Len(q) + 1  BY <1>1, <1>2
<1>4. \A i \in 1 .. Len(q) : q[i] # a /\ i \in 1 .. Len(r) BY <1>1, <1>2
<1> HIDE DEF r
<1>5. \A i, j \in 1 .. Len(r) : r[i] = r[j] => i = j
  <2> TAKE i, j \in 1 .. Len(r)
  <2>1. CASE i \in 1 .. Len(q) /\ j \in 1 .. Len(q)  BY <1>1, <1>2, <2>1
  <2>2. CASE i \in 1 .. Len(q) /\ j = Len(q) + 1  BY <1>2, <1>4, <2>2
  <2>3. CASE j \in 1 .. Len(q) /\ i = Len(q) + 1  BY <1>2, <1>4, <2>3
  <2>4. CASE i = Len(q) + 1 /\ j = Len(q) + 1  BY <2>4
  <2>5. QED  BY <1>3, <2>1, <2>2, <2>3, <2>4
<1>6. ASSUME NEW b \in Actors
      PROVE  b \in W \cup {a} <=> \E i \in 1 .. Len(r) : r[i] = b
  <2>1. Len(q) + 1 \in 1 .. Len(r)  BY <1>1, <1>2
  <2>2. CASE b = a  BY <1>2, <2>1, <2>2
  <2>3. CASE b # a  BY <1>1, <1>2, <1>3, <1>4, <2>3
  <2>4. QED  BY <2>2, <2>3
<1>7. \A b \in I : r # <<>> /\ Head(r) = b
  <2>1. ASSUME q # <<>> PROVE Head(r) = Head(q)  BY <1>1, <2>1, HeadTailAppend DEF r
  <2>2. QED  BY <1>2, <2>1 DEF Lined
<1>8. QED  BY <1>2, <1>5, <1>6, <1>7 DEF Lined, r

LEMMA LinedTail ==
  ASSUME NEW q, NEW W, NEW I, Lined(q, W, I),
         NEW a, q # <<>>, Head(q) = a, NEW J, J \subseteq I \ {a}
  PROVE  Lined(Tail(q), W \ {a}, J)
<1> DEFINE r == Tail(q)
<1>1. /\ q \in Seq(Actors) /\ Len(q) \in Nat /\ Len(q) > 0 /\ q[1] = a
      /\ \A i, j \in 1 .. Len(q) : q[i] = q[j] => i = j
      /\ \A b \in Actors : b \in W <=> \E i \in 1 .. Len(q) : q[i] = b
  BY DEF Lined
<1>2. /\ r \in Seq(Actors) /\ Len(r) = Len(q) - 1
      /\ \A i \in 1 .. Len(r) : r[i] = q[i + 1]
  BY <1>1, HeadTailProperties
<1> HIDE DEF r
<1>3. \A i, j \in 1 .. Len(r) : r[i] = r[j] => i = j
  <2> TAKE i, j \in 1 .. Len(r)
  <2>1. i + 1 \in 1 .. Len(q) /\ j + 1 \in 1 .. Len(q)  BY <1>1, <1>2
  <2>2. r[i] = q[i + 1] /\ r[j] = q[j + 1]  BY <1>2
  <2>3. r[i] = r[j] => i + 1 = j + 1  BY <1>1, <2>1, <2>2
  <2>4. QED  BY <2>3
<1>4. ASSUME NEW b \in Actors
      PROVE  b \in W \ {a} <=> \E i \in 1 .. Len(r) : r[i] = b
  <2>1. ASSUME b \in W \ {a} PROVE \E i \in 1 .. Len(r) : r[i] = b
    <3>1. PICK i \in 1 .. Len(q) : q[i] = b  BY <1>1, <2>1
    <3>2. i # 1  BY <1>1, <2>1, <3>1
    <3>3. i - 1 \in 1 .. Len(r)  BY <1>1, <1>2, <3>2
    <3>4. r[i - 1] = q[(i - 1) + 1]  BY <1>2, <3>3
    <3>5. (i - 1) + 1 = i  OBVIOUS
    <3>6. QED  BY <3>1, <3>3, <3>4, <3>5
  <2>2. ASSUME NEW i \in 1 .. Len(r), r[i] = b PROVE b \in W \ {a}
    <3>1. i + 1 \in 1 .. Len(q) /\ 1 \in 1 .. Len(q) /\ i + 1 # 1  BY <1>1, <1>2
    <3>2. q[i + 1] = b  BY <1>2, <2>2
    <3>3. b \in W  BY <1>1, <3>1, <3>2
    <3>4. b # a  BY <1>1, <3>1, <3>2
    <3>5. QED  BY <3>3, <3>4
  <2>3. QED  BY <2>1, <2>2
<1>5. J = {}  BY DEF Lined
<1>6. QED  BY <1>2, <1>3, <1>4, <1>5 DEF Lined, r

LEMMA LinedAlone ==
  ASSUME NEW q, NEW W, NEW I, Lined(q, W, I), NEW a \in Actors, W \subseteq {a}, a \in W
  PROVE  q # <<>> /\ Head(q) = a
<1>1. PICK i \in 1 .. Len(q) : q[i] = a  BY DEF Lined
<1>2. q \in Seq(Actors) /\ Len(q) \in Nat  BY DEF Lined
<1>3. 1 \in 1 .. Len(q)  BY <1>1, <1>2
<1>4. q[1] \in Actors /\ q[1] \in W  BY <1>2, <1>3 DEF Lined
<1>5. QED  BY <1>2, <1>3, <1>4

-----------------------------------------------------------------------------
(* The invariant.                                                          *)

\* The unit of a server: in self.units, or on its way out.
Of(s) == IF departing # None /\ departing.srv = s THEN departing.unit ELSE units[s]
Table == [s \in Servers |-> Of(s)]

PassStops == {"gate_stop", "sweep_stop", "quiesce_stop", "bounce_stop"}

\* Who awaits a unit's stop(), who is in the lock, who holds it or waits for it.
Stoppers == {a \in Actors :
    \/ a = "pass" /\ pass.at \in PassStops
    \/ a = "shutdown" /\ down = "stopping"
    \/ a \in Operators /\ op[a].at = "stopping"}
Inside == {a \in Actors :
    \/ a = "pass" /\ pass.at \notin {"asleep", "queued"}
    \/ a = "shutdown" /\ down = "stopping"
    \/ a \in Operators /\ op[a].at \in {"stopping", "wiping"}}
InLine == {a \in Actors :
    \/ a = "pass" /\ pass.at # "asleep"
    \/ a = "shutdown" /\ down \in {"queued", "stopping"}
    \/ a \in Operators /\ op[a].at \in {"queued", "stopping", "wiping"}}

CallsTyped ==
    \A o \in Operators :
        /\ op[o].at # "idle" => op[o].srv \in Servers /\ op[o].kind \in Writes \cup Stops
        /\ op[o].at \in {"queued", "stopping", "wiping"} => op[o].kind \in Stops

\* A pass at work has a snapshot, and starts only what that wants.
Worked ==
    /\ pass.at \notin {"asleep", "queued"} => pass.snap \in Snapshots
    /\ pass.at \in {"start", "quiesce_stop", "bounce_stop"} => pass.todo \subseteq Wanted(pass.snap)
    /\ pass.at \in PassStops => departing.srv \in pass.todo

Line == Lined(lock, InLine, Inside)

\* A unit is on its way out while somebody awaits its stop().
Departs ==
    /\ departing # None <=> Stoppers # {}
    /\ departing # None => units[departing.srv] = None /\ departing.unit.life.state = "stopping"
    /\ \A o \in Operators : op[o].at = "stopping" => departing.srv = op[o].srv

Tabled ==
    /\ Sound(Table, procs, used)
    /\ \A s \in Servers : Of(s) # None => Of(s).life.state # "stopped"

\* What holds of a server of which nothing is left, or a quarantined one.
Idled == \A s \in idle : Of(s) = None
RowsTrue == \A s \in Servers : runtime[s] \in {"stopped", "idle"} => Of(s) = None
Quarantined ==
    \A s \in Servers :
        /\ units[s] # None => (units[s].life.state = "stopping" <=> quarantine[s] # "no")
        /\ quarantine[s] # "no" => Of(s) # None
Wiping == \A o \in Operators : op[o].at = "wiping" => Of(op[o].srv) = None

\* What a DELETE that was answered, or is about to be, has seen to.
Erased ==
    /\ \A s \in erased : row[s] = "gone" /\ (units[s] # None => quarantine[s] # "no")
    /\ \A s \in erased : pass.at \notin {"asleep", "queued"} => pass.snap.row[s] # "enabled"
    /\ \A o \in Operators :
          op[o].again \/ (op[o].at = "after" /\ op[o].kind = "delete") => row[op[o].srv] = "gone"
    /\ \A o \in Operators : op[o].again => op[o].kind = "delete" /\ op[o].at # "idle"

\* A shutdown waits behind a pass at most.
Closing ==
    /\ down # "up" =>
          /\ \A o \in Operators : op[o].at = "idle"
          /\ pass.at # "asleep" => down = "queued" /\ lock # <<>> /\ Head(lock) = "pass"
    /\ down = "down" => \A s \in Servers : units[s] = None

IInv ==
    /\ TypeOK /\ CallsTyped /\ Worked /\ Line /\ Departs /\ Tabled
    /\ Idled /\ RowsTrue /\ Quarantined /\ Wiping /\ Erased /\ Closing

-----------------------------------------------------------------------------
(* Types.                                                                  *)

DesiredTypes ==
    /\ row \in [Servers -> Rows] /\ config \in [Servers -> BOOLEAN]
    /\ gated \subseteq Servers /\ naps \subseteq Servers
    /\ runtime \in [Servers -> Runtimes]

LEMMA DesiredTypesStep == IInv /\ [Next]_vars => DesiredTypes'
<1> SUFFICES ASSUME IInv, [Next]_vars PROVE DesiredTypes'
  OBVIOUS
<1> USE DEF DesiredTypes
<1>0. TypeOK /\ CallsTyped /\ DesiredTypes  BY DEF IInv, TypeOK
<1>1. CASE UNCHANGED <<desired, runtime>>  BY <1>0, <1>1 DEF desired
<1>2. ASSUME NEW s \in Servers, PassGates(s) PROVE DesiredTypes'
  BY <1>0, <1>2 DEF PassGates, desired, Runtimes, UnitStates
<1>3. ASSUME PassGated \/ PassSwept \/ PassQuiesced PROVE DesiredTypes'
  <2>1. departing # None  BY <1>3 DEF PassGated, PassSwept, PassQuiesced, EndStop
  <2>2. QED
    BY <1>0, <1>3, <2>1 DEF TypeOK, PassGated, PassSwept, PassQuiesced, RowAfter, desired,
       Runtimes, UnitStates
<1>4. CASE PassReachesStart
  BY <1>0, <1>4 DEF PassReachesStart, desired, Runtimes, UnitStates
<1>5. ASSUME NEW s \in Servers, PassStarts(s) PROVE DesiredTypes'
  BY <1>0, <1>5 DEF PassStarts, TryStart, desired, Runtimes, UnitStates
<1>6. CASE PassBounced
  <2>1. departing # None  BY <1>6 DEF PassBounced, EndStop
  <2>2. QED
    BY <1>0, <1>6, <2>1 DEF TypeOK, PassBounced, TryStart, desired, Runtimes, UnitStates
<1>7. ASSUME NEW s \in Servers, PassRefreshes(s) PROVE DesiredTypes'
  BY <1>0, <1>7 DEF TypeOK, PassRefreshes, desired, Runtimes, Units, Lives
<1>8. ASSUME NEW o \in Operators, WriteCommits(o) PROVE DesiredTypes'
  <2>1. op[o].srv \in Servers  BY <1>0, <1>8 DEF CallsTyped, WriteCommits
  <2>2. row' \in [Servers -> Rows] /\ runtime' = runtime  BY <1>0, <1>8 DEF WriteCommits, Rows, desired
  <2>3. config' \in [Servers -> BOOLEAN]  BY <1>0, <1>8, <2>1 DEF WriteCommits, desired
  <2>4. naps' \subseteq Servers /\ gated' \subseteq Servers
    BY <1>0, <1>8, <2>1 DEF WriteCommits, Toggled, desired
  <2>5. QED  BY <1>0, <2>2, <2>3, <2>4
<1>9. ASSUME NEW o \in Operators, DeleteCommits(o) PROVE DesiredTypes'
  BY <1>0, <1>9 DEF DeleteCommits, Rows, Runtimes
<1>10. CASE Reconcile
  BY <1>1, <1>2, <1>3, <1>4, <1>5, <1>6, <1>7, <1>10
  DEF Reconcile, PassQueues, PassBegins, PassSweeps, PassReachesSweep, PassQuiesces, PassSkipsIdle,
      PassBounces, PassEnds
<1>11. CASE CallEnters \/ \E o \in Operators : CallContinues(o)
  BY <1>1, <1>8, <1>9, <1>11
  DEF CallEnters, CallContinues, WriteEnters, StopEnters, WriteFollowsUp, StopAcquires, StopReturns,
      Wiped, DeleteStopsAgain, DisconnectFollowsUp
<1>12. CASE \E s \in Servers : Request(s) \/ ToolCall(s) \/ RequestFinished(s) \/ UnitMoves(s)
                               \/ IdleWindowPasses(s) \/ BackoffPasses(s)
  BY <1>1, <1>12
  DEF Request, ToolCall, RequestFinished, UnitMoves, IdleWindowPasses, BackoffPasses
<1>13. CASE DepartingDies \/ Shutdown
  BY <1>1, <1>13
  DEF DepartingDies, Shutdown, ShutdownQueues, ShutdownStops, ShutdownStopped, ShutdownEnds
<1>14. CASE UNCHANGED vars  BY <1>1, <1>14 DEF vars
<1>15. QED  BY <1>10, <1>11, <1>12, <1>13, <1>14 DEF Next

-----------------------------------------------------------------------------
(* What a step does to the units.                                          *)

StopBegins == \E s \in Servers : BeginStop(s) /\ UNCHANGED <<procs, used, quarantine>>
StopEnds == \E ok \in BOOLEAN :
    EndStop(ok) /\ units' = UnitsAfter(ok) /\ used' = UsedAfter(ok) /\ procs' = procs
UnitStarts == \E s \in Servers : PassStarts(s)
UnitRestarts ==
    /\ pass.at = "bounce_stop" /\ EndStop(TRUE)
    /\ TryStart(departing.srv, UsedAfter(TRUE)) /\ procs' = procs
Forgets == \E s \in Servers :
    units[s] = None /\ ForgetQuarantine(s) /\ UNCHANGED <<units, departing, used, procs>>

\* Whoever holds the lock and does not await a stop() is alone with the units.
LEMMA Alone ==
  ASSUME Line, Departs, NEW a \in Actors, Holds(a), a \notin Stoppers
  PROVE  departing = None
<1> SUFFICES ASSUME departing # None PROVE FALSE
  OBVIOUS
<1>1. PICK b \in Actors : b \in Stoppers  BY DEF Departs, Stoppers
<1>2. b \in Inside  BY <1>1 DEF Stoppers, Inside, PassStops
<1>3. QED  BY <1>1, <1>2 DEF Line, Lined, Holds

LEMMA PassAlone ==
  ASSUME IInv, pass.at \in {"gate", "sweep", "start"}
  PROVE  departing = None
<1>1. "pass" \in Inside /\ "pass" \notin Stoppers
  BY SupervisorAssumptions DEF Inside, Stoppers, Actors, PassStops
<1>2. "pass" \in Actors /\ Holds("pass")  BY <1>1 DEF IInv, Line, Lined, Inside, Holds
<1>3. QED  BY <1>1, <1>2, Alone DEF IInv

LEMMA CallAlone ==
  ASSUME IInv, NEW o \in Operators, op[o].at = "queued", Holds(o)
  PROVE  departing = None
<1>1. o \in Actors /\ o \notin Stoppers
  BY SupervisorAssumptions DEF Stoppers, Actors
<1>2. QED  BY <1>1, Alone DEF IInv

LEMMA ShutdownAlone ==
  ASSUME IInv, down = "queued", Holds("shutdown")
  PROVE  departing = None
<1>1. "shutdown" \in Actors /\ "shutdown" \notin Stoppers
  BY SupervisorAssumptions DEF Stoppers, Actors
<1>2. QED  BY <1>1, Alone DEF IInv

LEMMA UnitSteps ==
  ASSUME IInv, [Next]_vars
  PROVE  \/ UNCHANGED observed
         \/ departing = None /\ (StopBegins \/ UnitStarts \/ Forgets)
         \/ StopEnds \/ UnitRestarts
         \/ (\E s \in Servers : UnitMoves(s) \/ BackoffPasses(s)) \/ DepartingDies
<1> DEFINE Goal == \/ UNCHANGED observed
                   \/ departing = None /\ (StopBegins \/ UnitStarts \/ Forgets)
                   \/ StopEnds \/ UnitRestarts
                   \/ (\E s \in Servers : UnitMoves(s) \/ BackoffPasses(s)) \/ DepartingDies
<1>1. CASE Reconcile
  <2>1. CASE UNCHANGED observed  BY <2>1
  <2>2. ASSUME NEW s \in Servers, PassGates(s) \/ PassSweeps(s) \/ PassQuiesces(s) \/ PassBounces(s)
        PROVE  Goal
    <3>1. departing = None
      BY <2>2, PassAlone DEF PassGates, PassSweeps, PassQuiesces, PassBounces, Turn
    <3>2. UNCHANGED <<procs, used>> /\ (UNCHANGED <<units, departing, quarantine>> \/ StopBegins)
      BY <2>2 DEF PassGates, PassSweeps, PassQuiesces, PassBounces, StopBegins
    <3>3. QED  BY <3>1, <3>2 DEF observed
  <2>3. CASE PassGated \/ PassSwept \/ PassQuiesced
    BY <2>3 DEF PassGated, PassSwept, PassQuiesced, StopEnds
  <2>4. ASSUME NEW s \in Servers, PassStarts(s) PROVE Goal
    <3>1. departing = None  BY <2>4, PassAlone DEF PassStarts, Turn
    <3>2. UnitStarts  BY <2>4 DEF UnitStarts
    <3>3. QED  BY <3>1, <3>2
  <2>5. CASE PassBounced  BY <2>5 DEF PassBounced, StopEnds, UnitRestarts
  <2>6. QED
    BY <1>1, <2>1, <2>2, <2>3, <2>4, <2>5
    DEF Reconcile, PassQueues, PassBegins, PassReachesSweep, PassReachesStart, PassSkipsIdle,
        PassRefreshes, PassEnds
<1>2. CASE CallEnters \/ \E o \in Operators : CallContinues(o)
  <2>1. CASE UNCHANGED observed  BY <2>1
  <2>2. ASSUME NEW o \in Operators, StopAcquires(o) PROVE Goal
    <3>1. departing = None  BY <2>2, CallAlone DEF StopAcquires
    <3>2. op[o].srv \in Servers  BY <2>2 DEF StopAcquires, IInv, CallsTyped
    <3>3. UNCHANGED <<procs, used>>
          /\ (UNCHANGED <<units, departing, quarantine>> \/ StopBegins \/ Forgets)
      BY <2>2, <3>2 DEF StopAcquires, StopBegins, Forgets
    <3>4. QED  BY <3>1, <3>3 DEF observed
  <2>3. ASSUME NEW o \in Operators, StopReturns(o) PROVE Goal
    BY <2>3 DEF StopReturns, StopEnds
  <2>4. QED
    BY <1>2, <2>1, <2>2, <2>3
    DEF CallEnters, CallContinues, WriteEnters, StopEnters, WriteCommits, WriteFollowsUp, Wiped,
        DeleteCommits, DeleteStopsAgain, DisconnectFollowsUp
<1>3. CASE \E s \in Servers : Request(s) \/ ToolCall(s) \/ RequestFinished(s) \/ UnitMoves(s)
                              \/ IdleWindowPasses(s) \/ BackoffPasses(s)
  BY <1>3 DEF Request, ToolCall, RequestFinished, IdleWindowPasses
<1>4. CASE Shutdown
  <2>1. CASE ShutdownQueues \/ ShutdownEnds  BY <2>1 DEF ShutdownQueues, ShutdownEnds
  <2>2. ASSUME NEW s \in Servers, ShutdownStops(s) PROVE Goal
    BY <2>2, ShutdownAlone DEF ShutdownStops, StopBegins
  <2>3. CASE ShutdownStopped  BY <2>3 DEF ShutdownStopped, StopEnds
  <2>4. QED  BY <1>4, <2>1, <2>2, <2>3 DEF Shutdown
<1>5. CASE UNCHANGED vars  BY <1>5 DEF vars
<1>6. QED  BY <1>1, <1>2, <1>3, <1>4, <1>5 DEF Next

ObservedTypes ==
    /\ units \in [Servers -> Units \cup {None}]
    /\ departing \in [srv : Servers, unit : Units] \cup {None}
    /\ used \subseteq Ports /\ procs \subseteq Servers \X Ports
    /\ quarantine \in [Servers -> {"no", "waiting", "due"}]

LEMMA StartTyped ==
  ASSUME IInv, NEW s \in Servers, NEW taken \in SUBSET Ports, TryStart(s, taken),
         pass.at \in {"start", "bounce_stop"}
  PROVE  units' \in [Servers -> Units \cup {None}] /\ used' \subseteq Ports
<1>1. units \in [Servers -> Units \cup {None}]  BY DEF IInv, TypeOK
<1>2. pass.snap.config[s] \in BOOLEAN  BY DEF IInv, Worked, Snapshots
<1>3. ASSUME NEW p \in Ports PROVE [life |-> Started, port |-> p, config |-> pass.snap.config[s]] \in Units
  BY <1>2 DEF Units, Lives, Started, UnitStates
<1>4. QED  BY <1>1, <1>3 DEF TryStart, Unused

LEMMA StoppingUnit ==
  ASSUME NEW u \in Units
  PROVE  LET v == [u EXCEPT !.life = Stopping(@)]
         IN  /\ v \in Units /\ v.port = u.port /\ v.life.state = "stopping"
             /\ v.life.port = u.life.port /\ v.life.live = u.life.live
BY DEF Units, Lives, Stopping, Showing, UnitStates

LEMMA ObservedTypesStep == IInv /\ [Next]_vars => ObservedTypes'
<1> SUFFICES ASSUME IInv, [Next]_vars PROVE ObservedTypes'
  OBVIOUS
<1>0. ObservedTypes  BY DEF IInv, TypeOK, ObservedTypes
<1>1. CASE UNCHANGED observed  BY <1>0, <1>1 DEF observed, ObservedTypes
<1>2. CASE StopBegins
  <2>1. PICK s \in Servers : BeginStop(s) /\ UNCHANGED <<procs, used, quarantine>>
    BY <1>2 DEF StopBegins
  <2>2. units[s] \in Units  BY <1>0, <2>1 DEF ObservedTypes, BeginStop
  <2>3. QED  BY <1>0, <2>1, <2>2, StoppingUnit DEF ObservedTypes, BeginStop
<1>3. CASE StopEnds
  BY <1>0, <1>3
  DEF ObservedTypes, StopEnds, EndStop, UnitsAfter, UsedAfter, QuarantineAfter
<1>4. CASE UnitStarts
  <2>1. PICK s \in Servers : /\ pass.at = "start" /\ TryStart(s, used)
                             /\ UNCHANGED <<procs, departing, quarantine>>
    BY <1>4 DEF UnitStarts, PassStarts, Turn
  <2>2. QED  BY <1>0, <2>1, StartTyped DEF ObservedTypes
<1>5. CASE UnitRestarts
  <2>1. departing \in [srv : Servers, unit : Units]
    BY <1>0, <1>5 DEF ObservedTypes, UnitRestarts, EndStop
  <2>2. UsedAfter(TRUE) \subseteq Ports  BY <1>0 DEF ObservedTypes, UsedAfter
  <2>3. units' \in [Servers -> Units \cup {None}] /\ used' \subseteq Ports
    BY <1>5, <2>1, <2>2, StartTyped DEF UnitRestarts
  <2>4. QED
    BY <1>0, <1>5, <2>1, <2>3 DEF ObservedTypes, UnitRestarts, EndStop, QuarantineAfter
<1>6. CASE Forgets  BY <1>0, <1>6 DEF ObservedTypes, Forgets, ForgetQuarantine
<1>7. ASSUME NEW s \in Servers, UnitMoves(s) PROVE ObservedTypes'
  <2>1. units[s] \in Units  BY <1>0, <1>7 DEF ObservedTypes, UnitMoves
  <2>2. PICK life \in LivesAfter[units[s].life] :
          /\ units' = [units EXCEPT ![s].life = life]
          /\ used' = IF units[s].life.port /\ ~life.port THEN used \ {units[s].port} ELSE used
          /\ procs' = IF life.live THEN procs \cup {<<s, units[s].port>>}
                      ELSE procs \ {<<s, units[s].port>>}
    BY <1>7 DEF UnitMoves
  <2>3. life \in Lives  BY <2>1 DEF LivesAfter, Units
  <2>4. units' \in [Servers -> Units \cup {None}]
    BY <1>0, <2>1, <2>2, <2>3 DEF ObservedTypes, Units
  <2>5. units[s].port \in Ports  BY <2>1 DEF Units
  <2>6. QED  BY <1>0, <1>7, <2>2, <2>4, <2>5 DEF ObservedTypes, UnitMoves
<1>8. ASSUME NEW s \in Servers, BackoffPasses(s) PROVE ObservedTypes'
  BY <1>0, <1>8 DEF ObservedTypes, BackoffPasses
<1>9. CASE DepartingDies
  BY <1>0, <1>9 DEF ObservedTypes, DepartingDies, Units, Lives
<1>10. QED  BY <1>1, <1>2, <1>3, <1>4, <1>5, <1>6, <1>7, <1>8, <1>9, UnitSteps

-----------------------------------------------------------------------------
(* The table.                                                              *)

LEMMA TableTyped == ASSUME ObservedTypes PROVE Table \in Tables
BY DEF ObservedTypes, Table, Tables, Of

LEMMA TableAlone ==
  ASSUME ObservedTypes, departing = None
  PROVE  Table = units /\ \A s \in Servers : Of(s) = units[s]
BY DEF ObservedTypes, Table, Of

\* What a start does to a table, once the unit before it is gone from it.
LEMMA StartTabled ==
  ASSUME IInv, ObservedTypes', NEW s \in Servers, units[s] = None,
         NEW taken \in SUBSET Ports, TryStart(s, taken), Sound(units, procs, taken),
         pass.at \in {"start", "bounce_stop"}, departing' = None
  PROVE  /\ Sound(units', procs, used')
         /\ units' = units \/ (units'[s].life = Started /\ units' = [units EXCEPT ![s] = units'[s]])
<1>1. units \in Tables  BY DEF IInv, TypeOK, Tables
<1>2. CASE units' = units /\ used' = taken  BY <1>2
<1>3. CASE ~(Occupied >= MaxRunning \/ Unused(taken) = {})
  <2>1. PICK p \in Unused(taken) :
          /\ units' = [units EXCEPT ![s] =
                [life |-> Started, port |-> p, config |-> pass.snap.config[s]]]
          /\ used' = taken \cup {p}
    BY <1>3 DEF TryStart
  <2> DEFINE u == [life |-> Started, port |-> p, config |-> pass.snap.config[s]]
  <2>2. u \in Units
    <3>1. pass.snap.config[s] \in BOOLEAN  BY DEF IInv, Worked, Snapshots
    <3>2. QED  BY <2>1, <3>1 DEF Unused, Units, Lives, Started, UnitStates
  <2>3. u.port \notin taken /\ u.port = p /\ u.life = Started  BY <2>1 DEF Unused
  <2>4. Cardinality(PortHolders(units)) < MaxRunning
    <3>1. Occupied = Cardinality(PortHolders(units))  BY DEF Occupied, PortHolders, HasPort
    <3>2. PortHolders(units) \in SUBSET Servers  BY DEF PortHolders
    <3>3. Cardinality(PortHolders(units)) \in Nat
      BY <3>2, FS_Subset, FS_CardinalityType, SupervisorAssumptions
    <3>4. QED  BY <1>3, <3>1, <3>3, SupervisorAssumptions
  <2> HIDE DEF u
  <2>5. Sound([units EXCEPT ![s] = u], procs, taken \cup {u.port})
    BY <1>1, <2>2, <2>3, <2>4, SoundStarts
  <2>6. units' = [units EXCEPT ![s] = u]  BY <2>1 DEF u
  <2>7. units'[s] = u  BY <1>1, <2>6 DEF Tables
  <2>8. QED  BY <2>1, <2>3, <2>5, <2>6, <2>7
<1>4. QED  BY <1>2, <1>3 DEF TryStart

\* Of the moves of a unit none is to "stopped", from or to "stopping".
LEMMA MovesKeep ==
  ASSUME NEW u \in Lives, NEW v \in Lives, Moves(u, v), u.state # "stopped",
         u.live => u.port
  PROVE  /\ v.state # "stopped" /\ (v.state = "stopping" <=> u.state = "stopping")
         /\ v.port => u.port
         /\ v.live => v.port
BY DEF Lives, Moves, Launches, Comes_Up, Dies, Health_Turns, Falls_Back, Ends_Stable,
       Wants_Activation, Gives_Up, Process, Showing, Without, Up

LEMMA TabledStep == IInv /\ [Next]_vars => Tabled'
<1> SUFFICES ASSUME IInv, [Next]_vars PROVE Tabled'
  OBVIOUS
<1> DEFINE d == departing.srv
<1>a. ObservedTypes /\ ObservedTypes'
  BY ObservedTypesStep DEF IInv, TypeOK, ObservedTypes
<1>b. /\ Table \in Tables /\ Table' \in Tables /\ Sound(Table, procs, used)
      /\ \A s \in Servers : Table[s] = Of(s) /\ (Of(s) # None => Of(s).life.state # "stopped")
  <2>1. Table \in Tables  BY <1>a, TableTyped
  <2>2. Table' \in Tables  BY <1>a DEF ObservedTypes, Table, Tables, Of
  <2>3. Sound(Table, procs, used)  BY DEF IInv, Tabled
  <2>4. \A s \in Servers : Table[s] = Of(s)  BY DEF Table
  <2>5. \A s \in Servers : Of(s) # None => Of(s).life.state # "stopped"  BY DEF IInv, Tabled
  <2>6. QED  BY <2>1, <2>2, <2>3, <2>4, <2>5
<1>c. departing # None => /\ d \in Servers /\ departing.unit \in Units /\ departing.unit # None
                          /\ units[d] = None /\ Table[d] = departing.unit
                          /\ departing.unit.life.state = "stopping"
  BY <1>a, NoneIsNothing DEF ObservedTypes, IInv, Departs, Table, Of
<1>d. ASSUME Sound(Table', procs', used'),
             \A s \in Servers : Table'[s] # None => Table'[s].life.state # "stopped"
      PROVE  Tabled'
  BY <1>d DEF Tabled, Table
<1>1. CASE UNCHANGED observed
  BY <1>1, <1>b, <1>d DEF observed, Table, Of
<1>2. CASE departing = None /\ StopBegins
  <2>1. PICK s \in Servers : BeginStop(s) /\ UNCHANGED <<procs, used, quarantine>>
    BY <1>2 DEF StopBegins
  <2>2. Table = units /\ units[s] \in Units /\ units[s] # None
    BY <1>2, <1>a, <2>1, TableAlone DEF ObservedTypes, BeginStop
  <2> DEFINE u == [units[s] EXCEPT !.life = Stopping(@)]
  <2>3. /\ u \in Units /\ u.port = units[s].port /\ u.life.state = "stopping"
        /\ u.life.port = units[s].life.port /\ u.life.live = units[s].life.live
    BY <2>2, StoppingUnit
  <2>4. departing' = [srv |-> s, unit |-> u] /\ units' = [units EXCEPT ![s] = None]
    BY <2>1 DEF BeginStop
  <2> HIDE DEF u
  <2>5. departing' # None /\ u # None
    <3>1. departing' \in [srv : Servers, unit : Units]  BY <2>3, <2>4
    <3>2. QED  BY <2>3, <3>1, NoneIsNothing
  <2>6. Table' = [units EXCEPT ![s] = u]
    BY <1>a, <2>4, <2>5 DEF ObservedTypes, Table, Of
  <2>7. u.life.live => u.life.port
    BY <1>b, <2>2, <2>3 DEF Sound, Alive
  <2>8. u.port \in Ports  BY <2>3 DEF Units
  <2>9. (IF u.life.live THEN procs \cup {<<s, u.port>>} ELSE procs \ {<<s, u.port>>}) = procs
    BY <1>b, <2>2, <2>3, <2>8 DEF Sound, Alive
  <2>10. (IF Table[s].life.port /\ ~u.life.port THEN used \ {u.port} ELSE used) = used
    BY <2>2, <2>3
  <2>11. Sound([Table EXCEPT ![s] = u], procs, used)
    <3>1. Sound([Table EXCEPT ![s] = u],
                IF u.life.live THEN procs \cup {<<s, u.port>>} ELSE procs \ {<<s, u.port>>},
                IF Table[s].life.port /\ ~u.life.port THEN used \ {u.port} ELSE used)
      <4>1. /\ Table[s] # None /\ u.port = Table[s].port
            /\ u.life.port => Table[s].life.port
        BY <2>2, <2>3
      <4>2. QED  BY <1>b, <2>3, <2>7, <4>1, SoundChanges
    <3>2. QED  BY <2>9, <2>10, <3>1
  <2>12. \A t \in Servers : Table'[t] # None => Table'[t].life.state # "stopped"
    BY <1>a, <1>b, <2>2, <2>3, <2>6 DEF ObservedTypes
  <2>13. QED  BY <1>d, <2>1, <2>2, <2>6, <2>11, <2>12
<1>3. CASE StopEnds
  <2>1. PICK ok \in BOOLEAN :
          EndStop(ok) /\ units' = UnitsAfter(ok) /\ used' = UsedAfter(ok) /\ procs' = procs
    BY <1>3 DEF StopEnds
  <2>2. departing # None /\ departing' = None  BY <2>1 DEF EndStop
  <2>3. Table' = units'
    BY <1>a, <2>2 DEF ObservedTypes, Table, Of
  <2>4. CASE ok
    <3>1. units' = units /\ ~departing.unit.life.live
      BY <2>1, <2>4 DEF UnitsAfter, EndStop
    <3>2. used' = IF Table[d].life.port THEN used \ {Table[d].port} ELSE used
      BY <1>c, <2>1, <2>2, <2>4 DEF UsedAfter
    <3>3. Sound([Table EXCEPT ![d] = None], procs, used')
      BY <1>b, <1>c, <2>2, <3>1, <3>2, SoundEnds
    <3>4. Table' = [Table EXCEPT ![d] = None]
      BY <1>a, <1>c, <2>2, <2>3, <3>1 DEF ObservedTypes, Table, Of
    <3>5. QED  BY <1>b, <1>d, <2>1, <3>3, <3>4 DEF Tables
  <2>5. CASE ~ok
    <3>1. units' = [units EXCEPT ![d] = departing.unit] /\ used' = used
      BY <2>1, <2>5 DEF UnitsAfter, UsedAfter
    <3>2. Table' = Table
      BY <1>a, <1>c, <2>2, <2>3, <3>1 DEF ObservedTypes, Table, Of
    <3>3. QED  BY <1>b, <1>d, <2>1, <3>1, <3>2
  <2>6. QED  BY <2>4, <2>5
<1>4. CASE departing = None /\ UnitStarts
  <2>1. PICK s \in Servers : /\ units[s] = None /\ pass.at = "start" /\ TryStart(s, used)
                             /\ UNCHANGED <<procs, departing, quarantine>>
    BY <1>4 DEF UnitStarts, PassStarts, Turn
  <2>2. Table = units /\ Table' = units' /\ departing' = None
    BY <1>4, <1>a, <2>1 DEF ObservedTypes, Table, Of
  <2>3. used \in SUBSET Ports  BY <1>a DEF ObservedTypes
  <2>4. /\ Sound(units', procs, used')
        /\ units' = units \/ (units'[s].life = Started /\ units' = [units EXCEPT ![s] = units'[s]])
    BY <1>a, <1>b, <2>1, <2>2, <2>3, StartTabled
  <2>5. \A t \in Servers : Table'[t] # None => Table'[t].life.state # "stopped"
    BY <1>b, <2>2, <2>4 DEF Started, Tables
  <2>6. QED  BY <1>d, <2>1, <2>2, <2>4, <2>5
<1>5. CASE UnitRestarts
  <2>1. /\ departing # None /\ departing' = None /\ ~departing.unit.life.live
        /\ pass.at = "bounce_stop" /\ TryStart(d, UsedAfter(TRUE)) /\ procs' = procs
    BY <1>5 DEF UnitRestarts, EndStop
  <2>2. UsedAfter(TRUE) = IF Table[d].life.port THEN used \ {Table[d].port} ELSE used
    BY <1>c, <2>1 DEF UsedAfter
  <2>3. [Table EXCEPT ![d] = None] = units
    BY <1>a, <1>c, <2>1 DEF ObservedTypes, Table, Of
  <2>4. Sound(units, procs, UsedAfter(TRUE))
    <3>1. Sound([Table EXCEPT ![d] = None], procs,
                IF Table[d].life.port THEN used \ {Table[d].port} ELSE used)
      BY <1>b, <1>c, <2>1, SoundEnds
    <3>2. QED  BY <2>2, <2>3, <3>1
  <2>5. UsedAfter(TRUE) \in SUBSET Ports  BY <1>a DEF ObservedTypes, UsedAfter
  <2>6. /\ Sound(units', procs, used')
        /\ units' = units \/ (units'[d].life = Started /\ units' = [units EXCEPT ![d] = units'[d]])
    BY <1>a, <1>c, <2>1, <2>4, <2>5, StartTabled
  <2>7. Table' = units'  BY <1>a, <2>1 DEF ObservedTypes, Table, Of
  <2>8. \A t \in Servers : Table'[t] # None => Table'[t].life.state # "stopped"
    <3>1. \A t \in Servers : t # d => units[t] = Table[t]  BY DEF Table, Of
    <3>2. units[d] = None  BY <1>c, <2>1
    <3>3. \A t \in Servers : units[t] # None => units[t].life.state # "stopped"
      BY <1>b, <3>1, <3>2
    <3>4. units \in Tables  BY <1>a DEF ObservedTypes, Tables
    <3>5. QED  BY <1>c, <2>1, <2>6, <2>7, <3>3, <3>4 DEF Started, Tables
  <2>9. QED  BY <1>d, <2>1, <2>6, <2>7, <2>8
<1>6. CASE Forgets
  BY <1>6, <1>b, <1>d DEF Forgets, Table, Of
<1>7. ASSUME NEW s \in Servers, UnitMoves(s) PROVE Tabled'
  <2>1. units[s] \in Units /\ units[s] # None /\ Table[s] = units[s]
    BY <1>7, <1>a, <1>c DEF ObservedTypes, UnitMoves, Table, Of
  <2>2. PICK life \in LivesAfter[units[s].life] :
          /\ units' = [units EXCEPT ![s].life = life]
          /\ used' = IF units[s].life.port /\ ~life.port THEN used \ {units[s].port} ELSE used
          /\ procs' = IF life.live THEN procs \cup {<<s, units[s].port>>}
                      ELSE procs \ {<<s, units[s].port>>}
    BY <1>7 DEF UnitMoves
  <2>3. units[s].life \in Lives /\ life \in Lives /\ Moves(units[s].life, life)
    BY <2>1, <2>2 DEF LivesAfter, Units
  <2>4. units[s].life.live => units[s].life.port
    BY <1>b, <2>1 DEF Sound, Alive
  <2>5. /\ life.state # "stopped" /\ (life.port => units[s].life.port) /\ (life.live => life.port)
    BY <1>b, <2>1, <2>3, <2>4, MovesKeep
  <2> DEFINE u == [units[s] EXCEPT !.life = life]
  <2>6. u \in Units /\ u.port = units[s].port /\ u.life = life
    BY <2>1, <2>3 DEF Units
  <2>7. Table' = [Table EXCEPT ![s] = u]
    <3>1. units' = [units EXCEPT ![s] = u]  BY <1>a, <2>2 DEF ObservedTypes
    <3>2. departing' = departing  BY <1>7 DEF UnitMoves
    <3>3. departing # None => d # s  BY <1>c, <2>1
    <3> HIDE DEF u
    <3>4. QED  BY <1>a, <3>1, <3>2, <3>3 DEF ObservedTypes, Table, Of
  <2> HIDE DEF u
  <2>8. Sound([Table EXCEPT ![s] = u],
              IF u.life.live THEN procs \cup {<<s, u.port>>} ELSE procs \ {<<s, u.port>>},
              IF Table[s].life.port /\ ~u.life.port THEN used \ {u.port} ELSE used)
    BY <1>b, <2>1, <2>5, <2>6, SoundChanges
  <2>9. Sound(Table', procs', used')  BY <2>1, <2>2, <2>6, <2>7, <2>8
  <2>10. \A t \in Servers : Table'[t] # None => Table'[t].life.state # "stopped"
    BY <1>b, <2>5, <2>6, <2>7 DEF Tables
  <2>11. QED  BY <1>d, <2>9, <2>10
<1>8. ASSUME NEW s \in Servers, BackoffPasses(s) PROVE Tabled'
  BY <1>8, <1>b, <1>d DEF BackoffPasses, Table, Of
<1>9. CASE DepartingDies
  <2> DEFINE u == [departing.unit EXCEPT !.life.live = FALSE]
  <2>1. departing # None /\ departing.unit.life.live  BY <1>9 DEF DepartingDies
  <2>2. /\ u \in Units /\ u.port = departing.unit.port /\ ~u.life.live
        /\ u.life.port = departing.unit.life.port /\ u.life.state = "stopping"
    BY <1>c, <2>1 DEF Units, Lives
  <2>3. /\ departing' = [srv |-> d, unit |-> u] /\ used' = used /\ units' = units
        /\ procs' = procs \ {<<d, u.port>>}
    BY <1>9, <1>a, <2>1, <2>2 DEF DepartingDies, ObservedTypes
  <2> HIDE DEF u
  <2>4. departing' # None /\ u # None
    <3>1. departing' \in [srv : Servers, unit : Units]  BY <1>c, <2>1, <2>2, <2>3
    <3>2. QED  BY <2>2, <3>1, NoneIsNothing
  <2>5. Table' = [Table EXCEPT ![d] = u]
    BY <1>a, <1>c, <2>1, <2>3, <2>4 DEF ObservedTypes, Table, Of
  <2>6. (IF Table[d].life.port /\ ~u.life.port THEN used \ {u.port} ELSE used) = used
    BY <1>c, <2>1, <2>2
  <2>7. (IF u.life.live THEN procs \cup {<<d, u.port>>} ELSE procs \ {<<d, u.port>>}) = procs'
    BY <2>2, <2>3
  <2>8. Sound([Table EXCEPT ![d] = u], procs', used)
    <3>1. Sound([Table EXCEPT ![d] = u],
                IF u.life.live THEN procs \cup {<<d, u.port>>} ELSE procs \ {<<d, u.port>>},
                IF Table[d].life.port /\ ~u.life.port THEN used \ {u.port} ELSE used)
      <4>1. /\ Table[d] # None /\ u.port = Table[d].port
            /\ u.life.port => Table[d].life.port
            /\ u.life.live => u.life.port
        BY <1>c, <2>1, <2>2
      <4>2. Table \in Tables /\ Sound(Table, procs, used) /\ d \in Servers /\ u \in Units
        BY <1>b, <1>c, <2>1, <2>2
      <4>3. QED  BY <4>1, <4>2, SoundChanges
    <3>2. QED  BY <2>6, <2>7, <3>1
  <2>9. \A t \in Servers : Table'[t] # None => Table'[t].life.state # "stopped"
    BY <1>b, <2>2, <2>5 DEF Tables
  <2>10. QED  BY <1>d, <2>3, <2>5, <2>8, <2>9
<1>10. QED  BY <1>1, <1>2, <1>3, <1>4, <1>5, <1>6, <1>7, <1>8, <1>9, UnitSteps

\* Of a server of which nothing is left nothing comes but by a pass's start.
LEMMA StaysGone ==
  ASSUME IInv, [Next]_vars, NEW s \in Servers, Of(s) = None
  PROVE  Of(s)' = None \/ PassStarts(s)
<1>1. departing # None => /\ departing.srv # s /\ departing.unit # None
                          /\ departing.unit.life.state = "stopping"
  BY NoneIsNothing DEF IInv, TypeOK, Departs, Of
<1>2. units[s] = None  BY <1>1 DEF Of
<1>3. units \in [Servers -> Units \cup {None}]  BY DEF IInv, TypeOK
<1>4. CASE UNCHANGED observed  BY <1>4 DEF observed, Of
<1>5. CASE departing = None /\ StopBegins
  BY <1>2, <1>3, <1>5 DEF StopBegins, BeginStop, Of
<1>6. CASE departing = None /\ UnitStarts
  <2>1. PICK t \in Servers : PassStarts(t)  BY <1>6 DEF UnitStarts
  <2>2. CASE t = s  BY <2>1, <2>2
  <2>3. CASE t # s
    BY <1>2, <1>3, <1>6, <2>1, <2>3 DEF PassStarts, TryStart, Of
  <2>4. QED  BY <2>2, <2>3
<1>7. CASE departing = None /\ Forgets  BY <1>2, <1>7 DEF Forgets, Of
<1>8. CASE StopEnds
  BY <1>1, <1>2, <1>3, <1>8 DEF StopEnds, EndStop, UnitsAfter, Of
<1>9. CASE UnitRestarts
  BY <1>1, <1>2, <1>3, <1>9 DEF UnitRestarts, EndStop, TryStart, Of
<1>10. ASSUME NEW t \in Servers, UnitMoves(t) PROVE Of(s)' = None
  BY <1>1, <1>2, <1>3, <1>10 DEF UnitMoves, Of
<1>11. ASSUME NEW t \in Servers, BackoffPasses(t) PROVE Of(s)' = None
  BY <1>1, <1>2, <1>11 DEF BackoffPasses, Of
<1>12. CASE DepartingDies
  <2>1. departing \in [srv : Servers, unit : Units]  BY <1>12 DEF DepartingDies, IInv, TypeOK
  <2>2. departing'.srv = departing.srv /\ units' = units
    BY <1>12, <2>1 DEF DepartingDies
  <2>3. QED  BY <1>1, <1>2, <1>12, <2>2 DEF DepartingDies, Of
<1>13. QED
  BY <1>4, <1>5, <1>6, <1>7, <1>8, <1>9, <1>10, <1>11, <1>12, UnitSteps

-----------------------------------------------------------------------------
(* The line at the lock.                                                   *)

\* Whoever is inside is alone there and holds the lock.
LEMMA Exclusive ==
  ASSUME Line, NEW a \in Inside
  PROVE  Holds(a) /\ \A b : Holds(b) \/ b \in Inside => b = a
BY DEF Line, Lined, Holds

\* Where a step leaves the calls, the pass or the shutdown, and nothing else.
CallMoves(o) == UNCHANGED <<pass, down>> /\ \A a \in Operators \ {o} : op'[a] = op[a]
PassMoves == UNCHANGED <<op, down>>
ShutdownMoves == UNCHANGED <<op, pass>>

InCall == {"stopping", "wiping"}

LEMMA CallLine ==
  ASSUME NEW o \in Operators, CallMoves(o)
  PROVE  /\ InLine' = (InLine \ {o}) \cup {a \in {o} : op'[a].at \in {"queued"} \cup InCall}
         /\ Inside' = (Inside \ {o}) \cup {a \in {o} : op'[a].at \in InCall}
         /\ o \in Actors
         /\ o \in InLine <=> op[o].at \in {"queued"} \cup InCall
         /\ o \in Inside <=> op[o].at \in InCall
BY SupervisorAssumptions DEF CallMoves, InLine, Inside, Actors, InCall

LEMMA PassLine ==
  ASSUME PassMoves
  PROVE  /\ InLine' = (InLine \ {"pass"}) \cup {a \in {"pass"} : pass'.at # "asleep"}
         /\ Inside' = (Inside \ {"pass"}) \cup {a \in {"pass"} : pass'.at \notin {"asleep", "queued"}}
         /\ "pass" \in Actors
         /\ "pass" \in InLine <=> pass.at # "asleep"
         /\ "pass" \in Inside <=> pass.at \notin {"asleep", "queued"}
BY SupervisorAssumptions DEF PassMoves, InLine, Inside, Actors

LEMMA ShutdownLine ==
  ASSUME ShutdownMoves
  PROVE  /\ InLine' = (InLine \ {"shutdown"}) \cup {a \in {"shutdown"} : down' \in {"queued", "stopping"}}
         /\ Inside' = (Inside \ {"shutdown"}) \cup {a \in {"shutdown"} : down' = "stopping"}
         /\ "shutdown" \in Actors
         /\ "shutdown" \in InLine <=> down \in {"queued", "stopping"}
         /\ "shutdown" \in Inside <=> down = "stopping"
BY SupervisorAssumptions DEF ShutdownMoves, InLine, Inside, Actors

\* How a call may move at the lock.
Aside(o) == op[o].at \notin {"queued"} \cup InCall /\ op'[o].at \notin {"queued"} \cup InCall
            /\ lock' = lock
Queues(o) == op[o].at \notin {"queued"} \cup InCall /\ op'[o].at = "queued"
             /\ lock' = Append(lock, o)
GoesIn(o) == op[o].at = "queued" /\ Holds(o) /\ op'[o].at \in InCall /\ lock' = lock
StaysIn(o) == op[o].at \in InCall /\ op'[o].at \in InCall /\ lock' = lock
Leaves(o) == op[o].at \in {"queued"} \cup InCall /\ Holds(o)
             /\ op'[o].at \notin {"queued"} \cup InCall /\ lock' = Tail(lock)
Requeues(o) == op[o].at \in {"queued"} \cup InCall /\ Holds(o)
               /\ op'[o].at = "queued" /\ lock' = Append(Tail(lock), o)

LEMMA CallLineKept ==
  ASSUME Line, NEW o \in Operators, CallMoves(o),
         Aside(o) \/ Queues(o) \/ GoesIn(o) \/ StaysIn(o) \/ Leaves(o) \/ Requeues(o)
  PROVE  Line'
<1>1. CASE Aside(o)
  <2>1. o \notin InLine /\ o \notin Inside  BY <1>1, CallLine DEF Aside, InCall
  <2>2. InLine' = InLine \ {o} /\ Inside' = Inside \ {o}
    BY <1>1, CallLine DEF Aside, InCall
  <2>3. InLine' = InLine /\ Inside' = Inside  BY <2>1, <2>2
  <2>4. QED  BY <1>1, <2>3 DEF Aside, Line
<1>2. CASE Queues(o)
  <2>1. o \notin InLine /\ o \notin Inside /\ o \in Actors
    BY <1>2, CallLine DEF Queues, InCall
  <2>2. InLine' = (InLine \ {o}) \cup {o} /\ Inside' = Inside \ {o}
    BY <1>2, CallLine DEF Queues, InCall
  <2>3. InLine' = InLine \cup {o} /\ Inside' = Inside  BY <2>1, <2>2
  <2>4. QED  BY <1>2, <2>1, <2>3, LinedAppend DEF Queues, Line
<1>3. CASE GoesIn(o)
  <2>1. InLine' = InLine /\ Inside' \subseteq Inside \cup {o}
    BY <1>3, CallLine DEF GoesIn, InCall
  <2>2. QED  BY <1>3, <2>1, LinedEnters DEF GoesIn, Holds, Line
<1>4. CASE StaysIn(o)
  <2>1. InLine' = InLine /\ Inside' = Inside  BY <1>4, CallLine DEF StaysIn, InCall
  <2>2. QED  BY <1>4, <2>1 DEF StaysIn, Line
<1>5. CASE Leaves(o)
  <2>1. InLine' = InLine \ {o} /\ Inside' \subseteq Inside \ {o}
    BY <1>5, CallLine DEF Leaves, InCall
  <2>2. QED  BY <1>5, <2>1, LinedTail DEF Leaves, Holds, Line
<1>6. CASE Requeues(o)
  <2>1. InLine' = (InLine \ {o}) \cup {o} /\ Inside' \subseteq Inside \ {o} /\ o \in Actors
    BY <1>6, CallLine DEF Requeues, InCall
  <2>2. Lined(Tail(lock), InLine \ {o}, Inside')
    BY <1>6, <2>1, LinedTail DEF Requeues, Holds, Line
  <2>3. QED  BY <1>6, <2>1, <2>2, LinedAppend DEF Requeues, Line
<1>7. QED  BY <1>1, <1>2, <1>3, <1>4, <1>5, <1>6

Turns(o) == Aside(o) \/ Queues(o) \/ GoesIn(o) \/ StaysIn(o) \/ Leaves(o) \/ Requeues(o)

LEMMA RefusedTurns ==
  ASSUME TypeOK, NEW o \in Operators, Holds(o), op[o].at \in {"queued"} \cup InCall, Refused(o)
  PROVE  Turns(o) /\ op'[o].at # "stopping" /\ \A a \in Operators \ {o} : op'[a] = op[a]
<1>1. \A a \in Operators \ {o} : op'[a] = op[a]  BY DEF TypeOK, Refused
<1>2. \/ op'[o].at = "queued" /\ lock' = Append(Tail(lock), o)
      \/ op'[o].at = "idle" /\ lock' = Tail(lock)
  BY DEF TypeOK, Refused, NoCall
<1>3. QED  BY <1>1, <1>2 DEF Turns, Leaves, Requeues, InCall

LEMMA ProceedTurns ==
  ASSUME TypeOK, CallsTyped, NEW o \in Operators, Holds(o), op[o].at \in {"queued"} \cup InCall,
         Proceed(o)
  PROVE  Turns(o) /\ op'[o].at # "stopping" /\ \A a \in Operators \ {o} : op'[a] = op[a]
<1>1. CASE Refused(o)  BY <1>1, RefusedTurns
<1>2. CASE ~Refused(o)
  <2>1. op[o].kind \in Stops  BY DEF CallsTyped, InCall
  <2>2. \A a \in Operators \ {o} : op'[a] = op[a]
    BY <1>2, <2>1 DEF TypeOK, Proceed, Stops
  <2>3. \/ op'[o].at \in {"idle", "commit"} /\ lock' = Tail(lock)
        \/ op'[o].at = "wiping" /\ lock' = lock
    <3>1. CASE op[o].kind \in {"restart", "retry"}
      <4>1. op' = [op EXCEPT ![o] = NoCall] /\ lock' = Tail(lock)
        BY <1>2, <3>1 DEF Proceed
      <4>2. QED  BY <4>1 DEF TypeOK, NoCall
    <3>2. CASE op[o].kind = "wipe"
      BY <1>2, <3>2 DEF TypeOK, Proceed
    <3>3. CASE op[o].kind \in {"disconnect", "delete"}
      <4>1. /\ op' = [op EXCEPT ![o] = IF op[o].again THEN NoCall ELSE [op[o] EXCEPT !.at = "commit"]]
            /\ lock' = Tail(lock)
        BY <1>2, <3>3 DEF Proceed
      <4>2. QED  BY <4>1 DEF TypeOK, NoCall
    <3>4. QED  BY <2>1, <3>1, <3>2, <3>3 DEF Stops
  <2>4. QED  BY <2>2, <2>3 DEF Turns, Leaves, GoesIn, StaysIn, InCall
<1>3. QED  BY <1>1, <1>2

LEMMA CallTurns ==
  ASSUME IInv, NEW o \in Operators,
         \/ CallContinues(o)
         \/ \E s \in Servers : \/ \E kind \in Writes : WriteEnters(o, kind, s)
                               \/ \E kind \in Stops : StopEnters(o, kind, s)
  PROVE  CallMoves(o) /\ Turns(o)
<1>0. TypeOK /\ CallsTyped /\ Line  BY DEF IInv
<1> USE DEF CallMoves, Turns
<1>1. ASSUME NEW s \in Servers, NEW kind \in Writes, WriteEnters(o, kind, s)
      PROVE  CallMoves(o) /\ Aside(o)
  BY <1>0, <1>1 DEF TypeOK, WriteEnters, Calls, Aside, InCall
<1>2. ASSUME NEW s \in Servers, NEW kind \in Stops, StopEnters(o, kind, s)
      PROVE  CallMoves(o) /\ Queues(o)
  BY <1>0, <1>2 DEF TypeOK, StopEnters, Calls, Queues, InCall
<1>3. CASE WriteCommits(o)
  BY <1>0, <1>3 DEF TypeOK, WriteCommits, NoCall, Aside, InCall
<1>4. CASE WriteFollowsUp(o)
  BY <1>0, <1>4 DEF TypeOK, WriteFollowsUp, NoCall, Aside, InCall
<1>5. CASE StopAcquires(o)
  <2>1. Holds(o) /\ op[o].at = "queued" /\ op[o].at \in {"queued"} \cup InCall /\ UNCHANGED <<pass, down>>
    BY <1>5 DEF StopAcquires
  <2>2. CASE Refused(o) \/ Proceed(o)
    BY <1>0, <2>1, <2>2, RefusedTurns, ProceedTurns
  <2>3. CASE op' = [op EXCEPT ![o].at = "stopping"] /\ lock' = lock
    BY <1>0, <2>1, <2>3 DEF TypeOK, GoesIn, InCall
  <2>4. QED  BY <1>5, <2>2, <2>3 DEF StopAcquires
<1>6. CASE StopReturns(o)
  <2>1. o \in Inside  BY <1>6 DEF StopReturns, Inside, Actors
  <2>2. Holds(o) /\ op[o].at \in {"queued"} \cup InCall /\ UNCHANGED <<pass, down>>
    BY <1>0, <1>6, <2>1, Exclusive DEF StopReturns, InCall
  <2>3. CASE Proceed(o)
    BY <1>0, <2>2, <2>3, ProceedTurns
  <2>4. CASE CallFails(o)
    BY <1>0, <2>2, <2>4 DEF TypeOK, CallFails, NoCall, Leaves, InCall
  <2>5. QED  BY <1>6, <2>3, <2>4 DEF StopReturns
<1>7. CASE Wiped(o)
  <2>1. o \in Inside  BY <1>7 DEF Wiped, Inside, Actors
  <2>2. Holds(o)  BY <1>0, <2>1, Exclusive
  <2>3. QED  BY <1>0, <1>7, <2>2 DEF TypeOK, Wiped, NoCall, Leaves, InCall
<1>8. CASE DeleteCommits(o)
  BY <1>0, <1>8 DEF TypeOK, DeleteCommits, NoCall, Aside, InCall
<1>9. CASE DeleteStopsAgain(o)
  BY <1>0, <1>9 DEF TypeOK, DeleteStopsAgain, Queues, InCall
<1>10. CASE DisconnectFollowsUp(o)
  BY <1>0, <1>10 DEF TypeOK, DisconnectFollowsUp, NoCall, Aside, InCall
<1>11. QED
  BY <1>1, <1>2, <1>3, <1>4, <1>5, <1>6, <1>7, <1>8, <1>9, <1>10 DEF CallContinues

LEMMA PassKeepsLine == ASSUME IInv, Reconcile PROVE Line'
<1>0. TypeOK /\ Line /\ PassMoves
  BY DEF IInv, PassMoves, Reconcile, PassQueues, PassBegins, PassGates, PassGated, PassReachesSweep,
     PassSweeps, PassSwept, PassReachesStart, PassQuiesces, PassQuiesced, PassSkipsIdle, PassStarts,
     PassBounces, PassBounced, PassRefreshes, PassEnds
<1>1. CASE PassQueues
  <2>1. "pass" \notin InLine /\ "pass" \notin Inside /\ "pass" \in Actors
    BY <1>0, <1>1, PassLine DEF PassQueues
  <2>2. pass'.at = "queued"  BY <1>0, <1>1 DEF PassQueues, TypeOK
  <2>3. InLine' = (InLine \ {"pass"}) \cup {"pass"} /\ Inside' = Inside \ {"pass"}
    BY <1>0, <2>2, PassLine
  <2>4. InLine' = InLine \cup {"pass"} /\ Inside' = Inside  BY <2>1, <2>3
  <2>5. QED  BY <1>0, <1>1, <2>1, <2>4, LinedAppend DEF PassQueues, Line
<1>2. CASE PassBegins
  <2>1. pass.at # "asleep" /\ pass'.at = "gate"  BY <1>0, <1>2 DEF PassBegins, TypeOK
  <2>2. "pass" \in InLine  BY <1>0, <2>1, PassLine
  <2>3. InLine' = (InLine \ {"pass"}) \cup {"pass"} /\ Inside' = (Inside \ {"pass"}) \cup {"pass"}
    BY <1>0, <2>1, PassLine
  <2>4. InLine' = InLine /\ Inside' \subseteq Inside \cup {"pass"}  BY <2>2, <2>3
  <2>5. QED  BY <1>0, <1>2, <2>4, LinedEnters DEF PassBegins, Holds, Line
<1>3. CASE PassEnds
  <2>1. pass.at \notin {"asleep", "queued"} /\ pass'.at = "asleep"
    BY <1>3 DEF PassEnds, Asleep
  <2>2. "pass" \in Inside  BY <1>0, <2>1, PassLine
  <2>3. Holds("pass")  BY <1>0, <2>2, Exclusive
  <2>4. InLine' = InLine \ {"pass"} /\ Inside' \subseteq Inside \ {"pass"}
    BY <1>0, <2>1, PassLine
  <2>5. QED  BY <1>0, <1>3, <2>3, <2>4, LinedTail DEF PassEnds, Holds, Line
<1>4. CASE pass.at \notin {"asleep", "queued"} /\ pass'.at \notin {"asleep", "queued"} /\ lock' = lock
  <2>1. "pass" \in InLine /\ "pass" \in Inside  BY <1>0, <1>4, PassLine
  <2>2. InLine' = (InLine \ {"pass"}) \cup {"pass"} /\ Inside' = (Inside \ {"pass"}) \cup {"pass"}
    BY <1>0, <1>4, PassLine
  <2>3. InLine' = InLine /\ Inside' = Inside  BY <2>1, <2>2
  <2>4. QED  BY <1>0, <1>4, <2>3 DEF Line
<1>5. ASSUME NEW s \in Servers,
             PassGates(s) \/ PassSweeps(s) \/ PassQuiesces(s) \/ PassSkipsIdle(s) \/ PassStarts(s)
             \/ PassBounces(s) \/ PassRefreshes(s)
      PROVE  /\ pass.at \notin {"asleep", "queued"} /\ pass'.at \notin {"asleep", "queued"}
             /\ lock' = lock
  BY <1>0, <1>5
  DEF TypeOK, PassGates, PassSweeps, PassQuiesces, PassSkipsIdle, PassStarts, PassBounces,
      PassRefreshes, Turn
<1>6. ASSUME PassGated \/ PassReachesSweep \/ PassSwept \/ PassReachesStart \/ PassQuiesced \/ PassBounced
      PROVE  /\ pass.at \notin {"asleep", "queued"} /\ pass'.at \notin {"asleep", "queued"}
             /\ lock' = lock
  BY <1>0, <1>6
  DEF TypeOK, PassGated, PassReachesSweep, PassSwept, PassReachesStart, PassQuiesced, PassBounced
<1>7. QED  BY <1>1, <1>2, <1>3, <1>4, <1>5, <1>6 DEF Reconcile

LEMMA ShutdownKeepsLine == ASSUME IInv, Shutdown PROVE Line'
<1>0. TypeOK /\ Line /\ ShutdownMoves
  BY DEF IInv, ShutdownMoves, Shutdown, ShutdownQueues, ShutdownStops, ShutdownStopped, ShutdownEnds
<1>1. CASE ShutdownQueues
  <2>1. /\ "shutdown" \notin InLine /\ "shutdown" \notin Inside /\ "shutdown" \in Actors
        /\ down' = "queued" /\ lock' = Append(lock, "shutdown")
    BY <1>0, <1>1, ShutdownLine DEF ShutdownQueues
  <2>2. InLine' = (InLine \ {"shutdown"}) \cup {"shutdown"} /\ Inside' = Inside \ {"shutdown"}
    BY <1>0, <2>1, ShutdownLine
  <2>3. InLine' = InLine \cup {"shutdown"} /\ Inside' = Inside  BY <2>1, <2>2
  <2>4. QED  BY <1>0, <2>1, <2>3, LinedAppend DEF Line
<1>2. CASE (\E s \in Servers : ShutdownStops(s)) \/ (ShutdownStopped /\ lock' = lock)
  <2>1. "shutdown" \in Inside \/ Holds("shutdown")
    BY <1>0, <1>2, ShutdownLine DEF ShutdownStops, ShutdownStopped
  <2>2. Holds("shutdown") /\ "shutdown" \in InLine
    BY <1>0, <1>2, <2>1, Exclusive, ShutdownLine DEF ShutdownStops, ShutdownStopped
  <2>3. lock' = lock /\ down' \in {"queued", "stopping"}
    <3>1. CASE \E s \in Servers : ShutdownStops(s)  BY <3>1 DEF ShutdownStops
    <3>2. CASE ShutdownStopped /\ lock' = lock
      <4>1. lock # <<>> /\ lock \in Seq(Actors)  BY <1>0, <2>2 DEF Holds, TypeOK
      <4>2. Tail(lock) # lock  BY <4>1, HeadTailProperties
      <4>3. QED  BY <3>2, <4>2 DEF ShutdownStopped
    <3>3. QED  BY <1>2, <3>1, <3>2
  <2>4. InLine' = (InLine \ {"shutdown"}) \cup {"shutdown"} /\ Inside' \subseteq Inside \cup {"shutdown"}
    BY <1>0, <2>3, ShutdownLine
  <2>5. InLine' = InLine  BY <2>2, <2>4
  <2>6. lock # <<>> /\ Head(lock) = "shutdown"  BY <2>2 DEF Holds
  <2>7. Lined(lock, InLine, Inside)  BY <1>0 DEF Line
  <2>8. Lined(lock, InLine, Inside')  BY <2>4, <2>6, <2>7, LinedEnters
  <2>9. QED  BY <2>3, <2>5, <2>8 DEF Line
<1>3. CASE (ShutdownStopped /\ lock' # lock) \/ ShutdownEnds
  <2>1. "shutdown" \in Inside \/ Holds("shutdown")
    BY <1>0, <1>3, ShutdownLine DEF ShutdownEnds, ShutdownStopped
  <2>2. Holds("shutdown")  BY <1>0, <2>1, Exclusive
  <2>3. lock' = Tail(lock) /\ down' \in {"raised", "down"}
    BY <1>3 DEF ShutdownStopped, ShutdownEnds
  <2>4. InLine' = InLine \ {"shutdown"} /\ Inside' \subseteq Inside \ {"shutdown"}
    BY <1>0, <2>3, ShutdownLine
  <2>5. QED  BY <1>0, <2>2, <2>3, <2>4, LinedTail DEF Holds, Line
<1>4. QED  BY <1>1, <1>2, <1>3 DEF Shutdown

LEMMA LineStep == IInv /\ [Next]_vars => Line'
<1> SUFFICES ASSUME IInv, [Next]_vars PROVE Line'
  OBVIOUS
<1>0. Line  BY DEF IInv
<1>1. CASE Reconcile  BY <1>1, PassKeepsLine
<1>2. CASE Shutdown  BY <1>2, ShutdownKeepsLine
<1>3. CASE CallEnters \/ \E o \in Operators : CallContinues(o)
  BY <1>0, <1>3, CallTurns, CallLineKept DEF CallEnters, Turns
<1>4. CASE UNCHANGED <<lock, pass, op, down>>
  BY <1>0, <1>4 DEF Line, Lined, InLine, Inside
<1>5. CASE \E s \in Servers : Request(s) \/ ToolCall(s) \/ RequestFinished(s) \/ UnitMoves(s)
                              \/ IdleWindowPasses(s) \/ BackoffPasses(s)
  BY <1>4, <1>5 DEF Request, ToolCall, RequestFinished, UnitMoves, IdleWindowPasses, BackoffPasses
<1>6. CASE DepartingDies \/ UNCHANGED vars  BY <1>4, <1>6 DEF DepartingDies, vars
<1>7. QED  BY <1>1, <1>2, <1>3, <1>5, <1>6 DEF Next

-----------------------------------------------------------------------------
(* Types of the calls, the pass and the wishes.                            *)

CallStates == [at : {"idle", "commit", "after", "queued", "stopping", "wiping"},
               kind : Writes \cup Stops \cup {None}, srv : Servers \cup {None},
               was : BOOLEAN, again : BOOLEAN]

Fits(c) ==
    /\ c.at # "idle" => c.srv \in Servers /\ c.kind \in Writes \cup Stops
    /\ c.at \in {"queued", "stopping", "wiping"} => c.kind \in Stops

\* A call's next state: it is over, it is a call that enters, or it goes on.
LEMMA NoCallFits == NoCall \in CallStates /\ Fits(NoCall)
BY DEF NoCall, CallStates, Fits

LEMMA GoesOn ==
  ASSUME NEW c \in CallStates, Fits(c), NEW at, NEW was \in BOOLEAN, NEW again \in BOOLEAN,
         c.at # "idle",
         \/ at \in {"queued", "stopping", "wiping"} /\ c.kind \in Stops
         \/ at \in {"commit", "after"}
  PROVE  /\ [c EXCEPT !.at = at] \in CallStates /\ Fits([c EXCEPT !.at = at])
         /\ [c EXCEPT !.at = at, !.was = was] \in CallStates
         /\ Fits([c EXCEPT !.at = at, !.was = was])
         /\ [c EXCEPT !.at = at, !.again = again] \in CallStates
         /\ Fits([c EXCEPT !.at = at, !.again = again])
BY DEF CallStates, Fits

LEMMA RefusedCall ==
  ASSUME TypeOK, CallsTyped, NEW o \in Operators, op[o].at \in {"queued", "stopping"}, Refused(o)
  PROVE  \E c \in CallStates : op' = [op EXCEPT ![o] = c] /\ Fits(c)
<1>1. op[o] \in CallStates /\ Fits(op[o]) /\ op[o].at # "idle" /\ op[o].kind \in Stops
  BY DEF TypeOK, CallsTyped, CallStates, Fits
<1>2. CASE op' = [op EXCEPT ![o] = NoCall]  BY <1>2, NoCallFits
<1>3. CASE op' = [op EXCEPT ![o] = [op[o] EXCEPT !.at = "queued", !.was = FALSE]]
  BY <1>1, <1>3, GoesOn
<1>4. QED  BY <1>2, <1>3 DEF Refused

LEMMA ProceedCall ==
  ASSUME TypeOK, CallsTyped, NEW o \in Operators, op[o].at \in {"queued", "stopping"}, Proceed(o)
  PROVE  \E c \in CallStates : op' = [op EXCEPT ![o] = c] /\ Fits(c)
<1>1. op[o] \in CallStates /\ Fits(op[o]) /\ op[o].at # "idle" /\ op[o].kind \in Stops
  BY DEF TypeOK, CallsTyped, CallStates, Fits
<1>2. CASE ~StillAuthorized(o)  BY <1>2, RefusedCall DEF Proceed
<1>3. CASE StillAuthorized(o)
  <2>1. CASE op[o].kind \in {"restart", "retry"}
    <3>1. op' = [op EXCEPT ![o] = NoCall]  BY <1>3, <2>1 DEF Proceed
    <3>2. QED  BY <3>1, NoCallFits
  <2>2. CASE op[o].kind = "wipe"
    <3>1. op' = [op EXCEPT ![o].at = "wiping"]  BY <1>3, <2>2 DEF Proceed
    <3>2. op' = [op EXCEPT ![o] = [op[o] EXCEPT !.at = "wiping"]]  BY <3>1 DEF TypeOK
    <3>3. QED  BY <1>1, <3>2, GoesOn
  <2>3. CASE op[o].kind \in {"disconnect", "delete"}
    <3>1. op' = [op EXCEPT ![o] = IF op[o].again THEN NoCall ELSE [op[o] EXCEPT !.at = "commit"]]
      BY <1>3, <2>3 DEF Proceed
    <3>2. CASE op[o].again
      <4>1. op' = [op EXCEPT ![o] = NoCall]  BY <3>1, <3>2
      <4>2. QED  BY <4>1, NoCallFits
    <3>3. CASE ~op[o].again
      <4>1. op' = [op EXCEPT ![o] = [op[o] EXCEPT !.at = "commit"]]  BY <3>1, <3>3
      <4>2. QED  BY <1>1, <4>1, GoesOn
    <3>4. QED  BY <3>2, <3>3
  <2>4. QED  BY <1>1, <2>1, <2>2, <2>3 DEF Stops
<1>4. QED  BY <1>2, <1>3

LEMMA CallGoesOn ==
  ASSUME IInv, NEW o \in Operators, CallContinues(o)
  PROVE  \E c \in CallStates : op' = [op EXCEPT ![o] = c] /\ Fits(c)
<1>0. TypeOK /\ CallsTyped  BY DEF IInv
<1>1. op[o] \in CallStates /\ Fits(op[o])  BY <1>0 DEF TypeOK, CallsTyped, CallStates, Fits
<1>2. CASE op' = [op EXCEPT ![o] = NoCall]  BY <1>2, NoCallFits
<1>3. CASE WriteCommits(o)
  <2>1. CASE row[op[o].srv] # "gone"
    <3>1. PICK was \in BOOLEAN : op' = [op EXCEPT ![o].at = "after", ![o].was = was]
      BY <1>0, <1>3, <2>1 DEF WriteCommits, TypeOK
    <3>2. op' = [op EXCEPT ![o] = [op[o] EXCEPT !.at = "after", !.was = was]]
      BY <1>0, <3>1 DEF TypeOK
    <3>3. op[o].at # "idle"  BY <1>3 DEF WriteCommits
    <3>4. QED  BY <1>1, <3>2, <3>3, GoesOn
  <2>2. QED  BY <1>2, <1>3, <2>1 DEF WriteCommits
<1>4. CASE StopAcquires(o)
  <2>1. CASE Refused(o) \/ Proceed(o)
    BY <1>0, <1>4, <2>1, RefusedCall, ProceedCall DEF StopAcquires
  <2>2. CASE op' = [op EXCEPT ![o].at = "stopping"]
    <3>1. op' = [op EXCEPT ![o] = [op[o] EXCEPT !.at = "stopping"]]  BY <1>0, <2>2 DEF TypeOK
    <3>2. op[o].at # "idle" /\ op[o].kind \in Stops  BY <1>1, <1>4 DEF StopAcquires, Fits
    <3>3. QED  BY <1>1, <3>1, <3>2, GoesOn
  <2>3. QED  BY <1>4, <2>1, <2>2 DEF StopAcquires
<1>5. CASE StopReturns(o)
  <2>1. CASE Proceed(o)  BY <1>0, <1>5, <2>1, ProceedCall DEF StopReturns
  <2>2. QED  BY <1>2, <1>5, <2>1 DEF StopReturns, CallFails
<1>6. CASE DeleteCommits(o)
  <2>1. CASE op' = [op EXCEPT ![o].at = "after"]
    <3>1. op' = [op EXCEPT ![o] = [op[o] EXCEPT !.at = "after"]]  BY <1>0, <2>1 DEF TypeOK
    <3>2. op[o].at # "idle"  BY <1>6 DEF DeleteCommits
    <3>3. QED  BY <1>1, <3>1, <3>2, GoesOn
  <2>2. QED  BY <1>2, <1>6, <2>1 DEF DeleteCommits
<1>7. CASE DeleteStopsAgain(o)
  <2>1. op' = [op EXCEPT ![o] = [op[o] EXCEPT !.at = "queued", !.again = TRUE]]
    BY <1>0, <1>7 DEF DeleteStopsAgain, TypeOK
  <2>2. op[o].at # "idle" /\ op[o].kind \in Stops  BY <1>7 DEF DeleteStopsAgain, Stops
  <2>3. QED  BY <1>1, <2>1, <2>2, GoesOn
<1>8. QED
  BY <1>2, <1>3, <1>4, <1>5, <1>6, <1>7
  DEF CallContinues, WriteFollowsUp, Wiped, DisconnectFollowsUp

LEMMA CallTypesStep ==
  IInv /\ [Next]_vars => op' \in [Operators -> CallStates] /\ CallsTyped'
<1> SUFFICES ASSUME IInv, [Next]_vars PROVE op' \in [Operators -> CallStates] /\ CallsTyped'
  OBVIOUS
<1>1. op \in [Operators -> CallStates] /\ \A o \in Operators : Fits(op[o])
  BY DEF IInv, TypeOK, CallsTyped, CallStates, Fits
<1>2. SUFFICES op' \in [Operators -> CallStates] /\ \A o \in Operators : Fits(op'[o])
  BY DEF CallsTyped, Fits
<1>3. CASE op' = op  BY <1>1, <1>3
<1>4. ASSUME NEW o \in Operators, NEW c \in CallStates, op' = [op EXCEPT ![o] = c], Fits(c)
      PROVE  op' \in [Operators -> CallStates] /\ \A a \in Operators : Fits(op'[a])
  BY <1>1, <1>4
<1>5. ASSUME NEW o \in Operators, CallContinues(o)
      PROVE  op' \in [Operators -> CallStates] /\ \A a \in Operators : Fits(op'[a])
  BY <1>4, <1>5, CallGoesOn
<1>6. CASE CallEnters
  <2>1. PICK o \in Operators, s \in Servers :
          \/ \E kind \in Writes : WriteEnters(o, kind, s)
          \/ \E kind \in Stops : StopEnters(o, kind, s)
    BY <1>6 DEF CallEnters
  <2>2. ASSUME NEW at \in {"commit", "queued"}, NEW kind \in Writes \cup Stops,
               at = "queued" => kind \in Stops,
               op' = [op EXCEPT ![o] = [at |-> at, kind |-> kind, srv |-> s,
                                        was |-> row[s] = "enabled", again |-> FALSE]]
        PROVE  op' \in [Operators -> CallStates] /\ \A a \in Operators : Fits(op'[a])
    <3> DEFINE c == [at |-> at, kind |-> kind, srv |-> s, was |-> row[s] = "enabled", again |-> FALSE]
    <3>1. c \in CallStates /\ Fits(c)  BY <2>2 DEF CallStates, Fits
    <3>2. QED  BY <1>4, <2>2, <3>1
  <2>3. QED  BY <2>1, <2>2 DEF WriteEnters, StopEnters
<1>7. CASE Reconcile
  BY <1>3, <1>7
  DEF Reconcile, PassQueues, PassBegins, PassGates, PassGated, PassReachesSweep, PassSweeps, PassSwept,
      PassReachesStart, PassQuiesces, PassQuiesced, PassSkipsIdle, PassStarts, PassBounces,
      PassBounced, PassRefreshes, PassEnds
<1>8. CASE \E s \in Servers : Request(s) \/ ToolCall(s) \/ RequestFinished(s) \/ UnitMoves(s)
                              \/ IdleWindowPasses(s) \/ BackoffPasses(s)
  BY <1>3, <1>8 DEF Request, ToolCall, RequestFinished, UnitMoves, IdleWindowPasses, BackoffPasses
<1>9. CASE DepartingDies \/ Shutdown \/ UNCHANGED vars
  BY <1>3, <1>9
  DEF DepartingDies, Shutdown, ShutdownQueues, ShutdownStops, ShutdownStopped, ShutdownEnds, vars
<1>10. QED  BY <1>5, <1>6, <1>7, <1>8, <1>9 DEF Next

PassStates == [at : {"asleep", "queued", "gate", "gate_stop", "sweep", "sweep_stop", "start",
                     "quiesce_stop", "bounce_stop"},
               snap : Snapshots \cup {None}, todo : SUBSET Servers, first : SUBSET Servers]

\* Everything but the reconciler leaves the pass alone.
LEMMA PassIsReconcile == ASSUME [Next]_vars PROVE Reconcile \/ pass' = pass
BY DEF Next, CallEnters, WriteEnters, StopEnters, CallContinues, WriteCommits, WriteFollowsUp,
   StopAcquires, StopReturns, Wiped, DeleteCommits, DeleteStopsAgain, DisconnectFollowsUp, Request,
   ToolCall, RequestFinished, UnitMoves, IdleWindowPasses, BackoffPasses, DepartingDies, Shutdown,
   ShutdownQueues, ShutdownStops, ShutdownStopped, ShutdownEnds, vars

LEMMA PassTypesStep == IInv /\ [Next]_vars => pass' \in PassStates
<1> SUFFICES ASSUME IInv, [Next]_vars PROVE pass' \in PassStates
  OBVIOUS
<1>0. TypeOK /\ Worked /\ pass \in PassStates  BY DEF IInv, TypeOK, PassStates
<1>1. CASE pass' = pass  BY <1>0, <1>1
<1>2. CASE PassBegins
  <2> DEFINE taken == [row |-> row, config |-> config, gated |-> gated, naps |-> naps,
                       stale |-> {s \in Servers : row[s] = "disabled"
                                                  /\ runtime[s] \notin {"none", "stopped"}}]
             first == {s \in gated : row[s] = "enabled"}
  <2>1. taken \in Snapshots  BY <1>0 DEF TypeOK, Snapshots
  <2>2. first \in SUBSET Servers  BY <1>0 DEF TypeOK
  <2>3. pass' = [pass EXCEPT !.at = "gate", !.snap = taken, !.todo = first]
    BY <1>2 DEF PassBegins
  <2> HIDE DEF taken, first
  <2>4. QED  BY <1>0, <2>1, <2>2, <2>3 DEF PassStates
<1>3. CASE PassSwept
  <2>1. pass.snap \in Snapshots  BY <1>0, <1>3 DEF Worked, PassSwept
  <2>2. PICK stale \in SUBSET Servers :
          pass' = [pass EXCEPT !.at = "sweep", !.todo = @ \ {departing.srv}, !.snap.stale = stale]
    BY <1>3, <2>1 DEF PassSwept, Snapshots
  <2>3. [pass.snap EXCEPT !.stale = stale] \in Snapshots  BY <2>1 DEF Snapshots
  <2>4. pass' = [pass EXCEPT !.at = "sweep", !.todo = @ \ {departing.srv},
                             !.snap = [pass.snap EXCEPT !.stale = stale]]
    BY <1>0, <2>2 DEF PassStates
  <2>5. QED  BY <1>0, <2>3, <2>4 DEF PassStates
<1>4. CASE PassReachesSweep
  BY <1>0, <1>4 DEF PassReachesSweep, PassStates
<1>5. CASE PassReachesStart
  <2>1. Wanted(pass.snap) \in SUBSET Servers  BY DEF Wanted
  <2> DEFINE wanted == Wanted(pass.snap)
             asked == {s \in requests : Registered(pass.snap.row, s)}
  <2>2. pass' = [pass EXCEPT !.at = "start", !.todo = wanted, !.first = wanted \cap asked]
    BY <1>5 DEF PassReachesStart
  <2> HIDE DEF wanted, asked
  <2>3. wanted \in SUBSET Servers  BY <2>1 DEF wanted
  <2>4. QED  BY <1>0, <2>2, <2>3 DEF PassStates
<1>6. ASSUME NEW s \in Servers,
             PassGates(s) \/ PassSweeps(s) \/ PassQuiesces(s) \/ PassSkipsIdle(s) \/ PassStarts(s)
             \/ PassBounces(s) \/ PassRefreshes(s)
      PROVE  pass' \in PassStates
  BY <1>0, <1>6
  DEF PassStates, PassGates, PassSweeps, PassQuiesces, PassSkipsIdle, PassStarts, PassBounces,
      PassRefreshes
<1>7. CASE PassQueues \/ PassEnds
  BY <1>0, <1>7 DEF PassStates, PassQueues, PassEnds, Asleep
<1>8. CASE PassGated \/ PassQuiesced \/ PassBounced
  BY <1>0, <1>8 DEF PassStates, PassGated, PassQuiesced, PassBounced
<1>9. QED
  BY <1>1, <1>2, <1>3, <1>4, <1>5, <1>6, <1>7, <1>8, PassIsReconcile DEF Reconcile

WishTypes ==
    /\ requests \subseteq Servers /\ idle \subseteq Servers
    /\ activity \in [Servers -> {"none", "recent", "long_ago"}]
    /\ in_flight \in [Servers -> Nat]
    /\ calls \in Nat /\ erased \subseteq Servers
    /\ down \in {"up", "queued", "stopping", "down", "raised"}

LEMMA WishTypesStep == IInv /\ [Next]_vars => WishTypes'
<1> SUFFICES ASSUME IInv, [Next]_vars PROVE WishTypes'
  OBVIOUS
<1> USE DEF WishTypes
<1>0. TypeOK /\ CallsTyped /\ WishTypes  BY DEF IInv, TypeOK
<1>1. CASE UNCHANGED <<wishes, in_flight, calls, erased, down>>  BY <1>0, <1>1 DEF wishes
<1>2. ASSUME NEW s \in Servers,
             PassGates(s) \/ PassSweeps(s) \/ PassQuiesces(s) \/ PassSkipsIdle(s) \/ PassStarts(s)
             \/ PassBounces(s) \/ PassRefreshes(s)
      PROVE  WishTypes'
  BY <1>0, <1>2
  DEF PassGates, PassSweeps, PassQuiesces, PassSkipsIdle, PassStarts, PassBounces, PassRefreshes,
      Consume, TryStart
<1>3. CASE PassBegins \/ PassReachesStart
  BY <1>0, <1>3 DEF PassBegins, PassReachesStart
<1>4. CASE PassQuiesced
  <2>1. departing # None  BY <1>4 DEF PassQuiesced, EndStop
  <2>2. QED  BY <1>0, <1>4, <2>1 DEF TypeOK, PassQuiesced, IdleAfter
<1>5. CASE PassBounced
  BY <1>0, <1>5 DEF PassBounced, TryStart
<1>6. CASE PassQueues \/ PassGated \/ PassReachesSweep \/ PassSwept \/ PassEnds
  BY <1>1, <1>6 DEF PassQueues, PassGated, PassReachesSweep, PassSwept, PassEnds
<1>7. CASE CallEnters
  <2>1. PICK o \in Operators, s \in Servers :
          \/ \E kind \in Writes : WriteEnters(o, kind, s)
          \/ \E kind \in Stops : StopEnters(o, kind, s)
    BY <1>7 DEF CallEnters
  <2>2. QED
    BY <1>0, <2>1 DEF WriteEnters, StopEnters, Calls, OverrideQuiescence, wishes
<1>8. ASSUME NEW o \in Operators, CallContinues(o) PROVE WishTypes'
  <2>0. op[o].at # "idle" => op[o].srv \in Servers /\ op[o].kind \in Writes \cup Stops
    BY <1>0 DEF CallsTyped
  <2>1. ASSUME Refused(o), UNCHANGED <<in_flight, calls, down>>, op[o].at # "idle" PROVE WishTypes'
    BY <1>0, <2>0, <2>1 DEF Refused, OverrideQuiescence
  <2>2. ASSUME Proceed(o), UNCHANGED <<in_flight, calls, down>>, op[o].at \in {"queued", "stopping"}
        PROVE  WishTypes'
    <3>1. CASE ~StillAuthorized(o)  BY <2>1, <2>2, <3>1 DEF Proceed
    <3>2. op[o].kind \in Stops  BY <1>0, <2>2 DEF CallsTyped
    <3>3. CASE StillAuthorized(o) /\ op[o].kind \in {"restart", "retry"}
      BY <1>0, <2>0, <2>2, <3>3 DEF Proceed
    <3>4. CASE StillAuthorized(o) /\ op[o].kind = "wipe"
      BY <1>0, <2>0, <2>2, <3>4 DEF Proceed, wishes
    <3>5. CASE StillAuthorized(o) /\ op[o].kind \in {"disconnect", "delete"}
      BY <1>0, <2>0, <2>2, <3>5 DEF Proceed, wishes
    <3>6. QED  BY <3>1, <3>2, <3>3, <3>4, <3>5 DEF Stops
  <2>3. CASE StopAcquires(o)
    BY <1>1, <2>1, <2>2, <2>3 DEF StopAcquires
  <2>4. CASE StopReturns(o)
    <3>1. CASE CallFails(o)
      BY <1>0, <2>0, <2>4, <3>1 DEF StopReturns, CallFails, wishes
    <3>2. QED  BY <2>2, <2>4, <3>1 DEF StopReturns
  <2>5. CASE WriteCommits(o) \/ DeleteCommits(o)
    BY <1>1, <2>5 DEF WriteCommits, DeleteCommits
  <2>6. CASE WriteFollowsUp(o) \/ Wiped(o) \/ DisconnectFollowsUp(o)
    BY <1>0, <2>0, <2>6 DEF WriteFollowsUp, Wiped, DisconnectFollowsUp
  <2>7. CASE DeleteStopsAgain(o)
    BY <1>0, <2>0, <2>7 DEF DeleteStopsAgain, OverrideQuiescence
  <2>8. QED  BY <1>8, <2>3, <2>4, <2>5, <2>6, <2>7 DEF CallContinues
<1>9. ASSUME NEW s \in Servers, Request(s) \/ ToolCall(s) \/ RequestFinished(s) \/ IdleWindowPasses(s)
      PROVE  WishTypes'
  BY <1>0, <1>9 DEF Request, ToolCall, RequestFinished, IdleWindowPasses, wishes
<1>10. ASSUME NEW s \in Servers, UnitMoves(s) \/ BackoffPasses(s) PROVE WishTypes'
  BY <1>1, <1>10 DEF UnitMoves, BackoffPasses
<1>11. CASE Shutdown
  BY <1>0, <1>11
  DEF Shutdown, ShutdownQueues, ShutdownStops, ShutdownStopped, ShutdownEnds, wishes
<1>12. CASE DepartingDies \/ UNCHANGED vars  BY <1>1, <1>12 DEF DepartingDies, vars
<1>13. QED
  BY <1>2, <1>3, <1>4, <1>5, <1>6, <1>7, <1>8, <1>9, <1>10, <1>11, <1>12 DEF Next, Reconcile

LEMMA TypeStep == IInv /\ [Next]_vars => TypeOK' /\ CallsTyped'
<1> SUFFICES ASSUME IInv, [Next]_vars PROVE TypeOK' /\ CallsTyped'
  OBVIOUS
<1>1. DesiredTypes' /\ ObservedTypes' /\ WishTypes' /\ pass' \in PassStates /\ CallsTyped'
      /\ op' \in [Operators -> CallStates]
  BY DesiredTypesStep, ObservedTypesStep, WishTypesStep, PassTypesStep, CallTypesStep
<1>2. lock' \in Seq(Actors)  BY LineStep DEF Line, Lined
<1>3. QED
  BY <1>1, <1>2
  DEF TypeOK, DesiredTypes, ObservedTypes, WishTypes, PassStates, CallStates

-----------------------------------------------------------------------------
(* Who awaits what.                                                        *)

\* Nobody else touches the unit a pass awaits.
LEMMA OthersWait ==
  ASSUME IInv, [Next]_vars, pass' = pass, pass.at \in PassStops
  PROVE  departing # None /\ departing' # None /\ departing'.srv = departing.srv
<1>0. TypeOK /\ Line /\ Departs  BY DEF IInv
<1>1. "pass" \in Inside /\ "pass" \in Stoppers
  BY DEF Inside, Stoppers, Actors, PassStops
<1>2. departing # None /\ departing \in [srv : Servers, unit : Units]
  BY <1>0, <1>1 DEF Departs, TypeOK
<1>3. \A b : Holds(b) \/ b \in Inside => b = "pass"  BY <1>0, <1>1, Exclusive
<1>4. CASE departing' = departing  BY <1>2, <1>4
<1>5. CASE DepartingDies
  <2>1. departing' = [departing EXCEPT !.unit.life.live = FALSE]  BY <1>5 DEF DepartingDies
  <2>2. departing' \in [srv : Servers, unit : Units] /\ departing'.srv = departing.srv
    BY <1>2, <2>1 DEF Units, Lives
  <2>3. QED  BY <1>2, <2>2, NoneIsNothing
<1>6. ASSUME NEW o \in Operators PROVE ~StopAcquires(o) /\ ~StopReturns(o)
  <2>1. o # "pass"  BY SupervisorAssumptions
  <2>2. ~StopAcquires(o)  BY <1>3, <2>1 DEF StopAcquires
  <2>3. ~StopReturns(o)  BY <1>3, <2>1 DEF StopReturns, Inside, Actors
  <2>4. QED  BY <2>2, <2>3
<1>7. (\A s \in Servers : ~ShutdownStops(s)) /\ ~ShutdownStopped
  BY <1>3 DEF ShutdownStops, ShutdownStopped, Inside, Actors
<1>8. ASSUME Reconcile PROVE pass' # pass
  <2>1. pass.at \notin {"asleep", "queued", "gate", "sweep", "start"}  BY DEF PassStops
  <2>2. pass'.at \in {"gate", "sweep", "start"}
    BY <1>0, <1>8, <2>1
    DEF TypeOK, Reconcile, PassQueues, PassBegins, PassGates, PassGated, PassReachesSweep, PassSweeps,
        PassSwept, PassReachesStart, PassQuiesces, PassQuiesced, PassSkipsIdle, PassStarts,
        PassBounces, PassBounced, PassRefreshes, PassEnds, Turn
  <2>3. QED  BY <2>1, <2>2
<1>9. QED
  BY <1>4, <1>5, <1>6, <1>7, <1>8
  DEF Next, CallEnters, WriteEnters, StopEnters, CallContinues, WriteCommits, WriteFollowsUp, Wiped,
      DeleteCommits, DeleteStopsAgain, DisconnectFollowsUp, Request, ToolCall, RequestFinished,
      UnitMoves, IdleWindowPasses, BackoffPasses, Shutdown, ShutdownQueues, ShutdownEnds, vars, observed

LEMMA WorkedStep == IInv /\ [Next]_vars => Worked'
<1> SUFFICES ASSUME IInv, [Next]_vars PROVE Worked'
  OBVIOUS
<1>0. TypeOK /\ Worked /\ pass \in PassStates /\ pass' \in PassStates
  BY PassTypesStep DEF IInv, TypeOK, PassStates
<1>1. CASE pass' = pass  BY <1>0, <1>1, OthersWait DEF Worked
<1>2. CASE PassQueues \/ PassEnds
  BY <1>0, <1>2 DEF PassQueues, PassEnds, Asleep, Worked, PassStates, PassStops
<1>3. CASE PassBegins
  <2>1. pass'.at = "gate"  BY <1>0, <1>3 DEF PassBegins, PassStates
  <2>2. pass'.snap \in Snapshots
    <3> DEFINE taken == [row |-> row, config |-> config, gated |-> gated, naps |-> naps,
                         stale |-> {s \in Servers : row[s] = "disabled"
                                                    /\ runtime[s] \notin {"none", "stopped"}}]
    <3>1. taken \in Snapshots  BY <1>0 DEF TypeOK, Snapshots
    <3>2. pass'.snap = taken  BY <1>0, <1>3 DEF PassBegins, PassStates
    <3>3. QED  BY <3>1, <3>2
  <2>3. QED  BY <1>0, <2>1, <2>2 DEF Worked, PassStates, PassStops
<1>4. CASE PassSwept
  <2>1. pass'.at = "sweep"  BY <1>0, <1>4 DEF PassSwept, PassStates
  <2>2. pass.snap \in Snapshots  BY <1>0, <1>4 DEF Worked, PassSwept
  <2>3. PICK stale \in SUBSET Servers :
          pass' = [pass EXCEPT !.at = "sweep", !.todo = @ \ {departing.srv}, !.snap.stale = stale]
    BY <1>4, <2>2 DEF PassSwept, Snapshots
  <2>4. pass'.snap \in Snapshots  BY <1>0, <2>2, <2>3 DEF PassStates, Snapshots
  <2>5. QED  BY <2>1, <2>4 DEF Worked, PassStops
<1>5. CASE PassReachesStart
  BY <1>0, <1>5 DEF PassReachesStart, Worked, PassStates, PassStops
<1>6. CASE PassGated \/ PassReachesSweep \/ PassQuiesced \/ PassBounced
  BY <1>0, <1>6
  DEF PassGated, PassReachesSweep, PassQuiesced, PassBounced, Worked, PassStates, PassStops
<1>7. ASSUME NEW s \in Servers, PassSkipsIdle(s) \/ PassStarts(s) \/ PassRefreshes(s)
      PROVE  Worked'
  BY <1>0, <1>7 DEF PassSkipsIdle, PassStarts, PassRefreshes, Turn, Worked, PassStates, PassStops
<1>8. ASSUME NEW s \in Servers, PassGates(s) \/ PassSweeps(s) \/ PassQuiesces(s) \/ PassBounces(s)
      PROVE  Worked'
  <2>1. s \in pass.todo /\ pass'.snap = pass.snap /\ pass.at \in {"gate", "sweep", "start"}
    BY <1>0, <1>8
    DEF PassGates, PassSweeps, PassQuiesces, PassBounces, Turn, PassStates
  <2>2. \/ pass'.at \in {"gate", "sweep"}
        \/ pass'.at \in PassStops /\ pass'.todo = pass.todo /\ departing'.srv = s
           /\ (pass'.at \in {"quiesce_stop", "bounce_stop"} => pass.at = "start")
    BY <1>0, <1>8
    DEF PassGates, PassSweeps, PassQuiesces, PassBounces, Turn, PassStates, BeginStop, PassStops
  <2>3. QED  BY <1>0, <2>1, <2>2 DEF Worked, PassStops
<1>9. QED
  BY <1>1, <1>2, <1>3, <1>4, <1>5, <1>6, <1>7, <1>8, PassIsReconcile DEF Reconcile

\* Three ways a step keeps Departs: the actor begins to await a stop(), what
\* was awaited is over, or nobody's waiting changes.
LEMMA AwaitBegins ==
  ASSUME IInv, [Next]_vars, NEW s \in Servers, BeginStop(s), NEW a \in Stoppers',
         a \in Operators => op'[a].srv = s
  PROVE  Departs'
<1>1. Line' /\ ObservedTypes' /\ ObservedTypes
  BY LineStep, ObservedTypesStep DEF IInv, TypeOK, ObservedTypes
<1>2. departing'.srv = s /\ departing' # None
      /\ units'[s] = None /\ departing'.unit.life.state = "stopping"
  <2>1. units[s] \in Units /\ units[s] # None  BY <1>1 DEF ObservedTypes, BeginStop
  <2>2. departing' = [srv |-> s, unit |-> [units[s] EXCEPT !.life = Stopping(@)]]
        /\ units' = [units EXCEPT ![s] = None]
    BY DEF BeginStop
  <2>3. [units[s] EXCEPT !.life = Stopping(@)] \in Units
        /\ [units[s] EXCEPT !.life = Stopping(@)].life.state = "stopping"
    BY <2>1, StoppingUnit
  <2>4. departing' \in [srv : Servers, unit : Units]  BY <2>2, <2>3
  <2>5. QED  BY <1>1, <2>2, <2>3, <2>4, NoneIsNothing DEF ObservedTypes
<1>3. \A o \in Operators : op'[o].at = "stopping" => o = a
  <2>1. a \in Inside'  BY DEF Stoppers, Inside, PassStops
  <2>2. \A o \in Operators : op'[o].at = "stopping" => o \in Inside'  BY DEF Inside, Actors
  <2>3. QED  BY <1>1, <2>1, <2>2 DEF Line, Lined
<1>4. QED  BY <1>2, <1>3 DEF Departs, Stoppers, Actors

LEMMA AwaitEnds ==
  ASSUME departing' = None, NEW a \in Inside, Line, a \notin Stoppers', Stoppers' \ {a} \subseteq Stoppers
  PROVE  Departs'
<1>1. Stoppers \subseteq Inside  BY DEF Stoppers, Inside, PassStops
<1>2. \A b \in Inside : b = a  BY Exclusive
<1>3. Stoppers' = {}  BY <1>1, <1>2
<1>4. \A o \in Operators : op'[o].at # "stopping"  BY <1>3 DEF Stoppers, Actors
<1>5. QED  BY <1>3, <1>4 DEF Departs

LEMMA AwaitStays ==
  ASSUME Departs, departing' = departing, units' = units \/ departing = None, Stoppers' = Stoppers,
         \A o \in Operators : op'[o].at = "stopping" => op'[o] = op[o]
  PROVE  Departs'
BY DEF Departs

LEMMA CallStoppers ==
  ASSUME NEW o \in Operators, CallMoves(o)
  PROVE  /\ Stoppers' \ {o} = Stoppers \ {o}
         /\ o \in Stoppers <=> op[o].at = "stopping"
         /\ o \in Stoppers' <=> op'[o].at = "stopping"
BY SupervisorAssumptions DEF CallMoves, Stoppers, Actors

LEMMA CallDeparts ==
  ASSUME IInv, [Next]_vars, NEW o \in Operators,
         \/ CallContinues(o)
         \/ \E s \in Servers : \/ \E kind \in Writes : WriteEnters(o, kind, s)
                               \/ \E kind \in Stops : StopEnters(o, kind, s)
  PROVE  Departs'
<1>0. TypeOK /\ CallsTyped /\ Line /\ Departs /\ CallMoves(o)  BY CallTurns DEF IInv
<1>1. ASSUME UNCHANGED <<units, departing>>, op[o].at # "stopping", op'[o].at # "stopping"
      PROVE  Departs'
  <2>1. Stoppers' = Stoppers
    <3>1. o \notin Stoppers /\ o \notin Stoppers' /\ Stoppers' \ {o} = Stoppers \ {o}
      BY <1>0, <1>1, CallStoppers
    <3>2. QED  BY <3>1
  <2>2. \A a \in Operators : op'[a].at = "stopping" => op'[a] = op[a]
    BY <1>0, <1>1 DEF CallMoves
  <2>3. QED  BY <1>0, <1>1, <2>1, <2>2, AwaitStays
<1>2. CASE StopAcquires(o)
  <2>1. Holds(o) /\ op[o].at = "queued" /\ op[o].at \in {"queued"} \cup InCall /\ op[o].srv \in Servers
    BY <1>0, <1>2 DEF StopAcquires, CallsTyped
  <2>2. CASE (Refused(o) \/ Proceed(o)) /\ UNCHANGED <<units, departing>>
    BY <1>0, <1>1, <2>1, <2>2, RefusedTurns, ProceedTurns
  <2>3. CASE op' = [op EXCEPT ![o].at = "stopping"] /\ BeginStop(op[o].srv)
    <3>1. op'[o].at = "stopping" /\ op'[o].srv = op[o].srv  BY <1>0, <2>3 DEF TypeOK
    <3>2. o \in Stoppers'  BY <1>0, <3>1, CallStoppers
    <3>3. QED  BY <2>1, <2>3, <3>1, <3>2, AwaitBegins
  <2>4. QED  BY <1>2, <2>2, <2>3 DEF StopAcquires
<1>3. CASE StopReturns(o)
  <2>1. o \in Inside /\ departing' = None
    BY <1>3 DEF StopReturns, Inside, Actors, EndStop
  <2>2. Holds(o) /\ op[o].at \in {"queued"} \cup InCall
    BY <1>0, <1>3, <2>1, Exclusive DEF StopReturns, InCall
  <2>3. op'[o].at # "stopping"
    <3>1. CASE Proceed(o)  BY <1>0, <2>2, <3>1, ProceedTurns
    <3>2. CASE CallFails(o)  BY <1>0, <3>2 DEF TypeOK, CallFails, NoCall
    <3>3. QED  BY <1>3, <3>1, <3>2 DEF StopReturns
  <2>4. o \notin Stoppers' /\ Stoppers' \ {o} \subseteq Stoppers
    BY <1>0, <2>3, CallStoppers
  <2>5. QED  BY <1>0, <2>1, <2>4, AwaitEnds
<1>4. ASSUME NEW s \in Servers,
             \/ \E kind \in Writes : WriteEnters(o, kind, s)
             \/ \E kind \in Stops : StopEnters(o, kind, s)
      PROVE  Departs'
  <2>1. UNCHANGED <<units, departing>> /\ op[o].at = "idle"
    BY <1>4 DEF WriteEnters, StopEnters, Calls, observed
  <2>2. op'[o].at \in {"commit", "queued"}
    BY <1>0, <1>4 DEF WriteEnters, StopEnters, TypeOK
  <2>3. QED  BY <1>1, <2>1, <2>2
<1>5. CASE WriteCommits(o) \/ WriteFollowsUp(o) \/ Wiped(o) \/ DeleteCommits(o) \/ DeleteStopsAgain(o)
           \/ DisconnectFollowsUp(o)
  <2>1. UNCHANGED <<units, departing>> /\ op[o].at \in {"commit", "after", "wiping"}
    BY <1>5
    DEF WriteCommits, WriteFollowsUp, Wiped, DeleteCommits, DeleteStopsAgain, DisconnectFollowsUp, observed
  <2>2. op'[o].at \in {"idle", "after", "queued"}
    <3>1. CASE WriteCommits(o)  BY <1>0, <3>1 DEF WriteCommits, TypeOK, NoCall
    <3>2. CASE DeleteCommits(o)  BY <1>0, <3>2 DEF DeleteCommits, TypeOK, NoCall
    <3>3. CASE DeleteStopsAgain(o)  BY <1>0, <3>3 DEF DeleteStopsAgain, TypeOK
    <3>4. CASE op' = [op EXCEPT ![o] = NoCall]  BY <1>0, <3>4 DEF TypeOK, NoCall
    <3>5. QED  BY <1>5, <3>1, <3>2, <3>3, <3>4 DEF WriteFollowsUp, Wiped, DisconnectFollowsUp
  <2>3. QED  BY <1>1, <2>1, <2>2
<1>6. QED  BY <1>2, <1>3, <1>4, <1>5 DEF CallContinues

LEMMA PassDeparts == ASSUME IInv, [Next]_vars, Reconcile PROVE Departs'
<1>0. TypeOK /\ Line /\ Departs /\ UNCHANGED <<op, down>> /\ pass \in PassStates
  BY DEF IInv, TypeOK, PassStates, Reconcile, PassQueues, PassBegins, PassGates, PassGated,
     PassReachesSweep, PassSweeps, PassSwept, PassReachesStart, PassQuiesces, PassQuiesced,
     PassSkipsIdle, PassStarts, PassBounces, PassBounced, PassRefreshes, PassEnds
<1>a. /\ Stoppers' \ {"pass"} = Stoppers \ {"pass"}
      /\ "pass" \in Stoppers <=> pass.at \in PassStops
      /\ "pass" \in Stoppers' <=> pass'.at \in PassStops
  BY <1>0, SupervisorAssumptions DEF Stoppers, Actors
<1>1. ASSUME departing' = departing, units' = units \/ departing = None,
             pass.at \notin PassStops, pass'.at \notin PassStops
      PROVE  Departs'
  <2>1. Stoppers' = Stoppers  BY <1>a, <1>1
  <2>2. QED  BY <1>0, <1>1, <2>1, AwaitStays
<1>2. CASE PassGated \/ PassSwept \/ PassQuiesced \/ PassBounced
  <2>1. departing' = None /\ pass.at \in PassStops /\ pass'.at \notin PassStops
    BY <1>0, <1>2
    DEF PassGated, PassSwept, PassQuiesced, PassBounced, EndStop, PassStops, PassStates
  <2>2. "pass" \in Inside  BY <2>1 DEF Inside, Actors, PassStops
  <2>3. "pass" \notin Stoppers' /\ Stoppers' \ {"pass"} \subseteq Stoppers  BY <1>a, <2>1
  <2>4. QED  BY <1>0, <2>1, <2>2, <2>3, AwaitEnds
<1>3. ASSUME NEW s \in Servers, PassGates(s) \/ PassSweeps(s) \/ PassQuiesces(s) \/ PassBounces(s)
      PROVE  Departs'
  <2>1. pass.at \notin PassStops
    BY <1>3 DEF PassGates, PassSweeps, PassQuiesces, PassBounces, Turn, PassStops
  <2>2. \/ UNCHANGED <<units, departing>> /\ pass'.at \notin PassStops
        \/ BeginStop(s) /\ pass'.at \in PassStops
    BY <1>0, <1>3
    DEF PassGates, PassSweeps, PassQuiesces, PassBounces, Turn, PassStops, PassStates
  <2>3. "pass" \notin Operators  BY SupervisorAssumptions
  <2>4. QED  BY <1>a, <1>1, <2>1, <2>2, <2>3, AwaitBegins
<1>4. ASSUME NEW s \in Servers, PassStarts(s) PROVE Departs'
  <2>1. departing = None  BY <1>4, PassAlone DEF PassStarts, Turn
  <2>2. departing' = departing /\ pass.at \notin PassStops /\ pass'.at \notin PassStops
    BY <1>0, <1>4 DEF PassStarts, Turn, PassStops, PassStates
  <2>3. QED  BY <1>1, <2>1, <2>2
<1>5. ASSUME NEW s \in Servers, PassSkipsIdle(s) \/ PassRefreshes(s) PROVE Departs'
  BY <1>0, <1>1, <1>5 DEF PassSkipsIdle, PassRefreshes, Turn, PassStops, PassStates, observed
<1>6. CASE PassQueues \/ PassBegins \/ PassReachesSweep \/ PassReachesStart \/ PassEnds
  <2>1. UNCHANGED <<units, departing>> /\ pass.at \notin PassStops
    BY <1>6
    DEF PassQueues, PassBegins, PassReachesSweep, PassReachesStart, PassEnds, PassStops, observed
  <2>2. pass'.at \notin PassStops
    <3>1. CASE PassQueues \/ PassBegins
      BY <1>0, <3>1 DEF PassQueues, PassBegins, PassStops, PassStates
    <3>2. CASE PassReachesSweep \/ PassReachesStart
      BY <1>0, <3>2 DEF PassReachesSweep, PassReachesStart, PassStops, PassStates
    <3>3. CASE PassEnds  BY <3>3 DEF PassEnds, Asleep, PassStops
    <3>4. QED  BY <1>6, <3>1, <3>2, <3>3
  <2>3. QED  BY <1>1, <2>1, <2>2
<1>7. QED  BY <1>2, <1>3, <1>4, <1>5, <1>6 DEF Reconcile

LEMMA ShutdownDeparts == ASSUME IInv, [Next]_vars, Shutdown PROVE Departs'
<1>0. TypeOK /\ Line /\ Departs /\ UNCHANGED <<op, pass>>
  BY DEF IInv, Shutdown, ShutdownQueues, ShutdownStops, ShutdownStopped, ShutdownEnds
<1>a. /\ Stoppers' \ {"shutdown"} = Stoppers \ {"shutdown"}
      /\ "shutdown" \in Stoppers <=> down = "stopping"
      /\ "shutdown" \in Stoppers' <=> down' = "stopping"
  BY <1>0, SupervisorAssumptions DEF Stoppers, Actors
<1>1. CASE ShutdownQueues \/ ShutdownEnds
  <2>1. UNCHANGED <<units, departing>> /\ down # "stopping" /\ down' # "stopping"
    BY <1>1 DEF ShutdownQueues, ShutdownEnds, observed
  <2>2. Stoppers' = Stoppers  BY <1>a, <2>1
  <2>3. QED  BY <1>0, <2>1, <2>2, AwaitStays
<1>2. ASSUME NEW s \in Servers, ShutdownStops(s) PROVE Departs'
  <2>1. "shutdown" \in Stoppers' /\ "shutdown" \notin Operators
    BY <1>a, <1>2, SupervisorAssumptions DEF ShutdownStops
  <2>2. QED  BY <1>2, <2>1, AwaitBegins DEF ShutdownStops
<1>3. CASE ShutdownStopped
  <2>1. departing' = None /\ down = "stopping" /\ down' # "stopping"
    BY <1>3 DEF ShutdownStopped, EndStop
  <2>2. "shutdown" \in Inside  BY <2>1 DEF Inside, Actors
  <2>3. QED  BY <1>0, <1>a, <2>1, <2>2, AwaitEnds
<1>4. QED  BY <1>1, <1>2, <1>3 DEF Shutdown

LEMMA DepartsStep == IInv /\ [Next]_vars => Departs'
<1> SUFFICES ASSUME IInv, [Next]_vars PROVE Departs'
  OBVIOUS
<1>0. TypeOK /\ Departs  BY DEF IInv
<1>1. CASE Reconcile  BY <1>1, PassDeparts
<1>2. CASE Shutdown  BY <1>2, ShutdownDeparts
<1>3. CASE CallEnters \/ \E o \in Operators : CallContinues(o)
  BY <1>3, CallDeparts DEF CallEnters
<1>4. ASSUME UNCHANGED <<op, pass, down, units, departing>> PROVE Departs'
  BY <1>0, <1>4 DEF Departs, Stoppers
<1>5. ASSUME NEW s \in Servers, UnitMoves(s) PROVE Departs'
  <2>1. UNCHANGED <<op, pass, down, departing>> /\ units[s] # None
    BY <1>5 DEF UnitMoves
  <2>2. departing # None => units'[departing.srv] = None
    <3>1. PICK life : units' = [units EXCEPT ![s].life = life]  BY <1>5 DEF UnitMoves
    <3>2. QED  BY <1>0, <2>1, <3>1 DEF Departs, TypeOK
  <2>3. QED  BY <1>0, <2>1, <2>2 DEF Departs, Stoppers
<1>6. CASE DepartingDies
  <2>1. UNCHANGED <<op, pass, down, units>> /\ departing # None
    BY <1>6 DEF DepartingDies
  <2>2. /\ departing' \in [srv : Servers, unit : Units] /\ departing'.srv = departing.srv
        /\ departing'.unit.life.state = departing.unit.life.state
    BY <1>0, <1>6 DEF DepartingDies, TypeOK, Units, Lives
  <2>3. departing' # None  BY <2>2, NoneIsNothing
  <2>4. QED  BY <1>0, <2>1, <2>2, <2>3 DEF Departs, Stoppers
<1>7. CASE \E s \in Servers : Request(s) \/ ToolCall(s) \/ RequestFinished(s)
                              \/ IdleWindowPasses(s) \/ BackoffPasses(s)
  BY <1>4, <1>7 DEF Request, ToolCall, RequestFinished, IdleWindowPasses, BackoffPasses, observed
<1>8. CASE UNCHANGED vars  BY <1>4, <1>8 DEF vars, observed
<1>9. QED  BY <1>1, <1>2, <1>3, <1>5, <1>6, <1>7, <1>8 DEF Next

-----------------------------------------------------------------------------
(* What is down, is down.                                                  *)

\* A stop() that succeeded leaves nothing of its server.
LEMMA EndedGone ==
  ASSUME IInv, EndStop(TRUE), units' = units, NEW s, s = departing.srv
  PROVE  Of(s)' = None
BY DEF IInv, Departs, EndStop, Of

\* Only a quiesce that succeeded makes a server idle.
LEMMA IdleGrows ==
  ASSUME IInv, [Next]_vars, NEW s \in idle', s \notin idle
  PROVE  Of(s)' = None
<1>0. TypeOK /\ CallsTyped  BY DEF IInv
<1>1. CASE idle' \subseteq idle  BY <1>1
<1>2. CASE PassQuiesced
  <2>1. PICK ok \in BOOLEAN : EndStop(ok) /\ units' = UnitsAfter(ok) /\ idle' = IdleAfter(ok)
    BY <1>2 DEF PassQuiesced
  <2>2. ok /\ s = departing.srv  BY <2>1 DEF IdleAfter
  <2>3. QED  BY <2>1, <2>2, EndedGone DEF UnitsAfter
<1>3. CASE Reconcile /\ ~PassQuiesced
  BY <1>1, <1>3
  DEF Reconcile, PassQueues, PassBegins, PassGates, PassGated, PassReachesSweep, PassSweeps, PassSwept,
      PassReachesStart, PassQuiesces, PassSkipsIdle, PassStarts, PassBounces, PassBounced,
      PassRefreshes, PassEnds, Consume, wishes
<1>4. CASE CallEnters
  BY <1>1, <1>4 DEF CallEnters, WriteEnters, StopEnters, OverrideQuiescence, wishes
<1>5. ASSUME NEW o \in Operators, CallContinues(o) PROVE idle' \subseteq idle
  <2>1. CASE Refused(o)  BY <2>1 DEF Refused, OverrideQuiescence
  <2>2. CASE Proceed(o) /\ op[o].at \in {"queued", "stopping"}
    <3>1. op[o].kind \in Stops  BY <1>0, <2>2 DEF CallsTyped
    <3>2. CASE op[o].kind \in {"restart", "retry"}  BY <2>1, <2>2, <3>2 DEF Proceed
    <3>3. CASE op[o].kind = "wipe"  BY <2>1, <2>2, <3>3 DEF Proceed, wishes
    <3>4. CASE op[o].kind \in {"disconnect", "delete"}  BY <2>1, <2>2, <3>4 DEF Proceed, wishes
    <3>5. QED  BY <3>1, <3>2, <3>3, <3>4 DEF Stops
  <2>3. CASE StopAcquires(o)  BY <2>1, <2>2, <2>3 DEF StopAcquires, wishes
  <2>4. CASE StopReturns(o)  BY <2>2, <2>4 DEF StopReturns, CallFails, wishes
  <2>5. CASE Wiped(o) \/ DeleteStopsAgain(o)
    BY <2>5 DEF Wiped, DeleteStopsAgain, OverrideQuiescence
  <2>6. CASE WriteCommits(o) \/ WriteFollowsUp(o) \/ DeleteCommits(o) \/ DisconnectFollowsUp(o)
    BY <2>6 DEF WriteCommits, WriteFollowsUp, DeleteCommits, DisconnectFollowsUp, wishes
  <2>7. QED  BY <1>5, <2>3, <2>4, <2>5, <2>6 DEF CallContinues
<1>6. CASE \E t \in Servers : Request(t) \/ ToolCall(t) \/ RequestFinished(t) \/ UnitMoves(t)
                              \/ IdleWindowPasses(t) \/ BackoffPasses(t)
  BY <1>1, <1>6
  DEF Request, ToolCall, RequestFinished, UnitMoves, IdleWindowPasses, BackoffPasses, wishes
<1>7. CASE DepartingDies \/ Shutdown \/ UNCHANGED vars
  BY <1>1, <1>7
  DEF DepartingDies, Shutdown, ShutdownQueues, ShutdownStops, ShutdownStopped, ShutdownEnds, vars, wishes
<1>8. QED  BY <1>1, <1>2, <1>3, <1>4, <1>5, <1>6, <1>7 DEF Next

LEMMA IdledStep == IInv /\ [Next]_vars => Idled'
<1> SUFFICES ASSUME IInv, [Next]_vars, NEW s \in idle' PROVE Of(s)' = None
  BY DEF Idled
<1>1. s \in Servers  BY WishTypesStep DEF WishTypes
<1>2. CASE s \in idle
  <2>1. ~PassStarts(s)  BY <1>2 DEF PassStarts, Consume
  <2>2. QED  BY <1>1, <1>2, <2>1, StaysGone DEF IInv, Idled
<1>3. QED  BY <1>2, IdleGrows

LEMMA RowsTrueStep == IInv /\ [Next]_vars => RowsTrue'
<1> SUFFICES ASSUME IInv, [Next]_vars, NEW s \in Servers, runtime'[s] \in {"stopped", "idle"}
             PROVE  Of(s)' = None
  BY DEF RowsTrue
<1>0. TypeOK /\ runtime \in [Servers -> Runtimes]  BY DEF IInv, TypeOK
<1>1. CASE runtime'[s] = runtime[s] /\ ~PassStarts(s)
  BY <1>1, StaysGone DEF IInv, RowsTrue
<1>2. CASE PassStarts(s)
  BY <1>0, <1>2 DEF PassStarts, TryStart
<1>3. ASSUME NEW t \in Servers,
             \/ PassGates(t) \/ PassSweeps(t) \/ PassQuiesces(t) \/ PassSkipsIdle(t) \/ PassBounces(t)
             \/ PassStarts(t) /\ t # s
             \/ PassRefreshes(t)
      PROVE  Of(s)' = None
  <2>1. CASE PassRefreshes(t) /\ t = s
    <3>1. departing = None  BY <2>1, PassAlone DEF PassRefreshes, Turn
    <3>2. units[s] # None /\ runtime'[s] = units[s].life.state  BY <1>0, <2>1 DEF PassRefreshes
    <3>3. units[s] \in Units  BY <1>0, <3>2 DEF TypeOK
    <3>4. units[s].life.state # "stopped"  BY <3>1, <3>2 DEF IInv, Tabled, Of
    <3>5. QED  BY <3>2, <3>3, <3>4 DEF Units, Lives, UnitStates
  <2>2. runtime'[s] = runtime[s] \/ runtime'[s] = "failed" \/ (PassRefreshes(t) /\ t = s)
    BY <1>0, <1>3
    DEF PassGates, PassSweeps, PassQuiesces, PassSkipsIdle, PassBounces, PassStarts, TryStart,
        PassRefreshes
  <2>3. QED  BY <1>1, <1>2, <2>1, <2>2
<1>4. CASE PassSwept \/ PassQuiesced
  <2>1. PICK ok \in BOOLEAN :
          /\ EndStop(ok) /\ units' = UnitsAfter(ok)
          /\ runtime' \in {runtime, RowAfter(ok, "stopped"), RowAfter(ok, "idle")}
    BY <1>4 DEF PassSwept, PassQuiesced
  <2>2. CASE ok /\ s = departing.srv  BY <2>1, <2>2, EndedGone DEF UnitsAfter
  <2>3. departing # None  BY <2>1 DEF EndStop
  <2>4. departing.srv \in Servers  BY <1>0, <2>3 DEF TypeOK
  <2>5. CASE ~(ok /\ s = departing.srv)
    <3>1. runtime'[s] = runtime[s]  BY <1>0, <2>1, <2>4, <2>5 DEF RowAfter
    <3>2. QED  BY <1>1, <1>2, <3>1
  <2>6. QED  BY <2>2, <2>5
<1>5. CASE PassReachesStart
  <2>1. CASE units[s] = None
    <3>1. departing = None  BY <1>5, PassAlone DEF PassReachesStart
    <3>2. QED  BY <1>5, <2>1, <3>1 DEF PassReachesStart, observed, Of
  <2>2. CASE units[s] # None
    <3>1. runtime'[s] = runtime[s]  BY <1>5, <2>2 DEF PassReachesStart
    <3>2. QED  BY <1>1, <1>2, <3>1
  <2>3. QED  BY <2>1, <2>2
<1>6. CASE PassGated \/ PassBounced
  <2>1. departing # None  BY <1>6 DEF PassGated, PassBounced, EndStop
  <2>2. departing.srv \in Servers  BY <1>0, <2>1 DEF TypeOK
  <2>3. \/ runtime'[s] = runtime[s]
        \/ runtime'[s] \in {"failed", "starting", "stopping"}
    BY <1>0, <1>6, <2>2 DEF PassGated, PassBounced, TryStart
  <2>4. QED  BY <1>1, <1>2, <2>3
<1>7. CASE PassQueues \/ PassBegins \/ PassReachesSweep \/ PassEnds
  BY <1>1, <1>2, <1>7 DEF PassQueues, PassBegins, PassReachesSweep, PassEnds
<1>8. CASE CallEnters \/ \E o \in Operators : CallContinues(o)
  <2>1. runtime'[s] = runtime[s] \/ runtime'[s] = "none"
    BY <1>0, <1>8
    DEF CallEnters, WriteEnters, StopEnters, CallContinues, WriteCommits, WriteFollowsUp, StopAcquires,
        StopReturns, Wiped, DeleteCommits, DeleteStopsAgain, DisconnectFollowsUp
  <2>2. QED  BY <1>1, <1>2, <2>1
<1>9. CASE \E t \in Servers : Request(t) \/ ToolCall(t) \/ RequestFinished(t) \/ UnitMoves(t)
                              \/ IdleWindowPasses(t) \/ BackoffPasses(t)
  BY <1>1, <1>2, <1>9
  DEF Request, ToolCall, RequestFinished, UnitMoves, IdleWindowPasses, BackoffPasses
<1>10. CASE DepartingDies \/ Shutdown \/ UNCHANGED vars
  BY <1>1, <1>2, <1>10
  DEF DepartingDies, Shutdown, ShutdownQueues, ShutdownStops, ShutdownStopped, ShutdownEnds, vars
<1>11. CASE Reconcile  BY <1>2, <1>3, <1>4, <1>5, <1>6, <1>7, <1>11 DEF Reconcile
<1>12. QED  BY <1>8, <1>9, <1>10, <1>11 DEF Next

LEMMA QuarantinedStep == IInv /\ [Next]_vars => Quarantined'
<1> SUFFICES ASSUME IInv, [Next]_vars, NEW s \in Servers
             PROVE  /\ units'[s] # None => (units'[s].life.state = "stopping" <=> quarantine'[s] # "no")
                    /\ quarantine'[s] # "no" => Of(s)' # None
  BY DEF Quarantined
<1> DEFINE Goal == /\ units'[s] # None => (units'[s].life.state = "stopping" <=> quarantine'[s] # "no")
                   /\ quarantine'[s] # "no" => Of(s)' # None
<1>0. /\ ObservedTypes /\ ObservedTypes' /\ Departs'
      /\ units[s] # None => (units[s].life.state = "stopping" <=> quarantine[s] # "no")
      /\ quarantine[s] # "no" => Of(s) # None
  BY ObservedTypesStep, DepartsStep DEF IInv, TypeOK, ObservedTypes, Quarantined
<1>1. CASE UNCHANGED observed  BY <1>0, <1>1 DEF observed, Of
<1>2. CASE departing = None /\ StopBegins
  <2>1. PICK t \in Servers : BeginStop(t) /\ UNCHANGED <<procs, used, quarantine>>
    BY <1>2 DEF StopBegins
  <2>2. CASE t = s
    <3>1. units'[s] = None  BY <1>0, <2>1, <2>2 DEF BeginStop, ObservedTypes
    <3>2. departing' # None /\ departing'.srv = s /\ departing'.unit # None
      <4>1. units[s] \in Units  BY <1>0, <2>1, <2>2 DEF BeginStop, ObservedTypes
      <4>2. departing' \in [srv : Servers, unit : Units] /\ departing'.srv = s
        BY <2>1, <2>2, <4>1, StoppingUnit DEF BeginStop
      <4>3. QED  BY <4>2, NoneIsNothing
    <3>3. QED  BY <3>1, <3>2 DEF Of
  <2>3. CASE t # s
    <3>1. units'[s] = units[s] /\ quarantine' = quarantine /\ departing'.srv = t
      BY <1>0, <2>1, <2>3 DEF BeginStop, ObservedTypes
    <3>2. QED  BY <1>0, <1>2, <2>3, <3>1 DEF Of
  <2>4. QED  BY <2>2, <2>3
<1>3. CASE departing = None /\ UnitStarts
  <2>1. PICK t \in Servers : PassStarts(t)  BY <1>3 DEF UnitStarts
  <2>2. quarantine' = quarantine /\ departing' = None  BY <1>3, <2>1 DEF PassStarts
  <2>3. CASE t = s
    <3>1. units[s] = None /\ quarantine[s] = "no"
      BY <1>0, <1>3, <2>1, <2>3 DEF PassStarts, Of
    <3>2. units'[s] = None \/ units'[s].life.state = "starting"
      BY <1>0, <2>1, <2>3, <3>1 DEF PassStarts, TryStart, ObservedTypes, Started
    <3>3. QED  BY <2>2, <3>1, <3>2
  <2>4. CASE t # s
    <3>1. units'[s] = units[s]  BY <1>0, <2>1, <2>4 DEF PassStarts, TryStart, ObservedTypes
    <3>2. QED  BY <1>0, <1>3, <2>2, <3>1 DEF Of
  <2>5. QED  BY <2>3, <2>4
<1>4. CASE departing = None /\ Forgets
  BY <1>0, <1>4 DEF Forgets, ForgetQuarantine, ObservedTypes, Of
<1>5. CASE StopEnds \/ UnitRestarts
  <2>1. departing # None /\ departing' = None /\ departing.srv \in Servers /\ departing.unit # None
        /\ departing.unit.life.state = "stopping" /\ units[departing.srv] = None
    <3>1. departing # None /\ departing' = None  BY <1>5 DEF StopEnds, UnitRestarts, EndStop
    <3>2. departing \in [srv : Servers, unit : Units]  BY <1>0, <3>1 DEF ObservedTypes
    <3>3. QED  BY <3>1, <3>2, NoneIsNothing DEF IInv, Departs
  <2>2. CASE departing.srv # s
    <3>1. units'[s] = units[s] /\ quarantine'[s] = quarantine[s]
      BY <1>0, <1>5, <2>2
      DEF StopEnds, UnitRestarts, EndStop, UnitsAfter, TryStart, ObservedTypes
    <3>2. QED  BY <1>0, <2>1, <2>2, <3>1 DEF Of
  <2>3. CASE departing.srv = s /\ quarantine'[s] = "no"
    <3>1. CASE UnitRestarts
      <4>1. units' = units \/ \E u : u.life = Started /\ units' = [units EXCEPT ![s] = u]
        BY <2>3, <3>1 DEF UnitRestarts, TryStart
      <4>2. units'[s] = None \/ units'[s].life.state = "starting"
        BY <1>0, <2>1, <2>3, <4>1 DEF ObservedTypes, Started
      <4>3. QED  BY <2>3, <4>2
    <3>2. CASE StopEnds
      <4>1. units' = units
        BY <1>0, <2>1, <2>3, <3>2
        DEF StopEnds, EndStop, QuarantineAfter, UnitsAfter, ObservedTypes
      <4>2. QED  BY <2>1, <2>3, <4>1
    <3>3. QED  BY <1>5, <3>1, <3>2
  <2>4. CASE departing.srv = s /\ quarantine'[s] # "no"
    <3>1. units' = [units EXCEPT ![s] = departing.unit]
      BY <1>0, <1>5, <2>1, <2>4
      DEF StopEnds, UnitRestarts, EndStop, QuarantineAfter, UnitsAfter, ObservedTypes
    <3>2. units'[s] = departing.unit  BY <1>0, <3>1 DEF ObservedTypes
    <3>3. QED  BY <2>1, <2>4, <3>2 DEF Of
  <2>5. QED  BY <2>2, <2>3, <2>4
<1>6. ASSUME NEW t \in Servers, UnitMoves(t) PROVE Goal
  <2>1. quarantine' = quarantine /\ departing' = departing  BY <1>6 DEF UnitMoves
  <2>2. PICK life \in LivesAfter[units[t].life] : units' = [units EXCEPT ![t].life = life]
    BY <1>6 DEF UnitMoves
  <2>3. CASE t # s
    <3>1. units'[s] = units[s]  BY <1>0, <2>2, <2>3 DEF ObservedTypes
    <3>2. QED  BY <1>0, <2>1, <3>1 DEF Of
  <2>4. CASE t = s
    <3>1. units[s] \in Units /\ units[s] # None  BY <1>0, <1>6, <2>4 DEF UnitMoves, ObservedTypes
    <3>2. Of(s) = units[s]  BY <3>1 DEF IInv, Departs, Of
    <3>3. units[s].life.state # "stopped" /\ (units[s].life.live => units[s].life.port)
      BY <3>1, <3>2 DEF IInv, Tabled, Sound, Alive, Table
    <3>4. life \in Lives /\ units[s].life \in Lives /\ Moves(units[s].life, life)
      BY <2>2, <2>4, <3>1 DEF LivesAfter, Units
    <3>5. life.state = "stopping" <=> units[s].life.state = "stopping"
      BY <3>3, <3>4, MovesKeep
    <3>6. units'[s].life = life /\ units'[s] \in Units
      BY <1>0, <2>2, <2>4, <3>1, <3>4 DEF ObservedTypes, Units
    <3>7. departing # None => departing.srv # s  BY <3>1 DEF IInv, Departs
    <3>8. QED  BY <1>0, <2>1, <3>1, <3>5, <3>6, <3>7, NoneIsNothing DEF Of
  <2>5. QED  BY <2>3, <2>4
<1>7. ASSUME NEW t \in Servers, BackoffPasses(t) PROVE Goal
  BY <1>0, <1>7 DEF BackoffPasses, ObservedTypes, Of
<1>8. CASE DepartingDies
  <2>1. departing' \in [srv : Servers, unit : Units] /\ departing'.srv = departing.srv
    BY <1>0, <1>8 DEF DepartingDies, ObservedTypes, Units, Lives
  <2>2. units' = units /\ quarantine' = quarantine /\ departing # None  BY <1>8 DEF DepartingDies
  <2>3. departing'.unit # None /\ departing' # None  BY <2>1, NoneIsNothing
  <2>4. QED  BY <1>0, <2>1, <2>2, <2>3 DEF Of
<1>9. QED
  BY <1>1, <1>2, <1>3, <1>4, <1>5, <1>6, <1>7, <1>8, UnitSteps

\* A call begins to wipe when nothing is left of its server.
LEMMA WipeBegins ==
  ASSUME IInv, [Next]_vars, NEW o \in Operators, op'[o].at = "wiping"
  PROVE  /\ op'[o].srv = op[o].srv
         /\ op[o].at = "wiping" \/ \A s \in Servers : s = op[o].srv => Of(s)' = None
<1>0. TypeOK /\ CallsTyped /\ Line  BY DEF IInv
<1>1. CASE op'[o] = op[o]  BY <1>1
<1>2. ASSUME op[o].at \in {"queued", "stopping"}, Proceed(o)
      PROVE  op'[o].srv = op[o].srv
  <2>1. op[o].kind \in Stops  BY <1>0, <1>2 DEF CallsTyped
  <2>2. CASE Refused(o)
    <3>1. op'[o].at # "wiping"  BY <1>0, <2>2 DEF TypeOK, Refused, NoCall
    <3>2. QED  BY <3>1
  <2>3. CASE ~Refused(o) /\ op[o].kind = "wipe"
    <3>1. op' = [op EXCEPT ![o].at = "wiping"]  BY <1>2, <2>3 DEF Proceed
    <3>2. QED  BY <1>0, <3>1 DEF TypeOK
  <2>4. CASE ~Refused(o) /\ op[o].kind # "wipe"
    <3>1. op' = [op EXCEPT ![o] = NoCall] \/ op' = [op EXCEPT ![o] = [op[o] EXCEPT !.at = "commit"]]
      BY <1>2, <2>1, <2>4 DEF Proceed, Stops
    <3>2. op'[o].at # "wiping"  BY <1>0, <3>1 DEF TypeOK, NoCall
    <3>3. QED  BY <3>2
  <2>5. QED  BY <2>2, <2>3, <2>4
<1>3. CASE StopAcquires(o)
  <2>1. ~(op' = [op EXCEPT ![o].at = "stopping"])  BY <1>0 DEF TypeOK
  <2>2. ASSUME Refused(o) PROVE FALSE
    <3>1. op'[o].at # "wiping"  BY <1>0, <2>2 DEF TypeOK, Refused, NoCall
    <3>2. QED  BY <3>1
  <2>3. Proceed(o) /\ units[op[o].srv] = None /\ UNCHANGED <<units, departing>>
    BY <1>3, <2>1, <2>2 DEF StopAcquires
  <2>4. departing = None  BY <1>3, CallAlone DEF StopAcquires
  <2>5. op'[o].srv = op[o].srv  BY <1>2, <1>3, <2>3 DEF StopAcquires
  <2>6. QED  BY <2>3, <2>4, <2>5 DEF Of
<1>4. CASE StopReturns(o)
  <2>1. PICK ok \in BOOLEAN :
          EndStop(ok) /\ units' = UnitsAfter(ok) /\ (IF ok THEN Proceed(o) ELSE CallFails(o))
    BY <1>4 DEF StopReturns
  <2>2. ok  BY <1>0, <2>1 DEF CallFails, NoCall, TypeOK
  <2>3. op'[o].srv = op[o].srv  BY <1>2, <1>4, <2>1, <2>2 DEF StopReturns
  <2>4. departing.srv = op[o].srv  BY <1>4 DEF StopReturns, IInv, Departs
  <2>5. QED  BY <2>1, <2>2, <2>3, <2>4, EndedGone DEF UnitsAfter
<1>5. ASSUME CallContinues(o), ~StopAcquires(o), ~StopReturns(o) PROVE FALSE
  <2>1. CASE WriteCommits(o)  BY <1>0, <2>1 DEF WriteCommits, TypeOK, NoCall
  <2>2. CASE DeleteCommits(o)  BY <1>0, <2>2 DEF DeleteCommits, TypeOK, NoCall
  <2>3. CASE DeleteStopsAgain(o)  BY <1>0, <2>3 DEF DeleteStopsAgain, TypeOK
  <2>4. CASE op' = [op EXCEPT ![o] = NoCall]  BY <1>0, <2>4 DEF TypeOK, NoCall
  <2>5. QED
    BY <1>5, <2>1, <2>2, <2>3, <2>4 DEF CallContinues, WriteFollowsUp, Wiped, DisconnectFollowsUp
<1>6. ASSUME NEW a \in Operators, CallContinues(a), a # o PROVE op'[o] = op[o]
  BY <1>6, CallTurns DEF CallMoves
<1>7. CASE CallEnters
  <2>1. PICK a \in Operators, s \in Servers :
          \/ \E kind \in Writes : WriteEnters(a, kind, s)
          \/ \E kind \in Stops : StopEnters(a, kind, s)
    BY <1>7 DEF CallEnters
  <2>2. CASE a = o  BY <1>0, <2>1, <2>2 DEF WriteEnters, StopEnters, TypeOK
  <2>3. CASE a # o  BY <1>1, <2>1, <2>3, CallTurns DEF CallMoves
  <2>4. QED  BY <2>2, <2>3
<1>8. CASE op' = op  BY <1>1, <1>8
<1>9. CASE Reconcile
  BY <1>8, <1>9
  DEF Reconcile, PassQueues, PassBegins, PassGates, PassGated, PassReachesSweep, PassSweeps, PassSwept,
      PassReachesStart, PassQuiesces, PassQuiesced, PassSkipsIdle, PassStarts, PassBounces,
      PassBounced, PassRefreshes, PassEnds
<1>10. CASE \E s \in Servers : Request(s) \/ ToolCall(s) \/ RequestFinished(s) \/ UnitMoves(s)
                              \/ IdleWindowPasses(s) \/ BackoffPasses(s)
  BY <1>8, <1>10 DEF Request, ToolCall, RequestFinished, UnitMoves, IdleWindowPasses, BackoffPasses
<1>11. CASE DepartingDies \/ Shutdown \/ UNCHANGED vars
  BY <1>8, <1>11
  DEF DepartingDies, Shutdown, ShutdownQueues, ShutdownStops, ShutdownStopped, ShutdownEnds, vars
<1>12. QED  BY <1>1, <1>3, <1>4, <1>5, <1>6, <1>7, <1>9, <1>10, <1>11 DEF Next

LEMMA WipingStep == IInv /\ [Next]_vars => Wiping'
<1> SUFFICES ASSUME IInv, [Next]_vars PROVE Wiping'
  OBVIOUS
<1> SUFFICES ASSUME NEW o \in Operators, op'[o].at = "wiping",
                    NEW s \in Servers, s = op'[o].srv
             PROVE  Of(s)' = None
  <2>1. CallsTyped'  BY TypeStep
  <2>2. QED  BY <2>1 DEF Wiping, CallsTyped, Of
<1>1. op'[o].srv = op[o].srv /\ (op[o].at = "wiping" \/ Of(s)' = None)  BY WipeBegins
<1>2. CASE op[o].at = "wiping"
  <2>1. Of(s) = None  BY <1>1, <1>2 DEF IInv, CallsTyped, Wiping
  <2>2. ~PassStarts(s)
    <3>1. o \in Inside /\ o # "pass"  BY <1>2, SupervisorAssumptions DEF Inside, Actors
    <3>2. "pass" \notin Inside  BY <3>1, Exclusive DEF IInv
    <3>3. QED  BY <3>2 DEF PassStarts, Turn, Inside, Actors
  <2>3. QED  BY <2>1, <2>2, StaysGone
<1>3. QED  BY <1>1, <1>2

-----------------------------------------------------------------------------
(* What was deleted stays deleted.                                         *)

LEMMA GoneStays ==
  ASSUME IInv, [Next]_vars, NEW s \in Servers, row[s] = "gone"
  PROVE  row'[s] = "gone"
<1>0. row \in [Servers -> Rows] /\ CallsTyped  BY DEF IInv, TypeOK
<1>1. CASE row' = row  BY <1>1
<1>2. ASSUME NEW o \in Operators, WriteCommits(o) PROVE row'[s] = "gone"
  BY <1>0, <1>2 DEF WriteCommits, desired, CallsTyped
<1>3. ASSUME NEW o \in Operators, DeleteCommits(o) PROVE row'[s] = "gone"
  BY <1>0, <1>3 DEF DeleteCommits
<1>4. CASE Reconcile
  BY <1>1, <1>4
  DEF Reconcile, PassQueues, PassBegins, PassGates, PassGated, PassReachesSweep, PassSweeps, PassSwept,
      PassReachesStart, PassQuiesces, PassQuiesced, PassSkipsIdle, PassStarts, PassBounces,
      PassBounced, PassRefreshes, PassEnds, desired
<1>5. CASE CallEnters \/ \E o \in Operators : CallContinues(o)
  BY <1>1, <1>2, <1>3, <1>5
  DEF CallEnters, CallContinues, WriteEnters, StopEnters, WriteFollowsUp, StopAcquires, StopReturns,
      Wiped, DeleteStopsAgain, DisconnectFollowsUp, desired
<1>6. CASE \E t \in Servers : Request(t) \/ ToolCall(t) \/ RequestFinished(t) \/ UnitMoves(t)
                               \/ IdleWindowPasses(t) \/ BackoffPasses(t)
  BY <1>1, <1>6
  DEF Request, ToolCall, RequestFinished, UnitMoves, IdleWindowPasses, BackoffPasses, desired
<1>7. CASE DepartingDies \/ Shutdown \/ UNCHANGED vars
  BY <1>1, <1>7
  DEF DepartingDies, Shutdown, ShutdownQueues, ShutdownStops, ShutdownStopped, ShutdownEnds, desired, vars
<1>8. QED  BY <1>4, <1>5, <1>6, <1>7 DEF Next

Deleting(c) == c.again \/ (c.at = "after" /\ c.kind = "delete")

LEMMA RefusedDeletes ==
  ASSUME IInv, NEW o \in Operators, op[o].at \in {"queued", "stopping"}, Refused(o)
  PROVE  ~Deleting(op'[o]) /\ ~op'[o].again
<1>0. TypeOK /\ (op[o].again => op[o].kind = "delete")  BY DEF IInv, Erased
<1>1. CASE op' = [op EXCEPT ![o] = NoCall]
  BY <1>0, <1>1 DEF TypeOK, NoCall, Deleting
<1>2. CASE op[o].kind = "wipe" /\ op' = [op EXCEPT ![o] = [op[o] EXCEPT !.at = "queued", !.was = FALSE]]
  BY <1>0, <1>2 DEF TypeOK, Deleting
<1>3. QED  BY <1>1, <1>2 DEF Refused

LEMMA ProceedDeletes ==
  ASSUME IInv, NEW o \in Operators, op[o].at \in {"queued", "stopping"}, Proceed(o)
  PROVE  Deleting(op'[o]) => /\ op[o].again /\ op'[o].srv = op[o].srv
                             /\ op'[o].kind = "delete" /\ op'[o].at # "idle"
<1>0. TypeOK /\ CallsTyped /\ (op[o].again => op[o].kind = "delete")  BY DEF IInv, Erased
<1>1. CASE Refused(o)  BY <1>1, RefusedDeletes
<1>2. op[o].kind \in Stops  BY <1>0 DEF CallsTyped
<1>3. CASE op' = [op EXCEPT ![o] = NoCall]
  BY <1>0, <1>3 DEF TypeOK, NoCall, Deleting
<1>4. CASE op' = [op EXCEPT ![o].at = "wiping"]
  BY <1>0, <1>4 DEF TypeOK, Deleting
<1>5. CASE op' = [op EXCEPT ![o] = [op[o] EXCEPT !.at = "commit"]]
  BY <1>0, <1>5 DEF TypeOK, Deleting
<1>6. QED  BY <1>1, <1>2, <1>3, <1>4, <1>5 DEF Proceed, Stops

\* A call that has deleted its row is one of a row that is gone.
LEMMA DeletingStep ==
  ASSUME IInv, [Next]_vars, NEW o \in Operators, Deleting(op'[o])
  PROVE  row'[op'[o].srv] = "gone" /\ op'[o].kind = "delete" /\ op'[o].at # "idle"
<1>0. TypeOK /\ CallsTyped
      /\ (Deleting(op[o]) => row[op[o].srv] = "gone" /\ op[o].kind = "delete" /\ op[o].srv \in Servers)
  <2>1. TypeOK /\ CallsTyped /\ Erased  BY DEF IInv
  <2>2. Deleting(op[o]) => row[op[o].srv] = "gone" /\ op[o].kind = "delete"
    BY <2>1 DEF Erased, Deleting
  <2>3. Deleting(op[o]) => op[o].srv \in Servers
    BY <2>1 DEF CallsTyped, Erased, Deleting
  <2>4. QED  BY <2>1, <2>2, <2>3
<1>1. ASSUME Deleting(op[o]), op'[o].srv = op[o].srv, op'[o].kind = "delete", op'[o].at # "idle"
      PROVE  row'[op'[o].srv] = "gone" /\ op'[o].kind = "delete" /\ op'[o].at # "idle"
  BY <1>0, <1>1, GoneStays
<1>2. CASE op'[o] = op[o]
  BY <1>0, <1>1, <1>2 DEF IInv, Erased, Deleting
<1>3. CASE StopAcquires(o)
  <2>1. CASE Refused(o)  BY <1>3, <2>1, RefusedDeletes DEF StopAcquires
  <2>2. CASE Proceed(o)  BY <1>1, <1>3, <2>2, ProceedDeletes DEF StopAcquires, Deleting
  <2>3. CASE op' = [op EXCEPT ![o].at = "stopping"]
    <3>1. op'[o].srv = op[o].srv /\ op'[o].kind = op[o].kind /\ op'[o].again = op[o].again
          /\ op'[o].at = "stopping"
      BY <1>0, <2>3 DEF TypeOK
    <3>2. Deleting(op[o])  BY <3>1 DEF Deleting
    <3>3. QED  BY <1>0, <1>1, <3>1, <3>2
  <2>4. QED  BY <1>3, <2>1, <2>2, <2>3 DEF StopAcquires
<1>4. CASE StopReturns(o)
  <2>1. CASE Proceed(o)  BY <1>1, <1>4, <2>1, ProceedDeletes DEF StopReturns, Deleting
  <2>2. ASSUME CallFails(o) PROVE FALSE
    BY <1>0, <2>2 DEF CallFails, TypeOK, NoCall, Deleting
  <2>3. QED  BY <1>4, <2>1, <2>2 DEF StopReturns
<1>5. ASSUME op' = [op EXCEPT ![o] = NoCall] PROVE FALSE
  BY <1>0, <1>5 DEF TypeOK, NoCall, Deleting
<1>6. CASE DeleteCommits(o)
  <2>1. op[o].srv \in Servers  BY <1>0, <1>6 DEF DeleteCommits, CallsTyped
  <2>2. op' = [op EXCEPT ![o].at = "after"] /\ row' = [row EXCEPT ![op[o].srv] = "gone"]
        /\ op[o].kind = "delete"
    BY <1>5, <1>6 DEF DeleteCommits
  <2>3. op'[o].srv = op[o].srv /\ op'[o].kind = "delete" /\ op'[o].at = "after"
    BY <1>0, <2>2 DEF TypeOK
  <2>4. QED  BY <1>0, <2>1, <2>2, <2>3 DEF TypeOK
<1>7. CASE DeleteStopsAgain(o)
  <2>1. Deleting(op[o])  BY <1>7 DEF DeleteStopsAgain, Deleting
  <2>2. op'[o].srv = op[o].srv /\ op'[o].kind = op[o].kind /\ op'[o].at = "queued"
    BY <1>0, <1>7 DEF DeleteStopsAgain, TypeOK
  <2>3. QED  BY <1>0, <1>1, <2>1, <2>2
<1>8. CASE WriteCommits(o)
  <2>1. op[o].kind \in Writes /\ op[o].kind # "delete"  BY <1>8 DEF WriteCommits, Writes
  <2>2. op'[o].kind = op[o].kind /\ op'[o].again = op[o].again
    BY <1>0, <1>5, <1>8 DEF WriteCommits, TypeOK
  <2>3. QED  BY <1>0, <2>1, <2>2 DEF Deleting
<1>9. CASE CallEnters
  <2>1. PICK a \in Operators, s \in Servers :
          \/ \E kind \in Writes : WriteEnters(a, kind, s)
          \/ \E kind \in Stops : StopEnters(a, kind, s)
    BY <1>9 DEF CallEnters
  <2>2. a # o  BY <1>0, <2>1 DEF WriteEnters, StopEnters, TypeOK, Deleting
  <2>3. QED  BY <1>2, <2>1, <2>2, CallTurns DEF CallMoves
<1>10. ASSUME NEW a \in Operators, CallContinues(a), a # o PROVE op'[o] = op[o]
  BY <1>10, CallTurns DEF CallMoves
<1>11. CASE CallContinues(o)
  BY <1>3, <1>4, <1>5, <1>6, <1>7, <1>8, <1>11
  DEF CallContinues, WriteFollowsUp, Wiped, DisconnectFollowsUp
<1>12. CASE Reconcile
  BY <1>2, <1>12
  DEF Reconcile, PassQueues, PassBegins, PassGates, PassGated, PassReachesSweep, PassSweeps, PassSwept,
      PassReachesStart, PassQuiesces, PassQuiesced, PassSkipsIdle, PassStarts, PassBounces,
      PassBounced, PassRefreshes, PassEnds
<1>13. CASE \E s \in Servers : Request(s) \/ ToolCall(s) \/ RequestFinished(s) \/ UnitMoves(s)
                              \/ IdleWindowPasses(s) \/ BackoffPasses(s)
  BY <1>2, <1>13 DEF Request, ToolCall, RequestFinished, UnitMoves, IdleWindowPasses, BackoffPasses
<1>14. CASE DepartingDies \/ Shutdown \/ UNCHANGED vars
  BY <1>2, <1>14
  DEF DepartingDies, Shutdown, ShutdownQueues, ShutdownStops, ShutdownStopped, ShutdownEnds, vars
<1>15. QED  BY <1>2, <1>9, <1>10, <1>11, <1>12, <1>13, <1>14 DEF Next

\* A DELETE is answered when its stop came back a second time.
LEMMA ErasedGrows ==
  ASSUME IInv, [Next]_vars, NEW s \in erased', s \notin erased
  PROVE  /\ row'[s] = "gone" /\ (units'[s] # None => quarantine'[s] # "no")
         /\ pass'.at \in {"asleep", "queued"}
<1>0. TypeOK /\ CallsTyped /\ Line /\ Erased /\ Departs  BY DEF IInv
<1> DEFINE Goal == /\ row'[s] = "gone" /\ (units'[s] # None => quarantine'[s] # "no")
                   /\ pass'.at \in {"asleep", "queued"}
<1>1. ASSUME NEW o \in Operators, op[o].at \in {"queued", "stopping"}, op[o].again, s = op[o].srv,
             Holds(o), pass' = pass, units'[s] # None => quarantine'[s] # "no"
      PROVE  Goal
  <2>1. s \in Servers  BY <1>0, <1>1 DEF CallsTyped
  <2>2. row[s] = "gone"  BY <1>0, <1>1 DEF Erased
  <2>3. row'[s] = "gone"  BY <2>1, <2>2, GoneStays
  <2>4. pass.at \in {"asleep", "queued"}
    <3>1. o # "pass"  BY SupervisorAssumptions
    <3>2. "pass" \notin Inside  BY <1>0, <1>1, <3>1, Exclusive
    <3>3. QED  BY <3>2 DEF Inside, Actors
  <2>5. QED  BY <1>1, <2>3, <2>4
<1>2. ASSUME NEW o \in Operators, op[o].at \in {"queued", "stopping"}, Proceed(o)
      PROVE  op[o].again /\ s = op[o].srv
  <2>1. op[o].kind \in Stops  BY <1>0, <1>2 DEF CallsTyped
  <2>2. ~Refused(o)  BY DEF Refused
  <2>3. op[o].kind \notin {"restart", "retry"}  BY <1>2, <2>2 DEF Proceed
  <2>4. op[o].kind # "wipe"  BY <1>2, <2>2 DEF Proceed
  <2>5. CASE op[o].kind \in {"disconnect", "delete"}  BY <1>2, <2>2, <2>5 DEF Proceed
  <2>6. QED  BY <2>1, <2>3, <2>4, <2>5 DEF Stops
<1>3. ASSUME NEW o \in Operators, StopAcquires(o) PROVE Goal
  <2>1. Proceed(o) /\ units[op[o].srv] = None /\ units' = units /\ Holds(o) /\ op[o].at = "queued"
        /\ pass' = pass
    BY <1>3 DEF StopAcquires, Refused
  <2>2. QED  BY <1>1, <1>2, <2>1
<1>4. ASSUME NEW o \in Operators, StopReturns(o) PROVE Goal
  <2>1. op[o].at = "stopping" /\ pass' = pass  BY <1>4 DEF StopReturns
  <2>2. departing.srv = op[o].srv  BY <1>0, <2>1 DEF Departs
  <2>3. Holds(o)
    <3>1. o \in Inside  BY <2>1 DEF Inside, Actors
    <3>2. QED  BY <1>0, <3>1, Exclusive
  <2>4. PICK ok \in BOOLEAN :
          EndStop(ok) /\ units' = UnitsAfter(ok) /\ (IF ok THEN Proceed(o) ELSE CallFails(o))
    BY <1>4 DEF StopReturns
  <2>5. CASE ok
    <3>1. op[o].again /\ s = op[o].srv  BY <1>2, <2>1, <2>4, <2>5
    <3>2. units'[s] = None
      BY <1>0, <2>2, <2>4, <2>5, <3>1 DEF UnitsAfter, Departs, EndStop
    <3>3. QED  BY <1>1, <2>1, <2>3, <3>1, <3>2
  <2>6. CASE ~ok
    <3>1. op[o].again /\ s = op[o].srv  BY <2>4, <2>6 DEF CallFails
    <3>2. s \in Servers  BY <1>0, <2>1, <3>1 DEF CallsTyped
    <3>3. quarantine'[s] = "waiting"
      BY <1>0, <2>2, <2>4, <2>6, <3>1, <3>2 DEF EndStop, QuarantineAfter, TypeOK
    <3>4. QED  BY <1>1, <2>1, <2>3, <3>1, <3>3
  <2>7. QED  BY <2>5, <2>6
<1>5. ASSUME erased' = erased PROVE FALSE  BY <1>5
<1>6. CASE Reconcile
  BY <1>5, <1>6
  DEF Reconcile, PassQueues, PassBegins, PassGates, PassGated, PassReachesSweep, PassSweeps, PassSwept,
      PassReachesStart, PassQuiesces, PassQuiesced, PassSkipsIdle, PassStarts, PassBounces,
      PassBounced, PassRefreshes, PassEnds
<1>7. CASE CallEnters \/ \E o \in Operators : CallContinues(o)
  BY <1>3, <1>4, <1>5, <1>7
  DEF CallEnters, CallContinues, WriteEnters, StopEnters, WriteCommits, WriteFollowsUp, Wiped,
      DeleteCommits, DeleteStopsAgain, DisconnectFollowsUp
<1>8. CASE \E t \in Servers : Request(t) \/ ToolCall(t) \/ RequestFinished(t) \/ UnitMoves(t)
                              \/ IdleWindowPasses(t) \/ BackoffPasses(t)
  BY <1>5, <1>8 DEF Request, ToolCall, RequestFinished, UnitMoves, IdleWindowPasses, BackoffPasses
<1>9. CASE DepartingDies \/ Shutdown \/ UNCHANGED vars
  BY <1>5, <1>9
  DEF DepartingDies, Shutdown, ShutdownQueues, ShutdownStops, ShutdownStopped, ShutdownEnds, vars
<1>10. QED  BY <1>6, <1>7, <1>8, <1>9 DEF Next

\* What a pass at work remembers of the rows.
LEMMA RemembersRows ==
  ASSUME IInv, [Next]_vars, pass'.at \notin {"asleep", "queued"}
  PROVE  pass'.snap.row = row \/ (pass.at \notin {"asleep", "queued"} /\ pass'.snap.row = pass.snap.row)
<1>0. pass \in PassStates /\ Worked  BY DEF IInv, TypeOK, PassStates
<1>1. CASE pass' = pass  BY <1>1
<1>2. CASE PassQueues \/ PassEnds
  BY <1>0, <1>2 DEF PassQueues, PassEnds, Asleep, PassStates
<1>3. CASE PassBegins
  BY <1>0, <1>3 DEF PassBegins, PassStates
<1>4. CASE PassSwept
  <2>1. pass.snap \in Snapshots /\ pass.at = "sweep_stop"  BY <1>0, <1>4 DEF Worked, PassSwept
  <2>2. PICK stale \in SUBSET Servers :
          pass' = [pass EXCEPT !.at = "sweep", !.todo = @ \ {departing.srv}, !.snap.stale = stale]
    BY <1>4, <2>1 DEF PassSwept, Snapshots
  <2>3. QED  BY <1>0, <2>1, <2>2 DEF PassStates, Snapshots
<1>5. CASE PassGated \/ PassReachesSweep \/ PassQuiesced \/ PassBounced
  BY <1>0, <1>5 DEF PassGated, PassReachesSweep, PassQuiesced, PassBounced, PassStates
<1>6. CASE PassReachesStart
  BY <1>0, <1>6 DEF PassReachesStart, PassStates
<1>7. ASSUME NEW s \in Servers,
             PassGates(s) \/ PassSweeps(s) \/ PassQuiesces(s) \/ PassSkipsIdle(s) \/ PassStarts(s)
             \/ PassBounces(s) \/ PassRefreshes(s)
      PROVE  pass.at \notin {"asleep", "queued"} /\ pass'.snap.row = pass.snap.row
  BY <1>0, <1>7
  DEF PassGates, PassSweeps, PassQuiesces, PassSkipsIdle, PassStarts, PassBounces, PassRefreshes, Turn,
      PassStates
<1>8. QED
  BY <1>1, <1>2, <1>3, <1>4, <1>5, <1>6, <1>7, PassIsReconcile DEF Reconcile

\* Nothing but a quarantined unit of a server that was deleted comes back.
LEMMA ErasedStays ==
  ASSUME IInv, [Next]_vars, NEW s \in erased, units'[s] # None
  PROVE  quarantine'[s] # "no"
<1>0. /\ s \in Servers /\ ObservedTypes /\ (units[s] # None => quarantine[s] # "no")
      /\ pass.at \notin {"asleep", "queued"} => pass.snap.row[s] # "enabled"
  BY DEF IInv, TypeOK, ObservedTypes, Erased
<1>1. CASE UNCHANGED observed  BY <1>0, <1>1 DEF observed
<1>2. CASE StopBegins
  <2>1. PICK t \in Servers : BeginStop(t) /\ UNCHANGED <<procs, used, quarantine>>
    BY <1>2 DEF StopBegins
  <2>2. t # s /\ units'[s] = units[s]  BY <1>0, <2>1 DEF BeginStop, ObservedTypes
  <2>3. QED  BY <1>0, <2>1, <2>2
<1>3. CASE UnitStarts
  <2>1. PICK t \in Servers : PassStarts(t)  BY <1>3 DEF UnitStarts
  <2>2. t # s
    <3>1. t \in Wanted(pass.snap) /\ pass.at = "start"
      BY <2>1 DEF PassStarts, Turn, IInv, Worked
    <3>2. QED  BY <1>0, <3>1 DEF Wanted
  <2>3. units'[s] = units[s] /\ quarantine' = quarantine
    BY <1>0, <2>1, <2>2 DEF PassStarts, TryStart, ObservedTypes
  <2>4. QED  BY <1>0, <2>3
<1>4. CASE Forgets
  BY <1>0, <1>4 DEF Forgets, ForgetQuarantine, ObservedTypes
<1>5. CASE StopEnds
  <2>1. PICK ok \in BOOLEAN : EndStop(ok) /\ units' = UnitsAfter(ok)  BY <1>5 DEF StopEnds
  <2>2. CASE departing.srv = s
    <3>1. units[s] = None  BY <2>1, <2>2 DEF EndStop, IInv, Departs
    <3>2. ~ok  BY <2>1, <3>1 DEF UnitsAfter
    <3>3. QED  BY <1>0, <2>1, <2>2, <3>2 DEF EndStop, QuarantineAfter, ObservedTypes
  <2>3. CASE departing.srv # s
    <3>1. units'[s] = units[s] /\ quarantine'[s] = quarantine[s]
      BY <1>0, <2>1, <2>3 DEF EndStop, UnitsAfter, ObservedTypes
    <3>2. QED  BY <1>0, <3>1
  <2>4. QED  BY <2>2, <2>3
<1>6. CASE UnitRestarts
  <2>1. departing.srv # s
    <3>1. pass.at = "bounce_stop" /\ departing.srv \in Wanted(pass.snap)
      BY <1>6 DEF UnitRestarts, IInv, Worked, PassStops
    <3>2. QED  BY <1>0, <3>1 DEF Wanted
  <2>2. units'[s] = units[s] /\ quarantine'[s] = quarantine[s]
    BY <1>0, <1>6, <2>1 DEF UnitRestarts, EndStop, TryStart, ObservedTypes
  <2>3. QED  BY <1>0, <2>2
<1>7. ASSUME NEW t \in Servers, UnitMoves(t) PROVE quarantine'[s] # "no"
  <2>1. PICK life : units' = [units EXCEPT ![t].life = life]  BY <1>7 DEF UnitMoves
  <2>2. units[s] # None
    <3>1. CASE t = s  BY <1>7, <3>1 DEF UnitMoves
    <3>2. CASE t # s  BY <1>0, <2>1, <3>2 DEF ObservedTypes
    <3>3. QED  BY <3>1, <3>2
  <2>3. QED  BY <1>0, <1>7, <2>2 DEF UnitMoves
<1>8. ASSUME NEW t \in Servers, BackoffPasses(t) PROVE quarantine'[s] # "no"
  BY <1>0, <1>8 DEF BackoffPasses, ObservedTypes
<1>9. CASE DepartingDies  BY <1>0, <1>9 DEF DepartingDies
<1>10. QED
  BY <1>1, <1>2, <1>3, <1>4, <1>5, <1>6, <1>7, <1>8, <1>9, UnitSteps

LEMMA ErasedStep == IInv /\ [Next]_vars => Erased'
<1> SUFFICES ASSUME IInv, [Next]_vars PROVE Erased'
  OBVIOUS
<1>0. Erased /\ erased \subseteq Servers /\ erased' \subseteq Servers
  BY TypeStep DEF IInv, TypeOK
<1>1. ASSUME NEW s \in erased'
      PROVE  row'[s] = "gone" /\ (units'[s] # None => quarantine'[s] # "no")
  <2>1. CASE s \in erased
    <3>1. row[s] = "gone" /\ s \in Servers  BY <1>0, <2>1 DEF Erased
    <3>2. QED  BY <2>1, <3>1, GoneStays, ErasedStays
  <2>2. QED  BY <2>1, ErasedGrows
<1>2. ASSUME NEW s \in erased', pass'.at \notin {"asleep", "queued"}
      PROVE  pass'.snap.row[s] # "enabled"
  <2>1. s \in erased  BY <1>2, ErasedGrows
  <2>2. row[s] = "gone" /\ (pass.at \notin {"asleep", "queued"} => pass.snap.row[s] # "enabled")
    BY <1>0, <2>1 DEF Erased
  <2>3. QED  BY <1>2, <2>2, RemembersRows
<1>3. ASSUME NEW o \in Operators
      PROVE  /\ op'[o].again \/ (op'[o].at = "after" /\ op'[o].kind = "delete") => row'[op'[o].srv] = "gone"
             /\ op'[o].again => op'[o].kind = "delete" /\ op'[o].at # "idle"
  BY DeletingStep DEF Deleting
<1>4. QED  BY <1>1, <1>2, <1>3 DEF Erased

-----------------------------------------------------------------------------
(* A shutdown.                                                             *)

LEMMA ClosingStep == IInv /\ [Next]_vars => Closing'
<1> SUFFICES ASSUME IInv, [Next]_vars PROVE Closing'
  OBVIOUS
<1>0. TypeOK /\ CallsTyped /\ Line /\ Departs /\ Closing /\ pass \in PassStates
  BY DEF IInv, TypeOK, PassStates
<1>a. down = "down" => units' = units
  <2> SUFFICES ASSUME down = "down" PROVE units' = units
    OBVIOUS
  <2>1. pass.at = "asleep" /\ (\A o \in Operators : op[o].at = "idle")
        /\ \A s \in Servers : units[s] = None
    BY <1>0 DEF Closing
  <2>2. departing = None
    <3>1. Stoppers = {}  BY <2>1 DEF Stoppers, PassStops
    <3>2. QED  BY <1>0, <3>1 DEF Departs
  <2>3. ~StopBegins /\ ~UnitStarts /\ ~StopEnds /\ ~UnitRestarts /\ ~DepartingDies
    BY <2>1, <2>2
    DEF StopBegins, BeginStop, UnitStarts, PassStarts, Turn, StopEnds, UnitRestarts, EndStop,
        DepartingDies
  <2>4. QED
    BY <2>1, <2>3, UnitSteps DEF Forgets, UnitMoves, BackoffPasses, observed
<1>1. ASSUME UNCHANGED <<op, down>>,
             pass'.at = "asleep" \/ (pass.at # "asleep" /\ lock' = lock) \/ down = "up"
      PROVE  Closing'
  BY <1>0, <1>a, <1>1 DEF Closing
<1>2. CASE Reconcile
  <2>1. UNCHANGED <<op, down>>
    BY <1>2
    DEF Reconcile, PassQueues, PassBegins, PassGates, PassGated, PassReachesSweep, PassSweeps, PassSwept,
        PassReachesStart, PassQuiesces, PassQuiesced, PassSkipsIdle, PassStarts, PassBounces,
        PassBounced, PassRefreshes, PassEnds
  <2>2. CASE PassQueues  BY <1>1, <2>1, <2>2 DEF PassQueues
  <2>3. CASE PassEnds  BY <1>1, <2>1, <2>3 DEF PassEnds, Asleep
  <2>4. CASE ~PassQueues /\ ~PassEnds
    <3>1. pass.at # "asleep" /\ lock' = lock
      BY <1>2, <2>4
      DEF Reconcile, PassBegins, PassGates, PassGated, PassReachesSweep, PassSweeps, PassSwept,
          PassReachesStart, PassQuiesces, PassQuiesced, PassSkipsIdle, PassStarts, PassBounces,
          PassBounced, PassRefreshes, Turn
    <3>2. QED  BY <1>1, <2>1, <3>1
  <2>5. QED  BY <2>2, <2>3, <2>4
<1>3. CASE CallEnters \/ \E o \in Operators : CallContinues(o)
  <2>1. down = "up"
    <3>1. CASE CallEnters
      BY <3>1 DEF CallEnters, WriteEnters, StopEnters, Calls
    <3>2. ASSUME NEW o \in Operators, CallContinues(o) PROVE op[o].at # "idle"
      BY <3>2
      DEF CallContinues, WriteCommits, WriteFollowsUp, StopAcquires, StopReturns, Wiped, DeleteCommits,
          DeleteStopsAgain, DisconnectFollowsUp
    <3>3. QED  BY <1>0, <1>3, <3>1, <3>2 DEF Closing
  <2>2. down' = down  BY <1>3, CallTurns DEF CallEnters, CallMoves
  <2>3. QED  BY <2>1, <2>2 DEF Closing
<1>4. ASSUME UNCHANGED <<op, down, pass, lock>> PROVE Closing'
  BY <1>0, <1>a, <1>4 DEF Closing
<1>5. CASE \E s \in Servers : Request(s) \/ ToolCall(s) \/ RequestFinished(s) \/ UnitMoves(s)
                              \/ IdleWindowPasses(s) \/ BackoffPasses(s)
  BY <1>4, <1>5 DEF Request, ToolCall, RequestFinished, UnitMoves, IdleWindowPasses, BackoffPasses
<1>6. CASE DepartingDies \/ UNCHANGED vars  BY <1>4, <1>6 DEF DepartingDies, vars
<1>7. CASE ShutdownQueues
  <2>1. down' = "queued" /\ lock' = Append(lock, "shutdown") /\ UNCHANGED <<op, pass>> /\ down = "up"
        /\ \A o \in Operators : op[o].at = "idle"
    BY <1>7 DEF ShutdownQueues
  <2>2. ASSUME pass.at # "asleep" PROVE lock' # <<>> /\ Head(lock') = "pass"
    <3>1. "pass" \in Actors /\ "pass" \in InLine /\ InLine \subseteq {"pass"}
      BY <2>1, <2>2 DEF InLine, Actors
    <3>2. lock # <<>> /\ Head(lock) = "pass"  BY <1>0, <3>1, LinedAlone DEF Line
    <3>3. lock \in Seq(Actors)  BY <1>0 DEF TypeOK
    <3>4. "shutdown" \in Actors  BY DEF Actors
    <3>5. Head(Append(lock, "shutdown")) = Head(lock) /\ Append(lock, "shutdown") # <<>>
      BY <3>2, <3>3, <3>4, HeadTailAppend, AppendProperties
    <3>6. QED  BY <2>1, <3>2, <3>5
  <2>3. QED  BY <2>1, <2>2 DEF Closing
<1>8. CASE (\E s \in Servers : ShutdownStops(s)) \/ ShutdownStopped \/ ShutdownEnds
  <2>1. UNCHANGED <<op, pass>> /\ down \in {"queued", "stopping"}
    BY <1>8 DEF ShutdownStops, ShutdownStopped, ShutdownEnds
  <2>2. down = "queued" => Holds("shutdown")
    BY <1>8 DEF ShutdownStops, ShutdownStopped, ShutdownEnds
  <2>3. pass.at = "asleep" /\ \A o \in Operators : op[o].at = "idle"
    BY <1>0, <2>1, <2>2 DEF Closing, Holds
  <2>4. down' = "down" => \A t \in Servers : units'[t] = None
    BY <1>8 DEF ShutdownStops, ShutdownStopped, ShutdownEnds, observed
  <2>5. QED  BY <2>1, <2>3, <2>4 DEF Closing
<1>9. CASE Shutdown
  BY <1>7, <1>8, <1>9 DEF Shutdown
<1>10. QED  BY <1>2, <1>3, <1>5, <1>6, <1>9 DEF Next

-----------------------------------------------------------------------------
(* The theorems.                                                           *)

LEMMA InitHolds == Init => IInv
<1> SUFFICES ASSUME Init PROVE IInv
  OBVIOUS
<1> USE DEF Init
<1>1. TypeOK
  <2>1. row \in [Servers -> Rows]  BY DEF Rows
  <2>2. runtime \in [Servers -> Runtimes]  BY DEF Runtimes, UnitStates
  <2>3. pass \in PassStates  BY DEF PassStates, Asleep
  <2>4. op \in [Operators -> CallStates]  BY NoCallFits
  <2>5. naps \subseteq Servers  BY SupervisorAssumptions
  <2>6. QED
    BY <2>1, <2>2, <2>3, <2>4, <2>5 DEF TypeOK, NoUnits, PassStates, CallStates
<1>2. \A s \in Servers : Of(s) = None  BY DEF Of, NoUnits
<1>3. Stoppers = {} /\ Inside = {} /\ InLine = {}
  BY SupervisorAssumptions DEF Stoppers, Inside, InLine, Actors, PassStops, Asleep, NoCall
<1>4. CallsTyped /\ Worked  BY DEF CallsTyped, Worked, NoCall, Asleep, PassStops
<1>5. Line  BY <1>3 DEF Line, Lined
<1>6. Departs  BY <1>3 DEF Departs, NoCall
<1>7. Tabled
  <2>1. \A s \in Servers : Table[s] = None  BY <1>2 DEF Table
  <2>2. PortHolders(Table) = {}  BY <2>1 DEF PortHolders, HasPort
  <2>3. Cardinality(PortHolders(Table)) <= MaxRunning
    BY <2>2, FS_EmptySet, SupervisorAssumptions
  <2>4. QED  BY <1>2, <2>1, <2>3 DEF Tabled, Sound, Alive, HasPort
<1>8. Idled /\ RowsTrue /\ Quarantined /\ Wiping
  BY <1>2 DEF Idled, RowsTrue, Quarantined, Wiping, NoUnits, NoCall
<1>9. Erased /\ Closing  BY DEF Erased, Closing, NoCall
<1>10. QED  BY <1>1, <1>4, <1>5, <1>6, <1>7, <1>8, <1>9 DEF IInv

\* Every step keeps the invariant.
LEMMA InvariantStep == IInv /\ [Next]_vars => IInv'
BY TypeStep, WorkedStep, LineStep, DepartsStep, TabledStep, IdledStep, RowsTrueStep,
   QuarantinedStep, WipingStep, ErasedStep, ClosingStep DEF IInv

\* supervisor.py keeps its units, the processes, the ports, the lock, the rows
\* and the sets of the idle, the quarantined and the deleted in agreement, for
\* any servers, ports and calls.
THEOREM Invariant == Spec => []IInv
<1>1. Init => IInv  BY InitHolds
<1>2. IInv /\ [Next]_vars => IInv'  BY InvariantStep
<1>3. QED  BY <1>1, <1>2, PTL DEF Spec

\* Every variable of the supervisor, its rows, its calls and its units keeps its
\* type; a pass at work has a snapshot of the rows, and a port is one of Ports.
THEOREM TypeCorrect == Spec => []TypeOK
<1>1. IInv => TypeOK  BY DEF IInv
<1>2. QED  BY <1>1, Invariant, PTL

\* A live process is its server's unit's, on that unit's port.
LEMMA ProcessesAreUnits ==
  ASSUME IInv, NEW s \in Servers, NEW p \in Ports
  PROVE  <<s, p>> \in procs <=> Alive(Table, s) /\ Table[s].port = p
BY DEF IInv, Tabled, Sound

\* "launching a second copy beside a process that may still be alive is the one
\* outcome worth avoiding" (_stop): it never happens.
LEMMA OneAlive == IInv => OneBridgePerServer
<1> SUFFICES ASSUME IInv, NEW s \in Servers PROVE Cardinality(Running(s)) <= 1
  BY DEF OneBridgePerServer
<1>1. CASE Running(s) = {}  BY <1>1, FS_EmptySet
<1>2. CASE Running(s) # {}
  <2>1. PICK p \in Ports : p \in Running(s)  BY <1>2 DEF Running
  <2>2. \A q \in Running(s) : q = p  BY <2>1, ProcessesAreUnits DEF Running
  <2>3. Running(s) = {p}  BY <2>1, <2>2
  <2>4. Cardinality({p}) = 1  BY FS_Singleton
  <2>5. QED  BY <2>3, <2>4
<1>3. QED  BY <1>1, <1>2

\* However passes, calls, crashes and raising teardowns interleave, a server has
\* at most one live bridge.
THEOREM OneBridge == Spec => []OneBridgePerServer
<1>1. QED  BY OneAlive, Invariant, PTL

\* Of a server without a unit no process lives.
LEMMA GoneIsDown ==
  ASSUME IInv, NEW s \in Servers, Of(s) = None
  PROVE  Gone(s) /\ Running(s) = {}
<1>1. Gone(s)
  <2>1. departing # None => departing.unit # None
    BY NoneIsNothing DEF IInv, TypeOK
  <2>2. QED  BY <2>1 DEF Gone, Of
<1>2. \A p \in Ports : <<s, p>> \notin procs
  BY ProcessesAreUnits DEF Table, Alive
<1>3. QED  BY <1>1, <1>2 DEF Running

\* What the supervisor shows as down is down: an idle server, a row that says
\* "stopped" or "idle", a server whose cache is being wiped; and the units it
\* could not stop are the quarantined ones.
THEOREM Down == Spec => []DownIsDown
<1>1. IInv => DownIsDown
  <2> SUFFICES ASSUME IInv PROVE DownIsDown
    OBVIOUS
  <2>1. IdleIsDown
    BY GoneIsDown DEF IInv, TypeOK, Idled, IdleIsDown
  <2>2. DownRowsAreTrue  BY GoneIsDown DEF IInv, RowsTrue, DownRowsAreTrue
  <2>3. StuckIsQuarantined
    <3>1. \A s \in Servers : Gone(s) => Of(s) = None  BY DEF Gone, Of
    <3>2. QED  BY <3>1 DEF IInv, Quarantined, StuckIsQuarantined
  <2>4. WipedWhileDown
    <3>1. \A o \in Operators : op[o].at = "wiping" => op[o].srv \in Servers /\ Of(op[o].srv) = None
      BY DEF IInv, CallsTyped, Wiping
    <3>2. QED  BY <3>1, GoneIsDown DEF WipedWhileDown
  <2>5. QED  BY <2>1, <2>2, <2>3, <2>4 DEF DownIsDown
<1>2. QED  BY <1>1, Invariant, PTL

\* No pass, whatever it remembers of the rows, brings a deleted server back.
THEOREM Deleted == Spec => []ErasedStaysDown
<1>1. IInv => ErasedStaysDown  BY DEF IInv, Erased, ErasedStaysDown
<1>2. QED  BY <1>1, Invariant, PTL

\* A server has one bridge, the ports handed out are those the units hold, each has one holder, no more
\* bridges live than max_running, and a shutdown that completed left nothing.
THEOREM Pools == Spec => []PoolsHold
<1>1. IInv => PoolsHold
  <2> SUFFICES ASSUME IInv PROVE PoolsHold
    OBVIOUS
  <2>0. TypeOK /\ Tabled /\ Departs /\ Table \in Tables
    BY TableTyped DEF IInv, TypeOK, ObservedTypes
  <2>a. Sound(Table, procs, used)  BY <2>0 DEF Tabled
  <2>1. Cardinality(procs) <= MaxRunning
    BY <2>0, <2>a, SoundCounts DEF TypeOK
  <2>2. Holders = {<<s, Table[s].port>> : s \in {t \in Servers : HasPort(Table, t)}}
    <3>1. departing # None => /\ departing.srv \in Servers /\ departing.unit # None
                              /\ units[departing.srv] = None
      BY <2>0, NoneIsNothing DEF TypeOK, Departs
    <3>2. \A s \in Servers : Table[s] = Of(s)  BY DEF Table
    <3>3. QED  BY <3>1, <3>2 DEF Holders, HasPort, Of
  <2>3. PortsHaveOneHolder
    <3>1. \A h : h \in Holders <=> \E s \in Servers : HasPort(Table, s) /\ h = <<s, Table[s].port>>
      BY <2>2
    <3>2. used = {h[2] : h \in Holders}
      <4>1. \A s \in Servers : HasPort(Table, s) => Table[s].port \in Ports
        BY <2>0 DEF Tables, HasPort, Units
      <4>2. used \subseteq Ports  BY <2>0 DEF TypeOK
      <4>3. ASSUME NEW p \in used PROVE \E h \in Holders : h[2] = p
        <5>1. PICK s \in Servers : HasPort(Table, s) /\ Table[s].port = p
          BY <2>a, <4>2 DEF Sound
        <5>2. <<s, p>> \in Holders /\ <<s, p>>[2] = p  BY <3>1, <5>1
        <5>3. QED  BY <5>2
      <4>4. ASSUME NEW h \in Holders PROVE h[2] \in used
        <5>1. PICK s \in Servers : HasPort(Table, s) /\ h = <<s, Table[s].port>>  BY <3>1
        <5>2. h[2] = Table[s].port /\ Table[s].port \in Ports  BY <4>1, <5>1
        <5>3. QED  BY <2>a, <5>1, <5>2 DEF Sound
      <4>5. QED  BY <4>3, <4>4
    <3>3. \A g, h \in Holders : g[2] = h[2] => g = h
      BY <2>a, <3>1 DEF Sound
    <3>4. procs \subseteq Holders
      <4>1. ASSUME NEW s \in Servers, NEW p \in Ports, <<s, p>> \in procs
            PROVE  <<s, p>> \in Holders
        BY <2>a, <3>1, <4>1 DEF Sound, Alive, HasPort
      <4>2. QED  BY <2>0, <4>1 DEF TypeOK
    <3>5. QED  BY <3>2, <3>3, <3>4 DEF PortsHaveOneHolder
  <2>4. DownIsEmpty
    <3> SUFFICES ASSUME down = "down"
                 PROVE  procs = {} /\ used = {} /\ \A s \in Servers : Gone(s)
      BY DEF DownIsEmpty
    <3>1. pass.at = "asleep" /\ (\A o \in Operators : op[o].at = "idle")
          /\ \A s \in Servers : units[s] = None
      BY DEF IInv, Closing
    <3>2. departing = None
      <4>1. Stoppers = {}  BY <3>1 DEF Stoppers, PassStops
      <4>2. QED  BY <2>0, <4>1 DEF Departs
    <3>3. \A s \in Servers : Of(s) = None  BY <3>1, <3>2 DEF Of
    <3>4. \A s \in Servers : ~HasPort(Table, s)  BY <3>3 DEF HasPort, Table
    <3>5. Holders = {}  BY <2>2, <3>4
    <3>6. QED  BY <2>3, <3>3, <3>5, GoneIsDown DEF PortsHaveOneHolder
  <2>b. OneBridgePerServer  BY OneAlive
  <2>5. QED  BY <2>0, <2>1, <2>3, <2>4, <2>b DEF PoolsHold, WithinMaxRunning
<1>2. QED  BY <1>1, Invariant, PTL
=============================================================================
