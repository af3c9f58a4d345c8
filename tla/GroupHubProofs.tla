--------------------------- MODULE GroupHubProofs ---------------------------
(***************************************************************************)
(* Proofs about GroupHub, for any servers, slugs, providers and requests   *)
(* and any number of instances and changes.  What the hub and the          *)
(* supervisor count of requests is the number of requests of some set; the *)
(* first part is about such numbers.                                       *)
(***************************************************************************)
EXTENDS GroupHub, FiniteSetTheorems, TLAPS

Running(g) == {r \in Requests : at[r] \in Open /\ on[r] = g}
Holders(s) == {r \in Requests : s \in leased[r]}

\* _Counting counts the requests open on an instance.
Counted == \A g \in Gens : active[g] = Cardinality(Running(g))

\* The supervisor counts the requests that hold a member.
Leased == \A s \in Servers : inflight[s] = Cardinality(Holders(s))

\* Where a request can be, and what it holds there.
Placed ==
    \A r \in Requests :
        /\ at[r] \in Open \cup {"parked"} => on[r] \in Gens
        /\ at[r] \notin Open \cup {"parked"} => leased[r] = {}
        /\ at[r] = "parked" => on[r] = current

\* What is routed to is live, and nothing is while one is built or a row written.
Routed ==
    /\ current # 0 => inst[current] = "live"
    /\ hub \in {"building", "writing"} => current = 0
    /\ hub = "building" => \E g \in Gens : inst[g] = "none"

\* What is mounted, or will be, fits the settings; they change under the lock.
Fits(S) == \A s \in S : Effective(s) \in {"none", default}
Mounted ==
    /\ current # 0 => Fits(mount[current])
    /\ hub = "building" => Fits(plan)

IInv == TypeOK /\ Counted /\ Leased /\ Placed /\ Routed /\ Mounted /\ DrainedNeverCuts

-----------------------------------------------------------------------------
(* Numbers of requests.                                                    *)

\* Two sets that differ in one element at most.
LEMMA OneDiffers ==
  ASSUME NEW A, IsFiniteSet(A), NEW B, NEW r, \A q : q # r => (q \in A <=> q \in B)
  PROVE  /\ Cardinality(A) \in Nat /\ Cardinality(B) \in Nat
         /\ (r \in A <=> r \in B) => Cardinality(B) = Cardinality(A)
         /\ r \in B /\ r \notin A => Cardinality(B) = Cardinality(A) + 1
         /\ r \in A /\ r \notin B => Cardinality(A) > 0 /\ Cardinality(B) = Cardinality(A) - 1
<1>1. Cardinality(A) \in Nat  BY FS_CardinalityType
<1>2. CASE r \in A <=> r \in B
  <2>1. A = B  BY <1>2
  <2>2. QED  BY <1>1, <1>2, <2>1
<1>3. CASE r \in B /\ r \notin A
  <2>1. B = A \cup {r}  BY <1>3
  <2>2. QED  BY <1>1, <1>3, <2>1, FS_AddElement
<1>4. CASE r \in A /\ r \notin B
  <2>1. B = A \ {r}  BY <1>4
  <2>2. IsFiniteSet(B) /\ Cardinality(B) = Cardinality(A) - 1  BY <1>4, <2>1, FS_RemoveElement
  <2>3. Cardinality(B) \in Nat  BY <2>2, FS_CardinalityType
  <2>4. QED  BY <1>1, <1>4, <2>2, <2>3
<1>5. QED  BY <1>2, <1>3, <1>4

LEMMA RequestsFinite ==
  ASSUME NEW S \in SUBSET Requests
  PROVE  IsFiniteSet(S) /\ Cardinality(S) \in Nat
BY HubAssumptions, FS_Subset, FS_CardinalityType

\* A request comes, leaves or goes on: the count of its instance follows.
LEMMA CountFollows ==
  ASSUME TypeOK, Counted, NEW r \in Requests, NEW g \in Gens,
         \A q \in Requests \ {r} : at'[q] = at[q] /\ on'[q] = on[q]
  PROVE  /\ (r \in Running(g) <=> r \in Running(g)') => Cardinality(Running(g)') = active[g]
         /\ r \in Running(g)' /\ r \notin Running(g) => Cardinality(Running(g)') = active[g] + 1
         /\ r \in Running(g) /\ r \notin Running(g)' =>
                active[g] > 0 /\ Cardinality(Running(g)') = active[g] - 1
<1>1. IsFiniteSet(Running(g))  BY RequestsFinite DEF Running
<1>2. \A q : q # r => (q \in Running(g) <=> q \in Running(g)')  BY DEF Running
<1>3. active[g] = Cardinality(Running(g))  BY DEF Counted
<1>4. QED  BY <1>1, <1>2, <1>3, OneDiffers

\* The same of what it holds: the counts rise where it takes, and fall where
\* it lets go.
LEMMA LeasesFollow ==
  ASSUME TypeOK, Leased, NEW r \in Requests, NEW S \in SUBSET Servers,
         leased' = [leased EXCEPT ![r] = S],
         \/ inflight' = Started(Finished(inflight, leased[r]), S)
         \/ inflight' = Finished(inflight, leased[r]) /\ S = {}
         \/ inflight' = Started(inflight, S) /\ leased[r] = {}
         \/ inflight' = inflight /\ S = leased[r]
  PROVE  inflight' \in [Servers -> Nat] /\ Leased' /\ leased' \in [Requests -> SUBSET Servers]
<1>1. leased' \in [Requests -> SUBSET Servers]  BY DEF TypeOK
<1>2. leased'[r] = S /\ \A q \in Requests \ {r} : leased'[q] = leased[q]  BY DEF TypeOK
<1>3. ASSUME NEW s \in Servers
      PROVE  inflight'[s] = Cardinality(Holders(s)') /\ Cardinality(Holders(s)') \in Nat
  <2>1. IsFiniteSet(Holders(s))  BY RequestsFinite DEF Holders
  <2>2. \A q : q # r => (q \in Holders(s) <=> q \in Holders(s)')  BY <1>2 DEF Holders
  <2>3. inflight[s] = Cardinality(Holders(s)) /\ inflight[s] \in Nat  BY DEF Leased, TypeOK
  <2>4. r \in Holders(s) <=> s \in leased[r]  BY DEF Holders
  <2>5. r \in Holders(s)' <=> s \in S  BY <1>2 DEF Holders
  <2>6. inflight'[s] =
          IF s \in leased[r] THEN IF s \in S THEN inflight[s] ELSE inflight[s] - 1
          ELSE IF s \in S THEN inflight[s] + 1 ELSE inflight[s]
    BY <2>3 DEF Started, Finished
  <2>7. /\ Cardinality(Holders(s)') \in Nat
        /\ (s \in leased[r] <=> s \in S) => Cardinality(Holders(s)') = inflight[s]
        /\ s \in S /\ s \notin leased[r] => Cardinality(Holders(s)') = inflight[s] + 1
        /\ s \in leased[r] /\ s \notin S => Cardinality(Holders(s)') = inflight[s] - 1
    BY <2>1, <2>2, <2>3, <2>4, <2>5, OneDiffers
  <2>8. QED  BY <2>6, <2>7
<1>4. DOMAIN inflight' = Servers /\ inflight' = [s \in Servers |-> inflight'[s]]
  BY DEF Started, Finished, TypeOK
<1>5. QED  BY <1>1, <1>3, <1>4 DEF Leased

\* Turns that end let their members go.
LEMMA TurnsLetGo ==
  ASSUME TypeOK, Leased, NEW R \in SUBSET Requests, TurnsEnd(R)
  PROVE  inflight' \in [Servers -> Nat] /\ Leased' /\ leased' \in [Requests -> SUBSET Servers]
<1>1. leased' \in [Requests -> SUBSET Servers]
      /\ \A q \in Requests : leased'[q] = IF q \in R THEN {} ELSE leased[q]
  BY DEF TypeOK, TurnsEnd
<1>2. ASSUME NEW s \in Servers
      PROVE  inflight'[s] = Cardinality(Holders(s)') /\ Cardinality(Holders(s)') \in Nat
  <2>1. IsFiniteSet(Holders(s)) /\ Cardinality(Holders(s)) \in Nat
    BY RequestsFinite DEF Holders
  <2>2. {q \in R : s \in leased[q]} = Holders(s) \cap R  BY DEF Holders
  <2>3. Holders(s)' = Holders(s) \ R  BY <1>1 DEF Holders
  <2>4. IsFiniteSet(R)  BY RequestsFinite
  <2>5. Cardinality(Holders(s) \ R) = Cardinality(Holders(s)) - Cardinality(Holders(s) \cap R)
    BY <2>1, FS_Difference
  <2>6. Cardinality(Holders(s)') \in Nat  BY <2>1, <2>3, FS_Difference, FS_CardinalityType
  <2>7. inflight'[s] = inflight[s] - Cardinality(Holders(s) \cap R)
    BY <2>2 DEF TurnsEnd, Holding
  <2>8. QED  BY <2>3, <2>5, <2>6, <2>7 DEF Leased
<1>3. inflight' = [s \in Servers |-> inflight'[s]]  BY DEF TurnsEnd
<1>4. QED  BY <1>1, <1>2, <1>3 DEF Leased

\* Parked turns are not counted on their instance.
LEMMA ParkedUncounted ==
  ASSUME TypeOK, Counted, NEW R \in SUBSET Requests, \A r \in R : at[r] = "parked",
         TurnsEnd(R), active' = active
  PROVE  /\ Counted'
         /\ at' \in [Requests -> {"new", "reading", "calling", "parked", "over"}]
         /\ run' \in [Requests -> {"none", "going", "asking", "done"}]
         /\ reached' \in [Requests -> SUBSET Servers]
         /\ \A r \in Requests : at'[r] = IF r \in R THEN "over" ELSE at[r]
<1>1. /\ at' \in [Requests -> {"new", "reading", "calling", "parked", "over"}]
      /\ run' \in [Requests -> {"none", "going", "asking", "done"}]
      /\ reached' \in [Requests -> SUBSET Servers]
      /\ \A r \in Requests : at'[r] = IF r \in R THEN "over" ELSE at[r]
      /\ on' = on
  BY DEF TurnsEnd, TypeOK
<1>2. \A g \in Gens : Running(g)' = Running(g)  BY <1>1 DEF Running, Open
<1>3. QED  BY <1>1, <1>2 DEF Counted

-----------------------------------------------------------------------------
LEMMA InitHolds == Init => IInv
<1> SUFFICES ASSUME Init PROVE IInv
  OBVIOUS
<1>1. \A g \in Gens : Running(g) = {}  BY DEF Init, Running, Open
<1>2. \A s \in Servers : Holders(s) = {}  BY DEF Init, Holders
<1>3. TypeOK  BY HubAssumptions DEF Init, TypeOK, Gens
<1>4. Counted /\ Leased  BY <1>1, <1>2, FS_EmptySet DEF Counted, Leased, Init
<1>5. Placed /\ Routed /\ Mounted /\ DrainedNeverCuts
  BY DEF Init, Placed, Routed, Mounted, DrainedNeverCuts, Open
<1>6. QED  BY <1>3, <1>4, <1>5 DEF IInv

\* A hub that gives its instance up: the parked turns end with it.
LEMMA TeardownKeeps ==
  ASSUME IInv, Teardown, active' = active, UNCHANGED config,
         hub' \in {"free", "writing"}, plan' \subseteq Servers,
         onBehalf' \in Requests \cup {NoRequest}, changes' \in 0 .. MaxChanges
  PROVE  IInv'
<1> DEFINE R == IF current = 0 THEN {} ELSE Parked(current)
<1>1. R \in SUBSET Requests /\ \A r \in R : at[r] = "parked"  BY DEF Parked
<1>2. TurnsEnd(R) /\ current' = 0 /\ UNCHANGED <<mount, on>>
  BY DEF Teardown, TurnsEnd
<1> HIDE DEF R
<1>3. Leased' /\ inflight' \in [Servers -> Nat] /\ leased' \in [Requests -> SUBSET Servers]
  BY <1>1, <1>2, TurnsLetGo DEF IInv
<1>4. /\ Counted'
      /\ at' \in [Requests -> {"new", "reading", "calling", "parked", "over"}]
      /\ run' \in [Requests -> {"none", "going", "asking", "done"}]
      /\ reached' \in [Requests -> SUBSET Servers]
      /\ \A r \in Requests : at'[r] = IF r \in R THEN "over" ELSE at[r]
  BY <1>1, <1>2, ParkedUncounted DEF IInv
<1>5. /\ inst' \in [Gens -> {"none", "live", "retiring", "closed", "cut"}]
      /\ \A g \in Gens : inst'[g] = "closed" => inst[g] = "closed"
  BY DEF Teardown, IInv, TypeOK
<1>6. TypeOK'
  BY <1>2, <1>3, <1>4, <1>5, HubAssumptions DEF IInv, TypeOK, config
<1>7. Placed'
  <2>1. \A r \in Requests : leased'[r] = IF r \in R THEN {} ELSE leased[r]
    BY <1>2 DEF TurnsEnd
  <2>2. \A r \in Requests : at[r] = "parked" => r \in R
    BY DEF IInv, Placed, R, Parked, Gens, Open
  <2>3. QED  BY <1>2, <1>4, <2>1, <2>2 DEF IInv, Placed, Open
<1>8. DrainedNeverCuts'
  BY <1>2, <1>4, <1>5 DEF IInv, DrainedNeverCuts, Placed, Open
<1>9. Routed' /\ Mounted'  BY <1>2 DEF Routed, Mounted
<1>10. QED  BY <1>3, <1>4, <1>6, <1>7, <1>8, <1>9 DEF IInv

\* Steps of the hub under which every request stays where it is.
LEMMA RequestsAside ==
  ASSUME IInv, UNCHANGED <<active, request, inflight>>, TypeOK', Routed', Mounted',
         \A r \in Requests : at[r] = "parked" => on[r] = current',
         \A g \in Gens : inst'[g] = "closed" => inst[g] = "closed" \/ active[g] = 0
  PROVE  IInv'
<1>1. UNCHANGED <<at, on, leased, reached, run>>  BY DEF request
<1>2. (\A g \in Gens : Running(g)' = Running(g)) /\ (\A s \in Servers : Holders(s)' = Holders(s))
  BY <1>1 DEF Running, Holders
<1>3. Counted' /\ Leased'  BY <1>2 DEF IInv, Counted, Leased
<1>4. Placed'  BY <1>1 DEF IInv, Placed
<1>5. DrainedNeverCuts'
  <2> SUFFICES ASSUME NEW r \in Requests, at[r] \in Open PROVE inst'[on[r]] # "closed"
    BY <1>1 DEF DrainedNeverCuts
  <2>1. on[r] \in Gens /\ inst[on[r]] # "closed"  BY DEF IInv, Placed, DrainedNeverCuts
  <2>2. r \in Running(on[r])  BY DEF Running
  <2>3. active[on[r]] # 0
    <3>1. IsFiniteSet(Running(on[r]))  BY RequestsFinite DEF Running
    <3>2. Cardinality(Running(on[r])) # 0  BY <2>2, <3>1, FS_EmptySet
    <3>3. QED  BY <2>1, <3>2 DEF IInv, Counted
  <2>4. QED  BY <2>1, <2>3
<1>6. QED  BY <1>3, <1>4, <1>5 DEF IInv

LEMMA HubKeeps == ASSUME IInv, HubStep PROVE IInv'
<1>1. CASE SyncRemoves
  BY <1>1, TeardownKeeps DEF SyncRemoves, lock, IInv, TypeOK
<1>2. CASE SyncSwaps
  <2> DEFINE R == {r \in Parked(current) : ~ (reached[r] \subseteq Eligible)}
  <2>1. R \in SUBSET Requests /\ \A r \in R : at[r] = "parked"  BY DEF Parked
  <2>2. /\ TurnsEnd(R) /\ UNCHANGED <<config, inst, current, active, changes, on>>
        /\ current # 0 /\ hub' = "announcing" /\ plan' = {} /\ onBehalf' = NoRequest
    BY <1>2 DEF SyncSwaps, TurnsEnd
  <2> HIDE DEF R
  <2>3. Leased' /\ inflight' \in [Servers -> Nat] /\ leased' \in [Requests -> SUBSET Servers]
    BY <2>1, <2>2, TurnsLetGo DEF IInv
  <2>4. /\ Counted'
        /\ at' \in [Requests -> {"new", "reading", "calling", "parked", "over"}]
        /\ run' \in [Requests -> {"none", "going", "asking", "done"}]
        /\ reached' \in [Requests -> SUBSET Servers]
        /\ \A r \in Requests : at'[r] = IF r \in R THEN "over" ELSE at[r]
    BY <2>1, <2>2, ParkedUncounted DEF IInv
  <2>5. current \in Gens /\ Eligible \subseteq Servers
    BY <2>2, HubAssumptions DEF IInv, TypeOK, Gens, Eligible
  <2>6. mount' \in [Gens -> SUBSET Servers] /\ mount'[current] = Eligible
    BY <1>2, <2>5 DEF SyncSwaps, IInv, TypeOK
  <2>7. TypeOK'  BY <2>2, <2>3, <2>4, <2>6 DEF IInv, TypeOK, config
  <2>8. Placed'
    <3>1. \A r \in Requests : leased'[r] = IF r \in R THEN {} ELSE leased[r]
      BY <2>2 DEF TurnsEnd
    <3>2. QED  BY <2>2, <2>4, <3>1 DEF IInv, Placed, Open
  <2>9. DrainedNeverCuts'  BY <2>2, <2>4 DEF IInv, DrainedNeverCuts, Open
  <2>10. Routed' /\ Mounted'
    BY <2>2, <2>6 DEF IInv, Routed, Mounted, Fits, Eligible, Effective, config
  <2>11. QED  BY <2>3, <2>4, <2>7, <2>8, <2>9, <2>10 DEF IInv
<1>3. CASE SyncBuilds
  <2>1. /\ UNCHANGED <<known, members, auth, default, running, inst, current, mount, active,
                       request, inflight, changes>>
        /\ hub' = "building" /\ plan' = Eligible /\ onBehalf' = NoRequest /\ current = 0
        /\ \E g \in Gens : inst[g] = "none"
    BY <1>3 DEF SyncBuilds, config, instances
  <2>2. TypeOK'  BY <2>1 DEF IInv, TypeOK, request, Eligible
  <2>3. Routed' /\ Mounted'  BY <2>1 DEF IInv, Routed, Mounted, Fits, Eligible, Effective
  <2>4. QED  BY <2>1, <2>2, <2>3, RequestsAside DEF IInv, Placed
<1>4. CASE Built
  <2> DEFINE g == CHOOSE n \in Gens : inst[n] = "none"
  <2>1. g \in Gens /\ inst[g] = "none"  BY <1>4 DEF Built, IInv, Routed
  <2>2. /\ hub = "building" /\ hub' = "free" /\ inst' = [inst EXCEPT ![g] = "live"] /\ current' = g
        /\ mount' = [mount EXCEPT ![g] = plan] /\ plan' = {}
        /\ UNCHANGED <<known, members, auth, default, running, onBehalf, active, request,
                       inflight, changes>>
    BY <1>4 DEF Built, config
  <2> HIDE DEF g
  <2>3. TypeOK'  BY <2>1, <2>2, HubAssumptions DEF IInv, TypeOK, request, Gens
  <2>4. \A r \in Requests : at[r] # "parked"
    BY <2>2, HubAssumptions DEF IInv, Placed, Routed, Gens
  <2>5. inst'[g] = "live" /\ mount'[g] = plan /\ \A n \in Gens \ {g} : inst'[n] = inst[n]
    BY <2>1, <2>2 DEF IInv, TypeOK
  <2>6. Routed' /\ Mounted'
    BY <2>2, <2>5 DEF IInv, Routed, Mounted, Fits, Effective
  <2>7. QED  BY <2>2, <2>3, <2>4, <2>5, <2>6, RequestsAside
<1>5. CASE SwapFails
  <2>1. changes' \in 0 .. MaxChanges  BY <1>5, HubAssumptions DEF SwapFails, IInv, TypeOK
  <2>2. QED  BY <1>5, <2>1, TeardownKeeps DEF SwapFails, IInv, TypeOK
<1>6. CASE Announced
  <2>1. /\ hub' = "free"
        /\ UNCHANGED <<known, members, auth, default, running, plan, onBehalf, inst, current,
                       mount, active, request, inflight, changes>>
    BY <1>6 DEF Announced, config, instances
  <2>2. TypeOK'  BY <2>1 DEF IInv, TypeOK, request
  <2>3. Routed' /\ Mounted'  BY <2>1 DEF IInv, Routed, Mounted, Fits, Effective
  <2>4. QED  BY <2>1, <2>2, <2>3, RequestsAside DEF IInv, Placed
<1>7. ASSUME NEW g \in Gens, Drained(g) \/ DrainExpires(g) PROVE IInv'
  <2>1. /\ inst[g] = "retiring"
        /\ \/ inst' = [inst EXCEPT ![g] = "closed"] /\ active[g] = 0
           \/ inst' = [inst EXCEPT ![g] = "cut"]
        /\ UNCHANGED <<known, members, auth, default, running, hub, plan, onBehalf, current,
                       mount, active, request, inflight, changes>>
    BY <1>7 DEF Drained, DrainExpires, config, lock
  <2>2. TypeOK'  BY <2>1 DEF IInv, TypeOK, request
  <2>3. \A n \in Gens \ {g} : inst'[n] = inst[n]  BY <2>1 DEF IInv, TypeOK
  <2>4. current # g /\ (current # 0 => current \in Gens)
    BY <2>1, HubAssumptions DEF IInv, Routed, TypeOK, Gens
  <2>5. Routed'  BY <2>1, <2>3, <2>4 DEF IInv, Routed
  <2>6. Mounted'  BY <2>1 DEF IInv, Mounted, Fits, Effective
  <2>7. \A n \in Gens : inst'[n] = "closed" => inst[n] = "closed" \/ active[n] = 0
    BY <2>1, <2>3 DEF IInv, TypeOK
  <2>8. \A r \in Requests : at[r] = "parked" => on[r] = current'  BY <2>1 DEF IInv, Placed
  <2>9. QED  BY <2>1, <2>2, <2>5, <2>6, <2>7, <2>8, RequestsAside
<1>8. CASE CloseAll
  <2> DEFINE R == {r \in Requests : at[r] = "parked"}
  <2>1. R \in SUBSET Requests /\ \A r \in R : at[r] = "parked"  OBVIOUS
  <2>2. /\ TurnsEnd(R) /\ current' = 0 /\ changes' = changes + 1 /\ changes < MaxChanges
        /\ UNCHANGED <<known, members, auth, default, running, hub, plan, onBehalf, mount,
                       active, on>>
        /\ hub = "free"
    BY <1>8 DEF CloseAll, TurnsEnd, config, lock
  <2> HIDE DEF R
  <2>3. Leased' /\ inflight' \in [Servers -> Nat] /\ leased' \in [Requests -> SUBSET Servers]
    BY <2>1, <2>2, TurnsLetGo DEF IInv
  <2>4. /\ Counted'
        /\ at' \in [Requests -> {"new", "reading", "calling", "parked", "over"}]
        /\ run' \in [Requests -> {"none", "going", "asking", "done"}]
        /\ reached' \in [Requests -> SUBSET Servers]
        /\ \A r \in Requests : at'[r] = IF r \in R THEN "over" ELSE at[r]
    BY <2>1, <2>2, ParkedUncounted DEF IInv
  <2>5. /\ inst' \in [Gens -> {"none", "live", "retiring", "closed", "cut"}]
        /\ \A g \in Gens : inst'[g] = "closed" => inst[g] = "closed"
    BY <1>8 DEF CloseAll, IInv, TypeOK
  <2>6. TypeOK'  BY <2>2, <2>3, <2>4, <2>5, HubAssumptions DEF IInv, TypeOK
  <2>7. Placed'
    <3>1. \A r \in Requests : leased'[r] = IF r \in R THEN {} ELSE leased[r]
      BY <2>2 DEF TurnsEnd
    <3>2. \A r \in Requests : at[r] = "parked" => r \in R  BY DEF R
    <3>3. QED  BY <2>2, <2>4, <3>1, <3>2 DEF IInv, Placed, Open
  <2>8. DrainedNeverCuts'
    BY <2>2, <2>4, <2>5 DEF IInv, DrainedNeverCuts, Placed, Open
  <2>9. Routed' /\ Mounted'  BY <2>2 DEF Routed, Mounted
  <2>10. QED  BY <2>3, <2>4, <2>6, <2>7, <2>8, <2>9 DEF IInv
<1>9. ASSUME NEW r \in Requests \cup {NoRequest}, Transition(r) PROVE IInv'
  <2>1. changes' \in 0 .. MaxChanges  BY <1>9, HubAssumptions DEF Transition, IInv, TypeOK
  <2>2. QED  BY <1>9, <2>1, TeardownKeeps DEF Transition, IInv, TypeOK
<1>10. CASE Written
  <2>1. /\ UNCHANGED <<known, members, running, plan, inst, current, mount, active, request,
                       inflight, changes>>
        /\ hub' = "free" /\ onBehalf' = NoRequest /\ hub = "writing"
    BY <1>10 DEF Written, instances
  <2>2. auth' \in [Servers -> Providers \cup {"none", "inherit"}]
        /\ default' \in Providers \cup {"none"}
    BY <1>10 DEF Written, IInv, TypeOK
  <2>3. TypeOK'  BY <2>1, <2>2 DEF IInv, TypeOK, request
  <2>4. Routed' /\ Mounted'  BY <2>1 DEF IInv, Routed, Mounted
  <2>5. QED  BY <2>1, <2>3, <2>4, RequestsAside DEF IInv, Placed
<1>11. QED
  BY <1>1, <1>2, <1>3, <1>4, <1>5, <1>6, <1>7, <1>8, <1>9, <1>10 DEF HubStep

\* Rows and processes change what is eligible, not what may be mounted.
LEMMA ChangesKeep == ASSUME IInv, Changes PROVE IInv'
<1>1. UNCHANGED <<auth, default, hub, plan, onBehalf, inst, current, mount, active, request,
                  inflight>>
  BY DEF Changes, lock, instances
<1>2. known' \in BOOLEAN /\ members' \subseteq Servers /\ running' \subseteq Servers
  BY DEF Changes, IInv, TypeOK
<1>3. changes' \in 0 .. MaxChanges  BY HubAssumptions DEF Changes, IInv, TypeOK
<1>4. TypeOK'  BY <1>1, <1>2, <1>3 DEF IInv, TypeOK, request
<1>5. Routed' /\ Mounted'  BY <1>1 DEF IInv, Routed, Mounted, Fits, Effective
<1>6. QED  BY <1>1, <1>4, <1>5, RequestsAside DEF IInv, Placed

\* One request moves to p and holds S there; the counts follow.
Moves(r, p, S) ==
    /\ UNCHANGED <<config, lock, instances, changes>>
    /\ at' = [at EXCEPT ![r] = p]
    /\ \/ on' = on
       \/ on' = [on EXCEPT ![r] = current] /\ at[r] = "new"
    /\ p \in Open \cup {"parked"} => on'[r] \in Gens
    /\ p \notin Open \cup {"parked"} => S = {}
    /\ p = "parked" => on'[r] = current
    /\ p \in Open => inst[on'[r]] # "closed"
    /\ active' \in [Gens -> Int]
    /\ \A g \in Gens : active'[g] = active[g] + (IF p \in Open /\ on'[r] = g THEN 1 ELSE 0)
                                             - (IF at[r] \in Open /\ on[r] = g THEN 1 ELSE 0)
    /\ leased' = [leased EXCEPT ![r] = S]
    /\ \/ inflight' = Started(Finished(inflight, leased[r]), S)
       \/ inflight' = Finished(inflight, leased[r]) /\ S = {}
       \/ inflight' = Started(inflight, S) /\ leased[r] = {}
       \/ inflight' = inflight /\ S = leased[r]
    /\ reached' \in [Requests -> SUBSET Servers]
    /\ run' \in [Requests -> {"none", "going", "asking", "done"}]

LEMMA RequestMoves ==
  ASSUME IInv, NEW r \in Requests, NEW S \in SUBSET Servers,
         NEW p \in {"new", "reading", "calling", "parked", "over"}, Moves(r, p, S)
  PROVE  IInv'
<1> USE DEF Moves
<1>1. Leased' /\ inflight' \in [Servers -> Nat] /\ leased' \in [Requests -> SUBSET Servers]
  BY LeasesFollow DEF IInv
<1>2. /\ at'[r] = p /\ on' \in [Requests -> 0 .. MaxGens]
      /\ at' \in [Requests -> {"new", "reading", "calling", "parked", "over"}]
      /\ \A q \in Requests \ {r} : at'[q] = at[q] /\ on'[q] = on[q] /\ leased'[q] = leased[q]
  BY DEF IInv, TypeOK
<1>3. ASSUME NEW g \in Gens PROVE active'[g] = Cardinality(Running(g)') /\ active'[g] \in Nat
  <2>1. r \in Running(g) <=> at[r] \in Open /\ on[r] = g  BY DEF Running
  <2>2. r \in Running(g)' <=> p \in Open /\ on'[r] = g  BY <1>2 DEF Running, Open
  <2>3. active[g] \in Nat  BY DEF IInv, TypeOK
  <2>4. /\ (r \in Running(g) <=> r \in Running(g)') => Cardinality(Running(g)') = active[g]
        /\ r \in Running(g)' /\ r \notin Running(g) => Cardinality(Running(g)') = active[g] + 1
        /\ r \in Running(g) /\ r \notin Running(g)' =>
               active[g] > 0 /\ Cardinality(Running(g)') = active[g] - 1
    BY <1>2, CountFollows DEF IInv
  <2>5. QED  BY <2>1, <2>2, <2>3, <2>4
<1>4. Counted' /\ active' \in [Gens -> Nat]  BY <1>3 DEF Counted
<1>5. TypeOK'
  BY <1>1, <1>2, <1>4 DEF IInv, TypeOK, config, lock, instances
<1>6. Placed' /\ DrainedNeverCuts'
  <2>1. inst' = inst /\ current' = current  BY DEF instances
  <2>2. leased'[r] = S  BY DEF IInv, TypeOK
  <2>3. \A q \in Requests \ {r} :
            /\ at[q] \in Open \cup {"parked"} => on'[q] \in Gens
            /\ at[q] \notin Open \cup {"parked"} => leased'[q] = {}
            /\ at[q] = "parked" => on'[q] = current
            /\ at[q] \in Open => inst[on'[q]] # "closed"
    BY <1>2 DEF IInv, Placed, DrainedNeverCuts
  <2>4. Placed'  BY <1>2, <2>1, <2>2, <2>3 DEF Placed, Open
  <2>5. DrainedNeverCuts'  BY <1>2, <2>1, <2>3 DEF DrainedNeverCuts, Open
  <2>6. QED  BY <2>4, <2>5
<1>7. Routed' /\ Mounted'
  BY DEF IInv, Routed, Mounted, Fits, Effective, config, lock, instances
<1>8. QED  BY <1>1, <1>4, <1>5, <1>6, <1>7 DEF IInv

LEMMA RequestKeeps == ASSUME IInv, NEW r \in Requests, RequestStep(r) PROVE IInv'
<1>0. /\ at \in [Requests -> {"new", "reading", "calling", "parked", "over"}]
      /\ on \in [Requests -> 0 .. MaxGens] /\ leased \in [Requests -> SUBSET Servers]
      /\ reached \in [Requests -> SUBSET Servers] /\ active \in [Gens -> Nat]
      /\ run \in [Requests -> {"none", "going", "asking", "done"}]
      /\ mount \in [Gens -> SUBSET Servers] /\ current \in 0 .. MaxGens
      /\ (current # 0 => current \in Gens)
  BY HubAssumptions DEF IInv, TypeOK, Gens
<1>1. ASSUME NEW stream \in BOOLEAN, Dispatch(r, stream) PROVE IInv'
  <2> DEFINE S == IF stream THEN {} ELSE mount[current]
  <2>1. S \in SUBSET Servers /\ current \in Gens /\ leased[r] = {} /\ at[r] = "new"
    BY <1>0, <1>1 DEF Dispatch, IInv, Placed, Open
  <2>2. leased' = [leased EXCEPT ![r] = S]  BY <1>1 DEF Dispatch
  <2>3. inflight' = Started(inflight, S)
    BY <1>1 DEF Dispatch, Started, IInv, TypeOK
  <2>4. /\ UNCHANGED <<config, lock, instances, changes, reached>>
        /\ run' \in [Requests -> {"none", "going", "asking", "done"}]
        /\ at' = [at EXCEPT ![r] = "reading"] /\ on' = [on EXCEPT ![r] = current]
        /\ active' = [active EXCEPT ![current] = @ + 1]
    BY <1>0, <1>1 DEF Dispatch, Holds
  <2>5. inst[current] # "closed"  BY <1>1 DEF Dispatch, IInv, Routed
  <2>6. on'[r] = current  BY <1>0, <2>4
  <2>7. active' \in [Gens -> Int] /\
        \A g \in Gens : active'[g] = active[g] + (IF "reading" \in Open /\ on'[r] = g THEN 1 ELSE 0)
                                               - (IF at[r] \in Open /\ on[r] = g THEN 1 ELSE 0)
    BY <1>0, <2>1, <2>4, <2>6 DEF Open
  <2> HIDE DEF S
  <2>8. Moves(r, "reading", S)
    BY <1>0, <2>1, <2>2, <2>3, <2>4, <2>5, <2>6, <2>7 DEF Moves, Open
  <2>9. QED  BY <2>1, <2>8, RequestMoves
<1>2. ASSUME Delegate(r) \/ MemberAsks(r) \/ Refused(r) PROVE IInv'
  <2>1. /\ UNCHANGED <<config, lock, instances, changes, on, active, leased, inflight>>
        /\ at[r] \in Open /\ at' = [at EXCEPT ![r] = "calling"]
    BY <1>0, <1>2 DEF Delegate, MemberAsks, Refused, Open
  <2>2. reached' \in [Requests -> SUBSET Servers]
        /\ run' \in [Requests -> {"none", "going", "asking", "done"}]
    <3>1. CASE Delegate(r)
      <4>1. on[r] \in Gens  BY <3>1 DEF Delegate, IInv, Placed, Open
      <4>2. PICK S \in SUBSET mount[on[r]] : reached' = [reached EXCEPT ![r] = S]
        BY <3>1 DEF Delegate
      <4>3. S \in SUBSET Servers  BY <1>0, <4>1
      <4>4. run' \in [Requests -> {"none", "going", "asking", "done"}]
        BY <1>0, <3>1 DEF Delegate
      <4>5. QED  BY <1>0, <4>2, <4>3, <4>4
    <3>2. CASE MemberAsks(r) \/ Refused(r)  BY <1>0, <3>2 DEF MemberAsks, Refused
    <3>3. QED  BY <1>2, <3>1, <3>2
  <2>3. on[r] \in Gens /\ inst[on[r]] # "closed"
    BY <2>1 DEF IInv, Placed, DrainedNeverCuts
  <2>4. active' \in [Gens -> Int] /\
        \A g \in Gens : active'[g] = active[g] + (IF "calling" \in Open /\ on'[r] = g THEN 1 ELSE 0)
                                               - (IF at[r] \in Open /\ on[r] = g THEN 1 ELSE 0)
    BY <1>0, <2>1 DEF Open
  <2> DEFINE S == leased[r]
  <2>5. /\ S \in SUBSET Servers /\ leased' = [leased EXCEPT ![r] = S]
        /\ inflight' = inflight /\ S = leased[r]
    BY <1>0, <2>1
  <2>6. on' = on /\ on'[r] \in Gens /\ inst[on'[r]] # "closed"  BY <2>1, <2>3
  <2> HIDE DEF S
  <2>7. Moves(r, "calling", S)  BY <2>1, <2>2, <2>4, <2>5, <2>6 DEF Moves, Open
  <2>8. QED  BY <2>5, <2>7, RequestMoves
<1>3. ASSUME Answered(r) \/ CutOff(r) PROVE IInv'
  <2>1. /\ UNCHANGED <<config, lock, instances, changes, on>>
        /\ reached' = [reached EXCEPT ![r] = {}]
        /\ at[r] \in Open /\ at' = [at EXCEPT ![r] = "over"] /\ run' = [run EXCEPT ![r] = "done"]
        /\ active' = [active EXCEPT ![on[r]] = @ - 1]
        /\ inflight' = Finished(inflight, leased[r]) /\ leased' = [leased EXCEPT ![r] = {}]
    BY <1>3 DEF Answered, CutOff, Leaves, Open
  <2>2. on[r] \in Gens /\ leased'[r] = {}  BY <1>0, <2>1 DEF IInv, Placed
  <2>3. active' \in [Gens -> Int] /\
        \A g \in Gens : active'[g] = active[g] + (IF "over" \in Open /\ on'[r] = g THEN 1 ELSE 0)
                                               - (IF at[r] \in Open /\ on[r] = g THEN 1 ELSE 0)
    BY <1>0, <2>1, <2>2 DEF Open
  <2>4. run' \in [Requests -> {"none", "going", "asking", "done"}]  BY <1>0, <2>1
  <2> DEFINE S == {}
  <2>5. /\ S \in SUBSET Servers /\ leased' = [leased EXCEPT ![r] = S]
        /\ inflight' = Finished(inflight, leased[r]) /\ S = {}
    BY <2>1
  <2>6. on' = on /\ reached' \in [Requests -> SUBSET Servers]  BY <1>0, <2>1
  <2> HIDE DEF S
  <2>7. Moves(r, "over", S)  BY <2>1, <2>2, <2>3, <2>4, <2>5, <2>6 DEF Moves, Open
  <2>8. QED  BY <2>5, <2>7, RequestMoves
<1>4. ASSUME Parks(r) PROVE IInv'
  <2>1. /\ UNCHANGED <<config, lock, instances, changes, on, reached, run>>
        /\ at[r] = "calling" /\ at' = [at EXCEPT ![r] = "parked"] /\ current = on[r]
        /\ active' = [active EXCEPT ![on[r]] = @ - 1]
        /\ inflight' = Started(Finished(inflight, leased[r]), reached[r])
        /\ leased' = [leased EXCEPT ![r] = reached[r]]
    BY <1>4 DEF Parks
  <2>2. on[r] \in Gens /\ reached[r] \in SUBSET Servers
    BY <1>0, <2>1 DEF IInv, Placed, Open
  <2>3. active' \in [Gens -> Int] /\
        \A g \in Gens : active'[g] = active[g] + (IF "parked" \in Open /\ on'[r] = g THEN 1 ELSE 0)
                                               - (IF at[r] \in Open /\ on[r] = g THEN 1 ELSE 0)
    BY <1>0, <2>1, <2>2 DEF Open
  <2> DEFINE S == reached[r]
  <2>4. /\ S \in SUBSET Servers /\ leased' = [leased EXCEPT ![r] = S]
        /\ inflight' = Started(Finished(inflight, leased[r]), S)
    BY <2>1, <2>2
  <2>5. /\ on' = on /\ on'[r] \in Gens /\ on'[r] = current
        /\ reached' \in [Requests -> SUBSET Servers]
        /\ run' \in [Requests -> {"none", "going", "asking", "done"}]
    BY <1>0, <2>1, <2>2
  <2> HIDE DEF S
  <2>6. Moves(r, "parked", S)  BY <2>1, <2>3, <2>4, <2>5 DEF Moves, Open
  <2>7. QED  BY <2>4, <2>6, RequestMoves
<1>5. ASSUME NEW t \in Requests, Resumes(r, t) PROVE IInv'
  <2>1. /\ UNCHANGED <<known, members, auth, default, running, hub, plan, onBehalf, inst, current,
                       mount, active, on, changes>>
        /\ at[r] = "reading" /\ at[t] = "parked" /\ r # t
        /\ at' = [at EXCEPT ![r] = "calling", ![t] = "over"]
        /\ inflight' = Finished(inflight, leased[t]) /\ leased' = [leased EXCEPT ![t] = {}]
    BY <1>5 DEF Resumes, config, lock, instances
  <2>2. reached' \in [Requests -> SUBSET Servers]
        /\ run' \in [Requests -> {"none", "going", "asking", "done"}]
    BY <1>0, <1>5 DEF Resumes
  <2>3. Leased' /\ inflight' \in [Servers -> Nat] /\ leased' \in [Requests -> SUBSET Servers]
    <3> DEFINE S == {}
    <3>1. /\ S \in SUBSET Servers /\ leased' = [leased EXCEPT ![t] = S]
          /\ inflight' = Finished(inflight, leased[t]) /\ S = {}
      BY <2>1
    <3> HIDE DEF S
    <3>2. QED  BY <3>1, LeasesFollow DEF IInv
  <2>4. /\ at' \in [Requests -> {"new", "reading", "calling", "parked", "over"}]
        /\ at'[r] = "calling" /\ at'[t] = "over" /\ leased'[t] = {}
        /\ \A q \in Requests \ {r, t} : at'[q] = at[q]
        /\ \A q \in Requests \ {t} : leased'[q] = leased[q]
    BY <1>0, <2>1
  <2>5. \A g \in Gens : Running(g)' = Running(g)  BY <2>1, <2>4 DEF Running, Open
  <2>6. Counted'  BY <2>1, <2>5 DEF IInv, Counted
  <2>7. TypeOK'  BY <2>1, <2>2, <2>3, <2>4 DEF IInv, TypeOK
  <2>8. Placed' /\ DrainedNeverCuts'
    BY <2>1, <2>4 DEF IInv, Placed, DrainedNeverCuts, Open
  <2>9. Routed' /\ Mounted'  BY <2>1 DEF IInv, Routed, Mounted, Fits, Effective
  <2>10. QED  BY <2>3, <2>6, <2>7, <2>8, <2>9 DEF IInv
<1>6. ASSUME at[r] = "parked", TurnsEnd({r}), UNCHANGED <<config, lock, instances, active, changes>>
      PROVE  IInv'
  <2>1. {r} \in SUBSET Requests /\ \A q \in {r} : at[q] = "parked"  BY <1>6
  <2>2. UNCHANGED on  BY <1>6 DEF TurnsEnd
  <2>3. Leased' /\ inflight' \in [Servers -> Nat] /\ leased' \in [Requests -> SUBSET Servers]
    BY <1>6, <2>1, TurnsLetGo DEF IInv
  <2>4. /\ Counted'
        /\ at' \in [Requests -> {"new", "reading", "calling", "parked", "over"}]
        /\ run' \in [Requests -> {"none", "going", "asking", "done"}]
        /\ reached' \in [Requests -> SUBSET Servers]
        /\ \A q \in Requests : at'[q] = IF q \in {r} THEN "over" ELSE at[q]
    BY <1>6, <2>1, ParkedUncounted DEF IInv
  <2>5. TypeOK'
    BY <1>6, <2>2, <2>3, <2>4 DEF IInv, TypeOK, config, lock, instances
  <2>6. Placed'
    <3>1. \A q \in Requests : leased'[q] = IF q \in {r} THEN {} ELSE leased[q]
      BY <1>6 DEF TurnsEnd
    <3>2. QED  BY <1>6, <2>2, <2>4, <3>1 DEF IInv, Placed, Open, instances
  <2>7. DrainedNeverCuts'
    BY <1>6, <2>2, <2>4 DEF IInv, DrainedNeverCuts, Open, instances
  <2>8. Routed' /\ Mounted'
    BY <1>6 DEF IInv, Routed, Mounted, Fits, Effective, config, lock, instances
  <2>9. QED  BY <2>3, <2>4, <2>5, <2>6, <2>7, <2>8 DEF IInv
<1>7. CASE Expires(r)  BY <1>6, <1>7 DEF Expires
<1>8. QED  BY <1>1, <1>2, <1>3, <1>4, <1>5, <1>7 DEF RequestStep

LEMMA InvariantStep == IInv /\ [Next]_vars => IInv'
<1> SUFFICES ASSUME IInv, [Next]_vars PROVE IInv'
  OBVIOUS
<1>1. CASE HubStep  BY <1>1, HubKeeps
<1>2. CASE Changes  BY <1>2, ChangesKeep
<1>3. ASSUME NEW r \in Requests, RequestStep(r) PROVE IInv'  BY <1>3, RequestKeeps
<1>4. CASE UNCHANGED vars
  <2>1. UNCHANGED <<known, members, auth, default, running, hub, plan, onBehalf, inst, current,
                    mount, active, request, inflight, changes>>
    BY <1>4 DEF vars, config, lock, instances
  <2>2. TypeOK'  BY <2>1 DEF IInv, TypeOK, request
  <2>3. Routed' /\ Mounted'  BY <2>1 DEF IInv, Routed, Mounted, Fits, Effective
  <2>4. QED  BY <2>1, <2>2, <2>3, RequestsAside DEF IInv, Placed
<1>5. QED  BY <1>1, <1>2, <1>3, <1>4 DEF Next

\* The hub, its instances, the requests on them and the supervisor's counts
\* stay in agreement, whatever syncs, writes, drains and retries interleave.
THEOREM Invariant == Spec => []IInv
<1>1. Init => IInv  BY InitHolds
<1>2. IInv /\ [Next]_vars => IInv'  BY InvariantStep
<1>3. QED  BY <1>1, <1>2, PTL DEF Spec

\* No settings write leaves a bundle serving a member of another provider
\* (sync, auth_transition).
THEOREM Compatible == Spec => []CompatibleMounted
<1>1. IInv => CompatibleMounted  BY DEF IInv, Mounted, Fits, CompatibleMounted
<1>2. QED  BY <1>1, Invariant, PTL

\* The in-flight counts are what requests and parked turns hold, and no turn
\* is parked where no retry looks (_hold, _unpark, _teardown).
THEOREM Accounted == Spec => []TurnsAccounted
<1>1. IInv => TurnsAccounted
  <2> SUFFICES ASSUME IInv PROVE TurnsAccounted
    OBVIOUS
  <2>1. LeasesBalance  BY DEF IInv, Leased, Holders, LeasesBalance, Holding
  <2>2. NothingStranded  BY DEF IInv, Placed, NothingStranded
  <2>3. QED  BY <2>1, <2>2 DEF IInv, TurnsAccounted
<1>2. QED  BY <1>1, Invariant, PTL

\* An instance closed by its drain has nobody on it (_Counting, _retire).
THEOREM Drains == Spec => []DrainedNeverCuts
<1>1. IInv => DrainedNeverCuts  BY DEF IInv
<1>2. QED  BY <1>1, Invariant, PTL
=============================================================================
