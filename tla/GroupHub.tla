------------------------------ MODULE GroupHub ------------------------------
(***************************************************************************)
(* One group's live bundle (backend/app/groups/hub.py, groups/route.py and *)
(* the turns of bridge/host.py that a group serves).  sync converges the   *)
(* instance to the registry and the running servers while requests run on  *)
(* it, interactive ones are parked between two round trips, auth settings  *)
(* change and servers come and go.  An instance and its table of parked    *)
(* turns are made and given up together, so one number names both; the     *)
(* lock of the hub is busy in every phase but "free".                      *)
(***************************************************************************)
EXTENDS Naturals, FiniteSets

CONSTANTS
    Servers, Slug,      \* server ids; the slug of each (a deleted one's may be reused)
    Providers,          \* auth providers other than "none"
    Requests, NoRequest,
    MaxParked,          \* _MAX_PARKED_TURNS
    MaxGens,            \* bound: instances ever built (more than MaxChanges)
    MaxChanges          \* bound: changes of settings, rows and processes

ASSUME HubAssumptions ==
    /\ NoRequest \notin Requests /\ IsFiniteSet(Servers) /\ IsFiniteSet(Requests)
    /\ MaxParked \in Nat /\ MaxGens \in Nat /\ MaxChanges \in Nat
    /\ "none" \notin Providers /\ "inherit" \notin Providers

VARIABLES
    known, members,     \* the group in the registry, and its members
    auth, default,      \* each server's auth_provider; default_auth_provider
    running,            \* running_endpoints()
    hub, plan, onBehalf,\* the holder of _lock: its phase, what it installs, its caller
    inst, current, mount,   \* instances; the one routed to (0: none); what each serves
    active,             \* requests counted on each (_Counting)
    at, on, leased,     \* each request (a retry is one): where it is, its instance, the
                        \* members it holds
    reached, run,       \* of its turn: members it reached, and its upstream task
    inflight,           \* the supervisor's requests in flight of each member
    changes             \* bound

config == <<known, members, auth, default, running>>
lock == <<hub, plan, onBehalf>>
instances == <<inst, current, mount>>
request == <<at, on, leased, reached, run>>
vars == <<config, lock, instances, active, request, inflight, changes>>

Gens == 1 .. MaxGens
Open == {"reading", "calling"}
Parked(g) == {r \in Requests : at[r] = "parked" /\ on[r] = g}

TypeOK ==
    /\ known \in BOOLEAN /\ members \subseteq Servers
    /\ auth \in [Servers -> Providers \cup {"none", "inherit"}] /\ default \in Providers \cup {"none"}
    /\ running \subseteq Servers
    /\ hub \in {"free", "building", "announcing", "writing"}
    /\ plan \subseteq Servers /\ onBehalf \in Requests \cup {NoRequest}
    /\ inst \in [Gens -> {"none", "live", "retiring", "closed", "cut"}]
    /\ current \in 0 .. MaxGens /\ mount \in [Gens -> SUBSET Servers]
    /\ active \in [Gens -> Nat]
    /\ at \in [Requests -> {"new", "reading", "calling", "parked", "over"}]
    /\ on \in [Requests -> 0 .. MaxGens] /\ leased \in [Requests -> SUBSET Servers]
    /\ reached \in [Requests -> SUBSET Servers]
    /\ run \in [Requests -> {"none", "going", "asking", "done"}]
    /\ inflight \in [Servers -> Nat] /\ changes \in 0 .. MaxChanges

Init ==
    /\ known = TRUE /\ members = Servers
    /\ auth = [s \in Servers |-> "inherit"] /\ default \in Providers \cup {"none"}
    /\ running \in {S \in SUBSET Servers : Cardinality(S) <= 1}
    /\ hub = "free" /\ plan = {} /\ onBehalf = NoRequest
    /\ inst = [g \in Gens |-> "none"] /\ current = 0 /\ mount = [g \in Gens |-> {}]
    /\ active = [g \in Gens |-> 0]
    /\ at = [r \in Requests |-> "new"] /\ on = [r \in Requests |-> 0]
    /\ leased = [r \in Requests |-> {}] /\ reached = [r \in Requests |-> {}]
    /\ run = [r \in Requests |-> "none"]
    /\ inflight = [s \in Servers |-> 0] /\ changes = 0

-----------------------------------------------------------------------------
(* Leases and turns.                                                       *)

Started(counts, S) == [s \in Servers |-> IF s \in S THEN counts[s] + 1 ELSE counts[s]]
Finished(counts, S) == [s \in Servers |-> IF s \in S THEN counts[s] - 1 ELSE counts[s]]

\* How many of the requests in R hold s.
Holding(R, s) == Cardinality({r \in R : s \in leased[r]})

\* Mutant: an ended turn keeps its members awake.
TurnsEndHolding(R) ==
    /\ at' = [r \in Requests |-> IF r \in R THEN "over" ELSE at[r]]
    /\ run' = [r \in Requests |-> IF r \in R THEN "done" ELSE run[r]]
    /\ leased' = [r \in Requests |-> IF r \in R THEN {} ELSE leased[r]]
    /\ UNCHANGED <<inflight, on, reached>>

\* _Turn.end for each of them: unparked, its members let go, its task cancelled.
TurnsEnd(R) ==
    /\ at' = [r \in Requests |-> IF r \in R THEN "over" ELSE at[r]]
    /\ run' = [r \in Requests |-> IF r \in R THEN "done" ELSE run[r]]
    /\ leased' = [r \in Requests |-> IF r \in R THEN {} ELSE leased[r]]
    /\ inflight' = [s \in Servers |-> inflight[s] - Holding(R, s)]
    /\ reached' = [r \in Requests |-> IF r \in R THEN {} ELSE reached[r]]
    /\ UNCHANGED on

\* _teardown: nothing is routed to the instance, its parked turns end, it drains.
Teardown ==
    /\ current' = 0
    /\ inst' = (IF current = 0 THEN inst ELSE [inst EXCEPT ![current] = "retiring"])
    /\ TurnsEnd(IF current = 0 THEN {} ELSE Parked(current))
    /\ UNCHANGED mount

-----------------------------------------------------------------------------
(* sync.                                                                   *)

Effective(s) == IF auth[s] = "inherit" THEN default ELSE auth[s]

\* What sync mounts: running members whose provider is the group's, or open ones.
Eligible == {s \in running \cap members : Effective(s) \in {"none", default}}

\* The topology key of a set of entries.
Key(S) == {<<s, Slug[s]>> : s \in S}

SyncRemoves ==
    /\ hub = "free" /\ ~known /\ current # 0
    /\ Teardown
    /\ UNCHANGED <<config, lock, active, changes>>

\* _swap of a live instance: turns that reached a member that left end, the new
\* members are installed at once, and the clients are told under the lock.
SyncSwaps ==
    /\ hub = "free" /\ known /\ current # 0 /\ Key(mount[current]) # Key(Eligible)
    /\ hub' = "announcing" /\ plan' = {} /\ onBehalf' = NoRequest
    /\ mount' = [mount EXCEPT ![current] = Eligible]
    /\ TurnsEnd({r \in Parked(current) : ~ (reached[r] \subseteq Eligible)})
    /\ UNCHANGED <<config, inst, current, active, changes>>

SyncBuilds ==
    /\ hub = "free" /\ known /\ current = 0 /\ \E g \in Gens : inst[g] = "none"
    /\ hub' = "building" /\ plan' = Eligible /\ onBehalf' = NoRequest
    /\ UNCHANGED <<config, instances, active, request, inflight, changes>>

\* _build and _install: the lifespan started; the members were read before it.
Built ==
    /\ hub = "building" /\ hub' = "free"
    /\ LET g == CHOOSE n \in Gens : inst[n] = "none" IN
       /\ inst' = [inst EXCEPT ![g] = "live"] /\ current' = g
       /\ mount' = [mount EXCEPT ![g] = plan]
    /\ plan' = {} /\ UNCHANGED <<config, onBehalf, active, request, inflight, changes>>

\* The group fails closed: 503 until the reconciler's next pass.
SwapFails ==
    /\ hub \in {"building", "announcing"} /\ changes < MaxChanges
    /\ hub' = "free" /\ plan' = {} /\ changes' = changes + 1
    /\ Teardown
    /\ UNCHANGED <<config, onBehalf, active>>

Announced ==
    /\ hub = "announcing" /\ hub' = "free"
    /\ UNCHANGED <<config, plan, onBehalf, instances, active, request, inflight, changes>>

\* _retire's drain: the instance closes when nothing runs on it ...
Drained(g) ==
    /\ inst[g] = "retiring" /\ active[g] = 0
    /\ inst' = [inst EXCEPT ![g] = "closed"]
    /\ UNCHANGED <<config, lock, current, mount, active, request, inflight, changes>>

\* ... or after _DRAIN_S anyway, cutting off what runs.
DrainExpires(g) ==
    /\ inst[g] = "retiring" /\ active[g] > 0
    /\ inst' = [inst EXCEPT ![g] = "cut"]
    /\ UNCHANGED <<config, lock, current, mount, active, request, inflight, changes>>

\* close, after a sync that failed as a whole or at the shutdown.
CloseAll ==
    /\ hub = "free" /\ changes < MaxChanges /\ changes' = changes + 1
    /\ current' = 0
    /\ inst' = [g \in Gens |-> IF inst[g] \in {"live", "retiring"} THEN "cut" ELSE inst[g]]
    /\ TurnsEnd({r \in Requests : at[r] = "parked"})
    /\ UNCHANGED <<config, lock, mount, active>>

-----------------------------------------------------------------------------
(* An auth-affecting write, maybe made by a request this very group serves *)
(* (the built-in server's tools).                                          *)

\* Mutant: the groups keep serving while the row is written.
TransitionKeepsServing(r) ==
    /\ hub = "free" /\ changes < MaxChanges
    /\ r # NoRequest => at[r] = "calling"
    /\ hub' = "writing" /\ onBehalf' = r /\ changes' = changes + 1
    /\ UNCHANGED <<config, plan, instances, active, request, inflight>>

\* auth_transition: every group is unavailable before the write begins.
Transition(r) ==
    /\ hub = "free" /\ changes < MaxChanges
    /\ r # NoRequest => at[r] = "calling"
    /\ hub' = "writing" /\ onBehalf' = r /\ changes' = changes + 1
    /\ Teardown
    /\ UNCHANGED <<config, plan, active>>

\* Mutant: the write ends only when nothing runs on the instances given up.
WrittenAfterIdle ==
    /\ hub = "writing" /\ hub' = "free" /\ onBehalf' = NoRequest
    /\ \A g \in Gens : inst[g] # "live" => active[g] = 0
    /\ \E s \in Servers, p \in Providers \cup {"none", "inherit"} :
          auth' = [auth EXCEPT ![s] = p]
    /\ UNCHANGED <<known, members, default, running, plan, instances, active, request,
                   inflight, changes>>

\* The PATCH commits, or is refused.
Written ==
    /\ hub = "writing" /\ hub' = "free" /\ onBehalf' = NoRequest
    /\ \/ default' \in Providers \cup {"none"} /\ auth' = auth
       \/ /\ default' = default
          /\ \E s \in Servers, p \in Providers \cup {"none", "inherit"} :
                auth' = [auth EXCEPT ![s] = p]
    /\ UNCHANGED <<known, members, running, plan, instances, active, request, inflight,
                   changes>>

\* Rows and processes change with no regard for the hub; a sync follows each.
Changes ==
    /\ changes < MaxChanges /\ changes' = changes + 1
    /\ \/ \E s \in running : running' = running \ {s} /\ UNCHANGED <<known, members>>
       \/ \E s \in Servers \ running :
             /\ \A t \in running : Slug[t] # Slug[s]
             /\ running' = running \cup {s} /\ UNCHANGED <<known, members>>
       \/ members' \in SUBSET Servers /\ UNCHANGED <<known, running>>
       \/ known' = ~known /\ UNCHANGED <<members, running>>
    /\ UNCHANGED <<auth, default, lock, instances, active, request, inflight>>

-----------------------------------------------------------------------------
(* A request at /g/<name>/mcp.                                             *)

\* Mutant: the instance is held only once the body has been read.
HoldsLate(g) == UNCHANGED active

\* _Counting.hold.
Holds(g) == active' = [active EXCEPT ![g] = @ + 1]

\* GroupDispatch: known, ready; its members are leased and the instance is held
\* before anything is awaited.  A standalone stream leases nobody and runs no turn.
Dispatch(r, stream) ==
    /\ at[r] = "new" /\ known /\ current # 0
    /\ at' = [at EXCEPT ![r] = "reading"] /\ on' = [on EXCEPT ![r] = current]
    /\ leased' = [leased EXCEPT ![r] = IF stream THEN {} ELSE mount[current]]
    /\ inflight' = IF stream THEN inflight ELSE Started(inflight, mount[current])
    /\ run' = [run EXCEPT ![r] = IF stream THEN "done" ELSE @]
    /\ Holds(current)
    /\ UNCHANGED <<config, lock, instances, reached, changes>>

\* The body was read (_record_group_usage); the bundle starts the call, which reaches a
\* member mounted now: one a swap installed meanwhile is not among those leased.
Delegate(r) ==
    /\ at[r] = "reading"
    /\ at' = [at EXCEPT ![r] = "calling"]
    /\ run' = [run EXCEPT ![r] = IF @ = "none" THEN "going" ELSE @]
    /\ \E S \in SUBSET mount[on[r]] :
          /\ Cardinality(S) <= 1 /\ (run[r] = "done" => S = {})
          /\ reached' = [reached EXCEPT ![r] = S]
    /\ UNCHANGED <<config, lock, instances, active, on, leased, inflight, changes>>

\* _turn_leg: once its body is read, a retry takes the parked turn t over while every
\* member that reached is mounted; otherwise t ends and the retry is told to start again.
Resumes(r, t) ==
    /\ at[r] = "reading" /\ run[r] = "none" /\ at[t] = "parked" /\ on[t] = on[r]
    /\ at' = [at EXCEPT ![r] = "calling", ![t] = "over"]
    /\ IF reached[t] \subseteq mount[on[r]]
       THEN /\ run' = [run EXCEPT ![r] = "going", ![t] = "done"]
            /\ reached' = [reached EXCEPT ![r] = reached[t], ![t] = {}]
       ELSE /\ run' = [run EXCEPT ![r] = "done", ![t] = "done"]
            /\ reached' = [reached EXCEPT ![t] = {}]
    /\ inflight' = Finished(inflight, leased[t]) /\ leased' = [leased EXCEPT ![t] = {}]
    /\ UNCHANGED <<config, lock, instances, active, on, changes>>

\* The request leaves: released, and its members' idle clocks restart.
Leaves(r) ==
    /\ active' = [active EXCEPT ![on[r]] = @ - 1]
    /\ inflight' = Finished(inflight, leased[r])
    /\ leased' = [leased EXCEPT ![r] = {}] /\ reached' = [reached EXCEPT ![r] = {}]

Answered(r) ==
    /\ at[r] = "calling" /\ onBehalf # r
    /\ at' = [at EXCEPT ![r] = "over"] /\ run' = [run EXCEPT ![r] = "done"]
    /\ Leaves(r)
    /\ UNCHANGED <<config, lock, instances, on, changes>>

MemberAsks(r) ==
    /\ at[r] = "calling" /\ run[r] = "going" /\ reached[r] # {}
    /\ run' = [run EXCEPT ![r] = "asking"]
    /\ UNCHANGED <<config, lock, instances, active, at, on, leased, reached, inflight, changes>>

\* leg: the request parks in its own instance's table and holds the members it
\* reached, and the response leaves.
Parks(r) ==
    /\ at[r] = "calling" /\ run[r] = "asking" /\ onBehalf # r
    /\ current = on[r] /\ Cardinality(Parked(current)) < MaxParked
    /\ at' = [at EXCEPT ![r] = "parked"]
    /\ active' = [active EXCEPT ![on[r]] = @ - 1]
    /\ inflight' = Started(Finished(inflight, leased[r]), reached[r])
    /\ leased' = [leased EXCEPT ![r] = reached[r]]
    /\ UNCHANGED <<config, lock, instances, on, reached, run, changes>>

\* The group was rebuilt, or too many are parked: the member's request is refused.
Refused(r) ==
    /\ at[r] = "calling" /\ run[r] = "asking"
    /\ current # on[r] \/ Cardinality(Parked(current)) >= MaxParked
    /\ run' = [run EXCEPT ![r] = "going"]
    /\ UNCHANGED <<config, lock, instances, active, at, on, leased, reached, inflight, changes>>

\* _PARKED_TURN_TTL_S passes.
Expires(r) ==
    /\ at[r] = "parked"
    /\ TurnsEnd({r})
    /\ UNCHANGED <<config, lock, instances, active, changes>>

\* The client goes away, or its instance was closed under it.
CutOff(r) ==
    /\ at[r] \in Open /\ onBehalf # r
    /\ at' = [at EXCEPT ![r] = "over"] /\ run' = [run EXCEPT ![r] = "done"]
    /\ Leaves(r)
    /\ UNCHANGED <<config, lock, instances, on, changes>>

-----------------------------------------------------------------------------
RequestStep(r) ==
    \/ \E stream \in BOOLEAN : Dispatch(r, stream)
    \/ Delegate(r) \/ \E t \in Requests : Resumes(r, t)
    \/ Answered(r) \/ MemberAsks(r) \/ Parks(r) \/ Refused(r) \/ Expires(r) \/ CutOff(r)

HubStep ==
    \/ SyncRemoves \/ SyncSwaps \/ SyncBuilds \/ Built \/ SwapFails \/ Announced
    \/ \E g \in Gens : Drained(g) \/ DrainExpires(g)
    \/ CloseAll
    \/ \E r \in Requests \cup {NoRequest} : Transition(r)
    \/ Written

Next == HubStep \/ Changes \/ \E r \in Requests : RequestStep(r)

Spec == Init /\ [][Next]_vars

\* The reconciler syncs after every pass, timers fire, and a write in a worker
\* thread ends.  Clients owe nothing.
Fairness ==
    /\ WF_vars(SyncRemoves) /\ WF_vars(SyncSwaps) /\ WF_vars(SyncBuilds)
    /\ WF_vars(Built) /\ WF_vars(Announced) /\ WF_vars(Written)
    /\ \A g \in Gens : WF_vars(Drained(g)) /\ WF_vars(DrainExpires(g))
    /\ \A r \in Requests : WF_vars(Expires(r))

FairSpec == Spec /\ Fairness

-----------------------------------------------------------------------------
(* The bundle that serves requests never mounts a member whose own auth is *)
(* protected by another provider than the group's, as both are now stored: *)
(* whichever settings changed since it was built (sync, auth_transition).  *)
CompatibleMounted ==
    current # 0 /\ hub # "writing" =>
        \A s \in mount[current] : Effective(s) \in {"none", default}

(* The supervisor's count of requests in flight is what open requests and  *)
(* parked turns hold: a member is idled under neither, and none is kept    *)
(* awake for ever (GroupDispatch, _hold, _unpark).                         *)
LeasesBalance == \A s \in Servers : inflight[s] = Holding(Requests, s)

(* No turn waits for a retry in a table that no retry looks at (_teardown, *)
(* _ParkedTurns, close).                                                   *)
NothingStranded == \A r \in Requests : at[r] = "parked" => on[r] = current

(* Parked turns and open requests are all accounted for.                   *)
TurnsAccounted == TypeOK /\ LeasesBalance /\ NothingStranded

(* An instance that was drained, not cut off, has nothing running on it    *)
(* (_Counting, GroupDispatch's hold, _retire).                             *)
DrainedNeverCuts ==
    \A r \in Requests : at[r] \in Open => inst[on[r]] # "closed"

(* A request whose own call tears its group down is not waited for by that *)
(* teardown (_retire).                                                     *)
SelfCallReturns == \A r \in Requests : onBehalf = r ~> onBehalf # r

(* When rows and processes stop changing, the bundle serves exactly the    *)
(* eligible members, and a removed group nothing (sync).                   *)
Converges ==
    <>[](IF known THEN current # 0 /\ mount[current] = Eligible ELSE current = 0)

(* A teardown never waits for its own caller, and the hub ends up serving  *)
(* what the rows say.                                                      *)
Settles == SelfCallReturns /\ Converges
=============================================================================
