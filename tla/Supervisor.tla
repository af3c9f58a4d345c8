----------------------------- MODULE Supervisor -----------------------------
(***************************************************************************)
(* The supervisor (backend/app/supervisor/supervisor.py), the API handlers *)
(* that drive it (backend/app/api/servers.py) and the proxy's view of it   *)
(* (backend/app/proxy/router.py).  One event loop runs the reconciler, the *)
(* handlers and the units' tasks; rows are committed by worker threads;    *)
(* processes belong to the operating system.  An action is what one of     *)
(* them does between two awaits.  The units are UnitLifecycle machines.    *)
(***************************************************************************)
EXTENDS Naturals, Sequences, FiniteSets, UnitLifecycle

CONSTANTS
    Servers, Ports,
    MaxRunning,       \* settings.max_running
    Operators,        \* API requests that may be under way at once
    None,
    TeardownMayRaise, \* may ServerUnit.stop raise?
    Nappers,          \* bound: who may have an idle timeout to begin with
    Kinds,            \* bound: the kinds of API calls considered
    MaxCalls,         \* bound: how many of them in a behaviour
    MaxInFlight       \* bound: proxied requests open at once, per server

\* The API calls: those that only write a row, and those that stop the server.
Writes == {"enable", "disable", "edit", "nap", "gate"}
Stops  == {"disconnect", "delete", "restart", "retry", "wipe"}

ASSUME SupervisorAssumptions ==
    /\ IsFiniteSet(Servers) /\ IsFiniteSet(Ports)
    /\ MaxRunning \in Nat /\ MaxCalls \in Nat /\ MaxInFlight \in Nat
    /\ TeardownMayRaise \in BOOLEAN
    /\ Operators \cap {"pass", "shutdown"} = {}
    /\ Kinds \subseteq Writes \cup Stops /\ Nappers \subseteq Servers

VARIABLES
    row, config,     \* desired state: the server's row, its config_hash
    gated, naps,     \* servers the docker gate forbids; with an idle timeout
    runtime,         \* the observed-state row the reconciler writes
    units,           \* self.units
    departing,       \* the unit _stop popped and awaits the stop() of
    used,            \* PortAllocator._used
    procs,           \* the live bridge processes, as <<server, port>>
    requests, idle,  \* self._activation_requests, self._idle
    activity,        \* self._last_activity, as an age
    in_flight,       \* self._in_flight
    quarantine,      \* self._teardown_failed: its backoff is unspent or spent
    lock,            \* the holder of _unit_lock and its waiters, in order
    pass,            \* the reconcile pass under way
    op, calls,       \* the API calls under way; how many there were
    erased,          \* servers whose DELETE was answered
    down             \* the progress of shutdown()

desired  == <<row, config, gated, naps>>
observed == <<procs, used, units, departing, quarantine>>
wishes   == <<requests, idle, activity>>
vars == <<desired, runtime, observed, wishes, in_flight, lock, pass, op, calls, erased, down>>

Units == [life : Lives, port : Ports, config : BOOLEAN]
Rows  == {"new", "disabled", "enabled", "gone"}
Runtimes == UnitStates \cup {"none", "idle"}
Snapshots == [row : [Servers -> Rows], config : [Servers -> BOOLEAN],
              gated : SUBSET Servers, naps : SUBSET Servers, stale : SUBSET Servers]
Actors == {"pass", "shutdown"} \cup Operators

ASSUME NoneIsNothing ==
    /\ None \notin Servers /\ None \notin Units /\ None \notin Snapshots
    /\ None \notin [srv : Servers, unit : Units]

TypeOK ==
    /\ row \in [Servers -> Rows] /\ config \in [Servers -> BOOLEAN]
    /\ gated \subseteq Servers /\ naps \subseteq Servers
    /\ runtime \in [Servers -> Runtimes]
    /\ units \in [Servers -> Units \cup {None}]
    /\ departing \in [srv : Servers, unit : Units] \cup {None}
    /\ used \subseteq Ports /\ procs \subseteq Servers \X Ports
    /\ requests \subseteq Servers /\ idle \subseteq Servers
    /\ activity \in [Servers -> {"none", "recent", "long_ago"}]
    /\ in_flight \in [Servers -> Nat]
    /\ quarantine \in [Servers -> {"no", "waiting", "due"}]
    /\ lock \in Seq(Actors)
    /\ pass \in [at : {"asleep", "queued", "gate", "gate_stop", "sweep", "sweep_stop", "start",
                       "quiesce_stop", "bounce_stop"},
                 snap : Snapshots \cup {None}, todo : SUBSET Servers, first : SUBSET Servers]
    /\ op \in [Operators -> [at : {"idle", "commit", "after", "queued", "stopping", "wiping"},
                             kind : Writes \cup Stops \cup {None}, srv : Servers \cup {None},
                             was : BOOLEAN, again : BOOLEAN]]
    /\ calls \in Nat /\ erased \subseteq Servers
    /\ down \in {"up", "queued", "stopping", "down", "raised"}

-----------------------------------------------------------------------------
NoUnits == [s \in Servers |-> None]
Asleep == [at |-> "asleep", snap |-> None, todo |-> {}, first |-> {}]
NoCall == [at |-> "idle", kind |-> None, srv |-> None, was |-> FALSE, again |-> FALSE]

\* After boot_reset: any desired state, nothing observed.
Init ==
    /\ row \in [Servers -> {"new", "disabled", "enabled"}]
    /\ config = [s \in Servers |-> FALSE] /\ gated = {} /\ naps \in SUBSET Nappers
    /\ runtime = [s \in Servers |-> IF row[s] = "new" THEN "none" ELSE "stopped"]
    /\ units = NoUnits /\ departing = None /\ used = {} /\ procs = {}
    /\ requests = {} /\ idle = {} /\ activity = [s \in Servers |-> "none"]
    /\ in_flight = [s \in Servers |-> 0]
    /\ quarantine = [s \in Servers |-> "no"]
    /\ lock = <<>> /\ pass = Asleep
    /\ op = [o \in Operators |-> NoCall] /\ calls = 0 /\ erased = {}
    /\ down = "up"

\* The event loop runs something else only while the pass awaits.
LoopFree == pass.at \in {"asleep", "queued", "gate_stop", "sweep_stop", "quiesce_stop", "bounce_stop"}

Registered(rows, s) == rows[s] \in {"disabled", "enabled"}

Holds(actor) == lock # <<>> /\ Head(lock) = actor

\* supervisor.endpoint: where the proxy sends a request for the server.
Endpoint(s) ==
    IF units[s] # None /\ units[s].life.state = "running" /\ units[s].life.port
    THEN units[s].port ELSE None

-----------------------------------------------------------------------------
(* _start and _stop.                                                       *)

Occupied == Cardinality({s \in Servers : units[s] # None /\ units[s].life.port})

\* PortAllocator.allocate takes the lowest port that is neither handed out nor
\* bound on the host; any of the free ones may be the lowest not bound there.
Unused(taken) == {p \in Ports \ taken : \A s \in Servers : <<s, p>> \notin procs}

\* _try_start with the ports in `taken` handed out, and the row it leads to.
TryStart(s, taken) ==
    IF Occupied >= MaxRunning \/ Unused(taken) = {}
    THEN /\ runtime' = [runtime EXCEPT ![s] = "failed"]
         /\ used' = taken
         /\ UNCHANGED <<units, activity>>
    ELSE \E p \in Unused(taken) :
         /\ units' = [units EXCEPT ![s] =
                [life |-> Started, port |-> p, config |-> pass.snap.config[s]]]
         /\ used' = taken \cup {p}
         /\ activity' = [activity EXCEPT ![s] = "recent"]
         /\ runtime' = [runtime EXCEPT ![s] = "starting"]

\* _stop up to its await: the unit leaves the table before its stop() runs.
BeginStop(s) ==
    /\ units[s] # None
    /\ departing' = [srv |-> s, unit |-> [units[s] EXCEPT !.life = Stopping(@)]]
    /\ units' = [units EXCEPT ![s] = None]

\* Mutant: _stop pops the unit for good.
UnitsAfterForgets(ok) == units

\* _stop from its await on.  A stop() that raised may have left the process
\* alive: the unit is put back and its id quarantined.
UnitsAfter(ok) == IF ok THEN units ELSE [units EXCEPT ![departing.srv] = departing.unit]

\* Mutant: the port of a unit that may be alive goes back too.
UsedAfterEitherWay(ok) == used \ {departing.unit.port}

UsedAfter(ok) == IF ok /\ departing.unit.life.port THEN used \ {departing.unit.port} ELSE used

QuarantineAfter(ok) == IF ok THEN "no" ELSE "waiting"

EndStop(ok) ==
    /\ departing # None
    /\ IF ok THEN ~departing.unit.life.live ELSE TeardownMayRaise
    /\ departing' = None
    /\ quarantine' = [quarantine EXCEPT ![departing.srv] = QuarantineAfter(ok)]

\* _stop_quietly leaves a unit alone while its backoff is unspent.
Throttled(s) == quarantine[s] = "waiting"

\* The row a pass writes of a stop it awaited: nothing if the stop raised.
RowAfter(ok, state) == IF ok THEN [runtime EXCEPT ![departing.srv] = state] ELSE runtime

\* _stop of a server without a unit forgets a quarantine it may have.
ForgetQuarantine(s) == quarantine' = [quarantine EXCEPT ![s] = "no"]

-----------------------------------------------------------------------------
(* The reconcile pass.                                                     *)

\* run_forever reaches reconcile_once: a nudge came or the interval passed.
PassQueues ==
    /\ pass.at = "asleep" /\ down = "up"
    /\ pass' = [pass EXCEPT !.at = "queued"]
    /\ lock' = Append(lock, "pass")
    /\ UNCHANGED <<desired, runtime, observed, wishes, in_flight, op, calls, erased, down>>

Wanted(snap) == {s \in Servers : snap.row[s] = "enabled" /\ s \notin snap.gated}

\* The snapshot of the desired state everything below works from, however
\* long its stops take; a disabled server's queued activation is dropped.
PassBegins ==
    /\ pass.at = "queued" /\ Holds("pass")
    /\ pass' = [pass EXCEPT
          !.at = "gate",
          !.snap = [row |-> row, config |-> config, gated |-> gated, naps |-> naps,
                    stale |-> {s \in Servers : row[s] = "disabled"
                                               /\ runtime[s] \notin {"none", "stopped"}}],
          !.todo = {s \in gated : row[s] = "enabled"}]
    /\ requests' = {s \in requests : row[s] # "disabled"}
    /\ UNCHANGED <<desired, runtime, observed, idle, activity, in_flight, lock, op, calls, erased, down>>

\* The docker gate: stop what it forbids and say why.
PassGates(s) ==
    /\ pass.at = "gate" /\ s \in pass.todo
    /\ requests' = requests \ {s}
    /\ IF units[s] # None /\ ~Throttled(s)
       THEN /\ BeginStop(s)
            /\ pass' = [pass EXCEPT !.at = "gate_stop"]
            /\ UNCHANGED <<runtime, quarantine>>
       ELSE /\ pass' = [pass EXCEPT !.todo = @ \ {s}]
            /\ runtime' = [runtime EXCEPT ![s] = "failed"]
            /\ UNCHANGED <<units, departing, quarantine>>
    /\ UNCHANGED <<desired, procs, used, idle, activity, in_flight, lock, op, calls, erased, down>>

PassGated ==
    /\ pass.at = "gate_stop"
    /\ \E ok \in BOOLEAN :
          EndStop(ok) /\ units' = UnitsAfter(ok) /\ used' = UsedAfter(ok)
    /\ runtime' = [runtime EXCEPT ![departing.srv] = "failed"]
    /\ pass' = [pass EXCEPT !.at = "gate", !.todo = @ \ {departing.srv}]
    /\ UNCHANGED <<desired, procs, wishes, in_flight, lock, op, calls, erased, down>>

PassReachesSweep ==
    /\ pass.at = "gate" /\ pass.todo = {}
    /\ pass' = [pass EXCEPT !.at = "sweep",
                            !.todo = {s \in Servers : units[s] # None} \ Wanted(pass.snap)]
    /\ UNCHANGED <<desired, runtime, observed, wishes, in_flight, lock, op, calls, erased, down>>

\* Stop whatever runs and is not desired, unless its backoff is unspent.
PassSweeps(s) ==
    /\ pass.at = "sweep" /\ s \in pass.todo
    /\ requests' = requests \ {s}
    /\ IF Throttled(s)
       THEN pass' = [pass EXCEPT !.todo = @ \ {s}] /\ UNCHANGED <<units, departing>>
       ELSE pass' = [pass EXCEPT !.at = "sweep_stop"] /\ BeginStop(s)
    /\ UNCHANGED <<desired, runtime, procs, used, quarantine, idle, activity, in_flight, lock, op,
                   calls, erased, down>>

\* Only a stop that succeeded is recorded, and never for a server without row.
PassSwept ==
    /\ pass.at = "sweep_stop"
    /\ \E ok \in BOOLEAN :
          /\ EndStop(ok) /\ units' = UnitsAfter(ok) /\ used' = UsedAfter(ok)
          /\ runtime' = IF Registered(pass.snap.row, departing.srv)
                        THEN RowAfter(ok, "stopped") ELSE runtime
          /\ pass' = [pass EXCEPT !.at = "sweep", !.todo = @ \ {departing.srv},
                                  !.snap.stale = IF ok THEN @ \ {departing.srv} ELSE @]
    /\ UNCHANGED <<desired, procs, wishes, in_flight, lock, op, calls, erased, down>>

\* Stale rows of disabled servers, requests of ids without row, quiescence of
\* servers that are no longer desired; then the start loop, asked-for first.
PassReachesStart ==
    /\ pass.at = "sweep" /\ pass.todo = {}
    /\ runtime' = [s \in Servers |->
          IF s \in pass.snap.stale /\ units[s] = None THEN "stopped" ELSE runtime[s]]
    /\ LET wanted == Wanted(pass.snap)
           asked  == {s \in requests : Registered(pass.snap.row, s)}
       IN /\ requests' = asked
          /\ idle' = idle \cap wanted
          /\ activity' = [s \in Servers |-> IF s \in wanted THEN activity[s] ELSE "none"]
          /\ pass' = [pass EXCEPT !.at = "start", !.todo = wanted, !.first = wanted \cap asked]
    /\ UNCHANGED <<desired, observed, in_flight, lock, op, calls, erased, down>>

\* The server the start loop comes to next.
Turn(s) ==
    /\ pass.at = "start" /\ s \in pass.todo
    /\ pass.todo \cap pass.first # {} => s \in pass.first

\* What the turn does first: a request is consumed and clears quiescence, as
\* does a row without an idle timeout.
StillIdle(s) == s \in idle /\ s \notin requests /\ s \in pass.snap.naps

\* Mutant: a server that was asked for stays idle.
ConsumeOnly(s) == requests' = requests \ {s} /\ UNCHANGED idle

Consume(s) ==
    /\ requests' = requests \ {s}
    /\ idle' = IF StillIdle(s) THEN idle ELSE idle \ {s}

\* The idle sweep's condition.
Slumbers(s) ==
    /\ s \notin requests /\ s \in pass.snap.naps
    /\ units[s] # None /\ Up(units[s].life)
    /\ in_flight[s] = 0 /\ activity[s] = "long_ago"

\* The unit must go before a new one comes.
Outdated(s) ==
    \/ s \in requests \/ quarantine[s] # "no"
    \/ units[s].config # pass.snap.config[s]
    \/ units[s].life.state = "unhealthy" /\ ~units[s].life.hf

PassQuiesces(s) ==
    /\ Turn(s) /\ Slumbers(s)
    /\ Consume(s)
    /\ BeginStop(s)
    /\ pass' = [pass EXCEPT !.at = "quiesce_stop"]
    /\ UNCHANGED <<desired, runtime, procs, used, quarantine, activity, in_flight, lock, op, calls,
                   erased, down>>

\* Mutant: a failed quiesce is idle too.
IdleAfterEitherWay(ok) == idle \cup {departing.srv}

\* A failed quiesce is not "idle": the proxy may wake an idle server.
IdleAfter(ok) == IF ok THEN idle \cup {departing.srv} ELSE idle

PassQuiesced ==
    /\ pass.at = "quiesce_stop"
    /\ \E ok \in BOOLEAN :
          /\ EndStop(ok) /\ units' = UnitsAfter(ok) /\ used' = UsedAfter(ok)
          /\ idle' = IdleAfter(ok)
          /\ runtime' = RowAfter(ok, "idle")
    /\ pass' = [pass EXCEPT !.at = "start", !.todo = @ \ {departing.srv}]
    /\ UNCHANGED <<desired, procs, requests, activity, in_flight, lock, op, calls, erased, down>>

PassSkipsIdle(s) ==
    /\ Turn(s) /\ ~Slumbers(s) /\ StillIdle(s)
    /\ Consume(s)
    /\ pass' = [pass EXCEPT !.todo = @ \ {s}]
    /\ UNCHANGED <<desired, runtime, observed, activity, in_flight, lock, op, calls, erased, down>>

PassStarts(s) ==
    /\ Turn(s) /\ ~StillIdle(s) /\ units[s] = None
    /\ Consume(s)
    /\ TryStart(s, used)
    /\ pass' = [pass EXCEPT !.todo = @ \ {s}]
    /\ UNCHANGED <<desired, procs, departing, quarantine, in_flight, lock, op, calls, erased, down>>

PassBounces(s) ==
    /\ Turn(s) /\ ~Slumbers(s) /\ ~StillIdle(s)
    /\ units[s] # None /\ Outdated(s) /\ ~Throttled(s)
    /\ Consume(s)
    /\ BeginStop(s)
    /\ pass' = [pass EXCEPT !.at = "bounce_stop"]
    /\ UNCHANGED <<desired, runtime, procs, used, quarantine, activity, in_flight, lock, op, calls,
                   erased, down>>

\* Start only if the teardown succeeded.
PassBounced ==
    /\ pass.at = "bounce_stop"
    /\ \E ok \in BOOLEAN :
          /\ EndStop(ok)
          /\ IF ok
             THEN TryStart(departing.srv, UsedAfter(ok))
             ELSE /\ units' = UnitsAfter(ok) /\ used' = UsedAfter(ok)
                  /\ runtime' = [runtime EXCEPT ![departing.srv] = "stopping"]
                  /\ UNCHANGED activity
    /\ pass' = [pass EXCEPT !.at = "start", !.todo = @ \ {departing.srv}]
    /\ UNCHANGED <<desired, procs, requests, idle, in_flight, lock, op, calls, erased, down>>

\* A unit that stays: its row shows what it is.
PassRefreshes(s) ==
    /\ Turn(s) /\ ~Slumbers(s) /\ ~StillIdle(s)
    /\ units[s] # None /\ (Outdated(s) => Throttled(s))
    /\ Consume(s)
    /\ runtime' = [runtime EXCEPT ![s] = units[s].life.state]
    /\ pass' = [pass EXCEPT !.todo = @ \ {s}]
    /\ UNCHANGED <<desired, observed, activity, in_flight, lock, op, calls, erased, down>>

PassEnds ==
    /\ pass.at = "start" /\ pass.todo = {}
    /\ pass' = Asleep
    /\ lock' = Tail(lock)
    /\ UNCHANGED <<desired, runtime, observed, wishes, in_flight, op, calls, erased, down>>

Reconcile ==
    \/ PassQueues \/ PassBegins
    \/ \E s \in Servers : PassGates(s) \/ PassSweeps(s)
    \/ PassGated \/ PassReachesSweep \/ PassSwept \/ PassReachesStart
    \/ \E s \in Servers : PassQuiesces(s) \/ PassSkipsIdle(s) \/ PassStarts(s)
                          \/ PassBounces(s) \/ PassRefreshes(s)
    \/ PassQuiesced \/ PassBounced \/ PassEnds

-----------------------------------------------------------------------------
(* API calls that only write desired state: the row is committed in a      *)
(* worker thread, the handler resumes on the loop afterwards.              *)

\* What the call will do was decided on the row as it was on entry.
Calls(o, kind, s) ==
    /\ kind \in Kinds
    /\ op[o].at = "idle" /\ calls < MaxCalls /\ down = "up" /\ LoopFree
    /\ calls' = calls + 1

WriteEnters(o, kind, s) ==
    /\ kind \in Writes /\ Calls(o, kind, s)
    /\ Registered(row, s) \/ (row[s] = "new" /\ kind = "enable")
    /\ op' = [op EXCEPT ![o] = [at |-> "commit", kind |-> kind, srv |-> s,
                                was |-> row[s] = "enabled", again |-> FALSE]]
    /\ UNCHANGED <<desired, runtime, observed, wishes, in_flight, lock, pass, erased, down>>

Toggled(set, s) == IF s \in set THEN set \ {s} ELSE set \cup {s}

\* A row deleted meanwhile answers 404.  Creating a server is its first enable.
WriteCommits(o) ==
    LET kind == op[o].kind
        s == op[o].srv
    IN /\ op[o].at = "commit" /\ kind \in Writes
       /\ IF row[s] = "gone"
          THEN op' = [op EXCEPT ![o] = NoCall] /\ UNCHANGED desired
          ELSE /\ op' = [op EXCEPT ![o].at = "after",
                                   ![o].was = IF kind = "edit" THEN row[s] = "enabled" ELSE @]
               /\ row' = CASE kind = "enable"  -> [row EXCEPT ![s] = "enabled"]
                         [] kind = "disable" -> [row EXCEPT ![s] = "disabled"]
                         [] OTHER -> row
               /\ config' = IF kind = "edit" THEN [config EXCEPT ![s] = ~@] ELSE config
               /\ naps' = IF kind = "nap" THEN Toggled(naps, s) ELSE naps
               /\ gated' = IF kind = "gate" THEN Toggled(gated, s) ELSE gated
       /\ UNCHANGED <<runtime, observed, wishes, in_flight, lock, pass, calls, erased, down>>

\* Back on the loop: an enable of a disabled server and an edit of an enabled
\* one ask for an activation, a disable takes a queued one back.
WriteFollowsUp(o) ==
    LET kind == op[o].kind
        s == op[o].srv
    IN /\ op[o].at = "after" /\ kind \in Writes /\ LoopFree
       /\ requests' = CASE kind = "enable" /\ ~op[o].was -> requests \cup {s}
                       [] kind = "edit" /\ op[o].was -> requests \cup {s}
                       [] kind = "disable" -> requests \ {s}
                       [] OTHER -> requests
       /\ op' = [op EXCEPT ![o] = NoCall]
       /\ UNCHANGED <<desired, runtime, observed, idle, activity, in_flight, lock, pass, calls, erased,
                      down>>

-----------------------------------------------------------------------------
(* API calls that stop the server under the unit lock: supervisor.stop (a  *)
(* disconnect, a delete, the cache of a disabled server), restart, retry.  *)

\* supervisor.stop's first lines run before it waits for the lock.
Bare(kind, enabled) == kind \in {"disconnect", "delete"} \/ (kind = "wipe" /\ ~enabled)

OverrideQuiescence(kind, enabled, s) ==
    IF Bare(kind, enabled)
    THEN idle' = idle \ {s} /\ activity' = [activity EXCEPT ![s] = "none"]
    ELSE UNCHANGED <<idle, activity>>

\* What the API shows of an enabled server (_live_state).
LiveState(s) ==
    CASE s \in requests -> "starting"
      [] s \notin requests /\ units[s] = None ->
            IF runtime[s] \in {"failed", "unhealthy", "idle"} THEN runtime[s] ELSE "starting"
      [] OTHER ->
            IF units[s].config # config[s] \/ units[s].life.state \in {"stopped", "stopping"}
            THEN "starting" ELSE units[s].life.state

StopEnters(o, kind, s) ==
    /\ kind \in Stops /\ Calls(o, kind, s)
    /\ Registered(row, s)
    /\ kind \in {"restart", "retry"} => row[s] = "enabled"
    /\ kind = "retry" => LiveState(s) \in {"failed", "unhealthy"}
    /\ op' = [op EXCEPT ![o] = [at |-> "queued", kind |-> kind, srv |-> s,
                                was |-> row[s] = "enabled", again |-> FALSE]]
    /\ requests' = IF kind = "delete" THEN requests \ {s} ELSE requests
    /\ OverrideQuiescence(kind, row[s] = "enabled", s)
    /\ lock' = Append(lock, o)
    /\ UNCHANGED <<desired, runtime, observed, in_flight, pass, erased, down>>

\* The `authorized` hook, run inside the lock on the committed row.
Authorized(o) ==
    LET s == op[o].srv
    IN CASE op[o].kind = "restart" -> row[s] = "enabled"
         [] op[o].kind = "retry"   -> Registered(row, s)
         [] op[o].kind = "wipe"    -> row[s] = IF op[o].was THEN "enabled" ELSE "disabled"
         [] OTHER -> TRUE

\* retry refuses a unit that is neither failed nor unhealthy.
Retryable(s) == units[s] = None \/ units[s].life.state \in {"failed", "unhealthy"}

\* The call is refused inside the lock.  A cache clear whose server was
\* disabled meanwhile goes on as the clear of a disabled one.
Refused(o) ==
    LET s == op[o].srv
        midway == op[o].kind = "wipe" /\ op[o].was /\ row[s] = "disabled"
    IN /\ op' = [op EXCEPT ![o] = IF midway THEN [@ EXCEPT !.at = "queued", !.was = FALSE] ELSE NoCall]
       /\ lock' = IF midway THEN Append(Tail(lock), o) ELSE Tail(lock)
       /\ IF midway THEN OverrideQuiescence("wipe", FALSE, s) ELSE UNCHANGED <<idle, activity>>
       /\ UNCHANGED <<requests, erased>>

\* The hook once the unit is stopped; clearing a disabled server's cache then
\* only asks for its row.
StillAuthorized(o) ==
    IF op[o].kind = "wipe" /\ ~op[o].was THEN Registered(row, op[o].srv) ELSE Authorized(o)

\* What the call does when the unit is gone, the lock still held.
Proceed(o) ==
    LET s == op[o].srv
        kind == op[o].kind
        leave(next) == op' = [op EXCEPT ![o] = next] /\ lock' = Tail(lock)
    IN IF ~StillAuthorized(o) THEN Refused(o) ELSE
       CASE kind = "restart" ->
               /\ leave(NoCall)
               /\ idle' = idle \ {s} /\ requests' = requests \cup {s}
               /\ UNCHANGED <<activity, erased>>
         [] kind = "retry" ->
               leave(NoCall) /\ requests' = requests \cup {s} /\ UNCHANGED <<idle, activity, erased>>
         [] kind = "wipe" ->
               op' = [op EXCEPT ![o].at = "wiping"] /\ UNCHANGED <<lock, wishes, erased>>
         [] kind \in {"disconnect", "delete"} ->
               /\ leave(IF op[o].again THEN NoCall ELSE [op[o] EXCEPT !.at = "commit"])
               /\ erased' = IF op[o].again THEN erased \cup {s} ELSE erased
               /\ UNCHANGED wishes

\* The lock is this call's: refused, nothing to stop, or a stop to await.
StopAcquires(o) ==
    LET s == op[o].srv
    IN /\ op[o].at = "queued" /\ Holds(o) /\ LoopFree
       /\ IF ~Authorized(o) \/ (op[o].kind = "retry" /\ ~Retryable(s))
          THEN Refused(o) /\ UNCHANGED <<units, departing, quarantine>>
          ELSE IF units[s] = None
          THEN Proceed(o) /\ ForgetQuarantine(s) /\ UNCHANGED <<units, departing>>
          ELSE /\ op' = [op EXCEPT ![o].at = "stopping"]
               /\ BeginStop(s)
               /\ UNCHANGED <<quarantine, wishes, lock, erased>>
       /\ UNCHANGED <<desired, runtime, procs, used, in_flight, pass, calls, down>>

\* Mutant: the lock is not released when the stop raises.
CallFailsInLock(o) ==
    /\ op' = [op EXCEPT ![o] = NoCall]
    /\ erased' = IF op[o].again THEN erased \cup {op[o].srv} ELSE erased
    /\ UNCHANGED <<lock, wishes>>

\* A stop that raised answers the call with an error; the row of a delete
\* that got this far a second time is gone all the same.
CallFails(o) ==
    /\ op' = [op EXCEPT ![o] = NoCall] /\ lock' = Tail(lock)
    /\ erased' = IF op[o].again THEN erased \cup {op[o].srv} ELSE erased
    /\ UNCHANGED wishes

StopReturns(o) ==
    /\ op[o].at = "stopping" /\ LoopFree
    /\ \E ok \in BOOLEAN :
          /\ EndStop(ok) /\ units' = UnitsAfter(ok) /\ used' = UsedAfter(ok)
          /\ IF ok
             THEN Proceed(o)
             ELSE CallFails(o)
    /\ UNCHANGED <<desired, runtime, procs, in_flight, pass, calls, down>>

\* while_stopped: the cache directory is deleted, in the lock, by a thread.
\* A delete that fails leaves no activation queued.
Wiped(o) ==
    /\ op[o].at = "wiping" /\ LoopFree
    /\ \E failed \in BOOLEAN :
          IF op[o].was /\ ~failed
          THEN requests' = requests \cup {op[o].srv} /\ idle' = idle \ {op[o].srv}
          ELSE UNCHANGED <<requests, idle>>
    /\ op' = [op EXCEPT ![o] = NoCall] /\ lock' = Tail(lock)
    /\ UNCHANGED <<desired, runtime, observed, activity, in_flight, pass, calls, erased, down>>

\* The worker thread of a delete removes the row and its runtime row, unless
\* the server was deleted by another call first.
DeleteCommits(o) ==
    LET s == op[o].srv
    IN /\ op[o].at = "commit" /\ op[o].kind = "delete"
       /\ IF Registered(row, s)
          THEN /\ row' = [row EXCEPT ![s] = "gone"]
               /\ runtime' = [runtime EXCEPT ![s] = "none"]
               /\ op' = [op EXCEPT ![o].at = "after"]
          ELSE op' = [op EXCEPT ![o] = NoCall] /\ UNCHANGED <<row, runtime>>
       /\ UNCHANGED <<config, gated, naps, observed, wishes, in_flight, lock, pass, calls, erased, down>>

\* Mutant: no second stop.
DeleteAnswersAtOnce(o) ==
    /\ op[o].at = "after" /\ op[o].kind = "delete" /\ LoopFree
    /\ op' = [op EXCEPT ![o] = NoCall] /\ erased' = erased \cup {op[o].srv}
    /\ UNCHANGED <<desired, runtime, observed, wishes, in_flight, lock, pass, calls, down>>

\* Back on the loop the delete cancels and stops a second time.
DeleteStopsAgain(o) ==
    LET s == op[o].srv
    IN /\ op[o].at = "after" /\ op[o].kind = "delete" /\ LoopFree
       /\ requests' = requests \ {s}
       /\ OverrideQuiescence("delete", FALSE, s)
       /\ op' = [op EXCEPT ![o].at = "queued", ![o].again = TRUE]
       /\ lock' = Append(lock, o)
       /\ UNCHANGED <<desired, runtime, observed, in_flight, pass, calls, erased, down>>

\* A disconnect forgot the tokens (in a thread) and restarts the server.
DisconnectFollowsUp(o) ==
    /\ op[o].at = "commit" /\ op[o].kind = "disconnect" /\ LoopFree
    /\ requests' = IF row[op[o].srv] = "enabled" THEN requests \cup {op[o].srv} ELSE requests
    /\ op' = [op EXCEPT ![o] = NoCall]
    /\ UNCHANGED <<desired, runtime, observed, idle, activity, in_flight, lock, pass, calls, erased,
                   down>>

CallEnters ==
    \E o \in Operators, s \in Servers :
        \/ \E kind \in Writes : WriteEnters(o, kind, s)
        \/ \E kind \in Stops : StopEnters(o, kind, s)

CallContinues(o) ==
    \/ WriteCommits(o) \/ WriteFollowsUp(o)
    \/ StopAcquires(o) \/ StopReturns(o) \/ Wiped(o)
    \/ DeleteCommits(o) \/ DeleteStopsAgain(o) \/ DisconnectFollowsUp(o)

-----------------------------------------------------------------------------
(* The proxy.                                                              *)

\* What an authenticated request for the server meets.
ProxyAnswer(s) ==
    CASE Endpoint(s) # None -> "forward"
      [] Endpoint(s) = None /\ s \in idle -> "wake"
      [] Endpoint(s) = None /\ s \notin idle /\ row[s] = "enabled"
         /\ (s \in requests \/ (units[s] # None /\ units[s].life.state = "starting")) -> "hold"
      [] OTHER -> "refuse"

\* Every request counts as activity; one that found a bridge is in flight
\* until its response stream closes; one for an idle server wakes it.
Request(s) ==
    /\ Registered(row, s) /\ LoopFree /\ down = "up"
    /\ activity' = [activity EXCEPT ![s] = "recent"]
    /\ IF ProxyAnswer(s) = "forward"
       THEN in_flight[s] < MaxInFlight /\ in_flight' = [in_flight EXCEPT ![s] = @ + 1]
       ELSE UNCHANGED in_flight
    /\ requests' = IF ProxyAnswer(s) = "wake" THEN requests \cup {s} ELSE requests
    /\ UNCHANGED <<desired, runtime, observed, idle, lock, pass, op, calls, erased, down>>

\* The playground calls a tool of a running server's bridge: in flight like a
\* proxied request, whatever the call's end, but it wakes nobody.
ToolCall(s) ==
    /\ Registered(row, s) /\ LoopFree /\ down = "up"
    /\ Endpoint(s) # None
    /\ in_flight[s] < MaxInFlight
    /\ in_flight' = [in_flight EXCEPT ![s] = @ + 1]
    /\ UNCHANGED <<desired, runtime, observed, wishes, lock, pass, op, calls, erased, down>>

RequestFinished(s) ==
    /\ in_flight[s] > 0 /\ LoopFree
    /\ in_flight' = [in_flight EXCEPT ![s] = @ - 1]
    /\ activity' = [activity EXCEPT ![s] = "recent"]
    /\ UNCHANGED <<desired, runtime, observed, requests, idle, lock, pass, op, calls, erased, down>>

-----------------------------------------------------------------------------
(* Units, processes and time.                                              *)

LivesAfter == [u \in Lives |-> {v \in Lives : Moves(u, v)}]

\* A unit's own tasks run on the loop; its process ends when it likes.
UnitMoves(s) ==
    /\ units[s] # None
    /\ \E life \in LivesAfter[units[s].life] :
          /\ LoopFree \/ Dies(units[s].life, life)
          /\ units' = [units EXCEPT ![s].life = life]
          /\ used' = IF units[s].life.port /\ ~life.port THEN used \ {units[s].port} ELSE used
          /\ procs' = IF life.live THEN procs \cup {<<s, units[s].port>>}
                      ELSE procs \ {<<s, units[s].port>>}
    /\ UNCHANGED <<desired, runtime, departing, quarantine, wishes, in_flight, lock, pass, op, calls,
                   erased, down>>

\* The process of a unit that is being stopped, terminated or by itself.
DepartingDies ==
    /\ departing # None /\ departing.unit.life.live
    /\ departing' = [departing EXCEPT !.unit.life.live = FALSE]
    /\ procs' = procs \ {<<departing.srv, departing.unit.port>>}
    /\ UNCHANGED <<desired, runtime, used, units, quarantine, wishes, in_flight, lock, pass, op, calls,
                   erased, down>>

IdleWindowPasses(s) ==
    /\ activity[s] = "recent" /\ s \in naps
    /\ activity' = [activity EXCEPT ![s] = "long_ago"]
    /\ UNCHANGED <<desired, runtime, observed, requests, idle, in_flight, lock, pass, op, calls, erased,
                   down>>

BackoffPasses(s) ==
    /\ quarantine[s] = "waiting"
    /\ quarantine' = [quarantine EXCEPT ![s] = "due"]
    /\ UNCHANGED <<desired, runtime, procs, used, units, departing, wishes, in_flight, lock, pass, op,
                   calls, erased, down>>

-----------------------------------------------------------------------------
(* shutdown(), once no API call is under way.                              *)

ShutdownQueues ==
    /\ down = "up" /\ LoopFree /\ \A o \in Operators : op[o].at = "idle"
    /\ down' = "queued" /\ requests' = {}
    /\ lock' = Append(lock, "shutdown")
    /\ UNCHANGED <<desired, runtime, observed, idle, activity, in_flight, pass, op, calls, erased>>

ShutdownStops(s) ==
    /\ down = "queued" /\ Holds("shutdown") /\ LoopFree
    /\ BeginStop(s)
    /\ down' = "stopping"
    /\ UNCHANGED <<desired, runtime, procs, used, quarantine, wishes, in_flight, lock, pass, op, calls,
                   erased>>

\* A stop that raises ends the loop over the units, and shutdown with it.
ShutdownStopped ==
    /\ down = "stopping"
    /\ \E ok \in BOOLEAN :
          /\ EndStop(ok) /\ units' = UnitsAfter(ok) /\ used' = UsedAfter(ok)
          /\ down' = IF ok THEN "queued" ELSE "raised"
          /\ lock' = IF ok THEN lock ELSE Tail(lock)
    /\ UNCHANGED <<desired, runtime, procs, wishes, in_flight, pass, op, calls, erased>>

ShutdownEnds ==
    /\ down = "queued" /\ Holds("shutdown") /\ LoopFree
    /\ \A s \in Servers : units[s] = None
    /\ down' = "down" /\ lock' = Tail(lock)
    /\ UNCHANGED <<desired, runtime, observed, wishes, in_flight, pass, op, calls, erased>>

Shutdown == ShutdownQueues \/ (\E s \in Servers : ShutdownStops(s)) \/ ShutdownStopped \/ ShutdownEnds

-----------------------------------------------------------------------------
Next ==
    \/ Reconcile
    \/ CallEnters \/ \E o \in Operators : CallContinues(o)
    \/ \E s \in Servers : Request(s) \/ ToolCall(s) \/ RequestFinished(s) \/ UnitMoves(s)
                          \/ IdleWindowPasses(s) \/ BackoffPasses(s)
    \/ DepartingDies
    \/ Shutdown

Spec == Init /\ [][Next]_vars

\* The stop of s under way succeeds.
StopSucceeds(s) ==
    /\ departing # None /\ departing.srv = s
    /\ departing' = None /\ quarantine'[s] = "no"

\* asyncio resumes whoever is ready in order, the backoff is a clock, and the
\* teardown of a server that is retried for ever does not raise before it killed
\* the process, nor after, every time.
FairSpec ==
    /\ Spec
    /\ WF_vars(Reconcile) /\ WF_vars(Shutdown) /\ SF_vars(DepartingDies)
    /\ \A o \in Operators : SF_vars(CallContinues(o))
    /\ \A s \in Servers : WF_vars(BackoffPasses(s)) /\ SF_vars(Reconcile /\ StopSucceeds(s))

-----------------------------------------------------------------------------
(* Properties.                                                             *)

Running(s) == {p \in Ports : <<s, p>> \in procs}
Gone(s) == units[s] = None /\ (departing = None \/ departing.srv # s)
Holders == {<<s, units[s].port>> : s \in {t \in Servers : units[t] # None /\ units[t].life.port}}
           \cup (IF departing # None /\ departing.unit.life.port
                 THEN {<<departing.srv, departing.unit.port>>} ELSE {})

\* "launching a second copy beside a process that may still be alive is the
\* one outcome worth avoiding": never two bridges of one server, whatever
\* teardown raised and whoever asked for the next start meanwhile.
OneBridgePerServer == \A s \in Servers : Cardinality(Running(s)) <= 1

\* The allocator's table is exactly the ports units hold, no two units hold
\* one, and a live bridge sits on its own unit's port: nothing is leaked when
\* a start, a stop or an activation ends badly, and no request routed to a
\* server can reach another's bridge.
PortsHaveOneHolder ==
    /\ used = {h[2] : h \in Holders}
    /\ \A g, h \in Holders : g[2] = h[2] => g = h
    /\ procs \subseteq Holders

\* At no moment more bridges live than max_running, units that are being
\* stopped, quarantined or retried included.
WithinMaxRunning == Cardinality(procs) <= MaxRunning

\* An idle server is one the proxy may wake, so nothing of it may be left.
IdleIsDown == \A s \in idle : Gone(s) /\ Running(s) = {}

\* A runtime row never says "stopped" or "idle" of a server whose process may
\* be alive, however stale the snapshot of the pass that wrote it.
DownRowsAreTrue == \A s \in Servers : runtime[s] \in {"stopped", "idle"} => Running(s) = {}

\* A unit whose stop raised matches no other branch of the sweep: it is
\* quarantined, and only such a unit is.
StuckIsQuarantined ==
    \A s \in Servers :
        /\ units[s] # None => (units[s].life.state = "stopping" <=> quarantine[s] # "no")
        /\ quarantine[s] # "no" => ~Gone(s)

\* The cache directory is deleted while nothing of the server runs.
WipedWhileDown ==
    \A o \in Operators : op[o].at = "wiping" => Gone(op[o].srv) /\ Running(op[o].srv) = {}

\* What the supervisor says is down, is down: the idle set, the runtime rows, the
\* quarantine and a cache wipe all agree with the processes, whichever pass, call
\* and raising teardown interleaved.
DownIsDown == IdleIsDown /\ DownRowsAreTrue /\ StuckIsQuarantined /\ WipedWhileDown

\* Once a DELETE is answered no pass brings the server back; what may be left
\* is a unit whose teardown is retried.
ErasedStaysDown == \A s \in erased : units[s] # None => quarantine[s] # "no"

\* A shutdown that completes leaves nothing, and nothing starts after it.
DownIsEmpty == down = "down" => procs = {} /\ used = {} /\ \A s \in Servers : Gone(s)

\* Bridges, ports and running slots add up through restarts, crashes, raising
\* teardowns and a shutdown.
PoolsHold == TypeOK /\ OneBridgePerServer /\ PortsHaveOneHolder /\ WithinMaxRunning /\ DownIsEmpty

\* An activation that was asked for is not forgotten: a unit of the current
\* configuration comes, or the server's row says why none can, or nobody wants
\* it any more.
AskedStarts ==
    \A s \in Servers :
        s \in requests ~>
            \/ units[s] # None /\ units[s].config = config[s] /\ units[s].life.state # "stopping"
            \/ runtime[s] = "failed"
            \/ row[s] # "enabled" \/ s \in gated \/ down # "up"

\* A server nobody desires any more ends up with nothing running, however
\* often its teardown raised and whatever pass was under way.
UndesiredStops ==
    \A s \in Servers :
        <>[](row[s] \in {"disabled", "gone"} /\ down = "up") => <>[](Gone(s) /\ Running(s) = {})

\* Nobody waits for the unit lock for ever, nor loses it to a teardown that
\* raised: every API call returns, and so does shutdown.
CallsReturn ==
    /\ \A o \in Operators : op[o].at # "idle" ~> op[o].at = "idle"
    /\ down = "queued" ~> down \in {"down", "raised"}

\* What was asked for starts, what nobody wants ends, and everyone who waits is
\* answered.
EverythingSettles == AskedStarts /\ UndesiredStops /\ CallsReturn
=============================================================================
