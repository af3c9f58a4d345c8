--------------------------- MODULE UnitLifecycle ---------------------------
(***************************************************************************)
(* What a ServerUnit promises to the supervisor that owns it: the four     *)
(* facts the supervisor and the proxy read (state, health_failing, whether *)
(* the unit still holds its loopback port, whether a bridge process of it  *)
(* is alive) and the only ways they may change.  ServerUnit.tla is shown   *)
(* to implement this machine; Supervisor.tla uses it for every unit.       *)
(***************************************************************************)

UnitStates == {"stopped", "starting", "running", "unhealthy", "failed", "stopping"}

Lives == [state : UnitStates, hf : BOOLEAN, port : BOOLEAN, live : BOOLEAN]

\* A unit without port and process.
Without(s) == [state |-> s, hf |-> FALSE, port |-> FALSE, live |-> FALSE]

Fresh   == Without("stopped")
Started == [state |-> "starting", hf |-> FALSE, port |-> TRUE,  live |-> FALSE]

\* u with another state on show, or with a bridge process or none.
Showing(u, s, failing) == [state |-> s, hf |-> failing, port |-> u.port, live |-> u.live]
Process(u, alive)      == [state |-> u.state, hf |-> u.hf, port |-> u.port, live |-> alive]

\* A bridge that came up and is still answered for: running, or running with
\* its periodic health check failing.
Up(u) == u.state = "running" \/ (u.state = "unhealthy" /\ u.hf)

\* ServerUnit.start hands the unit its port; the activation begins.
Begins(u, v) == u = Fresh /\ v = Started

\* One attempt spawns the bridge process, and only one: never beside a live one.
Launches(u, v) ==
    u.state = "starting" /\ u.port /\ ~u.live /\ v = Process(u, TRUE)

\* The bridge answered (and passed its readiness health check).
Comes_Up(u, v) ==
    u.state = "starting" /\ u.port /\ v = Showing(u, "running", FALSE)

\* The bridge process ends, by itself or because it was terminated.
Dies(u, v) == u.live /\ v = Process(u, FALSE)

\* A periodic health check of a live bridge turns, or turns back.
Health_Turns(u, v) ==
    \/ u.state = "running" /\ u.live /\ v = Showing(u, "unhealthy", TRUE)
    \/ u.state = "unhealthy" /\ u.hf /\ u.live
       /\ v = Showing(u, "running", FALSE)

\* The bridge exited before a stable run: the attempt failed, the port is kept.
Falls_Back(u, v) ==
    Up(u) /\ ~u.live /\ v = Showing(u, "starting", FALSE)

\* A stable run ended: the port goes back, the unit asks for a new activation
\* (state "unhealthy") once its pause is over.
Ends_Stable(u, v) ==
    Up(u) /\ ~u.live /\ v = Without("starting")

Wants_Activation(u, v) ==
    u.state = "starting" /\ ~u.port /\ v = Showing(u, "unhealthy", FALSE)

\* The activation is over without a bridge: the port goes back.
Gives_Up(u, v) ==
    /\ u.state = "starting" \/ Up(u)
    /\ u.port /\ ~u.live
    /\ v = Without("failed")

\* What the unit's own tasks and its process may do between two calls of the
\* supervisor.
Moves(u, v) ==
    \/ Launches(u, v)
    \/ Comes_Up(u, v)
    \/ Dies(u, v)
    \/ Health_Turns(u, v)
    \/ Falls_Back(u, v)
    \/ Ends_Stable(u, v)
    \/ Wants_Activation(u, v)
    \/ Gives_Up(u, v)

\* ServerUnit.stop, its first and its last instant.
Stopping(u)       == Showing(u, "stopping", FALSE)
Begins_Stop(u, v) == v = Stopping(u)
Ends_Stop(u, v)   == u.state = "stopping" /\ ~u.live /\ v = Fresh
=============================================================================
