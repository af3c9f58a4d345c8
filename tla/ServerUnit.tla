----------------------------- MODULE ServerUnit -----------------------------
(***************************************************************************)
(* One supervised bridge process (backend/app/supervisor/unit.py): the     *)
(* activation task with its bounded retries, the periodic health check     *)
(* task, the stop() of the owner, and the operating system's processes,    *)
(* interleaved at the awaits of the code.  One action is what runs between *)
(* two awaits.                                                             *)
(***************************************************************************)
EXTENDS Naturals, FiniteSets, UnitLifecycle

CONSTANTS
    MaxAttempts,     \* max(1, settings.restart_budget)
    PreLaunch,       \* the pre-launch scripts the server has
    Checks,          \* the health checks an operator may configure
    Periodic,        \* those of them with an interval
    NoCheck,         \* no health check configured
    CleanupMayRaise, \* may _cleanup_attempt raise?
    PipeMayBeHeld    \* may a descendant outlive the bridge and hold its stdout?

ASSUME UnitAssumptions ==
    /\ MaxAttempts \in Nat \ {0}
    /\ PreLaunch \subseteq {"checkout", "setup"}
    /\ Periodic \subseteq Checks
    /\ NoCheck \notin Checks
    /\ CleanupMayRaise \in BOOLEAN
    /\ PipeMayBeHeld \in BOOLEAN

VARIABLES
    state, health_failing,   \* what the supervisor and the proxy read
    startup_status,          \* the phase shown while starting, or "none"
    port, port_released,     \* self.port # None, self._port_released
    freed,                   \* how often the allocator was handed the port back
    proc, setup_proc,        \* self.proc (0 is None), self.setup_proc # None
    bridges,                 \* the live bridge processes
    script,                  \* is a process alive of the group setup_proc leads?
    strays,                  \* one of a script that had come to its own end?
    pipe_held,               \* a descendant holds the bridge's stdout open
    attempt,                 \* the attempt under way
    task,                    \* where the activation task is
    cancelled, task_raised,  \* a cancel not yet delivered; it ended by raising
    clean,                   \* the step of the _cleanup_attempt under way
    stopping, stopper,       \* self._stopping; where stop() is
    health_check,            \* the health check the supervisor last handed in
    checking                 \* the periodic checks that run

published == <<state, health_failing, startup_status>>
portvars  == <<port, port_released, freed>>
osvars    == <<proc, setup_proc, bridges, script, strays, pipe_held>>
taskvars  == <<attempt, task, cancelled, task_raised>>
stopvars  == <<stopping, stopper>>
checkvars == <<health_check, checking>>
vars == <<published, portvars, osvars, taskvars, clean, stopvars, checkvars>>

Attempts == 1 .. MaxAttempts
Phases == {"none", "queued", "checkout", "setup", "bridge", "readiness", "health", "retry_wait"}
Handlers == {"fail_cleanup", "stable_cleanup", "cancel_cleanup", "crash_cleanup"}
TaskPoints == {"none", "created", "checkout", "setup", "script_kill", "bridge", "document",
               "readiness", "health", "running", "stable", "drain", "stable_drain",
               "retry_wait", "stable_wait", "done"} \cup Handlers
RunningChecks == [check : Checks, proc : Attempts, cancelled : BOOLEAN]

TypeOK ==
    /\ state \in UnitStates /\ health_failing \in BOOLEAN /\ startup_status \in Phases
    /\ port \in BOOLEAN /\ port_released \in BOOLEAN /\ freed \in Nat
    /\ proc \in {0} \cup Attempts /\ setup_proc \in BOOLEAN
    /\ bridges \subseteq Attempts /\ script \in BOOLEAN /\ strays \in BOOLEAN
    /\ pipe_held \in BOOLEAN
    /\ attempt \in {0} \cup Attempts /\ task \in TaskPoints
    /\ cancelled \in BOOLEAN /\ task_raised \in BOOLEAN
    /\ clean \in {"off", "checks", "script", "bridge", "reap"}
    /\ stopping \in BOOLEAN /\ stopper \in {"idle", "awaiting", "cleanup", "stopped", "raised"}
    /\ health_check \in Checks \cup {NoCheck} /\ checking \subseteq RunningChecks

Init ==
    /\ state = "stopped" /\ health_failing = FALSE /\ startup_status = "none"
    /\ port = FALSE /\ port_released = TRUE /\ freed = 0
    /\ proc = 0 /\ setup_proc = FALSE /\ bridges = {} /\ script = FALSE
    /\ strays = FALSE /\ pipe_held = FALSE
    /\ attempt = 0 /\ task = "none" /\ cancelled = FALSE /\ task_raised = FALSE
    /\ clean = "off"
    /\ stopping = FALSE /\ stopper = "idle"
    /\ health_check \in Checks \cup {NoCheck} /\ checking = {}

-----------------------------------------------------------------------------
(* Helpers the handlers share.                                             *)

SetState(s) == state' = s /\ health_failing' = FALSE

\* Idempotent: the second call of a unit never reaches the allocator, whose
\* port may by then be another unit's.
ReleasePort ==
    /\ port' = FALSE
    /\ port_released' = TRUE
    /\ freed' = IF ~port_released /\ port THEN freed + 1 ELSE freed

BridgeAlive == proc \in bridges /\ port

HealthCheckable ==
    BridgeAlive /\ (state = "running" \/ (state = "unhealthy" /\ health_failing))

\* The phase after `done`, in the order _run_attempt runs them.
PhaseAfter(done) ==
    CASE done = "start" /\ "checkout" \in PreLaunch -> "checkout"
      [] done \in {"start", "checkout"} /\ "setup" \in PreLaunch -> "setup"
      [] OTHER -> "bridge"

\* A script phase shows "starting" again; the launch only its own status.
EnterPhase(phase) ==
    /\ task' = phase /\ startup_status' = phase
    /\ IF phase = "bridge" THEN UNCHANGED <<state, health_failing>> ELSE SetState("starting")

\* _AttemptFailed reaches _run_activation: nothing is advertised any more,
\* then the attempt is cleaned up.
AttemptFailed ==
    /\ SetState("starting")
    /\ task' = "fail_cleanup" /\ clean' = "checks"

\* Any other exception reaches the outer handler; the published state stays.
ActivationCrashed == task' = "crash_cleanup" /\ clean' = "checks"

\* The activation task runs its next step unless a cancel awaits delivery.
At(points) == task \in points /\ ~cancelled

-----------------------------------------------------------------------------
(* The activation task.                                                    *)

Start ==
    /\ task = "none" /\ stopper = "idle"
    /\ port' = TRUE /\ port_released' = FALSE
    /\ stopping' = FALSE
    /\ SetState("starting") /\ startup_status' = "queued"
    /\ task' = "created"
    /\ UNCHANGED <<freed, osvars, attempt, cancelled, task_raised, clean, stopper, checkvars>>

NextAttempt == attempt + 1

\* The top of the retry loop: a new attempt, straight into its first phase.
BeginAttempt ==
    /\ At({"created", "retry_wait"})
    /\ ~stopping
    /\ attempt' = NextAttempt
    /\ EnterPhase(PhaseAfter("start"))
    /\ UNCHANGED <<portvars, osvars, cancelled, task_raised, clean, stopvars, checkvars>>

\* /bin/sh of the checkout or setup phase comes up in its own session.
SpawnScript ==
    /\ At({"checkout", "setup"}) /\ ~setup_proc
    /\ setup_proc' = TRUE /\ script' = TRUE
    /\ UNCHANGED <<published, portvars, proc, bridges, strays, pipe_held, taskvars, clean, stopvars,
                   checkvars>>

\* The shell exited and its stdout is closed: the handle is dropped, nothing is
\* killed.  A background process of its group that let go of stdout lives on.
ScriptEnded ==
    /\ setup_proc /\ setup_proc' = FALSE /\ script' = FALSE
    /\ strays' = TRUE \/ UNCHANGED strays

ScriptSucceeds ==
    /\ At({"checkout", "setup"})
    /\ ScriptEnded
    /\ EnterPhase(PhaseAfter(task))
    /\ UNCHANGED <<portvars, proc, bridges, pipe_held, attempt, cancelled, task_raised, clean,
                   stopvars, checkvars>>

\* A non-zero exit is an end like any other; a script whose log could not be
\* read (a line past the stream limit is a ValueError) leaves its group, and one
\* that could not be spawned leaves nothing, to the cleanup.
ScriptFails ==
    /\ At({"checkout", "setup"})
    /\ ScriptEnded \/ UNCHANGED <<setup_proc, script, strays>>
    /\ AttemptFailed
    /\ UNCHANGED <<startup_status, portvars, proc, bridges, pipe_held, attempt, cancelled,
                   task_raised, stopvars, checkvars>>

\* The phase's deadline passed: its process group is torn down first.
ScriptTimesOut ==
    /\ At({"checkout", "setup"})
    /\ task' = "script_kill"
    /\ UNCHANGED <<published, portvars, osvars, attempt, cancelled, task_raised, clean, stopvars,
                   checkvars>>

ScriptKilled ==
    /\ At({"script_kill"})
    /\ setup_proc' = FALSE /\ script' = FALSE
    /\ AttemptFailed
    /\ UNCHANGED <<startup_status, portvars, proc, bridges, strays, pipe_held, attempt, cancelled,
                   task_raised, stopvars, checkvars>>

\* _launch_bridge up to the write of the document to the bridge's stdin.
SpawnBridge ==
    /\ At({"bridge"})
    /\ proc' = attempt /\ bridges' = bridges \cup {attempt}
    /\ task' = "document"
    /\ UNCHANGED <<published, portvars, setup_proc, script, strays, pipe_held, attempt, cancelled,
                   task_raised, clean, stopvars, checkvars>>

\* A spawn error, or a launch spec too large for the environment.
BridgeCannotStart ==
    /\ At({"bridge"})
    /\ AttemptFailed
    /\ UNCHANGED <<startup_status, portvars, osvars, attempt, cancelled, task_raised, stopvars,
                   checkvars>>

\* The document is written, the bridge is already gone, or there is none.
DocumentWritten ==
    /\ At({"document"})
    /\ task' = "readiness" /\ startup_status' = "readiness"
    /\ UNCHANGED <<state, health_failing, portvars, osvars, attempt, cancelled, task_raised, clean,
                   stopvars, checkvars>>

\* The bridge does not read its document in time; it exits during readiness;
\* the deadline passes with no answer; the readiness health check fails.
StartupFails ==
    /\ At({"document", "readiness", "health"})
    /\ AttemptFailed
    /\ UNCHANGED <<startup_status, portvars, osvars, attempt, cancelled, task_raised, stopvars,
                   checkvars>>

EnterRunning ==
    /\ SetState("running") /\ startup_status' = "none" /\ task' = "running"

\* A probe answered and the bridge had not exited.
ProbeAnswered ==
    /\ At({"readiness"}) /\ proc \in bridges
    /\ IF health_check = NoCheck
       THEN EnterRunning
       ELSE /\ startup_status' = "health" /\ task' = "health"
            /\ UNCHANGED <<state, health_failing>>
    /\ UNCHANGED <<portvars, osvars, attempt, cancelled, task_raised, clean, stopvars, checkvars>>

\* Nothing watches for the bridge's exit while the readiness check runs.
ReadinessCheckPasses ==
    /\ At({"health"})
    /\ EnterRunning
    /\ UNCHANGED <<portvars, osvars, attempt, cancelled, task_raised, clean, stopvars, checkvars>>

\* restart_stable_s passed before the bridge's exit: the retry budget is whole.
StableReached ==
    /\ At({"running"}) /\ proc \in bridges
    /\ task' = "stable"
    /\ UNCHANGED <<published, portvars, osvars, attempt, cancelled, task_raised, clean, stopvars,
                   checkvars>>

\* _wait_for_bridge_exit saw the exit; it still awaits the end of the log.
BridgeExitSeen ==
    /\ At({"running", "stable"}) /\ proc \notin bridges
    /\ task' = IF task = "stable" THEN "stable_drain" ELSE "drain"
    /\ UNCHANGED <<published, portvars, osvars, attempt, cancelled, task_raised, clean, stopvars,
                   checkvars>>

UnstableRunEnds ==
    /\ At({"drain"}) /\ ~pipe_held
    /\ AttemptFailed
    /\ UNCHANGED <<startup_status, portvars, osvars, attempt, cancelled, task_raised, stopvars,
                   checkvars>>

\* The published state stays what it was until the cleanup is over.
StableRunEnds ==
    /\ At({"stable_drain"}) /\ ~pipe_held
    /\ task' = "stable_cleanup" /\ clean' = "checks"
    /\ UNCHANGED <<published, portvars, osvars, attempt, cancelled, task_raised, stopvars, checkvars>>

\* An exception nobody turns into _AttemptFailed (the checkout's parent cannot
\* be made, the launch payload cannot be built).
UnexpectedError ==
    /\ At({"checkout", "bridge"}) /\ ~setup_proc
    /\ ActivationCrashed
    /\ UNCHANGED <<published, portvars, osvars, attempt, cancelled, task_raised, stopvars, checkvars>>

-----------------------------------------------------------------------------
(* _cleanup_attempt, run by the activation task's handlers and by stop();  *)
(* never by both, for stop() first awaits the task.                        *)

Cleaning == clean # "off" /\ (At(Handlers) \/ stopper = "cleanup")

\* _cancel_health_check: the check is cancelled and awaited, ...
CancelChecks ==
    /\ Cleaning /\ clean = "checks"
    /\ \E c \in checking : ~c.cancelled
    /\ checking' = {[c EXCEPT !.cancelled = TRUE] : c \in checking}
    /\ UNCHANGED <<published, portvars, osvars, taskvars, clean, stopvars, health_check>>

ChecksGone ==
    /\ Cleaning /\ clean = "checks" /\ checking = {}
    /\ clean' = "script"
    /\ UNCHANGED <<published, portvars, osvars, taskvars, stopvars, checkvars>>

\* ... then the script's whole process group and the bridge are terminated, ...
TerminateScript ==
    /\ Cleaning /\ clean = "script"
    /\ script' = FALSE
    /\ clean' = "bridge"
    /\ UNCHANGED <<published, portvars, proc, setup_proc, bridges, strays, pipe_held, taskvars,
                   stopvars, checkvars>>

\* Mutant: the handles are dropped, the bridge is not terminated.
ForgetBridge ==
    /\ Cleaning /\ clean = "bridge"
    /\ proc' = 0 /\ setup_proc' = FALSE /\ pipe_held' = FALSE
    /\ clean' = "reap"
    /\ UNCHANGED <<published, portvars, bridges, script, strays, taskvars, stopvars, checkvars>>

\* ... both handles are dropped, and a container may be left to reap.
TerminateBridge ==
    /\ Cleaning /\ clean = "bridge"
    /\ bridges' = bridges \ {proc}
    /\ proc' = 0 /\ setup_proc' = FALSE /\ pipe_held' = FALSE
    /\ clean' = "reap"
    /\ UNCHANGED <<published, portvars, script, strays, taskvars, stopvars, checkvars>>

\* The end of a cleanup, for each of the handlers that awaits it.
CleanedBy(handler) ==
    /\ At({handler}) /\ clean = "reap"
    /\ clean' = "off"

BudgetSpent == attempt >= MaxAttempts

\* The last attempt failed for good, or the next one waits out its backoff.
FailCleanupDone ==
    /\ CleanedBy("fail_cleanup")
    /\ IF stopping
       THEN task' = "done" /\ UNCHANGED <<published, portvars>>
       ELSE IF BudgetSpent
       THEN task' = "done" /\ ReleasePort /\ SetState("failed") /\ startup_status' = "none"
       ELSE /\ task' = "retry_wait" /\ SetState("starting") /\ startup_status' = "retry_wait"
            /\ UNCHANGED portvars
    /\ UNCHANGED <<osvars, attempt, cancelled, task_raised, stopvars, checkvars>>

StableCleanupDone ==
    /\ CleanedBy("stable_cleanup")
    /\ ReleasePort
    /\ SetState("starting") /\ startup_status' = "retry_wait"
    /\ task' = "stable_wait"
    /\ UNCHANGED <<osvars, attempt, cancelled, task_raised, stopvars, checkvars>>

\* The pause is over: the reconciler sees "unhealthy" and starts a new unit.
StableWaitOver ==
    /\ At({"stable_wait"}) /\ ~stopping
    /\ SetState("unhealthy") /\ startup_status' = "none"
    /\ task' = "done"
    /\ UNCHANGED <<portvars, osvars, attempt, cancelled, task_raised, clean, stopvars, checkvars>>

\* Mutant: a cancelled activation publishes a failure on its way out.
CancelPublishesFailed ==
    /\ CleanedBy("cancel_cleanup")
    /\ task' = "done"
    /\ SetState("failed")
    /\ UNCHANGED <<startup_status, portvars, osvars, attempt, cancelled, task_raised, stopvars, checkvars>>

CancelCleanupDone ==
    /\ CleanedBy("cancel_cleanup")
    /\ task' = "done"
    /\ UNCHANGED <<published, portvars, osvars, attempt, cancelled, task_raised, stopvars, checkvars>>

\* Mutant: a crashed activation keeps its port.
CrashKeepsPort ==
    /\ CleanedBy("crash_cleanup")
    /\ task' = "done"
    /\ IF stopping THEN UNCHANGED published ELSE SetState("failed") /\ startup_status' = "none"
    /\ UNCHANGED <<portvars, osvars, attempt, cancelled, task_raised, stopvars, checkvars>>

CrashCleanupDone ==
    /\ CleanedBy("crash_cleanup")
    /\ task' = "done"
    /\ IF stopping
       THEN UNCHANGED <<published, portvars>>
       ELSE ReleasePort /\ SetState("failed") /\ startup_status' = "none"
    /\ UNCHANGED <<osvars, attempt, cancelled, task_raised, stopvars, checkvars>>

\* A cleanup raises: out of the retry loop it is a crash of the activation,
\* out of a handler it ends the task, out of stop() it reaches the supervisor.
CleanupRaises ==
    /\ CleanupMayRaise /\ Cleaning /\ clean \in {"script", "bridge", "reap"}
    /\ IF stopper = "cleanup"
       THEN stopper' = "raised" /\ clean' = "off" /\ UNCHANGED <<task, task_raised>>
       ELSE /\ UNCHANGED stopper
            /\ IF task \in {"fail_cleanup", "stable_cleanup"}
               THEN ActivationCrashed /\ UNCHANGED task_raised
               ELSE task' = "done" /\ task_raised' = TRUE /\ clean' = "off"
    /\ UNCHANGED <<published, portvars, osvars, attempt, cancelled, stopping, checkvars>>

-----------------------------------------------------------------------------
(* stop(), called by the supervisor.                                       *)

\* Mutant: stop() awaits the activation task without cancelling it.
StopWithoutCancel ==
    /\ task # "none" /\ stopper \in {"idle", "raised"}
    /\ stopping' = TRUE
    /\ SetState("stopping") /\ startup_status' = "none"
    /\ IF task # "done"
       THEN stopper' = "awaiting" /\ UNCHANGED clean
       ELSE stopper' = "cleanup" /\ clean' = "checks"
    /\ UNCHANGED <<portvars, osvars, taskvars, checkvars>>

Stop ==
    /\ task # "none" /\ stopper \in {"idle", "raised"}
    /\ stopping' = TRUE
    /\ SetState("stopping") /\ startup_status' = "none"
    /\ IF task # "done"
       THEN cancelled' = TRUE /\ stopper' = "awaiting" /\ UNCHANGED clean
       ELSE stopper' = "cleanup" /\ clean' = "checks" /\ UNCHANGED cancelled
    /\ UNCHANGED <<portvars, osvars, attempt, task, task_raised, checkvars>>

\* CancelledError at the task's await.  Before its first step, or out of a
\* handler that already runs, it ends the task; elsewhere it is caught.
DeliverCancel ==
    /\ cancelled /\ cancelled' = FALSE
    /\ IF task \in {"created", "cancel_cleanup", "crash_cleanup"}
       THEN task' = "done" /\ clean' = "off"
       ELSE task' = "cancel_cleanup" /\ clean' = "checks"
    /\ UNCHANGED <<published, portvars, osvars, attempt, task_raised, stopvars, checkvars>>

\* stop() resumes when the task is over; only CancelledError is suppressed.
TaskAwaited ==
    /\ stopper = "awaiting" /\ task = "done"
    /\ IF task_raised
       THEN stopper' = "raised" /\ UNCHANGED clean
       ELSE stopper' = "cleanup" /\ clean' = "checks"
    /\ UNCHANGED <<published, portvars, osvars, taskvars, stopping, checkvars>>

StopDone ==
    /\ stopper = "cleanup" /\ clean = "reap"
    /\ clean' = "off"
    /\ ReleasePort
    /\ SetState("stopped") /\ UNCHANGED startup_status
    /\ stopper' = "stopped"
    /\ UNCHANGED <<osvars, taskvars, stopping, checkvars>>

-----------------------------------------------------------------------------
(* The periodic health check.                                              *)

NoCheckUnderWay == \A c \in checking : c.cancelled

\* The supervisor calls it on every pass, never while it awaits a stop() of
\* this unit; a due check becomes a task of its own.
TickHealthCheck(check) ==
    /\ task # "none" /\ stopper \in {"idle", "raised"}
    /\ health_check' = check
    /\ IF check \in Periodic
       THEN /\ UNCHANGED <<state, health_failing>>
            /\ \/ UNCHANGED checking
               \/ /\ ~stopping /\ HealthCheckable
                  /\ NoCheckUnderWay
                  /\ checking' = checking \cup {[check |-> check, proc |-> proc, cancelled |-> FALSE]}
       ELSE /\ UNCHANGED checking
            /\ IF health_failing /\ ~stopping /\ HealthCheckable
               THEN SetState("running")
               ELSE UNCHANGED <<state, health_failing>>
    /\ UNCHANGED <<startup_status, portvars, osvars, taskvars, clean, stopvars>>

\* Mutant: the verdict of a check that was edited meanwhile still counts.
JudgeByAnyCheck(c, passed) ==
    IF stopping \/ proc # c.proc \/ ~HealthCheckable
    THEN UNCHANGED <<state, health_failing>>
    ELSE IF ~passed
    THEN state' = "unhealthy" /\ health_failing' = TRUE
    ELSE IF health_failing THEN SetState("running") ELSE UNCHANGED <<state, health_failing>>

\* A periodic check ends with a verdict on the bridge it was started for.
Judge(c, passed) ==
    IF c.check # health_check \/ stopping \/ proc # c.proc \/ ~HealthCheckable
    THEN UNCHANGED <<state, health_failing>>
    ELSE IF ~passed
    THEN state' = "unhealthy" /\ health_failing' = TRUE
    ELSE IF health_failing THEN SetState("running") ELSE UNCHANGED <<state, health_failing>>

\* A check's own command is ended with its process group before the check
\* leaves `checking`: nothing of it outlives this step.
CheckEnds ==
    /\ \E c \in checking :
          /\ checking' = checking \ {c}
          /\ IF c.cancelled
             THEN UNCHANGED <<state, health_failing>>
             ELSE \E passed \in BOOLEAN : Judge(c, passed)
    /\ UNCHANGED <<startup_status, portvars, osvars, taskvars, clean, stopvars, health_check>>

-----------------------------------------------------------------------------
(* The operating system: processes end when they like.                     *)

BridgeDies ==
    /\ \E b \in bridges : bridges' = bridges \ {b}
    /\ pipe_held' \in IF PipeMayBeHeld THEN BOOLEAN ELSE {FALSE}
    /\ UNCHANGED <<published, portvars, proc, setup_proc, script, strays, taskvars, clean, stopvars,
                   checkvars>>

PipeCloses ==
    /\ pipe_held /\ pipe_held' = FALSE
    /\ UNCHANGED <<published, portvars, proc, setup_proc, bridges, script, strays, taskvars, clean,
                   stopvars, checkvars>>

\* Nothing of the unit ever ends a stray: it ends by itself, or not.
StraysEnd ==
    /\ strays /\ strays' = FALSE
    /\ UNCHANGED <<published, portvars, proc, setup_proc, bridges, script, pipe_held, taskvars,
                   clean, stopvars, checkvars>>

-----------------------------------------------------------------------------
Attempting == BeginAttempt \/ SpawnScript \/ ScriptSucceeds \/ ScriptFails \/ ScriptTimesOut
              \/ ScriptKilled \/ SpawnBridge \/ BridgeCannotStart \/ DocumentWritten
              \/ StartupFails \/ ProbeAnswered \/ ReadinessCheckPasses \/ UnexpectedError

Watching == StableReached \/ BridgeExitSeen \/ UnstableRunEnds \/ StableRunEnds \/ StableWaitOver

CleaningUp == CancelChecks \/ ChecksGone \/ TerminateScript \/ TerminateBridge \/ FailCleanupDone
              \/ StableCleanupDone \/ CancelCleanupDone \/ CrashCleanupDone

StopProceeds == DeliverCancel \/ TaskAwaited \/ StopDone

Tick == \E check \in Checks \cup {NoCheck} : TickHealthCheck(check)

Next ==
    \/ Start \/ Attempting \/ Watching
    \/ CleaningUp \/ CleanupRaises
    \/ Stop \/ StopProceeds
    \/ Tick \/ CheckEnds
    \/ BridgeDies \/ PipeCloses \/ StraysEnd

Spec == Init /\ [][Next]_vars

\* The event loop runs every task that is ready, and each await of a startup
\* has a deadline.  Nothing makes a bridge, a pipe or an operator move.
FairSpec ==
    /\ Spec
    /\ WF_vars(Attempting) /\ WF_vars(Watching)
    /\ WF_vars(CleaningUp) /\ WF_vars(StopProceeds) /\ WF_vars(CheckEnds)

-----------------------------------------------------------------------------
(* Properties.                                                             *)

\* Every live bridge process is the one the unit has its handle on: no retry,
\* stop, crash or cancellation at any await leaves one running that the next
\* cleanup could not reach, or launches a second beside it.
NoOrphanBridge == bridges \subseteq {proc}

\* The port goes back to the allocator at most once in a unit's life and only
\* when its bridge is dead, whichever of the four paths that release it runs:
\* another unit may be given the number the moment it is free.
PortReturnedOnceAndDead ==
    /\ freed <= 1
    /\ bridges # {} => port
    /\ task # "none" => (port <=> freed = 0) /\ (port_released <=> ~port)

\* When stop() returned, or the activation task ended on its own, no bridge, no
\* health check and nothing of a script that was cut short (by its deadline, by
\* stop() at any await, by an unreadable log) is left, its whole process group
\* included.  Not claimed, for the code does not do it: what a script that came
\* to its own end left in the background (`strays`) has no handle any more and
\* outlives the unit; a child of a bridge that died by itself may too.
EndsWithNothingRunning ==
    stopper = "stopped" \/ (task = "done" /\ stopper = "idle" /\ ~task_raised)
        => bridges = {} /\ ~script /\ checking = {}

\* At most one periodic check runs, and against the bridge the unit has now:
\* _cleanup_attempt forgets the check's task before it ended, so only the
\* published state keeps the next tick from starting a second.
OneCheckOfThisBridge ==
    /\ Cardinality(checking) <= 1
    /\ \A c \in checking : c.proc = proc

\* A phase is shown only while the unit is starting: Supervisor.retry refuses a
\* unit that shows one, so one left behind would make a failure unretryable.
PhaseOnlyWhileStarting == startup_status # "none" => state = "starting"

\* From the moment stop() is called nothing but the end of stop() changes the
\* published state: a late verdict, a retry or a crash of the activation that
\* was already under way cannot bring the unit back.
StopSticks == [][stopping => state' \in {state, "stopping", "stopped"}
                             /\ (state' = "stopped" => bridges' = {})]_vars

\* Only a verdict of the check that is configured now, on the process that
\* serves now, marks a unit unhealthy.
VerdictIsCurrent ==
    [][health_failing' /\ ~health_failing =>
          /\ state = "running" /\ ~stopping /\ proc \in bridges
          /\ \E c \in checking : c.check = health_check /\ c.proc = proc /\ ~c.cancelled]_vars

\* Whatever await a stop, a failure or a raising cleanup found the activation at,
\* nothing it still answers for is lost: no process without a handle, no port freed early or
\* twice, no check of an earlier bridge, no phase that keeps a failure unretryable.
NothingLeaks ==
    /\ TypeOK /\ NoOrphanBridge /\ PortReturnedOnceAndDead /\ EndsWithNothingRunning
    /\ OneCheckOfThisBridge /\ PhaseOnlyWhileStarting

\* The four facts the supervisor reads change as UnitContract allows.
Contract == INSTANCE UnitContract WITH
    life <- [state |-> state, hf |-> health_failing, port |-> port, live |-> bridges # {}]
ImplementsContract == Contract!Spec

\* Every startup comes to an end: running, failed, handed to the reconciler, or
\* in an activation whose own last cleanup raised.
StartupSettles == (state = "starting") ~> (state # "starting" \/ task_raised)

\* A stop() returns or raises, at whatever await it found the task.
StopReturns == (stopper \in {"awaiting", "cleanup"}) ~> (stopper \in {"stopped", "raised"})

\* "exits before a stable run retry the full attempt": a unit whose bridge is
\* dead does not stay advertised.
DeadIsNotAdvertised ==
    (state = "running" /\ bridges = {}) ~> (state # "running" \/ bridges # {} \/ task_raised)

\* An exit is noticed unless a descendant holds the dead bridge's stdout for ever.
ExitIsNoticed == <>[]pipe_held \/ DeadIsNotAdvertised

\* Every startup, every stop() and every exit of the bridge comes to its end,
\* wherever it was interrupted (_run, stop, _wait_for_bridge_exit).
Settles == StartupSettles /\ StopReturns /\ ExitIsNoticed
=============================================================================
