-------------------------- MODULE ServerUnitProofs --------------------------
(***************************************************************************)
(* Proofs about ServerUnit, for every retry budget, every set of health    *)
(* checks and every combination of pre-launch scripts, with cleanups that  *)
(* may raise and pipes that may be held; and, in the last part, about the  *)
(* checkout of a repository (RepoCheckout) that an activation starts with. *)
(***************************************************************************)
EXTENDS ServerUnit, RepoCheckout, FiniteSetTheorems, TLAPS

-----------------------------------------------------------------------------
(* The inductive invariant, by what its parts are about.                   *)

\* Points of the activation task at which the unit has no bridge handle.
Bridgeless == {"none", "created", "checkout", "setup", "script_kill", "bridge", "retry_wait",
               "stable_wait"}

\* Points at which the unit still owns its port.
PortHolding == {"created", "checkout", "setup", "script_kill", "bridge", "document", "readiness",
                "health", "running", "stable", "drain", "stable_drain", "retry_wait",
                "fail_cleanup", "stable_cleanup", "crash_cleanup"}

\* Points at which the published state is "starting", unless stop() was called.
ShownStarting == {"created", "checkout", "setup", "script_kill", "bridge", "document",
                  "readiness", "health", "retry_wait", "fail_cleanup"}

\* Who may be where: stop() cleans up only after the activation task ended, a
\* cleanup has exactly one owner, and a cancel waits only inside stop().
Control ==
    /\ stopper \in {"cleanup", "stopped", "raised"} => task = "done"
    /\ stopper # "idle" <=> stopping
    /\ clean # "off" <=> task \in Handlers \/ stopper = "cleanup"
    /\ cancelled => stopper = "awaiting" /\ task # "done"
    /\ stopping => cancelled \/ task \in {"cancel_cleanup", "done"}
    /\ task = "none" => ~stopping
    /\ task = "cancel_cleanup" => stopping

Budget ==
    /\ task \in {"none", "created"} => attempt = 0
    /\ task \in {"checkout", "setup", "bridge"} => attempt \in Attempts
    /\ task = "retry_wait" => attempt < MaxAttempts

Handles ==
    /\ bridges \subseteq {proc}
    /\ task \in Bridgeless \/ clean = "reap" => proc = 0 /\ bridges = {}
    /\ clean \in {"bridge", "reap"} \/ task = "stable_wait" => ~script
    /\ stopper = "stopped" \/ (task = "done" /\ stopper = "idle" /\ ~task_raised)
          => proc = 0 /\ bridges = {} /\ ~script /\ checking = {}

PortHeld ==
    /\ task = "none" => port = FALSE /\ port_released /\ freed = 0
    /\ task # "none" => (port <=> freed = 0) /\ (port_released <=> ~port)
    /\ freed <= 1
    /\ task \in PortHolding => port
    /\ bridges # {} => port

Shown ==
    /\ startup_status # "none" => state = "starting"
    /\ stopping => startup_status = "none" /\ state \in {"stopping", "stopped"}
    /\ stopping /\ state = "stopped" => stopper = "stopped"
    /\ task \in ShownStarting /\ ~stopping => state = "starting"
    /\ task = "none" => state = "stopped"

\* Points past the bridge's first answer.
Serving == {"running", "stable", "drain", "stable_drain", "stable_cleanup"}

\* Only a bridge that is waited for is health-checked.
Served ==
    state \in {"running", "unhealthy"} /\ proc \in bridges /\ ~stopping
        => task \in {"running", "stable"}

OneCheck ==
    /\ \A c, d \in checking : c = d
    /\ \A c \in checking : c.proc = proc
    /\ \A c \in checking : c.cancelled => stopping \/ clean = "checks"
    /\ task \in Bridgeless \/ clean \in {"script", "bridge", "reap"} => checking = {}

\* What is on show while a bridge is waited for, and until its end is cleaned up.
Advertised ==
    /\ state # "unhealthy" => health_failing = FALSE
    /\ task \in Serving /\ ~stopping => state = "running" \/ health_failing
    /\ task = "crash_cleanup" /\ ~stopping => state \in {"starting", "running"} \/ health_failing
    /\ task \in {"drain", "stable_drain", "stable_cleanup"} => bridges = {}
    /\ task = "stable_wait" => ~port
    /\ task = "stable_wait" /\ ~stopping => state = "starting"

\* TypeOK, split by the kind of value, for each kind needs its own provers.
PointsTyped ==
    /\ state \in UnitStates /\ startup_status \in Phases /\ task \in TaskPoints
    /\ clean \in {"off", "checks", "script", "bridge", "reap"}
    /\ stopper \in {"idle", "awaiting", "cleanup", "stopped", "raised"}

FlagsTyped ==
    /\ health_failing \in BOOLEAN /\ port \in BOOLEAN /\ port_released \in BOOLEAN
    /\ setup_proc \in BOOLEAN /\ script \in BOOLEAN /\ strays \in BOOLEAN /\ pipe_held \in BOOLEAN
    /\ cancelled \in BOOLEAN /\ task_raised \in BOOLEAN /\ stopping \in BOOLEAN

CountersTyped ==
    /\ freed \in Nat /\ attempt \in {0} \cup Attempts
    /\ proc \in {0} \cup Attempts /\ bridges \subseteq Attempts

ChecksTyped == health_check \in Checks \cup {NoCheck} /\ checking \subseteq RunningChecks

Typed == PointsTyped /\ FlagsTyped /\ CountersTyped /\ ChecksTyped

\* The inductive invariant: no part is inductive without some of the others.
IInv == Typed /\ Control /\ Budget /\ Handles /\ PortHeld /\ Shown /\ Served /\ Advertised
        /\ OneCheck

-----------------------------------------------------------------------------
\* Whatever ran before, the next phase of an attempt is one of the three.
LEMMA PhaseAfterIsAPhase ==
    ASSUME NEW done PROVE PhaseAfter(done) \in {"checkout", "setup", "bridge"}
BY DEF PhaseAfter

\* The helpers the actions are built from, and the groups of variables, are
\* expanded in every proof below.
USE DEF SetState, ReleasePort, BridgeAlive, HealthCheckable, EnterPhase, AttemptFailed,
        ActivationCrashed, At, ScriptEnded, Handlers, Cleaning, CleanedBy, BudgetSpent, NextAttempt,
        EnterRunning, NoCheckUnderWay, Judge, TickHealthCheck, published, portvars,
        osvars, taskvars, stopvars, checkvars

\* Every handler moves state, phase, task, cleanup and stop() among their points.
LEMMA PointsTypedStep ==
    PointsTyped /\ [Next]_vars => PointsTyped'
<1> SUFFICES ASSUME PointsTyped, [Next]_vars PROVE PointsTyped'
  OBVIOUS
<1> USE UnitAssumptions, PhaseAfterIsAPhase DEF PointsTyped, UnitStates, Phases,
        TaskPoints
<1>1. CASE Start
  BY <1>1, SMTT(30) DEF Start
<1>2. CASE Attempting
  BY <1>2, SMTT(30) DEF Attempting, BeginAttempt, SpawnScript, ScriptSucceeds,
     ScriptFails, ScriptTimesOut, ScriptKilled, SpawnBridge, BridgeCannotStart,
     DocumentWritten, StartupFails, ProbeAnswered, ReadinessCheckPasses, UnexpectedError
<1>3. CASE Watching
  BY <1>3, SMTT(30) DEF Watching, StableReached, BridgeExitSeen, UnstableRunEnds,
     StableRunEnds, StableWaitOver
<1>4. CASE CleaningUp
  BY <1>4, SMTT(30) DEF CleaningUp, CancelChecks, ChecksGone, TerminateScript,
     TerminateBridge, FailCleanupDone, StableCleanupDone, CancelCleanupDone,
     CrashCleanupDone
<1>5. CASE CleanupRaises
  BY <1>5, SMTT(30) DEF CleanupRaises
<1>6. CASE Stop
  BY <1>6, SMTT(30) DEF Stop
<1>7. CASE StopProceeds
  BY <1>7, SMTT(30) DEF StopProceeds, DeliverCancel, TaskAwaited, StopDone
<1>8. CASE Tick
  BY <1>8, SMTT(30) DEF Tick
<1>9. CASE CheckEnds
  BY <1>9, SMTT(30) DEF CheckEnds
<1>10. CASE BridgeDies
  BY <1>10, SMTT(30) DEF BridgeDies
<1>11. CASE PipeCloses \/ StraysEnd
  BY <1>11, SMTT(30) DEF PipeCloses, StraysEnd
<1>12. CASE UNCHANGED vars
  BY <1>12, SMTT(30) DEF vars
<1> QED BY <1>1, <1>2, <1>3, <1>4, <1>5, <1>6, <1>7, <1>8, <1>9, <1>10, <1>11, <1>12 DEF
       Next

\* Flags stay Boolean whatever a step does.
LEMMA FlagsTypedStep ==
    FlagsTyped /\ [Next]_vars => FlagsTyped'
<1> SUFFICES ASSUME FlagsTyped, [Next]_vars PROVE FlagsTyped'
  OBVIOUS
<1> USE UnitAssumptions, PhaseAfterIsAPhase DEF FlagsTyped
<1>1. CASE Start
  BY <1>1, ZenonT(30) DEF Start
<1>2. CASE Attempting
  BY <1>2, ZenonT(30) DEF Attempting, BeginAttempt, SpawnScript, ScriptSucceeds,
     ScriptFails, ScriptTimesOut, ScriptKilled, SpawnBridge, BridgeCannotStart,
     DocumentWritten, StartupFails, ProbeAnswered, ReadinessCheckPasses, UnexpectedError
<1>3. CASE Watching
  BY <1>3, ZenonT(30) DEF Watching, StableReached, BridgeExitSeen, UnstableRunEnds,
     StableRunEnds, StableWaitOver
<1>4. CASE CleaningUp
  BY <1>4, ZenonT(30) DEF CleaningUp, CancelChecks, ChecksGone, TerminateScript,
     TerminateBridge, FailCleanupDone, StableCleanupDone, CancelCleanupDone,
     CrashCleanupDone
<1>5. CASE CleanupRaises
  BY <1>5, ZenonT(30) DEF CleanupRaises
<1>6. CASE Stop
  BY <1>6, ZenonT(30) DEF Stop
<1>7. CASE StopProceeds
  BY <1>7, ZenonT(30) DEF StopProceeds, DeliverCancel, TaskAwaited, StopDone
<1>8. CASE Tick
  BY <1>8, ZenonT(30) DEF Tick
<1>9. CASE CheckEnds
  BY <1>9, ZenonT(30) DEF CheckEnds
<1>10. CASE BridgeDies
  BY <1>10, ZenonT(30) DEF BridgeDies
<1>11. CASE PipeCloses \/ StraysEnd
  BY <1>11, ZenonT(30) DEF PipeCloses, StraysEnd
<1>12. CASE UNCHANGED vars
  BY <1>12, ZenonT(30) DEF vars
<1> QED BY <1>1, <1>2, <1>3, <1>4, <1>5, <1>6, <1>7, <1>8, <1>9, <1>10, <1>11, <1>12 DEF
       Next

\* A bridge process carries the number of an attempt within the budget: the
\* loop of _run_activation begins one only while some of it is left.
LEMMA CountersTypedStep ==
    CountersTyped /\ Budget /\ [Next]_vars => CountersTyped'
<1> SUFFICES ASSUME CountersTyped, Budget, [Next]_vars PROVE CountersTyped'
  OBVIOUS
<1> USE UnitAssumptions, PhaseAfterIsAPhase DEF CountersTyped, Budget, Attempts
<1>1. CASE Start
  BY <1>1, SMTT(30) DEF Start
<1>2. CASE Attempting
  <2>1. CASE BeginAttempt
    BY <2>1, SMTT(30) DEF BeginAttempt
  <2>2. CASE SpawnScript
    BY <2>2, SMTT(30) DEF SpawnScript
  <2>3. CASE ScriptSucceeds
    BY <2>3, SMTT(30) DEF ScriptSucceeds
  <2>4. CASE ScriptFails
    BY <2>4, SMTT(30) DEF ScriptFails
  <2>5. CASE ScriptTimesOut
    BY <2>5, SMTT(30) DEF ScriptTimesOut
  <2>6. CASE ScriptKilled
    BY <2>6, SMTT(30) DEF ScriptKilled
  <2>7. CASE SpawnBridge
    BY <2>7, SMTT(30) DEF SpawnBridge
  <2>8. CASE BridgeCannotStart
    BY <2>8, SMTT(30) DEF BridgeCannotStart
  <2>9. CASE DocumentWritten
    BY <2>9, SMTT(30) DEF DocumentWritten
  <2>10. CASE StartupFails
    BY <2>10, SMTT(30) DEF StartupFails
  <2>11. CASE ProbeAnswered
    BY <2>11, SMTT(30) DEF ProbeAnswered
  <2>12. CASE ReadinessCheckPasses
    BY <2>12, SMTT(30) DEF ReadinessCheckPasses
  <2>13. CASE UnexpectedError
    BY <2>13, SMTT(30) DEF UnexpectedError
  <2> QED BY <1>2, <2>1, <2>2, <2>3, <2>4, <2>5, <2>6, <2>7, <2>8, <2>9, <2>10, <2>11,
       <2>12, <2>13 DEF Attempting
<1>3. CASE Watching
  <2>1. CASE StableReached
    BY <2>1, SMTT(30) DEF StableReached
  <2>2. CASE BridgeExitSeen
    BY <2>2, SMTT(30) DEF BridgeExitSeen
  <2>3. CASE UnstableRunEnds
    BY <2>3, SMTT(30) DEF UnstableRunEnds
  <2>4. CASE StableRunEnds
    BY <2>4, SMTT(30) DEF StableRunEnds
  <2>5. CASE StableWaitOver
    BY <2>5, SMTT(30) DEF StableWaitOver
  <2> QED BY <1>3, <2>1, <2>2, <2>3, <2>4, <2>5 DEF Watching
<1>4. CASE CleaningUp
  BY <1>4, SMTT(30) DEF CleaningUp, CancelChecks, ChecksGone, TerminateScript,
     TerminateBridge, FailCleanupDone, StableCleanupDone, CancelCleanupDone,
     CrashCleanupDone
<1>5. CASE CleanupRaises
  BY <1>5, SMTT(30) DEF CleanupRaises
<1>6. CASE Stop
  BY <1>6, SMTT(30) DEF Stop
<1>7. CASE StopProceeds
  <2>1. CASE DeliverCancel
    BY <2>1, SMTT(30) DEF DeliverCancel
  <2>2. CASE TaskAwaited
    BY <2>2, SMTT(30) DEF TaskAwaited
  <2>3. CASE StopDone
    BY <2>3, SMTT(30) DEF StopDone
  <2> QED BY <1>7, <2>1, <2>2, <2>3 DEF StopProceeds
<1>8. CASE Tick
  BY <1>8, SMTT(30) DEF Tick
<1>9. CASE CheckEnds
  BY <1>9, SMTT(30) DEF CheckEnds
<1>10. CASE BridgeDies
  BY <1>10, SMTT(30) DEF BridgeDies
<1>11. CASE PipeCloses \/ StraysEnd
  <2>1. CASE PipeCloses
    BY <2>1, SMTT(30) DEF PipeCloses
  <2>2. CASE StraysEnd
    BY <2>2, SMTT(30) DEF StraysEnd
  <2> QED BY <1>11, <2>1, <2>2
<1>12. CASE UNCHANGED vars
  BY <1>12, SMTT(30) DEF vars
<1> QED BY <1>1, <1>2, <1>3, <1>4, <1>5, <1>6, <1>7, <1>8, <1>9, <1>10, <1>11, <1>12 DEF
       Next

\* A running check is of a configured kind and of some attempt's process.
LEMMA ChecksTypedStep ==
    ChecksTyped /\ CountersTyped /\ [Next]_vars => ChecksTyped'
<1> SUFFICES ASSUME ChecksTyped, CountersTyped, [Next]_vars PROVE ChecksTyped'
  OBVIOUS
<1> USE UnitAssumptions, PhaseAfterIsAPhase DEF ChecksTyped, CountersTyped, RunningChecks,
        Attempts
<1>1. CASE Start
  BY <1>1, SMTT(30) DEF Start
<1>2. CASE Attempting
  BY <1>2, SMTT(30) DEF Attempting, BeginAttempt, SpawnScript, ScriptSucceeds,
     ScriptFails, ScriptTimesOut, ScriptKilled, SpawnBridge, BridgeCannotStart,
     DocumentWritten, StartupFails, ProbeAnswered, ReadinessCheckPasses, UnexpectedError
<1>3. CASE Watching
  BY <1>3, SMTT(30) DEF Watching, StableReached, BridgeExitSeen, UnstableRunEnds,
     StableRunEnds, StableWaitOver
<1>4. CASE CleaningUp
  <2>1. CASE CancelChecks
    <3>1. SUFFICES ASSUME NEW d \in checking' PROVE d \in RunningChecks
      BY <2>1 DEF CancelChecks
    <3>2. PICK c \in checking : d = [c EXCEPT !.cancelled = TRUE]
      BY <2>1 DEF CancelChecks
    <3> QED BY <3>2
  <2>2. CASE ChecksGone
    BY <2>2, SMTT(30) DEF ChecksGone
  <2>3. CASE TerminateScript
    BY <2>3, SMTT(30) DEF TerminateScript
  <2>4. CASE TerminateBridge
    BY <2>4, SMTT(30) DEF TerminateBridge
  <2>5. CASE FailCleanupDone
    BY <2>5, SMTT(30) DEF FailCleanupDone
  <2>6. CASE StableCleanupDone
    BY <2>6, SMTT(30) DEF StableCleanupDone
  <2>7. CASE CancelCleanupDone
    BY <2>7, SMTT(30) DEF CancelCleanupDone
  <2>8. CASE CrashCleanupDone
    BY <2>8, SMTT(30) DEF CrashCleanupDone
  <2> QED BY <1>4, <2>1, <2>2, <2>3, <2>4, <2>5, <2>6, <2>7, <2>8 DEF CleaningUp
<1>5. CASE CleanupRaises
  BY <1>5, SMTT(30) DEF CleanupRaises
<1>6. CASE Stop
  BY <1>6, SMTT(30) DEF Stop
<1>7. CASE StopProceeds
  BY <1>7, SMTT(30) DEF StopProceeds, DeliverCancel, TaskAwaited, StopDone
<1>8. CASE Tick
  <2>1. PICK check \in Checks \cup {NoCheck} : TickHealthCheck(check)
    BY <1>8 DEF Tick
  <2>2. health_check' \in Checks \cup {NoCheck}
    BY <2>1
  <2>3. CASE UNCHANGED checking
    BY <2>2, <2>3
  <2>4. CASE check \in Periodic /\ HealthCheckable
             /\ checking' = checking \cup {[check |-> check, proc |-> proc, cancelled |-> FALSE]}
    <3>1. check \in Checks /\ proc \in Attempts
      BY <2>4
    <3>2. [check |-> check, proc |-> proc, cancelled |-> FALSE] \in RunningChecks
      BY <3>1
    <3> QED BY <2>2, <2>4, <3>2
  <2> QED BY <2>1, <2>3, <2>4
<1>9. CASE CheckEnds
  BY <1>9, SMTT(30) DEF CheckEnds
<1>10. CASE BridgeDies
  BY <1>10, SMTT(30) DEF BridgeDies
<1>11. CASE PipeCloses \/ StraysEnd
  BY <1>11, SMTT(30) DEF PipeCloses, StraysEnd
<1>12. CASE UNCHANGED vars
  BY <1>12, SMTT(30) DEF vars
<1> QED BY <1>1, <1>2, <1>3, <1>4, <1>5, <1>6, <1>7, <1>8, <1>9, <1>10, <1>11, <1>12 DEF
       Next

\* stop() and the activation task hand the cleanup over to each other.
LEMMA ControlStep ==
    Control /\ [Next]_vars => Control'
<1> SUFFICES ASSUME Control, [Next]_vars PROVE Control'
  OBVIOUS
<1> USE UnitAssumptions, PhaseAfterIsAPhase DEF Control
<1>1. CASE Start
  BY <1>1, SMTT(30) DEF Start
<1>2. CASE Attempting
  BY <1>2, SMTT(30) DEF Attempting, BeginAttempt, SpawnScript, ScriptSucceeds,
     ScriptFails, ScriptTimesOut, ScriptKilled, SpawnBridge, BridgeCannotStart,
     DocumentWritten, StartupFails, ProbeAnswered, ReadinessCheckPasses, UnexpectedError
<1>3. CASE Watching
  BY <1>3, SMTT(30) DEF Watching, StableReached, BridgeExitSeen, UnstableRunEnds,
     StableRunEnds, StableWaitOver
<1>4. CASE CleaningUp
  BY <1>4, SMTT(30) DEF CleaningUp, CancelChecks, ChecksGone, TerminateScript,
     TerminateBridge, FailCleanupDone, StableCleanupDone, CancelCleanupDone,
     CrashCleanupDone
<1>5. CASE CleanupRaises
  BY <1>5, SMTT(30) DEF CleanupRaises
<1>6. CASE Stop
  BY <1>6, SMTT(30) DEF Stop
<1>7. CASE StopProceeds
  BY <1>7, SMTT(30) DEF StopProceeds, DeliverCancel, TaskAwaited, StopDone
<1>8. CASE Tick
  BY <1>8, SMTT(30) DEF Tick
<1>9. CASE CheckEnds
  BY <1>9, SMTT(30) DEF CheckEnds
<1>10. CASE BridgeDies
  BY <1>10, SMTT(30) DEF BridgeDies
<1>11. CASE PipeCloses \/ StraysEnd
  BY <1>11, SMTT(30) DEF PipeCloses, StraysEnd
<1>12. CASE UNCHANGED vars
  BY <1>12, SMTT(30) DEF vars
<1> QED BY <1>1, <1>2, <1>3, <1>4, <1>5, <1>6, <1>7, <1>8, <1>9, <1>10, <1>11, <1>12 DEF
       Next

\* The attempts of one activation stay within max(1, settings.restart_budget).
LEMMA BudgetStep ==
    Budget /\ CountersTyped /\ Control /\ [Next]_vars => Budget'
<1> SUFFICES ASSUME Budget, CountersTyped, Control, [Next]_vars PROVE Budget'
  OBVIOUS
<1> USE UnitAssumptions, PhaseAfterIsAPhase DEF Budget, CountersTyped, Control, Attempts
<1>1. CASE Start
  BY <1>1, SMTT(30) DEF Start
<1>2. CASE Attempting
  BY <1>2, SMTT(30) DEF Attempting, BeginAttempt, SpawnScript, ScriptSucceeds,
     ScriptFails, ScriptTimesOut, ScriptKilled, SpawnBridge, BridgeCannotStart,
     DocumentWritten, StartupFails, ProbeAnswered, ReadinessCheckPasses, UnexpectedError
<1>3. CASE Watching
  BY <1>3, SMTT(30) DEF Watching, StableReached, BridgeExitSeen, UnstableRunEnds,
     StableRunEnds, StableWaitOver
<1>4. CASE CleaningUp
  BY <1>4, SMTT(30) DEF CleaningUp, CancelChecks, ChecksGone, TerminateScript,
     TerminateBridge, FailCleanupDone, StableCleanupDone, CancelCleanupDone,
     CrashCleanupDone
<1>5. CASE CleanupRaises
  BY <1>5, SMTT(30) DEF CleanupRaises
<1>6. CASE Stop
  BY <1>6, SMTT(30) DEF Stop
<1>7. CASE StopProceeds
  BY <1>7, SMTT(30) DEF StopProceeds, DeliverCancel, TaskAwaited, StopDone
<1>8. CASE Tick
  BY <1>8, SMTT(30) DEF Tick
<1>9. CASE CheckEnds
  BY <1>9, SMTT(30) DEF CheckEnds
<1>10. CASE BridgeDies
  BY <1>10, SMTT(30) DEF BridgeDies
<1>11. CASE PipeCloses \/ StraysEnd
  BY <1>11, SMTT(30) DEF PipeCloses, StraysEnd
<1>12. CASE UNCHANGED vars
  BY <1>12, SMTT(30) DEF vars
<1> QED BY <1>1, <1>2, <1>3, <1>4, <1>5, <1>6, <1>7, <1>8, <1>9, <1>10, <1>11, <1>12 DEF
       Next

\* self.proc names the live bridge until a cleanup terminated it; the two ends of
\* a unit leave no process behind.
LEMMA HandlesStep ==
    Handles /\ CountersTyped /\ ChecksTyped /\ Control /\ OneCheck /\ Served /\ Shown /\
        PortHeld /\ [Next]_vars => Handles'
<1> SUFFICES ASSUME Handles, CountersTyped, ChecksTyped, Control, OneCheck, Served, Shown,
             PortHeld, [Next]_vars PROVE Handles'
  OBVIOUS
<1> USE UnitAssumptions, PhaseAfterIsAPhase DEF Handles, CountersTyped, ChecksTyped,
        Control, OneCheck, Served, Shown, PortHeld, RunningChecks, Attempts, Bridgeless
<1>1. CASE Start
  BY <1>1, SMTT(30) DEF Start
<1>2. CASE Attempting
  <2>1. CASE BeginAttempt
    BY <2>1, SMTT(30) DEF BeginAttempt
  <2>2. CASE SpawnScript
    BY <2>2, SMTT(30) DEF SpawnScript
  <2>3. CASE ScriptSucceeds
    BY <2>3, SMTT(30) DEF ScriptSucceeds
  <2>4. CASE ScriptFails
    BY <2>4, SMTT(30) DEF ScriptFails
  <2>5. CASE ScriptTimesOut
    BY <2>5, SMTT(30) DEF ScriptTimesOut
  <2>6. CASE ScriptKilled
    BY <2>6, SMTT(30) DEF ScriptKilled
  <2>7. CASE SpawnBridge
    BY <2>7, SMTT(30) DEF SpawnBridge
  <2>8. CASE BridgeCannotStart
    BY <2>8, SMTT(30) DEF BridgeCannotStart
  <2>9. CASE DocumentWritten
    BY <2>9, SMTT(30) DEF DocumentWritten
  <2>10. CASE StartupFails
    BY <2>10, SMTT(30) DEF StartupFails
  <2>11. CASE ProbeAnswered
    BY <2>11, SMTT(30) DEF ProbeAnswered
  <2>12. CASE ReadinessCheckPasses
    BY <2>12, SMTT(30) DEF ReadinessCheckPasses
  <2>13. CASE UnexpectedError
    BY <2>13, SMTT(30) DEF UnexpectedError
  <2> QED BY <1>2, <2>1, <2>2, <2>3, <2>4, <2>5, <2>6, <2>7, <2>8, <2>9, <2>10, <2>11,
       <2>12, <2>13 DEF Attempting
<1>3. CASE Watching
  <2>1. CASE StableReached
    BY <2>1, SMTT(30) DEF StableReached
  <2>2. CASE BridgeExitSeen
    BY <2>2, SMTT(30) DEF BridgeExitSeen
  <2>3. CASE UnstableRunEnds
    BY <2>3, SMTT(30) DEF UnstableRunEnds
  <2>4. CASE StableRunEnds
    BY <2>4, SMTT(30) DEF StableRunEnds
  <2>5. CASE StableWaitOver
    BY <2>5, SMTT(30) DEF StableWaitOver
  <2> QED BY <1>3, <2>1, <2>2, <2>3, <2>4, <2>5 DEF Watching
<1>4. CASE CleaningUp
  BY <1>4, SMTT(30) DEF CleaningUp, CancelChecks, ChecksGone, TerminateScript,
     TerminateBridge, FailCleanupDone, StableCleanupDone, CancelCleanupDone,
     CrashCleanupDone
<1>5. CASE CleanupRaises
  BY <1>5, SMTT(30) DEF CleanupRaises
<1>6. CASE Stop
  BY <1>6, SMTT(30) DEF Stop
<1>7. CASE StopProceeds
  <2>1. CASE DeliverCancel
    BY <2>1, SMTT(30) DEF DeliverCancel
  <2>2. CASE TaskAwaited
    BY <2>2, SMTT(30) DEF TaskAwaited
  <2>3. CASE StopDone
    BY <2>3, SMTT(30) DEF StopDone
  <2> QED BY <1>7, <2>1, <2>2, <2>3 DEF StopProceeds
<1>8. CASE Tick
  BY <1>8, SMTT(30) DEF Tick
<1>9. CASE CheckEnds
  BY <1>9, SMTT(30) DEF CheckEnds
<1>10. CASE BridgeDies
  BY <1>10, SMTT(30) DEF BridgeDies
<1>11. CASE PipeCloses \/ StraysEnd
  <2>1. CASE PipeCloses
    BY <2>1, SMTT(30) DEF PipeCloses
  <2>2. CASE StraysEnd
    BY <2>2, SMTT(30) DEF StraysEnd
  <2> QED BY <1>11, <2>1, <2>2
<1>12. CASE UNCHANGED vars
  BY <1>12, SMTT(30) DEF vars
<1> QED BY <1>1, <1>2, <1>3, <1>4, <1>5, <1>6, <1>7, <1>8, <1>9, <1>10, <1>11, <1>12 DEF
       Next

\* The port is the unit's from start() to the one release that counts.
LEMMA PortHeldStep ==
    PortHeld /\ Control /\ Handles /\ [Next]_vars => PortHeld'
<1> SUFFICES ASSUME PortHeld, Control, Handles, [Next]_vars PROVE PortHeld'
  OBVIOUS
<1> USE UnitAssumptions, PhaseAfterIsAPhase DEF PortHeld, Control, Handles, PortHolding
<1>1. CASE Start
  BY <1>1, SMTT(30) DEF Start
<1>2. CASE Attempting
  BY <1>2, SMTT(30) DEF Attempting, BeginAttempt, SpawnScript, ScriptSucceeds,
     ScriptFails, ScriptTimesOut, ScriptKilled, SpawnBridge, BridgeCannotStart,
     DocumentWritten, StartupFails, ProbeAnswered, ReadinessCheckPasses, UnexpectedError
<1>3. CASE Watching
  BY <1>3, SMTT(30) DEF Watching, StableReached, BridgeExitSeen, UnstableRunEnds,
     StableRunEnds, StableWaitOver
<1>4. CASE CleaningUp
  BY <1>4, SMTT(30) DEF CleaningUp, CancelChecks, ChecksGone, TerminateScript,
     TerminateBridge, FailCleanupDone, StableCleanupDone, CancelCleanupDone,
     CrashCleanupDone
<1>5. CASE CleanupRaises
  BY <1>5, SMTT(30) DEF CleanupRaises
<1>6. CASE Stop
  BY <1>6, SMTT(30) DEF Stop
<1>7. CASE StopProceeds
  BY <1>7, SMTT(30) DEF StopProceeds, DeliverCancel, TaskAwaited, StopDone
<1>8. CASE Tick
  BY <1>8, SMTT(30) DEF Tick
<1>9. CASE CheckEnds
  BY <1>9, SMTT(30) DEF CheckEnds
<1>10. CASE BridgeDies
  BY <1>10, SMTT(30) DEF BridgeDies
<1>11. CASE PipeCloses \/ StraysEnd
  BY <1>11, SMTT(30) DEF PipeCloses, StraysEnd
<1>12. CASE UNCHANGED vars
  BY <1>12, SMTT(30) DEF vars
<1> QED BY <1>1, <1>2, <1>3, <1>4, <1>5, <1>6, <1>7, <1>8, <1>9, <1>10, <1>11, <1>12 DEF
       Next

\* What is published follows the task until stop() takes it over.
LEMMA ShownStep ==
    Shown /\ Control /\ Handles /\ PointsTyped /\ [Next]_vars => Shown'
<1> SUFFICES ASSUME Shown, Control, Handles, PointsTyped, [Next]_vars PROVE Shown'
  OBVIOUS
<1> USE UnitAssumptions, PhaseAfterIsAPhase DEF Shown, Control, Handles, PointsTyped,
        ShownStarting, UnitStates, Phases, TaskPoints
<1>1. CASE Start
  BY <1>1, SMTT(30) DEF Start
<1>2. CASE Attempting
  BY <1>2, SMTT(30) DEF Attempting, BeginAttempt, SpawnScript, ScriptSucceeds,
     ScriptFails, ScriptTimesOut, ScriptKilled, SpawnBridge, BridgeCannotStart,
     DocumentWritten, StartupFails, ProbeAnswered, ReadinessCheckPasses, UnexpectedError
<1>3. CASE Watching
  BY <1>3, SMTT(30) DEF Watching, StableReached, BridgeExitSeen, UnstableRunEnds,
     StableRunEnds, StableWaitOver
<1>4. CASE CleaningUp
  BY <1>4, SMTT(30) DEF CleaningUp, CancelChecks, ChecksGone, TerminateScript,
     TerminateBridge, FailCleanupDone, StableCleanupDone, CancelCleanupDone,
     CrashCleanupDone
<1>5. CASE CleanupRaises
  BY <1>5, SMTT(30) DEF CleanupRaises
<1>6. CASE Stop
  BY <1>6, SMTT(30) DEF Stop
<1>7. CASE StopProceeds
  BY <1>7, SMTT(30) DEF StopProceeds, DeliverCancel, TaskAwaited, StopDone
<1>8. CASE Tick
  BY <1>8, SMTT(30) DEF Tick
<1>9. CASE CheckEnds
  BY <1>9, SMTT(30) DEF CheckEnds
<1>10. CASE BridgeDies
  BY <1>10, SMTT(30) DEF BridgeDies
<1>11. CASE PipeCloses \/ StraysEnd
  BY <1>11, SMTT(30) DEF PipeCloses, StraysEnd
<1>12. CASE UNCHANGED vars
  BY <1>12, SMTT(30) DEF vars
<1> QED BY <1>1, <1>2, <1>3, <1>4, <1>5, <1>6, <1>7, <1>8, <1>9, <1>10, <1>11, <1>12 DEF
       Next

\* A unit shows itself as serving only while its task waits for the bridge.
LEMMA ServedStep ==
    Served /\ Shown /\ Control /\ Handles /\ PointsTyped /\ CountersTyped /\ [Next]_vars
        => Served'
<1> SUFFICES ASSUME Served, Shown, Control, Handles, PointsTyped, CountersTyped,
             [Next]_vars PROVE Served'
  OBVIOUS
<1> USE UnitAssumptions, PhaseAfterIsAPhase DEF Served, Shown, Control, Handles,
        PointsTyped, CountersTyped, UnitStates, Phases, TaskPoints, Attempts, Bridgeless,
        ShownStarting
<1>1. CASE Start
  BY <1>1, SMTT(30) DEF Start
<1>2. CASE Attempting
  BY <1>2, SMTT(30) DEF Attempting, BeginAttempt, SpawnScript, ScriptSucceeds,
     ScriptFails, ScriptTimesOut, ScriptKilled, SpawnBridge, BridgeCannotStart,
     DocumentWritten, StartupFails, ProbeAnswered, ReadinessCheckPasses, UnexpectedError
<1>3. CASE Watching
  BY <1>3, SMTT(30) DEF Watching, StableReached, BridgeExitSeen, UnstableRunEnds,
     StableRunEnds, StableWaitOver
<1>4. CASE CleaningUp
  BY <1>4, SMTT(30) DEF CleaningUp, CancelChecks, ChecksGone, TerminateScript,
     TerminateBridge, FailCleanupDone, StableCleanupDone, CancelCleanupDone,
     CrashCleanupDone
<1>5. CASE CleanupRaises
  BY <1>5, SMTT(30) DEF CleanupRaises
<1>6. CASE Stop
  BY <1>6, SMTT(30) DEF Stop
<1>7. CASE StopProceeds
  BY <1>7, SMTT(30) DEF StopProceeds, DeliverCancel, TaskAwaited, StopDone
<1>8. CASE Tick
  BY <1>8, SMTT(30) DEF Tick
<1>9. CASE CheckEnds
  BY <1>9, SMTT(30) DEF CheckEnds
<1>10. CASE BridgeDies
  BY <1>10, SMTT(30) DEF BridgeDies
<1>11. CASE PipeCloses \/ StraysEnd
  BY <1>11, SMTT(30) DEF PipeCloses, StraysEnd
<1>12. CASE UNCHANGED vars
  BY <1>12, SMTT(30) DEF vars
<1> QED BY <1>1, <1>2, <1>3, <1>4, <1>5, <1>6, <1>7, <1>8, <1>9, <1>10, <1>11, <1>12 DEF
       Next

\* A second check cannot start before the first has ended.
LEMMA OneCheckStep ==
    OneCheck /\ CountersTyped /\ ChecksTyped /\ Served /\ Control /\ Handles /\ Shown /\
        PortHeld /\ [Next]_vars => OneCheck'
<1> SUFFICES ASSUME OneCheck, CountersTyped, ChecksTyped, Served, Control, Handles, Shown,
             PortHeld, [Next]_vars PROVE OneCheck'
  OBVIOUS
<1> USE UnitAssumptions, PhaseAfterIsAPhase DEF OneCheck, CountersTyped, ChecksTyped,
        Served, Control, Handles, Shown, PortHeld, RunningChecks, Attempts, Bridgeless,
        ShownStarting
<1>1. CASE Start
  BY <1>1, SMTT(30) DEF Start
<1>2. CASE Attempting
  BY <1>2, SMTT(30) DEF Attempting, BeginAttempt, SpawnScript, ScriptSucceeds,
     ScriptFails, ScriptTimesOut, ScriptKilled, SpawnBridge, BridgeCannotStart,
     DocumentWritten, StartupFails, ProbeAnswered, ReadinessCheckPasses, UnexpectedError
<1>3. CASE Watching
  BY <1>3, SMTT(30) DEF Watching, StableReached, BridgeExitSeen, UnstableRunEnds,
     StableRunEnds, StableWaitOver
<1>4. CASE CleaningUp
  <2>1. CASE CancelChecks
    <3>1. clean = "checks" /\ clean' = "checks" /\ proc' = proc /\ task' = task /\ checking # {}
      BY <2>1 DEF CancelChecks
    <3>2. \A d \in checking' : \E c \in checking : d = [c EXCEPT !.cancelled = TRUE]
      BY <2>1 DEF CancelChecks
    <3>3. \A d \in checking' : d.proc = proc
      BY <3>2
    <3>4. \A d, e \in checking' : d = e
      BY <3>2
    <3> QED BY <3>1, <3>3, <3>4
  <2>2. CASE ChecksGone
    BY <2>2, SMTT(30) DEF ChecksGone
  <2>3. CASE TerminateScript
    BY <2>3, SMTT(30) DEF TerminateScript
  <2>4. CASE TerminateBridge
    BY <2>4, SMTT(30) DEF TerminateBridge
  <2>5. CASE FailCleanupDone
    BY <2>5, SMTT(30) DEF FailCleanupDone
  <2>6. CASE StableCleanupDone
    BY <2>6, SMTT(30) DEF StableCleanupDone
  <2>7. CASE CancelCleanupDone
    BY <2>7, SMTT(30) DEF CancelCleanupDone
  <2>8. CASE CrashCleanupDone
    BY <2>8, SMTT(30) DEF CrashCleanupDone
  <2> QED BY <1>4, <2>1, <2>2, <2>3, <2>4, <2>5, <2>6, <2>7, <2>8 DEF CleaningUp
<1>5. CASE CleanupRaises
  BY <1>5, SMTT(30) DEF CleanupRaises
<1>6. CASE Stop
  BY <1>6, SMTT(30) DEF Stop
<1>7. CASE StopProceeds
  BY <1>7, SMTT(30) DEF StopProceeds, DeliverCancel, TaskAwaited, StopDone
<1>8. CASE Tick
  <2>1. PICK check \in Checks \cup {NoCheck} : TickHealthCheck(check)
    BY <1>8 DEF Tick
  <2>2. UNCHANGED <<proc, task, clean, stopping>>
    BY <2>1
  <2>3. CASE UNCHANGED checking
    BY <2>2, <2>3
  <2>4. CASE check \in Periodic /\ ~stopping /\ HealthCheckable /\ NoCheckUnderWay
             /\ checking' = checking \cup {[check |-> check, proc |-> proc, cancelled |-> FALSE]}
    <3>1. task \in {"running", "stable"} /\ ~stopping
      BY <2>4
    <3>2. clean = "off"
      BY <3>1
    <3>3. checking = {}
      BY <2>4, <3>1, <3>2
    <3>4. checking' = {[check |-> check, proc |-> proc, cancelled |-> FALSE]}
      BY <2>4, <3>3
    <3> QED BY <2>2, <3>1, <3>2, <3>4
  <2> QED BY <2>1, <2>3, <2>4
<1>9. CASE CheckEnds
  BY <1>9, SMTT(30) DEF CheckEnds
<1>10. CASE BridgeDies
  BY <1>10, SMTT(30) DEF BridgeDies
<1>11. CASE PipeCloses \/ StraysEnd
  BY <1>11, SMTT(30) DEF PipeCloses, StraysEnd
<1>12. CASE UNCHANGED vars
  BY <1>12, SMTT(30) DEF vars
<1> QED BY <1>1, <1>2, <1>3, <1>4, <1>5, <1>6, <1>7, <1>8, <1>9, <1>10, <1>11, <1>12 DEF
       Next

\* After a bridge's exit the old state stays on show only until its cleanup ends.
LEMMA AdvertisedStep ==
    Advertised /\ PointsTyped /\ CountersTyped /\ Control /\ Handles /\ Shown /\
        [Next]_vars => Advertised'
<1> SUFFICES ASSUME Advertised, PointsTyped, CountersTyped, Control, Handles, Shown,
             [Next]_vars PROVE Advertised'
  OBVIOUS
<1> USE UnitAssumptions, PhaseAfterIsAPhase DEF Advertised, PointsTyped, CountersTyped,
        Control, Handles, Shown, UnitStates, Phases, TaskPoints, Attempts, Bridgeless,
        ShownStarting, Serving
<1>1. CASE Start
  BY <1>1, SMTT(30) DEF Start
<1>2. CASE Attempting
  BY <1>2, SMTT(30) DEF Attempting, BeginAttempt, SpawnScript, ScriptSucceeds,
     ScriptFails, ScriptTimesOut, ScriptKilled, SpawnBridge, BridgeCannotStart,
     DocumentWritten, StartupFails, ProbeAnswered, ReadinessCheckPasses, UnexpectedError
<1>3. CASE Watching
  <2>1. CASE StableReached
    BY <2>1, SMTT(30) DEF StableReached
  <2>2. CASE BridgeExitSeen
    BY <2>2, SMTT(30) DEF BridgeExitSeen
  <2>3. CASE UnstableRunEnds
    BY <2>3, SMTT(30) DEF UnstableRunEnds
  <2>4. CASE StableRunEnds
    BY <2>4, SMTT(30) DEF StableRunEnds
  <2>5. CASE StableWaitOver
    BY <2>5, SMTT(30) DEF StableWaitOver
  <2> QED BY <1>3, <2>1, <2>2, <2>3, <2>4, <2>5 DEF Watching
<1>4. CASE CleaningUp
  BY <1>4, SMTT(30) DEF CleaningUp, CancelChecks, ChecksGone, TerminateScript,
     TerminateBridge, FailCleanupDone, StableCleanupDone, CancelCleanupDone,
     CrashCleanupDone
<1>5. CASE CleanupRaises
  BY <1>5, SMTT(30) DEF CleanupRaises
<1>6. CASE Stop
  BY <1>6, SMTT(30) DEF Stop
<1>7. CASE StopProceeds
  BY <1>7, SMTT(30) DEF StopProceeds, DeliverCancel, TaskAwaited, StopDone
<1>8. CASE Tick
  BY <1>8, SMTT(30) DEF Tick
<1>9. CASE CheckEnds
  BY <1>9, SMTT(30) DEF CheckEnds
<1>10. CASE BridgeDies
  BY <1>10, SMTT(30) DEF BridgeDies
<1>11. CASE PipeCloses \/ StraysEnd
  <2>1. CASE PipeCloses
    BY <2>1, SMTT(30) DEF PipeCloses
  <2>2. CASE StraysEnd
    BY <2>2, SMTT(30) DEF StraysEnd
  <2> QED BY <1>11, <2>1, <2>2
<1>12. CASE UNCHANGED vars
  BY <1>12, SMTT(30) DEF vars
<1> QED BY <1>1, <1>2, <1>3, <1>4, <1>5, <1>6, <1>7, <1>8, <1>9, <1>10, <1>11, <1>12 DEF
       Next

-----------------------------------------------------------------------------
(* The invariant holds initially and every step keeps it.                  *)

\* A fresh ServerUnit object (ServerUnit.__init__) satisfies every part.
LEMMA InitInv == Init => IInv
<1> SUFFICES ASSUME Init PROVE IInv
  OBVIOUS
<1> USE UnitAssumptions DEF Init
<1>1. PointsTyped
  BY DEF PointsTyped, UnitStates, Phases, TaskPoints
<1>2. FlagsTyped
  BY Zenon DEF FlagsTyped
<1>3. CountersTyped /\ ChecksTyped
  BY DEF CountersTyped, ChecksTyped
<1>4. Control /\ Budget /\ Handles
  BY DEF Control, Budget, Handles, Handlers, Bridgeless
<1>5. PortHeld /\ Shown
  BY DEF PortHeld, Shown, PortHolding, ShownStarting
<1>6. Served /\ Advertised /\ OneCheck
  BY DEF Served, Advertised, OneCheck, Serving
<1> QED
  BY <1>1, <1>2, <1>3, <1>4, <1>5, <1>6, Zenon DEF IInv, Typed

\* Whatever task, process or caller moves, all parts hold together.
LEMMA StepInv == IInv /\ [Next]_vars => IInv'
<1> SUFFICES ASSUME IInv, [Next]_vars PROVE IInv'
  OBVIOUS
<1> USE DEF IInv, Typed
<1>1. Typed'
  BY PointsTypedStep, FlagsTypedStep, CountersTypedStep, ChecksTypedStep, Zenon
<1>2. Control' /\ Budget' /\ PortHeld'
  BY ControlStep, BudgetStep, PortHeldStep, Zenon
<1>3. Handles' /\ OneCheck'
  BY HandlesStep, OneCheckStep, Zenon
<1>4. Shown' /\ Served' /\ Advertised'
  BY ShownStep, ServedStep, AdvertisedStep, Zenon
<1> QED
  BY <1>1, <1>2, <1>3, <1>4, Zenon

\* The inductive invariant holds in every reachable state of every unit.
THEOREM Invariant == Spec => []IInv
BY InitInv, StepInv, PTL DEF Spec

-----------------------------------------------------------------------------
(* What follows from the invariant, state by state.                        *)

\* The variables keep their types; in particular the attempt a bridge process
\* belongs to never passes the retry budget (_run_activation's loop).
THEOREM TypeCorrect == Spec => []TypeOK
<1>1. Typed => TypeOK
  BY Zenon DEF Typed, PointsTyped, FlagsTyped, CountersTyped, ChecksTyped, TypeOK
<1> QED
  BY <1>1, Invariant, PTL DEF IInv

\* No retry, stop, crash or cancellation leaves a bridge process running that
\* self.proc no longer names, however many attempts the budget allows.
THEOREM NoOrphan == Spec => []NoOrphanBridge
<1>1. IInv => NoOrphanBridge
  BY DEF IInv, Handles, NoOrphanBridge
<1> QED
  BY <1>1, Invariant, PTL

\* _release_port reaches the allocator at most once, after the bridge is dead.
THEOREM PortReturned == Spec => []PortReturnedOnceAndDead
<1>1. IInv => PortReturnedOnceAndDead
  BY DEF IInv, PortHeld, PortReturnedOnceAndDead
<1> QED
  BY <1>1, Invariant, PTL

\* A stop() that returned, or an activation that ended by itself, left no
\* bridge, no health check and nothing of the group of a script that was cut
\* short running; the strays of a script that ended by itself are not meant.
THEOREM EndsClean == Spec => []EndsWithNothingRunning
<1>1. IInv => EndsWithNothingRunning
  BY DEF IInv, Handles, EndsWithNothingRunning
<1> QED
  BY <1>1, Invariant, PTL

\* tick_health_check never starts a second check beside one that still runs,
\* although _cleanup_attempt forgets a cancelled check before it has ended.
THEOREM AtMostOneCheck == Spec => []OneCheckOfThisBridge
<1>1. ASSUME OneCheck PROVE OneCheckOfThisBridge
  <2>1. CASE checking = {}
    BY <2>1, FS_EmptySet DEF OneCheckOfThisBridge
  <2>2. CASE checking # {}
    <3>1. PICK c \in checking : TRUE
      BY <2>2
    <3>2. checking = {c}
      BY <1>1, <3>1 DEF OneCheck
    <3>3. Cardinality(checking) = 1
      BY <3>2, FS_Singleton
    <3> QED
      BY <1>1, <3>3 DEF OneCheck, OneCheckOfThisBridge
  <2> QED
    BY <2>1, <2>2
<1> QED
  BY <1>1, Invariant, PTL DEF IInv

\* A startup phase on show means the unit is starting, so Supervisor.retry,
\* which refuses a unit that shows one, never refuses a failed unit.
THEOREM PhaseShown == Spec => []PhaseOnlyWhileStarting
<1>1. IInv => PhaseOnlyWhileStarting
  BY DEF IInv, Shown, PhaseOnlyWhileStarting
<1> QED
  BY <1>1, Invariant, PTL

-----------------------------------------------------------------------------
(* Action properties.                                                      *)

\* Once stop() was called the published state only moves towards "stopped",
\* and it gets there with the bridge dead.
THEOREM StopStays == Spec => StopSticks
<1>1. IInv /\ IInv' /\ [Next]_vars
        => [stopping => state' \in {state, "stopping", "stopped"}
                        /\ (state' = "stopped" => bridges' = {})]_vars
  <2> SUFFICES ASSUME IInv, IInv', Next, stopping
               PROVE  state' \in {state, "stopping", "stopped"}
                      /\ (state' = "stopped" => bridges' = {})
    BY Zenon
  <2>1. Shown /\ Control /\ Shown' /\ Handles'
    BY DEF IInv
  <2>2. stopping'
    <3>1. task # "none"
      BY <2>1 DEF Control
    <3> QED
      BY <3>1 DEF Next, Start, Attempting, Watching, CleaningUp, CleanupRaises, Stop,
        StopProceeds, Tick, CheckEnds, BridgeDies, PipeCloses, StraysEnd, BeginAttempt, SpawnScript,
        ScriptSucceeds, ScriptFails, ScriptTimesOut, ScriptKilled, SpawnBridge,
        BridgeCannotStart, DocumentWritten, StartupFails, ProbeAnswered,
        ReadinessCheckPasses, UnexpectedError, StableReached, BridgeExitSeen,
        UnstableRunEnds, StableRunEnds, StableWaitOver, CancelChecks, ChecksGone,
        TerminateScript, TerminateBridge, FailCleanupDone, StableCleanupDone,
        CancelCleanupDone, CrashCleanupDone, DeliverCancel, TaskAwaited, StopDone
  <2>3. state' \in {"stopping", "stopped"}
    BY <2>1, <2>2 DEF Shown
  <2>4. state' = "stopped" => bridges' = {}
    BY <2>1, <2>2 DEF Shown, Handles
  <2> QED
    BY <2>3, <2>4
<1> QED
  BY <1>1, Invariant, StepInv, PTL DEF Spec, StopSticks

\* The step in which a unit turns unhealthy is a failing verdict of the check
\* that is configured at that moment, on the process the unit has then.
LEMMA VerdictStep ==
    ASSUME Next, health_failing', ~health_failing
    PROVE  /\ state = "running" /\ ~stopping /\ proc \in bridges
           /\ \E c \in checking : c.check = health_check /\ c.proc = proc /\ ~c.cancelled
<1>1. CASE Start
  BY <1>1, SMTT(30) DEF Start
<1>2. CASE Attempting
  <2>1. health_failing' = FALSE \/ UNCHANGED health_failing
    BY <1>2, ZenonT(30) DEF Attempting, BeginAttempt, SpawnScript, ScriptSucceeds,
       ScriptFails, ScriptTimesOut, ScriptKilled, SpawnBridge, BridgeCannotStart,
       DocumentWritten, StartupFails, ProbeAnswered, ReadinessCheckPasses, UnexpectedError
  <2> QED
    BY <2>1
<1>3. CASE Watching
  <2>1. health_failing' = FALSE \/ UNCHANGED health_failing
    BY <1>3, ZenonT(30) DEF Watching, StableReached, BridgeExitSeen, UnstableRunEnds,
       StableRunEnds, StableWaitOver
  <2> QED
    BY <2>1
<1>4. CASE CleaningUp
  <2>1. health_failing' = FALSE \/ UNCHANGED health_failing
    BY <1>4, ZenonT(30) DEF CleaningUp, CancelChecks, ChecksGone, TerminateScript,
       TerminateBridge, FailCleanupDone, StableCleanupDone, CancelCleanupDone,
       CrashCleanupDone
  <2> QED
    BY <2>1
<1>5. CASE CleanupRaises
  BY <1>5, SMTT(30) DEF CleanupRaises
<1>6. CASE Stop
  BY <1>6, SMTT(30) DEF Stop
<1>7. CASE StopProceeds
  <2>1. health_failing' = FALSE \/ UNCHANGED health_failing
    BY <1>7, ZenonT(30) DEF StopProceeds, DeliverCancel, TaskAwaited, StopDone
  <2> QED
    BY <2>1
<1>8. CASE Tick
  <2>1. health_failing' = FALSE \/ UNCHANGED health_failing
    BY <1>8, ZenonT(30) DEF Tick
  <2> QED
    BY <2>1
<1>9. CASE CheckEnds
  <2>1. PICK c \in checking : ~c.cancelled /\ \E passed \in BOOLEAN : Judge(c, passed)
    BY <1>9, Zenon DEF CheckEnds
  <2>2. c.check = health_check /\ ~stopping /\ proc = c.proc /\ HealthCheckable
    BY <2>1
  <2> QED
    BY <2>1, <2>2
<1>10. CASE BridgeDies
  BY <1>10, SMTT(30) DEF BridgeDies
<1>11. CASE PipeCloses \/ StraysEnd
  <2>1. CASE PipeCloses
    BY <2>1, SMTT(30) DEF PipeCloses
  <2>2. CASE StraysEnd
    BY <2>2, SMTT(30) DEF StraysEnd
  <2> QED BY <1>11, <2>1, <2>2
<1> QED BY <1>1, <1>2, <1>3, <1>4, <1>5, <1>6, <1>7, <1>8, <1>9, <1>10, <1>11 DEF Next

\* Only a verdict of the check that is configured now, on the process that
\* serves now, marks a unit unhealthy (_run_periodic_health_check).
THEOREM VerdictStays == Spec => VerdictIsCurrent
<1>1. [Next]_vars =>
        [health_failing' /\ ~health_failing =>
            /\ state = "running" /\ ~stopping /\ proc \in bridges
            /\ \E c \in checking : c.check = health_check /\ c.proc = proc /\ ~c.cancelled]_vars
  BY VerdictStep, Zenon
<1> QED
  BY <1>1, PTL DEF Spec, VerdictIsCurrent

-----------------------------------------------------------------------------
(* ServerUnit implements UnitContract.                                     *)

\* The four facts the supervisor and the proxy read of a unit.
Life == [state |-> state, hf |-> health_failing, port |-> port, live |-> bridges # {}]

\* Nothing anybody reads changes.
LEMMA LifeStutters ==
    UNCHANGED <<state, health_failing, port, bridges>>
    => [Contract!Next]_Life
BY Zenon DEF Life

\* A new attempt, or the end of one, before any bridge answered.
LEMMA LifeStaysStarting ==
    state = "starting" /\ health_failing = FALSE /\ state' = "starting"
        /\ health_failing' = FALSE /\ UNCHANGED <<port, bridges>>
    => [Contract!Next]_Life
BY Zenon DEF Life

\* One more failing verdict.
LEMMA LifeStaysUnhealthy ==
    state = "unhealthy" /\ health_failing = TRUE /\ state' = "unhealthy"
        /\ health_failing' = TRUE /\ UNCHANGED <<port, bridges>>
    => [Contract!Next]_Life
BY Zenon DEF Life

\* start().
LEMMA LifeBegins ==
    state = "stopped" /\ health_failing = FALSE /\ port = FALSE /\ bridges = {}
        /\ state' = "starting" /\ health_failing' = FALSE /\ port' = TRUE /\ bridges' = {}
    => [Contract!Next]_Life
BY ZenonT(30) DEF Life, Contract!Next, Contract!Moves, Contract!Showing, Contract!Process,
       Contract!Without, Contract!Fresh, Contract!Begins, Contract!Started

\* _launch_bridge.
LEMMA LifeLaunches ==
    state = "starting" /\ port /\ bridges = {} /\ bridges' # {}
        /\ UNCHANGED <<state, health_failing, port>>
    => [Contract!Next]_Life
BY ZenonT(30) DEF Life, Contract!Next, Contract!Moves, Contract!Showing, Contract!Process,
       Contract!Without, Contract!Fresh, Contract!Launches

\* _enter_running.
LEMMA LifeComesUp ==
    state = "starting" /\ port /\ state' = "running" /\ health_failing' = FALSE
        /\ UNCHANGED <<port, bridges>>
    => [Contract!Next]_Life
BY ZenonT(30) DEF Life, Contract!Next, Contract!Moves, Contract!Showing, Contract!Process,
       Contract!Without, Contract!Fresh, Contract!Comes_Up

\* A bridge process ends.
LEMMA LifeDies ==
    bridges # {} /\ bridges' = {} /\ UNCHANGED <<state, health_failing, port>>
    => [Contract!Next]_Life
BY ZenonT(30) DEF Life, Contract!Next, Contract!Moves, Contract!Showing, Contract!Process,
       Contract!Without, Contract!Fresh, Contract!Dies

\* _run_periodic_health_check.
LEMMA LifeHealthTurns ==
    /\ bridges # {} /\ UNCHANGED <<port, bridges>>
    /\ \/ state = "running" /\ state' = "unhealthy" /\ health_failing' = TRUE
       \/ state = "unhealthy" /\ health_failing /\ state' = "running" /\ health_failing' = FALSE
    => [Contract!Next]_Life
BY ZenonT(30) DEF Life, Contract!Next, Contract!Moves, Contract!Showing, Contract!Process,
       Contract!Without, Contract!Fresh, Contract!Health_Turns

\* An exit before a stable run.
LEMMA LifeFallsBack ==
    (state = "running" \/ (state = "unhealthy" /\ health_failing)) /\ bridges = {}
        /\ state' = "starting" /\ health_failing' = FALSE /\ UNCHANGED <<port, bridges>>
    => [Contract!Next]_Life
BY ZenonT(30) DEF Life, Contract!Next, Contract!Moves, Contract!Showing, Contract!Process,
       Contract!Without, Contract!Fresh, Contract!Falls_Back, Contract!Up

\* An exit after a stable run, cleaned up.
LEMMA LifeEndsStable ==
    (state = "running" \/ (state = "unhealthy" /\ health_failing)) /\ bridges = {}
        /\ state' = "starting" /\ health_failing' = FALSE /\ port' = FALSE /\ UNCHANGED bridges
    => [Contract!Next]_Life
BY ZenonT(30) DEF Life, Contract!Next, Contract!Moves, Contract!Showing, Contract!Process,
       Contract!Without, Contract!Fresh, Contract!Ends_Stable, Contract!Up

\* The pause after a stable run is over.
LEMMA LifeWantsActivation ==
    state = "starting" /\ ~port /\ state' = "unhealthy" /\ health_failing' = FALSE
        /\ UNCHANGED <<port, bridges>>
    => [Contract!Next]_Life
BY ZenonT(30) DEF Life, Contract!Next, Contract!Moves, Contract!Showing, Contract!Process,
       Contract!Without, Contract!Fresh, Contract!Wants_Activation

\* The retry budget is spent, or the activation crashed.
LEMMA LifeGivesUp ==
    (state \in {"starting", "running"} \/ (state = "unhealthy" /\ health_failing)) /\ port
        /\ bridges = {} /\ state' = "failed" /\ health_failing' = FALSE /\ port' = FALSE
        /\ UNCHANGED bridges
    => [Contract!Next]_Life
BY ZenonT(30) DEF Life, Contract!Next, Contract!Moves, Contract!Showing, Contract!Process,
       Contract!Without, Contract!Fresh, Contract!Gives_Up, Contract!Up

\* stop() is called.
LEMMA LifeBeginsStop ==
    state' = "stopping" /\ health_failing' = FALSE /\ UNCHANGED <<port, bridges>>
    => [Contract!Next]_Life
BY ZenonT(30) DEF Life, Contract!Next, Contract!Moves, Contract!Showing, Contract!Process,
       Contract!Without, Contract!Fresh, Contract!Begins_Stop, Contract!Stopping

\* stop() returns.
LEMMA LifeEndsStop ==
    state = "stopping" /\ health_failing = FALSE /\ bridges = {} /\ state' = "stopped"
        /\ health_failing' = FALSE /\ port' = FALSE /\ UNCHANGED bridges
    => [Contract!Next]_Life
BY ZenonT(30) DEF Life, Contract!Next, Contract!Moves, Contract!Showing, Contract!Process,
       Contract!Without, Contract!Fresh, Contract!Ends_Stop

\* Every step of the unit is one contract move of those four facts, or none.
LEMMA LifeStep == IInv /\ [Next]_vars => [Contract!Next]_Life
<1> SUFFICES ASSUME IInv, [Next]_vars PROVE [Contract!Next]_Life
  OBVIOUS
<1> USE UnitAssumptions, PhaseAfterIsAPhase DEF IInv, Typed, PointsTyped, FlagsTyped,
        CountersTyped, Control, Handles, PortHeld, Shown, Advertised, UnitStates, Phases,
        TaskPoints, Attempts, Bridgeless, PortHolding, ShownStarting, Serving
<1>1. CASE Start
  BY <1>1, LifeBegins, SMTT(30) DEF Start
<1>2. CASE Attempting
  <2>1. CASE BeginAttempt
    BY <2>1, LifeStaysStarting, LifeStutters, SMTT(30) DEF BeginAttempt
  <2>2. CASE SpawnScript
    BY <2>2, LifeStutters, SMTT(30) DEF SpawnScript
  <2>3. CASE ScriptSucceeds
    BY <2>3, LifeStaysStarting, LifeStutters, SMTT(30) DEF ScriptSucceeds
  <2>4. CASE ScriptFails
    BY <2>4, LifeStaysStarting, SMTT(30) DEF ScriptFails
  <2>5. CASE ScriptTimesOut
    BY <2>5, LifeStutters, SMTT(30) DEF ScriptTimesOut
  <2>6. CASE ScriptKilled
    BY <2>6, LifeStaysStarting, SMTT(30) DEF ScriptKilled
  <2>7. CASE SpawnBridge
    BY <2>7, LifeLaunches, SMTT(30) DEF SpawnBridge
  <2>8. CASE BridgeCannotStart
    BY <2>8, LifeStaysStarting, SMTT(30) DEF BridgeCannotStart
  <2>9. CASE DocumentWritten
    BY <2>9, LifeStutters, SMTT(30) DEF DocumentWritten
  <2>10. CASE StartupFails
    BY <2>10, LifeStaysStarting, SMTT(30) DEF StartupFails
  <2>11. CASE ProbeAnswered
    BY <2>11, LifeComesUp, LifeStutters, SMTT(30) DEF ProbeAnswered
  <2>12. CASE ReadinessCheckPasses
    BY <2>12, LifeComesUp, SMTT(30) DEF ReadinessCheckPasses
  <2>13. CASE UnexpectedError
    BY <2>13, LifeStutters, SMTT(30) DEF UnexpectedError
  <2> QED BY <1>2, <2>1, <2>2, <2>3, <2>4, <2>5, <2>6, <2>7, <2>8, <2>9, <2>10, <2>11,
       <2>12, <2>13 DEF Attempting
<1>3. CASE Watching
  <2>1. CASE StableReached
    BY <2>1, LifeStutters, SMTT(30) DEF StableReached
  <2>2. CASE BridgeExitSeen
    BY <2>2, LifeStutters, SMTT(30) DEF BridgeExitSeen
  <2>3. CASE UnstableRunEnds
    BY <2>3, LifeFallsBack, SMTT(30) DEF UnstableRunEnds
  <2>4. CASE StableRunEnds
    BY <2>4, LifeStutters, SMTT(30) DEF StableRunEnds
  <2>5. CASE StableWaitOver
    BY <2>5, LifeWantsActivation, SMTT(30) DEF StableWaitOver
  <2> QED BY <1>3, <2>1, <2>2, <2>3, <2>4, <2>5 DEF Watching
<1>4. CASE CleaningUp
  <2>1. CASE CancelChecks
    BY <2>1, LifeStutters, SMTT(30) DEF CancelChecks
  <2>2. CASE ChecksGone
    BY <2>2, LifeStutters, SMTT(30) DEF ChecksGone
  <2>3. CASE TerminateScript
    BY <2>3, LifeStutters, SMTT(30) DEF TerminateScript
  <2>4. CASE TerminateBridge
    BY <2>4, LifeDies, LifeStutters, SMTT(30) DEF TerminateBridge
  <2>5. CASE FailCleanupDone
    <3>1. ~stopping /\ bridges = {} /\ port /\ state = "starting" /\ health_failing = FALSE
      BY <2>5 DEF FailCleanupDone
    <3>2. CASE BudgetSpent
      BY <2>5, <3>1, <3>2, LifeGivesUp DEF FailCleanupDone
    <3>3. CASE ~BudgetSpent
      BY <2>5, <3>1, <3>3, LifeStaysStarting DEF FailCleanupDone
    <3> QED
      BY <3>2, <3>3
  <2>6. CASE StableCleanupDone
    BY <2>6, LifeEndsStable, SMTT(30) DEF StableCleanupDone
  <2>7. CASE CancelCleanupDone
    BY <2>7, LifeStutters, SMTT(30) DEF CancelCleanupDone
  <2>8. CASE CrashCleanupDone
    <3>1. ~stopping /\ bridges = {} /\ port
      BY <2>8 DEF CrashCleanupDone
    <3>2. state \in {"starting", "running"} \/ (state = "unhealthy" /\ health_failing)
      BY <2>8, <3>1 DEF CrashCleanupDone
    <3> QED
      BY <2>8, <3>1, <3>2, LifeGivesUp DEF CrashCleanupDone
  <2> QED BY <1>4, <2>1, <2>2, <2>3, <2>4, <2>5, <2>6, <2>7, <2>8 DEF CleaningUp
<1>5. CASE CleanupRaises
  BY <1>5, LifeStutters, SMTT(30) DEF CleanupRaises
<1>6. CASE Stop
  BY <1>6, LifeBeginsStop, SMTT(30) DEF Stop
<1>7. CASE StopProceeds
  <2>1. CASE DeliverCancel
    BY <2>1, LifeStutters, SMTT(30) DEF DeliverCancel
  <2>2. CASE TaskAwaited
    BY <2>2, LifeStutters, SMTT(30) DEF TaskAwaited
  <2>3. CASE StopDone
    BY <2>3, LifeEndsStop, SMTT(30) DEF StopDone
  <2> QED BY <1>7, <2>1, <2>2, <2>3 DEF StopProceeds
<1>8. CASE Tick
  BY <1>8, LifeHealthTurns, LifeStutters, SMTT(30) DEF Tick
<1>9. CASE CheckEnds
  <2>1. UNCHANGED <<port, bridges>>
    BY <1>9 DEF CheckEnds
  <2>2. CASE UNCHANGED <<state, health_failing>>
    BY <2>1, <2>2, LifeStutters
  <2>3. CASE bridges # {} /\ state = "running" /\ state' = "unhealthy" /\ health_failing' = TRUE
    BY <2>1, <2>3, LifeHealthTurns
  <2>4. CASE state = "unhealthy" /\ health_failing = TRUE
             /\ state' = "unhealthy" /\ health_failing' = TRUE
    BY <2>1, <2>4, LifeStaysUnhealthy
  <2>5. CASE /\ bridges # {} /\ state = "unhealthy" /\ health_failing
             /\ state' = "running" /\ health_failing' = FALSE
    BY <2>1, <2>5, LifeHealthTurns
  <2> QED
    BY <1>9, <2>2, <2>3, <2>4, <2>5 DEF CheckEnds
<1>10. CASE BridgeDies
  BY <1>10, LifeDies, SMTT(30) DEF BridgeDies
<1>11. CASE PipeCloses \/ StraysEnd
  BY <1>11, LifeStutters, SMTT(30) DEF PipeCloses, StraysEnd
<1>12. CASE UNCHANGED vars
  BY <1>12, LifeStutters DEF vars
<1> QED BY <1>1, <1>2, <1>3, <1>4, <1>5, <1>6, <1>7, <1>8, <1>9, <1>10, <1>11, <1>12 DEF Next

\* Nothing of an activation is lost: the conjunction of the facts above.
THEOREM NoLeaks == Spec => []NothingLeaks
<1>1. TypeOK /\ NoOrphanBridge /\ PortReturnedOnceAndDead /\ EndsWithNothingRunning
      /\ OneCheckOfThisBridge /\ PhaseOnlyWhileStarting => NothingLeaks
  BY DEF NothingLeaks
<1>2. QED
  BY <1>1, TypeCorrect, NoOrphan, PortReturned, EndsClean, AtMostOneCheck, PhaseShown, PTL

\* ServerUnit promises the supervisor what UnitContract says, and keeps it: the
\* four facts start as a fresh unit's and change by the contract's moves only.
THEOREM Implements == Spec => ImplementsContract
<1>1. Init => Contract!Init
  BY Zenon DEF Init, Contract!Init, Contract!Fresh, Contract!Without
<1>2. IInv /\ [Next]_vars => [Contract!Next]_Life
  BY LifeStep
<1> QED
  BY <1>1, <1>2, Invariant, PTL DEF Spec, ImplementsContract, Contract!Spec, Life

-----------------------------------------------------------------------------
(* RepoCheckout: what the script launches, for any number of addresses,    *)
(* commits, tags and scripts.                                              *)

\* Where the script has come to, its directory has an origin.
Steps ==
    /\ at = "clone" => origin # job.url
    /\ at \in {"clone_stamp", "init"} => origin = None /\ output = None /\ head = None
    /\ at \in {"fetch", "checkout", "compare", "build", "stamp", "ready"} => origin = job.url
    /\ at \in {"init", "build", "stamp", "wipe"} => stamp = None

\* What was settled on is what HEAD names.
Settled ==
    /\ at \in {"checkout", "compare", "build", "stamp", "ready"} => sha \in Objects
    /\ at \in {"compare", "build", "stamp", "ready"} => head = CommitOf(sha)
    /\ at \in {"stamp", "ready"} => output = Product(Want) \/ half_erased
    /\ at \in {"stamp", "ready"} => patched \in {Product(Want), None, Torn}
    /\ head # None => tree \in {head, Torn}

RInv == CheckoutTypeOK /\ StampIsTrue /\ Steps /\ Settled

\* The groups of variables are expanded in every proof below.
USE DEF world, checkout, built, leftovers, shell, Running, Down

LEMMA RepoStarts ==
    ASSUME CheckoutInit
    PROVE  RInv
BY CheckoutAssumptions DEF CheckoutInit, RInv, CheckoutTypeOK, Rows, StampIsTrue, Steps, Settled

\* The types, step by step.
LEMMA RepoTypes ==
    ASSUME RInv, [CheckoutNext]_checkoutVars
    PROVE  CheckoutTypeOK'
<1> USE DEF CheckoutTypeOK
<1>1. CheckoutTypeOK /\ Steps /\ Settled  BY DEF RInv
<1>2. /\ job.url \in Urls /\ job.recipe \in Recipes
      /\ \A o \in Objects : CommitOf(o) \in Commits
      /\ (sha \in Objects => Want \in Stamps /\ Product(Want) \in Builds)
  <2>1. \A o \in Objects : CommitOf(o) \in Commits
    BY CheckoutAssumptions DEF CommitOf, Objects
  <2>2. job.url \in Urls /\ job.recipe \in Recipes  BY <1>1 DEF Rows
  <2>3. QED
    BY <2>1, <2>2 DEF Want, Stamps, Product, Builds
<1>3. CASE Starts  BY <1>1, <1>3 DEF Starts
<1>4. CASE Erases  BY <1>1, <1>4 DEF Erases
<1>5. CASE ErasesStamp \/ Initialises
  BY <1>1, <1>2, <1>5 DEF ErasesStamp, Initialises
<1>6. CASE Fetches \/ FetchFails \/ GitRefuses
  BY <1>1, <1>2, <1>6 DEF Fetches, FetchFails, GitRefuses, FallsBack, Steps, Objects
<1>7. CASE ChecksOut  BY <1>1, <1>2, <1>7 DEF ChecksOut, Settled
<1>8. CASE AlreadyBuilt \/ Rebuilds \/ Ends \/ Replaced \/ DropsStamp
  BY <1>1, <1>8 DEF AlreadyBuilt, Rebuilds, Ends, Replaced, DropsStamp
<1>9. CASE RunsPostClone \/ WritesStamp
  BY <1>1, <1>2, <1>9 DEF RunsPostClone, WritesStamp, Settled
<1>10. CASE WipesCache  BY <1>1, <1>10 DEF WipesCache
<1>11. CASE Edited  BY <1>1, <1>11 DEF Edited
<1>12. CASE RefMoves  BY <1>1, <1>12 DEF RefMoves
<1>13. CASE UNCHANGED checkoutVars  BY <1>1, <1>13 DEF checkoutVars
<1>14. QED
  BY <1>3, <1>4, <1>5, <1>6, <1>7, <1>8, <1>9, <1>10, <1>11, <1>12, <1>13
  DEF CheckoutNext, Working, Disturbed

\* What is known of the directory at each command.
LEMMA RepoSteps ==
    ASSUME RInv, [CheckoutNext]_checkoutVars
    PROVE  Steps' /\ Settled'
<1> USE DEF Steps, Settled
<1>1. /\ Steps /\ Settled /\ head \in Commits \cup {None} /\ None \notin Objects
      /\ origin \in Urls \cup {None} /\ job.url \in Urls /\ None \notin Urls
      /\ row.url \in Urls /\ remote \in [Urls -> Objects]
  BY CheckoutAssumptions DEF RInv, CheckoutTypeOK, Rows
<1>2. \A c \in Commits : c \in Objects /\ CommitOf(c) = c
  BY CheckoutAssumptions DEF CommitOf, Objects
<1>3. CASE Starts  BY <1>1, <1>3 DEF Starts, HasCheckout
<1>4. CASE Erases  BY <1>1, <1>4 DEF Erases
<1>5. CASE ErasesStamp \/ Initialises
  BY <1>1, <1>5 DEF ErasesStamp, Initialises
<1>6. CASE Fetches \/ FetchFails \/ GitRefuses
  BY <1>1, <1>2, <1>6 DEF Fetches, FetchFails, GitRefuses, FallsBack
<1>7. CASE ChecksOut  BY <1>1, <1>2, <1>7 DEF ChecksOut
<1>8. CASE AlreadyBuilt
  <2>1. /\ output = Product(Want) \/ half_erased
        /\ patched \in {Product(Want), None, Torn}
    <3>1. origin # None /\ stamp = Want /\ stamp # None
      <4>1. stamp = Want /\ sha \in Objects /\ job \in Rows
        BY <1>1, <1>8 DEF AlreadyBuilt, RInv, CheckoutTypeOK
      <4>2. Want \in Stamps  BY <4>1 DEF Want, Stamps, Rows
      <4>3. QED  BY <1>1, <1>8, <4>1, <4>2, CheckoutAssumptions DEF AlreadyBuilt
    <3>2. QED  BY <3>1 DEF RInv, StampIsTrue
  <2>2. QED  BY <1>1, <1>8, <2>1 DEF AlreadyBuilt, Want, Product
<1>9. CASE Rebuilds \/ RunsPostClone \/ WritesStamp
  BY <1>1, <1>9 DEF Rebuilds, RunsPostClone, WritesStamp, Want, Product
<1>10. CASE Ends \/ Replaced \/ DropsStamp \/ WipesCache
  BY <1>1, <1>10 DEF Ends, Replaced, DropsStamp, WipesCache
<1>11. CASE Edited \/ RefMoves
  BY <1>1, <1>11 DEF Edited, RefMoves, Want, Product
<1>12. CASE UNCHANGED checkoutVars  BY <1>1, <1>12 DEF checkoutVars, Want, Product
<1>13. QED
  BY <1>3, <1>4, <1>5, <1>6, <1>7, <1>8, <1>9, <1>10, <1>11, <1>12
  DEF CheckoutNext, Working, Disturbed

\* A stamp that lies beside a directory with an address names what was built
\* there: the directory goes before the stamp, the stamp before the build.
LEMMA RepoStamps ==
    ASSUME RInv, [CheckoutNext]_checkoutVars
    PROVE  StampIsTrue'
<1> USE DEF StampIsTrue, Steps, Product
<1>1. Steps /\ StampIsTrue /\ Settled  BY DEF RInv
<1>2. CASE Starts \/ Fetches \/ FetchFails \/ GitRefuses
  BY <1>1, <1>2 DEF Starts, Fetches, FetchFails, GitRefuses
<1>3. CASE Erases \/ ErasesStamp \/ Initialises
  BY <1>1, <1>3 DEF Erases, ErasesStamp, Initialises
<1>4. CASE ChecksOut \/ AlreadyBuilt \/ Rebuilds
  BY <1>1, <1>4 DEF ChecksOut, AlreadyBuilt, Rebuilds
<1>5. CASE RunsPostClone \/ WritesStamp
  BY <1>1, <1>5 DEF RunsPostClone, WritesStamp, Settled
<1>6. CASE Ends \/ Replaced \/ DropsStamp \/ WipesCache
  BY <1>1, <1>6 DEF Ends, Replaced, DropsStamp, WipesCache
<1>7. CASE Edited \/ RefMoves  BY <1>1, <1>7 DEF Edited, RefMoves
<1>8. CASE UNCHANGED checkoutVars  BY <1>1, <1>8 DEF checkoutVars
<1>9. QED
  BY <1>2, <1>3, <1>4, <1>5, <1>6, <1>7, <1>8 DEF CheckoutNext, Working, Disturbed

\* Whatever the edits and whichever command any run was killed in: beside a
\* directory that was not left half erased, a stamp tells the truth of all that git
\* has no hand in, and nothing is launched but what a run that ended built for its
\* commit, script and cache; and no launch ever sees another build's changes to the
\* files git tracks.
THEOREM NothingUnbuiltIsLaunched == CheckoutSpec => []NothingUnbuilt
<1>1. CheckoutInit => RInv  BY RepoStarts
<1>2. RInv /\ [CheckoutNext]_checkoutVars => RInv'
  <2> SUFFICES ASSUME RInv, [CheckoutNext]_checkoutVars PROVE RInv'
    OBVIOUS
  <2>1. CheckoutTypeOK'  BY RepoTypes
  <2>2. Steps' /\ Settled'  BY RepoSteps
  <2>3. StampIsTrue'  BY RepoStamps
  <2>4. QED  BY <2>1, <2>2, <2>3 DEF RInv
<1>3. RInv => NothingUnbuilt
  <2> SUFFICES ASSUME RInv PROVE NothingUnbuilt
    OBVIOUS
  <2>1. CheckoutTypeOK /\ StampIsTrue  BY DEF RInv
  <2>2. ReadyIsBuilt
    <3> SUFFICES ASSUME at = "ready"
                 PROVE  /\ output = Product(Want) \/ half_erased
                        /\ patched \in {Product(Want), None, Torn}
                        /\ origin = job.url /\ head = CommitOf(sha) /\ tree \in {head, Torn}
      BY DEF ReadyIsBuilt
    <3>1. /\ output = Product(Want) \/ half_erased
          /\ patched \in {Product(Want), None, Torn}
          /\ origin = job.url /\ head = CommitOf(sha) /\ sha \in Objects
          /\ head # None => tree \in {head, Torn}
      BY DEF RInv, Steps, Settled
    <3>2. head # None
      BY <3>1, CheckoutAssumptions DEF CommitOf, Objects
    <3>3. QED  BY <3>1, <3>2
  <2>3. QED  BY <2>1, <2>2 DEF NothingUnbuilt
<1>4. QED  BY <1>1, <1>2, <1>3, PTL DEF CheckoutSpec
=============================================================================
