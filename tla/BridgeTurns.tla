---------------------------- MODULE BridgeTurns ----------------------------
(***************************************************************************)
(* One serialized stdio child of a bridge (backend/app/bridge/host.py:     *)
(* _StdioRouting, _SerializeClientRequests, _Turn,                         *)
(* _HandshakeOnceProxyClient and the stderr tee).  Its callers share one   *)
(* session: one request at a time holds the lock, and what the child asks  *)
(* back goes to the caller in the slot.  A legacy caller is asked over its *)
(* connection; a modern one is asked by the answer of its leg, and the     *)
(* turn is parked until it retries.  One action is what one task does      *)
(* between two awaits.                                                     *)
(***************************************************************************)
EXTENDS Naturals, FiniteSets, Sequences

CONSTANTS
    Calls,          \* proxied requests that reach the child
    Modern,         \* those of callers on the sessionless protocol
    Capable,        \* those whose caller can be asked for input
    NoCall,
    MaxAsks,        \* bound: requests the child makes for one call
    MaxPending,     \* _MAX_PENDING_PER_TURN
    MaxLines,       \* bound: lines the child writes to its stderr
    RingLines       \* _STDERR_RING_BYTES, in lines

ASSUME TurnAssumptions ==
    /\ Modern \subseteq Calls /\ Capable \subseteq Calls /\ NoCall \notin Calls
    /\ MaxAsks \in Nat /\ MaxPending \in Nat /\ MaxLines \in Nat /\ RingLines \in Nat

Legacy == Calls \ Modern
Asks == Calls \X (1 .. MaxAsks)     \* the requests of the child, each for one call

VARIABLES
    queue, holder,      \* the lock's waiters, and who has it
    caller, turn,       \* the slot: the caller to ask, and its turn if it is modern
    abandoned,          \* calls still running upstream that their caller gave up
    stage,              \* of each request
    run,                \* of its call upstream; "failed" still collects its stderr
    legs,               \* the legs of a turn now being served
    state, minted,      \* the request_state it is parked under; how many it was given
    closed, released,   \* flags of the turn
    asked,              \* its event: the child asked something
    ask, whom, sent,    \* the child's requests; whom they reached; those handed out
    stream, pumped,     \* the child's stderr lines, each as who had the child when it was
                        \* written; how many were read
    mark, attached      \* where a call's window starts; the lines its failure carried

lock == <<queue, holder>>
slot == <<caller, turn>>
turns == <<legs, state, minted, closed, asked>>
asks == <<ask, whom, sent>>
stderr == <<stream, pumped, mark, attached>>
vars == <<lock, slot, abandoned, stage, run, turns, released, asks, stderr>>

\* Requests the turn of c waits on its caller for.
Pending(c) == {r \in Asks : ask[r] = "pending" /\ whom[r] = c}
Parked(c) == state[c] # 0
Working(c) == run[c] \in {"busy", "failed"}

TypeOK ==
    /\ queue \in Seq(Calls) /\ holder \in Calls \cup {NoCall}
    /\ caller \in Calls \cup {NoCall} /\ turn \in Modern \cup {NoCall}
    /\ abandoned \subseteq Calls
    /\ stage \in [Calls -> {"new", "queued", "open", "draining", "over"}]
    /\ run \in [Calls -> {"none", "busy", "failed", "done"}]
    /\ legs \in [Calls -> Nat] /\ state \in [Calls -> Nat] /\ minted \in [Calls -> Nat]
    /\ closed \in [Calls -> BOOLEAN] /\ released \in [Calls -> BOOLEAN]
    /\ asked \in [Calls -> BOOLEAN]
    /\ ask \in [Asks -> {"unsent", "pending", "forwarded", "settled"}]
    /\ whom \in [Asks -> Calls \cup {NoCall}] /\ sent \subseteq Asks
    /\ stream \in Seq(Calls \cup {NoCall}) /\ pumped \in Nat
    /\ mark \in [Calls -> Nat] /\ attached \in [Calls -> SUBSET (Calls \cup {NoCall})]

Init ==
    /\ queue = <<>> /\ holder = NoCall /\ caller = NoCall /\ turn = NoCall
    /\ abandoned = {}
    /\ stage = [c \in Calls |-> "new"] /\ run = [c \in Calls |-> "none"]
    /\ legs = [c \in Calls |-> 0] /\ state = [c \in Calls |-> 0]
    /\ minted = [c \in Calls |-> 0]
    /\ closed = [c \in Calls |-> FALSE] /\ released = [c \in Calls |-> FALSE]
    /\ asked = [c \in Calls |-> FALSE]
    /\ ask = [r \in Asks |-> "unsent"] /\ whom = [r \in Asks |-> NoCall] /\ sent = {}
    /\ stream = <<>> /\ pumped = 0
    /\ mark = [c \in Calls |-> 0] /\ attached = [c \in Calls |-> {}]

-----------------------------------------------------------------------------
(* The lock.                                                               *)

Arrive(c) ==
    /\ stage[c] = "new"
    /\ stage' = [stage EXCEPT ![c] = "queued"] /\ queue' = Append(queue, c)
    /\ UNCHANGED <<holder, slot, abandoned, run, turns, released, asks, stderr>>

CancelQueued(c) ==
    /\ stage[c] = "queued"
    /\ stage' = [stage EXCEPT ![c] = "over"]
    /\ \E n \in DOMAIN queue :
          /\ queue[n] = c
          /\ queue' = SubSeq(queue, 1, n - 1) \o SubSeq(queue, n + 1, Len(queue))
    /\ UNCHANGED <<holder, slot, abandoned, run, turns, released, asks, stderr>>

\* Mutant: only what the pump has read counts.
MarkOfPump == pumped

\* _StderrTee.mark: everything pumped and what still waits in the pipe.
Mark == Len(stream)

\* The lock's next owner fills the slot and starts its call upstream.
Admit(c) ==
    /\ holder = NoCall /\ queue # <<>> /\ c = Head(queue)
    /\ queue' = Tail(queue) /\ holder' = c
    /\ caller' = c /\ turn' = IF c \in Modern THEN c ELSE NoCall
    /\ stage' = [stage EXCEPT ![c] = "open"] /\ run' = [run EXCEPT ![c] = "busy"]
    /\ legs' = [legs EXCEPT ![c] = 1]
    /\ mark' = [mark EXCEPT ![c] = IF abandoned = {} THEN Mark ELSE MaxLines]
    /\ UNCHANGED <<abandoned, state, minted, closed, asked, released, asks, stream,
                   pumped, attached>>

\* _release: once, and the slot only if it is still this turn's.
Release(c) ==
    IF released[c] THEN UNCHANGED <<released, holder, slot>>
    ELSE /\ released' = [released EXCEPT ![c] = TRUE] /\ holder' = NoCall
         /\ caller' = (IF turn = c THEN NoCall ELSE caller)
         /\ turn' = (IF turn = c THEN NoCall ELSE turn)

-----------------------------------------------------------------------------
(* What the child does with a call: ask, withdraw, write, answer, die.     *)

\* Mutant: the slot is trusted while an abandoned call is still running.
SlotCaller == caller

\* _current.
Current == IF abandoned = {} THEN caller ELSE NoCall

\* _forward, _list_roots and _Turn.ask: whom a request reaches.
Reaches ==
    IF Current \notin Capable THEN NoCall
    ELSE IF turn = NoCall THEN Current
    ELSE IF closed[turn] \/ Cardinality(Pending(turn)) >= MaxPending THEN NoCall
    ELSE turn

ChildAsks(c, i) ==
    /\ run[c] = "busy" /\ ask[<<c, i>>] = "unsent"
    /\ whom' = [whom EXCEPT ![<<c, i>>] = Reaches]
    /\ ask' = [ask EXCEPT ![<<c, i>>] = IF Reaches = NoCall THEN "settled"
                                    ELSE IF turn # NoCall THEN "pending" ELSE "forwarded"]
    /\ asked' = IF turn # NoCall /\ Reaches = turn
                THEN [asked EXCEPT ![turn] = TRUE] ELSE asked
    /\ UNCHANGED <<lock, slot, abandoned, stage, run, legs, state, minted, closed,
                   released, sent, stderr>>

\* The child gives up on a request, or a legacy caller answers it (or has gone).
AskSettles(c, i) ==
    /\ ask[<<c, i>>] \in {"pending", "forwarded"}
    /\ ask' = [ask EXCEPT ![<<c, i>>] = "settled"]
    /\ UNCHANGED <<lock, slot, abandoned, stage, run, turns, released, whom, sent, stderr>>

\* Who has the child as a line of c is written: the lock's holder, or nobody if
\* c still runs and its lock was given up.
Under(c) == IF run[c] = "busy" /\ holder # c THEN NoCall ELSE holder

\* While the child works on a call, just behind its answer, or at any time after.
ChildWrites(c) ==
    /\ run[c] # "none" /\ Len(stream) < MaxLines
    /\ stream' = Append(stream, Under(c))
    /\ UNCHANGED <<lock, slot, abandoned, stage, run, turns, released, asks, pumped,
                   mark, attached>>

Pump ==
    /\ pumped < Len(stream) /\ pumped' = Len(stream)
    /\ UNCHANGED <<lock, slot, abandoned, stage, run, turns, released, asks, stream,
                   mark, attached>>

\* With an error, the failure settles before its window is cut; a legacy caller
\* that cancelled is past reading either.
ChildAnswers(c, failed) ==
    /\ run[c] = "busy" /\ (failed => c \in Modern \/ stage[c] = "open")
    /\ run' = [run EXCEPT ![c] = IF failed THEN "failed" ELSE "done"]
    /\ UNCHANGED <<lock, slot, abandoned, stage, turns, released, asks, stderr>>

Base == IF pumped > RingLines THEN pumped - RingLines ELSE 0

\* _with_stderr after a failed call: the window, as far as the pump got.
Window(c) == {stream[n] : n \in {k \in 1 .. pumped : k > mark[c] /\ k > Base}}

Attach(c) ==
    /\ run[c] = "failed"
    /\ run' = [run EXCEPT ![c] = "done"]
    /\ attached' = [attached EXCEPT ![c] = Window(c)]
    /\ UNCHANGED <<lock, slot, abandoned, stage, turns, released, asks, stream, pumped, mark>>

\* The child's stream closes: the session fails every pending request.
ChildDies ==
    /\ \E c \in Calls : run[c] = "busy"
    /\ run' = [c \in Calls |-> IF run[c] = "busy" THEN "done" ELSE run[c]]
    /\ ask' = [r \in Asks |-> IF ask[r] \in {"pending", "forwarded"} THEN "settled" ELSE ask[r]]
    /\ UNCHANGED <<lock, slot, abandoned, stage, turns, released, whom, sent, stderr>>

-----------------------------------------------------------------------------
(* A legacy caller holds its connection for the whole call.                *)

LegacyLeaves(c) ==
    /\ stage' = [stage EXCEPT ![c] = "over"] /\ legs' = [legs EXCEPT ![c] = 0]
    /\ released' = [released EXCEPT ![c] = TRUE]
    /\ holder' = NoCall /\ caller' = NoCall /\ UNCHANGED <<queue, turn>>

LegacyReturns(c) ==
    /\ c \in Legacy /\ stage[c] = "open" /\ run[c] = "done"
    /\ LegacyLeaves(c)
    /\ UNCHANGED <<abandoned, run, state, minted, closed, asked, asks, stderr>>

\* _await_with_session_monitoring: the child stays reserved for a cancelled call.
LegacyCancelled(c) ==
    /\ c \in Legacy /\ stage[c] = "open"
    /\ \/ /\ run[c] = "busy" /\ caller' = NoCall
          /\ stage' = [stage EXCEPT ![c] = "draining"]
          /\ UNCHANGED <<lock, turn, abandoned, run, turns, released, asks, stderr>>
       \/ /\ run[c] = "failed" /\ LegacyLeaves(c)
          /\ run' = [run EXCEPT ![c] = "done"]
          /\ UNCHANGED <<abandoned, state, minted, closed, asked, asks, stderr>>

\* The answer came, or _CANCELLED_CALL_DRAIN_S passed and the call is abandoned.
LegacyDrained(c) ==
    /\ stage[c] = "draining"
    /\ abandoned' = IF run[c] = "busy" THEN abandoned \cup {c} ELSE abandoned
    /\ LegacyLeaves(c)
    /\ UNCHANGED <<run, state, minted, closed, asked, asks, stderr>>

-----------------------------------------------------------------------------
(* A modern caller's turn.                                                 *)

LegReturns(c) ==
    /\ c \in Modern /\ legs[c] > 0 /\ run[c] = "done"
    /\ legs' = [legs EXCEPT ![c] = @ - 1]
    /\ stage' = [stage EXCEPT ![c] = "over"]
    /\ UNCHANGED <<lock, slot, abandoned, run, state, minted, closed, asked, released,
                   asks, stderr>>

\* leg: what the child asked ends the leg, and the turn parks under a new state.
Park(c) ==
    /\ c \in Modern /\ legs[c] > 0 /\ run[c] # "done" /\ asked[c]
    /\ asked' = [asked EXCEPT ![c] = FALSE]
    /\ LET requests == Pending(c) \ sent IN
       IF requests = {} THEN UNCHANGED <<legs, state, minted, sent>>
       ELSE /\ sent' = sent \cup requests
            /\ minted' = [minted EXCEPT ![c] = @ + 1]
            /\ state' = [state EXCEPT ![c] = minted[c] + 1]
            /\ legs' = [legs EXCEPT ![c] = @ - 1]
    /\ UNCHANGED <<lock, slot, abandoned, stage, run, closed, released, ask, whom, stderr>>

\* Mutant: the turn stays in the table under the state that was just used.
UnparkedStillThere(c) == state' = state

\* _unpark.
Unparked(c) == state' = [state EXCEPT ![c] = 0]

\* _turn_leg with a request_state: a known one answers what was handed out; any
\* other (used, ended, expired) is told to send the request again.
Retry(c, token) ==
    /\ token \in 1 .. minted[c] /\ state[c] = token
    /\ Unparked(c)
    /\ caller' = IF turn = c THEN c ELSE caller
    /\ legs' = [legs EXCEPT ![c] = @ + 1]
    /\ ask' = [r \in Asks |-> IF r \in sent /\ r \in Pending(c) THEN "settled" ELSE ask[r]]
    /\ sent' = {r \in sent : whom[r] # c}
    /\ UNCHANGED <<lock, turn, abandoned, stage, run, minted, closed, asked, released,
                   whom, stderr>>

\* end: the caller is gone; what the child asks from here on is refused.
End(c) ==
    /\ Unparked(c) /\ closed' = [closed EXCEPT ![c] = TRUE]
    /\ ask' = [r \in Asks |-> IF r \in Pending(c) THEN "settled" ELSE ask[r]]
    /\ IF turn = c /\ run[c] # "done" THEN caller' = NoCall /\ turn' = NoCall
       ELSE UNCHANGED slot

LegCancelled(c) ==
    /\ c \in Modern /\ legs[c] > 0
    /\ legs' = [legs EXCEPT ![c] = @ - 1] /\ End(c)
    /\ UNCHANGED <<lock, abandoned, stage, run, minted, asked, released, whom, sent, stderr>>

\* _PARKED_TURN_TTL_S passed without a retry.
Expire(c) ==
    /\ Parked(c) /\ End(c)
    /\ UNCHANGED <<lock, abandoned, stage, run, legs, minted, asked, released, whom, sent,
                   stderr>>

\* Mutant: the drain only reports the call.
DrainedKeepsLock(c) ==
    /\ closed[c] /\ Working(c) /\ c \notin abandoned
    /\ abandoned' = abandoned \cup {c}
    /\ UNCHANGED <<lock, slot, released, stage, run, turns, asks, stderr>>

\* _drained: _CANCELLED_CALL_DRAIN_S after end() the child still has no answer.
Drained(c) ==
    /\ closed[c] /\ Working(c) /\ ~released[c]
    /\ abandoned' = abandoned \cup {c}
    /\ Release(c)
    /\ UNCHANGED <<queue, stage, run, turns, asks, stderr>>

\* The done callbacks of a call: _finished, and abandoned.discard.
Finished(c) ==
    /\ run[c] = "done"
    /\ \/ c \in Modern /\ ~released[c]
       \/ c \in abandoned
    /\ abandoned' = abandoned \ {c}
    /\ IF c \in Modern THEN Release(c) ELSE UNCHANGED <<released, holder, slot>>
    /\ UNCHANGED <<queue, stage, run, turns, asks, stderr>>

-----------------------------------------------------------------------------
CallStep(c) ==
    \/ Arrive(c) \/ CancelQueued(c) \/ Admit(c)
    \/ \E i \in 1 .. MaxAsks : ChildAsks(c, i) \/ AskSettles(c, i)
    \/ ChildWrites(c) \/ \E failed \in BOOLEAN : ChildAnswers(c, failed)
    \/ Attach(c)
    \/ LegacyReturns(c) \/ LegacyCancelled(c) \/ LegacyDrained(c)
    \/ LegReturns(c) \/ Park(c) \/ \E token \in 1 .. minted[c] : Retry(c, token)
    \/ LegCancelled(c) \/ Expire(c) \/ Drained(c) \/ Finished(c)

Next == Pump \/ ChildDies \/ \E c \in Calls : CallStep(c)

Spec == Init /\ [][Next]_vars

\* The event loop runs what is ready and its timers fire.  Nothing is owed by the
\* child (its answers) nor by the callers (their retries and cancellations).
Fairness ==
    \A c \in Calls :
        /\ WF_vars(Admit(c)) /\ WF_vars(Attach(c))
        /\ WF_vars(LegacyReturns(c)) /\ WF_vars(LegacyDrained(c))
        /\ WF_vars(LegReturns(c)) /\ WF_vars(Park(c)) /\ WF_vars(Expire(c))
        /\ WF_vars(Drained(c)) /\ WF_vars(Finished(c))

FairSpec == Spec /\ Fairness

-----------------------------------------------------------------------------
(* What a request of the child reaches is the caller of the call it is     *)
(* for, whichever calls were cancelled, abandoned or parked meanwhile      *)
(* (_StdioRouting: a request from the server names no caller).             *)
RightCaller == \A r \in Asks : whom[r] \in {r[1], NoCall}

(* The child works for one caller at a time, unless the others gave up and *)
(* their calls are marked abandoned; and whoever is in the slot holds the  *)
(* lock (_SerializeClientRequests).                                        *)
OneAtATime ==
    /\ \A c \in Calls : Working(c) /\ c \notin abandoned => holder = c
    /\ caller # NoCall => caller = holder
    /\ turn # NoCall => turn = holder

(* A turn is served by one leg, or is parked, never both: a retry that the *)
(* client sends twice is told that the request has ended (_turn_leg).      *)
OneLeg == \A c \in Calls : legs[c] + (IF Parked(c) THEN 1 ELSE 0) <= 1

(* The child has one caller at a time, and that caller one leg.            *)
Exclusive == TypeOK /\ OneAtATime /\ OneLeg

(* The stderr a failed call answers with was written while it had the     *)
(* child, by its own work or as late output of a call that was answered:   *)
(* nothing written before it and still in the pipe, and nothing of an      *)
(* abandoned call that still runs (_StderrTee, _with_stderr).              *)
StderrIsOwn == \A c \in Calls : ~closed[c] => attached[c] \subseteq {c}

(* A call whose caller gave up, cancelled or never back with the answers,  *)
(* frees the child whether or not it ever answers, and a turn that is      *)
(* parked does so unless its caller is back for it (end, _drained,         *)
(* _await_with_session_monitoring, leg).                                   *)
GivenUpFreesChild ==
    \A c \in Calls :
        /\ closed[c] \/ stage[c] = "draining" ~> holder # c
        /\ Parked(c) ~> holder # c \/ legs[c] = 1

(* A request the child is waiting on through a turn is settled, or the     *)
(* child answered the call first (_Turn.ask, leg, resume, end).            *)
AsksSettle ==
    \A r \in Asks : ask[r] = "pending" ~> ask[r] # "pending" \/ run[r[1]] = "done"

(* Nobody waits for ever: not the next caller for the child of one that    *)
(* gave up, and not the child for what it asked.                           *)
NobodyWaits == GivenUpFreesChild /\ AsksSettle
=============================================================================
