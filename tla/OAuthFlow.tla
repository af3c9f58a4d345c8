----------------------------- MODULE OAuthFlow -----------------------------
(***************************************************************************)
(* Signing one remote server in at its OAuth provider                      *)
(* (backend/app/auth/oauth_flow.py, its callback in api/auth.py), against  *)
(* everything that may happen to the server while the operator is at the   *)
(* provider: a PATCH that moves it to another owner or upstream, a         *)
(* disconnect, a delete, a newer sign-in, and its own bridge, which reads  *)
(* and refreshes the same credential file (auth/oauth_store.py).           *)
(*                                                                         *)
(* A grant is named by the sign-in it came from, also after refreshes; an  *)
(* OAuth signature (_oauth_signature) is a member of Configs.  Flows of    *)
(* different servers never meet, so one server is enough.                  *)
(***************************************************************************)
EXTENDS Naturals, FiniteSets

CONSTANTS
    Flows,         \* sign-ins, each begun at most once
    Earlier,       \* the one that was completed before the model begins
    Owners, Configs,
    Operators,     \* callers of PATCH, DELETE and disconnect
    None, NoRow, NoPass,
    FirstRow,      \* the server as the model begins
    StopMayRaise,  \* sup.stop may raise, with the process alive or not
    MaxRequests    \* bound: sign-ins and calls of the operators together

Rows == [owner : Owners, config : Configs]

ASSUME FlowAssumptions ==
    /\ IsFiniteSet(Flows) /\ Earlier \in Flows /\ None \notin Flows
    /\ NoRow \notin Rows /\ NoPass \notin Rows \cup {NoRow}
    /\ FirstRow \in Rows
    /\ StopMayRaise \in BOOLEAN /\ MaxRequests \in Nat

VARIABLES
    row,       \* the server's committed row
    store,     \* the credential file: tokens and client registration
    lock,      \* the promotion that holds config_write_lock
    pending,   \* _PENDING
    at,        \* where each sign-in is: begin_authorization, then _drive
    snap,      \* the owner and signature it was begun with
    through,   \* those whose registration goes through to the store
    thread,    \* its _checked_promote in a worker thread
    done,      \* done_future
    callback,  \* the /oauth/callback request that carries its state
    bridge,    \* its process lives, it may be routed to, the grant it has read, the
               \* promotions before it started
    pass,      \* the row a reconcile pass under way has read
    op, calls, \* each operator's call; how many there were
    erased,    \* a DELETE was answered
    left       \* history: grants a PATCH left behind, for its stop had raised

flows == <<pending, at, snap, through, thread, done, callback>>
server == <<row, store, lock>>
supervisor == <<bridge, pass>>
operators == <<op, calls>>
ghosts == <<erased, left>>
vars == <<flows, server, supervisor, operators, ghosts>>

Empty == [tokens |-> None, client |-> FALSE]
Off == [on |-> FALSE, serves |-> FALSE, grant |-> None, after |-> {}]
Idle == [at |-> "idle", owner |-> None, clears |-> FALSE]
Promoted == {f \in Flows : thread[f] = "wrote"}
Begun == {f \in Flows : at[f] # "unbegun"}
MoreRequests == calls + Cardinality(Begun \ {Earlier}) < MaxRequests

TypeOK ==
    /\ row \in Rows \cup {NoRow}
    /\ store \in [tokens : Flows \cup {None}, client : BOOLEAN]
    /\ lock \in Flows \cup {None}
    /\ pending \subseteq Flows
    /\ at \in [Flows -> {"unbegun", "probe", "register", "persist", "discover", "parked",
                         "exchange", "promote", "over"}]
    /\ snap \in [Flows -> Rows]
    /\ through \subseteq pending
    /\ thread \in [Flows -> {"none", "waiting", "checked", "wrote", "refused"}]
    /\ done \in [Flows -> {"pending", "granted", "failed"}]
    /\ callback \in [Flows -> {"none", "stopping", "waiting", "restarting", "connected",
                               "refused"}]
    /\ bridge \in [on : BOOLEAN, serves : BOOLEAN, grant : Flows \cup {None},
                   after : SUBSET Flows]
    /\ pass \in Rows \cup {NoRow, NoPass}
    /\ op \in [Operators -> [at : {"idle", "patched", "patch_stop", "delete_stop", "deleting",
                                   "delete_again", "disconnect_stop", "disconnecting"},
                             owner : Owners \cup {None}, clears : BOOLEAN]]
    /\ erased \in BOOLEAN /\ left \subseteq Flows /\ calls \in 0..MaxRequests

\* The server was connected by the sign-in Earlier; nothing is under way.
Init ==
    /\ row = FirstRow
    /\ store = [tokens |-> Earlier, client |-> TRUE]
    /\ lock = None /\ pending = {}
    /\ at = [f \in Flows |-> IF f = Earlier THEN "over" ELSE "unbegun"]
    /\ snap = [f \in Flows |-> row]
    /\ through = {}
    /\ thread = [f \in Flows |-> IF f = Earlier THEN "wrote" ELSE "none"]
    /\ done = [f \in Flows |-> IF f = Earlier THEN "granted" ELSE "pending"]
    /\ callback = [f \in Flows |-> IF f = Earlier THEN "connected" ELSE "none"]
    /\ bridge = Off /\ pass = NoPass
    /\ op = [o \in Operators |-> Idle] /\ calls = 0
    /\ erased = FALSE /\ left = {}

-----------------------------------------------------------------------------
(* Helpers.  A registration that is being judged and written runs without  *)
(* an await: it keeps the event loop, but not worker threads, waiting.     *)

LoopFree == \A f \in Flows : at[f] # "persist"

\* Mutant: only the owner is compared.
OwnerIsTheSame(f) == row # NoRow /\ row.owner = snap[f].owner

\* _promotion_blocked finds nothing against the sign-in: the row exists, with
\* the owner and the OAuth signature it had at begin.
MayBecomeCredential(f) == row = snap[f]

\* _abort for each of them: the task is cancelled, whoever waits is woken.  A
\* begin that is still in its self-probe has no task yet; a promotion that has
\* reached its thread goes on there.
Cancelled(fs) == [f \in Flows |-> IF f \in fs /\ at[f] # "probe" THEN "over" ELSE at[f]]

\* The future a waiting callback is parked on.
Woken(fs) == [f \in Flows |-> IF f \in fs /\ done[f] = "pending" THEN "failed" ELSE done[f]]

\* cancel_pending
CancelPending ==
    at' = Cancelled(pending) /\ done' = Woken(pending) /\ pending' = {} /\ through' = {}

\* _forget
Forget(f) == pending' = pending \ {f} /\ through' = through \ {f}

\* A teardown that raised: the unit is quarantined in "stopping", so nothing is
\* routed to it any more; its process may be alive.
Quarantined == [bridge EXCEPT !.serves = FALSE]
TeardownRaised == StopMayRaise /\ bridge.on /\ bridge' \in {Off, Quarantined}

\* The end of sup.stop: no pass is under way (_unit_lock) and the bridge is
\* dead, unless the teardown raised.
Stopped == pass = NoPass /\ bridge' = Off /\ UNCHANGED pass
StopRaised == pass = NoPass /\ TeardownRaised /\ UNCHANGED pass

\* A call begins, goes on at its next await, returns.
Calls(o, where, clears) ==
    /\ op[o] = Idle /\ MoreRequests /\ calls' = calls + 1
    /\ op' = [op EXCEPT ![o] = [at |-> where, owner |-> row.owner, clears |-> clears]]
Goes(o, where) == op' = [op EXCEPT ![o].at = where] /\ UNCHANGED calls
Returns(o) == op' = [op EXCEPT ![o] = Idle] /\ UNCHANGED calls

-----------------------------------------------------------------------------
(* begin_authorization and _drive.                                         *)

\* Supersedes whatever is in flight, takes the snapshots and registers, all
\* before the first await.  A stored registration is reused unless it expired,
\* is for another callback URL, or is an identity that is never reused.
Begin(f) ==
    /\ LoopFree /\ row # NoRow /\ at[f] = "unbegun" /\ MoreRequests
    /\ done' = Woken(pending)
    /\ pending' = {f}
    /\ snap' = [snap EXCEPT ![f] = row]
    /\ \/ /\ store.client
          /\ at' = [Cancelled(pending) EXCEPT ![f] = "discover"]
          /\ through' = {}
       \/ /\ at' = [Cancelled(pending) EXCEPT ![f] = "probe"]
          /\ through' = IF store.tokens = None THEN {f} ELSE {}
    /\ UNCHANGED <<thread, callback, server, supervisor, operators, ghosts>>

\* Mutant: no second look at _PENDING.
ProbeEndsUnchecked(f) ==
    /\ LoopFree /\ at[f] = "probe"
    /\ at' = [at EXCEPT ![f] = "register"]
    /\ UNCHANGED <<pending, snap, through, thread, done, callback, server, supervisor,
                   operators, ghosts>>

\* The self-probe is over: a sign-in that was superseded meanwhile starts
\* nothing, and one whose request ended is forgotten.
ProbeEnds(f) ==
    /\ LoopFree /\ at[f] = "probe"
    /\ \/ f \in pending /\ at' = [at EXCEPT ![f] = "register"] /\ UNCHANGED <<pending, through>>
       \/ f \notin pending /\ at' = [at EXCEPT ![f] = "over"] /\ UNCHANGED <<pending, through>>
       \/ at' = [at EXCEPT ![f] = "over"] /\ Forget(f)
    /\ UNCHANGED <<snap, thread, done, callback, server, supervisor, operators, ghosts>>

\* The provider registers a client (or fabricates the URL identity).  The
\* first one of a server without tokens goes through to the store, if the
\* sign-in still fits the row.
RegistersClient(f) ==
    /\ LoopFree /\ at[f] = "register"
    /\ at' = [at EXCEPT ![f] = IF f \in through /\ MayBecomeCredential(f) THEN "persist" ELSE "discover"]
    /\ through' = through \ {f}
    /\ UNCHANGED <<pending, snap, thread, done, callback, server, supervisor, operators, ghosts>>

PersistsClient(f) ==
    /\ at[f] = "persist"
    /\ store' = [store EXCEPT !.client = TRUE]
    /\ at' = [at EXCEPT ![f] = "discover"]
    /\ UNCHANGED <<pending, snap, through, thread, done, callback, row, lock, supervisor,
                   operators, ghosts>>

\* redirect_handler: the URL is handed out and its state is known.
UrlProduced(f) ==
    /\ LoopFree /\ at[f] = "discover"
    /\ at' = [at EXCEPT ![f] = "parked"]
    /\ UNCHANGED <<pending, snap, through, thread, done, callback, server, supervisor,
                   operators, ghosts>>

\* Discovery or registration fails, or takes longer than begin_authorization
\* waits: nobody will come back with a code.
NoUrl(f) ==
    /\ LoopFree /\ at[f] \in {"register", "discover"}
    /\ at' = [at EXCEPT ![f] = "over"] /\ Forget(f)
    /\ UNCHANGED <<snap, thread, done, callback, server, supervisor, operators, ghosts>>

\* The code was exchanged for tokens which the upstream accepts, or not.
ExchangeSucceeds(f) ==
    /\ LoopFree /\ at[f] = "exchange"
    /\ at' = [at EXCEPT ![f] = "promote"] /\ thread' = [thread EXCEPT ![f] = "waiting"]
    /\ UNCHANGED <<pending, snap, through, done, callback, server, supervisor, operators, ghosts>>

ExchangeFails(f) ==
    /\ LoopFree /\ at[f] = "exchange"
    /\ at' = [at EXCEPT ![f] = "over"] /\ done' = [done EXCEPT ![f] = "failed"]
    /\ UNCHANGED <<pending, snap, through, thread, callback, server, supervisor, operators, ghosts>>

-----------------------------------------------------------------------------
(* _checked_promote, in its worker thread and under config_write_lock.     *)

Judges(f) ==
    /\ thread[f] = "waiting" /\ lock = None
    /\ IF MayBecomeCredential(f)
       THEN thread' = [thread EXCEPT ![f] = "checked"] /\ lock' = f
       ELSE thread' = [thread EXCEPT ![f] = "refused"] /\ UNCHANGED lock
    /\ UNCHANGED <<pending, at, snap, through, done, callback, row, store, supervisor,
                   operators, ghosts>>

\* promote: one atomic write of tokens and client; a write may fail.
Promotes(f) ==
    /\ thread[f] = "checked" /\ lock' = None
    /\ \/ thread' = [thread EXCEPT ![f] = "wrote"]
          /\ store' = [tokens |-> f, client |-> TRUE]
       \/ thread' = [thread EXCEPT ![f] = "refused"] /\ UNCHANGED store
    /\ UNCHANGED <<pending, at, snap, through, done, callback, row, supervisor, operators, ghosts>>

\* _drive resumes and resolves done_future.
PromotionReturns(f) ==
    /\ LoopFree /\ at[f] = "promote" /\ thread[f] \in {"wrote", "refused"}
    /\ at' = [at EXCEPT ![f] = "over"]
    /\ done' = [done EXCEPT ![f] = IF thread[f] = "wrote" THEN "granted" ELSE "failed"]
    /\ UNCHANGED <<pending, snap, through, thread, callback, server, supervisor, operators, ghosts>>

-----------------------------------------------------------------------------
(* oauth_callback and complete_authorization.                              *)

CallbackArrives(f) ==
    /\ LoopFree /\ at[f] = "parked" /\ f \in pending /\ callback[f] = "none"
    /\ callback' = [callback EXCEPT ![f] = "stopping"]
    /\ UNCHANGED <<pending, at, snap, through, thread, done, server, supervisor, operators, ghosts>>

\* The bridge was stopped first (a failure of that is suppressed); then the
\* state is looked up again and the code handed to the parked sign-in.
CallbackDelivers(f) ==
    /\ LoopFree /\ callback[f] = "stopping"
    /\ Stopped \/ StopRaised
    /\ IF f \in pending
       THEN /\ at' = [at EXCEPT ![f] = "exchange"]
            /\ callback' = [callback EXCEPT ![f] = "waiting"]
       ELSE callback' = [callback EXCEPT ![f] = "refused"] /\ UNCHANGED at
    /\ UNCHANGED <<pending, snap, through, thread, done, server, operators, ghosts>>

\* done_future is resolved.  A server that is connected now, and still exists,
\* is stopped once more.
CallbackWakes(f) ==
    /\ LoopFree /\ callback[f] = "waiting" /\ done[f] # "pending"
    /\ Forget(f) /\ at' = Cancelled({f})
    /\ callback' = [callback EXCEPT ![f] =
                       IF done[f] = "granted" /\ row # NoRow THEN "restarting" ELSE "refused"]
    /\ UNCHANGED <<snap, thread, done, server, supervisor, operators, ghosts>>

\* The callback's own 90 s are over.
CallbackTimesOut(f) ==
    /\ LoopFree /\ callback[f] = "waiting"
    /\ Forget(f) /\ at' = Cancelled({f})
    /\ callback' = [callback EXCEPT ![f] = "refused"]
    /\ UNCHANGED <<snap, thread, done, server, supervisor, operators, ghosts>>

\* Mutant: the callback leaves the restart to the reconciler.
CallbackConnectsOnly(f) ==
    /\ LoopFree /\ callback[f] = "restarting"
    /\ callback' = [callback EXCEPT ![f] = "connected"]
    /\ UNCHANGED <<pending, at, snap, through, thread, done, server, supervisor, operators, ghosts>>

\* A failure of the second stop is suppressed as well.
CallbackConnects(f) ==
    /\ LoopFree /\ callback[f] = "restarting"
    /\ Stopped \/ StopRaised
    /\ callback' = [callback EXCEPT ![f] = "connected"]
    /\ UNCHANGED <<pending, at, snap, through, thread, done, server, operators, ghosts>>

\* The provider redirects with an error, or without a code; or the sign-in
\* window is over, which the next call that looks at _PENDING finds
\* (_reap_stale).
Retired(f) ==
    /\ LoopFree /\ f \in pending
    /\ at' = Cancelled({f}) /\ done' = Woken({f}) /\ Forget(f)
    /\ UNCHANGED <<snap, thread, callback, server, supervisor, operators, ghosts>>

-----------------------------------------------------------------------------
(* The server's bridge and the reconcile passes.                           *)

PassBegins ==
    /\ LoopFree /\ pass = NoPass /\ pass' = row
    /\ UNCHANGED <<flows, server, bridge, operators, ghosts>>

\* The pass leaves the bridge alone, removes it or fails to, or (re)starts it
\* from the row it has read, never beside one it could not remove; a bridge reads
\* the file as it starts.
PassEnds ==
    /\ LoopFree /\ pass # NoPass /\ pass' = NoPass
    /\ \/ UNCHANGED bridge
       \/ bridge' = Off
       \/ TeardownRaised
       \/ /\ pass # NoRow
          /\ bridge' = [on |-> TRUE, serves |-> TRUE, grant |-> store.tokens, after |-> Promoted]
    /\ UNCHANGED <<flows, server, operators, ghosts>>

\* The bridge refreshes what it has in memory and writes it back, at any time.
BridgeRefreshes ==
    /\ bridge.on /\ bridge.grant # None
    /\ store' = [store EXCEPT !.tokens = bridge.grant]
    /\ UNCHANGED <<flows, row, lock, supervisor, operators, ghosts>>

-----------------------------------------------------------------------------
(* The server's own endpoints.                                             *)

\* PATCH commits, in a worker thread and under config_write_lock.
PatchCommits(o) ==
    /\ row # NoRow /\ lock = None
    /\ \E new \in Rows \ {row} : row' = new /\ Calls(o, "patched", new.config # row.config)
    /\ UNCHANGED <<flows, store, lock, supervisor, ghosts>>

\* Back on the loop: sign-ins of the former owner or configuration end.
PatchCancels(o) ==
    /\ LoopFree /\ op[o].at = "patched"
    /\ CancelPending
    /\ IF op[o].clears THEN Goes(o, "patch_stop") ELSE Returns(o)
    /\ UNCHANGED <<snap, thread, callback, server, supervisor, ghosts>>

\* The stop returned, and the file is cleared; or it raised, and what the file
\* and the bridge hold is left to them.
PatchClears(o) ==
    /\ LoopFree /\ op[o].at = "patch_stop" /\ Returns(o)
    /\ \/ Stopped /\ store' = Empty /\ left' = {}
       \/ StopRaised /\ left' = (left \cup {store.tokens, bridge.grant}) \ {None} /\ UNCHANGED store
    /\ UNCHANGED <<flows, row, lock, erased>>

DeleteEnters(o) ==
    /\ LoopFree /\ row # NoRow /\ Calls(o, "delete_stop", FALSE)
    /\ UNCHANGED <<flows, server, supervisor, ghosts>>

DeleteStops(o) ==
    /\ LoopFree /\ op[o].at = "delete_stop"
    /\ \/ Stopped /\ Goes(o, "deleting")
       \/ StopRaised /\ Returns(o)
    /\ UNCHANGED <<flows, server, ghosts>>

\* _prune_then_delete, unless somebody else was first.
DeleteCommits(o) ==
    /\ op[o].at = "deleting" /\ lock = None
    /\ IF row # NoRow THEN row' = NoRow /\ Goes(o, "delete_again") ELSE UNCHANGED row /\ Returns(o)
    /\ UNCHANGED <<flows, store, lock, supervisor, ghosts>>

\* Mutant: the credential file is removed without a second stop.
DeleteClearsUnstopped(o) ==
    /\ LoopFree /\ op[o].at = "delete_again" /\ Returns(o)
    /\ CancelPending /\ store' = Empty /\ erased' = TRUE
    /\ UNCHANGED <<snap, thread, callback, row, lock, supervisor, left>>

\* The second stop; the cleanup after it runs even if it raises.
DeleteClears(o) ==
    /\ LoopFree /\ op[o].at = "delete_again" /\ Returns(o)
    /\ \/ Stopped /\ erased' = TRUE
       \/ StopRaised /\ UNCHANGED erased
    /\ CancelPending /\ store' = Empty
    /\ UNCHANGED <<snap, thread, callback, row, lock, left>>

DisconnectEnters(o) ==
    /\ LoopFree /\ row # NoRow /\ Calls(o, "disconnect_stop", FALSE)
    /\ CancelPending
    /\ UNCHANGED <<snap, thread, callback, server, supervisor, ghosts>>

DisconnectStops(o) ==
    /\ LoopFree /\ op[o].at = "disconnect_stop"
    /\ \/ Stopped /\ Goes(o, "disconnecting")
       \/ StopRaised /\ Returns(o)
    /\ UNCHANGED <<flows, server, ghosts>>

\* _clear_if_still_visible: the server must exist, and after a change of owner
\* only an administrator still sees it.
DisconnectClears(o) ==
    /\ op[o].at = "disconnecting" /\ lock = None /\ Returns(o)
    /\ \/ row # NoRow /\ store' = Empty /\ left' = left \cap {bridge.grant}
       \/ (row # NoRow => row.owner # op[o].owner) /\ UNCHANGED <<store, left>>
    /\ UNCHANGED <<flows, row, lock, supervisor, erased>>

-----------------------------------------------------------------------------
Driving(f) ==
    \/ ProbeEnds(f) \/ RegistersClient(f) \/ PersistsClient(f) \/ UrlProduced(f) \/ NoUrl(f)
    \/ ExchangeSucceeds(f) \/ ExchangeFails(f) \/ PromotionReturns(f)

Promoting(f) == Judges(f) \/ Promotes(f)

Answering(f) == CallbackDelivers(f) \/ CallbackWakes(f) \/ CallbackConnects(f)

SignIn(f) ==
    \/ Begin(f) \/ Driving(f) \/ Promoting(f)
    \/ CallbackArrives(f) \/ Answering(f) \/ CallbackTimesOut(f) \/ Retired(f)

Call(o) ==
    \/ PatchCommits(o) \/ PatchCancels(o) \/ PatchClears(o)
    \/ DeleteEnters(o) \/ DeleteStops(o) \/ DeleteCommits(o) \/ DeleteClears(o)
    \/ DisconnectEnters(o) \/ DisconnectStops(o) \/ DisconnectClears(o)

Next ==
    \/ \E f \in Flows : SignIn(f)
    \/ \E o \in Operators : Call(o)
    \/ PassBegins \/ PassEnds \/ BridgeRefreshes

Spec == Init /\ [][Next]_vars

-----------------------------------------------------------------------------
(* Properties.                                                             *)

\* What a sign-in writes into the file belongs to the owner and the upstream
\* the server has at that moment: no transfer, PATCH or delete commits between
\* _promotion_blocked's read and the write.
GrantFitsWhenWritten ==
    [][\A f \in Flows : thread'[f] = "wrote" /\ thread[f] # "wrote" => row = snap[f] /\ row' = row]_vars

\* Tokens of another upstream or client are in the file only until the PATCH
\* that moved the server has cleared it: no late callback and no bridge that
\* refreshes brings them back.  _promotion_blocked (oauth_flow.py:1035) counts on
\* that clear, but a PATCH whose stop raised never makes it: the grants it left
\* behind, and they alone, stay in the file and come back into it until a later
\* PATCH or a disconnect takes them away.
StoredFitsRow ==
    store.tokens # None /\ row # NoRow /\ row.config # snap[store.tokens].config =>
        store.tokens \in left \/ \E o \in Operators : op[o].clears

\* After an answered DELETE there is no credential file and no bridge that
\* could write one, whatever sign-in, promotion or pass was under way.
ErasedLeavesNothing == erased => store = Empty /\ ~bridge.on

\* One authorization in flight: a second Authenticate never leaves two that
\* are driven towards a grant.
OneDriven ==
    /\ Cardinality(pending) <= 1
    /\ Cardinality({f \in Flows : at[f] \notin {"unbegun", "probe", "over"}}) <= 1

\* A callback that waits is woken by whatever ends its sign-in, and does not
\* sit out its own timeout.
AbortWakesCallback ==
    \A f \in Flows : callback[f] = "waiting" /\ f \notin pending => done[f] # "pending"

\* The bridge that serves after a connected sign-in started after its promotion
\* (api/auth.py:337), the suppressed failure of the second stop included: one
\* that read the old tokens may outlive that, but nothing is routed to it and
\* no pass starts another beside it.
ConnectedBridgeIsFresh ==
    \A f \in Flows : callback[f] = "connected" /\ bridge.serves => f \in bridge.after

\* What a sign-in writes fits the row at that moment, and what is in the file and
\* no longer fits is what a PATCH is about to clear, or could not.
CredentialFits == []StoredFitsRow /\ GrantFitsWhenWritten

\* However often Authenticate is pressed there is one sign-in, and the callback
\* of any other is told so at once.
OneAtATime == TypeOK /\ OneDriven /\ AbortWakesCallback
=============================================================================
