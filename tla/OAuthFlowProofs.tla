-------------------------- MODULE OAuthFlowProofs --------------------------
(***************************************************************************)
(* Theorems of OAuthFlow, for any number of sign-ins, owners, OAuth        *)
(* configurations, operators and requests, with stops that may raise.      *)
(***************************************************************************)
EXTENDS OAuthFlow, FiniteSetTheorems, TLAPS

-----------------------------------------------------------------------------
(* The inductive invariant, in named parts.                                *)

\* Points of a sign-in which _drive's task has.
Driven == {"register", "persist", "discover", "parked", "exchange", "promote"}

\* Points of a sign-in before its URL is known, and before its promotion.
Unsent == {"unbegun", "probe", "register", "persist", "discover"}
Unpromoted == Unsent \cup {"parked", "exchange"}

\* Nobody comes back to a sign-in whose URL is not known, its promotion starts
\* once, and the code is delivered to one that is parked.
Ordered ==
    /\ \A f \in Flows : at[f] \in Unpromoted => thread[f] = "none"
    /\ \A f \in Flows : at[f] \in Unsent => callback[f] = "none"
    /\ \A f \in Flows : callback[f] = "stopping" /\ f \in pending => at[f] = "parked"

\* Between its judgment and its write a promotion has the lock, and the row is
\* the one it judged.
Sheltered == \A f \in Flows : thread[f] = "checked" => lock = f /\ row = snap[f]

\* One registered sign-in, and no other is driven.
Single ==
    /\ \A f, g \in pending : f = g
    /\ \A f \in Flows : at[f] \in Driven => f \in pending

\* What was reported as connected, is stored, or is held by a bridge, was
\* promoted.
Granted ==
    /\ \A f \in Flows : done[f] = "granted" \/ callback[f] \in {"restarting", "connected"}
                           => thread[f] = "wrote"
    /\ store.tokens # None => thread[store.tokens] = "wrote"
    /\ bridge.grant # None => thread[bridge.grant] = "wrote"

\* A deleted server stays deleted; after the answer nobody has its row in hand.
Deleted ==
    /\ \A o \in Operators : op[o].at = "delete_again" => row = NoRow
    /\ erased => row = NoRow /\ pass \in {NoRow, NoPass} /\ LoopFree

\* Who has moved the server to another configuration clears it next.
Clearing == \A o \in Operators : op[o].clears => op[o].at \in {"patched", "patch_stop"}

\* What a bridge would write back fits as well as what is stored.
BridgeFitsRow ==
    bridge.grant # None /\ row # NoRow /\ row.config # snap[bridge.grant].config =>
        bridge.grant \in left \/ \E o \in Operators : op[o].clears

Points == {"unbegun", "probe", "register", "persist", "discover", "parked", "exchange",
           "promote", "over"}

Bridges == [on : BOOLEAN, serves : BOOLEAN, grant : Flows \cup {None}, after : SUBSET Flows]

\* TypeOK, by who changes what.
FlowTypes ==
    /\ pending \subseteq Flows /\ through \subseteq pending
    /\ at \in [Flows -> {"unbegun", "probe", "register", "persist", "discover", "parked",
                         "exchange", "promote", "over"}]
    /\ snap \in [Flows -> Rows]
    /\ thread \in [Flows -> {"none", "waiting", "checked", "wrote", "refused"}]
    /\ done \in [Flows -> {"pending", "granted", "failed"}]
    /\ callback \in [Flows -> {"none", "stopping", "waiting", "restarting", "connected",
                               "refused"}]

ServerTypes ==
    /\ row \in Rows \cup {NoRow} /\ lock \in Flows \cup {None}
    /\ store \in [tokens : Flows \cup {None}, client : BOOLEAN]
    /\ bridge \in Bridges
    /\ pass \in Rows \cup {NoRow, NoPass}

CallTypes ==
    /\ op \in [Operators -> [at : {"idle", "patched", "patch_stop", "delete_stop", "deleting",
                                   "delete_again", "disconnect_stop", "disconnecting"},
                             owner : Owners \cup {None}, clears : BOOLEAN]]
    /\ calls \in 0..MaxRequests
    /\ erased \in BOOLEAN /\ left \subseteq Flows

IInv ==
    /\ TypeOK /\ Ordered /\ Sheltered /\ Single /\ AbortWakesCallback /\ Granted
    /\ ConnectedBridgeIsFresh /\ Deleted /\ ErasedLeavesNothing
    /\ Clearing /\ StoredFitsRow /\ BridgeFitsRow

-----------------------------------------------------------------------------
(* Lemmas about the operators.                                             *)

\* Where the sign-ins are after a new one has superseded the registered one.
LEMMA AfterBegin ==
    ASSUME TypeOK, NEW f \in Flows, Begin(f)
    PROVE  /\ at' \in [Flows -> {"unbegun", "probe", "register", "persist", "discover", "parked",
                                 "exchange", "promote", "over"}]
           /\ at'[f] \in {"discover", "probe"}
           /\ \A g \in Flows \ {f} : at'[g] = Cancelled(pending)[g]
<1>1. Cancelled(pending) \in [Flows -> {"unbegun", "probe", "register", "persist", "discover",
                                        "parked", "exchange", "promote", "over"}]
  BY DEF TypeOK, Cancelled
<1>2. PICK w \in {"discover", "probe"} : at' = [Cancelled(pending) EXCEPT ![f] = w]
  BY DEF Begin
<1>3. QED  BY <1>1, <1>2

\* What a stop may do to the bridge, whoever calls it: nothing is started, and no
\* other grant is read.
Kept ==
    /\ bridge' \in Bridges /\ bridge'.grant \in {None, bridge.grant}
    /\ (bridge'.serves => bridge' = bridge) /\ (bridge'.on => bridge.on)
    /\ pass' = pass

\* A teardown that returned leaves no bridge, one that raised none that is routed to.
LEMMA AfterTeardown ==
    ASSUME TypeOK, bridge' = Off \/ TeardownRaised
    PROVE  /\ bridge' \in Bridges /\ bridge'.grant \in {None, bridge.grant}
           /\ ~bridge'.serves /\ (bridge'.on => bridge.on)
<1>1. Off \in Bridges /\ ~Off.on /\ ~Off.serves /\ Off.grant = None
  BY DEF Off, Bridges
<1>2. Quarantined \in Bridges /\ ~Quarantined.serves /\ Quarantined.grant = bridge.grant
  BY DEF TypeOK, Quarantined, Bridges
<1>3. QED  BY <1>1, <1>2 DEF TeardownRaised

LEMMA AfterStop ==
    ASSUME TypeOK, Stopped \/ StopRaised
    PROVE  Kept /\ ~bridge'.serves
<1>1. bridge' = Off \/ TeardownRaised  BY DEF Stopped, StopRaised
<1>2. pass' = pass  BY DEF Stopped, StopRaised
<1>3. QED  BY <1>1, <1>2, AfterTeardown DEF Kept

LEMMA StillThere ==
    ASSUME TypeOK, UNCHANGED supervisor
    PROVE  Kept
BY DEF TypeOK, Kept, supervisor, Bridges

\* Neither a callback nor a call of an operator starts a bridge.
LEMMA CallbackKeeps ==
    ASSUME TypeOK, NEW f \in Flows, CallbackArrives(f) \/ Answering(f) \/ CallbackTimesOut(f)
    PROVE  Kept
<1>1. Stopped \/ StopRaised \/ UNCHANGED supervisor
  BY DEF Answering, CallbackArrives, CallbackDelivers, CallbackWakes, CallbackConnects,
         CallbackTimesOut
<1>2. QED  BY <1>1, AfterStop, StillThere

LEMMA CallKeeps ==
    ASSUME TypeOK, NEW o \in Operators, Call(o)
    PROVE  Kept
<1>1. Stopped \/ StopRaised \/ UNCHANGED supervisor
  BY DEF Call, PatchCommits, PatchCancels, PatchClears, DeleteEnters, DeleteStops, DeleteCommits,
         DeleteClears, DisconnectEnters, DisconnectStops, DisconnectClears
<1>2. QED  BY <1>1, AfterStop, StillThere

\* The file stays a file.
LEMMA Files ==
    ASSUME NEW f \in Flows \cup {None}, NEW c \in BOOLEAN
    PROVE  [tokens |-> f, client |-> c] \in [tokens : Flows \cup {None}, client : BOOLEAN]
OBVIOUS

Places == {"idle", "patched", "patch_stop", "delete_stop", "deleting", "delete_again",
           "disconnect_stop", "disconnecting"}

\* A call that begins, goes on or returns is a call, and only its caller's.
LEMMA AfterCall ==
    ASSUME TypeOK, NEW o \in Operators, NEW where \in Places, NEW clears \in BOOLEAN,
           row # NoRow, Calls(o, where, clears)
    PROVE  /\ op' \in [Operators -> [at : Places, owner : Owners \cup {None}, clears : BOOLEAN]]
           /\ calls' \in 0..MaxRequests
<1>1. row.owner \in Owners  BY DEF TypeOK, Rows
<1>2. [at |-> where, owner |-> row.owner, clears |-> clears]
         \in [at : Places, owner : Owners \cup {None}, clears : BOOLEAN]
  BY <1>1
<1>3. calls' \in 0..MaxRequests
  <2>1. IsFiniteSet(Begun \ {Earlier})  BY FlowAssumptions, FS_Subset DEF Begun
  <2>2. Cardinality(Begun \ {Earlier}) \in Nat  BY <2>1, FS_CardinalityType
  <2>3. QED  BY <2>2, FlowAssumptions DEF TypeOK, Calls, MoreRequests
<1>4. QED  BY <1>2, <1>3 DEF TypeOK, Calls, Places

LEMMA AfterGoing ==
    ASSUME TypeOK, NEW o \in Operators, NEW where \in Places, Goes(o, where) \/ Returns(o)
    PROVE  /\ op' \in [Operators -> [at : Places, owner : Owners \cup {None}, clears : BOOLEAN]]
           /\ calls' = calls
<1>1. CASE Goes(o, where)
  <2>1. op[o] \in [at : Places, owner : Owners \cup {None}, clears : BOOLEAN]
    BY DEF TypeOK, Places
  <2>2. [op[o] EXCEPT !.at = where] \in [at : Places, owner : Owners \cup {None}, clears : BOOLEAN]
    BY <2>1
  <2>3. op' = [op EXCEPT ![o] = [op[o] EXCEPT !.at = where]]  BY <1>1 DEF Goes
  <2>4. QED  BY <1>1, <2>2, <2>3 DEF TypeOK, Goes, Places
<1>2. CASE Returns(o)
  <2>1. Idle \in [at : Places, owner : Owners \cup {None}, clears : BOOLEAN]
    BY DEF Idle, Places
  <2>2. QED  BY <1>2, <2>1 DEF TypeOK, Returns, Places
<1>3. QED  BY <1>1, <1>2

\* A PATCH that moves the server to another configuration is the one that clears.
LEMMA CommitKeepsClearing ==
    ASSUME TypeOK, NEW o \in Operators, PatchCommits(o)
    PROVE  /\ row # NoRow
           /\ op'[o].clears = (row'.config # row.config)
           /\ (\E p \in Operators : op[p].clears) => \E p \in Operators : op'[p].clears
<1>1. PICK new \in Rows \ {row} : row' = new /\ Calls(o, "patched", new.config # row.config)
  BY DEF PatchCommits
<1>2. op'[o].clears = (row'.config # row.config)  BY <1>1 DEF TypeOK, Calls
<1>3. (\E p \in Operators : op[p].clears) => \E p \in Operators : op'[p].clears
  BY <1>1 DEF TypeOK, Calls, Idle
<1>4. QED  BY <1>2, <1>3 DEF PatchCommits

\* Who cancels goes on to clear if it is the one that moved the server.
LEMMA CancelKeepsClearing ==
    ASSUME TypeOK, NEW o \in Operators, PatchCancels(o)
    PROVE  (\E p \in Operators : op[p].clears) => \E p \in Operators : op'[p].clears
<1>1. \A p \in Operators \ {o} : op'[p] = op[p]  BY DEF TypeOK, PatchCancels, Goes, Returns
<1>2. CASE op[o].clears
  <2>1. op' = [op EXCEPT ![o].at = "patch_stop"]  BY <1>2 DEF PatchCancels, Goes
  <2>2. op'[o].clears  BY <1>2, <2>1 DEF TypeOK
  <2>3. QED  BY <2>2
<1>3. CASE ~op[o].clears  BY <1>1, <1>3
<1>4. QED  BY <1>2, <1>3

\* A delete or disconnect that goes on leaves the calls that clear alone.
LEMMA OthersKeepClearing ==
    ASSUME TypeOK, Clearing, NEW o \in Operators,
           op[o].at \notin {"patched", "patch_stop"},
           op' = [op EXCEPT ![o] = op'[o]]
    PROVE  (\E p \in Operators : op[p].clears) => \E p \in Operators : op'[p].clears
<1>1. ~op[o].clears  BY DEF Clearing
<1>2. \A p \in Operators \ {o} : op'[p] = op[p]  BY DEF TypeOK
<1>3. QED  BY <1>1, <1>2

-----------------------------------------------------------------------------
(* Every step preserves every part of the invariant.                       *)

\* Begin gives the state a flow starts in, and only _drive and the callback move it on.
LEMMA OrderedStep == IInv /\ [Next]_vars => Ordered'
<1> SUFFICES ASSUME IInv, [Next]_vars PROVE Ordered'
  OBVIOUS
<1> USE DEF IInv, TypeOK, Ordered
<1>1. ASSUME NEW f \in Flows, Begin(f) PROVE Ordered'
  <2>1. at'[f] \in {"discover", "probe"} /\ \A g \in Flows \ {f} : at'[g] = Cancelled(pending)[g]
    BY <1>1, AfterBegin
  <2>2. QED  BY <1>1, <2>1 DEF Unpromoted, Unsent, Begin, Cancelled
<1>2. ASSUME NEW f \in Flows, Driving(f) PROVE Ordered'
  BY <1>2
  DEF ProbeEnds, RegistersClient, PersistsClient, UrlProduced, NoUrl, ExchangeSucceeds,
      ExchangeFails, PromotionReturns, Unpromoted, Unsent, Forget, Driving
<1>3. ASSUME NEW f \in Flows, Promoting(f) PROVE Ordered'
  BY <1>3 DEF Judges, Promotes, Promoting
<1>4. ASSUME NEW f \in Flows, CallbackArrives(f) \/ Answering(f) \/ CallbackTimesOut(f)
      PROVE  Ordered'
  BY <1>4
  DEF CallbackArrives, CallbackDelivers, CallbackWakes, CallbackConnects, CallbackTimesOut,
      Unpromoted, Unsent, Forget, Cancelled, Answering
<1>5. ASSUME NEW f \in Flows, Retired(f) PROVE Ordered'
  BY <1>5 DEF Retired, Unpromoted, Unsent, Cancelled, Forget
<1>6. ASSUME NEW o \in Operators, PatchCommits(o) \/ PatchCancels(o) \/ PatchClears(o)
      PROVE  Ordered'
  BY <1>6
  DEF PatchCommits, PatchCancels, PatchClears, Unpromoted, Unsent, flows, CancelPending, Cancelled
<1>7. ASSUME NEW o \in Operators,
             DeleteEnters(o) \/ DeleteStops(o) \/ DeleteCommits(o) \/ DeleteClears(o)
      PROVE  Ordered'
  BY <1>7
  DEF DeleteEnters, DeleteStops, DeleteCommits, DeleteClears, Unpromoted, Unsent, Calls, flows,
      CancelPending, Cancelled
<1>8. ASSUME NEW o \in Operators, DisconnectEnters(o) \/ DisconnectStops(o) \/ DisconnectClears(o)
      PROVE  Ordered'
  BY <1>8
  DEF DisconnectEnters, DisconnectStops, DisconnectClears, Unpromoted, Unsent, Calls,
      CancelPending, flows, Cancelled
<1>9. CASE PassBegins \/ PassEnds \/ BridgeRefreshes
  BY <1>9 DEF PassBegins, PassEnds, BridgeRefreshes, flows
<1>10. CASE UNCHANGED vars
  BY <1>10 DEF vars, flows
<1>11. QED
  BY <1>1, <1>2, <1>3, <1>4, <1>5, <1>6, <1>7, <1>8, <1>9, <1>10 DEF Next, SignIn, Call

\* What a promotion judged cannot change before its write: the row is committed under
\* the lock it holds, and its own snapshot is taken once.
LEMMA ShelteredStep == IInv /\ [Next]_vars => Sheltered'
<1> SUFFICES ASSUME IInv, [Next]_vars PROVE Sheltered'
  OBVIOUS
<1> USE DEF IInv, TypeOK, Sheltered
<1>1. ASSUME NEW f \in Flows, Begin(f) PROVE Sheltered'
  BY <1>1 DEF Begin, server
<1>2. ASSUME NEW f \in Flows, Driving(f) PROVE Sheltered'
  BY <1>2
  DEF ProbeEnds, RegistersClient, PersistsClient, UrlProduced, NoUrl, ExchangeSucceeds,
      ExchangeFails, PromotionReturns, server, Driving
<1>3. ASSUME NEW f \in Flows, Promoting(f) PROVE Sheltered'
  BY <1>3, FlowAssumptions DEF Judges, Promotes, MayBecomeCredential, Promoting
<1>4. ASSUME NEW f \in Flows, CallbackArrives(f) \/ Answering(f) \/ CallbackTimesOut(f)
      PROVE  Sheltered'
  BY <1>4
  DEF CallbackArrives, CallbackDelivers, CallbackWakes, CallbackConnects, CallbackTimesOut,
      server, Answering
<1>5. ASSUME NEW f \in Flows, Retired(f) PROVE Sheltered'
  BY <1>5 DEF Retired, server
<1>6. ASSUME NEW o \in Operators, PatchCommits(o) \/ PatchCancels(o) \/ PatchClears(o)
      PROVE  Sheltered'
  BY <1>6, FlowAssumptions DEF PatchCommits, PatchCancels, PatchClears, flows, server
<1>7. ASSUME NEW o \in Operators,
             DeleteEnters(o) \/ DeleteStops(o) \/ DeleteCommits(o) \/ DeleteClears(o)
      PROVE  Sheltered'
  BY <1>7, FlowAssumptions
  DEF DeleteEnters, DeleteStops, DeleteCommits, DeleteClears, Calls, flows, server
<1>8. ASSUME NEW o \in Operators, DisconnectEnters(o) \/ DisconnectStops(o) \/ DisconnectClears(o)
      PROVE  Sheltered'
  BY <1>8 DEF DisconnectEnters, DisconnectStops, DisconnectClears, Calls, server, flows
<1>9. CASE PassBegins \/ PassEnds \/ BridgeRefreshes
  BY <1>9 DEF PassBegins, PassEnds, BridgeRefreshes, flows, server
<1>10. CASE UNCHANGED vars
  BY <1>10 DEF vars, flows, server
<1>11. QED
  BY <1>1, <1>2, <1>3, <1>4, <1>5, <1>6, <1>7, <1>8, <1>9, <1>10 DEF Next, SignIn, Call

\* A second sign-in replaces the first before it registers, and one that lost its place
\* while it probed starts nothing.
LEMMA SingleStep == IInv /\ [Next]_vars => Single'
<1> SUFFICES ASSUME IInv, [Next]_vars PROVE Single'
  OBVIOUS
<1> USE DEF IInv, TypeOK, Single
<1>1. ASSUME NEW f \in Flows, Begin(f) PROVE Single'
  <2>1. at'[f] \in {"discover", "probe"} /\ \A g \in Flows \ {f} : at'[g] = Cancelled(pending)[g]
    BY <1>1, AfterBegin
  <2>2. QED  BY <1>1, <2>1 DEF Driven, Begin, Cancelled
<1>2. ASSUME NEW f \in Flows, Driving(f) PROVE Single'
  BY <1>2
  DEF ProbeEnds, RegistersClient, PersistsClient, UrlProduced, NoUrl, ExchangeSucceeds,
      ExchangeFails, PromotionReturns, Driven, Forget, Driving
<1>3. ASSUME NEW f \in Flows, Promoting(f) PROVE Single'
  BY <1>3 DEF Judges, Promotes, Promoting
<1>4. ASSUME NEW f \in Flows, CallbackArrives(f) \/ Answering(f) \/ CallbackTimesOut(f)
      PROVE  Single'
  BY <1>4
  DEF CallbackArrives, CallbackDelivers, CallbackWakes, CallbackConnects, CallbackTimesOut,
      Driven, Forget, Cancelled, Answering
<1>5. ASSUME NEW f \in Flows, Retired(f) PROVE Single'
  BY <1>5 DEF Retired, Driven, Cancelled, Forget
<1>6. ASSUME NEW o \in Operators, PatchCommits(o) \/ PatchCancels(o) \/ PatchClears(o)
      PROVE  Single'
  BY <1>6 DEF PatchCommits, PatchCancels, PatchClears, Driven, flows, CancelPending, Cancelled
<1>7. ASSUME NEW o \in Operators,
             DeleteEnters(o) \/ DeleteStops(o) \/ DeleteCommits(o) \/ DeleteClears(o)
      PROVE  Single'
  BY <1>7
  DEF DeleteEnters, DeleteStops, DeleteCommits, DeleteClears, Driven, Calls, flows, CancelPending,
      Cancelled
<1>8. ASSUME NEW o \in Operators, DisconnectEnters(o) \/ DisconnectStops(o) \/ DisconnectClears(o)
      PROVE  Single'
  BY <1>8
  DEF DisconnectEnters, DisconnectStops, DisconnectClears, Driven, Calls, CancelPending, flows,
      Cancelled
<1>9. CASE PassBegins \/ PassEnds \/ BridgeRefreshes
  BY <1>9 DEF PassBegins, PassEnds, BridgeRefreshes, flows
<1>10. CASE UNCHANGED vars
  BY <1>10 DEF vars, flows
<1>11. QED
  BY <1>1, <1>2, <1>3, <1>4, <1>5, <1>6, <1>7, <1>8, <1>9, <1>10 DEF Next, SignIn, Call

\* Whatever takes a sign-in out of _PENDING resolves its future, or is the callback itself.
LEMMA AbortWakesCallbackStep == IInv /\ [Next]_vars => AbortWakesCallback'
<1> SUFFICES ASSUME IInv, [Next]_vars PROVE AbortWakesCallback'
  OBVIOUS
<1> USE DEF IInv, TypeOK, AbortWakesCallback
<1>1. ASSUME NEW f \in Flows, Begin(f) PROVE AbortWakesCallback'
  BY <1>1 DEF Begin, Woken
<1>2. ASSUME NEW f \in Flows, Driving(f) PROVE AbortWakesCallback'
  BY <1>2
  DEF Ordered, ProbeEnds, RegistersClient, PersistsClient, UrlProduced, NoUrl, ExchangeSucceeds,
      ExchangeFails, PromotionReturns, Unsent, Forget, Driving
<1>3. ASSUME NEW f \in Flows, Promoting(f) PROVE AbortWakesCallback'
  BY <1>3 DEF Judges, Promotes, Promoting
<1>4. ASSUME NEW f \in Flows, CallbackArrives(f) \/ Answering(f) \/ CallbackTimesOut(f)
      PROVE  AbortWakesCallback'
  BY <1>4
  DEF CallbackArrives, CallbackDelivers, CallbackWakes, CallbackConnects, CallbackTimesOut,
      Forget, Answering
<1>5. ASSUME NEW f \in Flows, Retired(f) PROVE AbortWakesCallback'
  BY <1>5 DEF Retired, Woken, Forget
<1>6. ASSUME NEW o \in Operators, PatchCommits(o) \/ PatchCancels(o) \/ PatchClears(o)
      PROVE  AbortWakesCallback'
  BY <1>6 DEF PatchCommits, PatchCancels, PatchClears, flows, CancelPending, Woken
<1>7. ASSUME NEW o \in Operators,
             DeleteEnters(o) \/ DeleteStops(o) \/ DeleteCommits(o) \/ DeleteClears(o)
      PROVE  AbortWakesCallback'
  BY <1>7
  DEF DeleteEnters, DeleteStops, DeleteCommits, DeleteClears, Calls, flows, CancelPending, Woken
<1>8. ASSUME NEW o \in Operators, DisconnectEnters(o) \/ DisconnectStops(o) \/ DisconnectClears(o)
      PROVE  AbortWakesCallback'
  BY <1>8
  DEF DisconnectEnters, DisconnectStops, DisconnectClears, Calls, CancelPending, flows, Woken
<1>9. CASE PassBegins \/ PassEnds \/ BridgeRefreshes
  BY <1>9 DEF PassBegins, PassEnds, BridgeRefreshes, flows
<1>10. CASE UNCHANGED vars
  BY <1>10 DEF vars, flows
<1>11. QED
  BY <1>1, <1>2, <1>3, <1>4, <1>5, <1>6, <1>7, <1>8, <1>9, <1>10 DEF Next, SignIn, Call

\* Only a promotion that wrote lets a callback connect, and only it brings tokens into the file.
LEMMA GrantedStep == IInv /\ [Next]_vars => Granted'
<1> SUFFICES ASSUME IInv, [Next]_vars PROVE Granted'
  OBVIOUS
<1> USE DEF IInv, TypeOK, Granted
<1>1. ASSUME NEW f \in Flows, Begin(f) PROVE Granted'
  BY <1>1 DEF Begin, Woken, server, supervisor
<1>2. ASSUME NEW f \in Flows, Driving(f) PROVE Granted'
  BY <1>2
  DEF Ordered, ProbeEnds, RegistersClient, PersistsClient, UrlProduced, NoUrl, ExchangeSucceeds,
      ExchangeFails, PromotionReturns, Unpromoted, server, supervisor, Driving
<1>3. ASSUME NEW f \in Flows, Promoting(f) PROVE Granted'
  BY <1>3 DEF Judges, Promotes, supervisor, Promoting
<1>4. ASSUME NEW f \in Flows, CallbackArrives(f) \/ Answering(f) \/ CallbackTimesOut(f)
      PROVE  Granted'
  <2>1. Kept  BY <1>4, CallbackKeeps
  <2>2. QED
    BY <1>4, <2>1
    DEF CallbackArrives, CallbackDelivers, CallbackWakes, CallbackConnects, CallbackTimesOut,
        server, Answering, Kept
<1>5. ASSUME NEW f \in Flows, Retired(f) PROVE Granted'
  BY <1>5 DEF Retired, Woken, server, supervisor
<1>6. ASSUME NEW o \in Operators, PatchCommits(o) \/ PatchCancels(o) \/ PatchClears(o)
      PROVE  Granted'
  <2>1. Kept  BY <1>6, CallKeeps DEF Call
  <2>2. QED
    BY <1>6, <2>1
    DEF PatchCommits, PatchCancels, PatchClears, flows, CancelPending, server, Empty, Woken, Kept
<1>7. ASSUME NEW o \in Operators,
             DeleteEnters(o) \/ DeleteStops(o) \/ DeleteCommits(o) \/ DeleteClears(o)
      PROVE  Granted'
  <2>1. Kept  BY <1>7, CallKeeps DEF Call
  <2>2. QED
    BY <1>7, <2>1
    DEF DeleteEnters, DeleteStops, DeleteCommits, DeleteClears, Calls, flows, server,
        CancelPending, Empty, Woken, Kept
<1>8. ASSUME NEW o \in Operators, DisconnectEnters(o) \/ DisconnectStops(o) \/ DisconnectClears(o)
      PROVE  Granted'
  <2>1. Kept  BY <1>8, CallKeeps DEF Call
  <2>2. QED
    BY <1>8, <2>1
    DEF DisconnectEnters, DisconnectStops, DisconnectClears, Calls, CancelPending, server, flows,
        Empty, Woken, Kept
<1>9. CASE PassBegins \/ PassEnds \/ BridgeRefreshes
  <2>1. CASE bridge' = Off \/ TeardownRaised
    BY <1>9, <2>1, AfterTeardown
    DEF PassBegins, PassEnds, BridgeRefreshes, flows, server, supervisor
  <2>2. CASE ~(bridge' = Off \/ TeardownRaised)
    BY <1>9, <2>2 DEF PassBegins, PassEnds, BridgeRefreshes, flows, server, supervisor
  <2>3. QED  BY <2>1, <2>2
<1>10. CASE UNCHANGED vars
  BY <1>10 DEF vars, flows, server, supervisor
<1>11. QED
  BY <1>1, <1>2, <1>3, <1>4, <1>5, <1>6, <1>7, <1>8, <1>9, <1>10 DEF Next, SignIn, Call

\* The second stop of the callback leaves no bridge, and a later one starts after the promotion.
LEMMA ConnectedBridgeIsFreshStep == IInv /\ [Next]_vars => ConnectedBridgeIsFresh'
<1> SUFFICES ASSUME IInv, [Next]_vars PROVE ConnectedBridgeIsFresh'
  OBVIOUS
<1> USE DEF IInv, ConnectedBridgeIsFresh
<1>1. ASSUME NEW f \in Flows, Begin(f) PROVE ConnectedBridgeIsFresh'
  BY <1>1 DEF Begin, supervisor
<1>2. ASSUME NEW f \in Flows, Driving(f) PROVE ConnectedBridgeIsFresh'
  BY <1>2
  DEF ProbeEnds, RegistersClient, PersistsClient, UrlProduced, NoUrl, ExchangeSucceeds,
      ExchangeFails, PromotionReturns, supervisor, Driving
<1>3. ASSUME NEW f \in Flows, Promoting(f) PROVE ConnectedBridgeIsFresh'
  BY <1>3 DEF Judges, Promotes, supervisor, Promoting
<1>4. ASSUME NEW f \in Flows, CallbackArrives(f) \/ Answering(f) \/ CallbackTimesOut(f)
      PROVE  ConnectedBridgeIsFresh'
  <2>1. CASE CallbackConnects(f)
    BY <2>1, AfterStop DEF TypeOK, CallbackConnects
  <2>2. CASE ~CallbackConnects(f)
    <3>1. Kept  BY <1>4, CallbackKeeps
    <3>2. QED
      BY <1>4, <2>2, <3>1
      DEF TypeOK, CallbackArrives, CallbackDelivers, CallbackWakes, CallbackTimesOut, Answering,
          Kept
  <2>3. QED  BY <2>1, <2>2
<1>5. ASSUME NEW f \in Flows, Retired(f) PROVE ConnectedBridgeIsFresh'
  BY <1>5 DEF Retired, supervisor
<1>6. ASSUME NEW o \in Operators, PatchCommits(o) \/ PatchCancels(o) \/ PatchClears(o)
      PROVE  ConnectedBridgeIsFresh'
  <2>1. Kept  BY <1>6, CallKeeps DEF Call
  <2>2. QED  BY <1>6, <2>1 DEF PatchCommits, PatchCancels, PatchClears, flows, Kept
<1>7. ASSUME NEW o \in Operators,
             DeleteEnters(o) \/ DeleteStops(o) \/ DeleteCommits(o) \/ DeleteClears(o)
      PROVE  ConnectedBridgeIsFresh'
  <2>1. Kept  BY <1>7, CallKeeps DEF Call
  <2>2. QED
    BY <1>7, <2>1
    DEF DeleteEnters, DeleteStops, DeleteCommits, DeleteClears, Calls, flows, Kept
<1>8. ASSUME NEW o \in Operators, DisconnectEnters(o) \/ DisconnectStops(o) \/ DisconnectClears(o)
      PROVE  ConnectedBridgeIsFresh'
  <2>1. Kept  BY <1>8, CallKeeps DEF Call
  <2>2. QED
    BY <1>8, <2>1
    DEF DisconnectEnters, DisconnectStops, DisconnectClears, Calls, flows, Kept
<1>9. CASE PassBegins \/ PassEnds \/ BridgeRefreshes
  <2>1. CASE bridge' = Off \/ TeardownRaised
    BY <2>1, AfterTeardown
  <2>2. CASE ~(bridge' = Off \/ TeardownRaised)
    BY <1>9, <2>2 DEF Granted, PassBegins, PassEnds, BridgeRefreshes, flows, Promoted, supervisor
  <2>3. QED  BY <2>1, <2>2
<1>10. CASE UNCHANGED vars
  BY <1>10 DEF vars, flows, supervisor
<1>11. QED
  BY <1>1, <1>2, <1>3, <1>4, <1>5, <1>6, <1>7, <1>8, <1>9, <1>10 DEF Next, SignIn, Call

\* No call brings the row back, and a pass that begins after the answer finds no row.
LEMMA DeletedStep == IInv /\ [Next]_vars => Deleted'
<1> SUFFICES ASSUME IInv, [Next]_vars PROVE Deleted'
  OBVIOUS
<1> USE DEF IInv, TypeOK, Deleted
<1>1. ASSUME NEW f \in Flows, Begin(f) PROVE Deleted'
  BY <1>1 DEF Begin, operators, ghosts
<1>2. ASSUME NEW f \in Flows, Driving(f) PROVE Deleted'
  BY <1>2, FlowAssumptions
  DEF ProbeEnds, RegistersClient, PersistsClient, UrlProduced, NoUrl, ExchangeSucceeds,
      ExchangeFails, PromotionReturns, LoopFree, server, supervisor, operators, ghosts,
      MayBecomeCredential, Driving
<1>3. ASSUME NEW f \in Flows, Promoting(f) PROVE Deleted'
  BY <1>3 DEF Judges, Promotes, LoopFree, supervisor, operators, ghosts, Promoting
<1>4. ASSUME NEW f \in Flows, CallbackArrives(f) \/ Answering(f) \/ CallbackTimesOut(f)
      PROVE  Deleted'
  BY <1>4
  DEF CallbackArrives, CallbackDelivers, CallbackWakes, CallbackConnects, CallbackTimesOut,
      LoopFree, server, supervisor, operators, ghosts, Stopped, StopRaised, Cancelled, Answering
<1>5. ASSUME NEW f \in Flows, Retired(f) PROVE Deleted'
  BY <1>5 DEF Retired, LoopFree, Cancelled, server, supervisor, operators, ghosts
<1>6. ASSUME NEW o \in Operators, PatchCommits(o) \/ PatchCancels(o) \/ PatchClears(o)
      PROVE  Deleted'
  <2>1. CASE PatchCommits(o)  BY <2>1 DEF PatchCommits, Calls, ghosts
  <2>2. CASE PatchCancels(o)
    <3>1. LoopFree'  BY <2>2 DEF PatchCancels, LoopFree, CancelPending, Cancelled
    <3>2. \A p \in Operators : op'[p].at = "delete_again" => op[p].at = "delete_again"
      BY <2>2 DEF PatchCancels, Goes, Returns, Idle
    <3>3. QED  BY <2>2, <3>1, <3>2 DEF PatchCancels, server, supervisor, ghosts
  <2>3. CASE PatchClears(o)
    BY <2>3 DEF PatchClears, LoopFree, Returns, Stopped, StopRaised, flows, Idle, supervisor
  <2>4. QED  BY <1>6, <2>1, <2>2, <2>3
<1>7. ASSUME NEW o \in Operators,
             DeleteEnters(o) \/ DeleteStops(o) \/ DeleteCommits(o) \/ DeleteClears(o)
      PROVE  Deleted'
  BY <1>7
  DEF DeleteEnters, DeleteStops, DeleteCommits, DeleteClears, LoopFree, Calls, flows, server,
      supervisor, ghosts, Stopped, Goes, StopRaised, Returns, CancelPending, Empty, Idle,
      Cancelled
<1>8. ASSUME NEW o \in Operators, DisconnectEnters(o) \/ DisconnectStops(o) \/ DisconnectClears(o)
      PROVE  Deleted'
  BY <1>8
  DEF DisconnectEnters, DisconnectStops, DisconnectClears, LoopFree, Calls, server, supervisor,
      ghosts, Stopped, Goes, StopRaised, Returns, flows, Empty, Idle
<1>9. CASE PassBegins \/ PassEnds \/ BridgeRefreshes
  BY <1>9
  DEF PassBegins, PassEnds, BridgeRefreshes, LoopFree, flows, server, operators, ghosts,
      supervisor
<1>10. CASE UNCHANGED vars
  BY <1>10 DEF vars, LoopFree, flows, server, supervisor, operators, ghosts
<1>11. QED
  BY <1>1, <1>2, <1>3, <1>4, <1>5, <1>6, <1>7, <1>8, <1>9, <1>10 DEF Next, SignIn, Call

\* Without a row nothing is judged fit to be written, and no bridge can be started.
LEMMA ErasedLeavesNothingStep == IInv /\ [Next]_vars => ErasedLeavesNothing'
<1> SUFFICES ASSUME IInv, [Next]_vars PROVE ErasedLeavesNothing'
  OBVIOUS
<1> USE DEF IInv, ErasedLeavesNothing
<1>0. TypeOK  OBVIOUS
<1>1. ASSUME NEW f \in Flows, Begin(f) PROVE ErasedLeavesNothing'
  BY <1>1 DEF Deleted, Begin, ghosts
<1>2. ASSUME NEW f \in Flows, Driving(f) PROVE ErasedLeavesNothing'
  <2>1. CASE ProbeEnds(f)  BY <2>1 DEF ProbeEnds, server, supervisor, ghosts
  <2>2. CASE RegistersClient(f)  BY <2>2 DEF RegistersClient, server, supervisor, ghosts
  <2>3. CASE PersistsClient(f)  BY <2>3 DEF Deleted, PersistsClient, LoopFree, ghosts
  <2>4. CASE UrlProduced(f)  BY <2>4 DEF UrlProduced, server, supervisor, ghosts
  <2>5. CASE NoUrl(f)  BY <2>5 DEF NoUrl, server, supervisor, ghosts
  <2>6. CASE ExchangeSucceeds(f)  BY <2>6 DEF ExchangeSucceeds, server, supervisor, ghosts
  <2>7. CASE ExchangeFails(f)  BY <2>7 DEF ExchangeFails, server, supervisor, ghosts
  <2>8. CASE PromotionReturns(f)  BY <2>8 DEF PromotionReturns, server, supervisor, ghosts
  <2>9. QED  BY <1>2, <2>1, <2>2, <2>3, <2>4, <2>5, <2>6, <2>7, <2>8 DEF Driving
<1>3. ASSUME NEW f \in Flows, Promoting(f) PROVE ErasedLeavesNothing'
  <2>1. CASE Judges(f)  BY <2>1 DEF Judges, supervisor, ghosts
  <2>2. CASE Promotes(f)
    BY <2>2, FlowAssumptions DEF TypeOK, Deleted, Sheltered, Promotes, ghosts
  <2>3. QED  BY <1>3, <2>1, <2>2 DEF Promoting
<1>4. ASSUME NEW f \in Flows, CallbackArrives(f) \/ Answering(f) \/ CallbackTimesOut(f)
      PROVE  ErasedLeavesNothing'
  <2>1. CASE CallbackArrives(f)  BY <2>1 DEF CallbackArrives, server, supervisor, ghosts
  <2>2. CASE CallbackDelivers(f)
    BY <2>2, <1>0, AfterStop DEF CallbackDelivers, server, ghosts, Kept
  <2>3. CASE CallbackWakes(f)  BY <2>3 DEF CallbackWakes, server, supervisor, ghosts
  <2>4. CASE CallbackConnects(f)
    BY <2>4, <1>0, AfterStop DEF CallbackConnects, server, ghosts, Kept
  <2>5. CASE CallbackTimesOut(f)  BY <2>5 DEF CallbackTimesOut, server, supervisor, ghosts
  <2>6. QED  BY <1>4, <2>1, <2>2, <2>3, <2>4, <2>5 DEF Answering
<1>5. ASSUME NEW f \in Flows, Retired(f) PROVE ErasedLeavesNothing'
  BY <1>5 DEF Retired, server, supervisor, ghosts
<1>6. ASSUME NEW o \in Operators, PatchCommits(o) \/ PatchCancels(o) \/ PatchClears(o)
      PROVE  ErasedLeavesNothing'
  <2>1. CASE PatchCommits(o)  BY <2>1 DEF Deleted, PatchCommits, ghosts
  <2>2. CASE PatchCancels(o)  BY <2>2 DEF PatchCancels, server, supervisor, ghosts
  <2>3. CASE PatchClears(o)  BY <2>3, <1>0, AfterStop DEF PatchClears, Kept
  <2>4. QED  BY <1>6, <2>1, <2>2, <2>3
<1>7. ASSUME NEW o \in Operators,
             DeleteEnters(o) \/ DeleteStops(o) \/ DeleteCommits(o) \/ DeleteClears(o)
      PROVE  ErasedLeavesNothing'
  <2>1. CASE DeleteEnters(o)  BY <2>1 DEF Deleted, DeleteEnters, ghosts
  <2>2. CASE DeleteStops(o)  BY <2>2, <1>0, AfterStop DEF DeleteStops, server, ghosts, Kept
  <2>3. CASE DeleteCommits(o)  BY <2>3 DEF DeleteCommits, supervisor, ghosts
  <2>4. CASE DeleteClears(o)
    <3>1. store' = Empty  BY <2>4 DEF DeleteClears
    <3>2. CASE Stopped  BY <3>1, <3>2 DEF Stopped, Off
    <3>3. CASE StopRaised /\ UNCHANGED erased  BY <3>1, <3>3, <1>0, AfterStop DEF Kept
    <3>4. QED  BY <2>4, <3>2, <3>3 DEF DeleteClears
  <2>5. QED  BY <1>7, <2>1, <2>2, <2>3, <2>4
<1>8. ASSUME NEW o \in Operators, DisconnectEnters(o) \/ DisconnectStops(o) \/ DisconnectClears(o)
      PROVE  ErasedLeavesNothing'
  <2>1. CASE DisconnectEnters(o)  BY <2>1 DEF Deleted, DisconnectEnters, ghosts
  <2>2. CASE DisconnectStops(o)
    BY <2>2, <1>0, AfterStop DEF DisconnectStops, server, ghosts, Kept
  <2>3. CASE DisconnectClears(o)  BY <2>3 DEF DisconnectClears, supervisor
  <2>4. QED  BY <1>8, <2>1, <2>2, <2>3
<1>9. CASE PassBegins \/ PassEnds \/ BridgeRefreshes
  <2>1. CASE PassBegins  BY <2>1 DEF PassBegins, server, ghosts
  <2>2. CASE PassEnds
    <3>1. CASE bridge' = Off \/ TeardownRaised
      BY <2>2, <3>1, <1>0, AfterTeardown DEF PassEnds, server, ghosts
    <3>2. CASE ~(bridge' = Off \/ TeardownRaised)
      BY <2>2, <3>2 DEF Deleted, PassEnds, server, ghosts
    <3>3. QED  BY <3>1, <3>2
  <2>3. CASE BridgeRefreshes  BY <2>3 DEF BridgeRefreshes, ghosts
  <2>4. QED  BY <1>9, <2>1, <2>2, <2>3
<1>10. CASE UNCHANGED vars
  BY <1>10 DEF vars, server, supervisor, ghosts
<1>11. QED
  BY <1>1, <1>2, <1>3, <1>4, <1>5, <1>6, <1>7, <1>8, <1>9, <1>10 DEF Next, SignIn, Call

\* A call keeps its clears until it has passed its stop.
LEMMA ClearingStep == IInv /\ [Next]_vars => Clearing'
<1> SUFFICES ASSUME IInv, [Next]_vars PROVE Clearing'
  OBVIOUS
<1> USE DEF IInv, TypeOK, Clearing
<1>1. ASSUME NEW f \in Flows, Begin(f) PROVE Clearing'
  BY <1>1 DEF Begin, operators
<1>2. ASSUME NEW f \in Flows, Driving(f) PROVE Clearing'
  BY <1>2
  DEF ProbeEnds, RegistersClient, PersistsClient, UrlProduced, NoUrl, ExchangeSucceeds,
      ExchangeFails, PromotionReturns, operators, Driving
<1>3. ASSUME NEW f \in Flows, Promoting(f) PROVE Clearing'
  BY <1>3 DEF Judges, Promotes, operators, Promoting
<1>4. ASSUME NEW f \in Flows, CallbackArrives(f) \/ Answering(f) \/ CallbackTimesOut(f)
      PROVE  Clearing'
  BY <1>4
  DEF CallbackArrives, CallbackDelivers, CallbackWakes, CallbackConnects, CallbackTimesOut,
      operators, Answering
<1>5. ASSUME NEW f \in Flows, Retired(f) PROVE Clearing'
  BY <1>5 DEF Retired, operators
<1>6. ASSUME NEW o \in Operators, PatchCommits(o) \/ PatchCancels(o) \/ PatchClears(o)
      PROVE  Clearing'
  <2>1. CASE PatchCommits(o)  BY <2>1 DEF PatchCommits, Calls
  <2>2. CASE PatchCancels(o)  BY <2>2 DEF PatchCancels, Goes, Returns, Idle
  <2>3. CASE PatchClears(o)  BY <2>3 DEF PatchClears, Returns, Idle
  <2>4. QED  BY <1>6, <2>1, <2>2, <2>3
<1>7. ASSUME NEW o \in Operators,
             DeleteEnters(o) \/ DeleteStops(o) \/ DeleteCommits(o) \/ DeleteClears(o)
      PROVE  Clearing'
  BY <1>7 DEF DeleteEnters, DeleteStops, DeleteCommits, DeleteClears, Calls, Goes, Returns, Idle
<1>8. ASSUME NEW o \in Operators, DisconnectEnters(o) \/ DisconnectStops(o) \/ DisconnectClears(o)
      PROVE  Clearing'
  BY <1>8
  DEF DisconnectEnters, DisconnectStops, DisconnectClears, Calls, Goes, Returns, Idle
<1>9. CASE PassBegins \/ PassEnds \/ BridgeRefreshes
  BY <1>9 DEF PassBegins, PassEnds, BridgeRefreshes, operators
<1>10. CASE UNCHANGED vars
  BY <1>10 DEF vars, operators
<1>11. QED
  BY <1>1, <1>2, <1>3, <1>4, <1>5, <1>6, <1>7, <1>8, <1>9, <1>10 DEF Next, SignIn, Call

\* A new configuration is committed by a call that clears, and a bridge refreshes only what fits.
LEMMA StoredFitsRowStep == IInv /\ [Next]_vars => StoredFitsRow'
<1> SUFFICES ASSUME IInv, [Next]_vars PROVE StoredFitsRow'
  OBVIOUS
<1> USE DEF IInv, TypeOK, StoredFitsRow
<1>1. ASSUME NEW f \in Flows, Begin(f) PROVE StoredFitsRow'
  BY <1>1 DEF Begin, server, operators, ghosts
<1>2. ASSUME NEW f \in Flows, Driving(f) PROVE StoredFitsRow'
  BY <1>2
  DEF ProbeEnds, RegistersClient, PersistsClient, UrlProduced, NoUrl, ExchangeSucceeds,
      ExchangeFails, PromotionReturns, server, operators, ghosts, Driving
<1>3. ASSUME NEW f \in Flows, Promoting(f) PROVE StoredFitsRow'
  BY <1>3 DEF Sheltered, Judges, Promotes, operators, ghosts, Promoting
<1>4. ASSUME NEW f \in Flows, CallbackArrives(f) \/ Answering(f) \/ CallbackTimesOut(f)
      PROVE  StoredFitsRow'
  BY <1>4
  DEF CallbackArrives, CallbackDelivers, CallbackWakes, CallbackConnects, CallbackTimesOut,
      server, operators, ghosts, Answering
<1>5. ASSUME NEW f \in Flows, Retired(f) PROVE StoredFitsRow'
  BY <1>5 DEF Retired, server, operators, ghosts
<1>6. ASSUME NEW o \in Operators, PatchCommits(o) \/ PatchCancels(o) \/ PatchClears(o)
      PROVE  StoredFitsRow'
  <2>1. CASE PatchCommits(o)
    BY <2>1, CommitKeepsClearing DEF PatchCommits, flows, ghosts
  <2>2. CASE PatchCancels(o)
    <3>1. (\E p \in Operators : op[p].clears) => \E p \in Operators : op'[p].clears
      BY <2>2, CancelKeepsClearing
    <3>2. row' = row /\ snap' = snap /\ store' = store /\ left' = left
      BY <2>2 DEF PatchCancels, server, ghosts
    <3>3. QED  BY <3>1, <3>2
  <2>3. CASE PatchClears(o)
    <3>1. CASE store' = Empty  BY <3>1 DEF Empty
    <3>2. CASE left' = (left \cup {store.tokens, bridge.grant}) \ {None} /\ UNCHANGED store
      BY <3>2
    <3>3. store' = Empty \/ (left' = (left \cup {store.tokens, bridge.grant}) \ {None} /\ UNCHANGED store)
      BY <2>3 DEF PatchClears
    <3>4. QED  BY <3>1, <3>2, <3>3
  <2>4. QED  BY <1>6, <2>1, <2>2, <2>3
<1>7. ASSUME NEW o \in Operators,
             DeleteEnters(o) \/ DeleteStops(o) \/ DeleteCommits(o) \/ DeleteClears(o)
      PROVE  StoredFitsRow'
  BY <1>7
  DEF Clearing, DeleteEnters, DeleteStops, DeleteCommits, DeleteClears, Calls, flows,
      server, ghosts, Goes, Returns, Empty, Idle
<1>8. ASSUME NEW o \in Operators, DisconnectEnters(o) \/ DisconnectStops(o) \/ DisconnectClears(o)
      PROVE  StoredFitsRow'
  BY <1>8
  DEF Clearing, DisconnectEnters, DisconnectStops, DisconnectClears, Calls, server, ghosts, Goes,
      Returns, flows, Empty, Idle
<1>9. CASE PassBegins \/ PassEnds \/ BridgeRefreshes
  BY <1>9
  DEF BridgeFitsRow, PassBegins, PassEnds, BridgeRefreshes, flows, server, operators, ghosts
<1>10. CASE UNCHANGED vars
  BY <1>10 DEF vars, flows, server, operators, ghosts
<1>11. QED
  BY <1>1, <1>2, <1>3, <1>4, <1>5, <1>6, <1>7, <1>8, <1>9, <1>10 DEF Next, SignIn, Call

\* A bridge reads what is stored, and a stop that returned leaves none.
LEMMA BridgeFitsRowStep == IInv /\ [Next]_vars => BridgeFitsRow'
<1> SUFFICES ASSUME IInv, [Next]_vars PROVE BridgeFitsRow'
  OBVIOUS
<1> USE DEF IInv, TypeOK, BridgeFitsRow
<1>1. ASSUME NEW f \in Flows, Begin(f) PROVE BridgeFitsRow'
  BY <1>1 DEF Begin, server, supervisor, operators, ghosts
<1>2. ASSUME NEW f \in Flows, Driving(f) PROVE BridgeFitsRow'
  BY <1>2
  DEF ProbeEnds, RegistersClient, PersistsClient, UrlProduced, NoUrl, ExchangeSucceeds,
      ExchangeFails, PromotionReturns, server, supervisor, operators, ghosts, Driving
<1>3. ASSUME NEW f \in Flows, Promoting(f) PROVE BridgeFitsRow'
  BY <1>3 DEF Judges, Promotes, supervisor, operators, ghosts, Promoting
<1>4. ASSUME NEW f \in Flows, CallbackArrives(f) \/ Answering(f) \/ CallbackTimesOut(f)
      PROVE  BridgeFitsRow'
  <2>1. Kept  BY <1>4, CallbackKeeps
  <2>2. UNCHANGED <<row, snap, operators, left>>
    BY <1>4
    DEF CallbackArrives, CallbackDelivers, CallbackWakes, CallbackConnects, CallbackTimesOut,
        server, ghosts, Answering
  <2>3. QED  BY <2>1, <2>2 DEF Kept, operators
<1>5. ASSUME NEW f \in Flows, Retired(f) PROVE BridgeFitsRow'
  BY <1>5 DEF Retired, server, supervisor, operators, ghosts
<1>6. ASSUME NEW o \in Operators, PatchCommits(o) \/ PatchCancels(o) \/ PatchClears(o)
      PROVE  BridgeFitsRow'
  <2>1. CASE PatchCommits(o)
    BY <2>1, CommitKeepsClearing DEF PatchCommits, flows, supervisor, ghosts
  <2>2. CASE PatchCancels(o)
    <3>1. (\E p \in Operators : op[p].clears) => \E p \in Operators : op'[p].clears
      BY <2>2, CancelKeepsClearing
    <3>2. row' = row /\ snap' = snap /\ bridge' = bridge /\ left' = left
      BY <2>2 DEF PatchCancels, server, supervisor, ghosts
    <3>3. QED  BY <3>1, <3>2
  <2>3. CASE PatchClears(o)
    <3>1. CASE Stopped  BY <3>1 DEF Stopped, Off
    <3>2. CASE StopRaised /\ left' = (left \cup {store.tokens, bridge.grant}) \ {None}
      BY <3>2, AfterStop DEF Kept
    <3>3. QED  BY <2>3, <3>1, <3>2 DEF PatchClears
  <2>4. QED  BY <1>6, <2>1, <2>2, <2>3
<1>7. ASSUME NEW o \in Operators,
             DeleteEnters(o) \/ DeleteStops(o) \/ DeleteCommits(o) \/ DeleteClears(o)
      PROVE  BridgeFitsRow'
  <2>1. (\E p \in Operators : op[p].clears) => \E p \in Operators : op'[p].clears
    <3>1. op[o].at \notin {"patched", "patch_stop"}
      BY <1>7 DEF DeleteEnters, DeleteStops, DeleteCommits, DeleteClears, Calls, Idle
    <3>2. op' = [op EXCEPT ![o] = op'[o]]
      BY <1>7
      DEF DeleteEnters, DeleteStops, DeleteCommits, DeleteClears, Calls, Goes, Returns
    <3>3. QED  BY <3>1, <3>2, OthersKeepClearing
  <2>2. Kept  BY <1>7, CallKeeps DEF Call
  <2>3. row' \in {row, NoRow} /\ snap' = snap /\ left' = left
    BY <1>7 DEF DeleteEnters, DeleteStops, DeleteCommits, DeleteClears, flows, server, ghosts
  <2>4. QED  BY <2>1, <2>2, <2>3 DEF Kept
<1>8. ASSUME NEW o \in Operators, DisconnectEnters(o) \/ DisconnectStops(o) \/ DisconnectClears(o)
      PROVE  BridgeFitsRow'
  <2>1. (\E p \in Operators : op[p].clears) => \E p \in Operators : op'[p].clears
    BY <1>8, OthersKeepClearing
    DEF DisconnectEnters, DisconnectStops, DisconnectClears, Calls, Goes, Returns, Idle
  <2>2. Kept  BY <1>8, CallKeeps DEF Call
  <2>3. row' = row /\ snap' = snap /\ (bridge.grant \in left => bridge.grant \in left')
    BY <1>8 DEF DisconnectEnters, DisconnectStops, DisconnectClears, flows, server, ghosts
  <2>4. QED  BY <2>1, <2>2, <2>3 DEF Kept
<1>9. CASE PassBegins \/ PassEnds \/ BridgeRefreshes
  <2>1. CASE bridge' = Off \/ TeardownRaised
    BY <1>9, <2>1, AfterTeardown
    DEF PassBegins, PassEnds, BridgeRefreshes, flows, server, operators, ghosts, supervisor
  <2>2. CASE ~(bridge' = Off \/ TeardownRaised)
    BY <1>9, <2>2
    DEF StoredFitsRow, PassBegins, PassEnds, BridgeRefreshes, flows, server, operators, ghosts,
        supervisor
  <2>3. QED  BY <2>1, <2>2
<1>10. CASE UNCHANGED vars
  BY <1>10 DEF vars, flows, server, supervisor, operators, ghosts
<1>11. QED
  BY <1>1, <1>2, <1>3, <1>4, <1>5, <1>6, <1>7, <1>8, <1>9, <1>10 DEF Next, SignIn, Call

\* The sign-ins keep their types.
LEMMA FlowTypesStep == IInv /\ [Next]_vars => FlowTypes'
<1> SUFFICES ASSUME IInv, [Next]_vars PROVE FlowTypes'
  OBVIOUS
<1> USE DEF IInv, TypeOK, FlowTypes
<1>1. ASSUME NEW f \in Flows, Begin(f) PROVE FlowTypes'
  <2>1. snap' \in [Flows -> Rows]  BY <1>1 DEF Begin
  <2>2. done' \in [Flows -> {"pending", "granted", "failed"}]  BY <1>1 DEF Begin, Woken
  <2>3. pending' \subseteq Flows /\ through' \subseteq pending'  BY <1>1 DEF Begin
  <2>4. QED  BY <1>1, <2>1, <2>2, <2>3, AfterBegin DEF Begin
<1>2. ASSUME NEW f \in Flows, Driving(f) PROVE FlowTypes'
  <2>1. CASE ProbeEnds(f)
    <3>1. pending' \subseteq Flows /\ through' \subseteq pending'  BY <2>1 DEF ProbeEnds, Forget
    <3>2. at' \in [Flows -> Points]  BY <2>1 DEF ProbeEnds, Points
    <3>3. QED  BY <2>1, <3>1, <3>2 DEF ProbeEnds, Points
  <2>2. CASE RegistersClient(f)  BY <2>2 DEF RegistersClient
  <2>3. CASE PersistsClient(f)  BY <2>3 DEF PersistsClient
  <2>4. CASE UrlProduced(f)  BY <2>4 DEF UrlProduced
  <2>5. CASE NoUrl(f)  BY <2>5 DEF NoUrl, Forget
  <2>6. CASE ExchangeSucceeds(f)  BY <2>6 DEF ExchangeSucceeds
  <2>7. CASE ExchangeFails(f)  BY <2>7 DEF ExchangeFails
  <2>8. CASE PromotionReturns(f)  BY <2>8 DEF PromotionReturns
  <2>9. QED  BY <1>2, <2>1, <2>2, <2>3, <2>4, <2>5, <2>6, <2>7, <2>8 DEF Driving
<1>3. ASSUME NEW f \in Flows, Promoting(f) PROVE FlowTypes'
  <2>1. CASE Judges(f)  BY <2>1 DEF Judges
  <2>2. CASE Promotes(f)  BY <2>2 DEF Promotes
  <2>3. QED  BY <1>3, <2>1, <2>2 DEF Promoting
<1>4. ASSUME NEW f \in Flows, CallbackArrives(f) \/ Answering(f) \/ CallbackTimesOut(f)
      PROVE  FlowTypes'
  <2>1. CASE CallbackArrives(f)  BY <2>1 DEF CallbackArrives
  <2>2. CASE CallbackDelivers(f)
    <3>1. at' \in [Flows -> Points]  BY <2>2 DEF CallbackDelivers, Points
    <3>2. callback' \in [Flows -> {"none", "stopping", "waiting", "restarting", "connected",
                                   "refused"}]
      BY <2>2 DEF CallbackDelivers
    <3>3. QED  BY <2>2, <3>1, <3>2 DEF CallbackDelivers, Points
  <2>3. CASE CallbackWakes(f)  BY <2>3 DEF CallbackWakes, Forget, Cancelled
  <2>4. CASE CallbackConnects(f)  BY <2>4 DEF CallbackConnects, server, operators
  <2>5. CASE CallbackTimesOut(f)  BY <2>5 DEF CallbackTimesOut, Forget, Cancelled
  <2>6. QED  BY <1>4, <2>1, <2>2, <2>3, <2>4, <2>5 DEF Answering
<1>5. ASSUME NEW f \in Flows, Retired(f) PROVE FlowTypes'
  BY <1>5 DEF Retired, Cancelled, Woken, Forget
<1>6. ASSUME NEW o \in Operators, PatchCommits(o) \/ PatchCancels(o) \/ PatchClears(o)
      PROVE  FlowTypes'
  BY <1>6 DEF PatchCommits, PatchCancels, PatchClears, flows, CancelPending, Cancelled, Woken
<1>7. ASSUME NEW o \in Operators,
             DeleteEnters(o) \/ DeleteStops(o) \/ DeleteCommits(o) \/ DeleteClears(o)
      PROVE  FlowTypes'
  BY <1>7
  DEF DeleteEnters, DeleteStops, DeleteCommits, DeleteClears, Calls, flows, CancelPending,
      Cancelled, Woken
<1>8. ASSUME NEW o \in Operators, DisconnectEnters(o) \/ DisconnectStops(o) \/ DisconnectClears(o)
      PROVE  FlowTypes'
  BY <1>8
  DEF DisconnectEnters, DisconnectStops, DisconnectClears, Calls, CancelPending, flows, Cancelled,
      Woken
<1>9. CASE PassBegins \/ PassEnds \/ BridgeRefreshes
  BY <1>9 DEF PassBegins, PassEnds, BridgeRefreshes, flows
<1>10. CASE UNCHANGED vars
  BY <1>10 DEF vars, flows
<1>11. QED
  BY <1>1, <1>2, <1>3, <1>4, <1>5, <1>6, <1>7, <1>8, <1>9, <1>10 DEF Next, SignIn, Call

\* The row, the file, the lock, the bridge and the pass keep their types.
LEMMA ServerTypesStep == IInv /\ [Next]_vars => ServerTypes'
<1> SUFFICES ASSUME IInv, [Next]_vars PROVE ServerTypes'
  OBVIOUS
<1> USE DEF IInv, TypeOK, ServerTypes, Bridges
<1>1. ASSUME NEW f \in Flows, Begin(f) \/ Driving(f) \/ Retired(f) PROVE ServerTypes'
  <2>1. CASE PersistsClient(f)
    <3>1. store' = [tokens |-> store.tokens, client |-> TRUE]  BY <2>1 DEF PersistsClient
    <3>2. QED  BY <2>1, <3>1, Files DEF PersistsClient, supervisor
  <2>2. CASE UNCHANGED <<server, supervisor>>  BY <2>2 DEF server, supervisor
  <2>3. QED
    BY <1>1, <2>1, <2>2
    DEF Begin, Driving, Retired, ProbeEnds, RegistersClient, UrlProduced, NoUrl,
        ExchangeSucceeds, ExchangeFails, PromotionReturns
<1>2. ASSUME NEW f \in Flows, Promoting(f) PROVE ServerTypes'
  <2>1. CASE Judges(f)  BY <2>1 DEF Judges, supervisor
  <2>2. CASE Promotes(f)
    <3>1. store' = store \/ store' = [tokens |-> f, client |-> TRUE]  BY <2>2 DEF Promotes
    <3>2. QED  BY <2>2, <3>1, Files DEF Promotes, supervisor
  <2>3. QED  BY <1>2, <2>1, <2>2 DEF Promoting
<1>3. ASSUME NEW f \in Flows,
             CallbackArrives(f) \/ Answering(f) \/ CallbackTimesOut(f)
      PROVE  ServerTypes'
  <2>1. UNCHANGED server
    BY <1>3
    DEF Answering, CallbackArrives, CallbackDelivers, CallbackWakes, CallbackConnects,
        CallbackTimesOut
  <2>2. QED  BY <1>3, <2>1, CallbackKeeps DEF server, Kept
<1>4. ASSUME NEW o \in Operators, Call(o) PROVE ServerTypes'
  <2>1. Empty \in [tokens : Flows \cup {None}, client : BOOLEAN]  BY DEF Empty
  <2>2. store' \in {store, Empty} /\ lock' = lock /\ row' \in Rows \cup {NoRow}
    BY <1>4
    DEF Call, server, PatchCommits, PatchCancels, PatchClears, DeleteEnters, DeleteStops,
        DeleteCommits, DeleteClears, DisconnectEnters, DisconnectStops, DisconnectClears
  <2>3. QED  BY <1>4, <2>1, <2>2, CallKeeps DEF Kept
<1>5. CASE PassBegins  BY <1>5 DEF PassBegins, server
<1>6. CASE PassEnds
  <2>1. Off \in Bridges  BY DEF Off
  <2>2. [on |-> TRUE, serves |-> TRUE, grant |-> store.tokens, after |-> Promoted]
           \in Bridges
    BY DEF Promoted
  <2>3. bridge' \in Bridges
    <3>1. CASE TeardownRaised  BY <3>1, AfterTeardown
    <3>2. QED  BY <1>6, <2>1, <2>2, <3>1 DEF PassEnds
  <2>4. QED  BY <1>6, <2>3 DEF PassEnds, server
<1>7. CASE BridgeRefreshes
  <2>1. store' = [tokens |-> bridge.grant, client |-> store.client]
    BY <1>7 DEF BridgeRefreshes
  <2>2. QED  BY <1>7, <2>1, Files DEF BridgeRefreshes, supervisor
<1>8. CASE UNCHANGED vars  BY <1>8 DEF vars, server, supervisor
<1>9. QED  BY <1>1, <1>2, <1>3, <1>4, <1>5, <1>6, <1>7, <1>8 DEF Next, SignIn

\* So do the calls and what is remembered of them.
LEMMA CallTypesStep == IInv /\ [Next]_vars => CallTypes'
<1> SUFFICES ASSUME IInv, [Next]_vars PROVE CallTypes'
  OBVIOUS
<1>1. ASSUME NEW o \in Operators, Call(o) PROVE CallTypes'
  <2>1. erased' \in BOOLEAN /\ left' \subseteq Flows
    BY <1>1
    DEF IInv, TypeOK, Call, ghosts, Begun, PatchCommits, PatchCancels, PatchClears, DeleteEnters,
        DeleteStops, DeleteCommits, DeleteClears, DisconnectEnters, DisconnectStops,
        DisconnectClears
  <2>2. \/ \E where \in Places, clears \in BOOLEAN : row # NoRow /\ Calls(o, where, clears)
        \/ \E where \in Places : Goes(o, where)
        \/ Returns(o)
    BY <1>1
    DEF Call, Places, PatchCommits, PatchCancels, PatchClears, DeleteEnters, DeleteStops,
        DeleteCommits, DeleteClears, DisconnectEnters, DisconnectStops, DisconnectClears
  <2>3. /\ op' \in [Operators -> [at : Places, owner : Owners \cup {None}, clears : BOOLEAN]]
        /\ calls' \in 0..MaxRequests
    BY <2>2, AfterCall, AfterGoing DEF IInv, TypeOK, Places
  <2>4. QED  BY <2>1, <2>3 DEF CallTypes, Places
<1>2. CASE UNCHANGED <<operators, ghosts>>
  BY <1>2 DEF IInv, TypeOK, CallTypes, operators, ghosts
<1>3. ASSUME NEW f \in Flows, SignIn(f) PROVE UNCHANGED <<operators, ghosts>>
  BY <1>3
  DEF SignIn, Begin, Driving, Promoting, Answering, ProbeEnds, RegistersClient, PersistsClient,
      UrlProduced, NoUrl, ExchangeSucceeds, ExchangeFails, PromotionReturns, Judges, Promotes,
      CallbackArrives, CallbackDelivers, CallbackWakes, CallbackConnects, CallbackTimesOut, Retired
<1>4. QED
  BY <1>1, <1>2, <1>3 DEF Next, vars, PassBegins, PassEnds, BridgeRefreshes

-----------------------------------------------------------------------------
(* The theorems.                                                           *)

LEMMA Types == TypeOK <=> FlowTypes /\ ServerTypes /\ CallTypes
BY DEF TypeOK, FlowTypes, ServerTypes, CallTypes, Bridges

\* The server as Init has it satisfies the invariant.
LEMMA InitIInv == Init => IInv
<1> SUFFICES ASSUME Init PROVE IInv
  OBVIOUS
<1> USE FlowAssumptions DEF Init
<1>1. FlowTypes /\ ServerTypes /\ CallTypes
  <2>1. FlowTypes  BY DEF FlowTypes
  <2>2. Off \in Bridges  BY DEF Off, Bridges
  <2>3. ServerTypes
    <3>1. store \in [tokens : Flows \cup {None}, client : BOOLEAN]  OBVIOUS
    <3>2. row \in Rows /\ lock = None /\ bridge = Off /\ pass = NoPass  OBVIOUS
    <3>3. QED  BY ONLY <2>2, <3>1, <3>2 DEF ServerTypes
  <2>4. Idle \in [at : Places, owner : Owners \cup {None}, clears : BOOLEAN]
    BY DEF Idle, Places
  <2>5. CallTypes
    <3>1. op = [o \in Operators |-> Idle] /\ calls \in 0..MaxRequests  OBVIOUS
    <3>2. erased = FALSE /\ left = {}  OBVIOUS
    <3>3. QED  BY ONLY <2>4, <3>1, <3>2 DEF CallTypes, Places
  <2>6. QED  BY <2>1, <2>3, <2>5
<1>2. Ordered /\ Sheltered /\ Single
  BY DEF Ordered, Sheltered, Single, Unpromoted, Unsent, Driven
<1>3. AbortWakesCallback /\ Granted /\ ConnectedBridgeIsFresh
  BY DEF AbortWakesCallback, Granted, ConnectedBridgeIsFresh, Off
<1>4. Deleted /\ ErasedLeavesNothing /\ Clearing
  BY DEF Deleted, ErasedLeavesNothing, Clearing, Idle
<1>5. StoredFitsRow /\ BridgeFitsRow
  BY DEF StoredFitsRow, BridgeFitsRow, Off
<1>6. QED  BY <1>1, <1>2, <1>3, <1>4, <1>5, Types DEF IInv

\* Every reachable state satisfies the invariant.
THEOREM Invariant == Spec => []IInv
<1>1. ASSUME IInv, [Next]_vars PROVE IInv'
  <2>1. TypeOK'
    BY <1>1, FlowTypesStep, ServerTypesStep, CallTypesStep
    DEF TypeOK, FlowTypes, ServerTypes, CallTypes, Bridges
  <2>2. Ordered' /\ Sheltered' /\ Single' /\ AbortWakesCallback'
    BY <1>1, OrderedStep, ShelteredStep, SingleStep, AbortWakesCallbackStep
  <2>3. Granted' /\ ConnectedBridgeIsFresh' /\ Deleted' /\ ErasedLeavesNothing'
    BY <1>1, GrantedStep, ConnectedBridgeIsFreshStep, DeletedStep, ErasedLeavesNothingStep
  <2>4. Clearing' /\ StoredFitsRow' /\ BridgeFitsRow'
    BY <1>1, ClearingStep, StoredFitsRowStep, BridgeFitsRowStep
  <2>5. QED  BY <2>1, <2>2, <2>3, <2>4 DEF IInv
<1>2. QED  BY <1>1, InitIInv, PTL DEF Spec

\* The state keeps its types, however sign-ins, calls and passes interleave.
THEOREM TypeCorrect == Spec => []TypeOK
<1>1. IInv => TypeOK  BY DEF IInv
<1>2. QED  BY <1>1, Invariant, PTL

\* Tokens of a configuration the server was moved from are stored only until
\* the PATCH that moved it (servers.py) has cleared them, or its stop raised.
THEOREM StoredFits == Spec => []StoredFitsRow
<1>1. IInv => StoredFitsRow  BY DEF IInv
<1>2. QED  BY <1>1, Invariant, PTL

\* After an answered DELETE nothing writes the credential file again.
THEOREM Erased == Spec => []ErasedLeavesNothing
<1>1. IInv => ErasedLeavesNothing  BY DEF IInv
<1>2. QED  BY <1>1, Invariant, PTL

\* No callback waits for a sign-in that _abort or _finish took away from it.
THEOREM Awakened == Spec => []AbortWakesCallback
<1>1. IInv => AbortWakesCallback  BY DEF IInv
<1>2. QED  BY <1>1, Invariant, PTL

\* What serves after a connected sign-in has read its tokens or later ones.
THEOREM Fresh == Spec => []ConnectedBridgeIsFresh
<1>1. IInv => ConnectedBridgeIsFresh  BY DEF IInv
<1>2. QED  BY <1>1, Invariant, PTL

\* A set without two members has at most one.
LEMMA AtMostOne ==
    ASSUME NEW S, \A x, y \in S : x = y
    PROVE  Cardinality(S) <= 1
<1>1. CASE S = {}  BY <1>1, FS_EmptySet
<1>2. CASE S # {}
  <2>1. PICK x \in S : TRUE  BY <1>2
  <2>2. S = {x}  BY <2>1
  <2>3. QED  BY <2>2, FS_Singleton
<1>3. QED  BY <1>1, <1>2

\* However often Authenticate is pressed, one sign-in is registered and driven.
THEOREM OneSignIn == Spec => []OneDriven
<1>1. ASSUME IInv PROVE OneDriven
  <2>1. Cardinality(pending) <= 1  BY <1>1, AtMostOne DEF IInv, Single
  <2> DEFINE D == {f \in Flows : at[f] \notin {"unbegun", "probe", "over"}}
  <2>2. \A f \in D : f \in pending  BY <1>1 DEF IInv, Single, TypeOK, Driven
  <2>3. Cardinality(D) <= 1  BY <1>1, <2>2, AtMostOne DEF IInv, Single
  <2>4. QED  BY <2>1, <2>3 DEF OneDriven
<1>2. QED  BY <1>1, Invariant, PTL

\* _checked_promote writes only what fits the row, and the row stays through
\* its write: nobody else commits under config_write_lock.
THEOREM GrantFits == Spec => GrantFitsWhenWritten
<1> DEFINE Fits ==
      \A f \in Flows : thread'[f] = "wrote" /\ thread[f] # "wrote" => row = snap[f] /\ row' = row
<1>1. ASSUME IInv, [Next]_vars PROVE [Fits]_vars
  <2>1. CASE UNCHANGED vars  BY <2>1
  <2>2. ASSUME NEW f \in Flows, Promotes(f) PROVE Fits
    BY <1>1, <2>2 DEF IInv, TypeOK, Sheltered, Promotes
  <2>3. ASSUME NEW f \in Flows, Judges(f) PROVE Fits
    BY <1>1, <2>3 DEF IInv, TypeOK, Judges
  <2>4. ASSUME NEW f \in Flows, ExchangeSucceeds(f) PROVE Fits
    BY <1>1, <2>4 DEF IInv, TypeOK, ExchangeSucceeds
  <2>5. ASSUME thread' = thread PROVE Fits  BY <2>5
  <2>6. ASSUME NEW f \in Flows, SignIn(f) PROVE Fits
    BY <2>2, <2>3, <2>4, <2>5, <2>6
    DEF SignIn, Begin, Driving, Promoting, Answering, ProbeEnds, RegistersClient,
        PersistsClient, UrlProduced, NoUrl, ExchangeFails, PromotionReturns, CallbackArrives,
        CallbackDelivers, CallbackWakes, CallbackConnects, CallbackTimesOut, Retired
  <2>7. ASSUME NEW o \in Operators, Call(o) PROVE thread' = thread
    BY <2>7
    DEF Call, flows, PatchCommits, PatchCancels, PatchClears, DeleteEnters, DeleteStops,
        DeleteCommits, DeleteClears, DisconnectEnters, DisconnectStops, DisconnectClears
  <2>8. ASSUME PassBegins \/ PassEnds \/ BridgeRefreshes PROVE thread' = thread
    BY <2>8 DEF PassBegins, PassEnds, BridgeRefreshes, flows
  <2>9. QED  BY <1>1, <2>1, <2>5, <2>6, <2>7, <2>8 DEF Next
<1>2. QED  BY <1>1, Invariant, PTL DEF Spec, GrantFitsWhenWritten

\* One sign-in at a time, and nobody waits for another: the conjunction.
THEOREM OneFlow == Spec => []OneAtATime
<1>1. TypeOK /\ OneDriven /\ AbortWakesCallback => OneAtATime  BY DEF OneAtATime
<1>2. QED  BY <1>1, TypeCorrect, OneSignIn, Awakened, PTL

\* The credential file holds what fits the row, what a PATCH is about to clear, or the
\* grants one whose stop raised left behind.
THEOREM FileFits == Spec => CredentialFits
BY StoredFits, GrantFits, PTL DEF CredentialFits
=============================================================================
