# mcpelevator, verified

mcpelevator turns stdio MCP servers into HTTP endpoints: for every configured
server it supervises a *bridge* process on a loopback port, and a reverse proxy
in front routes `/s/<server>/...` to the bridge, wakes servers that were
stopped for being idle, counts calls, and serves *groups* (several servers as
one endpoint). Nearly everything runs on one asyncio event loop; SQLite commits
and usage flushes run in worker threads; bridges, checkout and setup scripts are
processes of the operating system.

This directory holds TLA+ models of that program, translated from its source
under `src/backend/app` (paths below are relative to it), TLC runs over small
instances, and TLAPS proofs for all instances.

Contents: [1 the system](#1-the-system), [2 what is
modelled](#2-what-is-modelled), [3 the runs](#3-the-runs), [4
fairness](#4-fairness), [5 the proofs](#5-the-proofs), [6
observations](#6-observations), [7 abstractions and
omissions](#7-abstractions-and-omissions), [8 plan](#8-plan), [9 running
it](#9-running-it).

## 1 The system

### Parts, their state, and what makes each correct

| Part | State it keeps | Operations | Correct means |
|---|---|---|---|
| **Server unit** `supervisor/unit.py` | published `state`, `health_failing`, `startup_status`; `port`; `proc`, `setup_proc`; the activation task and its attempt; the periodic check task; `_stopping` | `start`, `stop`, `tick_health_check`; internally checkout, setup, launch, readiness, retries, stable-run accounting, cleanup | no process without a handle, the port returned exactly once and only when dead, `stop` final, verdicts of checks only about the present process, every startup and every stop ends |
| **Supervisor** `supervisor/supervisor.py`, `supervisor/ports.py` | `units`, `_activation_requests`, `_idle`, `_last_activity`, `_in_flight`, `_teardown_failed`, `_unit_lock`, `PortAllocator._used`; runtime rows in the database | `reconcile_once`, `stop`, `restart`, `retry`, `while_stopped`, `request_*`, `shutdown` | at most one bridge per server, `max_running` kept, ports neither shared nor leaked, rows never claim a live server is down, requests not forgotten, undesired servers end up stopped |
| **Lifecycle endpoints** `api/servers.py` | the server rows | create, enable, disable, PATCH, delete, restart, retry, clear cache, disconnect | the order commit / cancel / stop is right whatever pass is under way; a deleted server does not come back |
| **Proxy** `proxy/router.py` | none of its own; the supervisor's in-flight counts and activity clock | forward, wake, hold, refuse | a request reaches the bridge of its own server; idling is invisible to clients |
| **Usage recorder** `usage/recorder.py`, `db/repo.py` | `_pending`, `_inflight`, `_flush_lock`; hourly rows | `record`, `flush_sync`, `forget`, `bump_usage`, the final flush | no count lost or doubled, memory and stored names bounded whatever callers send, a deleted server leaves nothing |
| **Upstream OAuth** `auth/oauth_flow.py`, `auth/oauth_store.py`, `auth/oauth_client.py`, `api/auth.py` | `_PENDING` (sign-ins whose browser leg is under way, each with its task and two futures), one credential file per server, what a running bridge has read of it | `begin_authorization`, `_drive`, callback and `complete_authorization`, `cancel_pending`, `_checked_promote`, `clear` | one sign-in per server is driven, a grant is written only for the owner and upstream the server has then, nothing is left after a delete or a reconfiguration, no callback waits for a sign-in that is gone |
| **Groups** `groups/hub.py`, `groups/route.py`, the turns of `bridge/host.py` | the instance routed to and its mounted members, instances that retire, counts of open requests, parked turns and the members each keeps awake | `sync`, `auth_transition`, dispatch, park, retry, drain, `close` | a bundle serves only members its auth setting is compatible with, no parked turn is where no retry looks, a drained instance cuts nobody off, a teardown never waits for its own caller |
| **Bridge: stdio turns** `bridge/host.py` | the child's lock, the slot of the present caller, the turn and its legs, abandoned calls, the stderr ring | call, ask, park, retry, cancel, drain, expire | one caller at a time, a question reaches the caller it is for, a duplicated retry never doubles a leg, secrets of one call do not show in another's error, whoever gives up frees the child |
| **Bridge: tools** `bridge/host.py`, `registry/service.py` | the stored policy; the live upstream | list, call by name, relabel schemas | a name reaches the tool a listing shows under it, hidden tools cannot be reached, a relabelled schema accepts the same arguments |
| **Control plane's rows** `api/users.py`, `api/tokens.py`, `api/groups.py`, `groups/registry.py`, `auth/`, `db/repo.py` | users and roles, tokens and scopes, servers and owners, groups and members, the enforcement setting, `config_write_lock` | create, promote, demote, delete, mint, revoke, transfer, group writes, settings write, boot validation | references stay valid across two-commit operations and a crash between them, an admin can log in while a token is demanded, authority is judged on committed state |
| **Server configuration** `registry/service.py`, `registry/sealed.py`, `runners/` | a server's row, its sealed env, its `config_hash`; what the running bridge was started with | create, import, update, convert, clone, enable, boot conversions | saving what is shown changes nothing, a hidden value never moves to another program or host, the hash changes whenever the bridge must be replaced, docker stays behind its setting |
| **Repository checkouts** `runners/repo.py`, `runners/cache.py` | a checkout, its stamp file and a cache directory per server, on disk | fetch, check out, post-clone build, clear cache | what is launched is the wanted commit, built by this script, whatever an earlier run was killed in; nothing is rebuilt that did not change |
| **Catalog mirror** `catalog/mirror.py` and its sources | mirrored entries with a generation mark, the last finished sync | sync by pages, finish, retry | a listing that is being refreshed still serves, misses nothing older than its sync and drops only what upstream dropped |
| Control-plane MCP server, statistics, diagnostics, schemas, bundle import, frontend, packaging | little or none | command construction, parsing, formatting, views | see `PROJECT.json` for each |

`PROJECT.json` lists every part with its sources, what is modelled and why the
rest is not.

### How they interact

* An **API handler** commits a row (in a worker thread), resumes on the loop, and
  asks the supervisor: a *nudge* wakes the reconciler, an *activation request*
  makes the next pass start the server first, `stop`/`restart`/`retry`/
  `while_stopped` tear down directly, under `_unit_lock`.
* The **reconciler** holds `_unit_lock` for a whole pass, reads all rows once, and
  then works from that snapshot through a chain of awaits, each of which may take
  as long as a process takes to die. Handlers queue behind it.
* A **unit** is created by a pass with a port from the allocator. Its own tasks
  move it from then on; the supervisor and the proxy only read four facts of it
  (state, `health_failing`, whether it holds a port, and, through the operating
  system, whether its process lives).
* The **proxy** asks the supervisor for an endpoint and reports activity; a
  request to an idle server is an activation request that is then awaited.
* A request that was answered is **counted** in memory; a ticker, every reader of
  the statistics and the shutdown flush the counts from worker threads.
  `delete_server` removes rows and counters, then calls `forget`.
* A **sign-in** runs on the loop (the provider's discovery, registration and token
  requests), parks while the browser is away, and is finished by a callback
  request. Its last step judges the row and writes the file in a worker thread,
  under the same `config_write_lock` under which PATCH, delete and disconnect
  commit. The server's own **bridge** reads the file as it starts and writes it
  back when it refreshes, so whoever changes the file stops the bridge first, and
  the reconciler may start it again at any time.
* Every **write of configuration** resolves its caller, waits for
  `config_write_lock`, judges the caller again on committed rows, and commits once
  or twice before it lets go. The settings write alone takes no lock, and carries
  its own guard inside its transaction.
* A **server row** reaches a process by two ways that must agree: the payload that
  the runner hands to the bridge, and the hash by which the supervisor decides
  whether the running bridge still fits.
* The **group hub** is synced after passes and after every write that concerns a
  group; it builds an instance on the side and swaps its members in place, or
  retires the old one, which drains while requests run on it and turns are parked
  in its table. Requests on a group keep the member servers from being idled.
* A **bridge** serves many callers over one stdio child. What the child asks back
  (sampling, elicitation, roots) travels in the answer to a modern client, whose
  turn is parked until it retries, and over the connection of a legacy one.

### Where it is hard

Everything interleaves at awaits: a stop may land at any await of an activation;
a pass decides from rows that change while it waits; teardown can *raise* and
leave a live process behind, which is then quarantined and retried with a
backoff; cancellations are delivered late; checks report about processes that are
gone; a flush decides who is alive before its transaction; an interactive call
outlives the request that began it; two-commit writes can be cut in two by a
crash; a mirror is read while half of it is new; a script is killed in the middle of a
build, and the next one trusts what is on disk. `PROJECT.json` lists these as
`hazards`, each at its line with the properties that would notice.

## 2 What is modelled

| Module | Models |
|---|---|
| `UnitLifecycle` | the four facts of a unit and the moves they may make: definitions only, shared |
| `UnitContract` | those moves as a machine over one variable: what a unit promises |
| `ServerUnit` | `unit.py`, one action per stretch between two awaits |
| `ServerUnitProofs` | theorems about `ServerUnit`, that it implements `UnitContract` among them; about `RepoCheckout`, which a unit runs first |
| `Supervisor` | `supervisor.py`, `ports.py`, the lifecycle handlers of `api/servers.py` and the proxy's decisions; its units make the moves of `UnitLifecycle` |
| `SupervisorProofs` | theorems about `Supervisor` |
| `UsageRecorder` | `usage/recorder.py`, `repo.bump_usage`, `repo.delete_server`'s storage half, the shutdown order of `main.py` |
| `UsageRecorderProofs` | theorems about `UsageRecorder` |
| `OAuthFlow` | `auth/oauth_flow.py`, the callback of `api/auth.py`, the store of `auth/oauth_store.py` as the callers use it, and what PATCH, delete and disconnect of `api/servers.py` do to credentials, beside passes and a refreshing bridge |
| `OAuthFlowProofs` | theorems about `OAuthFlow` |
| `BridgeTurns` | a serialized stdio child of `bridge/host.py`: lock, slot, turns, legs, drain, expiry, stderr windows |
| `BridgeTurnsProofs` | theorems about `BridgeTurns`; about `ToolPolicy`, the tools its calls name |
| `GroupHub` | one group's instances in `groups/hub.py`, `groups/route.py`: sync, swap, retirement, parked turns and leases |
| `GroupHubProofs` | theorems about `GroupHub` |
| `ControlPlane` | users, tokens, servers' owners and groups under `config_write_lock`, the settings guard, crash and boot |
| `ControlPlaneProofs` | theorems about `ControlPlane`; about `ServerConfig`, what its writes store |
| `ServerConfig` | `registry/service.py` and `sealed.py`: normalisation, secrets, hash, conversions; the payloads of `runners/` |
| `ToolPolicy` | `_ToolTransform` of `bridge/host.py`: renames, hiding, relabelled schemas |
| `RepoCheckout` | the script of `runners/repo.py`, one step per command, beside edits, moving refs and cache clears |
| `CatalogMirror` | `catalog/mirror.py` over a directory that changes while it is paged |
| `CatalogMirrorProofs` | theorems about `CatalogMirror` |
| `MC*` | the constants of the TLC instances |

The composition is by contract: `Supervisor` does not contain `ServerUnit`'s
twenty variables but the four facts it reads of each unit, and moves them by
`UnitLifecycle!Moves`. `ServerUnit` is shown to make no other move
(`ImplementsContract`, both checked and proved), so `Supervisor` covers every
behaviour of real units, and more. The other modules meet at rows: `ServerConfig`
says which writes change a row's hash and whether it may run, which `Supervisor`
takes as one bit and a gate; `ControlPlane` says who may write it; `OAuthFlow` and
`GroupHub` repeat of the supervisor only what they need (a bridge may be started
by any pass; a running server may stop and start).

### ServerUnit

| Variables | Code |
|---|---|
| `state, health_failing, startup_status` | `self.state`, `self.health_failing`, `self.startup_status` (`_set_state`) |
| `port, port_released, freed` | `self.port`, `self._port_released`; `freed` counts the allocator's `release` calls |
| `proc, setup_proc` | `self.proc`, `self.setup_proc`: the handles. A bridge is named by the attempt that spawned it |
| `bridges, script, pipe_held` | the operating system's side: live bridges, the group of the script under way, a descendant that holds stdout |
| `strays` | what scripts that came to their own end left in the background: there is no handle on it, and nothing kills it |
| `task, attempt, cancelled, task_raised` | where `_run_activation` is suspended, its attempt, a cancel not yet delivered, how it ended |
| `clean` | which await of `_cleanup_attempt` is under way, for its one owner |
| `stopping, stopper` | `self._stopping`, where `stop()` is |
| `health_check, checking` | the check handed in by the supervisor, the check tasks alive |

The activation is `BeginAttempt`, then for each script phase `SpawnScript`,
`ScriptSucceeds`/`ScriptFails`/`ScriptTimesOut` and `ScriptKilled`, then
`SpawnBridge`, `DocumentWritten`, `ProbeAnswered`, `ReadinessCheckPasses`
(or `BridgeCannotStart`, `StartupFails`); the run is `StableReached`,
`BridgeExitSeen` and `UnstableRunEnds` or `StableRunEnds`. `CancelChecks`,
`ChecksGone`, `TerminateScript`, `TerminateBridge` and one `...CleanupDone` per
handler are `_cleanup_attempt` and what follows it; `CleanupRaises` is any
exception out of it. `Stop`, `DeliverCancel`, `TaskAwaited`, `StopDone` are
`stop()`. `TickHealthCheck`, `CheckEnds` are the periodic check. `BridgeDies`,
`PipeCloses`, `StraysEnd` belong to the operating system. `cancelled` separates
`task.cancel()` from the delivery of `CancelledError`: the guard `At` says that a
task with a pending cancel takes no further step of its own.

### Supervisor

| Variables | Code |
|---|---|
| `row, config, gated, naps` | desired state: the row and its `enabled`, its config hash (one bit suffices to differ), the docker gate, who has an idle timeout |
| `runtime` | the observed-state rows the passes write |
| `units, departing` | `self.units`; the unit `_stop` popped and awaits |
| `used, procs` | `PortAllocator._used`; the live bridges as `<<server, port>>` |
| `requests, idle, activity, in_flight` | `_activation_requests`, `_idle`, `_last_activity` as an age, `_in_flight` |
| `quarantine` | `_teardown_failed`: no entry, backoff unspent, backoff over |
| `lock` | `_unit_lock`: its holder and its FIFO of waiters |
| `pass` | the pass under way: where it awaits, its snapshot, the servers it still has to visit |
| `op, calls, erased` | API calls under way, how many there were, whose DELETE was answered |
| `down` | the progress of `shutdown()` |

A pass is `PassQueues`, `PassBegins` (the snapshot), `PassGates`/`PassGated`,
`PassSweeps`/`PassSwept`, `PassReachesStart`, then one of `PassQuiesces`,
`PassSkipsIdle`, `PassStarts`, `PassBounces`, `PassRefreshes` per wanted server in
the code's order, and `PassEnds`. `BeginStop` and `EndStop` are the two halves of
`_stop` around its await; `EndStop(FALSE)` is a teardown that raised. The
synchronous parts of a pass exclude other work on the loop (`LoopFree`) but not
worker threads (`WriteCommits`, `DeleteCommits`) or dying processes.

An API call is an `op` record with a kind: `Writes` (enable, which for a new id
is also create; disable; edit of the configuration; change of the idle timeout;
change of the docker gate) run `WriteEnters`, `WriteCommits`, `WriteFollowsUp`;
`Stops` (disconnect, delete, restart, retry, wipe of the cache) run `StopEnters`,
`StopAcquires`, `StopReturns` and what the code does after it, including
delete's second stop, and the cache clear that finds its server disabled
midway and starts over.

### UsageRecorder

A key is `<<server, tool>>` (one hour is kept). `pending`, `inflight` and
`flushing` are `_pending`, `_inflight` and `_flush_lock`'s holder; each worker has
a place `at`, a `batch` it detached and the `view` its reads saw before its
transaction; `rows`, `exposed` and `buckets` are the database. `recorded` and
`everExposed` are history. Actions: `Record`; `FlushCalled`, `Take`, `ReadState`,
`Write`/`WriteFails`, `Settle`/`Restore` of a flush; `DeleteServer` and the
`Forget` after it; `ToolsDiscovered`/`ToolsCleared`; `Close` and `Exit`.

### OAuthFlow

One server; a sign-in is a member of `Flows` and so is the grant that came from it,
refreshed or not. `Earlier` is the sign-in that connected the server before.

| Variables | Code |
|---|---|
| `row` | the committed row: its owner and its `_oauth_signature` (a member of `Configs`) |
| `store` | the credential file: whose tokens, and whether a client registration |
| `lock` | `config_write_lock`, while a promotion holds it; commits of the row take it for one step |
| `pending`, `through` | `_PENDING`; which of its storages have `persist_client` set |
| `at`, `snap` | where each sign-in is, from the self-probe to the promotion; the owner and signature snapshot of its begin |
| `thread`, `done` | its `_checked_promote` in the worker thread; its `done_future` |
| `callback` | the callback request that carries its state |
| `bridge`, `pass` | the running bridge with what it has read, and whether anything is routed to it (not once its teardown raised, `Quarantined`); the row the pass under way works from |
| `op`, `calls` | each operator's PATCH, DELETE or disconnect, and where it awaits |
| `erased`, `left` | history: an answered DELETE; the grants that a PATCH whose stop raised left in the file, until a later clear |

`Begin` supersedes, snapshots and registers; `ProbeEnds`, `RegistersClient`,
`PersistsClient`, `UrlProduced`/`NoUrl`, `ExchangeSucceeds`/`ExchangeFails` and
`PromotionReturns` are `_drive` from one await to the next; `Judges` and `Promotes` are
the thread. `CallbackArrives`, `CallbackDelivers`, `CallbackWakes`, `CallbackConnects`
and `CallbackTimesOut` are the callback with its two stops of the bridge, the second of
which may raise and is suppressed; `Retired` is an error redirect or `_reap_stale`.
`Patch*`, `Delete*` and `Disconnect*` go through the handlers' awaits in order.
`PassBegins`, `PassEnds` and `BridgeRefreshes` are the others who touch bridge and file.
A registration is judged and written without an await (`LoopFree`), but not under the
lock.

### BridgeTurns

| Variables | Code |
|---|---|
| `queue`, `holder` | the FIFO lock of `_SerializeClientRequests` |
| `caller`, `turn` | the slot of `_StdioRouting`: whom the child's requests go to |
| `abandoned` | calls that run on upstream although their caller gave up |
| `stage`, `run`, `legs` | a request and its call upstream; how many legs serve its turn now |
| `state`, `minted`, `closed`, `released`, `asked` | the fields of `_Turn`; `state` is the token it is parked under |
| `ask`, `whom`, `sent` | each request of the child, whom it reached, whether it was handed out |
| `stream`, `pumped`, `mark`, `attached` | the child's stderr, what the tee has read, a call's window, what its error carried |

A request runs `Arrive`, `Admit`, then as a legacy call `LegacyReturns`,
`LegacyCancelled`, `LegacyLeaves`, `LegacyDrained`, or as a turn `LegReturns`, `Park`,
`Retry` with any token it was ever given, `LegCancelled`, `Expire`, `End`, `Drained`,
`Finished`. The child answers, asks, writes to stderr and dies when it likes. It writes
behind its answer too, and at any time after: a line is noted with the call that had the
child as it was written (`Under`). `_MAX_PARKED_TURNS` and the refusals of a closed
table cannot occur for one serialized child, for a parked turn keeps the lock; they are
in `GroupHub`.

### GroupHub

| Variables | Code |
|---|---|
| `known, members, auth, default, running` | the registry's group, the auth settings, `running_endpoints()` |
| `hub, plan, onBehalf` | the holder of `_lock`: its phase, what it installs, the request whose own call caused it |
| `inst, current, mount` | instances by number, the one routed to, what each serves |
| `active` | `_Counting`: the requests open on an instance |
| `at, on, leased, reached, run` | a request: where it is, on which instance, the members it keeps awake, those it reached, its upstream task |
| `inflight` | the supervisor's in-flight counts of the members |

`SyncRemoves`, `SyncSwaps`, `SyncBuilds` and `Built` are `sync`, `SwapFails` its error
path; `Announced` and `Drained`, `DrainExpires` the retirement, `Transition` and
`Written` the auth change that empties the bundle before its write; `CloseAll` the
shutdown. A request is `Dispatch`, `Delegate` to a member the instance mounts at that
moment, `MemberAsks`, `Parks`, `Refused`, `Expires`, `CutOff`, `Answered`, `Leaves`. A
retry is a request of its own: dispatched like any other, it takes over the turn parked
under its token once its body is read (`Resumes`).

### ControlPlane

`db` is the committed database: `owner` of each server (or `Gone`), `groups` and what
each lists, `role` of each user, `tok` rows with scope and user. `enforced` is the
setting. `req` is each request's caller as resolved at entry, `plan` the successive
contents of the database the lock's holder still has to commit. `Enter` resolves a
caller; one action per operation takes the lock, judges on committed rows and
computes the plan; `Commit` commits the next of it, or ends with the refusal of
the transaction's guard. `SettingsWrite` commits beside the lock. `Crash` drops a
plan; `Boot` validates and mints the first control token.

### ServerConfig

`row` is the stored row with one value per kind of launch line (`Launchers` are those by
which docker is recognised), script and flag the code treats differently; among its env
`PATH` stands for the variables of the docker CLI. `hash` is what `config_hash` was
computed from, `bridge` what the running bridge was started with, `typed` (history) what
the server ran when each hidden value was last typed in. `Create`, `Import`, `Update`,
`Clone`, `SetEnabled`, `Delete`, `BootConversion` are the writes; `Pass` is the
reconciler over the hash; `Toggle` the docker setting. `Normal` is the chain of
normalisations, `Fits` the refusals, `Resolved` the handling of masked and hidden
values, `Payload` what `bridge_payload` hands to the bridge: the builder's spec
(`SpecOf`) and the server's name. `Legacy` are rows as older releases stored them,
`Converted` what boot makes of one, those it cannot read an image from left as they
were.

### ToolPolicy

`policy` and `schema` are chosen at the start among those the API accepts; `upstream`
changes between the one or two reads by which `call` is resolved, and `seen` records
what it was meanwhile; what a listing shows of each is `Listed`. The rules for
relabelling a draft-07 schema as 2020-12 are `Relabelled`; what a schema means in either
dialect is `Meaning07` and `Meaning2020`, written from the two dialects and not from the
code. `CallsTool` is a call's first read, `Answers` the second one where there is one,
and the answer.

### CatalogMirror

The directory (`listed`, `changed`), the copy (`entry`, `gen`, `last`), the sync under
way (`started`, `full`, `since`, `next`). `Begin`, `Page`, `Finish` and `Fails` are
`sync`; a crash is a `Fails` too, for the pages committed so far stay and the next
sync starts over. `incremental` tells the sources that mark records from those that
page the full listing.

### RepoCheckout

| Variables | Code |
|---|---|
| `row`, `remote` | the server's `repo_url`, post-clone script and cache location; what its ref names at each address: a commit or an annotated tag |
| `origin, head, tree` | `remote.origin.url`, `HEAD` and the working files of `<data_dir>/repos/<id>` |
| `output`, `patched` | what post-clone scripts left: in the cache and in files that are never in git's way; in files that git tracks |
| `stamp` | `<id>.built` |
| `locks`, `half_erased` | the commands whose lock files a kill left in `.git`; whether an `rm -rf` was cut and no other has ended (history) |
| `at, job, sha` | the script's next command, the row it was generated from, `$sha` |

`Starts` generates the script of the row as it is then, and each of `Erases` to
`WritesStamp` is one of its commands; one that works through many files (`rm -rf`,
`git checkout`, the build) has a state in which it is half done. `Ends` may come in
any of them: `sh -e` after a failed command, the deadline, a stop; a git that is killed
leaves its lock file, and refuses to run again beside it (`GitRefuses`). The clear of a
cache holds the unit lock while the server is down (`Supervisor`), so it is never
beside a running script.

## 3 The runs

| Run | Asks | States |
|---|---|---|
| `unit` | whether any interleaving of retries, stop, checks, crashes, held pipes and raising cleanups loses a process, a port or a verdict, or breaks the contract, and whether startups and stops come to their end | 7.2 k |
| `supervisor_one` | one API call of any kind against passes, shutdown, idle sweep and proxy over one server whose teardowns may raise: whether down means down, and whether requests arrive, undesired servers stop, nobody waits for ever | 72 k |
| `supervisor_two` | two servers competing for one slot and two ports, under two restarts that may overlap | 211 k |
| `usage` | whether counts are conserved, bounded, gone after a DELETE, and whether they arrive | 184 k |
| `oauth` | whether sign-ins, callbacks, transfers, reconfigurations, disconnects, a delete, passes and refreshes leave only credentials that fit | 579 k |
| `turns` | whether a turn and a legacy call on one asking, cancelled, writing, dying child keep apart, and end | 257 k |
| `hub` | whether a bundle that is built, swapped, retired and closed under running and parked requests serves only what fits, loses no turn and converges | 742 k |
| `mirror` | whether syncs that die between two pages leave a copy that is current, drops only what is gone and catches up | 572 k |
| `checkout` | whether scripts that die in any command, outages, moving refs, edits and cache clears make a stamp lie or launch what was not built, and whether a later run that nothing disturbs repairs what they left | 892 k |
| `control` | whether two overlapping operations, crashes and the settings write leave dangling rows, a locked-out instance or an authority that was revoked | 1.48 M |
| `config` | whether any sequence of three writes, toggles, boots and passes moves a hidden value, misses a changed launch configuration or passes the docker setting | 103 k |
| `tools` | whether a call under every policy over three names reaches what it names, and what listings show; whether a relabelled schema means what it meant | 665 k |

### Properties

**Unit.** `NothingLeaks` is five facts over every await a stop, a failure or a raising
cleanup may find the activation at. `NoOrphanBridge`: every live bridge is the one
the unit has a handle on, so the next cleanup reaches it. `PortReturnedOnceAndDead`:
four paths release the port, the allocator hears of it once, and never while the
bridge lives. `EndsWithNothingRunning`: a `stop()` that returned, or an activation
that ended by itself, left no bridge, no check and nothing of a script that was cut
short (what a script that ended left in the background is another matter, section 6).
`OneCheckOfThisBridge`: although the code forgets a cancelled check before it
ended, there is never a second. `PhaseOnlyWhileStarting`: no phase is left on show,
for `retry` refuses a unit that shows one. `StopSticks`: after `stop()` was called
nothing but its own end changes the published state. `VerdictIsCurrent`: only the
current check's verdict on the current process marks a unit unhealthy.
`ImplementsContract`: refinement of `UnitContract`. `Settles`: startups and stops end,
and exits are noticed, the last for units whose dead bridge's stdout nobody holds
for ever.

**Supervisor.** `PoolsHold`: one bridge of a server at a time, counted on live
processes and not on the tables; the allocator's table is exactly the ports units
hold, no two hold one, at most `max_running` bridges live, and a shutdown that
completed left nothing. `DownIsDown`: what is marked idle or shown as down has no
process, the units whose stop raised are exactly the quarantined ones, a cache is
deleted under a server that is down. `ErasedStaysDown`: nothing comes back after an
answered DELETE. `EverythingSettles`: liveness, in three parts: an activation that
was asked for comes, or the row says why it cannot (`AskedStarts`); what nobody
desires ends (`UndesiredStops`); whoever waits is answered (`CallsReturn`).

**Usage.** `CountsKept`: every counted call is in exactly one of pending, one batch,
or storage, and after the last flush nothing is left anywhere but there. `Bounded`:
memory stays within ceiling plus one pool per server, batches that may come back
included, and over all flushes of an hour names no bridge ever served fill at most
the budget. `DeletedStaysDeleted`: a DELETE is final in storage and in memory.
`CountsArrive`: liveness.

**OAuth.** `CredentialFits`: between a promotion's judgment and its write nobody moves
the server to another owner or upstream, and tokens of another upstream are in the
file only until the PATCH that moved the server has cleared it; late callbacks,
refreshes and restarts do not bring them back. A PATCH whose stop raised leaves what was
there (section 6): that grant, and no other, may stay. `ErasedLeavesNothing`: neither file
nor bridge after an answered DELETE, whatever sign-in or pass was under way.
`OneAtATime`: a second Authenticate replaces the first, also one still in its
self-probe, and no callback waits for a sign-in that left `_PENDING`.
`ConnectedBridgeIsFresh`: the bridge that anything is routed to after a connected sign-in
started after its promotion, whether the second stop succeeded or raised.

**Turns.** `RightCaller`: what the child asks reaches the caller of the call it asks
for, or nobody. `Exclusive`: the child works for the lock's holder only, but for calls
that were given up; a turn is parked or served by one leg, however often the client
sends a retry. `StderrIsOwn`: the stderr a failed call carries was written while it had
the child; what an earlier call was late to write can be in it, as the code says
(`bridge/host.py:916`), what was written before can not. `NobodyWaits`: a caller that
gives up frees the child whether or not it answers, and what the child asked is settled,
or was moot because it answered first.

**Hub.** `CompatibleMounted`: the bundle that serves never mounts a member whose own
auth is another provider's than the group's, whichever settings changed since it
was built. `TurnsAccounted`: the in-flight counts are what open requests and parked
turns hold, and no parked turn is in a table no retry looks at. `DrainedNeverCuts`:
an instance that was drained and not cut off has nobody on it. `Settles`: a teardown
is not waited for by the call that causes it, and the bundle ends up serving exactly
the eligible members.

**Mirror.** `CopyIsCurrent`: nothing the directory changed before the last finished
sync began is missing or stale. `DropsOnlyGone`: a record leaves only if the
directory did not list it during the sync. `CatchesUp`: liveness.

**Checkout.** `NothingUnbuilt`: the stamp of the row's checkout names scripts that ran
to their end for its commit, and nothing touched what they left since (`StampIsTrue`);
nothing is launched that was not built for its commit, script and cache location
(`ReadyIsBuilt`); of a directory whose erasure was cut short and whose stamp survived
that, only address and commit are known. Tracked files may be as the build left them or
as the commit has them, for a restart may revert them (section 6). `UndisturbedArrives`:
whatever was left behind, a run that is left alone ends ready, or finds a lock file in
its way or half a directory, which no run ever mends (`Stuck`, section 6).

**Control.** `NoDangling`: groups list servers that exist, servers have owners that
exist, no token names a group that does not, after any commit of any operation.
`NotLockedOut`: while a token is demanded somebody can log in as an admin.
`MembersHoldTheirOwn`: a member's data tokens are for servers they own or that are
gone, also between the two commits of a demotion or a transfer. `HolderStillMay`:
until its last commit the holder has the authority it was judged by.

**Config.** `ResendIsNoChange`: sending back the form that is shown is accepted and
changes nothing; the two kinds of row of which that is not so are named, with what
happens to them (section 6). `SecretsStayPut`: through any edits, conversions, clones
and restarts a hidden value is used by what it was typed in for, or by the image of the
docker line it was typed in for. `BridgeIsCurrent`: a bridge whose hash is the row's
runs what the row says, but for the name it goes by. `EnablingIsGated`: no way leads to
an enabled docker server past the setting.

**Tools.** `AnswersAsListed`: however often the upstream changes under a call, it reaches
no hidden tool and none of another name; and if it changed once at most, the answer is by
the tool that a listing showed under that name while it ran, or a refusal that a listing
justified.
`RelabelKeepsMeaning`: a schema that is relabelled has the same meaning in the newer
dialect and is valid in it.

Every property of these runs has a mutant in `PROJECT.json`: a plausible bug in one mapped
definition under which the run finds the property violated. The mutants are
operators of the modules, marked as such.

### Bounds, and why they are enough

* **Unit.** `MaxAttempts = 2`: a first and a last attempt, so the retry, the reset
  of its handles and the spent budget all happen; a third attempt starts in the
  state of the second. Both script phases exist. Three checks: two periodic ones
  (so a check can be edited while it runs) and one for startup only. Stops may be
  repeated after they raised. The run has no other bound; the theorems of section
  5 remove these.
* **Supervisor.** `supervisor_one`: one server and one call of any kind, at any point of
  any pass; its state space is small enough for liveness. `supervisor_two`: two servers
  that compete (`MaxRunning = 1` and a port to spare, so that a leaked or shared port
  shows) and two operators whose restarts overlap (`MaxCalls = 2`). A unit holds a port
  in the table at most once, so two ports for two servers let a wrong return be handed
  out again. `MaxInFlight = 1` distinguishes busy from not busy, which is all the code
  asks. Passes, crashes, failed teardowns, requests and expiring backoffs are not
  bounded. `Nappers` bounds who has an idle timeout to begin with. More calls at once
  of different kinds grow beyond what a run can hold; the theorems of section 5 cover
  them: they are for any servers, operators, kinds and numbers of calls, and state all
  the safety properties of both runs.
* **Usage.** `MaxPendingKeys = 1`, `MaxUnknownTools = 1` with one tool that a bridge
  serves and two that none does: both ceilings bite and both are crossed by one.
  Two workers are enough for every overlap: all flushes run the same code one at a
  time under `_flush_lock`, and the second is the shutdown's, which finds the
  first still in its thread.
  `MaxRecorded = 3` calls and `MaxFailures = 1` failed write suffice for a
  failure to be merged with a newer count and then written with a third. One
  server; what another server's keys do to it is only the ceiling, whose theorem
  is for any number.
* **OAuth.** Two sign-ins besides the earlier one: a sign-in and the one that
  supersedes it. Two owners and two configurations: there and back. Two
  operators, so that one call overtakes another. `MaxRequests = 3` bounds
  sign-ins and calls together, so a sign-in against two calls, two sign-ins
  against one, and three calls all occur. Passes, refreshes and failing stops are
  not bounded. The theorems of section 5 remove all of these.
* **Turns.** One modern and one legacy call overlap in every way the lock allows.
  `MaxAsks = 2` with `MaxPending = 1`: a second question while one is unanswered, and
  the refusal of one too many. One line of stderr and a ring of one: it is written
  before, during or after either window. The theorems of section 5 remove the sizes,
  a longer stderr and more callers among them.
* **Hub.** Two servers that may follow one another under one slug, so that a swap can
  put another server behind a name a parked turn remembers. One provider and "none":
  compatible or not. Two requests: one may cause the teardown the other is parked under,
  with `MaxParked = 1` full, or resume the other's turn and park again. `MaxChanges = 2`
  changes of rows, settings or processes and `MaxGens = 3` instances: one more than can
  be needed. The theorems of section 5 remove the sizes.
* **Checkout.** Two commits, one of them tagged too, two addresses that carry the same
  commits (a fork, so that a stamp of one could pass for the other), two scripts.
  Nothing else is bounded: kills, outages, edits, also back, and clears may go on for ever.
* **Mirror.** Two records, one before and one behind the page under way. Four clock
  readings and two failures: a sync that dies, its retry that dies, and one that
  finishes. `Overlap = 0` is the hardest value of `_OVERLAP_S`: a larger one only reads
  more again; the theorems of section 5 are for any.
* **Control.** Two servers, one group, two users, two token rows, two requests: a
  server to hold and one to transfer, a demoted admin and the other one, an
  operation in flight while another's caller is revoked. Sequences of operations,
  crashes and boots are not bounded. The theorems of section 5 remove the sizes.
* **Config.** Three writes of one row, new or of an older release: create, convert or edit,
  clone or save again. What is sent is one or two fields at a time, of the values that
  decide a branch (`MCServerConfig`).
* **Tools.** Three names: a tool, its new name, and a third in the way. Two changes of
  the upstream during one call: what one allows and two do not then both show. Every
  schema of a root with one schema below it and at most two keywords each.
* **Symmetry** is used in runs without liveness only: servers, operators,
  users, tokens, requests and sign-ins not yet begun are interchangeable; ports are
  not permuted.
* `CHECK_DEADLOCK FALSE` in every run but `control`: a stopped unit, a process that
  is down, an exited recorder, answered calls may stop, and calls, edits and counts
  are bounded. `control` can always go on, and is checked for it.

## 4 Fairness

* `ServerUnit`: weak fairness of the activation, the watcher, the cleanup, the
  progress of `stop()` and the end of checks. The event loop runs whatever is
  ready, each await of a startup has a deadline in the code (scripts, document,
  readiness, checks, terminate-then-kill), and a cancelled await raises. Nothing
  makes a bridge die, a pipe close, or anyone call `stop()`. The run has raising
  cleanups and held pipes, so `StartupSettles` names the activation that ended
  by an exception of its own cleanup, and `ExitIsNoticed` the pipe that is held
  for ever; without that exception it fails (section 6).
* `Supervisor`: weak fairness of passes (`run_forever` wakes at its interval) and
  of shutdown; strong fairness of each operator's continuation, as asyncio's
  lock is FIFO and a ready task is run although the loop is busy again and again
  in between; weak fairness of the backoff clock; strong fairness of the death of
  a process being terminated (it is killed in the end), and of a pass's teardown
  succeeding, for each server. The last one is an assumption on the environment, not on
  the scheduler: the teardown of a server that is retried for ever does not raise every
  single time.
  Without it a quarantined unit stays for ever, as it should.
* `UsageRecorder`: weak fairness of the ticker, of each thread's next step
  (including waiting for `_flush_lock`, which has no starvation between a few
  threads that each flush and go), and of the handler past its commit. A failed
  write needs no fairness: failures are bounded.
* `OAuthFlow` states no fairness and no liveness. A sign-in ends by the browser, by
  the provider or by timeouts, none of which the code can hurry; what the code
  promises is that the waiting callback is not forgotten, and that is the safety
  property `AbortWakesCallback`, a part of `OneAtATime`.
* `BridgeTurns`: weak fairness of the lock's hand-over, of the collection of stderr,
  of a call's return once the child answered or died, of parking, of the expiry
  timer and of the drain's timeout. Nothing makes the child answer, ask or die, nor
  a client cancel, leave or retry.
* `GroupHub`: weak fairness of `sync` (the supervisor converges after every pass), of
  each phase of the lock's holder, of a drain that is over and of its timeout, and
  of the expiry timer. Requests owe nothing: they may run for ever.
* `CatalogMirror`: weak fairness of the clock, of beginning a sync (`run_forever`) and
  of each page; failures are bounded, which is the assumption that the directory
  is reachable again in the end.
* `RepoCheckout`: weak fairness of the script's commands, of the reconciler replacing a
  server whose row changed, and of a cache clear under way. None of the activation
  itself, which a spent retry budget leaves to the operator, nor of remotes.
* `ControlPlane`, `ServerConfig`, `ToolPolicy` promise safety only.

A module whose theorems stand beside another component's names its specification for
itself: `CheckoutSpec` (and `FairCheckoutSpec`), `ConfigSpec`, `PolicySpec`; the others
say `Spec`.

## 5 The proofs

`ServerUnitProofs` proves, for every retry budget, set of checks and combination
of scripts, with raising cleanups and held pipes allowed, each safety property,
each action property and the refinement that the run `unit` checks. The
assumption is `UnitAssumptions` (types of the constants). The argument is one
inductive invariant `IInv`, in named parts none of which is inductive alone:

* `Typed` (split by kind of value), `Budget` (the attempt at each point of the task);
* `Control`: who may be where. `stop()` cleans up only when the task ended, a
  cleanup has exactly one owner, and a cancel waits only inside `stop()`. Without
  it a cleanup could be imagined under both the task and `stop()`, and
  everything else fails;
* `Handles`: every live bridge is `proc`, and at the points where the code is about
  to overwrite `proc` (`Bridgeless`) nothing is alive. This is what makes
  `NoOrphanBridge` inductive;
* `PortHeld`: at the points of `PortHolding` the port is still the unit's, and
  `freed` counts its return;
* `Shown`, `Served`, `Advertised`: the published state at each point of the task,
  which the contract's moves need;
* `OneCheck`: checks alive are equal, of the present process, and cancelled only
  while somebody waits for them.

One lemma per part and step (`ControlStep`, `HandlesStep`, ...), then `Invariant`, then
the corollaries `TypeCorrect`, `NoOrphan`, `PortReturned`, `EndsClean`,
`AtMostOneCheck`, `PhaseShown`, and `NoLeaks` which collects them. `EndsClean` is about
the script that was under way: it says nothing of `strays`, which nothing in the code
ends. `StopStays` and `VerdictStays` use the invariant to discharge each step.
`Implements` names the contract move of every action (`LifeBegins`, `LifeLaunches`, ...)
and combines them in `LifeStep`. So what `Supervisor` assumes of its units is proved,
not only checked at two attempts.

`SupervisorProofs` proves every safety property of the runs `supervisor_one` and
`supervisor_two`, for any finite sets of servers and ports, any operators and number of
calls, with teardowns that may raise: `OneBridge`, `Pools`, `Down`, `Deleted`, and
`TypeCorrect`. The assumptions are `SupervisorAssumptions` (types, finite servers and
ports) and `NoneIsNothing` (the marker is none of the values it stands beside). The
argument is about one *table*: the unit of a server (`Of`) is the one in `self.units`,
or the one `_stop` popped and awaits. `IInv` says:

* `Tabled`: processes and allocated ports are exactly those of the table (`Sound`), no
  two units hold one port, and at most `max_running` hold any. One lemma for each
  thing that can happen to a table: a unit starts (`SoundStarts`), moves
  (`SoundChanges`), ends (`SoundEnds`); everything else leaves it alone (`TableAlone`);
* `Line`: who waits for the lock or is inside, each once, and only its head inside;
* `Departs`: a unit is on its way out exactly while somebody awaits its `stop()`. With
  `Line` that is one unit and one waiter (`Exclusive`), without which popping a
  unit before awaiting it would lose another;
* `Quarantined`: a unit left in `self.units` by a teardown that raised is quarantined,
  so no pass starts beside it;
* `Idled`, `RowsTrue`, `Wiping`: the places that take a server to be down are right,
  since of a server of which nothing is left only a pass's start makes something
  (`StaysGone`), and a pass holds the lock;
* `Worked`, `Erased`: a pass starts what its snapshot wants, and once a DELETE
  is answered no pass at work has the server enabled in its snapshot. That is why
  delete stops twice: the second stop waits for the pass that may have read the
  row before the commit;
* `Closing`: a shutdown waits behind one pass at most, and no call is left.

The proofs of these parts split `Next` into groups by what a step does to the lock and
to the table (`CallTurns`, `UnitSteps`), not by action, for most actions are alike.

`UsageRecorderProofs` proves, for any number of servers, tools and threads and any
ceiling, every safety property of the run `usage`: `RecorderTypes`, `CountsAreKept`,
`DeletedIsGone` and `Limits`, with `NoOrphans` and `FinalFlush` on the way. The
assumption is `RecorderAssumptions`. There are three invariants. `IInv` adds to the
properties
`Serial` (only the holder of `_flush_lock` has a batch), `Scoped` (a write touches
servers of its batch only, so the transaction's sweep reaches whatever it wrote),
`NamedBounded` (the ceiling without the pools) and `FinalTookTheRest`. The budget
of an hour has an invariant of its own beside it, `JInv`: what a bridge shows it has
shown before (`Shown`), and what a write has read still holds of the servers that
exist (`Viewed`, for under `_flush_lock` only a delete can come between). Then
either the budget is spent and the write adds no name, or what the pools leave of
the unknown names fits what is left of it (`PoolsTakeTheRest`, `WriteInvents`,
`WriteWithinBudget`). The counts have `KInv`: a key of the batch under way stays
reserved while its server exists (`Reserved`, `Guarded`), so a batch and what is
pending stay apart; a server that exists at the write existed at the read (`Alive`), so
nothing of it is swept; hence what was recorded is what is pending, detached and stored
(`Kept`), and of a forgotten server no more can return than was recorded after it
(`Later`).

Those sums are folds over sets of keys. That a fold is the sum it should be is an
induction over finite sets, whose library theorem takes an operator and cannot be
used; `SetInduction` has the property as a set of subsets instead, and rests on the
library's minimal elements of well-founded orders. With it `CallsStep` says what one key
more adds, and the other lemmas about `Calls` (a sum over a part and the rest, keys
that were gathered into a pool) follow from that without induction.

`OAuthFlowProofs` proves every property of the run `oauth`, for any number of
sign-ins, owners, configurations, operators and requests, with or without raising
stops: `TypeCorrect`, `StoredFits`, `Erased`, `OneSignIn`, `Awakened`, `Fresh`, the
action property `GrantFits`, and `OneFlow` and `FileFits` which combine them as the
run does. The assumption is `FlowAssumptions` (types, a
finite set of sign-ins, markers that are no rows). `IInv` adds to the properties:

* `Ordered`: a sign-in whose URL is not known has no callback, one that is not
  being promoted no thread. Without it a wake-up could find no future to resolve;
* `Sheltered`: between judgment and write the promotion holds the lock and the row
  is its snapshot. From it follow `GrantFits` and the promotion's part of
  `StoredFitsRow`;
* `Single`: whoever is driven is registered, and one is registered;
* `Granted`: what is stored, read by a bridge, known to a callback that stops the bridge
  the second time, or reported as connected was written by a promotion;
* `Deleted`: a deleted row does not return, and after the answer no pass has it in
  hand and no registration is between its check and its write;
* `Clearing`, `BridgeFitsRow`: who has moved the server has yet to pass its stop,
  and until then a bridge may hold old tokens; so it may if that stop raised, and then
  they are among those left behind (`left`). `StoredFitsRow` is not inductive
  without `BridgeFitsRow`, for a bridge writes back what it has read.

One lemma per part (`OrderedStep`, ...), one step per group of actions in it, and
`FlowTypesStep`, `ServerTypesStep`, `CallTypesStep` for `TypeOK`.

`ControlPlaneProofs` proves every property of the run `control`, for any number of
servers, groups, users, tokens and overlapping requests: `RegistryBoots`,
`OwnersStay`, `GroupTokensGo` and `NothingDangles` which joins them, `AdminRemains`,
`MembersStayMembers`, `HolderKeepsAuthority`. The assumption is `Atoms` (the markers
are no rows). The argument: a database is *in order* (`InOrder`) if its references
resolve and members hold only what is theirs. One lemma per write (`PutGood`,
`ForgetUserGood`, `PruneGood`, ...) shows that it computes from a database in order
one that is in order; hence a plan is a sequence of such databases (`PlanGood`),
and whichever prefix of it a crash leaves committed is one, without a word about
the crash. `PlanGood` also says what each step does to logins, which with the
guard inside the transaction gives `NotLockedOut` although the settings write takes
no lock; and `HolderStillMay` holds because only the holder's plan changes `db`.

The second half of `ControlPlaneProofs` proves every property of the run `config`, for
any requests and any number of writes: `FormsAreFixedPoints`, `SecretsAreNotMoved`,
`CurrentIsCurrent`, `DockerIsGated`. The assumption is `ConfigAssumptions`: what is sent
has the types the request schemas give it, and no PATCH enables. The argument:

* `RowInv`: a stored row holds values of the stored kinds (`Holds`) and is `Sound`, that
  is in the normal form and accepted by the refusals (`Fits`, `EnvFits`), unless it is an
  old row the conversion passes over (`Unread`) or, before it ran, any of `Legacy`. Its
  hash is its own.
  One lemma per stage of the normalisation says which fields it touches
  (`ImageFields`, `UrlFields`, `SwitchFields`), `NormalFields` that their composition
  establishes the normal form, and `ConvertedFields`, `ConvertedOnce` what boot makes of
  an older row and of any other;
* a row in normal form is sent back as it was shown: `FormEdits` and `FormIsNoChange`
  show that every stage, and the handling of hidden values, leaves it alone. `ReadOnce`
  says what becomes of a docker row that is itself a docker run line, `UnreadRefused` and
  `UnreadNotCopied` that an unread row is neither saved as it is nor cloned;
* `SecretsStayPut` is inductive beside `RowInv`: a kept value is of a server that was not
  retargeted, so that `RunsWith` does not move (`KeptStaysPut`), and a clone runs with
  what the original ran with (`CopyIsTheSame`); reading a docker line once more, at boot
  or in a clone, is the one move of a value (`TypedFor`);
* `BridgeInv`: a running bridge was launched from *some* row whose hash it bears. Equal
  hashes are equal payloads (`HashTells`), whatever was edited in between and back.

`BridgeTurnsProofs` proves every safety property of the run `turns`, for any calls,
legacy or modern, any number of questions and any stderr: `RightCaller`, `Exclusive`,
`StderrIsOwn`. The assumption is `TurnAssumptions` (the modern and the askable callers
are callers, `NoCall` is none, bounds are numbers). The argument turns on who has the
lock: `Holding` says which of a call's states keep it (an open or draining legacy call;
a modern one from its admission until `_release`), and `Served` that whatever works
upstream without being abandoned is the holder. Hence while `abandoned` is empty only
one call works, and it is the one in the slot (`Slotted`); while it is not, `_current`
names nobody: both halves of `RightCaller`. `StderrIsOwn` needs `Windows` (the lines
after the mark of a call that has the child were written under it, or its window is
empty) and `GivenUp` (an abandoned call's caller gave up before, so no window is cut for
it that anyone reads). `Queued` (the waiters are distinct, all of them queued) rests on
a lemma about taking one element out of a sequence.

Its second half proves both properties of the run `tools`: `RelabelIsFaithful`, for any
sets of keywords in a root and in the schema below it, and `CallsReachWhatIsListed`, for
any tools and any policy the API accepts. The assumption is `ToolAssumptions` (a policy
is over the tools' names, a `$ref` holds no schema). A node without a construct that
`NodeIncompatible` names asserts the same in both dialects (`NodeMeansTheSame`), and what
the root draws in from below is then the same too. A call's invariant `CallInv` says
that the tools of its first read and those of now were both there during the call, and,
if only one change came between, differ by one tool at most; each of the three ways to
resolve it (`SourceAnswers`, `TargetAnswers`, `DirectAnswers`) reaches a tool of that
name that is not hidden, whatever changed, and after one change answers what one of
these two listings shows. The theorem is for any number of changes; that the second part
of the property stops at one is no bound of the model, for at two it is false (section
6).

The second half of `ServerUnitProofs` proves the safety property of the run `checkout`,
`NothingUnbuiltIsLaunched`, for any addresses, commits, tags and scripts, any number of
kills, outages, edits and cache clears. The assumption is `CheckoutAssumptions` (types).
`RInv` says of the script's place what the directory is like there: at `clone` it is not
of the run's address, at `init` it is of none, from `fetch` on it is of the run's, and
where nothing may be vouched for there is no stamp (`Steps`); HEAD is what was settled on
and what the builds left is of it, but in a half erased directory (`Settled`). The stamp's
own part, `StampIsTrue`, has its own lemma (`RepoStamps`): whatever overwrites what a
stamp vouches for removes the stamp first, or only puts tracked files back to the commit.

`GroupHubProofs` proves every safety property of the run `hub`, for any finite sets
of servers and requests, any providers and any number of instances and changes:
`CompatibleMounted`, `TurnsAccounted`, `DrainedNeverCuts`. The assumption is
`HubAssumptions`. The model keeps the counts the code keeps; the invariant says of
which set of requests each is the size (`Counted`: the requests open on an instance,
`Leased`: those that hold a member), where a request that holds something can be
(`Placed`), that what is routed to is live and nothing is while a bundle is built or
a setting written (`Routed`), and that what is mounted, or planned, fits the settings
(`Mounted`). Every move of one request changes both sets by that request alone
(`OneDiffers`, `CountFollows`), the end of many turns at once by sets
(`TurnsLetGo`), and a teardown moves no request that is open (`TeardownKeeps`).

`CatalogMirrorProofs` proves both safety properties of the run `mirror`, for any
number of records and failures, any time and any overlap: `CopyIsCurrent` and
`DropsOnlyGone`. The assumption is `MirrorAssumptions` (bounds are numbers, and time
does not stand still). The argument follows the page under way: a row was read after
its sync began (`RowsRead`), the pages so far brought everything that is listed and
old enough (`Visited`), a full sync's pages everything listed all the while (`Seen`),
and an incremental sync asks from no later than the last one that finished
(`Reaches`), which is why one that died between two pages costs nothing.

**Only model-checked**: the liveness properties, for fairness and `ENABLED` are beyond the
prover: `Settles` of `unit`, `EverythingSettles`, `CountsArrive`, `NobodyWaits`, `Settles`
of `hub`, `CatchesUp`, `UndisturbedArrives`.
Every invariant and every action property of every run is stated by a theorem.
No module uses a `RECURSIVE` operator.

## 6 Observations

Behaviour of the code that was met while modelling and that the properties of section
3 allow: each is reachable in the model, and a stronger property than the one a run
checks would forbid it. The last column quotes what the repository says.

| Where | What the code does | What it says |
|---|---|---|
| `supervisor/unit.py:955` | `_wait_for_bridge_exit` awaits the log task without a bound before it reports the exit; a descendant that holds stdout keeps the unit `running` on a dead bridge | the repository's README: exits before a stable run retry the full attempt. The scripts' version of the same wait is bounded (`unit.py:560`), for this reason |
| `supervisor/supervisor.py:639` | the start loop writes runtime rows from its snapshot, also of a server whose DELETE committed meanwhile | the sweep's comment (`:465`): that would resurrect an orphan nothing cleans up |
| `supervisor/supervisor.py:300` | `stop()` discards the idle marker, then waits for the lock behind a pass that sets it again | the comment there: the server must not come back as idle after a disconnect |
| `supervisor/supervisor.py:572` | while the idle sweep awaits a stop, a request finds neither bridge, nor idle marker, nor start under way: 503 | the repository's README: clients see a slower first call, not an error |
| `api/servers.py:842` | disconnect stops the bridge, then clears in a worker thread; a pass in between restarts the enabled server, whose bridge reads the old tokens, serves with them and writes them back; the activation request at the end leaves it running | the handler's docstring: the restarted server re-reads the now-empty store and stops serving with the revoked credential |
| `api/servers.py:624` | PATCH commits, stops, and only then clears; a stop that raises leaves the new upstream with the old tokens, and repeating the PATCH sees no change (`left` of `OAuthFlow`) | `_promotion_blocked` (`auth/oauth_flow.py:1035`): the PATCH that changed it already cleared the stored tokens |
| `api/auth.py:343` | a second stop that raises is suppressed and the callback answers connected; the old bridge may live on with the old tokens, unrouted, and the server is down until a later pass's stop of it succeeds | the comment (`:337`) speaks of the bridge that ends up serving, for which it holds (`ConnectedBridgeIsFresh`) |
| `supervisor/unit.py:575` | what a script that came to its own end, well or not, left in the background without holding its stdout has no handle any more: neither the end of the unit nor `stop()` kills it (`strays` of `ServerUnit`) | `runners/repo.py:20`: the same process-group teardown; the comment at `unit.py:1002`: cancellation owns the whole group. Both hold of scripts that are cut short only |
| `usage/recorder.py:267` | a flush whose write fails merges its batch back, and a later one writes it (`CountsKept` and `CountsArrive` hold) | the docstring of `run_forever`: the counters it couldn't write are simply lost |
| `usage/recorder.py:41` | past the ceiling a key that is not tracked is counted under the server's pooled name, not dropped (`CountsKept` holds) | the comment on `MAX_PENDING_KEYS`: counts for keys not already being tracked are dropped |
| `registry/service.py:1552` | a stored docker row that is itself a docker run line (the image named `docker`, arguments that begin with `run`) is read once more at the next boot, in a clone or on saving, and its hidden env goes to the image that line names (a save is refused instead if it hides any) | a row that's already canonical re-normalizes to itself |
| `runners/repo.py:147` | `git checkout --force` writes the files before it moves HEAD, and the stamp goes later; killed in between, a next run whose fetch fails (or whose ref is back at the old commit) finds HEAD and stamp in order and launches a mixture of two commits. Also seen with the generated script and git 2.39 | the script brings the directory to the ref (`:117`), and after a failed fetch the earlier checkout is started (`:9`) |
| `runners/repo.py:152` | for an annotated tag the fetch names the tag object and the fallback HEAD's commit, so the stamp of one never matches the other: the post-clone script reruns when an outage begins and when it ends, and fails if it needs the network. Also seen with the generated script and git 2.39 | it runs only when the commit or the script changed (`:12`); an outage doesn't take a built server down (`:9`) |
| `runners/repo.py:147` | with an annotated tag HEAD never equals what was fetched, so every restart checks out by force: the tracked files that the post-clone script changed are reverted, the stamp still matches, and the script does not run again (`patched` of `RepoCheckout`) | it runs only when the commit or the script changed (`:12`), so that a restart doesn't rebuild |
| `runners/repo.py:138` | a git that is killed leaves `shallow.lock` or `index.lock`, which nothing removes while the address stays: a first fetch or a due checkout is refused in every later run (`Stuck`) | the script brings the directory to the ref (`:117`) |

One sentence is inaccurate without consequence: the docstring of
`groups/registry.py` (`:25`) says that a DELETE prunes its groups in the same
transaction; it prunes in one commit and deletes the row in the next (`:104`), under
one hold of the lock. A crash in between leaves a registry that boots (`NoDangling`).

Of the following no sentence speaks:

* `rm -rf "$dir" "$stamp"` removes the stamp last: killed while it erases a checkout
  whose `.git` is still there, and with the address then edited back, the old stamp
  vouches for files that are partly gone (`half_erased`, which `NothingUnbuilt` names);
* a fetch that fails because a new ref does not exist starts the commit of the old
  ref, as an outage would;
* after a stable run the cleanup of the dead bridge is awaited while the state is
  still `running` (`unit.py:344`); the sibling branch stops advertising first;
* a disable whose handler resumes late cancels the activation request of an enable
  that overtook it; the next pass starts the server all the same, only not first;
* an aborted or timed-out sign-in whose promotion has reached its thread is still
  promoted if it fits the row, although the callback reports a failure;
* a bridge that a pass restarts between a callback's stop and the promotion may
  overwrite the new grant by a refresh of the old one (`ConnectedBridgeIsFresh`
  is about the process, not the file);
* a pass between PATCH's commit and its stop starts the new upstream with the old
  one's tokens, until the stop;
* `_abort` resolves `done_future` but not `url_future`, so the superseded request of
  a begin waits for its own timeout;
* `_Turn.leg` refuses what the child asked with `set_result` (`bridge/host.py:591`); a
  request the child withdrew in the same turn of the loop has its future
  cancelled, and `set_result` would raise;
* a request of the child that is still waiting when the child answers the call
  itself is never answered (`AsksSettle` excuses it);
* `enforce()` of a group's route awaits between reading the default provider and the
  dispatch; the model makes them one step;
* the settings write holds no lock, so a local operator's authority while nothing is
  enforced is judged once, at the check under the lock;
* two changes of the upstream between the two reads of one call may answer with a
  tool that no listing showed under the name: a tool with a rename goes, and then its
  rename's target comes. It is a tool of that name all the same (`ReachesOneOfThatName`);
* `split_namespaced` credits a call to the longest slug that matches, the hub may route
  `a_b_c` to tool `b_c` of slug `a`;
* a row of an older release from which no image can be read, which boot leaves as it is
  (`registry/service.py:1566`), and an enabled one that wraps docker in a shell are refused
  when they are saved as they are shown (`Outdated`);
* a server's `name` is in what a bridge is given (`registry/service.py:2027`) but not in the
  hash (`:1389`): a bridge keeps the name it was started under;
* a reader pages through the mirror by offset (`catalog/mirror.py:158`): a sync that
  moves ranks between two of its pages makes it skip a record or see one twice;
* the mirror's generation is a wall-clock reading, taken to be monotone.

## 7 Abstractions and omissions

* **Time** is choice: deadlines, intervals, backoffs and the stable-run threshold
  may pass at any moment (the backoff and the idle window as a two-valued age).
  Passes may start at any time, which subsumes nudges.
* **Processes**: a spawn succeeds or fails as a whole, and terminate-then-kill
  reaps what it is given. Containers are the `reap` step, which may raise.
* **Ports**: the allocator takes the lowest free port not bound on the host; the
  model takes any free port that no bridge has bound.
* **Supervisor**: convergence callbacks for groups are left out (they read units and
  change none of this state). PATCH is its enable/disable, edit and idle-timeout
  effects; the stop it makes for changed OAuth settings is in `OAuthFlow`, its
  rename is not modelled. A request for a row that is already gone touches only the
  activity clock of nobody and is left out. The relay after the proxy's decision
  is one step that ends. A crash of mcpelevator is not modelled: `Init` is the
  state after `boot_reset`.
* **Recorder**: one hour, no retention; the three reads of `bump_usage` see one
  moment (SQLite commits between them would make the view mixed); which invented names win the
  budget is any choice, for it is alphabetical.
* **OAuth**: the server stays enabled; a stop is one step at the end of its await, so
  what happens before it returned happens before it. Discovery, registration and
  token exchange succeed or fail as a whole. Left out: a repeated callback
  for one state (it waits for the same future as the first), a promotion cancelled
  before its thread started, and a PATCH that skips cancelling because another
  transfer changed the owner between its entry and its commit. A bridge reads the
  file as its pass ends: a bridge that reads later is a pass that takes longer.
* **Turns.** The bytes of stderr are lines with the call they were written for; the
  ring drops the oldest. The unserialized default of a bridge is left out: its slot
  is never filled, so the child's requests are refused.
* **Hub.** One group; names of tools, exclusion warnings and the listen-stream bus are
  left out. `sync` reads its rows in the step in which it takes the lock or resumes.
* **Control plane.** A wildcard group lists nothing, as an empty one does. Slugs,
  names and token hashes are identities. `MCPE_ADMIN_TOKEN` is unset: with it the
  guards about the last admin are lifted. Cloudflare Access identities, the permission
  for local runners and the visibility pre-checks are left out.
* **Config.** Sizes, timeouts, slugs, response schemas, the tool policy (`ToolPolicy`
  has it) and the built-in server are left out. A row of an older release has the default
  in every column that was added since.
* **Checkout.** git's commands succeed, fail or stop half way, with the files written
  before HEAD and HEAD before the command ends. A post-clone script may work on what an
  earlier one left. What a finished script left in the background (`strays` of
  `ServerUnit`) writes nothing there any more. The removal of a deleted server's checkout
  is left out: nothing reads it again.
* **Mirror.** One page holds one record; ranks, search and readers' cursors are left
  out. The upstream's cursor skips no record that stays listed.
* **Tools.** Argument renames, descriptions, prompts and resources are left out.
* Credentials, ownership and visibility checks are left out of `Supervisor` and
  `OAuthFlow` except where a check is repeated inside the lock (`Authorized`,
  `StillAuthorized`); they are the subject of `ControlPlane`.
* No model uses strings, wording, logging or layout.

Not modelled at all, with the reasons in `PROJECT.json`: retention and attribution
of usage, schema migrations, the generation of tools from OpenAPI and GraphQL
documents, the control-plane MCP server (its tools call the endpoints), diagnostics,
bundle import, the frontend and packaging. They keep no state of their own, translate
large inputs, or are pure input and output.

## 8 Plan

Ordered by weight; all but the last are done.

1. `UnitLifecycle`, `UnitContract`, `ServerUnit`, with proofs.
2. `Supervisor` over the contract, with the handlers and the proxy.
3. `UsageRecorder`, with proofs.
4. `OAuthFlow`, with proofs.
5. `BridgeTurns`: one holder, questions to their caller, drains and expiries.
6. `GroupHub`: live bundles under requests, turns and changing settings.
7. `ControlPlane`, with proofs; `ServerConfig`.
8. `CatalogMirror`, `ToolPolicy`, `RepoCheckout`.
9. Proofs about `Supervisor`.
10. Proofs about `BridgeTurns`, `GroupHub` and `CatalogMirror`, and of the recorder's
   budget.
11. Proofs about the recorder's counts, `RepoCheckout`, `ServerConfig` and `ToolPolicy`.
12. Retention of usage and its hour boundary; attribution and masking of windows as
   operators against reference definitions; the built-in server.

## 9 Running it

    tlc -workers 2 -config unit.cfg MCServerUnit
    tlapm ServerUnitProofs.tla

Each `.cfg` names its run in `PROJECT.json`, which also gives the module to run it
with, the mutants, the source lines of every definition (`map`), the hazards and
the theorems.
