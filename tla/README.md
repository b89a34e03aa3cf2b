# hopbox in TLA+

A model of hopbox: the daemons `boxd` and `hopboxd`, which turn SSH sessions and
API calls into boxes (containers, pods or microVMs), keep the boxes' rows in
SQLite, reconcile those rows with a compute provider, and take the reports of the
agents that run inside the boxes; the providers, in the daemon or behind gRPC; the
sessions that run through daemon and agent into a box; the dev-environment layer
with homes and gateway routes; and the MCP plane for AI clients.

Contents: [inventory](#1-inventory), [modules](#2-modules-and-the-code),
[runs](#3-runs), [fairness](#4-fairness), [proofs](#5-proofs),
[findings](#6-findings), [abstractions](#7-abstractions),
[not modelled](#8-not-modelled), [plan](#9-plan).

## 1. Inventory

### The parts

| part | code | state | operations |
|---|---|---|---|
| agent hub | `internal/agenthub` | `Hub.sessions`: box to yamux session, under a mutex | accept goroutine per connection: resolve token, `Register`, report up, wait, `Unregister`, report down; `Open`, `Connected` |
| box phases, lifetime, idleness | `internal/core/box/{phase,lifetime,idle,box}.go` | none (pure) | `CanTransition`, `EvalLifetime`, `RecordHeartbeat`, `IsIdle` |
| engine | `internal/core/box/engine.go` | none; writes the store | `Attach` and its release closure, `Destroy`, `List` |
| reconciler | `internal/core/box/reconcile.go` | a wake-up channel; one goroutine | `ReconcileOne` (provision, checkAlive, lifetime, suspend, resume, healIfDead, destroy), `Trigger`, the interval sweep, `Drain` |
| box store | `internal/core/boxsqlite` | the rows | `Create`, `Get`, `List`, `GetByIP`, `Update`, `Delete` |
| metadata API | `internal/core/boxmeta`, `cmd/boxd/main.go` | none; writes the store | heartbeat, keep-alive, auto-suspend, idle, status |
| boxd | `cmd/boxd` | the wiring; `resetSessions`, the token resolver, `SetAgentConnected` | start, drain, stop |
| hopboxd | `cmd/hopboxd`, `internal/api`, `internal/core/{boxstore,store,workspace}` | workspaces in its own store, adapted to box rows | create, delete, list workspaces; exec, shell, SSH |
| dev-env hooks | `internal/core/boxstore/hooks.go`, `providers/{ingress,storage}` | homes on disk; `byHost`, the routes, in memory | `PreProvision`, `PostRunning`, `PreDestroy` around the reconciler's steps |
| events bus | `internal/events` | a bounded channel, or NATS | publish, which may be dropped; the reconciler's `Trigger` |
| microVM provider | `providers/compute/microvm` | table of VMs, processes and their `cmd.Wait` goroutines, IP pool, taps, run directories | `Provision`, `Status`, `Suspend`, `Resume`, `Destroy`, `reattach` |
| docker, kubernetes providers | `providers/compute/{docker,kubernetes}` | containers, pods | `Provision`, `Status`, `Destroy` |
| plugins | `internal/plugin`, `cmd/hopbox-provider` | a gRPC connection | six ports, each in-process or remote; conversions |
| metering, build, identity | `providers/{metering,build,identity}` | the count of active workspaces | `Emit`, `Quota`, `Resolve`, `Authenticate`, `Authorize` |
| SSH front door | `internal/sshfront` | goroutines of a session | attach, wait until ready, dial the agent, relay, release |
| agent | `cmd/hopbox-agent`, `internal/agentssh`, `internal/agentproto` | the redial loop; exec, shell, SSH and forward handlers | dial, serve |
| gateway | `internal/gateway`, `cmd/hopbox-gw` | none of its own | host to workspace, directly or through a tunnel |
| MCP plane | `internal/mcp`, `cmd/hopbox-mcp` | tasks, keys, subscriptions, surfaces | `Apply`, `Delegate`, `Spawn`, `runTask`, notify, watch |
| CLI, guest tool, accounts, OIDC, SSH certificates | see `PROJECT.json` | | |

### How they interact

Almost everything meets in one place: the row of a box.  Sessions set and clear
`Attached`; the reconciler drives `Phase`, `InstanceRef`, `BootstrapToken` and
`Deadline`; the hub's sink writes `AgentConnected`; the guest, through the
metadata API, writes `Busy`, `LastActive`, `KeepAliveUntil`, `AutoSuspend`;
`Destroy` writes `Phase`; `Drain` writes `Phase` and `AgentConnected`.  None of
them uses a transaction or a version: each reads the whole row, edits its
private copy, perhaps makes a provider call that takes seconds, and writes the
whole row back.  The reconciler is level-triggered, so it will look at the row
again, but it looks at what the last writer left.

hopboxd adds the hooks: the reconciler calls them around provision and destroy, and
they read and write the same row once more, for the home and the endpoints, next to
a route table that is only in memory.  A provider may be another process; then every
call may be lost before, during or after its execution.  Sessions do not go through
the store at all: a handler in the daemon opens a stream over the agent's yamux
session and relays it with several goroutines at each end.  The MCP plane uses the
engine like a session, and pushes to its clients from whatever goroutine changed
something.

### What is hard

* *Lost updates.*  Any writer's edit may be undone by any other writer that read
  earlier.  Which facts survive this and which do not is the central question of
  the project.
* *Reports outside the lock.*  `Register` and `Unregister` are atomic; the
  reports about them are not, and the reports of two sessions of one box may be
  written in either order.
* *Crash and restart.*  The rows survive, the goroutines and the hub do not, and
  the microVM provider finds its VMs again only through their snapshots.
* *A provider that fails half way* through provision, suspend or destroy.
* *Time*: the grace countdown, the idle timeout and the keep-alive pin race with
  the sessions and the guest's requests.
* *Eventually*: wake-ups may be dropped, so that reaping and tearing down rest on
  the interval sweep.
* *Goroutines without a lock in common*: the `cmd.Wait` goroutine of a VM against
  `Resume` and `Drain`; stdout, stderr, requests and stdin of a session, each
  relayed on its own; pushes that wait for clients that wait for pushes.
* *A lost answer*: a remote provider has done what its caller thinks has failed.
* *What is persisted and what is not*: snapshots, homes and endpoints outlive the
  daemon, routes and tables do not.

### What makes each part correct

* Hub: at most one live agent per box; a live one is never displaced; a dead one
  does not hold the slot for ever.
* Store: a deleted row does not come back.
* Reconciler and engine: a box is shown as running only once its agent was
  there; a box past `Pending` has a handle and a token; a persistent box is never
  removed unasked; a detached ephemeral box is reaped; a box flagged for
  destruction is destroyed, and its instance with it; a box is not reaped or left
  suspended under an open session.
* Restart: what was there before is suspended, resumed or re-provisioned.
* microVM provider: no two VMs share an address; a VM whose process ended is
  reported gone, and only such a one; no memory image older than its disk runs.
* Sessions: output and input arrive whole and in order, the exit code last; a
  session ends when its process does; a handler ends when its client does.
* Dev environment: a home is made once and is formatted; every port asked for gets
  its endpoint; no route outlives its workspace.
* Provider plane: a provider behind gRPC behaves like one in the process; a broken
  connection never looks like a dead box; no container is left behind.
* MCP plane: a key runs one task; a box shown as working has a task that works; every
  task is reported; every client sees the present fleet in the end.

The hazards are listed with their lines in `PROJECT.json`.

## 2. Modules and the code

```
AgentSlot  <-- implements --  AgentHub        Box
                                  \           /
                                   \         /  EXTENDS
                                    BoxFleet
                                        |
                                   MCBoxFleet  (symmetry)

Instance <-- implements -- MicroVM --- MCMicroVM (symmetry)
Instance <-- uses -------- BoxFleet
SessionPath        DevEnv        MCP        ProviderPlane

AgentHub_proofs, BoxFleet_proofs, MicroVM_proofs, SessionPath_proofs,
DevEnv_proofs, MCP_proofs, ProviderPlane_proofs: theorems about the module of that name
```

The hub and the box are composed in `BoxFleet`.  Around it, each of the other
modules opens one of the boxes `BoxFleet` leaves closed: `MicroVM` the provider
behind the instance, `DevEnv` the hooks of a provision, `ProviderPlane` a provider
call, `SessionPath` what happens while a session is attached, `MCP` one more user of
the engine.  They take the rest of the daemon in reduced form.

* **`AgentSlot`**: what the hub promises: one exclusive slot per box.
* **`AgentHub`**: `internal/agenthub`.  `hub` is `Hub.sessions`, `conn[c]` an
  accept goroutine with its program counter and whether its yamux session is
  alive.  `Register`/`Refuse` are the two outcomes of `Hub.Register`,
  `Unregister`/`UnregisterReplaced` those of `Hub.Unregister`, each atomic under
  the mutex; `ToldUp` and `ToldDown` are the returns of the sink calls.
* **`Box`**: phases, the transition table, `EvalLifetime` (one predicate per
  action), idleness, and what a tick of the clock does to a row.
* **`BoxFleet`**: the store and all its writers.  `row` is the store; `copy[w]`
  is the row writer `w` has read and not yet written.  A read and a write are two
  actions, with everything else in between:

  | actions | code |
  |---|---|
  | `AttachLookup`, `AttachCreate`, `AttachReuse`, `Detach`, `Release` | `Engine.Attach` and its release closure |
  | `DestroyGet`, `DestroyPut` | `Engine.Destroy`, `DeleteWorkspace` |
  | `ReconcileGet`, then one step of `ReconcileStep`, then perhaps `Save` or `DeleteRow` | `ReconcileOne` |
  | `SinkGet`, `SinkPut`, `SinkGone` | `SetAgentConnected` |
  | `Heartbeat`, `KeepAlive`, `AutoSuspend`, `Idle`, `Status`, `GuestPut` | `boxmeta.mutate` and its handlers |
  | `DrainList`, `DrainSuspend`, `DrainSave` | `Reconciler.Drain` |
  | `Restart`, `DestroyPanics` | exit or crash at any point, then start-up: `resetSessions`, `reattach`, an empty hub |
  | `InstanceDies`, `AgentDials`, `AgentDrops`, `Tick` | the environment |

  Steps of the reconciler that make a provider call change the provider's
  instance and the copy together, and leave the `Update` to `Save`: other writers
  run between the two, which is where the code's lost updates live.

  The daemon is a parameter: `Boxd` (boxd or hopboxd), `Persistent` (the tier),
  `CanSuspend` and `StableRef` (microVM or docker provider).

* **`Instance`**: the seam between the reconciler and the microVM provider: what
  `Status` says and whether a snapshot is on disk.  `MicroVM` implements it, and
  `BoxFleet` does to its VMs only what it allows.
* **`MicroVM`**: `providers/compute/microvm`.  `vms` is `Provider.vms`, `used` the
  octets handed out, `taps` the devices on the host, `proc` the firecracker
  processes with their `Wait` goroutines, `sock` who answers on a box's socket,
  `disk` a run directory, `call[k]` the call in flight of the reconciler or of
  `Drain`.  `Provision` and `Suspend` are cut where another goroutine can come in:
  after the address is taken, between pause, snapshot and kill.  A `vm` struct that
  left the table stays alive for whoever holds a pointer to it (`Detached`).
* **`SessionPath`**: one session of a kind chosen in `Init`.  `client` is what the
  client sent, got and was told; `front` the daemon's handler and what its relay
  buffers; `wire` the yamux stream in both directions; `agent` the handler and
  the process in the box.  A shared step has one action per place in the code that
  takes it (`ExecRelays`, `ShellRelays`, `SSHRelays`, `GatewayRelays`...).
* **`DevEnv`**: hopboxd's workspaces.  `rows`, `routes`, `homes`, `inst`; `rec` is
  the reconciler's step in flight with the box it read and the workspace a hook or
  the adapter read; `wr[k]` the workspace the API, the sink or the metadata API has
  read.  `Dispatch` is `ReconcileOne`'s choice, one action per store or provider
  access follows.
* **`MCP`**: `internal/mcp` and the clients in `cmd/hopbox-mcp`.  `push[a]` are the
  connections goroutine `a` has still to notify, `wire[c]` what is on a connection,
  `notes[c]` a client's bounded channel, `fresh` the copies of a resource (in a
  handler, on the wire, on the screen, in the watch) that are up to date.  `Clients`
  follow a resource and may stop reading; `Callers` only call tools.  `Engine.Attach`
  is cut between its two statements: `LooksUp`, then `AttachCreates` (refused by the
  UNIQUE index if the name is taken by now), `AttachUpdates` or `AttachFails`.  A box of
  the engine is a name and a row that may go at any time, for whatever reason
  (`BoxGoes`): the plane is shown to be right whatever the engine makes of its boxes.
  `overlap` is a history, of the handlers and of the tasks they start: another `Apply`
  was under way.
* **`ProviderPlane`**: the ports and their two transports.  `call[s]` is a call with
  the request as asked and as received, the answer the provider gave (`truth`, `Silence`
  if it gave none) and the answer as heard (`ans`); the slot `orphan` is a handler whose
  caller gave up.  The reconciler is its client for compute and storage; the other ports
  have concurrent callers.  The conversions of `convert.go` are there field by field
  (`Cross`).  The API's delete and the reports of the agent are `wr[k]`, a row that was
  read and is written back whole later; `unheard` and `dropped` are histories: a Provision
  succeeded unheard, a write-back took a ref from the row.

Definitions whose comment starts with "Mutant of" are deliberate errors that the
runs are expected to detect; no specification uses them.

## 3. Runs

All bounds are constants of the configurations.  `MaxGen` bounds the provisioning
attempts of a box (once they are used up an attempt can only fail), `MaxRestarts`
the restarts, `MaxOpen` the sessions on a box at a time; a session attaches once, so two
of them with `MaxOpen = 1` are a session and its reconnect, or two that race to create the
box; requests are made once.  Time is not bounded: rows hold the ticks *left* or *elapsed*, capped where nothing can tell them apart.

| run | question | bounds | distinct states |
|---|---|---|---|
| `agent_hub` | mutual exclusion of agents, no displacement, `AgentSlot` implemented, a dead session gives up its slot | 2 boxes, 3 connections, fair | 5 227 |
| `fleet_ephemeral` | boxd on docker, ephemeral tier: no resurrection, a detached box leaves `Running`, a `Destroying` row is deleted | 2 sessions in a row, grace of 1 tick, fair | 679 k |
| `fleet_suspend` | boxd on microVMs, persistent tier: the guest's requests, drain and crash against auto-suspend; the inductive invariant | 1 session, 1 request, idle timeouts 1 and 2, pins up to 1 tick, 1 restart | 3.2 M |
| `fleet_delete` | hopboxd on microVMs: handles and persistence under a delete, a reconnect and a restart with reattached VMs | 2 sessions in a row, 1 delete, 1 restart | 3.7 M |
| `microvm` | addresses, Wait goroutines, `Instance` implemented | 2 boxes, 2 addresses, 3 processes, 1 box that reattach skips; restarts unbounded; the inductive invariant | 1.4 M |
| `session` | completeness and order of output, input and exit codes; sessions and handlers end | 7 kinds, 1 chunk per stream, 1 drop, fair | 123 k |
| `devenv` | homes, routes, endpoints, deleted workspaces | 1 workspace, 1 port, 1 delete, 1 metadata call, 1 fault, 1 restart, fair | 1.3 M |
| `mcp` | tasks, keys, pushes | 1 client that follows a resource, calls tools and may stop reading, 1 that applies the key, 1 key, 2 boxes, 2 tasks, channels of 1, 2 inputs (tool calls and clicks together), fair | 683 k |
| `provider_plane` | conversions, lost answers, healing, destroying | 2 callers, 2 breaks or crashes, 1 fault, 1 restart, 3 usage events, 2 containers, 1 writer of the row at a time, fair | 1.2 M |
| `stale_snapshot`, `lost_route`, `reap_under_session` | violations, see section 6 | 1 box; 1 workspace, 1 restart; 2 sessions | |

Why the bounds are enough for the interesting cases: a lost update needs one
stale writer and one victim, so one box with any two of its writers shows it; a
reconnect, with the resume or the cancelled countdown it brings, needs a second
session after the first, overlapping attachments two at once (`reap_under_session`);
a late report of a replaced agent needs two connections of a box, which `agent_hub`
and the proofs have.  Two-valued clocks let every
deadline be pending, due and absent, and the idle timeouts must first run out.  Two
boxes with two addresses exhaust the pool and collide if anything is handed out
twice; three processes are one of each box and a third that one of them had before or
will have next.  In
a session an order is wrong as soon as one chunk is overtaken.  A channel of one
message is full after one, where the code's holds 64: a jam needs a full channel,
not a large one.  A call is lost, its abandoned handler runs on, and its retry is
lost as well: two breaks.  What holds for more boxes and more writers is the
business of the proofs.

Symmetry is used only in runs without liveness properties.

The properties:

* `HubInv`, `FleetInv`, `VMInv`: inductive invariants of the proofs, on the reachable
  states.
* `OneLiveAgent`, `NoDisplacement`, `ImplementsSlot`, `DeadSlotFreed`: the hub.
* `NoResurrection`, `DeletedStays`: whoever still holds a copy of a deleted row, the
  update does not bring it back (`UPDATE ... WHERE id`; an upsert would).
* `RunningMeansAgentSeen`: no interleaving of stale writes shows a box as ready
  whose agent never registered.
* `ReadyHasHandle`: no lost update takes the instance ref or the token from a row
  past `Pending`.
* `PersistentKept`: a persistent box disappears only if asked for.
* `DetachedLeavesRunning`, `DestroyingLeaves`: what the reconciler owes.  A row flagged
  `Destroying` is deleted unless some writer holds a copy from before the flag
  (`Overtaken`); without that exception TLC finds the write that undoes the delete.
* `UniqueAddress`, `GoneIsReported`, `ImplementsInstance`: the microVM provider.
  `UniqueAddress` leaves out the addresses of boxes that a restart could not reattach:
  they are not reserved, the code hands them out again, and destroying the first owner
  once it is back frees the address under the second.
* `OutputComplete`, `ExitIsLast`, `ExitReported`, `InputComplete`: nothing is
  overtaken or lost on a connection that holds.  `HandlerReturns`, `SessionEnds`,
  `InputEnds`: nothing waits for what need not come.
* `HomeKept`, `HomeFormatted`: a home is never replaced; an unformatted one is used
  only if the daemon died inside `ensureBlock`.
* `DeadRoutes`, `EndpointsConverge`: routes and endpoints follow the row, up to what
  a whole-row write wiped.
* `AppliedOnce`, `WorkingHasTask`, `TaskSettles`, `PushedFresh`: the MCP plane.
  `AppliedOnce` excepts tasks started by an `Apply` that overlapped another (section 6).
  The last two hold unless some client is `Jammed`, which is the exact condition under
  which the code stops.
* `HeardTrue`: an answer without an error is what the provider said to that very call, up
  to the fields the messages lack; an error may hide a success.  `HealsOnlyDead`,
  `DestroyCompletes`, `DeadIsHealed`: such an error never rebuilds a healthy box and does
  not stop a destroy or a repair for good.  `OrphanIsUnheard`: what it may cost is a
  container, and the only other way to lose one is a write-back that drops its ref.

`FleetInv`, `HubInv` and `VMInv` contain the type invariants of their modules.  In the
other modules `TypeOK` says what the state is made of and is no property of a run; it
is part of the inductive invariant that is proved, or (`ProviderPlane`, `MCP`) the parts
of it that the proof needs are.

Deadlock is checked in the hub, the fleet and the microVM provider.  The other four
modules have behaviours that rightly end: a session that is over, a workspace that
was deleted, bounded inputs that are used up.

## 4. Fairness

`BoxFleet`'s `FairSpec` assumes what the daemon's scheduling gives.  The two liveness
properties of the fleet need only the part `LoopSpec` states, the reconcile loop, the
clock, the retried `Destroy` and the end of a drain, and are checked under that:

* a goroutine that holds a row runs on to its write, a goroutine of the hub runs
  on to its next blocking point, a releaser and a handler finish (WF);
* the reconcile loop runs (WF of a step once a row is read), and its interval
  sweep comes to every row again and again, although single wake-ups are dropped:
  `SF(ReconcileGet(x))`;
* a provider call that is retried on every sweep does not fail for ever
  (SF of `DestroyInstance`, `ResumeAttached`, `SuspendIdle`, `CheckAlive` and of
  provisioning, which may still end in `Failed`);
* the agent of a running instance redials (the loop of `hopbox-agent`): SF;
  yamux keepalive notices a peer that is gone;
* the clock advances; a drain ends and the daemon is started again.

Nothing is assumed of users (attach, detach), operators, guests, instance deaths,
dropped links or crashes.

The other modules:

* `SessionPath`: goroutines of the daemon and of the agent that can run do (WF of
  the two next-state relations as wholes).  Nothing is assumed of the client, the
  process or the network.
* `DevEnv`: the reconciler's steps and the handlers' writes complete (WF), the sweep
  reaches every workspace again and again (SF).  Wake-ups need not be delivered.
* `MCP`: handlers, tasks, notifying goroutines, the watch and the readers of clients
  run (WF), and the command of a delegated task ends, without which no task could.
  Nobody has to call, click or leave; a client that stopped reading need not start
  again.
* `ProviderPlane`: the ticker fires and calls of the reconciler are executed and
  answered (WF).  Nothing is assumed of the other writers of the row, of callers or of
  abandoned handlers.  Faults, breaks and crashes are finite in number by their bounds, which is what "retried until it succeeds"
  needs.
* `MicroVM` has no liveness property.

## 5. Proofs

The theorems hold for every value of the constants: any number of boxes, writers,
processes, callers, clients, chunks and restarts, with the bounds of the runs as
arbitrary numbers.  Each proof module follows the same scheme: `Init => Inv`, one lemma
per action or group of actions for `Inv /\ Next => Inv'`, then the properties as
consequences of `Inv`.  Every inductive invariant was first checked by TLC on the
reachable states: `HubInv`, `FleetInv` and `VMInv` in the runs, `DevInv`,
`ApplyInv`, `PlaneInv` and `PathInv` with the constants of their modules' runs.  To
repeat that, add them to the INVARIANTS of the configuration.

Assumptions, each evaluated by TLC in the runs:

| assumption | says | why it holds in the code |
|---|---|---|
| `NoneAssumption`, `PoolAssumption` | the null value is no box, connection, process or address; addresses and boxes are finite in number | `nil` and `""` |
| `TierAssumption`, `TimeAssumption`, `FleetAssumption`, `DevEnvAssumption` | parameters have their types; kinds of writers are disjoint | each goroutine is of one kind |
| `MCPAssumption` | clients are finite in number and do not also count as callers, channels hold something; `"mcp"` is no key | boxes of delegated tasks are named `mcp-N`, those of keys `fleet-<key>`: no clash |
| `PlaneAssumption` | callers are neither the reconciler nor an abandoned handler | they are other goroutines |
| `SessionAssumption` | the kinds are those of the code, sessions have at least one chunk | |

**The hub.**  `HubInvariant`: `HubSpec => []HubInv`.  `OneLiveAgent` alone is not
inductive: that a slot names a goroutine of that very box (`SlotBacked`) and that a
live registered session has its slot (`LiveOwnsSlot`) are needed, the first so that
`Unregister` frees only its own slot, the second so that `Register` cannot
overwrite a live session.  From it: `HubOneLiveAgent`, `HubNoDisplacement`, and
`HubImplementsSlot` (through `SlotView`, only `Register`, `Drop` of the owner and
a restart are visible, and they are `Take`, `Leave` and `LeaveAll`).

**The fleet.**  `FleetInvariant`: `Spec => []FleetInv`.  A stale write can bring
back any row in flight, so nothing that is said of the store alone is inductive.
`FleetInv` says `Sound(b)` of every row in the store, every copy in flight and every
row Drain has listed.  Soundness speaks only of five fields and of histories that
grow (`born`, `seen`, the boxes asked to be destroyed), so a sound row stays sound
however stale it gets (`SoundGrows`): writing it late is harmless *for these
properties*, and the properties the code loses are exactly those that are not of
this form (section 6).  `WriteKeeps` and `ReadKeeps` carry the argument once for
all writers; then there is one lemma per group of actions.  From it:
`FleetTypeOK`, `FleetRunningMeansAgentSeen`, `FleetReadyHasHandle`,
`FleetPersistentKept`, `FleetNoResurrection`.

**Composition.**  `FleetOneLiveAgent`: at most one live agent serves a box in the whole
daemon.  The fleet acts on the hub by the hub's own operations (`FleetStepIsHubStep`), so
`HubOneLiveAgent` carries over.
`FleetUsesInstance`, for a microVM provider (`CanSuspend` and `StableRef`): what
reconciler, Drain, deaths and restarts do to a VM are steps of `Instance`, the
specification that `VMImplementsInstance` proves of the provider.  It rests on
`FleetChanges` (every step changes at most one VM, in one of eight ways, or is a
restart) and on `VMsHaveTokens`: a VM that was started without a token would write a
snapshot that does not count as one.  TLC agreed with the constants of `fleet_delete`,
and of `fleet_suspend` with two provisioning attempts.

**The microVM provider.**  `VMInvariant`: `Spec => []VMInv`.  For `UniqueAddress` the
table is not enough: an octet may be held by a struct, by the `vm.json` of a box that
a restart will reattach, or by a call in flight that has yet to write it.  `Holds(x)`
collects them, `HeldOnce` says that two boxes never hold the same one and that a held
one is reserved, and `BootFresh` that a failing provision gives back an address nobody
else has, not even the old VM of the same box.  For `GoneIsReported`, `StructsSound`
and `SocketsSound` tie structs, processes and sockets together, so that a late
`cmd.Wait` of an old process cannot be taken for the exit of the new one.
`VMImplementsInstance` is the refinement through `StatusView` and `SnapView`.
The attempt at this proof corrected the property: an earlier form of `UniqueAddress`
left out the *boxes* a restart had skipped.  With three boxes it fails: a skipped box
comes back with an address that another box has meanwhile, is destroyed, and frees the
address for a third.  What is left out now are the *addresses* of skipped boxes.

**The dev environment.**  `DevInvariant`: `Spec => []DevInv`: copies in flight are rows
(`CopiesSound`), `mkfs` runs only for a workspace without an instance and a blank image
is in the hands of `mkfs` or left by a crash (`HomesSound`), and a route has its
endpoint in the row or in the copy about to be written, unless it was lost
(`RoutesSound`); when `compute.Destroy` is called, `PreDestroy` has left none but lost
ones.  From it `DevHomeFormatted`, `DevDeadRoutes`, `DevHomeKept`, `DevDeletedStays`.

**The MCP plane.**  `MCPInvariant`: `Spec => []ApplyInv`.  `AppliedOnce` is far from
inductive: `Apply` reads the fleet once and decides key by key, with lookups, creations,
pushes to every client and the starts of tasks in between, while rows come and go.
`KeysSound` says, of every running task that no overlapping `Apply` started, that its key
is recorded as long as its box has a row, and that an `Apply` under way has seen the box or
is done with the key, and works on a box of that name only once this one is gone; `Alone`
that an `Apply` not marked as overlapped is the only one.  The UNIQUE index is needed: it
keeps a lookup that found nothing from creating a second box of a name.  From it
`MCPAppliedOnce` and, with `HoldersSound`, `MCPWorkingHasTask`, for any number of clients,
callers, keys, boxes and tasks.

**The provider plane.**  `PlaneInvariant`: `Spec => []PlaneInv`.  `CallsSound`: a call,
abandoned or not, was received as it was sent and is heard as it was answered, up to the
fields the messages lack, or as an error.  `RowSound`: the reconciler's copy keeps the
row's ref, unless a write-back dropped one.  `ContainerKnown`: the container on the host is
the row's, or the one the provision in flight made, or there is doubt (`InDoubt`): an
answer of Provision was lost, or a ref was dropped.  From it `PlaneHeardTrue`,
`PlaneOrphanIsUnheard`, `PlaneHealsOnlyDead`.

**Sessions.**  `PathInvariant`: `Spec => []PathInv`.  `OutputSound` adds up a stream's
chunks along their way: with the client, in the relay, on the stream, in the pipe; the
sum is what the process wrote as long as the connection holds and the client listens,
and never more.  Chunks on the stream are counted as the cardinality of a set of
positions, so that no induction over the sequence is needed.  `DownOrdered` (exit code
and end of stream are behind all output) and `ToldSound` turn sums into statements about
what the client was told; `InputSound` does the same for the other direction.  An exec
whose exit frame survived a drop needs a case of its own, since its output is complete
although the connection is cut.  From it `PathOutputComplete`, `PathExitIsLast`,
`PathExitReported`, `PathInputComplete`, for every kind of session and any number of
chunks and drops.

**Only model-checked:** what holds under fairness, which TLAPS does not reach:
`DeadSlotFreed`, `DetachedLeavesRunning`, `DestroyingLeaves`, `HandlerReturns`,
`SessionEnds`, `InputEnds`, `EndpointsConverge`, `TaskSettles`, `PushedFresh`,
`DestroyCompletes`, `DeadIsHealed`.  Every invariant and every action property of the
passing runs is stated by a theorem, and both refinements are.

## 6. Findings

Each is a run that TLC refutes; `PROJECT.json` quotes the line it contradicts.

| run | what happens |
|---|---|
| `reap_under_session` | a reattach between the release's read and write is undone; the box is reaped under the open session |
| `stale_snapshot` | a box suspended once, resumed and then hit by a crash is reattached from the old snapshot; its memory is older than its disk |
| `lost_route` | after a restart of hopboxd the persisted endpoints are not exposed again; their URLs answer 404 |

Further statements the modules define and the code does not keep.  They have no run
of their own; TLC refutes each within two minutes with the constants given.

| statement | where | what happens |
|---|---|---|
| `DetachedReaped` | `BoxFleet`, `FleetEphemeral.cfg` with one session and `FairSpec` | a detach during a provision is overwritten by the provision's `Update`; the box is never reaped |
| `NoOrphan` | `BoxFleet`, hopboxd on docker with one operator | a delete that read before the provision's write drops the instance ref; the row goes, the container stays |
| `ForgottenIsHealed` | `BoxFleet`, boxd on microVMs, `MaxGen = 2`, one restart | after a crash the row still says the agent is connected, so an unknown VM is suspended, in vain, for ever |
| `DestroyingLeaves` | `BoxFleet`, hopboxd on microVMs, one delete, one restart | destroying a VM reattached from its snapshot dereferences the nil `cmd`; the daemon restarts into the same panic |
| `NoFalseSuccess` | `SessionPath`, `Kinds = {"exec"}` | the agent's connection drops, the exec loop reads EOF, `hopbox exec` ends with 0 while the command runs |
| `StderrComplete` | `SessionPath`, `Kinds = {"ssh"}` | the front door closes the channel without waiting for the stderr copy |
| `AppliedOnce` without its exception for overlapping calls | `MCP`, `MCP.cfg` | two overlapping `Apply` calls both read the fleet before either has recorded the key, and start two tasks in its box |
| `DestroyingLeaves` without its exception | `BoxFleet`, `FleetEphemeral.cfg` | a writer that read the row before the flag writes it back: the delete is undone, and the row may stay for good |
| `OrphanIsUnheard` without `dropped` | `ProviderPlane`, `ProviderPlane.cfg` | `DeleteWorkspace` resolves a pending row, the provision is heard and saved, the old row is written back as `Destroying` without a ref; destroy skips the provider and the container stays (`NoOrphan` again) |
| a call fails if and only if the provider failed it | `ProviderPlane`, `ProviderPlane.cfg` | a connection that breaks after the provider has succeeded: the caller hears an error |

`DetachedReaped`, `NoOrphan`, the exceptions of `DestroyingLeaves` and
`OrphanIsUnheard`, and `reap_under_session` have one cause, the
read-modify-write of whole rows: a version column, or updates of single columns,
would make them hold.  The same cause lets a stale write of a releaser, of a
heartbeat or of the agent's sink undo a delete (`Destroying` becomes `Running`
again).  Neighbouring gaps: `Attached` is one flag for all sessions of a box, so the
first of two overlapping sessions to end clears it for both.  A delegated task is such a
session: a box may be reaped under it (`engine_backend.go:137` says "hold the session until
the task finishes"), by a spawn or a second task of its name, or by a provision that
writes back the flag it read; and the same provision may restore the flag that the release
took down, so that the box is not reaped at all (`engine_backend.go:82`).  No step leads a
persistent box out of `Failed`, although the comment at
`internal/core/box/reconcile.go:158` says its owner may retry; a container that
exits with code 0 is `stopped`, which nothing heals; a repeated provision leaks the
address of the VM it replaces, a failed one removes the box's disk
(`microvm.go:164`), and a suspend that fails after its pause leaves the guest frozen
and reported as running (`microvm.go:302`); a task whose stream breaks is reported
as done; a pod that still terminates makes the provision of its successor fail for
good; the quota gate counts in memory, so a restart of its process, or a repeated end
event, makes it count too few.  In these cases no text of the repository promises otherwise, or the statement
fails at once, so no property is listed.

## 7. Abstractions

* Rows of one owner and one name: the case in which writers meet.  Rows of other
  owners share only the reconcile goroutine and the hub.
* `MaxTTL` is zero in every box the engine builds, so the hard cap of
  `EvalLifetime` is absent.
* Images, keys, labels, addresses, messages and log lines carry no property here
  and are left out.  The box's IP is written together with its ref, and stands for
  it in the metadata lookup.
* Refs and tokens are numbers: 0 for the empty string, otherwise the attempt that
  made them.  A docker ref names one container, a microVM ref the box.
* In `BoxFleet`, hooks (storage, ingress) before and after a provision are part of
  `ProvisionFails` as far as they can fail it; `DevEnv` has them in full.
* A drain cancels the reconciler's context, which abandons what it had not
  written.
* VMs die with the daemon (`KillMode=mixed` in `deploy/install-boxd.sh`);
  containers do not, unless the host went down.
* Suspending is idempotent, pausing a paused guest is no error; a suspend that
  fails may leave the guest paused.
* A container that exited with code 0, or was created and never started, is reported
  as stopped, which no branch of the reconciler acts on; the box phase `Stopped` is
  reached by no step.
* A restart reattaches any of the snapshots on disk (`microvm.go:122-129` skips a box
  whose image is gone or whose disk cannot be rebuilt).
* In `MicroVM`, a call of the reconciler that was under way when Drain began overlaps
  Drain's; `Destroy` is one step, so it does not overlap Drain's `Suspend` of the same VM.
* A process in a session exits together with every process that shares its output: a
  background child that keeps the pipe open keeps the session open,
  and is not modelled.
* A tap device is named after the last octet of its VM's IP, so an octet stands for
  both.  Of a disk only this is kept: was it written after the snapshot.
* Output is counted in chunks.  SSH and yamux are ordered and reliable until the
  connection drops, which loses an unread suffix.
* `DevEnv` has no ephemeral workspaces, which the API does not create, and no phase
  `Suspended`, which a guest can turn on (`POST /v1/me/auto-suspend`): no hook runs in it
  and no home, route or endpoint changes.  A home is absent, blank or ready.
* In `DevEnv`, `lost` records the endpoints a whole-row write wiped; in
  `ProviderPlane`, `unheard` that the answer of a provision was lost and `dropped` that a
  write-back replaced a newer ref; in `MCP`, `overlap`; in `MicroVM`,
  `skipped` the octets of the boxes a restart left out.  They are histories, read by properties
  and bounds only.
* Container ids are never used twice: `made` counts them, and once `MaxRefs` containers
  were made a create can only fail.
* In `ProviderPlane` a field is 0 or a value, and a behaviour is about one port, since
  the providers share nothing.  Sessions and guests do not write the row there (`BoxFleet`
  has them); the API and the agent's reports do, one of them at a time in the run
  (`MaxCopies`), any number in the proofs.
* In `MCP` the engine is reduced to names and rows: what becomes of the flag `Attached`,
  and so when a row goes, is the subject of `BoxFleet` and not seen here; a row may go at
  any time.  Clock names are one name, `"mcp"`, that may name an old box or a new one.
  A task has ended, done or failed.  `CallerTools` bounds the tools of the callers that
  follow nothing; `demo`, which shows nothing before its first push, is one of them.

## 8. Not modelled

* Byte-level work: framing of the agent protocol, PTYs, SCP/SFTP, TLS, images, the
  screens of the clients.
* Generated gRPC code; command-line parsing, configuration files and login; the
  guest tool, a command-line client of the metadata API.
* Accounts, OIDC and SSH certificates: stateless checks, mostly in libraries.
* Firewall rules of the docker and microVM providers: set once, read by nothing.
* `Stop` of a compute provider and `Delete` of a storage provider, in the providers and
  behind gRPC: no daemon calls them.
* Errors of SQLite itself (a full disk, a failing `SELECT`); statements are atomic
  and succeed, except where the code looks at "not found" or "unique".
* Lookup of a box by IP when addresses are recycled: an order of timestamps.

## 9. Plan

The modules of the plan are written, and every safety property and action property of
the passing runs is stated by a theorem.  Left:

1. **Conditional forms** of what the code does not keep (section 6), proved with the
   condition under which it does: `NoOrphan` without an operator, `MemoryMatchesDisk`
   for boxes that were never resumed, `EndpointsServed` without a restart.
2. **The step properties behind the liveness runs**: the safety part of
   `DestroyingLeaves` and `DetachedLeavesRunning` (which steps may leave a phase, and
   that each step of the sweep comes nearer), as action properties.
3. **Composition**: `DevEnv` and `ProviderPlane` take the reconciler in reduced form;
   that their reductions are what `BoxFleet` does is argued in section 7 and not
   proved.
