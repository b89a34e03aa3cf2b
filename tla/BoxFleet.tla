------------------------------ MODULE BoxFleet ------------------------------
(***************************************************************************)
(* The box fleet of one daemon: the store's rows and everything that       *)
(* writes them.  The rows of the fleet belong to one owner and one name,   *)
(* the case in which the writers meet.                                     *)
(*                                                                         *)
(* No writer uses a transaction.  Each one reads a whole row (Get, List,   *)
(* GetByIP), changes its private copy, perhaps calls the compute provider, *)
(* and writes the whole row back (Store.Update).  copy[w] is the row that  *)
(* writer w holds between the two; other writers run in between.           *)
(*                                                                         *)
(* Writers: the SSH sessions (Engine.Attach and its release), the          *)
(* reconciler goroutine, the hub's StateSink calls (one per connection),   *)
(* the metadata API's handlers, Engine.Destroy, and Drain at shutdown.     *)
(***************************************************************************)
EXTENDS Box, AgentHub, FiniteSets

CONSTANTS
    Sessions,     \* SSH sessions, each attaches at most once
    MaxOpen,      \* bound: sessions on a box at a time (any number race to create it)
    Guests,       \* metadata API requests, each is made at most once
    Operators,    \* calls of Engine.Destroy / DeleteWorkspace, likewise
    CanSuspend,   \* the compute provider is a ports.Suspender (microVM)
    Boxd,         \* the daemon is boxd; hopboxd neither drains nor resets sessions
    StableRef,    \* an instance ref names the box (microVM), not one incarnation (docker)
    MaxGen,       \* bound: provisioning attempts per box
    MaxRestarts   \* bound: daemon restarts

Rec == "reconciler"
Drainer == "drain"

Writers == Sessions \cup Conns \cup Guests \cup Operators \cup {Rec, Drainer}

ASSUME FleetAssumption ==
    /\ CanSuspend \in BOOLEAN /\ Boxd \in BOOLEAN /\ StableRef \in BOOLEAN
    /\ {MaxOpen, MaxGen, MaxRestarts} \subseteq Nat
    /\ {Rec, Drainer} \cap (Sessions \cup Conns \cup Guests \cup Operators) = {}
    /\ Sessions \cap (Conns \cup Guests \cup Operators) = {}
    /\ Conns \cap (Guests \cup Operators) = {}
    /\ Guests \cap Operators = {}

VARIABLES
    row,        \* Store: box id -> its row; phase "none" = no such row
    born,       \* ids the engine has created so far (uuids are never reused)
    calls,      \* request -> the box it was about, None = not made yet
    seen,       \* ids whose agent has registered at least once (history)
    inst,       \* the provider's instance of each box
    sess,       \* session -> [pc, id]
    rec,        \* program counter of the reconcile goroutine
    copy,       \* writer -> the row it has read and not yet written back
    drain,      \* rows Drain has listed and not yet suspended; pc of Drain
    restarts    \* daemon restarts so far

fleetVars == <<row, born, calls, seen, inst, sess, rec, copy, drain, restarts>>
vars == <<fleetVars, hubVars>>

-----------------------------------------------------------------------------
\* The boxes somebody asked to destroy.
asked == {calls[o] : o \in Operators} \ {None}

NoBox == [id |-> None, phase |-> "none", ref |-> 0, token |-> 0,
          agent |-> FALSE, attached |-> FALSE, deadline |-> Unset,
          lastActive |-> Unset, busy |-> FALSE, autoSuspend |-> FALSE,
          keep |-> 0, idle |-> 0]

Row == [id: Boxes \cup {None}, phase: Phase \cup {"none"},
        ref: Nat, token: Nat,          \* InstanceRef, BootstrapToken; 0 = ""
        agent: BOOLEAN,                \* AgentConnected
        attached: BOOLEAN, deadline: Unset..Grace,
        lastActive: Unset..IdleCap, busy: BOOLEAN, autoSuspend: BOOLEAN,
        keep: 0..KeepTicks, idle: IdleOverride \cup {0}]

NoInstance == [st |-> "none", ref |-> 0, gen |-> 0, token |-> 0, snap |-> 0, cmd |-> FALSE]

Instance == [st: {"none", "up", "paused", "suspended", "dead", "stopped"},
             ref: Nat,                 \* the ref it answers to
             gen: Nat,                 \* provisioning attempts so far
             token: Nat,               \* HOPBOX_AGENT_TOKEN in its environment
             snap: Nat,                \* the token in the snapshot on disk, 0 = no file
             cmd: BOOLEAN]             \* vm.cmd is set: this daemon started its process

SessPCs == {"new", "create", "attach", "open", "release", "closed"}
RecPCs == {"idle", "decide", "running", "save", "delete"}

TypeOK ==
    /\ HubTypeOK
    /\ row \in [Boxes -> Row]
    /\ calls \in [Guests \cup Operators -> Boxes \cup {None}]
    /\ born \subseteq Boxes /\ seen \subseteq Boxes
    /\ inst \in [Boxes -> Instance]
    /\ sess \in [Sessions -> [pc: SessPCs, id: Boxes \cup {None}]]
    /\ rec \in RecPCs
    /\ copy \in [Writers -> Row]
    /\ drain \in [on: BOOLEAN, todo: SUBSET Row]
    /\ restarts \in Nat

Init ==
    /\ HubInit
    /\ row = [x \in Boxes |-> NoBox]
    /\ born = {} /\ seen = {}
    /\ calls = [q \in Guests \cup Operators |-> None]
    /\ inst = [x \in Boxes |-> NoInstance]
    /\ sess = [s \in Sessions |-> [pc |-> "new", id |-> None]]
    /\ rec = "idle"
    /\ copy = [w \in Writers |-> NoBox]
    /\ drain = [on |-> FALSE, todo |-> {}]
    /\ restarts = 0

-----------------------------------------------------------------------------
(***************************************************************************)
(* The store (boxsqlite).  Update is UPDATE ... WHERE id: it replaces the  *)
(* whole row, and does nothing when the row is gone.                       *)
(***************************************************************************)
Exists(x) == row[x].phase # "none"

\* Mutant of Update: an upsert.
Upsert(b) == row' = [row EXCEPT ![b.id] = b]

Update(b) == row' = [row EXCEPT ![b.id] = IF Exists(b.id) THEN b ELSE @]

Holds(w) == copy[w] # NoBox
Read(w, b) == ~Holds(w) /\ copy' = [copy EXCEPT ![w] = b]
Forget(w) == copy' = [copy EXCEPT ![w] = NoBox]

(***************************************************************************)
(* Engine.                                                                 *)
(***************************************************************************)
\* build plus Attach's "Attached = true" before Create.
NewBox(x) == [NoBox EXCEPT !.id = x, !.phase = "Pending", !.attached = TRUE,
                           !.autoSuspend = Persistent]

\* byOwnerName: the List scan finds the owner's box, or finds none.
AttachLookup(s) ==
    /\ sess[s].pc = "new" /\ ~drain.on
    /\ Cardinality({t \in Sessions : sess[t].pc \notin {"new", "create", "closed"}}) < MaxOpen
    /\ \/ \E x \in Boxes :
            /\ Exists(x)
            /\ Read(s, row[x])
            /\ sess' = [sess EXCEPT ![s] = [pc |-> "attach", id |-> x]]
       \/ /\ \A x \in Boxes : ~Exists(x)
          /\ sess' = [sess EXCEPT ![s].pc = "create"]
          /\ UNCHANGED copy
    /\ UNCHANGED <<row, born, calls, seen, inst, rec, drain, restarts, hubVars>>

\* Store.Create; UNIQUE(tenant, owner, name) turns a lost race into an error.
AttachCreate(s) ==
    /\ sess[s].pc = "create"
    /\ \/ /\ \A x \in Boxes : ~Exists(x)
          /\ \E x \in Boxes \ born :
               /\ row' = [row EXCEPT ![x] = NewBox(x)]
               /\ born' = born \cup {x}
               /\ sess' = [sess EXCEPT ![s] = [pc |-> "open", id |-> x]]
       \/ /\ \E x \in Boxes : Exists(x)
          /\ sess' = [sess EXCEPT ![s].pc = "closed"]
          /\ UNCHANGED <<row, born>>
    /\ UNCHANGED <<calls, seen, inst, rec, copy, drain, restarts, hubVars>>

\* hopboxd's store reports an Update of a row that is gone, boxd's does not.
AttachReuse(s) ==
    /\ sess[s].pc = "attach"
    /\ Update([copy[s] EXCEPT !.attached = TRUE])
    /\ Forget(s)
    /\ sess' = [sess EXCEPT ![s].pc = IF Boxd \/ Exists(sess[s].id) THEN "open" ELSE "closed"]
    /\ UNCHANGED <<born, calls, seen, inst, rec, drain, restarts, hubVars>>

\* The session ends and its releaser reads the row.
Detach(s) ==
    /\ sess[s].pc = "open"
    /\ \/ /\ Exists(sess[s].id)
          /\ Read(s, row[sess[s].id])
          /\ sess' = [sess EXCEPT ![s].pc = "release"]
       \/ /\ ~Exists(sess[s].id)
          /\ sess' = [sess EXCEPT ![s].pc = "closed"]
          /\ UNCHANGED copy
    /\ UNCHANGED <<row, born, calls, seen, inst, rec, drain, restarts, hubVars>>

Release(s) ==
    /\ sess[s].pc = "release"
    /\ Update([copy[s] EXCEPT !.attached = FALSE, !.lastActive = 0])
    /\ Forget(s)
    /\ sess' = [sess EXCEPT ![s].pc = "closed"]
    /\ UNCHANGED <<born, calls, seen, inst, rec, drain, restarts, hubVars>>

\* Engine.Destroy, and the API's DeleteWorkspace: read, flag, write.
DestroyGet(o, x) ==
    /\ Exists(x)
    /\ Read(o, [row[x] EXCEPT !.phase = "Destroying"])
    /\ calls[o] = None /\ calls' = [calls EXCEPT ![o] = x]
    /\ UNCHANGED <<row, born, seen, inst, sess, rec, drain, restarts, hubVars>>

DestroyPut(o) ==
    /\ Holds(o)
    /\ Update(copy[o])
    /\ Forget(o)
    /\ UNCHANGED <<born, calls, seen, inst, sess, rec, drain, restarts, hubVars>>

-----------------------------------------------------------------------------
(***************************************************************************)
(* The compute provider (ports.Compute, ports.Suspender), as the           *)
(* reconciler meets it.                                                    *)
(***************************************************************************)
\* The ref of the instance that provisioning attempt g starts.
RefOf(g) == IF StableRef THEN 1 ELSE g

\* The ref in b names the instance the provider has for the box.
Current(b) == b.ref = inst[b.id].ref

\* Status reports InstanceGone or InstanceFailed; a container that exited with code 0
\* or was never started is InstanceStopped.
StatusDead(b) == ~Current(b) \/ inst[b.id].st \in {"none", "dead"}

\* Suspend errors on an unknown or dead instance, and is idempotent.
CanBeSuspended(b) == Current(b) /\ inst[b.id].st \in {"up", "paused", "suspended"}

SuspendInstance(x) ==
    inst' = IF inst[x].st = "suspended" THEN inst
            ELSE [inst EXCEPT ![x].st = "suspended", ![x].snap = inst[x].token]

\* Suspend errors, perhaps after it has paused the guest.
SuspendFails(b) ==
    \/ UNCHANGED inst
    \/ /\ Current(b) /\ inst[b.id].st = "up"
       /\ inst' = [inst EXCEPT ![b.id].st = "paused"]

\* Resume errors on an unknown instance or a missing snapshot, and does nothing
\* to an instance that is not suspended.
CanBeResumed(b) ==
    /\ Current(b) /\ inst[b.id].st # "none"
    /\ inst[b.id].st = "suspended" => inst[b.id].snap # 0

ResumeInstance(x) ==
    inst' = IF inst[x].st = "suspended"
            THEN [inst EXCEPT ![x].st = "up", ![x].token = inst[x].snap, ![x].cmd = TRUE]
            ELSE inst

(***************************************************************************)
(* The reconciler: one goroutine.  ReconcileOne reads a row, then one of   *)
(* the steps below acts on that copy.                                      *)
(***************************************************************************)
RecUnchanged == UNCHANGED <<born, calls, seen, sess, drain, restarts, hubVars>>

\* Nothing more to do for this box.
RecDone == rec' = "idle" /\ Forget(Rec)

\* setPhase: refuses an illegal transition, starts the idle clock of a box
\* that becomes Running, writes the row.
SetPhase(b, p) ==
    [b EXCEPT !.phase = p,
              !.lastActive = IF p = "Running" /\ @ = Unset THEN 0 ELSE @]

UpdatePhase(b, p) ==
    IF CanTransition(b.phase, p) THEN Update(SetPhase(b, p)) ELSE UNCHANGED row

\* A trigger or the interval sweep reaches box x.
ReconcileGet(x) ==
    /\ rec = "idle" /\ ~drain.on
    /\ Exists(x)
    /\ Read(Rec, row[x])
    /\ rec' = "decide"
    /\ UNCHANGED <<row, inst>> /\ RecUnchanged

\* shouldSuspend
ShouldSuspend(b) ==
    /\ Persistent /\ b.autoSuspend /\ b.agent
    /\ CanSuspend
    /\ b.keep = 0
    /\ IsIdle(b)

\* The copy has reached the code after the lifetime check of case PhaseRunning.
PastLifetime ==
    \/ rec = "running"
    \/ rec = "decide" /\ copy[Rec].phase = "Running" /\ Persistent

\* healIfDead finds the instance gone.
MustHeal(b) == ~b.agent /\ ~ShouldSuspend(b) /\ (b.ref = 0 \/ StatusDead(b))

\* The three ways into provision.
MustProvision ==
    LET b == copy[Rec] IN
    \/ rec = "decide" /\ b.phase = "Pending"
    \/ rec = "decide" /\ b.phase = "Suspended" /\ b.attached /\ ~CanSuspend
    \/ PastLifetime /\ MustHeal(b)

\* The token the instance is started with: minted once, kept across self-heals.
TokenFor(b) == IF b.token = 0 THEN inst[b.id].gen + 1 ELSE b.token

\* What provisioning attempt g leaves: a re-provision keeps the run directory,
\* with the snapshot of an earlier incarnation in it.
Provisioned(b, g) ==
    [inst EXCEPT ![b.id] = [@ EXCEPT !.st = "up", !.ref = RefOf(g), !.gen = g,
                                     !.token = TokenFor(b), !.cmd = TRUE]]

\* Mutant of Provision: writes Running without waiting for the agent.
ProvisionStraightToRunning ==
    LET b == copy[Rec]
        g == inst[b.id].gen + 1 IN
    /\ MustProvision /\ g <= MaxGen
    /\ inst' = Provisioned(b, g)
    /\ copy' = [copy EXCEPT ![Rec] =
                  [b EXCEPT !.phase = "Running", !.token = TokenFor(b), !.agent = FALSE,
                            !.ref = RefOf(g)]]
    /\ rec' = "save"
    /\ UNCHANGED row /\ RecUnchanged

\* Mutant of Provision: inst.Ref is not copied into the row.
ProvisionWithoutRef ==
    LET b == copy[Rec]
        g == inst[b.id].gen + 1 IN
    /\ MustProvision /\ g <= MaxGen
    /\ inst' = Provisioned(b, g)
    /\ copy' = [copy EXCEPT ![Rec] =
                  [b EXCEPT !.phase = "Provisioning", !.token = TokenFor(b), !.agent = FALSE]]
    /\ rec' = "save"
    /\ UNCHANGED row /\ RecUnchanged

Provision ==
    LET b == copy[Rec]
        g == inst[b.id].gen + 1 IN
    /\ MustProvision /\ g <= MaxGen
    /\ inst' = Provisioned(b, g)
    /\ copy' = [copy EXCEPT ![Rec] =
                  [b EXCEPT !.phase = "Provisioning", !.token = TokenFor(b), !.agent = FALSE,
                            !.ref = RefOf(g)]]
    /\ rec' = "save"
    /\ UNCHANGED row /\ RecUnchanged

\* A hook or compute.Provision errors: before it touched anything; or, microVM,
\* after which the run directory is removed and the old entry kept; or, docker,
\* after the old container was removed, perhaps leaving a new one unstarted.
\* Once MaxGen attempts are used up this is the only outcome left.
FailedProvision(i) ==
    {i} \cup IF StableRef THEN {[i EXCEPT !.snap = 0]}
             ELSE {[i EXCEPT !.st = s, !.ref = RefOf(i.gen + 1)] : s \in {"none", "stopped"}}

ProvisionFails ==
    LET b == copy[Rec] IN
    /\ MustProvision
    /\ \E i \in FailedProvision(inst[b.id]) :
          inst' = [inst EXCEPT ![b.id] =
                     [i EXCEPT !.gen = IF @ < MaxGen THEN @ + 1 ELSE @]]
    /\ copy' = [copy EXCEPT ![Rec] =
                  [b EXCEPT !.phase = "Failed", !.token = TokenFor(b)]]
    /\ rec' = "save"
    /\ UNCHANGED row /\ RecUnchanged

\* The Update at the end of provision, suspend, resume and fail.
Save ==
    /\ rec = "save"
    /\ Update(copy[Rec])
    /\ RecDone
    /\ UNCHANGED inst /\ RecUnchanged

\* case PhaseProvisioning
AgentArrived ==
    /\ rec = "decide" /\ copy[Rec].phase = "Provisioning"
    /\ copy[Rec].agent
    /\ UpdatePhase(copy[Rec], "Running")
    /\ RecDone
    /\ UNCHANGED inst /\ RecUnchanged

CheckAlive ==
    LET b == copy[Rec] IN
    /\ rec = "decide" /\ b.phase = "Provisioning"
    /\ ~b.agent
    /\ IF b.ref # 0 /\ StatusDead(b)
       THEN Update([b EXCEPT !.phase = "Failed"])
       ELSE UNCHANGED row
    /\ RecDone
    /\ UNCHANGED inst /\ RecUnchanged

\* case PhaseRunning, ephemeral: reconcileLifetime
InLifetime == rec = "decide" /\ copy[Rec].phase = "Running" /\ Ephemeral

ReapExpired ==
    /\ InLifetime /\ Reap(copy[Rec])
    /\ UpdatePhase(copy[Rec], "Destroying")
    /\ RecDone
    /\ UNCHANGED inst /\ RecUnchanged

\* Mutant of StartCountdown: the deadline is set in memory and not written.
StartCountdownUnsaved ==
    /\ InLifetime /\ SetDeadline(copy[Rec])
    /\ RecDone
    /\ UNCHANGED <<row, inst>> /\ RecUnchanged

StartCountdown ==
    /\ InLifetime /\ SetDeadline(copy[Rec])
    /\ Update([copy[Rec] EXCEPT !.deadline = Grace])
    /\ RecDone
    /\ UNCHANGED inst /\ RecUnchanged

CancelCountdown ==
    /\ InLifetime /\ ClearDeadline(copy[Rec])
    /\ Update([copy[Rec] EXCEPT !.deadline = Unset])
    /\ copy' = [copy EXCEPT ![Rec].deadline = Unset]
    /\ rec' = "running"
    /\ UNCHANGED inst /\ RecUnchanged

\* Nothing to change; an attached box goes on to the self-heal check, a
\* detached one is left to count down.
KeepLifetime ==
    LET b == copy[Rec] IN
    /\ InLifetime /\ ~Reap(b) /\ ~SetDeadline(b) /\ ~ClearDeadline(b)
    /\ IF b.attached THEN rec' = "running" /\ UNCHANGED copy ELSE RecDone
    /\ UNCHANGED <<row, inst>> /\ RecUnchanged

\* suspend, when compute.Suspend succeeds and when it errors
SuspendIdle ==
    LET b == copy[Rec] IN
    /\ PastLifetime /\ ShouldSuspend(b) /\ CanBeSuspended(b)
    /\ SuspendInstance(b.id)
    /\ copy' = [copy EXCEPT ![Rec] = SetPhase([b EXCEPT !.agent = FALSE], "Suspended")]
    /\ rec' = "save"
    /\ UNCHANGED row /\ RecUnchanged

SuspendErrors ==
    /\ PastLifetime /\ ShouldSuspend(copy[Rec])
    /\ SuspendFails(copy[Rec])
    /\ RecDone
    /\ UNCHANGED row /\ RecUnchanged

\* Running with its agent, or with an instance that is not dead: leave it.
Steady ==
    LET b == copy[Rec] IN
    /\ PastLifetime /\ ~ShouldSuspend(b) /\ ~MustHeal(b)
    /\ RecDone
    /\ UNCHANGED <<row, inst>> /\ RecUnchanged

\* compute.Status errors in checkAlive or healIfDead: nothing happens.
StatusErrors ==
    LET b == copy[Rec] IN
    /\ \/ rec = "decide" /\ b.phase = "Provisioning"
       \/ PastLifetime /\ ~ShouldSuspend(b)
    /\ ~b.agent /\ b.ref # 0
    /\ RecDone
    /\ UNCHANGED <<row, inst>> /\ RecUnchanged

\* case PhaseSuspended
ResumeAttached ==
    LET b == copy[Rec] IN
    /\ rec = "decide" /\ b.phase = "Suspended" /\ b.attached /\ CanSuspend
    /\ CanBeResumed(b)
    /\ ResumeInstance(b.id)
    /\ copy' = [copy EXCEPT ![Rec] = SetPhase(b, "Running")]
    /\ rec' = "save"
    /\ UNCHANGED row /\ RecUnchanged

ResumeErrors ==
    LET b == copy[Rec] IN
    /\ rec = "decide" /\ b.phase = "Suspended" /\ b.attached /\ CanSuspend
    /\ RecDone
    /\ UNCHANGED <<row, inst>> /\ RecUnchanged

\* Suspended and unattached, or a persistent box that failed: nothing to do.
Rest ==
    LET b == copy[Rec] IN
    /\ rec = "decide"
    /\ \/ b.phase = "Suspended" /\ ~b.attached
       \/ b.phase \in {"Failed", "Stopped"} /\ Persistent
    /\ RecDone
    /\ UNCHANGED <<row, inst>> /\ RecUnchanged

\* Mutant of MustDestroy: a failed box is cleaned up whatever its tier.
DestroyEveryFailure(b) == b.phase \in {"Destroying", "Failed", "Stopped"}

\* destroy: compute.Destroy (skipped without a ref; an unknown ref is not an
\* error), then Store.Delete.
MustDestroy(b) ==
    \/ b.phase = "Destroying"
    \/ b.phase \in {"Failed", "Stopped"} /\ Ephemeral

\* microvm's kill reads vm.cmd.Process, and reattach leaves vm.cmd nil.
DestroyWouldPanic(b) ==
    StableRef /\ b.ref # 0 /\ Current(b) /\ inst[b.id].st # "none" /\ ~inst[b.id].cmd

DestroyInstance ==
    LET b == copy[Rec] IN
    /\ rec = "decide" /\ MustDestroy(b) /\ ~DestroyWouldPanic(b)
    /\ inst' = IF b.ref # 0 /\ Current(b)
               THEN [inst EXCEPT ![b.id].st = "none", ![b.id].snap = 0, ![b.id].cmd = FALSE]
               ELSE inst
    /\ rec' = "delete"
    /\ UNCHANGED <<row, copy>> /\ RecUnchanged

DestroyErrors ==
    /\ rec = "decide" /\ MustDestroy(copy[Rec]) /\ copy[Rec].ref # 0
    /\ ~DestroyWouldPanic(copy[Rec])
    /\ RecDone
    /\ UNCHANGED <<row, inst>> /\ RecUnchanged

\* Mutant of DeleteRow: the instance is gone and the row is left behind.
LeaveRow == rec = "delete" /\ RecDone /\ UNCHANGED <<row, inst>> /\ RecUnchanged

DeleteRow ==
    /\ rec = "delete"
    /\ row' = [row EXCEPT ![copy[Rec].id] = NoBox]
    /\ RecDone
    /\ UNCHANGED inst /\ RecUnchanged

-----------------------------------------------------------------------------
(***************************************************************************)
(* The agent hub's accept goroutines (AgentHub) and their StateSink calls: *)
(* SetAgentConnected reads the row, sets one field, writes the row.        *)
(***************************************************************************)
ConnUnchanged == UNCHANGED <<born, calls, inst, sess, rec, drain, restarts>>

\* The agent of a running instance dials in; its token resolves to the box
\* only if the store has that very token.
AgentDials(c, x) ==
    /\ inst[x].st = "up" /\ ~drain.on
    /\ Exists(x) /\ row[x].token = inst[x].token
    /\ Dial(c, x)
    /\ UNCHANGED <<row, copy, seen>> /\ ConnUnchanged

AgentRegisters(c) ==
    /\ Register(c)
    /\ seen' = seen \cup {conn[c].box}
    /\ UNCHANGED <<row, copy>> /\ ConnUnchanged

\* The hub's steps that touch no row.
HubStep(c) ==
    /\ Refuse(c) \/ Unregister(c) \/ UnregisterReplaced(c)
    /\ UNCHANGED <<row, copy, seen>> /\ ConnUnchanged

AgentDrops(c) == Drop(c) /\ UNCHANGED <<row, copy, seen>> /\ ConnUnchanged

\* The far end of the session is gone, so keepalive is bound to notice.
KeepaliveFails(c) ==
    conn[c].alive /\ inst[conn[c].box].st # "up" /\ AgentDrops(c)

\* SetAgentConnected's Get: telling = report true, leaving = report false.
SinkGet(c) ==
    /\ conn[c].pc \in {"telling", "leaving"}
    /\ Exists(conn[c].box)
    /\ Read(c, [row[conn[c].box] EXCEPT !.agent = (conn[c].pc = "telling")])
    /\ UNCHANGED <<row, seen, hubVars>> /\ ConnUnchanged

\* Get fails because the row is gone: the report is dropped.
SinkGone(c) ==
    /\ ~Holds(c)
    /\ conn[c].pc \in {"telling", "leaving"} /\ ~Exists(conn[c].box)
    /\ ToldUp(c) \/ ToldDown(c)
    /\ UNCHANGED <<row, copy, seen>> /\ ConnUnchanged

SinkPut(c) ==
    /\ Holds(c)
    /\ Update(copy[c])
    /\ Forget(c)
    /\ ToldUp(c) \/ ToldDown(c)
    /\ UNCHANGED seen /\ ConnUnchanged

(***************************************************************************)
(* The metadata API (internal/core/boxmeta): mutate resolves the calling   *)
(* box by its IP (written to the row together with the ref), applies the   *)
(* request and writes the row.                                             *)
(***************************************************************************)
GuestUnchanged == UNCHANGED <<born, seen, inst, sess, rec, drain, restarts, hubVars>>

Calling(x) == inst[x].st = "up" /\ Exists(x) /\ row[x].ref # 0

Mutate(g, x, b) ==
    /\ Calling(x)
    /\ calls[g] = None /\ calls' = [calls EXCEPT ![g] = x]
    /\ Read(g, b)
    /\ UNCHANGED row /\ GuestUnchanged

Heartbeat(g, x) == \E busy \in BOOLEAN : Mutate(g, x, RecordHeartbeat(row[x], busy))

\* Any duration may be asked for; zero unpins the box at once.
KeepAlive(g, x) == \E k \in 0..KeepTicks : Mutate(g, x, [row[x] EXCEPT !.keep = k])

AutoSuspend(g, x) == \E on \in BOOLEAN : Mutate(g, x, [row[x] EXCEPT !.autoSuspend = on])

Idle(g, x) == \E t \in IdleOverride \cup {0} : Mutate(g, x, [row[x] EXCEPT !.idle = t])

\* status sets AgentState and AgentStatus, which nothing here interprets; it
\* writes the rest of the row back all the same.
Status(g, x) == Mutate(g, x, row[x])

GuestPut(g) ==
    /\ Holds(g)
    /\ Update(copy[g])
    /\ Forget(g)
    /\ UNCHANGED calls /\ GuestUnchanged

(***************************************************************************)
(* The environment: instances die, time passes.                            *)
(***************************************************************************)
InstanceDies(x) ==
    /\ inst[x].st \in {"up", "paused"}
    /\ \E s \in IF CanSuspend THEN {"dead"} ELSE {"dead", "stopped"} :
          inst' = [inst EXCEPT ![x].st = s]
    /\ UNCHANGED <<row, born, calls, seen, sess, rec, copy, drain, restarts, hubVars>>

Tick ==
    /\ row' = [x \in Boxes |-> Age(row[x])]
    /\ copy' = [w \in Writers |-> Age(copy[w])]
    /\ drain' = [drain EXCEPT !.todo = {Age(b) : b \in @}]
    /\ UNCHANGED <<born, calls, seen, inst, sess, rec, restarts, hubVars>>

(***************************************************************************)
(* Shutdown and restart.  Drain (boxd only) lists the rows, then suspends  *)
(* each running persistent box and writes the listed row back.  The        *)
(* reconciler's context is cancelled when Drain starts, which abandons     *)
(* whatever it had not yet written.                                        *)
(***************************************************************************)
DrainList ==
    /\ Boxd /\ ~drain.on /\ restarts < MaxRestarts
    /\ drain' = [on |-> TRUE,
                 todo |-> {row[x] : x \in {y \in Boxes :
                             CanSuspend /\ Persistent /\ row[y].phase = "Running"}}]
    /\ RecDone
    /\ UNCHANGED <<row, born, calls, seen, inst, sess, restarts, hubVars>>

DrainSuspend(b) ==
    /\ ~Holds(Drainer)
    /\ drain' = [drain EXCEPT !.todo = @ \ {b}]
    /\ \/ /\ CanBeSuspended(b)
          /\ SuspendInstance(b.id)
          /\ copy' = [copy EXCEPT ![Drainer] = SetPhase([b EXCEPT !.agent = FALSE], "Suspended")]
       \/ SuspendFails(b) /\ UNCHANGED copy      \* logged, next box
    /\ UNCHANGED <<row, born, calls, seen, sess, rec, restarts, hubVars>>

DrainSave ==
    /\ Holds(Drainer)
    /\ Update(copy[Drainer])
    /\ Forget(Drainer)
    /\ UNCHANGED <<born, calls, seen, inst, sess, rec, drain, restarts, hubVars>>

\* What the provider makes of instance i when the daemon starts: reattach finds
\* a microVM with a snapshot on disk and calls it suspended, unless it cannot rebuild
\* its disk, and knows no other; containers outlive the daemon, unless the host went
\* down with it.
AfterRestart(i, back) ==
    IF CanSuspend
    THEN IF i.snap # 0 /\ back
         THEN [i EXCEPT !.st = "suspended", !.token = i.snap, !.cmd = FALSE]
         ELSE [i EXCEPT !.st = "none", !.cmd = FALSE]
    ELSE IF i.st = "up" /\ ~back THEN [i EXCEPT !.st = "dead"] ELSE i

\* The daemon starts again: every goroutine is gone, no session survives,
\* resetSessions clears Attached (boxd only).
StartAgain ==
    /\ row' = [x \in Boxes |-> IF Boxd THEN [row[x] EXCEPT !.attached = FALSE] ELSE row[x]]
    /\ \E back \in [Boxes -> BOOLEAN] :
          inst' = [x \in Boxes |-> AfterRestart(inst[x], back[x])]
    /\ sess' = [s \in Sessions |->
                  [sess[s] EXCEPT !.pc = IF @ = "new" THEN @ ELSE "closed"]]
    /\ rec' = "idle"
    /\ copy' = [w \in Writers |-> NoBox]
    /\ drain' = [on |-> FALSE, todo |-> {}]
    /\ HubRestart
    /\ UNCHANGED <<born, calls, seen>>

\* The daemon stops, at the end of Drain or by a crash at any point.
Restart ==
    /\ restarts < MaxRestarts
    /\ restarts' = restarts + 1
    /\ StartAgain

\* The reconcile goroutine panics, and takes the daemon with it.
DestroyPanics ==
    /\ rec = "decide" /\ MustDestroy(copy[Rec]) /\ DestroyWouldPanic(copy[Rec])
    /\ StartAgain
    /\ UNCHANGED restarts

-----------------------------------------------------------------------------
Session(s) ==
    \/ AttachLookup(s) \/ AttachCreate(s) \/ AttachReuse(s)
    \/ Detach(s) \/ Release(s)

ReconcileStep ==
    \/ Provision \/ ProvisionFails \/ Save
    \/ AgentArrived \/ CheckAlive
    \/ ReapExpired \/ StartCountdown \/ CancelCountdown \/ KeepLifetime
    \/ SuspendIdle \/ SuspendErrors \/ Steady \/ StatusErrors
    \/ ResumeAttached \/ ResumeErrors \/ Rest
    \/ DestroyInstance \/ DestroyErrors \/ DeleteRow

AgentConn(c) ==
    \/ \E x \in Boxes : AgentDials(c, x)
    \/ AgentRegisters(c) \/ HubStep(c) \/ AgentDrops(c)
    \/ SinkGet(c) \/ SinkGone(c) \/ SinkPut(c)

Guest(g) ==
    \/ \E x \in Boxes : Heartbeat(g, x) \/ KeepAlive(g, x) \/ AutoSuspend(g, x)
                          \/ Idle(g, x) \/ Status(g, x)
    \/ GuestPut(g)

Operator(o) == (\E x \in Boxes : DestroyGet(o, x)) \/ DestroyPut(o)

Drain == DrainList \/ (\E b \in drain.todo : DrainSuspend(b)) \/ DrainSave

Next ==
    \/ \E s \in Sessions : Session(s)
    \/ \E x \in Boxes : ReconcileGet(x) \/ InstanceDies(x)
    \/ ReconcileStep
    \/ \E c \in Conns : AgentConn(c)
    \/ \E g \in Guests : Guest(g)
    \/ \E o \in Operators : Operator(o)
    \/ Tick \/ Drain \/ Restart \/ DestroyPanics

Spec == Init /\ [][Next]_vars

(***************************************************************************)
(* Fairness: what the daemon's scheduling gives.  The reconcile loop runs, *)
(* and its interval sweep reaches every row again and again (SF); Destroy, *)
(* retried for ever, succeeds in the end (SF); the clock advances; a       *)
(* shutdown that has begun ends.  The liveness properties need no more.    *)
(***************************************************************************)
LoopFairness ==
    /\ WF_vars(ReconcileStep \/ DestroyPanics)
    /\ SF_vars(DestroyInstance)
    /\ \A x \in Boxes : SF_vars(ReconcileGet(x))
    /\ WF_vars(Tick)
    /\ WF_vars(\E b \in drain.todo : DrainSuspend(b)) /\ WF_vars(DrainSave)
    /\ WF_vars(drain.on /\ Restart)

LoopSpec == Spec /\ LoopFairness

(***************************************************************************)
(* Everything else the code goes on doing: goroutines that hold a row run  *)
(* on to their write, an agent keeps redialling (hopbox-agent's loop), the *)
(* other provider calls succeed in the end too (SF).  Users, operators,    *)
(* instance deaths, dropped links and restarts are never promised.         *)
(***************************************************************************)
Fairness ==
    /\ LoopFairness
    /\ SF_vars(ResumeAttached) /\ SF_vars(SuspendIdle)
    /\ SF_vars(Provision \/ ProvisionFails) /\ SF_vars(CheckAlive)
    /\ \A s \in Sessions : WF_vars(AttachCreate(s) \/ AttachReuse(s) \/ Release(s))
    /\ \A c \in Conns :
        /\ WF_vars(\/ AgentRegisters(c) \/ HubStep(c)
                   \/ SinkGet(c) \/ SinkGone(c) \/ SinkPut(c))
        /\ WF_vars(KeepaliveFails(c))
        /\ \A x \in Boxes : SF_vars(AgentDials(c, x))
    /\ \A g \in Guests : WF_vars(GuestPut(g))
    /\ \A o \in Operators : WF_vars(DestroyPut(o))

FairSpec == Spec /\ Fairness

-----------------------------------------------------------------------------
(***************************************************************************)
(* The inductive invariant.  A stale write can bring back any row that any *)
(* writer still holds, so what is to hold of the store must hold of every  *)
(* copy in flight.                                                         *)
(***************************************************************************)
Sound(b) ==
    /\ IF b.phase = "none" THEN b.id = None ELSE b.id \in born
    /\ (b.agent \/ b.phase \in {"Running", "Suspended"}) => b.id \in seen
    /\ b.phase \in {"Provisioning", "Running", "Suspended"} => b.ref # 0 /\ b.token # 0
    /\ (Persistent /\ b.phase = "Destroying") => b.id \in asked

RowsSound == \A x \in Boxes : Sound(row[x]) /\ (Exists(x) => row[x].id = x)

CopiesSound == \A w \in Writers : Sound(copy[w])

DrainSound == \A b \in drain.todo : Sound(b) /\ b.phase = "Running"

\* The connections that report to the store belong to agents that registered.
ReportersSeen ==
    \A c \in Conns : conn[c].pc \in {"telling", "serving", "leaving"} => conn[c].box \in seen

\* A session that has got past Attach is about some box.
SessionsOnBoxes ==
    \A s \in Sessions : sess[s].pc \in {"attach", "open", "release"} => sess[s].id \in Boxes

\* What the reconciler has established about its copy.
RecShape ==
    /\ rec = "running" => copy[Rec].phase = "Running"
    /\ rec = "delete" => MustDestroy(copy[Rec])

\* A persistent box is removed from the store only if somebody asked for it:
\* neither a failure, nor a detach, nor a stale write, nor a restart deletes
\* the box its owner wants to come back to.
PersistentKept == Persistent => \A x \in born : Exists(x) \/ x \in asked

\* Every row in the store or in flight is one the store may safely hold.
FleetInv ==
    /\ TypeOK /\ HubInv
    /\ RowsSound /\ CopiesSound /\ DrainSound
    /\ ReportersSeen /\ SessionsOnBoxes /\ RecShape /\ PersistentKept

(***************************************************************************)
(* Properties.                                                             *)
(***************************************************************************)
\* A row that was deleted never comes back, whoever still holds a copy of it:
\* a late release, heartbeat, sink or reconcile write must not revive the box.
NoResurrection ==
    [][\A x \in born : ~Exists(x) => ~Exists(x)']_vars

\* A box is shown Running (or Suspended) only after its agent has registered
\* with the hub, whatever stale rows were written in between: provisioning
\* alone never makes a box ready.
RunningMeansAgentSeen ==
    \A x \in Boxes : row[x].phase \in {"Running", "Suspended"} => x \in seen

\* A box past Pending carries the handle of an instance and a token its agent
\* can present, through every lost update: the reconciler never asks the
\* provider about the instance "", and no agent is locked out for good.
ReadyHasHandle ==
    \A x \in Boxes :
        row[x].phase \in {"Provisioning", "Running", "Suspended"} =>
            row[x].ref # 0 /\ row[x].token # 0

\* What Status says of a microVM (a paused guest counts as running), and whether its
\* snapshot is on disk.
StatusView == [x \in Boxes |-> IF inst[x].st = "paused" THEN "up" ELSE inst[x].st]
SnapView == [x \in Boxes |-> inst[x].snap # 0]

VM == INSTANCE Instance WITH st <- StatusView, snap <- SnapView

\* Every VM was given a token, so a suspended one leaves a token in its snapshot.
VMsHaveTokens == \A x \in Boxes : inst[x].st # "none" => inst[x].token # 0

\* With a microVM provider, the reconciler, Drain and the restarts do to a VM only what
\* the provider lets be done: it is resumed only from a snapshot, and no step but a
\* destroy or a failed provision takes the snapshot away.
UsesInstance == VM!InstSpec

\* No writer but the reconciler is between its read and its write.
Quiet == \A w \in Writers \ {Rec} : ~Holds(w)

\* Once the other writers have come to rest, a detached ephemeral box does not
\* stay Running: the countdown is started, expires and is acted on, although
\* wake-ups may be lost and the countdown may have been overwritten before.
DetachedLeavesRunning ==
    <>[]Quiet =>
        \A x \in Boxes :
            (Ephemeral /\ row[x].phase = "Running" /\ ~row[x].attached)
                ~> ~(row[x].phase = "Running" /\ ~row[x].attached)

\* Some writer, the reconciler included, holds a copy of x from before the delete.
Overtaken(x) == \E w \in Writers : copy[w].id = x /\ copy[w].phase # "Destroying"

\* A row flagged Destroying is torn down and deleted, however often the provider's
\* Destroy fails first and whoever attaches or reports meanwhile, unless a writer that
\* read the row before the flag writes it back: such a write undoes the delete.
DestroyingLeaves ==
    \A x \in Boxes :
        (row[x].phase = "Destroying" /\ []~Overtaken(x)) ~> ~Exists(x)

(***************************************************************************)
(* What the documentation says and the code does not keep.                 *)
(***************************************************************************)
OpenOn(x) == \E s \in Sessions : sess[s].pc = "open" /\ sess[s].id = x

\* A box is not reaped under an open session: "A reconnect within that window
\* cancels the reap, so a network blip never loses your shell."
SessionKeepsBox ==
    [][\A x \in Boxes :
          (row[x].phase = "Running" /\ row'[x].phase = "Destroying" /\ x \notin asked)
              => ~OpenOn(x)]_vars

\* An ephemeral box is "reaped a short --grace after you disconnect": when
\* every session is over and every writer at rest, no row stays.
DetachedReaped ==
    <>[](Quiet /\ \A s \in Sessions : sess[s].pc = "closed")
        => <>[](\A x \in Boxes : ~Exists(x))

\* "declarative delete: flag Destroying; the reconciler tears down + removes": what
\* is removed has been torn down, and no instance outlives its row.
NoOrphan ==
    \A x \in born : ~Exists(x) => inst[x].st \in {"none", "dead", "stopped"}

\* A Running box that the provider no longer knows (the daemon restarted after
\* "a non-graceful exit") is "left for the reconciler to re-provision".
ForgottenIsHealed ==
    \A x \in Boxes :
        (Persistent /\ row[x].phase = "Running" /\ inst[x].st = "none")
            ~> (row[x].phase # "Running" \/ inst[x].st # "none")
=============================================================================
