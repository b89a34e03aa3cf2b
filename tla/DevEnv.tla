------------------------------- MODULE DevEnv -------------------------------
(***************************************************************************)
(* hopboxd's workspaces: a box (BoxFleet) decorated with a persistent home *)
(* and gateway endpoints.  The reconciler's hooks, the API, the agent sink *)
(* and the metadata API all read a row and later write it back whole, with *)
(* no transaction around the two.  The gateway's route table is in memory; *)
(* rows, homes and instances outlive the daemon.  Workspaces created by    *)
(* the API are persistent, so the ephemeral branches of the reconciler are *)
(* not here; nor is the Suspended phase, which a guest can ask for (auto-  *)
(* suspend) and in which no hook runs and no home, route or endpoint       *)
(* changes: BoxFleet has it.  All Ids stand for workspaces of one name.    *)
(***************************************************************************)
EXTENDS Naturals, FiniteSets

CONSTANTS
    Ids,            \* workspace ids, each created at most once
    Ingress,        \* names of the ports a workspace asks to expose
    QueueCap,       \* capacity of the reconciler's event channel
    MaxDeletes,     \* bound: deletes by the owner
    MaxMeta,        \* bound: calls of the metadata API
    MaxFaults,      \* bound: provider failures, dead instances, lost agents
    MaxRestarts     \* bound: restarts of the daemon

ASSUME DevEnvAssumption ==
    /\ IsFiniteSet(Ids) /\ IsFiniteSet(Ingress)
    /\ {QueueCap, MaxDeletes, MaxMeta, MaxFaults, MaxRestarts} \subseteq Nat

VARIABLES
    rows,       \* store: id -> row
    routes,     \* subdomain.Provider.byHost, the host being <<id, name>>
    block,      \* this deployment's homes are block images (microVMs), not directories
    homes,      \* id -> what lies where its home is
    inst,       \* id -> the instance as Status sees it
    up,         \* ids whose agent is connected to the hub
    woken,      \* wake-ups in the reconciler's channel
    rec,        \* the reconciler's step in flight
    wr,         \* the other writers: the row each has read
    used,       \* ids that were created
    lost,       \* routes whose endpoint a whole-row write dropped (history)
    budget      \* what is left of the bounds

vars == <<block, rows, routes, homes, inst, up, woken, rec, wr, used, lost, budget>>

Phases == {"Pending", "Provisioning", "Running", "Destroying", "Failed"}
Row == [phase: Phases, agent: BOOLEAN, ref: BOOLEAN, home: BOOLEAN, eps: SUBSET Ingress]
\* What the reconciler holds of a row: a box, without the decorations.
Bare == {r \in Row : ~r.home /\ r.eps = {}}
NoRow == [phase |-> "none"]
Fresh == [phase |-> "Pending", agent |-> FALSE, ref |-> FALSE, home |-> FALSE, eps |-> {}]

Writers == {"api", "sink", "meta"}
Nobody == "nobody"

RecState ==
    [pc: {"idle", "home", "mkfs", "homeGet", "homePut", "compute", "putGet", "putPut",
          "exposeGet", "exposePut", "unexpose", "destroy", "delete"},
     id: Ids \cup {Nobody}, b: Bare \cup {NoRow}, w: Row \cup {NoRow}]
WriterState == [id: Ids \cup {Nobody}, w: Row \cup {NoRow}]
Budget == [deletes: 0 .. MaxDeletes, meta: 0 .. MaxMeta,
           faults: 0 .. MaxFaults, restarts: 0 .. MaxRestarts]

TypeOK ==
    /\ rows \in [Ids -> Row \cup {NoRow}]
    /\ routes \subseteq Ids \X Ingress /\ lost \subseteq Ids \X Ingress
    /\ block \in BOOLEAN
    /\ homes \in [Ids -> {"none", "blank", "ready"}]
    /\ inst \in [Ids -> {"none", "up", "dead"}]
    /\ up \subseteq Ids /\ woken \subseteq Ids /\ used \subseteq Ids
    /\ rec \in RecState /\ wr \in [Writers -> WriterState] /\ budget \in Budget

IdleRec == [pc |-> "idle", id |-> Nobody, b |-> NoRow, w |-> NoRow]
IdleWriter == [id |-> Nobody, w |-> NoRow]

Init ==
    /\ rows = [i \in Ids |-> NoRow]
    /\ routes = {} /\ lost = {} /\ up = {} /\ woken = {} /\ used = {}
    /\ block \in BOOLEAN
    /\ homes = [i \in Ids |-> "none"]
    /\ inst = [i \in Ids |-> "none"]
    /\ rec = IdleRec
    /\ wr = [k \in Writers |-> IdleWriter]
    /\ budget = [deletes |-> MaxDeletes, meta |-> MaxMeta,
                 faults |-> MaxFaults, restarts |-> MaxRestarts]

Exists(i) == rows[i] # NoRow

-----------------------------------------------------------------------------
(***************************************************************************)
(* The store.                                                              *)
(***************************************************************************)
\* Mutant of UpdateWorkspace: an upsert.
UpsertWorkspace(i, w) ==
    /\ rows' = [rows EXCEPT ![i] = w]
    /\ lost' = lost \cup {<<i, n>> : n \in {m \in Ingress : Exists(i) /\ m \in rows[i].eps \ w.eps}}

\* UpdateWorkspace writes every column; a row that is gone is an error.
UpdateWorkspace(i, w) ==
    IF Exists(i)
    THEN /\ rows' = [rows EXCEPT ![i] = w]
         /\ lost' = lost \cup {<<i, n>> : n \in rows[i].eps \ w.eps}
    ELSE UNCHANGED <<rows, lost>>

\* events.Publish and Reconciler.Trigger: a wake-up is dropped when the channel is
\* full, and may be lost on NATS.
Publish(i) ==
    woken' \in {woken} \cup (IF Cardinality(woken) < QueueCap THEN {woken \cup {i}} ELSE {})

(***************************************************************************)
(* The API.                                                                *)
(***************************************************************************)
\* CreateWorkspace: UNIQUE(tenant_id, name) refuses a second row of this name.
CreateWorkspace(i) ==
    /\ i \notin used /\ \A j \in Ids : ~Exists(j)
    /\ rows' = [rows EXCEPT ![i] = Fresh]
    /\ used' = used \cup {i}
    /\ UNCHANGED <<block, routes, homes, inst, up, woken, rec, wr, lost, budget>>

\* A writer reads its row ...
Reads(k, i) ==
    /\ wr[k] = IdleWriter /\ Exists(i)
    /\ wr' = [wr EXCEPT ![k] = [id |-> i, w |-> rows[i]]]

\* ... and writes it back whole.
Writes(k, w) ==
    /\ wr[k] # IdleWriter
    /\ UpdateWorkspace(wr[k].id, w)
    /\ wr' = [wr EXCEPT ![k] = IdleWriter]

\* DeleteWorkspace resolves the row ...
DeleteResolves(i) ==
    /\ budget.deletes > 0
    /\ Reads("api", i)
    /\ budget' = [budget EXCEPT !.deletes = @ - 1]
    /\ UNCHANGED <<block, rows, routes, homes, inst, up, woken, rec, used, lost>>

\* ... and flags it Destroying, from whatever phase.
DeleteFlags ==
    /\ Writes("api", [wr["api"].w EXCEPT !.phase = "Destroying"])
    /\ UNCHANGED <<block, routes, homes, inst, up, woken, rec, used, budget>>

(***************************************************************************)
(* The agent and its sink, the metadata API.                               *)
(***************************************************************************)
AgentConnects(i) ==
    /\ inst[i] = "up" /\ i \notin up /\ wr["sink"] = IdleWriter
    /\ up' = up \cup {i}
    /\ IF Exists(i) THEN Reads("sink", i) ELSE UNCHANGED wr
    /\ UNCHANGED <<block, rows, routes, homes, inst, woken, rec, used, lost, budget>>

\* The session ends, with its instance or without.
AgentLeaves(i) ==
    /\ i \in up /\ wr["sink"] = IdleWriter
    /\ inst[i] # "up" \/ budget.faults > 0
    /\ up' = up \ {i}
    /\ budget' = IF inst[i] = "up" THEN [budget EXCEPT !.faults = @ - 1] ELSE budget
    /\ IF Exists(i) THEN Reads("sink", i) ELSE UNCHANGED wr
    /\ UNCHANGED <<block, rows, routes, homes, inst, woken, rec, used, lost>>

\* storeSink writes the row it read with the new flag, and wakes the reconciler.
SinkWrites ==
    LET i == wr["sink"].id IN
    /\ Writes("sink", [wr["sink"].w EXCEPT !.agent = i \in up])
    /\ IF Exists(i) THEN Publish(i) ELSE UNCHANGED woken
    /\ UNCHANGED <<block, routes, homes, inst, up, rec, used, budget>>

\* A box calls the metadata API, which tunes lifetime fields of its row.
MetaReads(i) ==
    /\ inst[i] = "up" /\ budget.meta > 0
    /\ Reads("meta", i)
    /\ budget' = [budget EXCEPT !.meta = @ - 1]
    /\ UNCHANGED <<block, rows, routes, homes, inst, up, woken, rec, used, lost>>

MetaWrites ==
    /\ Writes("meta", wr["meta"].w)
    /\ UNCHANGED <<block, routes, homes, inst, up, woken, rec, used, budget>>

InstanceDies(i) ==
    /\ inst[i] = "up" /\ budget.faults > 0
    /\ inst' = [inst EXCEPT ![i] = "dead"]
    /\ budget' = [budget EXCEPT !.faults = @ - 1]
    /\ UNCHANGED <<block, rows, routes, homes, up, woken, rec, wr, used, lost>>

-----------------------------------------------------------------------------
(***************************************************************************)
(* The reconciler: one ReconcileOne at a time, of an id that was woken or, *)
(* at a tick, of any row.                                                  *)
(***************************************************************************)
At(pc) == rec.pc = pc
Goto(pc) == [rec EXCEPT !.pc = pc]

\* The box columns of a row: what the reconciler's Get returns.
BoxOf(row) == [row EXCEPT !.home = FALSE, !.eps = {}]

\* Where ReconcileOne goes with row i; a row with nothing to do leaves it idle.
Dispatch(i) ==
    LET b == rows[i]
        Step(pc, row) == [pc |-> pc, id |-> i, b |-> BoxOf(row), w |-> NoRow]
        Dead == inst[i] # "up" IN
    CASE b.phase = "Pending" -> Step("home", b)
      [] b.phase = "Provisioning" /\ b.agent -> Step("putGet", [b EXCEPT !.phase = "Running"])
      [] b.phase = "Provisioning" /\ ~b.agent /\ b.ref /\ Dead ->
            Step("putGet", [b EXCEPT !.phase = "Failed"])
      [] b.phase = "Running" /\ b.agent -> Step("exposeGet", b)
      [] b.phase = "Running" /\ ~b.agent /\ (~b.ref \/ Dead) -> Step("home", b)
      [] b.phase = "Destroying" -> Step("unexpose", b)
      [] OTHER -> IdleRec

Sweep(i) ==
    /\ At("idle") /\ Exists(i)
    /\ rec' = Dispatch(i)
    /\ UNCHANGED <<block, rows, routes, homes, inst, up, woken, wr, used, lost, budget>>

Event(i) ==
    /\ At("idle") /\ i \in woken
    /\ woken' = woken \ {i}
    /\ rec' = IF Exists(i) THEN Dispatch(i) ELSE IdleRec
    /\ UNCHANGED <<block, rows, routes, homes, inst, up, wr, used, lost, budget>>

Fault == budget.faults > 0 /\ budget' = [budget EXCEPT !.faults = @ - 1]

\* fail: the row as it was read, Failed.
Fails == rec' = [rec EXCEPT !.pc = "putGet", !.b = [@ EXCEPT !.phase = "Failed"]]

(***************************************************************************)
(* provision, with PreProvision and EnsureHome.                            *)
(***************************************************************************)
\* Mutant of EnsureBlock: the image is made anew for every provision.
EnsureBlockAnew ==
    /\ At("home") /\ block
    /\ homes' = [homes EXCEPT ![rec.id] = "blank"]
    /\ rec' = Goto("mkfs")
    /\ UNCHANGED <<block, rows, routes, inst, up, woken, wr, used, lost, budget>>

\* localfs images, for microVMs: created once, empty at first; one that exists is
\* taken as it is.  An error of the file system makes nothing.
EnsureBlock ==
    /\ At("home") /\ block
    /\ \/ /\ homes[rec.id] = "none"
          /\ homes' = [homes EXCEPT ![rec.id] = "blank"]
          /\ rec' = Goto("mkfs") /\ UNCHANGED budget
       \/ /\ homes[rec.id] # "none"
          /\ rec' = Goto("homeGet") /\ UNCHANGED <<homes, budget>>
       \/ Fault /\ Fails /\ UNCHANGED homes
    /\ UNCHANGED <<block, rows, routes, inst, up, woken, wr, used, lost>>

\* localfs directories and Kubernetes claims: got or created, in one step.
EnsureHome ==
    /\ At("home") /\ ~block
    /\ \/ /\ homes' = [homes EXCEPT ![rec.id] = "ready"]
          /\ rec' = Goto("homeGet") /\ UNCHANGED budget
       \/ Fault /\ Fails /\ UNCHANGED homes
    /\ UNCHANGED <<block, rows, routes, inst, up, woken, wr, used, lost>>

\* Mutant of Mkfs: the image of a failed mkfs is left behind.
MkfsLeavesImage ==
    /\ At("mkfs")
    /\ \/ /\ homes' = [homes EXCEPT ![rec.id] = "ready"]
          /\ rec' = Goto("homeGet") /\ UNCHANGED budget
       \/ Fault /\ rec' = IdleRec /\ UNCHANGED homes
    /\ UNCHANGED <<block, rows, routes, inst, up, woken, wr, used, lost>>

\* It is sized and mkfs.ext4 formats it, or it is removed again.
Mkfs ==
    /\ At("mkfs")
    /\ \/ /\ homes' = [homes EXCEPT ![rec.id] = "ready"]
          /\ rec' = Goto("homeGet") /\ UNCHANGED budget
       \/ /\ homes' = [homes EXCEPT ![rec.id] = "none"]
          /\ Fault /\ Fails
    /\ UNCHANGED <<block, rows, routes, inst, up, woken, wr, used, lost>>

\* PreProvision reads the row and writes it with its home; a row that is gone ends
\* the provision.
PreProvisionGet ==
    /\ At("homeGet")
    /\ rec' = IF Exists(rec.id) THEN [rec EXCEPT !.pc = "homePut", !.w = rows[rec.id]] ELSE IdleRec
    /\ UNCHANGED <<block, rows, routes, homes, inst, up, woken, wr, used, lost, budget>>

PreProvisionPut ==
    /\ At("homePut")
    /\ UpdateWorkspace(rec.id, [rec.w EXCEPT !.home = TRUE])
    /\ rec' = IF Exists(rec.id) THEN [rec EXCEPT !.pc = "compute", !.w = NoRow] ELSE IdleRec
    /\ UNCHANGED <<block, routes, homes, inst, up, woken, wr, used, budget>>

\* compute.Provision deletes what holds the name and creates; a pod that is still
\* terminating makes the create fail.
ComputeProvision ==
    /\ At("compute")
    /\ \/ /\ inst' = [inst EXCEPT ![rec.id] = "up"]
          /\ rec' = [rec EXCEPT !.pc = "putGet",
                                !.b = [@ EXCEPT !.phase = "Provisioning", !.ref = TRUE, !.agent = FALSE]]
          /\ UNCHANGED budget
       \/ Fault /\ Fails /\ inst' \in {inst, [inst EXCEPT ![rec.id] = "none"]}
    /\ UNCHANGED <<block, rows, routes, homes, up, woken, wr, used, lost>>

\* Adapter.Update: the box columns of the reconciler over the decorations of the row.
AdapterGet ==
    /\ At("putGet")
    /\ rec' = IF Exists(rec.id) THEN [rec EXCEPT !.pc = "putPut", !.w = rows[rec.id]] ELSE IdleRec
    /\ UNCHANGED <<block, rows, routes, homes, inst, up, woken, wr, used, lost, budget>>

AdapterPut ==
    /\ At("putPut")
    /\ UpdateWorkspace(rec.id, [rec.b EXCEPT !.home = rec.w.home, !.eps = rec.w.eps])
    /\ rec' = IdleRec
    /\ UNCHANGED <<block, routes, homes, inst, up, woken, wr, used, budget>>

(***************************************************************************)
(* PostRunning.                                                            *)
(***************************************************************************)
\* Mutant of ExposeMissing: the names that have no route yet.
ExposeUnrouted ==
    LET i == rec.id IN
    /\ At("exposeGet")
    /\ IF Exists(i) /\ \E n \in Ingress : <<i, n>> \notin routes
       THEN /\ routes' = routes \cup {<<i, n>> : n \in Ingress}
            /\ rec' = [rec EXCEPT !.pc = "exposePut", !.b = NoRow, !.w = rows[i]]
       ELSE rec' = IdleRec /\ UNCHANGED routes
    /\ UNCHANGED <<block, rows, homes, inst, up, woken, wr, used, lost, budget>>

\* It reads the row and exposes the names that have no endpoint in it.
ExposeMissing ==
    LET i == rec.id IN
    /\ At("exposeGet")
    /\ IF Exists(i) /\ rows[i].eps # Ingress
       THEN /\ routes' = routes \cup {<<i, n>> : n \in Ingress \ rows[i].eps}
            /\ rec' = [rec EXCEPT !.pc = "exposePut", !.b = NoRow, !.w = rows[i]]
       ELSE rec' = IdleRec /\ UNCHANGED routes
    /\ UNCHANGED <<block, rows, homes, inst, up, woken, wr, used, lost, budget>>

PersistEndpoints ==
    /\ At("exposePut")
    /\ UpdateWorkspace(rec.id, [rec.w EXCEPT !.eps = Ingress])
    /\ rec' = IdleRec
    /\ UNCHANGED <<block, routes, homes, inst, up, woken, wr, used, budget>>

(***************************************************************************)
(* destroy, with PreDestroy.                                               *)
(***************************************************************************)
\* Mutant of PreDestroy: the endpoints of the reconciler's own copy.
PreDestroyStale ==
    /\ At("unexpose")
    /\ routes' = routes \ {<<rec.id, n>> : n \in rec.b.eps}
    /\ rec' = Goto("destroy")
    /\ UNCHANGED <<block, rows, homes, inst, up, woken, wr, used, lost, budget>>

\* The endpoints of the row as it is now are unexposed.
PreDestroy ==
    LET i == rec.id IN
    /\ At("unexpose")
    /\ routes' = IF Exists(i) THEN routes \ {<<i, n>> : n \in rows[i].eps} ELSE routes
    /\ rec' = Goto("destroy")
    /\ UNCHANGED <<block, rows, homes, inst, up, woken, wr, used, lost, budget>>

\* compute.Destroy; an error leaves the row for the next tick.
ComputeDestroy ==
    /\ At("destroy")
    /\ \/ ~rec.b.ref /\ rec' = [rec EXCEPT !.pc = "delete", !.b = NoRow] /\ UNCHANGED <<inst, budget>>
       \/ /\ rec.b.ref
          /\ inst' = [inst EXCEPT ![rec.id] = "none"]
          /\ rec' = [rec EXCEPT !.pc = "delete", !.b = NoRow] /\ UNCHANGED budget
       \/ rec.b.ref /\ Fault /\ rec' = IdleRec /\ UNCHANGED inst
    /\ UNCHANGED <<block, rows, routes, homes, up, woken, wr, used, lost>>

DeleteRow ==
    /\ At("delete")
    /\ rows' = [rows EXCEPT ![rec.id] = NoRow]
    /\ rec' = IdleRec
    /\ UNCHANGED <<block, routes, homes, inst, up, woken, wr, used, lost, budget>>

(***************************************************************************)
(* hopboxd stops or crashes, anywhere, and starts again: everything in     *)
(* memory is gone.                                                         *)
(***************************************************************************)
Restart ==
    /\ budget.restarts > 0
    /\ budget' = [budget EXCEPT !.restarts = @ - 1]
    /\ routes' = {} /\ lost' = {} /\ up' = {} /\ woken' = {}
    /\ rec' = IdleRec
    /\ wr' = [k \in Writers |-> IdleWriter]
    /\ UNCHANGED <<block, rows, homes, inst, used>>

-----------------------------------------------------------------------------
RecStep ==
    \/ EnsureHome \/ EnsureBlock \/ Mkfs \/ PreProvisionGet \/ PreProvisionPut
    \/ ComputeProvision \/ AdapterGet \/ AdapterPut \/ ExposeMissing \/ PersistEndpoints
    \/ PreDestroy \/ ComputeDestroy \/ DeleteRow

Next ==
    \/ RecStep
    \/ \E i \in Ids : \/ Sweep(i) \/ Event(i)
                      \/ CreateWorkspace(i) \/ DeleteResolves(i) \/ MetaReads(i)
                      \/ AgentConnects(i) \/ AgentLeaves(i) \/ InstanceDies(i)
    \/ DeleteFlags \/ SinkWrites \/ MetaWrites \/ Restart

Spec == Init /\ [][Next]_vars

\* The ticker fires and the reconciler's steps and the handlers' writes complete;
\* wake-ups need not be served, agents need not connect.
Fairness ==
    /\ WF_vars(RecStep)
    /\ \A i \in Ids : SF_vars(Sweep(i))
    /\ WF_vars(DeleteFlags) /\ WF_vars(SinkWrites) /\ WF_vars(MetaWrites)

FairSpec == Spec /\ Fairness

-----------------------------------------------------------------------------
\* A home is made once: no later provision, failure, crash or new instance ever
\* replaces the formatted home of a workspace (EnsureHome, ensureBlock).
HomeKept == [][\A i \in Ids : homes[i] = "ready" => homes'[i] = "ready"]_vars

\* An instance only ever starts on a home that exists, and on an unformatted image
\* only if the daemon died between creating and formatting it.
HomeFormatted ==
    \A i \in Ids : inst[i] # "none" =>
        homes[i] = "ready" \/ (homes[i] = "blank" /\ budget.restarts < MaxRestarts)

\* A route that survives its workspace is one whose endpoint a concurrent whole-row
\* write had dropped from the row: with every interleaving of expose, persist, delete
\* and retry, PreDestroy removes all others.
DeadRoutes == \A r \in routes : Exists(r[1]) \/ r \in lost

\* No writer that still holds the row of a deleted workspace brings it back.
DeletedStays == [][\A i \in Ids : (i \in used /\ ~Exists(i)) => rows'[i] = NoRow]_vars

(***************************************************************************)
(* The inductive invariant.                                                *)
(***************************************************************************)
\* The copies of rows in flight are rows.
CopiesSound ==
    /\ rec.pc # "idle" => rec.id \in Ids
    /\ rec.pc \in {"home", "mkfs", "homeGet", "homePut", "compute", "putGet", "putPut"} => rec.b \in Bare
    /\ rec.pc \in {"homePut", "putPut", "exposePut"} => rec.w \in Row
    /\ \A k \in Writers : wr[k] # IdleWriter => wr[k].id \in Ids /\ wr[k].w \in Row

\* An image is blank while mkfs runs, or because a crash cut it short; mkfs is only
\* run for a workspace that has no instance, and every instance has a home.
HomesSound ==
    /\ \A i \in Ids : homes[i] = "blank" => (At("mkfs") /\ rec.id = i) \/ budget.restarts < MaxRestarts
    /\ At("mkfs") => homes[rec.id] = "blank" /\ inst[rec.id] = "none"
    /\ rec.pc \in {"homeGet", "homePut", "compute"} => homes[rec.id] # "none"
    /\ \A i \in Ids : inst[i] # "none" => homes[i] # "none"

\* A route has its endpoint in the row, or is about to; otherwise it was lost.  None but
\* lost ones are left when compute.Destroy is called.
RoutesSound ==
    /\ \A i \in Ids : Exists(i) => i \in used
    /\ At("exposePut") => Exists(rec.id)
    /\ \A r \in routes \ lost :
          /\ Exists(r[1])
          /\ r[2] \in rows[r[1]].eps \/ (At("exposePut") /\ rec.id = r[1])
          /\ rec.pc \in {"destroy", "delete"} => r[1] # rec.id
    /\ \A r \in routes : r[1] \in used

DevInv == TypeOK /\ CopiesSound /\ HomesSound /\ RoutesSound

Serving(i) == rows[i].phase = "Running" /\ rows[i].agent

\* A workspace that keeps running with its agent connected ends up with an endpoint
\* for every port it asked for, although wake-ups are lost and stale writes wipe
\* endpoints already recorded ("a missed persist just re-resolves").
EndpointsConverge ==
    \A i \in Ids : <>[](Exists(i) /\ Serving(i)) => <>[](Exists(i) /\ rows[i].eps = Ingress)

\* Endpoint.URL is a "reachable address": what hopbox get shows for a running
\* workspace is, in the end, routed by the gateway.
EndpointsServed ==
    \A i \in Ids : <>[](Exists(i) /\ Serving(i)) =>
        []<>(Exists(i) /\ \A n \in rows[i].eps : <<i, n>> \in routes)
=============================================================================
