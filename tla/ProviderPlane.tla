---------------------------- MODULE ProviderPlane ----------------------------
(***************************************************************************)
(* The provider plane: a port is served in-process or by hopbox-provider   *)
(* over gRPC.  A remote call may fail before the provider ran it, while it *)
(* runs (the handler then goes on, with its context cancelled) or after    *)
(* it; requests and answers are converted to protobuf and back.  The       *)
(* reconciler is the client of compute (docker) and storage; the providers *)
(* of the other ports share no state, so a behaviour has one port.  The    *)
(* API and the hub's sink read a row and later write it back whole, as in  *)
(* BoxFleet and DevEnv.  A field of a port type holds 0 for Go's zero      *)
(* value.                                                                  *)
(***************************************************************************)
EXTENDS Integers, FiniteSets

CONSTANTS
    Callers,        \* concurrent callers of the ports the reconciler does not use
    Limit,          \* staticquota: workspaces per principal, 0 = unlimited
    MaxEmits,       \* bound: usage events
    MaxBreaks,      \* bound: broken connections and crashes of the provider
    MaxFaults,      \* bound: provider errors and dead containers
    MaxRestarts,    \* bound: restarts of the daemon
    MaxCopies,      \* bound: copies of the row in the hands of other writers
    MaxRefs         \* bound: containers made

ASSUME PlaneAssumption ==
    /\ IsFiniteSet(Callers) /\ Callers \cap {"rec", "orphan"} = {}
    /\ {Limit, MaxEmits, MaxBreaks, MaxFaults, MaxRestarts, MaxCopies, MaxRefs} \subseteq Nat

VARIABLES
    port,       \* the port this behaviour is about; "compute" comes with "storage"
    remote,     \* the ports whose transport is remote
    call,       \* slot -> a call in flight
    row,        \* the box's row
    rec,        \* the row as ReconcileOne read it
    wr,         \* the other writers: the row each has read
    inst,       \* docker: the container that has the box's name
    made,       \* the last container id
    agent,      \* the container whose agent is connected to the hub, 0 if none
    home,       \* the home exists
    routes,     \* subdomain: byHost
    active,     \* staticquota: active workspaces of the principal
    unheard,    \* a Provision did not report success (history)
    dropped,    \* a whole-row write replaced a newer container id (history)
    budget      \* what is left of the bounds

vars == <<port, remote, call, row, rec, wr, inst, made, agent, home, routes, active, unheard, dropped, budget>>

Ports == {"compute", "storage", "ingress", "identity", "metering", "build"}
Refs == 1 .. MaxRefs
Err == [err |-> TRUE]
Silence == [said |-> FALSE]
NoCall == [op |-> "none"]
NoBox == [phase |-> "none"]
NoInst == [ref |-> 0, phase |-> "gone"]
\* The API, and the sink for an agent that comes and for one that goes.
Writers == {"api", "up", "down"}
\* One handler may be running for nobody.
Slots == Callers \cup {"rec", "orphan"}
Idle(s) == call[s] = NoCall

-----------------------------------------------------------------------------
(***************************************************************************)
(* convert.go: what is left of a value on the other side of the wire.      *)
(***************************************************************************)
\* Only these fields have a place in the message.
Cross(v, fields) == [f \in DOMAIN v |-> IF f \in fields THEN v[f] ELSE 0]

InstancePhases == {"running", "stopped", "gone", "failed"}
ToProtoPhase(p) == IF p \in InstancePhases THEN p ELSE "unspecified"
FromProtoPhase(p) == IF p = "unspecified" THEN "failed" ELSE p

ProtoMount(m) == Cross(m, {"source", "target", "readOnly"})
ProtoAgent(a) == Cross(a, {"imageRef", "binaryPath", "targetPath", "hostBinaryPath"})
ProtoProvisionRequest(r) ==
    [Cross(r, {"workspaceID", "imageRef", "memMB", "env"})
        EXCEPT !.agent = ProtoAgent(r.agent),
               !.mounts = {ProtoMount(m) : m \in r.mounts}]
ProtoInstance(i) == [Cross(i, {"ref"}) EXCEPT !.phase = FromProtoPhase(ToProtoPhase(i.phase))]
ProtoHomeRequest(h) == Cross(h, {"workspaceID", "tenantID", "owner"})
ProtoExposeRequest(r) == Cross(r, {"workspaceID", "name", "port", "scheme", "tenantID"})
ProtoEndpoint(e) == Cross(e, {"ref", "url", "name", "port"})
ProtoCredential(c) == Cross(c, {"scheme", "value"})
ProtoPrincipal(p) == Cross(p, {"id", "tenantID", "displayName", "roles"})
ProtoAccessRequest(r) == [Cross(r, {"action", "resource"}) EXCEPT !.principal = ProtoPrincipal(r.principal)]
ProtoDecision(d) == Cross(d, {"allow", "reason"})
ProtoUsageEvent(e) ==
    Cross(e, {"tenantID", "principalID", "workspaceID", "kind", "value", "unixMillis"})
ProtoPrincipalRef(r) == Cross(r, {"principalID", "tenantID"})

ProtoQuotaState(q) == Cross(q, {"allowed", "workspacesUsed", "workspacesLimit", "reason"})

ProtoBuildRequest(r) == Cross(r, {"workspaceID", "sourceRef", "provider", "options", "tenantID"})
ProtoImageRef(i) == Cross(i, {"ref", "buildRef"})
ProtoBuildStatus(b) == Cross(b, {"phase", "imageRef", "message"})

\* The request as the handler passes it on.  Status, Destroy, Unexpose and the Status
\* of a build send one field.
ServerReceives(op, req) ==
    CASE op = "Provision" -> ProtoProvisionRequest(req)
      [] op = "EnsureHome" -> ProtoHomeRequest(req)
      [] op = "Expose" -> ProtoExposeRequest(req)
      [] op = "Authenticate" -> ProtoCredential(req)
      [] op = "Authorize" -> ProtoAccessRequest(req)
      [] op = "Emit" -> ProtoUsageEvent(req)
      [] op = "Quota" -> ProtoPrincipalRef(req)
      [] op = "Resolve" -> ProtoBuildRequest(req)
      [] OTHER -> req

\* The answer as the remote client returns it: an error stays an error, and every
\* call without a result returns nil.
ClientHears(op, ans) ==
    IF ans = Err THEN Err ELSE
    CASE op \in {"Provision", "Status"} -> ProtoInstance(ans)
      [] op = "EnsureHome" -> ProtoMount(ans)
      [] op = "Expose" -> ProtoEndpoint(ans)
      [] op = "Authenticate" -> ProtoPrincipal(ans)
      [] op = "Authorize" -> ProtoDecision(ans)
      [] op = "Quota" -> ProtoQuotaState(ans)
      [] op = "Resolve" -> ProtoImageRef(ans)
      [] op = "BuildStatus" -> ProtoBuildStatus(ans)
      [] OTHER -> ans

PortOf(op) ==
    CASE op \in {"Provision", "Status", "Destroy"} -> "compute"
      [] op = "EnsureHome" -> "storage"
      [] op \in {"Expose", "Unexpose"} -> "ingress"
      [] op \in {"Authenticate", "Authorize"} -> "identity"
      [] op \in {"Emit", "Quota"} -> "metering"
      [] op \in {"Resolve", "BuildStatus"} -> "build"

IsRemote(op) == PortOf(op) \in remote

\* A call begins; at the provider it has the request that crossed.
Asks(op, req) ==
    [op |-> op, pc |-> "asked", req |-> req, ref |-> 0,
     got |-> IF IsRemote(op) THEN ServerReceives(op, req) ELSE req]

\* The provider has answered: truth is what it said, ans what the caller will hear.
Answered(h, ans) ==
    [op |-> h.op, pc |-> "answered", req |-> h.req, got |-> h.got, truth |-> ans,
     ans |-> IF IsRemote(h.op) THEN ClientHears(h.op, ans) ELSE ans]

\* Mutant of CutOff: Emit does not wait for the acknowledgement.
CutOffUnnoticed(h) ==
    [op |-> h.op, pc |-> "answered", req |-> h.req, got |-> h.got,
     truth |-> IF h.pc = "answered" THEN h.truth ELSE Silence,
     ans |-> IF h.op = "Emit" THEN [err |-> FALSE] ELSE Err]

\* The connection is gone: an error, whatever the provider has said or will do.
CutOff(h) ==
    [op |-> h.op, pc |-> "answered", req |-> h.req, got |-> h.got,
     truth |-> IF h.pc = "answered" THEN h.truth ELSE Silence, ans |-> Err]

\* Slot s gets this answer; for a handler that nobody waits for it is dropped.
Answer(s, ans) ==
    call' = [call EXCEPT ![s] = IF s = "orphan" THEN NoCall ELSE Answered(@, ans)]

\* LoadCompute and its five mirrors.
Load(cfg) ==
    CASE cfg.transport \in {"", "inproc"} -> IF cfg.inproc THEN "inproc" ELSE "error"
      [] cfg.transport = "remote" -> IF cfg.remoteAddr THEN "remote" ELSE "error"
      [] OTHER -> "error"

Configs == [transport: {"", "inproc", "remote", "other"}, remoteAddr: BOOLEAN, inproc: BOOLEAN]

Loaded(p) == IF p = "compute" THEN {"compute", "storage"} ELSE {p}

-----------------------------------------------------------------------------
Rows == [phase: {"Pending", "Provisioning", "Running", "Destroying", "Failed"},
         ref: 0 .. MaxRefs, agent: BOOLEAN]
Containers == [ref: Refs, phase: {"running", "stopped", "failed"}] \cup {NoInst}

TypeOK ==
    /\ port \in Ports \ {"storage"} /\ remote \subseteq Loaded(port)
    /\ DOMAIN call = Slots
    /\ \A s \in Slots : call[s] # NoCall => call[s].pc \in 
         {"asked", "staged", "networked", "removed", "pulled", "created", "answered"}
    /\ {row, rec} \subseteq Rows \cup {NoBox} /\ wr \in [Writers -> Rows \cup {NoBox}]
    /\ inst \in Containers
    /\ {made, agent} \subseteq 0 .. MaxRefs
    /\ {home, unheard, dropped} \subseteq BOOLEAN
    /\ routes \subseteq {0, 1} \X {0, 1}
    /\ active \in 0 .. MaxEmits
    /\ budget.emits \in 0 .. MaxEmits /\ budget.breaks \in 0 .. MaxBreaks

Init ==
    /\ port \in Ports \ {"storage"}
    /\ \E cfg \in [Loaded(port) -> Configs] :
          /\ \A p \in Loaded(port) : Load(cfg[p]) # "error"
          /\ remote = {p \in Loaded(port) : Load(cfg[p]) = "remote"}
    /\ call = [s \in Slots |-> NoCall]
    /\ row = [phase |-> "Pending", ref |-> 0, agent |-> FALSE]
    /\ rec = NoBox /\ wr = [k \in Writers |-> NoBox]
    /\ inst = NoInst /\ made = 0 /\ agent = 0 /\ home = FALSE
    /\ routes = {} /\ active = 0
    /\ unheard = FALSE /\ dropped = FALSE
    /\ budget = [emits |-> MaxEmits, breaks |-> MaxBreaks, faults |-> MaxFaults,
                 restarts |-> MaxRestarts]

\* The provider's own call fails: by a fault or, for an abandoned handler, because
\* its context is cancelled.
Fault(s) ==
    IF s = "orphan" THEN UNCHANGED budget
    ELSE budget.faults > 0 /\ budget' = [budget EXCEPT !.faults = @ - 1]

-----------------------------------------------------------------------------
(***************************************************************************)
(* The docker provider.                                                    *)
(***************************************************************************)
Provisions(s, pc) == call[s] # NoCall /\ call[s].op = "Provision" /\ call[s].pc = pc

ProvisionUnchanged == UNCHANGED <<port, remote, row, rec, wr, made, agent, home, routes, active, unheard, dropped>>

\* Provision gets to its next step.
GoesOn(s, pc, ref) ==
    call' = [call EXCEPT ![s] = [op |-> "Provision", pc |-> pc, req |-> call[s].req, ref |-> ref,
                                 got |-> call[s].got]]

\* A step of Provision that leaves the box's container alone, and may fail.
Prepares(s, from, to) ==
    /\ Provisions(s, from)
    /\ \/ GoesOn(s, to, 0) /\ UNCHANGED budget
       \/ Fault(s) /\ Answer(s, Err)
    /\ UNCHANGED inst /\ ProvisionUnchanged

StageAgent(s) == Prepares(s, "asked", "staged")
EnsureNetwork(s) == Prepares(s, "staged", "networked")

\* The stale container of this name is removed, running or not.
RemoveStale(s) ==
    /\ Provisions(s, "networked")
    /\ \/ /\ inst' = NoInst
          /\ GoesOn(s, "removed", 0) /\ UNCHANGED budget
       \/ Fault(s) /\ Answer(s, Err) /\ UNCHANGED inst
    /\ ProvisionUnchanged

\* The image is pulled if it is missing; meanwhile the box has no container.
EnsureImage(s) == Prepares(s, "removed", "pulled")

\* ContainerCreate: the name may have been taken again meanwhile.  (The call that would
\* exceed the bound on containers fails.)
ContainerCreate(s) ==
    /\ Provisions(s, "pulled")
    /\ \/ /\ inst = NoInst /\ made < MaxRefs
          /\ inst' = [ref |-> made + 1, phase |-> "stopped"] /\ made' = made + 1
          /\ GoesOn(s, "created", made + 1) /\ UNCHANGED budget
       \/ /\ inst # NoInst \/ made = MaxRefs
          /\ Answer(s, Err) /\ UNCHANGED <<inst, made, budget>>
       \/ Fault(s) /\ Answer(s, Err) /\ UNCHANGED <<inst, made>>
    /\ UNCHANGED <<port, remote, row, rec, wr, agent, home, routes, active, unheard, dropped>>

\* ContainerStart, by id: another Provision may have removed it.
ContainerStart(s) ==
    /\ Provisions(s, "created")
    /\ \/ /\ inst.ref = call[s].ref
          /\ inst' = [inst EXCEPT !.phase = "running"]
          /\ Answer(s, [ref |-> inst.ref, phase |-> "running", ip |-> 1]) /\ UNCHANGED budget
       \/ inst.ref # call[s].ref /\ Answer(s, Err) /\ UNCHANGED <<inst, budget>>
       \/ Fault(s) /\ Answer(s, Err) /\ UNCHANGED inst
    /\ ProvisionUnchanged

Runs(s, op) == call[s] # NoCall /\ call[s].op = op /\ call[s].pc = "asked"

\* A container that was removed is gone, one that exited with 0 is stopped.
Status(s) ==
    /\ Runs(s, "Status")
    /\ LET ref == call[s].req IN
       \/ /\ Answer(s, [ref |-> ref, phase |-> IF inst.ref = ref THEN inst.phase ELSE "gone", ip |-> 0])
          /\ UNCHANGED budget
       \/ Fault(s) /\ Answer(s, Err)
    /\ UNCHANGED <<port, remote, row, rec, wr, inst, made, agent, home, routes, active, unheard, dropped>>

\* Mutant of Destroy: a running container is not removed.
DestroyWithoutForce(s) ==
    /\ Runs(s, "Destroy")
    /\ \/ /\ inst' = IF inst.ref = call[s].req /\ inst.phase # "running" THEN NoInst ELSE inst
          /\ Answer(s, [err |-> FALSE]) /\ UNCHANGED budget
       \/ Fault(s) /\ Answer(s, Err) /\ UNCHANGED inst
    /\ ProvisionUnchanged

\* Mutant of Destroy: a container that is gone is an error.
DestroyFindsNothing(s) ==
    /\ Runs(s, "Destroy")
    /\ \/ /\ inst.ref = call[s].req /\ inst' = NoInst
          /\ Answer(s, [err |-> FALSE]) /\ UNCHANGED budget
       \/ inst.ref # call[s].req /\ Answer(s, Err) /\ UNCHANGED <<inst, budget>>
    /\ ProvisionUnchanged

\* Forced; a container that is not there is no error.
Destroy(s) ==
    /\ Runs(s, "Destroy")
    /\ \/ /\ inst' = IF inst.ref = call[s].req THEN NoInst ELSE inst
          /\ Answer(s, [err |-> FALSE]) /\ UNCHANGED budget
       \/ Fault(s) /\ Answer(s, Err) /\ UNCHANGED inst
    /\ ProvisionUnchanged

\* Storage: a directory home is a mount, made if it is missing.
HomeMount == [source |-> 1, target |-> 1, readOnly |-> 0, device |-> 0]

EnsureHome(s) ==
    /\ Runs(s, "EnsureHome")
    /\ \/ /\ home' = TRUE
          /\ Answer(s, HomeMount) /\ UNCHANGED budget
       \/ Fault(s) /\ Answer(s, Err) /\ UNCHANGED home
    /\ UNCHANGED <<port, remote, row, rec, wr, inst, made, agent, routes, active, unheard, dropped>>

DockerStep(s) ==
    \/ StageAgent(s) \/ EnsureNetwork(s) \/ RemoveStale(s) \/ EnsureImage(s)
    \/ ContainerCreate(s) \/ ContainerStart(s) \/ Status(s) \/ Destroy(s) \/ EnsureHome(s)

(***************************************************************************)
(* The providers of the other ports.  Each call is one step of theirs.     *)
(***************************************************************************)
OthersUnchanged == UNCHANGED <<port, remote, row, rec, wr, inst, made, agent, home, unheard, dropped, budget>>

\* subdomain: the host is made of workspace and name.
Expose(s) ==
    /\ Runs(s, "Expose")
    /\ LET r == call[s].got
           host == <<r.workspaceID, r.name>> IN
       IF 0 \in {r.workspaceID, r.name, r.port}
       THEN Answer(s, Err) /\ UNCHANGED routes
       ELSE /\ routes' = routes \cup {host}
            /\ Answer(s, [ref |-> host, url |-> host, name |-> r.name, port |-> r.port])
    /\ UNCHANGED active /\ OthersUnchanged

Unexpose(s) ==
    /\ Runs(s, "Unexpose")
    /\ routes' = routes \ {call[s].got}
    /\ Answer(s, [err |-> FALSE])
    /\ UNCHANGED active /\ OthersUnchanged

\* static: one api key, whose principal is an owner.  Scheme 1 is api-key, value 1 the key.
Owner == [id |-> 1, tenantID |-> 1, displayName |-> 1, roles |-> {"owner"}]

Authenticate(s) ==
    /\ Runs(s, "Authenticate")
    /\ Answer(s, IF call[s].got.scheme \in {0, 1} /\ call[s].got.value = 1 THEN Owner ELSE Err)
    /\ UNCHANGED <<routes, active>> /\ OthersUnchanged

Authorize(s) ==
    /\ Runs(s, "Authorize")
    /\ Answer(s, IF call[s].got.principal.roles \cap {"system", "tenant-admin", "owner"} # {}
                 THEN [allow |-> 1, reason |-> 0] ELSE [allow |-> 0, reason |-> 1])
    /\ UNCHANGED <<routes, active>> /\ OthersUnchanged

\* staticquota counts in memory.
Emit(s) ==
    /\ Runs(s, "Emit")
    /\ active' = CASE call[s].got.kind = "workspace.start" -> active + 1
                   [] call[s].got.kind \in {"workspace.stop", "workspace.destroy"} /\ active > 0 -> active - 1
                   [] OTHER -> active
    /\ Answer(s, [err |-> FALSE])
    /\ UNCHANGED routes /\ OthersUnchanged

Quota(s) ==
    /\ Runs(s, "Quota")
    /\ LET allowed == Limit = 0 \/ active < Limit IN
       Answer(s, [allowed |-> allowed, workspacesUsed |-> active, workspacesLimit |-> Limit,
                  reason |-> IF allowed THEN 0 ELSE 1])
    /\ UNCHANGED <<routes, active>> /\ OthersUnchanged

\* prebuilt: the source is the image.
Resolve(s) ==
    /\ Runs(s, "Resolve")
    /\ Answer(s, IF call[s].got.sourceRef = 0 THEN Err
                 ELSE [ref |-> call[s].got.sourceRef, buildRef |-> 0])
    /\ UNCHANGED <<routes, active>> /\ OthersUnchanged

BuildStatus(s) ==
    /\ Runs(s, "BuildStatus")
    /\ Answer(s, [phase |-> "ready", imageRef |-> call[s].got, message |-> 0])
    /\ UNCHANGED <<routes, active>> /\ OthersUnchanged

ProviderStep(s) ==
    \/ Expose(s) \/ Unexpose(s) \/ Authenticate(s) \/ Authorize(s)
    \/ Emit(s) \/ Quota(s) \/ Resolve(s) \/ BuildStatus(s)

-----------------------------------------------------------------------------
(***************************************************************************)
(* The callers of those ports.                                             *)
(***************************************************************************)
Invoke(c, op, req) ==
    /\ PortOf(op) = port /\ Idle(c)
    /\ call' = [call EXCEPT ![c] = Asks(op, req)]
    /\ UNCHANGED <<port, remote, row, rec, wr, inst, made, agent, home, routes, active, unheard, dropped>>

Invokes(c) ==
    /\ \/ \E r \in [workspaceID: {0, 1}, name: {0, 1}, port: {0, 1}, scheme: {1}, tenantID: {1}] :
             Invoke(c, "Expose", r)
       \/ Invoke(c, "Unexpose", <<1, 1>>)
       \/ \E r \in [scheme: {0, 1, 2}, value: {0, 1, 2}] :
             Invoke(c, "Authenticate", r)
       \/ \E roles \in SUBSET {"owner", "guest"} :
             Invoke(c, "Authorize", [principal |-> [Owner EXCEPT !.roles = roles],
                                     action |-> 1, resource |-> 1])
       \/ Invoke(c, "Quota", [principalID |-> 1, tenantID |-> 1])
       \/ \E src \in {0, 1} :
             Invoke(c, "Resolve", [workspaceID |-> 1, sourceRef |-> src, provider |-> 1,
                                   options |-> 1, tenantID |-> 1])
       \/ Invoke(c, "BuildStatus", 1)
    /\ UNCHANGED budget

InvokesEmit(c) ==
    /\ budget.emits > 0
    /\ \E kind \in {"workspace.start", "workspace.stop", "workspace.destroy", "cpu_seconds"} :
          Invoke(c, "Emit", [tenantID |-> 1, principalID |-> 1, workspaceID |-> 1, kind |-> kind,
                             value |-> 1, unixMillis |-> 1])
    /\ budget' = [budget EXCEPT !.emits = @ - 1]

Hears(c) ==
    /\ ~Idle(c) /\ call[c].pc = "answered"
    /\ call' = [call EXCEPT ![c] = NoCall]
    /\ UNCHANGED <<routes, active>> /\ OthersUnchanged

-----------------------------------------------------------------------------
(***************************************************************************)
(* The reconciler, as the client of compute and storage.                   *)
(***************************************************************************)
AskedHome == [workspaceID |-> 1, tenantID |-> 1, owner |-> 1]
AskedBox(m) ==
    [workspaceID |-> 1, imageRef |-> 1, memMB |-> 1, cpuMillis |-> 1, guestBin |-> 1, env |-> 1,
     agent |-> [imageRef |-> 1, binaryPath |-> 1, targetPath |-> 1, hostBinaryPath |-> 0],
     mounts |-> {m}]

RecAsks(b, op, req) ==
    /\ rec' = b
    /\ call' = [call EXCEPT !["rec"] = Asks(op, req)]
    /\ UNCHANGED row

RecWrites(b) ==
    /\ row' = b /\ rec' = NoBox
    /\ call' = [call EXCEPT !["rec"] = NoCall]

ReconcileOne ==
    /\ port = "compute" /\ row # NoBox /\ rec = NoBox
    /\ \/ row.phase = "Pending" /\ RecAsks(row, "EnsureHome", AskedHome)
       \/ row.phase = "Provisioning" /\ row.agent /\ RecWrites([row EXCEPT !.phase = "Running"])
       \/ row.phase \in {"Provisioning", "Running"} /\ ~row.agent /\ RecAsks(row, "Status", row.ref)
       \/ row.phase = "Destroying" /\ row.ref # 0 /\ RecAsks(row, "Destroy", row.ref)
       \/ row.phase = "Destroying" /\ row.ref = 0 /\ RecWrites(NoBox)
    /\ UNCHANGED <<port, remote, wr, inst, made, agent, home, routes, active, unheard, dropped, budget>>

RecFails == RecWrites([rec EXCEPT !.phase = "Failed"])

\* The call ends with nothing done: the next tick tries again.
RecRests == RecWrites(row)

\* Mutant of RecHearsStatus: an error is a dead instance.
RecTrustsStatus(ans) ==
    IF ans = Err \/ ans.phase \in {"gone", "failed"}
    THEN IF rec.phase = "Running" THEN RecAsks(rec, "EnsureHome", AskedHome) ELSE RecFails
    ELSE RecRests

\* Mutant of RecHearsStatus: only a failed instance is dead.
RecExpectsFailed(ans) ==
    IF ans # Err /\ ans.phase = "failed"
    THEN IF rec.phase = "Running" THEN RecAsks(rec, "EnsureHome", AskedHome) ELSE RecFails
    ELSE RecRests

\* healIfDead and checkAlive.
RecHearsStatus(ans) ==
    IF ans # Err /\ ans.phase \in {"gone", "failed"}
    THEN IF rec.phase = "Running" THEN RecAsks(rec, "EnsureHome", AskedHome) ELSE RecFails
    ELSE RecRests

RecHears ==
    LET h == call["rec"] IN
    /\ h # NoCall /\ h.pc = "answered"
    /\ CASE h.op = "EnsureHome" ->
              IF h.ans = Err THEN RecFails ELSE RecAsks(rec, "Provision", AskedBox(h.ans))
         [] h.op = "Provision" ->
              IF h.ans = Err THEN RecFails
              ELSE RecWrites([phase |-> "Provisioning", ref |-> h.ans.ref, agent |-> FALSE])
         [] h.op = "Status" -> RecHearsStatus(h.ans)
         [] h.op = "Destroy" -> IF h.ans = Err THEN RecRests ELSE RecWrites(NoBox)
    /\ unheard' = (unheard \/ (h.op = "Provision" /\ h.ans = Err))
    /\ UNCHANGED <<port, remote, wr, inst, made, agent, home, routes, active, dropped, budget>>

(***************************************************************************)
(* The other writers of the row.                                           *)
(***************************************************************************)
WritersUnchanged == UNCHANGED <<port, remote, call, rec, inst, made, home, routes, active, unheard, budget>>

Reads(k) ==
    /\ wr[k] = NoBox /\ Cardinality({w \in Writers : wr[w] # NoBox}) < MaxCopies
    /\ wr' = [wr EXCEPT ![k] = row]
    /\ UNCHANGED <<row, dropped>> /\ WritersUnchanged

\* The whole row is written back, if it is still there.
Writes(k, b) ==
    /\ wr[k] # NoBox
    /\ wr' = [wr EXCEPT ![k] = NoBox]
    /\ row' = IF row = NoBox THEN row ELSE b
    /\ dropped' = (dropped \/ (row # NoBox /\ row.ref # b.ref))
    /\ UNCHANGED agent /\ WritersUnchanged

\* The API resolves the workspace, and flags it.
DeleteResolves == port = "compute" /\ row # NoBox /\ Reads("api") /\ UNCHANGED agent
DeleteWorkspace == Writes("api", [wr["api"] EXCEPT !.phase = "Destroying"])

\* An agent registers or leaves, and the sink reads its box.
AgentConnects ==
    /\ inst.phase = "running" /\ agent = 0 /\ row # NoBox
    /\ agent' = inst.ref
    /\ Reads("up")

AgentLeaves ==
    /\ agent # 0 /\ ~(inst.ref = agent /\ inst.phase = "running") /\ wr["up"] = NoBox
    /\ agent' = 0
    /\ Reads("down")

SetAgentConnected == Writes("up", [wr["up"] EXCEPT !.agent = TRUE])
SetAgentDisconnected == Writes("down", [wr["down"] EXCEPT !.agent = FALSE])

RowWrites ==
    \/ DeleteResolves \/ DeleteWorkspace
    \/ AgentConnects \/ AgentLeaves \/ SetAgentConnected \/ SetAgentDisconnected

\* The container exits, with an error or without, or is removed by hand.
ContainerDies ==
    /\ inst.phase = "running" /\ budget.faults > 0
    /\ inst' \in {NoInst, [inst EXCEPT !.phase = "failed"], [inst EXCEPT !.phase = "stopped"]}
    /\ budget' = [budget EXCEPT !.faults = @ - 1]
    /\ UNCHANGED <<port, remote, call, row, rec, wr, made, agent, home, routes, active, unheard, dropped>>

-----------------------------------------------------------------------------
(***************************************************************************)
(* Broken connections, crashes and restarts.                               *)
(***************************************************************************)
\* A handler that may go on when its caller is gone.
Detachable == {s \in Slots : ~Idle(s) /\ call[s].pc # "answered" /\ IsRemote(call[s].op)}

\* The connection breaks: the handler ends with it, or goes on.
Breaks(s) ==
    /\ s # "orphan" /\ ~Idle(s) /\ IsRemote(call[s].op)
    /\ budget.breaks > 0
    /\ budget' = [budget EXCEPT !.breaks = @ - 1]
    /\ \/ call' = [call EXCEPT ![s] = CutOff(@)]
       \/ /\ s \in Detachable /\ Idle("orphan")
          /\ call' = [call EXCEPT ![s] = CutOff(@), !["orphan"] = call[s]]
    /\ UNCHANGED <<port, remote, row, rec, wr, inst, made, agent, home, routes, active, unheard, dropped>>

\* hopbox-provider, serving p, dies and starts again with its memory empty.
ProviderCrashes(p) ==
    /\ p \in remote
    /\ budget.breaks > 0
    /\ budget' = [budget EXCEPT !.breaks = @ - 1]
    /\ routes' = IF p = "ingress" THEN {} ELSE routes
    /\ active' = IF p = "metering" THEN 0 ELSE active
    /\ call' = [s \in Slots |->
                  IF s \notin Detachable \/ PortOf(call[s].op) # p THEN call[s]
                  ELSE IF s = "orphan" THEN NoCall ELSE CutOff(call[s])]
    /\ UNCHANGED <<port, remote, row, rec, wr, inst, made, agent, home, unheard, dropped>>

\* The daemon stops, with the providers it holds in-process, and starts again.
Restart ==
    /\ budget.restarts > 0
    /\ budget' = [budget EXCEPT !.restarts = @ - 1]
    /\ \E left \in {call["orphan"]} \cup {call[s] : s \in IF Idle("orphan") THEN Detachable ELSE {}} :
          call' = [s \in Slots |-> IF s = "orphan" THEN left ELSE NoCall]
    /\ rec' = NoBox /\ wr' = [k \in Writers |-> NoBox] /\ agent' = 0
    /\ routes' = IF "ingress" \in remote THEN routes ELSE {}
    /\ active' = IF "metering" \in remote THEN active ELSE 0
    /\ unheard' = (unheard \/ (~Idle("rec") /\ call["rec"].op = "Provision"))
    /\ UNCHANGED <<port, remote, row, inst, made, home, dropped>>

-----------------------------------------------------------------------------
RecStep == ReconcileOne \/ RecHears

Next ==
    \/ RecStep \/ RowWrites \/ ContainerDies \/ Restart
    \/ \E s \in Slots : DockerStep(s) \/ ProviderStep(s) \/ Breaks(s)
    \/ \E p \in Ports : ProviderCrashes(p)
    \/ \E c \in Callers : Invokes(c) \/ InvokesEmit(c) \/ Hears(c)

Spec == Init /\ [][Next]_vars

\* The ticker fires, calls of the reconciler are executed and return.  Nothing else
\* need ever happen.
Fairness == WF_vars(RecStep) /\ WF_vars(DockerStep("rec"))

FairSpec == Spec /\ Fairness

-----------------------------------------------------------------------------
\* What the converters have no field for (nor for the device flag of a mount, which
\* directory homes do not set).
Lost == {"cpuMillis", "guestBin", "ip"}

Agree(x, y, crossed) ==
    \A f \in DOMAIN x : x[f] = y[f] \/ (crossed /\ f \in Lost)

\* The provider is given what the caller asked, and the caller hears what it said.
Given(h) ==
    \/ h.op \in {"Status", "Destroy", "Unexpose", "BuildStatus"}
    \/ Agree(h.req, h.got, IsRemote(h.op))

Heard(h) ==
    /\ h.ans # Err => h.truth \notin {Err, Silence} /\ Agree(h.truth, h.ans, IsRemote(h.op))
    /\ IsRemote(h.op) \/ h.ans = h.truth

\* The provider is given what the caller asked; what a caller hears without an error
\* is what the provider answered to that call, but for the fields in Lost, whatever
\* broke, crashed or was abandoned.  An error may hide a success: that is all that is
\* known of a call whose connection broke.
HeardTrue ==
    \A s \in Slots : (~Idle(s) /\ call[s].pc = "answered") => Given(call[s]) /\ Heard(call[s])

\* A running box is rebuilt, and what runs in it killed, only after the provider itself
\* said that the instance is dead: never because a connection broke, a provider
\* crashed or an answer was lost (healIfDead).
HealsOnlyDead ==
    [][(row # NoBox /\ rec # NoBox /\ rec.phase = "Running" /\ call["rec"].op = "Status"
        /\ call'["rec"].op = "EnsureHome") =>
           call["rec"].truth \notin {Err, Silence} /\ call["rec"].truth.phase \in {"gone", "failed"}]_vars

\* A container outlives its row in two ways only: a Provision ran whose success the
\* reconciler never heard of, or another writer's copy of the row, older than the
\* container, was written back and its id was lost.  With every other interleaving
\* destroy is called with the container's id.
OrphanIsUnheard == (row = NoBox /\ inst # NoInst) => unheard \/ dropped

(***************************************************************************)
(* The inductive invariant.                                                *)
(***************************************************************************)
Instances == [ref: 0 .. MaxRefs, phase: InstancePhases, ip: {0, 1}]
RecOps == {"EnsureHome", "Provision", "Status", "Destroy"}

\* A call from its beginning, abandoned or not, to its end.
CallSound(h) ==
    /\ Given(h)
    /\ h.op \in {"Status", "Destroy"} => h.req \in 0 .. MaxRefs
    /\ (h.op = "Provision" /\ h.pc = "created") => h.ref \in Refs
    /\ h.pc = "answered" =>
         /\ Heard(h)
         /\ h.op = "EnsureHome" => h.ans \in {Err, HomeMount}
         /\ h.op \in {"Provision", "Status"} => h.truth \in {Err, Silence} \cup Instances

CallsSound ==
    /\ DOMAIN call = Slots
    /\ \A s \in Slots : Idle(s) \/ CallSound(call[s])
    /\ \A c \in Callers : call[c].op \notin RecOps

\* The reconciler works on a copy of the row, of which nobody else gets another id
\* written unnoticed.
RowSound ==
    /\ row \in Rows \cup {NoBox} /\ wr \in [Writers -> Rows \cup {NoBox}]
    /\ inst \in Containers /\ made \in 0 .. MaxRefs
    /\ IF rec = NoBox THEN Idle("rec")
       ELSE /\ rec \in Rows /\ row \in Rows /\ call["rec"].op \in RecOps
            /\ dropped \/ rec.ref = row.ref
            /\ call["rec"].op \in {"Status", "Destroy"} => call["rec"].req = rec.ref

\* The reconciler does not know, or is about to be told that it does not know, what a
\* Provision came to.
Unsure == unheard \/ dropped
InDoubt ==
    Unsure \/ (call["rec"].op = "Provision" /\ call["rec"].pc = "answered" /\ call["rec"].ans = Err)

\* The container that is the box's, if there is no doubt: the row's until Provision has
\* removed it, then the one that Provision made; none once destroy has succeeded.
KnownRef ==
    LET h == call["rec"] IN
    CASE h.op = "Provision" /\ h.pc \in {"removed", "pulled"} -> 0
      [] h.op = "Provision" /\ h.pc = "created" -> h.ref
      [] h.op = "Provision" /\ h.pc = "answered" -> h.truth.ref
      [] h.op = "Destroy" /\ h.pc = "answered" /\ h.ans # Err -> 0
      [] OTHER -> IF row = NoBox THEN 0 ELSE row.ref

ContainerKnown == InDoubt \/ (call["orphan"].op # "Provision" /\ inst.ref \in {0, KnownRef})

PlaneInv == CallsSound /\ RowSound /\ ContainerKnown

\* A box that is being destroyed goes, although the calls break, the container is
\* already gone and the provider or the daemon restarts.  (A provision in flight or an
\* older copy of the row may still overwrite the flag.)
DestroyCompletes ==
    (row # NoBox /\ row.phase = "Destroying") ~> (row = NoBox \/ row.phase # "Destroying")

\* A running box whose container died is dealt with: the reconciler rebuilds it or
\* gives it another phase.  One that exited with code 0 is "stopped", and is not.
DeadIsHealed ==
    (row # NoBox /\ row.phase = "Running" /\ ~row.agent /\ inst.phase \in {"gone", "failed"}) ~>
        (row = NoBox \/ row.phase # "Running" \/ row.agent)
=============================================================================
