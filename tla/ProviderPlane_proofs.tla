------------------------ MODULE ProviderPlane_proofs ------------------------
(***************************************************************************)
(* What crosses the wire and what the reconciler knows of its container,   *)
(* for any number of callers, faults, broken connections, crashes,         *)
(* restarts and copies of the row.                                         *)
(***************************************************************************)
EXTENDS ProviderPlane, TLAPS

USE PlaneAssumption

(***************************************************************************)
(* Conversions.                                                            *)
(***************************************************************************)
\* A value agrees with itself, and with what crosses of it when every field has a
\* place in the message.
LEMMA CrossAgrees ==
    ASSUME NEW x
    PROVE  /\ \A b : Agree(x, x, b)
           /\ \A fields : (\A f \in DOMAIN x : f \in fields \cup Lost) => Agree(x, Cross(x, fields), TRUE)
BY DEF Agree, Cross

\* What crosses of an answer whose fields all have a place is not an error.
LEMMA AnswersFlat ==
    ASSUME NEW x, NEW fields, DOMAIN x \subseteq fields, "err" \notin DOMAIN x
    PROVE  Cross(x, fields) # Err /\ Agree(x, Cross(x, fields), TRUE)
<1>1. DOMAIN Cross(x, fields) = DOMAIN x
  BY DEF Cross
<1>2. DOMAIN Err = {"err"}
  BY DEF Err
<1> QED
  BY <1>1, <1>2, CrossAgrees

\* A request without nested messages is given as it was asked.
LEMMA AsksFlat ==
    ASSUME NEW op, NEW req, NEW fields, DOMAIN req \subseteq fields,
           ServerReceives(op, req) = Cross(req, fields)
    PROVE  Given(Asks(op, req))
<1>1. Agree(req, Cross(req, fields), TRUE) /\ Agree(req, req, FALSE)
  BY CrossAgrees
<1>2. /\ Asks(op, req).op = op /\ Asks(op, req).req = req
      /\ Asks(op, req).got = IF IsRemote(op) THEN ServerReceives(op, req) ELSE req
  BY DEF Asks
<1>3. IsRemote(op) \in BOOLEAN
  BY DEF IsRemote
<1>4. CASE IsRemote(op)
  <2>1. Asks(op, req).got = Cross(req, fields)
    BY <1>2, <1>4
  <2> QED
    BY <1>1, <1>2, <1>3, <1>4, <2>1 DEF Given, Cross
<1>5. CASE ~IsRemote(op)
  BY <1>1, <1>2, <1>3, <1>5 DEF Given
<1> QED
  BY <1>4, <1>5

\* The request for a box: the agent and the mounts are messages of their own.
LEMMA AsksBox == CallSound(Asks("Provision", AskedBox(HomeMount)))
<1> DEFINE b == AskedBox(HomeMount) p == ProtoProvisionRequest(b)
<1>1. ProtoMount(HomeMount) = HomeMount
  BY DEF ProtoMount, Cross, HomeMount
<1>2. ProtoAgent(b.agent) = b.agent
  BY DEF ProtoAgent, Cross, AskedBox
<1>3. {ProtoMount(m) : m \in b.mounts} = b.mounts
  BY <1>1 DEF AskedBox
<1>4. DOMAIN b = {"workspaceID", "imageRef", "memMB", "cpuMillis", "guestBin", "env", "agent", "mounts"}
  BY DEF AskedBox
<1>5. p = [Cross(b, {"workspaceID", "imageRef", "memMB", "env"}) EXCEPT !.agent = b.agent, !.mounts = b.mounts]
  BY <1>2, <1>3 DEF ProtoProvisionRequest
<1> HIDE DEF b, p
<1>6. \A f \in DOMAIN b : f \notin Lost => p[f] = b[f]
  BY <1>4, <1>5 DEF Cross, Lost
<1>7. Agree(b, p, TRUE) /\ Agree(b, b, FALSE)
  BY <1>6, CrossAgrees DEF Agree
<1>8. ServerReceives("Provision", b) = p
  BY DEF ServerReceives, p
<1>9. IsRemote("Provision") \in BOOLEAN
  BY DEF IsRemote
<1>10. Given(Asks("Provision", b)) /\ Asks("Provision", b).pc = "asked" /\ Asks("Provision", b).op = "Provision"
  BY <1>7, <1>8, <1>9 DEF Given, Asks
<1> QED
  BY <1>10 DEF CallSound, b

\* The question whether a principal may do something names the principal.
LEMMA AsksAccess ==
    ASSUME NEW roles \in SUBSET {"owner", "guest"}
    PROVE  Given(Asks("Authorize", [principal |-> [Owner EXCEPT !.roles = roles], action |-> 1, resource |-> 1]))
<1> DEFINE o == [Owner EXCEPT !.roles = roles]
           b == [principal |-> o, action |-> 1, resource |-> 1]
           p == ProtoAccessRequest(b)
<1>1. ProtoPrincipal(o) = o
  BY DEF ProtoPrincipal, Cross, Owner
<1> HIDE DEF o
<1>2. p = [Cross(b, {"action", "resource"}) EXCEPT !.principal = o]
  BY <1>1 DEF ProtoAccessRequest
<1>3. DOMAIN b = {"principal", "action", "resource"} /\ b.principal = o
  OBVIOUS
<1>4. ServerReceives("Authorize", b) = p
  BY DEF ServerReceives
<1> HIDE DEF b, p
<1>5. \A f \in DOMAIN b : p[f] = b[f]
  BY <1>2, <1>3 DEF Cross
<1>6. Agree(b, p, TRUE) /\ Agree(b, b, FALSE)
  BY <1>5, CrossAgrees DEF Agree
<1>7. IsRemote("Authorize") \in BOOLEAN
  BY DEF IsRemote
<1>8. Given(Asks("Authorize", b))
  BY <1>4, <1>6, <1>7 DEF Given, Asks
<1> QED
  BY <1>8 DEF b, o

\* Every call begins with the provider given what the caller asked.
LEMMA AsksSound ==
    /\ CallSound(Asks("EnsureHome", AskedHome))
    /\ \A ref \in 0 .. MaxRefs : CallSound(Asks("Status", ref)) /\ CallSound(Asks("Destroy", ref))
    /\ \A r \in [workspaceID: {0, 1}, name: {0, 1}, port: {0, 1}, scheme: {1}, tenantID: {1}] :
         CallSound(Asks("Expose", r))
    /\ CallSound(Asks("Unexpose", <<1, 1>>)) /\ CallSound(Asks("BuildStatus", 1))
    /\ \A r \in [scheme: {0, 1, 2}, value: {0, 1, 2}] : CallSound(Asks("Authenticate", r))
    /\ \A roles \in SUBSET {"owner", "guest"} :
         CallSound(Asks("Authorize", [principal |-> [Owner EXCEPT !.roles = roles], action |-> 1, resource |-> 1]))
    /\ CallSound(Asks("Quota", [principalID |-> 1, tenantID |-> 1]))
    /\ \A src : CallSound(Asks("Resolve", [workspaceID |-> 1, sourceRef |-> src, provider |-> 1,
                                          options |-> 1, tenantID |-> 1]))
    /\ \A kind : CallSound(Asks("Emit", [tenantID |-> 1, principalID |-> 1, workspaceID |-> 1, kind |-> kind,
                                        value |-> 1, unixMillis |-> 1]))
<1>1. \A op, req : /\ Asks(op, req).op = op /\ Asks(op, req).pc = "asked" /\ Asks(op, req).req = req
  BY DEF Asks
<1>2. ASSUME NEW op, NEW req, Given(Asks(op, req)), op \notin {"Status", "Destroy"}
      PROVE  CallSound(Asks(op, req))
  BY <1>1, <1>2 DEF CallSound
<1>3. CallSound(Asks("EnsureHome", AskedHome))
  <2>1. ServerReceives("EnsureHome", AskedHome) = Cross(AskedHome, {"workspaceID", "tenantID", "owner"})
    BY DEF ServerReceives, ProtoHomeRequest
  <2>2. DOMAIN AskedHome = {"workspaceID", "tenantID", "owner"}
    BY DEF AskedHome
  <2> QED
    BY <1>2, <2>1, <2>2, AsksFlat
<1>4. \A ref \in 0 .. MaxRefs : CallSound(Asks("Status", ref)) /\ CallSound(Asks("Destroy", ref))
  BY <1>1 DEF CallSound, Given
<1>5. ASSUME NEW r \in [workspaceID: {0, 1}, name: {0, 1}, port: {0, 1}, scheme: {1}, tenantID: {1}]
      PROVE  CallSound(Asks("Expose", r))
  <2>1. ServerReceives("Expose", r) = Cross(r, {"workspaceID", "name", "port", "scheme", "tenantID"})
    BY DEF ServerReceives, ProtoExposeRequest
  <2>2. DOMAIN r = {"workspaceID", "name", "port", "scheme", "tenantID"}
    OBVIOUS
  <2> QED
    BY <1>2, <2>1, <2>2, AsksFlat
<1>6. CallSound(Asks("Unexpose", <<1, 1>>)) /\ CallSound(Asks("BuildStatus", 1))
  BY <1>1 DEF CallSound, Given
<1>7. ASSUME NEW r \in [scheme: {0, 1, 2}, value: {0, 1, 2}] PROVE CallSound(Asks("Authenticate", r))
  <2>1. ServerReceives("Authenticate", r) = Cross(r, {"scheme", "value"})
    BY DEF ServerReceives, ProtoCredential
  <2>2. DOMAIN r = {"scheme", "value"}
    OBVIOUS
  <2> QED
    BY <1>2, <2>1, <2>2, AsksFlat
<1>8. ASSUME NEW roles \in SUBSET {"owner", "guest"}
      PROVE  CallSound(Asks("Authorize", [principal |-> [Owner EXCEPT !.roles = roles], action |-> 1, resource |-> 1]))
  BY <1>2, AsksAccess
<1>9. CallSound(Asks("Quota", [principalID |-> 1, tenantID |-> 1]))
  <2> DEFINE r == [principalID |-> 1, tenantID |-> 1]
  <2>1. ServerReceives("Quota", r) = Cross(r, {"principalID", "tenantID"})
    BY DEF ServerReceives, ProtoPrincipalRef
  <2>2. DOMAIN r = {"principalID", "tenantID"}
    OBVIOUS
  <2> HIDE DEF r
  <2>3. CallSound(Asks("Quota", r))
    BY <1>2, <2>1, <2>2, AsksFlat
  <2> QED
    BY <2>3 DEF r
<1>10. ASSUME NEW src
       PROVE  CallSound(Asks("Resolve", [workspaceID |-> 1, sourceRef |-> src, provider |-> 1,
                                         options |-> 1, tenantID |-> 1]))
  <2> DEFINE r == [workspaceID |-> 1, sourceRef |-> src, provider |-> 1, options |-> 1, tenantID |-> 1]
  <2>1. ServerReceives("Resolve", r) = Cross(r, {"workspaceID", "sourceRef", "provider", "options", "tenantID"})
    BY DEF ServerReceives, ProtoBuildRequest
  <2>2. DOMAIN r = {"workspaceID", "sourceRef", "provider", "options", "tenantID"}
    OBVIOUS
  <2> HIDE DEF r
  <2>3. CallSound(Asks("Resolve", r))
    BY <1>2, <2>1, <2>2, AsksFlat
  <2> QED
    BY <2>3 DEF r
<1>11. ASSUME NEW kind
       PROVE  CallSound(Asks("Emit", [tenantID |-> 1, principalID |-> 1, workspaceID |-> 1, kind |-> kind,
                                      value |-> 1, unixMillis |-> 1]))
  <2> DEFINE r == [tenantID |-> 1, principalID |-> 1, workspaceID |-> 1, kind |-> kind,
                   value |-> 1, unixMillis |-> 1]
  <2>1. ServerReceives("Emit", r)
          = Cross(r, {"tenantID", "principalID", "workspaceID", "kind", "value", "unixMillis"})
    BY DEF ServerReceives, ProtoUsageEvent
  <2>2. DOMAIN r = {"tenantID", "principalID", "workspaceID", "kind", "value", "unixMillis"}
    OBVIOUS
  <2> HIDE DEF r
  <2>3. CallSound(Asks("Emit", r))
    BY <1>2, <2>1, <2>2, AsksFlat
  <2> QED
    BY <2>3 DEF r
<1> QED
  BY <1>3, <1>4, <1>5, <1>6, <1>7, <1>8, <1>9, <1>10, <1>11

\* The caller hears an error for an error, and what crosses of any other answer.
LEMMA AnsweredSound ==
    ASSUME NEW h, CallSound(h), NEW ans,
           \/ ans = Err
           \/ h.op \in {"Destroy", "Unexpose", "Emit"} /\ ans = [err |-> FALSE]
           \/ h.op \in {"Provision", "Status"} /\ ans \in Instances
           \/ h.op = "EnsureHome" /\ ans = HomeMount
           \/ h.op = "Expose" /\ \E ref, name, p : ans = [ref |-> ref, url |-> ref, name |-> name, port |-> p]
           \/ h.op = "Authenticate" /\ ans = Owner
           \/ h.op = "Authorize" /\ \E a, r : ans = [allow |-> a, reason |-> r]
           \/ h.op = "Quota" /\ \E a, u, l, r : ans = [allowed |-> a, workspacesUsed |-> u, workspacesLimit |-> l,
                                                      reason |-> r]
           \/ h.op = "Resolve" /\ \E r : ans = [ref |-> r, buildRef |-> 0]
           \/ h.op = "BuildStatus" /\ \E r : ans = [phase |-> "ready", imageRef |-> r, message |-> 0]
    PROVE  /\ CallSound(Answered(h, ans))
           /\ Answered(h, ans).op = h.op /\ Answered(h, ans).req = h.req
           /\ Answered(h, ans).pc = "answered" /\ Answered(h, ans).truth = ans
           /\ (Answered(h, ans).ans = Err) = (ans = Err)
<1> DEFINE k == Answered(h, ans)
<1>1. /\ k.op = h.op /\ k.pc = "answered" /\ k.req = h.req /\ k.got = h.got /\ k.truth = ans
      /\ k.ans = IF IsRemote(h.op) THEN ClientHears(h.op, ans) ELSE ans
  BY DEF Answered
<1>2. IsRemote(h.op) \in BOOLEAN
  BY DEF IsRemote
<1> HIDE DEF k
<1>3. ASSUME ans # Err PROVE ClientHears(h.op, ans) # Err /\ Agree(ans, ClientHears(h.op, ans), TRUE)
  <2>1. CASE h.op \in {"Destroy", "Unexpose", "Emit"} /\ ans = [err |-> FALSE]
    BY <1>3, <2>1, CrossAgrees DEF ClientHears
  <2>2. CASE h.op \in {"Provision", "Status"} /\ ans \in Instances
    <3>1. ClientHears(h.op, ans) = [Cross(ans, {"ref"}) EXCEPT !.phase = ans.phase]
      <4>1. FromProtoPhase(ToProtoPhase(ans.phase)) = ans.phase
        BY <2>2 DEF Instances, InstancePhases, FromProtoPhase, ToProtoPhase
      <4> QED
        BY <1>3, <2>2, <4>1 DEF ClientHears, ProtoInstance
    <3>2. DOMAIN ans = {"ref", "phase", "ip"}
      BY <2>2 DEF Instances
    <3> QED
      BY <3>1, <3>2 DEF Agree, Cross, Lost, Err
  <2>3. CASE h.op = "EnsureHome" /\ ans = HomeMount
    <3>1. ClientHears(h.op, ans) = HomeMount
      BY <1>3, <2>3 DEF ClientHears, ProtoMount, Cross, HomeMount
    <3> QED
      BY <1>3, <2>3, <3>1, CrossAgrees
  <2>4. CASE h.op = "Expose" /\ \E ref, name, p : ans = [ref |-> ref, url |-> ref, name |-> name, port |-> p]
    <3>1. ClientHears(h.op, ans) = Cross(ans, {"ref", "url", "name", "port"})
      BY <1>3, <2>4 DEF ClientHears, ProtoEndpoint
    <3>2. DOMAIN ans = {"ref", "url", "name", "port"}
      BY <2>4
    <3> QED
      BY <3>1, <3>2, AnswersFlat
  <2>5. CASE h.op = "Authenticate" /\ ans = Owner
    <3>1. ClientHears(h.op, ans) = Cross(ans, {"id", "tenantID", "displayName", "roles"})
      BY <1>3, <2>5 DEF ClientHears, ProtoPrincipal
    <3>2. DOMAIN ans = {"id", "tenantID", "displayName", "roles"}
      BY <2>5 DEF Owner
    <3> QED
      BY <3>1, <3>2, AnswersFlat
  <2>6. CASE h.op = "Authorize" /\ \E a, r : ans = [allow |-> a, reason |-> r]
    <3>1. ClientHears(h.op, ans) = Cross(ans, {"allow", "reason"})
      BY <1>3, <2>6 DEF ClientHears, ProtoDecision
    <3>2. DOMAIN ans = {"allow", "reason"}
      BY <2>6
    <3> QED
      BY <3>1, <3>2, AnswersFlat
  <2>7. CASE h.op = "Quota" /\ \E a, u, l, r : ans = [allowed |-> a, workspacesUsed |-> u, workspacesLimit |-> l,
                                                      reason |-> r]
    <3>1. ClientHears(h.op, ans) = Cross(ans, {"allowed", "workspacesUsed", "workspacesLimit", "reason"})
      BY <1>3, <2>7 DEF ClientHears, ProtoQuotaState
    <3>2. DOMAIN ans = {"allowed", "workspacesUsed", "workspacesLimit", "reason"}
      BY <2>7
    <3> QED
      BY <3>1, <3>2, AnswersFlat
  <2>8. CASE h.op = "Resolve" /\ \E r : ans = [ref |-> r, buildRef |-> 0]
    <3>1. ClientHears(h.op, ans) = Cross(ans, {"ref", "buildRef"})
      BY <1>3, <2>8 DEF ClientHears, ProtoImageRef
    <3>2. DOMAIN ans = {"ref", "buildRef"}
      BY <2>8
    <3> QED
      BY <3>1, <3>2, AnswersFlat
  <2>9. CASE h.op = "BuildStatus" /\ \E r : ans = [phase |-> "ready", imageRef |-> r, message |-> 0]
    <3>1. ClientHears(h.op, ans) = Cross(ans, {"phase", "imageRef", "message"})
      BY <1>3, <2>9 DEF ClientHears, ProtoBuildStatus
    <3>2. DOMAIN ans = {"phase", "imageRef", "message"}
      BY <2>9
    <3> QED
      BY <3>1, <3>2, AnswersFlat
  <2> QED
    BY <1>3, <2>1, <2>2, <2>3, <2>4, <2>5, <2>6, <2>7, <2>8, <2>9
<1>4. ClientHears(h.op, Err) = Err
  BY DEF ClientHears
<1>4a. ans # Silence
  BY DEF Silence, Err, Instances, HomeMount, Owner
<1>5. Heard(k) /\ (k.ans = Err) = (ans = Err)
  <2>1. CASE IsRemote(h.op)
    BY <1>1, <1>2, <1>3, <1>4, <1>4a, <2>1 DEF Heard
  <2>2. CASE ~IsRemote(h.op)
    BY <1>1, <1>2, <1>4a, <2>2, CrossAgrees DEF Heard
  <2> QED
    BY <2>1, <2>2
<1>6. Given(k)
  BY <1>1 DEF CallSound, Given
<1>7. h.op = "EnsureHome" => k.ans \in {Err, HomeMount}
  <2>1. h.op = "EnsureHome" => ans = Err \/ ans = HomeMount
    OBVIOUS
  <2>2. ClientHears("EnsureHome", HomeMount) \in {Err, HomeMount}
    BY DEF ClientHears, ProtoMount, Cross, HomeMount
  <2> QED
    BY <1>1, <1>4, <2>1, <2>2
<1>8. h.op \in {"Provision", "Status"} => ans \in {Err, Silence} \cup Instances
  OBVIOUS
<1>9. CallSound(k)
  BY <1>1, <1>5, <1>6, <1>7, <1>8 DEF CallSound
<1> QED
  BY <1>1, <1>5, <1>9 DEF k

(***************************************************************************)
(* What a step leaves as it was.                                           *)
(***************************************************************************)
\* A slot gets a new call, or loses its own.
LEMMA CallSet ==
    ASSUME CallsSound, UNCHANGED remote, NEW s \in Slots, NEW k, call' = [call EXCEPT ![s] = k],
           k = NoCall \/ CallSound(k), s \in Callers => k.op \notin RecOps
    PROVE  /\ CallsSound'
           /\ call'[s] = k /\ \A t \in Slots \ {s} : call'[t] = call[t]
<1>1. call'[s] = k /\ (\A t \in Slots \ {s} : call'[t] = call[t]) /\ DOMAIN call' = Slots
  BY DEF CallsSound
<1>2. \A t \in Slots : call'[t] = NoCall \/ CallSound(call'[t])
  BY <1>1 DEF CallsSound, Idle
<1>3. \A op : IsRemote(op)' <=> IsRemote(op)
  BY DEF IsRemote
<1>4. ASSUME NEW t \in Slots, call'[t] # NoCall PROVE CallSound(call[t])'
  <2>1. PICK h : h = call'[t]
    OBVIOUS
  <2>2. CallSound(h)
    BY <1>2, <1>4, <2>1
  <2>3. CallSound(h)'
    BY <1>3, <2>2 DEF CallSound, Given, Heard, Agree
  <2> QED
    BY <2>1, <2>3 DEF CallSound, Given, Heard
<1>5. \A c \in Callers : call'[c].op \notin RecOps
  BY <1>1 DEF CallsSound, Slots
<1> QED
  BY <1>1, <1>4, <1>5 DEF CallsSound, Idle

\* The container stays known when the reconciler's call, its row and its container do.
LEMMA KnownSame ==
    ASSUME ContainerKnown, call'["rec"] = call["rec"], unheard' <=> unheard, dropped' <=> dropped,
           call["orphan"].op # "Provision" => call'["orphan"].op # "Provision",
           inst'.ref \in {0, inst.ref},
           KnownRef' = KnownRef
    PROVE  ContainerKnown'
BY DEF ContainerKnown, InDoubt, Unsure

\* A step of a handler for the reconciler, or for nobody.
LEMMA DockerFrame ==
    ASSUME PlaneInv, NEW s \in Slots, NEW k, call' = [call EXCEPT ![s] = k], call[s].op \in RecOps,
           \/ s = "orphan" /\ k = NoCall
           \/ CallSound(k) /\ k.op = call[s].op /\ k.req = call[s].req,
           inst' \in Containers, UNCHANGED <<remote, row, rec, wr, dropped>>, made' \in 0 .. MaxRefs
    PROVE  /\ CallsSound' /\ RowSound'
           /\ call'[s] = k /\ \A t \in Slots \ {s} : call'[t] = call[t]
           /\ s \in {"rec", "orphan"} /\ {"rec", "orphan"} \subseteq Slots
<1>1. s \in {"rec", "orphan"} /\ {"rec", "orphan"} \subseteq Slots /\ s \notin Callers
  BY DEF PlaneInv, CallsSound, Slots
<1>2. CallsSound' /\ call'[s] = k /\ \A t \in Slots \ {s} : call'[t] = call[t]
  BY <1>1, CallSet DEF PlaneInv
<1>3. NoCall.op = "none" /\ (s = "rec" => k # NoCall)
  BY DEF NoCall, RecOps
<1>5. RowSound'
  <2>1. CASE rec = NoBox
    BY <1>1, <1>2, <1>3, <2>1 DEF PlaneInv, RowSound, Idle, RecOps
  <2>2. CASE rec # NoBox
    BY <1>1, <1>2, <2>2 DEF PlaneInv, RowSound
  <2> QED
    BY <2>1, <2>2
<1> QED
  BY <1>1, <1>2, <1>5

\* Which call a handler leaves when it answers.
LEMMA Answers ==
    ASSUME NEW s \in Slots, NEW ans, Answer(s, ans)
    PROVE  \E k : /\ call' = [call EXCEPT ![s] = k]
                  /\ \/ s = "orphan" /\ k = NoCall
                     \/ s # "orphan" /\ k = Answered(call[s], ans)
BY DEF Answer

(***************************************************************************)
(* The docker provider.                                                    *)
(***************************************************************************)
\* Provision gets on.
LEMMA GoesOnSound ==
    ASSUME NEW s \in Slots, CallSound(call[s]), call[s].op = "Provision", NEW ref,
           NEW pc \in {"staged", "networked", "removed", "pulled", "created"},
           pc = "created" => ref \in Refs, GoesOn(s, pc, ref)
    PROVE  \E k : /\ call' = [call EXCEPT ![s] = k] /\ CallSound(k)
                  /\ k.op = "Provision" /\ k.req = call[s].req /\ k.pc = pc /\ k.ref = ref
<1> DEFINE k == [op |-> "Provision", pc |-> pc, req |-> call[s].req, ref |-> ref, got |-> call[s].got]
<1>1. /\ k.op = "Provision" /\ k.req = call[s].req /\ k.got = call[s].got /\ k.pc = pc /\ k.ref = ref
      /\ call' = [call EXCEPT ![s] = k]
  BY DEF GoesOn
<1> HIDE DEF k
<1>2. CallSound(k)
  BY <1>1 DEF CallSound, Given
<1> QED
  BY <1>1, <1>2

\* A Provision that nobody waits for leaves the reconciler in doubt; one that fails
\* does as soon as it has answered.
LEMMA Doubtful ==
    ASSUME PlaneInv, NEW s \in {"rec", "orphan"}, NEW k, call'[s] = k,
           \A t \in {"rec", "orphan"} \ {s} : call'[t] = call[t], UNCHANGED <<unheard, dropped>>,
           call[s].op = "Provision",
           s = "orphan" \/ (k.op = "Provision" /\ k.pc = "answered" /\ k.ans = Err)
    PROVE  ContainerKnown'
<1>1. CASE s = "rec"
  BY <1>1 DEF ContainerKnown, InDoubt, Unsure
<1>2. CASE s = "orphan"
  BY <1>2 DEF PlaneInv, ContainerKnown, InDoubt, Unsure
<1> QED
  BY <1>1, <1>2

\* Provision fails.
LEMMA ProvisionFails ==
    ASSUME PlaneInv, NEW s \in Slots, ~Idle(s), call[s].op = "Provision", Answer(s, Err),
           UNCHANGED <<inst, remote, row, rec, wr, unheard, dropped>>, made' \in 0 .. MaxRefs
    PROVE  PlaneInv'
<1>1. PICK k : /\ call' = [call EXCEPT ![s] = k]
               /\ \/ s = "orphan" /\ k = NoCall
                  \/ s # "orphan" /\ k = Answered(call[s], Err)
  BY Answers
<1>2. CallSound(call[s])
  BY DEF PlaneInv, CallsSound
<1>3. s # "orphan" => /\ CallSound(k) /\ k.op = "Provision" /\ k.req = call[s].req
                      /\ k.pc = "answered" /\ k.ans = Err
  BY <1>1, <1>2, AnsweredSound
<1>4. inst' \in Containers /\ made' \in 0 .. MaxRefs /\ call[s].op \in RecOps
  BY DEF PlaneInv, RowSound, RecOps
<1>5. /\ CallsSound' /\ RowSound'
      /\ call'[s] = k /\ \A t \in Slots \ {s} : call'[t] = call[t]
      /\ s \in {"rec", "orphan"} /\ {"rec", "orphan"} \subseteq Slots
  BY <1>1, <1>3, <1>4, DockerFrame
<1>6. ContainerKnown'
  BY <1>3, <1>5, Doubtful
<1> QED
  BY <1>5, <1>6 DEF PlaneInv

\* A step of Provision: what it does to the container is what the reconciler knows.
LEMMA ProvisionGoesOn ==
    ASSUME PlaneInv, NEW s \in Slots, ~Idle(s), call[s].op = "Provision", NEW ref,
           NEW pc \in {"staged", "networked", "removed", "pulled", "created"},
           pc = "created" => ref \in Refs, GoesOn(s, pc, ref),
           UNCHANGED <<remote, row, rec, wr, unheard, dropped>>, made' \in 0 .. MaxRefs, inst' \in Containers,
           call[s].pc # "answered",
           CASE pc \in {"staged", "networked"} -> /\ call[s].pc \in {"asked", "staged"}
                                                  /\ inst' = inst
             [] pc = "removed" -> inst' = NoInst
             [] pc = "pulled" -> call[s].pc = "removed" /\ inst' = inst
             [] pc = "created" -> inst'.ref = ref
    PROVE  PlaneInv'
<1>1. CallSound(call[s]) /\ call[s].op \in RecOps
  BY DEF PlaneInv, CallsSound, RecOps
<1>2. PICK k : /\ call' = [call EXCEPT ![s] = k] /\ CallSound(k)
               /\ k.op = "Provision" /\ k.req = call[s].req /\ k.pc = pc /\ k.ref = ref
  BY <1>1, GoesOnSound
<1>3. /\ CallsSound' /\ RowSound'
      /\ call'[s] = k /\ \A t \in Slots \ {s} : call'[t] = call[t]
      /\ s \in {"rec", "orphan"} /\ {"rec", "orphan"} \subseteq Slots
  BY <1>1, <1>2, DockerFrame
<1>4. CASE s = "orphan"
  BY <1>3, <1>4, Doubtful DEF PlaneInv
<1>5. CASE s = "rec"
  <2>1. call'["rec"] = k /\ call'["orphan"] = call["orphan"]
    BY <1>3, <1>5
  <2>2. CASE Unsure
    BY <1>3, <2>2 DEF PlaneInv, ContainerKnown, InDoubt, Unsure
  <2>3. CASE ~Unsure
    <3>1. call["orphan"].op # "Provision" /\ inst.ref \in {0, KnownRef}
      BY <1>5, <2>3 DEF PlaneInv, ContainerKnown, InDoubt, Unsure
    <3>2. inst'.ref \in {0, KnownRef'}
      <4>1. CASE pc \in {"staged", "networked"}
        BY <1>2, <1>5, <2>1, <3>1, <4>1 DEF KnownRef
      <4>2. CASE pc = "removed"
        BY <4>2 DEF NoInst
      <4>3. CASE pc = "pulled"
        BY <1>2, <1>5, <2>1, <3>1, <4>3 DEF KnownRef
      <4>4. CASE pc = "created"
        BY <1>2, <1>5, <2>1, <3>1, <4>4 DEF KnownRef
      <4> QED
        BY <4>1, <4>2, <4>3, <4>4
    <3> QED
      BY <1>3, <2>1, <3>1, <3>2 DEF PlaneInv, ContainerKnown
  <2> QED
    BY <2>2, <2>3
<1> QED
  BY <1>3, <1>4, <1>5

\* Each step of Provision keeps the invariant.
LEMMA ProvisionInv ==
    ASSUME PlaneInv, NEW s \in Slots,
           StageAgent(s) \/ EnsureNetwork(s) \/ RemoveStale(s) \/ EnsureImage(s)
             \/ ContainerCreate(s) \/ ContainerStart(s)
    PROVE  PlaneInv'
<1>0. inst \in Containers /\ NoInst \in Containers /\ made \in 0 .. MaxRefs
  BY DEF PlaneInv, RowSound, Containers
<1>1. /\ ~Idle(s) /\ call[s].op = "Provision" /\ call[s].pc # "answered"
      /\ UNCHANGED <<remote, row, rec, wr, unheard, dropped>> /\ made' \in {made, made + 1}
      /\ made' = made \/ made < MaxRefs
  BY DEF StageAgent, EnsureNetwork, RemoveStale, EnsureImage, ContainerCreate, ContainerStart,
         Prepares, Provisions, ProvisionUnchanged, Idle
<1>1a. made' \in 0 .. MaxRefs
  BY <1>0, <1>1
<1>2. CASE Answer(s, Err) /\ UNCHANGED inst
  BY <1>1, <1>2, <1>1a, ProvisionFails
<1>3. CASE StageAgent(s) /\ GoesOn(s, "staged", 0)
  BY <1>0, <1>1, <1>1a, <1>3, ProvisionGoesOn DEF StageAgent, Prepares, Provisions
<1>4. CASE EnsureNetwork(s) /\ GoesOn(s, "networked", 0)
  BY <1>0, <1>1, <1>1a, <1>4, ProvisionGoesOn DEF EnsureNetwork, Prepares, Provisions
<1>5. CASE RemoveStale(s) /\ GoesOn(s, "removed", 0) /\ inst' = NoInst
  BY <1>0, <1>1, <1>1a, <1>5, ProvisionGoesOn DEF RemoveStale, Provisions
<1>6. CASE EnsureImage(s) /\ GoesOn(s, "pulled", 0)
  BY <1>0, <1>1, <1>1a, <1>6, ProvisionGoesOn DEF EnsureImage, Prepares, Provisions
<1>7. CASE /\ GoesOn(s, "created", made + 1) /\ inst' = [ref |-> made + 1, phase |-> "stopped"]
           /\ made < MaxRefs
  <2>1. made + 1 \in Refs
    BY <1>0, <1>7 DEF Refs
  <2>2. inst' \in Containers /\ inst'.ref = made + 1
    BY <1>7, <2>1 DEF Containers
  <2> QED
    BY <1>1, <1>7, <1>1a, <2>1, <2>2, ProvisionGoesOn
<1>8. CASE /\ ContainerStart(s) /\ inst.ref = call[s].ref
           /\ inst' = [inst EXCEPT !.phase = "running"]
           /\ Answer(s, [ref |-> inst.ref, phase |-> "running", ip |-> 1])
  <2> DEFINE ans == [ref |-> inst.ref, phase |-> "running", ip |-> 1]
  <2>1. /\ call[s].pc = "created" /\ inst.ref = call[s].ref /\ inst' = [inst EXCEPT !.phase = "running"]
        /\ Answer(s, ans)
    BY <1>8 DEF ContainerStart, Provisions
  <2>2. CallSound(call[s]) /\ call[s].op \in RecOps /\ call[s].ref \in Refs
    BY <1>1, <2>1 DEF PlaneInv, CallsSound, CallSound, RecOps
  <2>3. inst \in [ref: Refs, phase: {"running", "stopped", "failed"}]
    BY <1>0, <2>1, <2>2 DEF Containers, NoInst, Refs
  <2>4. inst' \in Containers /\ inst'.ref = inst.ref /\ inst.ref \in Refs
    BY <2>1, <2>3 DEF Containers
  <2>5. ans \in Instances /\ ans.ref = inst.ref
    BY <2>4 DEF Instances, InstancePhases, Refs
  <2> HIDE DEF ans
  <2>6. PICK k : /\ call' = [call EXCEPT ![s] = k]
                 /\ \/ s = "orphan" /\ k = NoCall
                    \/ s # "orphan" /\ k = Answered(call[s], ans)
    BY <2>1, Answers
  <2>7. s # "orphan" => /\ CallSound(k) /\ k.op = "Provision" /\ k.req = call[s].req
                        /\ k.pc = "answered" /\ k.truth = ans
    BY <1>1, <2>2, <2>5, <2>6, AnsweredSound
  <2>8. /\ CallsSound' /\ RowSound'
        /\ call'[s] = k /\ \A t \in Slots \ {s} : call'[t] = call[t]
        /\ s \in {"rec", "orphan"} /\ {"rec", "orphan"} \subseteq Slots
    BY <1>1, <1>1a, <2>2, <2>4, <2>6, <2>7, DockerFrame
  <2>9. CASE s = "orphan"
    BY <1>1, <2>8, <2>9, Doubtful DEF PlaneInv
  <2>10. CASE s = "rec"
    <3>1. call'["rec"] = k /\ call'["orphan"] = call["orphan"]
      BY <2>8, <2>10
    <3>2. KnownRef' = ans.ref
      BY <2>7, <2>10, <3>1 DEF KnownRef
    <3>3. CASE Unsure
      BY <1>1, <2>8, <3>3 DEF PlaneInv, ContainerKnown, InDoubt, Unsure
    <3>4. CASE ~Unsure
      <4>1. call["orphan"].op # "Provision"
        BY <1>1, <2>10, <3>4 DEF PlaneInv, ContainerKnown, InDoubt, Unsure
      <4> QED
        BY <2>4, <2>5, <2>8, <3>1, <3>2, <4>1 DEF PlaneInv, ContainerKnown
    <3> QED
      BY <3>3, <3>4
  <2> QED
    BY <2>8, <2>9, <2>10
<1> QED
  BY <1>2, <1>3, <1>4, <1>5, <1>6, <1>7, <1>8
     DEF StageAgent, EnsureNetwork, RemoveStale, EnsureImage, ContainerCreate, ContainerStart, Prepares

\* Status, Destroy and EnsureHome answer in one step; a container that Destroy has left
\* is not the one it was to remove.
LEMMA AnswersRec ==
    ASSUME PlaneInv, NEW s \in Slots, NEW op \in {"Status", "Destroy", "EnsureHome"}, Runs(s, op),
           NEW ans, Answer(s, ans),
           \/ ans = Err
           \/ op = "Status" /\ ans \in Instances
           \/ op = "Destroy" /\ ans = [err |-> FALSE] /\ (inst'.ref # 0 => inst'.ref # call[s].req)
           \/ op = "EnsureHome" /\ ans = HomeMount,
           inst' \in Containers, inst'.ref \in {0, inst.ref},
           UNCHANGED <<remote, row, rec, wr, unheard, dropped>>, made' \in 0 .. MaxRefs
    PROVE  PlaneInv'
<1>1. call[s].op = op /\ call[s].pc = "asked" /\ CallSound(call[s]) /\ op \in RecOps /\ op # "Provision"
  BY DEF Runs, PlaneInv, CallsSound, Idle, RecOps
<1>2. PICK k : /\ call' = [call EXCEPT ![s] = k]
               /\ \/ s = "orphan" /\ k = NoCall
                  \/ s # "orphan" /\ k = Answered(call[s], ans)
  BY Answers
<1>3. s # "orphan" => /\ CallSound(k) /\ k.op = op /\ k.req = call[s].req
                      /\ k.pc = "answered" /\ (k.ans = Err) = (ans = Err)
  BY <1>1, <1>2, AnsweredSound
<1>4. /\ CallsSound' /\ RowSound'
      /\ call'[s] = k /\ \A t \in Slots \ {s} : call'[t] = call[t]
      /\ s \in {"rec", "orphan"} /\ {"rec", "orphan"} \subseteq Slots
  BY <1>1, <1>2, <1>3, DockerFrame
<1>5. CASE s = "orphan"
  <2>1. call'["rec"] = call["rec"] /\ call'["orphan"].op # "Provision"
    BY <1>2, <1>4, <1>5 DEF NoCall
  <2>2. KnownRef' = KnownRef
    BY <2>1 DEF KnownRef
  <2> QED
    BY <1>4, <2>1, <2>2, KnownSame DEF PlaneInv
<1>6. CASE s = "rec"
  <2>1. call'["rec"] = k /\ call'["orphan"] = call["orphan"] /\ k.op = op /\ k.pc = "answered"
        /\ (k.ans = Err <=> ans = Err)
    BY <1>3, <1>4, <1>6
  <2>2. CASE Unsure
    BY <1>4, <2>2 DEF PlaneInv, ContainerKnown, InDoubt, Unsure
  <2>3. CASE ~Unsure
    <3>1. call["orphan"].op # "Provision" /\ inst.ref \in {0, KnownRef}
      BY <1>1, <1>6, <2>3 DEF PlaneInv, ContainerKnown, InDoubt, Unsure
    <3>2. KnownRef = IF row = NoBox THEN 0 ELSE row.ref
      BY <1>1, <1>6 DEF KnownRef
    <3>3. inst'.ref \in {0, KnownRef'}
      <4>1. CASE op = "Destroy" /\ ans # Err
        <5>1. row # NoBox /\ row.ref = call["rec"].req
          BY <1>1, <1>6, <2>3, <4>1 DEF PlaneInv, RowSound, Idle, NoCall, NoBox, Rows, Unsure
        <5>2. inst'.ref = 0
          BY <1>6, <3>1, <3>2, <4>1, <5>1
        <5> QED
          BY <5>2
      <4>2. CASE ~(op = "Destroy" /\ ans # Err)
        <5>1. KnownRef' = IF row = NoBox THEN 0 ELSE row.ref
          BY <1>1, <2>1, <4>2 DEF KnownRef
        <5> QED
          BY <3>1, <3>2, <5>1
      <4> QED
        BY <4>1, <4>2
    <3> QED
      BY <1>4, <2>1, <3>1, <3>3 DEF PlaneInv, ContainerKnown
  <2> QED
    BY <2>2, <2>3
<1> QED
  BY <1>4, <1>5, <1>6

\* Every step of the docker and storage providers keeps the invariant.
LEMMA DockerInv ==
    ASSUME PlaneInv, NEW s \in Slots, DockerStep(s)
    PROVE  PlaneInv'
<1>0. /\ inst \in Containers /\ NoInst \in Containers /\ NoInst.ref = 0 /\ inst.phase \in InstancePhases
      /\ made \in 0 .. MaxRefs
  BY DEF PlaneInv, RowSound, Containers, NoInst, InstancePhases
<1>1. CASE Status(s)
  <2>1. /\ Runs(s, "Status") /\ UNCHANGED <<remote, row, rec, wr, unheard, dropped, inst, made>>
        /\ \/ Answer(s, Err)
           \/ Answer(s, [ref |-> call[s].req, phase |-> IF inst.ref = call[s].req THEN inst.phase ELSE "gone", ip |-> 0])
    BY <1>1 DEF Status
  <2>2. call[s].req \in 0 .. MaxRefs
    BY <2>1 DEF Runs, PlaneInv, CallsSound, CallSound, Idle
  <2>3. [ref |-> call[s].req, phase |-> IF inst.ref = call[s].req THEN inst.phase ELSE "gone", ip |-> 0] \in Instances
    BY <1>0, <2>2 DEF Instances, InstancePhases
  <2> QED
    BY <1>0, <2>1, <2>3, AnswersRec
<1>2. CASE Destroy(s)
  <2>1. /\ Runs(s, "Destroy") /\ UNCHANGED <<remote, row, rec, wr, unheard, dropped, made>>
        /\ \/ Answer(s, Err) /\ inst' = inst
           \/ /\ Answer(s, [err |-> FALSE])
              /\ inst' = IF inst.ref = call[s].req THEN NoInst ELSE inst
    BY <1>2 DEF Destroy, ProvisionUnchanged
  <2>2. CASE Answer(s, Err) /\ inst' = inst
    BY <1>0, <2>1, <2>2, AnswersRec
  <2>3. CASE Answer(s, [err |-> FALSE]) /\ inst' = IF inst.ref = call[s].req THEN NoInst ELSE inst
    <3>1. /\ inst' \in Containers /\ inst'.ref \in {0, inst.ref}
          /\ inst'.ref # 0 => inst'.ref # call[s].req
      BY <1>0, <2>3
    <3> QED
      BY <1>0, <2>1, <2>3, <3>1, AnswersRec
  <2> QED
    BY <2>1, <2>2, <2>3
<1>3. CASE EnsureHome(s)
  <2>1. /\ Runs(s, "EnsureHome") /\ UNCHANGED <<remote, row, rec, wr, unheard, dropped, inst, made>>
        /\ Answer(s, Err) \/ Answer(s, HomeMount)
    BY <1>3 DEF EnsureHome
  <2> QED
    BY <1>0, <2>1, AnswersRec
<1> QED
  BY <1>1, <1>2, <1>3, ProvisionInv DEF DockerStep

(***************************************************************************)
(* The other providers and their callers.                                  *)
(***************************************************************************)
\* A call to a port that the reconciler does not use begins, is answered or ends.
LEMMA CallerFrame ==
    ASSUME PlaneInv, NEW s \in Slots, NEW k, call' = [call EXCEPT ![s] = k],
           call[s].op \notin RecOps, s # "rec",
           k = NoCall \/ CallSound(k), k.op \notin RecOps,
           UNCHANGED <<remote, row, rec, wr, inst, made, unheard, dropped>>
    PROVE  /\ CallsSound' /\ RowSound' /\ ContainerKnown'
           /\ call'[s] = k /\ \A t \in Slots \ {s} : call'[t] = call[t]
<1>1. CallsSound' /\ call'[s] = k /\ \A t \in Slots \ {s} : call'[t] = call[t]
  BY CallSet DEF PlaneInv
<1>2. call'["rec"] = call["rec"] /\ (call["orphan"].op # "Provision" => call'["orphan"].op # "Provision")
  BY <1>1 DEF Slots, RecOps
<1>3. KnownRef' = KnownRef
  BY <1>2 DEF KnownRef
<1>4. ContainerKnown'
  BY <1>2, <1>3, KnownSame DEF PlaneInv
<1>5. RowSound'
  BY <1>2 DEF PlaneInv, RowSound, Idle
<1> QED
  BY <1>1, <1>4, <1>5

\* The providers of the other ports.
LEMMA ProviderInv ==
    ASSUME PlaneInv, NEW s \in Slots, ProviderStep(s)
    PROVE  PlaneInv'
<1>1. ASSUME NEW ans, Answer(s, ans), CallSound(call[s]),
             call[s].op \in {"Expose", "Unexpose", "Authenticate", "Authorize", "Emit", "Quota", "Resolve", "BuildStatus"},
             s # "orphan" => CallSound(Answered(call[s], ans)) /\ Answered(call[s], ans).op = call[s].op,
             UNCHANGED <<remote, row, rec, wr, inst, made, unheard, dropped>>
      PROVE  PlaneInv'
  <2>1. PICK k : /\ call' = [call EXCEPT ![s] = k]
                 /\ \/ s = "orphan" /\ k = NoCall
                    \/ s # "orphan" /\ k = Answered(call[s], ans)
    BY <1>1, Answers
  <2>2. k.op \notin RecOps /\ (k = NoCall \/ CallSound(k)) /\ call[s].op \notin RecOps
        /\ s # "rec"
    BY <1>1, <2>1 DEF NoCall, RecOps, PlaneInv, RowSound, Idle
  <2>3. /\ CallsSound' /\ RowSound' /\ ContainerKnown'
        /\ call'[s] = k /\ \A t \in Slots \ {s} : call'[t] = call[t]
    BY <1>1, <2>1, <2>2, CallerFrame
  <2> QED
    BY <2>3 DEF PlaneInv
<1>2. ASSUME NEW op, Runs(s, op) PROVE call[s].op = op /\ CallSound(call[s])
  BY <1>2 DEF Runs, PlaneInv, CallsSound, Idle
<1>3. CASE Expose(s)
  <2>1. call[s].op = "Expose" /\ CallSound(call[s])
    BY <1>2, <1>3 DEF Expose
  <2>2. PICK ans : /\ Answer(s, ans)
                   /\ \/ ans = Err
                      \/ \E ref, name, p : ans = [ref |-> ref, url |-> ref, name |-> name, port |-> p]
    BY <1>3 DEF Expose
  <2>3. CallSound(Answered(call[s], ans)) /\ Answered(call[s], ans).op = call[s].op
    BY <2>1, <2>2, AnsweredSound
  <2> QED
    BY <1>1, <1>3, <2>1, <2>2, <2>3 DEF Expose, OthersUnchanged
<1>4. CASE Unexpose(s)
  <2>1. call[s].op = "Unexpose" /\ CallSound(call[s]) /\ Answer(s, [err |-> FALSE])
    BY <1>2, <1>4 DEF Unexpose
  <2>2. CallSound(Answered(call[s], [err |-> FALSE])) /\ Answered(call[s], [err |-> FALSE]).op = call[s].op
    BY <2>1, AnsweredSound
  <2> QED
    BY <1>1, <1>4, <2>1, <2>2 DEF Unexpose, OthersUnchanged
<1>5. CASE Authenticate(s)
  <2>1. call[s].op = "Authenticate" /\ CallSound(call[s])
    BY <1>2, <1>5 DEF Authenticate
  <2>2. PICK ans : Answer(s, ans) /\ ans \in {Err, Owner}
    BY <1>5 DEF Authenticate
  <2>3. CallSound(Answered(call[s], ans)) /\ Answered(call[s], ans).op = call[s].op
    BY <2>1, <2>2, AnsweredSound
  <2> QED
    BY <1>1, <1>5, <2>1, <2>2, <2>3 DEF Authenticate, OthersUnchanged
<1>6. CASE Authorize(s)
  <2>1. call[s].op = "Authorize" /\ CallSound(call[s])
    BY <1>2, <1>6 DEF Authorize
  <2>2. PICK ans : Answer(s, ans) /\ \E a, r : ans = [allow |-> a, reason |-> r]
    BY <1>6 DEF Authorize
  <2>3. CallSound(Answered(call[s], ans)) /\ Answered(call[s], ans).op = call[s].op
    BY <2>1, <2>2, AnsweredSound
  <2> QED
    BY <1>1, <1>6, <2>1, <2>2, <2>3 DEF Authorize, OthersUnchanged
<1>7. CASE Quota(s)
  <2>1. call[s].op = "Quota" /\ CallSound(call[s])
    BY <1>2, <1>7 DEF Quota
  <2>2. PICK ans : /\ Answer(s, ans)
                   /\ \E a, u, l, r : ans = [allowed |-> a, workspacesUsed |-> u, workspacesLimit |-> l, reason |-> r]
    BY <1>7 DEF Quota
  <2>3. CallSound(Answered(call[s], ans)) /\ Answered(call[s], ans).op = call[s].op
    BY <2>1, <2>2, AnsweredSound
  <2> QED
    BY <1>1, <1>7, <2>1, <2>2, <2>3 DEF Quota, OthersUnchanged
<1>8. CASE Resolve(s)
  <2>1. call[s].op = "Resolve" /\ CallSound(call[s])
    BY <1>2, <1>8 DEF Resolve
  <2>2. PICK ans : Answer(s, ans) /\ (ans = Err \/ \E r : ans = [ref |-> r, buildRef |-> 0])
    BY <1>8 DEF Resolve
  <2>3. CallSound(Answered(call[s], ans)) /\ Answered(call[s], ans).op = call[s].op
    BY <2>1, <2>2, AnsweredSound
  <2> QED
    BY <1>1, <1>8, <2>1, <2>2, <2>3 DEF Resolve, OthersUnchanged
<1>9. CASE BuildStatus(s)
  <2>1. call[s].op = "BuildStatus" /\ CallSound(call[s])
    BY <1>2, <1>9 DEF BuildStatus
  <2>2. PICK ans : Answer(s, ans) /\ \E r : ans = [phase |-> "ready", imageRef |-> r, message |-> 0]
    BY <1>9 DEF BuildStatus
  <2>3. CallSound(Answered(call[s], ans)) /\ Answered(call[s], ans).op = call[s].op
    BY <2>1, <2>2, AnsweredSound
  <2> QED
    BY <1>1, <1>9, <2>1, <2>2, <2>3 DEF BuildStatus, OthersUnchanged
<1>10. CASE Emit(s)
  <2>1. call[s].op = "Emit" /\ CallSound(call[s]) /\ Answer(s, [err |-> FALSE])
    BY <1>2, <1>10 DEF Emit
  <2>2. CallSound(Answered(call[s], [err |-> FALSE])) /\ Answered(call[s], [err |-> FALSE]).op = call[s].op
    BY <2>1, AnsweredSound
  <2> QED
    BY <1>1, <1>10, <2>1, <2>2 DEF Emit, OthersUnchanged
<1> QED
  BY <1>3, <1>4, <1>5, <1>6, <1>7, <1>8, <1>9, <1>10 DEF ProviderStep

\* The callers of the other ports.
LEMMA CallersInv ==
    ASSUME PlaneInv, NEW c \in Callers, Invokes(c) \/ InvokesEmit(c) \/ Hears(c)
    PROVE  PlaneInv'
<1>0. c \in Slots /\ c # "rec" /\ call[c].op \notin RecOps
  BY DEF Slots, PlaneInv, CallsSound
<1>1. \A op, req : Asks(op, req).op = op
  BY DEF Asks
<1>2. ASSUME NEW op \in {"Expose", "Unexpose", "Authenticate", "Authorize", "Emit", "Quota", "Resolve", "BuildStatus"},
             NEW req, CallSound(Asks(op, req)), Invoke(c, op, req)
      PROVE  PlaneInv'
  <2>1. PICK k : k = Asks(op, req)
    OBVIOUS
  <2>2. /\ call' = [call EXCEPT ![c] = k] /\ CallSound(k) /\ k.op = op /\ op \notin RecOps
        /\ UNCHANGED <<remote, row, rec, wr, inst, made, unheard, dropped>>
    BY <1>1, <1>2, <2>1 DEF Invoke, RecOps
  <2> QED
    BY <1>0, <2>2, CallerFrame DEF PlaneInv
<1>3. CASE Invokes(c)
  BY <1>2, <1>3, AsksSound DEF Invokes
<1>4. CASE InvokesEmit(c)
  <2>1. PICK kind : Invoke(c, "Emit", [tenantID |-> 1, principalID |-> 1, workspaceID |-> 1, kind |-> kind,
                                       value |-> 1, unixMillis |-> 1])
    BY <1>4 DEF InvokesEmit
  <2> QED
    BY <1>2, <2>1, AsksSound
<1>5. CASE Hears(c)
  <2>1. /\ call' = [call EXCEPT ![c] = NoCall] /\ NoCall.op \notin RecOps
        /\ UNCHANGED <<remote, row, rec, wr, inst, made, unheard, dropped>>
    BY <1>5 DEF Hears, OthersUnchanged, NoCall, RecOps
  <2> QED
    BY <1>0, <2>1, CallerFrame DEF PlaneInv
<1> QED
  BY <1>3, <1>4, <1>5

(***************************************************************************)
(* The reconciler.                                                         *)
(***************************************************************************)
\* The reconciler calls, or is done with a call.
LEMMA RecFrame ==
    ASSUME PlaneInv, NEW k, call' = [call EXCEPT !["rec"] = k],
           k = NoCall \/ (CallSound(k) /\ k.op \in RecOps), UNCHANGED remote
    PROVE  /\ CallsSound'
           /\ call'["rec"] = k /\ call'["orphan"] = call["orphan"]
<1>1. "rec" \in Slots /\ "orphan" \in Slots /\ "rec" \notin Callers
  BY DEF Slots
<1>2. CallsSound' /\ call'["rec"] = k /\ \A t \in Slots \ {"rec"} : call'[t] = call[t]
  BY <1>1, CallSet DEF PlaneInv
<1> QED
  BY <1>1, <1>2

\* It calls with its copy of the row, when there is no doubt about the container.
LEMMA RecAsksInv ==
    ASSUME PlaneInv, NEW b \in Rows, row \in Rows, dropped \/ b.ref = row.ref, NEW op \in RecOps, NEW req,
           CallSound(Asks(op, req)), op \in {"Status", "Destroy"} => req = b.ref,
           RecAsks(b, op, req), UNCHANGED <<remote, inst, made, wr, dropped>>, unheard' <=> unheard,
           call["rec"].op \notin {"Provision", "Destroy"}
    PROVE  PlaneInv'
<1>1. PICK k : k = Asks(op, req)
  OBVIOUS
<1>2. k.op = op /\ k.req = req /\ k.pc = "asked"
  BY <1>1 DEF Asks
<1>3. CallsSound' /\ call'["rec"] = k /\ call'["orphan"] = call["orphan"] /\ rec' = b /\ row' = row
  BY <1>1, <1>2, RecFrame DEF RecAsks
<1>4. RowSound'
  BY <1>2, <1>3 DEF PlaneInv, RowSound, NoBox, Rows
<1>5. KnownRef' = KnownRef
  BY <1>2, <1>3 DEF KnownRef
<1>6. ContainerKnown'
  BY <1>2, <1>3, <1>5 DEF PlaneInv, ContainerKnown, InDoubt, Unsure
<1> QED
  BY <1>3, <1>4, <1>6 DEF PlaneInv

\* It writes the row, with the id of the container it knows.
LEMMA RecWritesInv ==
    ASSUME PlaneInv, NEW b \in Rows \cup {NoBox}, RecWrites(b), UNCHANGED <<remote, inst, made, wr, dropped>>,
           \/ unheard' \/ dropped
           \/ /\ (unheard' <=> unheard) /\ (InDoubt => Unsure)
              /\ inst.ref \in {0, KnownRef} => inst.ref \in {0, IF b = NoBox THEN 0 ELSE b.ref}
    PROVE  PlaneInv'
<1>1. CallsSound' /\ call'["rec"] = NoCall /\ call'["orphan"] = call["orphan"]
      /\ rec' = NoBox /\ row' = b
  BY RecFrame DEF RecWrites
<1>2. RowSound'
  BY <1>1 DEF PlaneInv, RowSound, Idle
<1>3. KnownRef' = IF b = NoBox THEN 0 ELSE b.ref
  BY <1>1 DEF KnownRef, NoCall
<1>4. ContainerKnown'
  BY <1>1, <1>3 DEF PlaneInv, ContainerKnown, InDoubt, Unsure
<1> QED
  BY <1>1, <1>2, <1>4 DEF PlaneInv

\* Each step of the reconciler keeps the invariant.
LEMMA ReconcileOneInv ==
    ASSUME PlaneInv, ReconcileOne
    PROVE  PlaneInv'
<1>1. /\ row \in Rows /\ rec = NoBox /\ call["rec"] = NoCall
      /\ UNCHANGED <<remote, inst, made, wr, unheard, dropped>>
  BY DEF ReconcileOne, PlaneInv, RowSound, Idle
<1>2. /\ KnownRef = row.ref /\ (InDoubt => Unsure) /\ row # NoBox /\ row.ref \in 0 .. MaxRefs
      /\ call["rec"].op \notin {"Provision", "Destroy"}
  BY <1>1 DEF KnownRef, InDoubt, Unsure, NoCall, ReconcileOne, Rows
<1>3. {"EnsureHome", "Status", "Destroy"} \subseteq RecOps
  BY DEF RecOps
<1>4. CASE RecAsks(row, "EnsureHome", AskedHome)
  BY <1>1, <1>2, <1>3, <1>4, RecAsksInv, AsksSound
<1>5. CASE RecAsks(row, "Status", row.ref)
  BY <1>1, <1>2, <1>3, <1>5, RecAsksInv, AsksSound
<1>6. CASE RecAsks(row, "Destroy", row.ref)
  BY <1>1, <1>2, <1>3, <1>6, RecAsksInv, AsksSound
<1>7. CASE RecWrites([row EXCEPT !.phase = "Running"])
  <2>1. PICK b : b = [row EXCEPT !.phase = "Running"]
    OBVIOUS
  <2>2. b \in Rows /\ b.ref = row.ref /\ b # NoBox
    BY <1>1, <2>1 DEF Rows, NoBox
  <2> QED
    BY <1>1, <1>2, <1>7, <2>1, <2>2, RecWritesInv
<1>8. CASE RecWrites(NoBox) /\ row.ref = 0
  BY <1>1, <1>2, <1>8, RecWritesInv
<1> QED
  BY <1>4, <1>5, <1>6, <1>7, <1>8 DEF ReconcileOne

\* What the reconciler hears, it hears of its own row, as the provider said it.
LEMMA RecHearsWhat ==
    ASSUME PlaneInv, RecHears
    PROVE  /\ rec \in Rows /\ row \in Rows /\ (dropped \/ rec.ref = row.ref) /\ rec # NoBox /\ row # NoBox
           /\ call["rec"].op \in RecOps /\ call["rec"].pc = "answered" /\ CallSound(call["rec"])
           /\ call["rec"].op \in {"Provision", "Status"} /\ call["rec"].ans # Err =>
                /\ call["rec"].truth \in Instances
                /\ call["rec"].ans.ref = call["rec"].truth.ref
                /\ call["rec"].ans.phase = call["rec"].truth.phase
<1>1. ~Idle("rec") /\ call["rec"].pc = "answered" /\ "rec" \in Slots
  BY DEF RecHears, Idle, Slots
<1>2. /\ rec \in Rows /\ row \in Rows /\ (dropped \/ rec.ref = row.ref) /\ rec # NoBox /\ call["rec"].op \in RecOps
      /\ CallSound(call["rec"])
  BY <1>1 DEF PlaneInv, RowSound, CallsSound
<1>3. row # NoBox
  BY <1>2 DEF Rows, NoBox
<1>4. ASSUME call["rec"].op \in {"Provision", "Status"}, call["rec"].ans # Err
      PROVE  /\ call["rec"].truth \in Instances
             /\ call["rec"].ans.ref = call["rec"].truth.ref
             /\ call["rec"].ans.phase = call["rec"].truth.phase
  <2>1. /\ call["rec"].truth \in Instances
        /\ Agree(call["rec"].truth, call["rec"].ans, IsRemote(call["rec"].op))
    BY <1>1, <1>2, <1>4 DEF CallSound, Heard
  <2>2. DOMAIN call["rec"].truth = {"ref", "phase", "ip"}
    BY <2>1 DEF Instances
  <2> QED
    BY <2>1, <2>2 DEF Agree, Lost
<1> QED
  BY <1>1, <1>2, <1>3, <1>4

\* The reconciler hears an answer.
LEMMA RecHearsInv ==
    ASSUME PlaneInv, RecHears
    PROVE  PlaneInv'
<1>1. /\ rec \in Rows /\ row \in Rows /\ (dropped \/ rec.ref = row.ref) /\ rec # NoBox /\ row # NoBox
      /\ call["rec"].op \in RecOps /\ call["rec"].pc = "answered" /\ CallSound(call["rec"])
  BY RecHearsWhat
<1>2. UNCHANGED <<remote, inst, made, wr, dropped>>
  BY DEF RecHears
<1>3. PICK f : f = [rec EXCEPT !.phase = "Failed"]
  OBVIOUS
<1>4. f \in Rows /\ (dropped \/ f.ref = row.ref) /\ f # NoBox
  BY <1>1, <1>3 DEF Rows, NoBox
<1>5. CASE call["rec"].op \in {"EnsureHome", "Status"}
  <2>1. (unheard' <=> unheard) /\ (InDoubt => Unsure) /\ KnownRef = row.ref
        /\ call["rec"].op \notin {"Provision", "Destroy"}
    BY <1>1, <1>5, Zenon DEF RecHears, InDoubt, KnownRef
  <2>2. CASE RecFails
    BY <1>2, <1>3, <1>4, <2>1, <2>2, RecWritesInv DEF RecFails
  <2>3. CASE RecRests
    BY <1>1, <1>2, <2>1, <2>3, RecWritesInv DEF RecRests
  <2>4. CASE RecAsks(rec, "EnsureHome", AskedHome)
    BY <1>1, <1>2, <2>1, <2>4, RecAsksInv, AsksSound DEF RecOps
  <2>5. CASE call["rec"].ans = HomeMount /\ RecAsks(rec, "Provision", AskedBox(HomeMount))
    BY <1>1, <1>2, <2>1, <2>5, RecAsksInv, AsksBox DEF RecOps
  <2>6. CASE call["rec"].op = "EnsureHome"
    BY <1>1, <2>2, <2>5, <2>6 DEF RecHears, CallSound
  <2>7. CASE call["rec"].op = "Status"
    BY <2>2, <2>3, <2>4, <2>7 DEF RecHears, RecHearsStatus
  <2> QED
    BY <1>5, <2>6, <2>7
<1>6. CASE call["rec"].op = "Provision"
  <2>1. CASE call["rec"].ans = Err
    <3>1. RecFails /\ unheard'
      BY <1>6, <2>1 DEF RecHears
    <3> QED
      BY <1>2, <1>3, <1>4, <3>1, RecWritesInv DEF RecFails
  <2>2. CASE call["rec"].ans # Err
    <3>1. PICK b : b = [phase |-> "Provisioning", ref |-> call["rec"].ans.ref, agent |-> FALSE]
      OBVIOUS
    <3>2. RecWrites(b) /\ (unheard' <=> unheard)
      BY <1>6, <2>2, <3>1 DEF RecHears, PlaneInv, RowSound
    <3>3. call["rec"].truth.ref \in 0 .. MaxRefs /\ call["rec"].ans.ref = call["rec"].truth.ref
      BY <1>6, <2>2, RecHearsWhat DEF Instances
    <3>4. b \in Rows /\ b.ref = call["rec"].truth.ref /\ b # NoBox
      BY <3>1, <3>3 DEF Rows, NoBox
    <3>5. KnownRef = call["rec"].truth.ref /\ (InDoubt => Unsure)
      BY <1>1, <1>6, <2>2 DEF KnownRef, InDoubt
    <3> QED
      BY <1>2, <3>2, <3>4, <3>5, RecWritesInv
  <2> QED
    BY <2>1, <2>2
<1>7. CASE call["rec"].op = "Destroy"
  <2>1. (unheard' <=> unheard) /\ (InDoubt => Unsure)
    BY <1>7, Zenon DEF RecHears, InDoubt
  <2>2. CASE call["rec"].ans = Err
    <3>1. RecRests /\ KnownRef = row.ref
      BY <1>1, <1>7, <2>2 DEF RecHears, KnownRef
    <3> QED
      BY <1>1, <1>2, <2>1, <3>1, RecWritesInv DEF RecRests
  <2>3. CASE call["rec"].ans # Err
    <3>1. RecWrites(NoBox) /\ KnownRef = 0
      BY <1>1, <1>7, <2>3 DEF RecHears, KnownRef
    <3> QED
      BY <1>2, <2>1, <3>1, RecWritesInv
  <2> QED
    BY <2>2, <2>3
<1> QED
  BY <1>1, <1>5, <1>6, <1>7 DEF RecOps

\* Another writer writes a copy: the id stays, or there is doubt.
LEMMA WritesInv ==
    ASSUME PlaneInv, NEW k \in Writers, NEW b, Writes(k, b), wr[k] # NoBox => b \in Rows
    PROVE  PlaneInv'
<1>1. /\ UNCHANGED <<remote, call, rec, inst, made, unheard>> /\ wr[k] # NoBox /\ b \in Rows
      /\ wr' = [wr EXCEPT ![k] = NoBox] /\ row' = (IF row = NoBox THEN row ELSE b)
      /\ dropped' = (dropped \/ (row # NoBox /\ row.ref # b.ref))
  BY DEF Writes, WritersUnchanged
<1>2. wr' \in [Writers -> Rows \cup {NoBox}] /\ row' \in Rows \cup {NoBox}
  BY <1>1 DEF PlaneInv, RowSound
<1>3. (row' = NoBox <=> row = NoBox) /\ (row' # NoBox => row' \in Rows)
  BY <1>1 DEF Rows, NoBox
<1>4. dropped \/ dropped' \/ (row # NoBox => row'.ref = row.ref)
  BY <1>1
<1>5. CallsSound'
  BY <1>1 DEF PlaneInv, CallsSound, CallSound, Idle, Given, Heard, IsRemote
<1>6. RowSound'
  <2>1. CASE rec = NoBox
    BY <1>1, <1>2, <2>1 DEF PlaneInv, RowSound, Idle
  <2>2. CASE rec # NoBox
    <3>1. row # NoBox /\ row' \in Rows
      BY <1>3, <2>2 DEF PlaneInv, RowSound, Rows, NoBox
    <3>2. dropped' \/ rec.ref = row'.ref
      BY <1>1, <2>2, <3>1 DEF PlaneInv, RowSound
    <3> QED
      BY <1>1, <1>2, <2>2, <3>1, <3>2 DEF PlaneInv, RowSound
  <2> QED
    BY <2>1, <2>2
<1>7. CASE dropped'
  BY <1>5, <1>6, <1>7 DEF PlaneInv, ContainerKnown, InDoubt, Unsure
<1>8. CASE ~dropped'
  <2>1. ~dropped /\ (row # NoBox => row'.ref = row.ref)
    BY <1>1, <1>8
  <2>2. KnownRef' = KnownRef
    BY <1>1, <1>3, <2>1 DEF KnownRef
  <2>3. ContainerKnown'
    BY <1>1, <1>8, <2>1, <2>2, KnownSame DEF PlaneInv
  <2> QED
    BY <1>5, <1>6, <2>3 DEF PlaneInv
<1> QED
  BY <1>7, <1>8

\* A writer reads the row; a container only goes or changes phase.
LEMMA ReadsInv ==
    ASSUME PlaneInv, (\E k \in Writers : Reads(k)) \/ ContainerDies
    PROVE  PlaneInv'
<1>1. UNCHANGED <<remote, call, row, rec, made, unheard, dropped>>
  BY DEF Reads, WritersUnchanged, ContainerDies
<1>2. wr' \in [Writers -> Rows \cup {NoBox}]
  BY DEF PlaneInv, RowSound, Reads, ContainerDies
<1>3. inst' \in Containers /\ inst'.ref \in {0, inst.ref}
  <2>1. inst \in Containers
    BY DEF PlaneInv, RowSound
  <2>2. CASE inst' = inst
    BY <2>1, <2>2
  <2>3. CASE ContainerDies
    <3>1. inst \in [ref: Refs, phase: {"running", "stopped", "failed"}]
      BY <2>1, <2>3 DEF ContainerDies, Containers, NoInst
    <3> QED
      BY <2>3, <3>1 DEF ContainerDies, Containers, NoInst
  <2> QED
    BY <2>2, <2>3 DEF Reads, WritersUnchanged
<1>4. CallsSound'
  BY <1>1 DEF PlaneInv, CallsSound, CallSound, Idle, Given, Heard, IsRemote
<1>5. RowSound'
  BY <1>1, <1>2, <1>3 DEF PlaneInv, RowSound, Idle
<1>6. KnownRef' = KnownRef
  BY <1>1 DEF KnownRef
<1>7. ContainerKnown'
  BY <1>1, <1>3, <1>6, KnownSame DEF PlaneInv
<1> QED
  BY <1>4, <1>5, <1>7 DEF PlaneInv

\* The API and the sink.
LEMMA RowInv ==
    ASSUME PlaneInv, RowWrites
    PROVE  PlaneInv'
<1>0. wr \in [Writers -> Rows \cup {NoBox}] /\ {"api", "up", "down"} = Writers
  BY DEF PlaneInv, RowSound, Writers
<1>1. CASE DeleteResolves \/ AgentConnects \/ AgentLeaves
  BY <1>0, <1>1, ReadsInv DEF DeleteResolves, AgentConnects, AgentLeaves
<1>2. ASSUME NEW k \in Writers, wr[k] # NoBox
      PROVE  /\ [wr[k] EXCEPT !.phase = "Destroying"] \in Rows
             /\ [wr[k] EXCEPT !.agent = TRUE] \in Rows /\ [wr[k] EXCEPT !.agent = FALSE] \in Rows
  <2>1. wr[k] \in Rows
    BY <1>0, <1>2
  <2> QED
    BY <2>1 DEF Rows
<1>3. CASE DeleteWorkspace
  BY <1>0, <1>2, <1>3, WritesInv DEF DeleteWorkspace
<1>4. CASE SetAgentConnected
  BY <1>0, <1>2, <1>4, WritesInv DEF SetAgentConnected
<1>5. CASE SetAgentDisconnected
  BY <1>0, <1>2, <1>5, WritesInv DEF SetAgentDisconnected
<1> QED
  BY <1>1, <1>3, <1>4, <1>5 DEF RowWrites

(***************************************************************************)
(* Broken connections, crashes and restarts.                               *)
(***************************************************************************)
\* Calls are sound when each of them is.
LEMMA CallsKept ==
    ASSUME UNCHANGED remote, DOMAIN call' = Slots,
           \A t \in Slots : \E h : call'[t] = h /\ (h = NoCall \/ CallSound(h)) /\ (t \in Callers => h.op \notin RecOps)
    PROVE  CallsSound'
<1>1. \A op : IsRemote(op)' <=> IsRemote(op)
  BY DEF IsRemote
<1>2. ASSUME NEW t \in Slots, call'[t] # NoCall PROVE CallSound(call[t])'
  <2>1. PICK h : h = call'[t] /\ CallSound(h)
    BY <1>2
  <2>2. CallSound(h)'
    BY <1>1, <2>1 DEF CallSound, Given, Heard, Agree
  <2> QED
    BY <2>1, <2>2 DEF CallSound, Given, Heard
<1>3. \A c \in Callers : call'[c].op \notin RecOps
  BY DEF Slots
<1> QED
  BY <1>2, <1>3 DEF CallsSound, Idle

\* A call that is cut off is one whose caller hears an error.
LEMMA CutOffSound ==
    ASSUME NEW h, CallSound(h), IsRemote(h.op)
    PROVE  /\ CallSound(CutOff(h))
           /\ CutOff(h).op = h.op /\ CutOff(h).req = h.req /\ CutOff(h).pc = "answered" /\ CutOff(h).ans = Err
<1> DEFINE k == CutOff(h)
<1>1. /\ k.op = h.op /\ k.pc = "answered" /\ k.req = h.req /\ k.got = h.got /\ k.ans = Err
      /\ k.truth = IF h.pc = "answered" THEN h.truth ELSE Silence
  BY DEF CutOff
<1> HIDE DEF k
<1>2. CallSound(k)
  BY <1>1 DEF CallSound, Given, Heard
<1> QED
  BY <1>1, <1>2 DEF k

\* Callers hear an error, and one handler may go on for nobody.
LEMMA Broken ==
    ASSUME PlaneInv, DOMAIN call' = Slots,
           \A t \in Slots \ {"orphan"} : \/ call'[t] = call[t]
                                         \/ ~Idle(t) /\ IsRemote(call[t].op) /\ call'[t] = CutOff(call[t]),
           \/ call'["orphan"] \in {NoCall, call["orphan"]}
           \/ \E s \in Slots \ {"orphan"} :
                /\ Idle("orphan") /\ ~Idle(s) /\ call[s].pc # "answered"
                /\ call'["orphan"] = call[s] /\ call'[s] = CutOff(call[s]),
           UNCHANGED <<remote, row, rec, wr, inst, made, unheard, dropped>>
    PROVE  PlaneInv'
<1>0. {"rec", "orphan"} \subseteq Slots /\ NoCall.op = "none" /\ "orphan" \notin Callers
  BY DEF Slots, NoCall
<1>1. \A t \in Slots : ~Idle(t) => CallSound(call[t])
  BY DEF PlaneInv, CallsSound
<1>2. \A t \in Slots \ {"orphan"} :
        \/ call'[t] = call[t]
        \/ /\ ~Idle(t) /\ CallSound(call'[t]) /\ call'[t].op = call[t].op /\ call'[t].req = call[t].req
           /\ call'[t].pc = "answered" /\ call'[t].ans = Err
  BY <1>1, CutOffSound
<1>3. CallsSound'
  <2>1. ASSUME NEW t \in Slots
        PROVE  \E h : call'[t] = h /\ (h = NoCall \/ CallSound(h)) /\ (t \in Callers => h.op \notin RecOps)
    <3>1. CASE t = "orphan"
      BY <1>0, <1>1, <3>1 DEF Idle
    <3>2. CASE t # "orphan"
      BY <1>1, <1>2, <3>2 DEF PlaneInv, CallsSound, Idle
    <3> QED
      BY <3>1, <3>2
  <2> QED
    BY <2>1, CallsKept
<1>4. RowSound'
  <2>1. /\ \/ call'["rec"].op = call["rec"].op /\ call'["rec"].req = call["rec"].req
           \/ call["rec"] = NoCall
        /\ call["rec"] = NoCall => call'["rec"] = NoCall
    BY <1>0, <1>2 DEF Idle
  <2> QED
    BY <2>1 DEF PlaneInv, RowSound, Idle
<1>5. ContainerKnown'
  <2>1. CASE Unsure
    BY <2>1 DEF ContainerKnown, InDoubt, Unsure
  <2>2. CASE ~Unsure /\ call["rec"].op = "Provision" /\ call'["rec"] # call["rec"]
    BY <1>0, <1>2, <2>2 DEF ContainerKnown, InDoubt, Unsure
  <2>3. CASE ~Unsure /\ InDoubt
    BY <1>0, <1>2, <2>3 DEF ContainerKnown, InDoubt, Unsure
  <2>4. CASE ~InDoubt /\ ~(call["rec"].op = "Provision" /\ call'["rec"] # call["rec"])
    <3>1. call["orphan"].op # "Provision" /\ inst.ref \in {0, KnownRef}
      BY <2>4 DEF PlaneInv, ContainerKnown
    <3>2. call'["orphan"].op # "Provision"
      <4>1. CASE call'["orphan"] \in {NoCall, call["orphan"]}
        BY <1>0, <3>1, <4>1
      <4>2. ASSUME NEW s \in Slots \ {"orphan"}, ~Idle(s), call[s].pc # "answered",
                   call'["orphan"] = call[s], call'[s] = CutOff(call[s])
            PROVE  call[s].op # "Provision"
        <5>1. call'[s].pc = "answered"
          BY <4>2 DEF CutOff
        <5>2. CASE s = "rec"
          BY <2>4, <4>2, <5>1, <5>2
        <5>3. CASE s \in Callers
          BY <5>3 DEF PlaneInv, CallsSound, RecOps
        <5> QED
          BY <5>2, <5>3 DEF Slots
      <4> QED
        BY <4>1, <4>2
    <3>3. inst.ref \in {0, KnownRef'}
      <4>1. CASE call'["rec"] = call["rec"]
        BY <3>1, <4>1 DEF KnownRef
      <4>2. CASE call'["rec"] # call["rec"]
        <5>1. KnownRef' = IF row = NoBox THEN 0 ELSE row.ref
          BY <1>0, <1>2, <2>4, <4>2 DEF KnownRef
        <5>2. KnownRef \in {0, IF row = NoBox THEN 0 ELSE row.ref}
          BY <2>4, <4>2 DEF KnownRef
        <5> QED
          BY <3>1, <5>1, <5>2
      <4> QED
        BY <4>1, <4>2
    <3> QED
      BY <3>2, <3>3 DEF ContainerKnown
  <2> QED
    BY <2>1, <2>2, <2>3, <2>4
<1> QED
  BY <1>3, <1>4, <1>5 DEF PlaneInv

\* A connection breaks, or the provider dies.
LEMMA BreaksInv ==
    ASSUME PlaneInv, (\E s \in Slots : Breaks(s)) \/ (\E p \in Ports : ProviderCrashes(p))
    PROVE  PlaneInv'
<1>0. DOMAIN call = Slots /\ {"rec", "orphan"} \subseteq Slots
  BY DEF PlaneInv, CallsSound, Slots
<1>1. ASSUME NEW s \in Slots, Breaks(s) PROVE PlaneInv'
  <2>1. /\ s # "orphan" /\ ~Idle(s) /\ IsRemote(call[s].op)
        /\ UNCHANGED <<remote, row, rec, wr, inst, made, unheard, dropped>>
    BY <1>1 DEF Breaks
  <2>2. CASE call' = [call EXCEPT ![s] = CutOff(call[s])]
    BY <1>0, <2>1, <2>2, Broken
  <2>3. CASE /\ Idle("orphan") /\ s \in Detachable
             /\ call' = [call EXCEPT ![s] = CutOff(call[s]), !["orphan"] = call[s]]
    <3>1. call[s].pc # "answered"
      BY <2>3 DEF Detachable
    <3> QED
      BY <1>0, <2>1, <2>3, <3>1, Broken
  <2> QED
    BY <1>1, <2>2, <2>3 DEF Breaks
<1>2. ASSUME NEW p \in Ports, ProviderCrashes(p) PROVE PlaneInv'
  <2>1. DOMAIN call' = Slots /\ UNCHANGED <<remote, row, rec, wr, inst, made, unheard, dropped>>
    BY <1>2 DEF ProviderCrashes
  <2>2. ASSUME NEW t \in Slots
        PROVE  \/ call'[t] = call[t]
               \/ t = "orphan" /\ call'[t] = NoCall
               \/ t # "orphan" /\ ~Idle(t) /\ IsRemote(call[t].op) /\ call'[t] = CutOff(call[t])
    BY <1>2 DEF ProviderCrashes, Detachable
  <2> QED
    BY <1>0, <2>1, <2>2, Broken
<1> QED
  BY <1>1, <1>2

\* hopboxd restarts: a Provision in flight is one it will never hear of.
LEMMA RestartInv ==
    ASSUME PlaneInv, Restart
    PROVE  PlaneInv'
<1>0. DOMAIN call = Slots /\ {"rec", "orphan"} \subseteq Slots /\ NoCall.op = "none" /\ "rec" \notin Callers
      /\ "orphan" \notin Callers
  BY DEF PlaneInv, CallsSound, Slots, NoCall
<1>1. /\ UNCHANGED <<remote, row, inst, made, dropped>> /\ rec' = NoBox /\ wr' = [k \in Writers |-> NoBox]
      /\ unheard' = (unheard \/ (~Idle("rec") /\ call["rec"].op = "Provision"))
  BY DEF Restart
<1>2. PICK left : /\ left = call["orphan"] \/ \E s \in Slots : ~Idle(s) /\ left = call[s]
                  /\ call' = [s \in Slots |-> IF s = "orphan" THEN left ELSE NoCall]
  BY DEF Restart, Detachable
<1>3. /\ DOMAIN call' = Slots /\ call'["orphan"] = left
      /\ \A t \in Slots \ {"orphan"} : call'[t] = NoCall
  BY <1>0, <1>2
<1>4. left = NoCall \/ CallSound(left)
  BY <1>0, <1>2 DEF PlaneInv, CallsSound, Idle
<1>5. CallsSound'
  <2>1. ASSUME NEW t \in Slots
        PROVE  \E h : call'[t] = h /\ (h = NoCall \/ CallSound(h)) /\ (t \in Callers => h.op \notin RecOps)
    BY <1>0, <1>3, <1>4 DEF RecOps
  <2> QED
    BY <1>1, <1>3, <2>1, CallsKept
<1>6. RowSound'
  BY <1>0, <1>1, <1>3 DEF PlaneInv, RowSound, Idle
<1>7. ContainerKnown'
  <2>1. CASE Unsure \/ (~Idle("rec") /\ call["rec"].op = "Provision")
    BY <1>1, <2>1 DEF ContainerKnown, InDoubt, Unsure
  <2>2. CASE ~Unsure /\ ~(~Idle("rec") /\ call["rec"].op = "Provision")
    <3>1. call["rec"].op # "Provision"
      BY <1>0, <2>2 DEF Idle
    <3>2. call["orphan"].op # "Provision" /\ inst.ref \in {0, KnownRef}
      BY <2>2, <3>1 DEF PlaneInv, ContainerKnown, InDoubt
    <3>3. call'["orphan"].op # "Provision"
      <4>1. \A c \in Callers : call[c].op # "Provision"
        BY DEF PlaneInv, CallsSound, RecOps
      <4> QED
        BY <1>2, <1>3, <3>1, <3>2, <4>1 DEF Slots
    <3>4. KnownRef' = IF row = NoBox THEN 0 ELSE row.ref
      BY <1>0, <1>1, <1>3 DEF KnownRef
    <3>5. KnownRef \in {0, IF row = NoBox THEN 0 ELSE row.ref}
      BY <3>1 DEF KnownRef
    <3> QED
      BY <1>1, <3>2, <3>3, <3>4, <3>5 DEF ContainerKnown
  <2> QED
    BY <2>1, <2>2
<1> QED
  BY <1>5, <1>6, <1>7 DEF PlaneInv

(***************************************************************************)
(* The theorems.                                                           *)
(***************************************************************************)
\* The initial state is sound.
LEMMA PlaneInvInit == Init => PlaneInv
<1> SUFFICES ASSUME Init PROVE PlaneInv
  OBVIOUS
<1>1. {"rec", "orphan"} \subseteq Slots /\ NoCall.op = "none" /\ Callers \subseteq Slots
  BY DEF Slots, NoCall
<1>2. DOMAIN call = Slots /\ \A s \in Slots : call[s] = NoCall
  BY DEF Init
<1>3. CallsSound
  BY <1>1, <1>2 DEF CallsSound, Idle, RecOps
<1>4. RowSound
  BY <1>1, <1>2 DEF Init, RowSound, Rows, Containers, Idle
<1>5. ContainerKnown
  BY <1>1, <1>2 DEF Init, ContainerKnown, NoInst
<1> QED
  BY <1>3, <1>4, <1>5 DEF PlaneInv

\* Every step keeps the plane sound.
LEMMA PlaneInvNext == PlaneInv /\ [Next]_vars => PlaneInv'
<1> SUFFICES ASSUME PlaneInv, [Next]_vars PROVE PlaneInv'
  OBVIOUS
<1>1. CASE UNCHANGED vars
  BY <1>1 DEF vars, PlaneInv, CallsSound, CallSound, Given, Heard, IsRemote, RowSound, Idle,
              ContainerKnown, InDoubt, Unsure, KnownRef
<1>2. CASE Next
  BY <1>2, ReconcileOneInv, RecHearsInv, RowInv, ReadsInv, RestartInv, DockerInv, ProviderInv, BreaksInv, CallersInv
     DEF Next, RecStep
<1> QED
  BY <1>1, <1>2

\* Whatever breaks, crashes or restarts, calls are given and heard as meant, and the
\* row names the container unless a success was not heard or an older copy of the row
\* was written back.
THEOREM PlaneInvariant == Spec => []PlaneInv
<1>1. Init => PlaneInv
  BY PlaneInvInit
<1>2. PlaneInv /\ [Next]_vars => PlaneInv'
  BY PlaneInvNext
<1> QED
  BY <1>1, <1>2, PTL DEF Spec

\* A remote provider is given what the caller asked, and an answer without an error is
\* the provider's to that call: only the fields the messages have no place for are lost.
THEOREM PlaneHeardTrue == Spec => []HeardTrue
<1>1. PlaneInv => HeardTrue
  BY DEF PlaneInv, CallsSound, CallSound, HeardTrue
<1> QED
  BY <1>1, PlaneInvariant, PTL

\* A container outlives its row only if the success of a Provision was never heard, or
\* an older copy of the row took its id from it.
THEOREM PlaneOrphanIsUnheard == Spec => []OrphanIsUnheard
<1>1. PlaneInv => OrphanIsUnheard
  <2> SUFFICES ASSUME PlaneInv, row = NoBox, inst # NoInst PROVE unheard \/ dropped
    BY DEF OrphanIsUnheard
  <2>1. call["rec"] = NoCall
    BY DEF PlaneInv, RowSound, Idle, NoBox, Rows
  <2>2. KnownRef = 0 /\ (InDoubt => Unsure)
    BY <2>1 DEF KnownRef, InDoubt, NoCall
  <2>3. inst.ref # 0
    BY DEF PlaneInv, RowSound, Containers, Refs
  <2> QED
    BY <2>2, <2>3 DEF PlaneInv, ContainerKnown, Unsure
<1> QED
  BY <1>1, PlaneInvariant, PTL

\* Only the reconciler turns its own call into another one.
LEMMA SameOp ==
    ASSUME PlaneInv, Next, rec # NoBox, ~RecHears
    PROVE  call'["rec"].op \in {call["rec"].op, "none"}
<1>0. DOMAIN call = Slots /\ {"rec", "orphan"} \subseteq Slots /\ NoCall.op = "none" /\ "rec" \notin Callers
  BY DEF PlaneInv, CallsSound, Slots, NoCall
<1>1. \A h, ans : Answered(h, ans).op = h.op /\ CutOff(h).op = h.op
  BY DEF Answered, CutOff
<1>2. ASSUME NEW s \in Slots, NEW ans, Answer(s, ans) PROVE call'["rec"].op \in {call["rec"].op, "none"}
  BY <1>0, <1>1, <1>2 DEF Answer
<1>3. ASSUME NEW s \in Slots, NEW pc, NEW ref, GoesOn(s, pc, ref), call[s].op = "Provision"
      PROVE  call'["rec"].op \in {call["rec"].op, "none"}
  BY <1>0, <1>3 DEF GoesOn
<1>4. ASSUME NEW s \in Slots, DockerStep(s) PROVE call'["rec"].op \in {call["rec"].op, "none"}
  <2>1. CASE Status(s) \/ Destroy(s) \/ EnsureHome(s)
    BY <1>2, <2>1 DEF Status, Destroy, EnsureHome
  <2>2. CASE StageAgent(s) \/ EnsureNetwork(s) \/ EnsureImage(s)
    BY <1>2, <1>3, <2>2 DEF StageAgent, EnsureNetwork, EnsureImage, Prepares, Provisions
  <2>3. CASE RemoveStale(s) \/ ContainerCreate(s) \/ ContainerStart(s)
    BY <1>2, <1>3, <2>3 DEF RemoveStale, ContainerCreate, ContainerStart, Provisions
  <2> QED
    BY <1>4, <2>1, <2>2, <2>3 DEF DockerStep
<1>5. ASSUME NEW s \in Slots, ProviderStep(s) PROVE call'["rec"].op \in {call["rec"].op, "none"}
  BY <1>2, <1>5 DEF ProviderStep, Expose, Unexpose, Authenticate, Authorize, Emit, Quota, Resolve, BuildStatus
<1>6. ASSUME NEW s \in Slots, Breaks(s) PROVE call'["rec"].op \in {call["rec"].op, "none"}
  <2>1. s # "orphan"
    BY <1>6 DEF Breaks
  <2> QED
    BY <1>0, <1>1, <1>6, <2>1 DEF Breaks
<1>7. ASSUME NEW p \in Ports, ProviderCrashes(p) PROVE call'["rec"].op \in {call["rec"].op, "none"}
  <2>1. call'["rec"] \in {call["rec"], CutOff(call["rec"])}
    BY <1>0, <1>7 DEF ProviderCrashes
  <2> QED
    BY <1>0, <1>1, <2>1
<1>8. CASE Restart
  BY <1>0, <1>8 DEF Restart
<1>9. ASSUME NEW c \in Callers, Invokes(c) \/ InvokesEmit(c) \/ Hears(c)
      PROVE  call'["rec"].op \in {call["rec"].op, "none"}
  <2>1. c # "rec" /\ \E k : call' = [call EXCEPT ![c] = k]
    BY <1>0, <1>9 DEF Invokes, InvokesEmit, Hears, Invoke
  <2> QED
    BY <1>0, <2>1
<1>10. CASE RowWrites \/ ContainerDies
  BY <1>10 DEF RowWrites, DeleteResolves, DeleteWorkspace, AgentConnects, AgentLeaves, SetAgentConnected,
               SetAgentDisconnected, Reads, Writes, WritersUnchanged, ContainerDies
<1>11. ~ReconcileOne
  BY DEF ReconcileOne
<1> QED
  BY <1>4, <1>5, <1>6, <1>7, <1>8, <1>9, <1>10, <1>11 DEF Next, RecStep

\* A running box is rebuilt only after the provider said that its instance is dead.
THEOREM PlaneHealsOnlyDead == Spec => HealsOnlyDead
<1> DEFINE Heals == /\ row # NoBox /\ rec # NoBox /\ rec.phase = "Running" /\ call["rec"].op = "Status"
                    /\ call'["rec"].op = "EnsureHome"
           Dead == call["rec"].truth \notin {Err, Silence} /\ call["rec"].truth.phase \in {"gone", "failed"}
<1>1. ASSUME PlaneInv, Next, Heals PROVE Dead
  <2>1. RecHears
    BY <1>1, SameOp
  <2>2. RecHearsStatus(call["rec"].ans)
    BY <1>1, <2>1 DEF RecHears
  <2>3. ASSUME NEW b, RecWrites(b) PROVE FALSE
    BY <1>1, <2>3 DEF RecWrites, NoCall, PlaneInv, CallsSound, Slots
  <2>4. call["rec"].ans # Err /\ call["rec"].ans.phase \in {"gone", "failed"}
    BY <2>2, <2>3 DEF RecHearsStatus, RecRests
  <2>5. call["rec"].truth \in Instances /\ call["rec"].ans.phase = call["rec"].truth.phase
    BY <1>1, <2>1, <2>4, RecHearsWhat
  <2>6. call["rec"].truth \notin {Err, Silence}
    BY <2>5 DEF Instances, Err, Silence
  <2> QED
    BY <2>4, <2>5, <2>6
<1>2. PlaneInv /\ [Next]_vars => [Heals => Dead]_vars
  BY <1>1
<1> QED
  BY <1>2, PlaneInvariant, PTL DEF Spec, HealsOnlyDead
=============================================================================
