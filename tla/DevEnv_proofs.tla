---------------------------- MODULE DevEnv_proofs ----------------------------
(***************************************************************************)
(* What the hooks of a workspace guarantee for any number of workspaces,   *)
(* ports, concurrent writers, faults and restarts.                         *)
(***************************************************************************)
EXTENDS DevEnv, TLAPS

USE DevEnvAssumption DEF At

(***************************************************************************)
(* The operators.                                                          *)
(***************************************************************************)
\* A row is not the absence of one.
LEMMA RowIsNotNoRow == \A r \in Row : r # NoRow /\ r.eps \subseteq Ingress
<1> TAKE r \in Row
<1>1. r.phase # "none" /\ r.eps \subseteq Ingress
  BY DEF Row, Phases
<1> QED
  BY <1>1 DEF NoRow

\* The box columns of a row are a box.
LEMMA BoxOfRow == \A r \in Row : BoxOf(r) \in Bare
<1> TAKE r \in Row
<1>1. BoxOf(r) \in Row /\ ~BoxOf(r).home /\ BoxOf(r).eps = {}
  BY DEF BoxOf, Row
<1> QED
  BY <1>1 DEF Bare

\* A new phase leaves a row a row, and a box a box.
LEMMA PhaseOfRow ==
    ASSUME NEW f \in Phases
    PROVE  /\ \A r \in Row : [r EXCEPT !.phase = f] \in Row
           /\ \A r \in Bare : [r EXCEPT !.phase = f] \in Bare
<1>1. \A r \in Row : [r EXCEPT !.phase = f] \in Row
  BY DEF Row
<1>2. ASSUME NEW r \in Bare PROVE [r EXCEPT !.phase = f] \in Bare
  <2>1. r \in Row /\ ~r.home /\ r.eps = {}
    BY DEF Bare
  <2>2. LET q == [r EXCEPT !.phase = f] IN q \in Row /\ ~q.home /\ q.eps = {}
    BY <2>1 DEF Row
  <2> QED
    BY <2>2 DEF Bare
<1> QED
  BY <1>1, <1>2

\* Wherever ReconcileOne goes, it goes with the id and a copy of the row it read.
LEMMA DispatchGoes ==
    ASSUME TypeOK, NEW i \in Ids, Exists(i)
    PROVE  /\ Dispatch(i) \in RecState
           /\ Dispatch(i).pc \in {"idle", "home", "putGet", "exposeGet", "unexpose"}
           /\ Dispatch(i).pc # "idle" => Dispatch(i).id = i /\ Dispatch(i).b \in Bare
<1> DEFINE b == rows[i]
<1>1. b \in Row
  BY DEF TypeOK, Exists
<1>2. IdleRec \in RecState /\ IdleRec.pc = "idle"
  BY DEF IdleRec, RecState
<1>3. ASSUME NEW pc \in {"home", "putGet", "exposeGet", "unexpose"}, NEW c \in Bare
      PROVE  LET s == [pc |-> pc, id |-> i, b |-> c, w |-> NoRow]
             IN  s \in RecState /\ s.pc = pc /\ s.id = i /\ s.b = c
  BY DEF RecState
<1>4. /\ BoxOf(b) \in Bare
      /\ BoxOf([b EXCEPT !.phase = "Running"]) \in Bare
      /\ BoxOf([b EXCEPT !.phase = "Failed"]) \in Bare
  BY <1>1, BoxOfRow, PhaseOfRow DEF Phases
<1>5. \/ Dispatch(i) = IdleRec
      \/ \E pc \in {"home", "putGet", "exposeGet", "unexpose"}, c \in Bare :
            Dispatch(i) = [pc |-> pc, id |-> i, b |-> c, w |-> NoRow]
  BY <1>4 DEF Dispatch
<1> QED
  BY <1>2, <1>3, <1>5

\* A whole-row write changes no row's existence, and a route whose endpoint it drops
\* is recorded as lost.
LEMMA UpdateKeeps ==
    ASSUME TypeOK, NEW i \in Ids, NEW w \in Row, UpdateWorkspace(i, w)
    PROVE  /\ rows' \in [Ids -> Row \cup {NoRow}] /\ lost' \subseteq Ids \X Ingress
           /\ \A j \in Ids : Exists(j)' <=> Exists(j)
           /\ \A j \in Ids : j # i => rows'[j] = rows[j]
           /\ Exists(i) => rows'[i] = w
           /\ lost \subseteq lost'
           /\ \A j \in Ids, n \in Ingress :
                (Exists(j) /\ n \in rows[j].eps /\ <<j, n>> \notin lost') => n \in rows'[j].eps
<1>1. CASE Exists(i)
  <2>1. rows' = [rows EXCEPT ![i] = w] /\ lost' = lost \cup {<<i, n>> : n \in rows[i].eps \ w.eps}
    BY <1>1 DEF UpdateWorkspace
  <2>2. rows[i] \in Row /\ rows[i].eps \subseteq Ingress /\ w # NoRow
    BY <1>1, RowIsNotNoRow DEF TypeOK, Exists
  <2>3. /\ rows' \in [Ids -> Row \cup {NoRow}] /\ rows'[i] = w
        /\ \A j \in Ids : j # i => rows'[j] = rows[j]
    BY <2>1 DEF TypeOK
  <2>4. \A j \in Ids : Exists(j)' <=> Exists(j)
    BY <1>1, <2>2, <2>3 DEF Exists
  <2>5. lost' \subseteq Ids \X Ingress
    BY <2>1, <2>2 DEF TypeOK
  <2>6. \A j \in Ids, n \in Ingress :
          (Exists(j) /\ n \in rows[j].eps /\ <<j, n>> \notin lost') => n \in rows'[j].eps
    BY <2>1, <2>3
  <2> QED
    BY <2>1, <2>3, <2>4, <2>5, <2>6
<1>2. CASE ~Exists(i)
  BY <1>2 DEF UpdateWorkspace, TypeOK, Exists
<1> QED
  BY <1>1, <1>2

\* A writer that reads a row holds a row.
LEMMA ReadsKeep ==
    ASSUME DevInv, NEW k \in Writers, NEW i \in Ids, Reads(k, i)
    PROVE  /\ wr' \in [Writers -> WriterState]
           /\ \A j \in Writers : wr'[j] # IdleWriter => wr'[j].id \in Ids /\ wr'[j].w \in Row
<1> DEFINE c == [id |-> i, w |-> rows[i]]
<1>1. rows[i] \in Row
  BY DEF DevInv, TypeOK, Reads, Exists
<1>2. c \in WriterState /\ c.id = i /\ c.w = rows[i]
  BY <1>1 DEF WriterState
<1>3. wr' = [wr EXCEPT ![k] = c] /\ wr \in [Writers -> WriterState]
  BY DEF DevInv, TypeOK, Reads
<1> HIDE DEF c
<1> QED
  BY <1>1, <1>2, <1>3 DEF DevInv, CopiesSound

\* A writer that writes had a row, and holds none afterwards.
LEMMA WritesKeep ==
    ASSUME DevInv, NEW k \in Writers, NEW w, Writes(k, w)
    PROVE  /\ wr[k].id \in Ids /\ wr[k].w \in Row /\ UpdateWorkspace(wr[k].id, w)
           /\ wr' \in [Writers -> WriterState]
           /\ \A j \in Writers : wr'[j] # IdleWriter => wr'[j].id \in Ids /\ wr'[j].w \in Row
<1>1. IdleWriter \in WriterState
  BY DEF IdleWriter, WriterState
<1> QED
  BY <1>1 DEF DevInv, TypeOK, CopiesSound, Writes

\* Homes are sound as long as nobody touches them and no instance appears.
LEMMA HomesSame ==
    ASSUME DevInv, TypeOK', homes' = homes, budget'.restarts = budget.restarts,
           \A i \in Ids : inst'[i] # "none" => inst[i] # "none",
           \/ rec' = rec
           \/ /\ rec.pc # "mkfs" /\ rec'.pc # "mkfs"
              /\ rec'.pc \in {"homeGet", "homePut", "compute"} =>
                   rec'.id = rec.id /\ rec.pc \in {"homeGet", "homePut", "compute"}
    PROVE  HomesSound'
BY DEF DevInv, CopiesSound, HomesSound, TypeOK

\* Routes are sound after a step that leaves rows and routes alone.
LEMMA RoutesSame ==
    ASSUME DevInv, UNCHANGED <<rows, routes, lost, used>>,
           \/ rec' = rec
           \/ rec.pc # "exposePut" /\ rec'.pc \notin {"exposePut", "destroy", "delete"}
           \/ rec.pc = "destroy" /\ rec'.pc = "delete" /\ rec'.id = rec.id
    PROVE  RoutesSound'
BY DEF DevInv, RoutesSound, Exists

\* Routes are sound after a whole-row write, however stale.
LEMMA RoutesUpdated ==
    ASSUME DevInv, NEW i \in Ids, NEW w \in Row, UpdateWorkspace(i, w), UNCHANGED <<routes, used>>,
           \/ rec' = rec
           \/ rec.pc # "exposePut" /\ rec'.pc \notin {"exposePut", "destroy", "delete"}
    PROVE  RoutesSound'
<1>1. /\ \A j \in Ids : Exists(j)' <=> Exists(j)
      /\ lost \subseteq lost'
      /\ \A j \in Ids, n \in Ingress :
           (Exists(j) /\ n \in rows[j].eps /\ <<j, n>> \notin lost') => n \in rows'[j].eps
  BY UpdateKeeps DEF DevInv
<1>2. \A j \in Ids : Exists(j)' => j \in used'
  BY <1>1 DEF DevInv, RoutesSound
<1>3. rec'.pc = "exposePut" => rows'[rec'.id] # NoRow
  BY <1>1 DEF DevInv, RoutesSound, CopiesSound, Exists
<1>4. ASSUME NEW r \in routes' \ lost'
      PROVE  /\ rows'[r[1]] # NoRow
             /\ r[2] \in rows'[r[1]].eps \/ (rec'.pc = "exposePut" /\ rec'.id = r[1])
             /\ rec'.pc \in {"destroy", "delete"} => r[1] # rec'.id
  <2>1. PICK j \in Ids, n \in Ingress : r = <<j, n>> /\ r[1] = j /\ r[2] = n
    BY DEF DevInv, TypeOK
  <2>2. r \in routes \ lost
    BY <1>1
  <2>3. /\ Exists(j)
        /\ n \in rows[j].eps \/ (rec.pc = "exposePut" /\ rec.id = j)
        /\ rec.pc \in {"destroy", "delete"} => j # rec.id
    BY <2>1, <2>2 DEF DevInv, RoutesSound
  <2>4. Exists(j)' /\ (n \in rows[j].eps => n \in rows'[j].eps)
    BY <1>1, <2>1, <2>3
  <2> QED
    BY <2>1, <2>3, <2>4 DEF Exists
<1>5. \A r \in routes' : r[1] \in used'
  BY DEF DevInv, RoutesSound
<1> QED
  BY <1>2, <1>3, <1>4, <1>5 DEF RoutesSound, Exists

\* One fault less leaves the budget a budget.
LEMMA BudgetSpent ==
    ASSUME budget \in Budget
    PROVE  /\ budget.faults > 0 => [budget EXCEPT !.faults = @ - 1] \in Budget
           /\ budget.deletes > 0 => [budget EXCEPT !.deletes = @ - 1] \in Budget
           /\ budget.meta > 0 => [budget EXCEPT !.meta = @ - 1] \in Budget
           /\ budget.restarts > 0 => [budget EXCEPT !.restarts = @ - 1] \in Budget
           /\ [budget EXCEPT !.faults = @ - 1].restarts = budget.restarts
           /\ [budget EXCEPT !.deletes = @ - 1].restarts = budget.restarts
           /\ [budget EXCEPT !.meta = @ - 1].restarts = budget.restarts
           /\ budget.restarts > 0 => [budget EXCEPT !.restarts = @ - 1].restarts < MaxRestarts
BY DEF Budget

(***************************************************************************)
(* The initial state and the steps.                                        *)
(***************************************************************************)
\* The initial state satisfies the invariant.
LEMMA DevInvInit == Init => DevInv
<1> SUFFICES ASSUME Init PROVE DevInv
  OBVIOUS
<1> USE DEF Init
<1>1. IdleRec \in RecState /\ IdleWriter \in WriterState /\ IdleRec.pc = "idle"
  BY DEF IdleRec, RecState, IdleWriter, WriterState
<1>2. TypeOK
  <2>1. budget \in Budget
    BY DEF Budget
  <2> QED
    BY <1>1, <2>1 DEF TypeOK
<1>3. CopiesSound /\ HomesSound /\ RoutesSound
  BY <1>1 DEF CopiesSound, HomesSound, RoutesSound, Exists
<1> QED
  BY <1>2, <1>3 DEF DevInv

\* The steps that read a row for a writer, or touch no row at all.
LEMMA ReadersInv ==
    ASSUME DevInv, NEW i \in Ids,
           \/ DeleteResolves(i) \/ MetaReads(i) \/ AgentConnects(i) \/ AgentLeaves(i) \/ InstanceDies(i)
    PROVE  DevInv'
<1>1. /\ UNCHANGED <<block, rows, routes, homes, woken, rec, used, lost>>
      /\ up' \subseteq Ids
  BY DEF DevInv, TypeOK, DeleteResolves, MetaReads, AgentConnects, AgentLeaves, InstanceDies
<1>2. budget' \in Budget /\ budget'.restarts = budget.restarts
  <2>1. budget \in Budget
    BY DEF DevInv, TypeOK
  <2>2. \/ budget' = budget
        \/ budget.faults > 0 /\ budget' = [budget EXCEPT !.faults = @ - 1]
        \/ budget.deletes > 0 /\ budget' = [budget EXCEPT !.deletes = @ - 1]
        \/ budget.meta > 0 /\ budget' = [budget EXCEPT !.meta = @ - 1]
    BY DEF DeleteResolves, MetaReads, AgentConnects, AgentLeaves, InstanceDies
  <2> QED
    BY <2>1, <2>2, BudgetSpent
<1>3. /\ wr' \in [Writers -> WriterState]
      /\ \A j \in Writers : wr'[j] # IdleWriter => wr'[j].id \in Ids /\ wr'[j].w \in Row
  <2>1. UNCHANGED wr \/ \E k \in Writers : Reads(k, i)
    BY DEF DeleteResolves, MetaReads, AgentConnects, AgentLeaves, InstanceDies, Writers
  <2> QED
    BY <2>1, ReadsKeep DEF DevInv, TypeOK, CopiesSound
<1>4. /\ inst' \in [Ids -> {"none", "up", "dead"}]
      /\ \A j \in Ids : inst'[j] # "none" => inst[j] # "none"
  BY DEF DevInv, TypeOK, DeleteResolves, MetaReads, AgentConnects, AgentLeaves, InstanceDies
<1>5. TypeOK'
  BY <1>1, <1>2, <1>3, <1>4 DEF DevInv, TypeOK
<1>6. CopiesSound'
  BY <1>1, <1>3 DEF DevInv, CopiesSound
<1>7. HomesSound'
  BY <1>1, <1>2, <1>4, <1>5, HomesSame
<1>8. RoutesSound'
  BY <1>1, RoutesSame
<1> QED
  BY <1>5, <1>6, <1>7, <1>8 DEF DevInv

\* The whole-row writes of the API, the sink and the metadata API.
LEMMA WritersInv ==
    ASSUME DevInv, DeleteFlags \/ SinkWrites \/ MetaWrites
    PROVE  DevInv'
<1>1. PICK k \in Writers, f \in {"phase", "agent", "none"} :
        LET v == wr[k].w IN
        Writes(k, IF f = "phase" THEN [v EXCEPT !.phase = "Destroying"]
                  ELSE IF f = "agent" THEN [v EXCEPT !.agent = wr[k].id \in up] ELSE v)
  BY DEF DeleteFlags, SinkWrites, MetaWrites, Writers
<1> DEFINE v == wr[k].w
<1> DEFINE w == IF f = "phase" THEN [v EXCEPT !.phase = "Destroying"]
                ELSE IF f = "agent" THEN [v EXCEPT !.agent = wr[k].id \in up] ELSE v
<1>2. Writes(k, w)
  BY <1>1
<1>3. /\ wr[k].id \in Ids /\ v \in Row /\ UpdateWorkspace(wr[k].id, w)
      /\ wr' \in [Writers -> WriterState]
      /\ \A j \in Writers : wr'[j] # IdleWriter => wr'[j].id \in Ids /\ wr'[j].w \in Row
  <2> HIDE DEF w
  <2> QED
    BY <1>2, WritesKeep
<1>4. w \in Row
  <2>1. [v EXCEPT !.phase = "Destroying"] \in Row
    BY <1>3, PhaseOfRow DEF Phases
  <2>2. [v EXCEPT !.agent = wr[k].id \in up] \in Row
    <3>1. ASSUME NEW a \in BOOLEAN PROVE [v EXCEPT !.agent = a] \in Row
      BY <1>3 DEF Row
    <3>2. CASE wr[k].id \in up
      <4>1. (wr[k].id \in up) = TRUE
        BY <3>2
      <4> QED
        BY <3>1, <4>1, Zenon
    <3>3. CASE wr[k].id \notin up
      <4>1. (wr[k].id \in up) = FALSE
        BY <3>3
      <4> QED
        BY <3>1, <4>1, Zenon
    <3> QED
      BY <3>2, <3>3
  <2> QED
    BY <1>3, <2>1, <2>2
<1>5. /\ UNCHANGED <<block, routes, homes, inst, up, rec, used, budget>>
      /\ woken' \subseteq Ids
  <2>1. UNCHANGED <<block, routes, homes, inst, up, rec, used, budget>>
    BY DEF DeleteFlags, SinkWrites, MetaWrites
  <2>2. woken' = woken \/ (wr["sink"].id \in Ids /\ woken' = woken \cup {wr["sink"].id})
                 \/ (wr["sink"].id \in Ids /\ woken' = woken)
    <3>1. SinkWrites => wr["sink"].id \in Ids
      BY WritesKeep DEF SinkWrites, Writers
    <3> QED
      BY <3>1 DEF DeleteFlags, SinkWrites, MetaWrites, Publish
  <2> QED
    BY <2>1, <2>2 DEF DevInv, TypeOK
<1> HIDE DEF w, v
<1>6. TypeOK'
  BY <1>3, <1>4, <1>5, UpdateKeeps DEF DevInv, TypeOK
<1>7. CopiesSound'
  BY <1>3, <1>5 DEF DevInv, CopiesSound
<1>8. HomesSound'
  BY <1>5, <1>6, HomesSame
<1>9. RoutesSound'
  BY <1>3, <1>4, <1>5, RoutesUpdated
<1> QED
  BY <1>6, <1>7, <1>8, <1>9 DEF DevInv

\* A new workspace takes an id that no route was ever made for.
LEMMA CreateWorkspaceInv ==
    ASSUME DevInv, NEW i \in Ids, CreateWorkspace(i) PROVE DevInv'
<1>1. /\ UNCHANGED <<block, routes, homes, inst, up, woken, rec, wr, lost, budget>>
      /\ rows' = [rows EXCEPT ![i] = Fresh] /\ used' = used \cup {i} /\ i \notin used
      /\ rows \in [Ids -> Row \cup {NoRow}]
  BY DEF DevInv, TypeOK, CreateWorkspace
<1>2. Fresh \in Row
  BY DEF Fresh, Row, Phases
<1>3. TypeOK'
  BY <1>1, <1>2 DEF DevInv, TypeOK
<1>4. CopiesSound'
  BY <1>1 DEF DevInv, CopiesSound
<1>5. HomesSound'
  BY <1>1, <1>3, HomesSame
<1>6. RoutesSound'
  <2>1. /\ \A j \in Ids \ {i} : rows'[j] = rows[j]
        /\ rows'[i] = Fresh /\ Fresh # NoRow
    BY <1>1, <1>2, RowIsNotNoRow
  <2>2. \A r \in routes : r[1] \in Ids \ {i}
    BY <1>1 DEF DevInv, TypeOK, RoutesSound
  <2>3. rec.pc = "exposePut" => rec.id \in Ids \ {i}
    BY <1>1 DEF DevInv, CopiesSound, RoutesSound
  <2> QED
    BY <1>1, <2>1, <2>2, <2>3 DEF DevInv, RoutesSound, Exists
<1> QED
  BY <1>3, <1>4, <1>5, <1>6 DEF DevInv

\* ReconcileOne begins with the row as it is, or does nothing.
LEMMA DispatchInv ==
    ASSUME DevInv, NEW i \in Ids, Sweep(i) \/ Event(i) PROVE DevInv'
<1>1. /\ UNCHANGED <<block, rows, routes, homes, inst, up, wr, used, lost, budget>>
      /\ woken' \subseteq Ids /\ rec.pc = "idle"
  BY DEF DevInv, TypeOK, Sweep, Event
<1>2. /\ rec' \in RecState /\ rec'.pc \in {"idle", "home", "putGet", "exposeGet", "unexpose"}
      /\ rec'.pc # "idle" => rec'.id = i /\ rec'.b \in Bare
  <2>1. IdleRec \in RecState /\ IdleRec.pc = "idle"
    BY DEF IdleRec, RecState
  <2>2. rec' = IdleRec \/ (Exists(i) /\ rec' = Dispatch(i))
    BY DEF Sweep, Event
  <2> QED
    BY <2>1, <2>2, DispatchGoes DEF DevInv
<1>3. TypeOK'
  BY <1>1, <1>2 DEF DevInv, TypeOK
<1>4. CopiesSound'
  BY <1>1, <1>2 DEF DevInv, CopiesSound
<1>5. HomesSound'
  BY <1>1, <1>2, <1>3, HomesSame
<1>6. RoutesSound'
  BY <1>1, <1>2, RoutesSame
<1> QED
  BY <1>3, <1>4, <1>5, <1>6 DEF DevInv

\* Where the reconciler's step goes next, field by field.
LEMMA Gone ==
    ASSUME rec \in RecState, NEW pc
    PROVE  /\ Goto(pc).pc = pc /\ Goto(pc).id = rec.id /\ Goto(pc).b = rec.b /\ Goto(pc).w = rec.w
           /\ pc \in {"mkfs", "homeGet", "destroy"} => Goto(pc) \in RecState
BY DEF Goto, RecState

\* The idle reconciler.
LEMMA Idles == IdleRec \in RecState /\ IdleRec.pc = "idle"
BY DEF IdleRec, RecState

\* A failed provision goes on to write the box it read, Failed.
LEMMA Failed ==
    ASSUME rec \in RecState, rec.b \in Bare, Fails
    PROVE  rec' \in RecState /\ rec'.pc = "putGet" /\ rec'.id = rec.id /\ rec'.b \in Bare
<1> DEFINE c == [rec.b EXCEPT !.phase = "Failed"]
<1>1. c \in Bare
  BY PhaseOfRow DEF Phases
<1>2. rec' = [rec EXCEPT !.pc = "putGet", !.b = c]
  BY DEF Fails
<1> HIDE DEF c
<1> QED
  BY <1>1, <1>2 DEF RecState

\* The home is there, or is made and then formatted.
LEMMA EnsureInv ==
    ASSUME DevInv, EnsureHome \/ EnsureBlock PROVE DevInv'
<1>1. PICK i \in Ids : i = rec.id
  BY DEF DevInv, CopiesSound, EnsureHome, EnsureBlock
<1>2. /\ UNCHANGED <<block, rows, routes, inst, up, woken, wr, used, lost>>
      /\ rec.pc = "home" /\ rec \in RecState /\ rec.b \in Bare
      /\ homes \in [Ids -> {"none", "blank", "ready"}]
  BY DEF DevInv, TypeOK, CopiesSound, EnsureHome, EnsureBlock
<1>3. budget' \in Budget /\ budget'.restarts = budget.restarts
  BY BudgetSpent DEF DevInv, TypeOK, EnsureHome, EnsureBlock, Fault
<1>4. \/ /\ homes' = [homes EXCEPT ![i] = "ready"] /\ rec' = Goto("homeGet")
      \/ /\ homes[i] = "none" /\ homes' = [homes EXCEPT ![i] = "blank"] /\ rec' = Goto("mkfs")
      \/ /\ homes[i] # "none" /\ homes' = homes /\ rec' = Goto("homeGet")
      \/ homes' = homes /\ Fails
  BY <1>1 DEF EnsureHome, EnsureBlock
<1>5. /\ rec' \in RecState /\ rec'.id = i /\ rec'.b \in Bare
      /\ rec'.pc \in {"mkfs", "homeGet", "putGet"}
  BY <1>1, <1>2, <1>4, Gone, Failed
<1>6. homes' \in [Ids -> {"none", "blank", "ready"}]
  BY <1>2, <1>4
<1>7. TypeOK'
  BY <1>2, <1>3, <1>5, <1>6 DEF DevInv, TypeOK
<1>8. CopiesSound'
  BY <1>2, <1>5 DEF DevInv, CopiesSound
<1>9. HomesSound'
  <2>1. CASE homes' = [homes EXCEPT ![i] = "ready"] /\ rec' = Goto("homeGet")
    <3>1. rec'.pc = "homeGet"
      BY <1>2, <2>1, Gone
    <3> QED
      BY <1>1, <1>2, <1>3, <1>5, <2>1, <3>1 DEF DevInv, HomesSound
  <2>2. CASE homes[i] = "none" /\ homes' = [homes EXCEPT ![i] = "blank"] /\ rec' = Goto("mkfs")
    <3>1. rec'.pc = "mkfs"
      BY <1>2, <2>2, Gone
    <3> QED
      BY <1>1, <1>2, <1>3, <1>5, <2>2, <3>1 DEF DevInv, HomesSound
  <2>3. CASE homes[i] # "none" /\ homes' = homes /\ rec' = Goto("homeGet")
    <3>1. rec'.pc = "homeGet"
      BY <1>2, <2>3, Gone
    <3> QED
      BY <1>1, <1>2, <1>3, <1>5, <2>3, <3>1 DEF DevInv, HomesSound
  <2>4. CASE homes' = homes /\ Fails
    <3>1. rec'.pc = "putGet"
      BY <1>2, <2>4, Failed
    <3> QED
      BY <1>2, <1>3, <1>7, <2>4, <3>1, HomesSame
  <2> QED
    BY <1>4, <2>1, <2>2, <2>3, <2>4
<1>10. RoutesSound'
  BY <1>2, <1>5, RoutesSame
<1> QED
  BY <1>7, <1>8, <1>9, <1>10 DEF DevInv

\* mkfs formats the image or takes it away; no instance was on it.
LEMMA MkfsInv ==
    ASSUME DevInv, Mkfs PROVE DevInv'
<1>1. PICK i \in Ids : i = rec.id
  BY DEF DevInv, CopiesSound, Mkfs
<1>2. /\ UNCHANGED <<block, rows, routes, inst, up, woken, wr, used, lost>>
      /\ rec.pc = "mkfs" /\ rec \in RecState /\ rec.b \in Bare
      /\ homes \in [Ids -> {"none", "blank", "ready"}] /\ inst[i] = "none"
  BY <1>1 DEF DevInv, TypeOK, CopiesSound, HomesSound, Mkfs
<1>3. budget' \in Budget /\ budget'.restarts = budget.restarts
  BY BudgetSpent DEF DevInv, TypeOK, Mkfs, Fault
<1>4. \/ homes' = [homes EXCEPT ![i] = "ready"] /\ rec' = Goto("homeGet")
      \/ homes' = [homes EXCEPT ![i] = "none"] /\ Fails
  BY <1>1 DEF Mkfs
<1>5. /\ rec' \in RecState /\ rec'.id = i /\ rec'.b \in Bare
      /\ \/ homes' = [homes EXCEPT ![i] = "ready"] /\ rec'.pc = "homeGet"
         \/ homes' = [homes EXCEPT ![i] = "none"] /\ rec'.pc = "putGet"
  BY <1>1, <1>2, <1>4, Gone, Failed
<1>6. TypeOK'
  BY <1>2, <1>3, <1>5 DEF DevInv, TypeOK
<1>7. CopiesSound'
  BY <1>2, <1>5 DEF DevInv, CopiesSound
<1>8. HomesSound'
  BY <1>1, <1>2, <1>3, <1>5 DEF DevInv, HomesSound
<1>9. RoutesSound'
  BY <1>2, <1>5, RoutesSame
<1> QED
  BY <1>6, <1>7, <1>8, <1>9 DEF DevInv

\* The reads of PreProvision and of Adapter.Update.
LEMMA GetsInv ==
    ASSUME DevInv, PreProvisionGet \/ AdapterGet PROVE DevInv'
<1>1. /\ UNCHANGED <<block, rows, routes, homes, inst, up, woken, wr, used, lost, budget>>
      /\ rec \in RecState /\ rec.b \in Bare /\ rec.id \in Ids /\ rec.pc \in {"homeGet", "putGet"}
  BY DEF DevInv, TypeOK, CopiesSound, PreProvisionGet, AdapterGet
<1>2. /\ rec' \in RecState
      /\ \/ rec'.pc = "idle"
         \/ /\ rec'.id = rec.id /\ rec'.b \in Bare /\ rec'.w \in Row
            /\ \/ rec.pc = "homeGet" /\ rec'.pc = "homePut"
               \/ rec.pc = "putGet" /\ rec'.pc = "putPut"
  <2>1. CASE rec' = IdleRec
    BY <2>1, Idles
  <2>2. CASE rec' # IdleRec
    <3>1. PICK pc \in {"homePut", "putPut"} : rec' = [rec EXCEPT !.pc = pc, !.w = rows[rec.id]]
      BY <2>2 DEF PreProvisionGet, AdapterGet
    <3>2. rows[rec.id] \in Row
      BY <1>1, <2>2 DEF PreProvisionGet, AdapterGet, Exists, DevInv, TypeOK
    <3>3. rec' \in RecState /\ rec'.id = rec.id /\ rec'.b = rec.b /\ rec'.w \in Row /\ rec'.pc = pc
      BY <1>1, <3>1, <3>2 DEF RecState
    <3>4. (rec.pc = "homeGet" /\ rec'.pc = "homePut") \/ (rec.pc = "putGet" /\ rec'.pc = "putPut")
      BY <1>1, <2>2 DEF PreProvisionGet, AdapterGet, RecState
    <3> QED
      BY <1>1, <3>3, <3>4
  <2> QED
    BY <2>1, <2>2
<1>3. TypeOK'
  BY <1>1, <1>2 DEF DevInv, TypeOK
<1>4. CopiesSound'
  BY <1>1, <1>2 DEF DevInv, CopiesSound
<1>5. HomesSound'
  BY <1>1, <1>2, <1>3, HomesSame
<1>6. RoutesSound'
  BY <1>1, <1>2, RoutesSame
<1> QED
  BY <1>3, <1>4, <1>5, <1>6 DEF DevInv

\* The writes of PreProvision and of Adapter.Update.
LEMMA PutsInv ==
    ASSUME DevInv, PreProvisionPut \/ AdapterPut PROVE DevInv'
<1>1. /\ UNCHANGED <<block, routes, homes, inst, up, woken, wr, used, budget>>
      /\ rec \in RecState /\ rec.b \in Bare /\ rec.w \in Row /\ rec.id \in Ids
      /\ rec.pc \in {"homePut", "putPut"}
  BY DEF DevInv, TypeOK, CopiesSound, PreProvisionPut, AdapterPut
<1>2. PICK w \in Row : UpdateWorkspace(rec.id, w)
  <2>1. [rec.w EXCEPT !.home = TRUE] \in Row
    BY <1>1 DEF Row
  <2>2. [rec.b EXCEPT !.home = rec.w.home, !.eps = rec.w.eps] \in Row
    <3>1. rec.b \in Row /\ rec.w.home \in BOOLEAN /\ rec.w.eps \in SUBSET Ingress
      BY <1>1 DEF Bare, Row
    <3>2. ASSUME NEW h \in BOOLEAN, NEW e \in SUBSET Ingress
          PROVE  [rec.b EXCEPT !.home = h, !.eps = e] \in Row
      BY <3>1 DEF Row
    <3> QED
      BY <3>1, <3>2, Zenon
  <2> QED
    BY <2>1, <2>2 DEF PreProvisionPut, AdapterPut
<1>3. /\ rec' \in RecState
      /\ \/ rec'.pc = "idle"
         \/ rec.pc = "homePut" /\ rec'.pc = "compute" /\ rec'.id = rec.id /\ rec'.b \in Bare
  <2>1. CASE rec' = IdleRec
    BY <2>1, Idles
  <2>2. CASE rec' # IdleRec
    <3>1. rec.pc = "homePut" /\ rec' = [rec EXCEPT !.pc = "compute", !.w = NoRow]
      BY <2>2 DEF PreProvisionPut, AdapterPut
    <3> QED
      BY <1>1, <3>1 DEF RecState
  <2> QED
    BY <2>1, <2>2
<1>4. TypeOK'
  BY <1>1, <1>2, <1>3, UpdateKeeps DEF DevInv, TypeOK
<1>5. CopiesSound'
  BY <1>1, <1>3 DEF DevInv, CopiesSound
<1>6. HomesSound'
  BY <1>1, <1>3, <1>4, HomesSame
<1>7. RoutesSound'
  BY <1>1, <1>2, <1>3, RoutesUpdated
<1> QED
  BY <1>4, <1>5, <1>6, <1>7 DEF DevInv

\* An instance starts on the home that was ensured before.
LEMMA ComputeProvisionInv ==
    ASSUME DevInv, ComputeProvision PROVE DevInv'
<1>1. PICK i \in Ids : i = rec.id
  BY DEF DevInv, CopiesSound, ComputeProvision
<1>2. /\ UNCHANGED <<block, rows, routes, homes, up, woken, wr, used, lost>>
      /\ rec.pc = "compute" /\ rec \in RecState /\ rec.b \in Bare /\ homes[i] # "none"
      /\ inst \in [Ids -> {"none", "up", "dead"}]
  BY <1>1 DEF DevInv, TypeOK, CopiesSound, HomesSound, ComputeProvision
<1>3. budget' \in Budget /\ budget'.restarts = budget.restarts
  BY BudgetSpent DEF DevInv, TypeOK, ComputeProvision, Fault
<1>4. rec' \in RecState /\ rec'.pc = "putGet" /\ rec'.id = i /\ rec'.b \in Bare
  <2>1. CASE Fails
    BY <1>1, <1>2, <2>1, Failed
  <2>2. CASE ~Fails
    <3> DEFINE c == [rec.b EXCEPT !.phase = "Provisioning", !.ref = TRUE, !.agent = FALSE]
    <3>1. rec.b \in Row /\ ~rec.b.home /\ rec.b.eps = {}
      BY <1>2 DEF Bare
    <3>2. c \in Row /\ ~c.home /\ c.eps = {}
      BY <3>1 DEF Row, Phases
    <3>3. c \in Bare
      BY <3>2 DEF Bare
    <3>4. rec' = [rec EXCEPT !.pc = "putGet", !.b = c]
      BY <2>2 DEF ComputeProvision
    <3> HIDE DEF c
    <3> QED
      BY <1>1, <1>2, <3>3, <3>4 DEF RecState
  <2> QED
    BY <2>1, <2>2
<1>5. /\ inst' \in [Ids -> {"none", "up", "dead"}]
      /\ \A j \in Ids \ {i} : inst'[j] = inst[j]
  BY <1>1, <1>2 DEF ComputeProvision
<1>6. TypeOK'
  BY <1>2, <1>3, <1>4, <1>5 DEF DevInv, TypeOK
<1>7. CopiesSound'
  BY <1>2, <1>4 DEF DevInv, CopiesSound
<1>8. HomesSound'
  BY <1>1, <1>2, <1>3, <1>4, <1>5 DEF DevInv, HomesSound
<1>9. RoutesSound'
  BY <1>2, <1>4, RoutesSame
<1> QED
  BY <1>6, <1>7, <1>8, <1>9 DEF DevInv

\* PostRunning exposes the names whose endpoints it will write.
LEMMA ExposeMissingInv ==
    ASSUME DevInv, ExposeMissing PROVE DevInv'
<1>1. PICK i \in Ids : i = rec.id
  BY DEF DevInv, CopiesSound, ExposeMissing
<1>2. /\ UNCHANGED <<block, rows, homes, inst, up, woken, wr, used, lost, budget>>
      /\ rec.pc = "exposeGet" /\ rec \in RecState
  BY DEF DevInv, TypeOK, ExposeMissing
<1>3. CASE ~(Exists(i) /\ rows[i].eps # Ingress)
  <2>1. routes' = routes /\ rec' = IdleRec
    BY <1>1, <1>3 DEF ExposeMissing
  <2>2. rec' \in RecState /\ rec'.pc = "idle"
    BY <2>1, Idles
  <2>3. TypeOK' /\ CopiesSound'
    BY <1>2, <2>1, <2>2 DEF DevInv, TypeOK, CopiesSound
  <2>4. HomesSound' /\ RoutesSound'
    BY <1>2, <2>1, <2>2, <2>3, HomesSame, RoutesSame
  <2> QED
    BY <2>3, <2>4 DEF DevInv
<1>4. CASE Exists(i) /\ rows[i].eps # Ingress
  <2>1. /\ routes' = routes \cup {<<i, n>> : n \in Ingress \ rows[i].eps}
        /\ rec' = [rec EXCEPT !.pc = "exposePut", !.b = NoRow, !.w = rows[i]]
    BY <1>1, <1>4 DEF ExposeMissing
  <2>2. rows[i] \in Row
    BY <1>4 DEF DevInv, TypeOK, Exists
  <2>3. rec' \in RecState /\ rec'.pc = "exposePut" /\ rec'.id = i /\ rec'.w \in Row
    BY <1>1, <1>2, <2>1, <2>2 DEF RecState
  <2>4. TypeOK'
    BY <1>2, <2>1, <2>3 DEF DevInv, TypeOK
  <2>5. CopiesSound'
    BY <1>2, <2>3 DEF DevInv, CopiesSound
  <2>6. HomesSound'
    BY <1>2, <2>3, <2>4, HomesSame
  <2>7. \A r \in routes' : r \in routes \/ r[1] = i
    BY <2>1
  <2>8. i \in used
    BY <1>4 DEF DevInv, RoutesSound
  <2>9. RoutesSound'
    BY <1>2, <1>4, <2>3, <2>7, <2>8 DEF DevInv, RoutesSound, Exists
  <2> QED
    BY <2>4, <2>5, <2>6, <2>9 DEF DevInv
<1> QED
  BY <1>3, <1>4

\* The endpoints of every route just made are written.
LEMMA PersistEndpointsInv ==
    ASSUME DevInv, PersistEndpoints PROVE DevInv'
<1>1. PICK i \in Ids : i = rec.id
  BY DEF DevInv, CopiesSound, PersistEndpoints
<1> DEFINE w == [rec.w EXCEPT !.eps = Ingress]
<1>2. /\ UNCHANGED <<block, routes, homes, inst, up, woken, wr, used, budget>>
      /\ rec.pc = "exposePut" /\ Exists(i) /\ rec.w \in Row /\ UpdateWorkspace(i, w)
      /\ rec' = IdleRec
  BY <1>1 DEF DevInv, CopiesSound, RoutesSound, PersistEndpoints
<1>3. w \in Row /\ w.eps = Ingress
  BY <1>2 DEF Row
<1> HIDE DEF w
<1>4. /\ rows' \in [Ids -> Row \cup {NoRow}] /\ lost' \subseteq Ids \X Ingress
      /\ \A j \in Ids : Exists(j)' <=> Exists(j)
      /\ \A j \in Ids : j # i => rows'[j] = rows[j]
      /\ rows'[i] = w /\ lost \subseteq lost'
  BY <1>2, <1>3, UpdateKeeps DEF DevInv
<1>5. rec' \in RecState /\ rec'.pc = "idle"
  BY <1>2, Idles
<1>6. TypeOK'
  BY <1>2, <1>4, <1>5 DEF DevInv, TypeOK
<1>7. CopiesSound'
  BY <1>2, <1>5 DEF DevInv, CopiesSound
<1>8. HomesSound'
  BY <1>2, <1>5, <1>6, HomesSame
<1>9. RoutesSound'
  <2>1. \A r \in routes : r[1] \in Ids /\ r[2] \in Ingress
    BY DEF DevInv, TypeOK
  <2>2. ASSUME NEW r \in routes \ lost PROVE rows'[r[1]] # NoRow /\ r[2] \in rows'[r[1]].eps
    <3>1. Exists(r[1]) /\ (r[2] \in rows[r[1]].eps \/ i = r[1])
      BY <1>1 DEF DevInv, RoutesSound
    <3> QED
      BY <1>3, <1>4, <2>1, <3>1 DEF Exists
  <2>3. \A j \in Ids : Exists(j)' => j \in used
    BY <1>4 DEF DevInv, RoutesSound
  <2> QED
    BY <1>2, <1>4, <1>5, <2>2, <2>3 DEF DevInv, RoutesSound, Exists
<1> QED
  BY <1>6, <1>7, <1>8, <1>9 DEF DevInv

\* PreDestroy leaves only lost routes of its workspace.
LEMMA PreDestroyInv ==
    ASSUME DevInv, PreDestroy PROVE DevInv'
<1>1. PICK i \in Ids : i = rec.id
  BY DEF DevInv, CopiesSound, PreDestroy
<1>2. /\ UNCHANGED <<block, rows, homes, inst, up, woken, wr, used, lost, budget>>
      /\ rec.pc = "unexpose" /\ rec \in RecState /\ routes' \subseteq routes
      /\ Exists(i) => \A r \in routes' : r # <<i, r[2]>> \/ r[2] \notin rows[i].eps
  BY <1>1 DEF DevInv, TypeOK, PreDestroy
<1>3. rec' \in RecState /\ rec'.pc = "destroy" /\ rec'.id = i
  BY <1>1, <1>2, Gone DEF PreDestroy
<1>4. TypeOK'
  BY <1>2, <1>3 DEF DevInv, TypeOK
<1>5. CopiesSound'
  BY <1>2, <1>3 DEF DevInv, CopiesSound
<1>6. HomesSound'
  BY <1>2, <1>3, <1>4, HomesSame
<1>7. RoutesSound'
  <2>1. ASSUME NEW r \in routes' \ lost PROVE r[1] # i
    <3>1. PICK j \in Ids, n \in Ingress : r = <<j, n>> /\ r[1] = j /\ r[2] = n
      BY <1>2 DEF DevInv, TypeOK
    <3>2. Exists(j) /\ n \in rows[j].eps
      BY <1>2, <3>1 DEF DevInv, RoutesSound
    <3> QED
      BY <1>2, <3>1, <3>2
  <2> QED
    BY <1>2, <1>3, <2>1 DEF DevInv, RoutesSound, Exists
<1> QED
  BY <1>4, <1>5, <1>6, <1>7 DEF DevInv

\* compute.Destroy takes the instance, or an error ends the step.
LEMMA ComputeDestroyInv ==
    ASSUME DevInv, ComputeDestroy PROVE DevInv'
<1>1. PICK i \in Ids : i = rec.id
  BY DEF DevInv, CopiesSound, ComputeDestroy
<1>2. /\ UNCHANGED <<block, rows, routes, homes, up, woken, wr, used, lost>>
      /\ rec.pc = "destroy" /\ rec \in RecState
      /\ inst' \in {inst, [inst EXCEPT ![i] = "none"]}
  BY <1>1 DEF DevInv, TypeOK, ComputeDestroy
<1>3. /\ inst' \in [Ids -> {"none", "up", "dead"}]
      /\ \A j \in Ids : inst'[j] # "none" => inst[j] # "none"
  BY <1>2 DEF DevInv, TypeOK
<1>4. budget' \in Budget /\ budget'.restarts = budget.restarts
  BY BudgetSpent DEF DevInv, TypeOK, ComputeDestroy, Fault
<1>5. rec' \in RecState /\ (rec'.pc = "idle" \/ (rec'.pc = "delete" /\ rec'.id = rec.id))
  <2>1. rec' = IdleRec \/ rec' = [rec EXCEPT !.pc = "delete", !.b = NoRow]
    BY DEF ComputeDestroy
  <2> QED
    BY <1>2, <2>1, Idles DEF RecState
<1>6. TypeOK'
  BY <1>2, <1>3, <1>4, <1>5 DEF DevInv, TypeOK
<1>7. CopiesSound'
  BY <1>1, <1>2, <1>5 DEF DevInv, CopiesSound
<1>8. HomesSound'
  BY <1>2, <1>3, <1>4, <1>5, <1>6, HomesSame
<1>9. RoutesSound'
  BY <1>2, <1>5, RoutesSame
<1> QED
  BY <1>6, <1>7, <1>8, <1>9 DEF DevInv

\* The row goes, and with it the last chance to find its routes.
LEMMA DeleteRowInv ==
    ASSUME DevInv, DeleteRow PROVE DevInv'
<1>1. PICK i \in Ids : i = rec.id
  BY DEF DevInv, CopiesSound, DeleteRow
<1>2. /\ UNCHANGED <<block, routes, homes, inst, up, woken, wr, used, lost, budget>>
      /\ rec.pc = "delete" /\ rows' = [rows EXCEPT ![i] = NoRow] /\ rec' = IdleRec
      /\ rows \in [Ids -> Row \cup {NoRow}]
  BY <1>1 DEF DevInv, TypeOK, DeleteRow
<1>3. rec' \in RecState /\ rec'.pc = "idle"
  BY <1>2, Idles
<1>4. TypeOK'
  BY <1>2, <1>3 DEF DevInv, TypeOK
<1>5. CopiesSound'
  BY <1>2, <1>3 DEF DevInv, CopiesSound
<1>6. HomesSound'
  BY <1>2, <1>3, <1>4, HomesSame
<1>7. RoutesSound'
  <2>1. \A j \in Ids : rows'[j] = IF j = i THEN NoRow ELSE rows[j]
    BY <1>2
  <2>2. \A r \in routes : r[1] \in Ids
    BY DEF DevInv, TypeOK
  <2> QED
    BY <1>1, <1>2, <1>3, <2>1, <2>2 DEF DevInv, RoutesSound, Exists
<1> QED
  BY <1>4, <1>5, <1>6, <1>7 DEF DevInv

\* A restart forgets everything in memory; an image may be left blank by it.
LEMMA RestartInv ==
    ASSUME DevInv, Restart PROVE DevInv'
<1>1. /\ UNCHANGED <<block, rows, homes, inst, used>> /\ rec' = IdleRec
      /\ routes' = {} /\ lost' = {} /\ up' = {} /\ woken' = {}
      /\ wr' = [k \in Writers |-> IdleWriter]
  BY DEF Restart
<1>2. budget' \in Budget /\ budget'.restarts < MaxRestarts
  BY BudgetSpent DEF DevInv, TypeOK, Restart
<1>3. rec' \in RecState /\ rec'.pc = "idle" /\ IdleWriter \in WriterState
  BY <1>1, Idles DEF IdleWriter, WriterState
<1>4. TypeOK'
  BY <1>1, <1>2, <1>3 DEF DevInv, TypeOK
<1>5. CopiesSound' /\ HomesSound' /\ RoutesSound'
  BY <1>1, <1>2, <1>3 DEF DevInv, CopiesSound, HomesSound, RoutesSound, Exists
<1> QED
  BY <1>4, <1>5 DEF DevInv

\* Every step preserves the invariant.
LEMMA DevInvNext == DevInv /\ [Next]_vars => DevInv'
<1> SUFFICES ASSUME DevInv, [Next]_vars PROVE DevInv'
  OBVIOUS
<1>1. CASE RecStep
  BY <1>1, EnsureInv, MkfsInv, GetsInv, PutsInv, ComputeProvisionInv, ExposeMissingInv,
     PersistEndpointsInv, PreDestroyInv, ComputeDestroyInv, DeleteRowInv DEF RecStep
<1>2. CASE \E i \in Ids : \/ Sweep(i) \/ Event(i) \/ CreateWorkspace(i) \/ DeleteResolves(i)
                          \/ MetaReads(i) \/ AgentConnects(i) \/ AgentLeaves(i) \/ InstanceDies(i)
  BY <1>2, DispatchInv, CreateWorkspaceInv, ReadersInv
<1>3. CASE DeleteFlags \/ SinkWrites \/ MetaWrites
  BY <1>3, WritersInv
<1>4. CASE Restart
  BY <1>4, RestartInv
<1>5. CASE UNCHANGED vars
  <2>1. TypeOK' /\ CopiesSound'
    BY <1>5 DEF vars, DevInv, TypeOK, CopiesSound
  <2>2. HomesSound' /\ RoutesSound'
    BY <1>5, <2>1, HomesSame, RoutesSame DEF vars
  <2> QED
    BY <2>1, <2>2 DEF DevInv
<1> QED
  BY <1>1, <1>2, <1>3, <1>4, <1>5 DEF Next

(***************************************************************************)
(* What holds of every behaviour.                                          *)
(***************************************************************************)
\* The invariant of the hooks, for any number of workspaces and writers.
THEOREM DevInvariant == Spec => []DevInv
  BY DevInvInit, DevInvNext, PTL DEF Spec

\* Every instance has a home, formatted unless a crash cut mkfs short.
THEOREM DevHomeFormatted == Spec => []HomeFormatted
<1>1. DevInv => HomeFormatted
  BY DEF DevInv, TypeOK, HomesSound, HomeFormatted
<1> QED
  BY <1>1, DevInvariant, PTL

\* Only a route whose endpoint a whole-row write dropped outlives its workspace.
THEOREM DevDeadRoutes == Spec => []DeadRoutes
<1>1. DevInv => DeadRoutes
  BY DEF DevInv, RoutesSound, DeadRoutes
<1> QED
  BY <1>1, DevInvariant, PTL

\* No step replaces a formatted home.
LEMMA HomeStep ==
    ASSUME DevInv, [Next]_vars, NEW i \in Ids, homes[i] = "ready"
    PROVE  homes'[i] = "ready"
<1>1. CASE EnsureHome \/ EnsureBlock \/ Mkfs
  BY <1>1 DEF DevInv, TypeOK, HomesSound, EnsureHome, EnsureBlock, Mkfs
<1>2. CASE UNCHANGED homes
  BY <1>2
<1>3. ASSUME RecStep, ~(EnsureHome \/ EnsureBlock \/ Mkfs) PROVE UNCHANGED homes
  BY <1>3 DEF RecStep, PreProvisionGet, PreProvisionPut, ComputeProvision, AdapterGet, AdapterPut,
              ExposeMissing, PersistEndpoints, PreDestroy, ComputeDestroy, DeleteRow
<1>4. ASSUME NEW j \in Ids,
             \/ Sweep(j) \/ Event(j) \/ CreateWorkspace(j) \/ DeleteResolves(j)
             \/ MetaReads(j) \/ AgentConnects(j) \/ AgentLeaves(j) \/ InstanceDies(j)
      PROVE  UNCHANGED homes
  BY <1>4 DEF Sweep, Event, CreateWorkspace, DeleteResolves, MetaReads, AgentConnects,
              AgentLeaves, InstanceDies
<1>5. ASSUME DeleteFlags \/ SinkWrites \/ MetaWrites \/ Restart \/ UNCHANGED vars
      PROVE  UNCHANGED homes
  BY <1>5 DEF DeleteFlags, SinkWrites, MetaWrites, Restart, vars
<1> QED
  BY <1>1, <1>2, <1>3, <1>4, <1>5 DEF Next

\* A home is made once.
THEOREM DevHomeKept == Spec => HomeKept
<1>1. DevInv /\ [Next]_vars => [\A i \in Ids : homes[i] = "ready" => homes'[i] = "ready"]_vars
  BY HomeStep
<1> QED
  BY <1>1, DevInvariant, PTL DEF Spec, HomeKept

\* No step brings the row of a deleted workspace back.
LEMMA DeletedStep ==
    ASSUME DevInv, [Next]_vars, NEW i \in Ids, i \in used, ~Exists(i)
    PROVE  rows'[i] = NoRow
<1>0. rows \in [Ids -> Row \cup {NoRow}] /\ rows[i] = NoRow
  BY DEF DevInv, TypeOK, Exists
<1>1. CASE UNCHANGED rows
  BY <1>0, <1>1
<1>2. CASE \E j, w : UpdateWorkspace(j, w)
  <2>1. PICK j, w : UpdateWorkspace(j, w)
    BY <1>2
  <2>2. CASE Exists(j)
    <3>1. rows' = [rows EXCEPT ![j] = w] /\ j # i
      BY <2>1, <2>2 DEF UpdateWorkspace
    <3> QED
      BY <1>0, <3>1
  <2>3. CASE ~Exists(j)
    BY <1>0, <2>1, <2>3 DEF UpdateWorkspace
  <2> QED
    BY <2>2, <2>3
<1>3. CASE DeleteRow
  BY <1>0, <1>3 DEF DeleteRow
<1>4. ASSUME NEW j \in Ids, CreateWorkspace(j) PROVE rows'[i] = NoRow
  BY <1>0, <1>4 DEF CreateWorkspace
<1>5. CASE PreProvisionPut \/ AdapterPut \/ PersistEndpoints
  BY <1>2, <1>5 DEF PreProvisionPut, AdapterPut, PersistEndpoints
<1>6. CASE DeleteFlags \/ SinkWrites \/ MetaWrites
  BY <1>2, <1>6 DEF DeleteFlags, SinkWrites, MetaWrites, Writes
<1>7. CASE EnsureHome \/ EnsureBlock \/ Mkfs \/ PreProvisionGet \/ ComputeProvision \/ AdapterGet
           \/ ExposeMissing \/ PreDestroy \/ ComputeDestroy
  BY <1>1, <1>7 DEF EnsureHome, EnsureBlock, Mkfs, PreProvisionGet, ComputeProvision, AdapterGet,
                    ExposeMissing, PreDestroy, ComputeDestroy
<1>8. CASE \E j \in Ids : \/ Sweep(j) \/ Event(j) \/ DeleteResolves(j) \/ MetaReads(j)
                          \/ AgentConnects(j) \/ AgentLeaves(j) \/ InstanceDies(j)
  BY <1>1, <1>8 DEF Sweep, Event, DeleteResolves, MetaReads, AgentConnects, AgentLeaves, InstanceDies
<1>9. CASE Restart \/ UNCHANGED vars
  BY <1>1, <1>9 DEF Restart, vars
<1> QED
  BY <1>3, <1>4, <1>5, <1>6, <1>7, <1>8, <1>9 DEF Next, RecStep

\* A deleted workspace stays deleted, whoever still holds its row.
THEOREM DevDeletedStays == Spec => DeletedStays
<1>1. DevInv /\ [Next]_vars => [\A i \in Ids : (i \in used /\ ~Exists(i)) => rows'[i] = NoRow]_vars
  BY DeletedStep
<1> QED
  BY <1>1, DevInvariant, PTL DEF Spec, DeletedStays
=============================================================================
