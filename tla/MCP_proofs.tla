----------------------------- MODULE MCP_proofs -----------------------------
(***************************************************************************)
(* Delegated tasks and applied keys, for any number of clients, callers,   *)
(* boxes, keys and tasks, and for Apply calls that overlap.                *)
(***************************************************************************)
EXTENDS MCP, TLAPS

USE MCPAssumption

(***************************************************************************)
(* Tasks and handlers.                                                     *)
(***************************************************************************)
\* A step that only moves one handler, not from or to a task about to start.
LEMMA HandlerMoves ==
    ASSUME TaskInv, NEW c \in Conns, NEW g \in Handler, h' = [h EXCEPT ![c] = g],
           UNCHANGED <<boxes, tasks, keys, run>>, h[c].pc # "started", g.pc # "started",
           g.pc = "attach" =>
              /\ g.id \in Ids => boxes[g.id].phase # "none" /\ boxes[g.id].name = g.name
              /\ g.tool # "spawn" => (g.tool = "apply" <=> g.name \in Keys)
    PROVE  TaskInv'
<1>1. h' \in [Conns -> Handler] /\ h'[c] = g /\ \A d \in Conns \ {c} : h'[d] = h[d]
  BY DEF TaskInv, EngineTypeOK
<1>2. EngineTypeOK'
  BY <1>1 DEF TaskInv, EngineTypeOK
<1>3. HoldersSound'
  <2>1. \A r \in Runners : Active(r)' => run'[r].id \in Ids /\ boxes'[run'[r].id].phase # "none"
    BY DEF TaskInv, HoldersSound, Active
  <2>2. ASSUME NEW d \in Conns
        PROVE  /\ h'[d].pc = "started" => h'[d].id \in Ids
               /\ (h'[d].pc \in {"attach", "started"} /\ h'[d].id \in Ids) =>
                     boxes'[h'[d].id].phase # "none" /\ boxes'[h'[d].id].name = h'[d].name
               /\ h'[d].pc = "started" => h'[d].tool # "spawn"
               /\ (h'[d].pc \in {"attach", "started"} /\ h'[d].tool # "spawn") =>
                     (h'[d].tool = "apply" <=> h'[d].name \in Keys)
    <3>1. CASE d = c
      BY <1>1, <3>1
    <3>2. CASE d # c
      <4>1. h'[d] = h[d] /\ boxes' = boxes
        BY <1>1, <3>2
      <4> QED
        BY <4>1 DEF TaskInv, HoldersSound
    <3> QED
      BY <3>1, <3>2
  <2> QED
    BY <2>1, <2>2 DEF HoldersSound
<1>4. WorkingHasTask'
  <2>1. \A d \in Conns : h[d].pc = "started" => h'[d] = h[d]
    BY <1>1
  <2> QED
    BY <2>1 DEF TaskInv, WorkingHasTask
<1> QED
  BY <1>2, <1>3, <1>4 DEF TaskInv

\* A row goes, a task reports or is over: boxes only lose their rows, handlers stay.
LEMMA BoxOrTaskMoves ==
    ASSUME TaskInv, (\E i \in Ids : BoxGoes(i)) \/ (\E r \in Runners : TaskStep(r))
    PROVE  /\ TaskInv' /\ UNCHANGED <<keys, h>>
           /\ \A i \in Ids : /\ boxes'[i].name = boxes[i].name /\ (Live(i)' => Live(i))
                             /\ boxes[i].phase # "none" => boxes'[i].phase # "none"
           /\ \A r \in Runners : Active(r)' =>
                Active(r) /\ run'[r].id = run[r].id /\ run'[r].overlap = run[r].overlap
<1>0. EngineTypeOK
  BY DEF TaskInv
<1>1. ASSUME NEW i \in Ids, BoxGoes(i)
      PROVE  /\ UNCHANGED <<tasks, keys, run, h>> /\ boxes' \in [Ids -> EngineBox]
             /\ \A j \in Ids : /\ boxes'[j].name = boxes[j].name /\ (Live(j)' => Live(j))
                               /\ boxes[j].phase # "none" => boxes'[j].phase # "none"
  <2>1. /\ boxes' = [boxes EXCEPT ![i] = [@ EXCEPT !.phase = "gone"]] /\ Live(i)
        /\ UNCHANGED <<tasks, keys, run, h>>
    BY <1>0, <1>1 DEF BoxGoes, EngineTypeOK
  <2>2. [boxes[i] EXCEPT !.phase = "gone"] \in EngineBox
    BY <1>0 DEF EngineTypeOK, EngineBox, Phases
  <2> QED
    BY <1>0, <2>1, <2>2 DEF EngineTypeOK, EngineBox, Live
<1>2. ASSUME NEW r \in Runners, RunTask(r)
      PROVE  /\ UNCHANGED <<boxes, keys, h>>
             /\ tasks' = [tasks EXCEPT ![run[r].id] = "ended"]
             /\ run' \in [Runners -> Runner]
             /\ run[r].pc = "run" /\ run'[r].pc = "push"
             /\ run'[r].id = run[r].id /\ run'[r].overlap = run[r].overlap
             /\ \A q \in Runners \ {r} : run'[q] = run[q]
  <2>1. run' = [run EXCEPT ![r] = [@ EXCEPT !.pc = "push"]]
    BY <1>0, <1>2 DEF RunTask, EngineTypeOK
  <2>2. [run[r] EXCEPT !.pc = "push"] \in Runner
    BY <1>0 DEF EngineTypeOK, Runner
  <2> QED
    BY <1>0, <1>2, <2>1, <2>2 DEF RunTask, SetTask, EngineTypeOK, Runner
<1>3. ASSUME NEW r \in Runners, RunTaskReleases(r)
      PROVE  /\ UNCHANGED <<boxes, tasks, keys, h>>
             /\ run' \in [Runners -> Runner] /\ run[r].pc = "push" /\ run'[r].pc = "over"
             /\ \A q \in Runners \ {r} : run'[q] = run[q]
  <2>1. [NoTask EXCEPT !.pc = "over"] \in Runner /\ [NoTask EXCEPT !.pc = "over"].pc = "over"
    BY DEF NoTask, Runner
  <2> QED
    BY <1>0, <1>3, <2>1 DEF RunTaskReleases, EngineTypeOK
<1> DEFINE Moved ==
      /\ UNCHANGED <<keys, h>> /\ boxes' \in [Ids -> EngineBox] /\ run' \in [Runners -> Runner]
      /\ tasks' \in [Ids -> {"none", "working", "ended"}]
      /\ \A i \in Ids : /\ boxes'[i].name = boxes[i].name /\ (Live(i)' => Live(i))
                        /\ boxes[i].phase # "none" => boxes'[i].phase # "none"
      /\ \A r \in Runners : Active(r)' =>
           Active(r) /\ run'[r].id = run[r].id /\ run'[r].overlap = run[r].overlap
<1>4. Moved
  <2>1. ASSUME NEW i \in Ids, BoxGoes(i) PROVE Moved
    BY <1>0, <1>1, <2>1 DEF EngineTypeOK, Active
  <2>2. ASSUME NEW r \in Runners, RunTask(r) PROVE Moved
    BY <1>0, <1>2, <2>2 DEF EngineTypeOK, Active, Live
  <2>3. ASSUME NEW r \in Runners, RunTaskReleases(r) PROVE Moved
    BY <1>0, <1>3, <2>3 DEF EngineTypeOK, Active, Live
  <2> QED
    BY <2>1, <2>2, <2>3 DEF TaskStep
<1>5. EngineTypeOK'
  BY <1>0, <1>4 DEF EngineTypeOK
<1>6. HoldersSound'
  <2>1. ASSUME NEW r \in Runners, Active(r)' PROVE run'[r].id \in Ids /\ boxes'[run'[r].id].phase # "none"
    BY <1>4, <2>1 DEF TaskInv, HoldersSound
  <2>2. ASSUME NEW c \in Conns
        PROVE  /\ h[c].pc = "started" => h[c].id \in Ids
               /\ (h[c].pc \in {"attach", "started"} /\ h[c].id \in Ids) =>
                     boxes'[h[c].id].phase # "none" /\ boxes'[h[c].id].name = h[c].name
               /\ h[c].pc = "started" => h[c].tool # "spawn"
               /\ (h[c].pc \in {"attach", "started"} /\ h[c].tool # "spawn") =>
                     (h[c].tool = "apply" <=> h[c].name \in Keys)
    BY <1>4 DEF TaskInv, HoldersSound
  <2>3. h' = h
    BY <1>4
  <2> QED
    BY <2>1, <2>2, <2>3 DEF HoldersSound
<1>7. WorkingHasTask'
  <2>1. ASSUME NEW i \in Ids, BoxGoes(i) PROVE WorkingHasTask'
    BY <1>1, <2>1 DEF TaskInv, WorkingHasTask
  <2>2. ASSUME NEW r \in Runners, RunTask(r) PROVE WorkingHasTask'
    <3>1. run[r].id \in Ids
      BY <1>2, <2>2 DEF TaskInv, HoldersSound, Active
    <3>2. \A i \in Ids : tasks'[i] = "working" => tasks[i] = "working" /\ i # run[r].id
      BY <1>0, <1>2, <2>2, <3>1 DEF EngineTypeOK
    <3> QED
      BY <1>2, <2>2, <3>2 DEF TaskInv, WorkingHasTask
  <2>3. ASSUME NEW r \in Runners, RunTaskReleases(r) PROVE WorkingHasTask'
    BY <1>3, <2>3 DEF TaskInv, WorkingHasTask
  <2> QED
    BY <2>1, <2>2, <2>3 DEF TaskStep
<1> QED
  BY <1>4, <1>5, <1>6, <1>7 DEF TaskInv

\* Attach, when it succeeds: the handler has replied, or has its box and shows it
\* working; a box is made at most, under the name looked for.
LEMMA AttachMoves ==
    ASSUME TaskInv, NEW c \in Conns, AttachCreates(c) \/ AttachUpdates(c)
    PROVE  /\ TaskInv' /\ UNCHANGED <<keys, run>> /\ h[c].pc = "attach"
           /\ \A d \in Conns \ {c} : h'[d] = h[d]
           /\ \/ h'[c].pc = "reply"
              \/ \E i \in Ids : /\ h'[c] = [h[c] EXCEPT !.pc = "started", !.id = i]
                                /\ boxes[i].phase = "none" \/ h[c].id = i
           /\ \A i \in Ids : boxes[i].phase # "none" => boxes'[i] = boxes[i]
<1>0. EngineTypeOK /\ h[c] \in Handler /\ h[c].pc = "attach" /\ UNCHANGED <<keys, run>>
  BY DEF TaskInv, EngineTypeOK, AttachCreates, AttachUpdates
<1>1. PICK i \in Ids :
        /\ Attached(c, i)
        /\ boxes[i].phase = "none" \/ h[c].id = i
        /\ boxes' \in [Ids -> EngineBox] /\ \A j \in Ids \ {i} : boxes'[j] = boxes[j]
        /\ boxes[i].phase # "none" => boxes'[i] = boxes[i]
        /\ boxes'[i].phase # "none" /\ boxes'[i].name = h[c].name
  <2>1. CASE AttachCreates(c)
    <3>1. PICK i \in Ids : /\ boxes[i].phase = "none"
                           /\ boxes' = [boxes EXCEPT ![i] = [name |-> h[c].name, phase |-> "live"]]
                           /\ Attached(c, i)
      BY <2>1 DEF AttachCreates
    <3>2. [name |-> h[c].name, phase |-> "live"] \in EngineBox
      BY <1>0 DEF Handler, EngineBox, Phases
    <3> QED
      BY <1>0, <3>1, <3>2 DEF EngineTypeOK
  <2>2. CASE AttachUpdates(c)
    <3>1. h[c].id \in Ids /\ Attached(c, h[c].id) /\ boxes' = boxes
      BY <2>2 DEF AttachUpdates
    <3>2. boxes[h[c].id].phase # "none" /\ boxes[h[c].id].name = h[c].name
      BY <1>0, <3>1 DEF TaskInv, HoldersSound
    <3> QED
      BY <1>0, <3>1, <3>2 DEF EngineTypeOK
  <2> QED
    BY <2>1, <2>2
<1>2. \A j \in Ids : boxes[j].phase # "none" => boxes'[j] = boxes[j]
  BY <1>1
<1>3. \A r \in Runners : Active(r)' => run'[r].id \in Ids /\ boxes'[run'[r].id].phase # "none"
  BY <1>0, <1>2 DEF TaskInv, HoldersSound, Active
<1>4. ASSUME NEW g \in Handler, h' = [h EXCEPT ![c] = g],
             \/ g.pc = "reply" /\ UNCHANGED tasks
             \/ /\ g.pc = "started" /\ g.id = i /\ g.name = h[c].name /\ g.tool = h[c].tool
                /\ g.tool # "spawn" /\ tasks' = [tasks EXCEPT ![i] = "working"]
      PROVE  TaskInv' /\ h'[c] = g /\ \A d \in Conns \ {c} : h'[d] = h[d]
  <2>1. h' \in [Conns -> Handler] /\ h'[c] = g /\ \A d \in Conns \ {c} : h'[d] = h[d]
    BY <1>0, <1>4 DEF EngineTypeOK
  <2>2. EngineTypeOK'
    BY <1>0, <1>1, <1>4, <2>1 DEF EngineTypeOK
  <2>3. ASSUME NEW d \in Conns
        PROVE  /\ h'[d].pc = "started" => h'[d].id \in Ids
               /\ (h'[d].pc \in {"attach", "started"} /\ h'[d].id \in Ids) =>
                     boxes'[h'[d].id].phase # "none" /\ boxes'[h'[d].id].name = h'[d].name
               /\ h'[d].pc = "started" => h'[d].tool # "spawn"
               /\ (h'[d].pc \in {"attach", "started"} /\ h'[d].tool # "spawn") =>
                     (h'[d].tool = "apply" <=> h'[d].name \in Keys)
    <3>1. CASE d = c
      BY <1>0, <1>1, <1>4, <2>1, <3>1 DEF TaskInv, HoldersSound
    <3>2. CASE d # c
      <4>1. h'[d] = h[d]
        BY <2>1, <3>2
      <4> QED
        BY <1>2, <4>1 DEF TaskInv, HoldersSound
    <3> QED
      BY <3>1, <3>2
  <2>4. HoldersSound'
    BY <1>3, <2>3 DEF HoldersSound
  <2>5. WorkingHasTask'
    <3>1. ASSUME NEW j \in Ids, tasks'[j] = "working", tasks[j] # "working"
          PROVE  h'[c].pc = "started" /\ h'[c].id = j
      BY <1>0, <1>4, <2>1, <3>1 DEF EngineTypeOK
    <3>2. \A d \in Conns : h[d].pc = "started" => h'[d] = h[d]
      BY <1>0, <2>1
    <3> QED
      BY <1>0, <3>1, <3>2 DEF TaskInv, WorkingHasTask
  <2> QED
    BY <2>1, <2>2, <2>4, <2>5 DEF TaskInv
<1>5. CASE /\ h[c].tool = "spawn" /\ UNCHANGED tasks
           /\ h' = [h EXCEPT ![c] = [IdleHandler EXCEPT !.pc = "reply"]]
  <2>1. [IdleHandler EXCEPT !.pc = "reply"] \in Handler /\ [IdleHandler EXCEPT !.pc = "reply"].pc = "reply"
    BY DEF IdleHandler, Handler, Names, Messages
  <2> QED
    BY <1>0, <1>2, <1>4, <1>5, <2>1
<1>6. CASE /\ h[c].tool # "spawn" /\ tasks' = [tasks EXCEPT ![i] = "working"]
           /\ h' = [h EXCEPT ![c] = [@ EXCEPT !.pc = "started", !.id = i]]
  <2> DEFINE g == [h[c] EXCEPT !.pc = "started", !.id = i]
  <2>1. g \in Handler /\ g.pc = "started" /\ g.id = i /\ g.name = h[c].name /\ g.tool = h[c].tool
    BY <1>0 DEF Handler
  <2>2. h' = [h EXCEPT ![c] = g]
    BY <1>6
  <2>3. TaskInv' /\ h'[c] = g /\ \A d \in Conns \ {c} : h'[d] = h[d]
    <3> HIDE DEF g
    <3> QED
      BY <1>4, <1>6, <2>1, <2>2
  <2> QED
    BY <1>0, <1>1, <1>2, <2>3
<1> QED
  BY <1>1, <1>5, <1>6 DEF Attached, SetTask

\* The task of a handler starts: the handler no longer has the box, the task does.
LEMMA StartsTaskMoves ==
    ASSUME TaskInv, NEW c \in Conns, NEW r \in Runners, StartsTask(c, r)
    PROVE  /\ TaskInv' /\ UNCHANGED boxes
           /\ h[c].pc = "started" /\ h[c].id \in Ids /\ (Applying(c) <=> h[c].name \in Keys)
           /\ run'[r] = [pc |-> "run", id |-> h[c].id, overlap |-> h[c].overlap]
           /\ run[r].pc = "none" /\ \A q \in Runners \ {r} : run'[q] = run[q]
           /\ \A k \in Keys : keys'[k] = IF Applying(c) /\ k = h[c].name THEN h[c].id ELSE keys[k]
           /\ \A d \in Conns \ {c} : h'[d] = h[d]
           /\ h'[c].pc \in {"apply", "reply"}
           /\ Applying(c)' => /\ Applying(c) /\ h'[c].overlap = h[c].overlap
                              /\ h'[c].live = h[c].live /\ h'[c].left = h[c].left \ {h[c].name}
<1>0. /\ EngineTypeOK /\ h[c] \in Handler /\ h[c].pc = "started" /\ UNCHANGED <<boxes, tasks>>
      /\ run[r].pc = "none"
  BY DEF TaskInv, EngineTypeOK, StartsTask
<1>1. /\ h[c].id \in Ids /\ boxes[h[c].id].phase # "none" /\ boxes[h[c].id].name = h[c].name
      /\ h[c].tool = "apply" <=> h[c].name \in Keys
  BY <1>0 DEF TaskInv, HoldersSound
<1>2. Applying(c) <=> h[c].tool = "apply"
  BY <1>0 DEF Applying
<1> DEFINE t == [pc |-> "run", id |-> h[c].id, overlap |-> h[c].overlap]
<1>3. t \in Runner /\ t.pc = "run" /\ t.id = h[c].id
  BY <1>0, <1>1 DEF Runner, Handler
<1>4. /\ run' \in [Runners -> Runner] /\ run'[r] = t /\ \A q \in Runners \ {r} : run'[q] = run[q]
  <2>1. run' = [run EXCEPT ![r] = t]
    BY DEF StartsTask
  <2> HIDE DEF t
  <2> QED
    BY <1>0, <1>3, <2>1 DEF EngineTypeOK
<1> HIDE DEF t
<1>5. /\ keys' \in [Keys -> Ids \cup {NoId}]
      /\ \A k \in Keys : keys'[k] = IF Applying(c) /\ k = h[c].name THEN h[c].id ELSE keys[k]
  BY <1>0, <1>1, <1>2 DEF StartsTask, EngineTypeOK
<1>6. /\ Started(c) \in Handler /\ Started(c).pc \in {"apply", "reply"}
      /\ Started(c).pc = "apply" =>
           /\ h[c].tool = "apply" /\ Started(c).overlap = h[c].overlap
           /\ Started(c).live = h[c].live /\ Started(c).left = h[c].left \ {h[c].name}
  <2>1. CASE h[c].tool = "apply"
    BY <1>0, <2>1 DEF Started, Handler
  <2>2. CASE h[c].tool # "apply"
    BY <2>2 DEF Started, IdleHandler, Handler, Names, Messages
  <2> QED
    BY <2>1, <2>2
<1>7. h' \in [Conns -> Handler] /\ h'[c] = Started(c) /\ \A d \in Conns \ {c} : h'[d] = h[d]
  BY <1>0, <1>6 DEF StartsTask, EngineTypeOK
<1>8. EngineTypeOK'
  BY <1>0, <1>4, <1>5, <1>7 DEF EngineTypeOK
<1>9. HoldersSound'
  <2>1. ASSUME NEW q \in Runners, Active(q)' PROVE run'[q].id \in Ids /\ boxes'[run'[q].id].phase # "none"
    <3>1. CASE q = r
      BY <1>0, <1>1, <1>3, <1>4, <3>1
    <3>2. CASE q # r
      BY <1>0, <1>4, <2>1, <3>2 DEF TaskInv, HoldersSound, Active
    <3> QED
      BY <3>1, <3>2
  <2>2. ASSUME NEW d \in Conns
        PROVE  /\ h'[d].pc = "started" => h'[d].id \in Ids
               /\ (h'[d].pc \in {"attach", "started"} /\ h'[d].id \in Ids) =>
                     boxes'[h'[d].id].phase # "none" /\ boxes'[h'[d].id].name = h'[d].name
               /\ h'[d].pc = "started" => h'[d].tool # "spawn"
               /\ (h'[d].pc \in {"attach", "started"} /\ h'[d].tool # "spawn") =>
                     (h'[d].tool = "apply" <=> h'[d].name \in Keys)
    <3>1. CASE d = c
      BY <1>6, <1>7, <3>1
    <3>2. CASE d # c
      <4>1. h'[d] = h[d] /\ boxes' = boxes
        BY <1>0, <1>7, <3>2
      <4> QED
        BY <4>1 DEF TaskInv, HoldersSound
    <3> QED
      BY <3>1, <3>2
  <2> QED
    BY <2>1, <2>2 DEF HoldersSound
<1>10. WorkingHasTask'
  <2> SUFFICES ASSUME NEW i \in Ids, tasks[i] = "working"
               PROVE  \/ \E q \in Runners : run'[q].pc = "run" /\ run'[q].id = i
                      \/ \E d \in Conns : h'[d].pc = "started" /\ h'[d].id = i
    BY <1>0 DEF WorkingHasTask
  <2>1. CASE h[c].id = i
    BY <1>3, <1>4, <2>1
  <2>2. CASE h[c].id # i
    <3>1. \A q \in Runners : run[q].pc = "run" => run'[q] = run[q]
      BY <1>0, <1>4
    <3>2. \A d \in Conns : h[d].id = i => h'[d] = h[d]
      BY <1>7, <2>2
    <3> QED
      BY <3>1, <3>2 DEF TaskInv, WorkingHasTask
  <2> QED
    BY <2>1, <2>2
<1>11. Applying(c)' => h'[c].pc = "apply"
  BY <1>6, <1>7 DEF Applying
<1> QED
  BY <1>0, <1>1, <1>2, <1>4, <1>5, <1>6, <1>7, <1>8, <1>9, <1>10, <1>11 DEF t, TaskInv

\* Apply reads the fleet: it and the other Apply calls under way are marked.
LEMMA ApplyReadsMoves ==
    ASSUME TaskInv, NEW c \in Conns, h[c].pc = "idle", ApplyReads(c),
           UNCHANGED <<boxes, tasks, keys, run>>
    PROVE  /\ TaskInv'
           /\ h'[c].pc = "apply" /\ h'[c].live = {i \in Ids : Live(i)}
           /\ h'[c].overlap = (\E d \in Conns \ {c} : Applying(d))
           /\ \A d \in Conns \ {c} :
                /\ h'[d].pc = h[d].pc /\ h'[d].tool = h[d].tool /\ h'[d].name = h[d].name
                /\ h'[d].id = h[d].id /\ h'[d].left = h[d].left /\ h'[d].live = h[d].live
                /\ Applying(d) => h'[d].overlap
<1> DEFINE others == {d \in Conns \ {c} : Applying(d)}
           g == [h[c] EXCEPT !.pc = "apply", !.tool = "apply", !.left = Keys,
                             !.live = {i \in Ids : Live(i)}, !.overlap = others # {}]
<1>0. EngineTypeOK /\ \A d \in Conns : h[d] \in Handler
  BY DEF TaskInv, EngineTypeOK
<1>1. h' = [d \in Conns |-> IF d = c THEN g
                            ELSE IF d \in others THEN [h[d] EXCEPT !.overlap = TRUE] ELSE h[d]]
  BY DEF ApplyReads
<1>2. /\ g \in Handler /\ g.pc = "apply" /\ g.live = {i \in Ids : Live(i)}
      /\ g.overlap = (others # {})
  <2>1. {i \in Ids : Live(i)} \in SUBSET Ids /\ (others # {}) \in BOOLEAN
    OBVIOUS
  <2> HIDE DEF others
  <2> QED
    BY <1>0, <2>1 DEF Handler, Tools
<1> HIDE DEF g
<1>3. \A d \in Conns : /\ [h[d] EXCEPT !.overlap = TRUE] \in Handler
                       /\ [h[d] EXCEPT !.overlap = TRUE].overlap
  BY <1>0 DEF Handler
<1>4. h' \in [Conns -> Handler] /\ h'[c] = g
  BY <1>0, <1>1, <1>2, <1>3
<1>5. ASSUME NEW d \in Conns \ {c}
      PROVE  /\ h'[d].pc = h[d].pc /\ h'[d].tool = h[d].tool /\ h'[d].name = h[d].name
             /\ h'[d].id = h[d].id /\ h'[d].left = h[d].left /\ h'[d].live = h[d].live
             /\ Applying(d) => h'[d].overlap
  <2>1. CASE Applying(d)
    <3>1. h'[d] = [h[d] EXCEPT !.overlap = TRUE]
      BY <1>1, <2>1
    <3> QED
      BY <1>0, <1>3, <3>1 DEF Handler
  <2>2. CASE ~Applying(d)
    BY <1>1, <2>2
  <2> QED
    BY <2>1, <2>2
<1>6. EngineTypeOK'
  BY <1>0, <1>4 DEF EngineTypeOK
<1>7. HoldersSound'
  <2>1. \A r \in Runners : Active(r)' => run'[r].id \in Ids /\ boxes'[run'[r].id].phase # "none"
    BY DEF TaskInv, HoldersSound, Active
  <2>2. ASSUME NEW d \in Conns
        PROVE  /\ h'[d].pc = "started" => h'[d].id \in Ids
               /\ (h'[d].pc \in {"attach", "started"} /\ h'[d].id \in Ids) =>
                     boxes'[h'[d].id].phase # "none" /\ boxes'[h'[d].id].name = h'[d].name
               /\ h'[d].pc = "started" => h'[d].tool # "spawn"
               /\ (h'[d].pc \in {"attach", "started"} /\ h'[d].tool # "spawn") =>
                     (h'[d].tool = "apply" <=> h'[d].name \in Keys)
    <3>1. CASE d = c
      BY <1>2, <1>4, <3>1
    <3>2. CASE d # c
      <4>1. /\ h'[d].pc = h[d].pc /\ h'[d].tool = h[d].tool /\ h'[d].name = h[d].name
            /\ h'[d].id = h[d].id /\ boxes' = boxes
        BY <1>5, <3>2
      <4> QED
        BY <4>1 DEF TaskInv, HoldersSound
    <3> QED
      BY <3>1, <3>2
  <2> QED
    BY <2>1, <2>2 DEF HoldersSound
<1>8. WorkingHasTask'
  <2>1. \A d \in Conns : h[d].pc = "started" => h'[d].pc = "started" /\ h'[d].id = h[d].id
    BY <1>5
  <2> QED
    BY <2>1 DEF TaskInv, WorkingHasTask
<1> QED
  BY <1>2, <1>4, <1>5, <1>6, <1>7, <1>8 DEF TaskInv

\* A handler that answers, fails or is told to reply does nothing else to tasks and keys.
LEMMA QuietMoves ==
    ASSUME TaskInv, NEW c \in Conns,
           ApplyEnds(c) \/ Reply(c) \/ AttachFails(c) \/ (c \in Clients /\ ClientStep(c))
    PROVE  \E g \in Handler : /\ g.pc \in {"idle", "reply"} /\ h' = [h EXCEPT ![c] = g]
                              /\ h[c].pc # "started" /\ UNCHANGED <<boxes, tasks, keys, run>>
<1>0. h[c] \in Handler
  BY DEF TaskInv, EngineTypeOK
<1>1. CASE ApplyEnds(c) \/ Reply(c) \/ AttachFails(c)
  <2>1. IdleHandler \in Handler /\ [IdleHandler EXCEPT !.pc = "reply"] \in Handler
        /\ IdleHandler.pc = "idle" /\ [IdleHandler EXCEPT !.pc = "reply"].pc = "reply"
    BY DEF IdleHandler, Handler, Names, Messages
  <2> QED
    BY <1>1, <2>1 DEF ApplyEnds, Reply, AttachFails
<1>2. CASE c \in Clients /\ ClientStep(c)
  <2>1. PICK m \in {"ack", "body"} : /\ ToReply(c, m) /\ h[c] = IdleHandler
                                     /\ UNCHANGED <<boxes, tasks, keys, run>>
    BY <1>2 DEF ClientStep, Subscribes, ReadsFirst, ReadsAgain, HandleSubscribe, HandleRead, Call
  <2> DEFINE g == [h[c] EXCEPT !.pc = "reply", !.resp = m]
  <2>2. h[c].pc = "idle"
    BY <2>1 DEF IdleHandler
  <2>3. m \in Messages \ {"note"}
    BY <2>1 DEF Messages
  <2>4. g \in Handler /\ g.pc = "reply"
    BY <1>0, <2>3 DEF Handler
  <2>5. h' = [h EXCEPT ![c] = g]
    BY <2>1 DEF ToReply
  <2> HIDE DEF g
  <2> QED
    BY <2>1, <2>2, <2>4, <2>5
<1> QED
  BY <1>1, <1>2

\* Looking up finds a box of the name, or none.
LEMMA LooksUpMoves ==
    ASSUME TaskInv, NEW c \in Conns, NEW tool \in Tools, NEW name \in Names,
           tool # "spawn" => (tool = "apply" <=> name \in Keys),
           h[c].pc # "started", LooksUp(c, tool, name), UNCHANGED <<boxes, tasks, keys, run>>
    PROVE  /\ TaskInv'
           /\ h'[c].pc = "attach" /\ h'[c].tool = tool /\ h'[c].name = name
           /\ h'[c].left = h[c].left /\ h'[c].live = h[c].live /\ h'[c].overlap = h[c].overlap
           /\ h'[c].id = NoId \/ (h'[c].id \in Ids /\ Live(h'[c].id) /\ boxes[h'[c].id].name = name)
           /\ \A d \in Conns \ {c} : h'[d] = h[d]
<1>0. h[c] \in Handler /\ h \in [Conns -> Handler]
  BY DEF TaskInv, EngineTypeOK
<1>1. PICK i \in Ids \cup {NoId} :
        /\ Finds(name, i)
        /\ h' = [h EXCEPT ![c] = [@ EXCEPT !.pc = "attach", !.tool = tool, !.name = name, !.id = i]]
  BY DEF LooksUp
<1> DEFINE g == [h[c] EXCEPT !.pc = "attach", !.tool = tool, !.name = name, !.id = i]
<1>2. /\ g \in Handler /\ g.pc = "attach" /\ g.tool = tool /\ g.name = name /\ g.id = i
      /\ g.left = h[c].left /\ g.live = h[c].live /\ g.overlap = h[c].overlap
  BY <1>0 DEF Handler
<1>3. h' = [h EXCEPT ![c] = g]
  BY <1>1
<1> HIDE DEF g
<1>4. i = NoId \/ (i \in Ids /\ Live(i) /\ boxes[i].name = name)
  BY <1>1 DEF Finds
<1>5. h'[c] = g /\ \A d \in Conns \ {c} : h'[d] = h[d]
  BY <1>0, <1>3
<1>6. i \in Ids => boxes[i].phase # "none" /\ boxes[i].name = name
  BY <1>4 DEF Ids, NoId, Live
<1>7. TaskInv'
  BY <1>2, <1>3, <1>6, HandlerMoves
<1> QED
  BY <1>2, <1>4, <1>5, <1>7

(***************************************************************************)
(* Keys.                                                                   *)
(***************************************************************************)
\* Keys stay sound when no task starts, no row appears under a task, and no Apply reads
\* the fleet or goes on to delegate a key.
LEMMA KeysSame ==
    ASSUME ApplyInv, UNCHANGED keys,
           \A i \in Ids : boxes[i].phase # "none" =>
              boxes'[i].name = boxes[i].name /\ (Live(i)' => Live(i)),
           \A r \in Runners : Active(r)' =>
              Active(r) /\ run'[r].id = run[r].id /\ run'[r].overlap = run[r].overlap,
           \A c \in Conns : Applying(c)' =>
              /\ Applying(c) /\ h'[c].overlap = h[c].overlap
              /\ h'[c].left \subseteq h[c].left /\ h'[c].live = h[c].live
              /\ h'[c].pc \in {"attach", "started"} =>
                   /\ h[c].pc \in {"attach", "started"} /\ h'[c].name = h[c].name
                   /\ h'[c].id = h[c].id \/ boxes[h'[c].id].phase = "none"
    PROVE  Alone' /\ KeysSound' /\ AppliedOnce'
<1>1. \A r \in Runners : Active(r)' =>
        /\ Active(r) /\ run'[r].id = run[r].id /\ run'[r].overlap = run[r].overlap
        /\ run[r].id \in Ids /\ boxes[run[r].id].phase # "none"
        /\ boxes'[run[r].id].name = boxes[run[r].id].name
        /\ Live(run[r].id)' => Live(run[r].id)
  BY DEF ApplyInv, TaskInv, HoldersSound
<1>2. Alone'
  BY DEF ApplyInv, Alone
<1>3. AppliedOnce'
  BY <1>1 DEF ApplyInv, AppliedOnce
<1>4. KeysSound'
  <2> SUFFICES ASSUME NEW r \in Runners, Active(r)', ~run'[r].overlap
               PROVE  /\ (Live(run[r].id)' /\ boxes'[run'[r].id].name \in Keys) =>
                            keys'[boxes'[run'[r].id].name] = run'[r].id
                      /\ \A c \in Conns : Applying(c)' =>
                           /\ (Live(run[r].id)' /\ boxes'[run'[r].id].name \in h'[c].left) =>
                                 run'[r].id \in h'[c].live
                           /\ h'[c].pc \in {"attach", "started"} =>
                                /\ run'[r].id # h'[c].id
                                /\ Live(run[r].id)' => boxes'[run'[r].id].name # h'[c].name
    BY <1>1 DEF KeysSound, Live
  <2> DEFINE i == run[r].id
             k == boxes[i].name
  <2>1. /\ run'[r].id = i /\ boxes'[i].name = k /\ boxes[i].phase # "none" /\ (Live(i)' => Live(i))
        /\ (Live(i) /\ k \in Keys) => keys[k] = i
        /\ \A c \in Conns : Applying(c) =>
             /\ (Live(i) /\ k \in h[c].left) => i \in h[c].live
             /\ h[c].pc \in {"attach", "started"} => i # h[c].id /\ (Live(i) => k # h[c].name)
    BY <1>1 DEF ApplyInv, KeysSound
  <2> HIDE DEF i, k
  <2>2. (Live(i)' /\ k \in Keys) => keys'[k] = i
    BY <2>1
  <2>3. ASSUME NEW c \in Conns, Applying(c)'
        PROVE  /\ (Live(i)' /\ k \in h'[c].left) => i \in h'[c].live
               /\ h'[c].pc \in {"attach", "started"} =>
                    i # h'[c].id /\ (Live(i)' => k # h'[c].name)
    BY <2>1, <2>3
  <2> QED
    BY <2>1, <2>2, <2>3 DEF i
<1> QED
  BY <1>2, <1>3, <1>4

\* Apply goes on to delegate a key only when no live box of the key runs a task that it
\* should have seen.
LEMMA ApplyDelegatesKeys ==
    ASSUME ApplyInv, NEW c \in Conns, NEW k \in Keys, ApplyDelegates(c, k)
    PROVE  ApplyInv'
<1>0. /\ h[c].pc = "apply" /\ k \in h[c].left /\ keys[k] \notin h[c].live
      /\ UNCHANGED <<boxes, tasks, keys, run>> /\ Applying(c)
  BY DEF ApplyDelegates, Converged, Applying
<1>1. /\ TaskInv' /\ h'[c].pc = "attach" /\ h'[c].tool = "apply" /\ h'[c].name = k
      /\ h'[c].left = h[c].left /\ h'[c].live = h[c].live /\ h'[c].overlap = h[c].overlap
      /\ h'[c].id = NoId \/ (h'[c].id \in Ids /\ Live(h'[c].id) /\ boxes[h'[c].id].name = k)
      /\ \A d \in Conns \ {c} : h'[d] = h[d]
  <2>1. LooksUp(c, "apply", k) /\ "apply" \in Tools /\ k \in Names
    BY DEF ApplyDelegates, Tools, Names
  <2> QED
    BY <1>0, <2>1, LooksUpMoves DEF ApplyInv
<1>2. \A d \in Conns : /\ Applying(d)' => Applying(d) /\ h'[d].overlap = h[d].overlap
                       /\ h'[d].left = h[d].left /\ h'[d].live = h[d].live
  BY <1>0, <1>1 DEF Applying
<1>3. Alone'
  BY <1>2 DEF ApplyInv, Alone
<1>4. AppliedOnce'
  BY <1>0 DEF ApplyInv, AppliedOnce, Active
<1>5. KeysSound'
  <2> SUFFICES ASSUME NEW r \in Runners, Active(r), ~run[r].overlap
               PROVE  /\ (Live(run[r].id) /\ boxes[run[r].id].name \in Keys) =>
                            keys[boxes[run[r].id].name] = run[r].id
                      /\ \A d \in Conns : Applying(d)' =>
                           /\ (Live(run[r].id) /\ boxes[run[r].id].name \in h'[d].left) =>
                                 run[r].id \in h'[d].live
                           /\ h'[d].pc \in {"attach", "started"} =>
                                /\ run[r].id # h'[d].id
                                /\ Live(run[r].id) => boxes[run[r].id].name # h'[d].name
    BY <1>0 DEF KeysSound, Active, Live
  <2> DEFINE i == run[r].id
  <2>1. /\ i \in Ids
        /\ (Live(i) /\ boxes[i].name \in Keys) => keys[boxes[i].name] = i
        /\ \A d \in Conns : Applying(d) =>
             /\ (Live(i) /\ boxes[i].name \in h[d].left) => i \in h[d].live
             /\ h[d].pc \in {"attach", "started"} =>
                  i # h[d].id /\ (Live(i) => boxes[i].name # h[d].name)
    BY DEF ApplyInv, TaskInv, HoldersSound, KeysSound
  <2> HIDE DEF i
  <2>2. Live(i) => boxes[i].name # k
    BY <1>0, <2>1
  <2>3. i # h'[c].id
    BY <1>1, <2>1, <2>2 DEF Ids, NoId
  <2>4. ASSUME NEW d \in Conns, Applying(d)'
        PROVE  /\ (Live(i) /\ boxes[i].name \in h'[d].left) => i \in h'[d].live
               /\ h'[d].pc \in {"attach", "started"} =>
                    i # h'[d].id /\ (Live(i) => boxes[i].name # h'[d].name)
    <3>1. CASE d = c
      BY <1>0, <1>1, <2>1, <2>2, <2>3, <3>1
    <3>2. CASE d # c
      BY <1>1, <1>2, <2>1, <2>4, <3>2
    <3> QED
      BY <3>1, <3>2
  <2> QED
    BY <2>1, <2>4 DEF i
<1> QED
  BY <1>1, <1>3, <1>4, <1>5 DEF ApplyInv

\* An Apply that reads the fleet sees every box that runs a task and has a row.
LEMMA ApplyReadsKeys ==
    ASSUME ApplyInv, NEW c \in Conns, h[c].pc = "idle", ApplyReads(c),
           UNCHANGED <<boxes, tasks, keys, run>>
    PROVE  ApplyInv'
<1>1. /\ TaskInv'
      /\ h'[c].pc = "apply" /\ h'[c].live = {i \in Ids : Live(i)}
      /\ h'[c].overlap = (\E d \in Conns \ {c} : Applying(d))
      /\ \A d \in Conns \ {c} :
           /\ h'[d].pc = h[d].pc /\ h'[d].tool = h[d].tool /\ h'[d].name = h[d].name
           /\ h'[d].id = h[d].id /\ h'[d].left = h[d].left /\ h'[d].live = h[d].live
           /\ Applying(d) => h'[d].overlap
  BY ApplyReadsMoves DEF ApplyInv
<1>2. \A d \in Conns \ {c} : Applying(d)' <=> Applying(d)
  BY <1>1 DEF Applying
<1>3. Alone'
  <2> SUFFICES ASSUME NEW d \in Conns, NEW e \in Conns, d # e, Applying(d)', Applying(e)'
               PROVE  h'[d].overlap
    BY DEF Alone
  <2>1. CASE d = c
    BY <1>1, <1>2, <2>1
  <2>2. CASE d # c
    BY <1>1, <1>2, <2>2
  <2> QED
    BY <2>1, <2>2
<1>4. AppliedOnce'
  BY DEF ApplyInv, AppliedOnce, Active
<1>5. KeysSound'
  <2> SUFFICES ASSUME NEW r \in Runners, Active(r), ~run[r].overlap
               PROVE  /\ (Live(run[r].id) /\ boxes[run[r].id].name \in Keys) =>
                            keys[boxes[run[r].id].name] = run[r].id
                      /\ \A d \in Conns : Applying(d)' =>
                           /\ (Live(run[r].id) /\ boxes[run[r].id].name \in h'[d].left) =>
                                 run[r].id \in h'[d].live
                           /\ h'[d].pc \in {"attach", "started"} =>
                                /\ run[r].id # h'[d].id
                                /\ Live(run[r].id) => boxes[run[r].id].name # h'[d].name
    BY DEF KeysSound, Active, Live
  <2> DEFINE i == run[r].id
  <2>1. /\ i \in Ids
        /\ (Live(i) /\ boxes[i].name \in Keys) => keys[boxes[i].name] = i
        /\ \A d \in Conns : Applying(d) =>
             /\ (Live(i) /\ boxes[i].name \in h[d].left) => i \in h[d].live
             /\ h[d].pc \in {"attach", "started"} =>
                  i # h[d].id /\ (Live(i) => boxes[i].name # h[d].name)
    BY DEF ApplyInv, TaskInv, HoldersSound, KeysSound
  <2> HIDE DEF i
  <2>2. ASSUME NEW d \in Conns, Applying(d)'
        PROVE  /\ (Live(i) /\ boxes[i].name \in h'[d].left) => i \in h'[d].live
               /\ h'[d].pc \in {"attach", "started"} =>
                    i # h'[d].id /\ (Live(i) => boxes[i].name # h'[d].name)
    <3>1. CASE d = c
      BY <1>1, <2>1, <3>1
    <3>2. CASE d # c
      BY <1>1, <1>2, <2>1, <2>2, <3>2
    <3> QED
      BY <3>1, <3>2
  <2> QED
    BY <2>1, <2>2 DEF i
<1> QED
  BY <1>1, <1>3, <1>4, <1>5 DEF ApplyInv

\* A task that no overlapping Apply starts is the first of its kind on its box, and the
\* key is recorded with it.
LEMMA StartsTaskKeys ==
    ASSUME ApplyInv, NEW c \in Conns, NEW r \in Runners, StartsTask(c, r)
    PROVE  ApplyInv'
<1>1. /\ TaskInv' /\ UNCHANGED boxes
      /\ h[c].pc = "started" /\ h[c].id \in Ids /\ (Applying(c) <=> h[c].name \in Keys)
      /\ run'[r] = [pc |-> "run", id |-> h[c].id, overlap |-> h[c].overlap]
      /\ run[r].pc = "none" /\ \A q \in Runners \ {r} : run'[q] = run[q]
      /\ \A k \in Keys : keys'[k] = IF Applying(c) /\ k = h[c].name THEN h[c].id ELSE keys[k]
      /\ \A d \in Conns \ {c} : h'[d] = h[d]
      /\ h'[c].pc \in {"apply", "reply"}
      /\ Applying(c)' => /\ Applying(c) /\ h'[c].overlap = h[c].overlap
                         /\ h'[c].live = h[c].live /\ h'[c].left = h[c].left \ {h[c].name}
  BY StartsTaskMoves DEF ApplyInv
<1>2. run'[r].id = h[c].id /\ run'[r].overlap = h[c].overlap /\ boxes[h[c].id].name = h[c].name
  BY <1>1 DEF ApplyInv, TaskInv, HoldersSound
<1>3. \A q \in Runners \ {r} : Active(q)' <=> Active(q)
  BY <1>1 DEF Active
<1>4. \A d \in Conns : Applying(d)' =>
        /\ Applying(d) /\ h'[d].overlap = h[d].overlap /\ h'[d].live = h[d].live
        /\ h'[d].left \subseteq h[d].left
        /\ h'[d].pc \in {"attach", "started"} => h'[d] = h[d] /\ d # c
  BY <1>1 DEF Applying
<1>5. Alone'
  BY <1>4 DEF ApplyInv, Alone
<1>6. ASSUME NEW q \in Runners, q # r, Active(q), ~run[q].overlap
      PROVE  /\ run[q].id \in Ids
             /\ (Live(run[q].id) /\ boxes[run[q].id].name \in Keys) =>
                   keys[boxes[run[q].id].name] = run[q].id
             /\ \A d \in Conns : Applying(d) =>
                  /\ (Live(run[q].id) /\ boxes[run[q].id].name \in h[d].left) => run[q].id \in h[d].live
                  /\ h[d].pc \in {"attach", "started"} =>
                       run[q].id # h[d].id /\ (Live(run[q].id) => boxes[run[q].id].name # h[d].name)
  BY <1>6 DEF ApplyInv, TaskInv, HoldersSound, KeysSound
<1>7. AppliedOnce'
  <2> SUFFICES ASSUME NEW p \in Runners, NEW q \in Runners, p # q, Active(p)', Active(q)',
                      run'[p].id = run'[q].id, boxes'[run'[p].id].name \in Keys,
                      ~run'[p].overlap, ~run'[q].overlap
               PROVE  FALSE
    BY DEF AppliedOnce
  <2>1. CASE p # r /\ q # r
    BY <1>1, <1>3, <2>1 DEF ApplyInv, AppliedOnce
  <2>2. ASSUME NEW o \in Runners, o # r, Active(o), ~run[o].overlap, run[o].id = h[c].id,
               h[c].name \in Keys
        PROVE  FALSE
    BY <1>1, <1>6, <2>2
  <2> QED
    BY <1>1, <1>2, <1>3, <2>1, <2>2
<1>8. KeysSound'
  <2> SUFFICES ASSUME NEW q \in Runners, Active(q)', ~run'[q].overlap
               PROVE  /\ (Live(run'[q].id) /\ boxes[run'[q].id].name \in Keys) =>
                            keys'[boxes[run'[q].id].name] = run'[q].id
                      /\ \A d \in Conns : Applying(d)' =>
                           /\ (Live(run'[q].id) /\ boxes[run'[q].id].name \in h'[d].left) =>
                                 run'[q].id \in h'[d].live
                           /\ h'[d].pc \in {"attach", "started"} =>
                                /\ run'[q].id # h'[d].id
                                /\ Live(run'[q].id) => boxes[run'[q].id].name # h'[d].name
    BY <1>1 DEF KeysSound, Live
  <2>1. CASE q = r
    <3>1. run'[q].id = h[c].id /\ boxes[run'[q].id].name = h[c].name /\ ~h[c].overlap
      BY <1>2, <2>1
    <3>2. h[c].name \in Keys => keys'[h[c].name] = h[c].id
      BY <1>1
    <3>3. ASSUME NEW d \in Conns, Applying(d)'
          PROVE  /\ h[c].name \notin h'[d].left
                 /\ h'[d].pc \in {"attach", "started"} => h[c].id # h'[d].id /\ h[c].name # h'[d].name
      <4>1. h[d] \in Handler
        BY DEF ApplyInv, TaskInv, EngineTypeOK
      <4>2. CASE h[c].name \in Keys
        <5>1. d = c
          BY <1>1, <1>4, <3>1, <3>3, <4>2 DEF ApplyInv, Alone
        <5> QED
          BY <1>1, <3>3, <5>1
      <4>3. CASE h[c].name \notin Keys
        <5>1. h'[d].left \subseteq Keys
          BY <1>4, <3>3, <4>1 DEF Handler
        <5>2. ASSUME h'[d].pc \in {"attach", "started"}
              PROVE  h'[d].name \in Keys /\ h[c].id # h'[d].id
          <6>1. h'[d] = h[d] /\ Applying(d) /\ h[d].pc \in {"attach", "started"}
            BY <1>4, <3>3, <5>2
          <6>2. h[d].tool = "apply"
            BY <6>1 DEF Applying
          <6>3. h[d].name \in Keys /\ (h[d].id \in Ids => boxes[h[d].id].name = h[d].name)
            BY <6>1, <6>2 DEF ApplyInv, TaskInv, HoldersSound
          <6> QED
            BY <1>1, <1>2, <4>3, <6>1, <6>3
        <5> QED
          BY <4>3, <5>1, <5>2
      <4> QED
        BY <4>2, <4>3
    <3> QED
      BY <3>1, <3>2, <3>3
  <2>2. CASE q # r
    <3> DEFINE i == run[q].id
    <3>1. /\ run'[q].id = i /\ Active(q) /\ ~run[q].overlap
      BY <1>1, <1>3, <2>2
    <3>2. /\ i \in Ids
          /\ (Live(i) /\ boxes[i].name \in Keys) => keys[boxes[i].name] = i
          /\ \A d \in Conns : Applying(d) =>
               /\ (Live(i) /\ boxes[i].name \in h[d].left) => i \in h[d].live
               /\ h[d].pc \in {"attach", "started"} =>
                    i # h[d].id /\ (Live(i) => boxes[i].name # h[d].name)
      BY <1>6, <2>2, <3>1
    <3> HIDE DEF i
    <3>3. (Live(i) /\ boxes[i].name \in Keys) => keys'[boxes[i].name] = i
      BY <1>1, <3>2
    <3>4. ASSUME NEW d \in Conns, Applying(d)'
          PROVE  /\ (Live(i) /\ boxes[i].name \in h'[d].left) => i \in h'[d].live
                 /\ h'[d].pc \in {"attach", "started"} =>
                      i # h'[d].id /\ (Live(i) => boxes[i].name # h'[d].name)
      BY <1>4, <3>2, <3>4
    <3> QED
      BY <3>1, <3>3, <3>4
  <2> QED
    BY <2>1, <2>2
<1> QED
  BY <1>1, <1>5, <1>7, <1>8 DEF ApplyInv

(***************************************************************************)
(* Every step.                                                             *)
(***************************************************************************)
\* The initial state has no tasks.
LEMMA ApplyInvInit == Init => ApplyInv
<1> SUFFICES ASSUME Init PROVE ApplyInv
  OBVIOUS
<1>1. IdleHandler \in Handler /\ IdleHandler.pc = "idle"
  BY DEF IdleHandler, Handler, Names, Messages
<1>2. NoBox \in EngineBox /\ NoTask \in Runner /\ NoTask.pc = "none"
  BY DEF NoBox, EngineBox, Names, Phases, NoTask, Runner
<1>3. EngineTypeOK
  BY <1>1, <1>2 DEF Init, EngineTypeOK
<1>4. /\ \A r \in Runners : ~Active(r)
      /\ \A c \in Conns : h[c].pc = "idle" /\ ~Applying(c)
      /\ \A i \in Ids : tasks[i] = "none"
  BY <1>1, <1>2 DEF Init, Active, Applying
<1> QED
  BY <1>3, <1>4 DEF ApplyInv, TaskInv, HoldersSound, WorkingHasTask, Alone, KeysSound, AppliedOnce

\* A tool call looks up a box or reads the fleet.
LEMMA ToolHandledInv ==
    ASSUME ApplyInv, NEW c \in Conns, NEW tools, h[c] = IdleHandler, ToolHandled(c, tools)
    PROVE  ApplyInv'
<1>0. h[c].pc = "idle" /\ UNCHANGED <<boxes, tasks, keys, run>>
  BY DEF ToolHandled, IdleHandler
<1>1. ASSUME NEW tool \in Tools, NEW name \in Names, tool # "apply",
             tool # "spawn" => (tool = "apply" <=> name \in Keys), LooksUp(c, tool, name)
      PROVE  ApplyInv'
  <2>1. /\ TaskInv' /\ h'[c].pc = "attach" /\ h'[c].tool = tool
        /\ \A d \in Conns \ {c} : h'[d] = h[d]
    BY <1>0, <1>1, LooksUpMoves DEF ApplyInv
  <2>2. ~Applying(c)' /\ \A d \in Conns \ {c} : Applying(d)' => Applying(d)
    BY <1>1, <2>1 DEF Applying
  <2>3. Alone' /\ KeysSound' /\ AppliedOnce'
    BY <1>0, <2>1, <2>2, KeysSame DEF Active, Live
  <2> QED
    BY <2>1, <2>3 DEF ApplyInv
<1>2. CASE Spawn(c)
  <2>1. PICK name \in Names : LooksUp(c, "spawn", name)
    BY <1>2 DEF Spawn
  <2> QED
    BY <1>1, <2>1 DEF Tools
<1>3. CASE Delegate(c)
  BY <1>1, <1>3 DEF Delegate, Tools, Names
<1>4. CASE ApplyReads(c)
  BY <1>0, <1>4, ApplyReadsKeys
<1> QED
  BY <1>2, <1>3, <1>4 DEF ToolHandled

\* Every step keeps tasks and keys sound.
LEMMA ApplyInvNext == ApplyInv /\ [Next]_vars => ApplyInv'
<1> SUFFICES ASSUME ApplyInv, [Next]_vars PROVE ApplyInv'
  OBVIOUS
<1>0. TaskInv /\ EngineTypeOK
  BY DEF ApplyInv, TaskInv
<1>1. ASSUME UNCHANGED <<boxes, tasks, keys, run, h>>
      PROVE  ApplyInv'
  BY <1>1 DEF ApplyInv, TaskInv, EngineTypeOK, HoldersSound, WorkingHasTask, Alone, KeysSound,
              AppliedOnce, Active, Applying, Live
<1>2. ASSUME (\E i \in Ids : BoxGoes(i)) \/ (\E r \in Runners : TaskStep(r)) PROVE ApplyInv'
  <2>1. /\ TaskInv' /\ UNCHANGED <<keys, h>>
        /\ \A i \in Ids : boxes'[i].name = boxes[i].name /\ (Live(i)' => Live(i))
        /\ \A r \in Runners : Active(r)' =>
             Active(r) /\ run'[r].id = run[r].id /\ run'[r].overlap = run[r].overlap
    BY <1>0, <1>2, BoxOrTaskMoves
  <2>2. Alone' /\ KeysSound' /\ AppliedOnce'
    BY <2>1, KeysSame DEF Applying
  <2> QED
    BY <2>1, <2>2 DEF ApplyInv
<1>3. ASSUME NEW c \in Conns, AttachCreates(c) \/ AttachUpdates(c) PROVE ApplyInv'
  <2>1. /\ TaskInv' /\ UNCHANGED <<keys, run>> /\ h[c].pc = "attach"
        /\ \A d \in Conns \ {c} : h'[d] = h[d]
        /\ \/ h'[c].pc = "reply"
           \/ \E i \in Ids : /\ h'[c] = [h[c] EXCEPT !.pc = "started", !.id = i]
                             /\ boxes[i].phase = "none" \/ h[c].id = i
        /\ \A i \in Ids : boxes[i].phase # "none" => boxes'[i] = boxes[i]
    BY <1>0, <1>3, AttachMoves
  <2>2. ASSUME Applying(c)'
        PROVE  /\ Applying(c) /\ h'[c].overlap = h[c].overlap
               /\ h'[c].left = h[c].left /\ h'[c].live = h[c].live /\ h'[c].name = h[c].name
               /\ h'[c].id = h[c].id \/ boxes[h'[c].id].phase = "none"
    <3>1. PICK i \in Ids : /\ h'[c] = [h[c] EXCEPT !.pc = "started", !.id = i]
                           /\ boxes[i].phase = "none" \/ h[c].id = i
      BY <2>1, <2>2 DEF Applying
    <3>2. h[c] \in Handler
      BY <1>0 DEF EngineTypeOK
    <3> QED
      BY <2>1, <2>2, <3>1, <3>2 DEF Handler, Applying
  <2>3. \A d \in Conns \ {c} : Applying(d)' => Applying(d)
    BY <2>1 DEF Applying
  <2>4. Alone' /\ KeysSound' /\ AppliedOnce'
    BY <2>1, <2>2, <2>3, KeysSame DEF Active, Live
  <2> QED
    BY <2>1, <2>4 DEF ApplyInv
<1>4. ASSUME NEW c \in Conns,
             ApplyEnds(c) \/ Reply(c) \/ AttachFails(c) \/ (c \in Clients /\ ClientStep(c))
      PROVE  ApplyInv'
  <2>1. PICK g \in Handler : /\ g.pc \in {"idle", "reply"} /\ h' = [h EXCEPT ![c] = g]
                             /\ h[c].pc # "started" /\ UNCHANGED <<boxes, tasks, keys, run>>
    BY <1>0, <1>4, QuietMoves
  <2>2. TaskInv'
    BY <1>0, <2>1, HandlerMoves
  <2>3. h'[c] = g /\ \A d \in Conns \ {c} : h'[d] = h[d]
    BY <1>0, <2>1 DEF EngineTypeOK
  <2>4. ~Applying(c)' /\ \A d \in Conns \ {c} : Applying(d)' => Applying(d)
    BY <2>1, <2>3 DEF Applying
  <2>5. Alone' /\ KeysSound' /\ AppliedOnce'
    BY <2>1, <2>3, <2>4, KeysSame DEF Active, Live
  <2> QED
    BY <2>2, <2>5 DEF ApplyInv
<1>5. ASSUME NEW c \in Conns, NEW k \in Keys, ApplySkips(c, k) PROVE ApplyInv'
  <2> DEFINE g == [h[c] EXCEPT !.left = h[c].left \ {k}]
  <2>0. h[c] \in Handler
    BY <1>0 DEF EngineTypeOK
  <2>1. /\ g \in Handler /\ g.pc = h[c].pc /\ g.overlap = h[c].overlap
        /\ g.left \subseteq h[c].left /\ g.live = h[c].live
    BY <2>0 DEF Handler
  <2>2. h' = [h EXCEPT ![c] = g] /\ h[c].pc = "apply" /\ UNCHANGED <<boxes, tasks, keys, run>>
    BY <1>5 DEF ApplySkips
  <2> HIDE DEF g
  <2>3. TaskInv'
    BY <1>0, <2>1, <2>2, HandlerMoves
  <2>4. h'[c] = g /\ \A d \in Conns \ {c} : h'[d] = h[d]
    BY <1>0, <2>2 DEF EngineTypeOK
  <2>5. Applying(c) /\ \A d \in Conns \ {c} : Applying(d)' => Applying(d)
    BY <2>2, <2>4 DEF Applying
  <2>6. Alone' /\ KeysSound' /\ AppliedOnce'
    BY <2>1, <2>2, <2>4, <2>5, KeysSame DEF Active, Live
  <2> QED
    BY <2>3, <2>6 DEF ApplyInv
<1>6. ASSUME NEW c \in Conns, HandlerStep(c) PROVE ApplyInv'
  BY <1>3, <1>4, <1>5, <1>6, ApplyDelegatesKeys, StartsTaskKeys DEF HandlerStep
<1>7. ASSUME NEW c \in Clients, ClientStep(c) \/ CallsTool(c) PROVE ApplyInv'
  <2>1. c \in Conns
    BY DEF Conns
  <2> QED
    BY <1>4, <1>7, <2>1, ToolHandledInv DEF CallsTool, Call
<1>8. ASSUME NEW c \in Callers, CallerCalls(c) PROVE ApplyInv'
  BY <1>8, ToolHandledInv DEF CallerCalls, Conns
<1>9. CASE UNCHANGED vars
  BY <1>1, <1>9 DEF vars
<1>10. ASSUME NEW a \in Actors, NEW c \in Clients, NotifyAll(a, c) PROVE ApplyInv'
  BY <1>1, <1>10 DEF NotifyAll
<1>11. CASE WatchTicks \/ SurfaceEvent
  BY <1>1, <1>11 DEF WatchTicks, SurfaceEvent
<1>12. ASSUME NEW c \in Clients, Route(c) \/ ClientStops(c) \/ ClientLeaves(c) PROVE ApplyInv'
  BY <1>1, <1>12 DEF Route, ClientStops, ClientLeaves
<1> QED
  BY <1>2, <1>6, <1>7, <1>8, <1>9, <1>10, <1>11, <1>12 DEF Next

\* Tasks and handlers work on boxes that were made, Apply calls that run at the same time
\* are marked, and the keys know the box of every task that an unmarked one started.
THEOREM MCPInvariant == Spec => []ApplyInv
<1>1. Init => ApplyInv
  BY ApplyInvInit
<1>2. ApplyInv /\ [Next]_vars => ApplyInv'
  BY ApplyInvNext
<1> QED
  BY <1>1, <1>2, PTL DEF Spec

\* No box of a key runs two tasks at once unless overlapping Apply calls started them,
\* for any number of clients that apply the same keys, and whatever rows go meanwhile.
THEOREM MCPAppliedOnce == Spec => []AppliedOnce
<1>1. ApplyInv => AppliedOnce
  BY DEF ApplyInv
<1> QED
  BY <1>1, MCPInvariant, PTL

\* A box shown as working has a task that works there or is about to.
THEOREM MCPWorkingHasTask == Spec => []WorkingHasTask
<1>1. ApplyInv => WorkingHasTask
  BY DEF ApplyInv, TaskInv
<1> QED
  BY <1>1, MCPInvariant, PTL
=============================================================================
