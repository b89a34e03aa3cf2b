-------------------------------- MODULE MCP --------------------------------
(***************************************************************************)
(* boxd's control plane for AI clients: one EngineBackend, a Server per    *)
(* connection, surfaces rendered over HTTP, and the clients of hopbox-mcp  *)
(* (ps, watch).  Whoever changes something calls every connection's        *)
(* notifyAll in its own goroutine and waits for each write, and a client   *)
(* has one reader for responses and notifications: what is checked is that *)
(* pushes reach everybody, that tasks settle and are shown as what they    *)
(* are, when a key runs twice, and exactly when all that stops.            *)
(* The engine is BoxFleet, reduced to the rows it lists: a row appears     *)
(* with a Create and may go at any time, whoever holds the box, since it   *)
(* may fail.  What becomes of the flag Attached is not seen here.          *)
(***************************************************************************)
EXTENDS Naturals, Sequences, FiniteSets, Functions

CONSTANTS
    Clients,        \* clients that subscribe to a resource
    Callers,        \* clients that only call tools
    CallerTools,    \* bound: the tools those call
    Keys,           \* the keys of the boxes declared by fleet.apply
    NotifCap,       \* capacity of a client's notifs channel
    WireCap,        \* messages a connection holds before a write blocks
    MaxBoxes,       \* bound: boxes ever made
    MaxTasks,       \* bound: tasks ever delegated
    MaxInputs       \* bound: tool calls and interactions with the surface

ASSUME MCPAssumption ==
    /\ IsFiniteSet(Clients \cup Callers) /\ Clients \cap Callers = {} /\ IsFiniteSet(Keys)
    /\ {NotifCap, WireCap, MaxBoxes, MaxTasks} \subseteq Nat \ {0}
    /\ MaxInputs \in Nat
    /\ "mcp" \notin Keys

VARIABLES
    boxes,      \* the engine's boxes, by id
    tasks,      \* EngineBackend.tasks: box id -> state of its task
    keys,       \* EngineBackend.keys: key -> box id
    run,        \* the runTask goroutines
    uri,        \* client -> the resource it follows, the fleet or the surface's events
    fresh,      \* the copies of a resource, on their way or shown, that are current
    push,       \* actor inside notify -> connections it has still to call
    h,          \* connection -> what its handler is doing
    subs,       \* connections with a subscription
    wire,       \* connection -> messages on their way to the client
    notes,      \* client -> notifications in its notifs channel
    cl,         \* client -> where it is
    inputs      \* tool calls and interactions left

vars == <<boxes, tasks, keys, run, uri, fresh, push, h, subs, wire, notes, cl, inputs>>

Ids == 1 .. MaxBoxes
Runners == 1 .. MaxTasks
NoId == 0
Phases == {"none", "live", "gone"}
Tools == {"spawn", "delegate", "apply"}
Watch == <<"watch">>
\* Who calls notify: the watch goroutine, a handler, a task, an HTTP request.
Actors == {Watch} \cup ({"handler"} \X (Clients \cup Callers)) 
              \cup ({"task"} \X Runners) \cup ({"http"} \X (1 .. MaxInputs))
Conns == Clients \cup Callers

\* The box has a row.
Live(i) == boxes[i].phase = "live"

\* Fleet: the overlay of a task hides the phase of its box.
Fleet == [i \in Ids |-> CASE ~Live(i) -> "none"
                          [] Live(i) /\ tasks[i] # "none" -> tasks[i]
                          [] OTHER -> "live"]

\* A copy of the fleet is kept by the watch goroutine; one of the fleet or of the
\* surface's events by a connection's response, by the wire and by the client's screen.
\* A copy is current until the resource changes.
Copies(C) == {"resp", "wire", "view"} \X C
Followers(u) == {c \in Clients : uri[c] = u}
FleetChanges ==
    fresh' = IF Fleet' = Fleet THEN fresh ELSE fresh \ ({Watch} \cup Copies(Followers("fleet")))

Messages == {"note", "ack", "body"}

Names == Keys \cup {"mcp"}
EngineBox == [name: Names, phase: Phases]

\* overlap is a history: another Apply was under way during this one.
Handler == [pc: {"idle", "apply", "attach", "started", "reply"},
            tool: Tools \cup {"none"}, name: Names, id: Ids \cup {NoId},
            left: SUBSET Keys, live: SUBSET Ids, overlap: BOOLEAN, resp: Messages \ {"note"}]
Runner == [pc: {"none", "run", "push", "over"}, id: Ids \cup {NoId}, overlap: BOOLEAN]

EngineTypeOK ==
    /\ boxes \in [Ids -> EngineBox]
    /\ tasks \in [Ids -> {"none", "working", "ended"}]
    /\ keys \in [Keys -> Ids \cup {NoId}]
    /\ run \in [Runners -> Runner]
    /\ h \in [Conns -> Handler]

TypeOK ==
    /\ EngineTypeOK
    /\ uri \in [Clients -> {"fleet", "surface"}]
    /\ fresh \subseteq {Watch} \cup Copies(Clients)
    /\ push \in [Actors -> SUBSET Clients]
    /\ subs \subseteq Clients
    /\ \A c \in Clients : Len(wire[c]) <= WireCap /\ Range(wire[c]) \subseteq Messages
    /\ notes \in [Clients -> 0 .. NotifCap]
    /\ cl \in [Clients -> [pc: {"start", "setup", "loop", "await", "stopped", "gone"}, back: {"setup", "loop"}]]
    /\ inputs \in 0 .. MaxInputs

IdleHandler == [pc |-> "idle", tool |-> "none", name |-> "mcp", id |-> NoId, left |-> {},
                live |-> {}, overlap |-> FALSE, resp |-> "ack"]

NoBox == [name |-> "mcp", phase |-> "none"]
NoTask == [pc |-> "none", id |-> NoId, overlap |-> FALSE]

Init ==
    /\ boxes = [i \in Ids |-> NoBox]
    /\ tasks = [i \in Ids |-> "none"]
    /\ keys = [k \in Keys |-> NoId]
    /\ run = [r \in Runners |-> NoTask]
    /\ uri \in [Clients -> {"fleet", "surface"}]
    /\ fresh = {Watch} \cup ({"view"} \X Clients)
    /\ push = [a \in Actors |-> {}]
    /\ h = [c \in Conns |-> IdleHandler]
    /\ subs = {}
    /\ wire = [c \in Clients |-> <<>>]
    /\ notes = [c \in Clients |-> 0]
    /\ cl = [c \in Clients |-> [pc |-> "start", back |-> "setup"]]
    /\ inputs = MaxInputs

Gone(c) == cl[c].pc = "gone"

-----------------------------------------------------------------------------
(***************************************************************************)
(* notify: the functions registered now are called one after the other, in *)
(* any order; that of a connection without subscription does nothing.      *)
(***************************************************************************)
Notify(a) == push' = [push EXCEPT ![a] = {c \in Clients : ~Gone(c)}]
Notified(a) == push[a] = {}

\* Mutant of Send: a write to a closed connection waits too.
SendBlocks(c, m) ==
    IF c \in Callers THEN UNCHANGED wire
    ELSE Len(wire[c]) < WireCap /\ wire' = [wire EXCEPT ![c] = Append(@, m)]

\* A write to a connection waits for room; one to a closed connection fails at once.  A
\* caller reads its one response at once.
Send(c, m) ==
    IF c \in Callers \/ Gone(c) THEN UNCHANGED wire
    ELSE Len(wire[c]) < WireCap /\ wire' = [wire EXCEPT ![c] = Append(@, m)]

\* A copy moves on: a body from the handler to the wire, from the wire to the screen.
Moves(c, from, to) ==
    fresh' = IF <<from, c>> \in fresh THEN (fresh \ {<<from, c>>}) \cup {<<to, c>>}
             ELSE fresh \ {<<to, c>>}

\* notifyAll of one connection, which has one subscription or none.
NotifyAll(a, c) ==
    /\ c \in push[a]
    /\ IF c \in subs THEN Send(c, "note") ELSE UNCHANGED wire
    /\ push' = [push EXCEPT ![a] = @ \ {c}]
    /\ UNCHANGED <<boxes, tasks, keys, run, uri, fresh, h, subs, notes, cl, inputs>>

\* The watch goroutine, once a second.
WatchTicks ==
    /\ Notified(Watch)
    /\ Watch \notin fresh
    /\ fresh' = fresh \cup {Watch}
    /\ Notify(Watch)
    /\ UNCHANGED <<boxes, tasks, keys, run, uri, h, subs, wire, notes, cl, inputs>>

\* A user's click or input, POSTed by the page.
SurfaceEvent ==
    /\ inputs > 0
    /\ inputs' = inputs - 1
    /\ fresh' = fresh \ Copies(Followers("surface"))
    /\ Notify(<<"http", inputs>>)
    /\ UNCHANGED <<boxes, tasks, keys, run, uri, h, subs, wire, notes, cl>>

-----------------------------------------------------------------------------
(***************************************************************************)
(* The engine.                                                             *)
(***************************************************************************)
\* byOwnerName finds the box of this name, whatever its phase, or none.  "mcp" stands for
\* all the names made from the clock, modulo 1e6: the name of a live box may recur.
Finds(name, i) ==
    \/ i \in Ids /\ Live(i) /\ boxes[i].name = name
    \/ i = NoId /\ (name \in Keys => \A j \in Ids : ~(Live(j) /\ boxes[j].name = name))

\* A row goes: the box failed, its grace period ended or somebody destroyed it.
BoxGoes(i) ==
    /\ Live(i)
    /\ boxes' = [boxes EXCEPT ![i].phase = "gone"]
    /\ UNCHANGED <<tasks, keys, run, uri, push, h, subs, wire, notes, cl, inputs>>
    /\ FleetChanges

(***************************************************************************)
(* runTask.                                                                *)
(***************************************************************************)
\* It waits 90 s for the box's agent; OpenExec may fail; then frames come until the
\* exit code, or until the stream breaks, which counts as success.  Nothing here tells
\* done and failed apart.
SetTask(i, st, a) ==
    /\ tasks' = [tasks EXCEPT ![i] = st]
    /\ Notify(a)

\* Mutant of RunTask: an early return of runTask does not report the failure.
RunTaskSilent(r) ==
    /\ run[r].pc = "run"
    /\ \/ SetTask(run[r].id, "ended", <<"task", r>>)
       \/ UNCHANGED <<tasks, push>>
    /\ run' = [run EXCEPT ![r].pc = "push"]
    /\ UNCHANGED <<boxes, keys, uri, h, subs, wire, notes, cl, inputs>>
    /\ FleetChanges

RunTask(r) ==
    /\ run[r].pc = "run"
    /\ SetTask(run[r].id, "ended", <<"task", r>>)
    /\ run' = [run EXCEPT ![r].pc = "push"]
    /\ UNCHANGED <<boxes, keys, uri, h, subs, wire, notes, cl, inputs>>
    /\ FleetChanges

\* The deferred release, once every connection was notified.
RunTaskReleases(r) ==
    /\ run[r].pc = "push" /\ Notified(<<"task", r>>)
    /\ run' = [run EXCEPT ![r] = [NoTask EXCEPT !.pc = "over"]]
    /\ UNCHANGED <<boxes, tasks, keys, uri, fresh, push, h, subs, wire, notes, cl, inputs>>

-----------------------------------------------------------------------------
(***************************************************************************)
(* A connection's handler: one request at a time.                          *)
(***************************************************************************)
ToReply(c, m) == h' = [h EXCEPT ![c] = [@ EXCEPT !.pc = "reply", !.resp = m]]

HandleSubscribe(c) ==
    /\ subs' = subs \cup {c}
    /\ ToReply(c, "ack")

\* The body of a read is made before the write gets the connection.
HandleRead(c) ==
    /\ ToReply(c, "body")
    /\ fresh' = fresh \cup {<<"resp", c>>}

\* Engine.Attach looks the box up by its name and then, in a second statement, creates
\* it or marks the row it found ...
LooksUp(c, tool, name) ==
    \E i \in Ids \cup {NoId} :
        /\ Finds(name, i)
        /\ h' = [h EXCEPT ![c] = [@ EXCEPT !.pc = "attach", !.tool = tool, !.name = name, !.id = i]]

\* ... for Spawn, of any name, for Delegate and for Apply.
Spawn(c) == \E name \in Names : LooksUp(c, "spawn", name)
Delegate(c) == LooksUp(c, "delegate", "mcp")

\* Spawn lets the box go at once and notifies; delegateNamed shows the box working.
Attached(c, i) ==
    \/ /\ h[c].tool = "spawn"
       /\ Notify(<<"handler", c>>) /\ UNCHANGED tasks
       /\ h' = [h EXCEPT ![c] = [IdleHandler EXCEPT !.pc = "reply"]]
    \/ /\ h[c].tool # "spawn"
       /\ SetTask(i, "working", <<"handler", c>>)
       /\ h' = [h EXCEPT ![c] = [@ EXCEPT !.pc = "started", !.id = i]]

\* A name is unique among the rows of an owner.
AttachCreates(c) ==
    /\ h[c].pc = "attach" /\ h[c].id = NoId /\ Finds(h[c].name, NoId)
    /\ \E i \in Ids :
        /\ boxes[i].phase = "none" /\ \A j \in 1 .. (i - 1) : boxes[j].phase # "none"
        /\ boxes' = [boxes EXCEPT ![i] = [name |-> h[c].name, phase |-> "live"]]
        /\ Attached(c, i)
    /\ UNCHANGED <<keys, run, uri, subs, wire, notes, cl, inputs>>
    /\ FleetChanges

\* The update of a row that is gone by now is no error.
AttachUpdates(c) ==
    /\ h[c].pc = "attach" /\ h[c].id \in Ids
    /\ Attached(c, h[c].id)
    /\ UNCHANGED <<boxes, keys, run, uri, subs, wire, notes, cl, inputs>>
    /\ FleetChanges

\* The name is refused, another call created the box first, or the store fails: the tool
\* returns the error, Apply with the keys before this one started and the others not.
AttachFails(c) ==
    /\ h[c].pc = "attach"
    /\ h' = [h EXCEPT ![c] = [IdleHandler EXCEPT !.pc = "reply"]]
    /\ UNCHANGED <<boxes, tasks, keys, run, uri, fresh, push, subs, wire, notes, cl, inputs>>

\* Apply reads the fleet once ...
Applying(c) == h[c].pc = "apply" \/ (h[c].pc \in {"attach", "started"} /\ h[c].tool = "apply")

ApplyReads(c) ==
    LET others == {d \in Conns \ {c} : Applying(d)} IN
    h' = [d \in Conns |->
            IF d = c THEN [h[c] EXCEPT !.pc = "apply", !.tool = "apply", !.left = Keys,
                                       !.live = {i \in Ids : Live(i)}, !.overlap = others # {}]
            ELSE IF d \in others THEN [h[d] EXCEPT !.overlap = TRUE] ELSE h[d]]

Converged(c, k) == keys[k] \in h[c].live

\* ... skips the keys whose box was in it ...
ApplySkips(c, k) ==
    /\ h[c].pc = "apply" /\ k \in h[c].left /\ Converged(c, k)
    /\ h' = [h EXCEPT ![c].left = @ \ {k}]
    /\ UNCHANGED <<boxes, tasks, keys, run, uri, fresh, push, subs, wire, notes, cl, inputs>>

\* ... and delegates the others.
ApplyDelegates(c, k) ==
    /\ h[c].pc = "apply" /\ k \in h[c].left /\ ~Converged(c, k)
    /\ LooksUp(c, "apply", k)
    /\ UNCHANGED <<boxes, tasks, keys, run, uri, fresh, push, subs, wire, notes, cl, inputs>>

ApplyEnds(c) ==
    /\ h[c].pc = "apply" /\ h[c].left = {}
    /\ h' = [h EXCEPT ![c] = [IdleHandler EXCEPT !.pc = "reply"]]
    /\ UNCHANGED <<boxes, tasks, keys, run, uri, fresh, push, subs, wire, notes, cl, inputs>>

\* The state of a handler whose task is on its way: Apply goes on with the next key.
Started(c) ==
    IF h[c].tool = "apply"
    THEN [h[c] EXCEPT !.pc = "apply", !.id = NoId, !.left = @ \ {h[c].name}]
    ELSE [IdleHandler EXCEPT !.pc = "reply"]

\* Mutant of StartsTask: the key is not recorded.
StartsTaskUnkeyed(c, r) ==
    /\ h[c].pc = "started" /\ Notified(<<"handler", c>>)
    /\ run[r].pc = "none" /\ \A q \in 1 .. (r - 1) : run[q].pc # "none"
    /\ run' = [run EXCEPT ![r] = [pc |-> "run", id |-> h[c].id, overlap |-> h[c].overlap]]
    /\ h' = [h EXCEPT ![c] = Started(c)]
    /\ UNCHANGED <<boxes, tasks, keys, uri, fresh, push, subs, wire, notes, cl, inputs>>

\* Every connection notified, the task starts in a goroutine of its own; Apply then
\* records the key's box.
StartsTask(c, r) ==
    /\ h[c].pc = "started" /\ Notified(<<"handler", c>>)
    /\ run[r].pc = "none" /\ \A q \in 1 .. (r - 1) : run[q].pc # "none"
    /\ run' = [run EXCEPT ![r] = [pc |-> "run", id |-> h[c].id, overlap |-> h[c].overlap]]
    /\ keys' = IF h[c].tool = "apply" THEN [keys EXCEPT ![h[c].name] = h[c].id] ELSE keys
    /\ h' = [h EXCEPT ![c] = Started(c)]
    /\ UNCHANGED <<boxes, tasks, uri, fresh, push, subs, wire, notes, cl, inputs>>

Reply(c) ==
    /\ h[c].pc = "reply" /\ Notified(<<"handler", c>>)
    /\ Send(c, h[c].resp)
    /\ IF h[c].resp = "body" THEN Moves(c, "resp", "wire") ELSE UNCHANGED fresh
    /\ h' = [h EXCEPT ![c] = IdleHandler]
    /\ UNCHANGED <<boxes, tasks, keys, run, uri, push, subs, notes, cl, inputs>>

-----------------------------------------------------------------------------
(***************************************************************************)
(* A client: call sends a request, which the server handles when it gets   *)
(* to it, and waits for the one response.                                  *)
(***************************************************************************)
Call(c, back) ==
    /\ h[c] = IdleHandler
    /\ cl' = [cl EXCEPT ![c].pc = "await", ![c].back = back]

Subscribes(c) ==
    /\ cl[c].pc = "start"
    /\ Call(c, "setup") /\ HandleSubscribe(c)
    /\ UNCHANGED <<boxes, tasks, keys, run, uri, fresh, push, wire, notes, inputs>>

\* An AI calls tools whenever it likes.
ToolHandled(c, tools) ==
    /\ inputs > 0 /\ inputs' = inputs - 1
    /\ \/ "spawn" \in tools /\ Spawn(c)
       \/ "delegate" \in tools /\ Delegate(c)
       \/ "apply" \in tools /\ ApplyReads(c)
    /\ UNCHANGED <<boxes, tasks, keys, run, uri, fresh, push, subs, wire, notes>>

CallsTool(c) ==
    /\ cl[c].pc \in {"setup", "loop"}
    /\ Call(c, cl[c].pc)
    /\ ToolHandled(c, Tools)

CallerCalls(c) ==
    /\ h[c] = IdleHandler
    /\ ToolHandled(c, CallerTools)
    /\ UNCHANGED cl

\* Mutant of ReadsFirst: straight to the notifications.
SkipsFirstRead(c) ==
    /\ cl[c].pc = "setup"
    /\ cl' = [cl EXCEPT ![c].pc = "loop"]
    /\ UNCHANGED <<boxes, tasks, keys, run, uri, fresh, push, h, subs, wire, notes, inputs>>

\* ps and watch read once after they subscribed (demo, which shows nothing before its
\* first notification, is none of the Clients) ...
ReadsFirst(c) ==
    /\ cl[c].pc = "setup"
    /\ Call(c, "loop") /\ HandleRead(c)
    /\ UNCHANGED <<boxes, tasks, keys, run, uri, push, subs, wire, notes, inputs>>

\* ... and again for each notification.
ReadsAgain(c) ==
    /\ cl[c].pc = "loop" /\ notes[c] > 0
    /\ notes' = [notes EXCEPT ![c] = @ - 1]
    /\ Call(c, "loop") /\ HandleRead(c)
    /\ UNCHANGED <<boxes, tasks, keys, run, uri, push, subs, wire, inputs>>

\* route: the one reader of the connection waits for room in notifs.
Route(c) ==
    /\ wire[c] # <<>> /\ cl[c].pc # "stopped"
    /\ wire' = [wire EXCEPT ![c] = Tail(@)]
    /\ \/ /\ Head(wire[c]) = "note" /\ notes[c] < NotifCap
          /\ notes' = [notes EXCEPT ![c] = @ + 1]
          /\ UNCHANGED <<fresh, cl>>
       \/ /\ Head(wire[c]) # "note"
          /\ cl' = [cl EXCEPT ![c].pc = cl[c].back]
          /\ IF Head(wire[c]) = "body" THEN Moves(c, "wire", "view") ELSE UNCHANGED fresh
          /\ UNCHANGED notes
    /\ UNCHANGED <<boxes, tasks, keys, run, uri, push, h, subs, inputs>>

\* The client ends; its connection closes and what was on it is lost.
ClientLeaves(c) ==
    /\ ~Gone(c)
    /\ cl' = [cl EXCEPT ![c] = [pc |-> "gone", back |-> "setup"]]
    /\ wire' = [wire EXCEPT ![c] = <<>>]
    /\ notes' = [notes EXCEPT ![c] = 0]
    /\ fresh' = fresh \ Copies({c})
    /\ UNCHANGED <<boxes, tasks, keys, run, uri, push, h, subs, inputs>>

\* The client is stopped, as by ^Z, and no longer reads: what it holds is of no use now.
ClientStops(c) ==
    /\ cl[c].pc \notin {"start", "stopped", "gone"}
    /\ cl' = [cl EXCEPT ![c] = [pc |-> "stopped", back |-> "setup"]]
    /\ notes' = [notes EXCEPT ![c] = 0]
    /\ fresh' = fresh \ Copies({c})
    /\ UNCHANGED <<boxes, tasks, keys, run, uri, push, h, subs, wire, inputs>>

-----------------------------------------------------------------------------
TaskStep(r) == RunTask(r) \/ RunTaskReleases(r)

HandlerStep(c) ==
    \/ ApplyEnds(c) \/ Reply(c)
    \/ AttachCreates(c) \/ AttachUpdates(c) \/ AttachFails(c)
    \/ \E k \in Keys : ApplySkips(c, k) \/ ApplyDelegates(c, k)
    \/ \E r \in Runners : StartsTask(c, r)

ClientStep(c) == Subscribes(c) \/ ReadsFirst(c) \/ ReadsAgain(c)

Next ==
    \/ \E i \in Ids : BoxGoes(i)
    \/ \E r \in Runners : TaskStep(r)
    \/ \E a \in Actors, c \in Clients : NotifyAll(a, c)
    \/ WatchTicks \/ SurfaceEvent
    \/ \E c \in Conns : HandlerStep(c)
    \/ \E c \in Clients : ClientStep(c) \/ Route(c) \/ CallsTool(c)
                         \/ ClientStops(c) \/ ClientLeaves(c)
    \/ \E c \in Callers : CallerCalls(c)

Spec == Init /\ [][Next]_vars

\* Goroutines run and the command of a task ends; nobody has to call, click or leave, no
\* box has to start or go.
Fairness ==
    /\ WF_vars(WatchTicks)
    /\ \A r \in Runners : WF_vars(TaskStep(r))
    /\ \A a \in Actors : WF_vars(\E c \in Clients : NotifyAll(a, c))
    /\ \A c \in Conns : WF_vars(HandlerStep(c))
    /\ \A c \in Clients : WF_vars(ClientStep(c)) /\ WF_vars(Route(c))

FairSpec == Spec /\ Fairness

-----------------------------------------------------------------------------
\* A client waits for a response behind a notification its full channel refuses, or is
\* stopped with its connection full.
Jammed == \E c \in Clients :
    \/ cl[c].pc = "stopped" /\ Len(wire[c]) = WireCap
    \/ cl[c].pc = "await" /\ notes[c] = NotifCap /\ wire[c] # <<>> /\ Head(wire[c]) = "note"

Active(r) == run[r].pc \notin {"none", "over"}

\* "already applied + alive -> converged": however often a key is applied, by whomever,
\* and whatever becomes of its boxes meanwhile, no box of a key runs two tasks at once,
\* unless one of them was started by an Apply during which another Apply ran.
AppliedOnce == \A r, q \in Runners :
    (r # q /\ Active(r) /\ Active(q) /\ run[r].id = run[q].id) =>
        boxes[run[r].id].name \notin Keys \/ run[r].overlap \/ run[q].overlap

\* A box shown as working has a task that works there or is about to start, however many
\* tasks share the box and in whatever order they report: none is left as "working".
WorkingHasTask == \A i \in Ids : tasks[i] = "working" =>
    \/ \E r \in Runners : run[r].pc = "run" /\ run[r].id = i
    \/ \E c \in Conns : h[c].pc = "started" /\ h[c].id = i

\* Every delegated task is reported done or failed and gets to its release, unless a
\* client of the plane, any client, is jammed.
TaskSettles == \A r \in Runners : Active(r) ~> (run[r].pc = "over" \/ Jammed)

(***************************************************************************)
(* The inductive invariants.                                               *)
(***************************************************************************)
\* Tasks and handlers work on boxes that were made; a handler has the box of its name.
HoldersSound ==
    /\ \A r \in Runners : Active(r) => run[r].id \in Ids /\ boxes[run[r].id].phase # "none"
    /\ \A c \in Conns :
         /\ h[c].pc = "started" => h[c].id \in Ids
         /\ (h[c].pc \in {"attach", "started"} /\ h[c].id \in Ids) =>
               boxes[h[c].id].phase # "none" /\ boxes[h[c].id].name = h[c].name
         /\ h[c].pc = "started" => h[c].tool # "spawn"
         /\ (h[c].pc \in {"attach", "started"} /\ h[c].tool # "spawn") =>
               (h[c].tool = "apply" <=> h[c].name \in Keys)

\* An Apply that is not marked is the only one.
Alone == \A c, d \in Conns : (c # d /\ Applying(c) /\ Applying(d)) => h[c].overlap

\* A key's box is recorded while a task that no overlapping Apply started runs there and it
\* has a row; an Apply under way has seen it, or has dealt with the key, and works on a
\* box of that name only once this one is gone.
KeysSound ==
    \A r \in Runners : (Active(r) /\ ~run[r].overlap) =>
        LET i == run[r].id k == boxes[i].name IN
        /\ (Live(i) /\ k \in Keys) => keys[k] = i
        /\ \A c \in Conns : Applying(c) =>
             /\ (Live(i) /\ k \in h[c].left) => i \in h[c].live
             /\ h[c].pc \in {"attach", "started"} =>
                  i # h[c].id /\ (Live(i) => k # h[c].name)

TaskInv == EngineTypeOK /\ HoldersSound /\ WorkingHasTask
ApplyInv == TaskInv /\ Alone /\ KeysSound /\ AppliedOnce

\* "a push, not a poll": what a client shows is, again and again, what the resource
\* holds, although it reads only when notified; unless a client is jammed.
PushedFresh == \A c \in Clients : []<>(cl[c].pc \in {"stopped", "gone"} \/ <<"view", c>> \in fresh \/ Jammed)
=============================================================================
