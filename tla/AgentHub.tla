------------------------------ MODULE AgentHub ------------------------------
(***************************************************************************)
(* internal/agenthub: the registry of agent sessions.  Every agent that    *)
(* dials in is served by one accept goroutine; the goroutine resolves the  *)
(* handshake token to a box, tries to become the box's agent (Register),   *)
(* reports "connected" through the StateSink, waits for its yamux session  *)
(* to close, gives the slot back (Unregister) and reports "disconnected".  *)
(* Both reports are made after the hub's mutex is released.                *)
(*                                                                         *)
(* The goroutine of connection c is conn[c]; its program counter says      *)
(* which statement of accept it has reached:                               *)
(*   idle     not running (no dial, or the goroutine returned)             *)
(*   resolved token resolved, yamux client built, Register not yet called  *)
(*   telling  Register succeeded, sink(true) not yet returned              *)
(*   serving  blocked on sess.CloseChan()                                  *)
(*   leaving  Unregister deleted the slot, sink(false) not yet returned    *)
(***************************************************************************)
CONSTANTS
    Boxes,      \* box (workspace) ids
    Conns,      \* accept goroutines that may run at the same time
    None        \* "no session" in the hub's map

ASSUME NoneAssumption == None \notin Boxes /\ None \notin Conns

VARIABLES
    hub,        \* Hub.sessions: box -> the connection that owns it, or None
    conn        \* connection -> [pc, box, alive], alive = ~sess.IsClosed()

hubVars == <<hub, conn>>

ConnPCs == {"idle", "resolved", "telling", "serving", "leaving"}

IdleConn == [pc |-> "idle", box |-> None, alive |-> FALSE]

HubTypeOK ==
    /\ hub \in [Boxes -> Conns \cup {None}]
    /\ conn \in [Conns -> [pc: ConnPCs, box: Boxes \cup {None}, alive: BOOLEAN]]

HubInit ==
    /\ hub = [x \in Boxes |-> None]
    /\ conn = [c \in Conns |-> IdleConn]

(***************************************************************************)
(* A live session owns box x: what Hub.Connected(x) reports.               *)
(***************************************************************************)
Connected(x) == hub[x] # None /\ conn[hub[x]].alive

\* accept up to the yamux client: the token resolved to box x.
Dial(c, x) ==
    /\ conn[c].pc = "idle"
    /\ conn' = [conn EXCEPT ![c] = [pc |-> "resolved", box |-> x, alive |-> TRUE]]
    /\ UNCHANGED hub

\* Mutant of Register: displaces a live session.
RegisterDisplacing(c) ==
    /\ conn[c].pc = "resolved"
    /\ hub' = [hub EXCEPT ![conn[c].box] = c]
    /\ conn' = [conn EXCEPT ![c].pc = "telling"]

\* Register when the slot is free or held by a session that has died.
Register(c) ==
    /\ conn[c].pc = "resolved"
    /\ ~Connected(conn[c].box)
    /\ hub' = [hub EXCEPT ![conn[c].box] = c]
    /\ conn' = [conn EXCEPT ![c].pc = "telling"]

\* Register when a live agent owns the box: the newcomer is turned away.
Refuse(c) ==
    /\ conn[c].pc = "resolved"
    /\ Connected(conn[c].box)
    /\ conn' = [conn EXCEPT ![c] = IdleConn]
    /\ UNCHANGED hub

\* Mutant of ToldUp: accept returns without waiting for the session to close.
ToldUpAndReturn(c) ==
    /\ conn[c].pc = "telling"
    /\ conn' = [conn EXCEPT ![c] = [@ EXCEPT !.pc = "idle", !.alive = FALSE]]
    /\ UNCHANGED hub

\* sink(true) returned; accept blocks on CloseChan.
ToldUp(c) ==
    /\ conn[c].pc = "telling"
    /\ conn' = [conn EXCEPT ![c].pc = "serving"]
    /\ UNCHANGED hub

\* The yamux session closes: the agent or the network died, or keepalive
\* gave up on a peer that went silent.
Drop(c) ==
    /\ conn[c].alive
    /\ conn' = [conn EXCEPT ![c].alive = FALSE]
    /\ UNCHANGED hub

\* Unregister by the session that still owns the slot.
Unregister(c) ==
    /\ conn[c].pc = "serving" /\ ~conn[c].alive
    /\ hub[conn[c].box] = c
    /\ hub' = [hub EXCEPT ![conn[c].box] = None]
    /\ conn' = [conn EXCEPT ![c].pc = "leaving"]

\* Mutant of UnregisterReplaced: does not check that the slot is still its own.
UnregisterWhoeverHolds(c) ==
    /\ conn[c].pc = "serving" /\ ~conn[c].alive
    /\ hub[conn[c].box] # c
    /\ hub' = [hub EXCEPT ![conn[c].box] = None]
    /\ conn' = [conn EXCEPT ![c].pc = "leaving"]

\* Unregister by a session that was replaced: no effect, no report.
UnregisterReplaced(c) ==
    /\ conn[c].pc = "serving" /\ ~conn[c].alive
    /\ hub[conn[c].box] # c
    /\ conn' = [conn EXCEPT ![c] = IdleConn]
    /\ UNCHANGED hub

\* sink(false) returned; accept returns.
ToldDown(c) ==
    /\ conn[c].pc = "leaving"
    /\ conn' = [conn EXCEPT ![c] = IdleConn]
    /\ UNCHANGED hub

\* The daemon restarts: New() starts with an empty map and no goroutines.
HubRestart ==
    /\ hub' = [x \in Boxes |-> None]
    /\ conn' = [c \in Conns |-> IdleConn]

HubNext ==
    \/ \E c \in Conns :
          \/ \E x \in Boxes : Dial(c, x)
          \/ Register(c)
          \/ Refuse(c)
          \/ ToldUp(c)
          \/ Drop(c)
          \/ Unregister(c)
          \/ UnregisterReplaced(c)
          \/ ToldDown(c)
    \/ HubRestart

HubSpec == HubInit /\ [][HubNext]_hubVars

\* The goroutine's own steps are scheduled; dials, drops and restarts are the
\* environment's and are never promised.
HubFairness ==
    \A c \in Conns :
        WF_hubVars(\/ Register(c) \/ Refuse(c) \/ ToldUp(c)
                   \/ Unregister(c) \/ UnregisterReplaced(c) \/ ToldDown(c))

HubLiveSpec == HubSpec /\ HubFairness

-----------------------------------------------------------------------------
(***************************************************************************)
(* The inductive invariant.                                                *)
(***************************************************************************)
\* A slot names a connection that registered for exactly that box.
SlotBacked ==
    \A x \in Boxes :
        hub[x] # None =>
            /\ conn[hub[x]].box = x
            /\ conn[hub[x]].pc \in {"telling", "serving"}

\* A registered session that is still alive has not lost its slot.
LiveOwnsSlot ==
    \A c \in Conns :
        (conn[c].pc \in {"telling", "serving"} /\ conn[c].alive) =>
            hub[conn[c].box] = c

\* A running accept goroutine is about some box.
BusyHasBox ==
    \A c \in Conns : conn[c].pc # "idle" => conn[c].box \in Boxes

HubInv == HubTypeOK /\ SlotBacked /\ LiveOwnsSlot /\ BusyHasBox

(***************************************************************************)
(* Properties.                                                             *)
(***************************************************************************)
\* Two live registered sessions never serve the same box, although accept
\* goroutines race through resolve, Register, close and Unregister: the
\* second agent of a box is turned away (Register's comment).
OneLiveAgent ==
    \A c, d \in Conns :
        /\ conn[c].pc \in {"telling", "serving"} /\ conn[c].alive
        /\ conn[d].pc \in {"telling", "serving"} /\ conn[d].alive
        /\ conn[c].box = conn[d].box
        => c = d

\* No step of another goroutine takes the slot of a live session: it changes
\* hands only once that session has died (Register refuses, Unregister of a
\* replaced session is a no-op) or when the whole daemon restarts.
NoDisplacement ==
    [][\A x \in Boxes :
          Connected(x) => hub'[x] = hub[x] \/ HubRestart]_hubVars

\* A dead session never keeps a box's slot for good, so a genuine reconnect is
\* not turned away for ever: Unregister runs or a newcomer replaces it.
DeadSlotFreed ==
    \A x \in Boxes : \A c \in Conns :
        (hub[x] = c /\ ~conn[c].alive) ~> (hub[x] # c)

(***************************************************************************)
(* The hub implements AgentSlot: a slot is held while its owner is alive.  *)
(***************************************************************************)
SlotView == [x \in Boxes |-> IF Connected(x) THEN hub[x] ELSE None]

Slot == INSTANCE AgentSlot WITH slot <- SlotView

\* Every step of the hub, seen through Hub.Connected, is one holder taking a
\* free slot, one holder leaving, a restart, or invisible.
ImplementsSlot == Slot!SlotSpec
=============================================================================
