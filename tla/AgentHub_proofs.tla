--------------------------- MODULE AgentHub_proofs ---------------------------
(***************************************************************************)
(* The hub's guarantees for any number of boxes and connections.           *)
(***************************************************************************)
EXTENDS AgentHub, TLAPS

(***************************************************************************)
(* HubInv is inductive.  Two of its parts carry each other: Unregister     *)
(* frees a slot only by its owner because SlotBacked names the owner, and  *)
(* Register overwrites a slot only when LiveOwnsSlot cannot be hurt.       *)
(***************************************************************************)
\* An empty hub satisfies the invariant.
LEMMA HubInvInit == HubInit => HubInv
BY NoneAssumption
   DEF HubInit, HubInv, HubTypeOK, SlotBacked, LiveOwnsSlot, BusyHasBox, IdleConn, ConnPCs

\* Every step of the hub keeps the invariant.
LEMMA HubInvStep == HubInv /\ [HubNext]_hubVars => HubInv'
<1> SUFFICES ASSUME HubInv, [HubNext]_hubVars PROVE HubInv'
  OBVIOUS
<1> USE NoneAssumption
    DEF HubInv, HubTypeOK, SlotBacked, LiveOwnsSlot, BusyHasBox, IdleConn, ConnPCs
<1>1. ASSUME NEW c \in Conns, NEW x \in Boxes, Dial(c, x) PROVE HubInv'
  BY <1>1 DEF Dial
<1>2. ASSUME NEW c \in Conns, Register(c) PROVE HubInv'
  BY <1>2 DEF Register, Connected
<1>3. ASSUME NEW c \in Conns, Refuse(c) PROVE HubInv'
  BY <1>3 DEF Refuse
<1>4. ASSUME NEW c \in Conns, ToldUp(c) PROVE HubInv'
  BY <1>4 DEF ToldUp
<1>5. ASSUME NEW c \in Conns, Drop(c) PROVE HubInv'
  <2>1. /\ hub' = hub
        /\ conn'[c] = [conn[c] EXCEPT !.alive = FALSE]
        /\ conn'[c].alive = FALSE
        /\ \A d \in Conns \ {c} : conn'[d] = conn[d]
    BY <1>5 DEF Drop
  <2>2. HubTypeOK'
    <3> DEFINE Rec == [pc: ConnPCs, box: Boxes \cup {None}, alive: BOOLEAN]
    <3>1. conn[c] \in Rec
      OBVIOUS
    <3>2. [conn[c] EXCEPT !.alive = FALSE] \in Rec
      BY <3>1
    <3> HIDE DEF Rec
    <3>3. conn' \in [Conns -> Rec]
      BY <1>5, <3>2 DEF Drop, Rec
    <3> QED
      BY <2>1, <3>3 DEF Rec
  <2>3. \A d \in Conns : conn'[d].pc = conn[d].pc /\ conn'[d].box = conn[d].box
    BY <2>1
  <2>4. SlotBacked' /\ BusyHasBox'
    BY <2>1, <2>3
  <2>5. LiveOwnsSlot'
    BY <2>1, <2>3
  <2> QED
    BY <2>2, <2>4, <2>5
<1>6. ASSUME NEW c \in Conns, Unregister(c) PROVE HubInv'
  BY <1>6 DEF Unregister
<1>7. ASSUME NEW c \in Conns, UnregisterReplaced(c) PROVE HubInv'
  BY <1>7 DEF UnregisterReplaced
<1>8. ASSUME NEW c \in Conns, ToldDown(c) PROVE HubInv'
  BY <1>8 DEF ToldDown
<1>9. CASE HubRestart
  BY <1>9 DEF HubRestart
<1>10. CASE UNCHANGED hubVars
  BY <1>10 DEF hubVars
<1> QED
  BY <1>1, <1>2, <1>3, <1>4, <1>5, <1>6, <1>7, <1>8, <1>9, <1>10 DEF HubNext

\* The hub keeps HubInv: every slot names a registered goroutine of that very
\* box, and every live registered session still owns its slot.
THEOREM HubInvariant == HubSpec => []HubInv
BY HubInvInit, HubInvStep, PTL DEF HubSpec

(***************************************************************************)
(* Safety.                                                                 *)
(***************************************************************************)
\* Register's promise for any number of racing goroutines: two live sessions
\* never serve the same box.
THEOREM HubOneLiveAgent == HubSpec => []OneLiveAgent
<1>1. HubInv => OneLiveAgent
  BY DEF HubInv, LiveOwnsSlot, OneLiveAgent
<1> QED
  BY <1>1, HubInvariant, PTL

\* No step but a restart takes the slot of a live session.
LEMMA NoDisplacementStep ==
    ASSUME HubInv, [HubNext]_hubVars, NEW x \in Boxes, Connected(x)
    PROVE  hub'[x] = hub[x] \/ HubRestart
<1> USE DEF HubInv, HubTypeOK, SlotBacked, Connected
<1>1. ASSUME NEW c \in Conns, Register(c) PROVE hub'[x] = hub[x]
  BY <1>1 DEF Register
<1>2. ASSUME NEW c \in Conns, Unregister(c) PROVE hub'[x] = hub[x]
  BY <1>2 DEF Unregister
<1>3. ASSUME NEW c \in Conns,
             \/ \E y \in Boxes : Dial(c, y)
             \/ Refuse(c) \/ ToldUp(c) \/ Drop(c) \/ UnregisterReplaced(c) \/ ToldDown(c)
      PROVE  hub'[x] = hub[x]
  BY <1>3 DEF Dial, Refuse, ToldUp, Drop, UnregisterReplaced, ToldDown
<1>4. CASE UNCHANGED hubVars
  BY <1>4 DEF hubVars
<1> QED
  BY <1>1, <1>2, <1>3, <1>4 DEF HubNext

\* No goroutine takes the slot of a live session away, in any interleaving of
\* Register and Unregister; only a restart of the daemon does.
THEOREM HubNoDisplacement == HubSpec => NoDisplacement
<1>1. HubInv /\ [HubNext]_hubVars =>
        [\A x \in Boxes : Connected(x) => hub'[x] = hub[x] \/ HubRestart]_hubVars
  BY NoDisplacementStep
<1> QED
  BY <1>1, HubInvariant, PTL DEF HubSpec, NoDisplacement

(***************************************************************************)
(* The hub implements AgentSlot.                                           *)
(***************************************************************************)
\* Only Register, Drop and a restart can be seen through Connected.
LEMMA SlotStep == HubInv /\ HubInv' /\ [HubNext]_hubVars => [Slot!SlotNext]_SlotView
<1> SUFFICES ASSUME HubInv, HubInv', [HubNext]_hubVars PROVE [Slot!SlotNext]_SlotView
  OBVIOUS
<1> USE NoneAssumption DEF HubInv, HubTypeOK, SlotBacked
<1>1. ASSUME NEW c \in Conns, Register(c) PROVE [Slot!SlotNext]_SlotView
  <2> PICK x \in Boxes : x = conn[c].box
    BY <1>1 DEF Register, BusyHasBox
  <2>1. /\ ~Connected(x)
        /\ hub' = [hub EXCEPT ![x] = c]
        /\ \A d \in Conns : conn'[d].alive = conn[d].alive
    BY <1>1 DEF Register
  <2>2. \A y \in Boxes \ {x} : Connected(y)' <=> Connected(y)
    BY <2>1 DEF Connected
  <2>3. SlotView[x] = None
    BY <2>1 DEF SlotView
  <2>4. CASE Connected(x)'
    <3>1. hub'[x] = c /\ \A y \in Boxes \ {x} : hub'[y] = hub[y]
      BY <2>1
    <3>2. SlotView' = [SlotView EXCEPT ![x] = c]
      BY <2>2, <2>4, <3>1 DEF SlotView
    <3> QED
      BY <2>3, <3>2 DEF Slot!SlotNext, Slot!Take
  <2>5. CASE ~Connected(x)'
    <3>1. SlotView' = SlotView
      BY <2>1, <2>2, <2>5 DEF SlotView
    <3> QED
      BY <3>1
  <2> QED
    BY <2>4, <2>5
<1>2. ASSUME NEW c \in Conns, Drop(c) PROVE [Slot!SlotNext]_SlotView
  <2>1. /\ hub' = hub
        /\ conn'[c].alive = FALSE
        /\ \A d \in Conns \ {c} : conn'[d] = conn[d]
    BY <1>2 DEF Drop
  <2>2. CASE \E x \in Boxes : hub[x] = c
    <3> PICK x \in Boxes : hub[x] = c
      BY <2>2
    <3>1. Connected(x) /\ ~Connected(x)'
      BY <1>2, <2>1 DEF Drop, Connected
    <3>2. \A y \in Boxes \ {x} : hub[y] # c
      OBVIOUS
    <3>3. \A y \in Boxes \ {x} : Connected(y)' <=> Connected(y)
      BY <2>1, <3>2 DEF Connected
    <3>4. SlotView' = [SlotView EXCEPT ![x] = None]
      BY <2>1, <3>1, <3>3 DEF SlotView
    <3>5. SlotView[x] = c
      BY <3>1 DEF SlotView
    <3>6. Slot!Leave(x)
      BY <3>4, <3>5 DEF Slot!Leave
    <3> QED
      BY <3>6 DEF Slot!SlotNext
  <2>3. CASE \A x \in Boxes : hub[x] # c
    <3>1. \A y \in Boxes : Connected(y)' <=> Connected(y)
      BY <2>1, <2>3 DEF Connected
    <3>2. SlotView' = SlotView
      BY <2>1, <3>1 DEF SlotView
    <3> QED
      BY <3>2
  <2> QED
    BY <2>2, <2>3
<1>3. ASSUME NEW c \in Conns, Unregister(c) PROVE [Slot!SlotNext]_SlotView
  <2> PICK x \in Boxes : x = conn[c].box
    BY <1>3 DEF Unregister, BusyHasBox
  <2>1. /\ ~Connected(x)
        /\ hub' = [hub EXCEPT ![x] = None]
        /\ \A d \in Conns : conn'[d].alive = conn[d].alive
    BY <1>3 DEF Unregister, Connected
  <2>2. ~Connected(x)' /\ \A y \in Boxes \ {x} : Connected(y)' <=> Connected(y)
    BY <2>1 DEF Connected
  <2>3. SlotView' = SlotView
    BY <2>1, <2>2 DEF SlotView
  <2> QED
    BY <2>3
<1>4. ASSUME NEW c \in Conns, \E x \in Boxes : Dial(c, x) PROVE [Slot!SlotNext]_SlotView
  <2>1. hub' = hub /\ \A d \in Conns \ {c} : conn'[d] = conn[d]
    BY <1>4 DEF Dial
  <2>2. \A y \in Boxes : hub[y] # c
    BY <1>4 DEF Dial
  <2>3. \A y \in Boxes : Connected(y)' <=> Connected(y)
    BY <2>1, <2>2 DEF Connected
  <2>4. SlotView' = SlotView
    BY <2>1, <2>3 DEF SlotView
  <2> QED
    BY <2>4
<1>5. ASSUME NEW c \in Conns, Refuse(c) \/ UnregisterReplaced(c) \/ ToldDown(c)
      PROVE  [Slot!SlotNext]_SlotView
  <2>1. hub' = hub /\ \A d \in Conns \ {c} : conn'[d] = conn[d]
    BY <1>5 DEF Refuse, UnregisterReplaced, ToldDown
  <2>2. \A y \in Boxes : hub[y] # c
    BY <1>5 DEF Refuse, UnregisterReplaced, ToldDown
  <2>3. \A y \in Boxes : Connected(y)' <=> Connected(y)
    BY <2>1, <2>2 DEF Connected
  <2>4. SlotView' = SlotView
    BY <2>1, <2>3 DEF SlotView
  <2> QED
    BY <2>4
<1>6. ASSUME NEW c \in Conns, ToldUp(c) PROVE [Slot!SlotNext]_SlotView
  <2>1. hub' = hub /\ \A d \in Conns : conn'[d].alive = conn[d].alive
    BY <1>6 DEF ToldUp
  <2>2. SlotView' = SlotView
    BY <2>1 DEF SlotView, Connected
  <2> QED
    BY <2>2
<1>7. CASE HubRestart
  <2>1. SlotView' = [x \in Boxes |-> None]
    BY <1>7 DEF HubRestart, SlotView, Connected
  <2> QED
    BY <2>1 DEF Slot!SlotNext, Slot!LeaveAll
<1>8. CASE UNCHANGED hubVars
  BY <1>8 DEF hubVars, SlotView, Connected
<1> QED
  BY <1>1, <1>2, <1>3, <1>4, <1>5, <1>6, <1>7, <1>8 DEF HubNext

\* Whatever the goroutines do, the rest of the daemon sees one exclusive slot per
\* box: taken only when free, left by its holder, never handed over directly.
THEOREM HubImplementsSlot == HubSpec => ImplementsSlot
<1>1. HubInit => Slot!SlotInit
  BY DEF HubInit, Slot!SlotInit, SlotView, Connected
<1> QED
  BY <1>1, SlotStep, HubInvariant, PTL DEF HubSpec, ImplementsSlot, Slot!SlotSpec
=============================================================================
