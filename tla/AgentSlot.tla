------------------------------ MODULE AgentSlot ------------------------------
(***************************************************************************)
(* What the hub promises the rest of the daemon, with no goroutines and no *)
(* dead sessions: every box has one exclusive slot.  A slot is taken only  *)
(* when it is free and is given back by its holder; it never passes from   *)
(* one holder to another directly.  A restart frees every slot at once.    *)
(***************************************************************************)
CONSTANTS Boxes, Conns, None

VARIABLE slot

SlotInit == slot = [x \in Boxes |-> None]

Take(x, c) == slot[x] = None /\ slot' = [slot EXCEPT ![x] = c]

Leave(x) == slot[x] # None /\ slot' = [slot EXCEPT ![x] = None]

LeaveAll == slot' = [x \in Boxes |-> None]

SlotNext ==
    \/ \E x \in Boxes : Leave(x) \/ \E c \in Conns : Take(x, c)
    \/ LeaveAll

SlotSpec == SlotInit /\ [][SlotNext]_slot
=============================================================================
