-------------------------------- MODULE Box --------------------------------
(***************************************************************************)
(* internal/core/box without the engine and the reconciler: the phase      *)
(* machine and the pure decisions on a box (lifetime, idleness).           *)
(*                                                                         *)
(* Times are kept relative to the clock, in ticks:                         *)
(*   deadline    ticks left until Box.Deadline, Unset when it is nil       *)
(*   lastActive  ticks since Box.LastActive (at most IdleCap), Unset when  *)
(*               it is the zero time                                       *)
(*   keep        ticks left until now.After(KeepAliveUntil) holds          *)
(* so that time need not be bounded: a tick ages a box (Age).              *)
(***************************************************************************)
EXTENDS Integers

CONSTANTS
    Persistent,   \* EngineConfig.Persistent: the daemon's tier (boxd has one)
    Grace,        \* EngineConfig.DefaultGrace, in ticks; 0 = reap at once
    IdleTimeout,  \* IdleConfig.Timeout
    IdleOverride, \* the timeouts `box-guest idle` may set
    KeepTicks     \* the longest time `box-guest keep-alive` may pin the box

Unset == -1

IdleTimeouts == {IdleTimeout} \cup IdleOverride

\* Ages beyond every timeout are not told apart.
IdleCap == CHOOSE t \in IdleTimeouts : \A u \in IdleTimeouts : u <= t

ASSUME TierAssumption == Persistent \in BOOLEAN
ASSUME TimeAssumption ==
    /\ Grace \in Nat
    /\ IdleTimeout \in Nat
    /\ IdleOverride \subseteq Nat \ {0}
    /\ KeepTicks \in Nat
    /\ IdleCap \in Nat

Phase == {"Pending", "Provisioning", "Running", "Suspended", "Stopped",
          "Failed", "Destroying"}

transitions ==
    [Pending      |-> {"Provisioning", "Failed", "Destroying"},
     Provisioning |-> {"Running", "Failed", "Destroying"},
     Running      |-> {"Provisioning", "Suspended", "Stopped", "Failed", "Destroying"},
     Suspended    |-> {"Running", "Provisioning", "Failed", "Destroying"},
     Stopped      |-> {"Provisioning", "Destroying"},
     Failed       |-> {"Provisioning", "Destroying"},
     Destroying   |-> {}]

CanTransition(from, to) == from = to \/ to \in transitions[from]

Ephemeral == ~Persistent

(***************************************************************************)
(* EvalLifetime: what the reconciler must do to a box now, one predicate   *)
(* per ReapAction.  Box.MaxTTL is zero in every box the engine builds, so  *)
(* the hard cap never applies.                                             *)
(***************************************************************************)
ClearDeadline(b) == Ephemeral /\ b.attached /\ b.deadline # Unset

SetDeadline(b) == Ephemeral /\ ~b.attached /\ Grace > 0 /\ b.deadline = Unset

Reap(b) == Ephemeral /\ ~b.attached /\ (Grace = 0 \/ b.deadline = 0)

RecordHeartbeat(b, busy) ==
    [b EXCEPT !.busy = busy,
              !.lastActive = IF b.attached \/ busy THEN 0 ELSE @]

EffectiveIdle(b) == IF b.idle > 0 THEN b.idle ELSE IdleTimeout

IsIdle(b) ==
    /\ ~b.attached
    /\ ~b.busy
    /\ b.lastActive # Unset
    /\ b.lastActive >= EffectiveIdle(b)

\* One tick of the clock, seen from a box.
Age(b) ==
    [b EXCEPT !.deadline = IF @ > 0 THEN @ - 1 ELSE @,
              !.lastActive = IF @ # Unset /\ @ < IdleCap THEN @ + 1 ELSE @,
              !.keep = IF @ > 0 THEN @ - 1 ELSE @]
=============================================================================
