------------------------------ MODULE Instance ------------------------------
(***************************************************************************)
(* What the reconciler is told of a microVM, and all that BoxFleet assumes *)
(* of one: the answer of Status and whether a snapshot lies on disk.       *)
(***************************************************************************)
CONSTANT Boxes

VARIABLES
    st,     \* box -> what Status reports: none and dead are both "gone"
    snap    \* box -> reattach will find a snapshot

States == {"none", "up", "suspended", "dead"}

InstInit == st = [x \in Boxes |-> "none"] /\ snap = [x \in Boxes |-> FALSE]

\* Provision succeeds, over whatever was there.
Start(x) == st' = [st EXCEPT ![x] = "up"] /\ UNCHANGED snap

\* Provision fails: the box's directory goes, what Status says stays.
StartFails(x) == snap' = [snap EXCEPT ![x] = FALSE] /\ UNCHANGED st

\* Suspend writes the snapshot before it changes what Status says: a crash may fall in
\* between, a caller that waits for Suspend sees both at once.
Snapshot(x) == st[x] \in {"up", "dead"} /\ snap' = [snap EXCEPT ![x] = TRUE] /\ UNCHANGED st

Sleep(x) ==
    /\ st[x] \in {"up", "dead"}
    /\ st' = [st EXCEPT ![x] = "suspended"]
    /\ snap' \in {snap, [snap EXCEPT ![x] = TRUE]}

Wake(x) ==
    /\ st[x] = "suspended" /\ snap[x]
    /\ st' = [st EXCEPT ![x] = "up"]
    /\ UNCHANGED snap

Die(x) == st[x] = "up" /\ st' = [st EXCEPT ![x] = "dead"] /\ UNCHANGED snap

Remove(x) ==
    /\ st' = [st EXCEPT ![x] = "none"]
    /\ snap' = [snap EXCEPT ![x] = FALSE]

\* The daemon starts again and finds some of the snapshots.
Reattach ==
    /\ \E found \in SUBSET {x \in Boxes : snap[x]} :
          st' = [x \in Boxes |-> IF x \in found THEN "suspended" ELSE "none"]
    /\ UNCHANGED snap

InstNext ==
    \/ \E x \in Boxes : \/ Start(x) \/ StartFails(x) \/ Snapshot(x) \/ Sleep(x)
                        \/ Wake(x) \/ Die(x) \/ Remove(x)
    \/ Reattach

InstSpec == InstInit /\ [][InstNext]_<<st, snap>>
=============================================================================
