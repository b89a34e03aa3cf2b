------------------------------- MODULE MicroVM -------------------------------
(***************************************************************************)
(* providers/compute/microvm: the table of VMs, their firecracker          *)
(* processes, the host's IP pool and tap devices, and what lies in a box's *)
(* run directory.  The tap of a VM is named after the last octet of its    *)
(* IP, so an octet stands for both.                                        *)
(*                                                                         *)
(* Two goroutines call the provider, and only the table is under its       *)
(* mutex: the reconciler, and at shutdown Drain (Suspend only), which      *)
(* starts while a call of the reconciler may still be running; then the    *)
(* reconciler makes no new one.  The reconciler acts on rows that may be   *)
(* stale (BoxFleet), so it may ask anything at any time.                   *)
(***************************************************************************)
EXTENDS Naturals, FiniteSets

CONSTANTS
    Boxes,      \* workspace ids; an instance ref is the workspace id
    Octets,     \* ipFirstOctet .. ipLastOctet
    Procs,      \* bound: firecracker processes somebody waits for or has a handle of
    MaxSkipped, \* bound: addresses of boxes that reattach fails to restore
    None

ASSUME PoolAssumption ==
    /\ Octets \subseteq Nat /\ IsFiniteSet(Octets) /\ IsFiniteSet(Boxes)
    /\ None \notin Octets \cup Procs \cup Boxes
    /\ MaxSkipped \in Nat

VARIABLES
    vms,        \* Provider.vms: box -> vm struct, NoVM when absent
    used,       \* vmNet.used: octets handed out
    taps,       \* tap devices that exist on the host
    proc,       \* firecracker processes and their cmd.Wait goroutines
    sock,       \* box -> the process that listens on fc.sock in its directory
    disk,       \* box -> its run directory
    call,       \* caller -> its call in flight
    draining,   \* the daemon is shutting down
    skipped     \* octets of the boxes that some reattach could not restore (history)

vars == <<vms, used, taps, proc, sock, disk, call, draining, skipped>>

Rec == "reconciler"
Drainer == "drain"
Callers == {Rec, Drainer}

-----------------------------------------------------------------------------
NoVM == [ip |-> None, cmd |-> None, susp |-> FALSE, done |-> FALSE]
VM == [ip: Octets, cmd: Procs \cup {None}, susp: BOOLEAN, done: BOOLEAN]

\* meta: the IP in vm.json, None when there is no such file.  snap: the tap the
\* snapshot was taken with.  old: the disk was written after the snapshot.
NoDir == [meta |-> None, snap |-> None, old |-> FALSE]
Dir == [meta: Octets \cup {None}, snap: Octets \cup {None}, old: BOOLEAN]

\* box: the box whose vm struct the Wait goroutine will mark, None once that
\* struct has left the table.  torn: its memory came from a snapshot older than
\* the disk.
NoProc == [st |-> "free", on |-> None, box |-> None, tap |-> None, torn |-> FALSE]
Proc == [st: {"free", "up", "paused", "exited"}, on: Boxes \cup {None},
         box: Boxes \cup {None}, tap: Octets \cup {None}, torn: BOOLEAN]

\* The struct a call looked up: box = None once it has left the table, ip and cmd
\* are its fields (ProvisionStart: the address taken).
Idle == [op |-> "idle", on |-> None, box |-> None, ip |-> None, cmd |-> None]
Call == [op: {"idle", "boot", "snapshot", "stop"}, on: Boxes \cup {None},
         box: Boxes \cup {None}, ip: Octets \cup {None}, cmd: Procs \cup {None}]

TypeOK ==
    /\ vms \in [Boxes -> VM \cup {NoVM}]
    /\ used \subseteq Octets /\ taps \subseteq Octets
    /\ proc \in [Procs -> Proc]
    /\ sock \in [Boxes -> Procs \cup {None}]
    /\ disk \in [Boxes -> Dir]
    /\ call \in [Callers -> Call]
    /\ draining \in BOOLEAN /\ skipped \subseteq Octets

Init ==
    /\ vms = [x \in Boxes |-> NoVM]
    /\ used = {} /\ taps = {} /\ draining = FALSE /\ skipped = {}
    /\ proc = [p \in Procs |-> NoProc]
    /\ sock = [x \in Boxes |-> None]
    /\ disk = [x \in Boxes |-> NoDir]
    /\ call = [k \in Callers |-> Idle]

\* A process that nobody waits for and nobody has a handle of.
Free ==
    {p \in Procs : /\ proc[p].st = "free"
                   /\ \A x \in Boxes : vms[x].cmd # p
                   /\ \A k \in Callers : call[k].cmd # p}

Answers(x) == sock[x] # None

\* The struct of box x leaves the table: whoever holds a pointer to it keeps it.
Detached(f, x) == [i \in DOMAIN f |-> IF f[i].box = x THEN [f[i] EXCEPT !.box = None] ELSE f[i]]

\* Goroutine k is free to make a call.
Asks(k) == call[k] = Idle /\ draining = (k = Drainer)

Return(k) == call' = [call EXCEPT ![k] = Idle]

createTap(o) == taps' = taps \cup {o}
deleteTap(o) == taps' = taps \ {o}
freeIP(o) == used' = used \ {o}

\* The run directory goes: disk, snapshot, vm.json and the socket.
RemoveAll(x) ==
    /\ disk' = [disk EXCEPT ![x] = NoDir]
    /\ sock' = [sock EXCEPT ![x] = None]

-----------------------------------------------------------------------------
(***************************************************************************)
(* Provision.                                                              *)
(***************************************************************************)
\* Mutant of allocIP: searches from the top, one past ipLastOctet.
allocPastLast == 1 + (CHOOSE o \in Octets \ used : \A q \in Octets \ used : o >= q)

allocIP == CHOOSE o \in Octets \ used : \A q \in Octets \ used : o <= q

\* Up to the tap: the disk is cloned or reused, an address taken.
ProvisionStart(x) ==
    /\ Asks(Rec) /\ Octets # used
    /\ used' = used \cup {allocIP}
    /\ createTap(allocIP)
    /\ call' = [call EXCEPT ![Rec] = [Idle EXCEPT !.op = "boot", !.on = x, !.ip = allocIP]]
    /\ UNCHANGED <<vms, proc, sock, disk, draining, skipped>>

\* Unknown image, no disk or no address: the run directory is swept.
ProvisionRefused(x) ==
    /\ Asks(Rec)
    /\ RemoveAll(x)
    /\ UNCHANGED <<vms, used, taps, proc, call, draining, skipped>>

\* Firecracker starts and boots; vm.json is written and the table entry made,
\* over an entry that may already be there.
ProvisionBoot ==
    LET x == call[Rec].on
        o == call[Rec].ip IN
    /\ call[Rec].op = "boot"
    /\ \E p \in Free :
         /\ proc' = [Detached(proc, x) EXCEPT ![p] =
                       [st |-> "up", on |-> x, box |-> x, tap |-> o, torn |-> FALSE]]
         /\ vms' = [vms EXCEPT ![x] = [ip |-> o, cmd |-> p, susp |-> FALSE, done |-> FALSE]]
         /\ sock' = [sock EXCEPT ![x] = p]
    /\ disk' = [disk EXCEPT ![x].meta = o]
    /\ call' = [Detached(call, x) EXCEPT ![Rec] = Idle]
    /\ UNCHANGED <<used, taps, draining, skipped>>

\* An error after the address was taken: it is given back, the tap too unless
\* createTap itself failed half way, and the run directory is swept.
ProvisionFails ==
    LET x == call[Rec].on
        o == call[Rec].ip IN
    /\ call[Rec].op = "boot"
    /\ deleteTap(o) \/ UNCHANGED taps
    /\ freeIP(o)
    /\ RemoveAll(x)
    /\ Return(Rec)
    /\ UNCHANGED <<vms, proc, draining, skipped>>

(***************************************************************************)
(* Suspend: pause, snapshot, kill.  The API calls go to whatever process   *)
(* listens on the box's socket, the kill to the process of the struct.     *)
(***************************************************************************)
SuspendPause(k, x) ==
    /\ Asks(k)
    /\ vms[x] # NoVM /\ ~vms[x].susp
    /\ Answers(x)
    /\ proc' = [proc EXCEPT ![sock[x]].st = "paused"]
    /\ call' = [call EXCEPT ![k] =
                  [op |-> "snapshot", on |-> x, box |-> x, ip |-> vms[x].ip, cmd |-> vms[x].cmd]]
    /\ UNCHANGED <<vms, used, taps, sock, disk, draining, skipped>>

SuspendSnapshot(k) ==
    LET x == call[k].on IN
    /\ call[k].op = "snapshot" /\ Answers(x)
    /\ disk' = [disk EXCEPT ![x] = [@ EXCEPT !.snap = proc[sock[x]].tap, !.old = FALSE]]
    /\ call' = [call EXCEPT ![k].op = "stop"]
    /\ UNCHANGED <<vms, used, taps, proc, sock, draining, skipped>>

\* pause or snapshot errors; the guest may stay paused.
SuspendErrors(k) ==
    /\ call[k].op = "snapshot"
    /\ Return(k)
    /\ UNCHANGED <<vms, used, taps, proc, sock, disk, draining, skipped>>

\* Process p is killed, if it still runs; only its Wait goroutine is left.
Kill(p) ==
    IF proc[p].st \in {"up", "paused"}
    THEN [proc EXCEPT ![p] = [st |-> "exited", on |-> None, box |-> proc[p].box,
                              tap |-> None, torn |-> FALSE]]
    ELSE proc

Unbound(p) == [x \in Boxes |-> IF sock[x] = p THEN None ELSE sock[x]]

SuspendStop(k) ==
    LET c == call[k] IN
    /\ c.op = "stop"
    /\ proc' = Kill(c.cmd)
    /\ vms' = IF c.box = None THEN vms ELSE [vms EXCEPT ![c.box].susp = TRUE]
    /\ disk' = [disk EXCEPT ![c.on].meta = IF @ = None THEN @ ELSE c.ip]
    /\ sock' = Unbound(c.cmd)
    /\ Return(k)
    /\ UNCHANGED <<used, taps, draining, skipped>>

(***************************************************************************)
(* Resume: a fresh tap, a fresh process, the snapshot that lies on disk.   *)
(* loadSnapshot needs the tap the snapshot names, and not one in use.      *)
(***************************************************************************)
TapBusy(o) == \E p \in Procs : proc[p].st \in {"up", "paused"} /\ proc[p].tap = o

\* Mutant of Resume: done is not reset.
ResumeKeepsDone(x) ==
    /\ Asks(Rec)
    /\ vms[x] # NoVM /\ vms[x].susp
    /\ createTap(vms[x].ip)
    /\ disk[x].snap \in taps' /\ ~TapBusy(disk[x].snap)
    /\ \E p \in Free :
         /\ proc' = [proc EXCEPT ![p] = [st |-> "up", on |-> x, box |-> x,
                                         tap |-> disk[x].snap, torn |-> disk[x].old]]
         /\ vms' = [vms EXCEPT ![x] = [@ EXCEPT !.cmd = p, !.susp = FALSE]]
         /\ sock' = [sock EXCEPT ![x] = p]
    /\ UNCHANGED <<used, disk, call, draining, skipped>>

Resume(x) ==
    /\ Asks(Rec)
    /\ vms[x] # NoVM /\ vms[x].susp
    /\ createTap(vms[x].ip)
    /\ disk[x].snap \in taps' /\ ~TapBusy(disk[x].snap)
    /\ \E p \in Free :
         /\ proc' = [proc EXCEPT ![p] = [st |-> "up", on |-> x, box |-> x,
                                         tap |-> disk[x].snap, torn |-> disk[x].old]]
         /\ vms' = [vms EXCEPT ![x] = [@ EXCEPT !.cmd = p, !.susp = FALSE, !.done = FALSE]]
         /\ sock' = [sock EXCEPT ![x] = p]
    /\ UNCHANGED <<used, disk, call, draining, skipped>>

\* The process it started is killed again; the tap stays.
ResumeErrors(x) ==
    /\ Asks(Rec)
    /\ vms[x] # NoVM /\ vms[x].susp
    /\ createTap(vms[x].ip)
    /\ sock' = [sock EXCEPT ![x] = None]
    /\ UNCHANGED <<vms, used, proc, disk, call, draining, skipped>>

(***************************************************************************)
(* Destroy.                                                                *)
(***************************************************************************)
\* Mutant of Destroy: the address is freed and the table entry kept.
DestroyKeepsEntry(x) ==
    /\ Asks(Rec)
    /\ vms[x] # NoVM /\ vms[x].cmd # None
    /\ proc' = Kill(vms[x].cmd)
    /\ deleteTap(vms[x].ip)
    /\ freeIP(vms[x].ip)
    /\ RemoveAll(x)
    /\ UNCHANGED <<vms, call, draining, skipped>>

Destroy(x) ==
    /\ Asks(Rec)
    /\ vms[x] # NoVM /\ vms[x].cmd # None
    /\ proc' = Detached(Kill(vms[x].cmd), x)
    /\ vms' = [vms EXCEPT ![x] = NoVM]
    /\ deleteTap(vms[x].ip)
    /\ freeIP(vms[x].ip)
    /\ RemoveAll(x)
    /\ call' = Detached(call, x)
    /\ UNCHANGED <<draining, skipped>>

(***************************************************************************)
(* The environment.                                                        *)
(***************************************************************************)
\* A guest halts or crashes, and firecracker with it.
ProcessExits(p) ==
    /\ proc[p].st \in {"up", "paused"}
    /\ proc' = Kill(p)
    /\ sock' = Unbound(p)
    /\ UNCHANGED <<vms, used, taps, disk, call, draining, skipped>>

\* Mutant of WaitReturns: the goroutine of a resumed VM marks nothing.
WaitForgets(p) ==
    /\ proc[p].st = "exited"
    /\ proc' = [proc EXCEPT ![p] = NoProc]
    /\ UNCHANGED <<vms, used, taps, sock, disk, call, draining, skipped>>

\* cmd.Wait returns, and the goroutine marks the struct it was started for.
WaitReturns(p) ==
    /\ proc[p].st = "exited"
    /\ vms' = IF proc[p].box = None THEN vms ELSE [vms EXCEPT ![proc[p].box].done = TRUE]
    /\ proc' = [proc EXCEPT ![p] = NoProc]
    /\ UNCHANGED <<used, taps, sock, disk, call, draining, skipped>>

\* The guest writes to its disk.
GuestWrites(p) ==
    LET x == proc[p].on IN
    /\ proc[p].st = "up"
    /\ disk[x].snap # None
    /\ disk' = [disk EXCEPT ![x].old = TRUE]
    /\ UNCHANGED <<vms, used, taps, proc, sock, call, draining, skipped>>

DrainStarts ==
    /\ ~draining /\ draining' = TRUE
    /\ UNCHANGED <<vms, used, taps, proc, sock, disk, call, skipped>>

(***************************************************************************)
(* The daemon stops or crashes and starts again.  Its firecrackers die     *)
(* with it (the installed unit stops its whole control group); tap devices *)
(* stay unless the host went down.  New reserves the octets of the taps it *)
(* finds; reattach takes every box with vm.json and a snapshot, unless its *)
(* image or its disk cannot be set up.                                     *)
(***************************************************************************)
Reattachable == {x \in Boxes : disk[x].meta # None /\ disk[x].snap # None}

\* The octets of the taps on the host, then those of the boxes that come back.
ReserveIPs(back) == used' = taps' \cup {disk[x].meta : x \in back}

StartAgain(reboot, skip) ==
    LET back == Reattachable \ skip IN
    /\ taps' = IF reboot THEN {} ELSE taps
    /\ ReserveIPs(back)
    /\ vms' = [x \in Boxes |->
                 IF x \in back
                 THEN [ip |-> disk[x].meta, cmd |-> None, susp |-> TRUE, done |-> FALSE]
                 ELSE NoVM]
    /\ proc' = [p \in Procs |-> NoProc]
    /\ sock' = [x \in Boxes |-> None]
    /\ call' = [k \in Callers |-> Idle]
    /\ draining' = FALSE
    /\ skipped' = skipped \cup {disk[x].meta : x \in skip}
    /\ UNCHANGED disk

Restart ==
    \E reboot \in BOOLEAN, skip \in SUBSET Reattachable :
        /\ StartAgain(reboot, skip)
        /\ Cardinality(skipped') <= MaxSkipped

\* Destroy of a reattached VM dereferences its nil cmd.
DestroyPanics(x) ==
    /\ Asks(Rec)
    /\ vms[x] # NoVM /\ vms[x].cmd = None
    /\ StartAgain(FALSE, {})

-----------------------------------------------------------------------------
Next ==
    \/ \E x \in Boxes : \/ ProvisionStart(x) \/ ProvisionRefused(x)
                        \/ Resume(x) \/ ResumeErrors(x)
                        \/ Destroy(x) \/ DestroyPanics(x)
    \/ ProvisionBoot \/ ProvisionFails
    \/ \E k \in Callers : \/ \E x \in Boxes : SuspendPause(k, x)
                          \/ SuspendSnapshot(k) \/ SuspendErrors(k) \/ SuspendStop(k)
    \/ \E p \in Procs : ProcessExits(p) \/ WaitReturns(p) \/ GuestWrites(p)
    \/ DrainStarts \/ Restart

Spec == Init /\ [][Next]_vars

-----------------------------------------------------------------------------
Known(x) == vms[x] # NoVM

\* Two boxes in the table never have the same address, and no address in use is
\* handed out again, through failed and repeated provisions, destroys, Suspend and
\* Resume, restarts and reboots; only the address of a box that a restart
\* left out may be taken by another (allocIP, freeIP, reserveIP, reserveExistingTaps).
UniqueAddress ==
    \A x \in Boxes : (Known(x) /\ vms[x].ip \notin skipped) =>
        /\ vms[x].ip \in used
        /\ \A y \in Boxes \ {x} : Known(y) => vms[y].ip # vms[x].ip

\* A VM whose firecracker is gone for good is reported gone once the process has
\* been waited for, however Suspend, Resume and the Wait goroutines interleave: the
\* reset of done in Resume never hides the exit of the process it started.
GoneIsReported ==
    \A x \in Boxes :
        (vms[x] # NoVM /\ ~vms[x].susp /\ proc[vms[x].cmd].box # x) => vms[x].done

(***************************************************************************)
(* The inductive invariant.                                                *)
(***************************************************************************)
\* Only a call of Drain's is in flight while the daemon shuts down, apart from the
\* one the reconciler had begun; a Suspend knows the struct of its box as it was.
CallSound(k) ==
    LET c == call[k] IN
    /\ c.op = "idle" <=> c = Idle
    /\ c # Idle => c.on \in Boxes /\ c.ip \in Octets
    /\ c.op = "boot" => c.box = None /\ k = Rec
    /\ c.op \in {"snapshot", "stop"} =>
         /\ Known(c.on) /\ c.cmd \in Procs /\ c.box \in {c.on, None}
         /\ c.box # None => vms[c.on].ip = c.ip /\ vms[c.on].cmd = c.cmd

CallsSound == (call[Drainer] # Idle => draining) /\ \A k \in Callers : CallSound(k)

\* A struct that is not suspended has a process, and no two have the same.
StructsSound ==
    \A x \in Boxes :
        /\ Known(x) /\ ~vms[x].susp => vms[x].cmd \in Procs
        /\ vms[x].cmd \in Procs => \A y \in Boxes \ {x} : vms[y].cmd # vms[x].cmd

\* Whatever listens on a box's socket is the running process of its struct.
SocketsSound ==
    \A x \in Boxes : sock[x] # None =>
        /\ Known(x) /\ ~vms[x].susp /\ vms[x].cmd = sock[x]
        /\ proc[sock[x]].st \in {"up", "paused"}

\* A Wait goroutine has a struct in the table, or none.
ProcsSound ==
    \A p \in Procs :
        /\ proc[p].st = "free" => proc[p] = NoProc
        /\ proc[p].st \in {"up", "paused"} => proc[p].on \in Boxes /\ proc[p].tap \in Octets
        /\ proc[p].box # None => Known(proc[p].box)

\* The octets box x stands on: the one in its struct, the one in a vm.json that counts,
\* the ones its calls in flight will write.
Holds(x) ==
    {o \in Octets :
        \/ Known(x) /\ vms[x].ip = o
        \/ disk[x].meta = o /\ (Known(x) \/ disk[x].snap # None)
        \/ \E k \in Callers : call[k] # Idle /\ call[k].on = x /\ call[k].ip = o}

\* No two boxes hold the same octet, and what is held is not free.
HeldOnce ==
    \A x \in Boxes : \A o \in Holds(x) \ skipped :
        o \in used /\ \A y \in Boxes \ {x} : o \notin Holds(y)

\* The address of a provision in flight is in nobody else's hands, not even in those
\* of an older incarnation of the same box: giving it back harms nobody.
BootFresh ==
    (call[Rec].op = "boot" /\ call[Rec].ip \notin skipped) =>
        LET x == call[Rec].on
            o == call[Rec].ip IN
        /\ Known(x) => vms[x].ip # o /\ disk[x].meta # o
        /\ disk[x].snap # None => disk[x].meta # o
        /\ call[Drainer].ip # o

VMInv ==
    /\ TypeOK /\ CallsSound /\ StructsSound /\ SocketsSound /\ ProcsSound
    /\ HeldOnce /\ BootFresh /\ GoneIsReported

(***************************************************************************)
(* The provider implements Instance, as seen through Status.               *)
(***************************************************************************)
StatusOf(x) ==
    IF vms[x] = NoVM THEN "none"
    ELSE IF vms[x].susp THEN "suspended"
    ELSE IF vms[x].done THEN "dead" ELSE "up"

StatusView == [x \in Boxes |-> StatusOf(x)]
SnapView == [x \in Boxes |-> disk[x].snap # None]

Inst == INSTANCE Instance WITH st <- StatusView, snap <- SnapView

\* Whatever the processes, the Wait goroutines and the two callers do, the
\* reconciler sees an instance that starts, dies, sleeps, wakes and is removed.
ImplementsInstance == Inst!InstSpec

\* "Boxes without a snapshot (a non-graceful exit) are left for the reconciler to
\* re-provision": no VM runs on a memory image older than its disk.
MemoryMatchesDisk == \A p \in Procs : ~proc[p].torn
=============================================================================
