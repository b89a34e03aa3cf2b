--------------------------- MODULE MicroVM_proofs ---------------------------
(***************************************************************************)
(* The microVM provider's guarantees for any number of boxes, addresses    *)
(* and processes.                                                          *)
(***************************************************************************)
EXTENDS MicroVM, WellFoundedInduction, TLAPS

USE PoolAssumption DEF Rec, Drainer, Callers

(***************************************************************************)
(* The operators.                                                          *)
(***************************************************************************)
\* allocIP finds the lowest free octet, if there is one.
LEMMA AllocIP ==
    ASSUME used \subseteq Octets, Octets # used
    PROVE  allocIP \in Octets \ used
<1> DEFINE F == Octets \ used
<1> DEFINE Less == {ss \in Nat \X Nat : ss[1] < ss[2]}
<1>1. F # {} /\ F \subseteq Nat
  OBVIOUS
<1>2. IsWellFoundedOn(Less, Nat)
  BY NatLessThanWellFounded DEF OpToRel
<1>3. PICK o \in F : \A q \in F : ~ (<<q, o>> \in Less)
  BY <1>1, <1>2, WFMin
<1>4. \A q \in F : o <= q
  <2> TAKE q \in F
  <2>1. <<q, o>> \in Nat \X Nat /\ <<q, o>>[1] = q /\ <<q, o>>[2] = o
    BY <1>1
  <2>2. ~(q < o)
    BY <1>3, <2>1
  <2> QED
    BY <1>1, <2>2
<1> QED
  BY <1>4, Zenon DEF allocIP

\* The initial state satisfies the invariant.
LEMMA VMInvInit == Init => VMInv
<1> SUFFICES ASSUME Init PROVE VMInv
  OBVIOUS
<1> USE DEF Init, Known
<1>1. TypeOK
  BY DEF TypeOK, NoVM, NoDir, Dir, NoProc, Proc, Idle, Call
<1>2. CallsSound
  BY DEF CallsSound, CallSound, Idle
<1>3. StructsSound /\ SocketsSound /\ ProcsSound /\ GoneIsReported
  BY DEF StructsSound, SocketsSound, ProcsSound, GoneIsReported, NoProc, NoVM
<1>4. HeldOnce /\ BootFresh
  BY DEF HeldOnce, BootFresh, Holds, NoDir, Idle
<1> QED
  BY <1>1, <1>2, <1>3, <1>4 DEF VMInv

\* ProvisionStart hands out an address that nobody holds.
LEMMA ProvisionStartInv ==
    ASSUME VMInv, NEW x \in Boxes, ProvisionStart(x) PROVE VMInv'
<1> DEFINE o == allocIP
<1>1. o \in Octets /\ o \notin used
  BY AllocIP DEF VMInv, TypeOK, ProvisionStart
<1>2. TypeOK'
  BY <1>1 DEF VMInv, TypeOK, ProvisionStart, createTap, Idle, Call
<1>3. CallsSound'
  BY <1>1 DEF VMInv, TypeOK, CallsSound, CallSound, Known, ProvisionStart, Asks, Idle, Call
<1>4. StructsSound' /\ SocketsSound' /\ ProcsSound' /\ GoneIsReported'
  BY DEF VMInv, StructsSound, SocketsSound, ProcsSound, GoneIsReported, Known, ProvisionStart
<1>5. /\ call'[Rec] # Idle /\ call'[Rec].on = x /\ call'[Rec].ip = o
      /\ call[Rec] = Idle /\ call[Drainer] = Idle /\ call'[Drainer] = Idle
      /\ vms' = vms /\ disk' = disk /\ skipped' = skipped /\ used' = used \cup {o}
  BY DEF VMInv, TypeOK, CallsSound, ProvisionStart, Asks, Idle
<1> HIDE DEF o
<1>6. \A y \in Boxes : Holds(y)' = IF y = x THEN Holds(y) \cup {o} ELSE Holds(y)
  BY <1>1, <1>5 DEF Holds, Known
<1>7. HeldOnce'
  BY <1>1, <1>5, <1>6 DEF VMInv, HeldOnce
<1>8. BootFresh'
  <2>1. o \notin skipped => o \notin Holds(x)
    BY <1>1 DEF VMInv, HeldOnce
  <2>2. call'[Drainer].ip = None
    BY <1>5 DEF Idle
  <2> QED
    BY <1>1, <1>5, <2>1, <2>2 DEF BootFresh, Holds, Known
<1> QED
  BY <1>2, <1>3, <1>4, <1>7, <1>8 DEF VMInv

\* What is held can only shrink: nobody new holds anything.
LEMMA HeldShrinks ==
    ASSUME VMInv, skipped' = skipped, used \subseteq used',
           \A y \in Boxes : Holds(y)' \subseteq Holds(y)
    PROVE  HeldOnce'
BY DEF VMInv, HeldOnce

\* A refused provision sweeps the box's run directory.
LEMMA ProvisionRefusedInv ==
    ASSUME VMInv, NEW x \in Boxes, ProvisionRefused(x) PROVE VMInv'
<1> USE DEF ProvisionRefused, RemoveAll
<1>1. TypeOK'
  BY DEF VMInv, TypeOK, NoDir, Dir
<1>2. CallsSound' /\ StructsSound' /\ ProcsSound' /\ GoneIsReported'
  BY DEF VMInv, CallsSound, CallSound, StructsSound, ProcsSound, GoneIsReported, Known
<1>3. SocketsSound'
  BY DEF VMInv, TypeOK, SocketsSound, Known
<1>4. \A y \in Boxes : Holds(y)' \subseteq Holds(y)
  BY DEF VMInv, TypeOK, Holds, Known, NoDir
<1>5. HeldOnce'
  BY <1>4, HeldShrinks
<1>6. BootFresh'
  BY DEF BootFresh, Asks, Idle
<1> QED
  BY <1>1, <1>2, <1>3, <1>5, <1>6 DEF VMInv

\* When a struct leaves the table, the Wait goroutines that had it lose their box and
\* nothing else.
LEMMA DetachedProcs ==
    ASSUME NEW f \in [Procs -> Proc], NEW x \in Boxes
    PROVE  /\ Detached(f, x) \in [Procs -> Proc]
           /\ \A q \in Procs :
                /\ Detached(f, x)[q].st = f[q].st /\ Detached(f, x)[q].on = f[q].on
                /\ Detached(f, x)[q].tap = f[q].tap
                /\ Detached(f, x)[q].box = IF f[q].box = x THEN None ELSE f[q].box
                /\ f[q] = NoProc => Detached(f, x)[q] = NoProc
<1>1. \A q \in Procs : Detached(f, x)[q] = IF f[q].box = x THEN [f[q] EXCEPT !.box = None] ELSE f[q]
  BY DEF Detached
<1>2. ASSUME NEW q \in Procs
      PROVE  /\ Detached(f, x)[q] \in Proc
             /\ Detached(f, x)[q].st = f[q].st /\ Detached(f, x)[q].on = f[q].on
             /\ Detached(f, x)[q].tap = f[q].tap
             /\ Detached(f, x)[q].box = IF f[q].box = x THEN None ELSE f[q].box
             /\ f[q] = NoProc => Detached(f, x)[q] = NoProc
  <2>1. f[q] \in Proc
    OBVIOUS
  <2>2. CASE f[q].box = x
    <3>1. Detached(f, x)[q] = [f[q] EXCEPT !.box = None] /\ f[q] # NoProc
      BY <1>1, <2>2 DEF NoProc
    <3> QED
      BY <2>1, <2>2, <3>1 DEF Proc
  <2>3. CASE f[q].box # x
    BY <1>1, <2>1, <2>3
  <2> QED
    BY <2>2, <2>3
<1>3. Detached(f, x) \in [Procs -> Proc]
  BY <1>1, <1>2 DEF Detached
<1> QED
  BY <1>2, <1>3

\* The same for the calls in flight.
LEMMA DetachedCalls ==
    ASSUME NEW f \in [Callers -> Call], NEW x \in Boxes
    PROVE  /\ Detached(f, x) \in [Callers -> Call]
           /\ \A k \in Callers :
                /\ Detached(f, x)[k].op = f[k].op /\ Detached(f, x)[k].on = f[k].on
                /\ Detached(f, x)[k].ip = f[k].ip /\ Detached(f, x)[k].cmd = f[k].cmd
                /\ Detached(f, x)[k].box = IF f[k].box = x THEN None ELSE f[k].box
                /\ f[k] = Idle => Detached(f, x)[k] = Idle
<1>1. \A k \in Callers : Detached(f, x)[k] = IF f[k].box = x THEN [f[k] EXCEPT !.box = None] ELSE f[k]
  BY DEF Detached
<1>2. ASSUME NEW k \in Callers
      PROVE  /\ Detached(f, x)[k] \in Call
             /\ Detached(f, x)[k].op = f[k].op /\ Detached(f, x)[k].on = f[k].on
             /\ Detached(f, x)[k].ip = f[k].ip /\ Detached(f, x)[k].cmd = f[k].cmd
             /\ Detached(f, x)[k].box = IF f[k].box = x THEN None ELSE f[k].box
             /\ f[k] = Idle => Detached(f, x)[k] = Idle
  <2>1. f[k] \in Call
    OBVIOUS
  <2>2. CASE f[k].box = x
    BY <1>1, <2>1, <2>2 DEF Call, Idle
  <2>3. CASE f[k].box # x
    BY <1>1, <2>1, <2>3
  <2> QED
    BY <2>2, <2>3
<1>3. Detached(f, x) \in [Callers -> Call]
  BY <1>1, <1>2 DEF Detached
<1> QED
  BY <1>2, <1>3

\* ProvisionBoot turns the address of the call into the address of the box, over an
\* entry whose holders let go of it.
LEMMA ProvisionBootInv ==
    ASSUME VMInv, ProvisionBoot PROVE VMInv'
<1>1. PICK x \in Boxes, o \in Octets : x = call[Rec].on /\ o = call[Rec].ip
  BY DEF VMInv, CallsSound, CallSound, ProvisionBoot, Idle
<1>2. PICK p \in Free :
         /\ proc' = [Detached(proc, x) EXCEPT ![p] =
                       [st |-> "up", on |-> x, box |-> x, tap |-> o, torn |-> FALSE]]
         /\ vms' = [vms EXCEPT ![x] = [ip |-> o, cmd |-> p, susp |-> FALSE, done |-> FALSE]]
         /\ sock' = [sock EXCEPT ![x] = p]
  BY <1>1 DEF ProvisionBoot
<1>3. /\ p \in Procs /\ proc[p].st = "free"
      /\ \A y \in Boxes : vms[y].cmd # p
  BY DEF Free
<1>4. /\ disk' = [disk EXCEPT ![x].meta = o]
      /\ call' = [Detached(call, x) EXCEPT ![Rec] = Idle]
      /\ UNCHANGED <<used, taps, draining, skipped>>
  BY <1>1 DEF ProvisionBoot
<1>0. /\ proc \in [Procs -> Proc] /\ call \in [Callers -> Call] /\ disk \in [Boxes -> Dir]
      /\ vms \in [Boxes -> VM \cup {NoVM}] /\ sock \in [Boxes -> Procs \cup {None}]
  BY DEF VMInv, TypeOK
<1> DEFINE d == Detached(proc, x)
<1> DEFINE e == Detached(call, x)
<1>5. /\ d \in [Procs -> Proc]
      /\ \A q \in Procs : /\ d[q].st = proc[q].st /\ d[q].on = proc[q].on /\ d[q].tap = proc[q].tap
                          /\ d[q].box = IF proc[q].box = x THEN None ELSE proc[q].box
                          /\ proc[q] = NoProc => d[q] = NoProc
  BY <1>0, <1>1, DetachedProcs
<1>6. /\ e \in [Callers -> Call]
      /\ \A k \in Callers : /\ e[k].op = call[k].op /\ e[k].on = call[k].on
                            /\ e[k].ip = call[k].ip /\ e[k].cmd = call[k].cmd
                            /\ e[k].box = IF call[k].box = x THEN None ELSE call[k].box
                            /\ call[k] = Idle => e[k] = Idle
  BY <1>0, <1>1, DetachedCalls
<1> HIDE DEF d, e
<1>7. /\ proc'[p].st = "up" /\ proc'[p].on = x /\ proc'[p].box = x /\ proc'[p].tap = o
      /\ \A q \in Procs \ {p} : proc'[q] = d[q]
      /\ call'[Rec] = Idle /\ call'[Drainer] = e[Drainer]
  BY <1>2, <1>3, <1>4, <1>5, <1>6 DEF d, e
<1>8. TypeOK'
  <2>1. [st |-> "up", on |-> x, box |-> x, tap |-> o, torn |-> FALSE] \in Proc
    BY <1>1 DEF Proc
  <2>2. proc' \in [Procs -> Proc]
    BY <1>2, <1>5, <2>1 DEF d
  <2>3. Idle \in Call
    BY DEF Idle, Call
  <2>4. call' \in [Callers -> Call]
    BY <1>4, <1>6, <2>3 DEF e
  <2>5. vms' \in [Boxes -> VM \cup {NoVM}] /\ sock' \in [Boxes -> Procs \cup {None}]
    BY <1>0, <1>1, <1>2, <1>3 DEF VM
  <2>6. disk' \in [Boxes -> Dir]
    BY <1>0, <1>1, <1>4 DEF Dir
  <2> QED
    BY <1>4, <2>2, <2>4, <2>5, <2>6 DEF VMInv, TypeOK
<1>9. /\ Known(x)' /\ vms'[x].ip = o /\ vms'[x].cmd = p /\ ~vms'[x].susp /\ sock'[x] = p
      /\ \A y \in Boxes \ {x} : vms'[y] = vms[y] /\ (Known(y)' <=> Known(y)) /\ sock'[y] = sock[y]
  <2>1. vms'[x] = [ip |-> o, cmd |-> p, susp |-> FALSE, done |-> FALSE]
    BY <1>0, <1>1, <1>2
  <2>2. vms'[x].ip = o /\ vms'[x].cmd = p /\ ~vms'[x].susp
    BY <2>1
  <2>3. vms'[x] # NoVM
    BY <1>1, <2>2 DEF NoVM
  <2>4. \A y \in Boxes \ {x} : vms'[y] = vms[y] /\ sock'[y] = sock[y]
    BY <1>0, <1>1, <1>2
  <2>5. sock'[x] = p
    BY <1>0, <1>1, <1>2
  <2> QED
    BY <2>2, <2>3, <2>4, <2>5 DEF Known
<1>10. CallsSound'
  <2>1. CallSound(Rec)'
    BY <1>7 DEF CallSound, Idle
  <2>2. CallSound(Drainer)'
    BY <1>1, <1>6, <1>7, <1>9 DEF VMInv, CallsSound, CallSound, Idle, Known
  <2>3. call'[Drainer] # Idle => draining'
    BY <1>4, <1>6, <1>7 DEF VMInv, CallsSound
  <2> QED
    BY <2>1, <2>2, <2>3 DEF CallsSound
<1>11. /\ StructsSound' /\ SocketsSound'
       /\ ProcsSound' /\ GoneIsReported'
  <2>1. StructsSound'
    BY <1>1, <1>3, <1>9 DEF VMInv, StructsSound
  <2>2. SocketsSound'
    BY <1>0, <1>1, <1>3, <1>5, <1>7, <1>9 DEF VMInv, SocketsSound, Known
  <2>3. ProcsSound'
    BY <1>0, <1>1, <1>3, <1>5, <1>7, <1>9 DEF VMInv, ProcsSound, Known, Proc
  <2>4. GoneIsReported'
    BY <1>1, <1>3, <1>5, <1>7, <1>9 DEF VMInv, GoneIsReported, StructsSound, Known
  <2> QED
    BY <2>1, <2>2, <2>3, <2>4
<1>12. \A y \in Boxes : Holds(y)' \subseteq Holds(y)
  <2>1. /\ disk'[x].meta = o
        /\ \A y \in Boxes \ {x} : disk'[y] = disk[y]
    BY <1>0, <1>1, <1>4 DEF Dir
  <2>2. call'[Drainer] # Idle =>
          call[Drainer] # Idle /\ call'[Drainer].on = call[Drainer].on /\ call'[Drainer].ip = call[Drainer].ip
    BY <1>6, <1>7
  <2>3. o \in Holds(x)
    BY <1>1 DEF Holds, ProvisionBoot, Idle
  <2> QED
    BY <1>1, <1>7, <1>9, <2>1, <2>2, <2>3 DEF Holds
<1>13. HeldOnce'
  BY <1>4, <1>12, HeldShrinks
<1>14. BootFresh'
  BY <1>7 DEF BootFresh, Idle
<1> QED
  BY <1>8, <1>10, <1>11, <1>13, <1>14 DEF VMInv

\* An address given back after a failed provision was held by that provision alone.
LEMMA ProvisionFailsInv ==
    ASSUME VMInv, ProvisionFails PROVE VMInv'
<1>1. PICK x \in Boxes, o \in Octets : x = call[Rec].on /\ o = call[Rec].ip
  BY DEF VMInv, CallsSound, CallSound, ProvisionFails, Idle
<1>2. /\ vms' = vms /\ proc' = proc /\ used' = used \ {o} /\ UNCHANGED <<draining, skipped>>
      /\ disk' = [disk EXCEPT ![x] = NoDir] /\ sock' = [sock EXCEPT ![x] = None]
      /\ call' = [call EXCEPT ![Rec] = Idle] /\ taps' \in {taps, taps \ {o}}
  BY <1>1 DEF ProvisionFails, deleteTap, freeIP, RemoveAll, Return
<1>3. /\ call'[Rec] = Idle /\ call'[Drainer] = call[Drainer] /\ call[Rec] # Idle
      /\ disk'[x] = NoDir /\ \A y \in Boxes \ {x} : disk'[y] = disk[y]
      /\ \A y \in Boxes : sock'[y] \in {sock[y], None}
  BY <1>1, <1>2 DEF VMInv, TypeOK, ProvisionFails, Idle
<1>4. TypeOK'
  BY <1>2 DEF VMInv, TypeOK, Idle, Call, NoDir, Dir
<1>5. CallsSound'
  <2>1. CallSound(Rec)'
    BY <1>3 DEF CallSound, Idle
  <2>2. CallSound(Drainer)'
    BY <1>2, <1>3 DEF VMInv, CallsSound, CallSound, Known
  <2> QED
    BY <1>2, <1>3, <2>1, <2>2 DEF VMInv, CallsSound
<1>6. StructsSound' /\ SocketsSound' /\ ProcsSound' /\ GoneIsReported'
  BY <1>2, <1>3 DEF VMInv, StructsSound, SocketsSound, ProcsSound, GoneIsReported, Known
<1>7. \A y \in Boxes : Holds(y)' \subseteq Holds(y)
  BY <1>2, <1>3 DEF Holds, Known, NoDir
<1>8. HeldOnce'
  <2>1. \A y \in Boxes : o \notin skipped => o \notin Holds(y)'
    <3> SUFFICES ASSUME NEW y \in Boxes, o \notin skipped, o \in Holds(y)'
                 PROVE  FALSE
      OBVIOUS
    <3>1. o \in Holds(x)
      BY <1>1, <1>3 DEF Holds
    <3>2. y = x
      BY <1>7, <3>1 DEF VMInv, HeldOnce
    <3>3. /\ Known(x) => vms[x].ip # o
          /\ call[Drainer].ip # o
      BY <1>1 DEF VMInv, BootFresh, ProvisionFails
    <3> QED
      BY <1>2, <1>3, <3>2, <3>3 DEF Holds, Known, NoDir
  <2> QED
    BY <1>2, <1>7, <2>1 DEF VMInv, HeldOnce
<1>9. BootFresh'
  BY <1>3 DEF BootFresh, Idle
<1> QED
  BY <1>4, <1>5, <1>6, <1>8, <1>9 DEF VMInv

\* Suspend looks the struct up and pauses the guest: it holds what its box holds.
LEMMA SuspendPauseInv ==
    ASSUME VMInv, NEW k \in Callers, NEW x \in Boxes, SuspendPause(k, x) PROVE VMInv'
<1> DEFINE c == [op |-> "snapshot", on |-> x, box |-> x, ip |-> vms[x].ip, cmd |-> vms[x].cmd]
<1>1. /\ Known(x) /\ vms[x].ip \in Octets /\ vms[x].cmd \in Procs /\ ~vms[x].susp
      /\ sock[x] \in Procs /\ proc[sock[x]].st \in {"up", "paused"}
  BY DEF VMInv, TypeOK, VM, StructsSound, SocketsSound, SuspendPause, Answers, Known
<1>2. /\ call'[k] = c /\ \A j \in Callers \ {k} : call'[j] = call[j]
      /\ call[k] = Idle /\ draining = (k = Drainer) /\ call' \in [Callers -> Call]
  BY <1>1 DEF VMInv, TypeOK, SuspendPause, Asks, Call
<1>3. /\ c # Idle /\ c.op = "snapshot" /\ c.on = x /\ c.box = x
      /\ c.ip = vms[x].ip /\ c.cmd = vms[x].cmd
  BY DEF Idle
<1>4. /\ UNCHANGED <<vms, used, taps, sock, disk, draining, skipped>>
      /\ proc' \in [Procs -> Proc]
      /\ \A q \in Procs : /\ proc'[q].st = IF q = sock[x] THEN "paused" ELSE proc[q].st
                          /\ proc'[q].on = proc[q].on /\ proc'[q].box = proc[q].box
                          /\ proc'[q].tap = proc[q].tap /\ (q # sock[x] => proc'[q] = proc[q])
  BY <1>1 DEF VMInv, TypeOK, SuspendPause, Proc
<1> HIDE DEF c
<1>5. TypeOK'
  BY <1>2, <1>4 DEF VMInv, TypeOK
<1>6. CallsSound'
  <2>1. \A j \in Callers : CallSound(j)'
    BY <1>1, <1>2, <1>3, <1>4 DEF VMInv, CallsSound, CallSound, Known
  <2> QED
    BY <1>2, <1>4, <2>1 DEF VMInv, CallsSound
<1>7. StructsSound' /\ SocketsSound' /\ ProcsSound' /\ GoneIsReported'
  BY <1>1, <1>4 DEF VMInv, StructsSound, SocketsSound, ProcsSound, GoneIsReported, Known
<1>8. \A y \in Boxes : Holds(y)' \subseteq Holds(y)
  BY <1>1, <1>2, <1>3, <1>4 DEF Holds, Known
<1>9. HeldOnce'
  BY <1>4, <1>8, HeldShrinks
<1>10. BootFresh'
  <2>1. CASE k = Rec
    BY <1>2, <1>3, <2>1 DEF BootFresh
  <2>2. CASE k = Drainer
    <3> SUFFICES ASSUME call[Rec].op = "boot", call[Rec].ip \notin skipped
                 PROVE  vms[x].ip # call[Rec].ip
      BY <1>2, <1>3, <1>4, <2>2 DEF VMInv, BootFresh, Known
    <3>1. CASE call[Rec].on = x
      BY <1>1, <3>1 DEF VMInv, BootFresh
    <3>2. CASE call[Rec].on # x
      <4>1. /\ call[Rec].on \in Boxes /\ call[Rec].ip \in Octets
            /\ call[Rec].ip \in Holds(call[Rec].on)
        BY DEF VMInv, CallsSound, CallSound, Idle, Holds
      <4>2. vms[x].ip \in Holds(x)
        BY <1>1 DEF Holds
      <4> QED
        BY <3>2, <4>1, <4>2 DEF VMInv, HeldOnce
    <3> QED
      BY <3>1, <3>2
  <2> QED
    BY <2>1, <2>2
<1> QED
  BY <1>5, <1>6, <1>7, <1>9, <1>10 DEF VMInv

\* The snapshot of a box in the table.
LEMMA SuspendSnapshotInv ==
    ASSUME VMInv, NEW k \in Callers, SuspendSnapshot(k) PROVE VMInv'
<1>1. PICK x \in Boxes : x = call[k].on
  BY DEF VMInv, CallsSound, CallSound, SuspendSnapshot, Idle
<1>2. /\ Known(x) /\ call[k] # Idle /\ call[k].op = "snapshot" /\ sock[x] \in Procs
  BY <1>1 DEF VMInv, TypeOK, CallsSound, CallSound, SuspendSnapshot, Idle, Answers
<1>3. /\ call'[k] # Idle /\ call'[k].op = "stop" /\ call'[k].on = x /\ call'[k].ip = call[k].ip
      /\ call'[k].cmd = call[k].cmd /\ call'[k].box = call[k].box
      /\ \A j \in Callers \ {k} : call'[j] = call[j]
      /\ call' \in [Callers -> Call]
  BY <1>1 DEF VMInv, TypeOK, SuspendSnapshot, Idle, Call
<1>4. /\ UNCHANGED <<vms, used, taps, proc, sock, draining, skipped>>
      /\ disk' \in [Boxes -> Dir]
      /\ \A y \in Boxes : /\ disk'[y].meta = disk[y].meta
                          /\ y # x => disk'[y] = disk[y]
  <2>1. proc[sock[x]].tap \in Octets \cup {None}
    BY <1>2 DEF VMInv, TypeOK, Proc
  <2>2. /\ disk \in [Boxes -> Dir]
        /\ disk' = [disk EXCEPT ![x] = [@ EXCEPT !.snap = proc[sock[x]].tap, !.old = FALSE]]
    BY <1>1 DEF VMInv, TypeOK, SuspendSnapshot
  <2> DEFINE r == [disk[x] EXCEPT !.snap = proc[sock[x]].tap, !.old = FALSE]
  <2>3. r \in Dir /\ r.meta = disk[x].meta
    BY <2>1, <2>2 DEF Dir
  <2>4. disk' = [disk EXCEPT ![x] = r]
    BY <2>2
  <2> HIDE DEF r
  <2> QED
    BY <2>2, <2>3, <2>4 DEF SuspendSnapshot
<1>5. TypeOK'
  BY <1>3, <1>4 DEF VMInv, TypeOK
<1>6. CallsSound'
  <2>1. CallSound(k)'
    BY <1>1, <1>2, <1>3, <1>4 DEF VMInv, CallsSound, CallSound, Known
  <2>2. \A j \in Callers \ {k} : CallSound(j)'
    BY <1>3, <1>4 DEF VMInv, CallsSound, CallSound, Known
  <2> QED
    BY <1>2, <1>3, <1>4, <2>1, <2>2 DEF VMInv, CallsSound
<1>7. StructsSound' /\ SocketsSound' /\ ProcsSound' /\ GoneIsReported'
  BY <1>4 DEF VMInv, StructsSound, SocketsSound, ProcsSound, GoneIsReported, Known
<1>8. \A y \in Boxes : Holds(y)' \subseteq Holds(y)
  BY <1>1, <1>2, <1>3, <1>4 DEF Holds, Known
<1>9. HeldOnce'
  BY <1>4, <1>8, HeldShrinks
<1>10. BootFresh'
  BY <1>1, <1>2, <1>3, <1>4 DEF VMInv, CallsSound, CallSound, BootFresh, Known, Idle
<1> QED
  BY <1>5, <1>6, <1>7, <1>9, <1>10 DEF VMInv

\* A Suspend that errors leaves everything as it found it.
LEMMA SuspendErrorsInv ==
    ASSUME VMInv, NEW k \in Callers, SuspendErrors(k) PROVE VMInv'
<1>1. /\ call'[k] = Idle /\ \A j \in Callers \ {k} : call'[j] = call[j]
      /\ call' \in [Callers -> Call]
      /\ UNCHANGED <<vms, used, taps, proc, sock, disk, draining, skipped>>
  BY DEF VMInv, TypeOK, SuspendErrors, Return, Idle, Call
<1>2. TypeOK'
  BY <1>1 DEF VMInv, TypeOK
<1>3. CallsSound'
  <2>1. CallSound(k)'
    BY <1>1 DEF CallSound, Idle
  <2>2. \A j \in Callers \ {k} : CallSound(j)'
    BY <1>1 DEF VMInv, CallsSound, CallSound, Known
  <2> QED
    BY <1>1, <2>1, <2>2 DEF VMInv, CallsSound
<1>4. StructsSound' /\ SocketsSound' /\ ProcsSound' /\ GoneIsReported'
  BY <1>1 DEF VMInv, StructsSound, SocketsSound, ProcsSound, GoneIsReported, Known
<1>5. \A y \in Boxes : Holds(y)' \subseteq Holds(y)
  BY <1>1 DEF Holds, Known
<1>6. HeldOnce'
  BY <1>1, <1>5, HeldShrinks
<1>7. BootFresh'
  BY <1>1 DEF VMInv, CallsSound, CallSound, BootFresh, Known, Idle
<1> QED
  BY <1>2, <1>3, <1>4, <1>6, <1>7 DEF VMInv

\* A process is killed, and its Wait goroutine keeps the struct it will mark.
LEMMA Killed ==
    ASSUME proc \in [Procs -> Proc], NEW p \in Procs
    PROVE  /\ Kill(p) \in [Procs -> Proc]
           /\ Kill(p)[p].st \notin {"up", "paused"}
           /\ Kill(p)[p].st = "free" => Kill(p) = proc
           /\ \A q \in Procs : Kill(p)[q].box = proc[q].box /\ (q # p => Kill(p)[q] = proc[q])
<1>1. CASE proc[p].st \in {"up", "paused"}
  <2> DEFINE r == [st |-> "exited", on |-> None, box |-> proc[p].box, tap |-> None, torn |-> FALSE]
  <2>1. Kill(p) = [proc EXCEPT ![p] = r]
    BY <1>1 DEF Kill
  <2>2. r \in Proc /\ r.st = "exited" /\ r.box = proc[p].box
    BY DEF Proc
  <2> HIDE DEF r
  <2> QED
    BY <2>1, <2>2
<1>2. CASE proc[p].st \notin {"up", "paused"}
  BY <1>2 DEF Kill
<1> QED
  BY <1>1, <1>2

\* The end of a Suspend: it marks its struct if that is still the one of the table, and
\* writes an address that the box already held.
LEMMA SuspendStopInv ==
    ASSUME VMInv, NEW k \in Callers, SuspendStop(k) PROVE VMInv'
<1>1. PICK x \in Boxes, o \in Octets, p \in Procs, b \in Boxes \cup {None} :
         /\ x = call[k].on /\ o = call[k].ip /\ p = call[k].cmd
         /\ b = call[k].box /\ b \in {x, None}
  BY DEF VMInv, CallsSound, CallSound, SuspendStop, Idle
<1>2. /\ Known(x) /\ call[k] # Idle /\ (b = x => vms[x].ip = o /\ vms[x].cmd = p)
      /\ x # None
  BY <1>1 DEF VMInv, CallsSound, CallSound, SuspendStop, Idle
<1>3. /\ call'[k] = Idle /\ \A j \in Callers \ {k} : call'[j] = call[j]
      /\ call' \in [Callers -> Call]
      /\ UNCHANGED <<used, taps, draining, skipped>>
  BY DEF VMInv, TypeOK, SuspendStop, Return, Idle, Call
<1>4. /\ proc' \in [Procs -> Proc] /\ proc'[p].st \notin {"up", "paused"}
      /\ proc'[p].st = "free" => proc' = proc
      /\ \A q \in Procs : proc'[q].box = proc[q].box /\ (q # p => proc'[q] = proc[q])
  BY <1>1, Killed DEF VMInv, TypeOK, SuspendStop
<1>5. /\ vms' \in [Boxes -> VM \cup {NoVM}]
      /\ \A y \in Boxes : /\ vms'[y].ip = vms[y].ip /\ vms'[y].cmd = vms[y].cmd
                          /\ vms'[y].done = vms[y].done /\ (Known(y)' <=> Known(y))
                          /\ y # b => vms'[y] = vms[y]
      /\ b = x => vms'[x].susp
  <2>1. CASE b = None
    <3>1. vms' = vms
      BY <1>1, <2>1 DEF SuspendStop
    <3> QED
      BY <1>2, <2>1, <3>1 DEF VMInv, TypeOK, Known
  <2>2. CASE b = x
    <3>1. vms' = [vms EXCEPT ![x].susp = TRUE]
      BY <1>1, <1>2, <2>2 DEF SuspendStop
    <3>2. vms[x] \in VM
      BY <1>2 DEF VMInv, TypeOK, Known
    <3>3. /\ vms'[x] \in VM /\ vms'[x].ip = vms[x].ip /\ vms'[x].cmd = vms[x].cmd
          /\ vms'[x].done = vms[x].done /\ vms'[x].susp
          /\ \A y \in Boxes \ {x} : vms'[y] = vms[y]
      BY <3>1, <3>2 DEF VMInv, TypeOK, VM
    <3>4. vms'[x] # NoVM
      BY <3>3 DEF VM, NoVM
    <3>5. vms' \in [Boxes -> VM \cup {NoVM}]
      BY <3>1, <3>3 DEF VMInv, TypeOK
    <3> QED
      BY <1>2, <2>2, <3>3, <3>4, <3>5 DEF Known
  <2> QED
    BY <1>1, <2>1, <2>2
<1>6. /\ disk' \in [Boxes -> Dir]
      /\ \A y \in Boxes : /\ disk'[y].snap = disk[y].snap
                          /\ disk'[y].meta # disk[y].meta => y = x /\ disk'[x].meta = o
  BY <1>1 DEF VMInv, TypeOK, SuspendStop, Dir
<1>7. /\ sock' \in [Boxes -> Procs \cup {None}]
      /\ \A y \in Boxes : sock'[y] # None => sock'[y] = sock[y] /\ sock[y] # p
  BY <1>1 DEF VMInv, TypeOK, SuspendStop, Unbound
<1>8. TypeOK'
  BY <1>3, <1>4, <1>5, <1>6, <1>7 DEF VMInv, TypeOK
<1>9. CallsSound'
  <2>1. CallSound(k)'
    BY <1>3 DEF CallSound, Idle
  <2>2. \A j \in Callers \ {k} : CallSound(j)'
    BY <1>3, <1>5 DEF VMInv, CallsSound, CallSound, Known
  <2> QED
    BY <1>3, <2>1, <2>2 DEF VMInv, CallsSound
<1>10. StructsSound'
  BY <1>1, <1>2, <1>5 DEF VMInv, StructsSound, Known
<1>11. SocketsSound'
  BY <1>1, <1>2, <1>4, <1>5, <1>7 DEF VMInv, TypeOK, SocketsSound, Known
<1>12. ProcsSound'
  BY <1>4, <1>5 DEF VMInv, TypeOK, Proc, ProcsSound, Known
<1>13. GoneIsReported'
  BY <1>1, <1>2, <1>4, <1>5 DEF VMInv, GoneIsReported, StructsSound, Known
<1>14. \A y \in Boxes : Holds(y)' \subseteq Holds(y)
  BY <1>1, <1>2, <1>3, <1>5, <1>6 DEF Holds
<1>15. HeldOnce'
  BY <1>3, <1>14, HeldShrinks
<1>16. BootFresh'
  <2>1. CASE k = Rec
    BY <1>3, <2>1 DEF BootFresh, Idle
  <2>2. CASE k = Drainer
    <3>1. call'[Rec] = call[Rec] /\ call'[Drainer].ip = None
      BY <1>3, <2>2 DEF Idle
    <3>2. call[Rec].op = "boot" => call[Rec].on \in Boxes /\ call[Rec].ip \in Octets
      BY DEF VMInv, CallsSound, CallSound, Idle
    <3> QED
      BY <1>1, <1>3, <1>5, <1>6, <2>2, <3>1, <3>2 DEF VMInv, BootFresh, Known
  <2> QED
    BY <2>1, <2>2
<1> QED
  BY <1>8, <1>9, <1>10, <1>11, <1>12, <1>13, <1>15, <1>16 DEF VMInv

\* A resumed box keeps its address and gets a process of its own.
LEMMA ResumeInv ==
    ASSUME VMInv, NEW x \in Boxes, Resume(x) PROVE VMInv'
<1>1. PICK p \in Free :
         /\ proc' = [proc EXCEPT ![p] = [st |-> "up", on |-> x, box |-> x,
                                         tap |-> disk[x].snap, torn |-> disk[x].old]]
         /\ vms' = [vms EXCEPT ![x] = [@ EXCEPT !.cmd = p, !.susp = FALSE, !.done = FALSE]]
         /\ sock' = [sock EXCEPT ![x] = p]
  BY DEF Resume
<1>2. /\ p \in Procs /\ proc[p].st = "free" /\ \A y \in Boxes : vms[y].cmd # p
      /\ Known(x) /\ vms[x] \in VM
  BY DEF VMInv, TypeOK, Resume, Free, Known
<1>3. /\ call[Rec] = Idle /\ call[Drainer] = Idle
      /\ UNCHANGED <<used, disk, call, draining, skipped>>
  BY DEF VMInv, CallsSound, Resume, Asks
<1>4. /\ taps' \subseteq Octets /\ disk[x].snap \in Octets
  BY <1>2 DEF VMInv, TypeOK, VM, Resume, createTap
<1>5. /\ proc' \in [Procs -> Proc] /\ proc'[p].st = "up" /\ proc'[p].on = x
      /\ proc'[p].box = x /\ proc'[p].tap \in Octets
      /\ \A q \in Procs \ {p} : proc'[q] = proc[q]
  BY <1>1, <1>2, <1>4 DEF VMInv, TypeOK, Proc, Dir
<1>6. /\ vms'[x] \in VM /\ vms'[x].ip = vms[x].ip /\ vms'[x].cmd = p /\ ~vms'[x].susp
      /\ \A y \in Boxes \ {x} : vms'[y] = vms[y]
      /\ vms' \in [Boxes -> VM \cup {NoVM}]
  BY <1>1, <1>2 DEF VMInv, TypeOK, VM
<1>7. \A y \in Boxes : Known(y)' <=> Known(y)
  <2>1. vms'[x] # NoVM
    BY <1>6 DEF VM, NoVM
  <2> QED
    BY <1>2, <1>6, <2>1 DEF Known
<1>8. /\ sock' \in [Boxes -> Procs \cup {None}] /\ sock'[x] = p
      /\ \A y \in Boxes \ {x} : sock'[y] = sock[y]
  BY <1>1, <1>2 DEF VMInv, TypeOK
<1>9. TypeOK'
  BY <1>3, <1>4, <1>5, <1>6, <1>8 DEF VMInv, TypeOK
<1>10. CallsSound'
  BY <1>3 DEF VMInv, CallsSound, CallSound, Idle
<1>11. StructsSound'
  BY <1>2, <1>6, <1>7 DEF VMInv, StructsSound
<1>12. SocketsSound'
  BY <1>2, <1>5, <1>6, <1>7, <1>8 DEF VMInv, TypeOK, SocketsSound, Known
<1>13. ProcsSound'
  BY <1>2, <1>5, <1>7 DEF VMInv, TypeOK, Proc, ProcsSound, Known
<1>14. GoneIsReported'
  BY <1>2, <1>5, <1>6 DEF VMInv, GoneIsReported, StructsSound, Known
<1>15. \A y \in Boxes : Holds(y)' \subseteq Holds(y)
  BY <1>3, <1>6, <1>7 DEF Holds
<1>16. HeldOnce'
  BY <1>3, <1>15, HeldShrinks
<1>17. BootFresh'
  BY <1>3 DEF BootFresh, Idle
<1> QED
  BY <1>9, <1>10, <1>11, <1>12, <1>13, <1>14, <1>16, <1>17 DEF VMInv

\* A Resume that errors leaves a tap and no process.
LEMMA ResumeErrorsInv ==
    ASSUME VMInv, NEW x \in Boxes, ResumeErrors(x) PROVE VMInv'
<1>1. /\ UNCHANGED <<vms, used, proc, disk, call, draining, skipped>>
      /\ taps' \subseteq Octets /\ sock' \in [Boxes -> Procs \cup {None}]
      /\ \A y \in Boxes : sock'[y] \in {sock[y], None}
  BY DEF VMInv, TypeOK, VM, ResumeErrors, createTap
<1>2. TypeOK' /\ CallsSound' /\ BootFresh'
  BY <1>1 DEF VMInv, TypeOK, CallsSound, CallSound, BootFresh, Known
<1>3. StructsSound' /\ SocketsSound' /\ ProcsSound' /\ GoneIsReported'
  BY <1>1 DEF VMInv, StructsSound, SocketsSound, ProcsSound, GoneIsReported, Known
<1>4. HeldOnce'
  BY <1>1 DEF VMInv, HeldOnce, Holds, Known
<1> QED
  BY <1>2, <1>3, <1>4 DEF VMInv

\* Destroy frees an address that, unless a reattach left its box out, no other box holds.
LEMMA DestroyInv ==
    ASSUME VMInv, NEW x \in Boxes, Destroy(x) PROVE VMInv'
<1>1. PICK o \in Octets, p \in Procs : o = vms[x].ip /\ p = vms[x].cmd
  BY DEF VMInv, TypeOK, VM, Destroy
<1>2. /\ call[Rec] = Idle /\ call[Drainer] = Idle /\ Known(x)
      /\ UNCHANGED <<draining, skipped>> /\ used' = used \ {o} /\ taps' = taps \ {o}
  BY <1>1 DEF VMInv, CallsSound, Destroy, Asks, Known, deleteTap, freeIP
<1>3. /\ call' \in [Callers -> Call] /\ call'[Rec] = Idle /\ call'[Drainer] = Idle
  BY <1>2, DetachedCalls DEF VMInv, TypeOK, Destroy
<1>4. /\ proc' \in [Procs -> Proc]
      /\ \A q \in Procs : /\ proc'[q].box = IF proc[q].box = x THEN None ELSE proc[q].box
                          /\ q # p => /\ proc'[q].st = proc[q].st /\ proc'[q].on = proc[q].on
                                      /\ proc'[q].tap = proc[q].tap
                                      /\ proc[q] = NoProc => proc'[q] = NoProc
      /\ proc'[p].st \notin {"up", "paused"}
      /\ proc'[p].st = "free" => proc'[p] = NoProc
  <2> DEFINE g == Kill(p)
  <2>1. /\ g \in [Procs -> Proc] /\ g[p].st \notin {"up", "paused"}
        /\ g[p].st = "free" => g = proc
        /\ \A q \in Procs : g[q].box = proc[q].box /\ (q # p => g[q] = proc[q])
    BY Killed DEF VMInv, TypeOK
  <2>2. proc' = Detached(g, x)
    BY <1>1 DEF Destroy
  <2> HIDE DEF g
  <2>3. /\ proc' \in [Procs -> Proc]
        /\ \A q \in Procs : /\ proc'[q].st = g[q].st /\ proc'[q].on = g[q].on
                            /\ proc'[q].tap = g[q].tap
                            /\ proc'[q].box = IF g[q].box = x THEN None ELSE g[q].box
                            /\ g[q] = NoProc => proc'[q] = NoProc
    BY <2>1, <2>2, DetachedProcs
  <2>4. g[p].st = "free" => g[p] = NoProc
    BY <2>1 DEF VMInv, ProcsSound
  <2> QED
    BY <2>1, <2>3, <2>4
<1>5. /\ vms' \in [Boxes -> VM \cup {NoVM}] /\ vms'[x] = NoVM
      /\ \A y \in Boxes \ {x} : vms'[y] = vms[y]
      /\ disk' \in [Boxes -> Dir] /\ disk'[x] = NoDir
      /\ \A y \in Boxes \ {x} : disk'[y] = disk[y]
      /\ sock' \in [Boxes -> Procs \cup {None}] /\ sock'[x] = None
      /\ \A y \in Boxes \ {x} : sock'[y] = sock[y]
  BY DEF VMInv, TypeOK, Destroy, RemoveAll, NoDir, Dir
<1>6. TypeOK'
  BY <1>2, <1>3, <1>4, <1>5 DEF VMInv, TypeOK
<1>7. CallsSound'
  BY <1>3 DEF CallsSound, CallSound, Idle
<1>8. StructsSound'
  BY <1>5 DEF VMInv, StructsSound, Known, NoVM
<1>9. SocketsSound'
  BY <1>1, <1>4, <1>5 DEF VMInv, TypeOK, StructsSound, SocketsSound, Known
<1>10. ProcsSound'
  BY <1>4, <1>5 DEF VMInv, TypeOK, Proc, ProcsSound, Known
<1>11. GoneIsReported'
  BY <1>4, <1>5 DEF VMInv, GoneIsReported, StructsSound, Known
<1>12. HeldOnce'
  <2>1. Holds(x)' = {} /\ \A y \in Boxes \ {x} : Holds(y)' \subseteq Holds(y)
    BY <1>3, <1>5 DEF Holds, Known, NoDir
  <2>2. o \in Holds(x)
    BY <1>1, <1>2 DEF Holds
  <2>3. \A y \in Boxes : \A q \in Holds(y)' \ skipped : y # x /\ q \in Holds(y) /\ q # o
    BY <2>1, <2>2 DEF VMInv, HeldOnce
  <2> QED
    BY <1>2, <2>1, <2>3 DEF VMInv, HeldOnce
<1>13. BootFresh'
  BY <1>3 DEF BootFresh, Idle
<1> QED
  BY <1>6, <1>7, <1>8, <1>9, <1>10, <1>11, <1>12, <1>13 DEF VMInv

\* A process that exits by itself.
LEMMA ProcessExitsInv ==
    ASSUME VMInv, NEW p \in Procs, ProcessExits(p) PROVE VMInv'
<1>1. /\ UNCHANGED <<vms, used, taps, disk, call, draining, skipped>>
      /\ proc' \in [Procs -> Proc] /\ proc'[p].st \notin {"up", "paused"}
      /\ proc'[p].st = "free" => proc' = proc
      /\ \A q \in Procs : proc'[q].box = proc[q].box /\ (q # p => proc'[q] = proc[q])
  BY Killed DEF VMInv, TypeOK, ProcessExits
<1>2. /\ sock' \in [Boxes -> Procs \cup {None}]
      /\ \A y \in Boxes : sock'[y] # None => sock'[y] = sock[y] /\ sock[y] # p
  BY DEF VMInv, TypeOK, ProcessExits, Unbound
<1>3. TypeOK' /\ CallsSound' /\ StructsSound' /\ BootFresh'
  BY <1>1, <1>2 DEF VMInv, TypeOK, CallsSound, CallSound, StructsSound, BootFresh, Known
<1>4. SocketsSound'
  BY <1>1, <1>2 DEF VMInv, TypeOK, SocketsSound, Known
<1>5. ProcsSound'
  BY <1>1 DEF VMInv, ProcsSound, Known
<1>6. GoneIsReported'
  BY <1>1 DEF VMInv, GoneIsReported, StructsSound, Known
<1>7. HeldOnce'
  BY <1>1 DEF VMInv, HeldOnce, Holds, Known
<1> QED
  BY <1>3, <1>4, <1>5, <1>6, <1>7 DEF VMInv

\* The Wait goroutine marks the struct whose process it waited for.
LEMMA WaitReturnsInv ==
    ASSUME VMInv, NEW p \in Procs, WaitReturns(p) PROVE VMInv'
<1>1. /\ UNCHANGED <<used, taps, sock, disk, call, draining, skipped>>
      /\ proc' \in [Procs -> Proc] /\ proc'[p] = NoProc
      /\ \A q \in Procs \ {p} : proc'[q] = proc[q]
  BY DEF VMInv, TypeOK, WaitReturns, NoProc, Proc
<1>2. PICK b \in Boxes \cup {None} : b = proc[p].box
  BY DEF VMInv, TypeOK, Proc
<1>3. /\ vms' \in [Boxes -> VM \cup {NoVM}]
      /\ \A y \in Boxes : /\ vms'[y].ip = vms[y].ip /\ vms'[y].cmd = vms[y].cmd
                          /\ vms'[y].susp = vms[y].susp /\ (Known(y)' <=> Known(y))
                          /\ y # b => vms'[y] = vms[y]
                          /\ y = b => vms'[y].done
  <2>1. CASE b = None
    <3>1. vms' = vms
      BY <1>2, <2>1 DEF WaitReturns
    <3> QED
      BY <2>1, <3>1 DEF VMInv, TypeOK, Known
  <2>2. CASE b # None
    <3>1. vms' = [vms EXCEPT ![b].done = TRUE] /\ b \in Boxes
      BY <1>2, <2>2 DEF WaitReturns
    <3>2. vms[b] \in VM /\ vms[b] # NoVM
      BY <1>2, <3>1 DEF VMInv, TypeOK, ProcsSound, Known
    <3>3. /\ vms'[b] \in VM /\ vms'[b].ip = vms[b].ip /\ vms'[b].cmd = vms[b].cmd
          /\ vms'[b].susp = vms[b].susp /\ vms'[b].done
          /\ \A y \in Boxes \ {b} : vms'[y] = vms[y]
      BY <3>1, <3>2 DEF VMInv, TypeOK, VM
    <3>4. vms'[b] # NoVM
      BY <3>3 DEF VM, NoVM
    <3>5. vms' \in [Boxes -> VM \cup {NoVM}]
      BY <3>1, <3>3 DEF VMInv, TypeOK
    <3> QED
      BY <3>1, <3>2, <3>3, <3>4, <3>5 DEF Known
  <2> QED
    BY <2>1, <2>2
<1>4. TypeOK'
  BY <1>1, <1>3 DEF VMInv, TypeOK
<1>5. CallsSound'
  BY <1>1, <1>3 DEF VMInv, CallsSound, CallSound, Known
<1>6. StructsSound'
  BY <1>3 DEF VMInv, StructsSound
<1>7. SocketsSound'
  BY <1>1, <1>3 DEF VMInv, TypeOK, SocketsSound, WaitReturns
<1>8. ProcsSound'
  BY <1>1, <1>3 DEF VMInv, TypeOK, Proc, ProcsSound, NoProc, Known
<1>9. GoneIsReported'
  <2>1. NoProc.box = None
    BY DEF NoProc
  <2> QED
    BY <1>1, <1>2, <1>3, <2>1 DEF VMInv, GoneIsReported, StructsSound, Known
<1>10. HeldOnce'
  BY <1>1, <1>3 DEF VMInv, HeldOnce, Holds
<1>11. BootFresh'
  BY <1>1, <1>3 DEF VMInv, CallsSound, CallSound, BootFresh, Known, Idle
<1> QED
  BY <1>4, <1>5, <1>6, <1>7, <1>8, <1>9, <1>10, <1>11 DEF VMInv

\* A write of the guest ages its snapshot and no more.
LEMMA GuestWritesInv ==
    ASSUME VMInv, NEW p \in Procs, GuestWrites(p) PROVE VMInv'
<1>1. /\ UNCHANGED <<vms, used, taps, proc, sock, call, draining, skipped>>
      /\ disk' \in [Boxes -> Dir]
      /\ \A y \in Boxes : disk'[y].meta = disk[y].meta /\ disk'[y].snap = disk[y].snap
  <2>1. PICK x \in Boxes : x = proc[p].on
    BY DEF VMInv, ProcsSound, GuestWrites
  <2>2. disk \in [Boxes -> Dir] /\ disk' = [disk EXCEPT ![x].old = TRUE]
    BY <2>1 DEF VMInv, TypeOK, GuestWrites
  <2>3. \A y \in Boxes : disk'[y].meta = disk[y].meta /\ disk'[y].snap = disk[y].snap
    BY <2>2 DEF Dir
  <2>4. disk' \in [Boxes -> Dir]
    BY <2>2 DEF Dir
  <2> QED
    BY <2>3, <2>4 DEF GuestWrites
<1>2. TypeOK' /\ CallsSound'
  BY <1>1 DEF VMInv, TypeOK, CallsSound, CallSound, Known
<1>3. StructsSound' /\ SocketsSound' /\ ProcsSound' /\ GoneIsReported'
  BY <1>1 DEF VMInv, StructsSound, SocketsSound, ProcsSound, GoneIsReported, Known
<1>4. HeldOnce'
  BY <1>1 DEF VMInv, HeldOnce, Holds, Known
<1>5. BootFresh'
  BY <1>1 DEF VMInv, CallsSound, CallSound, BootFresh, Known, Idle
<1> QED
  BY <1>2, <1>3, <1>4, <1>5 DEF VMInv

\* A restart reserves the address of every box it brings back.
LEMMA StartAgainInv ==
    ASSUME VMInv, NEW reboot \in BOOLEAN, NEW skip \in SUBSET Reattachable,
           StartAgain(reboot, skip)
    PROVE  VMInv'
<1> DEFINE back == Reattachable \ skip
<1>1. /\ disk' = disk /\ call' = [k \in Callers |-> Idle] /\ proc' = [q \in Procs |-> NoProc]
      /\ sock' = [y \in Boxes |-> None] /\ draining' = FALSE
      /\ taps' \subseteq Octets
      /\ used' = taps' \cup {disk[y].meta : y \in back}
      /\ skipped' = skipped \cup {disk[y].meta : y \in skip}
  BY DEF VMInv, TypeOK, StartAgain, ReserveIPs
<1>2. \A y \in Boxes :
        /\ y \in back => vms'[y] = [ip |-> disk[y].meta, cmd |-> None, susp |-> TRUE, done |-> FALSE]
        /\ y \notin back => vms'[y] = NoVM
  BY DEF StartAgain
<1>3. /\ back \subseteq Boxes /\ skip \subseteq Boxes
      /\ \A y \in back \cup skip : disk[y].meta \in Octets /\ disk[y].snap # None
      /\ \A y \in Boxes \ (back \cup skip) : disk[y].meta = None \/ disk[y].snap = None
  BY DEF VMInv, TypeOK, Dir, Reattachable
<1> HIDE DEF back
<1>4. ASSUME NEW y \in back
      PROVE  /\ vms'[y] \in VM /\ vms'[y] # NoVM
             /\ vms'[y].ip = disk[y].meta /\ vms'[y].susp /\ vms'[y].cmd = None
  <2>1. y \in Boxes /\ disk[y].meta \in Octets
    BY <1>3
  <2>2. vms'[y] = [ip |-> disk[y].meta, cmd |-> None, susp |-> TRUE, done |-> FALSE]
    BY <1>2, <2>1
  <2>3. vms'[y].ip = disk[y].meta /\ vms'[y].susp /\ vms'[y].cmd = None
    BY <2>2
  <2>4. vms'[y] \in VM
    BY <2>1, <2>2 DEF VM
  <2>5. vms'[y] # NoVM
    BY <2>1, <2>3 DEF NoVM
  <2> QED
    BY <2>3, <2>4, <2>5
<1>5. \A y \in Boxes : /\ y \in back => vms'[y].ip = disk[y].meta /\ vms'[y].susp
                       /\ vms'[y].cmd = None
                       /\ Known(y)' <=> y \in back
  <2>1. NoVM.cmd = None
    BY DEF NoVM
  <2>2. \A y \in Boxes : y \notin back => vms'[y] = NoVM
    BY <1>2
  <2> QED
    BY <1>4, <2>1, <2>2 DEF Known
<1>6. TypeOK'
  <2>0. \A y \in Boxes : y \notin back => vms'[y] = NoVM
    BY <1>2
  <2>1. vms' \in [Boxes -> VM \cup {NoVM}]
    BY <1>4, <2>0 DEF StartAgain
  <2>2. /\ call' \in [Callers -> Call] /\ proc' \in [Procs -> Proc]
        /\ sock' \in [Boxes -> Procs \cup {None}]
    BY <1>1 DEF Idle, Call, NoProc, Proc
  <2>3. used' \subseteq Octets /\ skipped' \subseteq Octets
    <3>1. {disk[y].meta : y \in back} \subseteq Octets /\ {disk[y].meta : y \in skip} \subseteq Octets
      BY <1>3
    <3> QED
      BY <1>1, <3>1 DEF VMInv, TypeOK
  <2> QED
    BY <1>1, <2>1, <2>2, <2>3 DEF VMInv, TypeOK
<1>7. CallsSound' /\ BootFresh'
  BY <1>1 DEF CallsSound, CallSound, BootFresh, Idle
<1>8. StructsSound' /\ SocketsSound' /\ ProcsSound' /\ GoneIsReported'
  BY <1>1, <1>5 DEF StructsSound, SocketsSound, ProcsSound, GoneIsReported, NoProc, Known
<1>9. HeldOnce'
  <2>1. \A y \in Boxes : \A o \in Holds(y)' \ skipped' :
          y \in back /\ o = disk[y].meta /\ o \in Holds(y) /\ o \notin skipped
    BY <1>1, <1>3, <1>5 DEF Holds
  <2>2. \A y \in Boxes : \A o \in Holds(y)' \ skipped' : o \in used'
    BY <1>1, <2>1
  <2> QED
    BY <2>1, <2>2 DEF VMInv, HeldOnce
<1> QED
  BY <1>6, <1>7, <1>8, <1>9 DEF VMInv

\* Every step preserves the invariant.
LEMMA VMInvNext == VMInv /\ [Next]_vars => VMInv'
<1> SUFFICES ASSUME VMInv, [Next]_vars PROVE VMInv'
  OBVIOUS
<1>1. CASE \E x \in Boxes : \/ ProvisionStart(x) \/ ProvisionRefused(x)
                            \/ Resume(x) \/ ResumeErrors(x) \/ Destroy(x)
  BY <1>1, ProvisionStartInv, ProvisionRefusedInv, ResumeInv, ResumeErrorsInv, DestroyInv
<1>2. CASE ProvisionBoot \/ ProvisionFails
  BY <1>2, ProvisionBootInv, ProvisionFailsInv
<1>3. CASE \E k \in Callers : \/ \E x \in Boxes : SuspendPause(k, x)
                              \/ SuspendSnapshot(k) \/ SuspendErrors(k) \/ SuspendStop(k)
  BY <1>3, SuspendPauseInv, SuspendSnapshotInv, SuspendErrorsInv, SuspendStopInv
<1>4. CASE \E p \in Procs : ProcessExits(p) \/ WaitReturns(p) \/ GuestWrites(p)
  BY <1>4, ProcessExitsInv, WaitReturnsInv, GuestWritesInv
<1>5. CASE Restart \/ \E x \in Boxes : DestroyPanics(x)
  BY <1>5, StartAgainInv DEF Restart, DestroyPanics
<1>6. CASE DrainStarts \/ UNCHANGED vars
  <2>1. UNCHANGED <<vms, used, taps, proc, sock, disk, call, skipped>> /\ draining' \in {draining, TRUE}
    BY <1>6 DEF DrainStarts, vars
  <2>2. TypeOK' /\ CallsSound' /\ StructsSound' /\ SocketsSound' /\ ProcsSound'
    BY <2>1 DEF VMInv, TypeOK, CallsSound, CallSound, StructsSound, SocketsSound, ProcsSound, Known
  <2>3. HeldOnce' /\ BootFresh' /\ GoneIsReported'
    BY <2>1 DEF VMInv, HeldOnce, Holds, BootFresh, GoneIsReported, Known
  <2> QED
    BY <2>2, <2>3 DEF VMInv
<1> QED
  BY <1>1, <1>2, <1>3, <1>4, <1>5, <1>6 DEF Next

(***************************************************************************)
(* What holds of every behaviour.                                          *)
(***************************************************************************)
\* The provider's invariant holds for any number of boxes, addresses and processes, and
\* any number of restarts that leave boxes out.
THEOREM VMInvariant == Spec => []VMInv
  BY VMInvInit, VMInvNext, PTL DEF Spec

\* Two boxes in the table never have the same address, unless a restart left out the box
\* that had it.
THEOREM VMUniqueAddress == Spec => []UniqueAddress
<1>1. VMInv => UniqueAddress
  <2> SUFFICES ASSUME VMInv PROVE UniqueAddress
    OBVIOUS
  <2>1. \A x \in Boxes : Known(x) => vms[x].ip \in Holds(x)
    BY DEF VMInv, TypeOK, VM, Holds, Known
  <2> QED
    BY <2>1 DEF VMInv, HeldOnce, UniqueAddress
<1> QED
  BY <1>1, VMInvariant, PTL

\* No interleaving of Suspend, Resume and the Wait goroutines hides the exit of a VM.
THEOREM VMGoneIsReported == Spec => []GoneIsReported
<1>1. VMInv => GoneIsReported
  BY DEF VMInv
<1> QED
  BY <1>1, VMInvariant, PTL

(***************************************************************************)
(* The refinement of Instance.                                             *)
(***************************************************************************)
\* A step that leaves the fields Status reads alone, and the snapshots, is invisible.
LEMMA InstStutter ==
    ASSUME \A y \in Boxes : StatusOf(y)' = StatusOf(y),
           \A y \in Boxes : (disk'[y].snap # None) <=> (disk[y].snap # None)
    PROVE  StatusView' = StatusView /\ SnapView' = SnapView
BY DEF StatusView, SnapView

\* A step that changes what Status says of one box.
LEMMA InstStatus ==
    ASSUME NEW x \in Boxes, NEW s, StatusOf(x)' = s,
           \A y \in Boxes \ {x} : StatusOf(y)' = StatusOf(y)
    PROVE  StatusView' = [StatusView EXCEPT ![x] = s]
BY DEF StatusView

\* A step that writes or removes the snapshot of one box.
LEMMA InstSnap ==
    ASSUME NEW x \in Boxes, NEW s \in BOOLEAN, (disk'[x].snap # None) <=> s,
           \A y \in Boxes \ {x} : disk'[y].snap = disk[y].snap
    PROVE  SnapView' = [SnapView EXCEPT ![x] = s]
BY DEF SnapView

\* Every step of the provider is a step of Instance, or invisible in it.
LEMMA InstStep == VMInv /\ [Next]_vars => [Inst!InstNext]_<<StatusView, SnapView>>
<1> SUFFICES ASSUME VMInv, [Next]_vars PROVE [Inst!InstNext]_<<StatusView, SnapView>>
  OBVIOUS
<1> DEFINE Goal == [Inst!InstNext]_<<StatusView, SnapView>>
<1>0. /\ vms \in [Boxes -> VM \cup {NoVM}] /\ disk \in [Boxes -> Dir]
      /\ proc \in [Procs -> Proc] /\ NoDir.snap = None
  BY DEF VMInv, TypeOK, NoDir
<1>1. ASSUME NEW x \in Boxes, ProvisionRefused(x) PROVE Goal
  <2>1. vms' = vms /\ disk' = [disk EXCEPT ![x] = NoDir]
    BY <1>1 DEF ProvisionRefused, RemoveAll
  <2>2. StatusView' = StatusView /\ SnapView' = [SnapView EXCEPT ![x] = FALSE]
    BY <1>0, <2>1, InstSnap DEF StatusView, StatusOf
  <2> QED
    BY <2>2 DEF Inst!InstNext, Inst!StartFails
<1>2. ASSUME ProvisionFails PROVE Goal
  <2>1. PICK x \in Boxes : x = call[Rec].on
    BY <1>2 DEF VMInv, CallsSound, CallSound, ProvisionFails, Idle
  <2>2. vms' = vms /\ disk' = [disk EXCEPT ![x] = NoDir]
    BY <1>2, <2>1 DEF ProvisionFails, RemoveAll
  <2>3. StatusView' = StatusView /\ SnapView' = [SnapView EXCEPT ![x] = FALSE]
    BY <1>0, <2>2, InstSnap DEF StatusView, StatusOf
  <2> QED
    BY <2>3 DEF Inst!InstNext, Inst!StartFails
<1>3. ASSUME ProvisionBoot PROVE Goal
  <2>1. PICK x \in Boxes, o \in Octets : x = call[Rec].on /\ o = call[Rec].ip
    BY <1>3 DEF VMInv, CallsSound, CallSound, ProvisionBoot, Idle
  <2>2. PICK p \in Procs : vms' = [vms EXCEPT ![x] = [ip |-> o, cmd |-> p, susp |-> FALSE, done |-> FALSE]]
    BY <1>3, <2>1 DEF ProvisionBoot, Free
  <2>3. vms'[x].ip = o /\ ~vms'[x].susp /\ ~vms'[x].done
    BY <1>0, <2>2
  <2>4. StatusOf(x)' = "up"
    BY <2>3 DEF StatusOf, NoVM
  <2>5. \A y \in Boxes \ {x} : StatusOf(y)' = StatusOf(y)
    BY <1>0, <2>2 DEF StatusOf
  <2>6. StatusView' = [StatusView EXCEPT ![x] = "up"]
    BY <2>4, <2>5, InstStatus
  <2>7. disk' = [disk EXCEPT ![x].meta = o]
    BY <1>3, <2>1 DEF ProvisionBoot
  <2>8. SnapView' = SnapView
    BY <1>0, <2>7 DEF SnapView, Dir
  <2> QED
    BY <2>6, <2>8 DEF Inst!InstNext, Inst!Start
<1>4. ASSUME NEW k \in Callers, SuspendSnapshot(k) PROVE Goal
  <2>1. PICK x \in Boxes : x = call[k].on
    BY <1>4 DEF VMInv, CallsSound, CallSound, SuspendSnapshot, Idle
  <2>2. sock[x] # None /\ sock[x] \in Procs
    BY <1>4, <2>1 DEF VMInv, TypeOK, SuspendSnapshot, Answers
  <2>3. /\ proc[sock[x]].tap \in Octets /\ vms[x] # NoVM /\ ~vms[x].susp
    BY <2>2 DEF VMInv, SocketsSound, ProcsSound, Known
  <2>4. /\ disk' = [disk EXCEPT ![x] = [@ EXCEPT !.snap = proc[sock[x]].tap, !.old = FALSE]]
        /\ vms' = vms
    BY <1>4, <2>1 DEF SuspendSnapshot
  <2>5. disk'[x].snap = proc[sock[x]].tap /\ \A y \in Boxes \ {x} : disk'[y] = disk[y]
    BY <1>0, <2>4 DEF Dir
  <2>6. SnapView' = [SnapView EXCEPT ![x] = TRUE] /\ StatusView' = StatusView
    BY <2>3, <2>4, <2>5, InstSnap DEF StatusView, StatusOf
  <2>7. StatusView[x] \in {"up", "dead"}
    BY <2>3 DEF StatusView, StatusOf
  <2> QED
    BY <2>6, <2>7 DEF Inst!InstNext, Inst!Snapshot
<1>5. ASSUME NEW k \in Callers, SuspendStop(k) PROVE Goal
  <2>1. PICK x \in Boxes : x = call[k].on
    BY <1>5 DEF VMInv, CallsSound, CallSound, SuspendStop, Idle
  <2>2. SnapView' = SnapView
    BY <1>0, <1>5, <2>1 DEF SuspendStop, SnapView, Dir
  <2>3. CASE vms' = vms
    BY <2>2, <2>3 DEF StatusView, StatusOf
  <2>4. CASE vms' # vms
    <3>1. vms' = [vms EXCEPT ![x].susp = TRUE] /\ vms[x] # NoVM
      BY <1>5, <2>1, <2>4 DEF SuspendStop, VMInv, CallsSound, CallSound, Known
    <3>2. vms[x] \in VM
      BY <1>0, <3>1
    <3>3. ~vms[x].susp
      <4> SUFFICES ASSUME vms[x].susp PROVE FALSE
        OBVIOUS
      <4>1. vms[x].susp = TRUE
        BY <3>2 DEF VM
      <4>2. [vms[x] EXCEPT !.susp = TRUE] = vms[x]
        BY <3>2, <4>1 DEF VM
      <4> QED
        BY <1>0, <2>4, <3>1, <4>2
    <3>4. vms'[x].ip = vms[x].ip /\ vms'[x].susp /\ \A y \in Boxes \ {x} : vms'[y] = vms[y]
      BY <1>0, <3>1, <3>2 DEF VM
    <3>5. StatusOf(x)' = "suspended" /\ \A y \in Boxes \ {x} : StatusOf(y)' = StatusOf(y)
      BY <3>2, <3>4 DEF StatusOf, VM, NoVM
    <3>6. StatusView' = [StatusView EXCEPT ![x] = "suspended"]
      BY <3>5, InstStatus
    <3>7. StatusView[x] \in {"up", "dead"}
      BY <3>1, <3>3 DEF StatusView, StatusOf
    <3> QED
      BY <2>2, <3>6, <3>7 DEF Inst!InstNext, Inst!Sleep
  <2> QED
    BY <2>3, <2>4
<1>6. ASSUME NEW x \in Boxes, Resume(x) PROVE Goal
  <2>1. PICK p \in Procs :
          vms' = [vms EXCEPT ![x] = [@ EXCEPT !.cmd = p, !.susp = FALSE, !.done = FALSE]]
    BY <1>6 DEF Resume, Free
  <2>2. /\ vms[x] \in VM /\ vms[x] # NoVM /\ vms[x].susp /\ disk' = disk
        /\ disk[x].snap \in Octets
    BY <1>0, <1>6 DEF VMInv, TypeOK, VM, Resume, createTap
  <2>3. /\ vms'[x].ip = vms[x].ip /\ ~vms'[x].susp /\ ~vms'[x].done
        /\ \A y \in Boxes \ {x} : vms'[y] = vms[y]
    BY <1>0, <2>1, <2>2 DEF VM
  <2>4. StatusOf(x)' = "up" /\ \A y \in Boxes \ {x} : StatusOf(y)' = StatusOf(y)
    BY <2>2, <2>3 DEF StatusOf, VM, NoVM
  <2>5. StatusView' = [StatusView EXCEPT ![x] = "up"]
    BY <2>4, InstStatus
  <2>6. StatusView[x] = "suspended" /\ SnapView[x] /\ SnapView' = SnapView
    BY <2>2 DEF StatusView, StatusOf, SnapView
  <2> QED
    BY <2>5, <2>6 DEF Inst!InstNext, Inst!Wake
<1>7. ASSUME NEW x \in Boxes, Destroy(x) PROVE Goal
  <2>1. vms' = [vms EXCEPT ![x] = NoVM] /\ disk' = [disk EXCEPT ![x] = NoDir]
    BY <1>7 DEF Destroy, RemoveAll
  <2>2. StatusOf(x)' = "none" /\ \A y \in Boxes \ {x} : StatusOf(y)' = StatusOf(y)
    BY <1>0, <2>1 DEF StatusOf
  <2>3. StatusView' = [StatusView EXCEPT ![x] = "none"]
    BY <2>2, InstStatus
  <2>4. SnapView' = [SnapView EXCEPT ![x] = FALSE]
    BY <1>0, <2>1, InstSnap
  <2> QED
    BY <2>3, <2>4 DEF Inst!InstNext, Inst!Remove
<1>8. ASSUME NEW p \in Procs, WaitReturns(p) PROVE Goal
  <2>1. SnapView' = SnapView
    BY <1>8 DEF WaitReturns, SnapView
  <2>2. CASE vms' = vms
    BY <2>1, <2>2 DEF StatusView, StatusOf
  <2>3. CASE vms' # vms
    <3>1. PICK x \in Boxes : x = proc[p].box
      BY <1>0, <1>8, <2>3 DEF WaitReturns, Proc
    <3>2. vms' = [vms EXCEPT ![x].done = TRUE] /\ vms[x] \in VM /\ vms[x] # NoVM
      BY <1>0, <1>8, <2>3, <3>1 DEF WaitReturns, VMInv, ProcsSound, Known
    <3>3. ~vms[x].done
      <4> SUFFICES ASSUME vms[x].done PROVE FALSE
        OBVIOUS
      <4>1. vms[x].done = TRUE
        BY <3>2 DEF VM
      <4>2. [vms[x] EXCEPT !.done = TRUE] = vms[x]
        BY <3>2, <4>1 DEF VM
      <4> QED
        BY <1>0, <2>3, <3>2, <4>2
    <3>4. /\ vms'[x].ip = vms[x].ip /\ vms'[x].done /\ vms'[x].susp = vms[x].susp
          /\ \A y \in Boxes \ {x} : vms'[y] = vms[y]
      BY <1>0, <3>2 DEF VM
    <3>5. \A y \in Boxes \ {x} : StatusOf(y)' = StatusOf(y)
      BY <3>4 DEF StatusOf
    <3>6. vms'[x] # NoVM
      BY <3>2, <3>4 DEF VM, NoVM
    <3>7. CASE vms[x].susp
      <4>1. StatusOf(x)' = StatusOf(x)
        BY <3>2, <3>4, <3>6, <3>7 DEF StatusOf
      <4> QED
        BY <2>1, <3>5, <4>1 DEF StatusView
    <3>8. CASE ~vms[x].susp
      <4>1. StatusOf(x)' = "dead" /\ StatusOf(x) = "up"
        BY <3>2, <3>3, <3>4, <3>6, <3>8 DEF StatusOf
      <4>2. StatusView' = [StatusView EXCEPT ![x] = "dead"] /\ StatusView[x] = "up"
        BY <3>5, <4>1, InstStatus DEF StatusView
      <4> QED
        BY <2>1, <4>2 DEF Inst!InstNext, Inst!Die
    <3> QED
      BY <3>7, <3>8
  <2> QED
    BY <2>2, <2>3
<1>9. ASSUME NEW reboot \in BOOLEAN, NEW skip \in SUBSET Reattachable, StartAgain(reboot, skip)
      PROVE  Goal
  <2> DEFINE back == Reattachable \ skip
  <2>1. disk' = disk /\ \A y \in Boxes :
          /\ y \in back => vms'[y] = [ip |-> disk[y].meta, cmd |-> None, susp |-> TRUE, done |-> FALSE]
          /\ y \notin back => vms'[y] = NoVM
    BY <1>9 DEF StartAgain
  <2>2. \A y \in back : y \in Boxes /\ disk[y].meta # None /\ SnapView[y]
    BY DEF Reattachable, SnapView
  <2> HIDE DEF back
  <2>3. ASSUME NEW y \in back PROVE StatusOf(y)' = "suspended"
    <3>1. vms'[y] = [ip |-> disk[y].meta, cmd |-> None, susp |-> TRUE, done |-> FALSE]
      BY <2>1, <2>2
    <3>2. vms'[y].ip # None /\ vms'[y].susp
      BY <2>2, <3>1
    <3> QED
      BY <3>2 DEF StatusOf, NoVM
  <2>4. \A y \in Boxes : y \notin back => vms'[y] = NoVM
    BY <2>1
  <2>5. StatusView' = [y \in Boxes |-> IF y \in back THEN "suspended" ELSE "none"]
    BY <2>3, <2>4 DEF StatusView, StatusOf
  <2>6. back \in SUBSET {y \in Boxes : SnapView[y]} /\ SnapView' = SnapView
    BY <2>1, <2>2 DEF SnapView
  <2> QED
    BY <2>5, <2>6 DEF Inst!InstNext, Inst!Reattach
<1>10. CASE UNCHANGED <<vms, disk>>
  BY <1>10, InstStutter DEF StatusOf
<1>11. ASSUME NEW p \in Procs, GuestWrites(p) PROVE Goal
  <2>1. PICK x \in Boxes : x = proc[p].on
    BY <1>11 DEF VMInv, ProcsSound, GuestWrites
  <2>2. disk' = [disk EXCEPT ![x].old = TRUE] /\ vms' = vms
    BY <1>11, <2>1 DEF GuestWrites
  <2>3. \A y \in Boxes : disk'[y].snap = disk[y].snap
    BY <1>0, <2>2 DEF Dir
  <2> QED
    BY <2>2, <2>3, InstStutter DEF StatusOf
<1>12. CASE \E x \in Boxes : \/ ProvisionStart(x) \/ ProvisionRefused(x)
                             \/ Resume(x) \/ ResumeErrors(x) \/ Destroy(x)
  BY <1>12, <1>1, <1>6, <1>7, <1>10 DEF ProvisionStart, ResumeErrors
<1>13. CASE \E k \in Callers : \/ \E x \in Boxes : SuspendPause(k, x)
                               \/ SuspendSnapshot(k) \/ SuspendErrors(k) \/ SuspendStop(k)
  BY <1>13, <1>4, <1>5, <1>10 DEF SuspendPause, SuspendErrors
<1>14. CASE \E p \in Procs : ProcessExits(p) \/ WaitReturns(p) \/ GuestWrites(p)
  BY <1>14, <1>8, <1>10, <1>11 DEF ProcessExits
<1>15. CASE Restart \/ \E x \in Boxes : DestroyPanics(x)
  BY <1>15, <1>9 DEF Restart, DestroyPanics
<1>16. CASE ProvisionBoot \/ ProvisionFails \/ DrainStarts \/ UNCHANGED vars
  BY <1>16, <1>2, <1>3, <1>10 DEF DrainStarts, vars
<1> QED
  BY <1>12, <1>13, <1>14, <1>15, <1>16 DEF Next, Goal

\* The provider implements the instance that the reconciler is told of.
THEOREM VMImplementsInstance == Spec => ImplementsInstance
<1>1. Init => Inst!InstInit
  <2> SUFFICES ASSUME Init PROVE Inst!InstInit
    OBVIOUS
  <2>1. NoDir.snap = None
    BY DEF NoDir
  <2>2. \A x \in Boxes : vms[x] = NoVM /\ ~(disk[x].snap # None)
    BY <2>1 DEF Init
  <2>3. StatusView = [x \in Boxes |-> "none"]
    BY <2>2 DEF StatusView, StatusOf
  <2>4. SnapView = [x \in Boxes |-> FALSE]
    BY <2>2 DEF SnapView
  <2> QED
    BY <2>3, <2>4 DEF Inst!InstInit
<1> QED
  BY <1>1, InstStep, VMInvariant, PTL DEF Spec, ImplementsInstance, Inst!InstSpec
=============================================================================
