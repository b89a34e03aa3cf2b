--------------------------- MODULE BoxFleet_proofs ---------------------------
(***************************************************************************)
(* What the store keeps to, for every number of boxes, sessions, agents    *)
(* and requests, every tier and provider, and without the bounds the       *)
(* model-checking runs put on time, attempts and restarts.                 *)
(***************************************************************************)
EXTENDS BoxFleet, AgentHub_proofs

SessOK ==
    /\ sess \in [Sessions -> [pc: SessPCs, id: Boxes \cup {None}]]
    /\ SessionsOnBoxes

(***************************************************************************)
(* Rows.  Sound looks at five fields only, and its histories only grow.    *)
(***************************************************************************)
\* The absent row is a row, and sound.
LEMMA NoBoxIsRow == NoBox \in Row /\ Sound(NoBox)
BY NoneAssumption, TimeAssumption DEF NoBox, Row, Phase, Sound, Unset

\* A tick changes only the clocks of a row.
LEMMA AgeIsRow ==
    ASSUME NEW b \in Row
    PROVE  /\ Age(b) \in Row
           /\ Age(b).id = b.id /\ Age(b).phase = b.phase /\ Age(b).agent = b.agent
           /\ Age(b).ref = b.ref /\ Age(b).token = b.token
<1> DEFINE d == IF b.deadline > 0 THEN b.deadline - 1 ELSE b.deadline
           l == IF b.lastActive # Unset /\ b.lastActive < IdleCap
                THEN b.lastActive + 1 ELSE b.lastActive
           k == IF b.keep > 0 THEN b.keep - 1 ELSE b.keep
<1>1. b.deadline \in Unset..Grace /\ b.lastActive \in Unset..IdleCap /\ b.keep \in 0..KeepTicks
  BY DEF Row
<1>2. d \in Unset..Grace /\ l \in Unset..IdleCap /\ k \in 0..KeepTicks
  BY <1>1, TimeAssumption DEF Unset
<1>3. Age(b) = [b EXCEPT !.deadline = d, !.lastActive = l, !.keep = k]
  BY DEF Age, Row
<1> HIDE DEF d, l, k
<1> QED
  BY <1>2, <1>3 DEF Row

\* Soundness depends on five fields.
LEMMA SoundFields ==
    ASSUME NEW a \in Row, NEW b \in Row, Sound(a),
           b.id = a.id, b.phase = a.phase, b.agent = a.agent,
           b.ref = a.ref, b.token = a.token
    PROVE  Sound(b)
BY DEF Sound

\* A sound row stays sound while the histories grow.
LEMMA SoundGrows ==
    ASSUME NEW b \in Row, Sound(b),
           born \subseteq born', seen \subseteq seen', asked \subseteq asked'
    PROVE  Sound(b)'
BY DEF Sound

(***************************************************************************)
(* Writes and reads.  A sound row written back leaves the store sound and  *)
(* neither creates nor removes a row; a sound row read leaves every copy   *)
(* sound.                                                                  *)
(***************************************************************************)
\* Update with a sound row keeps the store sound and its set of rows the same.
LEMMA WriteKeeps ==
    ASSUME FleetInv, NEW b \in Row, Sound(b), Update(b), UNCHANGED <<born, seen, calls>>
    PROVE  /\ row' \in [Boxes -> Row]
           /\ \A x \in Boxes : Exists(x)' <=> Exists(x)
           /\ RowsSound' /\ PersistentKept'
<1> USE DEF FleetInv, TypeOK, RowsSound
<1>1. row' \in [Boxes -> Row]
  BY DEF Update
<1>2. ASSUME NEW x \in Boxes PROVE row'[x] = IF x = b.id /\ Exists(x) THEN b ELSE row[x]
  BY DEF Update
<1>3. b.id \in Boxes => b.phase # "none"
  BY NoneAssumption DEF Sound
<1>4. \A x \in Boxes : Exists(x)' <=> Exists(x)
  BY <1>2, <1>3 DEF Exists
<1>5. asked' = asked
  BY DEF asked
<1>6. RowsSound'
  <2> TAKE x \in Boxes
  <2>1. CASE x = b.id /\ Exists(x)
    BY <1>2, <1>5, <2>1 DEF Sound, Exists
  <2>2. CASE ~(x = b.id /\ Exists(x))
    BY <1>2, <1>5, <2>2 DEF Sound, Exists
  <2> QED
    BY <2>1, <2>2
<1>7. PersistentKept'
  BY <1>4, <1>5 DEF PersistentKept
<1> QED
  BY <1>1, <1>4, <1>6, <1>7

\* A writer that takes a sound copy keeps every copy sound.
LEMMA ReadKeeps ==
    ASSUME FleetInv, NEW w \in Writers, NEW b \in Row, Sound(b)',
           born \subseteq born', seen \subseteq seen', asked \subseteq asked',
           copy' = [copy EXCEPT ![w] = b]
    PROVE  /\ copy' \in [Writers -> Row]
           /\ CopiesSound'
<1> USE DEF FleetInv, TypeOK, CopiesSound
<1>1. copy' \in [Writers -> Row]
  OBVIOUS
<1>2. ASSUME NEW v \in Writers PROVE copy'[v] = IF v = w THEN b ELSE copy[v]
  OBVIOUS
<1>3. CopiesSound'
  <2> TAKE v \in Writers
  <2>1. CASE v = w
    BY <1>2, <2>1 DEF Sound
  <2>2. CASE v # w
    BY <1>2, <2>2 DEF Sound
  <2> QED
    BY <2>1, <2>2
<1> QED
  BY <1>1, <1>3

\* An untouched store stays sound while the histories grow.
LEMMA RowsGrow ==
    ASSUME FleetInv, row' = row,
           born \subseteq born', seen \subseteq seen', asked \subseteq asked'
    PROVE  RowsSound'
BY DEF FleetInv, TypeOK, RowsSound, Sound, Exists

\* So do the rows Drain has listed.
LEMMA DrainGrows ==
    ASSUME FleetInv, drain' = drain,
           born \subseteq born', seen \subseteq seen', asked \subseteq asked'
    PROVE  DrainSound'
BY DEF FleetInv, TypeOK, DrainSound, Sound

(***************************************************************************)
(* The three shapes of step: a writer other than the reconciler reads, it  *)
(* writes back, and the reconciler acts.                                   *)
(***************************************************************************)
\* A session, guest, operator or sink reads a row.
LEMMA SideRead ==
    ASSUME FleetInv, NEW w \in Writers \ {Rec}, NEW b \in Row, Sound(b)',
           copy' = [copy EXCEPT ![w] = b],
           UNCHANGED <<row, born, seen, inst, rec, drain, restarts, hubVars>>,
           asked \subseteq asked',
           calls' \in [Guests \cup Operators -> Boxes \cup {None}],
           SessOK'
    PROVE  FleetInv'
<1>1. copy' \in [Writers -> Row] /\ CopiesSound'
  BY ReadKeeps
<1>2. RowsSound' /\ DrainSound'
  BY RowsGrow, DrainGrows
<1>3. Rec \in Writers /\ copy'[Rec] = copy[Rec]
  BY DEF Writers, FleetInv, TypeOK
<1>4. RecShape'
  BY <1>3 DEF FleetInv, RecShape, MustDestroy
<1>5. HubInv' /\ HubTypeOK'
  BY DEF FleetInv, hubVars, HubInv, HubTypeOK, SlotBacked, LiveOwnsSlot, BusyHasBox
<1>6. ReportersSeen' /\ PersistentKept'
  BY DEF FleetInv, ReportersSeen, PersistentKept, hubVars, Exists
<1>7. TypeOK' /\ SessionsOnBoxes'
  BY <1>1, <1>5 DEF FleetInv, TypeOK, SessOK
<1> QED
  BY <1>1, <1>2, <1>4, <1>5, <1>6, <1>7 DEF FleetInv

\* Such a writer writes its copy back and forgets it.
LEMMA SideWrite ==
    ASSUME FleetInv, NEW w \in Writers \ {Rec}, NEW b \in Row, Sound(b),
           Update(b), Forget(w),
           UNCHANGED <<born, seen, calls, inst, rec, drain, restarts>>,
           SessOK',
           HubInv', ReportersSeen'
    PROVE  FleetInv'
<1>0. asked' = asked
  BY DEF asked
<1>1. copy' \in [Writers -> Row] /\ CopiesSound'
  <2>1. Sound(NoBox)'
    BY NoneAssumption DEF NoBox, Sound
  <2> QED
    BY <1>0, <2>1, NoBoxIsRow, ReadKeeps DEF Forget
<1>2. row' \in [Boxes -> Row] /\ RowsSound' /\ PersistentKept'
  BY WriteKeeps
<1>3. DrainSound'
  BY <1>0, DrainGrows
<1>4. RecShape'
  <2>1. Rec \in Writers /\ copy'[Rec] = copy[Rec]
    BY DEF Writers, FleetInv, TypeOK, Forget
  <2> QED
    BY <2>1 DEF FleetInv, RecShape, MustDestroy
<1>5. TypeOK' /\ SessionsOnBoxes'
  BY <1>1, <1>2 DEF FleetInv, TypeOK, SessOK, HubInv
<1> QED
  BY <1>1, <1>2, <1>3, <1>4, <1>5 DEF FleetInv

\* The reconciler replaces its own copy, its program counter and an instance.
LEMMA RecActs ==
    ASSUME FleetInv, RecUnchanged, NEW b \in Row, Sound(b),
           copy' = [copy EXCEPT ![Rec] = b],
           row' = row \/ \E a \in Row : Sound(a) /\ Update(a),
           inst' \in [Boxes -> Instance],
           rec' \in RecPCs,
           rec' = "running" => b.phase = "Running",
           rec' = "delete" => MustDestroy(b)
    PROVE  FleetInv'
<1>0. UNCHANGED <<born, calls, seen, sess, drain, restarts, hub, conn>> /\ asked' = asked
  BY DEF RecUnchanged, hubVars, asked
<1>1. Rec \in Writers
  BY DEF Writers
<1>2. copy' \in [Writers -> Row] /\ CopiesSound'
  <2>1. Sound(b)'
    BY <1>0 DEF Sound
  <2> QED
    BY <1>0, <1>1, <2>1, ReadKeeps
<1>3. row' \in [Boxes -> Row] /\ RowsSound' /\ PersistentKept'
  <2>1. CASE row' = row
    BY <1>0, <2>1, RowsGrow DEF FleetInv, TypeOK, PersistentKept, Exists
  <2>2. CASE \E a \in Row : Sound(a) /\ Update(a)
    <3> PICK a \in Row : Sound(a) /\ Update(a)
      BY <2>2
    <3> QED
      BY <1>0, WriteKeeps
  <2> QED
    BY <2>1, <2>2
<1>4. DrainSound'
  BY <1>0, DrainGrows
<1>5. RecShape'
  <2>1. copy'[Rec] = b
    BY <1>1 DEF FleetInv, TypeOK
  <2> QED
    BY <2>1 DEF RecShape, MustDestroy
<1>6. HubInv' /\ HubTypeOK'
  BY <1>0 DEF FleetInv, HubInv, HubTypeOK, SlotBacked, LiveOwnsSlot, BusyHasBox
<1>7. ReportersSeen' /\ SessionsOnBoxes'
  BY <1>0 DEF FleetInv, ReportersSeen, SessionsOnBoxes
<1>8. TypeOK'
  BY <1>0, <1>2, <1>3, <1>6 DEF FleetInv, TypeOK
<1> QED
  BY <1>2, <1>3, <1>4, <1>5, <1>6, <1>7, <1>8 DEF FleetInv
(***************************************************************************)
(* The engine's steps.                                                     *)
(***************************************************************************)
\* Attach and its releaser keep the invariant.
LEMMA SessionStep == ASSUME FleetInv, NEW s \in Sessions, Session(s) PROVE FleetInv'
<1>0. s \in Writers \ {Rec}
  BY FleetAssumption DEF Writers
<1>1. /\ copy[s] \in Row /\ Sound(copy[s])
      /\ \A x \in Boxes : row[x] \in Row /\ Sound(row[x])
      /\ SessOK
  BY <1>0 DEF FleetInv, TypeOK, CopiesSound, RowsSound, SessOK
<1>2. ASSUME NEW x \in Boxes, Read(s, row[x]), UNCHANGED <<calls>>,
             UNCHANGED <<row, born, seen, inst, rec, drain, restarts, hubVars>>,
             SessOK'
      PROVE  FleetInv'
  <2>1. Sound(row[x])' /\ asked' = asked
    BY <1>1, <1>2 DEF Sound, asked
  <2> QED
    BY <1>0, <1>1, <1>2, <2>1, SideRead DEF Read, FleetInv, TypeOK
<1>3. ASSUME UNCHANGED <<row, born, calls, seen, inst, rec, copy, drain, restarts, hubVars>>,
             SessOK'
      PROVE  FleetInv'
  <2>1. /\ Sound(copy[s])' /\ asked' = asked
        /\ copy' = [copy EXCEPT ![s] = copy[s]]
    BY <1>0, <1>1, <1>3 DEF Sound, asked, FleetInv, TypeOK
  <2> QED
    BY <1>0, <1>1, <1>3, <2>1, SideRead DEF FleetInv, TypeOK
<1>4. ASSUME NEW b \in Row, Sound(b), Update(b), Forget(s),
             UNCHANGED <<born, calls, seen, inst, rec, drain, restarts, hubVars>>,
             SessOK'
      PROVE  FleetInv'
  <2>1. HubInv' /\ ReportersSeen'
    BY <1>4 DEF FleetInv, hubVars, HubInv, HubTypeOK, SlotBacked, LiveOwnsSlot, BusyHasBox,
                ReportersSeen
  <2> QED
    BY <1>0, <1>4, <2>1, SideWrite
<1>5. CASE AttachLookup(s)
  <2>1. SessOK'
    BY <1>1, <1>5 DEF AttachLookup, SessPCs, SessOK, SessionsOnBoxes
  <2> QED
    BY <1>2, <1>3, <1>5, <2>1 DEF AttachLookup
<1>6. CASE AttachCreate(s)
  <2>1. SessOK'
    BY <1>1, <1>6 DEF AttachCreate, SessPCs, SessOK, SessionsOnBoxes
  <2>2. CASE UNCHANGED <<row, born>>
    BY <1>3, <1>6, <2>1, <2>2 DEF AttachCreate
  <2>3. ASSUME NEW x \in Boxes \ born, row' = [row EXCEPT ![x] = NewBox(x)],
               born' = born \cup {x}
        PROVE  FleetInv'
    <3>1. UNCHANGED <<calls, seen, inst, rec, copy, drain, restarts, hub, conn>>
          /\ asked' = asked
      BY <1>6 DEF AttachCreate, hubVars, asked
    <3>2. /\ NewBox(x) \in Row
          /\ NewBox(x).id = x /\ NewBox(x).phase = "Pending" /\ NewBox(x).agent = FALSE
      BY NoBoxIsRow, TierAssumption DEF NewBox, NoBox, Row, Phase
    <3>3. row' \in [Boxes -> Row] /\ RowsSound'
      <4>1. row' \in [Boxes -> Row]
        BY <2>3, <3>2 DEF FleetInv, TypeOK
      <4>2. RowsSound'
        <5> SUFFICES ASSUME NEW y \in Boxes
                     PROVE  (Sound(row[y]) /\ (Exists(y) => row[y].id = y))'
          BY DEF RowsSound
        <5>1. CASE y = x
          BY <2>3, <3>2, <5>1 DEF FleetInv, TypeOK, Sound
        <5>2. CASE y # x
          BY <2>3, <3>1, <5>2 DEF FleetInv, TypeOK, RowsSound, Sound, Exists
        <5> QED
          BY <5>1, <5>2
      <4> QED
        BY <4>1, <4>2
    <3>4. PersistentKept'
      BY <2>3, <3>1, <3>2 DEF FleetInv, TypeOK, PersistentKept, Exists
    <3>5. CopiesSound' /\ DrainSound'
      BY <2>3, <3>1 DEF FleetInv, TypeOK, CopiesSound, DrainSound, Sound
    <3>6. HubInv' /\ HubTypeOK' /\ ReportersSeen' /\ RecShape'
      BY <3>1 DEF FleetInv, HubInv, HubTypeOK, SlotBacked, LiveOwnsSlot, BusyHasBox,
                  ReportersSeen, RecShape, MustDestroy
    <3>7. TypeOK' /\ SessionsOnBoxes'
      BY <2>1, <2>3, <3>1, <3>3, <3>6 DEF FleetInv, TypeOK, SessOK
    <3> QED
      BY <3>3, <3>4, <3>5, <3>6, <3>7 DEF FleetInv
  <2> QED
    BY <1>6, <2>2, <2>3 DEF AttachCreate
<1>7. CASE AttachReuse(s)
  <2> DEFINE b == [copy[s] EXCEPT !.attached = TRUE]
  <2>1. b \in Row /\ Sound(b)
    BY <1>1 DEF Row, Sound
  <2>2. SessOK'
    BY <1>1, <1>7 DEF AttachReuse, SessPCs, SessOK, SessionsOnBoxes
  <2> HIDE DEF b
  <2> QED
    BY <1>4, <1>7, <2>1, <2>2 DEF AttachReuse, b
<1>8. CASE Detach(s)
  <2>1. SessOK'
    BY <1>1, <1>8 DEF Detach, SessPCs, SessOK, SessionsOnBoxes
  <2>2. sess[s].id \in Boxes
    BY <1>1, <1>8 DEF Detach, SessOK, SessionsOnBoxes
  <2> QED
    BY <1>2, <1>3, <1>8, <2>1, <2>2 DEF Detach
<1>9. CASE Release(s)
  <2> DEFINE b == [copy[s] EXCEPT !.attached = FALSE, !.lastActive = 0]
  <2>0. 0 \in Unset..IdleCap
    BY TimeAssumption DEF Unset
  <2>1. b \in Row /\ Sound(b)
    BY <1>1, <2>0 DEF Row, Sound
  <2>2. SessOK'
    BY <1>1, <1>9 DEF Release, SessPCs, SessOK, SessionsOnBoxes
  <2> HIDE DEF b
  <2> QED
    BY <1>4, <1>9, <2>1, <2>2 DEF Release, b
<1> QED
  BY <1>5, <1>6, <1>7, <1>8, <1>9 DEF Session

\* Destroy keeps it: the box it flags has just been asked for.
LEMMA OperatorStep == ASSUME FleetInv, NEW o \in Operators, Operator(o) PROVE FleetInv'
<1>0. o \in Writers \ {Rec}
  BY FleetAssumption DEF Writers
<1>1. /\ copy[o] \in Row /\ Sound(copy[o])
      /\ \A x \in Boxes : row[x] \in Row /\ Sound(row[x]) /\ (Exists(x) => row[x].id = x)
      /\ SessOK
  BY <1>0 DEF FleetInv, TypeOK, CopiesSound, RowsSound, SessOK
<1>2. ASSUME NEW x \in Boxes, DestroyGet(o, x) PROVE FleetInv'
  <2> DEFINE b == [row[x] EXCEPT !.phase = "Destroying"]
  <2>1. calls' = [calls EXCEPT ![o] = x] /\ calls[o] = None
        /\ calls \in [Guests \cup Operators -> Boxes \cup {None}]
    BY <1>2 DEF DestroyGet, FleetInv, TypeOK
  <2>2. calls' \in [Guests \cup Operators -> Boxes \cup {None}]
    BY <2>1
  <2>3. x \in asked' /\ asked \subseteq asked'
    BY <2>1, NoneAssumption DEF asked
  <2>4. b \in Row /\ Sound(b)'
    <3>1. UNCHANGED <<row, born, seen>>
      BY <1>2 DEF DestroyGet
    <3>2. b \in Row
      BY <1>1 DEF Row, Phase
    <3>3. /\ b.id = x /\ b.phase = "Destroying" /\ b.agent = row[x].agent
          /\ x \in born /\ (b.agent => x \in seen)
      BY <1>1, <1>2 DEF DestroyGet, Exists, Sound, Row
    <3> QED
      BY <2>3, <3>1, <3>2, <3>3 DEF Sound
  <2>5. SessOK'
    BY <1>1, <1>2 DEF DestroyGet, SessOK, SessionsOnBoxes
  <2> QED
    BY <1>0, <1>2, <2>2, <2>3, <2>4, <2>5, SideRead DEF DestroyGet, Read
<1>3. CASE DestroyPut(o)
  <2>1. HubInv' /\ ReportersSeen' /\ SessOK'
    BY <1>1, <1>3 DEF DestroyPut, FleetInv, hubVars, HubInv, HubTypeOK, SlotBacked,
                LiveOwnsSlot, BusyHasBox, ReportersSeen, SessOK, SessionsOnBoxes
  <2> QED
    BY <1>0, <1>1, <1>3, <2>1, SideWrite DEF DestroyPut
<1> QED
  BY <1>2, <1>3 DEF Operator
(***************************************************************************)
(* The metadata API's steps.                                               *)
(***************************************************************************)
\* mutate takes a copy that differs from the row in the guest's own fields only.
LEMMA MutateStep ==
    ASSUME FleetInv, NEW g \in Guests, NEW x \in Boxes, NEW b \in Row,
           b.id = row[x].id, b.phase = row[x].phase, b.agent = row[x].agent,
           b.ref = row[x].ref, b.token = row[x].token,
           Mutate(g, x, b)
    PROVE  FleetInv'
<1>1. g \in Writers \ {Rec} /\ g \notin Operators
  BY FleetAssumption DEF Writers
<1>2. /\ row[x] \in Row /\ Sound(row[x])
      /\ calls \in [Guests \cup Operators -> Boxes \cup {None}]
  BY DEF FleetInv, TypeOK, RowsSound
<1>3. calls' \in [Guests \cup Operators -> Boxes \cup {None}] /\ asked' = asked
  BY <1>1, <1>2 DEF Mutate, asked
<1>4. UNCHANGED <<row, born, seen, inst, sess, rec, drain, restarts, hubVars>>
  BY DEF Mutate, GuestUnchanged
<1>5. Sound(b)
  BY <1>2, SoundFields
<1>6. Sound(b)' /\ SessOK'
  BY <1>3, <1>4, <1>5 DEF Sound, SessOK, SessionsOnBoxes, FleetInv, TypeOK
<1> QED
  BY <1>1, <1>3, <1>4, <1>6, SideRead DEF Mutate, Read

\* Every metadata request keeps it.
LEMMA GuestStep == ASSUME FleetInv, NEW g \in Guests, Guest(g) PROVE FleetInv'
<1>1. ASSUME NEW x \in Boxes PROVE row[x] \in Row
  BY DEF FleetInv, TypeOK
<1>2. ASSUME NEW x \in Boxes, Heartbeat(g, x) PROVE FleetInv'
  <2> PICK busy \in BOOLEAN : Mutate(g, x, RecordHeartbeat(row[x], busy))
    BY <1>2 DEF Heartbeat
  <2> DEFINE b == RecordHeartbeat(row[x], busy)
  <2>1. 0 \in Unset..IdleCap
    BY TimeAssumption DEF Unset
  <2>2. /\ b \in Row /\ b.id = row[x].id /\ b.phase = row[x].phase
        /\ b.agent = row[x].agent /\ b.ref = row[x].ref /\ b.token = row[x].token
    BY <1>1, <2>1 DEF RecordHeartbeat, Row
  <2> HIDE DEF b
  <2> QED
    BY <2>2, MutateStep DEF b
<1>3. ASSUME NEW x \in Boxes, KeepAlive(g, x) PROVE FleetInv'
  <2> PICK k \in 0..KeepTicks : Mutate(g, x, [row[x] EXCEPT !.keep = k])
    BY <1>3 DEF KeepAlive
  <2> DEFINE b == [row[x] EXCEPT !.keep = k]
  <2>1. /\ b \in Row /\ b.id = row[x].id /\ b.phase = row[x].phase
        /\ b.agent = row[x].agent /\ b.ref = row[x].ref /\ b.token = row[x].token
    BY <1>1 DEF Row
  <2> HIDE DEF b
  <2> QED
    BY <2>1, MutateStep DEF b
<1>4. ASSUME NEW x \in Boxes, AutoSuspend(g, x) PROVE FleetInv'
  <2> PICK on \in BOOLEAN : Mutate(g, x, [row[x] EXCEPT !.autoSuspend = on])
    BY <1>4 DEF AutoSuspend
  <2> DEFINE b == [row[x] EXCEPT !.autoSuspend = on]
  <2>1. /\ b \in Row /\ b.id = row[x].id /\ b.phase = row[x].phase
        /\ b.agent = row[x].agent /\ b.ref = row[x].ref /\ b.token = row[x].token
    BY <1>1 DEF Row
  <2> HIDE DEF b
  <2> QED
    BY <2>1, MutateStep DEF b
<1>5. ASSUME NEW x \in Boxes, Idle(g, x) PROVE FleetInv'
  <2> PICK t \in IdleOverride \cup {0} : Mutate(g, x, [row[x] EXCEPT !.idle = t])
    BY <1>5 DEF Idle
  <2> DEFINE b == [row[x] EXCEPT !.idle = t]
  <2>1. /\ b \in Row /\ b.id = row[x].id /\ b.phase = row[x].phase
        /\ b.agent = row[x].agent /\ b.ref = row[x].ref /\ b.token = row[x].token
    BY <1>1 DEF Row
  <2> HIDE DEF b
  <2> QED
    BY <2>1, MutateStep DEF b
<1>6. ASSUME NEW x \in Boxes, Status(g, x) PROVE FleetInv'
  BY <1>1, <1>6, MutateStep DEF Status
<1>7. CASE GuestPut(g)
  <2>1. /\ g \in Writers \ {Rec}
        /\ copy[g] \in Row /\ Sound(copy[g])
    BY FleetAssumption DEF Writers, FleetInv, TypeOK, CopiesSound
  <2>2. HubInv' /\ ReportersSeen' /\ SessOK'
    BY <1>7 DEF GuestPut, GuestUnchanged, FleetInv, TypeOK, hubVars, HubInv, HubTypeOK,
                SlotBacked, LiveOwnsSlot, BusyHasBox, ReportersSeen, SessOK, SessionsOnBoxes
  <2> QED
    BY <1>7, <2>1, <2>2, SideWrite DEF GuestPut, GuestUnchanged
<1> QED
  BY <1>2, <1>3, <1>4, <1>5, <1>6, <1>7 DEF Guest

(***************************************************************************)
(* The hub's steps.                                                        *)
(***************************************************************************)
\* A hub step that touches no row.
LEMMA HubOnly ==
    ASSUME FleetInv, HubNext, seen \subseteq seen', ReportersSeen',
           seen' \subseteq Boxes,
           UNCHANGED <<row, born, calls, inst, sess, rec, copy, drain, restarts>>
    PROVE  FleetInv'
<1>1. HubInv' /\ HubTypeOK'
  BY HubInvStep DEF FleetInv, HubInv
<1>2. asked' = asked
  BY DEF asked
<1>3. RowsSound' /\ DrainSound'
  BY <1>2, RowsGrow, DrainGrows
<1>4. CopiesSound'
  BY <1>2 DEF FleetInv, TypeOK, CopiesSound, Sound
<1>5. RecShape' /\ PersistentKept' /\ SessionsOnBoxes'
  BY <1>2 DEF FleetInv, RecShape, MustDestroy, PersistentKept, Exists, SessionsOnBoxes
<1>6. TypeOK'
  BY <1>1 DEF FleetInv, TypeOK
<1> QED
  BY <1>1, <1>3, <1>4, <1>5, <1>6 DEF FleetInv

\* The accept goroutines keep it: only a registered agent is reported.
LEMMA AgentStep == ASSUME FleetInv, NEW c \in Conns, AgentConn(c) PROVE FleetInv'
<1>0. /\ c \in Writers \ {Rec}
      /\ copy[c] \in Row /\ Sound(copy[c])
      /\ SessOK /\ HubInv /\ ReportersSeen
      /\ \A x \in Boxes : row[x] \in Row /\ Sound(row[x]) /\ (Exists(x) => row[x].id = x)
  BY FleetAssumption DEF Writers, FleetInv, TypeOK, CopiesSound, RowsSound, SessOK
<1>1. ASSUME NEW x \in Boxes, AgentDials(c, x) PROVE FleetInv'
  <2>1. HubNext
    BY <1>1 DEF AgentDials, HubNext
  <2>2. ReportersSeen'
    BY <1>0, <1>1 DEF AgentDials, Dial, ReportersSeen, HubInv, HubTypeOK
  <2> QED
    BY <1>1, <2>1, <2>2, HubOnly DEF AgentDials, ConnUnchanged, FleetInv, TypeOK
<1>2. CASE AgentRegisters(c)
  <2>1. HubNext
    BY <1>2 DEF AgentRegisters, HubNext
  <2>2. ReportersSeen'
    BY <1>0, <1>2 DEF AgentRegisters, Register, ReportersSeen, HubInv, HubTypeOK
  <2>3. conn[c].box \in Boxes
    BY <1>0, <1>2 DEF AgentRegisters, Register, HubInv, BusyHasBox
  <2> QED
    BY <1>2, <2>1, <2>2, <2>3, HubOnly DEF AgentRegisters, ConnUnchanged, FleetInv, TypeOK
<1>3. CASE HubStep(c)
  <2>1. HubNext
    BY <1>3 DEF HubStep, HubNext
  <2>2. ReportersSeen'
    BY <1>0, <1>3 DEF HubStep, Refuse, Unregister, UnregisterReplaced, IdleConn,
                      ReportersSeen, HubInv, HubTypeOK
  <2> QED
    BY <1>3, <2>1, <2>2, HubOnly DEF HubStep, ConnUnchanged, FleetInv, TypeOK
<1>4. CASE AgentDrops(c)
  <2>1. HubNext
    BY <1>4 DEF AgentDrops, HubNext
  <2>2. ReportersSeen'
    BY <1>0, <1>4 DEF AgentDrops, Drop, ReportersSeen, HubInv, HubTypeOK
  <2> QED
    BY <1>4, <2>1, <2>2, HubOnly DEF AgentDrops, ConnUnchanged, FleetInv, TypeOK
<1>5. CASE SinkGet(c)
  <2> PICK x \in Boxes : x = conn[c].box
    BY <1>0, <1>5 DEF SinkGet, HubInv, BusyHasBox
  <2> PICK b \in Row : b = [row[x] EXCEPT !.agent = (conn[c].pc = "telling")]
    BY <1>0 DEF Row
  <2>1. UNCHANGED <<row, born, calls, seen, inst, sess, rec, drain, restarts, hubVars>>
        /\ asked' = asked
    BY <1>5 DEF SinkGet, ConnUnchanged, asked
  <2>2. x \in seen
    BY <1>0, <1>5 DEF SinkGet, ReportersSeen
  <2>3. b.id = x /\ b.phase = row[x].phase /\ b.ref = row[x].ref /\ b.token = row[x].token
    BY <1>0, <1>5 DEF SinkGet, Row
  <2>4. Sound(b)' /\ SessOK'
    BY <1>0, <2>1, <2>2, <2>3 DEF Sound, SessOK, SessionsOnBoxes, hubVars
  <2>5. copy' = [copy EXCEPT ![c] = b]
    BY <1>5 DEF SinkGet, Read
  <2> QED
    BY <1>0, <2>1, <2>4, <2>5, SideRead DEF FleetInv, TypeOK
<1>6. CASE SinkGone(c)
  <2>1. HubNext
    BY <1>6 DEF SinkGone, HubNext
  <2>2. ReportersSeen'
    BY <1>0, <1>6 DEF SinkGone, ToldUp, ToldDown, IdleConn, ReportersSeen, HubInv, HubTypeOK
  <2> QED
    BY <1>6, <2>1, <2>2, HubOnly DEF SinkGone, ConnUnchanged, FleetInv, TypeOK
<1>7. CASE SinkPut(c)
  <2>1. HubNext
    BY <1>7 DEF SinkPut, HubNext
  <2>2. HubInv'
    BY <1>0, <2>1, HubInvStep
  <2>3. ReportersSeen'
    BY <1>0, <1>7 DEF SinkPut, ToldUp, ToldDown, IdleConn, ReportersSeen, HubInv, HubTypeOK
  <2>4. SessOK'
    BY <1>0, <1>7 DEF SinkPut, ConnUnchanged, SessOK, SessionsOnBoxes
  <2> QED
    BY <1>0, <1>7, <2>2, <2>3, <2>4, SideWrite DEF SinkPut, ConnUnchanged
<1> QED
  BY <1>1, <1>2, <1>3, <1>4, <1>5, <1>6, <1>7 DEF AgentConn
(***************************************************************************)
(* The reconciler's steps.                                                 *)
(***************************************************************************)
\* The reconciler writes a sound row, or nothing, and is done.
LEMMA RecFinishes ==
    ASSUME FleetInv, RecUnchanged, RecDone, inst' = inst,
           row' = row \/ \E a \in Row : Sound(a) /\ Update(a)
    PROVE  FleetInv'
BY NoBoxIsRow, RecActs DEF RecDone, Forget, RecPCs, FleetInv, TypeOK

\* ReconcileOne reads a row.
LEMMA ReconcileGetStep == ASSUME FleetInv, NEW x \in Boxes, ReconcileGet(x) PROVE FleetInv'
<1>1. row[x] \in Row /\ Sound(row[x]) /\ inst \in [Boxes -> Instance]
  BY DEF FleetInv, TypeOK, RowsSound
<1> QED
  BY <1>1, RecActs DEF ReconcileGet, Read, RecPCs

\* The copy of a reconciler that has work to do is a row of some box.
LEMMA RecCopy ==
    ASSUME FleetInv
    PROVE  /\ copy[Rec] \in Row /\ Sound(copy[Rec])
           /\ copy[Rec].phase # "none" => copy[Rec].id \in Boxes
           /\ PastLifetime => copy[Rec].phase = "Running"
           /\ inst \in [Boxes -> Instance]
BY DEF FleetInv, TypeOK, CopiesSound, RecShape, PastLifetime, Sound, Writers

\* Provisioning, successful or not.
LEMMA ProvisionStep == ASSUME FleetInv, Provision \/ ProvisionFails PROVE FleetInv'
<1> DEFINE b == copy[Rec]
           i == inst[b.id]
           t == TokenFor(b)
<1>0. b \in Row /\ Sound(b) /\ b.id \in Boxes /\ i \in Instance
  BY RecCopy DEF Provision, ProvisionFails, MustProvision
<1>1. t \in Nat /\ t # 0
  BY <1>0 DEF TokenFor, Row, Instance
<1>2. CASE Provision
  <2> DEFINE g == i.gen + 1
             a == [b EXCEPT !.phase = "Provisioning", !.token = t, !.agent = FALSE,
                            !.ref = RefOf(g)]
  <2>1. g \in Nat /\ RefOf(g) \in Nat /\ RefOf(g) # 0
    BY <1>0, FleetAssumption DEF Instance, RefOf
  <2>2. inst' \in [Boxes -> Instance]
    <3>1. [i EXCEPT !.st = "up", !.ref = RefOf(g), !.gen = g, !.token = t,
                   !.cmd = TRUE] \in Instance
      BY <1>0, <1>1, <2>1 DEF Instance
    <3> QED
      BY <1>0, <1>2, <3>1, RecCopy DEF Provision, Provisioned
  <2>3. a \in Row /\ Sound(a)
    <3>1. /\ a \in Row /\ a.id = b.id /\ a.phase = "Provisioning" /\ a.agent = FALSE
          /\ a.ref # 0 /\ a.token # 0 /\ b.phase # "none"
      BY <1>0, <1>1, <1>2, <2>1, RecCopy DEF Row, Phase, Provision, MustProvision
    <3> QED
      BY <1>0, <3>1 DEF Sound
  <2>4. copy' = [copy EXCEPT ![Rec] = a] /\ rec' = "save" /\ row' = row /\ RecUnchanged
    BY <1>2 DEF Provision
  <2> HIDE DEF a, b
  <2> QED
    BY <2>2, <2>3, <2>4, RecActs DEF RecPCs
<1>3. CASE ProvisionFails
  <2> DEFINE a == [b EXCEPT !.phase = "Failed", !.token = t]
  <2>1. inst' \in [Boxes -> Instance]
    <3>1. PICK j \in FailedProvision(i) :
              inst' = [inst EXCEPT ![b.id] =
                         [j EXCEPT !.gen = IF @ < MaxGen THEN @ + 1 ELSE @]]
      BY <1>3 DEF ProvisionFails
    <3>2. j \in Instance
      <4>1. i.gen + 1 \in Nat /\ RefOf(i.gen + 1) \in Nat
        BY <1>0 DEF Instance, RefOf
      <4>2. CASE j = i
        BY <1>0, <4>2
      <4>3. CASE j = [i EXCEPT !.snap = 0]
        BY <1>0, <4>3 DEF Instance
      <4>4. CASE \E st \in {"none", "stopped"} : j = [i EXCEPT !.st = st, !.ref = RefOf(i.gen + 1)]
        BY <1>0, <4>1, <4>4 DEF Instance
      <4> QED
        BY <4>2, <4>3, <4>4 DEF FailedProvision
    <3>3. [j EXCEPT !.gen = IF @ < MaxGen THEN @ + 1 ELSE @] \in Instance
      BY <3>2 DEF Instance
    <3> QED
      BY <1>0, <3>1, <3>3, RecCopy
  <2>2. a \in Row /\ Sound(a)
    <3>1. /\ a \in Row /\ a.id = b.id /\ a.phase = "Failed" /\ a.agent = b.agent
          /\ b.phase # "none"
      BY <1>0, <1>1, <1>3, RecCopy DEF Row, Phase, ProvisionFails, MustProvision
    <3> QED
      BY <1>0, <3>1 DEF Sound
  <2>3. copy' = [copy EXCEPT ![Rec] = a] /\ rec' = "save" /\ row' = row /\ RecUnchanged
    BY <1>3 DEF ProvisionFails
  <2> HIDE DEF a, b
  <2> QED
    BY <2>1, <2>2, <2>3, RecActs DEF RecPCs
<1> QED
  BY <1>2, <1>3
\* setPhase writes a row that is sound if the new phase is backed.
LEMMA SetPhaseSound ==
    ASSUME FleetInv, NEW b \in Row, Sound(b), b.phase # "none", NEW q \in Phase,
           q \in {"Running", "Suspended"} => b.id \in seen /\ b.ref # 0 /\ b.token # 0,
           q # "Provisioning",
           Persistent => q # "Destroying"
    PROVE  SetPhase(b, q) \in Row /\ Sound(SetPhase(b, q))
<1> PICK l : l = IF q = "Running" /\ b.lastActive = Unset THEN 0 ELSE b.lastActive
  OBVIOUS
<1>1. l \in Unset..IdleCap
  BY TimeAssumption DEF Row, Unset
<1>2. SetPhase(b, q) = [b EXCEPT !.phase = q, !.lastActive = l]
  BY DEF SetPhase, Row
<1>3. SetPhase(b, q) \in Row
  BY <1>1, <1>2 DEF Row
<1>4. /\ SetPhase(b, q).id = b.id /\ SetPhase(b, q).phase = q
      /\ SetPhase(b, q).agent = b.agent
      /\ SetPhase(b, q).ref = b.ref /\ SetPhase(b, q).token = b.token
  BY <1>2 DEF Row
<1> QED
  BY <1>3, <1>4 DEF Sound, Phase

\* The writes that decide on a lifetime or on a waiting agent.
LEMMA LifetimeStep ==
    ASSUME FleetInv, ReapExpired \/ StartCountdown \/ CancelCountdown \/ KeepLifetime
    PROVE  FleetInv'
<1> DEFINE b == copy[Rec]
<1>0. /\ b \in Row /\ Sound(b) /\ b.phase = "Running" /\ b.id \in seen
      /\ b.ref # 0 /\ b.token # 0 /\ Ephemeral
      /\ inst \in [Boxes -> Instance] /\ copy = [copy EXCEPT ![Rec] = b]
  BY RecCopy DEF ReapExpired, StartCountdown, CancelCountdown, KeepLifetime, InLifetime, Sound,
                 FleetInv, TypeOK, Writers
<1>1. CASE ReapExpired
  <2>1. SetPhase(b, "Destroying") \in Row /\ Sound(SetPhase(b, "Destroying"))
    BY <1>0, SetPhaseSound DEF Phase, Ephemeral
  <2> QED
    BY <1>1, <2>1, RecFinishes DEF ReapExpired, UpdatePhase
<1>2. CASE StartCountdown
  <2> DEFINE a == [b EXCEPT !.deadline = Grace]
  <2>1. Grace \in Unset..Grace
    BY TimeAssumption DEF Unset
  <2>2. a \in Row /\ Sound(a)
    BY <1>0, <2>1 DEF Row, Sound
  <2> HIDE DEF a
  <2> QED
    BY <1>2, <2>2, RecFinishes DEF StartCountdown, a
<1>3. CASE CancelCountdown
  <2> DEFINE a == [b EXCEPT !.deadline = Unset]
  <2>1. Unset \in Unset..Grace
    BY TimeAssumption DEF Unset
  <2>2. a \in Row /\ Sound(a) /\ a.phase = "Running"
    BY <1>0, <2>1 DEF Row, Sound
  <2>3. copy' = [copy EXCEPT ![Rec] = a]
    BY <1>3 DEF CancelCountdown, FleetInv, TypeOK
  <2>4. Update(a) /\ rec' = "running" /\ inst' = inst /\ RecUnchanged
    BY <1>3 DEF CancelCountdown
  <2> HIDE DEF a, b
  <2> QED
    BY <1>0, <2>2, <2>3, <2>4, RecActs DEF RecPCs
<1>4. CASE KeepLifetime
  <2>1. CASE RecDone
    BY <1>4, <2>1, RecFinishes DEF KeepLifetime
  <2>2. CASE rec' = "running" /\ UNCHANGED copy
    BY <1>0, <1>4, <2>2, RecActs DEF KeepLifetime, RecPCs
  <2> QED
    BY <1>4, <2>1, <2>2 DEF KeepLifetime
<1> QED
  BY <1>1, <1>2, <1>3, <1>4

\* The provider's calls leave well-formed instances.
LEMMA SuspendTypes ==
    ASSUME inst \in [Boxes -> Instance], NEW x \in Boxes, SuspendInstance(x)
    PROVE  inst' \in [Boxes -> Instance]
<1>1. [inst[x] EXCEPT !.st = "suspended", !.snap = inst[x].token] \in Instance
  BY DEF Instance
<1> QED
  BY <1>1 DEF SuspendInstance

\* So does a Suspend that failed half-way ...
LEMMA SuspendFailsTypes ==
    ASSUME inst \in [Boxes -> Instance], NEW b, b.id \in Boxes, SuspendFails(b)
    PROVE  inst' \in [Boxes -> Instance]
<1>1. [inst[b.id] EXCEPT !.st = "paused"] \in Instance
  BY DEF Instance
<1> QED
  BY <1>1 DEF SuspendFails

\* ... and Resume.
LEMMA ResumeTypes ==
    ASSUME inst \in [Boxes -> Instance], NEW x \in Boxes, ResumeInstance(x)
    PROVE  inst' \in [Boxes -> Instance]
<1>1. [inst[x] EXCEPT !.st = "up", !.token = inst[x].snap, !.cmd = TRUE] \in Instance
  BY DEF Instance
<1> QED
  BY <1>1 DEF ResumeInstance

\* Suspend and resume: both start from a phase only a seen agent reaches.
LEMMA SuspendStep == ASSUME FleetInv, SuspendIdle \/ ResumeAttached PROVE FleetInv'
<1> DEFINE b == copy[Rec]
<1>0. /\ b \in Row /\ Sound(b) /\ b.phase \in {"Running", "Suspended"}
      /\ b.id \in Boxes /\ b.id \in seen /\ b.ref # 0 /\ b.token # 0
      /\ inst \in [Boxes -> Instance] /\ inst[b.id] \in Instance
  BY RecCopy DEF SuspendIdle, ResumeAttached, Sound
<1>1. CASE SuspendIdle
  <2> PICK c \in Row : c = [b EXCEPT !.agent = FALSE]
    BY <1>0 DEF Row
  <2>1. Sound(c) /\ c.id = b.id /\ c.phase = b.phase /\ c.ref = b.ref /\ c.token = b.token
    BY <1>0 DEF Sound, Row
  <2>2. SetPhase(c, "Suspended") \in Row /\ Sound(SetPhase(c, "Suspended"))
    BY <1>0, <2>1, SetPhaseSound DEF Phase
  <2>3. inst' \in [Boxes -> Instance]
    BY <1>0, <1>1, SuspendTypes DEF SuspendIdle
  <2>4. /\ copy' = [copy EXCEPT ![Rec] = SetPhase(c, "Suspended")]
        /\ rec' = "save" /\ row' = row /\ RecUnchanged
    BY <1>1 DEF SuspendIdle
  <2> HIDE DEF b
  <2> QED
    BY <2>2, <2>3, <2>4, RecActs DEF RecPCs
<1>2. CASE ResumeAttached
  <2>1. SetPhase(b, "Running") \in Row /\ Sound(SetPhase(b, "Running"))
    BY <1>0, SetPhaseSound DEF Phase
  <2>2. inst' \in [Boxes -> Instance]
    BY <1>0, <1>2, ResumeTypes DEF ResumeAttached
  <2>3. /\ copy' = [copy EXCEPT ![Rec] = SetPhase(b, "Running")]
        /\ rec' = "save" /\ row' = row /\ RecUnchanged
    BY <1>2 DEF ResumeAttached
  <2> HIDE DEF b
  <2> QED
    BY <2>1, <2>2, <2>3, RecActs DEF RecPCs
<1> QED
  BY <1>1, <1>2

\* Tearing down and deleting: of a persistent box only what was asked for.
LEMMA DestroyStep ==
    ASSUME FleetInv, DestroyInstance \/ DeleteRow
    PROVE  FleetInv'
<1> DEFINE b == copy[Rec]
<1>0. /\ b \in Row /\ Sound(b) /\ MustDestroy(b) /\ b.phase \in Phase
      /\ b.id \in Boxes /\ b.id \in born
      /\ inst \in [Boxes -> Instance] /\ inst[b.id] \in Instance
      /\ copy = [copy EXCEPT ![Rec] = b]
  BY RecCopy DEF DestroyInstance, DeleteRow, MustDestroy, Sound, Phase, FleetInv, RecShape,
                 TypeOK, Writers
<1>1. CASE DestroyInstance
  <2>1. inst' \in [Boxes -> Instance]
    <3>1. [inst[b.id] EXCEPT !.st = "none", !.snap = 0, !.cmd = FALSE] \in Instance
      BY <1>0 DEF Instance
    <3> QED
      BY <1>0, <1>1, <3>1 DEF DestroyInstance
  <2> QED
    BY <1>0, <1>1, <2>1, RecActs DEF DestroyInstance, RecPCs
<1>2. CASE DeleteRow
  <2>1. /\ row' = [row EXCEPT ![b.id] = NoBox] /\ inst' = inst /\ rec' = "idle"
        /\ copy' = [copy EXCEPT ![Rec] = NoBox]
        /\ UNCHANGED <<born, calls, seen, sess, drain, restarts, hub, conn>>
        /\ asked' = asked
    BY <1>2 DEF DeleteRow, RecDone, Forget, RecUnchanged, hubVars, asked
  <2>2. row' \in [Boxes -> Row] /\ copy' \in [Writers -> Row]
    BY <2>1, NoBoxIsRow DEF FleetInv, TypeOK
  <2>3. RowsSound'
    <3> SUFFICES ASSUME NEW y \in Boxes
                 PROVE  (Sound(row[y]) /\ (Exists(y) => row[y].id = y))'
      BY DEF RowsSound
    <3>1. CASE y = b.id
      BY <2>1, <3>1, NoBoxIsRow DEF FleetInv, TypeOK, Sound, Exists, NoBox
    <3>2. CASE y # b.id
      BY <2>1, <3>2 DEF FleetInv, TypeOK, RowsSound, Sound, Exists
    <3> QED
      BY <3>1, <3>2
  <2>4. CopiesSound'
    <3>1. Sound(NoBox)'
      BY <2>1, NoBoxIsRow DEF Sound
    <3> QED
      BY <2>1, <3>1, NoBoxIsRow, ReadKeeps DEF Writers
  <2>5. PersistentKept'
    <3>1. Persistent => b.id \in asked
      BY <1>0 DEF MustDestroy, Ephemeral, Sound
    <3>2. \A y \in Boxes \ {b.id} : Exists(y)' <=> Exists(y)
      BY <2>1 DEF FleetInv, TypeOK, Exists
    <3> QED
      BY <2>1, <3>1, <3>2 DEF FleetInv, TypeOK, PersistentKept
  <2>6. DrainSound'
    BY <2>1, DrainGrows
  <2>7. HubInv' /\ HubTypeOK' /\ ReportersSeen' /\ SessionsOnBoxes' /\ RecShape'
    BY <2>1 DEF FleetInv, HubInv, HubTypeOK, SlotBacked, LiveOwnsSlot, BusyHasBox,
                ReportersSeen, SessionsOnBoxes, RecShape
  <2>8. TypeOK'
    BY <2>1, <2>2, <2>7 DEF FleetInv, TypeOK, RecPCs
  <2> QED
    BY <2>3, <2>4, <2>5, <2>6, <2>7, <2>8 DEF FleetInv
<1> QED
  BY <1>1, <1>2

\* Every step of the reconcile goroutine.
LEMMA ReconcilerStep == ASSUME FleetInv, ReconcileStep PROVE FleetInv'
<1>0. copy[Rec] \in Row /\ Sound(copy[Rec])
  BY RecCopy
<1>1. CASE Save
  BY <1>0, <1>1, RecFinishes DEF Save
<1>2. CASE AgentArrived
  <2>1. SetPhase(copy[Rec], "Running") \in Row /\ Sound(SetPhase(copy[Rec], "Running"))
    BY <1>0, <1>2, SetPhaseSound DEF AgentArrived, Sound, Phase
  <2> QED
    BY <1>2, <2>1, RecFinishes DEF AgentArrived, UpdatePhase
<1>3. CASE CheckAlive
  <2> PICK a : a = [copy[Rec] EXCEPT !.phase = "Failed"]
    OBVIOUS
  <2>1. a \in Row /\ a.id = copy[Rec].id /\ a.phase = "Failed" /\ a.agent = copy[Rec].agent
    BY <1>0 DEF Row, Phase
  <2>2. Sound(a)
    BY <1>0, <1>3, <2>1 DEF CheckAlive, Sound
  <2> QED
    BY <1>3, <2>1, <2>2, RecFinishes DEF CheckAlive
<1>4. CASE Steady \/ StatusErrors \/ ResumeErrors \/ Rest \/ DestroyErrors
  BY <1>4, RecFinishes
     DEF Steady, StatusErrors, ResumeErrors, Rest, DestroyErrors
<1>5. CASE SuspendErrors
  <2>1. copy[Rec].phase = "Running"
    BY <1>5, RecCopy DEF SuspendErrors, PastLifetime, FleetInv, RecShape
  <2>2. copy[Rec].id \in Boxes /\ inst \in [Boxes -> Instance]
    BY <1>0, <2>1 DEF Sound, FleetInv, TypeOK
  <2>3. inst' \in [Boxes -> Instance]
    BY <1>5, <2>2, SuspendFailsTypes DEF SuspendErrors
  <2> QED
    BY <1>5, <2>3, NoBoxIsRow, RecActs DEF SuspendErrors, RecDone, Forget, RecPCs
<1> QED
  BY <1>1, <1>2, <1>3, <1>4, <1>5, ProvisionStep, LifetimeStep, SuspendStep, DestroyStep
     DEF ReconcileStep
(***************************************************************************)
(* The environment, Drain and restarts.                                    *)
(***************************************************************************)
\* An instance dies: no row changes.
LEMMA InstanceDiesStep == ASSUME FleetInv, NEW x \in Boxes, InstanceDies(x) PROVE FleetInv'
<1>1. inst' \in [Boxes -> Instance]
  <2>1. PICK s \in {"dead", "stopped"} : inst' = [inst EXCEPT ![x].st = s]
    BY DEF InstanceDies
  <2>2. inst \in [Boxes -> Instance] /\ [inst[x] EXCEPT !.st = s] \in Instance
    BY DEF FleetInv, TypeOK, Instance
  <2> QED
    BY <2>1, <2>2
<1>2. /\ copy[Rec] \in Row /\ Sound(copy[Rec]) /\ copy = [copy EXCEPT ![Rec] = copy[Rec]]
      /\ rec \in RecPCs /\ RecShape
  BY RecCopy DEF FleetInv, TypeOK
<1> QED
  BY <1>1, <1>2, RecActs DEF InstanceDies, RecUnchanged, RecShape

\* Time passes for the store, for every copy and for the listed rows.
LEMMA TickStep == ASSUME FleetInv, Tick PROVE FleetInv'
<1>0. UNCHANGED <<born, calls, seen, inst, sess, rec, restarts, hub, conn>> /\ asked' = asked
  BY DEF Tick, hubVars, asked
<1>1. ASSUME NEW b \in Row, Sound(b)
      PROVE  /\ Age(b) \in Row /\ Sound(Age(b))'
             /\ Age(b).id = b.id /\ Age(b).phase = b.phase
  <2> PICK a \in Row : a = Age(b)
    BY AgeIsRow
  <2>1. a.id = b.id /\ a.phase = b.phase
    BY AgeIsRow
  <2>2. Sound(a)
    BY <1>1, AgeIsRow, SoundFields
  <2> QED
    BY <1>0, <2>1, <2>2 DEF Sound
<1>2. row' \in [Boxes -> Row] /\ RowsSound' /\ PersistentKept'
  <2>1. ASSUME NEW x \in Boxes
        PROVE  row[x] \in Row /\ Sound(row[x]) /\ row'[x] = Age(row[x])
    BY DEF Tick, FleetInv, TypeOK, RowsSound
  <2>2. ASSUME NEW x \in Boxes
        PROVE  /\ row'[x] \in Row /\ Sound(row[x])'
               /\ row'[x].id = row[x].id /\ row'[x].phase = row[x].phase
    <3> PICK b \in Row : b = row[x] /\ Sound(b)
      BY <2>1
    <3> PICK a \in Row : a = Age(b) /\ Sound(a)'
      BY <1>1
    <3> QED
      BY <1>1, <2>1
  <2>3. row' \in [Boxes -> Row]
    BY <2>2 DEF Tick
  <2> QED
    BY <1>0, <2>2, <2>3 DEF FleetInv, TypeOK, RowsSound, PersistentKept, Exists
<1>3. /\ copy' \in [Writers -> Row] /\ CopiesSound'
      /\ copy'[Rec].phase = copy[Rec].phase
  <2>1. ASSUME NEW w \in Writers
        PROVE  copy[w] \in Row /\ Sound(copy[w]) /\ copy'[w] = Age(copy[w])
    BY DEF Tick, FleetInv, TypeOK, CopiesSound
  <2>2. ASSUME NEW w \in Writers
        PROVE  copy'[w] \in Row /\ Sound(copy[w])' /\ copy'[w].phase = copy[w].phase
    <3> PICK b \in Row : b = copy[w] /\ Sound(b)
      BY <2>1
    <3> PICK a \in Row : a = Age(b) /\ Sound(a)'
      BY <1>1
    <3> QED
      BY <1>1, <2>1
  <2>3. copy' \in [Writers -> Row]
    BY <2>2 DEF Tick
  <2> QED
    BY <2>2, <2>3 DEF CopiesSound, Writers
<1>4. drain' \in [on: BOOLEAN, todo: SUBSET Row] /\ DrainSound'
  <2>1. /\ drain \in [on: BOOLEAN, todo: SUBSET Row]
        /\ drain' = [drain EXCEPT !.todo = {Age(b) : b \in @}]
        /\ \A b \in drain.todo : b \in Row /\ Sound(b) /\ b.phase = "Running"
    BY DEF Tick, FleetInv, TypeOK, DrainSound
  <2>2. drain'.todo = {Age(b) : b \in drain.todo} /\ drain'.on = drain.on
    BY <2>1
  <2>3. ASSUME NEW a \in drain'.todo PROVE a \in Row /\ Sound(a)' /\ a.phase = "Running"
    <3> PICK b \in drain.todo : a = Age(b)
      BY <2>2
    <3> QED
      BY <1>1, <2>1
  <2>4. drain' \in [on: BOOLEAN, todo: SUBSET Row]
    BY <2>1, <2>2, <2>3
  <2> QED
    BY <2>3, <2>4 DEF DrainSound
<1>5. HubInv' /\ HubTypeOK' /\ ReportersSeen' /\ SessionsOnBoxes' /\ RecShape'
  BY <1>0, <1>3 DEF FleetInv, HubInv, HubTypeOK, SlotBacked, LiveOwnsSlot, BusyHasBox,
              ReportersSeen, SessionsOnBoxes, RecShape, MustDestroy
<1>6. TypeOK'
  BY <1>0, <1>2, <1>3, <1>4, <1>5 DEF FleetInv, TypeOK
<1> QED
  BY <1>2, <1>3, <1>4, <1>5, <1>6 DEF FleetInv

\* Drain lists, suspends and writes.
LEMMA DrainStep == ASSUME FleetInv, Drain PROVE FleetInv'
<1>1. CASE DrainList
  <2>1. /\ UNCHANGED <<row, born, calls, seen, inst, sess, restarts, hub, conn>>
        /\ asked' = asked /\ rec' = "idle" /\ copy' = [copy EXCEPT ![Rec] = NoBox]
    BY <1>1 DEF DrainList, RecDone, Forget, hubVars, asked
  <2>2. copy' \in [Writers -> Row] /\ CopiesSound'
    <3>1. Sound(NoBox)' /\ Rec \in Writers
      BY <2>1, NoBoxIsRow DEF Sound, Writers
    <3> QED
      BY <2>1, <3>1, NoBoxIsRow, ReadKeeps
  <2>3. drain' \in [on: BOOLEAN, todo: SUBSET Row] /\ DrainSound'
    <3>1. ASSUME NEW b \in drain'.todo PROVE b \in Row /\ Sound(b)' /\ b.phase = "Running"
      <4> PICK x \in Boxes : row[x].phase = "Running" /\ b = row[x]
        BY <1>1 DEF DrainList
      <4>1. row[x] \in Row /\ Sound(row[x])
        BY DEF FleetInv, TypeOK, RowsSound
      <4> QED
        BY <2>1, <4>1 DEF Sound
    <3>2. PICK T : drain' = [on |-> TRUE, todo |-> T]
      BY <1>1 DEF DrainList
    <3>3. drain' \in [on: BOOLEAN, todo: SUBSET Row]
      <4>1. T = drain'.todo
        BY <3>2
      <4>2. T \in SUBSET Row
        BY <3>1, <4>1
      <4> QED
        BY <3>2, <4>2
    <3> QED
      BY <3>1, <3>3 DEF DrainSound
  <2>4. RowsSound' /\ PersistentKept'
    BY <2>1, RowsGrow DEF FleetInv, PersistentKept, Exists
  <2>5. HubInv' /\ HubTypeOK' /\ ReportersSeen' /\ SessionsOnBoxes' /\ RecShape'
    BY <2>1 DEF FleetInv, HubInv, HubTypeOK, SlotBacked, LiveOwnsSlot, BusyHasBox,
                ReportersSeen, SessionsOnBoxes, RecShape
  <2>6. TypeOK'
    BY <2>1, <2>2, <2>3, <2>5 DEF FleetInv, TypeOK, RecPCs
  <2> QED
    BY <2>2, <2>3, <2>4, <2>5, <2>6 DEF FleetInv
<1>2. ASSUME NEW b \in drain.todo, DrainSuspend(b) PROVE FleetInv'
  <2>1. /\ b \in Row /\ Sound(b) /\ b.phase = "Running" /\ b.id \in Boxes
        /\ b.id \in seen /\ b.ref # 0 /\ b.token # 0
        /\ inst \in [Boxes -> Instance] /\ inst[b.id] \in Instance
    BY DEF FleetInv, TypeOK, DrainSound, Sound
  <2>2. /\ UNCHANGED <<row, born, calls, seen, sess, rec, restarts, hub, conn>>
        /\ asked' = asked /\ drain' = [drain EXCEPT !.todo = @ \ {b}]
    BY <1>2 DEF DrainSuspend, hubVars, asked
  <2> PICK c \in Row : c = [b EXCEPT !.agent = FALSE]
    BY <2>1 DEF Row
  <2>3. Sound(c) /\ c.id = b.id /\ c.phase = b.phase /\ c.ref = b.ref /\ c.token = b.token
    BY <2>1 DEF Sound, Row
  <2> PICK a : a = SetPhase(c, "Suspended")
    OBVIOUS
  <2>4. a \in Row /\ Sound(a)
    BY <2>1, <2>3, SetPhaseSound DEF Phase
  <2>5. inst' \in [Boxes -> Instance]
    BY <1>2, <2>1, SuspendTypes, SuspendFailsTypes DEF DrainSuspend
  <2>6. /\ Drainer \in Writers /\ Drainer # Rec /\ Rec \in Writers
        /\ copy' = copy \/ copy' = [copy EXCEPT ![Drainer] = a]
    BY <1>2 DEF DrainSuspend, Writers, Drainer, Rec
  <2>7. copy' \in [Writers -> Row] /\ CopiesSound'
    <3>1. CASE copy' = copy
      BY <2>2, <3>1 DEF FleetInv, TypeOK, CopiesSound, Sound
    <3>2. CASE copy' = [copy EXCEPT ![Drainer] = a]
      <4>1. Sound(a)'
        BY <2>2, <2>4 DEF Sound
      <4> QED
        BY <2>2, <2>4, <2>6, <3>2, <4>1, ReadKeeps
    <3> QED
      BY <2>6, <3>1, <3>2
  <2>8. drain' \in [on: BOOLEAN, todo: SUBSET Row] /\ DrainSound'
    BY <2>2 DEF FleetInv, TypeOK, DrainSound, Sound
  <2>9. RowsSound' /\ PersistentKept'
    BY <2>2, RowsGrow DEF FleetInv, PersistentKept, Exists
  <2>10. copy'[Rec] = copy[Rec]
    BY <2>6 DEF FleetInv, TypeOK
  <2>11. HubInv' /\ HubTypeOK' /\ ReportersSeen' /\ SessionsOnBoxes' /\ RecShape'
    BY <2>2, <2>10 DEF FleetInv, HubInv, HubTypeOK, SlotBacked, LiveOwnsSlot, BusyHasBox,
                ReportersSeen, SessionsOnBoxes, RecShape, MustDestroy
  <2>12. TypeOK'
    BY <2>2, <2>5, <2>7, <2>8, <2>11 DEF FleetInv, TypeOK
  <2> QED
    BY <2>7, <2>8, <2>9, <2>11, <2>12 DEF FleetInv
<1>3. CASE DrainSave
  <2>1. /\ Drainer \in Writers \ {Rec}
        /\ copy[Drainer] \in Row /\ Sound(copy[Drainer])
    BY DEF Writers, Drainer, Rec, FleetInv, TypeOK, CopiesSound
  <2>2. HubInv' /\ ReportersSeen' /\ SessOK'
    BY <1>3 DEF DrainSave, FleetInv, TypeOK, hubVars, HubInv, HubTypeOK, SlotBacked,
                LiveOwnsSlot, BusyHasBox, ReportersSeen, SessOK, SessionsOnBoxes
  <2> QED
    BY <1>3, <2>1, <2>2, SideWrite DEF DrainSave
<1> QED
  BY <1>1, <1>2, <1>3 DEF Drain

\* A start of the daemon drops every copy and keeps the rows.
LEMMA RestartStep == ASSUME FleetInv, Restart \/ DestroyPanics PROVE FleetInv'
<1>a. StartAgain /\ restarts' \in Nat
  <2>1. StartAgain /\ restarts' \in {restarts, restarts + 1}
    BY DEF Restart, DestroyPanics
  <2>2. restarts \in Nat
    BY DEF FleetInv, TypeOK
  <2> QED
    BY <2>1, <2>2
<1> USE DEF StartAgain
<1>0. UNCHANGED <<born, calls, seen>> /\ asked' = asked
  BY <1>a DEF asked
<1>1. row' \in [Boxes -> Row] /\ RowsSound' /\ PersistentKept'
  <2>1. ASSUME NEW x \in Boxes
        PROVE  /\ row[x] \in Row /\ Sound(row[x])
               /\ row'[x] \in {row[x], [row[x] EXCEPT !.attached = FALSE]}
    BY <1>a DEF FleetInv, TypeOK, RowsSound
  <2>2. ASSUME NEW x \in Boxes
        PROVE  /\ row'[x] \in Row
               /\ row'[x].id = row[x].id /\ row'[x].phase = row[x].phase
               /\ row'[x].agent = row[x].agent /\ row'[x].ref = row[x].ref
               /\ row'[x].token = row[x].token
    <3> PICK r \in Row : r = row[x]
      BY <2>1
    <3> PICK q \in Row : q = [r EXCEPT !.attached = FALSE]
      BY DEF Row
    <3>1. q.id = r.id /\ q.phase = r.phase /\ q.agent = r.agent /\ q.ref = r.ref
          /\ q.token = r.token
      BY DEF Row
    <3>2. row'[x] = r \/ row'[x] = q
      BY <2>1
    <3> QED
      BY <3>1, <3>2
  <2>3. row' \in [Boxes -> Row]
    BY <1>a, <2>2
  <2>4. \A x \in Boxes : Sound(row[x])'
    BY <1>0, <2>1, <2>2 DEF Sound
  <2> QED
    BY <1>0, <2>2, <2>3, <2>4 DEF FleetInv, TypeOK, RowsSound, PersistentKept, Exists
<1>2. inst' \in [Boxes -> Instance]
  <2> PICK back \in [Boxes -> BOOLEAN] : inst' = [x \in Boxes |-> AfterRestart(inst[x], back[x])]
    BY <1>a
  <2>1. ASSUME NEW i \in Instance, NEW r \in BOOLEAN PROVE AfterRestart(i, r) \in Instance
    BY DEF AfterRestart, Instance
  <2> QED
    BY <2>1 DEF FleetInv, TypeOK
<1>3. SessOK'
  <2>1. ASSUME NEW s \in Sessions
        PROVE  sess'[s] = [sess[s] EXCEPT !.pc = IF @ = "new" THEN @ ELSE "closed"]
    BY <1>a
  <2>2. sess' \in [Sessions -> [pc: SessPCs, id: Boxes \cup {None}]]
    <3>1. ASSUME NEW r \in [pc: SessPCs, id: Boxes \cup {None}]
          PROVE  [r EXCEPT !.pc = IF @ = "new" THEN @ ELSE "closed"] \in [pc: SessPCs, id: Boxes \cup {None}]
      BY DEF SessPCs
    <3>2. sess \in [Sessions -> [pc: SessPCs, id: Boxes \cup {None}]]
      BY DEF FleetInv, TypeOK
    <3> QED
      BY <1>a, <3>1, <3>2
  <2>3. ASSUME NEW s \in Sessions PROVE sess'[s].pc \in {"new", "closed"}
    BY <2>1 DEF FleetInv, TypeOK
  <2> QED
    BY <2>2, <2>3 DEF SessOK, SessionsOnBoxes
<1>4. copy' \in [Writers -> Row] /\ CopiesSound'
  BY <1>a, <1>0, NoBoxIsRow DEF CopiesSound, Sound
<1>5. drain' \in [on: BOOLEAN, todo: SUBSET Row] /\ DrainSound'
  BY <1>a DEF DrainSound
<1>6. HubInv' /\ HubTypeOK'
  BY <1>a, HubInvStep DEF HubNext, FleetInv, HubInv
<1>7. ReportersSeen' /\ RecShape'
  BY <1>a DEF HubRestart, IdleConn, ReportersSeen, RecShape
<1>8. TypeOK' /\ SessionsOnBoxes'
  BY <1>a, <1>0, <1>1, <1>2, <1>3, <1>4, <1>5, <1>6 DEF FleetInv, TypeOK, RecPCs, SessOK
<1> QED
  BY <1>1, <1>4, <1>5, <1>6, <1>7, <1>8 DEF FleetInv

(***************************************************************************)
(* The invariant, and what follows from it.                                *)
(***************************************************************************)
\* The invariant holds initially ...
LEMMA FleetInvInit == Init => FleetInv
<1> SUFFICES ASSUME Init PROVE FleetInv
  OBVIOUS
<1>1. HubInv /\ HubTypeOK
  BY HubInvInit DEF Init, HubInv
<1>2. TypeOK
  BY <1>1, NoBoxIsRow DEF Init, TypeOK, NoInstance, Instance, SessPCs, RecPCs
<1>3. RowsSound /\ CopiesSound /\ DrainSound
  BY NoBoxIsRow DEF Init, RowsSound, CopiesSound, DrainSound, Exists, NoBox
<1>4. ReportersSeen /\ SessionsOnBoxes /\ RecShape /\ PersistentKept
  BY DEF Init, HubInit, IdleConn, ReportersSeen, SessionsOnBoxes, RecShape, PersistentKept
<1> QED
  BY <1>1, <1>2, <1>3, <1>4 DEF FleetInv

\* ... and every step keeps it.
LEMMA FleetInvStep == FleetInv /\ [Next]_vars => FleetInv'
<1> SUFFICES ASSUME FleetInv, [Next]_vars PROVE FleetInv'
  OBVIOUS
<1>1. CASE UNCHANGED vars
  <2>1. /\ UNCHANGED <<row, born, calls, seen, inst, sess, rec, copy, drain, restarts, hub, conn>>
        /\ asked' = asked
    BY <1>1 DEF vars, fleetVars, hubVars, asked
  <2>2. /\ copy[Rec] \in Row /\ Sound(copy[Rec]) /\ copy = [copy EXCEPT ![Rec] = copy[Rec]]
        /\ rec \in RecPCs /\ RecShape /\ inst \in [Boxes -> Instance]
    BY RecCopy DEF FleetInv, TypeOK
  <2> QED
    BY <2>1, <2>2, RecActs DEF RecUnchanged, hubVars, RecShape
<1> QED
  BY <1>1, SessionStep, ReconcileGetStep, InstanceDiesStep, ReconcilerStep, AgentStep, GuestStep,
     OperatorStep, TickStep, DrainStep, RestartStep
     DEF Next

\* Every row in the store, and every copy of a row that some goroutine still
\* holds, is one the store may safely contain: no stale Update can do harm.
THEOREM FleetInvariant == Spec => []FleetInv
BY FleetInvInit, FleetInvStep, PTL DEF Spec

\* Type correctness of the fleet.
THEOREM FleetTypeOK == Spec => []TypeOK
<1>1. FleetInv => TypeOK
  BY DEF FleetInv
<1> QED
  BY <1>1, FleetInvariant, PTL

\* No box is shown Running or Suspended before its agent has registered,
\* whatever stale rows the writers put back.
THEOREM FleetRunningMeansAgentSeen == Spec => []RunningMeansAgentSeen
<1>1. FleetInv => RunningMeansAgentSeen
  BY DEF FleetInv, RowsSound, Exists, Sound, RunningMeansAgentSeen
<1> QED
  BY <1>1, FleetInvariant, PTL

\* A box past Pending always has an instance ref and a token in its row.
THEOREM FleetReadyHasHandle == Spec => []ReadyHasHandle
<1>1. FleetInv => ReadyHasHandle
  BY DEF FleetInv, RowsSound, Sound, ReadyHasHandle
<1> QED
  BY <1>1, FleetInvariant, PTL

\* A persistent box leaves the store only if its destruction was asked for.
THEOREM FleetPersistentKept == Spec => []PersistentKept
<1>1. FleetInv => PersistentKept
  BY DEF FleetInv
<1> QED
  BY <1>1, FleetInvariant, PTL

(***************************************************************************)
(* Deleted rows.                                                           *)
(***************************************************************************)
\* A box id that has no row has none after the step either.
StaysGone == \A x \in born : ~Exists(x) => ~Exists(x)'

\* Update writes no row that is not there.
LEMMA UpdateRevivesNothing ==
    ASSUME TypeOK, NEW b, Update(b)
    PROVE  StaysGone
<1> SUFFICES ASSUME NEW x \in born, ~Exists(x) PROVE ~Exists(x)'
  BY DEF StaysGone
<1>1. x \in Boxes /\ row \in [Boxes -> Row]
  BY DEF TypeOK
<1>2. row'[x] = row[x]
  BY <1>1 DEF Update, Exists
<1> QED
  BY <1>2 DEF Exists

\* A step that leaves the store alone revives nothing.
LEMMA SameRowsReviveNothing == ASSUME row' = row PROVE StaysGone
BY DEF StaysGone, Exists

\* A session creates only a row whose id is new.
LEMMA SessionRevivesNothing ==
    ASSUME TypeOK, NEW s \in Sessions, Session(s) PROVE StaysGone
<1>1. CASE AttachLookup(s) \/ Detach(s)
  BY <1>1, SameRowsReviveNothing DEF AttachLookup, Detach
<1>2. CASE AttachCreate(s)
  <2>1. CASE row' = row
    BY <2>1, SameRowsReviveNothing
  <2>2. ASSUME NEW y \in Boxes \ born, row' = [row EXCEPT ![y] = NewBox(y)] PROVE StaysGone
    BY <2>2 DEF StaysGone, Exists, TypeOK
  <2> QED
    BY <1>2, <2>1, <2>2 DEF AttachCreate
<1>3. CASE AttachReuse(s) \/ Release(s)
  BY <1>3, UpdateRevivesNothing DEF AttachReuse, Release
<1> QED
  BY <1>1, <1>2, <1>3 DEF Session

\* Neither do the reconciler's steps, whose only other write is the deletion.
LEMMA ReconcilerRevivesNothing == ASSUME TypeOK, ReconcileStep PROVE StaysGone
<1>1. CASE row' = row
  BY <1>1, SameRowsReviveNothing
<1>2. ASSUME NEW b, Update(b) PROVE StaysGone
  BY <1>2, UpdateRevivesNothing
<1>3. CASE DeleteRow
  <2>1. row' = [row EXCEPT ![copy[Rec].id] = NoBox]
    BY <1>3 DEF DeleteRow
  <2> QED
    BY <2>1 DEF StaysGone, Exists, TypeOK, NoBox
<1>4. Save \/ AgentArrived \/ CheckAlive \/ ReapExpired => row' = row \/ \E b : Update(b)
  BY DEF Save, AgentArrived, CheckAlive, ReapExpired, UpdatePhase
<1>5. StartCountdown \/ CancelCountdown => \E b : Update(b)
  BY DEF StartCountdown, CancelCountdown
<1>6. Provision \/ ProvisionFails \/ KeepLifetime \/ SuspendIdle \/ SuspendErrors \/ Steady
        \/ StatusErrors \/ ResumeAttached \/ ResumeErrors \/ Rest
        \/ DestroyInstance \/ DestroyErrors
      => row' = row
  BY DEF Provision, ProvisionFails, KeepLifetime, SuspendIdle, SuspendErrors, Steady,
         StatusErrors, ResumeAttached, ResumeErrors, Rest, DestroyInstance, DestroyErrors
<1> QED
  BY <1>1, <1>2, <1>3, <1>4, <1>5, <1>6 DEF ReconcileStep

\* Nor do the agents' connections and the guests' requests.
LEMMA AgentRevivesNothing ==
    ASSUME TypeOK, NEW c \in Conns, AgentConn(c) PROVE StaysGone
<1>1. CASE SinkPut(c)
  BY <1>1, UpdateRevivesNothing DEF SinkPut
<1>2. CASE ~SinkPut(c)
  <2>1. row' = row
    BY <1>2 DEF AgentConn, AgentDials, AgentRegisters, HubStep, AgentDrops, SinkGet, SinkGone
  <2> QED
    BY <2>1, SameRowsReviveNothing
<1> QED
  BY <1>1, <1>2

\* The guests write only with Update.
LEMMA GuestRevivesNothing ==
    ASSUME TypeOK, NEW g \in Guests, Guest(g) PROVE StaysGone
<1>1. CASE GuestPut(g)
  BY <1>1, UpdateRevivesNothing DEF GuestPut
<1>2. CASE ~GuestPut(g)
  <2>1. row' = row
    BY <1>2 DEF Guest, Heartbeat, KeepAlive, AutoSuspend, Idle, Status, Mutate
  <2> QED
    BY <2>1, SameRowsReviveNothing
<1> QED
  BY <1>1, <1>2

\* Every step of the fleet leaves deleted boxes deleted.
LEMMA NothingRevived == TypeOK /\ [Next]_vars => StaysGone
<1> SUFFICES ASSUME TypeOK, [Next]_vars PROVE StaysGone
  OBVIOUS
<1>1. CASE UNCHANGED vars
  BY <1>1, SameRowsReviveNothing DEF vars, fleetVars
<1>2. ASSUME NEW x \in Boxes, ReconcileGet(x) \/ InstanceDies(x) PROVE StaysGone
  BY <1>2, SameRowsReviveNothing DEF ReconcileGet, InstanceDies
<1>3. ASSUME NEW o \in Operators, Operator(o) PROVE StaysGone
  <2>1. CASE DestroyPut(o)
    BY <2>1, UpdateRevivesNothing DEF DestroyPut
  <2>2. CASE ~DestroyPut(o)
    BY <1>3, <2>2, SameRowsReviveNothing DEF Operator, DestroyGet
  <2> QED
    BY <2>1, <2>2
<1>4. CASE Tick
  <2>1. ASSUME NEW x \in born PROVE row'[x].phase = row[x].phase
    <3>1. row[x] \in Row /\ row'[x] = Age(row[x])
      BY <1>4 DEF Tick, TypeOK
    <3> PICK b \in Row : b = row[x]
      BY <3>1
    <3> QED
      BY <3>1, AgeIsRow
  <2> QED
    BY <2>1 DEF StaysGone, Exists
<1>5. CASE Drain
  <2>1. CASE DrainSave
    BY <2>1, UpdateRevivesNothing DEF DrainSave
  <2>2. CASE ~DrainSave
    BY <1>5, <2>2, SameRowsReviveNothing DEF Drain, DrainList, DrainSuspend
  <2> QED
    BY <2>1, <2>2
<1>6. CASE Restart \/ DestroyPanics
  <2>1. ASSUME NEW x \in born PROVE row'[x].phase = row[x].phase
    <3>1. /\ row[x] \in Row
          /\ row'[x] = IF Boxd THEN [row[x] EXCEPT !.attached = FALSE] ELSE row[x]
      BY <1>6 DEF Restart, DestroyPanics, StartAgain, TypeOK
    <3> PICK b \in Row : b = row[x]
      BY <3>1
    <3>2. [b EXCEPT !.attached = FALSE].phase = b.phase
      BY DEF Row
    <3> QED
      BY <3>1, <3>2
  <2> QED
    BY <2>1 DEF StaysGone, Exists
<1> QED
  BY <1>1, <1>2, <1>3, <1>4, <1>5, <1>6, SessionRevivesNothing, ReconcilerRevivesNothing,
     AgentRevivesNothing, GuestRevivesNothing DEF Next

\* A row that was deleted never comes back, however many writers still hold a
\* copy of it and whenever they write it.
THEOREM FleetNoResurrection == Spec => NoResurrection
<1>1. TypeOK /\ [Next]_vars => [\A x \in born : ~Exists(x) => ~Exists(x)']_vars
  BY NothingRevived DEF StaysGone
<1> QED
  BY <1>1, FleetTypeOK, PTL DEF Spec, NoResurrection

(***************************************************************************)
(* The fleet and the hub.                                                  *)
(***************************************************************************)
\* Every step of the fleet is a step of the hub or leaves it alone.
LEMMA FleetStepIsHubStep == [Next]_vars => [HubNext]_hubVars
<1> SUFFICES ASSUME [Next]_vars PROVE [HubNext]_hubVars
  OBVIOUS
<1>1. CASE UNCHANGED vars
  BY <1>1 DEF vars
<1>2. ASSUME NEW s \in Sessions, Session(s) PROVE UNCHANGED hubVars
  BY <1>2 DEF Session, AttachLookup, AttachCreate, AttachReuse, Detach, Release
<1>3. ASSUME NEW x \in Boxes, ReconcileGet(x) \/ InstanceDies(x) PROVE UNCHANGED hubVars
  BY <1>3 DEF ReconcileGet, InstanceDies, RecUnchanged
<1>4. CASE ReconcileStep
  BY <1>4 DEF ReconcileStep, RecUnchanged, Provision, ProvisionFails, Save, AgentArrived,
     CheckAlive, ReapExpired, StartCountdown, CancelCountdown, KeepLifetime, SuspendIdle,
     SuspendErrors, Steady, StatusErrors, ResumeAttached, ResumeErrors, Rest,
     DestroyInstance, DestroyErrors, DeleteRow
<1>5. ASSUME NEW c \in Conns, AgentConn(c) PROVE HubNext \/ UNCHANGED hubVars
  BY <1>5 DEF AgentConn, AgentDials, AgentRegisters, HubStep, AgentDrops, SinkGet, SinkGone,
              SinkPut, HubNext
<1>6. ASSUME NEW g \in Guests, Guest(g) PROVE UNCHANGED hubVars
  BY <1>6 DEF Guest, Heartbeat, KeepAlive, AutoSuspend, Idle, Status, Mutate, GuestPut,
              GuestUnchanged
<1>7. ASSUME NEW o \in Operators, Operator(o) PROVE UNCHANGED hubVars
  BY <1>7 DEF Operator, DestroyGet, DestroyPut
<1>8. CASE Tick \/ Drain
  BY <1>8 DEF Tick, Drain, DrainList, DrainSuspend, DrainSave
<1>9. CASE Restart \/ DestroyPanics
  BY <1>9 DEF Restart, DestroyPanics, StartAgain, HubNext
<1> QED
  BY <1>1, <1>2, <1>3, <1>4, <1>5, <1>6, <1>7, <1>8, <1>9 DEF Next

\* At most one live agent serves a box in the whole daemon: what HubOneLiveAgent shows
\* of the hub survives instances that die, dropped links, reports and restarts, since
\* the fleet changes the hub by the hub's own operations.
THEOREM FleetOneLiveAgent == Spec => []OneLiveAgent
<1>1. Init => HubInit
  BY DEF Init
<1>2. Spec => HubSpec
  BY <1>1, FleetStepIsHubStep, PTL DEF Spec, HubSpec
<1> QED
  BY <1>2, HubOneLiveAgent

(***************************************************************************)
(* The fleet and its microVMs.  Whichever goroutine acts on an instance,   *)
(* it changes one, in one of the ways below, or the daemon starts again.   *)
(***************************************************************************)
Same(i, v) == v.st = i.st /\ v.token = i.token /\ v.snap = i.snap
Started(i, v) == v.st = "up" /\ v.token # 0 /\ v.snap = i.snap
Cleared(i, v) == v.st = i.st /\ v.token = i.token /\ v.snap = 0
Slept(i, v) ==
    i.st \in {"up", "paused"} /\ v.st = "suspended" /\ v.token = i.token /\ v.snap = i.token
Paused(i, v) == i.st = "up" /\ v.st = "paused" /\ v.token = i.token /\ v.snap = i.snap
Woken(i, v) ==
    i.st = "suspended" /\ i.snap # 0 /\ v.st = "up" /\ v.token = i.snap /\ v.snap = i.snap
Died(i, v) == i.st \in {"up", "paused"} /\ v.st = "dead" /\ v.token = i.token /\ v.snap = i.snap
Removed(v) == v.st = "none" /\ v.snap = 0

Changes(i, v) ==
    \/ Same(i, v) \/ Started(i, v) \/ Cleared(i, v) \/ Slept(i, v)
    \/ Paused(i, v) \/ Woken(i, v) \/ Died(i, v) \/ Removed(v)

OneChanges == \E x \in Boxes, v \in Instance : Changes(inst[x], v) /\ inst' = [inst EXCEPT ![x] = v]

Reattached(i, v) ==
    /\ v.snap = i.snap
    /\ \/ i.snap # 0 /\ v.st = "suspended" /\ v.token = i.snap
       \/ v.st = "none"

AllReattached == inst' \in [Boxes -> Instance] /\ \A x \in Boxes : Reattached(inst[x], inst'[x])

\* A successful suspend writes the snapshot; one that fails may leave the guest paused.
LEMMA SuspendChanges ==
    ASSUME inst \in [Boxes -> Instance], NEW b, b.id \in Boxes,
           (CanBeSuspended(b) /\ SuspendInstance(b.id)) \/ SuspendFails(b)
    PROVE  inst' = inst \/ OneChanges
<1> DEFINE i == inst[b.id]
<1>0. i \in Instance
  OBVIOUS
<1>1. CASE CanBeSuspended(b) /\ SuspendInstance(b.id) /\ i.st # "suspended"
  <2> DEFINE v == [i EXCEPT !.st = "suspended", !.snap = i.token]
  <2>1. v \in Instance /\ Slept(i, v)
    BY <1>0, <1>1 DEF Instance, Slept, CanBeSuspended
  <2>2. inst' = [inst EXCEPT ![b.id] = v]
    BY <1>1 DEF SuspendInstance
  <2> QED
    BY <2>1, <2>2 DEF OneChanges, Changes
<1>2. CASE i.st = "up" /\ inst' = [inst EXCEPT ![b.id].st = "paused"]
  <2> DEFINE v == [i EXCEPT !.st = "paused"]
  <2>1. v \in Instance /\ Paused(i, v)
    BY <1>0, <1>2 DEF Instance, Paused
  <2>2. inst' = [inst EXCEPT ![b.id] = v]
    BY <1>2
  <2> QED
    BY <2>1, <2>2 DEF OneChanges, Changes
<1> QED
  BY <1>1, <1>2 DEF SuspendInstance, SuspendFails

\* A provision starts a VM with a token; a failed one may remove the run directory.
LEMMA ProvisionChanges ==
    ASSUME FleetInv, StableRef, Provision \/ ProvisionFails
    PROVE  OneChanges
<1> DEFINE b == copy[Rec]
           i == inst[b.id]
           t == TokenFor(b)
<1>0. b \in Row /\ b.id \in Boxes /\ i \in Instance
  BY RecCopy DEF Provision, ProvisionFails, MustProvision
<1>1. t \in Nat /\ t # 0
  BY <1>0 DEF TokenFor, Row, Instance
<1>2. CASE Provision
  <2> DEFINE g == i.gen + 1
             v == [i EXCEPT !.st = "up", !.ref = RefOf(g), !.gen = g, !.token = t, !.cmd = TRUE]
  <2>1. g \in Nat /\ RefOf(g) \in Nat
    BY <1>0 DEF Instance, RefOf
  <2>2. v \in Instance /\ Started(i, v)
    BY <1>0, <1>1, <2>1 DEF Instance, Started
  <2>3. inst' = [inst EXCEPT ![b.id] = v]
    BY <1>2 DEF Provision, Provisioned
  <2> QED
    BY <1>0, <2>2, <2>3 DEF OneChanges, Changes
<1>3. CASE ProvisionFails
  <2>1. PICK j \in FailedProvision(i) :
            inst' = [inst EXCEPT ![b.id] = [j EXCEPT !.gen = IF @ < MaxGen THEN @ + 1 ELSE @]]
    BY <1>3 DEF ProvisionFails
  <2>2. j = i \/ j = [i EXCEPT !.snap = 0]
    BY <2>1 DEF FailedProvision
  <2>3. j \in Instance /\ j.st = i.st /\ j.token = i.token /\ j.snap \in {i.snap, 0}
    BY <1>0, <2>2 DEF Instance
  <2> DEFINE v == [j EXCEPT !.gen = IF @ < MaxGen THEN @ + 1 ELSE @]
  <2>4. v \in Instance /\ (Same(i, v) \/ Cleared(i, v))
    BY <2>3 DEF Instance, Same, Cleared
  <2> QED
    BY <1>0, <2>1, <2>4 DEF OneChanges, Changes
<1> QED
  BY <1>2, <1>3

\* Resume wakes a suspended VM, destroy removes one, other steps change none.
LEMMA ReconcilerChanges ==
    ASSUME FleetInv, StableRef, ReconcileStep
    PROVE  inst' = inst \/ OneChanges
<1> DEFINE b == copy[Rec]
           i == inst[b.id]
<1>0. inst \in [Boxes -> Instance]
  BY DEF FleetInv, TypeOK
<1>1. CASE SuspendIdle \/ SuspendErrors
  <2>1. b.id \in Boxes
    BY <1>1, RecCopy DEF SuspendIdle, SuspendErrors, PastLifetime, FleetInv, RecShape
  <2> HIDE DEF b
  <2> QED
    BY <1>0, <1>1, <2>1, SuspendChanges DEF SuspendIdle, SuspendErrors, b
<1>2. CASE ResumeAttached
  <2>1. b.id \in Boxes /\ i \in Instance
    BY <1>0, <1>2, RecCopy DEF ResumeAttached
  <2>2. CASE i.st = "suspended"
    <3> DEFINE v == [i EXCEPT !.st = "up", !.token = i.snap, !.cmd = TRUE]
    <3>1. v \in Instance /\ Woken(i, v)
      BY <1>2, <2>1, <2>2 DEF Instance, Woken, ResumeAttached, CanBeResumed
    <3>2. inst' = [inst EXCEPT ![b.id] = v]
      BY <1>2, <2>2 DEF ResumeAttached, ResumeInstance
    <3> QED
      BY <2>1, <3>1, <3>2 DEF OneChanges, Changes
  <2> QED
    BY <1>2, <2>2 DEF ResumeAttached, ResumeInstance
<1>3. CASE DestroyInstance
  <2>1. b.id \in Boxes /\ i \in Instance
    BY <1>0, <1>3, RecCopy DEF DestroyInstance, MustDestroy
  <2> DEFINE v == [i EXCEPT !.st = "none", !.snap = 0, !.cmd = FALSE]
  <2>2. v \in Instance /\ Removed(v)
    BY <2>1 DEF Instance, Removed
  <2>3. inst' = inst \/ inst' = [inst EXCEPT ![b.id] = v]
    BY <1>3 DEF DestroyInstance
  <2> QED
    BY <2>1, <2>2, <2>3 DEF OneChanges, Changes
<1>4. CASE Provision \/ ProvisionFails
  BY <1>4, ProvisionChanges
<1> QED
  BY <1>1, <1>2, <1>3, <1>4 DEF ReconcileStep, Save, AgentArrived, CheckAlive, ReapExpired,
     StartCountdown, CancelCountdown, KeepLifetime, Steady, StatusErrors, ResumeErrors, Rest,
     DestroyErrors, DeleteRow

\* Every step of the daemon changes at most one VM, or is a restart.
LEMMA FleetChanges ==
    ASSUME FleetInv, CanSuspend, StableRef, [Next]_vars
    PROVE  inst' = inst \/ OneChanges \/ AllReattached
<1>0. inst \in [Boxes -> Instance]
  BY DEF FleetInv, TypeOK
<1>1. CASE UNCHANGED vars
  BY <1>1 DEF vars, fleetVars
<1>2. ASSUME NEW s \in Sessions, Session(s) PROVE inst' = inst
  BY <1>2 DEF Session, AttachLookup, AttachCreate, AttachReuse, Detach, Release
<1>3. ASSUME NEW x \in Boxes, ReconcileGet(x) PROVE inst' = inst
  BY <1>3 DEF ReconcileGet
<1>4. ASSUME NEW x \in Boxes, InstanceDies(x) PROVE OneChanges
  <2> DEFINE v == [inst[x] EXCEPT !.st = "dead"]
  <2>1. v \in Instance /\ Died(inst[x], v)
    BY <1>0, <1>4 DEF Instance, Died, InstanceDies
  <2>2. inst' = [inst EXCEPT ![x] = v]
    BY <1>4 DEF InstanceDies
  <2> QED
    BY <2>1, <2>2 DEF OneChanges, Changes
<1>5. ASSUME NEW c \in Conns, AgentConn(c) PROVE inst' = inst
  BY <1>5 DEF AgentConn, AgentDials, AgentRegisters, HubStep, AgentDrops, SinkGet, SinkGone,
              SinkPut, ConnUnchanged
<1>6. ASSUME NEW g \in Guests, Guest(g) PROVE inst' = inst
  BY <1>6 DEF Guest, Heartbeat, KeepAlive, AutoSuspend, Idle, Status, Mutate, GuestPut,
              GuestUnchanged
<1>7. ASSUME NEW o \in Operators, Operator(o) PROVE inst' = inst
  BY <1>7 DEF Operator, DestroyGet, DestroyPut
<1>8. CASE Tick \/ DrainList \/ DrainSave
  BY <1>8 DEF Tick, DrainList, DrainSave
<1>9. ASSUME NEW b \in drain.todo, DrainSuspend(b) PROVE inst' = inst \/ OneChanges
  <2>1. b.id \in Boxes
    BY DEF FleetInv, TypeOK, DrainSound, Sound
  <2> QED
    BY <1>0, <1>9, <2>1, SuspendChanges DEF DrainSuspend
<1>10. CASE Restart \/ DestroyPanics
  <2>1. PICK back \in [Boxes -> BOOLEAN] : inst' = [x \in Boxes |-> AfterRestart(inst[x], back[x])]
    BY <1>10 DEF Restart, DestroyPanics, StartAgain
  <2>2. ASSUME NEW x \in Boxes PROVE inst'[x] \in Instance /\ Reattached(inst[x], inst'[x])
    <3>1. inst'[x] = AfterRestart(inst[x], back[x]) /\ inst[x] \in Instance
      BY <1>0, <2>1
    <3> QED
      BY <3>1 DEF AfterRestart, Reattached, Instance
  <2> QED
    BY <2>1, <2>2 DEF AllReattached
<1> QED
  BY <1>1, <1>2, <1>3, <1>4, <1>5, <1>6, <1>7, <1>8, <1>9, <1>10, ReconcilerChanges DEF Next, Drain

\* Resumed and reattached VMs take their token from the snapshot they come from.
LEMMA TokensKept ==
    ASSUME FleetInv, VMsHaveTokens, CanSuspend, StableRef, [Next]_vars
    PROVE  VMsHaveTokens'
<1>0. inst \in [Boxes -> Instance]
  BY DEF FleetInv, TypeOK
<1> SUFFICES ASSUME NEW y \in Boxes, inst'[y].st # "none" PROVE inst'[y].token # 0
  BY DEF VMsHaveTokens
<1>1. CASE inst' = inst
  BY <1>1 DEF VMsHaveTokens
<1>2. CASE OneChanges
  <2>1. PICK x \in Boxes, v \in Instance : Changes(inst[x], v) /\ inst' = [inst EXCEPT ![x] = v]
    BY <1>2 DEF OneChanges
  <2>2. CASE y = x
    BY <1>0, <2>1, <2>2 DEF VMsHaveTokens, Changes, Same, Started, Cleared, Slept, Paused,
                            Woken, Died, Removed
  <2>3. CASE y # x
    BY <1>0, <2>1, <2>3 DEF VMsHaveTokens
  <2> QED
    BY <2>2, <2>3
<1>3. CASE AllReattached
  BY <1>3 DEF AllReattached, Reattached
<1> QED
  BY <1>1, <1>2, <1>3, FleetChanges

\* Every step of the fleet is a step of its VMs or leaves them alone.
LEMMA FleetStepIsVMStep ==
    ASSUME FleetInv, VMsHaveTokens, CanSuspend, StableRef, [Next]_vars
    PROVE  [VM!InstNext]_<<StatusView, SnapView>>
<1> DEFINE Told(i) == IF i.st = "paused" THEN "up" ELSE i.st
           Goal == [VM!InstNext]_<<StatusView, SnapView>>
<1>0. inst \in [Boxes -> Instance]
  BY DEF FleetInv, TypeOK
<1>1. CASE inst' = inst
  BY <1>1 DEF StatusView, SnapView
<1>2. CASE OneChanges
  <2>1. PICK x \in Boxes, v \in Instance : Changes(inst[x], v) /\ inst' = [inst EXCEPT ![x] = v]
    BY <1>2 DEF OneChanges
  <2> DEFINE i == inst[x]
  <2>2. /\ StatusView' = [StatusView EXCEPT ![x] = Told(v)]
        /\ SnapView' = [SnapView EXCEPT ![x] = (v.snap # 0)]
        /\ StatusView[x] = Told(i) /\ SnapView[x] = (i.snap # 0)
    BY <1>0, <2>1 DEF StatusView, SnapView
  <2>3. /\ StatusView = [StatusView EXCEPT ![x] = StatusView[x]]
        /\ SnapView = [SnapView EXCEPT ![x] = SnapView[x]]
    BY DEF StatusView, SnapView
  <2>4. i.st # "none" => i.token # 0
    BY DEF VMsHaveTokens
  <2>5. CASE Same(i, v) \/ Paused(i, v)
    <3>1. Told(v) = Told(i) /\ v.snap = i.snap
      BY <2>5 DEF Same, Paused
    <3> HIDE DEF Told, i
    <3> QED
      BY <2>2, <2>3, <3>1
  <2>6. CASE Started(i, v)
    BY <2>2, <2>3, <2>6 DEF Started, VM!InstNext, VM!Start
  <2>7. CASE Cleared(i, v)
    BY <2>2, <2>3, <2>7 DEF Cleared, VM!InstNext, VM!StartFails
  <2>8. CASE Slept(i, v)
    BY <2>2, <2>4, <2>8 DEF Slept, VM!InstNext, VM!Sleep
  <2>9. CASE Woken(i, v)
    BY <2>2, <2>3, <2>9 DEF Woken, VM!InstNext, VM!Wake
  <2>10. CASE Died(i, v)
    BY <2>2, <2>3, <2>10 DEF Died, VM!InstNext, VM!Die
  <2>11. CASE Removed(v)
    BY <2>2, <2>11 DEF Removed, VM!InstNext, VM!Remove
  <2> QED
    BY <2>1, <2>5, <2>6, <2>7, <2>8, <2>9, <2>10, <2>11 DEF Changes
<1>3. CASE AllReattached
  <2> DEFINE found == {x \in Boxes : inst'[x].st = "suspended"}
  <2>1. ASSUME NEW x \in Boxes
        PROVE  /\ Told(inst'[x]) = IF x \in found THEN "suspended" ELSE "none"
               /\ (inst'[x].snap # 0) = (inst[x].snap # 0)
    BY <1>3 DEF AllReattached, Reattached, SnapView
  <2>2. StatusView' = [x \in Boxes |-> IF x \in found THEN "suspended" ELSE "none"]
    BY <2>1 DEF StatusView
  <2>3. SnapView' = SnapView
    BY <2>1 DEF SnapView
  <2>4. found \in SUBSET {x \in Boxes : SnapView[x]}
    BY <1>3 DEF AllReattached, Reattached, SnapView
  <2> QED
    BY <2>2, <2>3, <2>4 DEF VM!InstNext, VM!Reattach
<1> QED
  BY <1>1, <1>2, <1>3, FleetChanges

\* On a microVM provider the daemon does to its VMs only what the provider, which
\* implements the same specification (VMImplementsInstance), lets be done.
THEOREM FleetUsesInstance ==
    ASSUME CanSuspend, StableRef
    PROVE  Spec => UsesInstance
<1>1. Init => VM!InstInit /\ VMsHaveTokens
  <2> SUFFICES ASSUME Init PROVE VM!InstInit /\ VMsHaveTokens
    OBVIOUS
  <2>1. ASSUME NEW x \in Boxes PROVE inst[x].st = "none" /\ inst[x].snap = 0
    BY DEF Init, NoInstance
  <2>2. StatusView = [x \in Boxes |-> "none"] /\ SnapView = [x \in Boxes |-> FALSE]
    BY <2>1 DEF StatusView, SnapView
  <2> QED
    BY <2>1, <2>2 DEF VM!InstInit, VMsHaveTokens
<1>2. FleetInv /\ VMsHaveTokens /\ [Next]_vars => VMsHaveTokens'
  BY TokensKept
<1>3. FleetInv /\ VMsHaveTokens /\ [Next]_vars => [VM!InstNext]_<<StatusView, SnapView>>
  BY FleetStepIsVMStep
<1> QED
  BY <1>1, <1>2, <1>3, FleetInvariant, PTL DEF Spec, UsesInstance, VM!InstSpec
=============================================================================
