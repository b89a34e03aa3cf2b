------------------------- MODULE SessionPath_proofs -------------------------
(***************************************************************************)
(* What a client has and was told, and what a process was given, for every *)
(* kind of session, any amount of output and input and any number of       *)
(* dropped connections.                                                    *)
(***************************************************************************)
EXTENDS SessionPath, FiniteSetTheorems, TLAPS

USE SessionAssumption

(***************************************************************************)
(* Counting the members of a stream.                                       *)
(***************************************************************************)
\* The places at which something occurs are finitely many.
LEMMA CountNat ==
    ASSUME NEW S, NEW s \in Seq(S), NEW x
    PROVE  IsFiniteSet({n \in 1 .. Len(s) : s[n] = x}) /\ Count(s, x) \in Nat
<1>1. IsFiniteSet(1 .. Len(s))
  BY FS_Interval
<1>2. {n \in 1 .. Len(s) : s[n] = x} \in SUBSET (1 .. Len(s))
  OBVIOUS
<1>3. IsFiniteSet({n \in 1 .. Len(s) : s[n] = x})
  BY <1>1, <1>2, FS_Subset
<1> QED
  BY <1>3, FS_CardinalityType DEF Count

\* Nothing occurs in an empty stream.
LEMMA CountEmpty == ASSUME NEW x PROVE Count(<<>>, x) = 0
<1>1. {n \in 1 .. Len(<<>>) : <<>>[n] = x} = {}
  OBVIOUS
<1> QED
  BY <1>1, FS_EmptySet, Zenon DEF Count

\* What is appended counts once more.
LEMMA CountAppend ==
    ASSUME NEW S, NEW s \in Seq(S), NEW y \in S, NEW x
    PROVE  Count(Append(s, y), x) = IF y = x THEN Count(s, x) + 1 ELSE Count(s, x)
<1> DEFINE I == {n \in 1 .. Len(s) : s[n] = x}
           t == Append(s, y)
           J == {n \in 1 .. Len(t) : t[n] = x}
<1>1. Len(t) = Len(s) + 1 /\ t[Len(s) + 1] = y /\ \A n \in 1 .. Len(s) : t[n] = s[n]
  OBVIOUS
<1>a. IsFiniteSet(I)
  BY CountNat, Zenon
<1>2. IsFiniteSet(I) /\ (Len(s) + 1) \notin I
  BY <1>a
<1>3. CASE y = x
  <2>1. J = I \cup {Len(s) + 1}
    BY <1>1, <1>3
  <2>2. Cardinality(I \cup {Len(s) + 1}) = Cardinality(I) + 1
    BY <1>2, FS_AddElement
  <2> QED
    BY <2>1, <2>2, <1>3 DEF Count
<1>4. CASE y # x
  <2>1. J = I
    BY <1>1, <1>4
  <2> QED
    BY <2>1, <1>4 DEF Count
<1> QED
  BY <1>3, <1>4

\* What is read off the front counts once less.
LEMMA CountTail ==
    ASSUME NEW S, NEW s \in Seq(S), s # <<>>, NEW x
    PROVE  Count(s, x) = IF Head(s) = x THEN Count(Tail(s), x) + 1 ELSE Count(Tail(s), x)
<1> DEFINE t == Tail(s)
           J == {n \in 1 .. Len(t) : t[n] = x}
           K == {n \in 2 .. Len(s) : s[n] = x}
           I == {n \in 1 .. Len(s) : s[n] = x}
           f == [n \in J |-> n + 1]
<1>1. t \in Seq(S) /\ Len(t) = Len(s) - 1 /\ \A n \in 1 .. Len(t) : t[n] = s[n + 1]
  OBVIOUS
<1>a. IsFiniteSet(J)
  <2>1. \A u \in Seq(S) : IsFiniteSet({n \in 1 .. Len(u) : u[n] = x})
    BY CountNat
  <2> HIDE DEF t
  <2> QED
    BY <1>1, <2>1
<1>2. Len(s) \in Nat
  OBVIOUS
<1>3. f \in [J -> K] /\ \A m, n \in J : f[m] = f[n] => m = n
  BY <1>1, <1>2
<1>4. \A k \in K : k - 1 \in J /\ f[k - 1] = k
  BY <1>1, <1>2
<1>5. ExistsBijection(J, K)
  <2> HIDE DEF J, K, f
  <2>1. f \in Injection(J, K)
    BY <1>3 DEF Injection, IsInjective
  <2>2. f \in Surjection(J, K)
    <3>1. \A k \in K : \E n \in J : f[n] = k
      BY <1>4
    <3> QED
      BY <1>3, <3>1 DEF Surjection
  <2> QED
    BY <2>1, <2>2 DEF ExistsBijection, Bijection
<1>6. IsFiniteSet(K) /\ Cardinality(K) = Cardinality(J)
  BY <1>a, <1>5, FS_Bijection
<1>7. CASE Head(s) = x
  <2>1. I = K \cup {1} /\ 1 \notin K
    BY <1>2, <1>7
  <2>2. Cardinality(K \cup {1}) = Cardinality(K) + 1
    BY <1>6, <2>1, FS_AddElement
  <2> QED
    BY <1>6, <1>7, <2>1, <2>2 DEF Count
<1>8. CASE Head(s) # x
  <2>1. I = K
    BY <1>2, <1>8
  <2> QED
    BY <1>6, <1>8, <2>1 DEF Count
<1> QED
  BY <1>7, <1>8

\* A prefix has no more of anything, and as much of what does not occur behind it.
LEMMA CountPrefix ==
    ASSUME NEW S, NEW s \in Seq(S), NEW k \in 0 .. Len(s), NEW x
    PROVE  /\ Count(SubSeq(s, 1, k), x) <= Count(s, x)
           /\ (\A n \in k + 1 .. Len(s) : s[n] # x) => Count(SubSeq(s, 1, k), x) = Count(s, x)
<1> DEFINE t == SubSeq(s, 1, k)
           J == {n \in 1 .. Len(t) : t[n] = x}
           I == {n \in 1 .. Len(s) : s[n] = x}
<1>1. Len(t) = k /\ \A n \in 1 .. k : t[n] = s[n]
  OBVIOUS
<1>2. J \in SUBSET I /\ ((\A n \in k + 1 .. Len(s) : s[n] # x) => J = I)
  BY <1>1
<1>3. IsFiniteSet(I)
  BY CountNat
<1>4. Cardinality(J) <= Cardinality(I)
  BY <1>2, <1>3, FS_Subset
<1> QED
  BY <1>2, <1>4 DEF Count

(***************************************************************************)
(* The inductive invariant.                                                *)
(***************************************************************************)
\* The parts of the invariant are about these fields.
LEMMA PathTyped ==
    ASSUME TypeOK
    PROVE  /\ client.got \in Chunks /\ front.buf \in Chunks /\ agent.wrote \in Chunks /\ agent.pipe \in Chunks
           /\ wire.down \in Seq(Outputs \cup Endings) /\ wire.up \in Seq({"in", "eof"})
           /\ client.sent \in Nat /\ front.fwd \in Nat /\ agent.got \in Nat
           /\ \A o \in Outputs : /\ client.got[o] \in Nat /\ front.buf[o] \in Nat /\ agent.wrote[o] \in Nat
                                 /\ agent.pipe[o] \in Nat /\ Count(wire.down, o) \in Nat
           /\ Count(wire.up, "in") \in Nat
           /\ NoChunks \in Chunks
<1>1. wire.down \in Seq(Outputs \cup Endings) /\ wire.up \in Seq({"in", "eof"})
  BY DEF TypeOK, Clients, Links, Fronts, Streams, Agents, Endings
<1>2. (\A o : Count(wire.down, o) \in Nat) /\ Count(wire.up, "in") \in Nat
  BY <1>1, CountNat
<1> QED
  BY <1>1, <1>2, SMTT(30) DEF TypeOK, Clients, Links, Fronts, Streams, Agents, Chunks, NoChunks, Outputs

\* The daemon starts with a client that waits and no stream.
LEMMA PathInit == Init => PathInv
<1> SUFFICES ASSUME Init PROVE PathInv
  OBVIOUS
<1>1. TypeOK
  BY DEF Init, TypeOK, Clients, Links, Fronts, Streams, Agents, Chunks, NoChunks, Outputs
<1>2. \A x : Count(wire.down, x) = 0 /\ Count(wire.up, x) = 0
  BY CountEmpty DEF Init
<1>3. StagesSound
  BY DEF Init, StagesSound, NoChunks, FrontDoor
<1>4. DownOrdered
  BY DEF Init, DownOrdered, NoChunks
<1>5. OutputSound
  BY <1>2 DEF Init, OutputSound, NoChunks, Outputs, Hop
<1>6. ToldSound
  BY DEF Init, ToldSound
<1>7. InputSound
  BY <1>2 DEF Init, InputSound
<1> QED
  BY <1>1, <1>3, <1>4, <1>5, <1>6, <1>7 DEF PathInv

\* A step that touches neither output nor input: the link, the way of the front door
\* to the agent, a client that leaves or is refused.
LEMMA QuietStep ==
    ASSUME PathInv, TypeOK', UNCHANGED <<kind, agent>>,
           client'.at \in {client.at, "gone"}, client'.sent = client.sent,
           client'.got = client.got, client'.exit = client.exit,
           client'.end \in {client.end, "error"}, client.end # "no" => client'.end = client.end,
           client'.end # client.end => kind \in FrontDoor,
           front'.buf = front.buf, front'.fwd = front.fwd, front'.exit = front.exit,
           front'.eof = front.eof, front'.pump = front.pump,
           wire'.down = wire.down, wire'.up = wire.up,
           wire.st # wire'.st => front.pump = "off" /\ wire.st # "cut",
           front.pc # front'.pc => front.pump = "off" /\ kind \in FrontDoor /\ front.pc # "done"
                                   /\ front'.pc \in {"wait", "dial", "shake", "proxy", "reply"},
           front'.pc \in {"start", "wait", "dial"} => wire'.st = "none",
           front'.pc \in {"proxy", "copy"} => wire'.st \in {"open", "cut"}
    PROVE  PathInv'
<1> USE DEF PathInv
<1>1. StagesSound'
  BY DEF StagesSound
<1>2. DownOrdered'
  BY DEF DownOrdered, StagesSound, FrontDoor
<1>3. OutputSound'
  <2>1. CASE wire.st = wire'.st
    BY <2>1 DEF OutputSound, Listening
  <2>2. CASE wire.st # wire'.st
    <3>1. \A o \in Outputs : /\ client.got[o] = 0 /\ front.buf[o] = 0 /\ agent.pipe[o] = 0 /\ agent.wrote[o] = 0
                             /\ Count(wire.down, o) = 0
      BY <2>2, CountEmpty DEF StagesSound, NoChunks
    <3> QED
      BY <2>2, <3>1 DEF OutputSound, StagesSound, Listening
  <2> QED
    BY <2>1, <2>2
<1>4. ToldSound'
  BY DEF ToldSound, StagesSound, FrontDoor
<1>5. InputSound'
  BY PathTyped DEF InputSound, StagesSound
<1> QED
  BY <1>1, <1>2, <1>3, <1>4, <1>5

\* Closing the stream loses what was not read.
LEMMA ShutTyped ==
    ASSUME TypeOK
    PROVE  /\ Shut \in Streams /\ Shut.up = wire.up
           /\ Shut.st = IF wire.st = "open" THEN "shut" ELSE wire.st
           /\ Shut.down = IF wire.st = "open" THEN <<>> ELSE wire.down
<1>1. wire \in Streams
  BY DEF TypeOK, Clients, Links, Fronts, Streams, Agents
<1>2. <<>> \in Seq(Outputs \cup Endings)
  OBVIOUS
<1> QED
  BY <1>1, <1>2 DEF Shut, Streams

\* The way to the agent, and what only the link or the client's presence is about.
LEMMA WayKeeps ==
    ASSUME PathInv,
           \/ AgentConnects \/ BoxFails \/ RouteReplies \/ RouteAttaches \/ WaitReady
           \/ DialAgentSSH \/ Handshake \/ Reply \/ ClientLeaves
    PROVE  PathInv'
<1> USE DEF PathInv
<1>1. CASE AgentConnects \/ BoxFails
  <2>1. TypeOK'
    <3>1. link \in Links
      BY DEF TypeOK
    <3>2. link' \in Links /\ UNCHANGED <<kind, client, front, wire, agent>>
      BY <1>1, <3>1 DEF AgentConnects, BoxFails, Links
    <3> QED
      BY <3>2 DEF TypeOK
  <2> QED
    BY <1>1, <2>1, QuietStep DEF AgentConnects, BoxFails, StagesSound
<1>2. CASE RouteReplies \/ RouteAttaches \/ WaitReady
  <2>1. TypeOK'
    <3>1. front \in Fronts
      BY DEF TypeOK
    <3>2. CASE RouteReplies
      BY <3>1, <3>2 DEF RouteReplies, TypeOK, Fronts
    <3>3. CASE RouteAttaches
      BY <3>1, <3>3 DEF RouteAttaches, TypeOK, Fronts
    <3>4. CASE WaitReady
      BY <3>1, <3>4 DEF WaitReady, TypeOK, Fronts
    <3> QED
      BY <1>2, <3>2, <3>3, <3>4
  <2>2. /\ UNCHANGED <<kind, client, wire, agent>> /\ front'.buf = front.buf
        /\ front'.fwd = front.fwd /\ front'.exit = front.exit /\ front'.eof = front.eof
        /\ front'.pump = front.pump /\ front.pc \in {"start", "wait"} /\ kind \in FrontDoor
        /\ front'.pc \in {"wait", "dial", "reply"}
    <3>1. front \in Fronts
      BY DEF TypeOK
    <3>2. CASE RouteReplies
      BY <3>1, <3>2 DEF RouteReplies, StagesSound, Fronts
    <3>3. CASE RouteAttaches
      BY <3>1, <3>3 DEF RouteAttaches, StagesSound, Fronts
    <3>4. CASE WaitReady
      BY <3>1, <3>4 DEF WaitReady, StagesSound, Fronts
    <3> QED
      BY <1>2, <3>2, <3>3, <3>4
  <2> QED
    BY <2>1, <2>2, QuietStep DEF StagesSound
<1>3. CASE DialAgentSSH
  <2>1. TypeOK'
    <3>1. front \in Fronts /\ wire \in Streams
      BY DEF TypeOK
    <3>2. front' \in Fronts
      BY <1>3, <3>1 DEF DialAgentSSH, Fronts
    <3>3. wire' \in Streams
      BY <1>3, <3>1 DEF DialAgentSSH, OpenStream, Streams
    <3> QED
      BY <1>3, <3>2, <3>3 DEF DialAgentSSH, TypeOK
  <2> QED
    BY <1>3, <2>1, QuietStep DEF DialAgentSSH, OpenStream, StagesSound, TypeOK, Clients, Links, Fronts, Streams, Agents
<1>4. CASE Handshake
  <2>1. TypeOK'
    <3>1. wire' \in Streams
      BY <1>4, ShutTyped DEF Handshake, TypeOK, Clients, Links, Fronts, Streams, Agents
    <3> QED
      BY <1>4, <3>1 DEF Handshake, TypeOK, Fronts
  <2>2. /\ UNCHANGED <<kind, client, agent>> /\ front'.buf = front.buf
        /\ front'.fwd = front.fwd /\ front'.exit = front.exit /\ front'.eof = front.eof
        /\ front'.pump = front.pump /\ front.pc = "shake" /\ kind \in FrontDoor
        /\ front'.pc \in {"proxy", "reply"} /\ front.pump = "off"
    BY <1>4 DEF Handshake, StagesSound, TypeOK, Clients, Links, Fronts, Streams, Agents
  <2>3. /\ wire'.up = wire.up /\ wire'.down = wire.down
        /\ wire.st = "cut" => wire'.st = "cut"
        /\ front'.pc = "proxy" => wire'.st = "open"
    BY <1>4, <2>2, ShutTyped DEF Handshake, StagesSound, TypeOK, Fronts
  <2> QED
    BY <2>1, <2>2, <2>3, QuietStep
<1>5. CASE Reply \/ ClientLeaves
  <2>1. TypeOK'
    BY <1>5 DEF Reply, ClientLeaves, TypeOK, Clients, Links, Fronts, Streams, Agents
  <2> QED
    BY <1>5, <2>1, QuietStep DEF Reply, ClientLeaves, StagesSound, TypeOK, Clients, Links, Fronts, Streams, Agents
<1> QED
  BY <1>1, <1>2, <1>3, <1>4, <1>5

\* How a handler may end.  An end that the client takes for success, on a connection
\* that held, comes with all the output.
LEMMA FinishKeeps ==
    ASSUME PathInv, NEW how \in {"ok", "error"}, Finish(how),
           (how = "ok" /\ Listening /\ wire.st # "cut") =>
              /\ kind # "exec" /\ agent.proc = "exited" /\ client.got["out"] = agent.wrote["out"]
              /\ kind \notin FrontDoor => client.got["err"] = agent.wrote["err"]
    PROVE  PathInv'
<1> USE DEF PathInv, Finish
<1>1. TypeOK'
  <2>1. wire' \in Streams
    BY ShutTyped
  <2>2. client' \in [at: {"here", "half", "gone"}, sent: 0 .. MaxChunks, got: Chunks,
                     exit: BOOLEAN, end: {"no", "ok", "error"}]
    BY DEF TypeOK, Clients, Links, Fronts, Streams, Agents
  <2> QED
    <3>1. front \in Fronts /\ NoChunks \in Chunks
      BY PathTyped DEF TypeOK
    <3>2. front' \in Fronts
      BY <3>1 DEF Fronts
    <3> QED
      BY <2>1, <2>2, <3>2 DEF TypeOK, Clients
<1>2. /\ UNCHANGED <<kind, link, agent>>
      /\ client'.at = client.at /\ client'.sent = client.sent /\ client'.got = client.got
      /\ client'.exit = client.exit
      /\ client'.end = IF Listening THEN how ELSE client.end
      /\ front'.pc = "done" /\ front'.buf = NoChunks /\ front'.fwd = front.fwd
      /\ front'.exit = front.exit /\ front'.eof = front.eof /\ front'.pump = front.pump
      /\ wire'.up = wire.up
      /\ wire'.st = IF wire.st = "open" THEN "shut" ELSE wire.st
      /\ wire'.down = IF wire.st = "open" THEN <<>> ELSE wire.down
  BY ShutTyped DEF TypeOK, Clients, Links, Fronts, Streams, Agents, Listening
<1> HIDE DEF Finish
<1>3. StagesSound'
  BY <1>2 DEF StagesSound
<1>4. DownOrdered'
  <2>1. CASE wire.st = "open"
    BY <1>2, <2>1 DEF DownOrdered
  <2>2. CASE wire.st # "open"
    BY <1>2, <2>2 DEF DownOrdered
  <2> QED
    BY <2>1, <2>2
<1>5. OutputSound'
  <2>1. \A o \in Outputs : Count(wire'.down, o) <= Count(wire.down, o) /\ Count(wire'.down, o) \in Nat
    BY <1>2, PathTyped, CountEmpty
  <2>2. \A o \in Outputs : client.got[o] + 0 + Count(wire'.down, o) + agent.pipe[o] <= agent.wrote[o]
    <3> TAKE o \in Outputs
    <3>1. /\ client.got[o] \in Nat /\ front.buf[o] \in Nat /\ agent.wrote[o] \in Nat
          /\ agent.pipe[o] \in Nat /\ Count(wire.down, o) \in Nat
      BY PathTyped
    <3>2. client.got[o] + front.buf[o] + Count(wire.down, o) + agent.pipe[o] <= agent.wrote[o]
      BY DEF OutputSound
    <3> QED
      BY <2>1, <3>1, <3>2
  <2>3. wire'.st # "open"
    BY <1>2
  <2>4. ~Listening'
    BY <1>2 DEF Listening
  <2> QED
    BY <1>2, <2>2, <2>3, <2>4 DEF OutputSound, NoChunks, Outputs
<1>6. ToldSound'
  BY <1>2 DEF ToldSound, Listening
<1>7. InputSound'
  BY <1>2 DEF InputSound
<1> QED
  BY <1>1, <1>3, <1>4, <1>5, <1>6, <1>7

(***************************************************************************)
(* Input.                                                                  *)
(***************************************************************************)
\* The client's input does not get in the way of the output.
LEMMA InputStep ==
    ASSUME PathInv, TypeOK', InputSound', UNCHANGED kind,
           client'.at = "gone" <=> client.at = "gone",
           client'.got = client.got, client'.exit = client.exit, client'.end = client.end,
           front'.pc = front.pc, front'.buf = front.buf, front'.exit = front.exit,
           front'.eof = front.eof, front.pump # "off", front'.pump # "off",
           wire'.st = wire.st, wire'.down = wire.down,
           agent'.proc = agent.proc, agent'.handler = agent.handler,
           agent'.wrote = agent.wrote, agent'.pipe = agent.pipe
    PROVE  PathInv'
<1> USE DEF PathInv
<1>1. StagesSound'
  BY DEF StagesSound
<1>2. DownOrdered'
  BY DEF DownOrdered
<1>3. OutputSound'
  BY DEF OutputSound, Listening
<1>4. ToldSound'
  BY DEF ToldSound
<1> QED
  BY <1>1, <1>2, <1>3, <1>4

\* The client writes to its end of the session or closes it.
LEMMA SendKeeps ==
    ASSUME PathInv, ExecClientSends \/ ClientSends \/ ClientHalfCloses
    PROVE  PathInv'
<1> USE DEF PathInv
<1>1. CASE ExecClientSends \/ ClientSends
  <2> USE <1>1 DEF ExecClientSends, ClientSends, Sends
  <2>1. client' = [client EXCEPT !.sent = client.sent + 1] /\ UNCHANGED <<kind, front, wire, agent>>
    OBVIOUS
  <2>2. client.sent < MaxChunks /\ client.at = "here" /\ front.pump = "on"
    BY DEF InSession
  <2>3. TypeOK'
    BY <2>1, <2>2 DEF TypeOK, Clients
  <2>4. InputSound'
    BY <2>1, <2>2, PathTyped DEF InputSound, TypeOK, Clients, Links, Fronts, Streams, Agents
  <2> QED
    BY <2>1, <2>2, <2>3, <2>4, InputStep DEF TypeOK, Clients, Links, Fronts, Streams, Agents
<1>2. CASE ClientHalfCloses
  <2>1. TypeOK'
    BY <1>2 DEF ClientHalfCloses, TypeOK, Clients
  <2>2. InputSound'
    BY <1>2 DEF ClientHalfCloses, InSession, InputSound, TypeOK, Clients, Links, Fronts, Streams, Agents
  <2> QED
    BY <1>2, <2>1, <2>2, InputStep DEF ClientHalfCloses, InSession, TypeOK, Clients, Links, Fronts, Streams, Agents
<1> QED
  BY <1>1, <1>2

\* The pump puts the input on the stream, then the end of it.
LEMMA PumpKeeps ==
    ASSUME PathInv, PumpsInput \/ PumpEnds
    PROVE  PathInv'
<1> USE DEF PathInv
<1> DEFINE up == wire.up
<1>1. up \in Seq({"in", "eof"}) /\ front.pump = "on" /\ (wire.st = "open" => \A n \in 1 .. Len(up) : up[n] # "eof")
  BY PathTyped DEF PumpsInput, PumpEnds, InSession, InputSound
<1>2. ASSUME NEW x \in {"in", "eof"}
      PROVE  /\ Append(up, x) \in Seq({"in", "eof"})
             /\ Count(Append(up, x), "in") = IF x = "in" THEN Count(up, "in") + 1 ELSE Count(up, "in")
             /\ Len(Append(up, x)) = Len(up) + 1 /\ Append(up, x)[Len(up) + 1] = x
             /\ \A n \in 1 .. Len(up) : Append(up, x)[n] = up[n]
  BY <1>1, <1>2, CountAppend
<1>3. CASE PumpsInput
  <2>1. /\ front' = [front EXCEPT !.fwd = front.fwd + 1] /\ front.fwd < client.sent
        /\ UNCHANGED <<kind, client, link, agent>>
    BY <1>3 DEF PumpsInput
  <2>2. /\ wire'.st = wire.st /\ wire'.down = wire.down /\ wire' \in Streams
        /\ wire'.up = IF wire.st = "open" THEN Append(up, "in") ELSE up
    BY <1>2, <1>3 DEF PumpsInput, TypeOK, Clients, Links, Fronts, Streams, Agents
  <2>3. TypeOK'
    <3>1. front.fwd + 1 \in 0 .. MaxChunks
      BY <2>1 DEF TypeOK, Clients, Fronts
    <3> QED
      BY <2>1, <2>2, <3>1 DEF TypeOK, Fronts
  <2>4. InputSound'
    <3>1. CASE wire.st = "open"
      <4>1. wire'.up = Append(up, "in") /\ \A n \in 1 .. Len(wire'.up) : wire'.up[n] # "eof"
        BY <1>1, <1>2, <2>2, <3>1
      <4>2. Count(wire'.up, "in") = Count(up, "in") + 1
        BY <1>2, <4>1
      <4> QED
        BY <1>1, <2>1, <2>2, <3>1, <4>1, <4>2, PathTyped, SMTT(30) DEF InputSound, TypeOK, Fronts
    <3>2. CASE wire.st # "open"
      BY <1>1, <2>1, <2>2, <3>2, PathTyped DEF InputSound, TypeOK, Clients, Links, Fronts, Streams, Agents
    <3> QED
      BY <3>1, <3>2
  <2> QED
    BY <1>1, <2>1, <2>2, <2>3, <2>4, InputStep DEF TypeOK, Clients, Links, Fronts, Streams, Agents
<1>4. CASE PumpEnds
  <2>1. /\ front' = [front EXCEPT !.pump = "ended"]
        /\ client.at # "gone" => client.at = "half" /\ front.fwd = client.sent
        /\ UNCHANGED <<kind, client, link, agent>>
    BY <1>4 DEF PumpEnds
  <2>2. /\ wire'.st = wire.st /\ wire'.down = wire.down /\ wire' \in Streams
        /\ wire'.up = IF wire.st = "open" THEN Append(up, "eof") ELSE up
    BY <1>2, <1>4 DEF PumpEnds, TypeOK, Clients, Links, Fronts, Streams, Agents
  <2>3. TypeOK'
    <3>1. front' \in Fronts
      BY <2>1 DEF TypeOK, Fronts
    <3> QED
      BY <2>1, <2>2, <3>1 DEF TypeOK
  <2>4. InputSound'
    <3>1. CASE wire.st = "open"
      <4>1. /\ wire'.up = Append(up, "eof")
            /\ \A n \in 1 .. Len(wire'.up) : wire'.up[n] = "eof" => n = Len(wire'.up)
        BY <1>1, <1>2, <2>2, <3>1
      <4>2. Count(wire'.up, "in") = Count(up, "in")
        BY <1>2, <4>1
      <4> QED
        BY <1>1, <2>1, <2>2, <3>1, <4>1, <4>2 DEF InputSound, TypeOK, Clients, Links, Fronts, Streams, Agents
    <3>2. CASE wire.st # "open"
      BY <2>1, <2>2, <3>2 DEF InputSound, TypeOK, Clients, Links, Fronts, Streams, Agents
    <3> QED
      BY <3>1, <3>2
  <2> QED
    BY <1>1, <2>1, <2>2, <2>3, <2>4, InputStep DEF TypeOK, Clients, Links, Fronts, Streams, Agents
<1> QED
  BY <1>3, <1>4

\* The agent gives the process its input, and the end of it.
LEMMA AgentReadsKeeps ==
    ASSUME PathInv, AgentReads
    PROVE  PathInv'
<1> USE DEF PathInv
<1>0. front.pump # "off" /\ wire.up \in Seq({"in", "eof"}) /\ UNCHANGED <<kind, client, link, front>>
  BY PathTyped DEF AgentReads, StagesSound
<1>1. CASE wire.up # <<>> /\ wire' = [wire EXCEPT !.up = Tail(wire.up)]
           /\ agent' = IF Head(wire.up) = "in"
                       THEN [agent EXCEPT !.got = agent.got + 1] ELSE [agent EXCEPT !.stdin = "closed"]
  <2> DEFINE up == wire.up
  <2>1. /\ Tail(up) \in Seq({"in", "eof"}) /\ Len(Tail(up)) = Len(up) - 1 /\ Len(up) \in Nat \ {0}
        /\ \A n \in 1 .. Len(Tail(up)) : Tail(up)[n] = up[n + 1]
        /\ Head(up) \in {"in", "eof"} /\ Head(up) = up[1]
    BY <1>0, <1>1
  <2>2. Count(up, "in") = IF Head(up) = "in" THEN Count(Tail(up), "in") + 1 ELSE Count(Tail(up), "in")
    BY <1>0, <1>1, CountTail
  <2>3. Count(up, "in") \in Nat /\ Count(Tail(up), "in") \in Nat
    BY <1>0, <2>1, CountNat
  <2>4. wire'.st = wire.st /\ wire'.down = wire.down /\ wire'.up = Tail(up) /\ wire' \in Streams
    BY <1>1, <2>1 DEF TypeOK, Clients, Links, Fronts, Streams, Agents
  <2>5. CASE Head(up) = "in"
    <3>1. agent' = [agent EXCEPT !.got = agent.got + 1] /\ agent.got + 1 \in 0 .. MaxChunks
      BY <1>1, <2>2, <2>3, <2>5, PathTyped, SMTT(30) DEF InputSound, TypeOK, Clients, Links, Fronts, Streams, Agents
    <3>2. TypeOK'
      BY <1>0, <2>4, <3>1 DEF TypeOK, Agents
    <3>3. InputSound'
      <4>1. \A n \in 1 .. Len(wire'.up) :
               wire'.up[n] = "eof" => n = Len(wire'.up) /\ (wire.st = "open" => front.pump = "ended")
        <5> TAKE n \in 1 .. Len(wire'.up)
        <5>1. n + 1 \in 1 .. Len(up) /\ wire'.up[n] = up[n + 1] /\ Len(wire'.up) = Len(up) - 1
          BY <2>1, <2>4
        <5>2. up[n + 1] = "eof" => n + 1 = Len(up) /\ (wire.st = "open" => front.pump = "ended")
          BY <5>1 DEF InputSound
        <5> QED
          BY <2>1, <5>1, <5>2
      <4>2. agent'.got + Count(wire'.up, "in") = agent.got + Count(up, "in") /\ agent'.stdin = agent.stdin
        <5>1. agent'.got = agent.got + 1 /\ agent'.stdin = agent.stdin /\ agent.got \in Nat
          BY <3>1, PathTyped DEF TypeOK, Agents
        <5>2. Count(wire'.up, "in") + 1 = Count(up, "in")
          BY <2>2, <2>4, <2>5
        <5> QED
          BY <2>3, <2>4, <5>1, <5>2
      <4>3. agent.stdin = "closed" => wire.st # "open"
        BY <1>1 DEF InputSound
      <4> QED
        BY <1>0, <2>4, <4>1, <4>2, <4>3 DEF InputSound
    <3> QED
      BY <1>0, <2>4, <3>1, <3>2, <3>3, InputStep DEF TypeOK, Clients, Links, Fronts, Streams, Agents
  <2>6. CASE Head(up) # "in"
    <3>1. agent' = [agent EXCEPT !.stdin = "closed"] /\ up[1] = "eof" /\ Len(up) = 1
      <4>1. up[1] = "eof" /\ 1 \in 1 .. Len(up)
        BY <2>1, <2>6
      <4> QED
        BY <1>1, <2>6, <4>1 DEF InputSound
    <3>2. TypeOK'
      BY <1>0, <2>4, <3>1 DEF TypeOK, Agents
    <3>3. InputSound'
      BY <1>0, <2>1, <2>2, <2>3, <2>4, <2>6, <3>1, PathTyped, SMTT(30) DEF InputSound, TypeOK, Clients, Links, Fronts, Streams, Agents
    <3> QED
      BY <1>0, <2>4, <3>1, <3>2, <3>3, InputStep DEF TypeOK, Clients, Links, Fronts, Streams, Agents
  <2> QED
    BY <2>5, <2>6
<1>2. CASE wire.st # "open" /\ UNCHANGED wire /\ agent' = [agent EXCEPT !.stdin = "closed"]
  <2>1. TypeOK'
    BY <1>0, <1>2 DEF TypeOK, Agents
  <2>2. InputSound'
    BY <1>0, <1>2 DEF InputSound, TypeOK, Clients, Links, Fronts, Streams, Agents
  <2> QED
    BY <1>0, <1>2, <2>1, <2>2, InputStep DEF TypeOK, Clients, Links, Fronts, Streams, Agents
<1> QED
  BY <1>1, <1>2 DEF AgentReads

(***************************************************************************)
(* Output, in the box.                                                     *)
(***************************************************************************)
\* The relay of output does not get in the way of the input.
LEMMA OutputStep ==
    ASSUME PathInv, TypeOK', DownOrdered', OutputSound', ToldSound', UNCHANGED kind,
           client'.at = client.at, client'.sent = client.sent,
           front'.pc \in {front.pc, "done"}, front'.fwd = front.fwd, front'.pump = front.pump,
           front.pump # "off", wire'.up = wire.up, wire'.st = "open" => wire.st = "open",
           wire'.st = wire.st \/ front'.pc = "done",
           agent'.got = agent.got, agent'.stdin = agent.stdin,
           agent'.proc # "none", agent'.handler # "none"
    PROVE  PathInv'
<1> USE DEF PathInv
<1>1. StagesSound'
  BY DEF StagesSound
<1>2. InputSound'
  BY DEF InputSound
<1> QED
  BY <1>1, <1>2

\* The process writes, and exits.
LEMMA ProcessKeeps ==
    ASSUME PathInv, ProcessExits \/ \E o \in Outputs : ProcessWrites(o)
    PROVE  PathInv'
<1> USE DEF PathInv
<1>1. agent.proc = "run" /\ UNCHANGED <<kind, client, link, front, wire>>
  BY DEF ProcessExits, ProcessWrites
<1>2. front.pump # "off" /\ agent.handler = "run"
  BY <1>1 DEF StagesSound, DownOrdered, TypeOK, Agents
<1>3. \A n \in 1 .. Len(wire.down) : wire.down[n] \notin Endings
  BY <1>2 DEF DownOrdered
<1>4. CASE ProcessExits
  <2>1. /\ agent'.proc = "exited" /\ agent'.handler = agent.handler /\ agent'.wrote = agent.wrote
        /\ agent'.pipe = agent.pipe /\ agent'.got = agent.got /\ agent'.stdin = agent.stdin
        /\ agent' \in Agents
    BY <1>4 DEF ProcessExits, TypeOK, Agents
  <2>2. TypeOK' /\ DownOrdered' /\ OutputSound' /\ ToldSound'
    BY <1>1, <1>2, <2>1 DEF TypeOK, DownOrdered, OutputSound, ToldSound, Listening
  <2> QED
    BY <1>1, <1>2, <2>1, <2>2, OutputStep
<1>5. ASSUME NEW o \in Outputs, ProcessWrites(o)
      PROVE  PathInv'
  <2> DEFINE w == agent.wrote[o] + 1
             p == agent.pipe[o] + 1
  <2>1. agent' = [agent EXCEPT !.wrote = [agent.wrote EXCEPT ![o] = w],
                               !.pipe = [agent.pipe EXCEPT ![o] = p]]
    BY <1>5 DEF ProcessWrites, TypeOK, Agents
  <2>2. w \in 0 .. MaxChunks /\ p \in 0 .. MaxChunks
    <3>1. /\ client.got[o] \in Nat /\ front.buf[o] \in Nat /\ agent.wrote[o] \in Nat
          /\ agent.pipe[o] \in Nat /\ Count(wire.down, o) \in Nat
      BY PathTyped
    <3>2. client.got[o] + front.buf[o] + Count(wire.down, o) + agent.pipe[o] <= agent.wrote[o]
      BY DEF OutputSound
    <3>3. agent.wrote[o] < MaxChunks
      BY <1>5 DEF ProcessWrites
    <3> QED
      BY <3>1, <3>2, <3>3
  <2>3. agent.wrote \in Chunks /\ agent.pipe \in Chunks
    BY PathTyped
  <2>4. [agent.wrote EXCEPT ![o] = w] \in Chunks /\ [agent.pipe EXCEPT ![o] = p] \in Chunks
    BY <2>2, <2>3 DEF Chunks
  <2>5. /\ agent'.wrote = [agent.wrote EXCEPT ![o] = w] /\ agent'.pipe = [agent.pipe EXCEPT ![o] = p]
        /\ agent'.proc = "run" /\ agent'.handler = "run"
        /\ agent'.got = agent.got /\ agent'.stdin = agent.stdin /\ agent' \in Agents
    BY <1>1, <1>2, <2>1, <2>4 DEF TypeOK, Agents
  <2>6. TypeOK' /\ DownOrdered' /\ ToldSound'
    BY <1>1, <1>2, <1>3, <2>5 DEF TypeOK, DownOrdered, ToldSound
  <2>7. OutputSound'
    <3>1. \A q \in Outputs : /\ q = o => agent'.wrote[q] = w /\ agent'.pipe[q] = p
                             /\ q # o => agent'.wrote[q] = agent.wrote[q] /\ agent'.pipe[q] = agent.pipe[q]
      BY <2>3, <2>5 DEF Chunks
    <3>2. ASSUME NEW q \in Outputs
          PROVE  /\ client.got[q] + front.buf[q] + Count(wire.down, q) + agent'.pipe[q] <= agent'.wrote[q]
                 /\ (wire.st = "open" /\ Listening) =>
                      client.got[q] + front.buf[q] + Count(wire.down, q) + agent'.pipe[q] = agent'.wrote[q]
      <4>1. /\ client.got[q] \in Nat /\ front.buf[q] \in Nat /\ agent.wrote[q] \in Nat
            /\ agent.pipe[q] \in Nat /\ Count(wire.down, q) \in Nat
        BY PathTyped
      <4>2. /\ client.got[q] + front.buf[q] + Count(wire.down, q) + agent.pipe[q] <= agent.wrote[q]
            /\ (wire.st = "open" /\ Listening) =>
                  client.got[q] + front.buf[q] + Count(wire.down, q) + agent.pipe[q] = agent.wrote[q]
        BY DEF OutputSound
      <4> QED
        BY <3>1, <4>1, <4>2
    <3>3. kind \notin TwoOutputs \cup FrontDoor => agent'.wrote["err"] = 0
      BY <1>5, <3>1 DEF ProcessWrites, OutputSound, Outputs, FrontDoor
    <3> QED
      BY <1>1, <1>3, <3>2, <3>3 DEF OutputSound, Listening, Endings
  <2> QED
    BY <1>1, <1>2, <2>5, <2>6, <2>7, OutputStep
<1> QED
  BY <1>4, <1>5

\* What one write of the agent does to the stream.
LEMMA Appended ==
    ASSUME NEW S, NEW d \in Seq(S), NEW y \in S
    PROVE  /\ d \o <<y>> = Append(d, y) /\ Append(d, y) \in Seq(S)
           /\ Len(Append(d, y)) = Len(d) + 1 /\ Append(d, y)[Len(d) + 1] = y
           /\ \A n \in 1 .. Len(d) : Append(d, y)[n] = d[n]
           /\ \A x : Count(Append(d, y), x) = IF y = x THEN Count(d, x) + 1 ELSE Count(d, x)
<1>1. \A x : Count(Append(d, y), x) = IF y = x THEN Count(d, x) + 1 ELSE Count(d, x)
  BY CountAppend
<1> QED
  BY <1>1

\* The copiers of stdout and stderr run until the handler has ended.
LEMMA CopyKeeps ==
    ASSUME PathInv, NEW o \in Outputs, ExecCopies(o) \/ AgentCopies(o)
    PROVE  PathInv'
<1> USE DEF PathInv
<1> DEFINE p == agent.pipe[o] - 1
           d == wire.down
<1>1. agent.pipe[o] > 0 /\ UNCHANGED <<kind, client, link, front>> /\ Copies(o)
  BY DEF ExecCopies, AgentCopies, Copies
<1>2. agent.pipe \in Chunks /\ agent.pipe[o] \in Nat /\ d \in Seq(Outputs \cup Endings)
  BY PathTyped
<1>3. agent' = [agent EXCEPT !.pipe = [agent.pipe EXCEPT ![o] = p]]
  BY <1>1 DEF Copies, TypeOK, Agents
<1>4. [agent.pipe EXCEPT ![o] = p] \in Chunks
  BY <1>1, <1>2 DEF Chunks
<1>5. /\ agent'.pipe = [agent.pipe EXCEPT ![o] = p] /\ agent'.wrote = agent.wrote
      /\ agent'.proc = agent.proc /\ agent'.handler = agent.handler
      /\ agent'.got = agent.got /\ agent'.stdin = agent.stdin /\ agent' \in Agents
  BY <1>3, <1>4 DEF TypeOK, Agents
<1>6. /\ front.pump # "off" /\ agent.handler # "done"
      /\ agent.proc # "none" /\ agent.handler # "none"
  <2>1. NoChunks[o] = 0
    BY DEF NoChunks
  <2> QED
    BY <1>1, <2>1 DEF StagesSound, DownOrdered
<1>7. \A n \in 1 .. Len(d) : d[n] \notin Endings
  BY <1>6 DEF DownOrdered
<1>8. /\ wire' \in Streams /\ wire'.st = wire.st /\ wire'.up = wire.up
      /\ wire'.down = IF wire.st = "open" THEN Append(d, o) ELSE d
  <2>1. Append(d, o) \in Seq(Outputs \cup Endings) /\ d \o <<o>> = Append(d, o)
    BY <1>2, Appended
  <2> QED
    BY <1>1, <2>1 DEF Copies, Put, TypeOK, Streams
<1>9. TypeOK'
  BY <1>1, <1>5, <1>8 DEF TypeOK
<1>10. \A n \in 1 .. Len(wire'.down) : wire'.down[n] \notin Endings
  <2>1. \A n \in 1 .. Len(Append(d, o)) : Append(d, o)[n] \notin Endings
    BY <1>2, <1>7, Appended DEF Outputs, Endings
  <2> QED
    BY <1>7, <1>8, <2>1
<1>11. DownOrdered'
  BY <1>1, <1>5, <1>6, <1>8, <1>10 DEF DownOrdered, Endings
<1>12. ToldSound'
  BY <1>1, <1>5, <1>8 DEF ToldSound
<1>13. OutputSound'
  <2>1. ASSUME NEW q \in Outputs
        PROVE  /\ client.got[q] + front.buf[q] + Count(wire'.down, q) + agent'.pipe[q] <= agent'.wrote[q]
               /\ (wire.st = "open" /\ Listening) =>
                    client.got[q] + front.buf[q] + Count(wire'.down, q) + agent'.pipe[q] = agent'.wrote[q]
    <3>1. /\ client.got[q] \in Nat /\ front.buf[q] \in Nat /\ agent.wrote[q] \in Nat
          /\ agent.pipe[q] \in Nat /\ Count(d, q) \in Nat
      BY PathTyped
    <3>2. /\ client.got[q] + front.buf[q] + Count(d, q) + agent.pipe[q] <= agent.wrote[q]
          /\ (wire.st = "open" /\ Listening) =>
                client.got[q] + front.buf[q] + Count(d, q) + agent.pipe[q] = agent.wrote[q]
      BY DEF OutputSound
    <3>3. agent'.pipe[q] = IF q = o THEN agent.pipe[q] - 1 ELSE agent.pipe[q]
      BY <1>2, <1>5 DEF Chunks
    <3>4. Count(wire'.down, q) = IF wire.st = "open" /\ q = o THEN Count(d, q) + 1 ELSE Count(d, q)
      BY <1>2, <1>8, Appended
    <3> QED
      BY <1>1, <1>5, <3>1, <3>2, <3>3, <3>4
  <2> QED
    BY <1>1, <1>5, <1>8, <1>10, <2>1 DEF OutputSound, Listening, Endings
<1> QED
  BY <1>1, <1>5, <1>6, <1>8, <1>9, <1>11, <1>12, <1>13, OutputStep

\* The handler ends once the process is gone and its output copied.
LEMMA EndKeeps ==
    ASSUME PathInv, ExecEnds \/ RunCommandEnds \/ RawEnds
    PROVE  PathInv'
<1> USE DEF PathInv
<1> DEFINE d == wire.down
           e == IF kind \in FrontDoor \cup {"exec"}
                THEN Append(Append(d, "exit"), "eof") ELSE Append(d, "eof")
<1>1. /\ agent.handler = "run" /\ agent.proc = "exited" /\ agent.pipe = NoChunks
      /\ agent' = [agent EXCEPT !.handler = "done", !.pipe = NoChunks]
      /\ wire' = Put(IF kind \in FrontDoor \cup {"exec"} THEN <<"exit", "eof">> ELSE <<"eof">>)
      /\ UNCHANGED <<kind, client, link, front>>
  BY DEF ExecEnds, RunCommandEnds, RawEnds, Ends, FrontDoor
<1>2. /\ agent'.pipe = agent.pipe /\ agent'.wrote = agent.wrote
      /\ agent'.proc = "exited" /\ agent'.handler = "done"
      /\ agent'.got = agent.got /\ agent'.stdin = agent.stdin /\ agent' \in Agents
  BY <1>1 DEF TypeOK, Agents
<1>3. front.pump # "off" /\ d \in Seq(Outputs \cup Endings)
  BY <1>1, PathTyped DEF StagesSound
<1>4. \A n \in 1 .. Len(d) : d[n] \notin Endings
  BY <1>1 DEF DownOrdered
<1>5. /\ e \in Seq(Outputs \cup Endings)
      /\ e = d \o (IF kind \in FrontDoor \cup {"exec"} THEN <<"exit", "eof">> ELSE <<"eof">>)
      /\ \A x \in Outputs : Count(e, x) = Count(d, x)
      /\ \A n, m \in 1 .. Len(e) : (n < m /\ e[n] \in Endings) => e[n] = "exit" /\ e[m] = "eof"
      /\ kind = "exec" => \A n \in 1 .. Len(e) : e[n] = "eof" => n > 1 /\ e[n - 1] = "exit"
  <2>1. "exit" \in Outputs \cup Endings /\ "eof" \in Outputs \cup Endings /\ Len(d) \in Nat
    BY <1>3 DEF Endings
  <2>2. CASE kind \in FrontDoor \cup {"exec"}
    <3> DEFINE c == Append(d, "exit")
    <3>1. /\ c \in Seq(Outputs \cup Endings) /\ Len(c) = Len(d) + 1 /\ c[Len(d) + 1] = "exit"
          /\ \A n \in 1 .. Len(d) : c[n] = d[n]
          /\ \A x \in Outputs : Count(c, x) = Count(d, x)
      BY <1>3, <2>1, Appended DEF Outputs
    <3>2. d \o <<"exit", "eof">> = Append(c, "eof")
      BY <1>3
    <3> HIDE DEF c
    <3>3. /\ Append(c, "eof") \in Seq(Outputs \cup Endings) /\ Len(Append(c, "eof")) = Len(c) + 1
          /\ Append(c, "eof")[Len(c) + 1] = "eof"
          /\ \A n \in 1 .. Len(c) : Append(c, "eof")[n] = c[n]
          /\ \A x \in Outputs : Count(Append(c, "eof"), x) = Count(c, x)
      BY <3>1, <2>1, Appended DEF Outputs
    <3>4. PICK f : f = Append(c, "eof")
      OBVIOUS
    <3>5. e = f
      BY <2>2, <3>4 DEF c
    <3>6. Len(f) = Len(d) + 2 /\ f[Len(d) + 2] = "eof" /\ f[Len(d) + 1] = "exit"
          /\ \A n \in 1 .. Len(d) : f[n] = d[n]
      BY <2>1, <3>1, <3>3, <3>4
    <3>7. /\ \A n, m \in 1 .. Len(f) : (n < m /\ f[n] \in Endings) => f[n] = "exit" /\ f[m] = "eof"
          /\ \A n \in 1 .. Len(f) : f[n] = "eof" => n > 1 /\ f[n - 1] = "exit"
      <4>1. PICK k \in Nat : k = Len(d)
        BY <2>1
      <4>2. ASSUME NEW n \in 1 .. Len(f), f[n] \in Endings
            PROVE  (n = k + 1 /\ f[n] = "exit") \/ (n = k + 2 /\ f[n] = "eof")
        <5>1. n \in 1 .. k \/ n = k + 1 \/ n = k + 2
          BY <3>6, <4>1
        <5>2. n \in 1 .. k => f[n] \notin Endings
          BY <1>4, <3>6, <4>1
        <5> QED
          BY <3>6, <4>1, <4>2, <5>1, <5>2
      <4> QED
        BY <3>6, <4>1, <4>2 DEF Endings
    <3> HIDE DEF e
    <3>8. e \in Seq(Outputs \cup Endings) /\ \A x \in Outputs : Count(e, x) = Count(d, x)
      BY <3>1, <3>3, <3>4, <3>5
    <3>9. e = d \o (IF kind \in FrontDoor \cup {"exec"} THEN <<"exit", "eof">> ELSE <<"eof">>)
      BY <2>2, <3>2, <3>4, <3>5
    <3> QED
      BY <3>5, <3>7, <3>8, <3>9
  <2>3. CASE kind \notin FrontDoor \cup {"exec"}
    <3>1. PICK f : f = Append(d, "eof")
      OBVIOUS
    <3>2. /\ f \in Seq(Outputs \cup Endings) /\ Len(f) = Len(d) + 1 /\ f[Len(d) + 1] = "eof"
          /\ f = d \o <<"eof">> /\ \A n \in 1 .. Len(d) : f[n] = d[n]
          /\ \A x \in Outputs : Count(f, x) = Count(d, x)
      BY <1>3, <2>1, <3>1, Appended DEF Outputs
    <3>3. \A n, m \in 1 .. Len(f) : (n < m /\ f[n] \in Endings) => f[n] = "exit" /\ f[m] = "eof"
      BY <1>4, <2>1, <3>2
    <3>4. e = f
      BY <2>3, <3>1
    <3> HIDE DEF e
    <3> QED
      BY <2>3, <3>2, <3>3, <3>4
  <2> QED
    BY <2>2, <2>3
<1> HIDE DEF e
<1>6. /\ wire' \in Streams /\ wire'.st = wire.st /\ wire'.up = wire.up
      /\ wire'.down = IF wire.st = "open" THEN e ELSE d
  BY <1>1, <1>5 DEF Put, TypeOK, Streams
<1>7. TypeOK'
  BY <1>1, <1>2, <1>6 DEF TypeOK
<1>8. DownOrdered'
  <2>1. front.eof => wire.st # "open" /\ wire.st = "cut" /\ d = <<>>
    BY <1>1 DEF DownOrdered
  <2>2. CASE wire.st = "open"
    <3>1. wire'.down = e /\ ~front'.eof
      BY <1>1, <1>6, <2>1, <2>2
    <3>2. agent'.handler = "done" /\ agent'.proc = "exited" /\ agent'.pipe = NoChunks /\ UNCHANGED kind
      BY <1>1, <1>2
    <3> QED
      <4>1. PICK f : f = wire'.down
        OBVIOUS
      <4>2. /\ \A n, m \in 1 .. Len(f) : (n < m /\ f[n] \in Endings) => f[n] = "exit" /\ f[m] = "eof"
            /\ kind' = "exec" => \A n \in 1 .. Len(f) : f[n] = "eof" => n > 1 /\ f[n - 1] = "exit"
        BY <1>5, <3>1, <3>2, <4>1, ZenonT(30)
      <4> QED
        BY <3>1, <3>2, <4>1, <4>2 DEF DownOrdered
  <2>3. CASE wire.st # "open"
    <3>1. wire'.down = d /\ wire'.st = wire.st
      BY <1>6, <2>3
    <3>2. \A n \in 1 .. Len(wire'.down) : wire'.down[n] \notin Endings
      BY <1>4, <3>1
    <3> QED
      BY <1>1, <1>2, <2>1, <3>1, <3>2 DEF DownOrdered, Endings
  <2> QED
    BY <2>2, <2>3
<1>9. ToldSound'
  BY <1>1, <1>2, <1>6 DEF ToldSound
<1>10. OutputSound'
  <2>1. \A x \in Outputs : Count(wire'.down, x) = Count(d, x)
    BY <1>5, <1>6
  <2>2. ASSUME kind = "exec", Listening, NEW n \in 1 .. Len(wire'.down), wire'.down[n] = "exit", NEW q \in Outputs
        PROVE  client.got[q] + Count(wire'.down, q) = agent'.wrote[q]
    <3>1. wire.st = "open"
      BY <1>4, <1>6, <2>2 DEF Endings
    <3>2. front.buf[q] = 0 /\ agent.pipe[q] = 0
      BY <1>1, <2>2 DEF OutputSound, NoChunks, Hop
    <3>3. client.got[q] + front.buf[q] + Count(d, q) + agent.pipe[q] = agent.wrote[q]
      BY <2>2, <3>1 DEF OutputSound
    <3>4. client.got[q] \in Nat /\ Count(d, q) \in Nat
      BY PathTyped
    <3> QED
      BY <1>2, <2>1, <3>2, <3>3, <3>4
  <2> QED
    BY <1>1, <1>2, <1>6, <2>1, <2>2 DEF OutputSound, Listening
<1> QED
  BY <1>1, <1>2, <1>3, <1>6, <1>7, <1>8, <1>9, <1>10, OutputStep

\* What the agent says of a command that it could not start.
LEMMA SaidOrdered ==
    ASSUME NEW s \in {<<"err", "exit", "eof">>, <<"exit", "eof">>, <<"eof">>}
    PROVE  /\ s \in Seq(Outputs \cup Endings)
           /\ \A n, m \in 1 .. Len(s) : (n < m /\ s[n] \in Endings) => s[n] = "exit" /\ s[m] = "eof"
           /\ s # <<"eof">> => \A n \in 1 .. Len(s) : s[n] = "eof" => n > 1 /\ s[n - 1] = "exit"
           /\ Count(s, "out") = 0
           /\ Count(s, "err") = IF Head(s) = "err" THEN 1 ELSE 0
<1>1. /\ "err" \in Outputs \cup Endings /\ "exit" \in Outputs \cup Endings
      /\ "eof" \in Outputs \cup Endings
  BY DEF Outputs, Endings
<1>2. Cardinality({}) = 0 /\ Cardinality({1}) = 1
  BY FS_EmptySet, FS_Singleton, Zenon
<1>3. CASE s = <<"err", "exit", "eof">>
  <2>1. Len(s) = 3 /\ Head(s) = s[1] /\ s[1] = "err" /\ s[2] = "exit" /\ s[3] = "eof"
    BY <1>3
  <2>2. s \in Seq(Outputs \cup Endings)
    BY <1>1, <1>3
  <2>3. /\ \A n, m \in 1 .. Len(s) : (n < m /\ s[n] \in Endings) => s[n] = "exit" /\ s[m] = "eof"
        /\ s # <<"eof">> => \A n \in 1 .. Len(s) : s[n] = "eof" => n > 1 /\ s[n - 1] = "exit"
    BY <1>3, <2>1 DEF Endings
  <2>4. /\ {n \in 1 .. Len(s) : s[n] = "out"} = {}
        /\ {n \in 1 .. Len(s) : s[n] = "err"} = {1}
    BY <2>1
  <2>5. Count(s, "out") = 0 /\ Count(s, "err") = 1
    BY <1>2, <2>4, Zenon DEF Count
  <2> QED
    BY <2>1, <2>2, <2>3, <2>5
<1>4. CASE s = <<"exit", "eof">>
  <2>1. Len(s) = 2 /\ Head(s) = s[1] /\ s[1] = "exit" /\ s[2] = "eof"
    BY <1>4
  <2>2. s \in Seq(Outputs \cup Endings)
    BY <1>1, <1>4
  <2>3. /\ \A n, m \in 1 .. Len(s) : (n < m /\ s[n] \in Endings) => s[n] = "exit" /\ s[m] = "eof"
        /\ s # <<"eof">> => \A n \in 1 .. Len(s) : s[n] = "eof" => n > 1 /\ s[n - 1] = "exit"
    BY <1>4, <2>1 DEF Endings
  <2>4. /\ {n \in 1 .. Len(s) : s[n] = "out"} = {}
        /\ {n \in 1 .. Len(s) : s[n] = "err"} = {}
    BY <2>1
  <2> QED
    BY <1>2, <2>1, <2>2, <2>3, <2>4 DEF Count
<1>5. CASE s = <<"eof">>
  <2>1. Len(s) = 1 /\ Head(s) = s[1] /\ s[1] = "eof"
    BY <1>5
  <2>2. s \in Seq(Outputs \cup Endings)
    BY <1>1, <1>5
  <2>3. /\ \A n, m \in 1 .. Len(s) : (n < m /\ s[n] \in Endings) => s[n] = "exit" /\ s[m] = "eof"
        /\ s # <<"eof">> => \A n \in 1 .. Len(s) : s[n] = "eof" => n > 1 /\ s[n - 1] = "exit"
    BY <1>5, <2>1 DEF Endings
  <2>4. /\ {n \in 1 .. Len(s) : s[n] = "out"} = {}
        /\ {n \in 1 .. Len(s) : s[n] = "err"} = {}
    BY <2>1
  <2> QED
    BY <1>2, <2>1, <2>2, <2>3, <2>4 DEF Count
<1> QED
  BY <1>3, <1>4, <1>5

\* A command is started over a fresh stream, or is not and the agent says so.
LEMMA StartStep ==
    ASSUME PathInv, front.pump = "off", front.pc # "done", wire.st # "cut",
           NEW w \in Streams, w.st = "open", w.down = <<>>, w.up = <<>>,
           UNCHANGED <<kind, client, link>>,
           NEW pc \in {"proxy", "copy"}, pc = "proxy" <=> kind \in FrontDoor,
           front' = [front EXCEPT !.pc = pc, !.pump = "on"],
           \/ Started(w)
           \/ \E said \in {<<"err", "exit", "eof">>, <<"exit", "eof">>, <<"eof">>} :
                 /\ NotStarted(w, said)
                 /\ said = <<"eof">> => kind # "exec"
                 /\ Head(said) = "err" => kind \in TwoOutputs \cup FrontDoor
    PROVE  PathInv'
<1> USE DEF PathInv
<1>1. /\ front'.pc = pc /\ front'.pump = "on" /\ front'.buf = NoChunks /\ front'.fwd = 0
      /\ ~front'.exit /\ ~front'.eof /\ front' \in Fronts
  BY DEF StagesSound, TypeOK, Fronts
<1>2. /\ client.at # "half" /\ client.sent = 0 /\ client.got = NoChunks /\ ~client.exit
      /\ agent.proc = "none" /\ agent.wrote = NoChunks /\ agent.pipe = NoChunks
      /\ agent.got = 0 /\ agent.stdin = "open"
  BY DEF StagesSound
<1>3. ~(client.end = "ok" /\ client.at # "gone")
  BY <1>2 DEF ToldSound
<1>4. /\ Count(w.up, "in") = 0 /\ Count(w.up, "eof") = 0
      /\ \A o : Count(w.down, o) = 0
  BY CountEmpty
<1>5. CASE Started(w)
  <2>1. /\ agent'.proc = "run" /\ agent'.handler = "run" /\ agent'.wrote = NoChunks
        /\ agent'.pipe = NoChunks /\ agent'.got = 0 /\ agent'.stdin = "open" /\ agent' \in Agents
        /\ wire' = w
    BY <1>2, <1>5 DEF Started, TypeOK, Agents
  <2>2. TypeOK'
    BY <1>1, <2>1 DEF TypeOK
  <2>3. StagesSound'
    BY <1>1, <2>1 DEF StagesSound
  <2>4. DownOrdered'
    BY <1>1, <2>1 DEF DownOrdered
  <2>5. OutputSound'
    BY <1>1, <1>2, <1>4, <2>1 DEF OutputSound, NoChunks, Outputs
  <2>6. ToldSound'
    BY <1>2, <1>3 DEF ToldSound
  <2>7. InputSound'
    BY <1>1, <1>2, <1>4, <2>1 DEF InputSound
  <2> QED
    BY <2>2, <2>3, <2>4, <2>5, <2>6, <2>7
<1>6. ASSUME NEW said \in {<<"err", "exit", "eof">>, <<"exit", "eof">>, <<"eof">>},
             NotStarted(w, said), said = <<"eof">> => kind # "exec",
             Head(said) = "err" => kind \in TwoOutputs \cup FrontDoor
      PROVE  PathInv'
  <2> DEFINE e == IF Head(said) = "err" THEN 1 ELSE 0
             v == [NoChunks EXCEPT !["err"] = e]
  <2>0. e \in 0 .. MaxChunks /\ e \in Nat
    OBVIOUS
  <2>1. v \in Chunks /\ v["out"] = 0 /\ v["err"] = e
    BY <2>0 DEF Chunks, NoChunks, Outputs
  <2>2. agent' = [agent EXCEPT !.proc = "exited", !.handler = "done", !.wrote = v]
    BY <1>2, <1>6 DEF NotStarted, TypeOK, Agents
  <2> HIDE DEF v, e
  <2>3. /\ agent'.proc = "exited" /\ agent'.handler = "done" /\ agent'.wrote = v
        /\ agent'.pipe = NoChunks /\ agent'.got = 0 /\ agent'.stdin = "open" /\ agent' \in Agents
    BY <1>2, <2>1, <2>2 DEF TypeOK, Agents
  <2>4. wire'.st = "open" /\ wire'.down = said /\ wire'.up = <<>> /\ wire' \in Streams
    BY <1>6, SaidOrdered DEF NotStarted, Streams
  <2>5. TypeOK'
    BY <1>1, <2>3, <2>4 DEF TypeOK
  <2>6. StagesSound'
    BY <1>1, <2>3, <2>4 DEF StagesSound
  <2>7. DownOrdered'
    <3>1. PICK s \in {<<"err", "exit", "eof">>, <<"exit", "eof">>, <<"eof">>} : s = wire'.down
      BY <2>4
    <3>2. /\ \A n, m \in 1 .. Len(s) : (n < m /\ s[n] \in Endings) => s[n] = "exit" /\ s[m] = "eof"
          /\ kind' = "exec" => \A n \in 1 .. Len(s) : s[n] = "eof" => n > 1 /\ s[n - 1] = "exit"
      BY <1>6, <2>4, <3>1, SaidOrdered
    <3> QED
      BY <1>1, <2>3, <3>1, <3>2 DEF DownOrdered
  <2>8. OutputSound'
    <3>1. \A o \in Outputs : client.got[o] = 0 /\ front'.buf[o] = 0 /\ agent'.pipe[o] = 0
      BY <1>1, <1>2, <2>3 DEF NoChunks
    <3>2. \A o \in Outputs : Count(wire'.down, o) = agent'.wrote[o] /\ agent'.wrote[o] \in Nat
      BY <2>0, <2>1, <2>3, <2>4, SaidOrdered DEF Outputs, e
    <3>3. kind \notin TwoOutputs \cup FrontDoor => agent'.wrote["err"] = 0
      BY <1>6, <2>1, <2>3 DEF e
    <3> QED
      BY <1>1, <3>1, <3>2, <3>3 DEF OutputSound
  <2>9. ToldSound'
    BY <1>2, <1>3 DEF ToldSound
  <2>10. InputSound'
    BY <1>1, <1>2, <1>4, <2>3, <2>4 DEF InputSound
  <2> QED
    BY <2>5, <2>6, <2>7, <2>8, <2>9, <2>10
<1> QED
  BY <1>5, <1>6

\* The API's handlers and the gateway: a stream and a command, or an error.
LEMMA OpenKeeps ==
    ASSUME PathInv, ExecOpens \/ ShellOpens \/ SSHOpens \/ GatewayConnects \/ TunnelConnects
    PROVE  PathInv'
<1> USE DEF PathInv
<1>1. front.pc = "start" /\ kind \notin FrontDoor /\ wire.st = "none" /\ front.pump = "off"
  BY DEF ExecOpens, ShellOpens, SSHOpens, GatewayConnects, TunnelConnects, StagesSound, FrontDoor
<1>2. CASE Finish("error")
  BY <1>1, <1>2, FinishKeeps
<1>3. CASE ~Finish("error")
  <2>1. /\ link.up /\ Opens
        /\ \/ Started(OpenStream)
           \/ \E said \in {<<"err", "exit", "eof">>, <<"exit", "eof">>, <<"eof">>} :
                 /\ NotStarted(OpenStream, said)
                 /\ said = <<"eof">> => kind # "exec"
                 /\ Head(said) = "err" => kind \in TwoOutputs \cup FrontDoor
    <3>1. CASE ExecOpens
      BY <1>3, <3>1 DEF ExecOpens, HandleExec, TwoOutputs
    <3>2. CASE ShellOpens \/ SSHOpens \/ GatewayConnects \/ TunnelConnects
      BY <1>3, <3>2 DEF ShellOpens, SSHOpens, GatewayConnects, TunnelConnects, HandleShell, HandleSSH,
                        HandleForward
    <3> QED
      BY <3>1, <3>2
  <2>2. PICK w : w = OpenStream
    OBVIOUS
  <2>3. w \in Streams /\ w.st = "open" /\ w.down = <<>> /\ w.up = <<>>
    BY <1>1, <2>1, <2>2 DEF OpenStream, StagesSound, TypeOK, Streams
  <2>4. front' = [front EXCEPT !.pc = "copy", !.pump = "on"] /\ UNCHANGED <<kind, client, link>>
    BY <2>1 DEF Opens
  <2> QED
    BY <1>1, <2>1, <2>2, <2>3, <2>4, StartStep
<1> QED
  BY <1>2, <1>3

\* The front door opens a channel, or is refused when the stream is gone.
LEMMA ChannelKeeps ==
    ASSUME PathInv, ProxyChannelOpens
    PROVE  PathInv'
<1> USE DEF PathInv
<1>1. front.pc = "proxy" /\ kind \in FrontDoor /\ front.pump = "off" /\ UNCHANGED <<kind, link>>
  BY DEF ProxyChannelOpens, StagesSound
<1>2. CASE wire.st = "open" /\ HandleSession(wire) /\ front' = [front EXCEPT !.pump = "on"] /\ UNCHANGED client
  <2>1. wire \in Streams /\ wire.down = <<>> /\ wire.up = <<>>
    BY <1>1 DEF StagesSound, TypeOK
  <2>2. front' = [front EXCEPT !.pc = "proxy", !.pump = "on"]
    BY <1>1, <1>2 DEF TypeOK, Fronts
  <2>3. \/ Started(wire)
        \/ \E said \in {<<"err", "exit", "eof">>, <<"exit", "eof">>, <<"eof">>} :
              /\ NotStarted(wire, said)
              /\ said = <<"eof">> => kind # "exec"
              /\ Head(said) = "err" => kind \in TwoOutputs \cup FrontDoor
    BY <1>1, <1>2 DEF HandleSession
  <2>4. PICK w : w = wire
    OBVIOUS
  <2> QED
    BY <1>1, <1>2, <2>1, <2>2, <2>3, <2>4, StartStep
<1>3. CASE /\ wire.st = "cut" /\ client.end = "no" /\ client' = [client EXCEPT !.end = "error"]
           /\ UNCHANGED <<front, wire, agent>>
  <2>1. TypeOK'
    BY <1>1, <1>3 DEF TypeOK, Clients
  <2> QED
    BY <1>1, <1>3, <2>1, QuietStep DEF TypeOK, Clients
<1> QED
  BY <1>2, <1>3 DEF ProxyChannelOpens

(***************************************************************************)
(* Output, on its way to the client.                                       *)
(***************************************************************************)
\* Reading one item off the stream.
LEMMA DownTail ==
    ASSUME PathInv, wire.down # <<>>
    PROVE  /\ Head(wire.down) = wire.down[1] /\ Head(wire.down) \in Outputs \cup Endings
           /\ Tail(wire.down) \in Seq(Outputs \cup Endings) /\ 1 \in 1 .. Len(wire.down)
           /\ Len(wire.down) \in Nat /\ Len(Tail(wire.down)) = Len(wire.down) - 1
           /\ \A n \in 1 .. Len(Tail(wire.down)) :
                 n + 1 \in 1 .. Len(wire.down) /\ Tail(wire.down)[n] = wire.down[n + 1]
           /\ Head(wire.down) = "eof" => Tail(wire.down) = <<>>
           /\ \A o \in Outputs :
                 /\ Count(Tail(wire.down), o) \in Nat
                 /\ Count(wire.down, o) = IF Head(wire.down) = o THEN Count(Tail(wire.down), o) + 1
                                          ELSE Count(Tail(wire.down), o)
<1> DEFINE d == wire.down
<1>1. d \in Seq(Outputs \cup Endings)
  BY PathTyped DEF PathInv
<1>2. /\ Head(d) = d[1] /\ Head(d) \in Outputs \cup Endings
      /\ Tail(d) \in Seq(Outputs \cup Endings) /\ 1 \in 1 .. Len(d) /\ Len(d) \in Nat
      /\ Len(Tail(d)) = Len(d) - 1
      /\ \A n \in 1 .. Len(Tail(d)) : n + 1 \in 1 .. Len(d) /\ Tail(d)[n] = d[n + 1]
  BY <1>1
<1>3. \A o : Count(d, o) = IF Head(d) = o THEN Count(Tail(d), o) + 1 ELSE Count(Tail(d), o)
  BY <1>1, CountTail
<1>4. \A o : Count(Tail(d), o) \in Nat
  BY <1>2, CountNat
<1>5. Head(d) = "eof" => Tail(d) = <<>>
  <2>0. \A t \in Seq(Outputs \cup Endings) : Len(t) = 0 => t = <<>>
    OBVIOUS
  <2>1. SUFFICES ASSUME Head(d) = "eof" PROVE Len(Tail(d)) = 0
    BY <1>2, <2>0
  <2>2. \A m \in 1 .. Len(d) : 1 < m => d[1] = "exit"
    BY <1>2, <2>1 DEF PathInv, DownOrdered, Endings
  <2>3. PICK k \in Nat : k = Len(d)
    BY <1>2
  <2>4. k >= 1 /\ ~(1 < k) /\ Len(Tail(d)) = k - 1
    BY <1>2, <2>1, <2>2, <2>3
  <2> QED
    BY <2>4
<1> QED
  BY <1>2, <1>3, <1>4, <1>5

\* Reading an item of output leaves the rest in order.
LEMMA TailOrdered ==
    ASSUME PathInv, wire.down # <<>>, UNCHANGED <<kind, agent>>,
           wire'.down = Tail(wire.down), wire'.st = wire.st,
           front'.pc = front.pc, front'.eof = front.eof, kind # "exec" \/ Head(wire.down) \in Outputs
    PROVE  DownOrdered'
<1> USE DEF PathInv
<1> DEFINE d == wire.down
           t == wire'.down
<1>1. \A n \in 1 .. Len(t) : n + 1 \in 1 .. Len(d) /\ t[n] = d[n + 1] /\ n \in Nat
  BY DownTail
<1>2. ASSUME NEW n \in 1 .. Len(t)
      PROVE  /\ t[n] \in Endings => agent.handler = "done"
             /\ \A m \in 1 .. Len(t) : (n < m /\ t[n] \in Endings) => t[n] = "exit" /\ t[m] = "eof"
  <2>1. n + 1 \in 1 .. Len(d) /\ t[n] = d[n + 1]
    BY <1>1
  <2>2. /\ d[n + 1] \in Endings => agent.handler = "done"
        /\ \A m \in 1 .. Len(d) : (n + 1 < m /\ d[n + 1] \in Endings) => d[n + 1] = "exit" /\ d[m] = "eof"
    BY <2>1 DEF DownOrdered
  <2> QED
    BY <1>1, <2>1, <2>2
<1>3. ASSUME NEW n \in 1 .. Len(t), kind = "exec", front.pc = "copy", t[n] = "eof"
      PROVE  n > 1 /\ t[n - 1] = "exit"
  <2>1. n + 1 \in 1 .. Len(d) /\ d[n + 1] = "eof" /\ n \in Nat
    BY <1>1, <1>3
  <2>2. d[n] = "exit"
    BY <1>3, <2>1 DEF DownOrdered
  <2>3. d[1] \in Outputs
    BY <1>3, DownTail
  <2>4. n # 1
    BY <2>2, <2>3 DEF Outputs
  <2>5. n - 1 \in 1 .. Len(t) /\ (n - 1) + 1 = n
    BY <2>1, <2>4
  <2> QED
    BY <1>1, <2>2, <2>5
<1>4. front.eof => FALSE
  BY DEF DownOrdered
<1> QED
  BY <1>2, <1>3, <1>4 DEF DownOrdered

\* What does not occur is not counted.
LEMMA CountNone ==
    ASSUME NEW S, NEW s \in Seq(S), NEW x, \A n \in 1 .. Len(s) : s[n] # x
    PROVE  Count(s, x) = 0
<1>1. {n \in 1 .. Len(s) : s[n] = x} = {}
  OBVIOUS
<1> QED
  BY <1>1, FS_EmptySet, Zenon DEF Count

\* The accounts of one output, and what its numbers are.
LEMMA Account ==
    ASSUME PathInv, NEW o \in Outputs
    PROVE  /\ client.got[o] \in Nat /\ front.buf[o] \in Nat /\ agent.wrote[o] \in Nat
           /\ agent.pipe[o] \in Nat /\ Count(wire.down, o) \in Nat /\ agent.wrote[o] <= MaxChunks
           /\ client.got[o] + front.buf[o] + Count(wire.down, o) + agent.pipe[o] <= agent.wrote[o]
           /\ (wire.st = "open" /\ Listening) =>
                 client.got[o] + front.buf[o] + Count(wire.down, o) + agent.pipe[o] = agent.wrote[o]
<1>1. agent.wrote[o] <= MaxChunks
  BY PathTyped DEF PathInv, Chunks
<1> QED
  BY <1>1, PathTyped DEF PathInv, OutputSound

\* One chunk goes from the stream to the client: the exec loop, a raw copy.
LEMMA DeliverKeeps ==
    ASSUME PathInv, NEW o \in Outputs, Direct, wire.down # <<>>, Head(wire.down) = o,
           client.at # "gone", client' = Deliver(o), wire' = [wire EXCEPT !.down = Tail(@)],
           UNCHANGED <<kind, link, front, agent>>
    PROVE  PathInv'
<1> USE DEF PathInv
<1> DEFINE d == wire.down
<1>1. kind \notin Hop /\ kind \notin FrontDoor /\ front.pc = "copy" /\ front.pump # "off"
      /\ agent.proc # "none" /\ agent.handler # "none"
  BY DEF Direct, Hop, FrontDoor, StagesSound
<1>2. client.end = "no" /\ Listening
  BY <1>1 DEF ToldSound, Listening
<1>3. /\ Tail(d) \in Seq(Outputs \cup Endings)
      /\ \A q \in Outputs : /\ Count(Tail(d), q) \in Nat
                            /\ Count(d, q) = IF q = o THEN Count(Tail(d), q) + 1 ELSE Count(Tail(d), q)
  BY DownTail
<1>4. client.got \in Chunks /\ client.got[o] + 1 \in 0 .. MaxChunks
  <2>1. /\ client.got[o] \in Nat /\ front.buf[o] \in Nat /\ agent.pipe[o] \in Nat /\ agent.wrote[o] \in Nat
        /\ Count(d, o) \in Nat /\ agent.wrote[o] <= MaxChunks
        /\ client.got[o] + front.buf[o] + Count(d, o) + agent.pipe[o] <= agent.wrote[o]
    BY Account
  <2>2. Count(d, o) >= 1
    BY <1>3
  <2>3. client.got[o] + 1 \in 0 .. MaxChunks
    <3>1. ASSUME NEW a \in Nat, NEW b \in Nat, NEW c \in Nat, NEW p \in Nat, NEW w \in Nat,
                 a + b + c + p <= w, c >= 1, w <= MaxChunks
          PROVE  a + 1 \in 0 .. MaxChunks
      BY <3>1
    <3> QED
      BY <2>1, <2>2, <3>1
  <2> QED
    BY <2>3, PathTyped
<1>5. [client.got EXCEPT ![o] = client.got[o] + 1] \in Chunks
  BY <1>4 DEF Chunks
<1>6. /\ client'.got = [client.got EXCEPT ![o] = client.got[o] + 1] /\ client'.at = client.at
      /\ client'.sent = client.sent /\ client'.exit = client.exit /\ client'.end = client.end
      /\ client' \in Clients
  <2>1. client' = [client EXCEPT !.got = [client.got EXCEPT ![o] = client.got[o] + 1]]
    BY DEF Deliver, TypeOK, Clients
  <2> QED
    BY <1>5, <2>1 DEF TypeOK, Clients
<1>7. wire' \in Streams /\ wire'.down = Tail(d) /\ wire'.up = wire.up /\ wire'.st = wire.st
  BY <1>3 DEF TypeOK, Streams
<1>8. TypeOK'
  BY <1>6, <1>7 DEF TypeOK
<1>9. DownOrdered'
  BY <1>7, TailOrdered
<1>10. OutputSound'
  <2>1. ASSUME NEW q \in Outputs
        PROVE  client'.got[q] + Count(wire'.down, q) = client.got[q] + Count(d, q)
    <3>1. client'.got[q] = IF q = o THEN client.got[q] + 1 ELSE client.got[q]
      BY <1>4, <1>6 DEF Chunks
    <3>2. /\ client.got[q] \in Nat /\ Count(Tail(d), q) \in Nat /\ Count(wire'.down, q) = Count(Tail(d), q)
          /\ Count(d, q) = IF q = o THEN Count(Tail(d), q) + 1 ELSE Count(Tail(d), q)
      BY <1>3, <1>7, Account
    <3> QED
      BY <3>1, <3>2
  <2>2. ASSUME NEW q \in Outputs
        PROVE  client'.got[q] + front.buf[q] + Count(wire'.down, q) + agent.pipe[q]
               = client.got[q] + front.buf[q] + Count(d, q) + agent.pipe[q]
    <3>1. client'.got[q] \in Nat /\ Count(wire'.down, q) \in Nat
      BY <1>3, <1>4, <1>6, <1>7 DEF Chunks, Clients
    <3>2. client.got[q] \in Nat /\ front.buf[q] \in Nat /\ agent.pipe[q] \in Nat /\ Count(d, q) \in Nat
      BY Account
    <3>3. client'.got[q] + Count(wire'.down, q) = client.got[q] + Count(d, q)
      BY <2>1
    <3> QED
      BY <3>1, <3>2, <3>3, SMTT(30)
  <2>3. (\E n \in 1 .. Len(wire'.down) : wire'.down[n] = "exit") => \E n \in 1 .. Len(d) : d[n] = "exit"
    BY <1>7, DownTail
  <2>4. Listening' <=> Listening
    BY <1>6 DEF Listening
  <2> QED
    BY <1>7, <2>1, <2>2, <2>3, <2>4 DEF OutputSound
<1>11. ToldSound'
  BY <1>1, <1>2, <1>6, <1>7 DEF ToldSound
<1> QED
  BY <1>1, <1>6, <1>7, <1>8, <1>9, <1>10, <1>11, OutputStep

\* An exec's exit frame: all output is there, and the handler returns.
LEMMA ExitKeeps ==
    ASSUME PathInv, Direct, kind = "exec", wire.down # <<>>, Head(wire.down) = "exit",
           front' = [front EXCEPT !.pc = "done"], wire' = Shut, UNCHANGED <<kind, link, agent>>,
           client' = IF client.at = "gone" THEN client ELSE [client EXCEPT !.exit = TRUE, !.end = "ok"]
    PROVE  PathInv'
<1> USE DEF PathInv
<1> DEFINE d == wire.down
<1>1. front.pc = "copy" /\ front.pump # "off" /\ kind \notin FrontDoor /\ kind \notin Hop
      /\ agent.proc = "exited" /\ agent.handler = "done"
  BY DownTail DEF Direct, Hop, FrontDoor, StagesSound, DownOrdered, Endings
<1>2. client.end = "no" /\ (client.at # "gone" => Listening)
  BY <1>1 DEF ToldSound, Listening
<1>3. /\ front'.pc = "done" /\ front'.buf = front.buf /\ front'.fwd = front.fwd
      /\ front'.exit = front.exit /\ front'.eof = front.eof /\ front'.pump = front.pump
      /\ front' \in Fronts
  BY DEF TypeOK, Fronts
<1>4. /\ wire' \in Streams /\ wire'.up = wire.up
      /\ wire'.st = (IF wire.st = "open" THEN "shut" ELSE wire.st)
      /\ wire'.down = (IF wire.st = "open" THEN <<>> ELSE d)
  BY ShutTyped
<1>5. /\ client'.at = client.at /\ client'.sent = client.sent /\ client'.got = client.got
      /\ client' \in Clients
      /\ client.at # "gone" => client'.exit /\ client'.end = "ok"
      /\ client.at = "gone" => client' = client
  BY DEF TypeOK, Clients
<1>6. TypeOK'
  BY <1>3, <1>4, <1>5 DEF TypeOK
<1>7. DownOrdered'
  <2>1. CASE wire.st = "open"
    BY <1>1, <1>3, <1>4, <2>1 DEF DownOrdered
  <2>2. CASE wire.st # "open"
    BY <1>1, <1>3, <1>4, <2>2 DEF DownOrdered
  <2> QED
    BY <2>1, <2>2
<1>8. ~Listening'
  BY <1>2, <1>5 DEF Listening
<1>9. OutputSound'
  <2>1. \A o \in Outputs : Count(wire'.down, o) <= Count(d, o) /\ Count(wire'.down, o) \in Nat
    BY <1>4, Account, CountEmpty
  <2>2. ASSUME NEW o \in Outputs
        PROVE  client.got[o] + front.buf[o] + Count(wire'.down, o) + agent.pipe[o] <= agent.wrote[o]
    BY <2>1, Account
  <2> QED
    BY <1>3, <1>5, <1>8, <2>2 DEF OutputSound
<1>10. client.at # "gone" => client.got = agent.wrote
  <2>1. SUFFICES ASSUME client.at # "gone", NEW o \in Outputs PROVE client.got[o] = agent.wrote[o]
    BY PathTyped DEF Chunks
  <2>2. client.got[o] + Count(d, o) = agent.wrote[o]
    BY <1>2, <2>1, DownTail DEF OutputSound
  <2>3. \A n \in 1 .. Len(d) : d[n] # o
    <3>1. \A m \in 1 .. Len(d) : 1 < m => d[m] = "eof"
      BY DownTail DEF DownOrdered, Endings
    <3> QED
      BY <3>1, DownTail DEF Outputs
  <2>4. Count(d, o) = 0
    BY <2>3, PathTyped, CountNone
  <2> QED
    BY <2>2, <2>4, Account
<1>11. ToldSound'
  BY <1>1, <1>2, <1>3, <1>4, <1>5, <1>10 DEF ToldSound
<1> QED
  BY <1>1, <1>3, <1>4, <1>5, <1>6, <1>7, <1>9, <1>11, OutputStep

\* The exec loop: frames, the exit frame, a stream that ends without one.
LEMMA ExecKeeps ==
    ASSUME PathInv, ExecRelays \/ ExecBreaks
    PROVE  PathInv'
<1>1. CASE ExecRelays
  <2>1. Direct /\ kind = "exec" /\ wire.down # <<>>
    BY <1>1 DEF ExecRelays
  <2>2. PICK f : f = Head(wire.down)
    OBVIOUS
  <2>3. CASE /\ f \in Outputs /\ client.at # "gone" /\ client' = Deliver(f)
             /\ wire' = [wire EXCEPT !.down = Tail(@)] /\ UNCHANGED <<kind, link, front, agent>>
    BY <2>1, <2>2, <2>3, DeliverKeeps
  <2>4. CASE Finish("error")
    BY <2>4, FinishKeeps
  <2>5. CASE /\ f = "exit" /\ front' = [front EXCEPT !.pc = "done"]
             /\ client' = (IF client.at = "gone" THEN client ELSE [client EXCEPT !.exit = TRUE, !.end = "ok"])
             /\ wire' = Shut /\ UNCHANGED <<kind, link, agent>>
    BY <2>1, <2>2, <2>5, ExitKeeps
  <2> QED
    BY <1>1, <2>2, <2>3, <2>4, <2>5 DEF ExecRelays
<1>2. CASE ExecBreaks
  <2>1. PICK how \in {"ok", "error"} : Finish(how)
    BY <1>2 DEF ExecBreaks
  <2>2. wire.st = "cut"
    <3>1. CASE wire.down = <<>>
      BY <1>2, <3>1 DEF ExecBreaks
    <3>2. CASE wire.down = <<"eof">>
      <4>1. Len(wire.down) = 1 /\ wire.down[1] = "eof"
        BY <3>2
      <4> QED
        BY <1>2, <4>1 DEF ExecBreaks, Direct, PathInv, DownOrdered
    <3> QED
      BY <1>2, <3>1, <3>2 DEF ExecBreaks
  <2> QED
    BY <2>1, <2>2, FinishKeeps
<1> QED
  BY <1>1, <1>2

\* The raw copies: the end of the stream is behind the last chunk.
LEMMA RawKeeps ==
    ASSUME PathInv, ShellRelays \/ SSHRelays \/ GatewayRelays
    PROVE  PathInv'
<1> USE DEF PathInv
<1>1. Direct /\ RawRelays /\ kind \notin Hop /\ kind # "exec" /\ kind \notin FrontDoor /\ front.pc = "copy"
  BY DEF ShellRelays, SSHRelays, GatewayRelays, RawRelays, Direct, Hop, FrontDoor
<1>2. CASE /\ wire.down # <<>> /\ Head(wire.down) = "out" /\ client.at # "gone"
           /\ client' = Deliver("out") /\ wire' = [wire EXCEPT !.down = Tail(@)]
           /\ UNCHANGED <<kind, link, front, agent>>
  <2>1. PICK o \in Outputs : o = "out"
    BY DEF Outputs
  <2> QED
    BY <1>1, <1>2, <2>1, DeliverKeeps
<1>3. ASSUME Finish("ok"), \/ wire.down # <<>> /\ Head(wire.down) = "eof"
                           \/ wire.down = <<>> /\ wire.st = "cut"
                           \/ client.at = "gone"
      PROVE  PathInv'
  <2>1. ASSUME Listening, wire.st # "cut", NEW o \in Outputs
        PROVE  agent.proc = "exited" /\ client.got[o] = agent.wrote[o]
    <3>1. wire.down # <<>> /\ Head(wire.down) = "eof" /\ wire.st = "open"
      BY <1>1, <1>3, <2>1 DEF Listening, StagesSound
    <3>2. agent.handler = "done"
      BY <3>1, DownTail DEF DownOrdered, Endings
    <3>3. agent.proc = "exited" /\ agent.pipe[o] = 0
      BY <3>2 DEF DownOrdered, NoChunks
    <3>4. front.buf[o] = 0
      BY <1>1 DEF OutputSound, NoChunks
    <3>5. Tail(wire.down) = <<>> /\ "eof" # o
      BY <3>1, DownTail DEF Outputs
    <3>6. Count(wire.down, o) = Count(Tail(wire.down), o)
      BY <3>1, <3>5, DownTail
    <3>7. Count(wire.down, o) = 0
      BY <3>5, <3>6, CountEmpty
    <3>8. /\ client.got[o] \in Nat /\ agent.wrote[o] \in Nat
          /\ client.got[o] + front.buf[o] + Count(wire.down, o) + agent.pipe[o] = agent.wrote[o]
      BY <2>1, <3>1, Account
    <3> QED
      BY <3>3, <3>4, <3>7, <3>8
  <2>2. "out" \in Outputs /\ "err" \in Outputs
    BY DEF Outputs
  <2> QED
    BY <1>1, <1>3, <2>1, <2>2, FinishKeeps
<1> QED
  BY <1>1, <1>2, <1>3 DEF RawRelays

\* Handlers whose client has left end without more ado.
LEMMA LeftKeeps ==
    ASSUME PathInv, RouteReturns \/ TunnelNotices
    PROVE  PathInv'
BY FinishKeeps DEF RouteReturns, TunnelNotices, Listening

\* What the second hop sorts into its buffers stays accounted for.
LEMMA HopReadsKeeps ==
    ASSUME PathInv, HopReads
    PROVE  PathInv'
<1> USE DEF PathInv
<1> DEFINE d == wire.down
<1>1. /\ kind \in Hop /\ front.pump # "off" /\ ~front.eof /\ UNCHANGED <<kind, client, link, agent>>
      /\ kind # "exec" /\ agent.proc # "none" /\ agent.handler # "none"
  BY DEF HopReads, Relaying, Hop, StagesSound
<1>2. CASE d # <<>> /\ wire' = [wire EXCEPT !.down = Tail(@)]
  <2>1. /\ Tail(d) \in Seq(Outputs \cup Endings) /\ Head(d) \in Outputs \cup Endings
        /\ \A q \in Outputs : /\ Count(Tail(d), q) \in Nat
                              /\ Count(d, q) = IF Head(d) = q THEN Count(Tail(d), q) + 1 ELSE Count(Tail(d), q)
    BY <1>2, DownTail
  <2>2. wire' \in Streams /\ wire'.down = Tail(d) /\ wire'.up = wire.up /\ wire'.st = wire.st
    BY <1>2, <2>1 DEF TypeOK, Streams
  <2>3. ASSUME front' \in Fronts, front'.pc = front.pc, front'.fwd = front.fwd, front'.pump = front.pump,
               front'.eof => Head(d) = "eof",
               \A q \in Outputs : front'.buf[q] = IF Head(d) = q THEN front.buf[q] + 1 ELSE front.buf[q]
        PROVE  PathInv'
    <3>1. TypeOK'
      BY <1>1, <2>2, <2>3 DEF TypeOK
    <3>2. DownOrdered'
      <4>1. CASE Head(d) = "eof"
        <5>1. wire'.down = <<>> /\ agent.handler = "done"
          BY <1>2, <2>2, <4>1, DownTail DEF DownOrdered, Endings
        <5> QED
          BY <1>1, <5>1 DEF DownOrdered
      <4>2. CASE Head(d) # "eof"
        <5>1. front'.eof = front.eof
          BY <1>1, <2>3, <4>2, <3>1 DEF TypeOK, Fronts
        <5> QED
          BY <1>1, <1>2, <2>2, <2>3, <5>1, TailOrdered
      <4> QED
        BY <4>1, <4>2
    <3>3. OutputSound'
      <4>1. ASSUME NEW q \in Outputs
            PROVE  client.got[q] + front'.buf[q] + Count(wire'.down, q) + agent.pipe[q]
                   = client.got[q] + front.buf[q] + Count(d, q) + agent.pipe[q]
        <5>1. /\ client.got[q] \in Nat /\ front.buf[q] \in Nat /\ agent.pipe[q] \in Nat
              /\ Count(Tail(d), q) \in Nat
          BY <2>1, Account
        <5>2. /\ front'.buf[q] = IF Head(d) = q THEN front.buf[q] + 1 ELSE front.buf[q]
              /\ Count(d, q) = IF Head(d) = q THEN Count(Tail(d), q) + 1 ELSE Count(Tail(d), q)
              /\ Count(wire'.down, q) = Count(Tail(d), q)
          BY <2>1, <2>2, <2>3
        <5> QED
          BY <5>1, <5>2
      <4> QED
        BY <1>1, <2>2, <4>1 DEF OutputSound, Listening
    <3>4. ToldSound'
      BY <1>1, <2>2, <2>3 DEF ToldSound
    <3> QED
      BY <1>1, <2>2, <2>3, <3>1, <3>2, <3>3, <3>4, OutputStep
  <2>4. PICK f : f = Head(d)
    OBVIOUS
  <2>5. front' = CASE f \in Outputs -> [front EXCEPT !.buf = [front.buf EXCEPT ![f] = front.buf[f] + 1]]
                   [] f = "exit" -> [front EXCEPT !.exit = TRUE]
                   [] f = "eof" -> [front EXCEPT !.eof = TRUE]
    BY <1>2, <2>4 DEF HopReads, TypeOK, Fronts
  <2>6. CASE f \in Outputs
    <3>1. front' = [front EXCEPT !.buf = [front.buf EXCEPT ![f] = front.buf[f] + 1]]
      BY <2>5, <2>6 DEF Outputs
    <3>2. front.buf \in Chunks /\ front.buf[f] + 1 \in 0 .. MaxChunks
      <4>1. /\ client.got[f] \in Nat /\ front.buf[f] \in Nat /\ agent.pipe[f] \in Nat /\ agent.wrote[f] \in Nat
            /\ Count(d, f) \in Nat /\ agent.wrote[f] <= MaxChunks
            /\ client.got[f] + front.buf[f] + Count(d, f) + agent.pipe[f] <= agent.wrote[f]
        BY <2>6, Account
      <4>2. Count(d, f) >= 1
        BY <2>1, <2>4, <2>6
      <4>3. ASSUME NEW a \in Nat, NEW b \in Nat, NEW c \in Nat, NEW p \in Nat, NEW w \in Nat,
                   a + b + c + p <= w, c >= 1, w <= MaxChunks
            PROVE  b + 1 \in 0 .. MaxChunks
        BY <4>3
      <4> QED
        BY <4>1, <4>2, <4>3, PathTyped
    <3>3. [front.buf EXCEPT ![f] = front.buf[f] + 1] \in Chunks
      BY <2>6, <3>2 DEF Chunks
    <3>4. /\ front' \in Fronts /\ front'.pc = front.pc /\ front'.fwd = front.fwd /\ front'.pump = front.pump
          /\ front'.eof = front.eof /\ front'.buf = [front.buf EXCEPT ![f] = front.buf[f] + 1]
      BY <3>1, <3>3 DEF TypeOK, Fronts
    <3>5. \A q \in Outputs : front'.buf[q] = IF f = q THEN front.buf[q] + 1 ELSE front.buf[q]
      BY <3>2, <3>4 DEF Chunks
    <3> QED
      BY <1>1, <2>3, <2>4, <3>4, <3>5
  <2>7. CASE f \notin Outputs
    <3>1. front' = [front EXCEPT !.exit = TRUE] \/ (f = "eof" /\ front' = [front EXCEPT !.eof = TRUE])
      BY <2>1, <2>4, <2>5, <2>7 DEF Endings
    <3>2. /\ front' \in Fronts /\ front'.pc = front.pc /\ front'.fwd = front.fwd /\ front'.pump = front.pump
          /\ front'.buf = front.buf /\ (front'.eof => f = "eof")
      BY <1>1, <3>1 DEF TypeOK, Fronts
    <3> QED
      BY <2>3, <2>4, <2>7, <3>2
  <2> QED
    BY <2>6, <2>7
<1>3. CASE d = <<>> /\ wire.st = "cut" /\ front' = [front EXCEPT !.eof = TRUE] /\ UNCHANGED wire
  <2>1. /\ front' \in Fronts /\ front'.pc = front.pc /\ front'.fwd = front.fwd /\ front'.pump = front.pump
        /\ front'.buf = front.buf
    BY <1>3 DEF TypeOK, Fronts
  <2>2. TypeOK'
    BY <1>1, <1>3, <2>1 DEF TypeOK
  <2>3. DownOrdered'
    BY <1>1, <1>3, <2>1 DEF DownOrdered
  <2>4. OutputSound'
    BY <1>1, <1>3, <2>1 DEF OutputSound, Listening
  <2>5. ToldSound'
    BY <1>1, <1>3, <2>1 DEF ToldSound
  <2> QED
    BY <1>1, <1>3, <2>1, <2>2, <2>3, <2>4, <2>5, OutputStep
<1> QED
  BY <1>2, <1>3 DEF HopReads

\* The copier of one output of the second hop: a client that left or was told the end
\* gets no more.
LEMMA HopCopiesKeeps ==
    ASSUME PathInv, NEW o \in Outputs, HopCopies(o)
    PROVE  PathInv'
<1> USE DEF PathInv
<1>1. /\ kind \in Hop /\ kind # "exec" /\ front.pump # "off" /\ front.pc # "done"
      /\ UNCHANGED <<kind, link, wire, agent>>
      /\ agent.proc # "none" /\ agent.handler # "none"
  BY DEF HopCopies, Relaying, Hop, StagesSound
<1>2. /\ front.buf \in Chunks /\ client.got \in Chunks /\ front.buf[o] \in Nat /\ client.got[o] \in Nat
      /\ front.buf[o] > 0
  BY PathTyped DEF HopCopies
<1>3. front.buf[o] - 1 \in 0 .. MaxChunks /\ client.got[o] + 1 \in 0 .. MaxChunks
  <2>1. /\ client.got[o] \in Nat /\ front.buf[o] \in Nat /\ agent.pipe[o] \in Nat /\ agent.wrote[o] \in Nat
        /\ Count(wire.down, o) \in Nat /\ agent.wrote[o] <= MaxChunks
        /\ client.got[o] + front.buf[o] + Count(wire.down, o) + agent.pipe[o] <= agent.wrote[o]
    BY Account
  <2>2. ASSUME NEW a \in Nat, NEW b \in Nat, NEW c \in Nat, NEW p \in Nat, NEW w \in Nat,
               a + b + c + p <= w, b > 0, w <= MaxChunks
        PROVE  b - 1 \in 0 .. MaxChunks /\ a + 1 \in 0 .. MaxChunks
    BY <2>2
  <2> QED
    BY <1>2, <2>1, <2>2
<1>4. front' = [front EXCEPT !.buf = [front.buf EXCEPT ![o] = front.buf[o] - 1]]
  BY DEF HopCopies, TypeOK, Fronts
<1>5. /\ [front.buf EXCEPT ![o] = front.buf[o] - 1] \in Chunks
      /\ [client.got EXCEPT ![o] = client.got[o] + 1] \in Chunks
  BY <1>2, <1>3 DEF Chunks
<1>6. /\ front' \in Fronts /\ front'.pc = front.pc /\ front'.fwd = front.fwd /\ front'.pump = front.pump
      /\ front'.eof = front.eof /\ front'.buf = [front.buf EXCEPT ![o] = front.buf[o] - 1]
  BY <1>4, <1>5 DEF TypeOK, Fronts
<1>7. client' = IF Listening THEN [client EXCEPT !.got = [client.got EXCEPT ![o] = client.got[o] + 1]]
                ELSE client
  BY DEF HopCopies, Deliver, Listening, TypeOK, Clients
<1>8. /\ client' \in Clients /\ client'.at = client.at /\ client'.sent = client.sent
      /\ client'.exit = client.exit /\ client'.end = client.end
      /\ client'.got = IF Listening THEN [client.got EXCEPT ![o] = client.got[o] + 1] ELSE client.got
  BY <1>5, <1>7 DEF TypeOK, Clients
<1>9. TypeOK'
  BY <1>1, <1>6, <1>8 DEF TypeOK
<1>10. DownOrdered'
  BY <1>1, <1>6 DEF DownOrdered
<1>11. OutputSound'
  <2>1. Listening' <=> Listening
    BY <1>8 DEF Listening
  <2>2. ASSUME NEW q \in Outputs
        PROVE  /\ client'.got[q] + front'.buf[q] + Count(wire.down, q) + agent.pipe[q] <= agent.wrote[q]
               /\ (wire.st = "open" /\ Listening) =>
                     client'.got[q] + front'.buf[q] + Count(wire.down, q) + agent.pipe[q] = agent.wrote[q]
    <3>1. /\ client.got[q] \in Nat /\ front.buf[q] \in Nat /\ agent.pipe[q] \in Nat /\ agent.wrote[q] \in Nat
          /\ Count(wire.down, q) \in Nat
          /\ client.got[q] + front.buf[q] + Count(wire.down, q) + agent.pipe[q] <= agent.wrote[q]
          /\ (wire.st = "open" /\ Listening) =>
                client.got[q] + front.buf[q] + Count(wire.down, q) + agent.pipe[q] = agent.wrote[q]
      BY Account
    <3>2. /\ front'.buf[q] = IF q = o THEN front.buf[q] - 1 ELSE front.buf[q]
          /\ client'.got[q] = IF Listening /\ q = o THEN client.got[q] + 1 ELSE client.got[q]
      BY <1>2, <1>6, <1>8 DEF Chunks
    <3>3. q = o => front.buf[q] > 0
      BY <1>2
    <3>4. CASE q = o
      BY <3>1, <3>2, <3>3, <3>4
    <3>5. CASE q # o
      BY <3>1, <3>2, <3>5
    <3> QED
      BY <3>4, <3>5
  <2> QED
    BY <1>1, <2>1, <2>2 DEF OutputSound
<1>12. ToldSound'
  <2>1. client.end = "ok" => client' = client
    BY <1>7 DEF Listening
  <2> QED
    BY <1>1, <1>6, <1>8, <2>1 DEF ToldSound
<1> QED
  BY <1>1, <1>6, <1>8, <1>9, <1>10, <1>11, <1>12, OutputStep

\* The exit status of the second hop is passed on next to the output.
LEMMA HopExitKeeps ==
    ASSUME PathInv, HopForwardsExit
    PROVE  PathInv'
<1> USE DEF PathInv
<1>1. /\ kind \in Hop /\ kind # "exec" /\ front.pump # "off"
      /\ UNCHANGED <<kind, link, wire, agent>> /\ agent.proc # "none" /\ agent.handler # "none"
  BY DEF HopForwardsExit, Relaying, Hop, StagesSound
<1>2. /\ front' \in Fronts /\ front'.pc = front.pc /\ front'.fwd = front.fwd /\ front'.pump = front.pump
      /\ front'.eof = front.eof /\ front'.buf = front.buf
  BY DEF HopForwardsExit, TypeOK, Fronts
<1>3. /\ client' \in Clients /\ client'.at = client.at /\ client'.sent = client.sent
      /\ client'.got = client.got /\ client'.end = client.end
  BY DEF HopForwardsExit, TypeOK, Clients
<1>4. TypeOK'
  BY <1>1, <1>2, <1>3 DEF TypeOK
<1>5. DownOrdered' /\ OutputSound' /\ ToldSound'
  BY <1>1, <1>2, <1>3 DEF DownOrdered, OutputSound, ToldSound, Listening
<1> QED
  BY <1>1, <1>2, <1>3, <1>4, <1>5, OutputStep

\* The second hop ends a session behind its stdout.
LEMMA HopClosesKeeps ==
    ASSUME PathInv, HopCloses
    PROVE  PathInv'
<1> USE DEF PathInv
<1>1. /\ kind \in Hop /\ kind # "exec" /\ front.pump # "off" /\ front.eof /\ front.buf["out"] = 0
      /\ front.pc \in {"proxy", "copy"} /\ agent.proc # "none" /\ agent.handler # "none"
  BY DEF HopCloses, Relaying, Hop, StagesSound
<1>2. ASSUME Listening, wire.st # "cut"
      PROVE  agent.proc = "exited" /\ client.got["out"] = agent.wrote["out"]
  <2>1. wire.st = "open" /\ agent.handler = "done" /\ wire.down = <<>>
    BY <1>1, <1>2 DEF StagesSound, DownOrdered
  <2>2. agent.proc = "exited" /\ agent.pipe["out"] = 0 /\ "out" \in Outputs
    BY <2>1 DEF DownOrdered, NoChunks, Outputs
  <2>3. Count(wire.down, "out") = 0
    BY <2>1, CountEmpty
  <2>4. /\ client.got["out"] \in Nat /\ agent.wrote["out"] \in Nat
        /\ client.got["out"] + front.buf["out"] + Count(wire.down, "out") + agent.pipe["out"] = agent.wrote["out"]
    BY <1>2, <2>1, <2>2, Account
  <2> QED
    BY <1>1, <2>2, <2>3, <2>4
<1>3. CASE kind = "tunnel"
  <2>1. client.got["err"] = agent.wrote["err"]
    <3>1. agent.wrote["err"] = 0 /\ "err" \in Outputs
      BY <1>3 DEF OutputSound, TwoOutputs, FrontDoor, Outputs
    <3>2. /\ client.got["err"] \in Nat /\ front.buf["err"] \in Nat /\ agent.pipe["err"] \in Nat
          /\ Count(wire.down, "err") \in Nat
          /\ client.got["err"] + front.buf["err"] + Count(wire.down, "err") + agent.pipe["err"] <= agent.wrote["err"]
      BY <3>1, Account
    <3> QED
      BY <3>1, <3>2
  <2>2. Finish("ok")
    BY <1>3 DEF HopCloses
  <2> QED
    BY <1>1, <1>2, <2>1, <2>2, FinishKeeps
<1>4. CASE kind # "tunnel"
  <2>1. /\ client.end = "no" /\ client' = [client EXCEPT !.end = "ok"] /\ kind \in FrontDoor
        /\ UNCHANGED <<kind, link, front, wire, agent>>
    BY <1>1, <1>4 DEF HopCloses, Hop, FrontDoor
  <2>2. /\ client' \in Clients /\ client'.at = client.at /\ client'.sent = client.sent
        /\ client'.got = client.got /\ client'.exit = client.exit /\ client'.end = "ok"
    BY <2>1 DEF TypeOK, Clients
  <2>3. TypeOK'
    BY <2>1, <2>2 DEF TypeOK
  <2>4. DownOrdered'
    BY <2>1 DEF DownOrdered
  <2>5. OutputSound'
    BY <2>1, <2>2 DEF OutputSound, Listening
  <2>6. ToldSound'
    BY <1>1, <1>2, <2>1, <2>2 DEF ToldSound, Listening
  <2> QED
    BY <1>1, <2>1, <2>2, <2>3, <2>4, <2>5, <2>6, OutputStep
<1> QED
  BY <1>3, <1>4

(***************************************************************************)
(* The agent's connection drops.                                           *)
(***************************************************************************)
\* A prefix of the stream is left.  An exit frame that is among it has all the output
\* before it.
LEMMA DropKeeps ==
    ASSUME PathInv, AgentDrops
    PROVE  PathInv'
<1> USE DEF PathInv
<1>1. UNCHANGED <<kind, client, front, agent>> /\ link' \in Links
  <2>1. /\ link.drops + 1 \in 0 .. MaxDrops
        /\ link' = [link EXCEPT !.up = FALSE, !.drops = link.drops + 1]
    BY DEF AgentDrops, TypeOK, Links
  <2> QED
    BY <2>1 DEF AgentDrops, TypeOK, Links
<1>2. CASE wire.st # "open" /\ UNCHANGED wire
  <2>1. TypeOK'
    BY <1>1, <1>2 DEF TypeOK
  <2> QED
    BY <1>1, <1>2, <2>1, QuietStep DEF StagesSound
<1>3. ASSUME wire.st = "open", NEW k \in 0 .. Len(wire.down), NEW j \in 0 .. Len(wire.up),
             wire' = [st |-> "cut", down |-> SubSeq(wire.down, 1, k), up |-> SubSeq(wire.up, 1, j)]
      PROVE  PathInv'
  <2> DEFINE d == wire.down
             t == SubSeq(d, 1, k)
             u == SubSeq(wire.up, 1, j)
  <2>1. d \in Seq(Outputs \cup Endings) /\ wire.up \in Seq({"in", "eof"})
    BY PathTyped
  <2>2. /\ t \in Seq(Outputs \cup Endings) /\ Len(t) = k /\ \A n \in 1 .. k : t[n] = d[n] /\ n \in 1 .. Len(d)
        /\ Len(d) \in Nat
    BY <2>1
  <2>3. /\ u \in Seq({"in", "eof"}) /\ Len(u) = j /\ Len(wire.up) \in Nat
        /\ \A n \in 1 .. j : u[n] = wire.up[n] /\ n \in 1 .. Len(wire.up)
    BY <2>1
  <2>4. /\ \A x : Count(t, x) <= Count(d, x) /\ Count(t, x) \in Nat
        /\ \A x : (\A n \in k + 1 .. Len(d) : d[n] # x) => Count(t, x) = Count(d, x)
        /\ Count(u, "in") <= Count(wire.up, "in") /\ Count(u, "in") \in Nat
    BY <2>1, <2>2, <2>3, CountPrefix, CountNat
  <2>5. wire' \in Streams /\ wire'.st = "cut" /\ wire'.down = t /\ wire'.up = u
    BY <1>3, <2>2, <2>3 DEF Streams
  <2> HIDE DEF t, u
  <2>6. TypeOK'
    BY <1>1, <2>5 DEF TypeOK
  <2>7. StagesSound'
    <3>1. d = <<>> => t = <<>>
      BY <2>2
    <3>2. wire.up = <<>> => u = <<>>
      BY <2>3
    <3> QED
      BY <1>1, <1>3, <2>5, <3>1, <3>2 DEF StagesSound
  <2>8. DownOrdered'
    <3>1. d = <<>> => t = <<>>
      BY <2>2
    <3>2. ASSUME NEW n \in 1 .. k
          PROVE  /\ t[n] \in Endings => agent.handler = "done"
                 /\ \A m \in 1 .. k : (n < m /\ t[n] \in Endings) => t[n] = "exit" /\ t[m] = "eof"
                 /\ (kind = "exec" /\ front.pc = "copy" /\ t[n] = "eof") => n > 1 /\ t[n - 1] = "exit"
      <4>1. n \in 1 .. Len(d) /\ t[n] = d[n] /\ n \in Nat
        BY <2>2
      <4>2. n > 1 => n - 1 \in 1 .. k
        OBVIOUS
      <4>3. /\ d[n] \in Endings => agent.handler = "done"
            /\ \A m \in 1 .. Len(d) : (n < m /\ d[n] \in Endings) => d[n] = "exit" /\ d[m] = "eof"
            /\ (kind = "exec" /\ front.pc = "copy" /\ d[n] = "eof") => n > 1 /\ d[n - 1] = "exit"
        BY <4>1 DEF DownOrdered
      <4> QED
        BY <2>2, <4>1, <4>2, <4>3
    <3> QED
      BY <1>1, <2>2, <2>5, <3>1, <3>2 DEF DownOrdered
  <2>9. OutputSound'
    <3>1. ASSUME NEW o \in Outputs
          PROVE  client.got[o] + front.buf[o] + Count(t, o) + agent.pipe[o] <= agent.wrote[o]
      <4>1. /\ client.got[o] \in Nat /\ front.buf[o] \in Nat /\ agent.wrote[o] \in Nat /\ agent.pipe[o] \in Nat
            /\ Count(d, o) \in Nat
            /\ client.got[o] + front.buf[o] + Count(d, o) + agent.pipe[o] <= agent.wrote[o]
        BY Account
      <4>2. Count(t, o) <= Count(d, o) /\ Count(t, o) \in Nat
        BY <2>4
      <4> QED
        BY <4>1, <4>2, SMTT(30)
    <3>2. ASSUME kind = "exec", Listening, NEW n \in 1 .. k, t[n] = "exit", NEW o \in Outputs
          PROVE  client.got[o] + Count(t, o) = agent.wrote[o]
      <4>1. n \in 1 .. Len(d) /\ d[n] = "exit"
        BY <2>2, <3>2
      <4>2. \A m \in 1 .. Len(d) : n < m => d[m] = "eof"
        BY <4>1 DEF DownOrdered, Endings
      <4>3. \A m \in k + 1 .. Len(d) : d[m] # o
        <5>1. \A m \in k + 1 .. Len(d) : m \in 1 .. Len(d) /\ n < m
          BY <2>2
        <5> QED
          BY <4>2, <5>1 DEF Outputs
      <4>4. Count(t, o) = Count(d, o)
        BY <2>4, <4>3
      <4>5. client.got[o] + Count(d, o) = agent.wrote[o]
        BY <3>2, <4>1 DEF OutputSound
      <4> QED
        BY <4>4, <4>5
    <3> QED
      BY <1>1, <2>2, <2>5, <3>1, <3>2 DEF OutputSound, Listening
  <2>10. ToldSound'
    BY <1>1, <2>5 DEF ToldSound
  <2>11. InputSound'
    <3>1. agent.got + Count(u, "in") <= front.fwd
      <4>1. /\ agent.got \in Nat /\ front.fwd \in Nat /\ Count(wire.up, "in") \in Nat
            /\ agent.got + Count(wire.up, "in") <= front.fwd
        BY PathTyped DEF InputSound
      <4> QED
        BY <2>4, <4>1
    <3>2. \A n \in 1 .. Len(u) : u[n] = "eof" => n = Len(u)
      <4>1. \A n \in 1 .. j : u[n] = "eof" => n = Len(wire.up)
        BY <2>3 DEF InputSound
      <4> QED
        BY <2>3, <4>1
    <3> QED
      BY <1>1, <2>5, <3>1, <3>2 DEF InputSound
  <2> QED
    BY <2>6, <2>7, <2>8, <2>9, <2>10, <2>11
<1> QED
  BY <1>2, <1>3 DEF AgentDrops, Prefixes

(***************************************************************************)
(* The theorems.                                                           *)
(***************************************************************************)
\* Every step of daemon, agent, process, client and network keeps the accounts.
LEMMA PathStep == PathInv /\ [Next]_vars => PathInv'
<1> SUFFICES ASSUME PathInv, [Next]_vars PROVE PathInv'
  OBVIOUS
<1>1. CASE FrontNext
  <2>1. CASE \/ RouteReplies \/ RouteAttaches \/ WaitReady \/ DialAgentSSH \/ Handshake \/ Reply
    BY <2>1, WayKeeps
  <2>2. CASE RouteReturns \/ TunnelNotices
    BY <2>2, LeftKeeps
  <2>3. CASE ProxyChannelOpens
    BY <2>3, ChannelKeeps
  <2>4. CASE ExecOpens \/ ShellOpens \/ SSHOpens \/ GatewayConnects \/ TunnelConnects
    BY <2>4, OpenKeeps
  <2>5. CASE PumpsInput \/ PumpEnds
    BY <2>5, PumpKeeps
  <2>6. CASE ExecRelays \/ ExecBreaks
    BY <2>6, ExecKeeps
  <2>7. CASE ShellRelays \/ SSHRelays \/ GatewayRelays
    BY <2>7, RawKeeps
  <2>8. CASE HopReads
    BY <2>8, HopReadsKeeps
  <2>9. CASE HopForwardsExit
    BY <2>9, HopExitKeeps
  <2>10. CASE HopCloses
    BY <2>10, HopClosesKeeps
  <2>11. CASE \E o \in Outputs : HopCopies(o)
    BY <2>11, HopCopiesKeeps
  <2> QED
    BY <1>1, <2>1, <2>2, <2>3, <2>4, <2>5, <2>6, <2>7, <2>8, <2>9, <2>10, <2>11 DEF FrontNext
<1>2. CASE AgentNext
  <2>1. CASE ExecEnds \/ RunCommandEnds \/ RawEnds
    BY <2>1, EndKeeps
  <2>2. CASE AgentReads
    BY <2>2, AgentReadsKeeps
  <2>3. CASE \E o \in Outputs : ExecCopies(o) \/ AgentCopies(o)
    BY <2>3, CopyKeeps
  <2> QED
    BY <1>2, <2>1, <2>2, <2>3 DEF AgentNext
<1>3. CASE AgentConnects \/ BoxFails \/ ClientLeaves
  BY <1>3, WayKeeps
<1>4. CASE AgentDrops
  BY <1>4, DropKeeps
<1>5. CASE ExecClientSends \/ ClientSends \/ ClientHalfCloses
  BY <1>5, SendKeeps
<1>6. CASE ProcessExits \/ \E o \in Outputs : ProcessWrites(o)
  BY <1>6, ProcessKeeps
<1>7. CASE UNCHANGED vars
  <2>1. UNCHANGED <<kind, client, link, front, wire, agent>>
    BY <1>7 DEF vars
  <2> QED
    BY <2>1 DEF PathInv, TypeOK, StagesSound, DownOrdered, OutputSound, ToldSound, InputSound, Listening
<1> QED
  BY <1>1, <1>2, <1>3, <1>4, <1>5, <1>6, <1>7 DEF Next

\* In every session, whatever its kind, the chunks a process wrote and the chunks a
\* client sent are accounted for, at any length and with any number of drops.
THEOREM PathInvariant == Spec => []PathInv
BY PathInit, PathStep, PTL DEF Spec

\* The daemon ends no session for a client that listens, on a connection that held,
\* before all output is delivered (HopCloses, RawRelays, the exec loop).
THEOREM PathOutputComplete == Spec => []OutputComplete
<1>1. PathInv => OutputComplete
  BY DEF PathInv, ToldSound, OutputComplete
<1> QED
  BY <1>1, PathInvariant, PTL

\* A client of exec that has the exit code has all the output, also when the agent's
\* connection dropped in between (handleExec writes the exit frame last).
THEOREM PathExitIsLast == Spec => []ExitIsLast
<1>1. PathInv => ExitIsLast
  BY DEF PathInv, ToldSound, ExitIsLast
<1> QED
  BY <1>1, PathInvariant, PTL

\* hopbox exec ends with 0 for want of an exit code only after a dropped connection.
THEOREM PathExitReported == Spec => []ExitReported
<1>1. PathInv => ExitReported
  <2> SUFFICES ASSUME PathInv, kind = "exec", Verdict = "zero", client.at # "gone"
               PROVE  wire.st = "cut"
    BY DEF ExitReported
  <2>1. client.end \in {"no", "ok", "error"}
    BY DEF PathInv, TypeOK, Clients
  <2>2. client.end = "ok" /\ ~client.exit
    BY <2>1 DEF Verdict
  <2> QED
    BY <2>2 DEF PathInv, ToldSound
<1> QED
  BY <1>1, PathInvariant, PTL

\* A process whose stdin was closed for a client that half-closed has been given all
\* that the client sent.
THEOREM PathInputComplete == Spec => []InputComplete
<1>1. PathInv => InputComplete
  <2> SUFFICES ASSUME PathInv, agent.stdin = "closed", client.at = "half", wire.st = "open"
               PROVE  agent.got = client.sent
    BY DEF InputComplete
  <2>1. wire.up = <<>> /\ front.fwd = client.sent /\ agent.got + Count(wire.up, "in") = front.fwd
    BY DEF PathInv, InputSound
  <2>2. Count(wire.up, "in") = 0 /\ agent.got \in Nat
    BY <2>1, CountEmpty, PathTyped DEF PathInv
  <2> QED
    BY <2>1, <2>2
<1> QED
  BY <1>1, PathInvariant, PTL
=============================================================================
