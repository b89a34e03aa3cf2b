----------------------------- MODULE SessionPath -----------------------------
(***************************************************************************)
(* One session into a box, end to end: the client, the handler that serves *)
(* it in the daemon, the stream to the agent, the agent's handler and the  *)
(* process behind it.  The kinds of session differ in their relay:         *)
(*   exec     API Exec: frames of stdout, stderr and the exit code;        *)
(*   shell    API Shell: two raw copies to a pty;                          *)
(*   proxy    API SSH: two raw copies to the agent's SSH server;           *)
(*   ssh, pty the SSH front door: a channel relayed by separate goroutines *)
(*            for requests, stdin, stdout and stderr;                      *)
(*   forward  the gateway in hopboxd, HTTP to a service in the box;        *)
(*   tunnel   the same through hopbox-gw and hopboxd's tunnel server.      *)
(* Output is counted in chunks.  SSH and yamux are external: ordered, and  *)
(* when the agent's connection drops an unread suffix is lost.             *)
(***************************************************************************)
EXTENDS Naturals, Sequences, FiniteSets

CONSTANTS
    Kinds,      \* kinds of session to look at
    MaxChunks,  \* bound: chunks written to each of stdin, stdout and stderr
    MaxDrops    \* bound: times the agent's connection drops

ASSUME SessionAssumption ==
    /\ Kinds \subseteq {"exec", "shell", "proxy", "ssh", "pty", "forward", "tunnel"}
    /\ MaxChunks \in Nat \ {0} /\ MaxDrops \in Nat

VARIABLES
    kind,       \* the kind of this session
    client,     \* where the client is, what it sent, got and was told
    link,       \* the agent's connection to the hub and the box behind it
    front,      \* the handler in the daemon and what its relay buffers
    wire,       \* the yamux stream, in both directions
    agent       \* the agent's handler and its process

vars == <<kind, client, link, front, wire, agent>>

Outputs == {"out", "err"}
Chunks == [Outputs -> 0 .. MaxChunks]
NoChunks == [o \in Outputs |-> 0]

FrontDoor == {"ssh", "pty"}
Gateway == {"forward", "tunnel"}
TwoOutputs == {"exec", "ssh"}           \* stdout and stderr kept apart
ClosesStdin == {"exec", "ssh"}          \* the end of the client's input is passed on
Hop == {"ssh", "pty", "tunnel"}         \* a second hop between stream and client

Endings == {"exit", "eof"}

Clients == [at: {"here", "half", "gone"}, sent: 0 .. MaxChunks, got: Chunks,
            exit: BOOLEAN, end: {"no", "ok", "error"}]  \* end: how the daemon ended it
Links == [up: BOOLEAN, drops: 0 .. MaxDrops, failed: BOOLEAN]
Fronts == [pc: {"start", "wait", "dial", "shake", "proxy", "reply", "copy", "done"},
           att: BOOLEAN, buf: Chunks, exit: BOOLEAN, eof: BOOLEAN,
           fwd: 0 .. MaxChunks, pump: {"off", "on", "ended"}]
Streams == [st: {"none", "open", "cut", "shut"}, down: Seq(Outputs \cup Endings),
            up: Seq({"in", "eof"})]
Agents == [proc: {"none", "run", "exited"}, handler: {"none", "run", "done"},
           wrote: Chunks, pipe: Chunks, got: 0 .. MaxChunks, stdin: {"open", "closed"}]

TypeOK ==
    /\ kind \in Kinds /\ client \in Clients /\ link \in Links /\ front \in Fronts
    /\ wire \in Streams /\ agent \in Agents

Init ==
    /\ kind \in Kinds
    /\ client = [at |-> "here", sent |-> 0, got |-> NoChunks, exit |-> FALSE, end |-> "no"]
    /\ link = [up |-> FALSE, drops |-> 0, failed |-> FALSE]
    /\ front = [pc |-> "start", att |-> FALSE, buf |-> NoChunks, exit |-> FALSE,
                eof |-> FALSE, fwd |-> 0, pump |-> "off"]
    /\ wire = [st |-> "none", down |-> <<>>, up |-> <<>>]
    /\ agent = [proc |-> "none", handler |-> "none", wrote |-> NoChunks, pipe |-> NoChunks,
                got |-> 0, stdin |-> "open"]

-----------------------------------------------------------------------------
(***************************************************************************)
(* The agent's connection and the box.                                     *)
(***************************************************************************)
\* connectAndServe registers with the hub.
AgentConnects ==
    /\ ~link.up /\ ~link.failed
    /\ link' = [link EXCEPT !.up = TRUE]
    /\ UNCHANGED <<kind, client, front, wire, agent>>

Prefixes(s) == {SubSeq(s, 1, n) : n \in 0 .. Len(s)}

\* The yamux session ends: its streams read what has arrived, then EOF.
AgentDrops ==
    /\ link.up /\ link.drops < MaxDrops
    /\ link' = [link EXCEPT !.up = FALSE, !.drops = @ + 1]
    /\ \/ /\ wire.st = "open"
          /\ \E d \in Prefixes(wire.down), u \in Prefixes(wire.up) :
                wire' = [st |-> "cut", down |-> d, up |-> u]
       \/ wire.st # "open" /\ UNCHANGED wire
    /\ UNCHANGED <<kind, client, front, agent>>

BoxFails ==
    /\ ~link.up /\ ~link.failed
    /\ link' = [link EXCEPT !.failed = TRUE]
    /\ UNCHANGED <<kind, client, front, wire, agent>>

(***************************************************************************)
(* The client.                                                             *)
(***************************************************************************)
InSession == front.pc \in {"proxy", "copy"} /\ front.pump = "on"

Sends ==
    /\ client.at = "here" /\ InSession /\ client.sent < MaxChunks
    /\ client' = [client EXCEPT !.sent = @ + 1]
    /\ UNCHANGED <<kind, link, front, wire, agent>>

\* hopbox exec forwards its stdin.
ExecClientSends == kind = "exec" /\ Sends

\* hopbox shell's pump, hopbox proxy, an ssh client, an HTTP request body.
ClientSends == kind # "exec" /\ Sends

\* The end of the client's own stdin; hopbox shell does not pass it on.
ClientHalfCloses ==
    /\ client.at = "here" /\ InSession /\ kind \in ClosesStdin
    /\ client' = [client EXCEPT !.at = "half"]
    /\ UNCHANGED <<kind, link, front, wire, agent>>

\* The client is killed or hangs up; hopbox proxy does when either copy ends.
ClientLeaves ==
    /\ client.at # "gone"
    /\ client' = [client EXCEPT !.at = "gone"]
    /\ UNCHANGED <<kind, link, front, wire, agent>>

(***************************************************************************)
(* The daemon's end of a session: how = "error" when the handler returns   *)
(* one.  Its defers close the stream and give back the attachment.         *)
(***************************************************************************)
Shut == IF wire.st = "open" THEN [wire EXCEPT !.st = "shut", !.down = <<>>] ELSE wire

Finish(how) ==
    /\ front' = [front EXCEPT !.pc = "done", !.att = FALSE, !.buf = NoChunks]
    /\ client' = [client EXCEPT !.end = IF client.end = "no" /\ client.at # "gone" THEN how ELSE @]
    /\ wire' = Shut
    /\ UNCHANGED <<kind, link, agent>>

(***************************************************************************)
(* The SSH front door.                                                     *)
(***************************************************************************)
\* The images command, an unknown image, a spec or an engine error: no box.
RouteReplies ==
    /\ kind \in FrontDoor /\ front.pc = "start"
    /\ front' = [front EXCEPT !.pc = "reply"]
    /\ UNCHANGED <<kind, client, link, wire, agent>>

RouteAttaches ==
    /\ kind \in FrontDoor /\ front.pc = "start"
    /\ front' = [front EXCEPT !.pc = "wait", !.att = TRUE]
    /\ UNCHANGED <<kind, client, link, wire, agent>>

\* waitReady polls; its timer may fire in any poll interval.
WaitReady ==
    /\ front.pc = "wait"
    /\ \/ link.up /\ front' = [front EXCEPT !.pc = "dial"]
       \/ front' = [front EXCEPT !.pc = "reply"]
    /\ UNCHANGED <<kind, client, link, wire, agent>>

\* openStream: a fresh stream when the agent is connected.
OpenStream ==
    IF link.up THEN [wire EXCEPT !.st = "open"] ELSE wire

\* dialAgentSSH: the connection may have dropped since waitReady looked.
DialAgentSSH ==
    /\ front.pc = "dial"
    /\ wire' = OpenStream
    /\ front' = [front EXCEPT !.pc = IF link.up THEN "shake" ELSE "reply"]
    /\ UNCHANGED <<kind, client, link, agent>>

\* The SSH handshake with the agent, which refuses when it has no host key.
Handshake ==
    /\ front.pc = "shake"
    /\ \/ wire.st = "open" /\ front' = [front EXCEPT !.pc = "proxy"] /\ UNCHANGED wire
       \/ wire' = Shut /\ front' = [front EXCEPT !.pc = "reply"]
    /\ UNCHANGED <<kind, client, link, agent>>

\* replySession answers with a message and an exit code; replyAll goes on until
\* the client hangs up.
Reply ==
    /\ front.pc = "reply" /\ client.at # "gone" /\ client.end = "no"
    /\ client' = [client EXCEPT !.end = "error"]
    /\ UNCHANGED <<kind, link, front, wire, agent>>

\* Mutant of RouteReturns: an answered error path forgets the client's hang-up.
RouteReturnsFromProxy ==
    /\ front.pc = "proxy" /\ client.at = "gone"
    /\ Finish("ok")

\* The client's connection ends: route returns, and its defers run.
RouteReturns ==
    /\ front.pc \in {"proxy", "reply"} /\ client.at = "gone"
    /\ Finish("ok")

-----------------------------------------------------------------------------
(***************************************************************************)
(* The agent starts a process, or for a forward dials the service.  When   *)
(* that fails the handler says so, in its way, and ends.                   *)
(***************************************************************************)
Started(w) ==
    /\ agent' = [agent EXCEPT !.proc = "run", !.handler = "run"]
    /\ wire' = w

NotStarted(w, said) ==
    /\ agent' = [agent EXCEPT !.proc = "exited", !.handler = "done",
                              !.wrote["err"] = IF Head(said) = "err" THEN 1 ELSE 0]
    /\ wire' = [w EXCEPT !.down = said]

\* handleExec: a message on stderr and exit code 127.
HandleExec(w) == Started(w) \/ NotStarted(w, <<"err", "exit", "eof">>)

\* handleSession: one shell, exec or sftp; a pty that fails has a message.
HandleSession(w) ==
    \/ Started(w)
    \/ kind = "pty" /\ NotStarted(w, <<"err", "exit", "eof">>)
    \/ kind = "ssh" /\ NotStarted(w, <<"exit", "eof">>)

\* handleShell: the pty's failure is only logged.
HandleShell(w) == Started(w) \/ NotStarted(w, <<"eof">>)

\* handleSSH: the agent has no host key, or the SSH handshake fails.
HandleSSH(w) == Started(w) \/ NotStarted(w, <<"eof">>)

\* handleForward: nothing listens on the port.
HandleForward(w) == Started(w) \/ NotStarted(w, <<"eof">>)

\* proxyChannel opens a session channel on the agent and the client's request
\* starts the command; the open is refused when the stream is gone.
ProxyChannelOpens ==
    /\ front.pc = "proxy" /\ front.pump = "off" /\ client.at = "here"
    /\ \/ /\ wire.st = "open" /\ HandleSession(wire)
          /\ front' = [front EXCEPT !.pump = "on"]
          /\ UNCHANGED client
       \/ /\ wire.st = "cut" /\ client.end = "no"
          /\ client' = [client EXCEPT !.end = "error"]
          /\ UNCHANGED <<front, wire, agent>>
    /\ UNCHANGED <<kind, link>>

Opens == front' = [front EXCEPT !.pc = "copy", !.pump = "on"] /\ UNCHANGED <<kind, client, link>>

\* API Exec: the command named, the workspace resolved, its agent connected.
ExecOpens ==
    /\ kind = "exec" /\ front.pc = "start"
    /\ \/ link.up /\ HandleExec(OpenStream) /\ Opens
       \/ Finish("error")

\* API Shell.
ShellOpens ==
    /\ kind = "shell" /\ front.pc = "start"
    /\ \/ link.up /\ HandleShell(OpenStream) /\ Opens
       \/ Finish("error")

\* API SSH.
SSHOpens ==
    /\ kind = "proxy" /\ front.pc = "start"
    /\ \/ link.up /\ HandleSSH(OpenStream) /\ Opens
       \/ Finish("error")

\* ServeHTTP with the in-process connector: 404 without a route, 502 without an agent.
GatewayConnects ==
    /\ kind = "forward" /\ front.pc = "start"
    /\ \/ link.up /\ HandleForward(OpenStream) /\ Opens
       \/ Finish("error")

\* The same through the remote connector: the tunnel server's answer is a frame.
TunnelConnects ==
    /\ kind = "tunnel" /\ front.pc = "start"
    /\ \/ link.up /\ HandleForward(OpenStream) /\ Opens
       \/ Finish("error")

(***************************************************************************)
(* The process and the agent's handler.                                    *)
(***************************************************************************)
ProcessWrites(o) ==
    /\ agent.proc = "run" /\ agent.wrote[o] < MaxChunks
    /\ o = "out" \/ kind \in TwoOutputs
    /\ agent' = [agent EXCEPT !.wrote[o] = @ + 1, !.pipe[o] = @ + 1]
    /\ UNCHANGED <<kind, client, link, front, wire>>

\* The process exits, and with it every process that shares its output.
ProcessExits ==
    /\ agent.proc = "run"
    /\ agent' = [agent EXCEPT !.proc = "exited"]
    /\ UNCHANGED <<kind, client, link, front, wire>>

\* A chunk goes onto the stream, or nowhere once the stream is gone.
Put(s) == IF wire.st = "open" THEN [wire EXCEPT !.down = @ \o s] ELSE wire

Copies(o) ==
    /\ agent.pipe[o] > 0
    /\ agent' = [agent EXCEPT !.pipe[o] = @ - 1]
    /\ wire' = Put(<<o>>)
    /\ UNCHANGED <<kind, client, link, front>>

\* execWriter: whole frames, stdout and stderr under one mutex.
ExecCopies(o) == kind = "exec" /\ Copies(o)

\* The copies into an SSH channel, a pty's stream, a forward's.
AgentCopies(o) == kind # "exec" /\ Copies(o)

Ends(flushed, ending) ==
    /\ agent.handler = "run" /\ agent.proc = "exited" /\ flushed
    /\ agent' = [agent EXCEPT !.handler = "done", !.pipe = NoChunks]
    /\ wire' = Put(ending)
    /\ UNCHANGED <<kind, client, link, front>>

\* Mutant of ExecEnds: the exit frame does not wait for the copiers.
ExecEndsEarly == kind = "exec" /\ Ends(TRUE, <<"exit", "eof">>)

\* Mutant of ExecEnds: the stream ends without an exit frame.
ExecEndsUnreported == kind = "exec" /\ Ends(agent.pipe = NoChunks, <<"eof">>)

\* cmd.Wait returns when the process is gone and its output copied; then the exit
\* frame, then the end of the stream.
ExecEnds == kind = "exec" /\ Ends(agent.pipe = NoChunks, <<"exit", "eof">>)

\* Mutant of RunCommandEnds: cmd.Wait also waits for the copy of the client's input.
RunCommandEndsAfterInput ==
    kind \in FrontDoor /\ Ends(agent.pipe = NoChunks /\ agent.stdin = "closed", <<"exit", "eof">>)

\* runCommand and exitClose: the exit status, then the channel is closed.
RunCommandEnds == kind \in FrontDoor /\ Ends(agent.pipe = NoChunks, <<"exit", "eof">>)

\* handleShell and handleForward: the copy ends, the stream is closed.
RawEnds ==
    kind \notin FrontDoor \cup {"exec"} /\ Ends(agent.pipe = NoChunks, <<"eof">>)

\* The agent's stdin pump; an end of input closes the process's stdin, except
\* where the copy into a pty or a service just stops.
AgentReads ==
    /\ agent.proc = "run"
    /\ \/ /\ wire.up # <<>>
          /\ wire' = [wire EXCEPT !.up = Tail(@)]
          /\ agent' = IF Head(wire.up) = "in"
                      THEN [agent EXCEPT !.got = @ + 1]
                      ELSE [agent EXCEPT !.stdin = "closed"]
       \/ /\ wire.up = <<>> /\ wire.st \in {"cut", "shut"} /\ kind \in ClosesStdin
          /\ agent.stdin = "open"
          /\ agent' = [agent EXCEPT !.stdin = "closed"]
          /\ UNCHANGED wire
    /\ UNCHANGED <<kind, client, link, front>>

-----------------------------------------------------------------------------
(***************************************************************************)
(* Client to agent.                                                        *)
(***************************************************************************)
PumpsInput ==
    /\ InSession /\ front.fwd < client.sent
    /\ front' = [front EXCEPT !.fwd = @ + 1]
    /\ wire' = IF wire.st = "open" THEN [wire EXCEPT !.up = Append(@, "in")] ELSE wire
    /\ UNCHANGED <<kind, client, link, agent>>

\* Mutant of PumpEnds: the half-close of the client is not passed on.
PumpEndsSilently ==
    /\ InSession /\ kind \in ClosesStdin
    /\ \/ client.at = "half" /\ front.fwd = client.sent
       \/ client.at = "gone"
    /\ front' = [front EXCEPT !.pump = "ended"]
    /\ UNCHANGED <<kind, client, link, wire, agent>>

\* Mutant of PumpEnds: the half-close overtakes what was sent before it.
PumpEndsEarly ==
    /\ InSession /\ kind \in ClosesStdin /\ client.at # "here"
    /\ front' = [front EXCEPT !.pump = "ended"]
    /\ wire' = IF wire.st = "open" THEN [wire EXCEPT !.up = Append(@, "eof")] ELSE wire
    /\ UNCHANGED <<kind, client, link, agent>>

\* Recv fails, or the copy from the client's channel ends: a stdin-close frame, or
\* CloseWrite.  What a client that left had sent may be dropped.
PumpEnds ==
    /\ InSession /\ kind \in ClosesStdin
    /\ \/ client.at = "half" /\ front.fwd = client.sent
       \/ client.at = "gone"
    /\ front' = [front EXCEPT !.pump = "ended"]
    /\ wire' = IF wire.st = "open" THEN [wire EXCEPT !.up = Append(@, "eof")] ELSE wire
    /\ UNCHANGED <<kind, client, link, agent>>

(***************************************************************************)
(* Agent to client, one hop: the exec loop, the two copies of Shell and    *)
(* SSH, the reverse proxy.                                                 *)
(***************************************************************************)
Direct == kind \notin Hop /\ front.pc = "copy"

Deliver(o) == [client EXCEPT !.got[o] = @ + 1]

\* The exec loop sends each frame on; a send to a client that left ends it.
ExecRelays ==
    /\ Direct /\ kind = "exec" /\ wire.down # <<>>
    /\ LET f == Head(wire.down) IN
       \/ /\ f \in Outputs /\ client.at # "gone"
          /\ client' = Deliver(f)
          /\ wire' = [wire EXCEPT !.down = Tail(@)]
          /\ UNCHANGED <<kind, link, front, agent>>
       \/ /\ f \in Outputs /\ client.at = "gone"
          /\ Finish("error")
       \/ /\ f = "exit"
          /\ front' = [front EXCEPT !.pc = "done"]
          /\ client' = IF client.at = "gone" THEN client
                       ELSE [client EXCEPT !.exit = TRUE, !.end = "ok"]
          /\ wire' = Shut
          /\ UNCHANGED <<kind, link, agent>>

\* The stream ends or breaks without an exit frame: EOF, also of a break at a frame's
\* end, makes Exec return nil; a break within a frame is an error.
ExecBreaks ==
    /\ Direct /\ kind = "exec"
    /\ wire.down \in {<<>>, <<"eof">>} /\ (wire.down = <<>> => wire.st = "cut")
    /\ \E how \in (IF wire.down = <<>> THEN {"ok", "error"} ELSE {"ok"}) : Finish(how)

\* Chunks, then EOF; a client that left is noticed at once.
RawRelays ==
    /\ Direct
    /\ \/ /\ wire.down # <<>> /\ Head(wire.down) = "out" /\ client.at # "gone"
          /\ client' = Deliver("out")
          /\ wire' = [wire EXCEPT !.down = Tail(@)]
          /\ UNCHANGED <<kind, link, front, agent>>
       \/ /\ \/ wire.down # <<>> /\ Head(wire.down) = "eof"
             \/ wire.down = <<>> /\ wire.st = "cut"
             \/ client.at = "gone"
          /\ Finish("ok")

\* The two copies of API Shell and of API SSH, and the reverse proxy.
ShellRelays == kind = "shell" /\ RawRelays
SSHRelays == kind = "proxy" /\ RawRelays
GatewayRelays == kind = "forward" /\ RawRelays

(***************************************************************************)
(* Agent to client, two hops: the SSH connection to the agent (or the      *)
(* tunnel's bridge) sorts what arrives, and separate goroutines copy it    *)
(* on.                                                                     *)
(***************************************************************************)
Relaying == kind \in Hop /\ front.pump # "off" /\ front.pc \in {"proxy", "copy"}

HopReads ==
    /\ Relaying /\ ~front.eof
    /\ \/ /\ wire.down # <<>>
          /\ wire' = [wire EXCEPT !.down = Tail(@)]
          /\ LET f == Head(wire.down) IN
             front' = CASE f \in Outputs -> [front EXCEPT !.buf[f] = @ + 1]
                        [] f = "exit" -> [front EXCEPT !.exit = TRUE]
                        [] f = "eof" -> [front EXCEPT !.eof = TRUE]
       \/ /\ wire.down = <<>> /\ wire.st = "cut"
          /\ front' = [front EXCEPT !.eof = TRUE]
          /\ UNCHANGED wire
    /\ UNCHANGED <<kind, client, link, agent>>

HopCopies(o) ==
    /\ Relaying /\ front.buf[o] > 0
    /\ front' = [front EXCEPT !.buf[o] = @ - 1]
    /\ client' = IF client.at = "gone" \/ client.end # "no" THEN client ELSE Deliver(o)
    /\ UNCHANGED <<kind, link, wire, agent>>

\* forwardRequests passes the exit status on, before or after the output.
HopForwardsExit ==
    /\ Relaying /\ front.exit
    /\ front' = [front EXCEPT !.exit = FALSE]
    /\ client' = IF client.at = "gone" THEN client ELSE [client EXCEPT !.exit = TRUE]
    /\ UNCHANGED <<kind, link, wire, agent>>

\* Mutant of HopCloses: the channel closes as soon as the box's requests end.
HopClosesAtOnce ==
    /\ Relaying /\ front.eof /\ ~front.exit
    /\ IF kind = "tunnel" THEN Finish("ok")
       ELSE /\ client.end = "no"
            /\ client' = [client EXCEPT !.end = "ok"]
            /\ UNCHANGED <<kind, link, front, wire, agent>>

\* proxyChannel closes the client's channel once the requests have ended and the
\* stdout copy is done; it does not wait for the stderr copy.  The tunnel's bridge
\* closes both ends when one copy ends.
HopCloses ==
    /\ Relaying /\ front.eof /\ ~front.exit /\ front.buf["out"] = 0
    /\ IF kind = "tunnel" THEN Finish("ok")
       ELSE /\ client.end = "no"
            /\ client' = [client EXCEPT !.end = "ok"]
            /\ UNCHANGED <<kind, link, front, wire, agent>>

\* The gateway's side of a tunnel is closed: the bridge ends.
TunnelNotices ==
    /\ kind = "tunnel" /\ front.pc = "copy" /\ client.at = "gone"
    /\ Finish("ok")

\* How hopbox exec ends: with the code it was sent, with 0 if the stream just ended.
Verdict ==
    CASE client.end = "no" -> "waits"
      [] client.end = "error" -> "failure"
      [] client.end = "ok" -> IF client.exit THEN "code" ELSE "zero"

-----------------------------------------------------------------------------
FrontNext ==
    \/ RouteReplies \/ RouteAttaches \/ WaitReady \/ DialAgentSSH \/ Handshake
    \/ Reply \/ RouteReturns \/ ProxyChannelOpens
    \/ ExecOpens \/ ShellOpens \/ SSHOpens \/ GatewayConnects \/ TunnelConnects
    \/ PumpsInput \/ PumpEnds \/ ExecRelays \/ ExecBreaks
    \/ ShellRelays \/ SSHRelays \/ GatewayRelays
    \/ HopReads \/ HopForwardsExit \/ HopCloses \/ TunnelNotices
    \/ \E o \in Outputs : HopCopies(o)

AgentNext ==
    \/ ExecEnds \/ RunCommandEnds \/ RawEnds \/ AgentReads
    \/ \E o \in Outputs : ExecCopies(o) \/ AgentCopies(o)

Next ==
    \/ FrontNext \/ AgentNext
    \/ AgentConnects \/ AgentDrops \/ BoxFails
    \/ ExecClientSends \/ ClientSends \/ ClientHalfCloses \/ ClientLeaves
    \/ ProcessExits \/ \E o \in Outputs : ProcessWrites(o)

Spec == Init /\ [][Next]_vars

\* Goroutines that can run do; nothing is asked of the client, the process or the
\* network.
Fairness == WF_vars(FrontNext) /\ WF_vars(AgentNext)

FairSpec == Spec /\ Fairness

-----------------------------------------------------------------------------
(***************************************************************************)
(* The inductive invariant.  Output is accounted for: what the process     *)
(* wrote is with the client, in the relay, on the stream or in the pipe.   *)
(* Part of it may be missing once the client left, was told the end or the *)
(* connection dropped; then only the inequality is left, except for an     *)
(* exec whose exit frame survived the drop.                                *)
(***************************************************************************)
Count(s, x) == Cardinality({n \in 1 .. Len(s) : s[n] = x})

Listening == client.at # "gone" /\ client.end = "no"

\* Before a command is started nothing moves, and which states a kind goes through.
StagesSound ==
    /\ front.pc \in {"start", "wait", "dial"} => wire.st = "none"
    /\ front.pc \in {"proxy", "copy"} => wire.st \in {"open", "cut"}
    /\ front.pc \in {"start", "wait", "dial", "shake", "reply"} => front.pump = "off"
    /\ front.pc \in {"wait", "dial", "shake", "proxy", "reply"} => kind \in FrontDoor
    /\ front.pc = "copy" => front.pump # "off" /\ kind \notin FrontDoor
    /\ front.pump = "off" =>
        /\ wire.down = <<>> /\ wire.up = <<>>
        /\ client.at # "half" /\ client.sent = 0 /\ client.got = NoChunks /\ ~client.exit
        /\ front.buf = NoChunks /\ front.fwd = 0 /\ ~front.exit /\ ~front.eof
        /\ agent.wrote = NoChunks /\ agent.pipe = NoChunks /\ agent.got = 0
        /\ agent.stdin = "open"
    /\ front.pump = "off" <=> agent.proc = "none"
    /\ front.pump = "off" <=> agent.handler = "none"

\* The handler of the agent ends last: the exit code and then the end of the stream
\* are behind all output.
DownOrdered ==
    /\ agent.handler = "done" => agent.proc = "exited" /\ agent.pipe = NoChunks
    /\ \A n \in 1 .. Len(wire.down) :
        /\ wire.down[n] \in Endings => agent.handler = "done"
        /\ \A m \in 1 .. Len(wire.down) :
              (n < m /\ wire.down[n] \in Endings) => wire.down[n] = "exit" /\ wire.down[m] = "eof"
        /\ (kind = "exec" /\ front.pc = "copy" /\ wire.down[n] = "eof") =>
              n > 1 /\ wire.down[n - 1] = "exit"
    /\ front.eof => wire.down = <<>> /\ (agent.handler = "done" \/ wire.st = "cut")

OutputSound ==
    /\ \A o \in Outputs :
        /\ client.got[o] + front.buf[o] + Count(wire.down, o) + agent.pipe[o] <= agent.wrote[o]
        /\ (wire.st = "open" /\ Listening) =>
              client.got[o] + front.buf[o] + Count(wire.down, o) + agent.pipe[o] = agent.wrote[o]
        /\ (kind = "exec" /\ Listening /\ \E n \in 1 .. Len(wire.down) : wire.down[n] = "exit") =>
              client.got[o] + Count(wire.down, o) = agent.wrote[o]
    /\ kind \notin Hop => front.buf = NoChunks
    /\ kind \notin TwoOutputs \cup FrontDoor => agent.wrote["err"] = 0

ToldSound ==
    /\ (kind \notin FrontDoor /\ client.end # "no") => front.pc = "done"
    /\ (kind = "exec" /\ client.exit) =>
        client.got = agent.wrote /\ agent.proc = "exited" /\ front.pc = "done"
    /\ (client.end = "ok" /\ client.at # "gone" /\ wire.st # "cut") =>
        /\ agent.proc = "exited"
        /\ client.got["out"] = agent.wrote["out"]
        /\ kind \notin FrontDoor => client.got["err"] = agent.wrote["err"]
    /\ (kind = "exec" /\ client.end = "ok" /\ client.at # "gone") => client.exit \/ wire.st = "cut"

\* Input is counted in the same way; its end is passed on once, after all of it.
InputSound ==
    /\ front.fwd <= client.sent
    /\ agent.got + Count(wire.up, "in") <= front.fwd
    /\ wire.st = "open" => agent.got + Count(wire.up, "in") = front.fwd
    /\ (front.pump = "ended" /\ client.at # "gone") => client.at = "half" /\ front.fwd = client.sent
    /\ \A n \in 1 .. Len(wire.up) :
        wire.up[n] = "eof" => n = Len(wire.up) /\ (wire.st = "open" => front.pump = "ended")
    /\ (agent.stdin = "closed" /\ wire.st = "open") => wire.up = <<>> /\ front.pump = "ended"

PathInv == TypeOK /\ StagesSound /\ DownOrdered /\ OutputSound /\ ToldSound /\ InputSound

-----------------------------------------------------------------------------
\* A client whose session was ended by the daemon, on a connection that held, has
\* all the process wrote: the goroutines of the relay, the second hop and the close
\* do not overtake the output.  The stderr of an SSH session is left out: see
\* StderrComplete.
OutputComplete ==
    (client.end = "ok" /\ client.at # "gone" /\ wire.st # "cut") =>
        /\ client.got["out"] = agent.wrote["out"]
        /\ kind \notin FrontDoor => client.got["err"] = agent.wrote["err"]

\* "the exit payload is ... sent last": an exec client that has the exit code has all
\* the output, even if the connection drops meanwhile (handleExec, API Exec).
ExitIsLast ==
    (kind = "exec" /\ client.exit) => client.got = agent.wrote /\ agent.proc = "exited"

\* Input the process was not sent is never lost silently: when its stdin is closed
\* because the client half-closed, it has been given everything the client sent.
InputComplete ==
    (agent.stdin = "closed" /\ client.at = "half" /\ wire.st = "open") => agent.got = client.sent

\* A handler whose client has left returns, and with it the attachment that keeps
\* the box from being reaped, whatever stage the session was in: waiting for the
\* agent, in the handshake, answering an error.  Only an exec whose command still
\* runs may stay behind (the exec loop watches the stream, not the client).
HandlerReturns ==
    (client.at = "gone") ~>
        (front.pc = "done" /\ ~front.att) \/ (kind = "exec" /\ agent.proc = "run")

\* Once the process has exited the client is told, unless it left: nothing in the
\* relay waits for the client's end of input, which may never come (the deadlock the
\* comment in runCommand is about).
SessionEnds == (agent.proc = "exited") ~> (client.end # "no" \/ client.at = "gone")

\* A command that reads its input to the end gets that end, once the client
\* half-closed or left, or the stream broke.
InputEnds ==
    (kind \in ClosesStdin /\ agent.proc = "run" /\ client.at # "here") ~>
        (agent.stdin = "closed" \/ agent.proc = "exited")

\* hopbox exec takes the end of the stream for success (exec.go): without the
\* command's exit code it ends that way only if the agent's connection dropped.
ExitReported ==
    (kind = "exec" /\ Verdict = "zero" /\ client.at # "gone") => wire.st = "cut"

\* "exiting with the command's exit code": hopbox exec reports success only for a
\* command that has finished.
NoFalseSuccess == (kind = "exec" /\ Verdict = "zero") => agent.proc = "exited"

\* "scp/sftp/rsync and clean ssh host cmd all behave like a normal SSH host": a command
\* run through the front door loses none of its stderr.
StderrComplete ==
    (kind = "ssh" /\ client.end = "ok" /\ client.at # "gone" /\ wire.st # "cut") =>
        client.got["err"] = agent.wrote["err"]
=============================================================================
