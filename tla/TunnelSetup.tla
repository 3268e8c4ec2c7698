----------------------------- MODULE TunnelSetup ------------------------------
(* Setting up a tunnel: the client thread in ipReflect_start, the server's     *)
(* accept loop in main, and the child forked for the connection, in process.   *)
(*                                                                             *)
(*   client                            child                                   *)
(*     nonce           ---- TCP ---->    read_int                              *)
(*     read_int        <--- TCP -----    the nonce back                        *)
(*     read_int        <--- TCP -----    the UDP port it bound                 *)
(*     nonce           ---- UDP ---->    recvfrom; connects if the nonce fits  *)
(*     relay                             relay                                 *)
(*                                                                             *)
(* A session is one call of ipReflect_start, named s; its child has the same   *)
(* name.  Sessions are independent phones.  Processes die, the UDP network     *)
(* loses, reorders and duplicates, as far as Faults allows.                    *)
EXTENDS Naturals, Sequences, SequencesExt

CONSTANTS Sessions,      \* calls of ipReflect_start
          Flags,         \* nonces, the values of rand()
          Ports,         \* UDP ports of the server
          DefaultPort,   \* UDP_PORT
          Data,          \* the first bytes of any IP packet; not a nonce
          None,
          FreshFlags,    \* TRUE: no two sessions draw the same nonce
          Prompt,        \* sessions whose client thread keeps running
          Faults,        \* what may go wrong, see FaultKinds
          MaxFlight,     \* bound of the model: datagrams under way to a port
          MaxQueue       \* bound of the model: datagrams queued in a socket

FaultKinds == {"loss", "reorder", "dup", "crash", "net", "route", "accept"}

ASSUME FaultsAssumption == Faults \subseteq FaultKinds
ASSUME PortAssumption == DefaultPort \in Ports
ASSUME NoneAssumption == None \notin Sessions \cup Flags \cup Ports
ASSUME DataAssumption == Data \notin Flags \cup {None}
ASSUME FreshAssumption == FreshFlags \in BOOLEAN
ASSUME PromptAssumption == Prompt \subseteq Sessions
ASSUME FlightAssumption == MaxFlight \in Nat /\ MaxQueue \in Nat

VARIABLES
  cpc,       \* where the client thread of the session is
  flag,      \* flag_srandom in the client
  cport,     \* port in the client
  shut,      \* ipReflect_stop has shut the control connection down
  parent,    \* the server's accept loop
  backlog,   \* connections the kernel completed and main has not accepted
  spc,       \* where the child of the session is
  sflag,     \* flag_srandom in the child
  bound,     \* port in the child
  peer,      \* whom the child's UDP socket is connected to
  holds,     \* the control connections the child inherited or serves
  toChild,   \* control connection, client to child
  toClient,  \* control connection, child to client
  broken,    \* a call of the client has failed because the network did
  up,        \* datagrams on their way to the port the session's client knows
  sockq,     \* datagrams queued in the child's UDP socket
  down       \* senders of the datagrams on their way to the session's client

clientVars == <<cpc, flag, cport, shut>>
childVars == <<spc, sflag, bound, peer, holds>>
serverVars == <<parent, backlog>>
tcpVars == <<toChild, toClient, broken>>
udpVars == <<up, sockq, down>>
vars == <<clientVars, childVars, serverVars, tcpVars, udpVars>>

ClientRuns == {"writeFlag", "readEcho", "readPort", "tunnel", "hello", "relay"}
ClientEnds == {"failed", "exited", "killed", "returned"}
ChildRuns == {"readFlag", "echo", "bind", "writePort", "recv", "relay"}

TypeOK ==
  /\ cpc \in [Sessions -> {"idle"} \cup ClientRuns \cup ClientEnds]
  /\ flag \in [Sessions -> Flags \cup {None}]
  /\ cport \in [Sessions -> Ports \cup {None}]
  /\ shut \in [Sessions -> BOOLEAN]
  /\ parent \in {"up", "dead"}
  /\ backlog \in Seq(Sessions)
  /\ spc \in [Sessions -> {"none", "backlog", "dead"} \cup ChildRuns]
  /\ sflag \in [Sessions -> Flags \cup {None}]
  /\ bound \in [Sessions -> Ports \cup {None}]
  /\ peer \in [Sessions -> Sessions \cup {None}]
  /\ holds \in [Sessions -> SUBSET Sessions]
  /\ toChild \in [Sessions -> Seq(Flags)]
  /\ toClient \in [Sessions -> Seq(Flags \cup Ports)]
  /\ broken \in [Sessions -> BOOLEAN]
  /\ up \in [Sessions -> Seq(Flags \cup {Data})]
  /\ sockq \in [Sessions -> Seq(Sessions \X (Flags \cup {Data}))]
  /\ down \in [Sessions -> SUBSET Sessions]

Init ==
  /\ cpc = [s \in Sessions |-> "idle"]
  /\ flag = [s \in Sessions |-> None]
  /\ cport = [s \in Sessions |-> None]
  /\ shut = [s \in Sessions |-> FALSE]
  /\ parent = "up"
  /\ backlog = <<>>
  /\ spc = [s \in Sessions |-> "none"]
  /\ sflag = [s \in Sessions |-> None]
  /\ bound = [s \in Sessions |-> None]
  /\ peer = [s \in Sessions |-> None]
  /\ holds = [s \in Sessions |-> {}]
  /\ toChild = [s \in Sessions |-> <<>>]
  /\ toClient = [s \in Sessions |-> <<>>]
  /\ broken = [s \in Sessions |-> FALSE]
  /\ up = [s \in Sessions |-> <<>>]
  /\ sockq = [s \in Sessions |-> <<>>]
  /\ down = [s \in Sessions |-> {}]

Alive(c) == spc[c] \in ChildRuns

\* The listening socket was inherited by every child and closed by none.
Listening == parent = "up" \/ \E c \in Sessions : Alive(c)

\* Slip, for a mutant: main and the children close what they do not serve.
HeldByChildOnly(s) ==
  \/ spc[s] = "backlog" /\ Listening
  \/ Alive(s)

\* Some process still has the server's end of the control connection: main
\* never closes net_fd after the fork, and each child inherits those before it.
Held(s) ==
  \/ spc[s] = "backlog" /\ Listening
  \/ spc[s] \notin {"none", "backlog"} /\ parent = "up"
  \/ \E c \in Sessions : Alive(c) /\ s \in holds[c]

\* The client's end of the control connection sends no more.
ClientGone(s) == shut[s] \/ cpc[s] \in ClientEnds

\* The control connection is at its end for the client: it was shut down, or
\* nobody on the server has it any more.
Closed(s) == shut[s] \/ ~Held(s)

\* Bound by a live child: the kernel refuses a second bind to such a port.
InUse == {bound[c] : c \in {x \in Sessions : Alive(x)}} \ {None}

-------------------------------------------------------------------------------
(* Slips the handshake could have had, for the mutants of the runs *)

\* The relay starts without the hello.
SendHelloNever(s) ==
  /\ cpc[s] = "hello"
  /\ cpc' = [cpc EXCEPT ![s] = "relay"]
  /\ UNCHANGED <<flag, cport, shut, childVars, serverVars, tcpVars, udpVars>>

\* The hello is repeated blindly against loss.
SendHelloTwice(s) ==
  /\ cpc[s] = "hello"
  /\ up' = [up EXCEPT ![s] = @ \o <<flag[s], flag[s]>>]
  /\ cpc' = [cpc EXCEPT ![s] = "relay"]
  /\ UNCHANGED <<flag, cport, shut, childVars, serverVars, tcpVars, sockq, down>>

\* main serves a handshake itself before it accepts the next connection.
AcceptNoFork ==
  /\ parent = "up" /\ backlog # <<>>
  /\ \A c \in Sessions : ~Alive(c) \/ spc[c] = "relay"
  /\ LET s == Head(backlog)
     IN /\ spc' = [spc EXCEPT ![s] = "readFlag"]
        /\ holds' = [holds EXCEPT ![s] = {s}]
  /\ backlog' = Tail(backlog)
  /\ UNCHANGED <<parent, clientVars, sflag, bound, peer, tcpVars, udpVars>>

\* The child announces UDP_PORT, whatever it bound.
ChildWritePortDefault(s) ==
  /\ spc[s] = "writePort"
  /\ toClient' = [toClient EXCEPT ![s] = Append(@, DefaultPort)]
  /\ spc' = [spc EXCEPT ![s] = "recv"]
  /\ UNCHANGED <<clientVars, sflag, bound, peer, holds, serverVars, toChild,
                 broken, udpVars>>

\* The first sender becomes the peer, nonce or not.
ChildRecvAnyPeer(s) ==
  /\ spc[s] = "recv" /\ sockq[s] # <<>>
  /\ peer' = [peer EXCEPT ![s] = Head(sockq[s])[1]]
  /\ sockq' = [sockq EXCEPT ![s] = Tail(@)]
  /\ spc' = [spc EXCEPT ![s] = "relay"]
  /\ UNCHANGED <<clientVars, sflag, bound, holds, serverVars, tcpVars, up, down>>

-------------------------------------------------------------------------------
(* The client, ipReflect_start *)

\* The client thread moves on and touches nothing else.
ClientStep(s, pc) ==
  /\ cpc' = [cpc EXCEPT ![s] = pc]
  /\ UNCHANGED <<flag, cport, shut, childVars, serverVars, tcpVars, udpVars>>

\* ERR_EXIT in read_int and write_int takes the whole app down.
ClientExits(s) ==
  /\ cpc' = [cpc EXCEPT ![s] = "exited"]
  /\ UNCHANGED <<flag, cport, shut, childVars, serverVars, toChild, toClient,
                 udpVars>>

\* Out of range, a reset on the way, a connection that times out, no route: any
\* call may fail.
NetFails(s) ==
  /\ "net" \in Faults
  /\ broken' = [broken EXCEPT ![s] = TRUE]

\* connect() succeeds: the kernel puts the connection into main's backlog.
Connect(s) ==
  /\ cpc[s] = "idle"
  /\ Listening
  /\ cpc' = [cpc EXCEPT ![s] = "writeFlag"]
  /\ spc' = [spc EXCEPT ![s] = "backlog"]
  /\ backlog' = Append(backlog, s)
  /\ UNCHANGED <<flag, cport, shut, sflag, bound, peer, holds, parent, tcpVars,
                 udpVars>>

\* No server, or no way to it: CONNECT_SERVER_ERROR.
ConnectFails(s) ==
  /\ cpc[s] = "idle"
  /\ Listening => "net" \in Faults
  /\ ClientStep(s, "failed")

\* srand(time), rand(): equal within the same second unless FreshFlags.
WriteFlag(s, f) ==
  /\ cpc[s] = "writeFlag"
  /\ ~shut[s]
  /\ FreshFlags => \A t \in Sessions : flag[t] # f
  /\ flag' = [flag EXCEPT ![s] = f]
  /\ toChild' = [toChild EXCEPT ![s] = Append(@, f)]
  /\ cpc' = [cpc EXCEPT ![s] = "readEcho"]
  /\ UNCHANGED <<cport, shut, childVars, serverVars, toClient, broken, udpVars>>

\* write_int fails on a connection that is closed, or with the network.
WriteFlagFails(s) ==
  /\ cpc[s] = "writeFlag"
  /\ \/ Closed(s) /\ UNCHANGED broken
     \/ NetFails(s)
  /\ ClientExits(s)

\* The echo is read; a different value would only miss a line in the log.
ReadEcho(s) ==
  /\ cpc[s] = "readEcho"
  /\ toClient[s] # <<>>
  /\ toClient' = [toClient EXCEPT ![s] = Tail(@)]
  /\ cpc' = [cpc EXCEPT ![s] = "readPort"]
  /\ UNCHANGED <<flag, cport, shut, childVars, serverVars, toChild, broken, udpVars>>

ReadPort(s) ==
  /\ cpc[s] = "readPort"
  /\ toClient[s] # <<>>
  /\ cport' = [cport EXCEPT ![s] = Head(toClient[s])]
  /\ toClient' = [toClient EXCEPT ![s] = Tail(@)]
  /\ cpc' = [cpc EXCEPT ![s] = "tunnel"]
  /\ UNCHANGED <<flag, shut, childVars, serverVars, toChild, broken, udpVars>>

\* read_int meets the end of the stream, or fails with the network, which may
\* swallow what was under way.
ReadFails(s) ==
  /\ cpc[s] \in {"readEcho", "readPort"}
  /\ \/ toClient[s] = <<>> /\ Closed(s) /\ UNCHANGED broken
     \/ NetFails(s)
  /\ ClientExits(s)

OpenTunnel(s) ==
  /\ cpc[s] = "tunnel"
  /\ ClientStep(s, "hello")

\* CONNECT_TUNNEL_ERROR: out2 and out1 close both sockets.
OpenTunnelFails(s) ==
  /\ cpc[s] = "tunnel"
  /\ "net" \in Faults
  /\ ClientStep(s, "failed")

\* The nonce goes out once, with no answer and no retry; then the relay runs.
SendHello(s) ==
  /\ cpc[s] = "hello"
  /\ up' = [up EXCEPT ![s] = Append(@, flag[s])]
  /\ cpc' = [cpc EXCEPT ![s] = "relay"]
  /\ UNCHANGED <<flag, cport, shut, childVars, serverVars, tcpVars, sockq, down>>

\* The hello goes out through write_int too: if the network fails the app exits.
SendHelloFails(s) ==
  /\ cpc[s] = "hello"
  /\ NetFails(s)
  /\ ClientExits(s)

\* The relay sends a packet of the phone, whether or not the child is ready.
ClientSend(s) ==
  /\ cpc[s] = "relay"
  /\ Len(up[s]) < MaxFlight
  /\ up' = [up EXCEPT ![s] = Append(@, Data)]
  /\ UNCHANGED <<clientVars, childVars, serverVars, tcpVars, sockq, down>>

\* dispatch returns once the control event fired and both reads failed, all of
\* which a failing network does; what follows frees bufferevents of a freed
\* base, so the app may crash.
ClientReturns(s) ==
  /\ cpc[s] = "relay"
  /\ "net" \in Faults
  /\ \E end \in {"returned", "killed"} : ClientStep(s, end)

\* ipReflect_stop: only the control connection is shut down.
ClientStop(s) ==
  /\ cpc[s] \in ClientRuns
  /\ ~shut[s]
  /\ shut' = [shut EXCEPT ![s] = TRUE]
  /\ UNCHANGED <<cpc, flag, cport, childVars, serverVars, tcpVars, udpVars>>

ClientDies(s) ==
  /\ cpc[s] \in ClientRuns
  /\ "crash" \in Faults
  /\ ClientStep(s, "killed")

-------------------------------------------------------------------------------
(* The server, main *)

\* accept() and fork(): the child starts process() with every control socket
\* main has, and main goes back to accept without closing the new one.
Accept ==
  /\ parent = "up"
  /\ backlog # <<>>
  /\ LET s == Head(backlog)
     IN /\ spc' = [spc EXCEPT ![s] = "readFlag"]
        /\ holds' = [holds EXCEPT ![s] =
                       {s} \cup {t \in Sessions : spc[t] \notin {"none", "backlog"}}]
  /\ backlog' = Tail(backlog)
  /\ UNCHANGED <<parent, clientVars, sflag, bound, peer, tcpVars, udpVars>>

\* The first accept() is given an uninitialised remotelen.  If that happens to
\* be negative the call fails, the connection is dropped and main exits.
AcceptFails ==
  /\ parent = "up"
  /\ backlog # <<>>
  /\ "accept" \in Faults
  /\ \A t \in Sessions : spc[t] \in {"none", "backlog"}
  /\ spc' = [spc EXCEPT ![Head(backlog)] = "dead"]
  /\ backlog' = Tail(backlog)
  /\ parent' = "dead"
  /\ UNCHANGED <<clientVars, sflag, bound, peer, holds, tcpVars, udpVars>>

ParentDies ==
  /\ parent = "up"
  /\ "crash" \in Faults
  /\ parent' = "dead"
  /\ UNCHANGED <<backlog, clientVars, childVars, tcpVars, udpVars>>

-------------------------------------------------------------------------------
(* The child, process *)

ChildReadFlag(s) ==
  /\ spc[s] = "readFlag"
  /\ toChild[s] # <<>>
  /\ sflag' = [sflag EXCEPT ![s] = Head(toChild[s])]
  /\ toChild' = [toChild EXCEPT ![s] = Tail(@)]
  /\ spc' = [spc EXCEPT ![s] = "echo"]
  /\ UNCHANGED <<clientVars, bound, peer, holds, serverVars, toClient, broken,
                 udpVars>>

ChildEcho(s) ==
  /\ spc[s] = "echo"
  /\ toClient' = [toClient EXCEPT ![s] = Append(@, sflag[s])]
  /\ spc' = [spc EXCEPT ![s] = "bind"]
  /\ UNCHANGED <<clientVars, sflag, bound, peer, holds, serverVars, toChild,
                 broken, udpVars>>

\* create_socket_bind: the default port if it is free, else a random free one.
ChildBind(s, p) ==
  /\ spc[s] = "bind"
  /\ p \notin InUse
  /\ p # DefaultPort => DefaultPort \in InUse
  /\ bound' = [bound EXCEPT ![s] = p]
  /\ spc' = [spc EXCEPT ![s] = "writePort"]
  /\ UNCHANGED <<clientVars, sflag, peer, holds, serverVars, tcpVars, udpVars>>

ChildWritePort(s) ==
  /\ spc[s] = "writePort"
  /\ toClient' = [toClient EXCEPT ![s] = Append(@, bound[s])]
  /\ spc' = [spc EXCEPT ![s] = "recv"]
  /\ UNCHANGED <<clientVars, sflag, bound, peer, holds, serverVars, toChild,
                 broken, udpVars>>

\* recvfrom takes the first datagram whoever sent it.  If it carries the nonce
\* its sender becomes the peer; if not, the relay starts without a peer.  So it
\* does when connect() fails: the code compares its result with > 0.
ChildRecv(s) ==
  /\ spc[s] = "recv"
  /\ sockq[s] # <<>>
  /\ LET src == Head(sockq[s])[1]
         flag2 == Head(sockq[s])[2]
     IN \/ flag2 = sflag[s] /\ peer' = [peer EXCEPT ![s] = src]
        \/ /\ flag2 # sflag[s] \/ "route" \in Faults
           /\ peer' = [peer EXCEPT ![s] = None]
  /\ sockq' = [sockq EXCEPT ![s] = Tail(@)]
  /\ spc' = [spc EXCEPT ![s] = "relay"]
  /\ UNCHANGED <<clientVars, sflag, bound, holds, serverVars, tcpVars, up, down>>

\* The relay reads a datagram and writes its bytes to the tun.
ChildTake(s) ==
  /\ spc[s] = "relay"
  /\ sockq[s] # <<>>
  /\ sockq' = [sockq EXCEPT ![s] = Tail(@)]
  /\ UNCHANGED <<clientVars, childVars, serverVars, tcpVars, up, down>>

\* The relay sends a packet of the tun; without a peer the send fails.
ChildSend(s) ==
  /\ spc[s] = "relay"
  /\ peer[s] # None
  /\ down' = [down EXCEPT ![peer[s]] = @ \cup {s}]
  /\ UNCHANGED <<clientVars, childVars, serverVars, tcpVars, up, sockq>>

\* The child stops existing: read_int met the end of the stream, write_int a
\* closed connection, either an error of the network, or something killed it.
ChildEnds(s) ==
  /\ \/ spc[s] = "readFlag" /\ toChild[s] = <<>> /\ ClientGone(s)
     \/ spc[s] \in {"echo", "writePort"} /\ ClientGone(s)
     \/ spc[s] \in {"readFlag", "echo", "writePort"} /\ "net" \in Faults
     \/ spc[s] \in ChildRuns /\ "crash" \in Faults
  /\ spc' = [spc EXCEPT ![s] = "dead"]
  /\ sockq' = [sockq EXCEPT ![s] = <<>>]
  /\ UNCHANGED <<clientVars, sflag, bound, peer, holds, serverVars, tcpVars, up,
                 down>>

-------------------------------------------------------------------------------
(* The UDP network *)

\* The socket bound to the port the client sends to takes the i-th datagram,
\* if it has room, unless it is connected to somebody else; no socket, no
\* delivery.  A duplicating network may keep the datagram.
Deliver(s, i, kept) ==
  /\ i \in 1 .. Len(up[s])
  /\ i > 1 => "reorder" \in Faults
  /\ kept => "dup" \in Faults
  /\ LET takers == {c \in Sessions : Alive(c) /\ bound[c] = cport[s]
                                      /\ peer[c] \in {None, s}}
     IN /\ \A c \in takers : Len(sockq[c]) < MaxQueue
        /\ sockq' = [c \in Sessions |-> IF c \in takers
                                        THEN Append(sockq[c], <<s, up[s][i]>>)
                                        ELSE sockq[c]]
  /\ up' = IF kept THEN up ELSE [up EXCEPT ![s] = RemoveAt(@, i)]
  /\ UNCHANGED <<clientVars, childVars, serverVars, tcpVars, down>>

Lose(s, i) ==
  /\ "loss" \in Faults
  /\ i \in 1 .. Len(up[s])
  /\ up' = [up EXCEPT ![s] = RemoveAt(@, i)]
  /\ UNCHANGED <<clientVars, childVars, serverVars, tcpVars, sockq, down>>

\* A datagram reaches the client's socket, which is connected to cport and so
\* passes it to the relay or drops it (see Accepts), or it is lost on the way.
DeliverDown(s, c) ==
  /\ c \in down[s]
  /\ down' = [down EXCEPT ![s] = @ \ {c}]
  /\ UNCHANGED <<clientVars, childVars, serverVars, tcpVars, up, sockq>>

-------------------------------------------------------------------------------
Client(s) ==
  \/ Connect(s) \/ ConnectFails(s)
  \/ \E f \in Flags : WriteFlag(s, f)
  \/ WriteFlagFails(s)
  \/ ReadEcho(s) \/ ReadPort(s) \/ ReadFails(s)
  \/ OpenTunnel(s) \/ OpenTunnelFails(s)
  \/ SendHello(s) \/ SendHelloFails(s)
  \/ ClientSend(s) \/ ClientReturns(s)
  \/ ClientStop(s) \/ ClientDies(s)

Child(s) ==
  \/ ChildReadFlag(s) \/ ChildEcho(s)
  \/ \E p \in Ports : ChildBind(s, p)
  \/ ChildWritePort(s) \/ ChildRecv(s)
  \/ ChildTake(s) \/ ChildSend(s) \/ ChildEnds(s)

Network(s) ==
  \/ \E i \in 1 .. MaxFlight, kept \in BOOLEAN : Deliver(s, i, kept)
  \/ \E i \in 1 .. MaxFlight : Lose(s, i)
  \/ \E c \in Sessions : DeliverDown(s, c)

Next ==
  \/ Accept \/ AcceptFails \/ ParentDies
  \/ \E s \in Sessions : Client(s) \/ Child(s) \/ Network(s)

\* What a client thread does by itself once it is running.
ClientProgress(s) ==
  \/ \E f \in Flags : WriteFlag(s, f)
  \/ WriteFlagFails(s)
  \/ ReadEcho(s) \/ ReadPort(s) \/ ReadFails(s)
  \/ OpenTunnel(s) \/ SendHello(s)

\* What a child does by itself in process().
ChildProgress(s) ==
  \/ ChildReadFlag(s) \/ ChildEcho(s)
  \/ \E p \in Ports : ChildBind(s, p)
  \/ ChildWritePort(s) \/ ChildRecv(s) \/ ChildTake(s)

\* Threads and processes that can run do run, except the clients outside
\* Prompt, which may stall for ever; a datagram at the head of the line arrives
\* (where Faults lets the network lose it, nothing is promised about it).
Fairness ==
  /\ WF_vars(Accept)
  /\ \A s \in Prompt : WF_vars(ClientProgress(s))
  /\ \A s \in Sessions : WF_vars(ChildProgress(s)) /\ WF_vars(Deliver(s, 1, FALSE))

Spec == Init /\ [][Next]_vars

FairSpec == Spec /\ Fairness

-------------------------------------------------------------------------------
(* Properties *)

\* The two sides agree on what they exchanged over the control connection: the
\* child has the client's nonce, and the client sends to the port the child of
\* its own connection bound, however many sessions set up at the same time.
HandshakeAgreement ==
  \A s \in Sessions : /\ sflag[s] # None => sflag[s] = flag[s]
                      /\ cport[s] # None => cport[s] = bound[s]

\* A child connects its socket to a sender with the nonce of its own session
\* only: with fresh nonces that is its own client, even when a stale client
\* still sends to a port that was bound again after its child died.
PeerMatch ==
  \A s \in Sessions : peer[s] # None =>
    /\ flag[peer[s]] = sflag[s]
    /\ FreshFlags => peer[s] = s

\* The client's connected socket hands the datagram of child c to the relay.
Accepts(s, c) == cpc[s] = "relay" /\ bound[c] = cport[s]

\* A phone relays to its tun only what its own child sent: with equal nonces
\* possible, only what a child of a session with the same nonce sent.
DownlinkIsolated ==
  \A s \in Sessions : \A c \in down[s] :
    Accepts(s, c) => flag[c] = flag[s] /\ (FreshFlags => c = s)

\* The handshake over TCP and UDP, with its processes that die and datagrams
\* that are lost, doubled and overtaken, implements a rendezvous of four steps
\* that nothing repeats or undoes: the client learns a port only once its child
\* has opened it, and the child connects once, to a phone that was told this
\* very port, however late or often a hello for it arrives.
Meeting == INSTANCE Rendezvous WITH nonce <- flag, opened <- bound, told <- cport
SetupIsRendezvous == Meeting!Spec

\* read_int and write_int take the app down (ERR_EXIT), at the nonce, the echo,
\* the port or the hello, for three reasons only: the user stopped the session,
\* the network failed under it, or main is gone.  A child that dies at any point
\* of the handshake never does: main still holds the connection open.
AppExitCause ==
  \A s \in Sessions :
    cpc[s] = "exited" => shut[s] \/ broken[s] \/ parent = "dead"

\* On a network that neither loses nor reorders, every relay has its own client
\* as its peer, although the nonce is sent once and never acknowledged.
RelayConnected == \A s \in Sessions : spc[s] = "relay" => peer[s] = s

\* On such a network the tun gets only packets of the child's own phone, and
\* never the nonce, although until it connects the child's socket queues any
\* sender's datagrams: whatever is queued when it relays goes to the tun.
OnlyOwnTraffic ==
  \A s \in Sessions : spc[s] = "relay" =>
    \A i \in 1 .. Len(sockq[s]) : sockq[s][i] = <<s, Data>>

\* A phone whose thread runs gets its tunnel, whatever the other phones do: one
\* that stalls in its handshake holds nobody up.
Establishes ==
  \A s \in Prompt :
    cpc[s] = "writeFlag" ~> shut[s] \/ (cpc[s] = "relay" /\ peer[s] = s)
===============================================================================
