------------------------------ MODULE ServerTree -------------------------------
(* The processes of Tunnel_server.cpp over the life of a machine: main, the    *)
(* children it forks, what they inherit, and what a restart meets.             *)
(*                                                                             *)
(*   main:   tun_alloc - bind - accept - fork - accept - ...                   *)
(*   child:  process: set-up - relay; when its loop returns it goes on in the  *)
(*           accept loop of main                                               *)
(*                                                                             *)
(* Nothing is closed after the fork: all processes of a server share one tun   *)
(* and one listening socket, and a connection is open as long as any of them   *)
(* lives.  The set-up is one step here; TunnelSetup has its messages.          *)
EXTENDS Naturals, Sequences, SequencesExt

CONSTANTS Proc,      \* places in the process table
          Phone,
          None,
          MaxFds,    \* descriptors a process may use for connections
          Backlog,   \* connections listen() lets wait
          MaxTun     \* bound of the model: packets queued in the tun

ASSUME NoneAssumption == None \notin Phone
ASSUME BoundAssumption == MaxFds \in Nat /\ Backlog \in Nat /\ MaxTun \in Nat

VARIABLES
  pc,       \* where each process is
  mains,    \* the processes that are no children
  tun,      \* the device behind tun_fd: there, deleted meanwhile, or no tun_fd
  port,     \* sock_fd: listening on TCP_PORT, on a random port, or no sock_fd
  fds,      \* descriptors of accepted connections, none of them ever closed
  client,   \* the phone at the other end of net_fd, None if it has gone
  events,   \* the events left in the process's loop
  conn,     \* the phone's connection to TCP_PORT
  backlog,  \* connections nobody has accepted, None if the phone has gone
  linger,   \* the kernel still has a closed connection of TCP_PORT (TIME_WAIT)
  tunq,     \* packets queued in the tun: the phones they are for
  shared,   \* history: two processes have relayed from this tun at a time
  astray    \* history: one took a packet for the phone another one serves

procVars == <<pc, mains, tun, port, fds, client, events>>
netVars == <<conn, backlog, linger>>
tunVars == <<tunq, shared, astray>>
vars == <<procVars, netVars, tunVars>>

Events == {"tun", "udp", "tcp"}

TypeOK ==
  /\ pc \in [Proc -> {"none", "attach", "bind", "accept", "fork", "setup",
                      "relay", "read"}]
  /\ mains \in SUBSET Proc
  /\ tun \in [Proc -> {"none", "live", "dead"}]
  /\ port \in [Proc -> {"none", "tcp", "random"}]
  /\ fds \in [Proc -> 0 .. MaxFds]
  /\ client \in [Proc -> Phone \cup {None}]
  /\ events \in [Proc -> SUBSET Events]
  /\ conn \in [Phone -> {"off", "queued", "accepted"}]
  /\ backlog \in Seq(Phone \cup {None})
  /\ linger \in BOOLEAN
  /\ tunq \in Seq(Phone)
  /\ shared \in BOOLEAN
  /\ astray \in BOOLEAN

Init ==
  /\ pc = [p \in Proc |-> "none"]
  /\ mains = {}
  /\ tun = [p \in Proc |-> "none"]
  /\ port = [p \in Proc |-> "none"]
  /\ fds = [p \in Proc |-> 0]
  /\ client = [p \in Proc |-> None]
  /\ events = [p \in Proc |-> {}]
  /\ conn = [h \in Phone |-> "off"]
  /\ backlog = <<>>
  /\ linger = FALSE
  /\ tunq = <<>>
  /\ shared = FALSE
  /\ astray = FALSE

\* Reads packets from the device.
Relays(p) == pc[p] \in {"relay", "read"} /\ tun[p] = "live"

\* Another process than p does.
Rival(p) == \E q \in Proc \ {p} : Relays(q)

\* bind() to TCP_PORT fails: a socket listens on it, in whatever process, or a
\* closed connection lingers; SO_REUSEADDR is not set.
AddrInUse == linger \/ \E p \in Proc : port[p] = "tcp"

-------------------------------------------------------------------------------
(* The end of a process *)

\* What the kernel does when p ends.  With the last holder of a listening
\* socket the connections go; those it closes itself may linger.  With the last
\* holder of the tun its queue goes.
Ends(p) ==
  LET lastTcp == port[p] = "tcp" /\ \A q \in Proc \ {p} : port[q] # "tcp"
      lastTun == \A q \in Proc \ {p} : tun[q] # "live"
      cut == \E h \in Phone : conn[h] = "accepted"
  IN /\ pc' = [pc EXCEPT ![p] = "none"]
     /\ mains' = mains \ {p}
     /\ tun' = [tun EXCEPT ![p] = "none"]
     /\ port' = [port EXCEPT ![p] = "none"]
     /\ fds' = [fds EXCEPT ![p] = 0]
     /\ client' = [client EXCEPT ![p] = None]
     /\ events' = [events EXCEPT ![p] = {}]
     /\ conn' = IF lastTcp THEN [h \in Phone |-> "off"] ELSE conn
     /\ backlog' = IF lastTcp THEN <<>> ELSE backlog
     /\ linger' \in IF lastTcp /\ cut THEN {linger, TRUE} ELSE {linger}
     /\ tunq' = IF lastTun THEN <<>> ELSE tunq
     /\ UNCHANGED <<shared, astray>>

\* A process is killed.
Dies(p) == pc[p] # "none" /\ Ends(p)

-------------------------------------------------------------------------------
(* Slips the server could have had, for the mutants of the run *)

\* The tun is opened as a multi-queue device: nobody is refused.
TunAllocMultiQueue(p) ==
  /\ pc[p] = "attach"
  /\ tun' = [tun EXCEPT ![p] = "live"]
  /\ pc' = [pc EXCEPT ![p] = "bind"]
  /\ tunq' = <<>>
  /\ shared' = FALSE
  /\ astray' = FALSE
  /\ UNCHANGED <<mains, port, fds, client, events, netVars>>

\* main serves the connection itself.
ForkInline(p, q) ==
  /\ pc[p] = "fork" /\ pc[q] = "none"
  /\ pc' = [pc EXCEPT ![p] = "setup"]
  /\ UNCHANGED <<mains, tun, port, fds, client, events, netVars, tunVars>>

\* A loop that reads until nothing is left, on a descriptor that blocks.
ReadTunAgain(p) ==
  /\ pc[p] = "read" /\ tun[p] = "live"
  /\ tunq # <<>>
  /\ tunq' = Tail(tunq)
  /\ astray' = (astray \/ \E q \in Proc \ {p} : Relays(q) /\ client[q] = Head(tunq))
  /\ UNCHANGED <<procVars, netVars, shared>>

\* __on_tcp_error breaks the loop, to get rid of children nobody uses.
LoopBreaks(p) ==
  /\ pc[p] = "relay"
  /\ "tcp" \notin events[p]
  /\ pc' = [pc EXCEPT ![p] = "accept"]
  /\ UNCHANGED <<mains, tun, port, fds, client, events, netVars, tunVars>>

-------------------------------------------------------------------------------
(* main, up to the accept loop *)

\* Somebody starts the server, maybe a second time.
Start(p) ==
  /\ pc[p] = "none"
  /\ pc' = [pc EXCEPT ![p] = "attach"]
  /\ mains' = mains \cup {p}
  /\ UNCHANGED <<tun, port, fds, client, events, netVars, tunVars>>

\* tun_alloc: the device takes one open file, which children share.
TunAlloc(p) ==
  /\ pc[p] = "attach"
  /\ \A q \in Proc : tun[q] # "live"
  /\ tun' = [tun EXCEPT ![p] = "live"]
  /\ pc' = [pc EXCEPT ![p] = "bind"]
  /\ tunq' = <<>>
  /\ shared' = FALSE
  /\ astray' = FALSE
  /\ UNCHANGED <<mains, port, fds, client, events, netVars>>

\* EBUSY: exit(1).
TunAllocFails(p) ==
  /\ pc[p] = "attach"
  /\ \E q \in Proc : tun[q] = "live"
  /\ Ends(p)

\* socket, create_socket_bind and listen: TCP_PORT, or else a random free port.
Bind(p) ==
  /\ pc[p] = "bind"
  /\ port' = [port EXCEPT ![p] = IF AddrInUse THEN "random" ELSE "tcp"]
  /\ pc' = [pc EXCEPT ![p] = "accept"]
  /\ UNCHANGED <<mains, tun, fds, client, events, netVars, tunVars>>

-------------------------------------------------------------------------------
(* The accept loop, of main and of children that fell into it *)

Accept(p) ==
  /\ pc[p] = "accept" /\ port[p] = "tcp"
  /\ backlog # <<>>
  /\ fds[p] < MaxFds
  /\ client' = [client EXCEPT ![p] = Head(backlog)]
  /\ conn' = [h \in Phone |-> IF h = Head(backlog) THEN "accepted" ELSE conn[h]]
  /\ backlog' = Tail(backlog)
  /\ fds' = [fds EXCEPT ![p] = @ + 1]
  /\ pc' = [pc EXCEPT ![p] = "fork"]
  /\ UNCHANGED <<mains, tun, port, events, linger, tunVars>>

\* exit(1) on EMFILE, with the connection left in the queue; or on the first
\* call, whose remotelen is not initialised.
AcceptFails(p) ==
  /\ pc[p] = "accept" /\ port[p] = "tcp"
  /\ backlog # <<>>
  /\ fds[p] = MaxFds \/ fds[p] = 0
  /\ Ends(p)

\* The child has everything its parent has; the parent drops nothing.
Fork(p, q) ==
  /\ pc[p] = "fork" /\ pc[q] = "none"
  /\ pc' = [pc EXCEPT ![p] = "accept", ![q] = "setup"]
  /\ tun' = [tun EXCEPT ![q] = tun[p]]
  /\ port' = [port EXCEPT ![q] = port[p]]
  /\ fds' = [fds EXCEPT ![q] = fds[p]]
  /\ client' = [client EXCEPT ![q] = client[p], ![p] = None]
  /\ UNCHANGED <<mains, events, netVars, tunVars>>

\* fork() returns -1, which is not 0: the loop goes on, nobody serves.
ForkFails(p) ==
  /\ pc[p] = "fork"
  /\ pc' = [pc EXCEPT ![p] = "accept"]
  /\ client' = [client EXCEPT ![p] = None]
  /\ UNCHANGED <<mains, tun, port, fds, events, netVars, tunVars>>

-------------------------------------------------------------------------------
(* process *)

\* The handshake is over, whether or not its phone is still there.
Setup(p) ==
  /\ pc[p] = "setup"
  /\ pc' = [pc EXCEPT ![p] = "relay"]
  /\ events' = [events EXCEPT ![p] = Events]
  /\ shared' = (shared \/ (tun[p] = "live" /\ Rival(p)))
  /\ UNCHANGED <<mains, tun, port, fds, client, netVars, tunq, astray>>

\* read_int meets the end of the stream: ERR_EXIT.
SetupFails(p) ==
  /\ pc[p] = "setup" /\ client[p] = None
  /\ Ends(p)

\* The loop is told that the tun is readable, as every other loop is.
Wake(p) ==
  /\ pc[p] = "relay" /\ tun[p] = "live"
  /\ tunq # <<>>
  /\ pc' = [pc EXCEPT ![p] = "read"]
  /\ UNCHANGED <<mains, tun, port, fds, client, events, netVars, tunVars>>

\* It reads, if there still is a packet: tun_fd blocks, and so would the whole
\* process.  The packet goes to whoever the process serves.
ReadTun(p) ==
  /\ pc[p] = "read" /\ tun[p] = "live"
  /\ tunq # <<>>
  /\ tunq' = Tail(tunq)
  /\ astray' = (astray \/ \E q \in Proc \ {p} : Relays(q) /\ client[q] = Head(tunq))
  /\ pc' = [pc EXCEPT ![p] = "relay"]
  /\ UNCHANGED <<mains, tun, port, fds, client, events, netVars, shared>>

\* An event is used up: __on_error and __on_tcp_error only log.
Lost(p, e) ==
  /\ e \in events[p]
  /\ events' = [events EXCEPT ![p] = @ \ {e}]
  /\ pc' = [pc EXCEPT ![p] = "relay"]
  /\ UNCHANGED <<mains, tun, port, fds, client, netVars, tunVars>>

\* The device has been deleted; a read that waits is woken with an error.
TunFails(p) == pc[p] \in {"relay", "read"} /\ tun[p] = "dead" /\ Lost(p, "tun")

\* The phone's port answers no more (ECONNREFUSED).
UdpFails(p) == pc[p] = "relay" /\ client[p] = None /\ Lost(p, "udp")

\* EV_CLOSED on the control connection fires, once.
TcpClosed(p) == pc[p] = "relay" /\ client[p] = None /\ Lost(p, "tcp")

\* Nothing is left to wait for: process() returns, and the child goes on in
\* main's loop, with the sockets it has.
LoopReturns(p) ==
  /\ pc[p] = "relay"
  /\ events[p] = {}
  /\ pc' = [pc EXCEPT ![p] = "accept"]
  /\ UNCHANGED <<mains, tun, port, fds, client, events, netVars, tunVars>>

-------------------------------------------------------------------------------
(* Phones, packets, the machine *)

\* The kernel completes a connection as long as anyone holds the socket.
Connect(h) ==
  /\ conn[h] = "off"
  /\ \E p \in Proc : port[p] = "tcp"
  /\ Len(backlog) < Backlog
  /\ conn' = [conn EXCEPT ![h] = "queued"]
  /\ backlog' = Append(backlog, h)
  /\ UNCHANGED <<procVars, linger, tunVars>>

\* The phone closes its connection, to come back later.
Leave(h) ==
  /\ conn[h] # "off"
  /\ conn' = [conn EXCEPT ![h] = "off"]
  /\ backlog' = [i \in DOMAIN backlog |-> IF backlog[i] = h THEN None ELSE backlog[i]]
  /\ client' = [p \in Proc |-> IF client[p] = h THEN None ELSE client[p]]
  /\ UNCHANGED <<pc, mains, tun, port, fds, events, linger, tunVars>>

\* A packet for a phone is routed into the tun.
Packet(h) ==
  /\ \E p \in Proc : tun[p] = "live"
  /\ Len(tunq) < MaxTun
  /\ tunq' = Append(tunq, h)
  /\ UNCHANGED <<procVars, netVars, shared, astray>>

\* Somebody deletes the device under the server (ip link delete), to make it
\* again with another address, say.
DeleteTun ==
  /\ \E p \in Proc : tun[p] = "live"
  /\ tun' = [p \in Proc |-> IF tun[p] = "live" THEN "dead" ELSE tun[p]]
  /\ tunq' = <<>>
  /\ UNCHANGED <<pc, mains, port, fds, client, events, netVars, shared, astray>>

\* The last connection that lingered is forgotten.
LingerOver ==
  /\ linger
  /\ linger' = FALSE
  /\ UNCHANGED <<procVars, conn, backlog, tunVars>>

-------------------------------------------------------------------------------
\* What a process in the accept loop does by itself.
AcceptLoop(p) ==
  \/ Accept(p) \/ AcceptFails(p) \/ ForkFails(p)
  \/ \E q \in Proc : Fork(p, q)

Process(p) ==
  \/ TunAlloc(p) \/ TunAllocFails(p) \/ Bind(p)
  \/ AcceptLoop(p)
  \/ Setup(p) \/ SetupFails(p)
  \/ Wake(p) \/ ReadTun(p)
  \/ TunFails(p) \/ UdpFails(p) \/ TcpClosed(p) \/ LoopReturns(p)

Next ==
  \/ \E p \in Proc : Start(p) \/ Process(p) \/ Dies(p)
  \/ \E h \in Phone : Connect(h) \/ Leave(h) \/ Packet(h)
  \/ DeleteTun \/ LingerOver

Spec == Init /\ [][Next]_vars

\* A process in the accept loop that can go on does.
FairSpec == Spec /\ \A p \in Proc : WF_vars(AcceptLoop(p))

-------------------------------------------------------------------------------
(* Properties *)

\* A server that comes up has the tun for itself, whoever survived an earlier
\* one, and it misses TCP_PORT, the only port phones try, for two reasons only:
\* a connection lingers, or survivors listen whose device was deleted.
StartsAlone ==
  [][\A p \in Proc : pc[p] = "bind" /\ pc'[p] = "accept" /\ tun[p] = "live" =>
       /\ \A q \in Proc \ {p} : tun[q] # "live"
       /\ port'[p] # "tcp" => linger \/ \E q \in Proc \ {p} : tun[q] = "dead"]_vars

\* A child comes back to the accept loop only when its device was deleted: as
\* long as there is one, main alone accepts, and no child that serves nobody
\* takes a phone.
OnlyMainAccepts ==
  \A p \in Proc :
    pc[p] \in {"accept", "fork"} /\ tun[p] = "live" => p \in mains

\* Two loops are told of one packet and both read: as long as no two processes
\* have relayed at a time, none waits in a read for a packet that has gone
\* (deaf to its phone meanwhile), and none takes what another's phone awaits.
\* A phone that comes back is enough for two: nothing ends its former process.
AloneIsWell ==
  shared \/ (~astray /\ \A p \in Proc :
                pc[p] = "read" /\ tun[p] = "live" => tunq # <<>>)

\* As long as main listens on TCP_PORT, no phone waits in the queue for ever.
Served ==
  \A h \in Phone :
    conn[h] = "queued" ~> conn[h] # "queued" \/ \A p \in mains : port[p] # "tcp"
===============================================================================
