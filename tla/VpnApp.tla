-------------------------------- MODULE VpnApp --------------------------------
(* The Android app around a tunnel: the button of MainActivity, LocalVPNService *)
(* with the tunnel it runs, the worker thread of IPreflectorTunnel, and the     *)
(* binder thread on which the system revokes the VPN.                          *)
(*                                                                             *)
(* The button starts when it shows "not running" and stops when it shows       *)
(* "running".  What it shows follows updateRunStatus, which any of the threads *)
(* calls and which is two writes: a value posted to the main thread and the    *)
(* field Running.  Stopping a tunnel and ending one close descriptors by their *)
(* number, so the table of open descriptors is part of the state.              *)
EXTENDS Naturals

CONSTANTS Tunnels,      \* the ProxyTunnel objects the app may create
          None,
          Fd,           \* descriptor numbers; a tunnel opens three at most
          Kinds,        \* the classes of tunnels configured
          MaxConsents   \* bound of the model: consent dialogs under way

ASSUME NoneAssumption == None \notin Tunnels
ASSUME ThreadAssumption == {"main", "binder"} \cap Tunnels = {}
ASSUME FdAssumption == Fd \subseteq Nat \ {0}
ASSUME KindAssumption == Kinds \subseteq {"ipref", "sock"}
ASSUME ConsentAssumption == MaxConsents \in Nat

VARIABLES
  app,        \* the process: up or dead
  pc,         \* where each thread is; a worker thread is named by its tunnel
  arg,        \* the tunnel that main and binder are starting or stopping
  kind,       \* the class of each tunnel, by netType
  tunnel,     \* LocalVPNService.tunnel
  Running,    \* LocalVPNService.Running
  pending,    \* the value posted to isRunning and not delivered
  shown,      \* isRunning.value, which the button reads
  connected,  \* MainActivity has the service
  prepared,   \* the user's consent holds: VpnService.prepare returns null
  consents,   \* consent dialogs whose result is still to come
  up,         \* the tunnel whose interface the system routes to
  engine,     \* the tunnel the tun2socks engine runs for
  open,       \* the descriptor table: whose descriptor each number is
  number,     \* the numbers of a tunnel's NetInterface and of udp_Tunnel_fd
  tunFd,      \* tun_fd, the copy of NetInterface's number ipReflect_start has
  global,     \* tcp_control_sock_fd, one for the whole process
  tunFailed,  \* the relay's read of the tun has failed
  causes      \* history: what had to coincide for the app to go wrong

statusVars == <<Running, pending, shown>>
systemVars == <<prepared, consents, up>>
fdVars == <<open, number, tunFd, global>>
vars == <<app, pc, arg, kind, tunnel, statusVars, connected, systemVars, engine,
          fdVars, tunFailed, causes>>

Thread == {"main", "binder"} \cup Tunnels
Desc == Tunnels \X {"tun", "tcp", "udp"}
Nothing == <<None, "free">>

StopSteps == {"shutdown", "closeTun", "engineStop"}
StatusSteps == {"postTrue", "markTrue", "postFalse", "markFalse"}
WorkerSteps == {"run", "socket", "connect", "setup", "relay", "free", "closeUdp",
                "closeTcp", "reshut"}

TypeOK ==
  /\ app \in {"up", "dead"}
  /\ pc \in [Thread -> {"idle", "go", "done"} \cup StopSteps \cup StatusSteps
                         \cup WorkerSteps]
  /\ arg \in [{"main", "binder"} -> Tunnels \cup {None}]
  /\ kind \in [Tunnels -> {"none", "ipref", "sock"}]
  /\ tunnel \in Tunnels \cup {None}
  /\ Running \in BOOLEAN
  /\ pending \in {"none", "true", "false"}
  /\ shown \in {"null", "true", "false"}
  /\ connected \in BOOLEAN
  /\ prepared \in BOOLEAN
  /\ consents \in 0 .. MaxConsents
  /\ up \in Tunnels \cup {None}
  /\ engine \in Tunnels \cup {None}
  /\ open \in [Fd -> Desc \cup {Nothing}]
  /\ number \in [Tunnels \X {"tun", "udp"} -> Fd \cup {0}]
  /\ tunFd \in [Tunnels -> Fd \cup {0}]
  /\ global \in Fd \cup {0}
  /\ tunFailed \in [Tunnels -> BOOLEAN]
  /\ causes \in SUBSET {"overlap", "race"}

\* MainActivity has started; the service is not bound yet.
Init ==
  /\ app = "up"
  /\ pc = [x \in Thread |-> "idle"]
  /\ arg = [x \in {"main", "binder"} |-> None]
  /\ kind = [t \in Tunnels |-> "none"]
  /\ tunnel = None
  /\ Running = FALSE
  /\ pending = "none"
  /\ shown = "null"
  /\ connected = FALSE
  /\ prepared \in BOOLEAN
  /\ consents = 0
  /\ up = None
  /\ engine = None
  /\ open = [f \in Fd |-> Nothing]
  /\ number = [d \in Tunnels \X {"tun", "udp"} |-> 0]
  /\ tunFd = [t \in Tunnels |-> 0]
  /\ global = 0
  /\ tunFailed = [t \in Tunnels |-> FALSE]
  /\ causes = {}

\* The kernel gives the lowest number that is free.
NextFree == CHOOSE f \in Fd : /\ open[f] = Nothing
                              /\ \A g \in Fd : open[g] = Nothing => f <= g

Opened(f, d) == [open EXCEPT ![f] = d]

\* close(f): whoever has the number now loses it; a free number is an error
\* nobody looks at.
Closed(f) == [g \in Fd |-> IF g = f THEN Nothing ELSE open[g]]

\* The interface of a tunnel goes away with its last descriptor.
UpAfter(table) ==
  IF up # None /\ (\A f \in Fd : table[f] # <<up, "tun">>) THEN None ELSE up

Goto(x, step) == pc' = [pc EXCEPT ![x] = step]

\* A handler on main or binder that is over has forgotten its tunnel.
Forget(x) == arg' = IF x \in Tunnels THEN arg ELSE [arg EXCEPT ![x] = None]

\* The tunnel a thread works for.
Mine(x) == IF x \in Tunnels THEN x ELSE arg[x]

\* Between the two writes of updateRunStatus.
Halfway(x) == pc[x] \in {"markTrue", "markFalse"}

\* Main or binder is starting or stopping the tunnel.
Handled(t) == \E x \in {"main", "binder"} : pc[x] # "idle" /\ arg[x] = t

\* A tunnel is live until its last step: the engine's until it is stopped, the
\* relay's until its thread has closed the tun.
Unfinished(t) ==
  \/ kind[t] = "ipref" /\ pc[t] # "done"
  \/ kind[t] = "sock" /\ (engine = t \/ Handled(t))

Starting == pc["main"] \in {"postTrue", "markTrue", "go"}

\* An exception nobody catches, exit() or an abort: the process is gone.
Die ==
  /\ app' = "dead"
  /\ UNCHANGED <<pc, arg, kind, tunnel, statusVars, connected, systemVars, engine,
                 fdVars, tunFailed, causes>>

-------------------------------------------------------------------------------
(* ProxyBinder.updateRunStatus, on whatever thread *)

\* Slip: what a worker posts never arrives.
PostStatusMainOnly(x) ==
  /\ pc[x] \in {"postTrue", "postFalse"}
  /\ pending' = IF x \in Tunnels THEN pending
                ELSE IF pc[x] = "postTrue" THEN "true" ELSE "false"
  /\ Goto(x, IF pc[x] = "postTrue" THEN "markTrue" ELSE "markFalse")
  /\ UNCHANGED <<app, arg, kind, tunnel, Running, shown, connected, systemVars,
                 engine, fdVars, tunFailed, causes>>

\* postValue: the main thread will set the value; an earlier value that waits
\* is replaced.  A new MainActivity that is not bound yet does not get it: the
\* binder posts to the old one's view model.
PostStatus(x) ==
  /\ pc[x] \in {"postTrue", "postFalse"}
  /\ pending' = IF shown = "null" THEN "none"
                ELSE IF pc[x] = "postTrue" THEN "true" ELSE "false"
  /\ Goto(x, IF pc[x] = "postTrue" THEN "markTrue" ELSE "markFalse")
  /\ UNCHANGED <<app, arg, kind, tunnel, Running, shown, connected, systemVars,
                 engine, fdVars, tunFailed, causes>>

\* Where a thread goes on after updateRunStatus.
AfterStatus(x) ==
  IF pc[x] = "markTrue" THEN "go" ELSE IF x \in Tunnels THEN "closeTun" ELSE "idle"

\* Slip: the field is set once and for all.
MarkStatusKeeps(x) ==
  /\ Halfway(x)
  /\ Running' = (Running \/ pc[x] = "markTrue")
  /\ Goto(x, AfterStatus(x))
  /\ IF AfterStatus(x) = "idle" THEN Forget(x) ELSE UNCHANGED arg
  /\ causes' = IF \E y \in Thread \ {x} : Halfway(y) THEN causes \cup {"race"}
               ELSE causes
  /\ UNCHANGED <<app, kind, tunnel, pending, shown, connected, systemVars,
                 engine, fdVars, tunFailed>>

\* Running = status.
MarkStatus(x) ==
  /\ Halfway(x)
  /\ Running' = (pc[x] = "markTrue")
  /\ Goto(x, AfterStatus(x))
  /\ IF AfterStatus(x) = "idle" THEN Forget(x) ELSE UNCHANGED arg
  /\ causes' = IF \E y \in Thread \ {x} : Halfway(y) THEN causes \cup {"race"}
               ELSE causes
  /\ UNCHANGED <<app, kind, tunnel, pending, shown, connected, systemVars,
                 engine, fdVars, tunFailed>>

-------------------------------------------------------------------------------
(* LocalVPNService.startVpnService, on the main thread *)

\* establish() makes the interface, the old one if any stops working; the
\* constructor of the tunnel takes it.  Without consent establish() is null and
\* nothing happens.
Establish(t, k) ==
  /\ kind[t] = "none"
  /\ kind' = [kind EXCEPT ![t] = k]
  /\ open' = Opened(NextFree, <<t, "tun">>)
  /\ number' = [number EXCEPT ![<<t, "tun">>] = NextFree]
  /\ up' = t
  /\ tunnel' = t
  /\ arg' = [arg EXCEPT !["main"] = t]
  /\ Goto("main", "postTrue")
  /\ causes' = IF \E u \in Tunnels : Unfinished(u) \/ Handled(u)
               THEN causes \cup {"overlap"} ELSE causes

StartVpnService(t, k) == connected /\ Establish(t, k)

\* The builder throws on an address, MTU or netmask it does not take, and
\* nobody catches it (TunSettings has the netmask).
StartThrows ==
  /\ pc["main"] = "idle"
  /\ connected
  /\ (shown = "false" /\ prepared) \/ consents > 0
  /\ Die

\* tunnel.start(): a thread for the relay, or the engine with the last key.
StartTunnel ==
  /\ pc["main"] = "go"
  /\ LET t == arg["main"]
     IN IF kind[t] = "ipref"
        THEN /\ pc' = [pc EXCEPT !["main"] = "idle", ![t] = "run"]
             /\ UNCHANGED engine
        ELSE Goto("main", "idle") /\ engine' = t
  /\ arg' = [arg EXCEPT !["main"] = None]
  /\ UNCHANGED <<app, kind, tunnel, statusVars, connected, systemVars, fdVars,
                 tunFailed, causes>>

-------------------------------------------------------------------------------
(* ProxyTunnel.stop, on the main thread or on the binder thread *)

\* tunnel?.stop() takes the tunnel the service runs at this moment.
BeginStop(x) ==
  /\ tunnel # None
  /\ arg' = [arg EXCEPT ![x] = tunnel]
  /\ Goto(x, IF kind[tunnel] = "ipref" THEN "shutdown" ELSE "engineStop")
  /\ causes' = IF Starting THEN causes \cup {"race"} ELSE causes

\* Slip: the worker ends without updateRunStatus(false).
ShutdownEnds(x) ==
  /\ pc[x] \in {"shutdown", "reshut"}
  /\ Goto(x, "closeTun")
  /\ UNCHANGED <<app, arg, kind, tunnel, statusVars, connected, systemVars, engine,
                 fdVars, tunFailed, causes>>

\* NativeStopVpn, in a stop or at the end of NativeStartVpn: ipReflect_stop
\* shuts down whatever has the number in tcp_control_sock_fd.  A connect or a
\* handshake under way may fail by it, as it may by itself; a relay only logs it.
Shutdown(x) ==
  /\ pc[x] \in {"shutdown", "reshut"}
  /\ Goto(x, IF pc[x] = "shutdown" THEN "closeTun" ELSE "postFalse")
  /\ UNCHANGED <<app, arg, kind, tunnel, statusVars, connected, systemVars, engine,
                 fdVars, tunFailed, causes>>

\* Slip: what is closed is the number that the native code remembers.
CloseTunCopy(x) ==
  /\ pc[x] = "closeTun"
  /\ LET t == Mine(x)
         table == Closed(tunFd[t])
     IN open' = table /\ up' = UpAfter(table)
  /\ number' = [number EXCEPT ![<<Mine(x), "tun">>] = 0]
  /\ Goto(x, IF x \in Tunnels THEN "done" ELSE "idle")
  /\ Forget(x)
  /\ UNCHANGED <<app, kind, tunnel, statusVars, connected, prepared, consents,
                 engine, tunFd, global, tunFailed, causes>>

\* NetInterface.close(): by a stop or at the end of the worker.  The second time
\* it finds no number any more.
CloseTun(x) ==
  /\ pc[x] = "closeTun"
  /\ LET t == Mine(x)
         table == Closed(number[<<t, "tun">>])
     IN /\ open' = table
        /\ up' = UpAfter(table)
        /\ number' = [number EXCEPT ![<<t, "tun">>] = 0]
  /\ Goto(x, IF x \in Tunnels THEN "done" ELSE "idle")
  /\ Forget(x)
  /\ UNCHANGED <<app, kind, tunnel, statusVars, connected, prepared, consents,
                 engine, tunFd, global, tunFailed, causes>>

\* Slip: the status changes and the engine runs on.
EngineStopKeeps(x) ==
  /\ pc[x] = "engineStop"
  /\ Goto(x, "postFalse")
  /\ UNCHANGED <<app, arg, kind, tunnel, statusVars, connected, systemVars, engine,
                 fdVars, tunFailed, causes>>

\* Engine.stop() ends whatever the engine runs, with its device.
EngineStop(x) ==
  /\ pc[x] = "engineStop"
  /\ engine' = None
  /\ LET table == IF engine = None THEN open ELSE Closed(number[<<engine, "tun">>])
     IN open' = table /\ up' = UpAfter(table)
  /\ Goto(x, "postFalse")
  /\ UNCHANGED <<app, arg, kind, tunnel, statusVars, connected, prepared, consents,
                 number, tunFd, global, tunFailed, causes>>

-------------------------------------------------------------------------------
(* The worker thread, NativeStartVpn *)

\* run() asks NetInterface for its number: after a stop, getFd() throws.
TakeFd(t) ==
  /\ pc[t] = "run"
  /\ IF number[<<t, "tun">>] = 0
     THEN Die
     ELSE /\ tunFd' = [tunFd EXCEPT ![t] = number[<<t, "tun">>]]
          /\ Goto(t, "socket")
          /\ UNCHANGED <<app, arg, kind, tunnel, statusVars, connected, systemVars,
                         engine, open, number, global, tunFailed, causes>>

CreateSocket(t) ==
  /\ pc[t] = "socket"
  /\ open' = Opened(NextFree, <<t, "tcp">>)
  /\ global' = NextFree
  /\ Goto(t, "connect")
  /\ UNCHANGED <<app, arg, kind, tunnel, statusVars, connected, systemVars, engine,
                 number, tunFd, tunFailed, causes>>

\* connect(): CONNECT_SERVER_ERROR goes to out1.
Connect(t) ==
  /\ pc[t] = "connect"
  /\ \E step \in {"setup", "closeTcp"} : Goto(t, step)
  /\ UNCHANGED <<app, arg, kind, tunnel, statusVars, connected, systemVars, engine,
                 fdVars, tunFailed, causes>>

\* The handshake is through (reads that were answered before a shutdown still
\* succeed): the UDP socket is made and connected, and the relay runs, or
\* CONNECT_TUNNEL_ERROR goes to out2.
OpenTunnel(t) ==
  /\ pc[t] = "setup"
  /\ open' = Opened(NextFree, <<t, "udp">>)
  /\ number' = [number EXCEPT ![<<t, "udp">>] = NextFree]
  /\ \E step \in {"relay", "closeUdp"} : Goto(t, step)
  /\ UNCHANGED <<app, arg, kind, tunnel, statusVars, connected, systemVars, engine,
                 tunFd, global, tunFailed, causes>>

\* The handshake fails, stopped, closed by the server or with the network, or the
\* hello cannot be sent: ERR_EXIT.
SetupExits(t) == pc[t] = "setup" /\ Die

\* The relay's read of the tun fails: the interface was taken away while its
\* descriptor is still open, or a stop closed it and its number is by now that of
\* something that ends.  A number that nobody has just goes silent.
TunFails(t) ==
  /\ pc[t] = "relay"
  /\ ~tunFailed[t]
  /\ \E f \in Fd : f = tunFd[t] /\ open[f] \notin {Nothing, <<up, "tun">>}
  /\ tunFailed' = [tunFailed EXCEPT ![t] = TRUE]
  /\ UNCHANGED <<app, pc, arg, kind, tunnel, statusVars, connected, systemVars,
                 engine, fdVars, causes>>

\* dispatch returns once the tun read has failed and the server has gone too:
\* its end of the control connection and its UDP port.
LoopReturns(t) ==
  /\ pc[t] = "relay"
  /\ tunFailed[t]
  /\ tunFailed' = [tunFailed EXCEPT ![t] = FALSE]
  /\ Goto(t, "free")
  /\ UNCHANGED <<app, arg, kind, tunnel, statusVars, connected, systemVars, engine,
                 fdVars, causes>>

\* Event and bufferevents are freed after the base they belong to: a crash, an
\* abort because the tun has an owner, or some of the descriptors closed.  What
\* is closed for the tun is tun_fd's number, whoever has it by now.
FreeBuffers(t) ==
  /\ pc[t] = "free"
  /\ \/ Die
     \/ /\ \E freed \in SUBSET {number[<<t, "udp">>], tunFd[t]} :
             open' = [f \in Fd |-> IF f \in freed THEN Nothing ELSE open[f]]
        /\ up' = UpAfter(open')
        /\ Goto(t, "closeUdp")
        /\ UNCHANGED <<app, arg, kind, tunnel, statusVars, connected, prepared,
                       consents, engine, number, tunFd, global, tunFailed,
                       causes>>

\* out2 and out1: close(udp_Tunnel_fd), close(tcp_control_sock_fd), return.
CloseSocket(t) ==
  /\ pc[t] \in {"closeUdp", "closeTcp"}
  /\ LET f == IF pc[t] = "closeUdp" THEN number[<<t, "udp">>] ELSE global
     IN open' = Closed(f) /\ up' = UpAfter(Closed(f))
  /\ number' = [number EXCEPT ![<<t, "udp">>] = 0]
  /\ tunFd' = IF pc[t] = "closeUdp" THEN tunFd ELSE [tunFd EXCEPT ![t] = 0]
  /\ Goto(t, IF pc[t] = "closeUdp" THEN "closeTcp" ELSE "reshut")
  /\ UNCHANGED <<app, arg, kind, tunnel, statusVars, connected, prepared, consents,
                 engine, global, tunFailed, causes>>

-------------------------------------------------------------------------------
(* MainActivity, on the main thread *)

MainIdle == pc["main"] = "idle"

\* A tap before the service is bound: isRunning.value!! throws.
ClickTooEarly == MainIdle /\ shown = "null" /\ Die

ClickStop ==
  /\ MainIdle
  /\ shown = "true"
  /\ connected
  /\ BeginStop("main")
  /\ UNCHANGED <<app, kind, tunnel, statusVars, connected, systemVars, engine,
                 fdVars, tunFailed>>

ClickStart(t, k) ==
  /\ MainIdle
  /\ shown = "false"
  /\ prepared
  /\ StartVpnService(t, k)
  /\ UNCHANGED <<app, statusVars, connected, prepared, consents, engine, global,
                 tunFd, tunFailed>>

\* Without consent the system asks first, in an activity of its own.
ClickAsks ==
  /\ MainIdle
  /\ shown = "false"
  /\ ~prepared
  /\ consents < MaxConsents
  /\ consents' = consents + 1
  /\ UNCHANGED <<app, pc, arg, kind, tunnel, statusVars, connected, prepared, up,
                 engine, fdVars, tunFailed, causes>>

\* The result of the dialog: with consent the VPN starts, whatever the button
\* shows by now.
ConsentGranted(t, k) ==
  /\ MainIdle
  /\ consents > 0
  /\ consents' = consents - 1
  /\ prepared' = TRUE
  /\ StartVpnService(t, k)
  /\ UNCHANGED <<app, statusVars, connected, engine, tunFd, global,
                 tunFailed>>

\* A grant that finds no service bound, or no server selected, starts nothing.
ConsentUnused ==
  /\ MainIdle
  /\ consents > 0
  /\ consents' = consents - 1
  /\ prepared' = TRUE
  /\ UNCHANGED <<app, pc, arg, kind, tunnel, statusVars, connected, up, engine,
                 fdVars, tunFailed, causes>>

ConsentDenied ==
  /\ MainIdle
  /\ consents > 0
  /\ consents' = consents - 1
  /\ UNCHANGED <<app, pc, arg, kind, tunnel, statusVars, connected, prepared, up,
                 engine, fdVars, tunFailed, causes>>

\* The main thread gets round to the posted value.
DeliverStatus ==
  /\ MainIdle
  /\ pending # "none"
  /\ shown' = pending
  /\ pending' = "none"
  /\ UNCHANGED <<app, pc, arg, kind, tunnel, Running, connected, systemVars, engine,
                 fdVars, tunFailed, causes>>

\* A new MainActivity takes the place of the old one and binds the service; the
\* view model stays.
Recreate ==
  /\ MainIdle
  /\ connected
  /\ connected' = FALSE
  /\ UNCHANGED <<app, pc, arg, kind, tunnel, statusVars, systemVars, engine, fdVars,
                 tunFailed, causes>>

\* The user leaves MainActivity with Back and opens the app again: a new view
\* model that knows nothing.  The service stays while the system routes to its
\* interface, and is a new one otherwise.  (Not modelled: leaving while a tunnel
\* without its interface is still running.)
Reopen ==
  /\ MainIdle
  /\ consents = 0
  /\ up # None \/ \A t \in Tunnels : ~Unfinished(t)
  /\ connected' = FALSE
  /\ shown' = "null"
  /\ pending' = "none"
  /\ tunnel' = IF up = None THEN None ELSE tunnel
  /\ Running' = (Running /\ up # None)
  /\ UNCHANGED <<app, pc, arg, kind, systemVars, engine, fdVars, tunFailed, causes>>

\* onServiceConnected: the button shows what Running says.
ServiceConnected ==
  /\ MainIdle
  /\ ~connected
  /\ connected' = TRUE
  /\ shown' = IF Running THEN "true" ELSE "false"
  /\ causes' = IF \E x \in Thread : Halfway(x) THEN causes \cup {"race"} ELSE causes
  /\ UNCHANGED <<app, pc, arg, kind, tunnel, Running, pending, systemVars, engine,
                 fdVars, tunFailed>>

-------------------------------------------------------------------------------
(* The system *)

\* Another VPN takes over: the interface is gone, and onRevoke stops the tunnel
\* on a binder thread.
Revoke ==
  /\ pc["binder"] = "idle"
  /\ up # None
  /\ prepared' = FALSE
  /\ up' = None
  /\ BeginStop("binder")
  /\ UNCHANGED <<app, kind, tunnel, statusVars, connected, consents, engine, fdVars,
                 tunFailed>>

-------------------------------------------------------------------------------
\* What a thread does by itself once it is in a handler.
Run(x) ==
  /\ app = "up"
  /\ \/ PostStatus(x) \/ MarkStatus(x)
     \/ Shutdown(x) \/ CloseTun(x) \/ EngineStop(x)
     \/ x = "main" /\ StartTunnel
     \/ /\ x \in Tunnels
        /\ TakeFd(x) \/ CreateSocket(x) \/ FreeBuffers(x) \/ CloseSocket(x)

\* What waits for the server or the system.
Relay(t) ==
  \/ Connect(t) \/ OpenTunnel(t) \/ SetupExits(t) \/ TunFails(t) \/ LoopReturns(t)

User ==
  \/ ClickTooEarly \/ ClickStop \/ ClickAsks \/ ConsentDenied \/ ConsentUnused
  \/ StartThrows
  \/ \E t \in Tunnels, k \in Kinds : ClickStart(t, k) \/ ConsentGranted(t, k)

Deliver == app = "up" /\ (DeliverStatus \/ ServiceConnected)

Next ==
  \/ \E x \in Thread : Run(x)
  \/ Deliver
  \/ app = "up" /\ (User \/ Recreate \/ Reopen \/ Revoke \/ \E t \in Tunnels : Relay(t))

\* Threads that can run do.  The main thread handles its messages in the order
\* they came, so that what is posted to it is not overtaken for ever by taps.
Fairness == SF_vars(Deliver) /\ \A x \in Thread : WF_vars(Run(x))

SafetySpec == Init /\ [][Next]_vars

Spec == SafetySpec /\ Fairness

-------------------------------------------------------------------------------
(* Properties *)

Live(t) ==
  \/ engine = t
  \/ kind[t] = "ipref" /\ pc[t] \in {"idle", "run", "socket", "connect", "setup", "relay"}

\* Nothing is on its way to the button.
Settled ==
  /\ app = "up"
  /\ connected
  /\ pending = "none"
  /\ MainIdle
  /\ \A x \in Thread : pc[x] \notin StatusSteps

\* The two places that hold the status agree when nothing is on its way, unless
\* two updates, or an update and a reconnect, met halfway.
StatusAgrees ==
  Settled /\ "race" \notin causes => (shown = "true") = Running

\* The button does not show "running" for good when nothing runs: a tap would
\* stop a tunnel that is gone, and nothing would ever change the button back.
NoPhantom ==
  Settled /\ "race" \notin causes /\ shown = "true" =>
    \E t \in Tunnels : Live(t) \/ Unfinished(t)

\* A live tunnel is never behind a button that shows "not running", unless it
\* was started before the one before it had finished, or while it was revoked.
NoHidden ==
  Settled /\ causes = {} /\ shown # "true" => \A t \in Tunnels : ~Live(t)

\* What ipReflect_stop would shut down is the connection of the tunnel.
HasControl(t) == \E f \in Fd : f = global /\ open[f] = <<t, "tcp">>

\* While a tunnel sets up or relays, its descriptors are its own: the double
\* closes of other tunnels, of numbers they remember though somebody has closed
\* them already, hit nothing of its, and no late ipReflect_stop of another shuts
\* its connection down, unless it was started before that other tunnel and its
\* stop had finished.  (A stop closes the tun of the tunnel it stops.)
DescriptorsIntact ==
  "overlap" \notin causes =>
    /\ \A x \in Thread, t \in Tunnels :
         pc[x] \in {"shutdown", "reshut"} /\ HasControl(t) => t = Mine(x)
    /\ \A t \in Tunnels :
         /\ pc[t] \in {"connect", "setup", "relay"} => HasControl(t)
         /\ pc[t] = "relay" => open[number[<<t, "udp">>]] = <<t, "udp">>
         /\ pc[t] \in {"socket", "connect", "setup", "relay"}
              /\ number[<<t, "tun">>] # 0 => open[tunFd[t]] = <<t, "tun">>

\* A tunnel that ends by itself ends on the button too, unless another one is
\* started before the button has changed.
EndIsShown ==
  \A t \in Tunnels :
    pc[t] = "closeTcp" ~>
      \/ shown = "false"
      \/ app = "dead" \/ causes # {}
      \/ \E u \in Tunnels \ {t} : Unfinished(u)
===============================================================================
