# A TLA+ model of HeptaVcn

HeptaVcn is an Android VPN client. It either hands the phone's traffic to the
tun2socks engine (for a SOCKS or HTTP proxy) or forwards raw IP traffic over UDP
to a small Linux server ("IP reflector"). This directory models the program's own
logic; paths below are relative to the repository.

## 1. Inventory

| Component | Source | State it keeps | Operations | What is hard | What makes it correct |
|---|---|---|---|---|---|
| Packet relay | `app/src/main/cpp/ipReflect.cpp` `__on_recv`, `__on_error`, `ipReflect_start` (end); `TunnelServer/Tunnel_server.cpp` `__on_recv`, `process` (end) | two libevent bufferevents with input and output buffers, enabled directions, scheduled callbacks | read, write, deferred callback, error, control connection closes, loop returns | deferred callbacks against errors, piled-up output, a descriptor closed from another thread | no byte lost, doubled or reordered; nothing stuck |
| Tunnel setup | `ipReflect_start`, `read_int`, `write_int`; `main`, `process`, `create_socket_bind`; `tool.h` | per connection: nonce, port, stage on either side; queues of TCP and UDP; inherited descriptors | connect, nonce, echo, port, UDP hello, fork, bind, stop, death of a process | loss, reordering, duplication, port reuse, crashes, stop in the middle, equal nonces | both sides agree, every child finds its own client, phones do not mix |
| Server process tree | `tun_alloc`, `create_socket_bind`, `main`, `process` | the processes and where each is, the tun and the listening socket they share, descriptors never closed, the events left in each loop, the connections waiting | start, accept, fork, relay, loop returns, phone leaves and comes back, device deleted, process dies, restart | children that outlive their phone and read its packets, a tun that blocks, fork that fails, restart beside survivors | main alone accepts, a packet reaches its phone, no phone waits for ever, a restarted server gets tun and port |
| VPN service, tunnels, main button | `LocalVPNService.kt`, `Tunnel/*.java`, `entry.cpp`, `MainActivity.kt` | tunnel, Running, posted status, shown status, descriptors as Java and as the native code remember them | start, stop, revoke, consent, rotation, reopening, end of a worker | three threads, no lock, descriptors closed twice | the button tells the truth, teardown hurts nobody |
| Server store | `MmkvManager.kt`, `MainViewModel.kt`, `MainRecyclerAdapter.kt`, `ConfigActivity.kt` | list, selection and configurations in two MMKV files; the view model's copies; what each row on the screen was bound to | add, edit, select, remove, load | several writes, the process killed between them; stale dialogs, rows removed at positions they no longer have | selection and list never dangle, rows equal files |
| Application filter | `SettingsActivity.kt`, `appListActivity.java`, `AppListAdapter.java`, `LocalVPNService.setupVPN` | mode and two lists | choose mode, edit list, apply | stale copies of the lists | the own app stays outside the VPN, a mode means its list |
| Interface settings | `Utils.netmask2prefix`, `SettingsActivity.kt` | address, netmask, MTU | edit, apply at start | a logarithm cut off per octet, values that saturate, no validation | the prefix is the netmask's, a wrong netmask is refused by the builder |
| SOCKS5 test client | `DemoTest/socks5Client/*.go` | two connections, their deadlines, a half-read reply | dial, read, write, datagrams, close | replies in pieces, silent servers, width of lengths, ports that are no numbers, errors that leave a connection open | a dial opens only what was granted, asks for its target, always returns |
| tun2socks engine, libevent | `app/libs`, vendored | - | - | - | external, modelled from their use |
| Scripts, static screens, `proxytest` | `TunnelServer/*.sh`, `aboutActivity`, `helpActivity`, ... | none | - | - | not modelled: pure I/O or no logic |

How they interact. `MainActivity` reads the selection from the store and calls
`LocalVPNService.startVpnService` through a binder. The service reads the
configuration, the filter and the interface settings, establishes the tun and
makes a tunnel. `IPreflectorTunnel` runs `ipReflect_start` on a thread of its
own: set-up against the server, then the relay. The service reports the status
back to the button by a posted value and a field. On the server `main` forks a
child per connection, and all children share one tun.

The hazards this leads to are listed with their lines in `PROJECT.json`.

## 2. Modules

| Module | Models | Kind |
|---|---|---|
| `BytePipe` | what one direction of a stream promises: bytes leave in the order they entered | abstract specification |
| `Relay` | the libevent loop of an endpoint, client or child | detailed, implements `BytePipe` twice |
| `RelayProofs` | theorems about `Relay` | proofs |
| `Rendezvous` | what the handshake promises: draw, open, tell, pair, each once | abstract specification |
| `TunnelSetup` | client threads, accept loop, children, TCP streams, UDP network | composition of client, server and network; implements `Rendezvous` |
| `TunnelSetupProofs` | theorems about `TunnelSetup` under any faults | proofs |
| `TunnelCalmProofs` | theorems about `TunnelSetup` on a network that keeps datagrams in order | proofs |
| `ServerTree` | the server's processes over the life of a machine: main, generations of children, restarts | component |
| `ServerTreeProofs` | theorems about `ServerTree` | proofs |
| `VpnApp` | main thread, worker threads and binder thread of the app, the kernel's descriptor table | component |
| `VpnAppProofs` | theorems about `VpnApp` | proofs |
| `SavedServers` | what the store promises its screens: a row of servers that changes in one step | abstract specification |
| `ConfigStore` | the MMKV files, the view model and the screens that change them | detailed, implements `SavedServers` |
| `ConfigStoreProofs` | theorems about `ConfigStore` | proofs |
| `AppFilter` | the settings' modes, the list editors, what `setupVPN` tells the system | component |
| `AppFilterProofs` | theorems about `AppFilter` and `TunSettings` | proofs |
| `TunSettings` | the stored netmask and the prefix `setupVPN` makes of it | component, composed with `AppFilter` in `MCAppFilter` |
| `Socks5Codec` | addresses, requests and datagrams as bytes | functions |
| `Socks5` | one Dial and its connection, against any server | component, uses `Socks5Codec`; the connection implements `BytePipe` |
| `Socks5Proofs` | theorems about `Socks5` | proofs |
| `MC*` | constants and symmetry for TLC | model checking |

### Correspondence

**Relay.** `input`, `output` are the evbuffers, `enabled` the event masks,
`deferred` whether `BEV_OPT_DEFER_CALLBACKS` has queued `__on_recv`. `ReadEvent`
takes one packet, `OnRecv` is `evbuffer_add_buffer`, `WriteEvent` writes at most
`WriteMax` bytes (libevent's cap of 16384), `ReadFails` and `WriteFails` disable
one direction and call `__on_error`, which only logs. `OnTcpError` fires once.
`LoopReturns` holds when no event is left. A queued callback runs before the next
wait for events, as libevent's active queue does. The client's and the child's
callbacks are the same code, so one module stands for both.

**TunnelSetup.** A session is a call of `ipReflect_start`; its child has its name.
`cpc` and `spc` name the next statement of the client and the child. `read_int`
and `write_int` end the process (`ERR_EXIT`, `ClientExits`) on any failure: at the
end of the stream, on a closed connection (`Closed`), and on an error of the
network (`NetFails`, remembered in `broken`), also where what is written is the
hello on the UDP socket (`SendHelloFails`). In the child a `connect` that fails is
no error, since the code compares its result with `> 0`: the relay starts without
a peer (`ChildRecv`, fault "route"). `holds` and `Held` say which processes keep a
control connection open: `main` never closes `net_fd`, and children inherit it.
`Deliver` gives a datagram to whatever live child is bound to the port and not
connected to somebody else. The four-byte numbers on TCP are not split: they are
the only bytes under way. The first bytes of an IP packet (`Data`) are never a
nonce. A child is followed up to its end; what it does if its relay returns is in
`ServerTree`. To `Rendezvous` a session is its nonce, the port its child bound,
the port its client read and the child's peer: `WriteFlag` is `Draw`, `ChildBind`
is `Open`, `ReadPort` is `Tell` and a `ChildRecv` that connects is `Pair`; nothing
else shows, neither deaths nor anything on the network.

**ServerTree.** `pc` says where each process is, `mains` which ones somebody
started. `Fork` copies everything a process has; nothing is closed, so `fds`
only grows, `AddrInUse` looks at the listening sockets of all processes, and a
connection stays open while any of them lives. (`Ends` closes the connections
with the last holder of a listening socket; some may be gone a little earlier.)
The handshake is one step, `Setup`; its messages are in `TunnelSetup`. `events`
are the events left in a child's loop: an error uses one up and is only logged
(`Lost`), and when none is left `process` returns into main's accept loop
(`LoopReturns`). `Wake` and `ReadTun` are two steps, because every loop is told
of the same packet and `tun_fd` blocks. `shared` and `astray` are history. A
child that has ended is a zombie, since main never waits for it; `ForkFails` may
therefore happen at any time, and a place in `Proc` is free again at once. The
random port is one value: phones try `TCP_PORT` only. `linger` stands for
TIME_WAIT. The tun is a device opened by one file (`tun_alloc` sets no
`IFF_MULTI_QUEUE`), so a second server gets EBUSY while survivors hold it.

**VpnApp.** `pc` gives each thread its step. `PostStatus` and `MarkStatus` are the
two halves of `updateRunStatus`. `open` is the kernel's table of descriptors,
which hands out the lowest free number first, so that a number closed twice may
hit somebody else's descriptor. `number`, `tunFd` and `global` are the numbers the
code remembers: `NetInterface`'s, which its `close` forgets, with `udp_Tunnel_fd`;
the copy `tun_fd` that `run` handed to the native code, which nothing forgets
before `ipReflect_start` returns; and `tcp_control_sock_fd`, one for the process.
A worker that a stop overtook finds no number in `getFd()`, which throws: the app
ends (`TakeFd`). A `connect` that fails leads to `out1`, the UDP socket's to
`out2` (`Connect`, `OpenTunnel`). `FreeBuffers` frees events after their base,
which is undefined: it may crash, abort, close both descriptors or none; for the
tun it closes `tun_fd`'s number, whoever has it by then. `causes` is a history of
the two coincidences under which the code keeps no promise: "overlap" (a tunnel is
started while another, or its stop, has not finished) and "race" (two status
updates, or an update and a reconnect, or a stop and a start, meet halfway).
`StartThrows` is `setupVPN` ended by an exception (the builder refuses an address,
a prefix or an MTU that nobody validated): the app ends. A consent that finds no
service bound or no server selected starts nothing (`ConsentUnused`). In a stop
during the relay the code closes the tun and shuts the control connection; nothing
ends the loop, so the button stays on "running" until the relay fails by itself.
The model has that, and no property denies it. Assumed: engine stop closes its
device; the system's binding keeps the service object while an interface exists.

**ConfigStore.** One step per MMKV write; `step` says how far the handler is and
`Kill` may come at any point. A single write is atomic and survives the kill
(MMKV maps its file; loss of power is not modelled). `serverList` and
`serversCache` are the view model's copies, and `shown` is what the rows on the
screen were bound to, one by one: the listeners of a row act on the server, and
the position, of its last bind. `dialogs` is the stack of removal questions, each
with that server and that position, answered without a new look at the selection.
`RemoveFromCache` therefore takes the server out of the cache where it is, and the
row off the screen where the question says (`place`): `notifyItemRemoved` drops
that row, `notifyItemRangeChanged` binds it and those below again, and those above
keep what they show. If an earlier removal has moved the server up, its row stays
(`misplaced`, history, until the rows are read again), and a tap on it selects a
server that is gone (`stray`, history). How RecyclerView answers to notifications
is external; assumed are that all rows are on the screen, and that layout and
animation of one change are over before the next tap. "Save" may be
tapped again until the activity has gone. `Rows` is the list without the
entries that have no configuration, as `updateCache` builds it. To `SavedServers`
a server is saved while its key is in the list, its contents are what is under the
key then, and a save is `Add` at the write of the list and, where none was chosen,
`Choose` at the next; a removal is `Release` and `Remove`. The other writes do not
show. `outdated`, which is `misplaced` here, is the screen's and not the store's:
only on such a screen may a server be chosen that is not saved.

**AppFilter.** `stored` counts how often a list has a package: order does not
matter, repetition does, because an app with several launcher icons has several
rows in `appListActivity`, each adding and removing the same name. `editors` is
the stack of activities (a second tap may open a second one), each with its copy
`enableList`. `touched` and `stale` are history. `Allowed` and `Disallowed` are
the calls of `setupVPN`, which reads everything in one go; `Routed` is the
system's reading of them (external): any entry in the allow list excludes
everybody not in it, and names of no installed app are ignored. Assumed: the
icons of an app do not change (an app that loses one keeps its second entry);
one `SettingsActivity` at a time.

**TunSettings.** `netmask` is what the dialog stored, as the numbers between its
dots; the dialog refuses only blanks. `AddOctet` is one turn of the loop in
`netmask2prefix`, and `Netmask2prefix` is its four turns. An octet adds a quotient
of two logarithms, which is exact for powers of two (the octets of a netmask) and
otherwise lies strictly between two whole numbers, so that the cut gives 8 minus
the logarithm rounded up; `log(0)` saturates the int, and the logarithm of a
negative number, NaN, casts to 0. Octets with a sign, texts that are no numbers
(`parseInt` throws) and netmasks of other than four octets are left out. Filter
and netmask share no state, and `MCAppFilter` changes the netmask only before the
lists, which keeps the product small.

**Socks5Codec, Socks5.** `pc` is the next statement of `DialWithLocalAddr` and
what it calls; "head", "octet", "address" and "port" are the `io.ReadFull`s of
`NewReplyFrom`. `stream` is all the server wrote on the connection, `arrived` how
much of it the kernel has, `pos` how much the client has read, so a read of n
bytes waits until `arrived - pos >= n`, and what it leaves goes to the app.
`Expire` is a deadline set by Dial, which no later statement resets. `Fail` is any
`return nil, err`: `TCPConn` stays open until the runtime's finalizer (`Finalize`,
external). A UDP packet, once sent, may arrive never, late or repeatedly.
`StreamIsPipe` takes what the target sends once the request is granted for what
enters a `BytePipe`, and what the app has read for what leaves it. The server is
external and may answer anything, in any pieces, close or reset at any point. An
endpoint is the text of an address as `net.SplitHostPort` and `net.ParseIP` read
it, and of its port both whether it is a number and which: `ParseAddress` drops
the error of `strconv.Atoi`, so that a port that is no number becomes 0 (`Atoi`),
and `uint16()` cuts off one past 65535. `PortRead` says which port the server
reads, and the properties about addresses promise that one. (`Atoi`'s signs, and
its values at the ends of the int, are left out.) Names past 255 octets are cut
off by `byte()`; `EndpointAssumption` excludes them. The method
"username/password" is only ever offered: the code that would send the two is
commented out (`Client.go:229-239`), and the request follows at once.
`NoiseAssumption` says what makes a packet no datagram, or one without data, to
the reader. `OpensInStep` and `StreamIsPipe` need a server that keeps to the
protocol (`KeepsProtocol`: it answers in two octets, and a grant ends with the
port right behind its address; refusals and nonsense may be anything). It is a
hypothesis of the theorems and true of the servers of the runs, which TLC
evaluates in `MCSocks5`. A read that fails changes nothing and is not a step;
setting a deadline on an open socket is taken to succeed.

## 3. Runs

| Run | Question | Bounds | Why enough |
|---|---|---|---|
| `relay` | are bytes conserved and drained, does each direction implement the pipe? | packets of 1 and 2 bytes, writes of at most 2, 3 bytes per direction | bursts, split packets, errors with full buffers all occur; further bytes repeat |
| `relay_boundary` | does a write carry one packet? (violation) | same | the shortest counterexample has two packets |
| `setup_faults` | do sessions stay apart under all faults, and is the handshake a rendezvous? | 2 phones, 2 nonces, default port and another, 2 datagrams under way, 1 queued | a port bound again needs two sessions; reordering and duplication need two datagrams |
| `setup_reliable` | without faults, does every prompt phone get its tunnel? | 2 phones, nonces may be equal, one phone may stall | one to serve and one to be in the way |
| `server_tree` | do processes, tun and port stay in order over forks, deaths and restarts? | 3 processes, 2 phones, 2 connections per process, 1 waiting, 1 packet in the tun | a main and two children, or a survivor and a restarted server with its child; the descriptor limit and a full backlog are reached; two readers of one packet |
| `config_store` | do the files, the view model and the rows stay consistent, and are the files one store? | 3 servers, 2 contents, 2 dialogs | a first, a middle and a last entry, and a question behind a question, answered after the rows have moved |
| `config_delete` | does "Delete config" delete? (violation) | same | |
| `config_select` | has the selected server a configuration when it can be started? (violation) | same | the third server is what the second removal drops from the screen instead |
| `app_filter` | do the lists mean what the switches show, and does a netmask give its prefix? | own app, an app with one icon, one with two, 2 editors; all 33 netmasks, 256 with octets at the borders, 256 with octets past 255 | the two icons meet in one list, an editor below goes stale; octets are added one by one, so borders in every place cover the sum |
| `vpn_app` | do button, service and descriptors agree? | 2 tunnels of either class, 6 descriptors, 1 dialog | one tunnel ending and one starting, three descriptors each |
| `vpn_ends` | does a tunnel that ends show? | 1 tunnel, 3 descriptors, 2 dialogs | the property excludes a second unfinished tunnel |
| `socks5` | does a dial open what was granted, ask for its target, give a pipe, and return? | 5 addresses (IPv4, IPv6 with a port past 16 bits, a name with a port and with none that is a number, a text without one), 7 replies (each kind, refusals, nonsense), 2 bytes each way, 1 datagram each way, buffers of 3, 11 and 64 | every cut of the stream occurs, and buffers that end in the header, behind it and behind the data |

Deadlock checking is off where the system may stop: every packet relayed
(`relay`), every session over (`setup_*`), the app dead or no tunnel left to
create (`vpn_*`), a dial failed or closed (`socks5*`). `config_store`,
`app_filter` and `server_tree` check it. Symmetry is used for safety only
(invariants, and the step relation of `Rendezvous`, which treats sessions and nonces
alike). `TypeOK` of `Relay`, `TunnelSetup`, `ServerTree`, `ConfigStore`, `AppFilter`
and `VpnApp` is proved and no longer checked.
`vpn_app` does not look beyond a status race (`NoRaceYet`): its status
properties exclude such states, and `DescriptorsIntact` is claimed up to there.

What they show. Bytes are never lost, doubled or reordered inside an endpoint,
whatever errors happen, but packet boundaries are: under back-pressure two packets
become one datagram. The handshake agrees under every fault; a child never
connects to a stranger while nonces differ; with equal nonces in the same second
it may. A dead child never ends its app, because `main` keeps the connection open:
an app that exits in its handshake was stopped by its user, lost its network, or
has a server whose `main` is gone. As long as its device exists no child comes
back to the accept loop, so main alone accepts, and nobody waits for ever while it
listens; but nothing ends a child whose phone has gone, and a phone that comes
back finds its former child reading the same tun. From then on a packet may go to
a child that serves nobody, and a child may block in a read with its phone
waiting: the promises of `AloneIsWell` end there. A restart is refused the tun by
any survivor; it misses the port, and silently takes one that no phone tries, only
while a connection lingers or survivors listen whose device was deleted
(`SO_REUSEADDR` is not set, although `Tunnel_server.cpp:181` speaks of avoiding
EADDRINUSE). No kill leaves a dangling selection or list entry: a configuration is
written before the list and removed after it, so that to the screens every change
of the store is one step. A selection dangles in one way only: behind two removal
questions a row of a removed server may stay on the screen, and a tap selects it
(`config_select`); all else holds around that. The button is right unless one of
the named coincidences happens. A teardown closes numbers it no longer owns, and a
late `ipReflect_stop` shuts down whatever has the number left in
`tcp_control_sock_fd`; as long as no tunnel was started before the last one and
its stop had finished, neither ever hits another tunnel at work. The own app stays
outside the VPN whatever is edited, an empty white list admits nobody, and two
stacked editors are the only way an edit of one app's switch is undone by
another's. All 33 netmasks give their own prefix, and four octets never give one
the builder refuses; an octet of 256 does, unless a larger one behind it resets
the sum. A SOCKS5 dial leaves the stream exactly at the end of the reply, and with
a TCP timeout it always returns; an empty datagram is an error to the reader
although the writer sends it. It asks for the target's host in every case, and for
its port if that is a number up to 65535; a port by name is asked for as port 0,
without an error.

### Findings

* `relay_boundary`: the help page calls the mode IP packet forwarding
  (`app/src/main/assets/help.html:10`); the code forwards a byte stream.
* `config_delete`: the menu item "Delete config"
  (`app/src/main/res/values/strings.xml:19`) only closes the screen
  (`ConfigActivity.kt:117`).
* `config_select` (a bug): `removeServer` in `MainRecyclerAdapter.kt:118-122` notifies
  the position its row had when it was bound. With three servers and two removal
  questions on top of each other the row of a removed server stays; a tap on it
  (`:94-97`) stores it as the selection, and a start fails the assertion `config!!`
  of `LocalVPNService.kt:72`.

## 4. Fairness

* `Relay`: weak fairness of a scheduled callback and of a writable leg. The loop
  is one thread that runs what libevent has made active. Nothing makes packets
  arrive.
* `TunnelSetup`: weak fairness of the accept loop, of the children, of the
  client threads in `Prompt` and of the delivery of the first datagram. Clients
  outside `Prompt` may stall for ever. Where `Faults` has "loss" no liveness is
  claimed.
* `ServerTree`: weak fairness of a process in the accept loop (it blocks in
  `accept` only while nobody waits). Children, phones and the kernel owe nothing.
* `VpnApp`: weak fairness of each thread, strong fairness of the main thread's
  message: messages are handled in the order they were posted, so taps do not
  overtake a posted value for ever. The user and the network owe nothing.
* `ConfigStore`: weak fairness of a handler that has begun, strong fairness of
  the end of an activity that finishes. The user owes nothing.
* `AppFilter`, `TunSettings`: none.
* `Socks5`: weak fairness of Dial (a goroutine; a connect ends in the kernel) and
  of an armed TCP deadline (a runtime timer). The server owes nothing, and without
  a timeout nothing is claimed.

## 5. Proofs

The proof modules hold for all values of the constants allowed by the ASSUMEs of
the modules they extend: any number of sessions, processes, phones, tunnels,
servers, apps and editors, any queue lengths, any faults.

`RelayProofs` proves `TypeOK`; `Conserved` (inductive together with `TypeOK`:
each action moves a piece of `wrote \o output \o input` across one border, so
associativity of concatenation is the whole argument); `NoStranded`; and that
both directions implement `BytePipe`: initial states map to initial states, a
read maps to `Send`, a write to `Deliver` (by `Conserved` what is written is a
prefix of what was taken), everything else stutters.

`TunnelSetupProofs` proves `TypeOK`, `HandshakeAgreement`, `PeerMatch`,
`DownlinkIsolated` and `AppExitCause` from one inductive invariant, `IInv`
(an exit is one of the three places, and each finds the connection `Closed` or has
the network fail; a child that has begun is `Held` as long as `main` is up). The
properties alone are not inductive; what is added:
`Stages` (which stages client and child can be in together, and that nonces
differ when they are fresh), `Queued` (a connection waits once, and only before
its child exists), `Wire` (how many numbers are under way to the client at each
stage, and that the second is the port: why `ReadEcho` and `ReadPort` never swap
them), `Payloads` (whatever carries a nonce carries its sender's), `ChildKnows`
(what a child knows at each stage), and `Peers` (a peer was chosen by a nonce).
Each has one lemma that the next-state relation preserves it, with a step per
action.

That `TunnelSetup` implements `Rendezvous` (`SetupImplements`) needs `Addressed` on
top of `IInv`: a side that has not reached the stage knows no port, a client that
knows none has sent nothing, and every datagram in a child's socket is of a phone
that was told the child's very port. The last is what a delivery, late and doubled
as it may be, keeps, because neither port ever changes (`PortsStay`); it makes the
first datagram with the nonce a `Pair` (`RecvPairs`).

`TunnelCalmProofs` proves `RelayConnected` and `OnlyOwnTraffic` under `Calm`:
`Faults` holds none of loss, reordering, duplication, killed processes and a child
without a route to its phone (failing connections and a failing accept are
allowed). `CalmInv` adds to `IInv` that a port belongs to one live child
(`PortsApart`); that a client knows a port only if its child lives and has got
past its handshake, since a child can end only before it has written the port
(`Owned`); and that the datagrams in the child's socket and on the network form
one line, the nonce at its head and data behind it, until the child takes the
nonce and becomes a relay (`Traffic`). Four lemmas about such lines (`LineHello`,
`LineSend`, `LineDeliver`, `LineTake`) carry the reasoning about sequences, and
`Takers` shows that a delivery reaches exactly the child it is for.

`ServerTreeProofs` proves `TypeOK`, `OnlyMainAccepts`, `AloneIsWell` and
`StartsAlone`. The invariant adds `Stages` (what a process has at each place),
`Watches` (a loop whose device is there still waits for it, so that it cannot
return), `Lone` (one process relays, unless two have) and `BindsAlone` (a main
that is about to bind has the device to itself).

`VpnAppProofs` proves `StatusAgrees`, `NoPhantom` and `NoHidden` from `Places`,
`Types` and `Classes` (which steps a thread can be at, for a tunnel of which
class), `Agree` (the post that came last says what the field holds, once the one
thread between its two writes has made the second), `Reason` (why the button may
say something else) and `OneAtATime` (without overlap one tunnel is unfinished,
and none but it is being stopped). Descriptors have an invariant of their own:
`Tables` (whose a number in the kernel's table can be), `Forgotten` (a tunnel that
is over, or has not begun, remembers no interface), `Owned` (what a working tunnel
remembers is its own in the table, `tun_fd` being `NetInterface`'s number until a
stop closes it) and `Controls` (a control connection that is open is the one in
`tcp_control_sock_fd`). The argument is that without overlap no other thread works
while a tunnel does (`WorksAlone`), so whatever is closed or shut down with an old
number happens before the next tunnel opens its first (`ShutdownHitsItsOwn`).
They, `DescriptorsIntact` and `TypeOK` are proved for behaviours in which the
table always has room (`[]Roomy`): `Fd` is a bound of the model, and `VpnApp` says
nothing of a process that has run out of descriptors.

`ConfigStoreProofs` proves `TypeOK`, `SelectedUsable`, `ListUsable`,
`ViewMatchesStore` and `KeptUntilRemoved`. What is added: `Handlers` (what a
handler is about, and which writes it has done at each step), `Screens` (which
handlers run on which screen) and `View` (the view model's copies, which a removal
edits by hand, against the files, and the rows against them while none was removed
at an outdated position). That a removal at the server's own place leaves the rows
equal to the cache is `RowRemoved`; that a selection binds two rows again without
harm, `RowsRebound`. A row that is not `misplaced` shows a server of the cache, so
a selection made on it is usable; what `stray` exempts is the rest. `Rows` is a
recursive function; that it gives the whole list when every entry is usable is
shown by a minimal counterexample (`RowsOfUsable`), and what removing an entry
does to a list without repetitions has lemmas of its own.

`AppFilterProofs` proves `TypeOK`, `OwnOutside`, `FilterAsChosen` and
`OkKeepsOthers`. The invariant adds that every editor is clean (it shows no row
of the app itself and has no entry of it: otherwise one OK would let it into the
white list) and that an editor that is not stale is a copy of what is stored up
to the packages it touched. `SwitchesTruthful` speaks of apps with one icon and of
apps whose icons are all off (with one of two icons off the entry of the other
stays), and needs to count: an editor's copy has a package as often as icons of it
are switched on (`Counted`, for finitely many icons, `RowAssumption`).

They also prove `PrefixMeansNetmask` for any four numbers: an octet of a netmask
adds exactly its ones (`AddBits`, from the logarithm's table, `CeilLog2Exact`), and
after each turn of the loop the sum is within the bits so far or stuck at the
largest int (`OctetAdds`).

`ConfigStoreProofs` ends with the refinement of `SavedServers`
(`StoreImplements`). Each write maps to one abstract step or none; the invariant
supplies what makes that so: a list entry has a configuration (`ListUsable`), a row
of a screen that is not outdated shows a saved server (`View`), the
selection is given up before the entry goes, and the configuration goes when the
entry is no more (`Handlers`).

`Socks5Proofs` proves every safety property of `Socks5`. For `RequestNamesTarget`
the invariant says for each place in Dial how much has been sent (`SentAt`); the
arithmetic of the two length octets is in `CountedOnce` and `WireForm`: a length
below 256 is its own byte, the caller's `h[1:]` takes off what `ParseAddress` put
on, and `NewRequest` puts it on again; the port is the one of `PortRead`, for any
text. For `TypeOK` it says what has been read of the reply at each place
(`ReplyAt`, `FieldRead`). For `OpensInStep`, `ServerAt` and `ClientAt` say what
the stream holds at each place of the server and how much of it the client has
taken: the answer, then the octets in `reply`, then those in `got`. After the last
field `Framed` compares the reply the client has put together with the one the
server sent; by their own length fields they end at the same octet, so `pos` is
`granted` plus what the app has read. `StreamIsPipe` follows: what is relayed is
the stream behind the reply, and what the app has got is its prefix (`GotPrefix`).
For `DatagramsWhole` the invariant gives the form of the packets under way each
way; `HeadOK` says where a datagram's kind, length and data are, and `DatagramCut`
and `NoiseCut` what `NewDatagramFromBytes` makes of one cut at any length.
`DatagramRoundTrip` states that reading undoes writing.

Only model-checked: `Drains`, `Establishes`, `Served`, `EndIsShown`,
`SavedIsShown` and `DialReturns`, which are liveness and outside what TLAPS
proves here. Every invariant, action property and refinement of the passing runs
is proved.

## 6. Not modelled

Loss of power under MMKV; split four-byte reads on TCP; the libraries inside
tun2socks, libevent and Android beyond the behaviour named above; text, layout,
logging; the buffer's memory limit (`MaxBytes` caps the input, so a bound on the
buffers would only restate it); lists of servers longer than the screen, whose rows
are bound while they scroll; leaving the app
while a tunnel without its interface still runs; the tun's address and MTU
(stored and read as they are); a caller of the SOCKS5 client that sets deadlines
or a local address of its own. Scripts, static screens and `proxytest` have no
state. Helpers nobody calls are left out (`tool.h` has several).

Of the C and C++ in the repository the project's own files are `entry.cpp`,
`ipReflect.cpp`, `Tunnel_server.cpp` and `tool.h`; the behaviour of what is used
of them is modelled. Everything else under `app/src/main/cpp` is header files of
libevent, whose code is linked as a prebuilt library: declarations, macros and
documentation with no behaviour to translate. Most of the program's logic is in
Kotlin, Java and Go.

## 7. Plan

The modules of the plan are written: `Relay`, `TunnelSetup`, `ServerTree`,
`VpnApp`, `ConfigStore`, `AppFilter`, `TunSettings` and `Socks5` are modelled,
checked and proved about.

What would come next: a composition of `VpnApp` with `TunnelSetup`, in which a
stop of the app meets every step of the handshake on both sides.
