--------------------------- MODULE ServerTreeProofs ----------------------------
(* Theorems about ServerTree, for any number of processes and phones and any   *)
(* bounds: types, children that do not accept while there is a device, a lone  *)
(* relay that neither blocks nor takes what is not its own, and servers that   *)
(* start alone.                                                                *)
EXTENDS ServerTree, SequenceTheorems, TLAPS

USE DEF procVars, netVars, tunVars

-------------------------------------------------------------------------------
(* The inductive invariant *)

\* What a process has at each stage: it is main until the accept loop, it has
\* no socket without a tun_fd.
Stages ==
  \A p \in Proc :
    /\ pc[p] = "none" => p \notin mains
    /\ pc[p] \in {"attach", "bind"} => p \in mains
    /\ pc[p] \in {"none", "attach"} => tun[p] = "none"
    /\ pc[p] \in {"none", "attach", "bind"} => port[p] = "none"
    /\ pc[p] \notin {"none", "attach"} => tun[p] # "none"

\* A loop waits for its tun as long as there is one.
Watches == \A p \in Proc : Relays(p) => "tun" \in events[p]

\* One process relays, unless two have.
Lone == shared \/ \A p, q \in Proc : Relays(p) /\ Relays(q) => p = q

\* A server that is about to bind has the tun for itself.
BindsAlone ==
  \A p, q \in Proc :
    pc[p] = "bind" /\ tun[p] = "live" /\ tun[q] = "live" => p = q

IInv ==
  /\ TypeOK
  /\ Stages
  /\ Watches
  /\ OnlyMainAccepts
  /\ Lone
  /\ AloneIsWell
  /\ BindsAlone

-------------------------------------------------------------------------------
(* Steps, by what they change *)

\* The end of a process, and the actions that are one.
LEMMA EndsOfProcesses ==
  ASSUME NEW p \in Proc,
         Dies(p) \/ TunAllocFails(p) \/ AcceptFails(p) \/ SetupFails(p)
  PROVE  Ends(p)
  BY DEF Dies, TunAllocFails, AcceptFails, SetupFails

\* Events are used up by a process that relays.
LEMMA LostEvents ==
  ASSUME NEW p \in Proc, TunFails(p) \/ UdpFails(p) \/ TcpClosed(p)
  PROVE  \E e \in Events :
           /\ Lost(p, e)
           /\ pc[p] \in {"relay", "read"}
           /\ e = "tun" => tun[p] = "dead"
  BY DEF TunFails, UdpFails, TcpClosed, Events

-------------------------------------------------------------------------------
(* Types *)

\* Queues stay queues of the same things.
LEMMA QueueOps ==
  ASSUME NEW S, NEW q \in Seq(S)
  PROVE  /\ q # <<>> => Head(q) \in S /\ Tail(q) \in Seq(S)
         /\ \A e \in S : Append(q, e) \in Seq(S)
  BY HeadTailProperties, AppendProperties

\* So does one in which an element was replaced.
LEMMA Replaced ==
  ASSUME NEW S, NEW q \in Seq(S), NEW h, NEW e \in S
  PROVE  [i \in DOMAIN q |-> IF q[i] = h THEN e ELSE q[i]] \in Seq(S)
<1>1. DOMAIN q = 1 .. Len(q) /\ Len(q) \in Nat
  BY LenProperties
<1>2. \A i \in 1 .. Len(q) : q[i] \in S
  BY ElementOfSeq
<1> DEFINE r == [i \in 1 .. Len(q) |-> IF q[i] = h THEN e ELSE q[i]]
<1>3. r \in [1 .. Len(q) -> S]
  BY <1>2
<1>4. r \in Seq(S)
  BY <1>1, <1>3, SeqDef
<1> QED
  BY <1>1, <1>4

LEMMA InitTypeOK == Init => TypeOK
<1>1. <<>> \in Seq(Phone \cup {None}) /\ <<>> \in Seq(Phone)
  BY EmptySeq
<1>2. 0 \in 0 .. MaxFds
  BY BoundAssumption
<1>3. ASSUME Init PROVE fds \in [Proc -> 0 .. MaxFds]
  BY <1>2, <1>3 DEF Init
<1>4. ASSUME Init PROVE backlog \in Seq(Phone \cup {None}) /\ tunq \in Seq(Phone)
  BY <1>1, <1>4 DEF Init
<1>5. ASSUME Init
      PROVE  /\ pc \in [Proc -> {"none", "attach", "bind", "accept", "fork", "setup",
                                 "relay", "read"}]
             /\ mains \in SUBSET Proc
             /\ tun \in [Proc -> {"none", "live", "dead"}]
             /\ port \in [Proc -> {"none", "tcp", "random"}]
             /\ client \in [Proc -> Phone \cup {None}]
             /\ events \in [Proc -> SUBSET Events]
  BY <1>5 DEF Init
<1>6. ASSUME Init
      PROVE  /\ conn \in [Phone -> {"off", "queued", "accepted"}]
             /\ linger \in BOOLEAN /\ shared \in BOOLEAN /\ astray \in BOOLEAN
  BY <1>6 DEF Init
<1> QED
  BY <1>3, <1>4, <1>5, <1>6 DEF TypeOK

LEMMA NextTypeOK == IInv /\ [Next]_vars => TypeOK'
<1> SUFFICES ASSUME TypeOK, IInv, [Next]_vars PROVE TypeOK'
  BY DEF IInv
<1>1. ASSUME NEW p \in Proc, Start(p) PROVE TypeOK'
  BY <1>1 DEF Start, TypeOK
<1>2. ASSUME NEW p \in Proc, TunAlloc(p) PROVE TypeOK'
  <2>1. <<>> \in Seq(Phone)
    BY EmptySeq
  <2> QED
    BY <1>2, <2>1 DEF TunAlloc, TypeOK
<1>3. ASSUME NEW p \in Proc, Ends(p) PROVE TypeOK'
  <2>1. <<>> \in Seq(Phone) /\ <<>> \in Seq(Phone \cup {None})
    BY EmptySeq
  <2>2. backlog' \in Seq(Phone \cup {None}) /\ tunq' \in Seq(Phone)
    BY <1>3, <2>1 DEF Ends, TypeOK
  <2>3. linger' \in BOOLEAN /\ shared' \in BOOLEAN /\ astray' \in BOOLEAN
    BY <1>3 DEF Ends, TypeOK
  <2>4. conn' \in [Phone -> {"off", "queued", "accepted"}]
    BY <1>3 DEF Ends, TypeOK
  <2>5. fds' \in [Proc -> 0 .. MaxFds]
    BY <1>3, BoundAssumption DEF Ends, TypeOK
  <2> QED
    BY <1>3, <2>2, <2>3, <2>4, <2>5 DEF Ends, TypeOK
<1>4. ASSUME NEW p \in Proc, Bind(p) PROVE TypeOK'
  BY <1>4 DEF Bind, TypeOK
<1>5. ASSUME NEW p \in Proc, Accept(p) PROVE TypeOK'
  <2>1. Head(backlog) \in Phone \cup {None} /\ Tail(backlog) \in Seq(Phone \cup {None})
    BY <1>5, QueueOps DEF Accept, TypeOK
  <2>2. fds' \in [Proc -> 0 .. MaxFds]
    BY <1>5, BoundAssumption DEF Accept, TypeOK
  <2> QED
    BY <1>5, <2>1, <2>2 DEF Accept, TypeOK
<1>6. ASSUME NEW p \in Proc, NEW q \in Proc, Fork(p, q) PROVE TypeOK'
  BY <1>6 DEF Fork, TypeOK
<1>7. ASSUME NEW p \in Proc, ForkFails(p) PROVE TypeOK'
  BY <1>7 DEF ForkFails, TypeOK
<1>8. ASSUME NEW p \in Proc, Setup(p) PROVE TypeOK'
  BY <1>8 DEF Setup, TypeOK
<1>9. ASSUME NEW p \in Proc, Wake(p) \/ LoopReturns(p) PROVE TypeOK'
  BY <1>9 DEF Wake, LoopReturns, TypeOK
<1>10. ASSUME NEW p \in Proc, ReadTun(p) PROVE TypeOK'
  <2>1. Tail(tunq) \in Seq(Phone)
    BY <1>10, QueueOps DEF ReadTun, TypeOK
  <2> QED
    BY <1>10, <2>1 DEF ReadTun, TypeOK
<1>11. ASSUME NEW p \in Proc, NEW e \in Events, Lost(p, e) PROVE TypeOK'
  BY <1>11 DEF Lost, TypeOK
<1>12. ASSUME NEW h \in Phone, Connect(h) PROVE TypeOK'
  <2>1. Append(backlog, h) \in Seq(Phone \cup {None})
    BY QueueOps DEF TypeOK
  <2> QED
    BY <1>12, <2>1 DEF Connect, TypeOK
<1>13. ASSUME NEW h \in Phone, Leave(h) PROVE TypeOK'
  <2>1. backlog' \in Seq(Phone \cup {None})
    <3>1. backlog \in Seq(Phone \cup {None}) /\ None \in Phone \cup {None}
      BY DEF TypeOK
    <3>2. backlog' = [i \in DOMAIN backlog |-> IF backlog[i] = h THEN None ELSE backlog[i]]
      BY <1>13 DEF Leave
    <3>3. [i \in DOMAIN backlog |-> IF backlog[i] = h THEN None ELSE backlog[i]]
            \in Seq(Phone \cup {None})
      BY <3>1, Replaced
    <3> QED
      BY <3>2, <3>3
  <2> QED
    BY <1>13, <2>1 DEF Leave, TypeOK
<1>14. ASSUME NEW h \in Phone, Packet(h) PROVE TypeOK'
  <2>1. Append(tunq, h) \in Seq(Phone)
    BY QueueOps DEF TypeOK
  <2> QED
    BY <1>14, <2>1 DEF Packet, TypeOK
<1>15. ASSUME DeleteTun PROVE TypeOK'
  <2>1. <<>> \in Seq(Phone)
    BY EmptySeq
  <2> QED
    BY <1>15, <2>1 DEF DeleteTun, TypeOK
<1>16. ASSUME LingerOver PROVE TypeOK'
  BY <1>16 DEF LingerOver, TypeOK
<1>17. ASSUME UNCHANGED vars PROVE TypeOK'
  BY <1>17 DEF vars, TypeOK
<1> QED
  BY <1>1, <1>2, <1>3, <1>4, <1>5, <1>6, <1>7, <1>8, <1>9, <1>10, <1>11, <1>12,
     <1>13, <1>14, <1>15, <1>16, <1>17, EndsOfProcesses, LostEvents
     DEF Next, Process, AcceptLoop

-------------------------------------------------------------------------------
(* What holds at each stage *)

LEMMA NextStages == IInv /\ [Next]_vars => Stages'
<1> SUFFICES ASSUME TypeOK, Stages, [Next]_vars PROVE Stages'
  BY DEF IInv
<1>1. ASSUME NEW p \in Proc, Start(p) PROVE Stages'
  BY <1>1 DEF Start, TypeOK, Stages
<1>2. ASSUME NEW p \in Proc, TunAlloc(p) PROVE Stages'
  BY <1>2 DEF TunAlloc, TypeOK, Stages
<1>3. ASSUME NEW p \in Proc, Ends(p) PROVE Stages'
  BY <1>3 DEF Ends, TypeOK, Stages
<1>4. ASSUME NEW p \in Proc, Bind(p) PROVE Stages'
  BY <1>4 DEF Bind, TypeOK, Stages
<1>5. ASSUME NEW p \in Proc, Accept(p) PROVE Stages'
  BY <1>5 DEF Accept, TypeOK, Stages
<1>6. ASSUME NEW p \in Proc, NEW q \in Proc, Fork(p, q) PROVE Stages'
  BY <1>6 DEF Fork, TypeOK, Stages
<1>7. ASSUME NEW p \in Proc,
             ForkFails(p) \/ Setup(p) \/ Wake(p) \/ ReadTun(p) \/ LoopReturns(p)
      PROVE  Stages'
  <2>1. CASE ForkFails(p)
    BY <2>1 DEF ForkFails, TypeOK, Stages
  <2>2. CASE Setup(p)
    BY <2>2 DEF Setup, TypeOK, Stages
  <2>3. CASE Wake(p) \/ ReadTun(p)
    <3>1. /\ pc[p] \in {"relay", "read"} /\ tun[p] = "live"
          /\ \E next \in {"relay", "read"} : pc' = [pc EXCEPT ![p] = next]
          /\ UNCHANGED <<mains, tun, port>>
      BY <2>3 DEF Wake, ReadTun
    <3> QED
      BY <3>1 DEF TypeOK, Stages
  <2>4. CASE LoopReturns(p)
    BY <2>4 DEF LoopReturns, TypeOK, Stages
  <2> QED
    BY <1>7, <2>1, <2>2, <2>3, <2>4
<1>8. ASSUME NEW p \in Proc, NEW e \in Events, Lost(p, e), pc[p] \in {"relay", "read"}
      PROVE  Stages'
  BY <1>8 DEF Lost, TypeOK, Stages
<1>9. ASSUME NEW h \in Phone, Connect(h) \/ Leave(h) \/ Packet(h) PROVE Stages'
  BY <1>9 DEF Connect, Leave, Packet, Stages
<1>10. ASSUME DeleteTun PROVE Stages'
  BY <1>10 DEF DeleteTun, TypeOK, Stages
<1>11. ASSUME LingerOver \/ UNCHANGED vars PROVE Stages'
  BY <1>11 DEF LingerOver, vars, Stages
<1> QED
  BY <1>1, <1>2, <1>3, <1>4, <1>5, <1>6, <1>7, <1>8, <1>9, <1>10, <1>11,
     EndsOfProcesses, LostEvents DEF Next, Process, AcceptLoop

LEMMA NextWatches == IInv /\ [Next]_vars => Watches'
<1> SUFFICES ASSUME TypeOK, Stages, Watches, [Next]_vars PROVE Watches'
  BY DEF IInv
<1>1. ASSUME NEW p \in Proc, Start(p) PROVE Watches'
  BY <1>1 DEF Start, TypeOK, Watches, Relays
<1>2. ASSUME NEW p \in Proc, TunAlloc(p) PROVE Watches'
  BY <1>2 DEF TunAlloc, TypeOK, Watches, Relays
<1>3. ASSUME NEW p \in Proc, Ends(p) PROVE Watches'
  BY <1>3 DEF Ends, TypeOK, Watches, Relays
<1>4. ASSUME NEW p \in Proc, Bind(p) \/ Accept(p) \/ ForkFails(p) PROVE Watches'
  BY <1>4 DEF Bind, Accept, ForkFails, TypeOK, Watches, Relays
<1>5. ASSUME NEW p \in Proc, NEW q \in Proc, Fork(p, q) PROVE Watches'
  BY <1>5 DEF Fork, TypeOK, Watches, Relays
<1>6. ASSUME NEW p \in Proc, Setup(p) PROVE Watches'
  BY <1>6 DEF Setup, TypeOK, Watches, Relays, Events
<1>7. ASSUME NEW p \in Proc, Wake(p) \/ ReadTun(p) \/ LoopReturns(p) PROVE Watches'
  BY <1>7 DEF Wake, ReadTun, LoopReturns, TypeOK, Watches, Relays
<1>8. ASSUME NEW p \in Proc, NEW e \in Events, Lost(p, e), pc[p] \in {"relay", "read"},
             e = "tun" => tun[p] = "dead"
      PROVE  Watches'
  BY <1>8 DEF Lost, TypeOK, Watches, Relays
<1>9. ASSUME NEW h \in Phone, Connect(h) \/ Leave(h) \/ Packet(h) PROVE Watches'
  BY <1>9 DEF Connect, Leave, Packet, Watches, Relays
<1>10. ASSUME DeleteTun PROVE Watches'
  BY <1>10 DEF DeleteTun, TypeOK, Watches, Relays
<1>11. ASSUME LingerOver \/ UNCHANGED vars PROVE Watches'
  BY <1>11 DEF LingerOver, vars, Watches, Relays
<1> QED
  BY <1>1, <1>2, <1>3, <1>4, <1>5, <1>6, <1>7, <1>8, <1>9, <1>10, <1>11,
     EndsOfProcesses, LostEvents DEF Next, Process, AcceptLoop

\* A child whose device is there still has an event, so its loop goes on.
LEMMA NextMainAccepts == IInv /\ [Next]_vars => OnlyMainAccepts'
<1> SUFFICES ASSUME TypeOK, Stages, Watches, OnlyMainAccepts, [Next]_vars
             PROVE  OnlyMainAccepts'
  BY DEF IInv
<1>1. ASSUME NEW p \in Proc, Start(p) PROVE OnlyMainAccepts'
  BY <1>1 DEF Start, TypeOK, OnlyMainAccepts
<1>2. ASSUME NEW p \in Proc, TunAlloc(p) PROVE OnlyMainAccepts'
  BY <1>2 DEF TunAlloc, TypeOK, OnlyMainAccepts
<1>3. ASSUME NEW p \in Proc, Ends(p) PROVE OnlyMainAccepts'
  BY <1>3 DEF Ends, TypeOK, OnlyMainAccepts
<1>4. ASSUME NEW p \in Proc, Bind(p) PROVE OnlyMainAccepts'
  BY <1>4 DEF Bind, TypeOK, Stages, OnlyMainAccepts
<1>5. ASSUME NEW p \in Proc, Accept(p) \/ ForkFails(p) PROVE OnlyMainAccepts'
  BY <1>5 DEF Accept, ForkFails, TypeOK, OnlyMainAccepts
<1>6. ASSUME NEW p \in Proc, NEW q \in Proc, Fork(p, q) PROVE OnlyMainAccepts'
  BY <1>6 DEF Fork, TypeOK, OnlyMainAccepts
<1>7. ASSUME NEW p \in Proc, Setup(p) \/ Wake(p) \/ ReadTun(p) PROVE OnlyMainAccepts'
  BY <1>7 DEF Setup, Wake, ReadTun, TypeOK, OnlyMainAccepts
<1>8. ASSUME NEW p \in Proc, NEW e \in Events, Lost(p, e) PROVE OnlyMainAccepts'
  BY <1>8 DEF Lost, TypeOK, OnlyMainAccepts
<1>9. ASSUME NEW p \in Proc, LoopReturns(p) PROVE OnlyMainAccepts'
  <2>1. tun[p] # "live"
    BY <1>9 DEF LoopReturns, Watches, Relays
  <2> QED
    BY <1>9, <2>1 DEF LoopReturns, TypeOK, OnlyMainAccepts
<1>10. ASSUME NEW h \in Phone, Connect(h) \/ Leave(h) \/ Packet(h)
       PROVE  OnlyMainAccepts'
  BY <1>10 DEF Connect, Leave, Packet, OnlyMainAccepts
<1>11. ASSUME DeleteTun PROVE OnlyMainAccepts'
  BY <1>11 DEF DeleteTun, TypeOK, OnlyMainAccepts
<1>12. ASSUME LingerOver \/ UNCHANGED vars PROVE OnlyMainAccepts'
  BY <1>12 DEF LingerOver, vars, OnlyMainAccepts
<1> QED
  BY <1>1, <1>2, <1>3, <1>4, <1>5, <1>6, <1>7, <1>8, <1>9, <1>10, <1>11, <1>12,
     EndsOfProcesses, LostEvents DEF Next, Process, AcceptLoop

-------------------------------------------------------------------------------
(* One process relays, or two have *)

\* A second one is noticed where it begins.
LEMMA NextLone == IInv /\ [Next]_vars => Lone'
<1> SUFFICES ASSUME TypeOK, Lone, [Next]_vars PROVE Lone'
  BY DEF IInv
<1>1. ASSUME NEW p \in Proc, Start(p) PROVE Lone'
  BY <1>1 DEF Start, TypeOK, Lone, Relays
<1>2. ASSUME NEW p \in Proc, TunAlloc(p) PROVE Lone'
  BY <1>2 DEF TunAlloc, TypeOK, Lone, Relays
<1>3. ASSUME NEW p \in Proc, Ends(p) PROVE Lone'
  BY <1>3 DEF Ends, TypeOK, Lone, Relays
<1>4. ASSUME NEW p \in Proc, Bind(p) \/ Accept(p) \/ ForkFails(p) PROVE Lone'
  BY <1>4 DEF Bind, Accept, ForkFails, TypeOK, Lone, Relays
<1>5. ASSUME NEW p \in Proc, NEW q \in Proc, Fork(p, q) PROVE Lone'
  <2>1. shared' = shared
    BY <1>5 DEF Fork, tunVars
  <2>2. \A r \in Proc : Relays(r)' => Relays(r)
    BY <1>5 DEF Fork, TypeOK, Relays
  <2> QED
    BY <2>1, <2>2 DEF Lone
<1>6. ASSUME NEW p \in Proc, Setup(p) PROVE Lone'
  <2>1. CASE shared' BY <2>1 DEF Lone
  <2>2. CASE ~ shared'
    <3>1. tun[p] = "live" => \A q \in Proc \ {p} : ~ Relays(q)
      BY <1>6, <2>2 DEF Setup, Rival
    <3>2. ~ shared /\ tun' = tun /\ pc' = [pc EXCEPT ![p] = "relay"]
      BY <1>6, <2>2 DEF Setup
    <3> QED
      BY <3>1, <3>2 DEF TypeOK, Lone, Relays
  <2> QED
    BY <2>1, <2>2
<1>7. ASSUME NEW p \in Proc, Wake(p) \/ ReadTun(p) \/ LoopReturns(p) PROVE Lone'
  <2>1. /\ pc[p] \in {"relay", "read"}
        /\ \E next \in {"relay", "read", "accept"} : pc' = [pc EXCEPT ![p] = next]
        /\ UNCHANGED <<tun, shared>>
    BY <1>7 DEF Wake, ReadTun, LoopReturns, tunVars
  <2>2. \A r \in Proc : Relays(r)' => Relays(r)
    BY <2>1 DEF TypeOK, Relays
  <2> QED
    BY <2>1, <2>2 DEF Lone
<1>8. ASSUME NEW p \in Proc, NEW e \in Events, Lost(p, e), pc[p] \in {"relay", "read"}
      PROVE  Lone'
  BY <1>8 DEF Lost, TypeOK, Lone, Relays
<1>9. ASSUME NEW h \in Phone, Connect(h) \/ Leave(h) \/ Packet(h) PROVE Lone'
  BY <1>9 DEF Connect, Leave, Packet, Lone, Relays
<1>10. ASSUME DeleteTun PROVE Lone'
  BY <1>10 DEF DeleteTun, TypeOK, Lone, Relays
<1>11. ASSUME LingerOver \/ UNCHANGED vars PROVE Lone'
  BY <1>11 DEF LingerOver, vars, Lone, Relays
<1> QED
  BY <1>1, <1>2, <1>3, <1>4, <1>5, <1>6, <1>7, <1>8, <1>9, <1>10, <1>11,
     EndsOfProcesses, LostEvents DEF Next, Process, AcceptLoop

\* What a lone relay was told of, nobody else takes; it reads once, and is back
\* to waiting.
LEMMA NextAloneIsWell == IInv /\ [Next]_vars => AloneIsWell'
<1> SUFFICES ASSUME TypeOK, Stages, Lone, AloneIsWell, [Next]_vars PROVE AloneIsWell'
  BY DEF IInv
<1>1. ASSUME NEW p \in Proc, Start(p) PROVE AloneIsWell'
  BY <1>1 DEF Start, TypeOK, AloneIsWell
<1>2. ASSUME NEW p \in Proc, TunAlloc(p) PROVE AloneIsWell'
  BY <1>2 DEF TunAlloc, TypeOK, AloneIsWell
<1>3. ASSUME NEW p \in Proc, Ends(p) PROVE AloneIsWell'
  BY <1>3 DEF Ends, TypeOK, AloneIsWell
<1>4. ASSUME NEW p \in Proc, Bind(p) \/ Accept(p) \/ ForkFails(p) PROVE AloneIsWell'
  BY <1>4 DEF Bind, Accept, ForkFails, TypeOK, AloneIsWell
<1>5. ASSUME NEW p \in Proc, NEW q \in Proc, Fork(p, q) PROVE AloneIsWell'
  BY <1>5 DEF Fork, TypeOK, AloneIsWell
<1>6. ASSUME NEW p \in Proc, Setup(p) \/ Wake(p) \/ LoopReturns(p) PROVE AloneIsWell'
  BY <1>6 DEF Setup, Wake, LoopReturns, TypeOK, AloneIsWell
<1>7. ASSUME NEW p \in Proc, ReadTun(p) PROVE AloneIsWell'
  <2>1. Relays(p)
    BY <1>7 DEF ReadTun, Relays
  <2>2. shared' = shared /\ tun' = tun /\ pc' = [pc EXCEPT ![p] = "relay"]
    BY <1>7 DEF ReadTun
  <2>3. CASE shared
    BY <2>2, <2>3 DEF AloneIsWell
  <2>4. CASE ~ shared
    <3>1. \A q \in Proc \ {p} : ~ Relays(q)
      BY <2>1, <2>4 DEF Lone
    <3>2. ~ astray'
      BY <1>7, <2>4, <3>1 DEF ReadTun, AloneIsWell
    <3> QED
      BY <2>2, <3>1, <3>2 DEF AloneIsWell, TypeOK, Relays
  <2> QED
    BY <2>3, <2>4
<1>8. ASSUME NEW p \in Proc, NEW e \in Events, Lost(p, e) PROVE AloneIsWell'
  BY <1>8 DEF Lost, TypeOK, AloneIsWell
<1>9. ASSUME NEW h \in Phone, Connect(h) \/ Leave(h) PROVE AloneIsWell'
  BY <1>9 DEF Connect, Leave, AloneIsWell
<1>10. ASSUME NEW h \in Phone, Packet(h) PROVE AloneIsWell'
  <2>1. tunq' # <<>>
    BY <1>10, AppendProperties DEF Packet, TypeOK
  <2> QED
    BY <1>10, <2>1 DEF Packet, AloneIsWell
<1>11. ASSUME DeleteTun PROVE AloneIsWell'
  BY <1>11 DEF DeleteTun, TypeOK, AloneIsWell
<1>12. ASSUME LingerOver \/ UNCHANGED vars PROVE AloneIsWell'
  BY <1>12 DEF LingerOver, vars, AloneIsWell
<1> QED
  BY <1>1, <1>2, <1>3, <1>4, <1>5, <1>6, <1>7, <1>8, <1>9, <1>10, <1>11, <1>12,
     EndsOfProcesses, LostEvents DEF Next, Process, AcceptLoop

\* The device lets nobody in while it is open, and nobody is born of a process
\* that has not bound.
LEMMA NextBindsAlone == IInv /\ [Next]_vars => BindsAlone'
<1> SUFFICES ASSUME TypeOK, Stages, BindsAlone, [Next]_vars PROVE BindsAlone'
  BY DEF IInv
<1>1. ASSUME NEW p \in Proc, Start(p) PROVE BindsAlone'
  BY <1>1 DEF Start, TypeOK, BindsAlone
<1>2. ASSUME NEW p \in Proc, TunAlloc(p) PROVE BindsAlone'
  BY <1>2 DEF TunAlloc, TypeOK, BindsAlone
<1>3. ASSUME NEW p \in Proc, Ends(p) PROVE BindsAlone'
  BY <1>3 DEF Ends, TypeOK, BindsAlone
<1>4. ASSUME NEW p \in Proc, Bind(p) \/ Accept(p) \/ ForkFails(p) PROVE BindsAlone'
  BY <1>4 DEF Bind, Accept, ForkFails, TypeOK, BindsAlone
<1>5. ASSUME NEW p \in Proc, NEW q \in Proc, Fork(p, q) PROVE BindsAlone'
  BY <1>5 DEF Fork, TypeOK, BindsAlone
<1>6. ASSUME NEW p \in Proc, Setup(p) \/ Wake(p) \/ ReadTun(p) \/ LoopReturns(p)
      PROVE  BindsAlone'
  BY <1>6 DEF Setup, Wake, ReadTun, LoopReturns, TypeOK, BindsAlone
<1>7. ASSUME NEW p \in Proc, NEW e \in Events, Lost(p, e) PROVE BindsAlone'
  BY <1>7 DEF Lost, TypeOK, BindsAlone
<1>8. ASSUME NEW h \in Phone, Connect(h) \/ Leave(h) \/ Packet(h) PROVE BindsAlone'
  BY <1>8 DEF Connect, Leave, Packet, BindsAlone
<1>9. ASSUME DeleteTun PROVE BindsAlone'
  BY <1>9 DEF DeleteTun, TypeOK, BindsAlone
<1>10. ASSUME LingerOver \/ UNCHANGED vars PROVE BindsAlone'
  BY <1>10 DEF LingerOver, vars, BindsAlone
<1> QED
  BY <1>1, <1>2, <1>3, <1>4, <1>5, <1>6, <1>7, <1>8, <1>9, <1>10,
     EndsOfProcesses, LostEvents DEF Next, Process, AcceptLoop

-------------------------------------------------------------------------------
(* Theorems *)

LEMMA InitIInv == Init => IInv
<1>1. Init => Stages /\ Watches /\ OnlyMainAccepts
  BY DEF Init, Stages, Watches, OnlyMainAccepts, Relays
<1>2. Init => Lone /\ AloneIsWell /\ BindsAlone
  BY DEF Init, Lone, AloneIsWell, BindsAlone, Relays
<1> QED
  BY <1>1, <1>2, InitTypeOK DEF IInv

THEOREM Invariance == Spec => []IInv
<1>1. IInv /\ [Next]_vars => IInv'
  BY NextTypeOK, NextStages, NextWatches, NextMainAccepts, NextLone,
     NextAloneIsWell, NextBindsAlone DEF IInv
<1> QED
  BY <1>1, InitIInv, PTL DEF Spec

\* Every variable keeps its type; in particular, no process ever has more
\* descriptors than it may.
THEOREM TypeCorrect == Spec => []TypeOK
<1>1. IInv => TypeOK
  BY DEF IInv
<1> QED
  BY <1>1, Invariance, PTL

\* A child serves no second phone as long as its device is there, however many
\* phones it lost: only main accepts.
THEOREM MainAccepts == Spec => []OnlyMainAccepts
<1>1. IInv => OnlyMainAccepts
  BY DEF IInv
<1> QED
  BY <1>1, Invariance, PTL

\* As long as no two processes have relayed at a time, no process blocks on the
\* tun and no phone's packet goes to another's process.
THEOREM AloneWell == Spec => []AloneIsWell
<1>1. IInv => AloneIsWell
  BY DEF IInv
<1> QED
  BY <1>1, Invariance, PTL

\* A process gets from bind to the accept loop by its own bind only.
LEMMA BindBinds ==
  ASSUME TypeOK, [Next]_vars, NEW p \in Proc, pc[p] = "bind", pc'[p] = "accept"
  PROVE  Bind(p)
<1>1. ASSUME NEW q \in Proc, Ends(q) PROVE FALSE
  BY <1>1 DEF Ends, TypeOK
<1>2. ASSUME NEW q \in Proc, Start(q) \/ TunAlloc(q) PROVE FALSE
  BY <1>2 DEF Start, TunAlloc, TypeOK
<1>3. ASSUME NEW q \in Proc, Bind(q) PROVE Bind(p)
  BY <1>3 DEF Bind, TypeOK
<1>4. ASSUME NEW q \in Proc, Accept(q) \/ ForkFails(q) \/ Setup(q) PROVE FALSE
  BY <1>4 DEF Accept, ForkFails, Setup, TypeOK
<1>5. ASSUME NEW q \in Proc, NEW r \in Proc, Fork(q, r) PROVE FALSE
  BY <1>5 DEF Fork, TypeOK
<1>6. ASSUME NEW q \in Proc, Wake(q) \/ ReadTun(q) \/ LoopReturns(q) PROVE FALSE
  BY <1>6 DEF Wake, ReadTun, LoopReturns, TypeOK
<1>7. ASSUME NEW q \in Proc, NEW e \in Events, Lost(q, e) PROVE FALSE
  BY <1>7 DEF Lost, TypeOK
<1>8. ASSUME NEW h \in Phone, Connect(h) \/ Leave(h) \/ Packet(h) PROVE FALSE
  BY <1>8 DEF Connect, Leave, Packet
<1>9. ASSUME DeleteTun \/ LingerOver \/ UNCHANGED vars PROVE FALSE
  BY <1>9 DEF DeleteTun, LingerOver, vars
<1> QED
  BY <1>1, <1>2, <1>3, <1>4, <1>5, <1>6, <1>7, <1>8, <1>9, EndsOfProcesses,
     LostEvents DEF Next, Process, AcceptLoop

\* A server that comes up has the device to itself, and it gets TCP_PORT unless
\* a closed connection lingers or a process listens whose device was deleted.
THEOREM StartsWell == Spec => StartsAlone
<1>1. ASSUME IInv, [Next]_vars, NEW p \in Proc,
             pc[p] = "bind", pc'[p] = "accept", tun[p] = "live"
      PROVE  /\ \A q \in Proc \ {p} : tun[q] # "live"
             /\ port'[p] # "tcp" => linger \/ \E q \in Proc \ {p} : tun[q] = "dead"
  <2>1. \A q \in Proc \ {p} : tun[q] # "live"
    BY <1>1 DEF IInv, BindsAlone
  <2>2. Bind(p)
    BY <1>1, BindBinds DEF IInv
  <2>3. ASSUME port'[p] # "tcp", ~ linger PROVE \E q \in Proc \ {p} : tun[q] = "dead"
    <3>1. AddrInUse
      BY <1>1, <2>2, <2>3 DEF Bind, IInv, TypeOK
    <3>2. PICK q \in Proc : port[q] = "tcp"
      BY <2>3, <3>1 DEF AddrInUse
    <3>3. q # p /\ tun[q] # "none"
      BY <1>1, <3>2 DEF IInv, Stages
    <3>4. tun[q] \in {"none", "live", "dead"}
      BY <1>1 DEF IInv, TypeOK
    <3> QED
      BY <2>1, <3>3, <3>4
  <2> QED
    BY <2>1, <2>3
<1>2. IInv /\ [Next]_vars =>
        [\A p \in Proc : pc[p] = "bind" /\ pc'[p] = "accept" /\ tun[p] = "live" =>
           /\ \A q \in Proc \ {p} : tun[q] # "live"
           /\ port'[p] # "tcp" => linger \/ \E q \in Proc \ {p} : tun[q] = "dead"]_vars
  BY <1>1
<1> QED
  BY <1>2, Invariance, PTL DEF Spec, StartsAlone
===============================================================================
