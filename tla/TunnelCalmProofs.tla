--------------------------- MODULE TunnelCalmProofs ---------------------------
(* Theorems about TunnelSetup where nothing is lost, reordered or duplicated   *)
(* and no process is killed: every relay has its own client as its peer and    *)
(* passes on its own phone's packets, for any number of phones, equal nonces   *)
(* and bounds, although the nonce is sent once, by UDP, and never acknowledged.*)
EXTENDS TunnelSetupProofs

\* The network of the theorems; connections may fail, and so may main's accept,
\* but the server has a way back to its phones.
Calm == Faults \cap {"loss", "reorder", "dup", "crash", "route"} = {}

-------------------------------------------------------------------------------
(* What is under way from a client to its child: q in the child's socket, r on *)
(* the network.                                                                *)

Message == Sessions \X (Flags \cup {Data})

\* Before the relay the nonce comes first, and data behind it.
Line(q, r, s, f) ==
  /\ \A i \in 1 .. Len(q) : q[i] = <<s, IF i = 1 THEN f ELSE Data>>
  /\ \A i \in 1 .. Len(r) : r[i] = IF i = 1 /\ q = <<>> THEN f ELSE Data

\* In the relay everything is data.
Plain(q, r, s) ==
  /\ \A i \in 1 .. Len(q) : q[i] = <<s, Data>>
  /\ \A i \in 1 .. Len(r) : r[i] = Data

LEMMA RemoveHead ==
  ASSUME NEW S, NEW r \in Seq(S), r # <<>>
  PROVE  RemoveAt(r, 1) = Tail(r)
<1>1. Tail(r) = SubSeq(r, 2, Len(r)) /\ Tail(r) \in Seq(S)
  BY TailIsSubSeq, HeadTailProperties
<1>2. SubSeq(r, 1, 0) = <<>>
  BY SubSeqEmpty
<1>3. <<>> \o Tail(r) = Tail(r)
  BY <1>1, ConcatEmptySeq
<1> QED
  BY <1>1, <1>2, <1>3 DEF RemoveAt

\* The nonce, sent into an empty line.
LEMMA LineHello ==
  ASSUME NEW s \in Sessions, NEW f \in Flags
  PROVE  /\ Line(<<>>, <<>>, s, f)
         /\ Line(<<>>, Append(<<>>, f), s, f)
         /\ Append(<<>>, f) # <<>>
<1>1. <<>> \in Seq(Flags) /\ Len(<<>>) = 0
  BY EmptySeq
<1> DEFINE r == Append(<<>>, f)
<1>2. Len(r) = 1 /\ r[1] = f /\ r # <<>>
  BY <1>1, AppendProperties
<1> QED
  BY <1>1, <1>2 DEF Line

\* A packet sent behind the nonce, and one sent to a relay.
LEMMA LineSend ==
  ASSUME NEW s \in Sessions, NEW f, NEW q \in Seq(Message),
         NEW r \in Seq(Flags \cup {Data})
  PROVE  /\ Append(r, Data) # <<>>
         /\ Plain(q, r, s) => Plain(q, Append(r, Data), s)
         /\ Line(q, r, s, f) /\ (q # <<>> \/ r # <<>>) => Line(q, Append(r, Data), s, f)
<1> DEFINE n == Len(r)
           u == Append(r, Data)
<1>1. /\ n \in Nat /\ Len(u) = n + 1 /\ u # <<>>
      /\ \A i \in 1 .. n : u[i] = r[i]
      /\ u[n + 1] = Data
  BY AppendProperties, LenProperties
<1>2. r # <<>> => n # 0
  BY EmptySeq
<1>3. \A i \in 1 .. Len(u) : i \in 1 .. n \/ i = n + 1
  BY <1>1
<1> HIDE DEF n, u
<1>4. (\A i \in 1 .. n : r[i] = Data) => \A i \in 1 .. Len(u) : u[i] = Data
  BY <1>1, <1>3
<1>5. ASSUME q # <<>> \/ r # <<>>,
             \A i \in 1 .. n : r[i] = IF i = 1 /\ q = <<>> THEN f ELSE Data
      PROVE  \A i \in 1 .. Len(u) : u[i] = IF i = 1 /\ q = <<>> THEN f ELSE Data
  <2> SUFFICES ASSUME NEW i \in 1 .. Len(u)
               PROVE  u[i] = IF i = 1 /\ q = <<>> THEN f ELSE Data
    OBVIOUS
  <2>1. CASE i \in 1 .. n
    BY <1>1, <1>5, <2>1
  <2>2. CASE i = n + 1
    <3>1. ~(i = 1 /\ q = <<>>)
      BY <1>1, <1>2, <1>5, <2>2
    <3> QED
      BY <1>1, <2>2, <3>1
  <2> QED
    BY <1>3, <2>1, <2>2
<1> QED
  BY <1>1, <1>4, <1>5 DEF Line, Plain, n, u

\* The head of the line moves into the child's socket.
LEMMA LineDeliver ==
  ASSUME NEW s \in Sessions, NEW f, NEW q \in Seq(Message),
         NEW r \in Seq(Flags \cup {Data}), r # <<>>
  PROVE  /\ Append(q, <<s, r[1]>>) # <<>>
         /\ Plain(q, r, s) => Plain(Append(q, <<s, r[1]>>), RemoveAt(r, 1), s)
         /\ Line(q, r, s, f) => Line(Append(q, <<s, r[1]>>), RemoveAt(r, 1), s, f)
<1> DEFINE n == Len(q)
           k == Len(r)
           m == <<s, r[1]>>
           u == Append(q, m)
           t == Tail(r)
<1>0. RemoveAt(r, 1) = t
  BY RemoveHead
<1>1. n \in Nat /\ k \in Nat \ {0}
  BY LenProperties, EmptySeq
<1>2. m \in Message
  BY <1>1, ElementOfSeq DEF Message
<1>3. /\ Len(u) = n + 1 /\ u # <<>>
      /\ \A i \in 1 .. n : u[i] = q[i]
      /\ u[n + 1] = m
  BY <1>2, AppendProperties
<1>4. Len(t) = k - 1 /\ \A i \in 1 .. Len(t) : t[i] = r[i + 1]
  BY HeadTailProperties
<1>5. q = <<>> <=> n = 0
  BY EmptySeq
<1> HIDE DEF n, k, u, t
<1>6. (\A i \in 1 .. k : r[i] = Data) => \A i \in 1 .. Len(t) : t[i] = Data
  BY <1>1, <1>4
<1>7. ASSUME Plain(q, r, s) PROVE Plain(u, t, s)
  <2>1. m = <<s, Data>>
    BY <1>1, <1>7 DEF Plain, k
  <2>2. \A i \in 1 .. Len(u) : u[i] = <<s, Data>>
    BY <1>1, <1>3, <1>7, <2>1 DEF Plain, n
  <2> QED
    BY <1>6, <1>7, <2>2 DEF Plain, k
<1>8. ASSUME Line(q, r, s, f) PROVE Line(u, t, s, f)
  <2>1. m = <<s, IF n = 0 THEN f ELSE Data>>
    BY <1>1, <1>5, <1>8 DEF Line, k
  <2>2. \A i \in 1 .. n : q[i] = <<s, IF i = 1 THEN f ELSE Data>>
    BY <1>8 DEF Line, n
  <2>3. \A i \in 1 .. Len(u) : u[i] = <<s, IF i = 1 THEN f ELSE Data>>
    <3> SUFFICES ASSUME NEW i \in 1 .. Len(u)
                 PROVE  u[i] = <<s, IF i = 1 THEN f ELSE Data>>
      OBVIOUS
    <3>1. CASE i \in 1 .. n
      BY <1>3, <2>2, <3>1
    <3>2. CASE i = n + 1
      <4>1. i = 1 <=> n = 0
        BY <1>1, <3>2
      <4> QED
        BY <1>3, <2>1, <3>2, <4>1
    <3> QED
      BY <1>1, <1>3, <3>1, <3>2
  <2>4. \A i \in 1 .. Len(t) : t[i] = Data
    <3> SUFFICES ASSUME NEW i \in 1 .. Len(t) PROVE t[i] = Data
      OBVIOUS
    <3>1. i + 1 \in 1 .. k /\ i + 1 # 1
      BY <1>1, <1>4
    <3>2. r[i + 1] = Data
      BY <1>8, <3>1 DEF Line, k
    <3> QED
      BY <1>4, <3>2
  <2> QED
    BY <1>3, <2>3, <2>4 DEF Line
<1> QED
  BY <1>0, <1>3, <1>7, <1>8 DEF u

\* The child takes what is at the head of its socket's queue.
LEMMA LineTake ==
  ASSUME NEW s \in Sessions, NEW f, NEW q \in Seq(Message),
         NEW r \in Seq(Flags \cup {Data}), q # <<>>
  PROVE  /\ Plain(q, r, s) => Plain(Tail(q), r, s)
         /\ Line(q, r, s, f) => Head(q) = <<s, f>> /\ Plain(Tail(q), r, s)
<1> DEFINE n == Len(q)
           t == Tail(q)
<1>1. n \in Nat \ {0} /\ Head(q) = q[1]
  BY EmptySeq
<1>2. Len(t) = n - 1 /\ \A i \in 1 .. Len(t) : t[i] = q[i + 1]
  BY HeadTailProperties
<1> HIDE DEF n, t
<1>3. \A i \in 1 .. Len(t) : i + 1 \in 1 .. n /\ i + 1 # 1
  BY <1>1, <1>2
<1>4. 1 \in 1 .. n
  BY <1>1
<1>5. ASSUME Plain(q, r, s) PROVE Plain(t, r, s)
  BY <1>2, <1>3, <1>5 DEF Plain, n
<1>6. ASSUME Line(q, r, s, f) PROVE Head(q) = <<s, f>> /\ Plain(t, r, s)
  <2>1. q[1] = <<s, f>>
    BY <1>4, <1>6 DEF Line, n
  <2>2. \A i \in 1 .. Len(t) : t[i] = <<s, Data>>
    BY <1>2, <1>3, <1>6 DEF Line, n
  <2> QED
    BY <1>1, <1>6, <2>1, <2>2 DEF Line, Plain
<1> QED
  BY <1>5, <1>6 DEF t

-------------------------------------------------------------------------------
(* The inductive invariant, on top of IInv *)

\* A port belongs to one live child.
PortsApart ==
  \A c, d \in Sessions :
    Alive(c) /\ Alive(d) /\ bound[c] = bound[d] /\ bound[c] # None => c = d

\* Who knows a port has a child that lives: one that ends early has not yet
\* written its port.
Owned(s) ==
  /\ cport[s] # None => spc[s] \in {"recv", "relay"}
  /\ cpc[s] \in {"idle", "writeFlag", "readEcho", "readPort"} => cport[s] = None
  /\ cpc[s] \in {"tunnel", "hello", "relay"} => cport[s] # None
  /\ spc[s] \in {"none", "backlog", "readFlag", "echo", "bind"} => bound[s] = None
  /\ spc[s] = "dead" /\ cpc[s] = "readEcho" => Len(toClient[s]) <= 1
  /\ spc[s] = "dead" /\ cpc[s] = "readPort" => toClient[s] = <<>>

\* What is between a client and its child, before and in the relay.
Traffic(s) ==
  /\ cport[s] = None \/ cpc[s] \in {"tunnel", "hello"} =>
       up[s] = <<>> /\ sockq[s] = <<>> /\ spc[s] # "relay"
  /\ spc[s] # "relay" =>
       /\ Line(sockq[s], up[s], s, flag[s])
       /\ cpc[s] = "relay" => up[s] # <<>> \/ sockq[s] # <<>>
  /\ spc[s] = "relay" => peer[s] = s /\ Plain(sockq[s], up[s], s)

CalmInv ==
  /\ IInv
  /\ PortsApart
  /\ \A s \in Sessions : Owned(s) /\ Traffic(s)

USE DEF clientVars, childVars, serverVars, tcpVars, udpVars

\* On a calm network a child ends in its handshake only.
LEMMA CalmEnds ==
  ASSUME Calm, NEW s \in Sessions, ChildEnds(s)
  PROVE  spc[s] \in {"readFlag", "echo", "writePort"}
  BY DEF Calm, ChildEnds

LEMMA InitCalmInv == Init => CalmInv
<1> SUFFICES ASSUME Init PROVE CalmInv
  OBVIOUS
<1>1. IInv
  BY InitIInv
<1>2. PortsApart
  BY DEF Init, PortsApart, Alive, ChildRuns
<1>3. ASSUME NEW s \in Sessions PROVE Owned(s)
  BY DEF Init, Owned
<1>4. Len(<<>>) = 0
  BY EmptySeq
<1>5. ASSUME NEW s \in Sessions PROVE Line(<<>>, <<>>, s, None)
  BY <1>4 DEF Line
<1>6. ASSUME NEW s \in Sessions PROVE Traffic(s)
  BY <1>5 DEF Init, Traffic
<1> QED
  BY <1>1, <1>2, <1>3, <1>6 DEF CalmInv

-------------------------------------------------------------------------------
(* Ports *)

LEMMA NextPortsApart == Calm /\ CalmInv /\ [Next]_vars => PortsApart'
<1> SUFFICES ASSUME Calm, CalmInv, [Next]_vars PROVE PortsApart'
  OBVIOUS
<1> USE DEF CalmInv, IInv
<1>1. ASSUME NEW s \in Sessions, NEW p \in Ports, ChildBind(s, p) PROVE PortsApart'
  <2>1. \A c \in Sessions : Alive(c) /\ c # s => bound[c] # p
    BY <1>1, NoneAssumption DEF ChildBind, InUse
  <2>2. \A c \in Sessions : c # s => bound'[c] = bound[c] /\ spc'[c] = spc[c]
    BY <1>1 DEF ChildBind, TypeOK
  <2>3. bound'[s] = p
    BY <1>1 DEF ChildBind, TypeOK
  <2> QED
    BY <2>1, <2>2, <2>3 DEF PortsApart, Alive
<1>2. CASE Accept \/ AcceptFails
  <2> DEFINE h == Head(backlog)
  <2>1. h \in Sessions /\ spc[h] = "backlog"
    BY <1>2, HeadQueued DEF Accept, AcceptFails
  <2>2. bound[h] = None
    BY <2>1 DEF Owned
  <2>3. bound' = bound /\ \A c \in Sessions : c # h => spc'[c] = spc[c]
    BY <1>2, <2>1 DEF Accept, AcceptFails, TypeOK
  <2> QED
    BY <2>1, <2>2, <2>3 DEF PortsApart, Alive
<1>3. ASSUME NEW s \in Sessions, Connect(s) PROVE PortsApart'
  <2>1. bound' = bound /\ \A c \in Sessions : spc'[c] = spc[c] \/ spc'[c] = "backlog"
    BY <1>3 DEF Connect, TypeOK
  <2> QED
    BY <2>1 DEF PortsApart, Alive, ChildRuns
<1>4. ASSUME NEW s \in Sessions, Client(s), ~Connect(s) PROVE PortsApart'
  BY <1>4 DEF Client, ConnectFails, WriteFlag, WriteFlagFails, ReadEcho, ReadPort,
              ReadFails, OpenTunnel, OpenTunnelFails, SendHello, SendHelloFails,
              ClientExits, NetFails, ClientSend, ClientReturns, ClientStop, ClientDies,
              ClientStep, PortsApart, Alive
<1>5. ASSUME NEW s \in Sessions, Child(s), ~\E p \in Ports : ChildBind(s, p)
      PROVE  PortsApart'
  <2>1. bound' = bound /\ Alive(s) /\ \A c \in Sessions : c # s => spc'[c] = spc[c]
    BY <1>5 DEF Child, ChildReadFlag, ChildEcho, ChildWritePort, ChildRecv, ChildTake,
                ChildSend, ChildEnds, TypeOK, Alive, ChildRuns
  <2> QED
    BY <2>1 DEF PortsApart, Alive
<1>6. ASSUME NEW s \in Sessions, Network(s) PROVE PortsApart'
  BY <1>6 DEF Network, Deliver, Lose, DeliverDown, PortsApart, Alive
<1>7. CASE ParentDies \/ UNCHANGED vars
  BY <1>7 DEF ParentDies, vars, PortsApart, Alive
<1> QED
  BY <1>1, <1>2, <1>3, <1>4, <1>5, <1>6, <1>7 DEF Next

LEMMA NextOwned == Calm /\ CalmInv /\ [Next]_vars => \A t \in Sessions : Owned(t)'
<1> SUFFICES ASSUME Calm, CalmInv, [Next]_vars, NEW t \in Sessions PROVE Owned(t)'
  OBVIOUS
<1> USE DEF CalmInv, IInv
<1>0. Owned(t)
  OBVIOUS
<1>1. ASSUME NEW s \in Sessions, Connect(s) PROVE Owned(t)'
  <2>1. spc[s] = "none" /\ cpc[s] = "idle"
    BY <1>1 DEF Connect, Stages
  <2> QED
    BY <1>0, <1>1, <2>1 DEF Connect, Owned, TypeOK
<1>2. ASSUME NEW s \in Sessions,
             \/ ConnectFails(s) \/ WriteFlagFails(s) \/ ReadFails(s)
             \/ OpenTunnel(s) \/ OpenTunnelFails(s) \/ SendHelloFails(s)
             \/ ClientReturns(s) \/ ClientDies(s)
      PROVE  Owned(t)'
  <2>1. /\ \/ cpc'[t] = cpc[t]
           \/ cpc[t] = "tunnel" /\ cpc'[t] = "hello"
           \/ cpc'[t] \in ClientEnds
        /\ UNCHANGED <<spc, bound, cport, toClient>>
    BY <1>2 DEF ConnectFails, WriteFlagFails, ReadFails, OpenTunnel, OpenTunnelFails,
                SendHelloFails, ClientExits, NetFails, ClientReturns, ClientDies,
                ClientStep, TypeOK, ClientEnds
  <2> QED
    BY <1>0, <2>1 DEF Owned, ClientEnds
<1>3. ASSUME NEW s \in Sessions, NEW f \in Flags, WriteFlag(s, f) PROVE Owned(t)'
  <2>1. t = s => toClient[t] = <<>> /\ cpc[t] = "writeFlag"
    BY <1>3 DEF WriteFlag, Wire
  <2>2. Len(<<>>) = 0
    BY EmptySeq
  <2> QED
    BY <1>0, <1>3, <2>1, <2>2 DEF WriteFlag, Owned, TypeOK
<1>4. ASSUME NEW s \in Sessions, ReadEcho(s) PROVE Owned(t)'
  <2>1. CASE t = s
    <3> DEFINE q == toClient[s]
    <3>1. q \in Seq(Flags \cup Ports) /\ q # <<>>
      BY <1>4 DEF ReadEcho, TypeOK
    <3>2. /\ Tail(q) \in Seq(Flags \cup Ports)
          /\ Len(Tail(q)) = Len(q) - 1 /\ Len(q) \in Nat \ {0}
      BY <3>1, HeadTailProperties, EmptySeq
    <3>3. Len(q) <= 1 => Tail(q) = <<>>
      <4> DEFINE n == Len(q)
                 m == Len(Tail(q))
      <4>1. n \in Nat \ {0} /\ m = n - 1
        BY <3>2
      <4> HIDE DEF n, m
      <4>2. n <= 1 => m = 0
        BY <4>1
      <4>3. m = 0 => Tail(q) = <<>>
        BY <3>2, EmptySeq DEF m
      <4> QED
        BY <4>2, <4>3 DEF n
    <3> QED
      BY <1>0, <1>4, <2>1, <3>3 DEF ReadEcho, Owned, TypeOK
  <2>2. CASE t # s
    BY <1>0, <1>4, <2>2 DEF ReadEcho, Owned, TypeOK
  <2> QED
    BY <2>1, <2>2
<1>5. ASSUME NEW s \in Sessions, ReadPort(s) PROVE Owned(t)'
  <2>1. /\ Head(toClient[s]) = bound[s] /\ cpc[s] = "readPort" /\ toClient[s] # <<>>
        /\ spc[s] \notin {"none", "backlog", "readFlag", "echo", "bind", "writePort"}
    BY <1>5, PortRead DEF ReadPort, Early
  <2>2. spc[s] # "dead"
    BY <2>1 DEF Owned
  <2>3. spc[s] \in {"recv", "relay"}
    BY <2>1, <2>2 DEF TypeOK, ChildRuns
  <2>4. bound[s] # None
    BY <2>3 DEF ChildKnows
  <2> QED
    BY <1>0, <1>5, <2>1, <2>3, <2>4 DEF ReadPort, Owned, TypeOK
<1>6. ASSUME NEW s \in Sessions, SendHello(s) \/ ClientSend(s) \/ ClientStop(s)
      PROVE  Owned(t)'
  BY <1>0, <1>6 DEF SendHello, ClientSend, ClientStop, Owned, TypeOK
<1>7. CASE Accept \/ AcceptFails
  <2> DEFINE h == Head(backlog)
  <2>1. h \in Sessions /\ spc[h] = "backlog"
    BY <1>7, HeadQueued DEF Accept, AcceptFails
  <2>2. /\ t # h => spc'[t] = spc[t]
        /\ spc'[h] \in {"readFlag", "dead"}
        /\ UNCHANGED <<cpc, cport, toClient, bound>>
    BY <1>7, <2>1 DEF Accept, AcceptFails, TypeOK
  <2>3. /\ cport[h] = None
        /\ cpc[h] = "readEcho" => toClient[h] = <<>>
        /\ cpc[h] # "readPort"
    BY <2>1 DEF Wire, Early
  <2>4. Len(<<>>) = 0
    BY EmptySeq
  <2>5. CASE t = h
    BY <1>0, <2>1, <2>2, <2>3, <2>4, <2>5 DEF Owned
  <2>6. CASE t # h
    BY <1>0, <2>2, <2>6 DEF Owned
  <2> QED
    BY <2>5, <2>6
<1>8. ASSUME NEW s \in Sessions, NEW p \in Ports,
             \/ ChildReadFlag(s) \/ ChildEcho(s) \/ ChildBind(s, p)
             \/ ChildWritePort(s) \/ ChildRecv(s)
      PROVE  Owned(t)'
  <2>1. /\ \A c \in Sessions : c # s => /\ spc'[c] = spc[c] /\ bound'[c] = bound[c]
                                        /\ toClient'[c] = toClient[c]
        /\ UNCHANGED <<cpc, cport>>
    BY <1>8 DEF ChildReadFlag, ChildEcho, ChildBind, ChildWritePort, ChildRecv, TypeOK
  <2>2. \/ spc[s] = "readFlag" /\ spc'[s] = "echo" /\ bound' = bound
        \/ spc[s] = "echo" /\ spc'[s] = "bind" /\ bound' = bound
        \/ spc[s] = "bind" /\ spc'[s] = "writePort"
        \/ spc[s] = "writePort" /\ spc'[s] = "recv"
        \/ spc[s] = "recv" /\ spc'[s] = "relay"
    BY <1>8 DEF ChildReadFlag, ChildEcho, ChildBind, ChildWritePort, ChildRecv, TypeOK
  <2>3. CASE t = s
    BY <1>0, <2>1, <2>2, <2>3 DEF Owned
  <2>4. CASE t # s
    BY <1>0, <2>1, <2>4 DEF Owned
  <2> QED
    BY <2>3, <2>4
<1>9. ASSUME NEW s \in Sessions, ChildEnds(s) PROVE Owned(t)'
  <2>1. spc[s] \in {"readFlag", "echo", "writePort"}
    BY <1>9, CalmEnds
  <2>2. /\ cport[s] = None
        /\ cpc[s] = "readEcho" => toClient[s] = <<>> \/ Len(toClient[s]) = 1
        /\ cpc[s] = "readPort" => toClient[s] = <<>>
    BY <2>1 DEF Wire, Early
  <2>3. Len(<<>>) = 0
    BY EmptySeq
  <2>4. /\ t # s => spc'[t] = spc[t]
        /\ spc'[s] = "dead"
        /\ UNCHANGED <<cpc, cport, bound, toClient>>
    BY <1>9 DEF ChildEnds, TypeOK
  <2>5. CASE t = s
    <3>1. cpc[s] = "readEcho" => Len(toClient[s]) <= 1
      <4> DEFINE n == Len(toClient[s])
      <4>1. cpc[s] = "readEcho" => n = 0 \/ n = 1
        BY <2>2, <2>3
      <4> HIDE DEF n
      <4>2. cpc[s] = "readEcho" => n <= 1
        BY <4>1
      <4> QED
        BY <4>2 DEF n
    <3> QED
      BY <1>0, <2>2, <2>4, <2>5, <3>1 DEF Owned
  <2>6. CASE t # s
    BY <1>0, <2>4, <2>6 DEF Owned
  <2> QED
    BY <2>5, <2>6
<1>10. ASSUME NEW s \in Sessions, ChildTake(s) \/ ChildSend(s) \/ Network(s)
       PROVE  Owned(t)'
  BY <1>0, <1>10 DEF ChildTake, ChildSend, Network, Deliver, Lose, DeliverDown, Owned
<1>11. CASE ParentDies \/ UNCHANGED vars
  BY <1>0, <1>11 DEF ParentDies, vars, Owned
<1> QED
  BY <1>1, <1>2, <1>3, <1>4, <1>5, <1>6, <1>7, <1>8, <1>9, <1>10, <1>11,
     PortAssumption DEF Next, Client, Child

-------------------------------------------------------------------------------
(* Traffic *)

\* The live child at the port a client sends to is its own, and listens to it.
LEMMA Takers ==
  ASSUME CalmInv, NEW s \in Sessions, up[s] # <<>>
  PROVE  {c \in Sessions : Alive(c) /\ bound[c] = cport[s] /\ peer[c] \in {None, s}}
           = {s}
<1> USE DEF CalmInv, IInv
<1>1. cport[s] # None /\ spc[s] \in {"recv", "relay"}
  BY DEF Traffic, Owned
<1>2. bound[s] = cport[s] /\ Alive(s)
  BY <1>1 DEF HandshakeAgreement, Alive, ChildRuns
<1>3. peer[s] \in {None, s}
  BY <1>1 DEF ChildKnows, Traffic
<1>4. ASSUME NEW c \in Sessions, Alive(c), bound[c] = cport[s] PROVE c = s
  BY <1>1, <1>2, <1>4 DEF PortsApart
<1> QED
  BY <1>2, <1>3, <1>4

LEMMA NextTraffic == Calm /\ CalmInv /\ [Next]_vars => \A t \in Sessions : Traffic(t)'
<1> SUFFICES ASSUME Calm, CalmInv, [Next]_vars, NEW t \in Sessions PROVE Traffic(t)'
  OBVIOUS
<1> USE DEF CalmInv, IInv
<1>0. /\ Traffic(t) /\ Owned(t)
      /\ sockq[t] \in Seq(Message) /\ up[t] \in Seq(Flags \cup {Data})
  BY DEF TypeOK, Message
<1>1. ASSUME NEW s \in Sessions, Connect(s) PROVE Traffic(t)'
  <2>1. spc[s] = "none" /\ cpc[s] = "idle"
    BY <1>1 DEF Connect, Stages
  <2> QED
    BY <1>0, <1>1, <2>1 DEF Connect, Traffic, Owned, TypeOK
<1>2. ASSUME NEW s \in Sessions,
             \/ ConnectFails(s) \/ WriteFlagFails(s) \/ ReadFails(s)
             \/ OpenTunnel(s) \/ OpenTunnelFails(s) \/ SendHelloFails(s)
             \/ ClientReturns(s) \/ ClientDies(s)
      PROVE  Traffic(t)'
  <2>1. /\ \/ cpc'[t] = cpc[t]
           \/ cpc[t] = "tunnel" /\ cpc'[t] = "hello"
           \/ cpc'[t] \in ClientEnds
        /\ UNCHANGED <<flag, spc, peer, cport, up, sockq>>
    BY <1>2 DEF ConnectFails, WriteFlagFails, ReadFails, OpenTunnel, OpenTunnelFails,
                SendHelloFails, ClientExits, NetFails, ClientReturns, ClientDies,
                ClientStep, TypeOK, ClientEnds
  <2> QED
    BY <1>0, <2>1 DEF Traffic, ClientEnds
<1>3. ASSUME NEW s \in Sessions, NEW f \in Flags, WriteFlag(s, f) PROVE Traffic(t)'
  <2>1. CASE t = s
    <3>1. /\ cpc[t] = "writeFlag" /\ cpc'[t] = "readEcho"
          /\ UNCHANGED <<spc, peer, cport, up, sockq>>
          /\ flag'[t] = f
      BY <1>3, <2>1 DEF WriteFlag, TypeOK
    <3>2. cport[t] = None /\ up[t] = <<>> /\ sockq[t] = <<>> /\ spc[t] # "relay"
      BY <1>0, <3>1 DEF Traffic, Owned
    <3>3. Line(<<>>, <<>>, t, f)
      BY LineHello
    <3> QED
      BY <3>1, <3>2, <3>3 DEF Traffic
  <2>2. CASE t # s
    BY <1>0, <1>3, <2>2 DEF WriteFlag, Traffic, TypeOK
  <2> QED
    BY <2>1, <2>2
<1>4. ASSUME NEW s \in Sessions, ReadEcho(s) \/ ClientStop(s) PROVE Traffic(t)'
  <2>1. /\ cpc'[t] = cpc[t] \/ cpc'[t] = "readPort"
        /\ UNCHANGED <<flag, spc, peer, cport, up, sockq>>
    BY <1>4 DEF ReadEcho, ClientStop, TypeOK
  <2> QED
    BY <1>0, <2>1 DEF Traffic
<1>5. ASSUME NEW s \in Sessions, ReadPort(s) PROVE Traffic(t)'
  <2>1. /\ t # s => cport'[t] = cport[t] /\ cpc'[t] = cpc[t]
        /\ cpc[s] = "readPort" /\ cpc'[s] = "tunnel"
        /\ UNCHANGED <<flag, spc, peer, up, sockq>>
    BY <1>5 DEF ReadPort, TypeOK
  <2>2. CASE t = s
    <3>1. up[t] = <<>> /\ sockq[t] = <<>> /\ spc[t] # "relay"
      BY <1>0, <2>1, <2>2 DEF Traffic, Owned
    <3> QED
      BY <1>0, <2>1, <2>2, <3>1 DEF Traffic
  <2>3. CASE t # s
    BY <1>0, <2>1, <2>3 DEF Traffic
  <2> QED
    BY <2>2, <2>3
<1>6. ASSUME NEW s \in Sessions, SendHello(s) PROVE Traffic(t)'
  <2>1. /\ t # s => up'[t] = up[t] /\ cpc'[t] = cpc[t]
        /\ cpc[s] = "hello" /\ cpc'[s] = "relay"
        /\ up'[s] = Append(up[s], flag[s])
        /\ UNCHANGED <<flag, spc, peer, cport, sockq>>
    BY <1>6 DEF SendHello, TypeOK
  <2>2. CASE t = s
    <3>1. up[t] = <<>> /\ sockq[t] = <<>> /\ spc[t] # "relay" /\ cport[t] # None
      BY <1>0, <2>1, <2>2 DEF Traffic, Owned
    <3>2. flag[t] \in Flags
      BY <2>1, <2>2 DEF Stages, TypeOK, ClientRuns
    <3>3. /\ Line(<<>>, Append(<<>>, flag[t]), t, flag[t])
          /\ Append(<<>>, flag[t]) # <<>>
      BY <3>2, LineHello
    <3> QED
      BY <2>1, <2>2, <3>1, <3>3 DEF Traffic
  <2>3. CASE t # s
    BY <1>0, <2>1, <2>3 DEF Traffic
  <2> QED
    BY <2>2, <2>3
<1>7. ASSUME NEW s \in Sessions, ClientSend(s) PROVE Traffic(t)'
  <2>1. /\ t # s => up'[t] = up[t]
        /\ cpc[s] = "relay"
        /\ up'[s] = Append(up[s], Data)
        /\ UNCHANGED <<cpc, flag, spc, peer, cport, sockq>>
    BY <1>7 DEF ClientSend, TypeOK
  <2>2. CASE t = s
    <3>1. cport[t] # None
      BY <1>0, <2>1, <2>2 DEF Owned
    <3>2. /\ up'[t] # <<>>
          /\ Plain(sockq[t], up[t], t) => Plain(sockq[t], up'[t], t)
          /\ Line(sockq[t], up[t], t, flag[t]) /\ (sockq[t] # <<>> \/ up[t] # <<>>)
               => Line(sockq[t], up'[t], t, flag[t])
      BY <1>0, <2>1, <2>2, LineSend
    <3> QED
      BY <1>0, <2>1, <2>2, <3>1, <3>2 DEF Traffic
  <2>3. CASE t # s
    BY <1>0, <2>1, <2>3 DEF Traffic
  <2> QED
    BY <2>2, <2>3
<1>8. CASE Accept \/ AcceptFails
  <2> DEFINE h == Head(backlog)
  <2>1. h \in Sessions /\ spc[h] = "backlog"
    BY <1>8, HeadQueued DEF Accept, AcceptFails
  <2>2. /\ t # h => spc'[t] = spc[t]
        /\ spc'[h] \in {"readFlag", "dead"}
        /\ UNCHANGED <<cpc, flag, peer, cport, up, sockq>>
    BY <1>8, <2>1 DEF Accept, AcceptFails, TypeOK
  <2>3. CASE t = h
    BY <1>0, <2>1, <2>2, <2>3 DEF Traffic
  <2>4. CASE t # h
    BY <1>0, <2>2, <2>4 DEF Traffic
  <2> QED
    BY <2>3, <2>4
<1>9. ASSUME NEW s \in Sessions, NEW p \in Ports,
             ChildReadFlag(s) \/ ChildEcho(s) \/ ChildBind(s, p) \/ ChildWritePort(s)
      PROVE  Traffic(t)'
  <2>1. /\ t # s => spc'[t] = spc[t]
        /\ spc[s] # "relay" /\ spc'[s] # "relay"
        /\ UNCHANGED <<cpc, flag, peer, cport, up, sockq>>
    BY <1>9 DEF ChildReadFlag, ChildEcho, ChildBind, ChildWritePort, TypeOK
  <2> QED
    BY <1>0, <2>1 DEF Traffic
<1>10. ASSUME NEW s \in Sessions, ChildRecv(s) PROVE Traffic(t)'
  <2>1. /\ spc[s] = "recv" /\ sockq[s] # <<>>
        /\ spc'[s] = "relay" /\ sockq'[s] = Tail(sockq[s])
        /\ Head(sockq[s])[2] = sflag[s] => peer'[s] = Head(sockq[s])[1]
        /\ t # s => spc'[t] = spc[t] /\ sockq'[t] = sockq[t] /\ peer'[t] = peer[t]
        /\ UNCHANGED <<cpc, flag, cport, up>>
    BY <1>10 DEF ChildRecv, Calm, TypeOK
  <2>2. CASE t = s
    <3>1. sflag[t] = flag[t]
      BY <2>1, <2>2 DEF ChildKnows, HandshakeAgreement, ChildRuns
    <3>2. Head(sockq[t]) = <<t, flag[t]>> /\ Plain(Tail(sockq[t]), up[t], t)
      <4>1. Line(sockq[t], up[t], t, flag[t])
        BY <1>0, <2>1, <2>2 DEF Traffic
      <4> QED
        BY <1>0, <2>1, <2>2, <4>1, LineTake
    <3>3. cport[t] # None /\ cpc[t] \notin {"tunnel", "hello"}
      BY <1>0, <2>1, <2>2 DEF Traffic
    <3>4. peer'[t] = t
      BY <2>1, <2>2, <3>1, <3>2
    <3> QED
      BY <2>1, <2>2, <3>2, <3>3, <3>4 DEF Traffic
  <2>3. CASE t # s
    BY <1>0, <2>1, <2>3 DEF Traffic
  <2> QED
    BY <2>2, <2>3
<1>11. ASSUME NEW s \in Sessions, ChildTake(s) PROVE Traffic(t)'
  <2>1. /\ spc[s] = "relay" /\ sockq[s] # <<>> /\ sockq'[s] = Tail(sockq[s])
        /\ t # s => sockq'[t] = sockq[t]
        /\ UNCHANGED <<cpc, flag, spc, peer, cport, up>>
    BY <1>11 DEF ChildTake, TypeOK
  <2>2. CASE t = s
    <3>1. Plain(Tail(sockq[t]), up[t], t)
      <4>1. Plain(sockq[t], up[t], t)
        BY <1>0, <2>1, <2>2 DEF Traffic
      <4> QED
        BY <1>0, <2>1, <2>2, <4>1, LineTake
    <3> QED
      BY <1>0, <2>1, <2>2, <3>1 DEF Traffic
  <2>3. CASE t # s
    BY <1>0, <2>1, <2>3 DEF Traffic
  <2> QED
    BY <2>2, <2>3
<1>12. ASSUME NEW s \in Sessions, ChildSend(s) PROVE Traffic(t)'
  BY <1>0, <1>12 DEF ChildSend, Traffic
<1>13. ASSUME NEW s \in Sessions, ChildEnds(s) PROVE Traffic(t)'
  <2>1. spc[s] \in {"readFlag", "echo", "writePort"}
    BY <1>13, CalmEnds
  <2>2. /\ t # s => spc'[t] = spc[t] /\ sockq'[t] = sockq[t]
        /\ spc'[s] = "dead" /\ sockq'[s] = <<>>
        /\ UNCHANGED <<cpc, flag, peer, cport, up>>
    BY <1>13 DEF ChildEnds, TypeOK
  <2>3. CASE t = s
    <3>1. cport[t] = None
      BY <2>1, <2>3 DEF Wire, Early
    <3>2. up[t] = <<>> /\ sockq[t] = <<>> /\ cpc[t] # "relay"
      BY <1>0, <3>1 DEF Traffic, Owned
    <3> QED
      BY <1>0, <2>1, <2>2, <2>3, <3>2 DEF Traffic
  <2>4. CASE t # s
    BY <1>0, <2>2, <2>4 DEF Traffic
  <2> QED
    BY <2>3, <2>4
<1>14. ASSUME NEW s \in Sessions, NEW i \in Nat, NEW kept \in BOOLEAN,
              Deliver(s, i, kept)
       PROVE  Traffic(t)'
  <2>1. i \in 1 .. Len(up[s]) /\ i <= 1 /\ kept = FALSE
    BY <1>14 DEF Calm, Deliver
  <2>2. up[s] # <<>> /\ i = 1
    <3>1. Len(<<>>) = 0
      BY EmptySeq
    <3>2. i = 1
      BY <2>1
    <3>3. up[s] = <<>> => i \in 1 .. 0
      BY <2>1, <3>1
    <3> QED
      BY <3>2, <3>3
  <2>3. /\ sockq' = [c \in Sessions |-> IF c \in {s} THEN Append(sockq[c], <<s, up[s][1]>>)
                                        ELSE sockq[c]]
        /\ up' = [up EXCEPT ![s] = RemoveAt(@, 1)]
        /\ UNCHANGED <<cpc, flag, spc, peer, cport>>
    BY <1>14, <2>1, <2>2, Takers DEF Deliver
  <2>4. /\ t # s => up'[t] = up[t] /\ sockq'[t] = sockq[t]
        /\ up'[s] = RemoveAt(up[s], 1)
        /\ sockq'[s] = Append(sockq[s], <<s, up[s][1]>>)
    BY <2>3 DEF TypeOK
  <2>5. CASE t = s
    <3>1. cport[t] # None /\ cpc[t] \notin {"tunnel", "hello"}
      BY <1>0, <2>2, <2>5 DEF Traffic
    <3>2. /\ sockq'[t] # <<>>
          /\ Plain(sockq[t], up[t], t) => Plain(sockq'[t], up'[t], t)
          /\ Line(sockq[t], up[t], t, flag[t]) => Line(sockq'[t], up'[t], t, flag[t])
      BY <1>0, <2>2, <2>4, <2>5, LineDeliver
    <3> QED
      BY <1>0, <2>3, <3>1, <3>2 DEF Traffic
  <2>6. CASE t # s
    BY <1>0, <2>3, <2>4, <2>6 DEF Traffic
  <2> QED
    BY <2>5, <2>6
<1>15. ASSUME NEW s \in Sessions, NEW c \in Sessions, DeliverDown(s, c)
       PROVE  Traffic(t)'
  BY <1>0, <1>15 DEF DeliverDown, Traffic
<1>16. ASSUME NEW s \in Sessions, NEW i \in Nat PROVE ~Lose(s, i)
  BY DEF Calm, Lose
<1>17. CASE ParentDies \/ UNCHANGED vars
  BY <1>0, <1>17 DEF ParentDies, vars, Traffic
<1>18. 1 .. MaxFlight \subseteq Nat
  BY FlightAssumption
<1>19. ASSUME NEW s \in Sessions, Network(s) PROVE Traffic(t)'
  BY <1>14, <1>15, <1>16, <1>18, <1>19 DEF Network
<1> QED
  BY <1>1, <1>2, <1>3, <1>4, <1>5, <1>6, <1>7, <1>8, <1>9, <1>10, <1>11, <1>12,
     <1>13, <1>17, <1>19, PortAssumption DEF Next, Client, Child

-------------------------------------------------------------------------------
\* The inductive invariant: on a calm network every reachable state satisfies it.
THEOREM CalmInvariance == ASSUME Calm PROVE Spec => []CalmInv
<1>1. CalmInv /\ [Next]_vars => CalmInv'
  <2>1. IInv /\ [Next]_vars => IInv'
    BY NextTypeOK, NextStages, NextQueued, NextWire, NextPayloads, NextChildKnows,
       NextHandshakeAgreement, NextPeers, NextAppExitCause DEF IInv
  <2> QED
    BY Calm, <2>1, NextPortsApart, NextOwned, NextTraffic DEF CalmInv
<1> QED
  BY <1>1, InitCalmInv, PTL DEF Spec

\* Where nothing is lost, reordered or duplicated and nobody is killed, every
\* relay is connected to its own client, for any number of phones and also when
\* nonces are equal.
THEOREM RelayFindsItsClient == ASSUME Calm PROVE Spec => []RelayConnected
<1>1. CalmInv => RelayConnected
  BY DEF CalmInv, Traffic, RelayConnected
<1> QED
  BY <1>1, CalmInvariance, PTL

\* On such a network a relay's socket holds packets of its own phone only, and
\* the nonce is never among them.
THEOREM RelayCarriesItsOwn == ASSUME Calm PROVE Spec => []OnlyOwnTraffic
<1>1. CalmInv => OnlyOwnTraffic
  BY DEF CalmInv, Traffic, Plain, OnlyOwnTraffic
<1> QED
  BY <1>1, CalmInvariance, PTL
===============================================================================
