-------------------------- MODULE TunnelSetupProofs ---------------------------
(* Theorems about TunnelSetup, for any number of phones, any nonces and ports, *)
(* any faults and any bounds: the two sides of a session agree on nonce and    *)
(* port, a child connects to its own client, a phone relays what its own child *)
(* sent, an app exits in the handshake for the two known reasons only, and the *)
(* handshake as a whole implements Rendezvous.                                 *)
EXTENDS TunnelSetup, SequenceTheorems, TLAPS

-------------------------------------------------------------------------------
(* Sequences *)

\* A queue from which one element was taken still holds elements of its set.
LEMMA RemoveAtSeq ==
  ASSUME NEW S, NEW q \in Seq(S), NEW i \in 1 .. Len(q)
  PROVE  RemoveAt(q, i) \in Seq(S)
<1>1. Len(q) \in Nat /\ \A j \in 1 .. Len(q) : q[j] \in S
  BY LenProperties, ElementOfSeq
<1>2. SubSeq(q, 1, i - 1) \in Seq(S)
  BY <1>1, SubSeqProperties
<1>3. SubSeq(q, i + 1, Len(q)) \in Seq(S)
  BY <1>1, SubSeqProperties
<1> QED
  BY <1>2, <1>3, ConcatProperties DEF RemoveAt

\* Looking at and removing the head of a queue, and adding to its end.
LEMMA QueueOps ==
  ASSUME NEW S, NEW q \in Seq(S)
  PROVE  /\ q # <<>> => Head(q) \in S /\ Tail(q) \in Seq(S)
         /\ \A e \in S : Append(q, e) \in Seq(S)
  BY HeadTailProperties, AppendProperties

-------------------------------------------------------------------------------
(* The inductive invariant *)

\* Where the client and the child can be together.  A nonce is drawn once.
Stages ==
  /\ \A s \in Sessions :
       /\ cpc[s] = "idle" => spc[s] = "none" /\ toChild[s] = <<>>
       /\ cpc[s] \in ClientRuns => spc[s] # "none"
       /\ cpc[s] = "writeFlag" => spc[s] \in {"backlog", "readFlag", "dead"}
                                  /\ toChild[s] = <<>>
       /\ cpc[s] \in {"idle", "writeFlag"} => flag[s] = None
       /\ cpc[s] \in ClientRuns \ {"writeFlag"} => flag[s] # None
  /\ FreshFlags => \A s, t \in Sessions :
                     flag[s] # None /\ flag[s] = flag[t] => s = t

\* main accepts a connection once.
Queued ==
  /\ \A i \in 1 .. Len(backlog) : spc[backlog[i]] = "backlog"
  /\ \A i, j \in 1 .. Len(backlog) : backlog[i] = backlog[j] => i = j

Early == {"none", "backlog", "readFlag", "echo"}

\* What is on the control connection towards the client, stage by stage.
Wire ==
  \A s \in Sessions :
    /\ cpc[s] \in {"idle", "writeFlag"} => toClient[s] = <<>>
    /\ cpc[s] = "readEcho" =>
         /\ spc[s] \in Early => toClient[s] = <<>>
         /\ spc[s] \in {"bind", "writePort"} => Len(toClient[s]) = 1
         /\ Len(toClient[s]) <= 2
         /\ Len(toClient[s]) = 2 => toClient[s][2] = bound[s]
    /\ cpc[s] = "readPort" =>
         /\ spc[s] \notin Early
         /\ spc[s] \in {"bind", "writePort"} => toClient[s] = <<>>
         /\ Len(toClient[s]) <= 1
         /\ Len(toClient[s]) = 1 => toClient[s][1] = bound[s]
    /\ spc[s] \in Early \cup {"bind", "writePort"} => cport[s] = None

\* What a client sends is its nonce or data: on the connection, on the way to
\* the port it knows, and in the queue of whichever child has that port.
Honest(s) == {v \in Flags \cup {Data} : v = Data \/ v = flag[s]}
Sent == {m \in Sessions \X (Flags \cup {Data}) : m[2] \in Honest(m[1])}
Payloads ==
  \A s \in Sessions : /\ toChild[s] \in Seq({f \in Flags : f = flag[s]})
                      /\ up[s] \in Seq(Honest(s))
                      /\ sockq[s] \in Seq(Sent)

\* What a child knows, stage by stage.
ChildKnows ==
  \A s \in Sessions :
    /\ spc[s] \in ChildRuns \ {"readFlag"} => sflag[s] # None
    /\ spc[s] \in {"writePort", "recv", "relay"} => bound[s] # None
    /\ spc[s] \notin {"relay", "dead"} => peer[s] = None

\* A child with a peer has its nonce, and sends to nobody else.
Peers ==
  \A s \in Sessions :
    /\ peer[s] # None => sflag[s] # None /\ flag[peer[s]] = sflag[s]
    /\ \A c \in down[s] : peer[c] = s

IInv ==
  /\ TypeOK
  /\ Stages
  /\ Queued
  /\ Wire
  /\ Payloads
  /\ ChildKnows
  /\ HandshakeAgreement
  /\ Peers
  /\ AppExitCause

USE DEF clientVars, childVars, serverVars, tcpVars, udpVars

-------------------------------------------------------------------------------
(* Types *)

LEMMA InitTypeOK == Init => TypeOK
<1>1. \A S : <<>> \in Seq(S)
  BY EmptySeq
<1> QED
  BY <1>1, NoneAssumption DEF Init, TypeOK

LEMMA NextTypeOK == IInv /\ [Next]_vars => TypeOK'
<1> SUFFICES ASSUME IInv, [Next]_vars PROVE TypeOK'
  OBVIOUS
<1> USE DEF IInv
<1>1. ASSUME NEW s \in Sessions, Connect(s) PROVE TypeOK'
  <2>1. Append(backlog, s) \in Seq(Sessions)
    BY QueueOps DEF TypeOK
  <2> QED
    BY <1>1, <2>1 DEF Connect, TypeOK, ClientRuns
<1>2. ASSUME NEW s \in Sessions,
             \/ ConnectFails(s) \/ WriteFlagFails(s) \/ ReadFails(s)
             \/ OpenTunnel(s) \/ OpenTunnelFails(s) \/ SendHelloFails(s)
             \/ ClientReturns(s) \/ ClientDies(s)
      PROVE  TypeOK'
  <2>1. CASE WriteFlagFails(s) \/ ReadFails(s) \/ SendHelloFails(s)
    <3>1. ClientExits(s) /\ (UNCHANGED broken \/ NetFails(s))
      BY <2>1 DEF WriteFlagFails, ReadFails, SendHelloFails
    <3> QED
      BY <3>1 DEF ClientExits, NetFails, TypeOK, ClientEnds
  <2>2. CASE \/ ConnectFails(s) \/ OpenTunnel(s) \/ OpenTunnelFails(s)
             \/ ClientReturns(s) \/ ClientDies(s)
    <3>1. PICK pc \in {"hello"} \cup ClientEnds : ClientStep(s, pc)
      BY <2>2 DEF ConnectFails, OpenTunnel, OpenTunnelFails, ClientReturns, ClientDies,
                  ClientEnds
    <3> QED
      BY <3>1 DEF ClientStep, TypeOK, ClientRuns
  <2> QED
    BY <1>2, <2>1, <2>2
<1>3. ASSUME NEW s \in Sessions, NEW f \in Flags, WriteFlag(s, f) PROVE TypeOK'
  <2>1. Append(toChild[s], f) \in Seq(Flags)
    BY QueueOps DEF TypeOK
  <2> QED
    BY <1>3, <2>1 DEF WriteFlag, TypeOK, ClientRuns
<1>4. ASSUME NEW s \in Sessions, ReadEcho(s) \/ ReadPort(s) PROVE TypeOK'
  <2>1. toClient[s] # <<>>
    BY <1>4 DEF ReadEcho, ReadPort
  <2>2. Tail(toClient[s]) \in Seq(Flags \cup Ports)
    BY <2>1, QueueOps DEF TypeOK
  <2>3. CASE ReadEcho(s)
    BY <2>2, <2>3 DEF ReadEcho, TypeOK, ClientRuns
  <2>4. CASE ReadPort(s)
    <3>1. Head(toClient[s]) = bound[s]
      <4>1. Len(toClient[s]) \in Nat \ {0}
        BY <2>1, EmptySeq DEF TypeOK
      <4>2. Len(toClient[s]) = 1 => toClient[s][1] = bound[s]
        BY <2>4 DEF ReadPort, Wire
      <4>3. Len(toClient[s]) <= 1
        BY <2>4 DEF ReadPort, Wire
      <4>4. Len(toClient[s]) = 1
        <5> DEFINE n == Len(toClient[s])
        <5>1. n \in Nat \ {0} /\ n <= 1
          BY <4>1, <4>3
        <5> HIDE DEF n
        <5>2. n = 1
          BY <5>1
        <5> QED
          BY <5>2 DEF n
      <4> QED
        BY <4>2, <4>4
    <3> QED
      BY <2>2, <2>4, <3>1 DEF ReadPort, TypeOK, ClientRuns
  <2> QED
    BY <1>4, <2>3, <2>4
<1>5. ASSUME NEW s \in Sessions, SendHello(s) \/ ClientSend(s) PROVE TypeOK'
  <2>2. CASE SendHello(s)
    <3>1. Append(up[s], flag[s]) \in Seq(Flags \cup {Data})
      <4>1. flag[s] \in Flags \cup {Data}
        BY <2>2 DEF SendHello, Stages, TypeOK, ClientRuns
      <4> QED
        BY <4>1, QueueOps DEF TypeOK
    <3> QED
      BY <2>2, <3>1 DEF SendHello, TypeOK, ClientRuns
  <2>3. CASE ClientSend(s)
    <3>1. Append(up[s], Data) \in Seq(Flags \cup {Data})
      BY QueueOps DEF TypeOK
    <3> QED
      BY <2>3, <3>1 DEF ClientSend, TypeOK
  <2> QED
    BY <1>5, <2>2, <2>3
<1>6. ASSUME NEW s \in Sessions, ClientStop(s) PROVE TypeOK'
  BY <1>6 DEF ClientStop, TypeOK
<1>7. CASE Accept \/ AcceptFails
  <2>1. backlog # <<>>
    BY <1>7 DEF Accept, AcceptFails
  <2>2. Head(backlog) \in Sessions /\ Tail(backlog) \in Seq(Sessions)
    BY <2>1, QueueOps DEF TypeOK
  <2>3. CASE Accept
    <3>1. spc' \in [Sessions -> {"none", "backlog", "dead"} \cup ChildRuns]
      BY <2>2, <2>3 DEF Accept, TypeOK, ChildRuns
    <3>2. holds' \in [Sessions -> SUBSET Sessions]
      BY <2>2, <2>3 DEF Accept, TypeOK
    <3> QED
      BY <2>2, <2>3, <3>1, <3>2 DEF Accept, TypeOK
  <2>4. CASE AcceptFails
    BY <2>2, <2>4 DEF AcceptFails, TypeOK
  <2> QED
    BY <1>7, <2>3, <2>4
<1>8. CASE ParentDies
  BY <1>8 DEF ParentDies, TypeOK
<1>9. ASSUME NEW s \in Sessions, ChildReadFlag(s) PROVE TypeOK'
  <2>1. Head(toChild[s]) \in Flags /\ Tail(toChild[s]) \in Seq(Flags)
    BY <1>9, QueueOps DEF ChildReadFlag, TypeOK
  <2> QED
    BY <1>9, <2>1 DEF ChildReadFlag, TypeOK, ChildRuns
<1>10. ASSUME NEW s \in Sessions, ChildEcho(s) PROVE TypeOK'
  <2>1. sflag[s] \in Flags \cup Ports
    BY <1>10 DEF ChildEcho, ChildKnows, TypeOK, ChildRuns
  <2>2. Append(toClient[s], sflag[s]) \in Seq(Flags \cup Ports)
    BY <2>1, QueueOps DEF TypeOK
  <2> QED
    BY <1>10, <2>2 DEF ChildEcho, TypeOK, ChildRuns
<1>11. ASSUME NEW s \in Sessions, NEW p \in Ports, ChildBind(s, p) PROVE TypeOK'
  BY <1>11 DEF ChildBind, TypeOK, ChildRuns
<1>12. ASSUME NEW s \in Sessions, ChildWritePort(s) PROVE TypeOK'
  <2>1. bound[s] \in Flags \cup Ports
    BY <1>12 DEF ChildWritePort, ChildKnows, TypeOK
  <2>2. Append(toClient[s], bound[s]) \in Seq(Flags \cup Ports)
    BY <2>1, QueueOps DEF TypeOK
  <2> QED
    BY <1>12, <2>2 DEF ChildWritePort, TypeOK, ChildRuns
<1>13. ASSUME NEW s \in Sessions, ChildRecv(s) \/ ChildTake(s) PROVE TypeOK'
  <2>1. sockq[s] # <<>>
    BY <1>13 DEF ChildRecv, ChildTake
  <2>2. /\ Head(sockq[s]) \in Sessions \X (Flags \cup {Data})
        /\ Tail(sockq[s]) \in Seq(Sessions \X (Flags \cup {Data}))
    BY <2>1, QueueOps DEF TypeOK
  <2>3. sockq' \in [Sessions -> Seq(Sessions \X (Flags \cup {Data}))]
    <3>1. sockq' = [sockq EXCEPT ![s] = Tail(@)]
      BY <1>13 DEF ChildRecv, ChildTake
    <3> QED
      BY <2>2, <3>1 DEF TypeOK
  <2>4. CASE ChildRecv(s)
    <3>1. peer' \in [Sessions -> Sessions \cup {None}]
      <4>1. Head(sockq[s])[1] \in Sessions
        BY <2>2
      <4> QED
        BY <2>4, <4>1 DEF ChildRecv, TypeOK
    <3>2. spc' \in [Sessions -> {"none", "backlog", "dead"} \cup ChildRuns]
      BY <2>4 DEF ChildRecv, TypeOK, ChildRuns
    <3> QED
      BY <2>3, <2>4, <3>1, <3>2 DEF ChildRecv, TypeOK
  <2>5. CASE ChildTake(s)
    BY <2>3, <2>5 DEF ChildTake, TypeOK
  <2> QED
    BY <1>13, <2>4, <2>5
<1>14. ASSUME NEW s \in Sessions, ChildSend(s) PROVE TypeOK'
  BY <1>14 DEF ChildSend, TypeOK
<1>15. ASSUME NEW s \in Sessions, ChildEnds(s) PROVE TypeOK'
  <2>1. <<>> \in Seq(Sessions \X (Flags \cup {Data}))
    BY EmptySeq
  <2> QED
    BY <1>15, <2>1 DEF ChildEnds, TypeOK
<1>16. ASSUME NEW s \in Sessions, NEW i \in 1 .. MaxFlight, NEW kept \in BOOLEAN,
              Deliver(s, i, kept)
       PROVE  TypeOK'
  <2>1. i \in 1 .. Len(up[s]) /\ up[s] \in Seq(Flags \cup {Data})
    BY <1>16 DEF Deliver, TypeOK
  <2>2. up[s][i] \in Flags \cup {Data}
    BY <2>1, ElementOfSeq
  <2>3. RemoveAt(up[s], i) \in Seq(Flags \cup {Data})
    BY <2>1, RemoveAtSeq
  <2>4. \A c \in Sessions : Append(sockq[c], <<s, up[s][i]>>)
                              \in Seq(Sessions \X (Flags \cup {Data}))
    <3>1. <<s, up[s][i]>> \in Sessions \X (Flags \cup {Data})
      BY <2>2
    <3> QED
      BY <3>1, QueueOps DEF TypeOK
  <2>5. up' \in [Sessions -> Seq(Flags \cup {Data})]
    BY <1>16, <2>3 DEF Deliver, TypeOK
  <2>6. sockq' \in [Sessions -> Seq(Sessions \X (Flags \cup {Data}))]
    BY <1>16, <2>4 DEF Deliver, TypeOK
  <2> QED
    BY <1>16, <2>5, <2>6 DEF Deliver, TypeOK
<1>17. ASSUME NEW s \in Sessions, NEW i \in 1 .. MaxFlight, Lose(s, i) PROVE TypeOK'
  <2>1. RemoveAt(up[s], i) \in Seq(Flags \cup {Data})
    BY <1>17, RemoveAtSeq DEF Lose, TypeOK
  <2> QED
    BY <1>17, <2>1 DEF Lose, TypeOK
<1>18. ASSUME NEW s \in Sessions, NEW c \in Sessions, DeliverDown(s, c) PROVE TypeOK'
  BY <1>18 DEF DeliverDown, TypeOK
<1>19. CASE UNCHANGED vars
  BY <1>19 DEF vars, TypeOK
<1> QED
  BY <1>1, <1>2, <1>3, <1>4, <1>5, <1>6, <1>7, <1>8, <1>9, <1>10, <1>11, <1>12,
     <1>13, <1>14, <1>15, <1>16, <1>17, <1>18, <1>19
     DEF Next, Client, Child, Network

-------------------------------------------------------------------------------
(* Stages *)

\* The connection at the head of the backlog has not been accepted before.
LEMMA HeadQueued ==
  ASSUME TypeOK, Queued, backlog # <<>>
  PROVE  /\ Head(backlog) \in Sessions /\ spc[Head(backlog)] = "backlog"
         /\ backlog \in Seq(Sessions) /\ Len(backlog) \in Nat \ {0}
         /\ Head(backlog) = backlog[1]
<1>1. backlog \in Seq(Sessions) /\ Len(backlog) \in Nat \ {0}
  BY EmptySeq DEF TypeOK
<1>2. Head(backlog) = backlog[1] /\ backlog[1] \in Sessions
  BY <1>1, ElementOfSeq
<1>3. spc[backlog[1]] = "backlog"
  BY <1>1 DEF Queued
<1> QED
  BY <1>1, <1>2, <1>3

LEMMA NextStages == IInv /\ [Next]_vars => Stages'
<1> SUFFICES ASSUME IInv, [Next]_vars PROVE Stages'
  OBVIOUS
<1> USE DEF IInv, ClientRuns
<1>1. ASSUME NEW s \in Sessions, Connect(s) PROVE Stages'
  <2>1. toChild[s] = <<>>
    BY <1>1 DEF Connect, Stages
  <2> QED
    BY <1>1, <2>1 DEF Connect, Stages, TypeOK
<1>2. ASSUME NEW s \in Sessions,
             \/ ConnectFails(s) \/ WriteFlagFails(s) \/ ReadFails(s)
             \/ OpenTunnel(s) \/ OpenTunnelFails(s) \/ SendHelloFails(s)
             \/ ClientReturns(s) \/ ClientDies(s)
      PROVE  Stages'
  BY <1>2 DEF ConnectFails, WriteFlagFails, ReadFails, OpenTunnel, OpenTunnelFails,
              SendHelloFails, ClientExits, NetFails, ClientReturns, ClientDies,
              ClientStep, Stages, TypeOK
<1>3. ASSUME NEW s \in Sessions, NEW f \in Flags, WriteFlag(s, f) PROVE Stages'
  BY <1>3, NoneAssumption DEF WriteFlag, Stages, TypeOK
<1>4. ASSUME NEW s \in Sessions, ReadEcho(s) \/ ReadPort(s) \/ SendHello(s)
      PROVE  Stages'
  BY <1>4 DEF ReadEcho, ReadPort, SendHello, Stages, TypeOK
<1>5. CASE Accept \/ AcceptFails
  <2>1. spc[Head(backlog)] = "backlog" /\ Head(backlog) \in Sessions
    BY <1>5, HeadQueued DEF Accept, AcceptFails
  <2> QED
    <3>1. /\ \A t \in Sessions : t # Head(backlog) => spc'[t] = spc[t]
          /\ spc'[Head(backlog)] \in {"readFlag", "dead"}
          /\ UNCHANGED <<cpc, flag, toChild>>
      BY <1>5, <2>1 DEF Accept, AcceptFails, TypeOK
    <3>2. \A t \in Sessions : spc'[t] = spc[t]
            \/ (spc[t] = "backlog" /\ spc'[t] \in {"readFlag", "dead"})
      BY <2>1, <3>1
    <3> QED
      BY <3>1, <3>2 DEF Stages
<1>6. ASSUME NEW s \in Sessions, ChildReadFlag(s) PROVE Stages'
  BY <1>6 DEF ChildReadFlag, Stages, TypeOK
<1>7. ASSUME NEW s \in Sessions, NEW p \in Ports,
             ChildEcho(s) \/ ChildBind(s, p) \/ ChildWritePort(s) \/ ChildRecv(s)
      PROVE  Stages'
  <2>1. /\ spc[s] \in {"echo", "bind", "writePort", "recv"}
        /\ spc'[s] \in {"bind", "writePort", "recv", "relay"}
        /\ \A t \in Sessions : t # s => spc'[t] = spc[t]
        /\ UNCHANGED <<cpc, flag, toChild>>
    BY <1>7 DEF ChildEcho, ChildBind, ChildWritePort, ChildRecv, TypeOK
  <2>2. cpc[s] # "writeFlag" /\ cpc[s] # "idle"
    BY <2>1 DEF Stages
  <2> QED
    BY <2>1, <2>2 DEF Stages
<1>8. ASSUME NEW s \in Sessions, ChildEnds(s) PROVE Stages'
  BY <1>8 DEF ChildEnds, Stages, TypeOK, ChildRuns
<1>9. ASSUME NEW s \in Sessions, ClientSend(s) \/ ClientStop(s) \/ ChildTake(s)
                                 \/ ChildSend(s)
      PROVE  Stages'
  BY <1>9 DEF ClientSend, ClientStop, ChildTake, ChildSend, Stages
<1>10. ASSUME NEW s \in Sessions, Network(s) PROVE Stages'
  BY <1>10 DEF Network, Deliver, Lose, DeliverDown, Stages
<1>11. CASE UNCHANGED vars
  BY <1>11 DEF vars, Stages
<1>12. CASE ParentDies
  BY <1>12 DEF ParentDies, Stages
<1> QED
  BY <1>1, <1>2, <1>3, <1>4, <1>5, <1>6, <1>7, <1>8, <1>9, <1>10, <1>11, <1>12,
     PortAssumption DEF Next, Client, Child

LEMMA NextQueued == IInv /\ [Next]_vars => Queued'
<1> SUFFICES ASSUME IInv, [Next]_vars PROVE Queued'
  OBVIOUS
<1> USE DEF IInv
<1>0. backlog \in Seq(Sessions) /\ Len(backlog) \in Nat
      /\ \A i \in 1 .. Len(backlog) : backlog[i] \in Sessions
  BY LenProperties, ElementOfSeq DEF TypeOK
<1>1. ASSUME NEW s \in Sessions, Connect(s) PROVE Queued'
  <2>1. \A i \in 1 .. Len(backlog) : backlog[i] # s
    BY <1>1 DEF Connect, Queued, Stages
  <2>2. /\ Len(backlog') = Len(backlog) + 1
        /\ \A i \in 1 .. Len(backlog) : backlog'[i] = backlog[i]
        /\ backlog'[Len(backlog) + 1] = s
    BY <1>0, <1>1, AppendProperties DEF Connect
  <2>3. spc' = [spc EXCEPT ![s] = "backlog"]
    BY <1>1 DEF Connect
  <2>4. \A i \in 1 .. Len(backlog') : spc'[backlog'[i]] = "backlog"
    <3> SUFFICES ASSUME NEW i \in 1 .. Len(backlog') PROVE spc'[backlog'[i]] = "backlog"
      OBVIOUS
    <3>1. spc \in [Sessions -> {"none", "backlog", "dead"} \cup ChildRuns]
      BY DEF TypeOK
    <3>2. CASE i \in 1 .. Len(backlog)
      <4>1. backlog'[i] = backlog[i] /\ backlog[i] \in Sessions
            /\ spc[backlog[i]] = "backlog"
        BY <1>0, <2>2, <3>2 DEF Queued
      <4> QED
        BY <2>3, <3>1, <4>1
    <3>3. CASE i = Len(backlog) + 1
      BY <2>2, <2>3, <3>1, <3>3
    <3> QED
      BY <1>0, <2>2, <3>2, <3>3
  <2>5. \A i, j \in 1 .. Len(backlog') : backlog'[i] = backlog'[j] => i = j
    BY <1>0, <2>1, <2>2 DEF Queued
  <2> QED
    BY <2>4, <2>5 DEF Queued
<1>2. CASE Accept \/ AcceptFails
  <2>1. backlog # <<>>
    BY <1>2 DEF Accept, AcceptFails
  <2>2. /\ Len(backlog') = Len(backlog) - 1
        /\ \A i \in 1 .. Len(backlog') : backlog'[i] = backlog[i + 1]
    BY <1>0, <1>2, <2>1, HeadTailProperties DEF Accept, AcceptFails
  <2>3. Head(backlog) = backlog[1] /\ Len(backlog) \in Nat \ {0}
    BY <2>1, HeadQueued
  <2>4. \A t \in Sessions : t # Head(backlog) => spc'[t] = spc[t]
    BY <1>2, <2>1, HeadQueued DEF Accept, AcceptFails, TypeOK
  <2>5. \A i \in 1 .. Len(backlog') : spc'[backlog'[i]] = "backlog"
    <3> SUFFICES ASSUME NEW i \in 1 .. Len(backlog') PROVE spc'[backlog'[i]] = "backlog"
      OBVIOUS
    <3>1. i + 1 \in 1 .. Len(backlog) /\ 1 \in 1 .. Len(backlog) /\ i + 1 # 1
      BY <2>2, <2>3
    <3>2. backlog[i + 1] # backlog[1]
      BY <3>1 DEF Queued
    <3> QED
      BY <1>0, <2>2, <2>3, <2>4, <3>1, <3>2 DEF Queued
  <2>6. \A i, j \in 1 .. Len(backlog') : backlog'[i] = backlog'[j] => i = j
    <3> SUFFICES ASSUME NEW i \in 1 .. Len(backlog'), NEW j \in 1 .. Len(backlog'),
                        backlog'[i] = backlog'[j]
                 PROVE  i = j
      OBVIOUS
    <3>1. i + 1 \in 1 .. Len(backlog) /\ j + 1 \in 1 .. Len(backlog)
      BY <2>2, <2>3
    <3>2. i + 1 = j + 1
      BY <2>2, <3>1 DEF Queued
    <3> QED
      BY <3>2
  <2> QED
    BY <2>5, <2>6 DEF Queued
<1>3. ASSUME NEW s \in Sessions, Client(s), ~Connect(s) PROVE Queued'
  BY <1>3 DEF Client, ConnectFails, WriteFlag, WriteFlagFails, ReadEcho, ReadPort,
              ReadFails, OpenTunnel, OpenTunnelFails, SendHello, SendHelloFails,
              ClientExits, NetFails, ClientSend, ClientReturns, ClientStop, ClientDies,
              ClientStep, Queued
<1>4. ASSUME NEW s \in Sessions, Child(s) PROVE Queued'
  <2>1. /\ spc[s] # "backlog"
        /\ \A t \in Sessions : t # s => spc'[t] = spc[t]
        /\ backlog' = backlog
    BY <1>4 DEF Child, ChildReadFlag, ChildEcho, ChildBind, ChildWritePort, ChildRecv,
                ChildTake, ChildSend, ChildEnds, TypeOK, ChildRuns
  <2> QED
    BY <1>0, <2>1 DEF Queued
<1>5. ASSUME NEW s \in Sessions, Network(s) PROVE Queued'
  BY <1>5 DEF Network, Deliver, Lose, DeliverDown, Queued
<1>6. CASE ParentDies \/ UNCHANGED vars
  BY <1>6 DEF ParentDies, vars, Queued
<1> QED
  BY <1>1, <1>2, <1>3, <1>4, <1>5, <1>6 DEF Next

-------------------------------------------------------------------------------
(* What the child knows, and why an app exits *)

LEMMA NextChildKnows == IInv /\ [Next]_vars => ChildKnows'
<1> SUFFICES ASSUME IInv, [Next]_vars PROVE ChildKnows'
  OBVIOUS
<1> USE DEF IInv, ChildRuns
<1>1. ASSUME NEW s \in Sessions, Connect(s) PROVE ChildKnows'
  BY <1>1 DEF Connect, ChildKnows, Stages, TypeOK
<1>2. ASSUME NEW s \in Sessions, Client(s), ~Connect(s) PROVE ChildKnows'
  BY <1>2 DEF Client, ConnectFails, WriteFlag, WriteFlagFails, ReadEcho, ReadPort,
              ReadFails, OpenTunnel, OpenTunnelFails, SendHello, SendHelloFails,
              ClientExits, NetFails, ClientSend, ClientReturns, ClientStop, ClientDies,
              ClientStep, ChildKnows
<1>3. CASE Accept \/ AcceptFails
  <2>1. spc[Head(backlog)] = "backlog" /\ Head(backlog) \in Sessions
    BY <1>3, HeadQueued DEF Accept, AcceptFails
  <2> QED
    BY <1>3, <2>1 DEF Accept, AcceptFails, ChildKnows, TypeOK
<1>4. ASSUME NEW s \in Sessions, ChildReadFlag(s) PROVE ChildKnows'
  <2>1. Head(toChild[s]) \in Flags
    BY <1>4, QueueOps DEF ChildReadFlag, TypeOK
  <2> QED
    BY <1>4, <2>1, NoneAssumption DEF ChildReadFlag, ChildKnows, TypeOK
<1>5. ASSUME NEW s \in Sessions, ChildEcho(s) \/ ChildWritePort(s) PROVE ChildKnows'
  BY <1>5 DEF ChildEcho, ChildWritePort, ChildKnows, TypeOK
<1>6. ASSUME NEW s \in Sessions, NEW p \in Ports, ChildBind(s, p) PROVE ChildKnows'
  BY <1>6, NoneAssumption DEF ChildBind, ChildKnows, TypeOK
<1>7. ASSUME NEW s \in Sessions, ChildRecv(s) PROVE ChildKnows'
  BY <1>7 DEF ChildRecv, ChildKnows, TypeOK
<1>8. ASSUME NEW s \in Sessions, ChildTake(s) \/ ChildSend(s) PROVE ChildKnows'
  BY <1>8 DEF ChildTake, ChildSend, ChildKnows
<1>9. ASSUME NEW s \in Sessions, ChildEnds(s) PROVE ChildKnows'
  BY <1>9 DEF ChildEnds, ChildKnows, TypeOK
<1>10. ASSUME NEW s \in Sessions, Network(s) PROVE ChildKnows'
  BY <1>10 DEF Network, Deliver, Lose, DeliverDown, ChildKnows
<1>11. CASE ParentDies \/ UNCHANGED vars
  BY <1>11 DEF ParentDies, vars, ChildKnows
<1> QED
  BY <1>1, <1>2, <1>3, <1>4, <1>5, <1>6, <1>7, <1>8, <1>9, <1>10, <1>11
     DEF Next, Child

\* While main runs it has the connection of every client that is in its
\* handshake, in its backlog or among the sockets it never closes.
LEMMA MainHolds ==
  ASSUME TypeOK, Stages, parent = "up", NEW s \in Sessions, cpc[s] \in ClientRuns
  PROVE  Held(s)
<1>1. spc[s] # "none"
  BY DEF Stages
<1> QED
  BY <1>1 DEF Held, Listening

LEMMA NextAppExitCause == IInv /\ [Next]_vars => AppExitCause'
<1> SUFFICES ASSUME IInv, [Next]_vars PROVE AppExitCause'
  OBVIOUS
<1> USE DEF IInv
<1>1. ASSUME NEW s \in Sessions, WriteFlagFails(s) \/ ReadFails(s) \/ SendHelloFails(s)
      PROVE  AppExitCause'
  <2>1. /\ cpc[s] \in ClientRuns /\ ClientExits(s)
        /\ \/ Closed(s) /\ UNCHANGED broken
           \/ NetFails(s)
    BY <1>1 DEF WriteFlagFails, ReadFails, SendHelloFails, ClientRuns
  <2>2. CASE Closed(s) /\ UNCHANGED broken
    <3>1. shut[s] \/ parent = "dead"
      BY <2>1, <2>2, MainHolds DEF Closed, TypeOK
    <3> QED
      BY <2>1, <2>2, <3>1 DEF ClientExits, AppExitCause, TypeOK
  <2>3. CASE NetFails(s)
    BY <2>1, <2>3 DEF NetFails, ClientExits, AppExitCause, TypeOK
  <2> QED
    BY <2>1, <2>2, <2>3
<1>2. ASSUME NEW s \in Sessions, Client(s),
             ~WriteFlagFails(s), ~ReadFails(s), ~SendHelloFails(s)
      PROVE  AppExitCause'
  BY <1>2 DEF Client, Connect, ConnectFails, WriteFlag, ReadEcho, ReadPort, OpenTunnel,
              OpenTunnelFails, SendHello, ClientSend, ClientReturns, ClientStop,
              ClientDies, ClientStep, AppExitCause, TypeOK
<1>3. CASE Accept \/ AcceptFails \/ ParentDies \/ UNCHANGED vars
  BY <1>3 DEF Accept, AcceptFails, ParentDies, vars, AppExitCause, TypeOK
<1>4. ASSUME NEW s \in Sessions, Child(s) PROVE AppExitCause'
  BY <1>4 DEF Child, ChildReadFlag, ChildEcho, ChildBind, ChildWritePort, ChildRecv,
              ChildTake, ChildSend, ChildEnds, AppExitCause
<1>5. ASSUME NEW s \in Sessions, Network(s) PROVE AppExitCause'
  BY <1>5 DEF Network, Deliver, Lose, DeliverDown, AppExitCause
<1> QED
  BY <1>1, <1>2, <1>3, <1>4, <1>5 DEF Next

-------------------------------------------------------------------------------
(* The control connection towards the client *)

\* What read_int takes for the port is the port the child bound.
LEMMA PortRead ==
  ASSUME IInv, NEW s \in Sessions, ReadPort(s)
  PROVE  Head(toClient[s]) = bound[s] /\ spc[s] \notin Early \cup {"bind", "writePort"}
<1> USE DEF IInv
<1>1. toClient[s] # <<>> /\ cpc[s] = "readPort"
  BY DEF ReadPort
<1>2. Len(toClient[s]) \in Nat \ {0}
  BY <1>1, EmptySeq DEF TypeOK
<1>3. Len(toClient[s]) <= 1
  BY <1>1 DEF Wire
<1>4. Len(toClient[s]) = 1
  <2> DEFINE n == Len(toClient[s])
  <2>1. n \in Nat \ {0} /\ n <= 1
    BY <1>2, <1>3
  <2> HIDE DEF n
  <2>2. n = 1
    BY <2>1
  <2> QED
    BY <2>2 DEF n
<1>5. toClient[s][1] = bound[s]
  BY <1>1, <1>4 DEF Wire
<1> QED
  BY <1>1, <1>5 DEF Wire

\* The clauses of Wire about one session.
WireOf(s) ==
  /\ cpc[s] \in {"idle", "writeFlag"} => toClient[s] = <<>>
  /\ cpc[s] = "readEcho" =>
       /\ spc[s] \in Early => toClient[s] = <<>>
       /\ spc[s] \in {"bind", "writePort"} => Len(toClient[s]) = 1
       /\ Len(toClient[s]) <= 2
       /\ Len(toClient[s]) = 2 => toClient[s][2] = bound[s]
  /\ cpc[s] = "readPort" =>
       /\ spc[s] \notin Early
       /\ spc[s] \in {"bind", "writePort"} => toClient[s] = <<>>
       /\ Len(toClient[s]) <= 1
       /\ Len(toClient[s]) = 1 => toClient[s][1] = bound[s]
  /\ spc[s] \in Early \cup {"bind", "writePort"} => cport[s] = None

LEMMA NextWire == IInv /\ [Next]_vars => Wire'
<1> SUFFICES ASSUME IInv, [Next]_vars, NEW t \in Sessions PROVE WireOf(t)'
  BY DEF Wire, WireOf
<1> USE DEF IInv
<1>0. WireOf(t) /\ toClient[t] \in Seq(Flags \cup Ports)
  BY DEF Wire, WireOf, TypeOK
<1>1. ASSUME NEW s \in Sessions, Connect(s) PROVE WireOf(t)'
  BY <1>0, <1>1 DEF Connect, WireOf, Stages, TypeOK, Early
<1>2. ASSUME NEW s \in Sessions,
             \/ ConnectFails(s) \/ WriteFlagFails(s) \/ ReadFails(s)
             \/ OpenTunnel(s) \/ OpenTunnelFails(s) \/ SendHelloFails(s)
             \/ ClientReturns(s) \/ ClientDies(s)
      PROVE  WireOf(t)'
  <2>1. /\ cpc'[t] = cpc[t] \/ cpc'[t] \notin {"idle", "writeFlag", "readEcho", "readPort"}
        /\ UNCHANGED <<spc, bound, cport, toClient>>
    BY <1>2 DEF ConnectFails, WriteFlagFails, ReadFails, OpenTunnel, OpenTunnelFails,
                SendHelloFails, ClientExits, NetFails, ClientReturns, ClientDies,
                ClientStep, TypeOK
  <2> QED
    BY <1>0, <2>1 DEF WireOf
<1>3. ASSUME NEW s \in Sessions, NEW f \in Flags, WriteFlag(s, f) PROVE WireOf(t)'
  <2>1. CASE t = s
    <3>1. toClient'[s] = <<>> /\ spc'[s] \in {"backlog", "readFlag", "dead"}
          /\ cpc'[s] = "readEcho" /\ Len(toClient'[s]) = 0
          /\ UNCHANGED <<spc, cport>>
      BY <1>0, <1>3, <2>1, EmptySeq DEF WriteFlag, WireOf, Stages, TypeOK, ClientRuns
    <3> QED
      BY <1>0, <2>1, <3>1 DEF WireOf
  <2>2. CASE t # s
    BY <1>0, <1>3, <2>2 DEF WriteFlag, WireOf, TypeOK
  <2> QED
    BY <2>1, <2>2
<1>4. ASSUME NEW s \in Sessions, ReadEcho(s) PROVE WireOf(t)'
  <2>1. CASE t = s
    <3> DEFINE q == toClient[s]
    <3>1. /\ cpc[s] = "readEcho" /\ q # <<>> /\ toClient'[s] = Tail(q)
          /\ cpc'[s] = "readPort" /\ UNCHANGED <<spc, bound, cport>>
      BY <1>4 DEF ReadEcho, TypeOK
    <3>2. q \in Seq(Flags \cup Ports) /\ Len(q) \in Nat
      BY <1>0, <2>1, LenProperties
    <3>3. /\ Tail(q) \in Seq(Flags \cup Ports)
          /\ Len(Tail(q)) = Len(q) - 1
          /\ \A i \in 1 .. Len(Tail(q)) : Tail(q)[i] = q[i + 1]
      BY <3>1, <3>2, HeadTailProperties
    <3>4. /\ spc[s] \notin Early
          /\ spc[s] \in {"bind", "writePort"} => Len(q) = 1
          /\ Len(q) <= 2
          /\ Len(q) = 2 => q[2] = bound[s]
      BY <1>0, <2>1, <3>1 DEF WireOf
    <3>5. Len(q) = 1 => Tail(q) = <<>>
      <4>1. Len(q) = 1 => Len(Tail(q)) = 0
        BY <3>3
      <4> QED
        BY <3>3, <4>1, EmptySeq
    <3>6. Len(Tail(q)) <= 1 /\ (Len(Tail(q)) = 1 => Tail(q)[1] = bound[s])
      <4> DEFINE n == Len(q)
                 m == Len(Tail(q))
                 r == Tail(q)
      <4>1. n \in Nat /\ m = n - 1 /\ n <= 2 /\ \A i \in 1 .. m : r[i] = q[i + 1]
        BY <3>2, <3>3, <3>4
      <4>2. n = 2 => q[2] = bound[s]
        BY <3>4
      <4> HIDE DEF q, n, m, r
      <4>3. m <= 1 /\ (m = 1 => n = 2)
        BY <4>1
      <4>4. m = 1 => r[1] = q[2]
        BY <4>1
      <4> QED
        BY <4>2, <4>3, <4>4 DEF m, r
    <3> QED
      BY <1>0, <2>1, <3>1, <3>4, <3>5, <3>6 DEF WireOf
  <2>2. CASE t # s
    BY <1>0, <1>4, <2>2 DEF ReadEcho, WireOf, TypeOK
  <2> QED
    BY <2>1, <2>2
<1>5. ASSUME NEW s \in Sessions, ReadPort(s) PROVE WireOf(t)'
  <2>1. spc[s] \notin Early \cup {"bind", "writePort"}
    BY <1>5, PortRead
  <2> QED
    BY <1>0, <1>5, <2>1 DEF ReadPort, WireOf, TypeOK
<1>6. ASSUME NEW s \in Sessions, SendHello(s) \/ ClientSend(s) \/ ClientStop(s)
      PROVE  WireOf(t)'
  BY <1>0, <1>6 DEF SendHello, ClientSend, ClientStop, WireOf, TypeOK
<1>7. CASE Accept \/ AcceptFails
  <2>1. spc[Head(backlog)] = "backlog" /\ Head(backlog) \in Sessions
    BY <1>7, HeadQueued DEF Accept, AcceptFails
  <2>2. /\ t # Head(backlog) => spc'[t] = spc[t]
        /\ spc'[Head(backlog)] \in {"readFlag", "dead"}
        /\ UNCHANGED <<cpc, cport, toClient, bound>>
    BY <1>7, <2>1 DEF Accept, AcceptFails, TypeOK
  <2>3. spc'[t] = spc[t]
          \/ (spc[t] = "backlog" /\ spc'[t] \in {"readFlag", "dead"})
    BY <2>1, <2>2
  <2>4. toClient[t] = <<>> => Len(toClient[t]) = 0
    BY EmptySeq
  <2> QED
    BY <1>0, <2>2, <2>3, <2>4 DEF WireOf, Early
<1>8. ASSUME NEW s \in Sessions, ChildReadFlag(s) PROVE WireOf(t)'
  BY <1>0, <1>8 DEF ChildReadFlag, WireOf, TypeOK, Early
<1>9. ASSUME NEW s \in Sessions, ChildEcho(s) PROVE WireOf(t)'
  <2>1. CASE t = s
    <3>1. /\ spc[s] = "echo" /\ spc'[s] = "bind"
          /\ toClient'[s] = Append(toClient[s], sflag[s])
          /\ UNCHANGED <<cpc, bound, cport>>
      BY <1>9 DEF ChildEcho, TypeOK
    <3>2. sflag[s] \in Flags \cup Ports
      BY <3>1 DEF ChildKnows, TypeOK, ChildRuns
    <3>3. cpc[s] \notin {"idle", "writeFlag", "readPort"}
      BY <1>0, <2>1, <3>1 DEF WireOf, Stages, ClientRuns, Early
    <3>4. cpc[s] = "readEcho" => Len(toClient'[s]) = 1
      <4>1. cpc[s] = "readEcho" => Len(toClient[s]) = 0
        BY <1>0, <2>1, <3>1, EmptySeq DEF WireOf, Early
      <4>2. Len(toClient'[s]) = Len(toClient[s]) + 1
        BY <1>0, <2>1, <3>1, <3>2, AppendProperties
      <4> QED
        BY <4>1, <4>2
    <3>5. cport[s] = None
      BY <1>0, <2>1, <3>1 DEF WireOf, Early
    <3> QED
      BY <2>1, <3>1, <3>3, <3>4, <3>5 DEF WireOf, Early
  <2>2. CASE t # s
    BY <1>0, <1>9, <2>2 DEF ChildEcho, WireOf, TypeOK
  <2> QED
    BY <2>1, <2>2
<1>10. ASSUME NEW s \in Sessions, NEW p \in Ports, ChildBind(s, p) PROVE WireOf(t)'
  <2>1. CASE t = s
    <3>1. /\ spc[s] = "bind" /\ spc'[s] = "writePort"
          /\ UNCHANGED <<cpc, cport, toClient>>
      BY <1>10 DEF ChildBind, TypeOK
    <3>2. cpc[s] = "readPort" => Len(toClient[s]) = 0
      BY <1>0, <2>1, <3>1, EmptySeq DEF WireOf
    <3> QED
      BY <1>0, <2>1, <3>1, <3>2 DEF WireOf, Early
  <2>2. CASE t # s
    BY <1>0, <1>10, <2>2 DEF ChildBind, WireOf, TypeOK
  <2> QED
    BY <2>1, <2>2
<1>11. ASSUME NEW s \in Sessions, ChildWritePort(s) PROVE WireOf(t)'
  <2>1. CASE t = s
    <3> DEFINE q == toClient[s]
    <3>1. /\ spc[s] = "writePort" /\ spc'[s] = "recv"
          /\ toClient'[s] = Append(q, bound[s])
          /\ UNCHANGED <<cpc, bound, cport>>
      BY <1>11 DEF ChildWritePort, TypeOK
    <3>2. bound[s] \in Flags \cup Ports
      BY <3>1 DEF ChildKnows, TypeOK
    <3>3. /\ Len(toClient'[s]) = Len(q) + 1
          /\ toClient'[s][Len(q) + 1] = bound[s]
      BY <1>0, <2>1, <3>1, <3>2, AppendProperties
    <3>4. cpc[s] \notin {"idle", "writeFlag"}
      BY <3>1 DEF Stages, ClientRuns
    <3>5. cpc[s] = "readEcho" => Len(q) = 1
      BY <1>0, <2>1, <3>1 DEF WireOf
    <3>6. cpc[s] = "readPort" => Len(q) = 0
      BY <1>0, <2>1, <3>1, EmptySeq DEF WireOf
    <3>7. cpc[s] = "readEcho" =>
            Len(toClient'[s]) = 2 /\ toClient'[s][2] = bound'[s]
      <4> DEFINE n == Len(q)
                 r == toClient'[s]
      <4>1. (cpc[s] = "readEcho" => n = 1) /\ Len(r) = n + 1 /\ r[n + 1] = bound[s]
        BY <3>3, <3>5
      <4> HIDE DEF q, n, r
      <4>2. cpc[s] = "readEcho" => Len(r) = 2 /\ r[2] = bound[s]
        BY <4>1
      <4> QED
        BY <3>1, <4>2 DEF r
    <3>8. cpc[s] = "readPort" =>
            Len(toClient'[s]) = 1 /\ toClient'[s][1] = bound'[s]
      BY <3>1, <3>3, <3>6
    <3> QED
      BY <2>1, <3>1, <3>4, <3>7, <3>8 DEF WireOf, Early
  <2>2. CASE t # s
    BY <1>0, <1>11, <2>2 DEF ChildWritePort, WireOf, TypeOK
  <2> QED
    BY <2>1, <2>2
<1>12. ASSUME NEW s \in Sessions, ChildRecv(s) \/ ChildEnds(s) PROVE WireOf(t)'
  <2>1. /\ spc'[t] = spc[t] \/ spc'[t] \in {"relay", "dead"}
        /\ UNCHANGED <<cpc, bound, cport, toClient>>
    BY <1>12 DEF ChildRecv, ChildEnds, TypeOK
  <2> QED
    BY <1>0, <2>1 DEF WireOf, Early
<1>13. ASSUME NEW s \in Sessions, ChildTake(s) \/ ChildSend(s) PROVE WireOf(t)'
  BY <1>0, <1>13 DEF ChildTake, ChildSend, WireOf
<1>14. ASSUME NEW s \in Sessions, Network(s) PROVE WireOf(t)'
  BY <1>0, <1>14 DEF Network, Deliver, Lose, DeliverDown, WireOf
<1>15. CASE ParentDies \/ UNCHANGED vars
  BY <1>0, <1>15 DEF ParentDies, vars, WireOf
<1> QED
  BY <1>1, <1>2, <1>3, <1>4, <1>5, <1>6, <1>7, <1>8, <1>9, <1>10, <1>11, <1>12,
     <1>13, <1>14, <1>15 DEF Next, Client, Child

-------------------------------------------------------------------------------
(* What is under way between client and child *)

Nonce(s) == {f \in Flags : f = flag[s]}

\* A nonce, once drawn, stays: what a client could have sent it still could.
LEMMA FlagStays ==
  IInv /\ [Next]_vars =>
    \A s \in Sessions : /\ flag[s] # None => flag'[s] = flag[s]
                        /\ Nonce(s) \subseteq Nonce(s)'
                        /\ Honest(s) \subseteq Honest(s)'
                        /\ Sent \subseteq Sent'
<1> SUFFICES ASSUME IInv, [Next]_vars
             PROVE  \A s \in Sessions : /\ flag[s] # None => flag'[s] = flag[s]
                                        /\ Nonce(s) \subseteq Nonce(s)'
                                        /\ Honest(s) \subseteq Honest(s)'
                                        /\ Sent \subseteq Sent'
  OBVIOUS
<1> USE DEF IInv
<1>1. \A s \in Sessions : flag[s] # None => flag'[s] = flag[s]
  <2>1. ASSUME NEW s \in Sessions, NEW f \in Flags, WriteFlag(s, f)
        PROVE  \A t \in Sessions : flag[t] # None => flag'[t] = flag[t]
    BY <2>1 DEF WriteFlag, Stages, TypeOK
  <2>2. ASSUME NEW s \in Sessions, Client(s), ~\E f \in Flags : WriteFlag(s, f)
        PROVE  flag' = flag
    BY <2>2 DEF Client, Connect, ConnectFails, WriteFlagFails, ReadEcho, ReadPort,
                ReadFails, OpenTunnel, OpenTunnelFails, SendHello, SendHelloFails,
                ClientExits, NetFails, ClientSend, ClientReturns, ClientStop,
                ClientDies, ClientStep
  <2>3. ASSUME NEW s \in Sessions, Child(s) PROVE flag' = flag
    BY <2>3 DEF Child, ChildReadFlag, ChildEcho, ChildBind, ChildWritePort, ChildRecv,
                ChildTake, ChildSend, ChildEnds
  <2>4. ASSUME NEW s \in Sessions, Network(s) PROVE flag' = flag
    BY <2>4 DEF Network, Deliver, Lose, DeliverDown
  <2>5. CASE Accept \/ AcceptFails \/ ParentDies \/ UNCHANGED vars
    BY <2>5 DEF Accept, AcceptFails, ParentDies, vars
  <2> QED
    BY <2>1, <2>2, <2>3, <2>4, <2>5 DEF Next
<1>2. None \notin Flags \cup {Data}
  BY NoneAssumption, DataAssumption
<1>3. \A s \in Sessions : Nonce(s) \subseteq Nonce(s)' /\ Honest(s) \subseteq Honest(s)'
  BY <1>1, <1>2 DEF Nonce, Honest
<1>4. Sent \subseteq Sent'
  <2> SUFFICES ASSUME NEW m \in Sent PROVE m \in Sent'
    OBVIOUS
  <2>1. m \in Sessions \X (Flags \cup {Data}) /\ m[1] \in Sessions /\ m[2] \in Honest(m[1])
    BY DEF Sent
  <2>2. m[2] \in Honest(m[1])'
    BY <1>3, <2>1
  <2> QED
    BY <2>1, <2>2 DEF Sent
<1> QED
  BY <1>1, <1>3, <1>4

LEMMA NextPayloads == IInv /\ [Next]_vars => Payloads'
<1> SUFFICES ASSUME IInv, [Next]_vars, NEW t \in Sessions
             PROVE  /\ toChild'[t] \in Seq(Nonce(t)')
                    /\ up'[t] \in Seq(Honest(t)')
                    /\ sockq'[t] \in Seq(Sent')
  BY DEF Payloads, Nonce
<1> USE DEF IInv
<1>0. /\ \A s \in Sessions : /\ toChild[s] \in Seq(Nonce(s)) /\ up[s] \in Seq(Honest(s))
                             /\ sockq[s] \in Seq(Sent)
      /\ Nonce(t) \subseteq Nonce(t)' /\ Honest(t) \subseteq Honest(t)'
      /\ Sent \subseteq Sent'
  BY FlagStays DEF Payloads, Nonce
<1>1. /\ toChild[t] \in Seq(Nonce(t)') /\ up[t] \in Seq(Honest(t)')
      /\ sockq[t] \in Seq(Sent')
  BY <1>0, SeqMonotonic
<1>2. /\ toChild[t] # <<>> => Tail(toChild[t]) \in Seq(Nonce(t)')
      /\ sockq[t] # <<>> => Tail(sockq[t]) \in Seq(Sent')
      /\ <<>> \in Seq(Sent')
  BY <1>1, QueueOps, EmptySeq
<1>3. ASSUME NEW s \in Sessions, NEW f \in Flags, WriteFlag(s, f)
      PROVE  toChild'[t] \in Seq(Nonce(t)') /\ up' = up /\ sockq' = sockq
  <2>1. CASE t = s
    <3>1. f \in Nonce(t)' /\ toChild'[t] = Append(toChild[t], f)
      BY <1>3, <2>1 DEF WriteFlag, Nonce, TypeOK
    <3>2. Append(toChild[t], f) \in Seq(Nonce(t)')
      BY <1>1, <3>1, QueueOps
    <3> QED
      BY <1>3, <3>1, <3>2 DEF WriteFlag
  <2>2. CASE t # s
    BY <1>1, <1>3, <2>2 DEF WriteFlag, TypeOK
  <2> QED
    BY <2>1, <2>2
<1>4. ASSUME NEW s \in Sessions, SendHello(s) \/ ClientSend(s)
      PROVE  up'[t] \in Seq(Honest(t)') /\ toChild' = toChild /\ sockq' = sockq
  <2>1. flag'[s] = flag[s] /\ flag[s] \in Flags
    BY <1>4 DEF SendHello, ClientSend, Stages, TypeOK, ClientRuns
  <2>2. flag[s] \in Honest(s)' /\ Data \in Honest(s)'
    BY <2>1 DEF Honest
  <2>3. t = s => /\ Append(up[t], flag[s]) \in Seq(Honest(t)')
                 /\ Append(up[t], Data) \in Seq(Honest(t)')
    BY <1>1, <2>2, QueueOps
  <2> QED
    <3>1. CASE SendHello(s)
      BY <1>1, <2>3, <3>1 DEF SendHello, TypeOK
    <3>2. CASE ClientSend(s)
      BY <1>1, <2>3, <3>2 DEF ClientSend, TypeOK
    <3> QED
      BY <1>4, <3>1, <3>2
<1>5. ASSUME NEW s \in Sessions, Client(s),
             ~\E f \in Flags : WriteFlag(s, f), ~SendHello(s), ~ClientSend(s)
      PROVE  UNCHANGED <<toChild, up, sockq>>
  BY <1>5 DEF Client, Connect, ConnectFails, WriteFlagFails, ReadEcho, ReadPort,
              ReadFails, OpenTunnel, OpenTunnelFails, SendHelloFails, ClientExits,
              NetFails, ClientReturns, ClientStop, ClientDies, ClientStep
<1>6. ASSUME NEW s \in Sessions, ChildReadFlag(s)
      PROVE  toChild'[t] \in Seq(Nonce(t)') /\ up' = up /\ sockq' = sockq
  BY <1>1, <1>2, <1>6 DEF ChildReadFlag, TypeOK
<1>7. ASSUME NEW s \in Sessions, ChildRecv(s) \/ ChildTake(s) \/ ChildEnds(s)
      PROVE  sockq'[t] \in Seq(Sent') /\ up' = up /\ toChild' = toChild
  BY <1>1, <1>2, <1>7 DEF ChildRecv, ChildTake, ChildEnds, TypeOK
<1>8. ASSUME NEW s \in Sessions, NEW p \in Ports,
             ChildEcho(s) \/ ChildBind(s, p) \/ ChildWritePort(s) \/ ChildSend(s)
      PROVE  UNCHANGED <<toChild, up, sockq>>
  BY <1>8 DEF ChildEcho, ChildBind, ChildWritePort, ChildSend
<1>9. ASSUME NEW s \in Sessions, NEW i \in Nat, NEW kept \in BOOLEAN, Deliver(s, i, kept)
      PROVE  /\ up'[t] \in Seq(Honest(t)') /\ sockq'[t] \in Seq(Sent')
             /\ toChild' = toChild
  <2>1. i \in 1 .. Len(up[s])
    BY <1>9 DEF Deliver
  <2>2. t = s => RemoveAt(up[t], i) \in Seq(Honest(t)')
    BY <1>1, <2>1, RemoveAtSeq
  <2>3. <<s, up[s][i]>> \in Sent'
    <3>1. up[s][i] \in Honest(s)
      BY <1>0, <2>1, ElementOfSeq
    <3>2. <<s, up[s][i]>> \in Sent
      BY <3>1 DEF Sent, Honest
    <3> QED
      BY <1>0, <3>2
  <2>4. Append(sockq[t], <<s, up[s][i]>>) \in Seq(Sent')
    BY <1>1, <2>3, QueueOps
  <2>5. up'[t] \in Seq(Honest(t)')
    BY <1>1, <1>9, <2>2 DEF Deliver, TypeOK
  <2>6. sockq'[t] \in Seq(Sent')
    BY <1>1, <1>9, <2>4 DEF Deliver
  <2> QED
    BY <1>9, <2>5, <2>6 DEF Deliver
<1>10. ASSUME NEW s \in Sessions, NEW i \in Nat, Lose(s, i)
       PROVE  up'[t] \in Seq(Honest(t)') /\ toChild' = toChild /\ sockq' = sockq
  <2>1. t = s => RemoveAt(up[t], i) \in Seq(Honest(t)')
    BY <1>1, <1>10, RemoveAtSeq DEF Lose
  <2> QED
    BY <1>1, <1>10, <2>1 DEF Lose, TypeOK
<1>11. ASSUME NEW s \in Sessions, NEW c \in Sessions, DeliverDown(s, c)
       PROVE  UNCHANGED <<toChild, up, sockq>>
  BY <1>11 DEF DeliverDown
<1>12. CASE Accept \/ AcceptFails \/ ParentDies \/ UNCHANGED vars
  <2>1. UNCHANGED <<toChild, up, sockq>>
    BY <1>12 DEF Accept, AcceptFails, ParentDies, vars
  <2> QED
    BY <1>1, <2>1
<1>13. 1 .. MaxFlight \subseteq Nat
  BY FlightAssumption
<1>14. ASSUME NEW s \in Sessions, Client(s)
       PROVE  /\ toChild'[t] \in Seq(Nonce(t)') /\ up'[t] \in Seq(Honest(t)')
              /\ sockq'[t] \in Seq(Sent')
  BY <1>1, <1>3, <1>4, <1>5, <1>14
<1>15. ASSUME NEW s \in Sessions, Child(s)
       PROVE  /\ toChild'[t] \in Seq(Nonce(t)') /\ up'[t] \in Seq(Honest(t)')
              /\ sockq'[t] \in Seq(Sent')
  BY <1>1, <1>6, <1>7, <1>8, <1>15, PortAssumption DEF Child
<1>16. ASSUME NEW s \in Sessions, Network(s)
       PROVE  /\ toChild'[t] \in Seq(Nonce(t)') /\ up'[t] \in Seq(Honest(t)')
              /\ sockq'[t] \in Seq(Sent')
  BY <1>1, <1>9, <1>10, <1>11, <1>13, <1>16 DEF Network
<1> QED
  BY <1>12, <1>14, <1>15, <1>16 DEF Next

-------------------------------------------------------------------------------
(* Agreement, peers and the theorems *)

LEMMA NextHandshakeAgreement == IInv /\ [Next]_vars => HandshakeAgreement'
<1> SUFFICES ASSUME IInv, [Next]_vars PROVE HandshakeAgreement'
  OBVIOUS
<1> USE DEF IInv
<1>1. ASSUME NEW s \in Sessions, NEW f \in Flags, WriteFlag(s, f)
      PROVE  HandshakeAgreement'
  <2>1. flag[s] = None
    BY <1>1 DEF WriteFlag, Stages
  <2> QED
    BY <1>1, <2>1 DEF WriteFlag, HandshakeAgreement, TypeOK
<1>2. ASSUME NEW s \in Sessions, ReadPort(s) PROVE HandshakeAgreement'
  <2>1. Head(toClient[s]) = bound[s]
    BY <1>2, PortRead
  <2> QED
    BY <1>2, <2>1 DEF ReadPort, HandshakeAgreement, TypeOK
<1>3. ASSUME NEW s \in Sessions, Client(s), ~ReadPort(s),
             ~\E f \in Flags : WriteFlag(s, f)
      PROVE  HandshakeAgreement'
  BY <1>3 DEF Client, Connect, ConnectFails, WriteFlagFails, ReadEcho, ReadFails,
              OpenTunnel, OpenTunnelFails, SendHello, SendHelloFails, ClientExits,
              NetFails, ClientSend, ClientReturns, ClientStop, ClientDies, ClientStep,
              HandshakeAgreement
<1>4. ASSUME NEW s \in Sessions, ChildReadFlag(s) PROVE HandshakeAgreement'
  <2>1. Head(toChild[s]) = flag[s]
    <3>1. toChild[s] \in Seq(Nonce(s)) /\ toChild[s] # <<>>
      BY <1>4 DEF ChildReadFlag, Payloads, Nonce
    <3>2. Head(toChild[s]) \in Nonce(s)
      BY <3>1, QueueOps
    <3> QED
      BY <3>2 DEF Nonce
  <2> QED
    BY <1>4, <2>1 DEF ChildReadFlag, HandshakeAgreement, TypeOK
<1>5. ASSUME NEW s \in Sessions, NEW p \in Ports, ChildBind(s, p)
      PROVE  HandshakeAgreement'
  <2>1. cport[s] = None
    BY <1>5 DEF ChildBind, Wire
  <2> QED
    BY <1>5, <2>1 DEF ChildBind, HandshakeAgreement, TypeOK
<1>6. ASSUME NEW s \in Sessions, Child(s), ~ChildReadFlag(s),
             ~\E p \in Ports : ChildBind(s, p)
      PROVE  HandshakeAgreement'
  BY <1>6 DEF Child, ChildEcho, ChildWritePort, ChildRecv, ChildTake, ChildSend,
              ChildEnds, HandshakeAgreement
<1>7. ASSUME NEW s \in Sessions, Network(s) PROVE HandshakeAgreement'
  BY <1>7 DEF Network, Deliver, Lose, DeliverDown, HandshakeAgreement
<1>8. CASE Accept \/ AcceptFails \/ ParentDies \/ UNCHANGED vars
  BY <1>8 DEF Accept, AcceptFails, ParentDies, vars, HandshakeAgreement
<1> QED
  BY <1>1, <1>2, <1>3, <1>4, <1>5, <1>6, <1>7, <1>8 DEF Next

LEMMA NextPeers == IInv /\ [Next]_vars => Peers'
<1> SUFFICES ASSUME IInv, [Next]_vars PROVE Peers'
  OBVIOUS
<1> USE DEF IInv
<1>1. ASSUME NEW s \in Sessions, ChildRecv(s) PROVE Peers'
  <2> DEFINE m == Head(sockq[s])
  <2>1. m \in Sent
    BY <1>1, QueueOps DEF ChildRecv, Payloads
  <2>2. /\ m[1] \in Sessions /\ m[2] \in Flags \cup {Data}
        /\ m[2] = Data \/ m[2] = flag[m[1]]
    BY <2>1 DEF Sent, Honest
  <2>3. sflag[s] # Data /\ sflag[s] # None /\ peer[s] = None
    <3>1. spc[s] = "recv"
      BY <1>1 DEF ChildRecv
    <3> QED
      BY <3>1, DataAssumption DEF ChildKnows, TypeOK, ChildRuns
  <2>4. /\ \/ m[2] = sflag[s] /\ peer' = [peer EXCEPT ![s] = m[1]]
           \/ peer' = [peer EXCEPT ![s] = None]
        /\ UNCHANGED <<flag, sflag, down>>
    BY <1>1 DEF ChildRecv
  <2>5. peer'[s] # None => flag[peer'[s]] = sflag[s]
    BY <2>2, <2>3, <2>4 DEF TypeOK
  <2>6. \A c \in Sessions : c # s => peer'[c] = peer[c]
    BY <2>4 DEF TypeOK
  <2>7. \A c \in Sessions : \A d \in down[c] : peer'[d] = c
    <3>1. \A c \in Sessions : \A d \in down[c] : d # s /\ peer[d] = c /\ d \in Sessions
      BY <2>3, NoneAssumption DEF Peers, TypeOK
    <3> QED
      BY <2>6, <3>1
  <2> QED
    BY <2>3, <2>4, <2>5, <2>6, <2>7 DEF Peers
<1>2. ASSUME NEW s \in Sessions, ChildSend(s) PROVE Peers'
  <2>1. peer[s] \in Sessions
    BY <1>2 DEF ChildSend, TypeOK
  <2> QED
    BY <1>2, <2>1 DEF ChildSend, Peers, TypeOK
<1>3. ASSUME NEW s \in Sessions, NEW c \in Sessions, DeliverDown(s, c) PROVE Peers'
  BY <1>3 DEF DeliverDown, Peers, TypeOK
<1>4. ASSUME NEW s \in Sessions, ChildReadFlag(s) PROVE Peers'
  <2>1. peer[s] = None
    BY <1>4 DEF ChildReadFlag, ChildKnows
  <2> QED
    BY <1>4, <2>1 DEF ChildReadFlag, Peers, TypeOK
<1>5. ASSUME NEW s \in Sessions, NEW f \in Flags, WriteFlag(s, f) PROVE Peers'
  <2>1. flag[s] = None
    BY <1>5 DEF WriteFlag, Stages
  <2>2. \A c \in Sessions : peer[c] # None => peer[c] \in Sessions /\ peer[c] # s
    BY <2>1 DEF Peers, TypeOK
  <2> QED
    BY <1>5, <2>2 DEF WriteFlag, Peers, TypeOK
<1>6. ASSUME NEW s \in Sessions, Client(s), ~\E f \in Flags : WriteFlag(s, f)
      PROVE  Peers'
  BY <1>6 DEF Client, Connect, ConnectFails, WriteFlagFails, ReadEcho, ReadPort,
              ReadFails, OpenTunnel, OpenTunnelFails, SendHello, SendHelloFails,
              ClientExits, NetFails, ClientSend, ClientReturns, ClientStop, ClientDies,
              ClientStep, Peers
<1>7. ASSUME NEW s \in Sessions, NEW p \in Ports,
             \/ ChildEcho(s) \/ ChildBind(s, p) \/ ChildWritePort(s)
             \/ ChildTake(s) \/ ChildEnds(s)
      PROVE  Peers'
  BY <1>7 DEF ChildEcho, ChildBind, ChildWritePort, ChildTake, ChildEnds, Peers
<1>8. ASSUME NEW s \in Sessions, NEW i \in 1 .. MaxFlight, NEW kept \in BOOLEAN,
             Deliver(s, i, kept) \/ Lose(s, i)
      PROVE  Peers'
  BY <1>8 DEF Deliver, Lose, Peers
<1>9. CASE Accept \/ AcceptFails \/ ParentDies \/ UNCHANGED vars
  BY <1>9 DEF Accept, AcceptFails, ParentDies, vars, Peers
<1> QED
  BY <1>1, <1>2, <1>3, <1>4, <1>5, <1>6, <1>7, <1>8, <1>9, PortAssumption
     DEF Next, Child, Network

LEMMA InitIInv == Init => IInv
<1> SUFFICES ASSUME Init PROVE IInv
  OBVIOUS
<1>1. \A S : <<>> \in Seq(S)
  BY EmptySeq
<1>2. Len(<<>>) = 0
  BY EmptySeq
<1>3. TypeOK
  BY InitTypeOK
<1>4. Stages /\ ChildKnows /\ HandshakeAgreement /\ Peers /\ AppExitCause
  BY DEF Init, Stages, ChildKnows, HandshakeAgreement, Peers, AppExitCause, ClientRuns,
         ChildRuns
<1>5. Queued
  BY <1>2 DEF Init, Queued
<1>6. Wire
  BY DEF Init, Wire, Early
<1>7. Payloads
  BY <1>1 DEF Init, Payloads
<1> QED
  BY <1>3, <1>4, <1>5, <1>6, <1>7 DEF IInv

\* The inductive invariant: every state the program reaches satisfies it.
THEOREM Invariant == Spec => []IInv
<1>1. IInv /\ [Next]_vars => IInv'
  BY NextTypeOK, NextStages, NextQueued, NextWire, NextPayloads, NextChildKnows,
     NextHandshakeAgreement, NextPeers, NextAppExitCause DEF IInv
<1> QED
  BY <1>1, InitIInv, PTL DEF Spec

\* Every variable keeps its type; no port or nonce is ever read that was not sent.
THEOREM TypeCorrect == Spec => []TypeOK
<1>1. IInv => TypeOK
  BY DEF IInv
<1> QED
  BY <1>1, Invariant, PTL

\* The handshake leaves both sides with the same nonce and the same port, for
\* any number of sessions at once and whatever dies in between.
THEOREM Agreement == Spec => []HandshakeAgreement
<1>1. IInv => HandshakeAgreement
  BY DEF IInv
<1> QED
  BY <1>1, Invariant, PTL

\* A child connects its UDP socket to a client with its own nonce, its own
\* client if nonces are fresh, although it trusts the first datagram it gets.
THEOREM OwnPeer == Spec => []PeerMatch
<1>1. IInv => PeerMatch
  BY DEF IInv, PeerMatch, Peers, HandshakeAgreement, Stages, TypeOK
<1> QED
  BY <1>1, Invariant, PTL

\* No phone relays to its tun what a child of another session sent.
THEOREM OwnDownlink == Spec => []DownlinkIsolated
<1>1. IInv => DownlinkIsolated
  <2> SUFFICES ASSUME IInv, NEW s \in Sessions, NEW c \in down[s]
               PROVE  flag[c] = flag[s] /\ (FreshFlags => c = s)
    BY DEF DownlinkIsolated
  <2>1. c \in Sessions /\ peer[c] = s /\ s # None
    BY NoneAssumption DEF IInv, Peers, TypeOK
  <2>2. sflag[c] # None /\ flag[s] = sflag[c] /\ sflag[c] = flag[c]
    BY <2>1 DEF IInv, Peers, HandshakeAgreement
  <2> QED
    BY <2>1, <2>2 DEF IInv, Stages
<1> QED
  BY <1>1, Invariant, PTL

\* The app exits in the handshake only if the user stopped the session, the
\* network failed or main is gone: a child that dies leaves its client waiting,
\* never exiting.
THEOREM ExitCause == Spec => []AppExitCause
<1>1. IInv => AppExitCause
  BY DEF IInv
<1> QED
  BY <1>1, Invariant, PTL

-------------------------------------------------------------------------------
(* The rendezvous *)

\* What the child of session s may queue: datagrams of phones that know its port.
ForPort(s) == {m \in Sent : cport[m[1]] # None /\ cport[m[1]] = bound[s]}

\* Each side learns or opens its port once, and only a phone that was told a
\* port has sent anything, to that port.
Addressed ==
  \A s \in Sessions :
    /\ cpc[s] \in {"idle", "writeFlag", "readEcho", "readPort"} => cport[s] = None
    /\ cpc[s] \in {"tunnel", "hello", "relay"} => cport[s] # None
    /\ spc[s] \in Early \cup {"bind"} => bound[s] = None
    /\ up[s] # <<>> => cport[s] # None
    /\ sockq[s] \in Seq(ForPort(s))

\* The ports two sides know, once known, stay; what was queued remains so.
LEMMA PortsStay ==
  ASSUME IInv, Addressed, [Next]_vars, NEW t \in Sessions
  PROVE  /\ cport[t] # None => cport'[t] = cport[t]
         /\ bound[t] # None => bound'[t] = bound[t]
         /\ ForPort(t) \subseteq ForPort(t)'
<1> USE DEF IInv
<1>1. \A s \in Sessions : /\ cport[s] # None => cport'[s] = cport[s]
                          /\ bound[s] # None => bound'[s] = bound[s]
  <2>1. ASSUME NEW s \in Sessions, ReadPort(s)
        PROVE  cport[s] = None /\ (\A c \in Sessions : c # s => cport'[c] = cport[c])
               /\ bound' = bound
    BY <2>1 DEF ReadPort, Addressed, TypeOK
  <2>2. ASSUME NEW s \in Sessions, Client(s), ~ReadPort(s)
        PROVE  cport' = cport /\ bound' = bound
    BY <2>2 DEF Client, Connect, ConnectFails, WriteFlag, WriteFlagFails, ReadEcho,
                ReadFails, OpenTunnel, OpenTunnelFails, SendHello, SendHelloFails,
                ClientExits, NetFails, ClientSend, ClientReturns, ClientStop,
                ClientDies, ClientStep
  <2>3. ASSUME NEW s \in Sessions, NEW p \in Ports, ChildBind(s, p)
        PROVE  bound[s] = None /\ (\A c \in Sessions : c # s => bound'[c] = bound[c])
               /\ cport' = cport
    BY <2>3 DEF ChildBind, Addressed, TypeOK
  <2>4. ASSUME NEW s \in Sessions, Child(s), ~\E p \in Ports : ChildBind(s, p)
        PROVE  cport' = cport /\ bound' = bound
    BY <2>4 DEF Child, ChildReadFlag, ChildEcho, ChildWritePort, ChildRecv,
                ChildTake, ChildSend, ChildEnds
  <2>5. ASSUME NEW s \in Sessions, Network(s) PROVE cport' = cport /\ bound' = bound
    BY <2>5 DEF Network, Deliver, Lose, DeliverDown
  <2>6. CASE Accept \/ AcceptFails \/ ParentDies \/ UNCHANGED vars
    BY <2>6 DEF Accept, AcceptFails, ParentDies, vars
  <2> QED
    BY <2>1, <2>2, <2>3, <2>4, <2>5, <2>6 DEF Next
<1>2. Sent \subseteq Sent' /\ \A m \in Sent : m[1] \in Sessions
  BY FlagStays DEF Sent
<1>3. ForPort(t) \subseteq ForPort(t)'
  <2> SUFFICES ASSUME NEW m \in ForPort(t) PROVE m \in ForPort(t)'
    OBVIOUS
  <2>1. m \in Sent /\ cport[m[1]] # None /\ cport[m[1]] = bound[t]
    BY DEF ForPort
  <2>2. cport'[m[1]] = cport[m[1]] /\ bound'[t] = bound[t] /\ m \in Sent'
    BY <1>1, <1>2, <2>1
  <2> QED
    BY <2>1, <2>2 DEF ForPort
<1> QED
  BY <1>1, <1>3

LEMMA InitAddressed == Init => Addressed
<1>1. \A S : <<>> \in Seq(S)
  BY EmptySeq
<1> QED
  BY <1>1 DEF Init, Addressed, Early

\* What a client reads for a port is one.
LEMMA PortIsRead ==
  ASSUME IInv, NEW s \in Sessions, ReadPort(s)
  PROVE  bound[s] # None /\ cport' = [cport EXCEPT ![s] = bound[s]]
<1>1. Head(toClient[s]) = bound[s]
  BY PortRead
<1>2. Head(toClient[s]) \in Flags \cup Ports
  BY QueueOps DEF ReadPort, IInv, TypeOK
<1> QED
  BY <1>1, <1>2, NoneAssumption DEF ReadPort

\* Stage by stage, who knows a port.
LEMMA NextKnown ==
  ASSUME IInv, Addressed, [Next]_vars, NEW t \in Sessions
  PROVE  /\ cpc'[t] \in {"idle", "writeFlag", "readEcho", "readPort"} => cport'[t] = None
         /\ cpc'[t] \in {"tunnel", "hello", "relay"} => cport'[t] # None
         /\ spc'[t] \in Early \cup {"bind"} => bound'[t] = None
<1> DEFINE Known == /\ cpc[t] \in {"idle", "writeFlag", "readEcho", "readPort"}
                         => cport[t] = None
                    /\ cpc[t] \in {"tunnel", "hello", "relay"} => cport[t] # None
                    /\ spc[t] \in Early \cup {"bind"} => bound[t] = None
<1> SUFFICES Known'
  OBVIOUS
<1> USE DEF IInv
<1>0. Known
  BY DEF Addressed
<1>1. ASSUME NEW s \in Sessions, ReadPort(s) PROVE Known'
  <2>1. bound[s] # None /\ cport' = [cport EXCEPT ![s] = bound[s]]
    BY <1>1, PortIsRead
  <2>2. cpc' = [cpc EXCEPT ![s] = "tunnel"] /\ spc' = spc /\ bound' = bound
    BY <1>1 DEF ReadPort
  <2> QED
    BY <1>0, <2>1, <2>2 DEF TypeOK
<1>2. ASSUME NEW s \in Sessions, Connect(s) PROVE Known'
  <2>1. cpc[s] = "idle" /\ spc[s] = "none"
    BY <1>2 DEF Connect, Stages
  <2> QED
    BY <1>0, <1>2, <2>1 DEF Connect, TypeOK, Early
<1>3. ASSUME NEW s \in Sessions, NEW f \in Flags, WriteFlag(s, f) PROVE Known'
  BY <1>0, <1>3 DEF WriteFlag, TypeOK
<1>4. ASSUME NEW s \in Sessions, ReadEcho(s) \/ SendHello(s) PROVE Known'
  BY <1>0, <1>4 DEF ReadEcho, SendHello, TypeOK
<1>5. ASSUME NEW s \in Sessions,
             \/ ConnectFails(s) \/ WriteFlagFails(s) \/ ReadFails(s)
             \/ OpenTunnel(s) \/ OpenTunnelFails(s) \/ SendHelloFails(s)
             \/ ClientReturns(s) \/ ClientDies(s)
      PROVE  Known'
  BY <1>0, <1>5 DEF ConnectFails, WriteFlagFails, ReadFails, OpenTunnel,
                    OpenTunnelFails, SendHelloFails, ClientExits, NetFails,
                    ClientReturns, ClientDies, ClientStep, TypeOK
<1>6. ASSUME NEW s \in Sessions, ClientSend(s) \/ ClientStop(s) PROVE Known'
  BY <1>0, <1>6 DEF ClientSend, ClientStop
<1>7. CASE Accept \/ AcceptFails
  <2>1. spc[Head(backlog)] = "backlog" /\ Head(backlog) \in Sessions
    BY <1>7, HeadQueued DEF Accept, AcceptFails
  <2>2. /\ spc'[t] = spc[t] \/ (spc[t] = "backlog" /\ spc'[t] \in {"readFlag", "dead"})
        /\ UNCHANGED <<cpc, cport, bound>>
    BY <1>7, <2>1 DEF Accept, AcceptFails, TypeOK
  <2> QED
    BY <1>0, <2>2 DEF Early
<1>8. ASSUME NEW s \in Sessions, NEW p \in Ports, ChildBind(s, p) PROVE Known'
  BY <1>0, <1>8 DEF ChildBind, TypeOK, Early
<1>9. ASSUME NEW s \in Sessions,
             \/ ChildReadFlag(s) \/ ChildEcho(s) \/ ChildWritePort(s) \/ ChildRecv(s)
             \/ ChildTake(s) \/ ChildSend(s) \/ ChildEnds(s)
      PROVE  Known'
  <2>1. UNCHANGED <<cpc, cport, bound>>
    BY <1>9 DEF ChildReadFlag, ChildEcho, ChildWritePort, ChildRecv, ChildTake,
                ChildSend, ChildEnds
  <2>2. spc'[t] = spc[t] \/ (spc[t] \in {"readFlag", "echo"} /\ spc'[t] \in {"echo", "bind"})
        \/ spc'[t] \in {"recv", "relay", "dead"}
    <3>1. CASE ChildReadFlag(s) \/ ChildEcho(s)
      BY <3>1 DEF ChildReadFlag, ChildEcho, TypeOK
    <3>2. CASE ChildWritePort(s) \/ ChildRecv(s)
      BY <3>2 DEF ChildWritePort, ChildRecv, TypeOK
    <3>3. CASE ChildTake(s) \/ ChildSend(s) \/ ChildEnds(s)
      BY <3>3 DEF ChildTake, ChildSend, ChildEnds, TypeOK
    <3> QED
      BY <1>9, <3>1, <3>2, <3>3
  <2> QED
    BY <1>0, <2>1, <2>2 DEF Early
<1>10. ASSUME NEW s \in Sessions, Network(s) PROVE Known'
  BY <1>0, <1>10 DEF Network, Deliver, Lose, DeliverDown
<1>11. CASE ParentDies \/ UNCHANGED vars
  BY <1>0, <1>11 DEF ParentDies, vars
<1> QED
  BY <1>1, <1>2, <1>3, <1>4, <1>5, <1>6, <1>7, <1>8, <1>9, <1>10, <1>11
     DEF Next, Client, Child

\* A datagram is sent by a phone that knows a port and queued at that port.
LEMMA NextAddressedQueues ==
  ASSUME IInv, Addressed, [Next]_vars, NEW t \in Sessions
  PROVE  (up'[t] # <<>> => cport'[t] # None) /\ sockq'[t] \in Seq(ForPort(t)')
<1> USE DEF IInv
<1>0. /\ up[t] # <<>> => cport[t] # None
      /\ cport[t] # None => cport'[t] = cport[t]
      /\ sockq[t] \in Seq(ForPort(t)')
  BY PortsStay, SeqMonotonic DEF Addressed
<1>1. /\ sockq[t] # <<>> => Tail(sockq[t]) \in Seq(ForPort(t)')
      /\ <<>> \in Seq(ForPort(t)')
  BY <1>0, QueueOps, EmptySeq
<1>2. ASSUME NEW s \in Sessions, SendHello(s) \/ ClientSend(s)
      PROVE  (up'[t] # <<>> => cport'[t] # None) /\ sockq' = sockq
  <2>1. cport[s] # None
    BY <1>2 DEF SendHello, ClientSend, Addressed
  <2> QED
    BY <1>0, <1>2, <2>1 DEF SendHello, ClientSend, TypeOK
<1>3. ASSUME NEW s \in Sessions, Client(s), ~SendHello(s), ~ClientSend(s)
      PROVE  up' = up /\ sockq' = sockq
  BY <1>3 DEF Client, Connect, ConnectFails, WriteFlag, WriteFlagFails, ReadEcho,
              ReadPort, ReadFails, OpenTunnel, OpenTunnelFails, SendHelloFails,
              ClientExits, NetFails, ClientReturns, ClientStop, ClientDies, ClientStep
<1>4. ASSUME NEW s \in Sessions, ChildRecv(s) \/ ChildTake(s) \/ ChildEnds(s)
      PROVE  sockq'[t] \in Seq(ForPort(t)') /\ up' = up
  BY <1>0, <1>1, <1>4 DEF ChildRecv, ChildTake, ChildEnds, TypeOK
<1>5. ASSUME NEW s \in Sessions, NEW p \in Ports,
             \/ ChildReadFlag(s) \/ ChildEcho(s) \/ ChildBind(s, p)
             \/ ChildWritePort(s) \/ ChildSend(s)
      PROVE  up' = up /\ sockq' = sockq
  BY <1>5 DEF ChildReadFlag, ChildEcho, ChildBind, ChildWritePort, ChildSend
<1>6. ASSUME NEW s \in Sessions, NEW i \in Nat, NEW kept \in BOOLEAN, Deliver(s, i, kept)
      PROVE  (up'[t] # <<>> => cport'[t] # None) /\ sockq'[t] \in Seq(ForPort(t)')
  <2>1. i \in 1 .. Len(up[s]) /\ cport' = cport /\ bound' = bound
    BY <1>6 DEF Deliver
  <2>2. up[s] # <<>> /\ cport[s] # None
    BY <2>1, EmptySeq DEF Addressed
  <2>3. up'[t] = up[t] \/ t = s
    BY <1>6 DEF Deliver, TypeOK
  <2>4. up'[t] # <<>> => cport'[t] # None
    BY <1>0, <2>1, <2>2, <2>3
  <2>5. ASSUME bound[t] = cport[s]
        PROVE  Append(sockq[t], <<s, up[s][i]>>) \in Seq(ForPort(t)')
    <3>1. up[s][i] \in Honest(s)
      BY <2>1, ElementOfSeq DEF Payloads
    <3>2. <<s, up[s][i]>> \in ForPort(t)
      BY <2>2, <2>5, <3>1 DEF ForPort, Sent, Honest
    <3>3. <<s, up[s][i]>> \in ForPort(t)'
      BY <3>2, PortsStay
    <3> QED
      BY <1>0, <3>3, QueueOps
  <2>6. sockq'[t] = sockq[t]
        \/ (bound[t] = cport[s] /\ sockq'[t] = Append(sockq[t], <<s, up[s][i]>>))
    BY <1>6 DEF Deliver
  <2> QED
    BY <1>0, <2>4, <2>5, <2>6
<1>7. ASSUME NEW s \in Sessions, NEW i \in Nat, Lose(s, i)
      PROVE  (up'[t] # <<>> => cport'[t] # None) /\ sockq' = sockq
  <2>1. i \in 1 .. Len(up[s]) /\ cport' = cport /\ (up'[t] = up[t] \/ t = s)
    BY <1>7 DEF Lose, TypeOK
  <2>2. cport[s] # None
    BY <2>1, EmptySeq DEF Addressed
  <2> QED
    BY <1>0, <1>7, <2>1, <2>2 DEF Lose
<1>8. ASSUME NEW s \in Sessions, NEW c \in Sessions, DeliverDown(s, c)
      PROVE  up' = up /\ sockq' = sockq
  BY <1>8 DEF DeliverDown
<1>9. CASE Accept \/ AcceptFails \/ ParentDies \/ UNCHANGED vars
  BY <1>0, <1>9 DEF Accept, AcceptFails, ParentDies, vars
<1>10. 1 .. MaxFlight \subseteq Nat
  BY FlightAssumption
<1>11. ASSUME NEW s \in Sessions, Child(s)
       PROVE  (up'[t] # <<>> => cport'[t] # None) /\ sockq'[t] \in Seq(ForPort(t)')
  BY <1>0, <1>4, <1>5, <1>11, PortAssumption DEF Child
<1>12. ASSUME NEW s \in Sessions, Network(s)
       PROVE  (up'[t] # <<>> => cport'[t] # None) /\ sockq'[t] \in Seq(ForPort(t)')
  BY <1>0, <1>6, <1>7, <1>8, <1>10, <1>12 DEF Network
<1> QED
  BY <1>0, <1>2, <1>3, <1>9, <1>11, <1>12 DEF Next

LEMMA NextAddressed == IInv /\ Addressed /\ [Next]_vars => Addressed'
  BY NextKnown, NextAddressedQueues DEF Addressed

LEMMA AddressedAlways == Spec => [](IInv /\ Addressed)
<1>1. Init => IInv /\ Addressed
  BY InitIInv, InitAddressed
<1> QED
  BY <1>1, NextAddressed, Invariant, PTL DEF Spec

\* The child's first datagram, if it carries the nonce, comes from a phone that
\* drew that nonce and was told the port of this child.
LEMMA RecvPairs ==
  ASSUME IInv, Addressed, NEW s \in Sessions, ChildRecv(s)
  PROVE  UNCHANGED <<flag, bound, cport, peer>> \/ \E t \in Sessions : Meeting!Pair(s, t)
<1> USE DEF IInv
<1> DEFINE m == Head(sockq[s])
<1>1. m \in ForPort(s)
  BY QueueOps DEF ChildRecv, Addressed
<1>2. /\ m[1] \in Sessions /\ m[2] \in Flags \cup {Data}
      /\ m[2] = Data \/ m[2] = flag[m[1]]
      /\ cport[m[1]] # None /\ cport[m[1]] = bound[s]
  BY <1>1 DEF ForPort, Sent, Honest
<1>3. sflag[s] # Data /\ sflag[s] = flag[s] /\ peer[s] = None
  <2>1. sflag[s] # Data /\ sflag[s] # None /\ peer[s] = None
    <3>1. spc[s] = "recv"
      BY DEF ChildRecv
    <3> QED
      BY <3>1, DataAssumption DEF ChildKnows, TypeOK, ChildRuns
  <2> QED
    BY <2>1 DEF HandshakeAgreement
<1>4. /\ \/ m[2] = sflag[s] /\ peer' = [peer EXCEPT ![s] = m[1]]
         \/ peer' = [peer EXCEPT ![s] = None]
      /\ UNCHANGED <<flag, bound, cport>>
  BY DEF ChildRecv
<1>5. CASE m[2] = sflag[s] /\ peer' = [peer EXCEPT ![s] = m[1]]
  <2>1. peer' = [peer EXCEPT ![s] = m[1]]
    BY <1>5
  <2>2. flag[m[1]] = flag[s]
    BY <1>2, <1>3, <1>5
  <2>3. Meeting!Pair(s, m[1])
    BY <1>2, <1>3, <1>4, <2>1, <2>2 DEF Meeting!Pair
  <2> QED
    BY <1>2, <2>3
<1>6. CASE peer' = [peer EXCEPT ![s] = None]
  <2>1. peer' = peer
    BY <1>3, <1>6 DEF TypeOK
  <2> QED
    BY <1>4, <2>1
<1> QED
  BY <1>4, <1>5, <1>6

\* Whatever the processes and the network do, the handshake is a rendezvous: a
\* port is opened once, told once and only after that, and a child pairs once,
\* with a phone that has its nonce and was told its own port.
THEOREM SetupImplements == Spec => SetupIsRendezvous
<1>1. Init => Meeting!Init
  BY DEF Init, Meeting!Init, Meeting!Nobody
<1>2. IInv /\ Addressed /\ [Next]_vars => [Meeting!Next]_(Meeting!meetVars)
  <2> SUFFICES ASSUME IInv, Addressed, [Next]_vars
               PROVE  Meeting!Next \/ UNCHANGED <<flag, bound, cport, peer>>
    BY DEF Meeting!meetVars
  <2> USE DEF IInv
  <2>1. ASSUME NEW s \in Sessions, NEW f \in Flags, WriteFlag(s, f) PROVE Meeting!Next
    <3>1. Meeting!Draw(s, f)
      BY <2>1 DEF WriteFlag, Stages, Meeting!Draw
    <3> QED
      BY <3>1 DEF Meeting!Next
  <2>2. ASSUME NEW s \in Sessions, ReadPort(s) PROVE Meeting!Next
    <3>1. cport[s] = None /\ UNCHANGED <<flag, bound, peer>>
      BY <2>2 DEF ReadPort, Addressed
    <3>2. Meeting!Tell(s)
      BY <2>2, <3>1, PortIsRead DEF Meeting!Tell
    <3> QED
      BY <3>2 DEF Meeting!Next
  <2>3. ASSUME NEW s \in Sessions, Client(s), ~ReadPort(s),
               ~\E f \in Flags : WriteFlag(s, f)
        PROVE  UNCHANGED <<flag, bound, cport, peer>>
    BY <2>3 DEF Client, Connect, ConnectFails, WriteFlagFails, ReadEcho, ReadFails,
                OpenTunnel, OpenTunnelFails, SendHello, SendHelloFails, ClientExits,
                NetFails, ClientSend, ClientReturns, ClientStop, ClientDies, ClientStep
  <2>4. ASSUME NEW s \in Sessions, NEW p \in Ports, ChildBind(s, p) PROVE Meeting!Next
    <3>1. bound[s] = None /\ sflag[s] # None
      BY <2>4 DEF ChildBind, Addressed, ChildKnows, ChildRuns
    <3>2. flag[s] # None
      BY <3>1 DEF HandshakeAgreement
    <3>3. Meeting!Open(s, p)
      BY <2>4, <3>1, <3>2 DEF ChildBind, Meeting!Open
    <3> QED
      BY <3>3 DEF Meeting!Next
  <2>5. ASSUME NEW s \in Sessions, ChildRecv(s)
        PROVE  Meeting!Next \/ UNCHANGED <<flag, bound, cport, peer>>
    BY <2>5, RecvPairs DEF Meeting!Next
  <2>6. ASSUME NEW s \in Sessions, Child(s), ~ChildRecv(s),
               ~\E p \in Ports : ChildBind(s, p)
        PROVE  UNCHANGED <<flag, bound, cport, peer>>
    BY <2>6 DEF Child, ChildReadFlag, ChildEcho, ChildWritePort, ChildTake, ChildSend,
                ChildEnds
  <2>7. ASSUME NEW s \in Sessions, Network(s)
        PROVE  UNCHANGED <<flag, bound, cport, peer>>
    BY <2>7 DEF Network, Deliver, Lose, DeliverDown
  <2>8. CASE Accept \/ AcceptFails \/ ParentDies \/ UNCHANGED vars
    BY <2>8 DEF Accept, AcceptFails, ParentDies, vars
  <2> QED
    BY <2>1, <2>2, <2>3, <2>4, <2>5, <2>6, <2>7, <2>8 DEF Next
<1> QED
  BY <1>1, <1>2, AddressedAlways, PTL DEF Spec, Meeting!Spec, SetupIsRendezvous
===============================================================================
