----------------------------- MODULE RelayProofs ------------------------------
(* Theorems about Relay, for every alphabet, every set of packets, every write *)
(* cap and every bound: the buffers are well typed, no byte is lost, doubled   *)
(* or put out of order on its way, no byte waits without a callback, and each  *)
(* direction implements BytePipe.                                              *)
EXTENDS Relay, SequenceTheorems, TLAPS

\* There are two legs, and each is the other's peer.
LEMMA PeerOf ==
  ASSUME NEW k \in Leg
  PROVE  /\ Peer(k) \in Leg /\ Peer(k) # k
         /\ \A l \in Leg : l # k => l = Peer(k)
         /\ \A l \in Leg : Peer(l) = Peer(k) => l = k
         /\ \A l \in Leg : l # Peer(k) => l = k
  BY DEF Leg, Peer

-------------------------------------------------------------------------------
(* Sequences *)

\* Concatenation read from the left or from the right.
LEMMA Regroup ==
  \A a, b, c \in Seq(Byte) : /\ a \o b \in Seq(Byte)
                            /\ (a \o b) \o c = a \o (b \o c)
<1> SUFFICES ASSUME NEW a \in Seq(Byte), NEW b \in Seq(Byte), NEW c \in Seq(Byte)
             PROVE  a \o b \in Seq(Byte) /\ (a \o b) \o c = a \o (b \o c)
  OBVIOUS
<1>1. a \o b \in Seq(Byte)
  BY ConcatProperties
<1>2. (a \o b) \o c = a \o (b \o c)
  BY ConcatAssociative
<1> QED
  BY <1>1, <1>2

\* A sequence is what its first n elements leave when the rest is added back:
\* what one write takes and what stays in the output make up the output.
LEMMA Split ==
  ASSUME NEW S, NEW s \in Seq(S), NEW n \in 0 .. Len(s)
  PROVE  /\ SubSeq(s, 1, n) \in Seq(S)
         /\ SubSeq(s, n + 1, Len(s)) \in Seq(S)
         /\ Len(SubSeq(s, 1, n)) = n
         /\ SubSeq(s, 1, n) \o SubSeq(s, n + 1, Len(s)) = s
<1>1. Len(s) \in Nat /\ \A i \in 1 .. Len(s) : s[i] \in S
  BY LenProperties, ElementOfSeq
<1>2. SubSeq(s, 1, n) \in Seq(S) /\ Len(SubSeq(s, 1, n)) = n
  <2>1. 1 \in Int /\ n \in Int /\ \A i \in 1 .. n : s[i] \in S
    BY <1>1
  <2> QED
    BY <1>1, <2>1, SubSeqProperties
<1>3. SubSeq(s, n + 1, Len(s)) \in Seq(S)
  <2>1. n + 1 \in Int /\ Len(s) \in Int /\ \A i \in n + 1 .. Len(s) : s[i] \in S
    BY <1>1
  <2> QED
    BY <2>1, SubSeqProperties
<1>4. SubSeq(s, 1, n) \o SubSeq(s, n + 1, Len(s)) = SubSeq(s, 1, Len(s))
  <2>1. /\ 1 \in 1 .. Len(s) + 1
        /\ n \in 1 - 1 .. Len(s)
        /\ Len(s) \in n .. Len(s)
    BY <1>1
  <2> QED
    BY <2>1, ConcatAdjacentSubSeq
<1> QED
  BY <1>2, <1>3, <1>4, SubSeqFull

\* What was delivered is a prefix of what was sent, cut at its own length.
LEMMA Prefix ==
  ASSUME NEW S, NEW s \in Seq(S), NEW t \in Seq(S)
  PROVE  SubSeq(s \o t, 1, Len(s)) = s
<1>1. CASE s = <<>>
  <2>1. SubSeq(s \o t, 1, Len(s)) = <<>>
    BY <1>1, EmptySeq, SubSeqEmpty
  <2> QED
    BY <1>1, <2>1
<1>2. CASE s # <<>>
  <2>1. Len(s) \in Nat \ {0}
    BY <1>2, EmptySeq
  <2>2. SubSeq(s \o t, 1, Len(s)) = SubSeq(s, 1, Len(s))
    BY <2>1, SubSeqOfConcat1
  <2> QED
    BY <2>2, SubSeqFull
<1> QED
  BY <1>1, <1>2

\* One write takes at least one byte and at most all that is there.
LEMMA BurstRange ==
  ASSUME TypeOK, NEW l \in Leg
  PROVE  /\ Burst(l) \in 0 .. Len(output[l])
         /\ output[l] # <<>> => Burst(l) > 0
<1>1. output[l] \in Seq(Byte)
  BY DEF TypeOK
<1>2. Len(output[l]) \in Nat /\ (output[l] # <<>> => Len(output[l]) > 0)
  BY <1>1, LenProperties, EmptySeq
<1> QED
  BY <1>2, WriteMaxAssumption DEF Burst

-------------------------------------------------------------------------------
(* Types *)

LEMMA InitTypeOK == Init => TypeOK
  BY EmptySeq DEF Init, TypeOK

LEMMA NextTypeOK == TypeOK /\ [Next]_vars => TypeOK'
<1> SUFFICES ASSUME TypeOK, [Next]_vars PROVE TypeOK'
  OBVIOUS
<1>1. ASSUME NEW l \in Leg, NEW p \in Packet, ReadEvent(l, p) PROVE TypeOK'
  <2>1. p \in Seq(Byte)
    BY PacketAssumption
  <2>2. input[l] \o p \in Seq(Byte) /\ taken[l] \o p \in Seq(Byte)
    BY <2>1, ConcatProperties DEF TypeOK
  <2> QED
    BY <1>1, <2>2 DEF TypeOK, ReadEvent
<1>2. ASSUME NEW l \in Leg, ReadFails(l) PROVE TypeOK'
  BY <1>2 DEF TypeOK, ReadFails
<1>3. ASSUME NEW l \in Leg, OnRecv(l) PROVE TypeOK'
  <2>1. output[Peer(l)] \o input[l] \in Seq(Byte) /\ <<>> \in Seq(Byte)
    BY PeerOf, ConcatProperties, EmptySeq DEF TypeOK
  <2> QED
    BY <1>3, <2>1 DEF TypeOK, OnRecv
<1>4. ASSUME NEW l \in Leg, WriteEvent(l) PROVE TypeOK'
  <2>1. output[l] \in Seq(Byte) /\ wrote[l] \in Seq(Byte)
    BY DEF TypeOK
  <2>2. /\ SubSeq(output[l], 1, Burst(l)) \in Seq(Byte)
        /\ SubSeq(output[l], Burst(l) + 1, Len(output[l])) \in Seq(Byte)
    BY <2>1, BurstRange, Split
  <2>3. wrote[l] \o SubSeq(output[l], 1, Burst(l)) \in Seq(Byte)
    BY <2>1, <2>2, ConcatProperties
  <2> QED
    BY <1>4, <2>2, <2>3 DEF TypeOK, WriteEvent
<1>5. ASSUME NEW l \in Leg, WriteFails(l) PROVE TypeOK'
  BY <1>5 DEF TypeOK, WriteFails
<1>6. CASE ControlCloses
  BY <1>6 DEF TypeOK, ControlCloses
<1>7. CASE OnTcpError
  BY <1>7 DEF TypeOK, OnTcpError
<1>8. CASE TunCloses
  BY <1>8 DEF TypeOK, TunCloses
<1>9. CASE LoopReturns
  BY <1>9 DEF TypeOK, LoopReturns
<1>10. CASE UNCHANGED vars
  BY <1>10 DEF TypeOK, vars
<1> QED
  BY <1>1, <1>2, <1>3, <1>4, <1>5, <1>6, <1>7, <1>8, <1>9, <1>10 DEF Next

\* Buffers hold bytes and the control state stays within its values, whatever
\* the packets are and however large a write may be.
THEOREM TypeCorrect == Spec => []TypeOK
<1>1. Spec => Init /\ [][Next]_vars
  BY DEF Spec
<1> QED
  BY <1>1, InitTypeOK, NextTypeOK, PTL

-------------------------------------------------------------------------------
(* No byte is lost, doubled or reordered *)

LEMMA InitConserved == Init => Conserved
<1>1. <<>> = (<<>> \o <<>>) \o <<>>
  BY ConcatEmptySeq, EmptySeq
<1> QED
  BY <1>1, PeerOf DEF Init, Conserved

\* Each action moves bytes along one path and leaves the other path alone.
LEMMA NextConserved == TypeOK /\ Conserved /\ [Next]_vars => Conserved'
<1> SUFFICES ASSUME TypeOK, Conserved, [Next]_vars,
                    NEW k \in Leg
             PROVE  (taken[k] = wrote[Peer(k)] \o output[Peer(k)] \o input[k])'
  BY DEF Conserved
<1> DEFINE w == wrote[Peer(k)]
           o == output[Peer(k)]
           i == input[k]
<1>0. /\ Peer(k) \in Leg
      /\ taken[k] = wrote[Peer(k)] \o output[Peer(k)] \o input[k]
      /\ taken[k] \in Seq(Byte) /\ input[k] \in Seq(Byte)
      /\ wrote[Peer(k)] \in Seq(Byte) /\ output[Peer(k)] \in Seq(Byte)
  BY PeerOf DEF TypeOK, Conserved
<1>1. ASSUME NEW l \in Leg, NEW p \in Packet, ReadEvent(l, p)
      PROVE  (taken[k] = wrote[Peer(k)] \o output[Peer(k)] \o input[k])'
  <2>1. p \in Seq(Byte)
    BY PacketAssumption
  <2>2. CASE l = k
    <3>1. /\ taken'[k] = taken[k] \o p
          /\ input'[k] = input[k] \o p
          /\ wrote' = wrote /\ output' = output
      BY <1>1, <2>2 DEF ReadEvent, TypeOK
    <3>2. ((w \o o) \o i) \o p = (w \o o) \o (i \o p)
      <4>1. w \in Seq(Byte) /\ o \in Seq(Byte) /\ i \in Seq(Byte)
        BY <1>0
      <4>2. w \o o \in Seq(Byte)
        BY <4>1, ConcatProperties
      <4> DEFINE wo == w \o o
      <4> HIDE DEF w, o, i, wo
      <4>3. wo \in Seq(Byte)
        BY <4>2 DEF wo
      <4>4. (wo \o i) \o p = wo \o (i \o p)
        BY <2>1, <4>1, <4>3, Regroup
      <4> QED
        BY <4>4 DEF wo
    <3> QED
      BY <1>0, <3>1, <3>2
  <2>3. CASE l # k
    BY <1>0, <1>1, <2>3 DEF ReadEvent, TypeOK
  <2> QED
    BY <2>2, <2>3
<1>2. ASSUME NEW l \in Leg, OnRecv(l)
      PROVE  (taken[k] = wrote[Peer(k)] \o output[Peer(k)] \o input[k])'
  <2>1. CASE l = k
    <3>1. /\ output'[Peer(k)] = output[Peer(k)] \o input[k]
          /\ input'[k] = <<>>
          /\ wrote' = wrote /\ taken' = taken
      BY <1>0, <1>2, <2>1, PeerOf DEF OnRecv, TypeOK
    <3>2. (w \o o) \o i = (w \o (o \o i)) \o <<>>
      <4>1. w \in Seq(Byte) /\ o \in Seq(Byte) /\ i \in Seq(Byte)
        BY <1>0
      <4> HIDE DEF w, o, i
      <4>2. (w \o o) \o i = w \o (o \o i)
        BY <4>1, Regroup
      <4>3. o \o i \in Seq(Byte)
        BY <4>1, ConcatProperties
      <4>4. w \o (o \o i) \in Seq(Byte)
        BY <4>1, <4>3, ConcatProperties
      <4> QED
        BY <4>2, <4>4, ConcatEmptySeq
    <3> QED
      BY <1>0, <3>1, <3>2
  <2>2. CASE l # k
    BY <1>0, <1>2, <2>2, PeerOf DEF OnRecv, TypeOK
  <2> QED
    BY <2>1, <2>2
<1>3. ASSUME NEW l \in Leg, WriteEvent(l)
      PROVE  (taken[k] = wrote[Peer(k)] \o output[Peer(k)] \o input[k])'
  <2>1. CASE l = Peer(k)
    <3> DEFINE now == SubSeq(o, 1, Burst(Peer(k)))
               rest == SubSeq(o, Burst(Peer(k)) + 1, Len(o))
    <3>1. /\ wrote'[Peer(k)] = w \o now /\ output'[Peer(k)] = rest
          /\ taken' = taken /\ input' = input
      BY <1>0, <1>3, <2>1 DEF WriteEvent, TypeOK
    <3>2. w \in Seq(Byte) /\ o \in Seq(Byte) /\ i \in Seq(Byte)
      BY <1>0
    <3>3. Burst(Peer(k)) \in 0 .. Len(o)
      BY <1>0, BurstRange
    <3>4. (w \o now) \o rest = w \o o
      <4> HIDE DEF w, o, i
      <4>1. now \in Seq(Byte) /\ rest \in Seq(Byte) /\ now \o rest = o
        BY <3>2, <3>3, Split
      <4> HIDE DEF now, rest
      <4> QED
        <5>1. w \in Seq(Byte) /\ now \in Seq(Byte) /\ rest \in Seq(Byte)
          BY <3>2, <4>1
        <5>2. (w \o now) \o rest = w \o (now \o rest)
          BY <5>1, Regroup
        <5> QED
          BY <4>1, <5>2
    <3> HIDE DEF now, rest
    <3> QED
      BY <1>0, <3>1, <3>4
  <2>2. CASE l # Peer(k)
    BY <1>0, <1>3, <2>2, PeerOf DEF WriteEvent, TypeOK
  <2> QED
    BY <2>1, <2>2
<1>4. ASSUME NEW l \in Leg, ReadFails(l) \/ WriteFails(l)
      PROVE  (taken[k] = wrote[Peer(k)] \o output[Peer(k)] \o input[k])'
  BY <1>0, <1>4 DEF ReadFails, WriteFails
<1>5. CASE ControlCloses \/ OnTcpError \/ TunCloses \/ LoopReturns
  BY <1>0, <1>5 DEF ControlCloses, OnTcpError, TunCloses, LoopReturns
<1>6. CASE UNCHANGED vars
  BY <1>0, <1>6 DEF vars
<1> QED
  BY <1>1, <1>2, <1>3, <1>4, <1>5, <1>6 DEF Next

\* Whatever was read from a leg is, in order and without gaps, what was written
\* to the other leg, followed by what __on_recv moved there, followed by what
\* it has not moved yet; errors and the end of the loop included.
THEOREM BytesConserved == Spec => []Conserved
<1>1. Spec => Init /\ [][Next]_vars
  BY DEF Spec
<1> QED
  BY <1>1, TypeCorrect, InitConserved, NextConserved, PTL

\* A packet in an input buffer has a callback coming, so no error leaves it there.
THEOREM NothingStranded == Spec => []NoStranded
<1>1. Init => NoStranded
  BY DEF Init, NoStranded
<1>2. TypeOK /\ NoStranded /\ [Next]_vars => NoStranded'
  <2> SUFFICES ASSUME TypeOK, NoStranded, [Next]_vars PROVE NoStranded'
    OBVIOUS
  <2>1. ASSUME NEW l \in Leg, NEW p \in Packet, ReadEvent(l, p) PROVE NoStranded'
    BY <2>1 DEF ReadEvent, NoStranded, TypeOK
  <2>2. ASSUME NEW l \in Leg, OnRecv(l) PROVE NoStranded'
    BY <2>2 DEF OnRecv, NoStranded, TypeOK
  <2>3. ASSUME NEW l \in Leg, ReadFails(l) \/ WriteEvent(l) \/ WriteFails(l)
        PROVE  NoStranded'
    BY <2>3 DEF ReadFails, WriteEvent, WriteFails, NoStranded
  <2>4. CASE ControlCloses \/ OnTcpError \/ TunCloses \/ LoopReturns
    BY <2>4 DEF ControlCloses, OnTcpError, TunCloses, LoopReturns, NoStranded
  <2>5. CASE UNCHANGED vars
    BY <2>5 DEF vars, NoStranded
  <2> QED
    BY <2>1, <2>2, <2>3, <2>4, <2>5 DEF Next
<1>3. Spec => Init /\ [][Next]_vars
  BY DEF Spec
<1> QED
  BY <1>1, <1>2, <1>3, TypeCorrect, PTL

-------------------------------------------------------------------------------
(* Each direction implements the byte pipe *)

\* One step of the relay, seen by the bytes that go from leg k to the other.
PipeStep(k) ==
  \/ \E p \in Packet : taken'[k] = taken[k] \o p
                       /\ wrote'[Peer(k)] = wrote[Peer(k)]
  \/ \E n \in (Len(wrote[Peer(k)]) + 1) .. Len(taken[k]) :
       wrote'[Peer(k)] = SubSeq(taken[k], 1, n) /\ taken'[k] = taken[k]
  \/ taken'[k] = taken[k] /\ wrote'[Peer(k)] = wrote[Peer(k)]

\* What a leg was given is a prefix of what the other leg gave.
LEMMA WrotePrefix ==
  ASSUME NEW w \in Seq(Byte), NEW o \in Seq(Byte), NEW i \in Seq(Byte),
         NEW t, t = (w \o o) \o i
  PROVE  Len(w) \in 0 .. Len(t) /\ w = SubSeq(t, 1, Len(w))
<1>1. t = w \o (o \o i) /\ o \o i \in Seq(Byte)
  BY ConcatAssociative, ConcatProperties
<1>2. SubSeq(t, 1, Len(w)) = w
  BY <1>1, Prefix
<1>3. Len(t) = Len(w) + Len(o \o i)
  BY <1>1, ConcatProperties
<1>4. Len(w) \in Nat /\ Len(o \o i) \in Nat
  BY <1>1, LenProperties
<1> QED
  BY <1>2, <1>3, <1>4

LEMMA NextPipes ==
  TypeOK /\ Conserved /\ TypeOK' /\ Conserved' /\ [Next]_vars
    => \A k \in Leg : PipeStep(k)
<1> SUFFICES ASSUME TypeOK, Conserved, TypeOK', Conserved', [Next]_vars,
                    NEW k \in Leg
             PROVE  PipeStep(k)
  OBVIOUS
<1>1. ASSUME NEW l \in Leg, NEW p \in Packet, ReadEvent(l, p) PROVE PipeStep(k)
  BY <1>1 DEF ReadEvent, PipeStep, TypeOK
<1>2. ASSUME NEW l \in Leg, WriteEvent(l) PROVE PipeStep(k)
  <2>1. CASE l = Peer(k)
    <3> DEFINE w == wrote[Peer(k)]
               o == output[Peer(k)]
               b == Burst(Peer(k))
               now == SubSeq(o, 1, b)
    <3>1. taken' = taken /\ wrote'[Peer(k)] = w \o now /\ o # <<>>
      BY <1>2, <2>1, PeerOf DEF WriteEvent, WritePending, TypeOK
    <3>2. o \in Seq(Byte) /\ w \in Seq(Byte)
      BY PeerOf DEF TypeOK
    <3>3. b \in 0 .. Len(o) /\ b > 0
      BY <3>1, PeerOf, BurstRange
    <3>4. Len(w \o now) = Len(w) + b
      <4> HIDE DEF w, o, b
      <4>1. now \in Seq(Byte) /\ Len(now) = b
        BY <3>2, <3>3, Split
      <4> HIDE DEF now
      <4> QED
        BY <3>2, <4>1, ConcatProperties
    <3>5. /\ Len(wrote'[Peer(k)]) \in 0 .. Len(taken'[k])
          /\ wrote'[Peer(k)] = SubSeq(taken'[k], 1, Len(wrote'[Peer(k)]))
      <4>1. /\ wrote'[Peer(k)] \in Seq(Byte) /\ output'[Peer(k)] \in Seq(Byte)
            /\ input'[k] \in Seq(Byte)
            /\ taken'[k] = (wrote'[Peer(k)] \o output'[Peer(k)]) \o input'[k]
        BY PeerOf DEF TypeOK, Conserved
      <4> DEFINE w1 == wrote'[Peer(k)]
                 o1 == output'[Peer(k)]
                 i1 == input'[k]
                 t1 == taken'[k]
      <4>2. Len(w1) \in 0 .. Len(t1) /\ w1 = SubSeq(t1, 1, Len(w1))
        <5>1. w1 \in Seq(Byte) /\ o1 \in Seq(Byte) /\ i1 \in Seq(Byte)
          BY <4>1
        <5>2. t1 = (w1 \o o1) \o i1
          BY <4>1
        <5> HIDE DEF w1, o1, i1, t1
        <5> QED
          BY <5>1, <5>2, WrotePrefix
      <4> QED
        BY <4>2
    <3>6. Len(w) \in Nat /\ Len(o) \in Nat /\ Len(taken[k]) \in Nat
      BY <3>2, LenProperties DEF TypeOK
    <3>7. Len(w \o now) \in (Len(w) + 1) .. Len(taken[k])
      <4>1. Len(w \o now) \in 0 .. Len(taken[k])
        BY <3>1, <3>5
      <4> HIDE DEF w, o, b, now
      <4> QED
        BY <3>3, <3>4, <3>6, <4>1
    <3>8. wrote'[Peer(k)] = SubSeq(taken[k], 1, Len(w \o now))
      BY <3>1, <3>5
    <3> QED
      BY <3>1, <3>7, <3>8 DEF PipeStep
  <2>2. CASE l # Peer(k)
    BY <1>2, <2>2, PeerOf DEF WriteEvent, PipeStep, TypeOK
  <2> QED
    BY <2>1, <2>2
<1>3. ASSUME NEW l \in Leg, ReadFails(l) \/ OnRecv(l) \/ WriteFails(l)
      PROVE  PipeStep(k)
  BY <1>3 DEF ReadFails, OnRecv, WriteFails, PipeStep
<1>4. CASE ControlCloses \/ OnTcpError \/ TunCloses \/ LoopReturns
  BY <1>4 DEF ControlCloses, OnTcpError, TunCloses, LoopReturns, PipeStep
<1>5. CASE UNCHANGED vars
  BY <1>5 DEF vars, PipeStep
<1> QED
  BY <1>1, <1>2, <1>3, <1>4, <1>5 DEF Next

\* What the phone or the server takes from its tun goes to the UDP socket as
\* one stream: each step of the relay adds a packet to the stream, passes a
\* further part of it on, or does nothing to it.
THEOREM UplinkImplementsPipe == Spec => UplinkIsPipe
<1>1. Init => Uplink!Init
  BY DEF Init, Leg, Uplink!Init
<1>2. TypeOK /\ Conserved /\ TypeOK' /\ Conserved' /\ [Next]_vars
        => [Uplink!Next]_(Uplink!pipeVars)
  <2> SUFFICES ASSUME TypeOK, Conserved, TypeOK', Conserved', [Next]_vars
               PROVE  [Uplink!Next]_(Uplink!pipeVars)
    OBVIOUS
  <2>1. PipeStep("tun")
    BY NextPipes DEF Leg
  <2> QED
    BY <2>1 DEF PipeStep, Peer, Uplink!Next, Uplink!Send, Uplink!Deliver, Uplink!pipeVars
<1>3. Spec => Init /\ [][Next]_vars
  BY DEF Spec
<1>4. Spec => Uplink!Init /\ [][Uplink!Next]_(Uplink!pipeVars)
  BY <1>1, <1>2, <1>3, TypeCorrect, BytesConserved, PTL
<1> QED
  BY <1>4 DEF UplinkIsPipe, Uplink!Spec

\* The same for what it takes from the UDP socket on its way to the tun.
THEOREM DownlinkImplementsPipe == Spec => DownlinkIsPipe
<1>1. Init => Downlink!Init
  BY DEF Init, Leg, Downlink!Init
<1>2. TypeOK /\ Conserved /\ TypeOK' /\ Conserved' /\ [Next]_vars
        => [Downlink!Next]_(Downlink!pipeVars)
  <2> SUFFICES ASSUME TypeOK, Conserved, TypeOK', Conserved', [Next]_vars
               PROVE  [Downlink!Next]_(Downlink!pipeVars)
    OBVIOUS
  <2>1. PipeStep("udp")
    BY NextPipes DEF Leg
  <2> QED
    BY <2>1 DEF PipeStep, Peer, Downlink!Next, Downlink!Send, Downlink!Deliver,
                Downlink!pipeVars
<1>3. Spec => Init /\ [][Next]_vars
  BY DEF Spec
<1>4. Spec => Downlink!Init /\ [][Downlink!Next]_(Downlink!pipeVars)
  BY <1>1, <1>2, <1>3, TypeCorrect, BytesConserved, PTL
<1> QED
  BY <1>4 DEF DownlinkIsPipe, Downlink!Spec
===============================================================================
