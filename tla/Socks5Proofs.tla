----------------------------- MODULE Socks5Proofs -----------------------------
(* Theorems about Socks5, for any addresses, data and servers: what it sends    *)
(* has the form the protocol asks for and names the target, what it reads of a *)
(* stream is in step with the server and then a pipe, and datagrams stay whole. *)
EXTENDS Socks5, SequenceTheorems, TLAPS

-------------------------------------------------------------------------------
(* The wire formats *)

LEMMA TailOfCons ==
  ASSUME NEW S, NEW x \in S, NEW s \in Seq(S)
  PROVE  Tail(<<x>> \o s) = s
<1> DEFINE t == <<x>> \o s
<1>1. <<x>> \in Seq(S) /\ Len(<<x>>) = 1
  OBVIOUS
<1>2. /\ t \in Seq(S) /\ Len(t) = 1 + Len(s)
      /\ \A i \in 1 .. 1 + Len(s) : t[i] = IF i <= 1 THEN <<x>>[i] ELSE s[i - 1]
  BY <1>1, ConcatProperties
<1>3. Len(s) \in Nat
  BY LenProperties
<1> HIDE DEF t
<1>4. t # <<>>
  BY <1>2, <1>3, EmptySeq
<1>5. /\ Tail(t) \in Seq(S) /\ Len(Tail(t)) = Len(s)
      /\ \A i \in 1 .. Len(s) : Tail(t)[i] = t[i + 1]
  BY <1>2, <1>3, <1>4, HeadTailProperties
<1>6. \A i \in 1 .. Len(s) : Tail(t)[i] = s[i]
  BY <1>2, <1>3, <1>5
<1>7. Tail(t) = s
  BY <1>5, <1>6, SeqEqual
<1> QED
  BY <1>7 DEF t

LEMMA Assoc ==
  ASSUME NEW s \in Seq(Octet), NEW t \in Seq(Octet), NEW u \in Seq(Octet)
  PROVE  (s \o t) \o u = s \o (t \o u)
BY ConcatAssociative

LEMMA Joined == \A s, t \in Seq(Octet) : s \o t \in Seq(Octet)
BY ConcatProperties

\* What is where in two sequences put together.
LEMMA JoinedAt ==
  ASSUME NEW s \in Seq(Octet), NEW t \in Seq(Octet)
  PROVE  /\ Len(s \o t) = Len(s) + Len(t)
         /\ \A i \in 1 .. Len(s) + Len(t) :
              (s \o t)[i] = IF i <= Len(s) THEN s[i] ELSE t[i - Len(s)]
BY ConcatProperties

\* Concatenation by a name of its own, of which only two laws are needed.
Cat(s, t) == s \o t

LEMMA CatClosed == \A s, t \in Seq(Octet) : Cat(s, t) \in Seq(Octet)
BY Joined DEF Cat

LEMMA CatAssoc ==
  ASSUME NEW s \in Seq(Octet), NEW t \in Seq(Octet), NEW u \in Seq(Octet)
  PROVE  Cat(s, Cat(t, u)) = Cat(Cat(s, t), u)
<1>1. (s \o t) \o u = s \o (t \o u)
  BY Assoc
<1> QED
  BY <1>1 DEF Cat

\* Five pieces put together from the right or from the left.
LEMMA Regroup ==
  ASSUME NEW x \in Seq(Octet), NEW k \in Seq(Octet), NEW o \in Seq(Octet),
         NEW h \in Seq(Octet), NEW p \in Seq(Octet)
  PROVE  /\ x \o (((k \o o) \o h) \o p) = ((x \o k) \o (o \o h)) \o p
         /\ x \o (((k \o o) \o h) \o p) \in Seq(Octet)
<1> DEFINE c == Cat(o, h)
           d == Cat(k, c)
<1>1. c \in Seq(Octet) /\ d \in Seq(Octet)
  BY CatClosed
<1>2. Cat(Cat(k, o), h) = d
  BY CatAssoc
<1>3. Cat(x, d) = Cat(Cat(x, k), c)
  BY <1>1, CatAssoc
<1>4. Cat(x, Cat(d, p)) = Cat(Cat(x, d), p)
  BY <1>1, CatAssoc
<1>5. Cat(x, Cat(d, p)) \in Seq(Octet)
  BY <1>1, CatClosed
<1>6. Cat(x, Cat(Cat(Cat(k, o), h), p)) = Cat(Cat(Cat(x, k), c), p)
  BY <1>2, <1>3, <1>4
<1> QED
  BY <1>2, <1>5, <1>6 DEF Cat

LEMMA OctetMember == \A n : n \in Octet <=> n \in Nat /\ n < 256
BY DEF Octet

LEMMA ByteOfOctet == \A n \in Nat : n < 256 => n \in Octet /\ Byte(n) = n
<1> TAKE n \in Nat
<1> HAVE n < 256
<1>1. n % 256 = n
  OBVIOUS
<1> QED
  BY <1>1, OctetMember DEF Byte

\* The 16 bits of a port are its high octet and its low one.
LEMMA PortOctets ==
  ASSUME NEW n \in Nat
  PROVE  /\ Uint16(n) = <<(n % 65536) \div 256, (n % 65536) % 256>>
         /\ Uint16(n) \in Seq(Octet)
<1> DEFINE q == n \div 65536
           a == (n % 65536) \div 256
           b == n % 256
<1>1. q \in Nat /\ a \in Nat /\ b \in Nat /\ a < 256 /\ b < 256
  OBVIOUS
<1>2. (n % 65536) % 256 = b
  OBVIOUS
<1>3. n = 65536 * q + 256 * a + b
  OBVIOUS
<1> HIDE DEF q, a, b
<1>4. n \div 256 = 256 * q + a
  BY <1>1, <1>3
<1>5. (256 * q + a) % 256 = a
  BY <1>1
<1>6. Byte(n \div 256) = a /\ Byte(n) = b
  BY <1>4, <1>5 DEF Byte, b
<1>7. a \in Octet /\ b \in Octet
  BY <1>1, OctetMember
<1>8. Uint16(n) = <<a, b>>
  BY <1>6 DEF Uint16
<1>9. Uint16(n) \in Seq(Octet)
  BY <1>7, <1>8
<1> QED
  BY <1>2, <1>8, <1>9 DEF a

\* An address as the assumption has it.
LEMMA EndpointOK ==
  ASSUME NEW e \in Endpoint \cup {Local}
  PROVE  /\ e.kind \in Octet /\ e.host \in Seq(Octet)
         /\ Len(e.host) \in Octet /\ Byte(Len(e.host)) = Len(e.host)
         /\ Uint16(Atoi(e)) = <<PortRead(e) \div 256, PortRead(e) % 256>>
         /\ Uint16(Atoi(e)) \in Seq(Octet)
<1>1. /\ e.kind \in {Malformed, ATYPIPv4, ATYPDomain, ATYPIPv6}
      /\ e.host \in Seq(Octet) /\ Len(e.host) < 256
      /\ e.numeric \in BOOLEAN /\ e.port \in Nat
  BY EndpointAssumption
<1>2. e.kind \in Octet
  BY <1>1, OctetMember DEF Malformed, ATYPIPv4, ATYPDomain, ATYPIPv6
<1>3. Len(e.host) \in Nat
  BY <1>1, LenProperties
<1>4. Len(e.host) \in Octet /\ Byte(Len(e.host)) = Len(e.host)
  <2> DEFINE n == Len(e.host)
  <2>1. n \in Nat /\ n < 256
    BY <1>1, <1>3
  <2> HIDE DEF n
  <2>2. n \in Octet /\ Byte(n) = n
    BY <2>1, ByteOfOctet
  <2> QED
    BY <2>2 DEF n
<1>5. Atoi(e) \in Nat /\ PortRead(e) = Atoi(e) % 65536
  BY <1>1 DEF Atoi, PortRead
<1> QED
  BY <1>1, <1>2, <1>4, <1>5, PortOctets

\* The two counts of a name cancel out: what is left of one is its length.
LEMMA CountedOnce ==
  ASSUME NEW e \in Endpoint \cup {Local}
  PROVE  /\ Host(ParseAddress(e)) = e.host
         /\ Counted(e.kind, e.host)
              = (IF e.kind = ATYPDomain THEN <<Len(e.host)>> ELSE <<>>) \o e.host
         /\ Counted(e.kind, e.host) \in Seq(Octet)
<1>1. e.host \in Seq(Octet) /\ Len(e.host) \in Octet
      /\ Byte(Len(e.host)) = Len(e.host)
  BY EndpointOK
<1>2. CASE e.kind = ATYPDomain
  <2>1. Counted(e.kind, e.host) = <<Len(e.host)>> \o e.host
    BY <1>1, <1>2 DEF Counted
  <2>2. Tail(<<Len(e.host)>> \o e.host) = e.host
    BY <1>1, TailOfCons
  <2>3. <<Len(e.host)>> \in Seq(Octet)
    BY <1>1
  <2>4. <<Len(e.host)>> \o e.host \in Seq(Octet)
    BY <1>1, <2>3, ConcatProperties
  <2> QED
    BY <1>2, <2>1, <2>2, <2>4 DEF Host, ParseAddress
<1>3. CASE e.kind # ATYPDomain
  <2>1. Counted(e.kind, e.host) = e.host
    BY <1>3 DEF Counted
  <2>2. <<>> \o e.host = e.host
    BY <1>1, ConcatEmptySeq
  <2> QED
    BY <1>1, <1>3, <2>1, <2>2 DEF Host, ParseAddress
<1> QED
  BY <1>2, <1>3

\* Four octets are three and one more.
LEMMA ThreeAndOne ==
  ASSUME NEW a, NEW b, NEW c, NEW d
  PROVE  <<a, b, c>> \o <<d>> = <<a, b, c, d>>
<1> DEFINE S == {a, b, c, d}
<1>1. <<a, b, c>> \in Seq(S) /\ <<d>> \in Seq(S) /\ <<a, b, c, d>> \in Seq(S)
  OBVIOUS
<1>2. Len(<<a, b, c>>) = 3 /\ Len(<<d>>) = 1 /\ Len(<<a, b, c, d>>) = 4
  OBVIOUS
<1>3. /\ Len(<<a, b, c>> \o <<d>>) = 4 /\ <<a, b, c>> \o <<d>> \in Seq(S)
      /\ \A i \in 1 .. 4 : (<<a, b, c>> \o <<d>>)[i]
                             = IF i <= 3 THEN <<a, b, c>>[i] ELSE <<d>>[i - 3]
  BY <1>1, <1>2, ConcatProperties
<1>4. \A i \in 1 .. 4 : (<<a, b, c>> \o <<d>>)[i] = <<a, b, c, d>>[i]
  <2>1. TAKE i \in 1 .. 4
  <2>2. i = 1 \/ i = 2 \/ i = 3 \/ i = 4
    OBVIOUS
  <2> QED
    BY <1>3, <2>2
<1> QED
  BY <1>1, <1>2, <1>3, <1>4, SeqEqual

\* A head of three octets, the kind, the counted host and the port: three octets
\* and the address on the wire.
LEMMA WireForm ==
  ASSUME NEW e \in Endpoint \cup {Local},
         NEW a \in Octet, NEW b \in Octet, NEW c \in Octet
  PROVE  /\ <<a, b, c, e.kind>> \o Counted(e.kind, e.host) \o Uint16(Atoi(e))
              = <<a, b, c>> \o Wire(e)
         /\ <<a, b, c>> \o Wire(e) \in Seq(Octet)
<1> DEFINE O == IF e.kind = ATYPDomain THEN <<Len(e.host)>> ELSE <<>>
           C == Counted(e.kind, e.host)
           P == Uint16(Atoi(e))
           K == <<e.kind>>
           A == <<a, b, c>>
<1>1. e.host \in Seq(Octet) /\ e.kind \in Octet /\ Len(e.host) \in Octet
      /\ P = <<PortRead(e) \div 256, PortRead(e) % 256>> /\ P \in Seq(Octet)
  BY EndpointOK
<1>2. O \in Seq(Octet) /\ K \in Seq(Octet) /\ A \in Seq(Octet)
  BY <1>1
<1>3. C = O \o e.host /\ C \in Seq(Octet)
  BY CountedOnce
<1>4. Wire(e) = ((K \o O) \o e.host) \o P
  BY <1>1 DEF Wire
<1>5. <<a, b, c, e.kind>> = A \o K
  BY ThreeAndOne
<1> HIDE DEF O, C, P, K, A
<1>6. /\ A \o (((K \o O) \o e.host) \o P) = ((A \o K) \o (O \o e.host)) \o P
      /\ A \o (((K \o O) \o e.host) \o P) \in Seq(Octet)
  <2> DEFINE h == e.host
  <2>1. h \in Seq(Octet) /\ P \in Seq(Octet)
    BY <1>1
  <2> HIDE DEF h
  <2>2. /\ A \o (((K \o O) \o h) \o P) = ((A \o K) \o (O \o h)) \o P
        /\ A \o (((K \o O) \o h) \o P) \in Seq(Octet)
    BY <1>2, <2>1, Regroup
  <2> QED
    BY <2>2 DEF h
<1>7. <<a, b, c, e.kind>> \o C \o P = A \o Wire(e) /\ A \o Wire(e) \in Seq(Octet)
  <2>1. (A \o K) \o (O \o e.host) = <<a, b, c, e.kind>> \o C
    BY <1>3, <1>5
  <2>2. A \o (((K \o O) \o e.host) \o P) = A \o Wire(e)
    BY <1>4
  <2> QED
    BY <1>6, <2>1, <2>2
<1> QED
  BY <1>7, Zenon DEF C, P, A

\* The request and the datagram for an address carry that address, whatever the
\* kind (NewRequest, NewDatagram).
LEMMA RequestForm ==
  ASSUME NEW e \in Endpoint \cup {Local}, NEW cmd \in Octet
  PROVE  /\ NewRequest(cmd, ParseAddress(e)) = <<Ver, cmd, 0>> \o Wire(e)
         /\ <<Ver, cmd, 0>> \o Wire(e) \in Seq(Octet)
<1>1. Ver \in Octet /\ 0 \in Octet
  BY OctetMember DEF Ver
<1>2. NewRequest(cmd, ParseAddress(e))
        = <<Ver, cmd, 0, e.kind>> \o Counted(e.kind, e.host) \o Uint16(Atoi(e))
  BY CountedOnce DEF NewRequest, ParseAddress
<1> QED
  BY <1>1, <1>2, WireForm

\* The same for the datagrams Client.Write sends.
THEOREM DatagramForm ==
  ASSUME NEW e \in Endpoint \cup {Local}, NEW data \in Seq(Octet)
  PROVE  NewDatagram(ParseAddress(e), data) = <<0, 0, 0>> \o Wire(e) \o data
<1>1. 0 \in Octet
  BY OctetMember
<1>2. NewDatagram(ParseAddress(e), data)
        = <<0, 0, 0, e.kind>> \o Counted(e.kind, e.host) \o Uint16(Atoi(e)) \o data
  BY CountedOnce DEF NewDatagram, ParseAddress
<1> QED
  BY <1>1, <1>2, WireForm

-------------------------------------------------------------------------------
(* What a session sends *)

Negotiation == <<Ver, 1, Method>>
Asked == IF dial.network = "tcp" THEN <<Ver, CmdConnect, 0>> \o Wire(dial.dst)
                                 ELSE <<Ver, CmdUDP, 0>> \o Wire(Local)
Opening == Negotiation \o Asked

\* How much has been sent is known from how far Dial is; where it failed, one of
\* the three amounts.  The app writes only once Dial has returned.
SentAt ==
  /\ pc \in {"dial", "greet"} => sent = <<>>
  /\ pc \in {"method", "request"} => sent = Negotiation
  /\ pc \in ReplyField \cup {"associate", "ready", "closed"} => sent = Opening \o put
  /\ pc = "failed" => sent \in {<<>>, Negotiation, Opening \o put}

IInv ==
  /\ dial \in Dials
  /\ put \in Seq(Octet)
  /\ pc \in {"dial", "greet", "method", "request", "associate"} \cup ReplyField
             \cup Returned
  /\ pc \notin {"ready", "closed"} => put = <<>>
  /\ SentAt

LEMMA OpeningOK ==
  ASSUME dial \in Dials
  PROVE  Negotiation \in Seq(Octet) /\ Asked \in Seq(Octet) /\ Opening \in Seq(Octet)
<1>1. Ver \in Octet /\ 1 \in Octet /\ Method \in Octet
      /\ CmdConnect \in Octet /\ CmdUDP \in Octet
  BY OctetMember
     DEF Ver, Method, MethodNone, MethodUsernamePassword, CmdConnect, CmdUDP
<1>2. Negotiation \in Seq(Octet)
  BY <1>1 DEF Negotiation
<1>3. dial.dst \in Endpoint
  BY DEF Dials
<1>4. Asked \in Seq(Octet)
  BY <1>1, <1>3, RequestForm DEF Asked
<1> QED
  BY <1>2, <1>4, Joined DEF Opening

\* The arguments of a Dial do not change.
LEMMA SameDial ==
  ASSUME dial' = dial
  PROVE  Negotiation' = Negotiation /\ Opening' = Opening
BY DEF Negotiation, Opening, Asked, Method

LEMMA InitIInv == Init => IInv
<1> SUFFICES ASSUME Init PROVE IInv
  OBVIOUS
<1>1. <<>> \in Seq(Octet)
  OBVIOUS
<1> QED
  BY <1>1 DEF Init, IInv, SentAt, ReplyField, Returned

\* A step that sends nothing and leaves Dial where it is.
LEMMA Silent == IInv /\ UNCHANGED <<dial, pc, sent, put>> => IInv'
<1> SUFFICES ASSUME IInv, UNCHANGED <<dial, pc, sent, put>> PROVE IInv'
  OBVIOUS
<1>1. Negotiation' = Negotiation /\ Opening' = Opening
  BY SameDial
<1> QED
  BY <1>1 DEF IInv, SentAt

\* A step that sends nothing and takes Dial on: the amount fits the new place.
LEMMA Advance ==
  ASSUME IInv, UNCHANGED <<dial, sent, put>>, pc \notin {"ready", "closed"},
         \/ pc' = "failed"
         \/ pc = "dial" /\ pc' = "greet"
         \/ pc = "method" /\ pc' = "request"
         \/ pc \in ReplyField \cup {"associate"}
            /\ pc' \in ReplyField \cup {"associate", "ready"}
  PROVE  IInv'
<1>1. Negotiation' = Negotiation /\ Opening' = Opening
  BY SameDial
<1>2. put = <<>> /\ put' = <<>>
  BY DEF IInv
<1>3. pc' \in {"failed", "greet", "request", "associate", "ready"} \cup ReplyField
  OBVIOUS
<1>4. SentAt'
  BY <1>1 DEF IInv, SentAt, ReplyField, Returned
<1> QED
  BY <1>2, <1>3, <1>4 DEF IInv, ReplyField, Returned

LEMMA DialIInv == IInv /\ Dial => IInv'
<1> SUFFICES ASSUME IInv, Dial PROVE IInv'
  OBVIOUS
<1>1. CASE Unsupported
  BY <1>1, Advance DEF Unsupported, Fail, Quiet, app
<1>2. CASE Connect \/ ConnectFails
  BY <1>2, Advance DEF Connect, ConnectFails, Fail, Quiet, app
<1>3. CASE NegotiationRequest
  <2>1. /\ pc = "greet" /\ pc' = "method" /\ sent' = sent \o <<Ver, 1, Method>>
        /\ dial' = dial /\ put' = put
    BY <1>3 DEF NegotiationRequest, WriteThen, Quiet, app
  <2>2. sent = <<>> /\ put = <<>>
    BY <2>1 DEF IInv, SentAt
  <2>3. sent' = Negotiation
    BY <2>1, <2>2, OpeningOK, ConcatEmptySeq DEF IInv, Negotiation
  <2> QED
    BY <2>1, <2>2, <2>3, SameDial DEF IInv, SentAt, ReplyField
<1>4. CASE NegotiationReply
  BY <1>4, Advance DEF NegotiationReply, Quiet, app
<1>5. CASE ParseAddressFails
  BY <1>5, Advance DEF ParseAddressFails, Fail, Quiet, app
<1>6. CASE Request
  <2>1. /\ pc = "request" /\ pc' = "head" /\ dial' = dial /\ put' = put
        /\ sent' = sent \o (IF dial.network = "tcp"
                            THEN NewRequest(CmdConnect, ParseAddress(dial.dst))
                            ELSE NewRequest(CmdUDP, ParseAddress(Local)))
    BY <1>6 DEF Request, WriteThen, Quiet, app
  <2>2. sent = Negotiation /\ put = <<>>
    BY <2>1 DEF IInv, SentAt
  <2>3. CmdConnect \in Octet /\ CmdUDP \in Octet /\ dial.dst \in Endpoint
    BY OctetMember DEF IInv, Dials, CmdConnect, CmdUDP
  <2>4. sent' = Opening
    BY <2>1, <2>2, <2>3, RequestForm DEF Opening, Asked
  <2>5. sent' = Opening \o put
    BY <2>2, <2>4, OpeningOK, ConcatEmptySeq DEF IInv
  <2> QED
    BY <2>1, <2>2, <2>5, SameDial DEF IInv, SentAt, ReplyField
<1>7. CASE \E field \in ReplyField : NewReplyFrom(field)
  <2>1. PICK field \in ReplyField : NewReplyFrom(field)
    BY <1>7
  <2>2. /\ pc = field /\ pc' = AfterField(field, reply')
        /\ UNCHANGED <<dial, sent, put>>
    BY <2>1 DEF NewReplyFrom, Quiet, app
  <2>3. AfterField(field, reply')
          \in {"failed", "octet", "address", "port", "ready", "associate"}
    BY DEF AfterField, AfterHead, AfterReply, ReplyField
  <2> QED
    BY <2>2, <2>3, Advance DEF ReplyField
<1>8. CASE IoFails
  BY <1>8, Advance DEF IoFails, Fail, Quiet, app, ReplyField
<1>9. CASE Associate \/ AssociateFails
  BY <1>9, Advance DEF Associate, AssociateFails, Fail, Quiet, app
<1> QED
  BY <1>1, <1>2, <1>3, <1>4, <1>5, <1>6, <1>7, <1>8, <1>9 DEF Dial

LEMMA WriteIInv ==
  ASSUME IInv, NEW data \in Data, Write(data)
  PROVE  IInv'
<1>1. /\ pc = "ready" /\ pc' = pc /\ dial' = dial
      /\ sent' = sent \o data /\ put' = put \o data
  BY DEF Write
<1>2. data \in Seq(Octet) /\ put \in Seq(Octet) /\ Opening \in Seq(Octet)
  BY OctetsAssumption, OpeningOK DEF IInv
<1>3. sent = Opening \o put
  BY <1>1 DEF IInv, SentAt
<1>4. sent' = Opening \o put'
  BY <1>1, <1>2, <1>3, Assoc
<1>5. put' \in Seq(Octet)
  BY <1>1, <1>2, Joined
<1> QED
  BY <1>1, <1>4, <1>5, SameDial DEF IInv, SentAt, ReplyField, Returned

LEMMA CloseIInv == IInv /\ Close => IInv'
<1> SUFFICES ASSUME IInv, Close PROVE IInv'
  OBVIOUS
<1>1. pc = "ready" /\ pc' = "closed" /\ UNCHANGED <<dial, sent, put>>
  BY DEF Close, app
<1> QED
  BY <1>1, SameDial DEF IInv, SentAt, ReplyField, Returned

LEMMA NextIInv == IInv /\ [Next]_vars => IInv'
<1> SUFFICES ASSUME IInv, [Next]_vars PROVE IInv'
  OBVIOUS
<1>1. CASE Dial
  BY <1>1, DialIInv
<1>2. CASE Close
  BY <1>2, CloseIInv
<1>3. CASE \E data \in Data : Write(data)
  BY <1>3, WriteIInv
<1>4. CASE \/ Finalize
           \/ \E size \in Size : Read(size) \/ \E d \in downlink : ReadDatagram(d, size)
           \/ \E data \in Data : WriteDatagram(data)
  BY <1>4, Silent DEF Finalize, Read, ReadDatagram, WriteDatagram, client, app
<1>5. CASE (\E s \in {"tcp", "udp"} : Expire(s)) \/ ServerAnswers \/ ServerReplies
           \/ ServerRelays
  BY <1>5, Silent
     DEF Expire, ServerAnswers, ServerReplies, ServerRelays, Sends, client, app
<1>6. CASE ServerEnds \/ Arrive \/ RelaysDatagram
  BY <1>6, Silent DEF ServerEnds, Arrive, RelaysDatagram, client, app
<1>7. CASE UNCHANGED vars
  BY <1>7, Silent DEF vars, client, app
<1> QED
  BY <1>1, <1>2, <1>3, <1>4, <1>5, <1>6, <1>7 DEF Next

\* At any time the server has been sent nothing, the negotiation, or that and one
\* request for the very target and then the app's bytes, for every kind of
\* address and whatever servers answer (Request, Client.Write).
THEOREM TargetIsNamed == Spec => []RequestNamesTarget
<1>1. IInv => RequestNamesTarget
  <2> SUFFICES ASSUME IInv, Len(sent) > 3 PROVE sent = Opening \o put
    BY DEF RequestNamesTarget, Opening, Negotiation, Asked
  <2>1. Len(<<>>) = 0 /\ Len(Negotiation) = 3
    BY DEF Negotiation
  <2>2. ~(0 > 3) /\ ~(3 > 3)
    OBVIOUS
  <2>3. sent # <<>> /\ sent # Negotiation
    BY <2>1, <2>2, Zenon
  <2> QED
    BY <2>3 DEF IInv, SentAt, ReplyField, Returned
<1> QED
  BY <1>1, InitIInv, NextIInv, PTL DEF Spec

-------------------------------------------------------------------------------
(* What a session reads, and the types *)

\* What Dial has of the reply: each field is as long as those before it say.
ReplyAt ==
  /\ pc \in {"dial", "greet", "method", "request", "head"} => reply = <<>>
  /\ pc \in {"octet", "address", "port"} => reply[1] = Ver
  /\ pc = "octet" => Len(reply) = 4 /\ reply[4] = ATYPDomain
  /\ pc = "address" =>
       \/ Len(reply) = 4 /\ reply[4] \in {ATYPIPv4, ATYPIPv6}
       \/ Len(reply) = 5 /\ reply[4] = ATYPDomain /\ reply[5] # 0
  /\ pc = "port" => AddrSpan(reply) # 0 /\ Len(reply) = 4 + AddrSpan(reply)
  /\ pc \in {"associate", "ready", "closed"} =>
       /\ reply[1] = Ver /\ reply[2] = RepSuccess
       /\ AddrSpan(reply) # 0 /\ Len(reply) = 6 + AddrSpan(reply)

\* The counters of the stream, and what is kept of it.
Bytes ==
  /\ stream \in Seq(Octet) /\ reply \in Seq(Octet) /\ got \in Seq(Octet)
  /\ pos \in Nat /\ arrived \in Nat /\ granted \in Nat
  /\ pos <= arrived /\ arrived <= Len(stream) /\ granted <= Len(stream)

\* The sockets, their deadlines, and the server.
Sockets ==
  /\ tcp \in {"none", "open", "closed"} /\ udp \in {"none", "open", "closed"}
  /\ late \subseteq armed /\ armed \subseteq dial.timed
  /\ pc = "dial" => armed = {}
  /\ server \in {"greeting", "requests", "relays", "done"}
  /\ ended \in {"no", "eof", "error"}

LEMMA UpcomingOK ==
  ASSUME Bytes, NEW n \in Nat, CanRead(n)
  PROVE  /\ Upcoming(n) \in Seq(Octet) /\ Len(Upcoming(n)) = n
         /\ \A k \in 1 .. n : Upcoming(n)[k] = stream[pos + k]
         /\ pos + n \in Nat /\ pos + n <= arrived /\ pos + n <= Len(stream)
<1>1. /\ stream \in Seq(Octet) /\ Len(stream) \in Nat
      /\ pos \in Nat /\ arrived \in Nat /\ arrived <= Len(stream)
      /\ pos + n <= arrived
  BY LenProperties DEF Bytes, CanRead, Unread
<1>2. \A i \in pos + 1 .. pos + n : stream[i] \in Octet
  <2>1. TAKE i \in pos + 1 .. pos + n
  <2>2. i \in 1 .. Len(stream)
    BY <1>1
  <2> QED
    BY <1>1, <2>2, ElementOfSeq
<1>3. pos + 1 \in Int /\ pos + n \in Int
  BY <1>1
<1> DEFINE u == SubSeq(stream, pos + 1, pos + n)
<1>4. /\ u \in Seq(Octet)
      /\ Len(u) = IF pos + 1 <= pos + n THEN (pos + n) - (pos + 1) + 1 ELSE 0
      /\ \A k \in 1 .. (pos + n) - (pos + 1) + 1 : u[k] = stream[(pos + 1) + k - 1]
  BY <1>2, <1>3, SubSeqProperties
<1> HIDE DEF u
<1>5. Len(u) = n /\ \A k \in 1 .. n : u[k] = stream[pos + k]
  BY <1>1, <1>4
<1>6. Upcoming(n) = u
  BY DEF u, Upcoming
<1> QED
  BY <1>1, <1>4, <1>5, <1>6

LEMMA OctetIsNat == \A n \in Octet : n \in Nat
BY DEF Octet

\* How much each io.ReadFull asks for, and that it asks for something.
LEMMA FieldLenOK ==
  ASSUME Bytes, ReplyAt, pc \in ReplyField
  PROVE  FieldLen(pc) \in Nat \ {0}
<1>1. CASE pc \in {"head", "octet", "port"}
  BY <1>1 DEF FieldLen
<1>2. CASE pc = "address"
  <2>1. \/ reply[4] \in {ATYPIPv4, ATYPIPv6}
        \/ reply[4] = ATYPDomain /\ reply[5] # 0 /\ Len(reply) = 5
    BY <1>2 DEF ReplyAt
  <2>2. ASSUME Len(reply) = 5 PROVE reply[5] \in Octet
    <3>1. 5 \in 1 .. Len(reply)
      BY <2>2
    <3> QED
      BY <3>1, ElementOfSeq DEF Bytes
  <2> QED
    BY <1>2, <2>1, <2>2, OctetIsNat
       DEF FieldLen, ATYPIPv4, ATYPIPv6, ATYPDomain
<1> QED
  BY <1>1, <1>2 DEF ReplyField

\* One io.ReadFull of the reply.
LEMMA FieldRead ==
  ASSUME Bytes, ReplyAt, NEW field \in ReplyField, NewReplyFrom(field)
  PROVE  LET n == FieldLen(field) IN
         /\ n \in Nat \ {0} /\ pos' = pos + n /\ pos' \in Nat /\ pos' <= arrived
         /\ pos' <= Len(stream)
         /\ reply' \in Seq(Octet) /\ Len(reply') = Len(reply) + n
         /\ \A k \in 1 .. Len(reply) : reply'[k] = reply[k]
         /\ \A k \in 1 .. n : reply'[Len(reply) + k] = stream[pos + k]
<1> DEFINE n == FieldLen(field)
           u == Upcoming(n)
<1>1. /\ pc = field /\ CanRead(n) /\ pos' = pos + n /\ reply' = reply \o u
  BY DEF NewReplyFrom
<1>2. n \in Nat \ {0}
  BY <1>1, FieldLenOK
<1> HIDE DEF n
<1>3. /\ u \in Seq(Octet) /\ Len(u) = n
      /\ \A k \in 1 .. n : u[k] = stream[pos + k]
      /\ pos + n \in Nat /\ pos + n <= arrived /\ pos + n <= Len(stream)
  BY <1>1, <1>2, UpcomingOK
<1> HIDE DEF u
<1>4. reply \in Seq(Octet) /\ Len(reply) \in Nat
  BY LenProperties DEF Bytes
<1>5. /\ reply \o u \in Seq(Octet) /\ Len(reply \o u) = Len(reply) + n
      /\ \A i \in 1 .. Len(reply) + n :
           (reply \o u)[i] = IF i <= Len(reply) THEN reply[i] ELSE u[i - Len(reply)]
  BY <1>3, <1>4, ConcatProperties
<1>6. \A k \in 1 .. Len(reply) : (reply \o u)[k] = reply[k]
  BY <1>2, <1>4, <1>5
<1>7. \A k \in 1 .. n : (reply \o u)[Len(reply) + k] = stream[pos + k]
  <2>1. TAKE k \in 1 .. n
  <2>2. /\ Len(reply) + k \in 1 .. Len(reply) + n
        /\ ~(Len(reply) + k <= Len(reply)) /\ (Len(reply) + k) - Len(reply) = k
    BY <1>2, <1>4
  <2> QED
    BY <1>3, <1>5, <2>2
<1> QED
  BY <1>1, <1>2, <1>3, <1>5, <1>6, <1>7 DEF n

LEMMA ReplyAtRead ==
  ASSUME Bytes, ReplyAt, NEW field \in ReplyField, NewReplyFrom(field)
  PROVE  ReplyAt'
<1> DEFINE n == FieldLen(field)
<1>1. /\ n \in Nat \ {0} /\ reply' \in Seq(Octet) /\ Len(reply') = Len(reply) + n
      /\ \A k \in 1 .. Len(reply) : reply'[k] = reply[k]
  BY FieldRead
<1>2. pc = field /\ pc' = AfterField(field, reply')
  BY DEF NewReplyFrom
<1>3. /\ pc' = "failed" \/ pc' \in {"octet", "address", "port", "associate", "ready"}
  BY <1>2 DEF AfterField, AfterHead, AfterReply, ReplyField
<1>4. CASE field = "head"
  <2>1. Len(reply') = 4
    <3>1. reply = <<>> /\ n = 4
      BY <1>2, <1>4 DEF ReplyAt, FieldLen
    <3>2. Len(<<>>) = 0
      OBVIOUS
    <3> QED
      BY <1>1, <3>1, <3>2
  <2>2. \/ pc' = "failed"
        \/ pc' = "octet" /\ reply'[1] = Ver /\ reply'[4] = ATYPDomain
        \/ pc' = "address" /\ reply'[1] = Ver /\ reply'[4] \in {ATYPIPv4, ATYPIPv6}
    BY <1>2, <1>4 DEF AfterField, AfterHead, ATYPDomain, ATYPIPv4, ATYPIPv6
  <2> QED
    BY <2>1, <2>2 DEF ReplyAt
<1>5. CASE field = "octet"
  <2>1. Len(reply) = 4 /\ reply[4] = ATYPDomain /\ reply[1] = Ver
    BY <1>2, <1>5 DEF ReplyAt
  <2>2. Len(reply') = 5
    BY <1>1, <1>5, <2>1 DEF FieldLen
  <2>3. reply'[4] = ATYPDomain /\ reply'[1] = Ver
    BY <1>1, <2>1
  <2>4. \/ pc' = "failed"
        \/ pc' = "address" /\ reply'[5] # 0
    BY <1>2, <1>5 DEF AfterField
  <2> QED
    BY <2>2, <2>3, <2>4 DEF ReplyAt
<1>6. CASE field = "address"
  <2>1. /\ reply[1] = Ver
        /\ \/ Len(reply) = 4 /\ reply[4] \in {ATYPIPv4, ATYPIPv6}
           \/ Len(reply) = 5 /\ reply[4] = ATYPDomain /\ reply[5] # 0
    BY <1>2, <1>6 DEF ReplyAt
  <2>2. reply'[1] = Ver /\ reply'[4] = reply[4] /\ (Len(reply) = 5 => reply'[5] = reply[5])
    BY <1>1, <2>1
  <2>3. pc' = "port"
    BY <1>2, <1>6 DEF AfterField
  <2>4. AddrSpan(reply') # 0 /\ Len(reply') = 4 + AddrSpan(reply')
    <3>1. CASE Len(reply) = 4 /\ reply[4] \in {ATYPIPv4, ATYPIPv6}
      BY <1>1, <1>6, <2>2, <3>1 DEF AddrSpan, FieldLen, ATYPIPv4, ATYPIPv6, ATYPDomain
    <3>2. CASE Len(reply) = 5 /\ reply[4] = ATYPDomain /\ reply[5] # 0
      <4>1. n = reply[5] /\ reply[5] \in Nat
        BY <1>1, <1>6, <3>2 DEF FieldLen, ATYPIPv4, ATYPIPv6, ATYPDomain
      <4>2. Len(reply') = 5 + reply[5]
        BY <1>1, <3>2, <4>1
      <4>3. AddrSpan(reply') = 1 + reply[5]
        BY <2>2, <3>2, <4>1, <4>2 DEF AddrSpan, ATYPIPv4, ATYPIPv6, ATYPDomain
      <4> QED
        BY <4>1, <4>2, <4>3
    <3> QED
      BY <2>1, <3>1, <3>2
  <2> QED
    BY <2>2, <2>3, <2>4 DEF ReplyAt
<1>7. CASE field = "port"
  <2>1. reply[1] = Ver /\ AddrSpan(reply) # 0 /\ Len(reply) = 4 + AddrSpan(reply)
    BY <1>2, <1>7 DEF ReplyAt
  <2>2. Len(reply) \in Nat /\ Len(reply') = Len(reply) + 2
    BY <1>1, <1>7, LenProperties DEF Bytes, FieldLen
  <2>3. AddrSpan(reply) \in {4, 16} \/ AddrSpan(reply) = 1 + reply[5]
    BY <2>1 DEF AddrSpan
  <2>4. AddrSpan(reply) \in Nat
    <3>1. Len(reply) > 4 => reply[5] \in Nat
      <4>1. ASSUME Len(reply) > 4 PROVE reply[5] \in Octet
        <5>1. 5 \in 1 .. Len(reply)
          BY <2>2, <4>1
        <5> QED
          BY <5>1, ElementOfSeq DEF Bytes
      <4> QED
        BY <4>1, OctetIsNat
    <3> QED
      BY <2>1, <2>3, <3>1 DEF AddrSpan
  <2>5. Len(reply) > 4
    BY <2>1, <2>4
  <2>6. reply'[1] = Ver /\ reply'[4] = reply[4] /\ reply'[5] = reply[5]
    BY <1>1, <2>1, <2>2, <2>5
  <2>7. AddrSpan(reply') = AddrSpan(reply)
    BY <2>2, <2>5, <2>6 DEF AddrSpan
  <2>8. \/ pc' = "failed"
        \/ pc' \in {"associate", "ready"} /\ reply'[2] = RepSuccess
    BY <1>2, <1>7 DEF AfterField, AfterReply
  <2> QED
    BY <2>1, <2>2, <2>4, <2>6, <2>7, <2>8 DEF ReplyAt
<1> QED
  BY <1>4, <1>5, <1>6, <1>7 DEF ReplyField

ReadInv == IInv /\ Bytes /\ Sockets /\ ReplyAt

LEMMA InitReadInv == Init => ReadInv
<1> SUFFICES ASSUME Init PROVE ReadInv
  OBVIOUS
<1>1. <<>> \in Seq(Octet) /\ Len(<<>>) = 0
  OBVIOUS
<1>2. Bytes
  BY <1>1 DEF Init, Bytes
<1>3. Sockets
  BY DEF Init, Sockets
<1>4. ReplyAt
  BY DEF Init, ReplyAt
<1> QED
  BY <1>2, <1>3, <1>4, InitIInv DEF ReadInv

\* A step that neither reads nor writes, and takes Dial to a place with the same
\* part of the reply.
LEMMA SameReply ==
  ASSUME ReplyAt, reply' = reply,
         \/ pc' = pc \/ pc' = "failed"
         \/ pc \in {"dial", "greet", "method", "request"}
            /\ pc' \in {"greet", "method", "request", "head"}
         \/ pc \in {"associate", "ready"} /\ pc' \in {"ready", "closed"}
  PROVE  ReplyAt'
BY DEF ReplyAt

LEMMA DialReadInv == ReadInv /\ Dial => Bytes' /\ Sockets' /\ ReplyAt'
<1> SUFFICES ASSUME ReadInv, Dial PROVE Bytes' /\ Sockets' /\ ReplyAt'
  OBVIOUS
<1>a. Bytes /\ Sockets /\ ReplyAt
  BY DEF ReadInv
<1>1. CASE Unsupported \/ ConnectFails \/ ParseAddressFails \/ IoFails \/ AssociateFails
  <2>1. pc' = "failed" /\ UNCHANGED <<tcp, udp, armed, sent, pos, reply>> /\ Quiet
    BY <1>1
       DEF Unsupported, ConnectFails, ParseAddressFails, IoFails, AssociateFails, Fail
  <2> QED
    BY <1>a, <2>1, SameReply DEF Bytes, Sockets, Quiet, peer, app
<1>2. CASE Connect
  <2>1. /\ pc = "dial" /\ pc' = "greet" /\ tcp' = "open"
        /\ armed' = dial.timed \cap {"tcp"} /\ UNCHANGED <<udp, sent, pos, reply>> /\ Quiet
    BY <1>2 DEF Connect
  <2>2. ReplyAt'
    BY <1>a, <2>1, SameReply
  <2>3. Bytes'
    BY <1>a, <2>1 DEF Bytes, Quiet, peer, app
  <2>4. late = {}
    BY <2>1 DEF ReadInv, Sockets
  <2> QED
    BY <1>a, <2>1, <2>2, <2>3, <2>4 DEF Sockets, Quiet, peer, app
<1>3. CASE NegotiationRequest \/ Request
  <2>1. /\ pc \in {"greet", "request"} /\ pc' \in {"method", "head"}
        /\ UNCHANGED <<tcp, udp, armed, pos, reply>> /\ Quiet
    BY <1>3 DEF NegotiationRequest, Request, WriteThen
  <2> QED
    BY <1>a, <2>1, SameReply DEF Bytes, Sockets, Quiet, peer, app
<1>4. CASE NegotiationReply
  <2>1. /\ pc = "method" /\ CanRead(2) /\ pos' = pos + 2
        /\ pc' \in {"request", "failed"}
        /\ UNCHANGED <<tcp, udp, armed, sent, reply>> /\ Quiet
    BY <1>4 DEF NegotiationReply
  <2>2. pos + 2 \in Nat /\ pos + 2 <= arrived
    BY <1>a, <2>1, UpcomingOK
  <2> QED
    BY <1>a, <2>1, <2>2, SameReply DEF Bytes, Sockets, Quiet, peer, app
<1>5. CASE \E field \in ReplyField : NewReplyFrom(field)
  <2>1. PICK field \in ReplyField : NewReplyFrom(field)
    BY <1>5
  <2>2. UNCHANGED <<tcp, udp, armed, sent>> /\ Quiet
    BY <2>1 DEF NewReplyFrom
  <2>3. pos' \in Nat /\ pos' <= arrived /\ reply' \in Seq(Octet)
    BY <1>a, <2>1, FieldRead
  <2>4. ReplyAt'
    BY <1>a, <2>1, ReplyAtRead
  <2>5. pc' # "dial"
    BY <2>1 DEF NewReplyFrom, AfterField, AfterHead, AfterReply, ReplyField
  <2> QED
    BY <1>a, <2>2, <2>3, <2>4, <2>5 DEF Bytes, Sockets, Quiet, peer, app
<1>6. CASE Associate
  <2>1. /\ pc = "associate" /\ pc' = "ready" /\ udp' = "open"
        /\ armed' = armed \cup (dial.timed \cap {"udp"})
        /\ UNCHANGED <<tcp, sent, pos, reply>> /\ Quiet
    BY <1>6 DEF Associate
  <2> QED
    BY <1>a, <2>1, SameReply DEF Bytes, Sockets, Quiet, peer, app
<1> QED
  BY <1>1, <1>2, <1>3, <1>4, <1>5, <1>6 DEF Dial

\* How Client.Read leaves the stream.
LEMMA ReadBytes ==
  ASSUME Bytes, NEW size \in Size, Read(size)
  PROVE  \E n \in Nat \ {0} :
           /\ pos' = pos + n /\ pos' <= arrived /\ pos' <= Len(stream)
           /\ got' \in Seq(Octet) /\ Len(got') = Len(got) + n
           /\ \A k \in 1 .. Len(got) : got'[k] = got[k]
           /\ \A k \in 1 .. n : got'[Len(got) + k] = stream[pos + k]
<1> DEFINE n == Smaller(size, Unread)
           u == Upcoming(n)
<1>1. n > 0 /\ CanRead(n) /\ pos' = pos + n /\ got' = got \o u
  BY DEF Read
<1>2. n \in Nat \ {0}
  <2>1. size \in Nat /\ Unread \in Nat
    BY BoundAssumption DEF Bytes, Unread
  <2> QED
    BY <1>1, <2>1 DEF Smaller
<1> HIDE DEF n
<1>3. /\ u \in Seq(Octet) /\ Len(u) = n
      /\ \A k \in 1 .. n : u[k] = stream[pos + k]
      /\ pos + n \in Nat /\ pos + n <= arrived /\ pos + n <= Len(stream)
  BY <1>1, <1>2, UpcomingOK
<1> HIDE DEF u
<1>4. got \in Seq(Octet) /\ Len(got) \in Nat
  BY LenProperties DEF Bytes
<1>5. /\ got \o u \in Seq(Octet) /\ Len(got \o u) = Len(got) + n
      /\ \A i \in 1 .. Len(got) + n :
           (got \o u)[i] = IF i <= Len(got) THEN got[i] ELSE u[i - Len(got)]
  BY <1>3, <1>4, ConcatProperties
<1>6. \A k \in 1 .. Len(got) : (got \o u)[k] = got[k]
  BY <1>2, <1>4, <1>5
<1>7. \A k \in 1 .. n : (got \o u)[Len(got) + k] = stream[pos + k]
  <2>1. TAKE k \in 1 .. n
  <2>2. /\ Len(got) + k \in 1 .. Len(got) + n
        /\ ~(Len(got) + k <= Len(got)) /\ (Len(got) + k) - Len(got) = k
    BY <1>2, <1>4
  <2> QED
    BY <1>3, <1>5, <2>2
<1> QED
  BY <1>1, <1>2, <1>3, <1>5, <1>6, <1>7

\* What the server writes is added to the stream.
LEMMA SendsBytes ==
  ASSUME Bytes, NEW bytes \in Seq(Octet), Sends(bytes)
  PROVE  /\ stream' \in Seq(Octet) /\ Len(stream') = Len(stream) + Len(bytes)
         /\ Len(stream) \in Nat /\ Len(bytes) \in Nat
         /\ \A k \in 1 .. Len(stream) : stream'[k] = stream[k]
         /\ \A k \in 1 .. Len(bytes) : stream'[Len(stream) + k] = bytes[k]
<1>1. stream' = stream \o bytes /\ stream \in Seq(Octet)
  BY DEF Sends, Bytes
<1>2. Len(stream) \in Nat /\ Len(bytes) \in Nat
  BY <1>1, LenProperties
<1>3. /\ stream \o bytes \in Seq(Octet)
      /\ Len(stream \o bytes) = Len(stream) + Len(bytes)
      /\ \A i \in 1 .. Len(stream) + Len(bytes) :
           (stream \o bytes)[i] = IF i <= Len(stream) THEN stream[i]
                                                      ELSE bytes[i - Len(stream)]
  BY <1>1, ConcatProperties
<1>4. \A k \in 1 .. Len(stream) : (stream \o bytes)[k] = stream[k]
  BY <1>2, <1>3
<1>5. \A k \in 1 .. Len(bytes) : (stream \o bytes)[Len(stream) + k] = bytes[k]
  <2>1. TAKE k \in 1 .. Len(bytes)
  <2>2. /\ Len(stream) + k \in 1 .. Len(stream) + Len(bytes)
        /\ ~(Len(stream) + k <= Len(stream)) /\ (Len(stream) + k) - Len(stream) = k
    BY <1>2
  <2> QED
    BY <1>3, <2>2
<1> QED
  BY <1>1, <1>2, <1>3, <1>4, <1>5

\* The bytes of the target are octets.
LEMMA RelaysOctet ==
  ASSUME Bytes, ServerRelays
  PROVE  <<100 + Len(stream) - granted>> \in Seq(Octet)
<1>1. /\ Len(stream) - granted < MaxBytes /\ MaxBytes \in 0 .. 156
      /\ Len(stream) \in Nat /\ granted \in Nat /\ granted <= Len(stream)
  BY BoundAssumption, LenProperties DEF ServerRelays, Bytes
<1>2. 100 + Len(stream) - granted <= 255 /\ 100 + Len(stream) - granted \in Nat
  BY <1>1
<1>3. 100 + Len(stream) - granted \in Octet
  BY <1>2, OctetMember
<1> QED
  BY <1>3

LEMMA ServerReadInv ==
  ReadInv /\ (ServerAnswers \/ ServerReplies \/ ServerRelays)
    => Bytes' /\ Sockets' /\ ReplyAt'
<1> SUFFICES ASSUME ReadInv, ServerAnswers \/ ServerReplies \/ ServerRelays
             PROVE  Bytes' /\ Sockets' /\ ReplyAt'
  OBVIOUS
<1>a. Bytes /\ Sockets /\ ReplyAt
  BY DEF ReadInv
<1>1. PICK bytes \in Seq(Octet) :
        /\ Sends(bytes) /\ (granted' = granted \/ granted' = Len(stream'))
        /\ server' \in {"requests", "relays", "done"}
  <2>1. CASE ServerAnswers
    BY <2>1, OctetsAssumption DEF ServerAnswers
  <2>2. CASE ServerReplies
    BY <2>2, OctetsAssumption DEF ServerReplies
  <2>3. CASE ServerRelays
    BY <1>a, <2>3, RelaysOctet DEF ServerRelays
  <2> QED
    BY <2>1, <2>2, <2>3
<1>2. /\ stream' \in Seq(Octet) /\ Len(stream') = Len(stream) + Len(bytes)
      /\ Len(stream) \in Nat /\ Len(bytes) \in Nat
  BY <1>a, <1>1, SendsBytes
<1>3. UNCHANGED <<dial, late, client, arrived, ended, downlink, app>>
  BY <1>1 DEF Sends
<1>4. ReplyAt'
  BY <1>a, <1>3, SameReply DEF client
<1>5. Bytes'
  BY <1>a, <1>1, <1>2, <1>3 DEF Bytes, client, app
<1> QED
  BY <1>a, <1>1, <1>3, <1>4, <1>5 DEF Sockets, client

LEMMA NextReadInv == ReadInv /\ [Next]_vars => ReadInv'
<1> SUFFICES ASSUME ReadInv, [Next]_vars PROVE ReadInv'
  OBVIOUS
<1>a. Bytes /\ Sockets /\ ReplyAt
  BY DEF ReadInv
<1>b. SUFFICES Bytes' /\ Sockets' /\ ReplyAt'
  BY NextIInv DEF ReadInv
<1>1. CASE Dial
  BY <1>1, DialReadInv
<1>2. CASE \E size \in Size : Read(size)
  <2>1. PICK size \in Size : Read(size)
    BY <1>2
  <2>2. PICK n \in Nat \ {0} :
          pos' = pos + n /\ pos' <= arrived /\ got' \in Seq(Octet)
    BY <1>a, <2>1, ReadBytes
  <2>3. UNCHANGED <<dial, late, pc, tcp, udp, armed, sent, reply, peer, put>>
    BY <2>1 DEF Read
  <2> QED
    BY <1>a, <2>2, <2>3, SameReply DEF Bytes, Sockets, peer
<1>3. CASE ServerAnswers \/ ServerReplies \/ ServerRelays
  BY <1>3, ServerReadInv
<1>4. CASE \E data \in Data : Write(data) \/ WriteDatagram(data)
  <2>1. /\ UNCHANGED <<dial, late, pc, tcp, udp, armed, pos, reply, peer, got>>
    BY <1>4 DEF Write, WriteDatagram, client
  <2> QED
    BY <1>a, <2>1, SameReply DEF Bytes, Sockets, peer
<1>5. CASE Close \/ Finalize
  <2>1. /\ pc' = pc \/ (pc = "ready" /\ pc' = "closed")
        /\ tcp' = "closed" /\ udp' \in {udp, "closed"}
        /\ UNCHANGED <<dial, late, armed, sent, pos, reply, peer, app>>
    BY <1>5 DEF Close, Finalize
  <2> QED
    BY <1>a, <2>1, SameReply DEF Bytes, Sockets, peer, app
<1>6. CASE \E size \in Size : \E d \in downlink : ReadDatagram(d, size)
  <2>1. UNCHANGED <<dial, late, client, peer, got>>
    BY <1>6 DEF ReadDatagram
  <2> QED
    BY <1>a, <2>1, SameReply DEF Bytes, Sockets, client, peer
<1>7. CASE \E s \in {"tcp", "udp"} : Expire(s)
  <2>1. UNCHANGED <<dial, client, peer, app>> /\ late' \subseteq armed
    BY <1>a, <1>7 DEF Expire, Sockets
  <2> QED
    BY <1>a, <2>1, SameReply DEF Bytes, Sockets, client, peer, app
<1>8. CASE ServerEnds \/ RelaysDatagram
  <2>1. /\ UNCHANGED <<dial, late, client, stream, arrived, server, granted, app>>
        /\ ended' \in {"no", "eof", "error"}
    BY <1>a, <1>8 DEF ServerEnds, RelaysDatagram, Sockets
  <2> QED
    BY <1>a, <2>1, SameReply DEF Bytes, Sockets, client, app
<1>9. CASE Arrive
  <2>1. /\ UNCHANGED <<dial, late, client, stream, server, ended, granted, app>>
        /\ arrived' \in (arrived + 1) .. Len(stream)
    BY <1>9 DEF Arrive
  <2>2. Len(stream) \in Nat
    BY <1>a, LenProperties DEF Bytes
  <2>3. Bytes'
    BY <1>a, <2>1, <2>2 DEF Bytes, client, app
  <2> QED
    BY <1>a, <2>1, <2>3, SameReply DEF Sockets, client
<1>10. CASE UNCHANGED vars
  BY <1>a, <1>10, SameReply DEF vars, Bytes, Sockets, client, peer, app
<1> QED
  BY <1>1, <1>2, <1>3, <1>4, <1>5, <1>6, <1>7, <1>8, <1>9, <1>10 DEF Next

\* The client never asks for bytes past what has arrived, a deadline passes only
\* where Dial has set one, and lengths read from the wire are lengths: the types
\* hold for any server (NewReplyFrom, SetDeadline).
THEOREM TypeCorrect == Spec => []TypeOK
<1>1. ReadInv => TypeOK
  <2> SUFFICES ASSUME ReadInv PROVE TypeOK
    OBVIOUS
  <2>1. sent \in Seq(Octet)
    <3>1. Negotiation \in Seq(Octet) /\ Opening \in Seq(Octet) /\ put \in Seq(Octet)
      BY OpeningOK DEF ReadInv, IInv
    <3>2. Opening \o put \in Seq(Octet) /\ <<>> \in Seq(Octet)
      BY <3>1, Joined
    <3> QED
      BY <3>1, <3>2 DEF ReadInv, IInv, SentAt, ReplyField, Returned
  <2> QED
    BY <2>1 DEF ReadInv, IInv, Bytes, Sockets, TypeOK
<1> QED
  BY <1>1, InitReadInv, NextReadInv, PTL DEF Spec

-------------------------------------------------------------------------------
(* In step with a server that keeps to the protocol *)

\* What the stream holds for each stage of the server.
ServerAt ==
  /\ server = "greeting" => stream = <<>> /\ granted = 0
  /\ server = "requests" => Len(stream) = 2 /\ granted = 0
  /\ server \in {"relays", "done"} =>
       \E r \in Reply :
         /\ granted = 2 + Len(r)
         /\ \A k \in 1 .. Len(r) : stream[2 + k] = r[k]
         /\ server = "relays" <=> r[1] = Ver /\ r[2] = RepSuccess
  /\ server = "done" => Len(stream) = granted

\* Where in the stream the client is: behind the answer, what it has of the
\* reply, and what the app has read.
Agreed == Len(stream) >= 2 /\ stream[1] = Ver /\ stream[2] = Method
Behind ==
  /\ pos = 2 + Len(reply) + Len(got)
  /\ \A k \in 1 .. Len(reply) : stream[2 + k] = reply[k]
  /\ \A k \in 1 .. Len(got) : stream[2 + Len(reply) + k] = got[k]
Reading == {"request", "associate", "ready", "closed"} \cup ReplyField
ClientAt ==
  /\ pc \in {"dial", "greet", "method"} => pos = 0
  /\ pc \notin {"ready", "closed"} => got = <<>>
  /\ pc \in Reading => Agreed /\ Behind

StepInv == ReadInv /\ ServerAt /\ ClientAt

LEMMA InitStepInv == Init => StepInv
<1> SUFFICES ASSUME Init PROVE StepInv
  OBVIOUS
<1> QED
  BY InitReadInv DEF Init, StepInv, ServerAt, ClientAt, Reading, ReplyField

\* The lengths, as numbers.
LEMMA Lengths ==
  ASSUME Bytes
  PROVE  /\ Len(stream) \in Nat /\ Len(reply) \in Nat /\ Len(got) \in Nat
         /\ pos \in Nat /\ granted \in Nat /\ pos <= Len(stream) /\ granted <= Len(stream)
<1>1. Len(stream) \in Nat /\ Len(reply) \in Nat /\ Len(got) \in Nat
  BY LenProperties DEF Bytes
<1> QED
  BY <1>1 DEF Bytes

\* Dial goes on, or stays, without reading.
Moves ==
  \/ pc' = pc
  \/ pc' = "failed" /\ pc \notin {"ready", "closed"}
  \/ pc = "dial" /\ pc' = "greet"
  \/ pc = "greet" /\ pc' = "method"
  \/ pc = "request" /\ pc' = "head"
  \/ pc = "associate" /\ pc' = "ready"
  \/ pc = "ready" /\ pc' = "closed"

\* A client that does not read stays where it is while the stream grows.
LEMMA ClientStays ==
  ASSUME Bytes, ClientAt, UNCHANGED <<dial, pos, reply, got>>, Moves,
         Len(stream') \in Nat, Len(stream) <= Len(stream'),
         \A k \in 1 .. Len(stream) : stream'[k] = stream[k]
  PROVE  ClientAt'
<1>1. /\ Len(stream) \in Nat /\ Len(reply) \in Nat /\ Len(got) \in Nat
      /\ pos <= Len(stream)
  BY Lengths
<1>2. Method' = Method
  BY DEF Method
<1>3. pc' \in Reading => pc \in Reading
  BY DEF Moves, Reading, ReplyField
<1>4. Agreed => Agreed'
  BY <1>1, <1>2 DEF Agreed
<1>5. ASSUME Behind PROVE Behind'
  <2>1. \A k \in 1 .. Len(reply) : stream'[2 + k] = reply[k]
    <3>1. TAKE k \in 1 .. Len(reply)
    <3>2. 2 + k \in 1 .. Len(stream)
      BY <1>1, <1>5 DEF Behind
    <3> QED
      BY <1>5, <3>2 DEF Behind
  <2>2. \A k \in 1 .. Len(got) : stream'[2 + Len(reply) + k] = got[k]
    <3>1. TAKE k \in 1 .. Len(got)
    <3>2. 2 + Len(reply) + k \in 1 .. Len(stream)
      BY <1>1, <1>5 DEF Behind
    <3> QED
      BY <1>5, <3>2 DEF Behind
  <2> QED
    BY <1>5, <2>1, <2>2 DEF Behind
<1>6. pc' \in {"dial", "greet", "method"} => pos' = 0
  BY DEF Moves, ClientAt
<1>7. pc' \notin {"ready", "closed"} => got' = <<>>
  BY DEF Moves, ClientAt
<1> QED
  BY <1>3, <1>4, <1>5, <1>6, <1>7 DEF ClientAt, Reading

\* The answer to the negotiation is the stream's first two octets.
LEMMA ClientAgrees ==
  ASSUME Bytes, ReplyAt, ClientAt, NegotiationReply
  PROVE  ClientAt'
<1>1. /\ pc = "method" /\ CanRead(2) /\ pos' = pos + 2
      /\ pc' = IF Upcoming(2) = <<Ver, Method>> THEN "request" ELSE "failed"
      /\ UNCHANGED <<dial, stream, reply, got>>
  BY DEF NegotiationReply, Quiet, peer, app
<1>2. pos = 0 /\ reply = <<>> /\ got = <<>>
  BY <1>1 DEF ClientAt, ReplyAt
<1>3. /\ \A k \in 1 .. 2 : Upcoming(2)[k] = stream[pos + k]
      /\ pos + 2 <= Len(stream)
  BY <1>1, UpcomingOK
<1>4. ASSUME pc' = "request" PROVE Agreed' /\ Behind'
  <2>1. Upcoming(2)[1] = Ver /\ Upcoming(2)[2] = Method
    BY <1>1, <1>4
  <2>2. stream[1] = Ver /\ stream[2] = Method
    BY <1>2, <1>3, <2>1
  <2>3. Method' = Method
    BY <1>1 DEF Method
  <2>4. Len(<<>>) = 0
    OBVIOUS
  <2>5. Agreed'
    BY <1>1, <1>2, <1>3, <2>2, <2>3 DEF Agreed
  <2>6. reply' = <<>> /\ got' = <<>> /\ pos' = 2
    BY <1>1, <1>2
  <2> QED
    BY <2>4, <2>5, <2>6 DEF Behind
<1> QED
  BY <1>1, <1>2, <1>4 DEF ClientAt, Reading, ReplyField

\* A field of the reply.
LEMMA ClientReadsField ==
  ASSUME Bytes, ReplyAt, ClientAt, NEW field \in ReplyField, NewReplyFrom(field)
  PROVE  ClientAt'
<1> DEFINE n == FieldLen(field)
<1>1. /\ n \in Nat \ {0} /\ pos' = pos + n
      /\ Len(reply') = Len(reply) + n
      /\ \A k \in 1 .. Len(reply) : reply'[k] = reply[k]
      /\ \A k \in 1 .. n : reply'[Len(reply) + k] = stream[pos + k]
  BY FieldRead
<1>2. /\ pc = field /\ UNCHANGED <<dial, stream, got>>
      /\ pc' \in {"failed", "octet", "address", "port", "ready", "associate"}
  BY DEF NewReplyFrom, Quiet, peer, app, AfterField, AfterHead, AfterReply, ReplyField
<1>3. Agreed /\ Behind /\ got = <<>>
  BY <1>2 DEF ClientAt, Reading, ReplyField
<1>4. Len(reply) \in Nat /\ Len(got) = 0
  BY <1>3, Lengths
<1>5. Agreed'
  BY <1>2, <1>3 DEF Agreed, Method
<1> HIDE DEF n
<1>6. \A k \in 1 .. Len(reply') : stream[2 + k] = reply'[k]
  <2>1. TAKE k \in 1 .. Len(reply')
  <2>2. CASE k <= Len(reply)
    BY <1>1, <1>3, <1>4, <2>2 DEF Behind
  <2>3. CASE ~(k <= Len(reply))
    <3>1. k - Len(reply) \in 1 .. n /\ Len(reply) + (k - Len(reply)) = k
          /\ pos + (k - Len(reply)) = 2 + k
      BY <1>1, <1>3, <1>4, <2>3 DEF Behind
    <3> QED
      BY <1>1, <3>1
  <2> QED
    BY <2>2, <2>3
<1>7. pos' = 2 + Len(reply') + Len(got')
  BY <1>1, <1>2, <1>3, <1>4 DEF Behind
<1>8. \A k \in 1 .. Len(got') : stream'[2 + Len(reply') + k] = got'[k]
  BY <1>2, <1>4
<1>9. Behind'
  BY <1>2, <1>6, <1>7, <1>8 DEF Behind
<1> QED
  BY <1>2, <1>3, <1>5, <1>9 DEF ClientAt

\* The app reads on where the reply ended.
LEMMA AppReads ==
  ASSUME Bytes, ClientAt, NEW size \in Size, Read(size)
  PROVE  ClientAt'
<1>1. PICK n \in Nat \ {0} :
        /\ pos' = pos + n /\ Len(got') = Len(got) + n
        /\ \A k \in 1 .. Len(got) : got'[k] = got[k]
        /\ \A k \in 1 .. n : got'[Len(got) + k] = stream[pos + k]
  BY ReadBytes
<1>2. pc = "ready" /\ UNCHANGED <<dial, pc, stream, reply>>
  BY DEF Read, peer
<1>3. Agreed /\ Behind
  BY <1>2 DEF ClientAt, Reading
<1>4. Len(reply) \in Nat /\ Len(got) \in Nat
  BY Lengths
<1>5. Agreed'
  BY <1>2, <1>3 DEF Agreed, Method
<1>6. \A k \in 1 .. Len(got') : stream[2 + Len(reply) + k] = got'[k]
  <2>1. TAKE k \in 1 .. Len(got')
  <2>2. CASE k <= Len(got)
    BY <1>1, <1>3, <1>4, <2>2 DEF Behind
  <2>3. CASE ~(k <= Len(got))
    <3>1. k - Len(got) \in 1 .. n /\ Len(got) + (k - Len(got)) = k
          /\ pos + (k - Len(got)) = 2 + Len(reply) + k
      BY <1>1, <1>3, <1>4, <2>3 DEF Behind
    <3> QED
      BY <1>1, <3>1
  <2> QED
    BY <2>2, <2>3
<1>7. pos' = 2 + Len(reply') + Len(got')
  BY <1>1, <1>2, <1>3, <1>4 DEF Behind
<1>8. Behind'
  BY <1>2, <1>3, <1>6, <1>7 DEF Behind
<1> QED
  BY <1>2, <1>5, <1>8 DEF ClientAt

LEMMA ServerKeeps ==
  ASSUME ServerAt, UNCHANGED <<stream, server, granted>>
  PROVE  ServerAt'
BY DEF ServerAt

LEMMA ServerSends ==
  ASSUME KeepsProtocol, Bytes, ServerAt, ClientAt,
         ServerAnswers \/ ServerReplies \/ ServerRelays
  PROVE  ServerAt' /\ ClientAt'
<1>1. PICK bytes \in Seq(Octet) :
        /\ Sends(bytes)
        /\ \/ /\ server = "greeting" /\ server' = "requests" /\ granted' = granted
              /\ bytes \in Answer
           \/ /\ server = "requests" /\ granted' = Len(stream') /\ bytes \in Reply
              /\ server' = IF bytes[1] = Ver /\ bytes[2] = RepSuccess
                           THEN "relays" ELSE "done"
           \/ server = "relays" /\ UNCHANGED <<server, granted>>
  <2>1. CASE ServerAnswers
    BY <2>1, OctetsAssumption DEF ServerAnswers
  <2>2. CASE ServerReplies
    BY <2>2, OctetsAssumption DEF ServerReplies
  <2>3. CASE ServerRelays
    BY <2>3, RelaysOctet DEF ServerRelays
  <2> QED
    BY <2>1, <2>2, <2>3
<1>2. /\ Len(stream') = Len(stream) + Len(bytes)
      /\ Len(stream) \in Nat /\ Len(bytes) \in Nat
      /\ \A k \in 1 .. Len(stream) : stream'[k] = stream[k]
      /\ \A k \in 1 .. Len(bytes) : stream'[Len(stream) + k] = bytes[k]
  BY <1>1, SendsBytes
<1>3. UNCHANGED <<dial, pc, pos, reply, got>>
  BY <1>1 DEF Sends, client, app
<1>4. ClientAt'
  <2>1. Len(stream') \in Nat /\ Len(stream) <= Len(stream')
    BY <1>2
  <2> QED
    BY <1>2, <1>3, <2>1, ClientStays DEF Moves
<1>5. CASE server = "greeting"
  <2>1. Len(stream) = 0 /\ granted = 0
    BY <1>5 DEF ServerAt
  <2>2. server' = "requests" /\ granted' = 0 /\ bytes \in Answer
    BY <1>1, <1>5, <2>1
  <2>3. Len(stream') = 2
    BY <1>2, <2>1, <2>2 DEF KeepsProtocol
  <2> QED
    BY <1>4, <2>2, <2>3 DEF ServerAt
<1>6. CASE server = "requests"
  <2>1. Len(stream) = 2
    BY <1>6 DEF ServerAt
  <2>2. /\ granted' = Len(stream') /\ bytes \in Reply /\ server' \in {"relays", "done"}
        /\ server' = "relays" <=> bytes[1] = Ver /\ bytes[2] = RepSuccess
    BY <1>1, <1>6
  <2>3. Len(stream') = 2 + Len(bytes)
        /\ \A k \in 1 .. Len(bytes) : stream'[2 + k] = bytes[k]
    BY <1>2, <2>1
  <2> QED
    BY <1>4, <2>2, <2>3 DEF ServerAt
<1>7. CASE server = "relays"
  <2>1. PICK r \in Reply :
          /\ granted = 2 + Len(r)
          /\ \A k \in 1 .. Len(r) : stream[2 + k] = r[k]
          /\ r[1] = Ver /\ r[2] = RepSuccess
    BY <1>7 DEF ServerAt
  <2>2. server' = "relays" /\ granted' = granted
    BY <1>1, <1>7
  <2>3. Len(r) \in Nat /\ granted <= Len(stream)
    BY OctetsAssumption, LenProperties DEF Bytes
  <2>4. \A k \in 1 .. Len(r) : stream'[2 + k] = r[k]
    <3>1. TAKE k \in 1 .. Len(r)
    <3>2. 2 + k \in 1 .. Len(stream)
      BY <1>2, <2>1, <2>3
    <3> QED
      BY <1>2, <2>1, <3>2
  <2> QED
    BY <1>4, <2>1, <2>2, <2>4 DEF ServerAt
<1> QED
  BY <1>1, <1>5, <1>6, <1>7

LEMMA NextStepInv == KeepsProtocol /\ StepInv /\ [Next]_vars => StepInv'
<1> SUFFICES ASSUME KeepsProtocol, StepInv, [Next]_vars PROVE StepInv'
  OBVIOUS
<1>a. ReadInv /\ Bytes /\ ReplyAt /\ ServerAt /\ ClientAt
  BY DEF StepInv, ReadInv
<1>b. SUFFICES ServerAt' /\ ClientAt'
  BY <1>a, NextReadInv DEF StepInv
<1>c. Len(stream) \in Nat
  BY <1>a, Lengths
<1>1. CASE ServerAnswers \/ ServerReplies \/ ServerRelays
  BY <1>1, <1>a, ServerSends
<1>2. CASE NegotiationReply
  <2>1. UNCHANGED <<stream, server, granted>>
    BY <1>2 DEF NegotiationReply, Quiet, peer
  <2> QED
    BY <1>2, <1>a, <2>1, ClientAgrees, ServerKeeps
<1>3. CASE \E field \in ReplyField : NewReplyFrom(field)
  <2>1. PICK field \in ReplyField : NewReplyFrom(field)
    BY <1>3
  <2>2. UNCHANGED <<stream, server, granted>>
    BY <2>1 DEF NewReplyFrom, Quiet, peer
  <2> QED
    BY <1>a, <2>1, <2>2, ClientReadsField, ServerKeeps
<1>4. CASE \E size \in Size : Read(size)
  <2>1. PICK size \in Size : Read(size)
    BY <1>4
  <2>2. UNCHANGED <<stream, server, granted>>
    BY <2>1 DEF Read, peer
  <2> QED
    BY <1>a, <2>1, <2>2, AppReads, ServerKeeps
<1>5. CASE \/ Unsupported \/ Connect \/ ConnectFails \/ NegotiationRequest
           \/ ParseAddressFails \/ Request \/ IoFails \/ Associate \/ AssociateFails
           \/ Close \/ Finalize
  <2>1. UNCHANGED <<dial, pos, reply, got, stream, server, granted>> /\ Moves
    <3>1. CASE Unsupported \/ ConnectFails \/ ParseAddressFails \/ AssociateFails
      BY <3>1 DEF Unsupported, ConnectFails, ParseAddressFails, AssociateFails,
                  Fail, Moves, Quiet, peer, app
    <3>2. CASE Connect \/ Associate
      BY <3>2 DEF Connect, Associate, Moves, Quiet, peer, app
    <3>5. CASE NegotiationRequest \/ Request
      <4>1. /\ UNCHANGED <<pos, reply>> /\ Quiet
            /\ \/ pc = "greet" /\ pc' = "method"
               \/ pc = "request" /\ pc' = "head"
        BY <3>5 DEF NegotiationRequest, Request, WriteThen
      <4> QED
        BY <4>1 DEF Moves, Quiet, peer, app
    <3>3. CASE IoFails
      BY <3>3 DEF IoFails, Fail, Moves, Quiet, peer, app, ReplyField
    <3>4. CASE Close \/ Finalize
      BY <3>4 DEF Close, Finalize, Moves, peer, app
    <3> QED
      BY <1>5, <3>1, <3>2, <3>3, <3>4, <3>5
  <2> QED
    BY <1>a, <1>c, <2>1, ClientStays, ServerKeeps
<1>6. CASE \/ \E data \in Data : Write(data) \/ WriteDatagram(data)
           \/ \E size \in Size : \E d \in downlink : ReadDatagram(d, size)
           \/ \E s \in {"tcp", "udp"} : Expire(s)
           \/ ServerEnds \/ Arrive \/ RelaysDatagram \/ UNCHANGED vars
  <2>1. UNCHANGED <<dial, pc, pos, reply, got, stream, server, granted>>
    <3>1. CASE \E data \in Data : Write(data) \/ WriteDatagram(data)
      BY <3>1 DEF Write, WriteDatagram, client, peer
    <3>2. CASE \/ \E size \in Size : \E d \in downlink : ReadDatagram(d, size)
               \/ \E s \in {"tcp", "udp"} : Expire(s)
      BY <3>2 DEF ReadDatagram, Expire, client, peer, app
    <3>3. CASE ServerEnds \/ Arrive \/ RelaysDatagram \/ UNCHANGED vars
      BY <3>3 DEF ServerEnds, Arrive, RelaysDatagram, vars, client, peer, app
    <3> QED
      BY <1>6, <3>1, <3>2, <3>3
  <2> QED
    BY <1>a, <1>c, <2>1, ClientStays, ServerKeeps DEF Moves
<1> QED
  BY <1>1, <1>2, <1>3, <1>4, <1>5, <1>6 DEF Next, Dial

\* With the whole reply read, the server has granted and the reply ends here.
LEMMA Framed ==
  ASSUME KeepsProtocol, StepInv, pc \in {"associate", "ready", "closed"}
  PROVE  server = "relays" /\ granted = 2 + Len(reply) /\ Agreed /\ Behind
<1>1. Bytes /\ ReplyAt /\ ServerAt /\ Agreed /\ Behind /\ Sockets
  BY DEF StepInv, ReadInv, ClientAt, Reading
<1>2. /\ reply[1] = Ver /\ reply[2] = RepSuccess
      /\ AddrSpan(reply) # 0 /\ Len(reply) = 6 + AddrSpan(reply)
  BY <1>1 DEF ReplyAt
<1>3. /\ Len(stream) \in Nat /\ Len(reply) \in Nat /\ Len(got) \in Nat
      /\ pos <= Len(stream) /\ pos = 2 + Len(reply) + Len(got)
  BY <1>1, Lengths DEF Behind
<1>4. AddrSpan(reply) \in Nat \ {0}
  <2>1. \/ AddrSpan(reply) \in {0, 4, 16}
        \/ AddrSpan(reply) = 1 + reply[5] /\ Len(reply) > 4
    BY DEF AddrSpan
  <2>2. ASSUME Len(reply) > 4 PROVE reply[5] \in Nat
    <3>1. 5 \in 1 .. Len(reply)
      BY <1>3, <2>2
    <3>2. reply[5] \in Octet
      BY <1>1, <3>1, ElementOfSeq DEF Bytes
    <3> QED
      BY <3>2, OctetIsNat
  <2> QED
    BY <1>2, <2>1, <2>2
<1>5. Len(reply) > 6 /\ Len(stream) > 8
  BY <1>2, <1>3, <1>4
<1>6. server \in {"relays", "done"}
  <2>1. server # "greeting"
    <3>1. Len(<<>>) = 0 /\ ~(0 > 8)
      OBVIOUS
    <3>2. stream # <<>>
      BY <1>5, <3>1, Zenon
    <3> QED
      BY <1>1, <3>2 DEF ServerAt
  <2>2. server # "requests"
    <3>1. server = "requests" => Len(stream) = 2
      BY <1>1 DEF ServerAt
    <3>2. Len(stream) # 2
      BY <1>3, <1>5
    <3> QED
      BY <3>1, <3>2
  <2> QED
    BY <1>1, <2>1, <2>2 DEF Sockets
<1>7. PICK r \in Reply :
        /\ granted = 2 + Len(r)
        /\ \A k \in 1 .. Len(r) : stream[2 + k] = r[k]
        /\ server = "relays" <=> r[1] = Ver /\ r[2] = RepSuccess
  BY <1>1, <1>6 DEF ServerAt
<1>8. Len(r) \in Nat
  BY OctetsAssumption, LenProperties
<1>9. Len(r) >= 4
  <2>1. CASE server = "done"
    BY <1>1, <1>5, <1>7, <1>8, <2>1 DEF ServerAt
  <2>2. CASE server = "relays"
    BY <1>7, <2>2 DEF KeepsProtocol
  <2> QED
    BY <1>6, <2>1, <2>2
<1>10. \A k \in 1 .. Len(reply) : k <= Len(r) => reply[k] = r[k]
  BY <1>1, <1>3, <1>7, <1>8 DEF Behind
<1>11. r[1] = reply[1] /\ r[2] = reply[2] /\ r[4] = reply[4]
  BY <1>3, <1>5, <1>8, <1>9, <1>10
<1>12. server = "relays"
  BY <1>2, <1>7, <1>11
<1>13. /\ r[4] = ATYPDomain => Len(r) > 4
       /\ AddrSpan(r) # 0 => Len(r) = 6 + AddrSpan(r)
  BY <1>2, <1>11 DEF KeepsProtocol
<1>14. Len(r) > 4 => r[5] = reply[5]
  BY <1>3, <1>5, <1>8, <1>10
<1>15. AddrSpan(r) = AddrSpan(reply)
  BY <1>5, <1>11, <1>13, <1>14 DEF AddrSpan
<1>16. Len(r) = Len(reply)
  BY <1>2, <1>13, <1>15
<1> QED
  BY <1>1, <1>7, <1>12, <1>16

\* For every server that keeps to the protocol, whatever it answers, refuses or
\* relays and in whatever pieces: a connection is returned only for a granted
\* request, at the end of the reply.
THEOREM ConnectionInStep ==
  ASSUME KeepsProtocol
  PROVE  Spec => []OpensInStep
<1>1. StepInv => OpensInStep
  <2> SUFFICES ASSUME StepInv, pc \in {"ready", "closed"}
               PROVE  /\ server = "relays" /\ SubSeq(stream, 1, 2) = <<Ver, Method>>
                      /\ pos = granted + Len(got)
    BY DEF OpensInStep
  <2>1. server = "relays" /\ granted = 2 + Len(reply) /\ Agreed /\ Behind
    BY Framed
  <2>2. Bytes
    BY DEF StepInv, ReadInv
  <2>3. Len(stream) \in Nat /\ Len(stream) >= 2
    BY <2>1, <2>2, Lengths DEF Agreed
  <2>4. \A i \in 1 .. 2 : stream[i] \in Octet
    <3>1. \A i \in 1 .. 2 : i \in 1 .. Len(stream)
      BY <2>3
    <3> QED
      BY <2>2, <3>1, ElementOfSeq DEF Bytes
  <2> DEFINE s == SubSeq(stream, 1, 2)
  <2>5. s \in Seq(Octet) /\ Len(s) = 2 /\ \A i \in 1 .. 2 : s[i] = stream[i]
    <3>1. /\ s \in Seq(Octet) /\ Len(s) = (IF 1 <= 2 THEN 2 - 1 + 1 ELSE 0)
          /\ \A i \in 1 .. 2 - 1 + 1 : s[i] = stream[1 + i - 1]
      BY <2>4, SubSeqProperties
    <3> HIDE DEF s
    <3> QED
      BY <3>1
  <2> HIDE DEF s
  <2>6. s = <<Ver, Method>>
    <3>1. s[1] = Ver /\ s[2] = Method
      BY <2>1, <2>5 DEF Agreed
    <3>2. Ver \in Octet /\ Method \in Octet
      BY OctetMember DEF Ver, Method, MethodNone, MethodUsernamePassword
    <3>3. <<Ver, Method>> \in Seq(Octet) /\ Len(<<Ver, Method>>) = 2
      BY <3>2
    <3>4. \A i \in 1 .. 2 : s[i] = <<Ver, Method>>[i]
      <4>1. TAKE i \in 1 .. 2
      <4>2. i = 1 \/ i = 2
        OBVIOUS
      <4> QED
        BY <3>1, <4>2
    <3> QED
      BY <2>5, <3>3, <3>4, SeqEqual
  <2> QED
    BY <2>1, <2>6 DEF s, Behind
<1> QED
  BY <1>1, InitStepInv, NextStepInv, PTL DEF Spec

-------------------------------------------------------------------------------
(* What is relayed is a pipe *)

\* A sequence without its first g elements.
LEMMA DropOK ==
  ASSUME NEW s \in Seq(Octet), NEW g \in 0 .. Len(s)
  PROVE  /\ SubSeq(s, g + 1, Len(s)) \in Seq(Octet)
         /\ Len(SubSeq(s, g + 1, Len(s))) = Len(s) - g
         /\ \A k \in 1 .. Len(s) - g : SubSeq(s, g + 1, Len(s))[k] = s[g + k]
<1> DEFINE d == SubSeq(s, g + 1, Len(s))
           l == Len(s)
<1>1. l \in Nat /\ g \in Nat /\ g <= l
  BY LenProperties
<1>2. \A i \in g + 1 .. l : s[i] \in Octet
  <2>1. TAKE i \in g + 1 .. l
  <2>2. i \in 1 .. Len(s)
    BY <1>1
  <2> QED
    BY <2>2, ElementOfSeq
<1>3. g + 1 \in Int /\ l \in Int
  BY <1>1
<1>4. /\ d \in Seq(Octet)
      /\ Len(d) = IF g + 1 <= l THEN l - (g + 1) + 1 ELSE 0
      /\ \A k \in 1 .. l - (g + 1) + 1 : d[k] = s[(g + 1) + k - 1]
  BY <1>2, <1>3, SubSeqProperties
<1> HIDE DEF d, l
<1>5. Len(d) = l - g /\ \A k \in 1 .. l - g : d[k] = s[g + k]
  BY <1>1, <1>4
<1>6. d \in Seq(Octet)
  BY <1>4
<1> QED
  BY <1>5, <1>6 DEF d, l

LEMMA DropConcat ==
  ASSUME NEW s \in Seq(Octet), NEW t \in Seq(Octet), NEW g \in 0 .. Len(s)
  PROVE  SubSeq(s \o t, g + 1, Len(s \o t)) = SubSeq(s, g + 1, Len(s)) \o t
<1> DEFINE st == s \o t
           d == SubSeq(s, g + 1, Len(s))
           e == SubSeq(st, g + 1, Len(st))
<1>1. Len(s) \in Nat /\ Len(t) \in Nat /\ g \in Nat /\ g <= Len(s)
  BY LenProperties
<1>2. /\ st \in Seq(Octet) /\ Len(st) = Len(s) + Len(t)
      /\ \A i \in 1 .. Len(s) + Len(t) :
           st[i] = IF i <= Len(s) THEN s[i] ELSE t[i - Len(s)]
  BY ConcatProperties
<1>3. /\ d \in Seq(Octet) /\ Len(d) = Len(s) - g
      /\ \A k \in 1 .. Len(s) - g : d[k] = s[g + k]
  BY DropOK
<1> HIDE DEF st, d
<1>4. g \in 0 .. Len(st)
  BY <1>1, <1>2
<1>5. /\ e \in Seq(Octet) /\ Len(e) = Len(st) - g
      /\ \A k \in 1 .. Len(st) - g : e[k] = st[g + k]
  BY <1>2, <1>4, DropOK
<1> HIDE DEF e
<1>6. /\ d \o t \in Seq(Octet) /\ Len(d \o t) = Len(d) + Len(t)
      /\ \A k \in 1 .. Len(d) + Len(t) :
           (d \o t)[k] = IF k <= Len(d) THEN d[k] ELSE t[k - Len(d)]
  BY <1>3, ConcatProperties
<1>7. Len(e) = Len(d \o t)
  BY <1>1, <1>2, <1>3, <1>5, <1>6
<1>8. \A k \in 1 .. Len(e) : e[k] = (d \o t)[k]
  <2>1. TAKE k \in 1 .. Len(e)
  <2>2. /\ k \in 1 .. Len(st) - g /\ k \in 1 .. Len(d) + Len(t)
        /\ g + k \in 1 .. Len(s) + Len(t)
    BY <1>1, <1>2, <1>3, <1>5
  <2>3. e[k] = IF g + k <= Len(s) THEN s[g + k] ELSE t[(g + k) - Len(s)]
    BY <1>2, <1>5, <2>2
  <2>4. CASE k <= Len(d)
    <3>1. k \in 1 .. Len(s) - g /\ g + k <= Len(s)
      BY <1>1, <1>3, <2>2, <2>4
    <3> QED
      BY <1>3, <1>6, <2>2, <2>3, <2>4, <3>1
  <2>5. CASE ~(k <= Len(d))
    <3>1. ~(g + k <= Len(s)) /\ (g + k) - Len(s) = k - Len(d)
      BY <1>1, <1>3, <2>2, <2>5
    <3> QED
      BY <1>6, <2>2, <2>3, <2>5, <3>1
  <2> QED
    BY <2>4, <2>5
<1>9. e = d \o t
  BY <1>5, <1>6, <1>7, <1>8, SeqEqual
<1> QED
  BY <1>9 DEF e, d, st

\* What the app has read is a first part of what was relayed.
GotPrefix == Len(got) \in 0 .. Len(Relayed) /\ got = SubSeq(Relayed, 1, Len(got))

LEMMA GotIsPrefix == KeepsProtocol /\ StepInv => GotPrefix
<1> SUFFICES ASSUME KeepsProtocol, StepInv PROVE GotPrefix
  OBVIOUS
<1>1. Bytes /\ ClientAt
  BY DEF StepInv, ReadInv
<1>2. /\ stream \in Seq(Octet) /\ Len(stream) \in Nat
      /\ got \in Seq(Octet) /\ Len(got) \in Nat
      /\ granted \in 0 .. Len(stream) /\ pos <= Len(stream)
  <2>1. granted \in 0 .. Len(stream)
    BY <1>1, Lengths
  <2> QED
    BY <1>1, <2>1, Lengths DEF Bytes
<1> DEFINE d == SubSeq(stream, granted + 1, Len(stream))
<1>3. /\ d \in Seq(Octet) /\ Len(d) = Len(stream) - granted
      /\ \A k \in 1 .. Len(stream) - granted : d[k] = stream[granted + k]
  BY <1>2, DropOK
<1>4. Relayed = IF server = "relays" THEN d ELSE <<>>
  BY DEF Relayed
<1> HIDE DEF d
<1>5. Relayed \in Seq(Octet) /\ Len(Relayed) \in Nat
  BY <1>3, <1>4, EmptySeq, LenProperties
<1>6. CASE pc \notin {"ready", "closed"}
  <2>1. got = <<>> /\ Len(got) = 0
    BY <1>1, <1>6 DEF ClientAt
  <2>2. SubSeq(Relayed, 1, 0) = <<>>
    BY SubSeqEmpty
  <2> QED
    BY <1>5, <2>1, <2>2 DEF GotPrefix
<1>7. CASE pc \in {"ready", "closed"}
  <2>1. server = "relays" /\ granted = 2 + Len(reply) /\ Behind
    BY <1>7, Framed
  <2>2. Relayed = d /\ Len(reply) \in Nat
    BY <1>1, <1>4, <2>1, Lengths
  <2>3. Len(got) <= Len(d)
    BY <1>2, <1>3, <2>1, <2>2 DEF Behind
  <2>4. \A k \in 1 .. Len(got) : d[k] = got[k]
    <3>1. TAKE k \in 1 .. Len(got)
    <3>2. k \in 1 .. Len(stream) - granted
      BY <1>2, <1>3, <2>3
    <3>3. d[k] = stream[granted + k]
      BY <1>3, <3>2
    <3> QED
      BY <2>1, <3>3 DEF Behind
  <2> DEFINE n == Len(got)
             p == SubSeq(d, 1, n)
  <2>5. \A k \in 1 .. n : d[k] \in Octet
    BY <1>2, <2>4, ElementOfSeq
  <2>6. n \in Int /\ n >= 0
    BY <1>2
  <2> HIDE DEF n
  <2>7. /\ p \in Seq(Octet) /\ Len(p) = (IF 1 <= n THEN n - 1 + 1 ELSE 0)
        /\ \A k \in 1 .. n - 1 + 1 : p[k] = d[1 + k - 1]
    BY <2>5, <2>6, SubSeqProperties
  <2> HIDE DEF p
  <2>8. Len(p) = n /\ \A k \in 1 .. n : p[k] = d[k]
    BY <2>6, <2>7
  <2>9. p = got
    <3>1. Len(p) = Len(got) /\ \A k \in 1 .. Len(p) : p[k] = got[k]
      BY <2>4, <2>8 DEF n
    <3> QED
      BY <1>2, <2>7, <3>1, SeqEqual
  <2> QED
    BY <1>2, <1>5, <2>2, <2>3, <2>9 DEF p, n, GotPrefix
<1> QED
  BY <1>6, <1>7

\* One step of the session, seen by the relayed bytes.
PipeStep ==
  \/ /\ \E k \in 1 .. MaxBytes : Relayed' = Relayed \o <<99 + k>>
     /\ got' = got
  \/ /\ \E n \in (Len(got) + 1) .. Len(Relayed) : got' = SubSeq(Relayed, 1, n)
     /\ Relayed' = Relayed
  \/ Relayed' = Relayed /\ got' = got

LEMMA NextPipe == StepInv /\ GotPrefix' /\ [Next]_vars => PipeStep
<1> SUFFICES ASSUME StepInv, GotPrefix', [Next]_vars PROVE PipeStep
  OBVIOUS
<1>1. Bytes /\ ServerAt
  BY DEF StepInv, ReadInv
<1>2. /\ stream \in Seq(Octet) /\ Len(stream) \in Nat /\ Len(got) \in Nat
      /\ granted \in Nat /\ granted <= Len(stream) /\ granted \in 0 .. Len(stream)
  BY <1>1, Lengths DEF Bytes
<1>3. CASE \E size \in Size : Read(size)
  <2>1. PICK size \in Size : Read(size)
    BY <1>3
  <2>2. UNCHANGED <<stream, server, granted>>
    BY <2>1 DEF Read, peer
  <2>3. Relayed' = Relayed
    BY <2>2 DEF Relayed
  <2>4. PICK n \in Nat \ {0} : Len(got') = Len(got) + n
    BY <1>1, <2>1, ReadBytes
  <2>5. Len(got') \in 0 .. Len(Relayed) /\ got' = SubSeq(Relayed, 1, Len(got'))
    BY <2>3 DEF GotPrefix
  <2>6. Len(got') \in (Len(got) + 1) .. Len(Relayed)
    BY <1>2, <2>4, <2>5
  <2> QED
    BY <2>3, <2>5, <2>6 DEF PipeStep
<1>4. CASE ServerRelays
  <2> DEFINE k == Len(stream) - granted + 1
  <2>1. /\ server = "relays" /\ UNCHANGED <<server, granted, got>>
        /\ stream' = stream \o <<100 + Len(stream) - granted>>
        /\ Len(stream) - granted < MaxBytes
    BY <1>4 DEF ServerRelays, Sends, app
  <2>2. k \in 1 .. MaxBytes /\ 99 + k = 100 + Len(stream) - granted
    BY <1>2, <2>1, BoundAssumption
  <2>3. <<99 + k>> \in Seq(Octet)
    BY <1>1, <1>4, <2>2, RelaysOctet
  <2> HIDE DEF k
  <2>4. stream' = stream \o <<99 + k>>
    BY <2>1, <2>2
  <2>5. Relayed' = SubSeq(stream \o <<99 + k>>, granted + 1, Len(stream \o <<99 + k>>))
    BY <2>1, <2>4 DEF Relayed
  <2>6. Relayed = SubSeq(stream, granted + 1, Len(stream))
    BY <2>1 DEF Relayed
  <2>7. Relayed' = Relayed \o <<99 + k>>
    <3> DEFINE u == <<99 + k>>
    <3>1. u \in Seq(Octet)
      BY <2>3
    <3>2. Relayed' = SubSeq(stream \o u, granted + 1, Len(stream \o u))
      BY <2>5
    <3> HIDE DEF u
    <3>3. SubSeq(stream \o u, granted + 1, Len(stream \o u))
            = SubSeq(stream, granted + 1, Len(stream)) \o u
      BY <1>2, <3>1, DropConcat
    <3>4. Relayed' = Relayed \o u
      BY <2>6, <3>2, <3>3
    <3> QED
      BY <3>4 DEF u
  <2> QED
    BY <2>1, <2>2, <2>7 DEF PipeStep
<1>5. CASE ServerAnswers
  <2>1. server = "greeting" /\ server' = "requests" /\ got' = got
    BY <1>5 DEF ServerAnswers, Sends, app
  <2> QED
    BY <2>1 DEF Relayed, PipeStep
<1>6. CASE ServerReplies
  <2>1. /\ server = "requests" /\ granted' = Len(stream') /\ got' = got
    BY <1>6 DEF ServerReplies, Sends, app
  <2>2. PICK r \in Seq(Octet) : Sends(r)
    BY <1>6, OctetsAssumption DEF ServerReplies
  <2>3. Len(stream') \in Nat
    BY <1>1, <2>2, SendsBytes
  <2>4. SubSeq(stream', Len(stream') + 1, Len(stream')) = <<>>
    <3> DEFINE l == Len(stream')
    <3>1. l \in Int /\ l + 1 \in Int /\ l < l + 1
      BY <2>3
    <3> HIDE DEF l
    <3>2. SubSeq(stream', l + 1, l) = <<>>
      BY <3>1, SubSeqEmpty
    <3> QED
      BY <3>2 DEF l
  <2>5. Relayed' = <<>> /\ Relayed = <<>>
    BY <2>1, <2>4 DEF Relayed
  <2> QED
    BY <2>1, <2>5 DEF PipeStep
<1>7. CASE Dial
  <2>1. UNCHANGED <<stream, server, granted, got>>
    <3>1. Quiet
      BY <1>7 DEF Dial, Unsupported, Connect, ConnectFails, NegotiationRequest,
                  NegotiationReply, ParseAddressFails, Request, NewReplyFrom, IoFails,
                  Associate, AssociateFails, Fail, WriteThen
    <3> QED
      BY <3>1 DEF Quiet, peer, app
  <2> QED
    BY <2>1 DEF Relayed, PipeStep
<1>8. CASE \/ Close \/ Finalize
           \/ \E data \in Data : Write(data) \/ WriteDatagram(data)
           \/ \E size \in Size : \E d \in downlink : ReadDatagram(d, size)
           \/ \E s \in {"tcp", "udp"} : Expire(s)
  <2>1. UNCHANGED <<stream, server, granted, got>>
    BY <1>8 DEF Close, Finalize, Write, WriteDatagram, ReadDatagram, Expire, peer, app
  <2> QED
    BY <2>1 DEF Relayed, PipeStep
<1>9. CASE ServerEnds \/ Arrive \/ RelaysDatagram \/ UNCHANGED vars
  <2>1. UNCHANGED <<stream, server, granted, got>>
    BY <1>9 DEF ServerEnds, Arrive, RelaysDatagram, vars, peer, app
  <2> QED
    BY <2>1 DEF Relayed, PipeStep
<1> QED
  BY <1>3, <1>4, <1>5, <1>6, <1>7, <1>8, <1>9 DEF Next

\* From the end of the reply on, the connection is a pipe from the target to the
\* app, for every server that keeps to the protocol: no byte of the reply, none
\* out of order, none twice (NewReplyFrom, Client.Read).
THEOREM StreamImplementsPipe ==
  ASSUME KeepsProtocol
  PROVE  Spec => StreamIsPipe
<1>1. Init => Target!Init
  BY DEF Init, Relayed, Target!Init
<1>2. StepInv => GotPrefix
  BY GotIsPrefix
<1>3. StepInv /\ GotPrefix' /\ [Next]_vars => [Target!Next]_(Target!pipeVars)
  <2> SUFFICES ASSUME PipeStep PROVE [Target!Next]_(Target!pipeVars)
    BY NextPipe
  <2>1. CASE (\E k \in 1 .. MaxBytes : Relayed' = Relayed \o <<99 + k>>) /\ got' = got
    BY <2>1 DEF Target!Next, Target!Send
  <2>2. CASE /\ \E n \in (Len(got) + 1) .. Len(Relayed) : got' = SubSeq(Relayed, 1, n)
             /\ Relayed' = Relayed
    BY <2>2 DEF Target!Next, Target!Deliver
  <2>3. CASE Relayed' = Relayed /\ got' = got
    BY <2>3 DEF Target!pipeVars
  <2> QED
    BY <2>1, <2>2, <2>3 DEF PipeStep
<1>4. Spec => Target!Init /\ [][Target!Next]_(Target!pipeVars)
  BY <1>1, <1>2, <1>3, InitStepInv, NextStepInv, PTL DEF Spec
<1> QED
  BY <1>4 DEF StreamIsPipe, Target!Spec

-------------------------------------------------------------------------------
(* Datagrams *)

\* The first part of a sequence that fits in a buffer.
LEMMA TakeOK ==
  ASSUME NEW s \in Seq(Octet), NEW size \in Nat
  PROVE  LET b == SubSeq(s, 1, Smaller(size, Len(s))) IN
         /\ b \in Seq(Octet) /\ Len(b) = Smaller(size, Len(s))
         /\ Len(b) \in Nat /\ Len(b) <= size /\ Len(b) <= Len(s)
         /\ \A k \in 1 .. Len(b) : b[k] = s[k]
<1> DEFINE m == Smaller(size, Len(s))
           b == SubSeq(s, 1, m)
<1>1. Len(s) \in Nat
  BY LenProperties
<1>2. m \in Nat /\ m <= size /\ m <= Len(s)
  BY <1>1 DEF Smaller
<1> HIDE DEF m
<1>3. \A i \in 1 .. m : s[i] \in Octet
  <2>1. TAKE i \in 1 .. m
  <2>2. i \in 1 .. Len(s)
    BY <1>1, <1>2
  <2> QED
    BY <2>2, ElementOfSeq
<1>4. 1 \in Int /\ m \in Int
  BY <1>2
<1>5. /\ b \in Seq(Octet) /\ Len(b) = (IF 1 <= m THEN m - 1 + 1 ELSE 0)
      /\ \A k \in 1 .. m - 1 + 1 : b[k] = s[1 + k - 1]
  BY <1>3, <1>4, SubSeqProperties
<1> HIDE DEF b
<1>6. Len(b) = m /\ \A k \in 1 .. m : b[k] = s[k]
  BY <1>2, <1>5
<1>7. b \in Seq(Octet)
  BY <1>5
<1>8. /\ Len(b) = m /\ Len(b) \in Nat /\ Len(b) <= size /\ Len(b) <= Len(s)
      /\ \A k \in 1 .. Len(b) : b[k] = s[k]
  BY <1>2, <1>6
<1> QED
  BY <1>7, <1>8 DEF b, m

\* How long an address is on the wire, with the length octet of a name.
Span(e) == IF e.kind = ATYPDomain THEN 1 + Len(e.host) ELSE Len(e.host)

\* The header of a datagram: the kind is its fourth octet, the length of a name
\* its fifth, and the data starts behind the port.
LEMMA HeadOK ==
  ASSUME NEW e \in Endpoint
  PROVE  LET h == <<0, 0, 0>> \o Wire(e) IN
         /\ h \in Seq(Octet) /\ Len(h) = 6 + Span(e) /\ Span(e) \in Nat
         /\ h[4] = e.kind
         /\ e.kind = ATYPDomain => h[5] = Len(e.host)
<1> DEFINE K == <<0, 0, 0, e.kind>>
           C == Counted(e.kind, e.host)
           P == Uint16(Atoi(e))
           h == <<0, 0, 0>> \o Wire(e)
<1>1. 0 \in Octet
  BY OctetMember
<1>2. h = (K \o C) \o P /\ h \in Seq(Octet)
  BY <1>1, WireForm
<1>3. /\ e.kind \in Octet /\ e.host \in Seq(Octet)
      /\ Len(e.host) \in Octet /\ Byte(Len(e.host)) = Len(e.host)
      /\ P = <<PortRead(e) \div 256, PortRead(e) % 256>> /\ P \in Seq(Octet)
  BY EndpointOK
<1>4. C \in Seq(Octet)
  BY CountedOnce
<1>5. K \in Seq(Octet) /\ Len(K) = 4 /\ K[4] = e.kind
  BY <1>1, <1>3
<1>6. Len(P) = 2
  BY <1>3
<1>7. Len(e.host) \in Nat
  BY <1>3, LenProperties
<1>8. /\ Len(C) = Span(e) /\ Span(e) \in Nat
      /\ e.kind = ATYPDomain => C[1] = Len(e.host) /\ Len(C) > 0
  <2>1. CASE e.kind = ATYPDomain
    <3> DEFINE o == <<Byte(Len(e.host))>>
               t == e.host
    <3>1. C = o \o t
      BY <2>1 DEF Counted
    <3>2. o \in Seq(Octet) /\ Len(o) = 1 /\ o[1] = Len(e.host) /\ t \in Seq(Octet)
      BY <1>3
    <3> HIDE DEF o, t
    <3>3. /\ Len(o \o t) = Len(o) + Len(t)
          /\ \A i \in 1 .. Len(o) + Len(t) :
               (o \o t)[i] = IF i <= Len(o) THEN o[i] ELSE t[i - Len(o)]
      BY <3>2, JoinedAt
    <3>4. Len(t) \in Nat /\ Len(t) = Len(e.host)
      BY <1>7 DEF t
    <3> HIDE DEF C
    <3>5. Len(C) = 1 + Len(e.host) /\ C[1] = Len(e.host)
      BY <3>1, <3>2, <3>3, <3>4
    <3> QED
      BY <1>7, <2>1, <3>5 DEF Span
  <2>2. CASE e.kind # ATYPDomain
    BY <1>7, <2>2 DEF Span, Counted
  <2> QED
    BY <2>1, <2>2
<1> HIDE DEF K, C, P, h
<1>9. /\ K \o C \in Seq(Octet) /\ Len(K \o C) = 4 + Span(e)
      /\ \A i \in 1 .. 4 + Span(e) : (K \o C)[i] = IF i <= 4 THEN K[i] ELSE C[i - 4]
  <2>1. /\ K \o C \in Seq(Octet) /\ Len(K \o C) = Len(K) + Len(C)
        /\ \A i \in 1 .. Len(K) + Len(C) :
             (K \o C)[i] = IF i <= Len(K) THEN K[i] ELSE C[i - Len(K)]
    BY <1>4, <1>5, ConcatProperties
  <2> QED
    BY <1>5, <1>8, <2>1
<1>10. /\ Len((K \o C) \o P) = (4 + Span(e)) + 2
       /\ \A i \in 1 .. (4 + Span(e)) + 2 :
            ((K \o C) \o P)[i] = IF i <= 4 + Span(e) THEN (K \o C)[i]
                                 ELSE P[i - (4 + Span(e))]
  <2> DEFINE KC == K \o C
  <2>1. KC \in Seq(Octet) /\ Len(KC) = 4 + Span(e)
    BY <1>9
  <2> HIDE DEF KC
  <2>2. /\ Len(KC \o P) = Len(KC) + Len(P)
        /\ \A i \in 1 .. Len(KC) + Len(P) :
             (KC \o P)[i] = IF i <= Len(KC) THEN KC[i] ELSE P[i - Len(KC)]
    BY <1>3, <2>1, ConcatProperties
  <2>3. /\ Len(KC \o P) = (4 + Span(e)) + 2
        /\ \A i \in 1 .. (4 + Span(e)) + 2 :
             (KC \o P)[i] = IF i <= 4 + Span(e) THEN KC[i] ELSE P[i - (4 + Span(e))]
    BY <1>6, <2>1, <2>2
  <2> QED
    BY <2>3 DEF KC
<1>11. Len(h) = 6 + Span(e)
  BY <1>2, <1>8, <1>10
<1>12. h[4] = e.kind
  <2>1. h[4] = (K \o C)[4]
    <3>1. 4 \in 1 .. (4 + Span(e)) + 2 /\ 4 <= 4 + Span(e)
      BY <1>8
    <3>2. ((K \o C) \o P)[4] = (K \o C)[4]
      BY <1>10, <3>1
    <3> QED
      BY <1>2, <3>2
  <2>2. (K \o C)[4] = K[4]
    BY <1>8, <1>9
  <2> QED
    BY <1>5, <2>1, <2>2
<1>13. e.kind = ATYPDomain => h[5] = Len(e.host)
  <2> SUFFICES ASSUME e.kind = ATYPDomain PROVE h[5] = Len(e.host)
    OBVIOUS
  <2>1. Span(e) >= 1 /\ C[1] = Len(e.host)
    BY <1>8
  <2>2. h[5] = (K \o C)[5]
    <3>1. 5 \in 1 .. (4 + Span(e)) + 2 /\ 5 <= 4 + Span(e)
      BY <1>8, <2>1
    <3>2. ((K \o C) \o P)[5] = (K \o C)[5]
      BY <1>10, <3>1
    <3> QED
      BY <1>2, <3>2
  <2>3. (K \o C)[5] = C[1]
    BY <1>8, <1>9, <2>1
  <2> QED
    BY <2>1, <2>2, <2>3
<1> QED
  BY <1>2, <1>8, <1>11, <1>12, <1>13 DEF h

\* How much of the data fits in a buffer behind the header.
Fits(h, data, size) == Smaller(size - Len(h), Len(data))
Whole(h, data, size) ==
  IF size > Len(h) /\ Fits(h, data, size) > 0
  THEN SubSeq(data, 1, Fits(h, data, size)) ELSE ErrBadRequest

\* A datagram cut to the buffer: an error until a byte of the data is in it, and
\* then the data up to the end of the buffer.
LEMMA DatagramCut ==
  ASSUME NEW e \in Endpoint, e.kind # Malformed, e.host # <<>>,
         NEW data \in Seq(Octet), NEW size \in Nat
  PROVE  LET h == <<0, 0, 0>> \o Wire(e)
             packet == h \o data
         IN  NewDatagramFromBytes(SubSeq(packet, 1, Smaller(size, Len(packet))))
               = Whole(h, data, size)
<1> DEFINE h == <<0, 0, 0>> \o Wire(e)
           packet == h \o data
           b == SubSeq(packet, 1, Smaller(size, Len(packet)))
<1>1. /\ h \in Seq(Octet) /\ Len(h) = 6 + Span(e) /\ Span(e) \in Nat
      /\ h[4] = e.kind
      /\ e.kind = ATYPDomain => h[5] = Len(e.host)
  BY HeadOK
<1> HIDE DEF h
<1>2. /\ packet \in Seq(Octet) /\ Len(packet) = Len(h) + Len(data)
      /\ \A i \in 1 .. Len(h) + Len(data) :
           packet[i] = IF i <= Len(h) THEN h[i] ELSE data[i - Len(h)]
  <2>1. h \in Seq(Octet)
    BY <1>1
  <2> QED
    BY <2>1, ConcatProperties
<1>3. Len(h) \in Nat /\ Len(data) \in Nat
  BY <1>1, LenProperties
<1> HIDE DEF packet
<1>4. /\ b \in Seq(Octet) /\ Len(b) = Smaller(size, Len(packet))
      /\ Len(b) \in Nat /\ Len(b) <= size /\ Len(b) <= Len(packet)
      /\ \A k \in 1 .. Len(b) : b[k] = packet[k]
  BY <1>2, TakeOK
<1> HIDE DEF b
<1>5. /\ e.kind \in {ATYPIPv4, ATYPDomain, ATYPIPv6}
      /\ e.kind = ATYPIPv4 => Span(e) = 4
      /\ e.kind = ATYPIPv6 => Span(e) = 16
      /\ e.kind = ATYPDomain => Span(e) = 1 + Len(e.host) /\ Len(e.host) # 0
  <2>1. Len(e.host) # 0
    BY EndpointOK, EmptySeq
  <2> QED
    BY <2>1, EndpointAssumption DEF Span, ATYPIPv4, ATYPDomain, ATYPIPv6
<1>6. Len(b) >= 4 => b[4] = e.kind
  <2> SUFFICES ASSUME Len(b) >= 4 PROVE b[4] = e.kind
    OBVIOUS
  <2>1. b[4] = packet[4]
    BY <1>4
  <2>2. packet[4] = h[4]
    BY <1>1, <1>2, <1>3
  <2> QED
    BY <1>1, <2>1, <2>2
<1>7. Len(b) > 4 /\ e.kind = ATYPDomain => b[5] = Len(e.host)
  <2> SUFFICES ASSUME Len(b) > 4, e.kind = ATYPDomain PROVE b[5] = Len(e.host)
    OBVIOUS
  <2>1. b[5] = packet[5]
    BY <1>4
  <2>2. packet[5] = h[5]
    BY <1>1, <1>2, <1>3
  <2> QED
    BY <1>1, <2>1, <2>2
<1>8. ASSUME Len(b) >= 4
      PROVE  AddrSpan(b) = Span(e) \/ (AddrSpan(b) = 0 /\ Len(b) = 4)
  BY <1>4, <1>5, <1>6, <1>7, <1>8 DEF AddrSpan, ATYPIPv4, ATYPDomain, ATYPIPv6
<1>9. Span(e) # 0
  <2>1. Len(e.host) \in Nat
    BY EndpointOK, LenProperties
  <2> QED
    BY <1>5, <2>1
<1>10. CASE Len(b) <= Len(h)
  <2>1. NewDatagramFromBytes(b) = ErrBadRequest
    <3>1. CASE Len(b) < 4
      BY <3>1 DEF NewDatagramFromBytes
    <3>2. CASE Len(b) >= 4
      <4>1. AddrSpan(b) = 0 \/ TooShort(Len(b), 4 + AddrSpan(b) + 2)
        BY <1>1, <1>4, <1>8, <1>10, <3>2 DEF TooShort
      <4> QED
        BY <1>4, <3>2, <4>1 DEF NewDatagramFromBytes
    <3> QED
      BY <1>4, <3>1, <3>2
  <2>2. size <= Len(h) \/ Len(data) = 0
    BY <1>2, <1>3, <1>4, <1>10 DEF Smaller
  <2>3. ~(size > Len(h) /\ Fits(h, data, size) > 0)
    BY <1>3, <2>2 DEF Fits, Smaller
  <2> QED
    BY <2>1, <2>3 DEF Whole, h, packet, b
<1>11. CASE ~(Len(b) <= Len(h))
  <2>1. Len(b) > 6 /\ AddrSpan(b) = Span(e) /\ 4 + Span(e) + 2 = Len(h)
    BY <1>1, <1>3, <1>4, <1>8, <1>9, <1>11
  <2>2. ~(Len(b) < 4) /\ AddrSpan(b) # 0 /\ ~TooShort(Len(b), Len(h))
    BY <1>3, <1>4, <1>9, <1>11, <2>1 DEF TooShort
  <2>3. NewDatagramFromBytes(b) = SubSeq(b, Len(h) + 1, Len(b))
    BY <2>1, <2>2 DEF NewDatagramFromBytes
  <2> DEFINE f == Fits(h, data, size)
             u == SubSeq(b, Len(h) + 1, Len(b))
             v == SubSeq(data, 1, f)
  <2>4. /\ size > Len(h) /\ f \in Nat /\ f > 0
        /\ Len(b) = Len(h) + f /\ f <= Len(data)
    BY <1>2, <1>3, <1>4, <1>11 DEF Fits, Smaller
  <2> HIDE DEF f
  <2>5. /\ u \in Seq(Octet) /\ Len(u) = Len(b) - Len(h)
        /\ \A k \in 1 .. Len(b) - Len(h) : u[k] = b[Len(h) + k]
    <3>1. Len(h) \in 0 .. Len(b)
      BY <1>3, <1>4, <1>11
    <3> QED
      BY <1>4, <3>1, DropOK
  <2> HIDE DEF u
  <2>6. v \in Seq(Octet) /\ Len(v) = f /\ \A k \in 1 .. f : v[k] = data[k]
    <3> DEFINE w == SubSeq(data, 1, Smaller(f, Len(data)))
    <3>1. Smaller(f, Len(data)) = f
      BY <1>3, <2>4 DEF Smaller
    <3>2. f \in Nat
      BY <2>4
    <3>3. /\ w \in Seq(Octet) /\ Len(w) = Smaller(f, Len(data))
          /\ \A k \in 1 .. Len(w) : w[k] = data[k]
      BY <3>2, TakeOK
    <3>4. w = v
      BY <3>1
    <3> HIDE DEF w, v
    <3> QED
      BY <3>1, <3>3, <3>4
  <2> HIDE DEF v
  <2>7. Len(u) = Len(v)
    BY <1>3, <2>4, <2>5, <2>6
  <2>8. \A k \in 1 .. Len(u) : u[k] = v[k]
    <3>1. TAKE k \in 1 .. Len(u)
    <3>2. /\ k \in 1 .. f /\ k \in 1 .. Len(b) - Len(h)
          /\ Len(h) + k \in 1 .. Len(b) /\ Len(h) + k \in 1 .. Len(h) + Len(data)
          /\ ~(Len(h) + k <= Len(h)) /\ (Len(h) + k) - Len(h) = k
      BY <1>3, <1>4, <2>4, <2>5
    <3>3. u[k] = packet[Len(h) + k]
      BY <1>4, <2>5, <3>2
    <3>4. packet[Len(h) + k] = data[k]
      BY <1>2, <3>2
    <3> QED
      BY <2>6, <3>2, <3>3, <3>4
  <2>9. u = v
    BY <2>5, <2>6, <2>7, <2>8, SeqEqual
  <2>10. Whole(h, data, size) = v
    BY <2>4 DEF Whole, v, f
  <2> QED
    BY <2>3, <2>9, <2>10 DEF u, h, packet, b
<1> QED
  BY <1>10, <1>11

\* Where the buffer is large enough, the reader gives back what the writer was
\* given, for every address that names a host, unless it was given no data
\* (NewDatagram, NewDatagramFromBytes).
THEOREM DatagramRoundTrip ==
  ASSUME NEW e \in Endpoint, e.kind # Malformed, e.host # <<>>,
         NEW data \in Seq(Octet)
  PROVE  NewDatagramFromBytes(NewDatagram(ParseAddress(e), data))
           = IF data = <<>> THEN ErrBadRequest ELSE data
<1> DEFINE h == <<0, 0, 0>> \o Wire(e)
           packet == h \o data
<1>1. h \in Seq(Octet)
  BY HeadOK
<1> HIDE DEF h
<1>2. packet \in Seq(Octet) /\ Len(packet) = Len(h) + Len(data)
  BY <1>1, ConcatProperties
<1>3. Len(h) \in Nat /\ Len(data) \in Nat
  BY <1>1, LenProperties
<1>4. NewDatagram(ParseAddress(e), data) = packet
  <2>1. <<0, 0, 0>> \o Wire(e) \o data = packet
    BY DEF h
  <2> HIDE DEF packet
  <2> QED
    BY <2>1, DatagramForm
<1>5. NewDatagramFromBytes(SubSeq(packet, 1, Smaller(Len(packet), Len(packet))))
        = Whole(h, data, Len(packet))
  <2>1. Len(packet) \in Nat
    BY <1>2, <1>3
  <2> QED
    BY <2>1, DatagramCut DEF h
<1> HIDE DEF packet
<1>6. SubSeq(packet, 1, Smaller(Len(packet), Len(packet))) = packet
  BY <1>2, SubSeqFull DEF Smaller
<1>7. Whole(h, data, Len(packet)) = IF data = <<>> THEN ErrBadRequest ELSE data
  <2>1. Fits(h, data, Len(packet)) = Len(data)
    BY <1>2, <1>3 DEF Fits, Smaller
  <2>2. Len(packet) > Len(h) /\ Len(data) > 0 <=> data # <<>>
    BY <1>2, <1>3, EmptySeq
  <2>3. SubSeq(data, 1, Len(data)) = data
    BY SubSeqFull
  <2> QED
    BY <2>1, <2>2, <2>3 DEF Whole
<1> QED
  BY <1>4, <1>5, <1>6, <1>7

\* A packet that is no datagram, or has no data, is an error in any buffer.
LEMMA NoiseCut ==
  ASSUME NEW n \in Noise, NEW size \in Nat
  PROVE  LET packet == n \o <<>>
         IN  NewDatagramFromBytes(SubSeq(packet, 1, Smaller(size, Len(packet))))
               = Whole(n, <<>>, size)
<1> DEFINE b == SubSeq(n, 1, Smaller(size, Len(n)))
<1>1. n \in Seq(Octet) /\ n \o <<>> = n
  BY OctetsAssumption, ConcatEmptySeq
<1>2. Len(n) \in Nat
  BY <1>1, LenProperties
<1>3. /\ Len(b) \in Nat /\ Len(b) <= Len(n)
      /\ \A k \in 1 .. Len(b) : b[k] = n[k]
  BY <1>1, TakeOK
<1>4. Len(n) > 4 => n[5] \in Nat
  <2> SUFFICES ASSUME Len(n) > 4 PROVE n[5] \in Nat
    OBVIOUS
  <2>1. 5 \in 1 .. Len(n)
    BY <1>2
  <2> QED
    BY <1>1, <2>1, ElementOfSeq, OctetIsNat
<1> HIDE DEF b
<1>5. NewDatagramFromBytes(b) = ErrBadRequest
  <2>1. CASE Len(b) < 4
    BY <2>1 DEF NewDatagramFromBytes
  <2>2. CASE Len(b) >= 4
    <3>1. b[4] = n[4] /\ (Len(b) > 4 => b[5] = n[5])
      BY <1>3, <2>2
    <3>2. \/ Len(n) < 5 \/ n[4] \notin {ATYPIPv4, ATYPDomain, ATYPIPv6}
          \/ n[4] = ATYPIPv4 /\ Len(n) <= 10
          \/ n[4] = ATYPIPv6 /\ Len(n) <= 22
          \/ n[4] = ATYPDomain /\ (n[5] = 0 \/ Len(n) <= 7 + n[5])
      BY NoiseAssumption
    <3>3. AddrSpan(b) = 0 \/ Len(b) <= 4 + AddrSpan(b) + 2
      <4>1. CASE n[4] = ATYPIPv4
        <5>1. AddrSpan(b) = 4
          BY <3>1, <4>1 DEF AddrSpan, ATYPIPv4, ATYPDomain, ATYPIPv6
        <5> QED
          BY <1>2, <1>3, <3>2, <4>1, <5>1 DEF ATYPIPv4, ATYPDomain, ATYPIPv6
      <4>2. CASE n[4] = ATYPIPv6
        <5>1. AddrSpan(b) = 16
          BY <3>1, <4>2 DEF AddrSpan, ATYPIPv4, ATYPDomain, ATYPIPv6
        <5> QED
          BY <1>2, <1>3, <3>2, <4>2, <5>1 DEF ATYPIPv4, ATYPDomain, ATYPIPv6
      <4>3. CASE n[4] = ATYPDomain
        <5>1. AddrSpan(b) = IF Len(b) > 4 THEN (IF n[5] = 0 THEN 0 ELSE 1 + n[5]) ELSE 0
          BY <3>1, <4>3 DEF AddrSpan, ATYPIPv4, ATYPDomain, ATYPIPv6
        <5>2. n[5] = 0 \/ Len(n) <= 7 + n[5] \/ Len(n) < 5
          BY <3>2, <4>3 DEF ATYPIPv4, ATYPDomain, ATYPIPv6
        <5> QED
          BY <1>2, <1>3, <1>4, <5>1, <5>2
      <4>4. CASE n[4] \notin {ATYPIPv4, ATYPDomain, ATYPIPv6}
        BY <3>1, <4>4 DEF AddrSpan
      <4> QED
        BY <4>1, <4>2, <4>3, <4>4
    <3> QED
      BY <1>3, <2>2, <3>3 DEF NewDatagramFromBytes, TooShort
  <2> QED
    BY <1>3, <2>1, <2>2
<1>6. Whole(n, <<>>, size) = ErrBadRequest
  <2>1. Len(<<>>) = 0
    OBVIOUS
  <2>2. ~(Fits(n, <<>>, size) > 0)
    BY <1>2, <2>1 DEF Fits, Smaller
  <2> QED
    BY <2>2 DEF Whole
<1> QED
  BY <1>1, <1>5, <1>6 DEF b

\* What the packets in flight look like, each way, and what the last Read did.
UplinkForm ==
  \A d \in uplink : \E data \in Data : d = <<0, 0, 0>> \o Wire(dial.dst) \o data
DownlinkForm ==
  \A d \in downlink :
    \/ \E e \in Endpoint, data \in Data :
         /\ e.kind # Malformed /\ e.host # <<>>
         /\ d = [head |-> <<0, 0, 0>> \o Wire(e), data |-> data]
    \/ \E n \in Noise : d = [head |-> n, data |-> <<>>]
LastIsWhole == last.result = Whole(last.head, last.data, last.size)
DatagramInv == IInv /\ UplinkForm /\ DownlinkForm /\ LastIsWhole

LEMMA InitDatagramInv == Init => DatagramInv
<1> SUFFICES ASSUME Init PROVE DatagramInv
  OBVIOUS
<1>1. UplinkForm /\ DownlinkForm
  BY DEF Init, UplinkForm, DownlinkForm
<1>2. LastIsWhole
  <2>1. /\ last.head = <<>> /\ last.data = <<>>
        /\ last.size = 0 /\ last.result = ErrBadRequest
    BY DEF Init
  <2>2. Len(<<>>) = 0 /\ ~(0 > 0)
    OBVIOUS
  <2> QED
    BY <2>1, <2>2, Zenon DEF LastIsWhole, Whole
<1> QED
  BY <1>1, <1>2, InitIInv DEF DatagramInv

LEMMA WriteDatagramForm ==
  ASSUME DatagramInv, NEW data \in Data, WriteDatagram(data)
  PROVE  UplinkForm'
<1>1. /\ uplink' = uplink \cup {NewDatagram(ParseAddress(dial.dst), data)}
      /\ dial' = dial
  BY DEF WriteDatagram
<1>2. dial.dst \in Endpoint /\ data \in Seq(Octet)
  BY OctetsAssumption DEF DatagramInv, IInv, Dials
<1>3. NewDatagram(ParseAddress(dial.dst), data) = <<0, 0, 0>> \o Wire(dial.dst) \o data
  BY <1>2, DatagramForm
<1> QED
  BY <1>1, <1>3 DEF DatagramInv, UplinkForm

LEMMA ReadDatagramWhole ==
  ASSUME DatagramInv, NEW d \in downlink, NEW size \in Size, ReadDatagram(d, size)
  PROVE  LastIsWhole'
<1> DEFINE packet == d.head \o d.data
           result == NewDatagramFromBytes(SubSeq(packet, 1, Smaller(size, Len(packet))))
<1>1. last' = [head |-> d.head, data |-> d.data, size |-> size, result |-> result]
  BY DEF ReadDatagram
<1>2. size \in Nat
  BY BoundAssumption
<1>3. result = Whole(d.head, d.data, size)
  <2>1. CASE \E e \in Endpoint, data \in Data :
               /\ e.kind # Malformed /\ e.host # <<>>
               /\ d = [head |-> <<0, 0, 0>> \o Wire(e), data |-> data]
    <3>1. PICK e \in Endpoint, data \in Data :
            /\ e.kind # Malformed /\ e.host # <<>>
            /\ d = [head |-> <<0, 0, 0>> \o Wire(e), data |-> data]
      BY <2>1
    <3>2. data \in Seq(Octet)
      BY OctetsAssumption
    <3>3. d.head = <<0, 0, 0>> \o Wire(e) /\ d.data = data
      BY <3>1
    <3> QED
      BY <1>2, <3>1, <3>2, <3>3, DatagramCut
  <2>2. CASE \E n \in Noise : d = [head |-> n, data |-> <<>>]
    <3>1. PICK n \in Noise : d = [head |-> n, data |-> <<>>]
      BY <2>2
    <3>2. d.head = n /\ d.data = <<>>
      BY <3>1
    <3> QED
      BY <1>2, <3>2, NoiseCut
  <2> QED
    BY <2>1, <2>2 DEF DatagramInv, DownlinkForm
<1> HIDE DEF result
<1>4. /\ last'.head = d.head /\ last'.data = d.data
      /\ last'.size = size /\ last'.result = result
  BY <1>1
<1> QED
  BY <1>3, <1>4 DEF LastIsWhole, Whole, Fits

LEMMA NextDatagramInv == DatagramInv /\ [Next]_vars => DatagramInv'
<1> SUFFICES ASSUME DatagramInv, [Next]_vars PROVE DatagramInv'
  OBVIOUS
<1>1. IInv'
  BY NextIInv DEF DatagramInv
<1> SUFFICES UplinkForm' /\ DownlinkForm' /\ LastIsWhole'
  BY <1>1 DEF DatagramInv
<1>2. ASSUME UNCHANGED <<dial, uplink, downlink, last>>
      PROVE  UplinkForm' /\ DownlinkForm' /\ LastIsWhole'
  BY <1>2 DEF DatagramInv, UplinkForm, DownlinkForm, LastIsWhole, Whole, Fits
<1>3. CASE Dial
  <2>1. CASE \E field \in ReplyField : NewReplyFrom(field)
    BY <1>2, <2>1 DEF NewReplyFrom, Quiet, peer, app
  <2>2. CASE NegotiationRequest \/ NegotiationReply \/ Request
    BY <1>2, <2>2
       DEF NegotiationRequest, NegotiationReply, Request, WriteThen, Quiet, peer, app
  <2>3. CASE Unsupported \/ ConnectFails \/ ParseAddressFails \/ IoFails \/ AssociateFails
    BY <1>2, <2>3
       DEF Unsupported, ConnectFails, ParseAddressFails, IoFails, AssociateFails, Fail,
           Quiet, peer, app
  <2>4. CASE Connect \/ Associate
    BY <1>2, <2>4 DEF Connect, Associate, Quiet, peer, app
  <2> QED
    BY <1>3, <2>1, <2>2, <2>3, <2>4 DEF Dial
<1>4. CASE \/ Close \/ Finalize
           \/ \E size \in Size : Read(size)
           \/ \E data \in Data : Write(data)
           \/ \E s \in {"tcp", "udp"} : Expire(s)
  BY <1>2, <1>4 DEF Close, Finalize, Read, Write, Expire, client, peer, app
<1>5. CASE \E size \in Size : \E d \in downlink : ReadDatagram(d, size)
  <2>1. PICK size \in Size : \E d \in downlink : ReadDatagram(d, size)
    BY <1>5
  <2>2. PICK d \in downlink : ReadDatagram(d, size)
    BY <2>1
  <2>3. UNCHANGED <<dial, uplink, downlink>>
    BY <2>2 DEF ReadDatagram, peer
  <2>4. LastIsWhole'
    BY <2>2, ReadDatagramWhole
  <2> QED
    BY <2>3, <2>4 DEF DatagramInv, UplinkForm, DownlinkForm
<1>6. CASE \E data \in Data : WriteDatagram(data)
  <2>1. PICK data \in Data : WriteDatagram(data)
    BY <1>6
  <2>2. UNCHANGED <<downlink, last>>
    BY <2>1 DEF WriteDatagram, peer
  <2>3. UplinkForm'
    BY <2>1, WriteDatagramForm
  <2> QED
    BY <2>2, <2>3 DEF DatagramInv, DownlinkForm, LastIsWhole, Whole, Fits
<1>7. CASE ServerAnswers \/ ServerReplies \/ ServerRelays \/ ServerEnds \/ Arrive
  BY <1>2, <1>7
     DEF ServerAnswers, ServerReplies, ServerRelays, ServerEnds, Arrive, Sends, app
<1>8. CASE RelaysDatagram
  <2>1. UNCHANGED <<dial, uplink, last>>
    BY <1>8 DEF RelaysDatagram, app
  <2>2. DownlinkForm'
    <3>1. CASE \E e \in Endpoint, data \in Data :
                 /\ e.kind # Malformed /\ e.host # <<>>
                 /\ downlink' = downlink \cup
                                  {[head |-> <<0, 0, 0>> \o Wire(e), data |-> data]}
      BY <3>1 DEF DatagramInv, DownlinkForm
    <3>2. CASE \E n \in Noise : downlink' = downlink \cup {[head |-> n, data |-> <<>>]}
      BY <3>2 DEF DatagramInv, DownlinkForm
    <3> QED
      BY <1>8, <3>1, <3>2 DEF RelaysDatagram
  <2> QED
    BY <2>1, <2>2 DEF DatagramInv, UplinkForm, LastIsWhole, Whole, Fits
<1>9. CASE UNCHANGED vars
  BY <1>2, <1>9 DEF vars, peer, app
<1> QED
  BY <1>3, <1>4, <1>5, <1>6, <1>7, <1>8, <1>9 DEF Next

\* What is lost, repeated or reordered, cut off by the buffer or no datagram at
\* all: a Read returns the data of one datagram up to the end of the buffer, or
\* an error, for any address, data and buffer (NewDatagram, NewDatagramFromBytes).
THEOREM DatagramsAreWhole == Spec => []DatagramsWhole
<1>1. DatagramInv => DatagramsWhole
  BY DEF DatagramInv, UplinkForm, LastIsWhole, Whole, Fits, DatagramsWhole
<1> QED
  BY <1>1, InitDatagramInv, NextDatagramInv, PTL DEF Spec

===============================================================================
