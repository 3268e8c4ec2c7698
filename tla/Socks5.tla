-------------------------------- MODULE Socks5 --------------------------------
(* One Dial of the Go SOCKS5 client, the connection it returns, and a server.  *)
(* Dial is sequential: negotiation, request, reply, and for UDP an association *)
(* socket.  It reads the reply field by field with io.ReadFull from a byte     *)
(* stream that may arrive in any pieces, with the relayed bytes close behind.  *)
(* Around it: the deadlines, a server that closes or answers anything, and UDP *)
(* datagrams lost, repeated and reordered.                                     *)
EXTENDS Socks5Codec, FiniteSets

CONSTANTS Endpoint,   \* the addresses dialled
          Local,      \* the client's own end of the TCP connection
          Answer,     \* what servers answer to the negotiation
          Reply,      \* what servers answer to a request
          Data,       \* what the app writes and what the target sends
          Noise,      \* packets on the UDP socket that are no datagrams
          Size,       \* the sizes of the buffers the app reads into
          MaxBytes,   \* bound of the model: bytes relayed each way
          MaxPackets  \* bound of the model: UDP packets each way

\* What fits the wire: the length of a longer name would be cut off.  Any text may
\* stand for the port of a target; the client's own end has a real one.
ASSUME EndpointAssumption ==
  /\ \A e \in Endpoint \cup {Local} :
       /\ e.kind \in {Malformed, ATYPIPv4, ATYPDomain, ATYPIPv6}
       /\ e.host \in Seq(Octet) /\ Len(e.host) < 256
       /\ e.kind = ATYPIPv4 => Len(e.host) = 4
       /\ e.kind = ATYPIPv6 => Len(e.host) = 16
       /\ e.numeric \in BOOLEAN /\ e.port \in Nat
  /\ Local.kind # Malformed /\ Local.numeric /\ Local.port < 65536
ASSUME OctetsAssumption == Answer \cup Reply \cup Data \cup Noise \subseteq Seq(Octet)
ASSUME BoundAssumption == Size \subseteq Nat /\ MaxBytes \in 0 .. 156

\* A packet with nothing behind its address, or none.
ASSUME NoiseAssumption ==
  \A n \in Noise :
    \/ Len(n) < 5 \/ n[4] \notin {ATYPIPv4, ATYPDomain, ATYPIPv6}
    \/ n[4] = ATYPIPv4 /\ Len(n) <= 10
    \/ n[4] = ATYPIPv6 /\ Len(n) <= 22
    \/ n[4] = ATYPDomain /\ (n[5] = 0 \/ Len(n) <= 7 + n[5])

VARIABLES dial,       \* the arguments: network, user, timed, dst
          pc,         \* how far Dial is, and what became of it
          tcp, udp,   \* the client's sockets
          armed,      \* the sockets whose deadline is set
          late,       \* the sockets whose deadline has passed
          sent,       \* every byte the client wrote to TCPConn
          stream,     \* every byte the server wrote to it
          arrived,    \* how many of them have arrived
          pos,        \* how many of them the client has read
          reply,      \* what Dial has read of the reply
          server,     \* how far the server is
          ended,      \* how TCPConn has ended, seen from the client
          granted,    \* history: length of stream at the end of the reply
          put, got,   \* history: bytes the app wrote to and read from TCPConn
          uplink, downlink,  \* UDP packets: each may arrive often, late or never
          last        \* what the last Read on UDPConn was given and returned

client == <<pc, tcp, udp, armed, sent, pos, reply>>
peer == <<stream, arrived, server, ended, granted, downlink>>
app == <<put, got, uplink, last>>
vars == <<dial, late, client, peer, app>>

Dials == [network : {"tcp", "udp", "unix"}, user : BOOLEAN,
          timed : SUBSET {"tcp", "udp"}, dst : Endpoint]
ReplyField == {"head", "octet", "address", "port"}
Returned == {"ready", "closed", "failed"}

TypeOK ==
  /\ dial \in Dials
  /\ pc \in {"dial", "greet", "method", "request", "associate"} \cup ReplyField
            \cup Returned
  /\ tcp \in {"none", "open", "closed"} /\ udp \in {"none", "open", "closed"}
  /\ late \subseteq armed /\ armed \subseteq dial.timed
  /\ {sent, stream, put, got, reply} \subseteq Seq(Octet)
  /\ pos <= arrived /\ arrived <= Len(stream) /\ granted <= Len(stream)
  /\ server \in {"greeting", "requests", "relays", "done"}
  /\ ended \in {"no", "eof", "error"}

Init ==
  /\ dial \in Dials
  /\ pc = "dial" /\ tcp = "none" /\ udp = "none"
  /\ armed = {} /\ late = {}
  /\ sent = <<>> /\ stream = <<>> /\ arrived = 0 /\ pos = 0
  /\ reply = <<>> /\ server = "greeting" /\ ended = "no" /\ granted = 0
  /\ put = <<>> /\ got = <<>> /\ uplink = {} /\ downlink = {}
  /\ last = [head |-> <<>>, data |-> <<>>, size |-> 0, result |-> ErrBadRequest]

-------------------------------------------------------------------------------
(* The byte stream, as net.Conn and io.ReadFull offer it                       *)

Unread == arrived - pos
CanWrite == "tcp" \notin late /\ ended # "error"

\* A deadline or a reset fails a read; an end of file fails the one it cuts off.
ReadFails(n) ==
  \/ "tcp" \in late \/ ended = "error"
  \/ ended = "eof" /\ arrived = Len(stream) /\ Unread < n

\* Slip for the mutants of the runs: Read in the place of io.ReadFull.
CanReadSome(n) == "tcp" \notin late /\ Unread >= 1

CanRead(n) == "tcp" \notin late /\ Unread >= n
Upcoming(n) == SubSeq(stream, pos + 1, pos + n)

-------------------------------------------------------------------------------
(* Dial: whatever goes wrong, it returns nil and the error, and TCPConn stays  *)
(* open with nobody to close it.                                               *)

Quiet == UNCHANGED <<dial, late, peer, app>>
Fail == pc' = "failed" /\ UNCHANGED <<tcp, udp, armed, sent, pos, reply>> /\ Quiet

Unsupported == pc = "dial" /\ dial.network \notin {"tcp", "udp"} /\ Fail

\* Slip for the mutants of the runs: Negotiate sets no deadline.
ConnectUnarmed ==
  /\ pc = "dial" /\ dial.network \in {"tcp", "udp"}
  /\ pc' = "greet" /\ tcp' = "open"
  /\ UNCHANGED <<udp, armed, sent, pos, reply>> /\ Quiet

\* DialTCP, then the deadline, which holds for the connection's whole life.
Connect ==
  /\ pc = "dial" /\ dial.network \in {"tcp", "udp"}
  /\ pc' = "greet" /\ tcp' = "open" /\ armed' = dial.timed \cap {"tcp"}
  /\ UNCHANGED <<udp, sent, pos, reply>> /\ Quiet
ConnectFails == pc = "dial" /\ dial.network \in {"tcp", "udp"} /\ Fail

Method == IF dial.user THEN MethodUsernamePassword ELSE MethodNone

WriteThen(bytes, next) ==
  /\ CanWrite
  /\ sent' = sent \o bytes /\ pc' = next
  /\ UNCHANGED <<tcp, udp, armed, pos, reply>> /\ Quiet

NegotiationRequest == pc = "greet" /\ WriteThen(<<Ver, 1, Method>>, "method")

\* Whatever the method is, the next thing sent is the request: the code that would
\* send the user name and the password is commented out.
NegotiationReply ==
  /\ pc = "method" /\ CanRead(2)
  /\ pos' = pos + 2
  /\ pc' = IF Upcoming(2) = <<Ver, Method>> THEN "request" ELSE "failed"
  /\ UNCHANGED <<tcp, udp, armed, sent, reply>> /\ Quiet

\* An address without a port is noticed only here, and only for "tcp": for
\* "udp" the request names the client's own end of TCPConn.
ParseAddressFails ==
  pc = "request" /\ dial.network = "tcp" /\ dial.dst.kind = Malformed /\ Fail

Request ==
  /\ pc = "request"
  /\ \/ /\ dial.network = "tcp" /\ dial.dst.kind # Malformed
        /\ WriteThen(NewRequest(CmdConnect, ParseAddress(dial.dst)), "head")
     \/ /\ dial.network = "udp"
        /\ WriteThen(NewRequest(CmdUDP, ParseAddress(Local)), "head")

\* The length of the field NewReplyFrom reads next.
FieldLen(field) ==
  CASE field = "head" -> 4
    [] field = "octet" -> 1
    [] field = "port" -> 2
    [] OTHER -> CASE reply[4] = ATYPIPv4 -> 4
                  [] reply[4] = ATYPIPv6 -> 16
                  [] OTHER -> reply[5]

AfterHead(r) ==
  IF r[1] # Ver THEN "failed"
  ELSE CASE r[4] = ATYPDomain -> "octet"
         [] r[4] \in {ATYPIPv4, ATYPIPv6} -> "address"
         [] OTHER -> "failed"
AfterReply == IF dial.network = "tcp" THEN "ready" ELSE "associate"

\* Slip for the mutants of the runs: Request does not look at rp.Rep.
AfterFieldTakesAny(field, r) ==
  CASE field = "head" -> AfterHead(r)
    [] field = "octet" -> IF r[5] = 0 THEN "failed" ELSE "address"
    [] field = "address" -> "port"
    [] OTHER -> AfterReply

\* What follows a field, given all that has been read of the reply.
AfterField(field, r) ==
  CASE field = "head" -> AfterHead(r)
    [] field = "octet" -> IF r[5] = 0 THEN "failed" ELSE "address"
    [] field = "address" -> "port"
    [] OTHER -> IF r[2] = RepSuccess THEN AfterReply ELSE "failed"

\* Slip: a bufio.Reader around TCPConn, which ends with the reply and keeps what
\* it has read beyond it.
NewReplyFromBuffered(field) ==
  LET n == FieldLen(field) IN
    /\ pc = field /\ CanRead(n)
    /\ reply' = reply \o Upcoming(n)
    /\ pc' = AfterField(field, reply')
    /\ pos' = IF pc' = AfterReply THEN arrived ELSE pos + n
    /\ UNCHANGED <<tcp, udp, armed, sent>> /\ Quiet

NewReplyFrom(field) ==
  LET n == FieldLen(field) IN
    /\ pc = field /\ CanRead(n)
    /\ pos' = pos + n /\ reply' = reply \o Upcoming(n)
    /\ pc' = AfterField(field, reply')
    /\ UNCHANGED <<tcp, udp, armed, sent>> /\ Quiet

\* A write or a read that returns an error.
IoFails ==
  /\ \/ pc \in {"greet", "request"} /\ ~CanWrite
     \/ pc = "method" /\ ReadFails(2)
     \/ pc \in ReplyField /\ ReadFails(FieldLen(pc))
  /\ Fail

\* DialUDP from the local address of TCPConn to the address of the reply.
Associate ==
  /\ pc = "associate"
  /\ pc' = "ready" /\ udp' = "open" /\ armed' = armed \cup (dial.timed \cap {"udp"})
  /\ UNCHANGED <<tcp, sent, pos, reply>> /\ Quiet
AssociateFails == pc = "associate" /\ Fail

Dial ==
  \/ Unsupported \/ Connect \/ ConnectFails \/ NegotiationRequest
  \/ NegotiationReply \/ ParseAddressFails \/ Request
  \/ \E field \in ReplyField : NewReplyFrom(field)
  \/ IoFails \/ Associate \/ AssociateFails

-------------------------------------------------------------------------------
(* The connection Dial returned: UDPConn is nil in the "tcp" case.             *)

Smaller(m, n) == IF m < n THEN m ELSE n

Read(size) ==
  LET n == Smaller(size, Unread) IN
    /\ pc = "ready" /\ udp = "none" /\ n > 0 /\ CanRead(n)
    /\ pos' = pos + n /\ got' = got \o Upcoming(n)
    /\ UNCHANGED <<dial, late, pc, tcp, udp, armed, sent, reply, peer, put, uplink, last>>

Write(data) ==
  /\ pc = "ready" /\ udp = "none" /\ CanWrite
  /\ Len(put) + Len(data) <= MaxBytes
  /\ sent' = sent \o data /\ put' = put \o data
  /\ UNCHANGED <<dial, late, pc, tcp, udp, armed, pos, reply, peer, got, uplink, last>>

\* With an address that does not parse every Write is an error, and no step.
WriteDatagram(data) ==
  /\ pc = "ready" /\ udp = "open" /\ "udp" \notin late
  /\ dial.dst.kind # Malformed
  /\ uplink' = uplink \cup {NewDatagram(ParseAddress(dial.dst), data)}
  /\ Cardinality(uplink') <= MaxPackets
  /\ UNCHANGED <<dial, late, client, peer, put, got, last>>

\* The buffer is the app's: the packet, header and all, is cut to its size.
ReadDatagram(d, size) ==
  LET packet == d.head \o d.data IN
    /\ pc = "ready" /\ udp = "open" /\ "udp" \notin late
    /\ last' = [head |-> d.head, data |-> d.data, size |-> size,
                result |-> NewDatagramFromBytes(
                             SubSeq(packet, 1, Smaller(size, Len(packet))))]
    /\ UNCHANGED <<dial, late, client, peer, put, got, uplink>>

Close ==
  /\ pc = "ready" /\ pc' = "closed"
  /\ tcp' = "closed" /\ udp' = IF udp = "open" THEN "closed" ELSE udp
  /\ UNCHANGED <<dial, late, armed, sent, pos, reply, peer, app>>

\* The runtime's finalizer closes a TCPConn that a failed Dial left behind.
Finalize ==
  /\ pc = "failed" /\ tcp = "open" /\ tcp' = "closed"
  /\ UNCHANGED <<dial, late, pc, udp, armed, sent, pos, reply, peer, app>>

-------------------------------------------------------------------------------
(* The clock, the server and the network *)

Expire(s) ==
  /\ s \in armed \ late /\ late' = late \cup {s}
  /\ UNCHANGED <<dial, client, peer, app>>

Sends(bytes) ==
  /\ ended = "no" /\ stream' = stream \o bytes
  /\ UNCHANGED <<dial, late, client, arrived, ended, downlink, app>>

ServerAnswers ==
  /\ server = "greeting" /\ Len(sent) >= 3
  /\ server' = "requests" /\ granted' = granted
  /\ \E a \in Answer : Sends(a)

ServerReplies ==
  /\ server = "requests" /\ Len(sent) > 3
  /\ \E r \in Reply :
       /\ server' = IF r[1] = Ver /\ r[2] = RepSuccess THEN "relays" ELSE "done"
       /\ Sends(r) /\ granted' = Len(stream')

\* The bytes of the target are 100, 101, ...: none of them looks like another.
ServerRelays ==
  /\ server = "relays" /\ dial.network = "tcp"
  /\ Len(stream) - granted < MaxBytes
  /\ Sends(<<100 + Len(stream) - granted>>)
  /\ UNCHANGED <<server, granted>>

ServerEnds ==
  /\ tcp = "open" /\ ended # "error"
  /\ ended' \in {"eof", "error"} \ {ended}
  /\ UNCHANGED <<dial, late, client, stream, arrived, server, granted, downlink, app>>

Arrive ==
  /\ ended # "error" /\ arrived' \in (arrived + 1) .. Len(stream)
  /\ UNCHANGED <<dial, late, client, stream, server, ended, granted, downlink, app>>

\* The port a server reads: the target's where that is a number up to 65535.
\* Otherwise it is another one, 0 for a name.
PortRead(e) == IF e.numeric THEN e.port % 65536 ELSE 0

\* What an address looks like on the wire; see also the properties.
Wire(e) ==
  <<e.kind>> \o (IF e.kind = ATYPDomain THEN <<Len(e.host)>> ELSE <<>>) \o e.host
    \o <<PortRead(e) \div 256, PortRead(e) % 256>>

RelaysDatagram ==
  /\ udp = "open" /\ Cardinality(downlink) < MaxPackets
  /\ \/ \E e \in Endpoint, data \in Data :
          /\ e.kind # Malformed /\ e.host # <<>>
          /\ downlink' = downlink \cup {[head |-> <<0, 0, 0>> \o Wire(e), data |-> data]}
     \/ \E n \in Noise : downlink' = downlink \cup {[head |-> n, data |-> <<>>]}
  /\ UNCHANGED <<dial, late, client, stream, arrived, server, ended, granted, app>>

-------------------------------------------------------------------------------

Next ==
  \/ Dial \/ Close \/ Finalize
  \/ \E size \in Size : Read(size) \/ \E d \in downlink : ReadDatagram(d, size)
  \/ \E data \in Data : Write(data) \/ WriteDatagram(data)
  \/ \E s \in {"tcp", "udp"} : Expire(s)
  \/ ServerAnswers \/ ServerReplies \/ ServerRelays \/ ServerEnds \/ Arrive
  \/ RelaysDatagram

\* Dial runs on a goroutine of its own, and a deadline that is set passes.
Spec ==
  /\ Init /\ [][Next]_vars
  /\ WF_vars(Dial) /\ WF_vars(Expire("tcp"))

-------------------------------------------------------------------------------

\* A server that keeps to the protocol: it answers in two octets, and where it
\* grants a request its reply ends with the port, right behind the address, if it
\* has an address of a kind there is.  Whatever else it sends may be anything.
KeepsProtocol ==
  /\ \A a \in Answer : Len(a) = 2
  /\ \A r \in Reply :
       r[1] = Ver /\ r[2] = RepSuccess =>
         /\ Len(r) >= 4 /\ (r[4] = ATYPDomain => Len(r) > 4)
         /\ AddrSpan(r) # 0 => Len(r) = 6 + AddrSpan(r)

\* Dial returns a connection only once the server has agreed to the method and
\* granted the request, and it leaves the stream exactly at the end of the
\* reply, whatever the kind of its address and the pieces it came in; from there
\* on nobody but the app reads it (NewReplyFrom, Client.Read).
OpensInStep ==
  pc \in {"ready", "closed"} =>
    /\ server = "relays" /\ SubSeq(stream, 1, 2) = <<Ver, Method>>
    /\ pos = granted + Len(got)

\* What the target sends once the request is granted is a pipe to the app: it
\* reads the target's bytes from the first one on, in order, and never a byte of
\* the reply, however the two were cut into pieces (NewReplyFrom, Client.Read).
Relayed ==
  IF server = "relays" THEN SubSeq(stream, granted + 1, Len(stream)) ELSE <<>>
Target == INSTANCE BytePipe
            WITH Packet <- {<<99 + k>> : k \in 1 .. MaxBytes},
                 sent <- Relayed, delivered <- got
StreamIsPipe == Target!Spec

\* What the server reads is the negotiation, one request for the target's host
\* (for UDP the client's own end), and then the app's bytes: names are counted
\* once although ParseAddress and NewRequest both count them.  The port is the
\* target's only if that is a number up to 65535: ParseAddress drops Atoi's error
\* and asks for port 0 in the place of a name, for the low 16 bits of a larger
\* number (PortRead).
RequestNamesTarget ==
  Len(sent) > 3 =>
    sent = <<Ver, 1, Method>>
           \o (IF dial.network = "tcp" THEN <<Ver, CmdConnect, 0>> \o Wire(dial.dst)
                                       ELSE <<Ver, CmdUDP, 0>> \o Wire(Local))
           \o put

\* Every datagram written names the target's host and, as PortRead has it, port,
\* and carries what the app wrote.  A Read returns the data of one datagram, up
\* to what fits in the buffer behind the header, and an error if that is nothing:
\* for an empty datagram too.
DatagramsWhole ==
  /\ \A d \in uplink :
       \E data \in Data : d = <<0, 0, 0>> \o Wire(dial.dst) \o data
  /\ LET fits == Smaller(last.size - Len(last.head), Len(last.data))
     IN last.result = IF last.size > Len(last.head) /\ fits > 0
                      THEN SubSeq(last.data, 1, fits) ELSE ErrBadRequest

\* With a TCP timeout Dial always returns, with a connection or with an error,
\* also when the server stops in the middle of an answer (the deadline is set
\* before the first byte is exchanged).
DialReturns == "tcp" \in dial.timed => <>(pc \in Returned)
===============================================================================
