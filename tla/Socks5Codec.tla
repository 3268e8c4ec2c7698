----------------------------- MODULE Socks5Codec ------------------------------
(* The wire formats of the Go SOCKS5 client: addresses, requests and UDP       *)
(* datagrams as sequences of bytes.  Functions only; Socks5 uses them.         *)
EXTENDS Naturals, Sequences

Ver == 5
MethodNone == 0
MethodUsernamePassword == 2
CmdConnect == 1
CmdUDP == 3
RepSuccess == 0
ATYPIPv4 == 1
ATYPDomain == 3
ATYPIPv6 == 4

\* An endpoint is the text of an address as net reads it: the kind and octets
\* of its host, whether its port is a number (a program may pass "http", or
\* nothing behind the colon), and which.  Text that net.SplitHostPort refuses has
\* the kind Malformed.
Malformed == 0

Octet == 0 .. 255

\* byte(n) and the big-endian uint16(n): what does not fit is cut off.
Byte(n) == n % 256
Uint16(n) == <<Byte(n \div 256), Byte(n)>>

\* A name is preceded by its length.
Counted(atyp, host) ==
  IF atyp = ATYPDomain THEN <<Byte(Len(host))>> \o host ELSE host

\* strconv.Atoi, whose error ParseAddress drops: what is no number becomes 0, and
\* PutUint16 cuts off what does not fit.
Atoi(e) == IF e.numeric THEN e.port ELSE 0

ParseAddress(e) ==
  [atyp |-> e.kind, addr |-> Counted(e.kind, e.host), port |-> Uint16(Atoi(e))]

\* Slips the codec could have had, for the mutants of the runs: the callers
\* forget h[1:], so a name is counted twice; n < minl instead of n <= minl.
HostKeepsCount(a) == a.addr
TooShortLetsEmptyPass(n, minl) == n < minl

\* h = h[1:], in every caller: NewRequest and NewDatagram count the name again.
Host(a) == IF a.atyp = ATYPDomain THEN Tail(a.addr) ELSE a.addr

NewRequest(cmd, a) ==
  <<Ver, cmd, 0, a.atyp>> \o Counted(a.atyp, Host(a)) \o a.port

NewDatagram(a, data) ==
  <<0, 0, 0, a.atyp>> \o Counted(a.atyp, Host(a)) \o a.port \o data

\* How many octets the address of a datagram takes, with the length octet; 0
\* where the reader refuses it.
AddrSpan(bb) ==
  CASE bb[4] = ATYPIPv4 -> 4
    [] bb[4] = ATYPIPv6 -> 16
    [] bb[4] = ATYPDomain /\ Len(bb) > 4 -> IF bb[5] = 0 THEN 0 ELSE 1 + bb[5]
    [] OTHER -> 0

\* minl counts the head, the address and the port: a datagram that ends there
\* is refused like one cut off before.
TooShort(n, minl) == n <= minl

\* The data of a datagram, or the error.
ErrBadRequest == "ErrBadRequest"
NewDatagramFromBytes(bb) ==
  IF Len(bb) < 4 THEN ErrBadRequest
  ELSE LET minl == 4 + AddrSpan(bb) + 2 IN
    IF AddrSpan(bb) = 0 \/ TooShort(Len(bb), minl) THEN ErrBadRequest
    ELSE SubSeq(bb, minl + 1, Len(bb))

===============================================================================
