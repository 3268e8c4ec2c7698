------------------------------- MODULE MCSocks5 -------------------------------
(* Two IP addresses and a name, a name with the name of a port, a text without *)
(* a port; a port of one of them needs more than 16 bits.  A server that agrees *)
(* to either method, to none, or speaks another version, and replies with each *)
(* kind of address, refuses, or sends what no reply looks like.                *)
EXTENDS Socks5

IPv4(port) == [kind |-> ATYPIPv4, host |-> <<10, 0, 0, 7>>,
               numeric |-> TRUE, port |-> port]
MCLocal == IPv4(40000)
MCEndpoint == {IPv4(443),
               [kind |-> ATYPDomain, host |-> <<97, 98>>,
                numeric |-> TRUE, port |-> 65535],
               [kind |-> ATYPIPv6, host |-> [k \in 1 .. 16 |-> k],
                numeric |-> TRUE, port |-> 65616],
               [kind |-> ATYPDomain, host |-> <<97, 98>>,
                numeric |-> FALSE, port |-> 7],
               [kind |-> Malformed, host |-> <<>>, numeric |-> FALSE, port |-> 0]}
MCAnswer == {<<5, 0>>, <<5, 2>>, <<4, 0>>}
MCReply == {<<5, 0, 0, 1, 10, 0, 0, 1, 31, 144>>,
            <<5, 0, 0, 3, 1, 99, 31, 144>>,
            <<5, 0, 0, 4>> \o [k \in 1 .. 16 |-> k] \o <<31, 144>>,
            <<5, 4, 0, 1, 0, 0, 0, 0, 0, 0>>,
            <<5, 0, 0, 3, 0, 0, 0>>, <<5, 0, 0, 9>>, <<1, 1>>}
MCData == {<<>>, <<7>>, <<8, 9>>}
MCNoise == {<<0, 0>>, <<0, 0, 0, 9, 1, 1>>, <<0, 0, 0, 3, 0, 1, 1, 1>>,
            <<0, 0, 0, 1, 10, 0, 0, 7>>}

\* Its grants are framed as the protocol has it; the rest is nonsense.
ASSUME KeepsProtocol
===============================================================================
