------------------------------- MODULE BytePipe -------------------------------
(* What one direction of the tunnel promises at one endpoint: the bytes that   *)
(* leave are the bytes that entered, in the same order, none missing, none     *)
(* twice and none invented.  Bytes still inside the pipe may stay there (the   *)
(* leg they are headed for may have failed).  Nothing is promised about where  *)
(* one packet ends and the next begins.                                        *)
EXTENDS Naturals, Sequences

CONSTANT Packet     \* the packets that may enter, non-empty sequences of bytes

VARIABLES sent,       \* every byte that entered
          delivered   \* every byte that left

pipeVars == <<sent, delivered>>

Init == sent = <<>> /\ delivered = <<>>

Send == \E p \in Packet : sent' = sent \o p /\ delivered' = delivered

Deliver == \E n \in (Len(delivered) + 1) .. Len(sent) :
             delivered' = SubSeq(sent, 1, n) /\ sent' = sent

Next == Send \/ Deliver

Spec == Init /\ [][Next]_pipeVars
===============================================================================
