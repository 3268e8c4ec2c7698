------------------------------ MODULE Rendezvous ------------------------------
(* What the handshake promises, whatever carries it: the phone of a session    *)
(* draws a nonce, the session's child opens one port, the phone is told that   *)
(* port, and the child pairs with a phone that was told its port and drew its  *)
(* nonce.  None of the four is ever done over, by either side, or undone.      *)
CONSTANTS Sessions, Flags, Ports, None, FreshFlags

VARIABLES nonce,     \* what the phone drew
          opened,    \* the port the child opened
          told,      \* the port the phone sends to
          peer       \* the phone the child answers

meetVars == <<nonce, opened, told, peer>>

Nobody == [s \in Sessions |-> None]

Init == nonce = Nobody /\ opened = Nobody /\ told = Nobody /\ peer = Nobody

Draw(s, f) ==
  /\ nonce[s] = None
  /\ FreshFlags => \A t \in Sessions : nonce[t] # f
  /\ nonce' = [nonce EXCEPT ![s] = f]
  /\ UNCHANGED <<opened, told, peer>>

Open(s, p) ==
  /\ nonce[s] # None /\ opened[s] = None
  /\ opened' = [opened EXCEPT ![s] = p]
  /\ UNCHANGED <<nonce, told, peer>>

Tell(s) ==
  /\ opened[s] # None /\ told[s] = None
  /\ told' = [told EXCEPT ![s] = opened[s]]
  /\ UNCHANGED <<nonce, opened, peer>>

\* With fresh nonces t is s: only the phones of equal nonces can be taken for
\* one another, and of those only one whose child had the same port.
Pair(s, t) ==
  /\ peer[s] = None
  /\ told[t] # None /\ told[t] = opened[s]
  /\ nonce[t] = nonce[s]
  /\ peer' = [peer EXCEPT ![s] = t]
  /\ UNCHANGED <<nonce, opened, told>>

Next ==
  \E s \in Sessions :
    \/ \E f \in Flags : Draw(s, f)
    \/ \E p \in Ports : Open(s, p)
    \/ Tell(s)
    \/ \E t \in Sessions : Pair(s, t)

Spec == Init /\ [][Next]_meetVars
===============================================================================
