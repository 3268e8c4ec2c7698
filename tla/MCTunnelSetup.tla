---------------------------- MODULE MCTunnelSetup -----------------------------
(* Two phones, two nonces, the default port and one other.                     *)
EXTENDS TunnelSetup, TLC

CONSTANTS s1, s2, r1

MCPorts == {DefaultPort, r1}

\* Sessions are alike, and so are nonces: sound for invariants and for what each
\* step may do, not for liveness.
MCSymmetry == Permutations(Sessions) \cup Permutations(Flags)
===============================================================================
