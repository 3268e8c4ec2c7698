------------------------------ MODULE MCVpnApp --------------------------------
(* Two tunnels, six descriptors, at most one consent dialog; what must happen  *)
(* in the end is checked with one tunnel.                                      *)
EXTENDS VpnApp, TLC

CONSTANTS t1, t2

MCTunnels == {t1, t2}
MCOneTunnel == {t1}

\* Tunnels are alike: sound where no property is temporal.
MCSymmetry == Permutations(Tunnels)

\* Nothing is claimed of what follows a race between two status updates.
NoRaceYet == "race" \notin causes
===============================================================================
