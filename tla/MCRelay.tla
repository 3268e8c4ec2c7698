------------------------------- MODULE MCRelay --------------------------------
(* A small instance of Relay: packets of one and of two bytes, a write cap that *)
(* splits a burst, three bytes per direction.                                   *)
EXTENDS Relay

MCPacket == {<<1>>, <<2, 3>>}
===============================================================================
