----------------------------- MODULE MCAppFilter ------------------------------
(* The own app, one with a single icon and one with two; two editors.  The     *)
(* netmask is edited on the same screen; lists and netmask share no state, so  *)
(* it changes only before the lists do, which keeps the product small.         *)
EXTENDS AppFilter, TunSettings, TLC

CONSTANTS own, a, b, own1, a1, b1, b2

MCPkg == {own, a, b}
MCRow == {own1, a1, b1, b2}
\* Every netmask, octets at the borders, and past them.
MCEntered == {NetmaskOf[p] : p \in 0 .. 32}
               \cup [1 .. 4 -> {0, 127, 254, 255}]
               \cup [1 .. 4 -> {0, 255, 256, 257}]
MCPkgOf == own1 :> own @@ a1 :> a @@ b1 :> b @@ b2 :> b

ListsUntouched ==
  /\ mode = "none"
  /\ \A t \in ListType, p \in Pkg : stored[t][p] = 0
  /\ installed = Pkg
  /\ editors = <<>>

MCInit == Init /\ NetmaskInit

MCNext ==
  \/ Next /\ netmask = DefaultNetmask /\ UNCHANGED netmask
  \/ SaveNetmask /\ screen = "settings" /\ ListsUntouched /\ UNCHANGED vars

MCSpec == MCInit /\ [][MCNext]_<<vars, netmask>>
===============================================================================
