---------------------------- MODULE MCConfigStore -----------------------------
(* Three servers, two contents, two dialogs.                                   *)
EXTENDS ConfigStore

CONSTANTS g1, g2, g3, c1, c2

MCGuid == {g1, g2, g3}
MCConfig == {c1, c2}
===============================================================================
