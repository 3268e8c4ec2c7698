----------------------------- MODULE MCServerTree ------------------------------
(* Three processes: a main and two children, or a child and a second server.   *)
EXTENDS ServerTree

CONSTANTS p1, p2, p3, h1, h2

MCProc == {p1, p2, p3}
MCPhone == {h1, h2}
===============================================================================
