----------------------------- MODULE SavedServers -----------------------------
(* What the app's store promises its screens, whatever files it is kept in: a   *)
(* row of servers, newest first, each with contents, and at most one of them   *)
(* chosen.  Every change is one step, so that no kill leaves half of one.      *)
EXTENDS Naturals, Sequences

CONSTANTS Guid, Config, None

VARIABLES servers,    \* the saved servers
          contents,   \* the configuration of each, None for any other key
          chosen,     \* the one to start, None if there is none
          outdated    \* the screen's, not the store's: it may show servers
                      \*   that are not saved any more

storeVars == <<servers, contents, chosen>>

Saved(g) == contents[g] # None

Init ==
  /\ servers = <<>>
  /\ contents = [g \in Guid |-> None]
  /\ chosen = None

Add(g, c) ==
  /\ ~Saved(g)
  /\ servers' = <<g>> \o servers
  /\ contents' = [contents EXCEPT ![g] = c]
  /\ UNCHANGED chosen

Edit(g, c) ==
  /\ Saved(g)
  /\ contents' = [contents EXCEPT ![g] = c]
  /\ UNCHANGED <<servers, chosen>>

\* One that is not saved can only be chosen on a screen that is outdated.
Choose(g) ==
  /\ Saved(g) \/ outdated
  /\ chosen' = g
  /\ UNCHANGED <<servers, contents>>

Release ==
  /\ chosen' = None
  /\ UNCHANGED <<servers, contents>>

\* The chosen server is released first.
Remove(g) ==
  /\ Saved(g) /\ g # chosen
  /\ \E i \in 1 .. Len(servers) :
       /\ servers[i] = g
       /\ servers' = SubSeq(servers, 1, i - 1) \o SubSeq(servers, i + 1, Len(servers))
  /\ contents' = [contents EXCEPT ![g] = None]
  /\ UNCHANGED chosen

Next ==
  \/ \E g \in Guid, c \in Config : Add(g, c) \/ Edit(g, c)
  \/ \E g \in Guid : Choose(g) \/ Remove(g)
  \/ Release

Spec == Init /\ [][Next]_storeVars
===============================================================================
