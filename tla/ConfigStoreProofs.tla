--------------------------- MODULE ConfigStoreProofs ---------------------------
(* Theorems about ConfigStore, for any number of servers, contents and dialogs *)
(* and for a kill between any two writes.                                      *)
EXTENDS ConfigStore, SequenceTheorems, WellFoundedInduction, TLAPS

USE DEF diskVars, viewVars

-------------------------------------------------------------------------------
(* Sequences *)

\* No element occurs twice.
Once(q) == \A i, j \in DOMAIN q : q[i] = q[j] => i = j

LEMMA LeastElement ==
  ASSUME NEW S, S \subseteq Nat, S # {}
  PROVE  \E f \in S : \A g \in S : f <= g
<1>1. PICK f \in S : \A g \in S : ~ <<g, f>> \in OpToRel(<, Nat)
  BY NatLessThanWellFounded, WFMin, Zenon
<1>2. ASSUME NEW g \in S PROVE f <= g
  <2>1. f \in Nat /\ g \in Nat /\ <<g, f>> \in Nat \X Nat
    OBVIOUS
  <2>2. <<g, f>>[1] = g /\ <<g, f>>[2] = f
    OBVIOUS
  <2>3. ~ (g < f)
    BY <1>1, <2>1, <2>2 DEF OpToRel
  <2> QED
    BY <2>1, <2>3
<1> QED
  BY <1>2

\* What is left when the element at one place is removed.
LEMMA RemoveAtFacts ==
  ASSUME NEW S, NEW q \in Seq(S), NEW k \in 1 .. Len(q)
  PROVE  /\ RemoveAt(q, k) \in Seq(S)
         /\ Len(RemoveAt(q, k)) = Len(q) - 1
         /\ \A i \in 1 .. Len(q) - 1 :
              RemoveAt(q, k)[i] = IF i < k THEN q[i] ELSE q[i + 1]
<1> DEFINE a == SubSeq(q, 1, k - 1)
           b == SubSeq(q, k + 1, Len(q))
<1>1. Len(q) \in Nat /\ k \in Nat /\ 1 <= k /\ k <= Len(q)
  BY LenProperties
<1>2. \A i \in 1 .. Len(q) : q[i] \in S
  BY ElementOfSeq
<1>3. /\ a \in Seq(S) /\ Len(a) = k - 1
      /\ \A i \in 1 .. k - 1 : a[i] = q[i]
  BY <1>1, <1>2, SubSeqProperties
<1>4. /\ b \in Seq(S) /\ Len(b) = Len(q) - k
      /\ \A i \in 1 .. Len(q) - k : b[i] = q[k + i]
  BY <1>1, <1>2, SubSeqProperties
<1> HIDE DEF a, b
<1>5. /\ a \o b \in Seq(S) /\ Len(a \o b) = Len(a) + Len(b)
      /\ \A i \in 1 .. Len(a) + Len(b) :
           (a \o b)[i] = IF i <= Len(a) THEN a[i] ELSE b[i - Len(a)]
  BY <1>3, <1>4, ConcatProperties
<1>6. RemoveAt(q, k) = a \o b
  BY DEF RemoveAt, a, b
<1>7. ASSUME NEW i \in 1 .. Len(q) - 1
      PROVE  (a \o b)[i] = IF i < k THEN q[i] ELSE q[i + 1]
  <2>1. i \in 1 .. Len(a) + Len(b)
    BY <1>1, <1>3, <1>4
  <2>2. CASE i < k
    <3>1. i <= Len(a) /\ i \in 1 .. k - 1
      BY <1>1, <1>3, <2>2
    <3> QED
      BY <1>3, <1>5, <2>1, <2>2, <3>1
  <2>3. CASE ~ (i < k)
    <3>1. ~ (i <= Len(a)) /\ i - Len(a) \in 1 .. Len(q) - k /\ k + (i - Len(a)) = i + 1
      BY <1>1, <1>3, <2>3
    <3> QED
      BY <1>4, <1>5, <2>1, <2>3, <3>1
  <2> QED
    BY <2>2, <2>3
<1>8. Len(a \o b) = Len(q) - 1
  BY <1>1, <1>3, <1>4, <1>5
<1> QED
  BY <1>5, <1>6, <1>7, <1>8

\* RemoveFirst takes one element away, at most.
LEMMA RemoveFirstFacts ==
  ASSUME NEW S, NEW q \in Seq(S), NEW e
  PROVE  /\ RemoveFirst(q, e) \in Seq(S)
         /\ \A v \in S : Contains(RemoveFirst(q, e), v) => Contains(q, v)
         /\ \A v \in S : Contains(q, v) /\ v # e => Contains(RemoveFirst(q, e), v)
         /\ Once(q) => Once(RemoveFirst(q, e)) /\ ~ Contains(RemoveFirst(q, e), e)
<1>1. CASE ~ \E i \in 1 .. Len(q) : q[i] = e
  BY <1>1 DEF RemoveFirst, Contains
<1>2. CASE \E i \in 1 .. Len(q) : q[i] = e
  <2> DEFINE places == {i \in 1 .. Len(q) : q[i] = e}
             k == Min(places)
             r == RemoveAt(q, k)
  <2>1. Len(q) \in Nat /\ DOMAIN q = 1 .. Len(q)
    BY LenProperties
  <2>2. places \subseteq Nat /\ places # {}
    BY <1>2, <2>1
  <2>3. PICK f \in places : \A g \in places : f <= g
    BY <2>2, LeastElement
  <2>4. k \in places
    BY <2>3 DEF Min
  <2>5. RemoveFirst(q, e) = r
    BY <1>2 DEF RemoveFirst, SelectInSeq
  <2>6. k \in 1 .. Len(q) /\ q[k] = e
    BY <2>4
  <2> HIDE DEF places, k, r
  <2>7. /\ r \in Seq(S) /\ Len(r) = Len(q) - 1
        /\ \A i \in 1 .. Len(q) - 1 : r[i] = IF i < k THEN q[i] ELSE q[i + 1]
    BY <2>6, RemoveAtFacts DEF r
  <2>8. DOMAIN r = 1 .. Len(q) - 1
    BY <2>7, LenProperties
  <2>9. ASSUME NEW i \in 1 .. Len(q) - 1
        PROVE  \E j \in 1 .. Len(q) : j # k /\ r[i] = q[j] /\ j = IF i < k THEN i ELSE i + 1
    <3>1. CASE i < k
      BY <2>1, <2>6, <2>7, <3>1
    <3>2. CASE ~ (i < k)
      <4>1. i + 1 \in 1 .. Len(q) /\ i + 1 # k
        BY <2>1, <2>6, <3>2
      <4> QED
        BY <2>7, <3>2, <4>1
    <3> QED
      BY <3>1, <3>2
  <2>10. ASSUME NEW v, Contains(r, v) PROVE Contains(q, v)
    BY <2>7, <2>9, <2>10 DEF Contains
  <2>11. ASSUME NEW v, Contains(q, v), v # e PROVE Contains(r, v)
    <3>1. PICK j \in 1 .. Len(q) : q[j] = v
      BY <2>11 DEF Contains
    <3>2. j # k
      BY <2>6, <2>11, <3>1
    <3>3. CASE j < k
      <4>1. j \in 1 .. Len(q) - 1
        BY <2>1, <2>6, <3>3
      <4> QED
        BY <2>7, <3>1, <3>3, <4>1 DEF Contains
    <3>4. CASE j > k
      <4>1. j - 1 \in 1 .. Len(q) - 1 /\ ~ (j - 1 < k) /\ (j - 1) + 1 = j
        BY <2>1, <2>6, <3>4
      <4>2. r[j - 1] = q[j]
        BY <2>7, <4>1
      <4> QED
        BY <2>7, <3>1, <4>1, <4>2 DEF Contains
    <3> QED
      BY <2>1, <2>6, <3>2, <3>3, <3>4
  <2>12. ASSUME Once(q) PROVE Once(r) /\ ~ Contains(r, e)
    <3>1. ASSUME NEW i \in 1 .. Len(q) - 1, NEW j \in 1 .. Len(q) - 1, r[i] = r[j]
          PROVE  i = j
      <4>1. PICK m \in 1 .. Len(q) : r[i] = q[m] /\ m = IF i < k THEN i ELSE i + 1
        BY <2>9
      <4>2. PICK n \in 1 .. Len(q) : r[j] = q[n] /\ n = IF j < k THEN j ELSE j + 1
        BY <2>9
      <4>3. m = n
        BY <2>1, <2>12, <3>1, <4>1, <4>2 DEF Once
      <4> QED
        BY <2>1, <2>6, <4>1, <4>2, <4>3
    <3>2. ASSUME NEW i \in 1 .. Len(q) - 1, r[i] = e PROVE FALSE
      <4>1. PICK m \in 1 .. Len(q) : m # k /\ r[i] = q[m]
        BY <2>9
      <4> QED
        BY <2>1, <2>6, <2>12, <3>2, <4>1 DEF Once
    <3> QED
      BY <2>7, <2>8, <3>1, <3>2 DEF Once, Contains
  <2> QED
    BY <2>5, <2>7, <2>10, <2>11, <2>12
<1> QED
  BY <1>1, <1>2

\* RemoveFirst takes out one element, the first of its kind, or nothing.
LEMMA RemoveFirstAt ==
  ASSUME NEW S, NEW q \in Seq(S), NEW e
  PROVE  IF Contains(q, e)
         THEN \E i \in 1 .. Len(q) :
                /\ q[i] = e
                /\ RemoveFirst(q, e) = SubSeq(q, 1, i - 1) \o SubSeq(q, i + 1, Len(q))
         ELSE RemoveFirst(q, e) = q
<1>1. CASE ~ \E i \in 1 .. Len(q) : q[i] = e
  BY <1>1 DEF RemoveFirst, Contains
<1>2. CASE \E i \in 1 .. Len(q) : q[i] = e
  <2> DEFINE places == {i \in 1 .. Len(q) : q[i] = e}
             k == Min(places)
  <2>1. places \subseteq Nat /\ places # {}
    BY <1>2
  <2>2. PICK f \in places : \A g \in places : f <= g
    BY <2>1, LeastElement
  <2>3. k \in places
    BY <2>2 DEF Min
  <2>4. RemoveFirst(q, e) = RemoveAt(q, k)
    BY <1>2 DEF RemoveFirst, SelectInSeq
  <2>5. k \in 1 .. Len(q) /\ q[k] = e
    BY <2>3
  <2> HIDE DEF places, k
  <2>6. RemoveFirst(q, e) = SubSeq(q, 1, k - 1) \o SubSeq(q, k + 1, Len(q))
    BY <2>4 DEF RemoveAt
  <2>7. Contains(q, e)
    BY <2>5 DEF Contains
  <2> QED
    BY <2>5, <2>6, <2>7
<1> QED
  BY <1>1, <1>2

\* A removal keeps the elements in front of a place that is not behind the one it
\* takes away.
LEMMA RemoveFirstKeeps ==
  ASSUME NEW S, NEW q \in Seq(S), NEW e, NEW p \in Nat
  PROVE  /\ Len(RemoveFirst(q, e)) <= Len(q)
         /\ (\A i \in 1 .. Len(q) : q[i] = e => ~ (i < p)) =>
              \A i \in 1 .. Len(RemoveFirst(q, e)) : i < p => RemoveFirst(q, e)[i] = q[i]
<1>1. Len(q) \in Nat
  BY LenProperties
<1>2. CASE ~ Contains(q, e)
  <2>1. RemoveFirst(q, e) = q
    BY <1>2, RemoveFirstAt
  <2> QED
    BY <1>1, <2>1
<1>3. CASE Contains(q, e)
  <2>1. PICK k \in 1 .. Len(q) :
          /\ q[k] = e
          /\ RemoveFirst(q, e) = SubSeq(q, 1, k - 1) \o SubSeq(q, k + 1, Len(q))
    BY <1>3, RemoveFirstAt
  <2> DEFINE r == RemoveAt(q, k)
  <2>2. RemoveFirst(q, e) = r
    BY <2>1 DEF RemoveAt
  <2>3. /\ Len(r) = Len(q) - 1
        /\ \A i \in 1 .. Len(q) - 1 : r[i] = IF i < k THEN q[i] ELSE q[i + 1]
    BY RemoveAtFacts
  <2> HIDE DEF r
  <2>4. Len(r) <= Len(q)
    BY <1>1, <2>3
  <2>5. ASSUME \A i \in 1 .. Len(q) : q[i] = e => ~ (i < p),
               NEW i \in 1 .. Len(r), i < p
        PROVE  r[i] = q[i]
    <3>1. ~ (k < p)
      BY <2>1, <2>5
    <3>2. i < k /\ i \in 1 .. Len(q) - 1
      BY <2>3, <2>5, <3>1
    <3> QED
      BY <2>3, <3>2
  <2> QED
    BY <2>2, <2>4, <2>5
<1> QED
  BY <1>2, <1>3

\* A function on the first numbers is a sequence.
LEMMA FunctionIsSeq ==
  ASSUME NEW S, NEW n \in Nat, NEW F \in [1 .. n -> S]
  PROVE  F \in Seq(S) /\ Len(F) = n
  OBVIOUS

\* When every server has its configuration, the rows are the list.
LEMMA RowsOfUsable ==
  ASSUME list \in Seq(Guid), \A i \in DOMAIN list : HasConfig(list[i])
  PROVE  Rows = list
<1> DEFINE Cached(g) ==
      g = [i \in 0 .. Len(list) |->
             IF i = 0 THEN <<>>
             ELSE IF HasConfig(list[i]) THEN Append(g[i - 1], list[i])
             ELSE g[i - 1]]
           upTo == [i \in 0 .. Len(list) |-> SubSeq(list, 1, i)]
           first == CHOOSE g : Cached(g)
<1>1. Len(list) \in Nat /\ DOMAIN list = 1 .. Len(list)
  BY LenProperties
<1>2. \A i \in 1 .. Len(list) : list[i] \in Guid /\ HasConfig(list[i])
  BY <1>1, ElementOfSeq
<1>3. ASSUME NEW i \in 0 .. Len(list)
      PROVE  /\ SubSeq(list, 1, i) \in Seq(Guid) /\ Len(SubSeq(list, 1, i)) = i
             /\ \A j \in 1 .. i : SubSeq(list, 1, i)[j] = list[j]
  BY <1>1, <1>2, SubSeqProperties
<1>4. ASSUME NEW i \in 1 .. Len(list)
      PROVE  SubSeq(list, 1, i) = Append(SubSeq(list, 1, i - 1), list[i])
  <2> DEFINE s == SubSeq(list, 1, i - 1)
  <2>1. i - 1 \in 0 .. Len(list) /\ i \in 0 .. Len(list) /\ i \in Nat
    BY <1>1
  <2>2. s \in Seq(Guid) /\ Len(s) = i - 1 /\ \A j \in 1 .. i - 1 : s[j] = list[j]
    BY <1>3, <2>1
  <2> HIDE DEF s
  <2>3. /\ Append(s, list[i]) \in Seq(Guid) /\ Len(Append(s, list[i])) = i
        /\ \A j \in 1 .. i - 1 : Append(s, list[i])[j] = list[j]
        /\ Append(s, list[i])[i] = list[i]
    BY <1>2, <2>1, <2>2, AppendProperties
  <2>4. \A j \in 1 .. i : Append(s, list[i])[j] = list[j]
    BY <2>1, <2>3
  <2>5. SubSeq(list, 1, i) = Append(s, list[i])
    BY <1>3, <2>1, <2>3, <2>4, SeqEqual
  <2> QED
    BY <2>5 DEF s
<1>5. SubSeq(list, 1, 0) = <<>>
  BY SubSeqEmpty
<1>6. Cached(upTo)
  <2>1. ASSUME NEW i \in 0 .. Len(list)
        PROVE  upTo[i] = IF i = 0 THEN <<>>
                         ELSE IF HasConfig(list[i]) THEN Append(upTo[i - 1], list[i])
                         ELSE upTo[i - 1]
    <3>1. CASE i = 0
      BY <1>5, <3>1
    <3>2. CASE i # 0
      <4>1. i \in 1 .. Len(list) /\ i - 1 \in 0 .. Len(list)
        BY <1>1, <3>2
      <4> QED
        BY <1>2, <1>4, <3>2, <4>1
    <3> QED
      BY <3>1, <3>2
  <2> QED
    BY <2>1
<1>7. Cached(first)
  BY <1>6
<1> HIDE DEF first
<1>8. \A i \in 0 .. Len(list) : first[i] = SubSeq(list, 1, i)
  <2> DEFINE wrong == {i \in 0 .. Len(list) : first[i] # SubSeq(list, 1, i)}
  <2> SUFFICES ASSUME wrong # {} PROVE FALSE
    OBVIOUS
  <2>1. PICK i \in wrong : \A j \in wrong : i <= j
    <3>1. wrong \subseteq Nat
      BY <1>1
    <3> QED
      BY <3>1, LeastElement
  <2>2. i \in 0 .. Len(list) /\ first[i] # SubSeq(list, 1, i)
    OBVIOUS
  <2>3. CASE i = 0
    <3>1. first[0] = <<>>
      BY <1>1, <1>7
    <3> QED
      BY <1>5, <2>2, <2>3, <3>1
  <2>4. CASE i # 0
    <3>1. i \in 1 .. Len(list) /\ i - 1 \in 0 .. Len(list) /\ ~ (i <= i - 1)
      BY <1>1, <2>2, <2>4
    <3>2. first[i - 1] = SubSeq(list, 1, i - 1)
      BY <2>1, <3>1
    <3>3. first[i] = Append(first[i - 1], list[i])
      BY <1>2, <1>7, <2>2, <2>4, <3>1
    <3> QED
      BY <1>4, <2>2, <3>1, <3>2, <3>3
  <2> QED
    BY <2>3, <2>4
<1>9. Rows = first[Len(list)]
  BY DEF Rows, first
<1> QED
  BY <1>1, <1>8, <1>9, SubSeqFull

-------------------------------------------------------------------------------
(* The inductive invariant *)

RemoveSteps == {"removeSelected", "removeFromList", "removeConfig", "removeFromCache"}

\* What a handler is about and has done, at each of its steps.
Handlers ==
  /\ step \in {"saveList", "saveSelected"} \cup RemoveSteps => key \in Guid
  /\ step \in {"saveList", "saveSelected"} => HasConfig(key)
  /\ step = "saveSelected" => Contains(list, key)
  /\ step \in {"removeFromList", "removeConfig", "removeFromCache"} => selected # key
  /\ step \in {"removeConfig", "removeFromCache"} => ~ Contains(list, key)

\* Which handlers run on which screen.
Screens ==
  /\ screen = "dead" => step = "idle"
  /\ screen = "main" => step \in {"idle"} \cup RemoveSteps
  /\ screen = "config" => step \in {"idle", "saveList", "saveSelected", "finish"}

\* What the view model shows: the list, or what the removal under way has left.
\* The screen has a row for each server of the view model, and that server's
\* unless a row was removed at a position it no longer had.
View ==
  screen = "main" =>
    /\ step = "idle" => serverList = list /\ serversCache = list
    /\ step \in {"removeSelected", "removeFromList"} =>
         serverList = RemoveFirst(list, key) /\ serversCache = list
    /\ step \in {"removeConfig", "removeFromCache"} =>
         serverList = list /\ RemoveFirst(serversCache, key) = list
    /\ Len(shown) = Len(serversCache)
    /\ ~ misplaced => shown = serversCache

IInv ==
  /\ TypeOK
  /\ Handlers
  /\ Screens
  /\ View
  /\ ListUsable
  /\ SelectedUsable

\* ListUsable in terms of Contains, as the steps change it.
LEMMA UsableMeans ==
  ASSUME list \in Seq(Guid)
  PROVE  ListUsable <=> Once(list) /\ \A g \in Guid : Contains(list, g) => HasConfig(g)
<1>1. DOMAIN list = 1 .. Len(list)
  BY LenProperties
<1>2. \A i \in 1 .. Len(list) : list[i] \in Guid
  BY ElementOfSeq
<1> QED
  BY <1>1, <1>2 DEF ListUsable, Once, Contains

\* The same of the next state.
LEMMA UsableNext ==
  ASSUME list' \in Seq(Guid)
  PROVE  ListUsable' <=> Once(list') /\ \A g \in Guid : Contains(list', g) => configs'[g] # None
<1>1. DOMAIN list' = 1 .. Len(list')
  BY LenProperties
<1>2. \A i \in 1 .. Len(list') : list'[i] \in Guid
  BY ElementOfSeq
<1> QED
  BY <1>1, <1>2 DEF ListUsable, Once, Contains, HasConfig

\* A new server goes to the front.
LEMMA Prepended ==
  ASSUME NEW q \in Seq(Guid), NEW g \in Guid
  PROVE  /\ <<g>> \o q \in Seq(Guid)
         /\ \A v : Contains(<<g>> \o q, v) <=> v = g \/ Contains(q, v)
         /\ Once(q) /\ ~ Contains(q, g) => Once(<<g>> \o q)
<1> DEFINE r == <<g>> \o q
<1>1. Len(q) \in Nat /\ DOMAIN q = 1 .. Len(q)
  BY LenProperties
<1>2. <<g>> \in Seq(Guid) /\ Len(<<g>>) = 1 /\ <<g>>[1] = g
  OBVIOUS
<1>3. /\ r \in Seq(Guid) /\ Len(r) = Len(q) + 1
      /\ \A i \in 1 .. Len(q) + 1 : r[i] = IF i <= 1 THEN <<g>>[i] ELSE q[i - 1]
  BY <1>1, <1>2, ConcatProperties
<1>4. DOMAIN r = 1 .. Len(q) + 1
  BY <1>3, LenProperties
<1> HIDE DEF r
<1>5. r[1] = g /\ 1 \in 1 .. Len(q) + 1
  BY <1>1, <1>2, <1>3
<1>6. \A i \in 1 .. Len(q) : r[i + 1] = q[i] /\ i + 1 \in 1 .. Len(q) + 1
  BY <1>1, <1>3
<1>7. \A i \in 1 .. Len(q) + 1 : i # 1 => i - 1 \in 1 .. Len(q) /\ r[i] = q[i - 1]
  BY <1>1, <1>3
<1>8. ASSUME NEW v PROVE Contains(r, v) <=> v = g \/ Contains(q, v)
  <2>1. ASSUME Contains(r, v), v # g PROVE Contains(q, v)
    BY <1>3, <1>5, <1>7, <2>1 DEF Contains
  <2>2. ASSUME Contains(q, v) PROVE Contains(r, v)
    <3>1. PICK i \in 1 .. Len(q) : q[i] = v
      BY <2>2 DEF Contains
    <3>2. r[i + 1] = v /\ i + 1 \in 1 .. Len(r)
      BY <1>3, <1>6, <3>1
    <3> QED
      BY <3>2 DEF Contains
  <2>3. Contains(r, g)
    BY <1>3, <1>5 DEF Contains
  <2> QED
    BY <2>1, <2>2, <2>3
<1>9. ASSUME Once(q), ~ Contains(q, g), NEW i \in 1 .. Len(q) + 1, NEW j \in 1 .. Len(q) + 1,
             r[i] = r[j]
      PROVE  i = j
  <2>1. CASE i = 1 \/ j = 1
    BY <1>5, <1>7, <1>9, <2>1 DEF Contains
  <2>2. CASE i # 1 /\ j # 1
    <3>1. i - 1 = j - 1
      BY <1>1, <1>7, <1>9, <2>2 DEF Once
    <3> QED
      BY <1>1, <3>1
  <2> QED
    BY <2>1, <2>2
<1>10. Once(q) /\ ~ Contains(q, g) => Once(r)
  BY <1>4, <1>9 DEF Once
<1> QED
  BY <1>3, <1>8, <1>10 DEF r
-------------------------------------------------------------------------------
(* The invariant is inductive *)

LEMMA InitIInv == Init => IInv
<1> SUFFICES ASSUME Init PROVE IInv
  OBVIOUS
<1>1. <<>> \in Seq(Guid) /\ <<>> \in Seq(Question) /\ DOMAIN list = {} /\ Len(list) = 0
  BY DEF Init
<1>2. TypeOK
  BY <1>1 DEF Init, TypeOK, Steps
<1>3. Handlers /\ Screens /\ View /\ SelectedUsable
  BY DEF Init, Handlers, Screens, View, SelectedUsable, RemoveSteps
<1>4. ListUsable
  BY <1>1 DEF ListUsable
<1> QED
  BY <1>2, <1>3, <1>4 DEF IInv

\* The question on top, and those below it.
LEMMA FrontAndLast ==
  ASSUME NEW S, NEW q \in Seq(S), q # <<>>
  PROVE  Front(q) \in Seq(S) /\ Last(q) \in S
<1>1. Len(q) \in Nat /\ Len(q) # 0
  BY LenProperties, EmptySeq
<1>2. \A i \in 1 .. Len(q) : q[i] \in S
  BY ElementOfSeq
<1>3. SubSeq(q, 1, Len(q) - 1) \in Seq(S)
  BY <1>1, <1>2, SubSeqProperties
<1>4. q[Len(q)] \in S
  BY <1>1, <1>2
<1> QED
  BY <1>3, <1>4 DEF Front, Last

\* The rows, where they are computed.
LEMMA RowsAre ==
  ASSUME TypeOK, ListUsable
  PROVE  Rows = list
BY RowsOfUsable DEF TypeOK, ListUsable

\* A row is a key.
LEMMA RowIsKey ==
  ASSUME TypeOK, NEW i \in DOMAIN shown
  PROVE  i \in Nat /\ i \in 1 .. Len(shown) /\ shown[i] \in Guid
BY LenProperties, ElementOfSeq DEF TypeOK

\* The rows that are left when one is removed.
LEMMA RowRemoved ==
  ASSUME IInv, RemoveFromCache
  PROVE  /\ serversCache' \in Seq(Guid) /\ shown' \in Seq(Guid)
         /\ Len(shown') = Len(serversCache')
         /\ ~ misplaced' => shown' = serversCache'
<1> DEFINE n == Len(serversCache')
<1>1. /\ serversCache \in Seq(Guid) /\ shown \in Seq(Guid) /\ place \in Nat
      /\ misplaced \in BOOLEAN
  BY DEF IInv, TypeOK
<1>2. Len(shown) = Len(serversCache) /\ (~ misplaced => shown = serversCache)
  BY DEF IInv, TypeOK, Screens, View, RemoveSteps, RemoveFromCache
<1>3. serversCache' = RemoveFirst(serversCache, key) /\ serversCache' \in Seq(Guid)
  BY <1>1, RemoveFirstFacts DEF RemoveFromCache
<1>4. n \in Nat /\ n <= Len(serversCache) /\ DOMAIN serversCache' = 1 .. n
  BY <1>1, <1>3, RemoveFirstKeeps, LenProperties
<1>5. /\ \A i \in 1 .. n : serversCache'[i] \in Guid
      /\ \A i \in 1 .. Len(shown) : shown[i] \in Guid
      /\ Len(shown) \in Nat /\ DOMAIN serversCache = 1 .. Len(serversCache)
  BY <1>1, <1>3, LenProperties, ElementOfSeq
<1>6. shown' = [i \in 1 .. n |-> IF i < place THEN shown[i] ELSE serversCache'[i]]
  BY <1>4 DEF RemoveFromCache
<1> HIDE DEF n
<1>7. shown' \in [1 .. n -> Guid]
  BY <1>2, <1>4, <1>5, <1>6
<1>8. shown' \in Seq(Guid) /\ Len(shown') = n
  BY <1>4, <1>7, FunctionIsSeq
<1>9. ASSUME ~ misplaced' PROVE shown' = serversCache'
  <2>1. /\ ~ misplaced
        /\ \A i \in 1 .. Len(serversCache) : serversCache[i] = key => ~ (i < place)
    BY <1>5, <1>9 DEF RemoveFromCache
  <2>2. \A i \in 1 .. n : i < place => serversCache'[i] = serversCache[i]
    BY <1>1, <1>3, <2>1, RemoveFirstKeeps DEF n
  <2>3. \A i \in 1 .. n : shown'[i] = serversCache'[i]
    BY <1>2, <1>6, <2>1, <2>2
  <2> QED
    BY <1>3, <1>8, <2>3, SeqEqual DEF n
<1> QED
  BY <1>3, <1>8, <1>9 DEF n

\* The rows after a tap that selects: two of them are bound again.
LEMMA RowsRebound ==
  ASSUME IInv, NEW i \in DOMAIN shown, SelectServer(i)
  PROVE  /\ shown' \in Seq(Guid) /\ Len(shown') = Len(shown)
         /\ shown = serversCache => shown' = shown
<1>1. shown \in Seq(Guid) /\ serversCache \in Seq(Guid)
  BY DEF IInv, TypeOK
<1>2. /\ Len(shown) \in Nat /\ DOMAIN shown = 1 .. Len(shown)
      /\ \A j \in DOMAIN shown : shown[j] \in Guid
      /\ \A j \in DOMAIN serversCache : serversCache[j] \in Guid
  BY <1>1, LenProperties, ElementOfSeq
<1>3. shown' = [j \in 1 .. Len(shown) |->
                  IF j \in DOMAIN serversCache /\ serversCache[j] \in {selected, shown[i]}
                  THEN serversCache[j] ELSE shown[j]]
  BY <1>2 DEF SelectServer
<1>4. shown' \in [1 .. Len(shown) -> Guid]
  BY <1>2, <1>3
<1>5. shown' \in Seq(Guid) /\ Len(shown') = Len(shown)
  BY <1>2, <1>4, FunctionIsSeq
<1>6. ASSUME shown = serversCache PROVE shown' = shown
  <2>1. \A j \in 1 .. Len(shown) : shown'[j] = shown[j]
    BY <1>3, <1>6
  <2> QED
    BY <1>1, <1>5, <2>1, SeqEqual
<1> QED
  BY <1>5, <1>6

LEMMA NextTypeOK ==
  ASSUME IInv, Next
  PROVE  TypeOK'
<1> USE DEF TypeOK, Steps
<1>1. TypeOK
  BY DEF IInv
<1>2. CASE OpenAdd
  BY <1>1, <1>2 DEF OpenAdd
<1>3. CASE GoHome
  BY <1>1, <1>3 DEF GoHome
<1>4. CASE DeleteServer
  BY <1>1, <1>4 DEF DeleteServer
<1>5. CASE Dismiss
  <2>1. dialogs' \in Seq(Question)
    BY <1>1, <1>5, FrontAndLast DEF Dismiss
  <2> QED
    BY <1>1, <1>5, <2>1 DEF Dismiss
<1>6. CASE ConfirmRemove
  <2>1. /\ Last(dialogs).guid \in Guid /\ Last(dialogs).position \in Nat
        /\ Front(dialogs) \in Seq(Question)
    <3>1. Last(dialogs) \in Question /\ Front(dialogs) \in Seq(Question)
      BY <1>1, <1>6, FrontAndLast DEF ConfirmRemove
    <3> QED
      BY <3>1 DEF Question
  <2>2. serverList' \in Seq(Guid)
    BY <1>1, <1>6, RemoveFirstFacts DEF ConfirmRemove
  <2> QED
    BY <1>1, <1>6, <2>1, <2>2 DEF ConfirmRemove
<1>7. CASE \E i \in DOMAIN shown : OpenEdit(i) \/ ClickRemove(i) \/ SelectServer(i)
  <2>1. PICK i \in DOMAIN shown : OpenEdit(i) \/ ClickRemove(i) \/ SelectServer(i)
    BY <1>7
  <2>2. shown[i] \in Guid /\ [guid |-> shown[i], position |-> i] \in Question
    BY <1>1, RowIsKey DEF Question
  <2>3. CASE OpenEdit(i)
    BY <1>1, <2>2, <2>3 DEF OpenEdit
  <2>4. CASE ClickRemove(i)
    <3>1. dialogs' \in Seq(Question)
      BY <1>1, <2>2, <2>4, AppendProperties DEF ClickRemove
    <3> QED
      BY <1>1, <2>4, <3>1 DEF ClickRemove
  <2>5. CASE SelectServer(i)
    <3>1. shown' \in Seq(Guid) /\ stray' \in BOOLEAN
      BY <2>5, RowsRebound DEF SelectServer
    <3> QED
      BY <1>1, <2>2, <2>5, <3>1 DEF SelectServer
  <2> QED
    BY <2>1, <2>3, <2>4, <2>5
<1>8. CASE \E g \in Guid, c \in Config : SaveConfig(g, c)
  BY <1>1, <1>8 DEF SaveConfig
<1>9. CASE SaveList
  <2>1. key \in Guid
    BY <1>9 DEF IInv, Handlers, SaveList
  <2>2. list' \in Seq(Guid)
    BY <1>1, <1>9, <2>1, Prepended DEF SaveList
  <2> QED
    BY <1>1, <1>9, <2>2 DEF SaveList
<1>10. CASE SaveSelected
  BY <1>1, <1>10 DEF SaveSelected
<1>11. CASE Finish
  <2>1. Rows = list
    BY RowsAre DEF IInv
  <2> QED
    BY <1>1, <1>11, <2>1 DEF Finish, ReloadServerList
<1>12. CASE RemoveSelected
  BY <1>1, <1>12 DEF RemoveSelected
<1>13. CASE RemoveFromList
  <2>1. list' \in Seq(Guid)
    BY <1>1, <1>13, RemoveFirstFacts DEF RemoveFromList
  <2> QED
    BY <1>1, <1>13, <2>1 DEF RemoveFromList
<1>14. CASE RemoveConfig
  BY <1>1, <1>14 DEF RemoveConfig
<1>15. CASE RemoveFromCache
  <2>1. serversCache' \in Seq(Guid) /\ shown' \in Seq(Guid) /\ misplaced' \in BOOLEAN
    BY <1>15, RowRemoved DEF RemoveFromCache
  <2> QED
    BY <1>1, <1>15, <2>1 DEF RemoveFromCache
<1>16. CASE Launch
  <2>1. Rows = list
    BY RowsAre DEF IInv
  <2> QED
    BY <1>1, <1>16, <2>1 DEF Launch, ReloadServerList
<1>17. CASE Kill
  <2>1. <<>> \in Seq(Guid) /\ <<>> \in Seq(Question)
    OBVIOUS
  <2> QED
    BY <1>1, <1>17, <2>1 DEF Kill
<1> QED
  BY <1>2, <1>3, <1>4, <1>5, <1>6, <1>7, <1>8, <1>9, <1>10, <1>11, <1>12, <1>13,
     <1>14, <1>15, <1>16, <1>17 DEF Next, User, Handler

\* The steps that leave list and configurations alone leave the list usable.
LEMMA NextUsable ==
  ASSUME IInv, Next
  PROVE  ListUsable'
<1>1. TypeOK /\ ListUsable
  BY DEF IInv
<1>2. /\ list \in Seq(Guid) /\ Once(list)
      /\ \A g \in Guid : Contains(list, g) => HasConfig(g)
  BY <1>1, UsableMeans DEF TypeOK
<1>3. list' \in Seq(Guid)
  BY NextTypeOK DEF TypeOK
<1>4. CASE UNCHANGED <<list, configs>>
  BY <1>1, <1>4 DEF ListUsable, HasConfig
<1>5. CASE \E g \in Guid, c \in Config : SaveConfig(g, c)
  <2>1. PICK g \in Guid, c \in Config : SaveConfig(g, c)
    BY <1>5
  <2>2. list' = list /\ configs' = [configs EXCEPT ![g] = c] /\ c # None
    BY <2>1, NoneAssumption DEF SaveConfig
  <2>3. \A h \in Guid : Contains(list, h) => configs'[h] # None
    BY <1>1, <1>2, <2>2 DEF HasConfig, TypeOK
  <2>4. Once(list') /\ \A h \in Guid : Contains(list', h) => configs'[h] # None
    BY <1>2, <2>2, <2>3
  <2> QED
    BY <1>3, <2>4, UsableNext
<1>6. CASE SaveList
  <2>1. key \in Guid /\ HasConfig(key) /\ configs' = configs
    BY <1>6 DEF IInv, Handlers, SaveList
  <2>2. CASE Contains(list, key)
    <3>1. list' = list
      BY <1>6, <2>2 DEF SaveList
    <3> QED
      BY <1>4, <2>1, <3>1
  <2>3. CASE ~ Contains(list, key)
    <3>1. list' = <<key>> \o list
      BY <1>6, <2>3 DEF SaveList
    <3>2. Once(<<key>> \o list)
      BY <1>2, <2>1, <2>3, Prepended
    <3>3. \A v : Contains(<<key>> \o list, v) => v = key \/ Contains(list, v)
      BY <1>2, <2>1, Prepended
    <3>4. \A g \in Guid : Contains(<<key>> \o list, g) => HasConfig(g)
      BY <1>2, <2>1, <3>3
    <3>5. Once(list') /\ \A h \in Guid : Contains(list', h) => configs'[h] # None
      BY <2>1, <3>1, <3>2, <3>4 DEF HasConfig
    <3> QED
      BY <1>3, <3>5, UsableNext
  <2> QED
    BY <2>2, <2>3
<1>7. CASE RemoveFromList
  <2>1. list' = RemoveFirst(list, key) /\ configs' = configs
    BY <1>7 DEF RemoveFromList
  <2>2. /\ Once(RemoveFirst(list, key))
        /\ \A v \in Guid : Contains(RemoveFirst(list, key), v) => Contains(list, v)
    BY <1>2, RemoveFirstFacts
  <2>3. Once(list') /\ \A h \in Guid : Contains(list', h) => configs'[h] # None
    BY <1>2, <2>1, <2>2 DEF HasConfig
  <2> QED
    BY <1>3, <2>3, UsableNext
<1>8. CASE RemoveConfig
  <2>1. list' = list /\ configs' = [configs EXCEPT ![key] = None] /\ ~ Contains(list, key)
    BY <1>8 DEF RemoveConfig, IInv, Handlers
  <2>2. \A h \in Guid : Contains(list, h) => configs'[h] # None
    BY <1>1, <1>2, <2>1 DEF HasConfig, TypeOK
  <2>3. Once(list') /\ \A h \in Guid : Contains(list', h) => configs'[h] # None
    BY <1>2, <2>1, <2>2
  <2> QED
    BY <1>3, <2>3, UsableNext
<1>9. CASE UNCHANGED diskVars
  BY <1>4, <1>9
<1>10. CASE RemoveSelected \/ SaveSelected \/ \E i \in DOMAIN shown : SelectServer(i)
  BY <1>4, <1>10 DEF RemoveSelected, SaveSelected, SelectServer
<1>11. \/ UNCHANGED diskVars
       \/ RemoveSelected \/ SaveSelected \/ \E i \in DOMAIN shown : SelectServer(i)
       \/ RemoveConfig \/ RemoveFromList \/ SaveList
       \/ \E g \in Guid, c \in Config : SaveConfig(g, c)
  BY DEF Next, User, Handler, OpenAdd, GoHome, DeleteServer, Dismiss, ConfirmRemove,
         OpenEdit, ClickRemove, Finish, RemoveFromCache, Launch, Kill
<1> QED
  BY <1>5, <1>6, <1>7, <1>8, <1>9, <1>10, <1>11

LEMMA NextScreens ==
  ASSUME IInv, Next
  PROVE  Screens'
<1> USE DEF Screens, RemoveSteps
<1>1. Screens
  BY DEF IInv
<1>2. CASE User
  BY <1>1, <1>2 DEF User, OpenAdd, GoHome, DeleteServer, Dismiss, ConfirmRemove,
                    OpenEdit, ClickRemove, SelectServer, SaveConfig, Idle, CanSave
<1>3. CASE Handler
  <2>1. TypeOK
    BY DEF IInv
  <2> QED
    BY <1>1, <1>3, <2>1 DEF Handler, SaveList, SaveSelected, Finish, RemoveSelected,
                      RemoveFromList, RemoveConfig, RemoveFromCache, TypeOK
<1>4. CASE Launch \/ Kill
  BY <1>1, <1>4 DEF Launch, Kill
<1> QED
  BY <1>2, <1>3, <1>4 DEF Next
LEMMA NextHandlers ==
  ASSUME IInv, Next
  PROVE  Handlers'
<1> USE DEF Handlers, RemoveSteps, HasConfig
<1>1. Handlers /\ Screens /\ TypeOK /\ ListUsable
  BY DEF IInv
<1>2. \A g \in Guid : configs[g] \in Config \cup {None}
  BY <1>1 DEF TypeOK
<1>3. CASE OpenAdd \/ GoHome \/ DeleteServer \/ Dismiss
  BY <1>1, <1>3 DEF OpenAdd, GoHome, DeleteServer, Dismiss, Idle
<1>4. CASE ConfirmRemove
  <2>1. key' \in Guid /\ step' = "removeSelected"
    <3>1. dialogs \in Seq(Question) /\ dialogs # <<>>
      BY <1>1, <1>4 DEF ConfirmRemove, TypeOK
    <3>2. Last(dialogs) \in Question
      BY <3>1, FrontAndLast
    <3>3. Last(dialogs).guid \in Guid
      BY <3>2 DEF Question
    <3> QED
      BY <1>4, <3>3 DEF ConfirmRemove
  <2> QED
    BY <2>1
<1>5. CASE \E i \in DOMAIN shown : OpenEdit(i) \/ ClickRemove(i) \/ SelectServer(i)
  BY <1>1, <1>5 DEF OpenEdit, ClickRemove, SelectServer, Idle
<1>6. CASE \E g \in Guid, c \in Config : SaveConfig(g, c)
  <2>1. PICK g \in Guid, c \in Config : SaveConfig(g, c)
    BY <1>6
  <2>2. configs' = [configs EXCEPT ![g] = c] /\ key' = g /\ step' = "saveList" /\ c # None
    BY <2>1, NoneAssumption DEF SaveConfig
  <2>3. configs'[key'] # None
    BY <1>1, <2>2 DEF TypeOK
  <2> QED
    BY <2>2, <2>3
<1>7. CASE SaveList
  <2>1. /\ key' = key /\ configs' = configs /\ key \in Guid /\ configs[key] # None
        /\ step' \in {"finish", "saveSelected"}
    BY <1>1, <1>7 DEF SaveList
  <2>2. ASSUME step' = "saveSelected" PROVE Contains(list', key)
    <3>1. list' = <<key>> \o list
      BY <1>7, <2>2 DEF SaveList
    <3>2. Contains(<<key>> \o list, key)
      BY <1>1, <2>1, Prepended DEF TypeOK
    <3> QED
      BY <3>1, <3>2
  <2> QED
    BY <2>1, <2>2
<1>8. CASE SaveSelected \/ Finish \/ RemoveFromCache
  BY <1>1, <1>8 DEF SaveSelected, Finish, RemoveFromCache
<1>9. CASE RemoveSelected
  <2>1. key \in Guid /\ key # None
    BY <1>1, <1>9, NoneAssumption DEF RemoveSelected
  <2> QED
    BY <1>1, <1>9, <2>1 DEF RemoveSelected
<1>10. CASE RemoveFromList
  <2>1. ~ Contains(RemoveFirst(list, key), key)
    BY <1>1, UsableMeans, RemoveFirstFacts DEF TypeOK
  <2>2. list' = RemoveFirst(list, key) /\ step = "removeFromList" /\ step' = "removeConfig"
        /\ key' = key /\ selected' = selected
    BY <1>10 DEF RemoveFromList
  <2>3. ~ Contains(list', key')
    BY <2>1, <2>2
  <2> QED
    BY <1>1, <2>2, <2>3
<1>11. CASE RemoveConfig
  <2>1. /\ step = "removeConfig" /\ step' = "removeFromCache"
        /\ key' = key /\ selected' = selected /\ list' = list
    BY <1>11 DEF RemoveConfig
  <2> QED
    BY <1>1, <2>1
<1>12. CASE Launch \/ Kill
  BY <1>1, <1>12 DEF Launch, Kill, Screens
<1> QED
  BY <1>3, <1>4, <1>5, <1>6, <1>7, <1>8, <1>9, <1>10, <1>11, <1>12 DEF Next, User, Handler

LEMMA NextSelected ==
  ASSUME IInv, Next
  PROVE  SelectedUsable'
<1> USE DEF SelectedUsable, HasConfig
<1>1. /\ TypeOK /\ Handlers /\ Screens /\ View /\ ListUsable /\ SelectedUsable
  BY DEF IInv
<1>2. /\ list \in Seq(Guid) /\ Once(list)
      /\ \A g \in Guid : Contains(list, g) => HasConfig(g)
  BY <1>1, UsableMeans DEF TypeOK
<1>3. selected \in Guid \cup {None} /\ configs \in [Guid -> Config \cup {None}]
  BY <1>1 DEF TypeOK
<1>4. CASE UNCHANGED <<diskVars, stray>>
  BY <1>1, <1>4
<1>5. CASE \E i \in DOMAIN shown : SelectServer(i)
  <2>1. PICK i \in DOMAIN shown : SelectServer(i)
    BY <1>5
  <2>2. shown[i] \in Guid /\ i \in 1 .. Len(shown)
    BY <1>1, RowIsKey
  <2>3. ~ stray' => Contains(list, shown[i])
    BY <1>1, <2>1, <2>2 DEF SelectServer, Idle, View, Contains
  <2> QED
    BY <1>2, <2>1, <2>2, <2>3 DEF SelectServer
<1>6. CASE \E g \in Guid, c \in Config : SaveConfig(g, c)
  <2>1. PICK g \in Guid, c \in Config : SaveConfig(g, c)
    BY <1>6
  <2>2. /\ configs' = [configs EXCEPT ![g] = c] /\ c # None
        /\ list' = list /\ selected' = selected /\ stray' = stray
    BY <2>1, NoneAssumption DEF SaveConfig
  <2>3. \A h \in Guid : configs[h] # None => configs'[h] # None
    BY <1>3, <2>2
  <2> QED
    BY <1>1, <1>3, <2>2, <2>3
<1>7. CASE SaveList
  <2>1. key \in Guid /\ configs' = configs /\ selected' = selected /\ stray' = stray
    BY <1>1, <1>7 DEF Handlers, SaveList
  <2>2. \A v : Contains(list, v) => Contains(list', v)
    BY <1>2, <1>7, <2>1, Prepended DEF SaveList
  <2> QED
    BY <1>1, <2>1, <2>2
<1>8. CASE SaveSelected
  BY <1>1, <1>8 DEF SaveSelected, Handlers
<1>9. CASE RemoveSelected
  BY <1>1, <1>9 DEF RemoveSelected
<1>10. CASE RemoveFromList
  <2>1. selected # key /\ configs' = configs /\ selected' = selected
        /\ list' = RemoveFirst(list, key) /\ stray' = stray
    BY <1>1, <1>10 DEF Handlers, RemoveFromList
  <2>2. selected # None /\ ~ stray => Contains(RemoveFirst(list, key), selected)
    BY <1>1, <1>2, <1>3, <2>1, RemoveFirstFacts
  <2> QED
    BY <1>1, <2>1, <2>2
<1>11. CASE RemoveConfig
  <2>1. selected # key /\ list' = list /\ selected' = selected
        /\ configs' = [configs EXCEPT ![key] = None] /\ stray' = stray
    BY <1>1, <1>11 DEF Handlers, RemoveConfig
  <2>2. selected # None => configs'[selected] = configs[selected]
    BY <1>3, <2>1
  <2> QED
    BY <1>1, <2>1, <2>2
<1> QED
  BY <1>4, <1>5, <1>6, <1>7, <1>8, <1>9, <1>10, <1>11
  DEF Next, User, Handler, OpenAdd, GoHome, DeleteServer, Dismiss, ConfirmRemove,
      OpenEdit, ClickRemove, Finish, RemoveFromCache, Launch, Kill

LEMMA NextView ==
  ASSUME IInv, Next
  PROVE  View'
<1> USE DEF View
<1>1. TypeOK /\ View /\ Screens
  BY DEF IInv
<1>2. Rows = list
  BY RowsAre DEF IInv
<1>3. CASE OpenAdd \/ GoHome \/ DeleteServer
  BY <1>1, <1>3 DEF OpenAdd, GoHome, DeleteServer, Idle
<1>4. CASE Dismiss
  BY <1>1, <1>4 DEF Dismiss
<1>5. CASE ConfirmRemove
  BY <1>1, <1>5 DEF ConfirmRemove, Idle
<1>6. CASE \E i \in DOMAIN shown : OpenEdit(i) \/ ClickRemove(i) \/ SelectServer(i)
  <2>1. PICK i \in DOMAIN shown : OpenEdit(i) \/ ClickRemove(i) \/ SelectServer(i)
    BY <1>6
  <2>2. CASE OpenEdit(i) \/ ClickRemove(i)
    BY <1>1, <2>2 DEF OpenEdit, ClickRemove, Idle
  <2>3. CASE SelectServer(i)
    <3>1. Len(shown') = Len(shown) /\ (shown = serversCache => shown' = shown)
      BY <2>3, RowsRebound
    <3> QED
      BY <1>1, <2>3, <3>1 DEF SelectServer, Idle
  <2> QED
    BY <2>1, <2>2, <2>3
<1>7. CASE \E g \in Guid, c \in Config : SaveConfig(g, c)
  BY <1>7 DEF SaveConfig, CanSave
<1>8. CASE SaveList \/ SaveSelected
  BY <1>1, <1>8 DEF SaveList, SaveSelected, Screens, RemoveSteps
<1>9. CASE Finish
  BY <1>2, <1>9 DEF Finish, ReloadServerList
<1>10. CASE RemoveSelected
  BY <1>1, <1>10 DEF RemoveSelected
<1>11. CASE RemoveFromList
  BY <1>1, <1>11 DEF RemoveFromList
<1>12. CASE RemoveConfig
  BY <1>1, <1>12 DEF RemoveConfig
<1>13. CASE RemoveFromCache
  BY <1>1, <1>13, RowRemoved DEF RemoveFromCache
<1>14. CASE Launch \/ Kill
  BY <1>1, <1>2, <1>14 DEF Launch, Kill, ReloadServerList, Screens
<1> QED
  BY <1>3, <1>4, <1>5, <1>6, <1>7, <1>8, <1>9, <1>10, <1>11, <1>12, <1>13, <1>14
  DEF Next, User, Handler

\* IInv holds in every reachable state.
THEOREM Invariance == Spec => []IInv
<1>1. Init => IInv
  BY InitIInv
<1>2. IInv /\ [Next]_vars => IInv'
  <2> SUFFICES ASSUME IInv, [Next]_vars PROVE IInv'
    OBVIOUS
  <2>1. CASE Next
    BY <2>1, NextTypeOK, NextUsable, NextScreens, NextHandlers, NextSelected, NextView
    DEF IInv
  <2>2. CASE UNCHANGED vars
    BY <2>2 DEF vars, IInv, TypeOK, Handlers, Screens, View, ListUsable, SelectedUsable,
                HasConfig
  <2> QED
    BY <2>1, <2>2
<1> QED
  BY <1>1, <1>2, PTL DEF Spec

-------------------------------------------------------------------------------
(* What follows from it *)

\* Every variable has its type: in particular the list and both copies of it
\* in the view model never hold anything but keys.
THEOREM TypeCorrect == Spec => []TypeOK
<1>1. IInv => TypeOK
  BY DEF IInv
<1> QED
  BY <1>1, Invariance, PTL

\* The selected server can be started: it is in the list and has a
\* configuration, however the writes of saves and removals were cut short.
THEOREM SelectionStarts == Spec => []SelectedUsable
<1>1. IInv => SelectedUsable
  BY DEF IInv
<1> QED
  BY <1>1, Invariance, PTL

\* Every server of the list has a configuration and is there once.
THEOREM ListIsUsable == Spec => []ListUsable
<1>1. IInv => ListUsable
  BY DEF IInv
<1> QED
  BY <1>1, Invariance, PTL

\* The idle main screen shows the saved servers, in the order of the list.
THEOREM ViewIsStore == Spec => []ViewMatchesStore
<1>1. IInv => ViewMatchesStore
  <2> SUFFICES ASSUME IInv PROVE ViewMatchesStore
    OBVIOUS
  <2>1. Rows = list
    BY RowsAre DEF IInv
  <2> QED
    BY <2>1 DEF IInv, View, ViewMatchesStore, Idle
<1> QED
  BY <1>1, Invariance, PTL

\* What KeptUntilRemoved says of one step.
Kept ==
  \A i \in DOMAIN list :
    \/ \E j \in DOMAIN list' : list'[j] = list[i] /\ configs'[list'[j]] # None
    \/ key = list[i] /\ step \in {"removeFromList", "removeConfig"}

\* A step that keeps a server in a usable list keeps it as Kept says.
LEMMA StillThere ==
  ASSUME list' \in Seq(Guid), ListUsable',
         NEW v \in Guid, Contains(list', v)
  PROVE  \E j \in DOMAIN list' : list'[j] = v /\ configs'[list'[j]] # None
<1>1. DOMAIN list' = 1 .. Len(list')
  BY LenProperties
<1>2. PICK j \in 1 .. Len(list') : list'[j] = v
  BY DEF Contains
<1>3. configs'[list'[j]] # None
  BY <1>1 DEF ListUsable, HasConfig
<1> QED
  BY <1>1, <1>2, <1>3

LEMMA NextKept ==
  ASSUME IInv, Next
  PROVE  Kept
<1>1. TypeOK /\ Handlers /\ ListUsable /\ list \in Seq(Guid)
  BY DEF IInv, TypeOK
<1>2. list' \in Seq(Guid) /\ ListUsable'
  BY NextTypeOK, NextUsable DEF TypeOK
<1>3. DOMAIN list = 1 .. Len(list)
  BY <1>1, LenProperties
<1> SUFFICES ASSUME NEW i \in DOMAIN list
             PROVE  \/ \E j \in DOMAIN list' : list'[j] = list[i] /\ configs'[list'[j]] # None
                    \/ key = list[i] /\ step \in {"removeFromList", "removeConfig"}
  BY DEF Kept
<1> DEFINE v == list[i]
<1>4. v \in Guid /\ Contains(list, v)
  BY <1>1, <1>3, ElementOfSeq DEF Contains
<1> HIDE DEF v
<1>5. CASE SaveList
  <2>1. key \in Guid
    BY <1>1, <1>5 DEF SaveList, Handlers
  <2>2. Contains(list', v)
    BY <1>1, <1>4, <1>5, <2>1, Prepended DEF SaveList
  <2> QED
    BY <1>2, <1>4, <2>2, StillThere DEF v
<1>6. CASE RemoveFromList
  <2>1. v # key => Contains(list', v)
    BY <1>1, <1>4, <1>6, RemoveFirstFacts DEF RemoveFromList
  <2>2. CASE v = key
    BY <1>6, <2>2 DEF RemoveFromList, v
  <2>3. CASE v # key
    BY <1>2, <1>4, <2>1, <2>3, StillThere DEF v
  <2> QED
    BY <2>2, <2>3
<1>7. CASE UNCHANGED list
  BY <1>2, <1>4, <1>7, StillThere DEF v
<1> QED
  BY <1>5, <1>6, <1>7
  DEF Next, User, Handler, OpenAdd, GoHome, DeleteServer, Dismiss, ConfirmRemove,
      OpenEdit, ClickRemove, SelectServer, SaveConfig, SaveSelected, Finish,
      RemoveSelected, RemoveConfig, RemoveFromCache, Launch, Kill

\* A saved server disappears only by a removal of that server: every other step
\* leaves it in the list, with a configuration.
THEOREM KeptTillRemoved == Spec => KeptUntilRemoved
<1>1. IInv /\ [Next]_vars => [Kept]_vars
  BY NextKept
<1>2. Spec => [][Kept]_vars
  BY <1>1, Invariance, PTL DEF Spec
<1>3. [][Kept]_vars => KeptUntilRemoved
  BY PTL DEF KeptUntilRemoved, Kept
<1> QED
  BY <1>2, <1>3

-------------------------------------------------------------------------------
(* The two files are one store *)

\* The configurations that count: those of the keys in the list.
Contents == [g \in Guid |-> IF Contains(list, g) THEN configs[g] ELSE None]

\* What a step may do to the store, in terms of the files.
StoreStep ==
  \/ \E g \in Guid, c \in Config :
       /\ Contents[g] = None
       /\ list' = <<g>> \o list /\ Contents' = [Contents EXCEPT ![g] = c]
       /\ selected' = selected
  \/ \E g \in Guid, c \in Config :
       /\ Contents[g] # None
       /\ Contents' = [Contents EXCEPT ![g] = c]
       /\ UNCHANGED <<list, selected>>
  \/ \E g \in Guid :
       /\ Contents[g] # None \/ misplaced
       /\ selected' = g /\ UNCHANGED <<list, Contents>>
  \/ \E g \in Guid :
       /\ Contents[g] # None /\ g # selected
       /\ \E i \in 1 .. Len(list) :
            /\ list[i] = g
            /\ list' = SubSeq(list, 1, i - 1) \o SubSeq(list, i + 1, Len(list))
       /\ Contents' = [Contents EXCEPT ![g] = None]
       /\ selected' = selected
  \/ selected' = None /\ UNCHANGED <<list, Contents>>
  \/ UNCHANGED <<list, Contents, selected>>

\* A key has contents where it is in the list.
LEMMA ContentsOf ==
  ASSUME IInv, NEW g \in Guid
  PROVE  /\ Contents[g] = IF Contains(list, g) THEN configs[g] ELSE None
         /\ Contents[g] # None <=> Contains(list, g)
<1>1. list \in Seq(Guid) /\ ListUsable
  BY DEF IInv, TypeOK
<1>2. Contains(list, g) => configs[g] # None
  BY <1>1, UsableMeans DEF HasConfig
<1> QED
  BY <1>2 DEF Contents

LEMMA SaveConfigStore ==
  ASSUME IInv, NEW g \in Guid, NEW c \in Config, SaveConfig(g, c)
  PROVE  StoreStep
<1>1. /\ configs' = [configs EXCEPT ![g] = c] /\ list' = list /\ selected' = selected
      /\ configs \in [Guid -> Config \cup {None}]
  BY DEF SaveConfig, IInv, TypeOK
<1>2. CASE Contains(list, g)
  <2>1. Contents[g] # None
    BY <1>2, ContentsOf
  <2>2. Contents' = [Contents EXCEPT ![g] = c]
    BY <1>1, <1>2 DEF Contents
  <2> QED
    BY <1>1, <2>1, <2>2 DEF StoreStep
<1>3. CASE ~ Contains(list, g)
  <2>1. Contents' = Contents
    BY <1>1, <1>3 DEF Contents
  <2> QED
    BY <1>1, <2>1 DEF StoreStep
<1> QED
  BY <1>2, <1>3

LEMMA SaveListStore ==
  ASSUME IInv, SaveList
  PROVE  StoreStep
<1>1. /\ key \in Guid /\ configs[key] # None /\ list \in Seq(Guid)
      /\ configs \in [Guid -> Config \cup {None}]
      /\ configs' = configs /\ selected' = selected
  BY DEF SaveList, IInv, TypeOK, Handlers, HasConfig
<1>2. CASE Contains(list, key)
  <2>1. list' = list
    BY <1>2 DEF SaveList
  <2>2. Contents' = Contents
    BY <1>1, <2>1 DEF Contents
  <2> QED
    BY <1>1, <2>1, <2>2 DEF StoreStep
<1>3. CASE ~ Contains(list, key)
  <2>1. list' = <<key>> \o list
    BY <1>3 DEF SaveList
  <2>2. \A v : Contains(list', v) <=> v = key \/ Contains(list, v)
    BY <1>1, <2>1, Prepended
  <2>3. Contents[key] = None /\ configs[key] \in Config
    BY <1>1, <1>3, ContentsOf
  <2>4. Contents' = [Contents EXCEPT ![key] = configs[key]]
    BY <1>1, <2>2 DEF Contents
  <2> QED
    BY <1>1, <2>1, <2>3, <2>4 DEF StoreStep
<1> QED
  BY <1>2, <1>3

LEMMA RemoveFromListStore ==
  ASSUME IInv, RemoveFromList
  PROVE  StoreStep
<1>1. /\ key \in Guid /\ list \in Seq(Guid) /\ Once(list) /\ selected # key
      /\ list' = RemoveFirst(list, key) /\ configs' = configs /\ selected' = selected
  BY UsableMeans DEF RemoveFromList, IInv, TypeOK, Handlers, RemoveSteps
<1>2. CASE ~ Contains(list, key)
  <2>1. list' = list
    BY <1>1, <1>2, RemoveFirstAt
  <2>2. Contents' = Contents
    BY <1>1, <2>1 DEF Contents
  <2> QED
    BY <1>1, <2>1, <2>2 DEF StoreStep
<1>3. CASE Contains(list, key)
  <2>1. \E i \in 1 .. Len(list) :
          /\ list[i] = key
          /\ list' = SubSeq(list, 1, i - 1) \o SubSeq(list, i + 1, Len(list))
    BY <1>1, <1>3, RemoveFirstAt
  <2>2. \A v \in Guid : Contains(list', v) <=> Contains(list, v) /\ v # key
    BY <1>1, RemoveFirstFacts
  <2>3. Contents[key] # None
    BY <1>1, <1>3, ContentsOf
  <2>4. Contents' = [Contents EXCEPT ![key] = None]
    BY <1>1, <2>2 DEF Contents
  <2> QED
    BY <1>1, <2>1, <2>3, <2>4 DEF StoreStep
<1> QED
  BY <1>2, <1>3

LEMMA NextStore ==
  ASSUME IInv, [Next]_vars
  PROVE  StoreStep
<1>1. CASE UNCHANGED diskVars
  BY <1>1 DEF StoreStep, Contents
<1>2. CASE \E g \in Guid, c \in Config : SaveConfig(g, c)
  BY <1>2, SaveConfigStore
<1>3. CASE SaveList
  BY <1>3, SaveListStore
<1>4. CASE SaveSelected
  <2>1. /\ key \in Guid /\ Contains(list, key) /\ UNCHANGED <<list, configs>>
        /\ selected' \in {key, selected}
    BY <1>4 DEF SaveSelected, IInv, Handlers
  <2>2. Contents[key] # None /\ Contents' = Contents
    BY <2>1, ContentsOf DEF Contents
  <2> QED
    BY <2>1, <2>2 DEF StoreStep
<1>5. CASE RemoveSelected
  <2>1. UNCHANGED <<list, configs>> /\ selected' \in {None, selected}
    BY <1>5 DEF RemoveSelected
  <2> QED
    BY <2>1 DEF StoreStep, Contents
<1>6. CASE RemoveFromList
  BY <1>6, RemoveFromListStore
<1>7. CASE RemoveConfig
  <2>1. /\ ~ Contains(list, key) /\ UNCHANGED <<list, selected>>
        /\ configs' = [configs EXCEPT ![key] = None]
        /\ configs \in [Guid -> Config \cup {None}]
    BY <1>7 DEF RemoveConfig, IInv, Handlers, TypeOK
  <2>2. Contents' = Contents
    BY <2>1 DEF Contents
  <2> QED
    BY <2>1, <2>2 DEF StoreStep
<1>8. CASE \E i \in DOMAIN shown : SelectServer(i)
  <2>1. PICK i \in DOMAIN shown : SelectServer(i)
    BY <1>8
  <2>2. shown[i] \in Guid /\ i \in 1 .. Len(shown)
    BY RowIsKey DEF IInv
  <2>3. /\ Contains(list, shown[i]) \/ misplaced
        /\ selected' = shown[i] /\ UNCHANGED <<list, configs>>
    BY <2>1, <2>2 DEF SelectServer, IInv, Idle, View, Contains
  <2>4. /\ Contents[shown[i]] # None \/ misplaced
        /\ Contents' = Contents
    BY <2>2, <2>3, ContentsOf DEF Contents
  <2> QED
    BY <2>2, <2>3, <2>4 DEF StoreStep
<1>9. \/ UNCHANGED diskVars
      \/ SaveList \/ SaveSelected \/ RemoveSelected \/ RemoveFromList \/ RemoveConfig
      \/ \E i \in DOMAIN shown : SelectServer(i)
      \/ \E g \in Guid, c \in Config : SaveConfig(g, c)
  BY DEF vars, Next, User, Handler, OpenAdd, GoHome, DeleteServer, Dismiss,
         ConfirmRemove, OpenEdit, ClickRemove, Finish, RemoveFromCache, Launch, Kill
<1> QED
  BY <1>1, <1>2, <1>3, <1>4, <1>5, <1>6, <1>7, <1>8, <1>9

\* The files implement the store of SavedServers: for any servers, with a kill
\* between any two writes, each change is seen whole or not at all, in the order
\* the writes are in (encodeServerConfig, removeServer, SelectServer's listener).
THEOREM StoreImplements == Spec => StoreIsAtomic
<1>1. Init => Store!Init
  <2> SUFFICES ASSUME Init PROVE Store!Init
    OBVIOUS
  <2>1. list = <<>> /\ selected = None /\ configs = [g \in Guid |-> None]
    BY DEF Init
  <2> QED
    BY <2>1 DEF Store!Init
<1>2. StoreStep => [Store!Next]_(Store!storeVars)
  BY DEF StoreStep, Contents, Store!Next, Store!Add, Store!Edit, Store!Choose,
         Store!Remove, Store!Release, Store!Saved, Store!storeVars
<1>3. IInv /\ [Next]_vars => [Store!Next]_(Store!storeVars)
  BY <1>2, NextStore
<1>4. Spec => Store!Init /\ [][Store!Next]_(Store!storeVars)
  BY <1>1, <1>3, Invariance, PTL DEF Spec
<1> QED
  BY <1>4 DEF StoreIsAtomic, Store!Spec

===============================================================================
