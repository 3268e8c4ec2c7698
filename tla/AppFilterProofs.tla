--------------------------- MODULE AppFilterProofs ----------------------------
(* Theorems about AppFilter, for any packages, icons and number of editors: its *)
(* types, that the app's own traffic stays outside the VPN, and that the lists *)
(* mean what they say to the system.  And about TunSettings, for any numbers    *)
(* between the dots of the netmask.                                            *)
EXTENDS AppFilter, TunSettings, SequenceTheorems, FiniteSetTheorems, TLAPS

-------------------------------------------------------------------------------
(* Stacks of editors *)

\* A stack that is not empty has a top, and the rest is a stack.
LEMMA StackTop ==
  ASSUME NEW S, NEW q \in Seq(S), q # <<>>
  PROVE  /\ Len(q) \in Nat \ {0}
         /\ Last(q) \in S /\ Last(q) = q[Len(q)]
         /\ Front(q) \in Seq(S) /\ Len(Front(q)) = Len(q) - 1
         /\ DOMAIN Front(q) = 1 .. Len(q) - 1
         /\ \A i \in 1 .. Len(q) - 1 : Front(q)[i] = q[i]
<1>1. Len(q) \in Nat \ {0} /\ \A i \in 1 .. Len(q) : q[i] \in S
  BY EmptySeq, LenProperties, ElementOfSeq
<1>2. Last(q) = q[Len(q)] /\ Last(q) \in S
  BY <1>1 DEF Last
<1>3. Front(q) \in Seq(S) /\ Len(Front(q)) = Len(q) - 1
      /\ \A i \in 1 .. Len(q) - 1 : Front(q)[i] = q[i]
  BY <1>1, SubSeqProperties DEF Front
<1>4. DOMAIN Front(q) = 1 .. Len(q) - 1
  BY <1>3, LenProperties
<1> QED
  BY <1>1, <1>2, <1>3, <1>4

\* A stack with another top.
LEMMA StackChange ==
  ASSUME NEW S, NEW q \in Seq(S), q # <<>>, NEW e \in S
  PROVE  LET t == Append(Front(q), e)
         IN /\ t \in Seq(S) /\ Len(t) = Len(q) /\ t[Len(q)] = e
            /\ DOMAIN t = 1 .. Len(q)
            /\ \A i \in 1 .. Len(q) - 1 : t[i] = q[i]
<1> DEFINE f == Front(q)
           t == Append(f, e)
<1>1. /\ Len(q) \in Nat \ {0} /\ f \in Seq(S) /\ Len(f) = Len(q) - 1
      /\ \A i \in 1 .. Len(q) - 1 : f[i] = q[i]
  BY StackTop
<1> HIDE DEF f
<1>2. /\ t \in Seq(S) /\ Len(t) = Len(f) + 1 /\ t[Len(f) + 1] = e
      /\ \A i \in 1 .. Len(f) : t[i] = f[i]
  BY <1>1, AppendProperties
<1>3. DOMAIN t = 1 .. Len(t)
  BY <1>2, LenProperties
<1> QED
  BY <1>1, <1>2, <1>3 DEF f

-------------------------------------------------------------------------------
(* The inductive invariant *)

\* An editor that neither shows the app's own icons nor has it in its list.
CleanEditor == {e \in Editor : /\ e.enableList[Own] = 0
                               /\ \A r \in e.rows : PkgOf[r] # Own}

Clean ==
  /\ editors \in Seq(CleanEditor)
  /\ \A t \in ListType : stored[t][Own] = 0

\* What an editor has not touched is as it is stored, unless it is stale.
Faithful(e) ==
  ~e.stale => \A p \in Pkg \ e.touched : e.enableList[p] = stored[e.type][p]

Copies == \A i \in 1 .. Len(editors) : Faithful(editors[i])

IInv == TypeOK /\ Clean /\ Copies

\* An editor as it is opened is clean and a copy of what is stored.
LEMMA EditorOpened ==
  ASSUME TypeOK, Clean, NEW t \in ListType
  PROVE  NewEditor(t) \in CleanEditor /\ Faithful(NewEditor(t))
<1> DEFINE e == NewEditor(t)
<1>1. /\ e.type = t /\ e.enableList = stored[t] /\ e.rows = RowsShown
      /\ e.on = {r \in RowsShown : stored[t][PkgOf[r]] > 0}
      /\ e.touched = {} /\ e.stale = FALSE
  BY DEF NewEditor
<1>2. e \in Editor
  BY DEF TypeOK, NewEditor, Editor, RowsShown
<1>3. \A r \in RowsShown : PkgOf[r] # Own
  BY DEF RowsShown
<1> HIDE DEF e
<1>4. e \in CleanEditor /\ Faithful(e)
  BY <1>1, <1>2, <1>3 DEF Clean, CleanEditor, Faithful
<1> QED
  BY <1>4 DEF e

\* The switch of a row leaves an editor clean, and what is not touched a copy.
LEMMA EditorToggled ==
  ASSUME NEW e \in CleanEditor, NEW r \in e.rows
  PROVE  /\ Switched(e, r) \in CleanEditor
         /\ Faithful(e) => Faithful(Switched(e, r))
<1> DEFINE p == PkgOf[r]
           isChecked == r \notin e.on
           n == IF isChecked THEN e.enableList[p] + 1
                ELSE IF e.enableList[p] > 0 THEN e.enableList[p] - 1 ELSE 0
           list == [e.enableList EXCEPT ![p] = n]
           on == IF isChecked THEN e.on \cup {r} ELSE e.on \ {r}
           x == Switched(e, r)
<1>1. /\ e \in Editor /\ e.enableList[Own] = 0
      /\ \A q \in e.rows : PkgOf[q] # Own
  BY DEF CleanEditor
<1>2. /\ e.type \in ListType /\ e.enableList \in [Pkg -> Nat]
      /\ e.rows \in SUBSET Row /\ e.on \in SUBSET Row
      /\ e.touched \in SUBSET Pkg /\ e.stale \in BOOLEAN
  BY <1>1 DEF Editor
<1>3. p \in Pkg /\ p # Own
  BY <1>1, <1>2, RowAssumption
<1>4. n \in Nat
  BY <1>2, <1>3
<1>5. list \in [Pkg -> Nat] /\ \A q \in Pkg \ {p} : list[q] = e.enableList[q]
  BY <1>2, <1>4
<1>6. on \in SUBSET Row
  BY <1>2
<1>7. x = [type |-> e.type, enableList |-> list, rows |-> e.rows, on |-> on,
           touched |-> e.touched \cup {p}, stale |-> e.stale]
  <2>1. x = [e EXCEPT !.enableList = list, !.on = on, !.touched = e.touched \cup {p}]
    BY DEF Switched
  <2> HIDE DEF p, n, list, on, x
  <2> QED
    BY <1>1, <2>1 DEF Editor
<1> HIDE DEF p, n, list, on, x
<1>8. x \in Editor
  BY <1>2, <1>3, <1>5, <1>6, <1>7 DEF Editor
<1>9. x.enableList[Own] = 0 /\ \A q \in x.rows : PkgOf[q] # Own
  BY <1>1, <1>3, <1>5, <1>7, OwnAssumption
<1>10. Faithful(e) => Faithful(x)
  BY <1>2, <1>3, <1>5, <1>7 DEF Faithful
<1> QED
  BY <1>8, <1>9, <1>10 DEF CleanEditor, x

-------------------------------------------------------------------------------
(* Every step preserves the invariant *)

\* The store is empty and no editor is open at first.
LEMMA InitIInv == Init => IInv
<1> SUFFICES ASSUME Init PROVE IInv
  OBVIOUS
<1>1. editors = <<>> /\ editors \in Seq(Editor) /\ editors \in Seq(CleanEditor)
      /\ Len(editors) = 0
  BY EmptySeq DEF Init
<1>2. TypeOK
  BY <1>1 DEF Init, TypeOK, Mode, ListType
<1>3. Clean
  BY <1>1, OwnAssumption DEF Init, Clean, ListType
<1>4. Copies
  BY <1>1 DEF Copies
<1> QED
  BY <1>2, <1>3, <1>4 DEF IInv

\* A step that leaves the stored lists alone, and of the stack drops the top,
\* keeps Copies; the stack that remains is of clean editors.
LEMMA DropTop ==
  ASSUME IInv, editors # <<>>, editors' = Front(editors), stored' = stored
  PROVE  /\ editors' \in Seq(Editor) /\ editors' \in Seq(CleanEditor)
         /\ Copies'
<1>1. /\ Len(editors) \in Nat \ {0}
      /\ Front(editors) \in Seq(CleanEditor)
      /\ Len(Front(editors)) = Len(editors) - 1
      /\ \A i \in 1 .. Len(editors) - 1 : Front(editors)[i] = editors[i]
  BY StackTop DEF IInv, Clean
<1>2. Front(editors) \in Seq(Editor)
  BY StackTop DEF IInv, TypeOK
<1>3. \A i \in 1 .. Len(editors') : Faithful(editors[i]) /\ editors'[i] = editors[i]
  BY <1>1 DEF IInv, Copies
<1>4. Copies'
  BY <1>3 DEF Copies, Faithful
<1> QED
  BY <1>1, <1>2, <1>4

\* The same for a step that puts a clean and faithful editor in place of the
\* top.
LEMMA ChangeTop ==
  ASSUME IInv, editors # <<>>, stored' = stored,
         NEW e \in CleanEditor, Faithful(e), editors' = SetTop(e)
  PROVE  /\ editors' \in Seq(Editor) /\ editors' \in Seq(CleanEditor)
         /\ Copies'
<1>1. editors \in Seq(CleanEditor) /\ editors \in Seq(Editor) /\ e \in Editor
  BY DEF IInv, TypeOK, Clean, CleanEditor
<1>2. /\ editors' \in Seq(CleanEditor) /\ Len(editors') = Len(editors)
      /\ editors'[Len(editors)] = e
      /\ \A i \in 1 .. Len(editors) - 1 : editors'[i] = editors[i]
  BY <1>1, StackChange DEF SetTop
<1>3. editors' \in Seq(Editor)
  BY <1>1, StackChange DEF SetTop
<1>4. Len(editors) \in Nat
  BY <1>1, LenProperties
<1>5. \A i \in 1 .. Len(editors') : Faithful(editors'[i])
  <2> SUFFICES ASSUME NEW i \in 1 .. Len(editors') PROVE Faithful(editors'[i])
    OBVIOUS
  <2>1. CASE i = Len(editors)
    BY <1>2, <2>1
  <2>2. CASE i \in 1 .. Len(editors) - 1
    <3>1. Faithful(editors[i]) /\ editors'[i] = editors[i]
      BY <1>2, <1>4, <2>2 DEF IInv, Copies
    <3> QED
      BY <3>1
  <2> QED
    BY <1>2, <1>4, <2>1, <2>2
<1>6. Copies'
  BY <1>5 DEF Copies, Faithful
<1> QED
  BY <1>2, <1>3, <1>6

\* The top is clean and faithful.
LEMMA TopOK ==
  ASSUME IInv, editors # <<>>
  PROVE  Top \in CleanEditor /\ Faithful(Top) /\ Top = editors[Len(editors)]
<1>1. /\ Len(editors) \in Nat \ {0} /\ Top \in CleanEditor
      /\ Top = editors[Len(editors)]
  BY StackTop DEF IInv, Clean, Top
<1> QED
  BY <1>1 DEF IInv, Copies

\* "OK" stores the top's list; the editors below that hold a copy of the old
\* one become stale.
LEMMA OkIInv == IInv /\ Ok => IInv'
<1> SUFFICES ASSUME IInv, Ok PROVE IInv'
  OBVIOUS
<1> DEFINE below == Front(editors)
           mark(i) == [editors[i] EXCEPT !.stale = @ \/ editors[i].type = Top.type]
<1>1. /\ Len(editors) \in Nat \ {0} /\ Len(below) = Len(editors) - 1
      /\ DOMAIN below = 1 .. Len(editors) - 1
  BY StackTop DEF IInv, Clean, Ok
<1>2. Top \in CleanEditor /\ Faithful(Top) /\ Top \in Editor
  BY TopOK DEF Ok, CleanEditor
<1>3. /\ Top.type \in ListType /\ Top.enableList \in [Pkg -> Nat]
      /\ Top.enableList[Own] = 0
  BY <1>2 DEF CleanEditor, Editor
<1>4. /\ editors # <<>>
      /\ stored' = [stored EXCEPT ![Top.type] = Top.enableList]
      /\ editors' = [i \in 1 .. Len(editors) - 1 |-> mark(i)]
      /\ UNCHANGED <<mode, installed, screen, checked, usable>>
  BY <1>1 DEF Ok
<1>5. \A i \in 1 .. Len(editors) - 1 : editors[i] \in CleanEditor /\ Faithful(editors[i])
  <2>1. \A i \in 1 .. Len(editors) : editors[i] \in CleanEditor
    BY ElementOfSeq DEF IInv, Clean
  <2> QED
    BY <1>1, <2>1 DEF IInv, Copies
<1>6. \A i \in 1 .. Len(editors) - 1 :
        /\ mark(i) \in CleanEditor
        /\ mark(i).type = editors[i].type /\ mark(i).touched = editors[i].touched
        /\ mark(i).enableList = editors[i].enableList
        /\ mark(i).stale = (editors[i].stale \/ editors[i].type = Top.type)
  <2> SUFFICES ASSUME NEW e \in CleanEditor, NEW b \in BOOLEAN
               PROVE  LET m == [e EXCEPT !.stale = b]
                      IN /\ m \in CleanEditor /\ m.type = e.type
                         /\ m.touched = e.touched /\ m.enableList = e.enableList
                         /\ m.stale = b
    <3>1. \A i \in 1 .. Len(editors) - 1 :
            (editors[i].stale \/ editors[i].type = Top.type) \in BOOLEAN
      OBVIOUS
    <3>2. \A i \in 1 .. Len(editors) - 1 : editors[i].stale \in BOOLEAN
      BY <1>5 DEF CleanEditor, Editor
    <3> QED
      BY <1>5, <3>1, <3>2
  <2> QED
    BY DEF CleanEditor, Editor
<1> HIDE DEF mark
<1>7. /\ editors' \in Seq(CleanEditor) /\ Len(editors') = Len(editors) - 1
      /\ \A i \in 1 .. Len(editors) - 1 : editors'[i] = mark(i)
  <2>1. Len(editors) - 1 \in Nat
    BY <1>1
  <2>2. [i \in 1 .. Len(editors) - 1 |-> mark(i)] \in [1 .. Len(editors) - 1 -> CleanEditor]
    BY <1>6
  <2>3. editors' \in [1 .. Len(editors) - 1 -> CleanEditor]
    BY <1>4, <2>2
  <2>4. editors' \in Seq(CleanEditor) /\ Len(editors') = Len(editors) - 1
    BY <2>1, <2>3, SeqDef, LenProperties
  <2> QED
    BY <1>4, <2>4
<1>8. editors' \in Seq(Editor)
  <2>1. CleanEditor \subseteq Editor
    BY DEF CleanEditor
  <2> QED
    BY <1>7, <2>1, SeqDef
<1>9. TypeOK'
  BY <1>3, <1>4, <1>8 DEF IInv, TypeOK
<1>10. Clean'
  BY <1>3, <1>4, <1>7 DEF IInv, TypeOK, Clean
<1>11. Copies'
  <2> SUFFICES ASSUME NEW i \in 1 .. Len(editors'), ~editors'[i].stale,
                      NEW p \in Pkg \ editors'[i].touched
               PROVE  editors'[i].enableList[p] = stored'[editors'[i].type][p]
    BY DEF Copies, Faithful
  <2>1. i \in 1 .. Len(editors) - 1
    BY <1>7
  <2>2. ~editors[i].stale /\ editors[i].type # Top.type /\ p \in Pkg \ editors[i].touched
    BY <1>6, <1>7, <2>1
  <2>3. editors[i].enableList[p] = stored[editors[i].type][p]
    BY <1>5, <2>1, <2>2 DEF Faithful
  <2>4. editors[i].type \in ListType
    BY <1>5, <2>1 DEF CleanEditor, Editor
  <2>5. stored'[editors[i].type] = stored[editors[i].type]
    BY <1>4, <2>2, <2>4 DEF IInv, TypeOK
  <2> QED
    BY <1>6, <1>7, <2>1, <2>3, <2>5
<1> QED
  BY <1>9, <1>10, <1>11 DEF IInv

\* Opening an editor puts a clean copy on top.
LEMMA OpenEditorIInv ==
  ASSUME IInv, NEW t \in ListType, OpenEditor(t)
  PROVE  IInv'
<1> DEFINE e == NewEditor(t)
<1>1. e \in CleanEditor /\ Faithful(e) /\ e \in Editor
  BY EditorOpened DEF IInv, CleanEditor
<1>2. /\ editors' = Append(editors, e)
      /\ UNCHANGED <<mode, stored, installed, screen, checked, usable>>
  BY DEF OpenEditor
<1>3. editors \in Seq(CleanEditor) /\ editors \in Seq(Editor) /\ Len(editors) \in Nat
  BY LenProperties DEF IInv, TypeOK, Clean
<1> HIDE DEF e
<1>4. /\ editors' \in Seq(CleanEditor) /\ Len(editors') = Len(editors) + 1
      /\ editors'[Len(editors) + 1] = e
      /\ \A i \in 1 .. Len(editors) : editors'[i] = editors[i]
  BY <1>1, <1>2, <1>3, AppendProperties
<1>5. editors' \in Seq(Editor)
  BY <1>1, <1>2, <1>3, AppendProperties
<1>6. \A i \in 1 .. Len(editors') : Faithful(editors'[i])
  <2> SUFFICES ASSUME NEW i \in 1 .. Len(editors') PROVE Faithful(editors'[i])
    OBVIOUS
  <2>1. CASE i = Len(editors) + 1
    BY <1>1, <1>4, <2>1
  <2>2. CASE i \in 1 .. Len(editors)
    <3>1. Faithful(editors[i]) /\ editors'[i] = editors[i]
      BY <1>4, <2>2 DEF IInv, Copies
    <3> QED
      BY <3>1
  <2> QED
    BY <1>3, <1>4, <2>1, <2>2
<1>7. Copies'
  BY <1>2, <1>6 DEF Copies, Faithful
<1> QED
  BY <1>2, <1>4, <1>5, <1>7 DEF IInv, TypeOK, Clean

\* One case per action.
LEMMA NextIInv == IInv /\ [Next]_vars => IInv'
<1> SUFFICES ASSUME IInv, [Next]_vars PROVE IInv'
  OBVIOUS
<1> USE DEF IInv, TypeOK, Clean
<1>1. CASE OpenSettings
  BY <1>1 DEF OpenSettings, Copies, Faithful, Mode, ListType
<1>2. CASE CloseSettings
  BY <1>2 DEF CloseSettings, Copies, Faithful, Mode, ListType
<1>3. CASE Kill
  <2>1. editors' = <<>> /\ editors' \in Seq(Editor) /\ editors' \in Seq(CleanEditor)
        /\ Len(editors') = 0
    BY <1>3, EmptySeq DEF Kill
  <2>2. Copies'
    BY <2>1 DEF Copies
  <2> QED
    BY <1>3, <2>1, <2>2 DEF Kill, Mode, ListType
<1>4. CASE Ok
  BY <1>4, OkIInv
<1>5. CASE Discard
  BY <1>5, DropTop DEF Discard
<1>6. CASE Rotate
  <2>1. Top.type \in ListType
    BY <1>6, TopOK DEF Rotate, CleanEditor, Editor
  <2>2. NewEditor(Top.type) \in CleanEditor /\ Faithful(NewEditor(Top.type))
    BY <2>1, EditorOpened
  <2> QED
    BY <1>6, <2>2, ChangeTop DEF Rotate
<1>7. ASSUME NEW m \in Mode, ChooseMode(m) PROVE IInv'
  BY <1>7 DEF ChooseMode, Copies, Faithful, Mode, ListType
<1>8. ASSUME NEW t \in ListType, OpenEditor(t) PROVE IInv'
  BY <1>8, OpenEditorIInv
<1>9. ASSUME NEW r \in Row, Toggle(r) PROVE IInv'
  <2>1. Top \in CleanEditor /\ Faithful(Top) /\ r \in Top.rows
    BY <1>9, TopOK DEF Toggle
  <2>2. Switched(Top, r) \in CleanEditor /\ Faithful(Switched(Top, r))
    BY <2>1, EditorToggled
  <2> QED
    BY <1>9, <2>2, ChangeTop DEF Toggle
<1>10. ASSUME NEW p \in Pkg, Install(p) \/ Uninstall(p) PROVE IInv'
  BY <1>10 DEF Install, Uninstall, Copies, Faithful
<1>11. CASE UNCHANGED vars
  BY <1>11 DEF vars, Copies, Faithful
<1> QED
  BY <1>1, <1>2, <1>3, <1>4, <1>5, <1>6, <1>7, <1>8, <1>9, <1>10, <1>11 DEF Next

-------------------------------------------------------------------------------
(* The theorems *)

\* The editors are clean, and copies of what is stored up to what was touched.
THEOREM Invariant == Spec => []IInv
<1>1. Init => IInv
  BY InitIInv
<1>2. IInv /\ [Next]_vars => IInv'
  BY NextIInv
<1> QED
  BY <1>1, <1>2, PTL DEF Spec

\* The lists hold packages and the stack editors.
THEOREM TypeCorrect == Spec => []TypeOK
<1>1. IInv => TypeOK
  BY DEF IInv
<1> QED
  BY <1>1, Invariant, PTL

\* The app's own traffic is never routed into the VPN: no list ever holds the
\* app, because no editor shows it, and the modes without a list exclude it.
THEOREM OwnStaysOutside == Spec => []OwnOutside
<1>1. IInv => OwnOutside
  <2> SUFFICES ASSUME IInv PROVE Own \notin Routed
    BY DEF OwnOutside
  <2>1. CASE mode = "allow"
    BY <2>1, OwnAssumption DEF Routed, Allowed, InList, IInv, Clean, ListType
  <2>2. CASE mode # "allow"
    BY <2>2 DEF Routed, Allowed, Disallowed, IInv, TypeOK, Mode, ListType
  <2> QED
    BY <2>1, <2>2
<1> QED
  BY <1>1, Invariant, PTL

\* The white list admits its apps and nobody else, the black list excludes its.
THEOREM ListsMeanWhatTheySay == Spec => []FilterAsChosen
<1>1. IInv => FilterAsChosen
  BY OwnAssumption DEF FilterAsChosen, Routed, Allowed, Disallowed, InList, IInv, TypeOK
<1> QED
  BY <1>1, Invariant, PTL

\* Storing a list changes only the packages that were switched, or follows
\* another editor's storing it.
THEOREM OthersAreKept == Spec => OkKeepsOthers
<1>1. IInv /\ [Next]_vars =>
        [\A t \in ListType : \A p \in Pkg :
           stored'[t][p] # stored[t][p] =>
             Top.type = t /\ (p \in Top.touched \/ Top.stale)]_vars
  <2> SUFFICES ASSUME IInv, Next, NEW t \in ListType, NEW p \in Pkg,
                      stored'[t][p] # stored[t][p]
               PROVE  Top.type = t /\ (p \in Top.touched \/ Top.stale)
    BY DEF vars
  <2>1. Ok
    BY DEF Next, OpenSettings, CloseSettings, Kill, Discard, Rotate, ChooseMode,
           OpenEditor, Toggle, Install, Uninstall
  <2>2. Top \in Editor /\ Faithful(Top)
    BY <2>1, TopOK DEF Ok, CleanEditor
  <2>3. stored' = [stored EXCEPT ![Top.type] = Top.enableList]
    BY <2>1 DEF Ok
  <2>4. Top.type = t /\ stored'[t] = Top.enableList
    BY <2>2, <2>3 DEF IInv, TypeOK, Editor
  <2> QED
    BY <2>2, <2>4 DEF Faithful
<1> QED
  BY <1>1, Invariant, PTL DEF Spec, OkKeepsOthers
-------------------------------------------------------------------------------
(* The switches *)

OnOf(e, p) == RowsOf(p) \cap e.on

\* An editor shows all icons of a package or none, and has no more entries of it
\* than it has icons, nor than there are switches on; the one switch of an app
\* with one icon has its entry.
Counted(e) ==
  /\ e.on \subseteq e.rows
  /\ \A r \in e.rows : RowsOf(PkgOf[r]) \subseteq e.rows
  /\ \A r \in e.rows :
       /\ e.enableList[PkgOf[r]] <= Cardinality(OnOf(e, PkgOf[r]))
       /\ r \in e.on /\ RowsOf(PkgOf[r]) = {r} => e.enableList[PkgOf[r]] > 0
  /\ \A p \in Pkg : e.enableList[p] <= Cardinality(RowsOf(p))

CInv ==
  /\ IInv
  /\ \A t \in ListType : \A p \in Pkg : stored[t][p] <= Cardinality(RowsOf(p))
  /\ \A i \in 1 .. Len(editors) : Counted(editors[i])

LEMMA IconsFinite ==
  ASSUME NEW p, NEW on
  PROVE  /\ IsFiniteSet(RowsOf(p)) /\ Cardinality(RowsOf(p)) \in Nat
         /\ IsFiniteSet(RowsOf(p) \cap on) /\ Cardinality(RowsOf(p) \cap on) \in Nat
         /\ Cardinality(RowsOf(p) \cap on) <= Cardinality(RowsOf(p))
<1>1. RowsOf(p) \subseteq Row
  BY DEF RowsOf
<1>2. IsFiniteSet(RowsOf(p))
  BY <1>1, RowAssumption, FS_Subset
<1>3. RowsOf(p) \cap on \subseteq RowsOf(p)
  OBVIOUS
<1>4. /\ IsFiniteSet(RowsOf(p) \cap on)
      /\ Cardinality(RowsOf(p) \cap on) <= Cardinality(RowsOf(p))
  BY <1>2, <1>3, FS_Subset
<1> QED
  BY <1>2, <1>4, FS_CardinalityType

\* An editor as it is opened: every icon of a package in the list is on.
LEMMA CountedOpened ==
  ASSUME CInv, NEW t \in ListType
  PROVE  Counted(NewEditor(t))
<1> DEFINE e == NewEditor(t)
<1>1. /\ e.enableList = stored[t] /\ e.rows = RowsShown
      /\ e.on = {r \in RowsShown : stored[t][PkgOf[r]] > 0}
  BY DEF NewEditor
<1>2. stored[t] \in [Pkg -> Nat]
  BY DEF CInv, IInv, TypeOK
<1>3. \A p \in Pkg : stored[t][p] \in Nat /\ stored[t][p] <= Cardinality(RowsOf(p))
  BY <1>2 DEF CInv
<1> HIDE DEF e
<1>4. \A r \in RowsShown : RowsOf(PkgOf[r]) \subseteq RowsShown /\ PkgOf[r] \in Pkg
  BY RowAssumption DEF RowsShown, RowsOf
<1>5. ASSUME NEW r \in RowsShown
      PROVE  /\ e.enableList[PkgOf[r]] <= Cardinality(OnOf(e, PkgOf[r]))
             /\ r \in e.on => e.enableList[PkgOf[r]] > 0
  <2> DEFINE p == PkgOf[r]
  <2>1. p \in Pkg /\ RowsOf(p) \subseteq RowsShown
    BY <1>4
  <2>2. CASE stored[t][p] > 0
    <3>1. \A q \in RowsOf(p) : PkgOf[q] = p
      BY DEF RowsOf
    <3>2. OnOf(e, p) = RowsOf(p)
      BY <1>1, <2>1, <2>2, <3>1 DEF OnOf
    <3> QED
      BY <1>1, <1>3, <2>1, <2>2, <3>2
  <2>3. CASE ~ (stored[t][p] > 0)
    <3>1. stored[t][p] = 0
      BY <1>3, <2>1, <2>3
    <3>2. Cardinality(OnOf(e, p)) \in Nat
      BY IconsFinite DEF OnOf
    <3>3. r \notin e.on
      BY <1>1, <2>3
    <3> QED
      BY <1>1, <3>1, <3>2, <3>3
  <2> QED
    BY <2>2, <2>3
<1>6. Counted(e)
  BY <1>1, <1>3, <1>4, <1>5 DEF Counted
<1> QED
  BY <1>6 DEF e

\* A switch takes one entry and one of the switches that are on with it, up or
\* down together.
LEMMA CountedToggled ==
  ASSUME NEW e \in CleanEditor, Counted(e), NEW r \in e.rows
  PROVE  Counted(Switched(e, r))
<1> DEFINE p == PkgOf[r]
           isChecked == r \notin e.on
           n == IF isChecked THEN e.enableList[p] + 1
                ELSE IF e.enableList[p] > 0 THEN e.enableList[p] - 1 ELSE 0
           list == [e.enableList EXCEPT ![p] = n]
           on == IF isChecked THEN e.on \cup {r} ELSE e.on \ {r}
           x == Switched(e, r)
<1>1. /\ e.enableList \in [Pkg -> Nat] /\ e.rows \in SUBSET Row
      /\ e \in Editor
  BY DEF CleanEditor, Editor
<1>2. p \in Pkg /\ r \in RowsOf(p) /\ e.enableList[p] \in Nat
  BY <1>1, RowAssumption DEF RowsOf
<1>3. x.enableList = list /\ x.on = on /\ x.rows = e.rows
  <2>1. x = [e EXCEPT !.enableList = list, !.on = on, !.touched = e.touched \cup {p}]
    BY DEF Switched
  <2> HIDE DEF p, n, list, on, x
  <2> QED
    BY <1>1, <2>1 DEF Editor
<1>4. n <= Cardinality(RowsOf(p) \cap on) /\ n \in Nat
      /\ (isChecked => n > 0)
  <2> DEFINE R == RowsOf(p) \cap e.on
  <2>1. /\ IsFiniteSet(R) /\ Cardinality(R) \in Nat
        /\ e.enableList[p] <= Cardinality(R)
    BY IconsFinite DEF Counted, OnOf
  <2>2. CASE isChecked
    <3>1. RowsOf(p) \cap on = R \cup {r} /\ r \notin R
      BY <1>2, <2>2
    <3> HIDE DEF R
    <3>2. Cardinality(R \cup {r}) = Cardinality(R) + 1
      BY <2>1, <3>1, FS_AddElement
    <3> QED
      BY <1>2, <2>1, <2>2, <3>1, <3>2
  <2>3. CASE ~ isChecked
    <3>1. RowsOf(p) \cap on = R \ {r} /\ r \in R
      BY <1>2, <2>3
    <3> HIDE DEF R
    <3>2. Cardinality(R \ {r}) = Cardinality(R) - 1 /\ Cardinality(R \ {r}) \in Nat
      BY <2>1, <3>1, FS_RemoveElement, FS_CardinalityType
    <3>3. n = IF e.enableList[p] > 0 THEN e.enableList[p] - 1 ELSE 0
      BY <2>3
    <3> HIDE DEF n, on
    <3>4. n <= Cardinality(R) - 1 /\ n \in Nat
      <4> DEFINE c == Cardinality(R)
      <4>1. c \in Nat /\ e.enableList[p] <= c /\ c - 1 \in Nat
        BY <2>1, <3>2
      <4> HIDE DEF c
      <4>2. n <= c - 1 /\ n \in Nat
        BY <1>2, <3>3, <4>1
      <4> QED
        BY <4>2 DEF c
    <3> QED
      BY <2>3, <3>1, <3>2, <3>4
  <2> QED
    BY <2>2, <2>3
<1>5. ASSUME NEW q \in Row, PkgOf[q] # p
      PROVE  list[PkgOf[q]] = e.enableList[PkgOf[q]]
             /\ RowsOf(PkgOf[q]) \cap on = RowsOf(PkgOf[q]) \cap e.on
             /\ (q \in on <=> q \in e.on)
  <2>1. r \notin RowsOf(PkgOf[q]) /\ q # r
    BY <1>5 DEF RowsOf
  <2>2. PkgOf[q] \in Pkg
    BY RowAssumption
  <2> QED
    BY <1>1, <1>5, <2>1, <2>2
<1>6. list[p] = n
  BY <1>1, <1>2
<1>7. \A q \in Pkg \ {p} : list[q] = e.enableList[q]
  BY <1>1
<1>8. on \subseteq e.rows
  BY DEF Counted
<1>9. RowsOf(p) = {r} => (r \in on <=> isChecked)
  OBVIOUS
<1>10. \A q \in Row : PkgOf[q] = p => q \in RowsOf(p)
  BY DEF RowsOf
<1> HIDE DEF n, list, on, x, isChecked
<1>11. ASSUME NEW q \in e.rows
       PROVE  /\ list[PkgOf[q]] <= Cardinality(RowsOf(PkgOf[q]) \cap on)
              /\ q \in on /\ RowsOf(PkgOf[q]) = {q} => list[PkgOf[q]] > 0
  <2>1. q \in Row
    BY <1>1
  <2>2. CASE PkgOf[q] = p
    <3>1. list[PkgOf[q]] <= Cardinality(RowsOf(PkgOf[q]) \cap on)
      BY <1>4, <1>6, <2>2
    <3>2. ASSUME q \in on, RowsOf(PkgOf[q]) = {q} PROVE list[PkgOf[q]] > 0
      <4>1. q = r
        BY <1>2, <2>2, <3>2
      <4>2. isChecked
        BY <1>9, <2>2, <3>2, <4>1
      <4> QED
        BY <1>4, <1>6, <2>2, <4>2
    <3> QED
      BY <3>1, <3>2
  <2>3. CASE PkgOf[q] # p
    BY <1>5, <2>1, <2>3 DEF Counted, OnOf
  <2> QED
    BY <2>2, <2>3
<1>12. ASSUME NEW q \in Pkg PROVE list[q] <= Cardinality(RowsOf(q))
  <2>1. CASE q = p
    <3>1. /\ Cardinality(RowsOf(p)) \in Nat /\ Cardinality(RowsOf(p) \cap on) \in Nat
          /\ Cardinality(RowsOf(p) \cap on) <= Cardinality(RowsOf(p))
      BY IconsFinite
    <3> QED
      BY <1>4, <1>6, <2>1, <3>1
  <2>2. CASE q # p
    BY <1>7, <2>2 DEF Counted
  <2> QED
    BY <2>1, <2>2
<1>13. Counted(x)
  BY <1>3, <1>8, <1>11, <1>12 DEF Counted, OnOf
<1> QED
  BY <1>13 DEF x

\* Counted looks at three fields only.
LEMMA CountedSame ==
  ASSUME NEW e, NEW f, Counted(e),
         f.on = e.on, f.rows = e.rows, f.enableList = e.enableList
  PROVE  Counted(f)
BY DEF Counted, OnOf

LEMMA InitCInv == Init => CInv
<1> SUFFICES ASSUME Init PROVE CInv
  OBVIOUS
<1>1. IInv /\ Len(editors) = 0
  BY InitIInv, EmptySeq DEF Init
<1>2. \A t \in ListType : \A p \in Pkg : stored[t][p] <= Cardinality(RowsOf(p))
  <2>1. \A t \in ListType : \A p \in Pkg : stored[t][p] = 0
    BY DEF Init
  <2>2. \A p \in Pkg : Cardinality(RowsOf(p)) \in Nat
    BY IconsFinite
  <2> QED
    BY <2>1, <2>2
<1> QED
  BY <1>1, <1>2 DEF CInv

LEMMA NextCInv == CInv /\ [Next]_vars => CInv'
<1> SUFFICES ASSUME CInv, [Next]_vars PROVE CInv'
  OBVIOUS
<1> DEFINE Kept == \A t \in ListType : \A p \in Pkg : stored'[t][p] <= Cardinality(RowsOf(p))
           AllCounted == \A i \in 1 .. Len(editors') : Counted(editors'[i])
<1>1. /\ IInv' /\ IInv /\ Len(editors) \in Nat
      /\ \A i \in 1 .. Len(editors) : Counted(editors[i])
      /\ \A t \in ListType : \A p \in Pkg : stored[t][p] <= Cardinality(RowsOf(p))
  BY NextIInv, LenProperties DEF CInv, IInv, TypeOK
<1>2. SUFFICES Kept /\ AllCounted
  <2>1. \A e : Counted(e)' <=> Counted(e)
    BY DEF Counted, OnOf, RowsOf
  <2> QED
    BY <1>1 DEF CInv, Counted, OnOf, RowsOf
<1>3. CASE UNCHANGED <<stored, editors>>
  BY <1>1, <1>3
<1>4. CASE Kill
  <2>1. editors' = <<>> /\ Len(editors') = 0 /\ stored' = stored
    BY <1>4, EmptySeq DEF Kill
  <2> QED
    BY <1>1, <2>1
<1>5. CASE Ok \/ Discard
  <2>1. /\ Len(Front(editors)) = Len(editors) - 1
        /\ DOMAIN Front(editors) = 1 .. Len(editors) - 1
        /\ \A i \in 1 .. Len(editors) - 1 : Front(editors)[i] = editors[i]
    BY <1>1, <1>5, StackTop DEF Ok, Discard, IInv, TypeOK
  <2>2. \A i \in 1 .. Len(editors) - 1 : Counted(editors[i]) /\ editors[i] \in Editor
    BY <1>1, ElementOfSeq DEF IInv, TypeOK
  <2>3. CASE Discard
    BY <1>1, <2>1, <2>2, <2>3 DEF Discard
  <2>4. CASE Ok
    <3>1. Len(editors') = Len(editors) - 1
      <4>1. /\ editors' = [i \in 1 .. Len(editors) - 1 |->
                             [editors[i] EXCEPT !.stale = @ \/ editors[i].type = Top.type]]
            /\ DOMAIN editors' = 1 .. Len(editors) - 1
        BY <2>1, <2>4 DEF Ok
      <4>2. Len(editors') \in Nat /\ DOMAIN editors' = 1 .. Len(editors')
        BY <1>1, LenProperties DEF IInv, TypeOK
      <4>3. Len(editors) - 1 \in Nat
        BY <1>1, <2>4, StackTop DEF Ok, IInv, TypeOK
      <4> QED
        BY <4>1, <4>2, <4>3
    <3>2. ASSUME NEW i \in 1 .. Len(editors) - 1 PROVE Counted(editors'[i])
      <4>1. editors'[i] = [editors[i] EXCEPT !.stale = @ \/ editors[i].type = Top.type]
        BY <2>1, <2>4 DEF Ok
      <4>2. /\ editors'[i].on = editors[i].on /\ editors'[i].rows = editors[i].rows
            /\ editors'[i].enableList = editors[i].enableList
        BY <2>2, <4>1 DEF Editor
      <4> QED
        BY <2>2, <4>2, CountedSame
    <3>3. /\ Top \in Editor /\ Counted(Top)
          /\ stored' = [stored EXCEPT ![Top.type] = Top.enableList]
      <4>1. editors # <<>> /\ Top = editors[Len(editors)] /\ Len(editors) \in Nat \ {0}
        BY <1>1, <2>4, TopOK, StackTop DEF Ok, IInv, TypeOK
      <4> QED
        BY <1>1, <2>4, <4>1, TopOK DEF Ok, CleanEditor
    <3>4. Kept
      BY <1>1, <3>3 DEF Counted, IInv, TypeOK
    <3> QED
      BY <3>1, <3>2, <3>4
  <2> QED
    BY <1>5, <2>3, <2>4
<1>6. ASSUME NEW e \in CleanEditor, Counted(e), editors # <<>>, editors' = SetTop(e),
             stored' = stored
      PROVE  Kept /\ AllCounted
  <2>1. /\ Len(editors') = Len(editors) /\ editors'[Len(editors)] = e
        /\ \A i \in 1 .. Len(editors) - 1 : editors'[i] = editors[i]
    BY <1>1, <1>6, StackChange DEF SetTop, IInv, Clean
  <2>2. \A i \in 1 .. Len(editors) : i = Len(editors) \/ i \in 1 .. Len(editors) - 1
    BY <1>1
  <2> QED
    BY <1>1, <1>6, <2>1, <2>2
<1>7. CASE Rotate
  <2>1. editors # <<>> /\ Top \in Editor
    BY <1>1, <1>7, TopOK DEF Rotate, CleanEditor
  <2>2. Top.type \in ListType
    BY <2>1 DEF Editor
  <2>3. Counted(NewEditor(Top.type)) /\ NewEditor(Top.type) \in CleanEditor
    BY <1>1, <2>2, CountedOpened, EditorOpened DEF IInv
  <2> QED
    BY <1>6, <1>7, <2>3 DEF Rotate
<1>8. ASSUME NEW r \in Row, Toggle(r) PROVE Kept /\ AllCounted
  <2>1. /\ editors # <<>> /\ r \in Top.rows
        /\ editors' = SetTop(Switched(Top, r)) /\ stored' = stored
    BY <1>8 DEF Toggle
  <2>2. /\ Top \in CleanEditor /\ Top = editors[Len(editors)]
        /\ Len(editors) \in Nat \ {0}
    BY <1>1, <2>1, TopOK, StackTop DEF IInv, TypeOK
  <2>3. Counted(Top)
    BY <1>1, <2>2
  <2>4. Counted(Switched(Top, r)) /\ Switched(Top, r) \in CleanEditor
    BY <2>1, <2>2, <2>3, CountedToggled, EditorToggled
  <2> QED
    BY <1>6, <2>1, <2>4
<1>9. ASSUME NEW t \in ListType, OpenEditor(t) PROVE Kept /\ AllCounted
  <2>1. /\ editors' = Append(editors, NewEditor(t)) /\ stored' = stored
        /\ NewEditor(t) \in Editor /\ editors \in Seq(Editor) /\ Counted(NewEditor(t))
    BY <1>1, <1>9, CountedOpened, EditorOpened DEF OpenEditor, IInv, CleanEditor, TypeOK
  <2>2. /\ Len(editors') = Len(editors) + 1 /\ editors'[Len(editors) + 1] = NewEditor(t)
        /\ \A i \in 1 .. Len(editors) : editors'[i] = editors[i]
    BY <2>1, AppendProperties
  <2>3. \A i \in 1 .. Len(editors) + 1 : i = Len(editors) + 1 \/ i \in 1 .. Len(editors)
    BY <1>1
  <2> QED
    BY <1>1, <2>1, <2>2, <2>3
<1>10. CASE UNCHANGED vars
  BY <1>3, <1>10 DEF vars
<1> QED
  BY <1>3, <1>4, <1>5, <1>7, <1>8, <1>9, <1>10
  DEF Next, OpenSettings, CloseSettings, ChooseMode, Install, Uninstall

\* The switches of every open editor tell what "OK" would store, although each
\* icon of an app has one and all of them add and remove entries of one name.
THEOREM SwitchesTellTheTruth == Spec => []SwitchesTruthful
<1>1. CInv => SwitchesTruthful
  <2> SUFFICES ASSUME CInv, NEW i \in DOMAIN editors, NEW r \in editors[i].rows
               PROVE  LET e == editors[i]
                          p == PkgOf[r]
                      IN /\ r \in e.on /\ RowsOf(p) = {r} => e.enableList[p] > 0
                         /\ RowsOf(p) \cap e.on = {} => e.enableList[p] = 0
    BY DEF SwitchesTruthful
  <2>1. i \in 1 .. Len(editors) /\ editors[i] \in Editor
    BY LenProperties, ElementOfSeq DEF CInv, IInv, TypeOK
  <2> DEFINE e == editors[i]
             p == PkgOf[r]
  <2>2. Counted(e) /\ r \in Row /\ e.enableList \in [Pkg -> Nat]
    BY <2>1 DEF CInv, Editor
  <2>3. p \in Pkg /\ e.enableList[p] \in Nat
    BY <2>2, RowAssumption
  <2>4. RowsOf(p) \cap e.on = {} => e.enableList[p] = 0
    BY <2>2, <2>3, FS_EmptySet DEF Counted, OnOf
  <2>5. r \in e.on /\ RowsOf(p) = {r} => e.enableList[p] > 0
    BY <2>2 DEF Counted
  <2> QED
    BY <2>4, <2>5
<1>2. Init => CInv
  BY InitCInv
<1>3. CInv /\ [Next]_vars => CInv'
  BY NextCInv
<1> QED
  BY <1>1, <1>2, <1>3, PTL DEF Spec

-------------------------------------------------------------------------------
(* The netmask *)

LEMMA Powers ==
  /\ Power(0) = 1 /\ Power(1) = 2 /\ Power(2) = 4 /\ Power(3) = 8
  /\ Power(4) = 16 /\ Power(5) = 32 /\ Power(6) = 64 /\ Power(7) = 128
  /\ Power(8) = 256
BY DEF Power

\* The logarithm rounded up, of what an octet is short of 256.
LEMMA CeilLog2OK == \A n \in 1 .. 256 : CeilLog2(n) \in 0 .. 8
<1> TAKE n \in 1 .. 256
<1>1. \E k \in 0 .. 8 : n <= Power(k) /\ (k = 0 \/ n > Power(k - 1))
  <2>1. CASE n <= 1
    BY <2>1, Powers
  <2>2. CASE n \in 2 .. 2
    <3>1. n <= Power(1) /\ n > Power(1 - 1)
      BY <2>2, Powers
    <3> QED
      BY <3>1
  <2>3. CASE n \in 3 .. 4
    <3>1. n <= Power(2) /\ n > Power(2 - 1)
      BY <2>3, Powers
    <3> QED
      BY <3>1
  <2>4. CASE n \in 5 .. 8
    <3>1. n <= Power(3) /\ n > Power(3 - 1)
      BY <2>4, Powers
    <3> QED
      BY <3>1
  <2>5. CASE n \in 9 .. 16
    <3>1. n <= Power(4) /\ n > Power(4 - 1)
      BY <2>5, Powers
    <3> QED
      BY <3>1
  <2>6. CASE n \in 17 .. 32
    <3>1. n <= Power(5) /\ n > Power(5 - 1)
      BY <2>6, Powers
    <3> QED
      BY <3>1
  <2>7. CASE n \in 33 .. 64
    <3>1. n <= Power(6) /\ n > Power(6 - 1)
      BY <2>7, Powers
    <3> QED
      BY <3>1
  <2>8. CASE n \in 65 .. 128
    <3>1. n <= Power(7) /\ n > Power(7 - 1)
      BY <2>8, Powers
    <3> QED
      BY <3>1
  <2>9. CASE n \in 129 .. 256
    <3>1. n <= Power(8) /\ n > Power(8 - 1)
      BY <2>9, Powers
    <3> QED
      BY <3>1
  <2> QED
    BY <2>1, <2>2, <2>3, <2>4, <2>5, <2>6, <2>7, <2>8, <2>9
<1> QED
  BY <1>1 DEF CeilLog2

\* It is exact where the octet is one of a netmask.
LEMMA CeilLog2Exact ==
  \A k \in 0 .. 8 : /\ Power(k) \in 1 .. 256
                    /\ CeilLog2(Power(k)) = k
<1> TAKE k \in 0 .. 8
<1>1. \A j \in 0 .. 8 : Power(j) \in 1 .. 256
  BY Powers
<1>2. \A j \in 0 .. 8 :
        Power(k) <= Power(j) /\ (j = 0 \/ Power(k) > Power(j - 1)) <=> j = k
  <2> TAKE j \in 0 .. 8
  <2>1. CASE j = 0
    BY <2>1, Powers
  <2>2. CASE j \in 1 .. 8
    BY <2>2, Powers
  <2> QED
    BY <2>1, <2>2
<1>3. CeilLog2(Power(k)) = CHOOSE j \in 0 .. 8 : j = k
  BY <1>2 DEF CeilLog2
<1> QED
  BY <1>1, <1>3

\* An octet of a netmask adds its ones.
LEMMA AddBits ==
  ASSUME NEW len \in 0 .. 32, NEW b \in 0 .. 8
  PROVE  AddOctet(len, 256 - Power(8 - b)) = len + b
<1> DEFINE k == 8 - b
           n == 256 - Power(k)
<1>1. k \in 0 .. 8
  OBVIOUS
<1>2. Power(k) \in 1 .. 256 /\ CeilLog2(Power(k)) = k
  BY <1>1, CeilLog2Exact
<1>3. n \in 0 .. 255 /\ 256 - n = Power(k)
  BY <1>2
<1>4. 8 - k = b
  OBVIOUS
<1> HIDE DEF n, k
<1>5. AddOctet(len, n) = Saturated(len, b)
  BY <1>2, <1>3, <1>4 DEF AddOctet
<1>6. Saturated(len, b) = len + b
  BY DEF Saturated, MaxInt
<1> QED
  BY <1>5, <1>6 DEF n, k

\* A netmask gives its own prefix.
LEMMA PrefixOfNetmask ==
  ASSUME NEW p \in 0 .. 32
  PROVE  Netmask2prefix(NetmaskOf[p]) = p
<1> DEFINE B(i) == Bits(p, i)
           m == NetmaskOf[p]
<1>1. \A i \in 1 .. 4 : m[i] = 256 - Power(8 - B(i))
  BY DEF NetmaskOf
<1>2. /\ B(1) \in 0 .. 8 /\ B(2) \in 0 .. 8 /\ B(3) \in 0 .. 8 /\ B(4) \in 0 .. 8
      /\ B(1) + B(2) + B(3) + B(4) = p
  BY DEF Bits
<1> HIDE DEF B, m
<1>3. AddOctet(0, m[1]) = B(1)
  BY <1>1, <1>2, AddBits
<1>4. AddOctet(B(1), m[2]) = B(1) + B(2)
  BY <1>1, <1>2, AddBits
<1>5. AddOctet(B(1) + B(2), m[3]) = B(1) + B(2) + B(3)
  <2>1. B(1) + B(2) \in 0 .. 32
    BY <1>2
  <2> QED
    BY <1>1, <1>2, <2>1, AddBits
<1>6. AddOctet(B(1) + B(2) + B(3), m[4]) = B(1) + B(2) + B(3) + B(4)
  <2>1. B(1) + B(2) + B(3) \in 0 .. 32
    BY <1>2
  <2> QED
    BY <1>1, <1>2, <2>1, AddBits
<1> QED
  BY <1>2, <1>3, <1>4, <1>5, <1>6 DEF Netmask2prefix, m

\* What an octet makes of the sum so far: it stays within the octets' bits or
\* sticks at the largest int, until a number past 256 makes it 0.
LEMMA OctetAdds ==
  ASSUME NEW top \in 0 .. 24, NEW len \in (0 .. top) \cup {MaxInt}, NEW n \in Nat
  PROVE  /\ AddOctet(len, n) \in (0 .. top + 8) \cup {MaxInt}
         /\ AddOctet(len, n) = MaxInt <=> n = 256 \/ (n < 256 /\ len = MaxInt)
<1>1. CASE n < 256
  <2> DEFINE bits == 8 - CeilLog2(256 - n)
  <2>1. bits \in 0 .. 8
    <3>1. 256 - n \in 1 .. 256
      BY <1>1
    <3>2. CeilLog2(256 - n) \in 0 .. 8
      BY <3>1, CeilLog2OK
    <3> QED
      BY <3>2
  <2>2. AddOctet(len, n) = Saturated(len, bits)
    BY <1>1 DEF AddOctet
  <2> HIDE DEF bits
  <2> QED
    BY <1>1, <2>1, <2>2 DEF Saturated, MaxInt
<1>2. CASE n = 256
  BY <1>2 DEF AddOctet
<1>3. CASE n > 256
  BY <1>3 DEF AddOctet, MaxInt
<1> QED
  BY <1>1, <1>2, <1>3

\* The prefix the builder takes, from any four numbers.
LEMMA AcceptedPrefix ==
  ASSUME NEW m \in [1 .. 4 -> Nat]
  PROVE  ~Accepted(Netmask2prefix(m)) <=>
           \E i \in 1 .. 4 : m[i] = 256 /\ \A j \in i + 1 .. 4 : m[j] <= 256
<1> DEFINE l1 == AddOctet(0, m[1])
           l2 == AddOctet(l1, m[2])
           l3 == AddOctet(l2, m[3])
           l4 == AddOctet(l3, m[4])
<1>1. m[1] \in Nat /\ m[2] \in Nat /\ m[3] \in Nat /\ m[4] \in Nat
  OBVIOUS
<1>2. 0 # MaxInt /\ 0 \in (0 .. 0) \cup {MaxInt}
  BY DEF MaxInt
<1>3. l1 \in (0 .. 8) \cup {MaxInt} /\ (l1 = MaxInt <=> m[1] = 256)
  <2>1. /\ l1 \in (0 .. 0 + 8) \cup {MaxInt}
        /\ l1 = MaxInt <=> m[1] = 256 \/ (m[1] < 256 /\ 0 = MaxInt)
    BY <1>1, <1>2, OctetAdds
  <2> QED
    BY <1>2, <2>1
<1> HIDE DEF l1
<1>4. /\ l2 \in (0 .. 16) \cup {MaxInt}
      /\ l2 = MaxInt <=> m[2] = 256 \/ (m[2] < 256 /\ l1 = MaxInt)
  <2>1. /\ l2 \in (0 .. 8 + 8) \cup {MaxInt}
        /\ l2 = MaxInt <=> m[2] = 256 \/ (m[2] < 256 /\ l1 = MaxInt)
    BY <1>1, <1>3, OctetAdds
  <2> QED
    BY <2>1
<1> HIDE DEF l2
<1>5. /\ l3 \in (0 .. 24) \cup {MaxInt}
      /\ l3 = MaxInt <=> m[3] = 256 \/ (m[3] < 256 /\ l2 = MaxInt)
  <2>1. /\ l3 \in (0 .. 16 + 8) \cup {MaxInt}
        /\ l3 = MaxInt <=> m[3] = 256 \/ (m[3] < 256 /\ l2 = MaxInt)
    BY <1>1, <1>4, OctetAdds
  <2> QED
    BY <2>1
<1> HIDE DEF l3
<1>6. /\ l4 \in (0 .. 32) \cup {MaxInt}
      /\ l4 = MaxInt <=> m[4] = 256 \/ (m[4] < 256 /\ l3 = MaxInt)
  <2>1. /\ l4 \in (0 .. 24 + 8) \cup {MaxInt}
        /\ l4 = MaxInt <=> m[4] = 256 \/ (m[4] < 256 /\ l3 = MaxInt)
    BY <1>1, <1>5, OctetAdds
  <2> QED
    BY <2>1
<1> HIDE DEF l4
<1>7. Netmask2prefix(m) = l4
  BY DEF Netmask2prefix, l1, l2, l3, l4
<1>8. ~Accepted(l4) <=> l4 = MaxInt
  BY <1>6 DEF Accepted, MaxInt
<1>9. (\E i \in 1 .. 4 : m[i] = 256 /\ \A j \in i + 1 .. 4 : m[j] <= 256) <=>
        \/ m[4] = 256
        \/ m[3] = 256 /\ m[4] <= 256
        \/ m[2] = 256 /\ m[3] <= 256 /\ m[4] <= 256
        \/ m[1] = 256 /\ m[2] <= 256 /\ m[3] <= 256 /\ m[4] <= 256
  <2> DEFINE Q(i) == m[i] = 256 /\ \A j \in i + 1 .. 4 : m[j] <= 256
  <2>1. /\ Q(4) <=> m[4] = 256
        /\ Q(3) <=> m[3] = 256 /\ m[4] <= 256
        /\ Q(2) <=> m[2] = 256 /\ m[3] <= 256 /\ m[4] <= 256
        /\ Q(1) <=> m[1] = 256 /\ m[2] <= 256 /\ m[3] <= 256 /\ m[4] <= 256
    OBVIOUS
  <2> HIDE DEF Q
  <2>2. (\E i \in 1 .. 4 : Q(i)) <=> Q(1) \/ Q(2) \/ Q(3) \/ Q(4)
    <3>1. \A i \in 1 .. 4 : i \in {1, 2, 3, 4}
      OBVIOUS
    <3> QED
      BY <3>1
  <2> QED
    BY <2>1, <2>2 DEF Q
<1> QED
  BY <1>1, <1>3, <1>4, <1>5, <1>6, <1>7, <1>8, <1>9

\* Whatever four numbers are typed, those of a netmask give its prefix, and the
\* others a prefix the builder takes unless 256 is among them with nothing past
\* 256 behind it (netmask2prefix, SettingsActivity's listener).
THEOREM PrefixIsNetmasks == NetmaskSpec => []PrefixMeansNetmask
<1> DEFINE NInv == netmask \in [1 .. 4 -> Nat]
<1>1. NetmaskInit => NInv
  BY DEF NetmaskInit, DefaultNetmask
<1>2. NInv /\ [SaveNetmask]_netmask => NInv'
  BY EnteredAssumption DEF SaveNetmask
<1>3. NInv => PrefixMeansNetmask
  BY PrefixOfNetmask, AcceptedPrefix DEF PrefixMeansNetmask
<1> QED
  BY <1>1, <1>2, <1>3, PTL DEF NetmaskSpec

===============================================================================
