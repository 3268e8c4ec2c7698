------------------------------ MODULE AppFilter -------------------------------
(* Which apps use the VPN: the three modes of SettingsActivity, the two lists   *)
(* that appListActivity edits, and what setupVPN tells the system.             *)
(*                                                                             *)
(* The editor works on a copy of a list and shows a row with a switch for each *)
(* launcher icon; an app may have several icons.  "OK" stores the copy.  A     *)
(* second tap may open a second editor on top of the first.                    *)
EXTENDS Naturals, Sequences, FiniteSets, SequencesExt

CONSTANTS Pkg,          \* package names
          Own,          \* HeptaVcn's own
          Blank,        \* the package name ""
          Row,          \* launcher icons
          PkgOf,        \* the package of each icon
          MaxEditors    \* bound of the model: editors on top of each other

ASSUME OwnAssumption == Own \in Pkg /\ Blank \notin Pkg
ASSUME RowAssumption == PkgOf \in [Row -> Pkg] /\ IsFiniteSet(Row)
ASSUME EditorAssumption == MaxEditors \in Nat

VARIABLES
  mode,       \* on disk, "Type"
  stored,     \* on disk, how often each list has a package
  installed,  \* the packages on the phone
  screen,     \* MainActivity or SettingsActivity
  checked,    \* the check boxes that are ticked
  usable,     \* the list preferences that can be tapped
  editors     \* the appListActivity instances, the last one on top

vars == <<mode, stored, installed, screen, checked, usable, editors>>

ListType == {"allow", "disallow"}
Mode == {"none"} \cup ListType

RowsOf(p) == {r \in Row : PkgOf[r] = p}

\* One instance of appListActivity: its copy of the list, the icons it shows
\* and those switched on.  touched and stale are history: the packages whose
\* switches were used, and whether the list was stored since it was read.
Editor == [type : ListType, enableList : [Pkg -> Nat], rows : SUBSET Row,
           on : SUBSET Row, touched : SUBSET Pkg, stale : BOOLEAN]

TypeOK ==
  /\ mode \in Mode
  /\ stored \in [ListType -> [Pkg -> Nat]]
  /\ installed \in SUBSET Pkg
  /\ screen \in {"main", "settings"}
  /\ checked \in SUBSET Mode
  /\ usable \in SUBSET ListType
  /\ editors \in Seq(Editor)

Init ==
  /\ mode = "none"
  /\ stored = [t \in ListType |-> [p \in Pkg |-> 0]]
  /\ installed = Pkg
  /\ screen = "main"
  /\ checked = {}
  /\ usable = {}
  /\ editors = <<>>

-------------------------------------------------------------------------------
(* appListActivity *)

\* Slip: the app's own icons are shown too.
RowsShownAll == {r \in Row : PkgOf[r] \in installed}

\* getAllLauncherIconPackages: every icon but the app's own.
RowsShown == {r \in Row : PkgOf[r] \in installed \ {Own}}

\* onCreate: read the list, switch on the rows of the packages in it.
NewEditor(t) ==
  [type |-> t, enableList |-> stored[t], rows |-> RowsShown,
   on |-> {r \in RowsShown : stored[t][PkgOf[r]] > 0},
   touched |-> {}, stale |-> FALSE]

Top == Last(editors)
SetTop(e) == Append(Front(editors), e)

\* A tap on a list preference.
OpenEditor(t) ==
  /\ screen = "settings"
  /\ t \in usable
  /\ Len(editors) < MaxEditors
  /\ editors' = Append(editors, NewEditor(t))
  /\ UNCHANGED <<mode, stored, installed, screen, checked, usable>>

\* Slip: a switch that goes off only clears its row.
SwitchedAddsOnly(e, r) ==
  LET p == PkgOf[r]
      isChecked == r \notin e.on
      n == IF isChecked THEN e.enableList[p] + 1 ELSE e.enableList[p]
  IN [e EXCEPT !.enableList = [e.enableList EXCEPT ![p] = n],
               !.on = IF isChecked THEN e.on \cup {r} ELSE e.on \ {r},
               !.touched = e.touched \cup {p}]

\* The switch of a row changes: its package is added once more, or one of its
\* entries is removed, if it has any.
Switched(e, r) ==
  LET p == PkgOf[r]
      isChecked == r \notin e.on
      n == IF isChecked THEN e.enableList[p] + 1
           ELSE IF e.enableList[p] > 0 THEN e.enableList[p] - 1 ELSE 0
  IN [e EXCEPT !.enableList = [e.enableList EXCEPT ![p] = n],
               !.on = IF isChecked THEN e.on \cup {r} ELSE e.on \ {r},
               !.touched = e.touched \cup {p}]

Toggle(r) ==
  /\ editors # <<>>
  /\ r \in Top.rows
  /\ editors' = SetTop(Switched(Top, r))
  /\ UNCHANGED <<mode, stored, installed, screen, checked, usable>>

\* Slip: both lists are stored under one key.
OkBoth ==
  /\ editors # <<>>
  /\ stored' = [t \in ListType |-> Top.enableList]
  /\ editors' = Front(editors)
  /\ UNCHANGED <<mode, installed, screen, checked, usable>>

\* "OK": encodeApplicationList stores the copy, and the activity finishes.
Ok ==
  /\ editors # <<>>
  /\ stored' = [stored EXCEPT ![Top.type] = Top.enableList]
  /\ editors' = [i \in DOMAIN Front(editors) |->
                   [editors[i] EXCEPT !.stale = @ \/ editors[i].type = Top.type]]
  /\ UNCHANGED <<mode, installed, screen, checked, usable>>

\* Back: the copy is thrown away.
Discard ==
  /\ editors # <<>>
  /\ editors' = Front(editors)
  /\ UNCHANGED <<mode, stored, installed, screen, checked, usable>>

\* Rotation makes the instance on top anew, from what is stored.
Rotate ==
  /\ editors # <<>>
  /\ editors' = SetTop(NewEditor(Top.type))
  /\ UNCHANGED <<mode, stored, installed, screen, checked, usable>>

-------------------------------------------------------------------------------
(* SettingsActivity *)

\* onCreatePreferences: boxes and list preferences as the stored mode says.
OpenSettings ==
  /\ screen = "main"
  /\ screen' = "settings"
  /\ checked' = {mode}
  /\ usable' = {mode} \cap ListType
  /\ UNCHANGED <<mode, stored, installed, editors>>

CloseSettings ==
  /\ screen = "settings"
  /\ editors = <<>>
  /\ screen' = "main"
  /\ checked' = {}
  /\ usable' = {}
  /\ UNCHANGED <<mode, stored, installed, editors>>

\* A box that is not ticked is tapped: the mode is stored, the other boxes go
\* off.  A tap on the ticked one is refused.
ChooseMode(m) ==
  /\ screen = "settings"
  /\ editors = <<>>
  /\ m \notin checked
  /\ mode' = m
  /\ checked' = {m}
  /\ usable' = {m} \cap ListType
  /\ UNCHANGED <<stored, installed, screen, editors>>

-------------------------------------------------------------------------------
(* The phone *)

Install(p) ==
  /\ p \notin installed
  /\ installed' = installed \cup {p}
  /\ UNCHANGED <<mode, stored, screen, checked, usable, editors>>

Uninstall(p) ==
  /\ p \in installed \ {Own}
  /\ installed' = installed \ {p}
  /\ UNCHANGED <<mode, stored, screen, checked, usable, editors>>

\* The app is killed and opened again.
Kill ==
  /\ screen = "settings"
  /\ screen' = "main"
  /\ checked' = {}
  /\ usable' = {}
  /\ editors' = <<>>
  /\ UNCHANGED <<mode, stored, installed>>

-------------------------------------------------------------------------------
(* setupVPN *)

InList(t) == {p \in Pkg : stored[t][p] > 0}

\* Slip: the call with the blank name is left out.
AllowedListOnly == IF mode = "allow" THEN InList("allow") ELSE {}

\* The calls of addAllowedApplication and addDisallowedApplication.
Allowed == IF mode = "allow" THEN {Blank} \cup InList("allow") ELSE {}
Disallowed ==
  CASE mode = "none" -> {Own}
    [] mode = "allow" -> {}
    [] mode = "disallow" -> {Own} \cup InList("disallow")

\* The system: if anything is allowed, it and nothing else uses the VPN.
Routed ==
  IF Allowed # {} THEN installed \cap Allowed ELSE installed \ Disallowed

-------------------------------------------------------------------------------
Next ==
  \/ OpenSettings \/ CloseSettings \/ Kill
  \/ Ok \/ Discard \/ Rotate
  \/ \E m \in Mode : ChooseMode(m)
  \/ \E t \in ListType : OpenEditor(t)
  \/ \E r \in Row : Toggle(r)
  \/ \E p \in Pkg : Install(p) \/ Uninstall(p)

Spec == Init /\ [][Next]_vars

-------------------------------------------------------------------------------
(* Properties *)

\* HeptaVcn's own traffic, the tunnel itself, never goes into the VPN, in any
\* mode and whatever the lists have come to hold.
OwnOutside == Own \notin Routed

\* The white list admits the apps in it and nobody else, also when it is empty
\* or everything in it was uninstalled; the black list excludes the apps in it.
FilterAsChosen ==
  /\ mode = "allow" => Routed = installed \cap InList("allow")
  /\ mode = "disallow" => Routed = installed \ ({Own} \cup InList("disallow"))

\* What the switches show is what "OK" would store: an app with one icon is in
\* the list when its switch is on, and no app is whose switches are all off,
\* although two switches of one app add and remove entries of the same name.
SwitchesTruthful ==
  \A i \in DOMAIN editors : \A r \in editors[i].rows :
    LET e == editors[i]
        p == PkgOf[r]
    IN /\ r \in e.on /\ RowsOf(p) = {r} => e.enableList[p] > 0
       /\ RowsOf(p) \cap e.on = {} => e.enableList[p] = 0

\* A list changes only in the packages whose switches were used in the editor
\* that stores it, unless another editor has stored that list in between: apps
\* that are not installed keep their place.
OkKeepsOthers ==
  [][\A t \in ListType : \A p \in Pkg :
       stored'[t][p] # stored[t][p] =>
         Top.type = t /\ (p \in Top.touched \/ Top.stale)]_vars
===============================================================================
