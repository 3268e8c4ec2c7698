----------------------------- MODULE ConfigStore ------------------------------
(* The saved servers: two MMKV files, MmkvManager that writes them, and the     *)
(* screens of the app that show and change them.                               *)
(*                                                                             *)
(* A save or a removal is several writes to two files, and Android may kill    *)
(* the app between any two of them; a single write is atomic and survives.     *)
(* Everything runs on the main thread: while a handler is between two writes   *)
(* (step # "idle") nothing else happens, but the app may be killed.            *)
EXTENDS Naturals, Sequences, SequencesExt

CONSTANTS Guid,         \* the keys getUuid makes
          Config,       \* contents of a server's configuration
          None,
          MaxDialogs    \* bound of the model: confirmation dialogs on top of each other

ASSUME NoneAssumption == None \notin Guid \cup Config
ASSUME DialogAssumption == MaxDialogs \in Nat

VARIABLES
  list,         \* on disk, KEY_ANG_CONFIGS: the servers, newest first
  selected,     \* on disk, KEY_SELECTED_SERVER
  configs,      \* on disk, SERVER_CONFIG: the configuration of each key
  screen,       \* MainActivity, ConfigActivity, or the app is dead
  serverList,   \* MainViewModel.serverList
  serversCache, \* MainViewModel.serversCache
  shown,        \* the server each row on the screen was bound to
  dialogs,      \* the servers whose removal the user is asked to confirm, each
                \*   with the position its row was bound at
  editGuid,     \* the server ConfigActivity edits, None for a new one
  step,         \* how far the main thread is in a handler
  key,          \* the server that handler is about
  place,        \* the position removeServer was called with
  misplaced,    \* history: a row was removed at a position it no longer had
                \*   since the rows were last read
  stray,        \* history: the selection was made on the row of a removed
                \*   server that such a removal had left on the screen
  deleting      \* history: ConfigActivity ends because of "Delete config"

diskVars == <<list, selected, configs>>
viewVars == <<serverList, serversCache, shown, misplaced>>
vars == <<diskVars, screen, viewVars, dialogs, editGuid, step, key, place, stray,
          deleting>>

Question == [guid : Guid, position : Nat]

Steps == {"idle", "saveList", "saveSelected", "finish",
          "removeSelected", "removeFromList", "removeConfig", "removeFromCache"}

TypeOK ==
  /\ list \in Seq(Guid)
  /\ selected \in Guid \cup {None}
  /\ configs \in [Guid -> Config \cup {None}]
  /\ screen \in {"main", "config", "dead"}
  /\ serverList \in Seq(Guid)
  /\ serversCache \in Seq(Guid)
  /\ shown \in Seq(Guid)
  /\ dialogs \in Seq(Question)
  /\ editGuid \in Guid \cup {None}
  /\ step \in Steps
  /\ key \in Guid \cup {None}
  /\ place \in Nat
  /\ misplaced \in BOOLEAN
  /\ stray \in BOOLEAN
  /\ deleting \in BOOLEAN

\* A fresh installation, not started.
Init ==
  /\ list = <<>>
  /\ selected = None
  /\ configs = [g \in Guid |-> None]
  /\ screen = "dead"
  /\ serverList = <<>>
  /\ serversCache = <<>>
  /\ shown = <<>>
  /\ dialogs = <<>>
  /\ editGuid = None
  /\ step = "idle"
  /\ key = None
  /\ place = 0
  /\ misplaced = FALSE
  /\ stray = FALSE
  /\ deleting = FALSE

\* decodeServerConfig finds something under the key.
HasConfig(g) == configs[g] # None

\* updateCache: the servers of the list that have a configuration.  (What
\* SelectSeq(list, HasConfig) is, in a form that proofs can unfold.)
Rows ==
  LET first[i \in 0 .. Len(list)] ==
        IF i = 0 THEN <<>>
        ELSE IF HasConfig(list[i]) THEN Append(first[i - 1], list[i])
        ELSE first[i - 1]
  IN first[Len(list)]

\* reloadServerList: read the list again; its observer in MainActivity has every
\* row bound anew.
ReloadServerList ==
  /\ serverList' = list
  /\ serversCache' = Rows
  /\ shown' = Rows
  /\ misplaced' = FALSE

Idle(where) == screen = where /\ step = "idle"

\* A tap on "Save" counts while ConfigActivity has not gone, also after the tap
\* that ends it: the second save of a new server makes another one.
CanSave == screen = "config" /\ step \in {"idle", "finish"}

\* getUuid makes a key nobody has, nor had.
Fresh(g) ==
  /\ ~HasConfig(g) /\ ~Contains(list, g) /\ g # selected /\ ~Contains(shown, g)
  /\ \A i \in DOMAIN dialogs : dialogs[i].guid # g

-------------------------------------------------------------------------------
(* Slips these operations could have had, for the mutants of the runs *)

\* The list is written first, the configuration after it.
SaveConfigLast(g, c) ==
  /\ CanSave
  /\ g = editGuid \/ (editGuid = None /\ Fresh(g))
  /\ list' = IF Contains(list, g) THEN list ELSE <<g>> \o list
  /\ step' = "saveSelected"
  /\ key' = g
  /\ UNCHANGED <<selected, configs, screen, viewVars, dialogs, editGuid, place,
                 stray, deleting>>

\* The selection is left alone.
RemoveSelectedForgets ==
  /\ step = "removeSelected"
  /\ step' = "removeFromList"
  /\ UNCHANGED <<diskVars, screen, viewVars, dialogs, editGuid, key, place,
                 stray, deleting>>

\* The row stays in the cache.
RemoveFromCacheNever ==
  /\ step = "removeFromCache"
  /\ step' = "idle"
  /\ UNCHANGED <<diskVars, screen, viewVars, dialogs, editGuid, key, place,
                 stray, deleting>>

\* A save replaces the list it does not find itself in.
SaveListReplaces ==
  /\ step = "saveList"
  /\ list' = <<key>>
  /\ step' = "saveSelected"
  /\ UNCHANGED <<selected, configs, screen, viewVars, dialogs, editGuid, key,
                 place, stray, deleting>>

\* A new key goes to the end of the list.
SaveListAtEnd ==
  /\ step = "saveList"
  /\ list' = IF Contains(list, key) THEN list ELSE Append(list, key)
  /\ step' = IF Contains(list, key) THEN "finish" ELSE "saveSelected"
  /\ UNCHANGED <<selected, configs, screen, viewVars, dialogs, editGuid, key,
                 place, stray, deleting>>

\* The list is not read again when the main screen comes back.
FinishStale ==
  /\ step = "finish"
  /\ screen' = "main"
  /\ editGuid' = None
  /\ step' = "idle"
  /\ deleting' = FALSE
  /\ UNCHANGED <<diskVars, viewVars, dialogs, key, place, stray>>

-------------------------------------------------------------------------------
(* ConfigActivity: a server is added or edited *)

\* "Add config" in the menu.
OpenAdd ==
  /\ Idle("main")
  /\ screen' = "config"
  /\ editGuid' = None
  /\ UNCHANGED <<diskVars, viewVars, dialogs, step, key, place, stray,
                 deleting>>

\* The edit button of the row at i, which edits the server it was bound to.
OpenEdit(i) ==
  /\ Idle("main")
  /\ screen' = "config"
  /\ editGuid' = shown[i]
  /\ UNCHANGED <<diskVars, viewVars, dialogs, step, key, place, stray,
                 deleting>>

\* saveServer with every field filled in: encodeServerConfig writes the
\* configuration under its key, or under a new one.
SaveConfig(g, c) ==
  /\ CanSave
  /\ g = editGuid \/ (editGuid = None /\ Fresh(g))
  /\ configs' = [configs EXCEPT ![g] = c]
  /\ step' = "saveList"
  /\ key' = g
  /\ UNCHANGED <<list, selected, screen, viewVars, dialogs, editGuid, place,
                 stray, deleting>>

\* A new key goes to the front of the list; an old one keeps its place.
SaveList ==
  /\ step = "saveList"
  /\ list' = IF Contains(list, key) THEN list ELSE <<key>> \o list
  /\ step' = IF Contains(list, key) THEN "finish" ELSE "saveSelected"
  /\ UNCHANGED <<selected, configs, screen, viewVars, dialogs, editGuid, key,
                 place, stray, deleting>>

\* A new server is selected if none is.
SaveSelected ==
  /\ step = "saveSelected"
  /\ selected' = IF selected = None THEN key ELSE selected
  /\ stray' = (stray /\ selected # None)
  /\ step' = "finish"
  /\ UNCHANGED <<list, configs, screen, viewVars, dialogs, editGuid, key, place,
                 deleting>>

\* The home arrow: finish() without a save.
GoHome ==
  /\ Idle("config")
  /\ step' = "finish"
  /\ UNCHANGED <<diskVars, screen, viewVars, dialogs, editGuid, key, place,
                 stray, deleting>>

\* "Delete config" in the menu: deleteServer only finishes the activity.
DeleteServer ==
  /\ Idle("config")
  /\ editGuid # None
  /\ deleting' = TRUE
  /\ step' = "finish"
  /\ UNCHANGED <<diskVars, screen, viewVars, dialogs, editGuid, key, place,
                 stray>>

\* The activity ends and MainActivity.onResume reads the list again.
Finish ==
  /\ step = "finish"
  /\ screen' = "main"
  /\ editGuid' = None
  /\ step' = "idle"
  /\ deleting' = FALSE
  /\ ReloadServerList
  /\ UNCHANGED <<diskVars, dialogs, key, place, stray>>

-------------------------------------------------------------------------------
(* MainRecyclerAdapter: the rows of the main screen.  The buttons of a row act  *)
(* on the server, and the position, the row had when it was bound.             *)

\* The remove button: refused for the selected server, otherwise confirmed.
\* A second tap may come before the dialog has taken the focus.
ClickRemove(i) ==
  /\ Idle("main")
  /\ shown[i] # selected
  /\ Len(dialogs) < MaxDialogs
  /\ dialogs' = Append(dialogs, [guid |-> shown[i], position |-> i])
  /\ UNCHANGED <<diskVars, screen, viewVars, editGuid, step, key, place, stray,
                 deleting>>

Dismiss ==
  /\ Idle("main")
  /\ dialogs # <<>>
  /\ dialogs' = Front(dialogs)
  /\ UNCHANGED <<diskVars, screen, viewVars, editGuid, step, key, place, stray,
                 deleting>>

\* OK in the dialog on top: removeServer, whatever happened since the question.
ConfirmRemove ==
  /\ Idle("main")
  /\ dialogs # <<>>
  /\ key' = Last(dialogs).guid
  /\ place' = Last(dialogs).position
  /\ dialogs' = Front(dialogs)
  /\ serverList' = RemoveFirst(serverList, key')
  /\ step' = "removeSelected"
  /\ UNCHANGED <<diskVars, screen, serversCache, shown, misplaced, editGuid, stray,
                 deleting>>

RemoveSelected ==
  /\ step = "removeSelected"
  /\ selected' = IF selected = key THEN None ELSE selected
  /\ step' = "removeFromList"
  /\ UNCHANGED <<list, configs, screen, viewVars, dialogs, editGuid, key, place,
                 stray, deleting>>

RemoveFromList ==
  /\ step = "removeFromList"
  /\ list' = RemoveFirst(list, key)
  /\ step' = "removeConfig"
  /\ UNCHANGED <<selected, configs, screen, viewVars, dialogs, editGuid, key,
                 place, stray, deleting>>

RemoveConfig ==
  /\ step = "removeConfig"
  /\ configs' = [configs EXCEPT ![key] = None]
  /\ step' = "removeFromCache"
  /\ UNCHANGED <<list, selected, screen, viewVars, dialogs, editGuid, key,
                 place, stray, deleting>>

\* The view model drops the server where it finds it; the adapter drops the row
\* at the place of the question and binds that row and those below it again
\* (notifyItemRemoved, notifyItemRangeChanged).  The rows above keep what they
\* show, the removed server too if an earlier removal has moved it up.
RemoveFromCache ==
  /\ step = "removeFromCache"
  /\ serversCache' = RemoveFirst(serversCache, key)
  /\ shown' = [i \in DOMAIN serversCache' |->
                 IF i < place THEN shown[i] ELSE serversCache'[i]]
  /\ misplaced' = (misplaced \/ \E i \in DOMAIN serversCache :
                                  serversCache[i] = key /\ i < place)
  /\ step' = "idle"
  /\ place' = 0
  /\ UNCHANGED <<diskVars, screen, serverList, dialogs, editGuid, key, stray,
                 deleting>>

\* A tap on the row at i selects the server it was bound to, also while a question
\* is still open; the rows of the old and the new selection are bound again where
\* the view model has them.
SelectServer(i) ==
  /\ Idle("main")
  /\ shown[i] # selected
  /\ selected' = shown[i]
  /\ shown' = [j \in DOMAIN shown |->
                 IF j \in DOMAIN serversCache /\ serversCache[j] \in {selected, shown[i]}
                 THEN serversCache[j] ELSE shown[j]]
  /\ stray' = (misplaced /\ ~Contains(serversCache, shown[i]))
  /\ UNCHANGED <<list, configs, screen, serverList, serversCache, misplaced,
                 dialogs, editGuid, step, key, place, deleting>>

-------------------------------------------------------------------------------
(* The process *)

Launch ==
  /\ screen = "dead"
  /\ screen' = "main"
  /\ ReloadServerList
  /\ UNCHANGED <<diskVars, dialogs, editGuid, step, key, place, stray,
                 deleting>>

\* Android kills the app, between two writes if need be.
Kill ==
  /\ screen # "dead"
  /\ screen' = "dead"
  /\ serverList' = <<>>
  /\ serversCache' = <<>>
  /\ shown' = <<>>
  /\ misplaced' = FALSE
  /\ dialogs' = <<>>
  /\ editGuid' = None
  /\ step' = "idle"
  /\ key' = None
  /\ place' = 0
  /\ deleting' = FALSE
  /\ UNCHANGED <<diskVars, stray>>

-------------------------------------------------------------------------------
\* What the main thread does by itself once it is in a handler.
Handler ==
  \/ SaveList \/ SaveSelected \/ Finish
  \/ RemoveSelected \/ RemoveFromList \/ RemoveConfig \/ RemoveFromCache

User ==
  \/ OpenAdd \/ GoHome \/ DeleteServer \/ Dismiss \/ ConfirmRemove
  \/ \E i \in DOMAIN shown : OpenEdit(i) \/ ClickRemove(i) \/ SelectServer(i)
  \/ \E g \in Guid, c \in Config : SaveConfig(g, c)

Next == User \/ Handler \/ Launch \/ Kill

\* A handler that has begun runs to its end, unless the app is killed, and an
\* activity that finishes goes, whatever is tapped in the meantime.
Spec == Init /\ [][Next]_vars /\ WF_vars(Handler) /\ SF_vars(Finish)

-------------------------------------------------------------------------------
(* Properties *)

\* The selected server, if any, is in the list and has a configuration, after
\* a kill at any point: startVpnService dereferences it with config!!.  It fails
\* in one way only (see SelectedStarts): a tap on the row of a removed server,
\* left on the screen by a removal at a position that row no longer had.
SelectedUsable ==
  selected # None /\ ~stray => Contains(list, selected) /\ HasConfig(selected)

\* What startVpnService asserts of the selected server (config!!): that it has a
\* configuration when the start button can be tapped.
SelectedStarts ==
  Idle("main") /\ selected # None => HasConfig(selected)

\* Every server in the list has a configuration, and is there once: a server
\* without one would be in the list for good, and in no row (updateCache).
ListUsable ==
  /\ \A i \in DOMAIN list : HasConfig(list[i])
  /\ \A i, j \in DOMAIN list : list[i] = list[j] => i = j

\* The view model has the saved servers, in order: what removeServer does to it
\* by hand leaves what reading the files again would give.  So have the rows on
\* the screen, one by one, while no row was removed at an outdated position.
ViewMatchesStore ==
  Idle("main") =>
    /\ serverList = list /\ serversCache = Rows
    /\ misplaced \/ shown = Rows

\* A saved server disappears only by a removal the user confirmed: no save, no
\* kill and no other removal drops it.
KeptUntilRemoved ==
  [][\A i \in DOMAIN list :
       \/ \E j \in DOMAIN list' : list'[j] = list[i] /\ configs'[list'[j]] # None
       \/ key = list[i] /\ step \in {"removeFromList", "removeConfig"}]_vars

\* Two files and a write at a time, with a kill between any two, are to the app's
\* screens a store that changes in one step: a new server is there with its
\* contents or not at all, and one that is removed is not chosen any more
\* (encodeServerConfig, removeServer).  A key is saved once it is in the list; the
\* screen is outdated once a row was removed at a position it no longer had.
Store == INSTANCE SavedServers
           WITH servers <- list, chosen <- selected, outdated <- misplaced,
                contents <- [g \in Guid |->
                               IF Contains(list, g) THEN configs[g] ELSE None]
StoreIsAtomic == Store!Spec

\* A server whose configuration was written shows up in a row, unless the app
\* is killed first.
SavedIsShown ==
  \A g \in Guid :
    step = "saveList" /\ key = g
      ~> screen = "dead" \/ (Idle("main") /\ Contains(serversCache, g))

\* The menu item "Delete config" deletes: the server it was chosen for is gone
\* from the list when the main screen comes back.
DeleteConfigDeletes ==
  [][deleting /\ Idle("main")' => ~Contains(list', editGuid)]_vars
===============================================================================
