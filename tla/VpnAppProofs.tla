----------------------------- MODULE VpnAppProofs ------------------------------
(* Theorems about VpnApp, for any number of tunnels: what the button shows     *)
(* agrees with Running, it shows no phantom and hides no tunnel.  None of this *)
(* depends on the descriptors, which have an invariant of their own: as long   *)
(* as the table is not full, a tunnel keeps what it has opened.                *)
EXTENDS VpnApp, WellFoundedInduction, TLAPS

USE DEF statusVars, systemVars, fdVars

-------------------------------------------------------------------------------
(* The inductive invariant *)

\* The two threads that start and stop tunnels.
Caller == {"main", "binder"}

StartSteps == {"postTrue", "markTrue", "go"}
EndSteps == {"postFalse", "markFalse"}
EngineSteps == {"engineStop"} \cup EndSteps

\* Which steps each thread can be at.
Places ==
  /\ pc \in [Thread -> {"idle", "go", "done"} \cup StopSteps \cup StatusSteps
                        \cup WorkerSteps]
  /\ pc["main"] \in {"idle", "shutdown", "closeTun"} \cup EngineSteps \cup StartSteps
  /\ pc["binder"] \in {"idle", "shutdown", "closeTun"} \cup EngineSteps
  /\ \A t \in Tunnels :
       pc[t] \in {"idle", "closeTun", "done"} \cup EndSteps \cup WorkerSteps

Types ==
  /\ arg \in [Caller -> Tunnels \cup {None}]
  /\ kind \in [Tunnels -> {"none", "ipref", "sock"}]
  /\ tunnel \in Tunnels \cup {None}
  /\ Running \in BOOLEAN
  /\ pending \in {"none", "true", "false"}
  /\ shown \in {"null", "true", "false"}
  /\ connected \in BOOLEAN
  /\ engine \in Tunnels \cup {None}

\* Threads and the engine work for tunnels of the right class.
Classes ==
  /\ \A t \in Tunnels : pc[t] # "idle" => kind[t] = "ipref"
  /\ Starting =>
       arg["main"] \in Tunnels /\ kind[arg["main"]] # "none" /\ pc[arg["main"]] = "idle"
  /\ engine # None => kind[engine] = "sock"
  /\ tunnel # None => kind[tunnel] # "none"
  /\ tunnel = None => pc["main"] = "idle"
  /\ \A x \in Caller :
       /\ pc[x] \in EngineSteps => arg[x] \in Tunnels /\ kind[arg[x]] = "sock"
       /\ pc[x] \in {"shutdown", "closeTun"} =>
            arg[x] \in Tunnels /\ kind[arg[x]] = "ipref"

\* What the button will show when what is posted has arrived.
Announced == IF pending # "none" THEN pending ELSE shown

\* The post that came last says what the field holds, or will hold when the one
\* thread that is between its two writes has made the second.
Agree ==
  /\ connected => shown # "null"
  /\ shown = "null" => pending = "none"
  /\ shown # "null" /\ "race" \notin causes =>
       /\ (\A x \in Thread : ~ Halfway(x)) => (Announced = "true") = Running
       /\ \A x \in Thread :
            Halfway(x) /\ (\A y \in Thread \ {x} : ~ Halfway(y)) =>
              (Announced = "true") = (pc[x] = "markTrue")

\* Running is true for a reason, or about to be set to false.
Reason ==
  Running =>
    \/ \E t \in Tunnels : kind[t] = "ipref" /\ pc[t] \notin {"closeTun", "done"}
    \/ engine # None
    \/ pc["main"] = "go" /\ kind[arg["main"]] = "sock"
    \/ \E x \in Thread : pc[x] \in EndSteps

\* Without overlaps there is one unfinished tunnel, the service's, and no other is
\* being stopped; without races too, it is not stopped while it is started, and
\* Running is true while it is live.
OneAtATime ==
  /\ "overlap" \notin causes =>
       \A t \in Tunnels : /\ Unfinished(t) => tunnel = t
                          /\ Handled(t) => tunnel \in {t, None}
  /\ causes = {} =>
       /\ pc["binder"] \in EngineSteps => ~ Starting
       /\ \A x \in Caller : pc[x] \in EndSteps => engine = None
       /\ pc["main"] = "go" => Running
       /\ (\E t \in Tunnels : Live(t)) =>
            Running \/ pc["main"] \in {"postTrue", "markTrue"}

IInv == Places /\ Types /\ Classes /\ Agree /\ Reason /\ OneAtATime

-------------------------------------------------------------------------------
(* Steps, by what they do to the variables of the invariant *)

statusAndKind == <<kind, tunnel, Running, pending, shown, connected, engine, causes>>

\* A start, by a tap or after the dialog.
Starts(t, k) ==
  /\ pc["main"] = "idle"
  /\ Establish(t, k)
  /\ UNCHANGED <<Running, pending, shown, connected, engine>>

\* A stop, by a tap or by the system.
Stops(x) ==
  /\ pc[x] = "idle"
  /\ BeginStop(x)
  /\ UNCHANGED <<kind, tunnel, Running, pending, shown, connected, engine>>

\* A worker goes on; it is not live again once it was not.
Works(t) ==
  \E s \in (WorkerSteps \ {"run"}) \cup {"postFalse"} :
    /\ pc[t] \in WorkerSteps
    /\ s \in {"socket", "connect", "setup", "relay"} =>
         pc[t] \in {"run", "socket", "connect", "setup"}
    /\ pc' = [pc EXCEPT ![t] = s]
    /\ UNCHANGED <<arg, statusAndKind>>

\* The stop of a tunnel with a worker has shut its connection down.
ShutsDown(x) ==
  /\ pc[x] = "shutdown"
  /\ pc' = [pc EXCEPT ![x] = "closeTun"]
  /\ UNCHANGED <<arg, statusAndKind>>

\* Nothing of interest happens.
Rests == UNCHANGED <<pc, arg, statusAndKind>>

LEMMA WorkersWork ==
  ASSUME Places, NEW t \in Tunnels,
         TakeFd(t) \/ CreateSocket(t) \/ Connect(t) \/ OpenTunnel(t) \/ LoopReturns(t)
           \/ FreeBuffers(t) \/ CloseSocket(t) \/ Shutdown(t)
  PROVE  Works(t) \/ Rests
<1>1. ASSUME CreateSocket(t) PROVE Works(t)
  BY <1>1 DEF CreateSocket, Works, Goto, WorkerSteps, statusAndKind
<1>2. ASSUME Connect(t) PROVE Works(t)
  BY <1>2 DEF Connect, Works, Goto, WorkerSteps, statusAndKind
<1>3. ASSUME OpenTunnel(t) PROVE Works(t)
  BY <1>3 DEF OpenTunnel, Works, Goto, WorkerSteps, statusAndKind
<1>4. ASSUME LoopReturns(t) PROVE Works(t)
  BY <1>4 DEF LoopReturns, Works, Goto, WorkerSteps, statusAndKind
<1>5. ASSUME FreeBuffers(t) PROVE Works(t) \/ Rests
  BY <1>5 DEF FreeBuffers, Die, Works, Rests, Goto, WorkerSteps, statusAndKind
<1>6. ASSUME CloseSocket(t) PROVE Works(t)
  BY <1>6 DEF CloseSocket, Works, Goto, WorkerSteps, statusAndKind
<1>7. ASSUME Shutdown(t) PROVE Works(t)
  <2>1. pc[t] = "reshut"
    BY <1>7 DEF Shutdown, Places, EndSteps, WorkerSteps
  <2> QED
    BY <1>7, <2>1 DEF Shutdown, Works, Goto, WorkerSteps, statusAndKind
<1>8. ASSUME TakeFd(t) PROVE Works(t) \/ Rests
  BY <1>8 DEF TakeFd, Die, Works, Rests, Goto, WorkerSteps, statusAndKind
<1> QED
  BY <1>1, <1>2, <1>3, <1>4, <1>5, <1>6, <1>7, <1>8

LEMMA StepKinds ==
  ASSUME Places, [Next]_vars
  PROVE  \/ \E x \in Thread :
              PostStatus(x) \/ MarkStatus(x) \/ CloseTun(x) \/ EngineStop(x)
         \/ \E x \in Caller : ShutsDown(x) \/ Stops(x)
         \/ \E t \in Tunnels : Works(t)
         \/ \E t \in Tunnels, k \in Kinds : Starts(t, k)
         \/ StartTunnel \/ DeliverStatus \/ ServiceConnected \/ Recreate \/ Reopen
         \/ Rests
<1>1. ASSUME NEW x \in Caller, Shutdown(x) PROVE ShutsDown(x)
  <2>1. pc[x] = "shutdown"
    BY <1>1 DEF Shutdown, Places, Caller, EngineSteps, EndSteps, StartSteps
  <2> QED
    BY <1>1, <2>1 DEF Shutdown, ShutsDown, Goto, statusAndKind
<1>2. ASSUME NEW x \in Thread, Run(x)
      PROVE  \/ PostStatus(x) \/ MarkStatus(x) \/ CloseTun(x) \/ EngineStop(x)
             \/ \E y \in Caller : ShutsDown(y)
             \/ \E t \in Tunnels : Works(t)
             \/ StartTunnel \/ Rests
  BY <1>1, <1>2, WorkersWork DEF Run, Thread, Caller
<1>3. ASSUME NEW t \in Tunnels, Relay(t) PROVE Works(t) \/ Rests
  <2>1. ASSUME SetupExits(t) \/ TunFails(t) PROVE Rests
    BY <2>1 DEF SetupExits, TunFails, Die, Rests, statusAndKind
  <2> QED
    BY <1>3, <2>1, WorkersWork DEF Relay
<1>4. ASSUME NEW t \in Tunnels, NEW k \in Kinds, ClickStart(t, k) \/ ConsentGranted(t, k)
      PROVE  Starts(t, k)
  BY <1>4 DEF ClickStart, ConsentGranted, StartVpnService, MainIdle, Starts
<1>5. ASSUME ClickStop PROVE Stops("main")
  BY <1>5 DEF ClickStop, MainIdle, Stops
<1>6. ASSUME Revoke PROVE Stops("binder")
  BY <1>6 DEF Revoke, Stops
<1>7. ASSUME ClickTooEarly \/ ClickAsks \/ ConsentDenied \/ ConsentUnused \/ StartThrows
      PROVE  Rests
  BY <1>7 DEF ClickTooEarly, ClickAsks, ConsentDenied, ConsentUnused, StartThrows, Die,
              Rests, statusAndKind
<1>8. ASSUME UNCHANGED vars PROVE Rests
  BY <1>8 DEF vars, Rests, statusAndKind
<1> QED
  BY <1>2, <1>3, <1>4, <1>5, <1>6, <1>7, <1>8 DEF Next, Deliver, User, Caller

-------------------------------------------------------------------------------
(* Places, types and classes *)

LEMMA NextPlaces == IInv /\ [Next]_vars => Places'
<1> SUFFICES ASSUME Places, Classes, [Next]_vars PROVE Places'
  BY DEF IInv
<1> USE ThreadAssumption DEF EngineSteps, EndSteps, StartSteps, StopSteps, StatusSteps,
                           WorkerSteps
<1>1. ASSUME NEW x \in Thread, PostStatus(x) PROVE Places'
  BY <1>1 DEF PostStatus, Goto, Places, Thread
<1>2. ASSUME NEW x \in Thread, MarkStatus(x) PROVE Places'
  BY <1>2 DEF MarkStatus, AfterStatus, Halfway, Goto, Places, Thread
<1>3. ASSUME NEW x \in Thread, CloseTun(x) PROVE Places'
  BY <1>3 DEF CloseTun, Goto, Places, Thread
<1>4. ASSUME NEW x \in Thread, EngineStop(x) PROVE Places'
  BY <1>4 DEF EngineStop, Goto, Places, Thread
<1>5. ASSUME NEW x \in Caller, ShutsDown(x) \/ Stops(x) PROVE Places'
  BY <1>5 DEF ShutsDown, Stops, BeginStop, Goto, Places, Thread, Caller
<1>6. ASSUME NEW t \in Tunnels, Works(t) PROVE Places'
  BY <1>6 DEF Works, Places, Thread
<1>7. ASSUME NEW t \in Tunnels, NEW k \in Kinds, Starts(t, k) PROVE Places'
  BY <1>7 DEF Starts, Establish, Goto, Places, Thread
<1>8. ASSUME StartTunnel PROVE Places'
  <2>1. arg["main"] \in Tunnels
    BY <1>8 DEF StartTunnel, Starting, Classes
  <2> QED
    BY <1>8, <2>1 DEF StartTunnel, Goto, Places, Thread
<1>9. ASSUME DeliverStatus \/ ServiceConnected \/ Recreate \/ Reopen \/ Rests PROVE Places'
  BY <1>9 DEF DeliverStatus, ServiceConnected, Recreate, Reopen, Rests, Places
<1> QED
  BY <1>1, <1>2, <1>3, <1>4, <1>5, <1>6, <1>7, <1>8, <1>9, StepKinds

LEMMA NextTypes == IInv /\ [Next]_vars => Types'
<1> SUFFICES ASSUME Places, Types, Classes, [Next]_vars PROVE Types'
  BY DEF IInv
<1>1. ASSUME NEW x \in Thread, PostStatus(x) PROVE Types'
  BY <1>1 DEF PostStatus, Types
<1>2. ASSUME NEW x \in Thread, MarkStatus(x) PROVE Types'
  BY <1>2 DEF MarkStatus, Forget, Types, Thread, Caller
<1>3. ASSUME NEW x \in Thread, CloseTun(x) PROVE Types'
  BY <1>3 DEF CloseTun, Forget, Types, Thread, Caller
<1>4. ASSUME NEW x \in Thread, EngineStop(x) PROVE Types'
  BY <1>4 DEF EngineStop, Types
<1>5. ASSUME NEW x \in Caller, ShutsDown(x) \/ Stops(x) PROVE Types'
  BY <1>5 DEF ShutsDown, Stops, BeginStop, Types, statusAndKind
<1>6. ASSUME NEW t \in Tunnels, Works(t) PROVE Types'
  BY <1>6 DEF Works, Types, statusAndKind
<1>7. ASSUME NEW t \in Tunnels, NEW k \in Kinds, Starts(t, k) PROVE Types'
  BY <1>7, KindAssumption DEF Starts, Establish, Types
<1>8. ASSUME StartTunnel PROVE Types'
  BY <1>8 DEF StartTunnel, Starting, Classes, Types, Caller
<1>9. ASSUME DeliverStatus \/ ServiceConnected \/ Recreate \/ Reopen \/ Rests PROVE Types'
  BY <1>9 DEF DeliverStatus, ServiceConnected, Recreate, Reopen, Rests, Types,
              statusAndKind
<1> QED
  BY <1>1, <1>2, <1>3, <1>4, <1>5, <1>6, <1>7, <1>8, <1>9, StepKinds

LEMMA NextClasses == IInv /\ [Next]_vars => Classes'
<1> SUFFICES ASSUME Places, Types, Classes, [Next]_vars PROVE Classes'
  BY DEF IInv
<1> USE ThreadAssumption DEF EngineSteps, EndSteps
<1>1. ASSUME NEW x \in Thread, PostStatus(x) PROVE Classes'
  BY <1>1 DEF PostStatus, Goto, Starting, Places, Types, Classes, Thread, Caller,
              StartSteps, WorkerSteps
<1>2. ASSUME NEW x \in Thread, MarkStatus(x) PROVE Classes'
  BY <1>2 DEF MarkStatus, AfterStatus, Halfway, Forget, Goto, Starting, Places, Types,
              Classes, Thread, Caller, StartSteps, WorkerSteps
<1>3. ASSUME NEW x \in Thread, CloseTun(x) PROVE Classes'
  BY <1>3 DEF CloseTun, Forget, Goto, Starting, Places, Types, Classes, Thread, Caller,
              StartSteps, WorkerSteps
<1>4. ASSUME NEW x \in Thread, EngineStop(x) PROVE Classes'
  BY <1>4, NoneAssumption DEF EngineStop, Goto, Starting, Places, Types, Classes,
              Thread, Caller, StartSteps, WorkerSteps
<1>5. ASSUME NEW x \in Caller, ShutsDown(x) PROVE Classes'
  BY <1>5 DEF ShutsDown, Starting, Places, Types, Classes, Thread, Caller, statusAndKind
<1>6. ASSUME NEW x \in Caller, Stops(x) PROVE Classes'
  BY <1>6, NoneAssumption DEF Stops, BeginStop, Goto, Starting, Places, Types, Classes,
              Thread, Caller
<1>7. ASSUME NEW t \in Tunnels, Works(t) PROVE Classes'
  BY <1>7 DEF Works, Starting, Places, Types, Classes, Thread, Caller, statusAndKind,
              WorkerSteps
<1>8. ASSUME NEW t \in Tunnels, NEW k \in Kinds, Starts(t, k) PROVE Classes'
  BY <1>8, KindAssumption, NoneAssumption DEF Starts, Establish, Goto, Starting, Places,
              Types, Classes, Thread, Caller
<1>9. ASSUME StartTunnel PROVE Classes'
  <2> DEFINE t == arg["main"]
  <2>1. /\ t \in Tunnels /\ kind[t] \in {"ipref", "sock"}
        /\ arg' = [arg EXCEPT !["main"] = None]
        /\ UNCHANGED <<kind, tunnel>>
    BY <1>9 DEF StartTunnel, Starting, Classes, Types
  <2> HIDE DEF t
  <2>2. CASE kind[t] = "ipref"
    <3>1. pc' = [pc EXCEPT !["main"] = "idle", ![t] = "run"] /\ engine' = engine
      BY <1>9, <2>2 DEF StartTunnel, t
    <3> QED
      BY <2>1, <2>2, <3>1 DEF Starting, Places, Types, Classes, Thread, Caller
  <2>3. CASE kind[t] = "sock"
    <3>1. pc' = [pc EXCEPT !["main"] = "idle"] /\ engine' = t
      BY <1>9, <2>3 DEF StartTunnel, Goto, t
    <3> QED
      BY <2>1, <2>3, <3>1 DEF Starting, Places, Types, Classes, Thread, Caller
  <2> QED
    BY <2>1, <2>2, <2>3
<1>10. ASSUME DeliverStatus \/ ServiceConnected \/ Recreate \/ Rests PROVE Classes'
  BY <1>10 DEF DeliverStatus, ServiceConnected, Recreate, Rests, Starting, Classes,
               statusAndKind
<1>11. ASSUME Reopen PROVE Classes'
  BY <1>11 DEF Reopen, MainIdle, Starting, Classes
<1> QED
  BY <1>1, <1>2, <1>3, <1>4, <1>5, <1>6, <1>7, <1>8, <1>9, <1>10, <1>11, StepKinds

-------------------------------------------------------------------------------
(* The button and Running *)

\* Only these steps post, mark or deliver a status.
LEMMA Bystanders ==
  ASSUME Agree, Places,
         UNCHANGED <<Running, pending, shown, connected>>,
         causes \subseteq causes',
         \A x \in Thread : Halfway(x)' = Halfway(x) /\ (Halfway(x) => pc'[x] = pc[x])
  PROVE  Agree'
  BY DEF Agree, Announced

LEMMA NextAgree == IInv /\ [Next]_vars => Agree'
<1> SUFFICES ASSUME Places, Types, Classes, Agree, [Next]_vars PROVE Agree'
  BY DEF IInv
<1> USE ThreadAssumption DEF EngineSteps, EndSteps
<1>1. ASSUME NEW x \in Thread, PostStatus(x) PROVE Agree'
  <2>1. /\ pc' = [pc EXCEPT ![x] = IF pc[x] = "postTrue" THEN "markTrue" ELSE "markFalse"]
        /\ pending' = IF shown = "null" THEN "none"
                      ELSE IF pc[x] = "postTrue" THEN "true" ELSE "false"
        /\ UNCHANGED <<Running, shown, connected, causes>>
    BY <1>1 DEF PostStatus, Goto
  <2>2. /\ Halfway(x)'
        /\ shown # "null" => (Announced' = "true") = (pc'[x] = "markTrue")
    BY <2>1 DEF Halfway, Announced, Places
  <2>3. \A z \in Thread : Halfway(z)' /\ (\A y \in Thread \ {z} : ~ Halfway(y)') => z = x
    BY <2>2
  <2> QED
    BY <2>1, <2>2, <2>3 DEF Agree
<1>2. ASSUME NEW x \in Thread, MarkStatus(x) PROVE Agree'
  <2>1. /\ Running' = (pc[x] = "markTrue")
        /\ UNCHANGED <<pending, shown, connected>>
        /\ Halfway(x)
        /\ causes \subseteq causes'
        /\ "race" \notin causes' => \A y \in Thread \ {x} : ~ Halfway(y)
    BY <1>2 DEF MarkStatus
  <2>2. pc' = [pc EXCEPT ![x] = AfterStatus(x)]
    BY <1>2 DEF MarkStatus, Goto
  <2>3. ~ Halfway(x)' /\ \A y \in Thread \ {x} : Halfway(y)' = Halfway(y)
    BY <2>2 DEF Places, Halfway, AfterStatus
  <2> QED
    BY <2>1, <2>3 DEF Agree, Announced
<1>3. ASSUME NEW x \in Thread, CloseTun(x) \/ EngineStop(x) PROVE Agree'
  BY <1>3, Bystanders DEF CloseTun, EngineStop, Goto, Halfway, Places
<1>4. ASSUME NEW x \in Caller, ShutsDown(x) \/ Stops(x) PROVE Agree'
  BY <1>4, Bystanders DEF ShutsDown, Stops, BeginStop, Goto, Halfway, Places, Thread,
              Caller, statusAndKind
<1>5. ASSUME NEW t \in Tunnels, Works(t) PROVE Agree'
  BY <1>5, Bystanders DEF Works, Halfway, Places, Thread, statusAndKind, WorkerSteps
<1>6. ASSUME NEW t \in Tunnels, NEW k \in Kinds, Starts(t, k) PROVE Agree'
  BY <1>6, Bystanders DEF Starts, Establish, Goto, Halfway, Places, Thread
<1>7. ASSUME StartTunnel PROVE Agree'
  <2>1. arg["main"] \in Tunnels /\ pc[arg["main"]] = "idle"
    BY <1>7 DEF StartTunnel, Starting, Classes
  <2> QED
    BY <1>7, <2>1, Bystanders DEF StartTunnel, Goto, Halfway, Places, Thread
<1>8. ASSUME DeliverStatus PROVE Agree'
  BY <1>8 DEF DeliverStatus, Agree, Announced, Halfway, Types
<1>9. ASSUME ServiceConnected PROVE Agree'
  <2>1. "race" \notin causes' => \A x \in Thread : ~ Halfway(x)'
    BY <1>9 DEF ServiceConnected, Halfway
  <2>2. shown # "null" /\ (\A x \in Thread : ~ Halfway(x)') /\ "race" \notin causes =>
          (Announced = "true") = Running
    BY <1>9 DEF ServiceConnected, Agree, Halfway
  <2>3. "race" \notin causes' => "race" \notin causes
    BY <1>9 DEF ServiceConnected
  <2>4. /\ shown' = (IF Running THEN "true" ELSE "false")
        /\ UNCHANGED <<Running, pending>>
    BY <1>9 DEF ServiceConnected
  <2>5. shown' # "null" /\ (shown = "null" => pending = "none")
    BY <2>4 DEF Agree
  <2>6. (\A x \in Thread : ~ Halfway(x)') /\ "race" \notin causes' =>
          (Announced' = "true") = Running'
    BY <2>2, <2>3, <2>4, <2>5 DEF Announced, Types
  <2> QED
    BY <2>1, <2>5, <2>6 DEF Agree
<1>10. ASSUME Recreate PROVE Agree'
  BY <1>10 DEF Recreate, Agree, Announced, Halfway
<1>11. ASSUME Reopen PROVE Agree'
  BY <1>11 DEF Reopen, Agree, Announced, Halfway
<1>12. ASSUME Rests PROVE Agree'
  BY <1>12 DEF Rests, Agree, Announced, Halfway, statusAndKind
<1> QED
  BY <1>1, <1>2, <1>3, <1>4, <1>5, <1>6, <1>7, <1>8, <1>9, <1>10, <1>11, <1>12,
     StepKinds

\* Running is set for a tunnel that starts, and a tunnel that ends sets it back.
LEMMA NextReason == IInv /\ [Next]_vars => Reason'
<1> SUFFICES ASSUME Places, Types, Classes, Reason, [Next]_vars PROVE Reason'
  BY DEF IInv
<1> USE ThreadAssumption DEF EngineSteps, EndSteps
<1>1. ASSUME NEW x \in Thread, PostStatus(x) PROVE Reason'
  BY <1>1 DEF PostStatus, Goto, Places, Types, Reason, Thread, WorkerSteps
<1>2. ASSUME NEW x \in Thread, MarkStatus(x) PROVE Reason'
  <2>1. CASE pc[x] = "markTrue"
    <3>1. x = "main"
      BY <2>1 DEF Places, Thread, WorkerSteps
    <3>2. /\ arg["main"] \in Tunnels /\ pc[arg["main"]] = "idle"
          /\ kind[arg["main"]] \in {"ipref", "sock"}
      BY <2>1, <3>1 DEF Classes, Starting, Types
    <3>3. pc' = [pc EXCEPT !["main"] = "go"] /\ arg' = arg /\ kind' = kind
      BY <1>2, <2>1, <3>1 DEF MarkStatus, AfterStatus, Goto
    <3> QED
      BY <3>2, <3>3 DEF Reason, Places, Thread
  <2>2. CASE pc[x] = "markFalse"
    BY <1>2, <2>2 DEF MarkStatus, Reason
  <2> QED
    BY <1>2, <2>1, <2>2 DEF MarkStatus, Halfway
<1>3. ASSUME NEW x \in Thread, CloseTun(x) PROVE Reason'
  <2>1. /\ pc[x] = "closeTun"
        /\ pc' = [pc EXCEPT ![x] = IF x \in Tunnels THEN "done" ELSE "idle"]
        /\ arg' = IF x \in Tunnels THEN arg ELSE [arg EXCEPT ![x] = None]
        /\ UNCHANGED <<kind, Running, engine>>
    BY <1>3 DEF CloseTun, Goto, Forget
  <2> QED
    BY <2>1 DEF Places, Types, Reason, Thread, Caller
<1>4. ASSUME NEW x \in Thread, EngineStop(x) PROVE Reason'
  BY <1>4 DEF EngineStop, Goto, Places, Reason
<1>5. ASSUME NEW x \in Caller, ShutsDown(x) \/ Stops(x) PROVE Reason'
  BY <1>5 DEF ShutsDown, Stops, BeginStop, Goto, Places, Types, Reason, Thread, Caller,
              statusAndKind
<1>6. ASSUME NEW t \in Tunnels, Works(t) PROVE Reason'
  BY <1>6 DEF Works, Places, Reason, Thread, statusAndKind, WorkerSteps
<1>7. ASSUME NEW t \in Tunnels, NEW k \in Kinds, Starts(t, k) PROVE Reason'
  <2>1. /\ pc["main"] = "idle" /\ pc' = [pc EXCEPT !["main"] = "postTrue"]
        /\ kind[t] = "none" /\ kind' = [kind EXCEPT ![t] = k]
        /\ UNCHANGED <<Running, engine>>
    BY <1>7 DEF Starts, Establish, Goto
  <2> QED
    BY <2>1 DEF Places, Types, Reason, Thread
<1>8. ASSUME StartTunnel PROVE Reason'
  BY <1>8, NoneAssumption DEF StartTunnel, Goto, Starting, Places, Types, Classes,
              Reason, Thread
<1>9. ASSUME DeliverStatus \/ ServiceConnected \/ Recreate \/ Reopen \/ Rests PROVE Reason'
  BY <1>9 DEF DeliverStatus, ServiceConnected, Recreate, Reopen, Rests, Reason, MainIdle,
              statusAndKind
<1> QED
  BY <1>1, <1>2, <1>3, <1>4, <1>5, <1>6, <1>7, <1>8, <1>9, StepKinds

-------------------------------------------------------------------------------
(* One tunnel at a time *)

\* A live tunnel is unfinished.
LEMMA LiveUnfinished ==
  ASSUME Places, Types, Classes, NEW t \in Tunnels, Live(t)
  PROVE  Unfinished(t)
  BY NoneAssumption DEF Live, Unfinished, Handled, Classes, Types

\* Whoever is setting the status back, no tunnel is live.
LEMMA EndsAlone ==
  ASSUME Places, Types, Classes, OneAtATime, causes = {},
         NEW x \in Thread, pc[x] \in EndSteps, NEW t \in Tunnels
  PROVE  ~ Live(t)
<1> SUFFICES ASSUME Live(t) PROVE FALSE
  OBVIOUS
<1>1. tunnel = t
  BY LiveUnfinished DEF OneAtATime
<1>2. CASE x \in Tunnels
  <2>1. kind[x] = "ipref" /\ Unfinished(x)
    BY <1>2 DEF Classes, Unfinished, Handled, EndSteps
  <2>2. x = t
    BY <1>1, <1>2, <2>1 DEF OneAtATime
  <2> QED
    BY <2>1, <2>2, NoneAssumption DEF Live, EndSteps, Classes
<1>3. CASE x \in Caller
  <2>1. arg[x] \in Tunnels /\ kind[arg[x]] = "sock" /\ Unfinished(arg[x])
    BY <1>3 DEF Classes, Unfinished, Handled, EndSteps, EngineSteps, Caller
  <2>2. engine = None /\ arg[x] = t
    BY <1>1, <1>3, <2>1 DEF OneAtATime
  <2> QED
    BY <2>1, <2>2, NoneAssumption DEF Live
<1> QED
  BY <1>2, <1>3 DEF Thread, Caller

\* The parts of OneAtATime, for a step after which there still is no overlap, or
\* no cause at all.
LEMMA NextTunnelOfService ==
  ASSUME IInv, [Next]_vars, "overlap" \notin causes', NEW t \in Tunnels, Unfinished(t)'
  PROVE  tunnel' = t
<1> USE ThreadAssumption DEF EngineSteps, EndSteps, IInv
<1>1. ASSUME "overlap" \notin causes, Unfinished(t), tunnel' = tunnel PROVE tunnel' = t
  BY <1>1 DEF OneAtATime
<1>2. ASSUME NEW x \in Thread, PostStatus(x) PROVE tunnel' = t
  BY <1>1, <1>2 DEF PostStatus, Goto, Unfinished, Handled, Places, Thread, WorkerSteps
<1>3. ASSUME NEW x \in Thread, MarkStatus(x) PROVE tunnel' = t
  <2>1. /\ "overlap" \notin causes /\ UNCHANGED <<tunnel, kind, engine>>
        /\ pc[x] \in {"markTrue", "markFalse"}
        /\ pc' = [pc EXCEPT ![x] = AfterStatus(x)]
    BY <1>3 DEF MarkStatus, Goto, Halfway
  <2>2. arg' = IF AfterStatus(x) # "idle" \/ x \in Tunnels THEN arg
               ELSE [arg EXCEPT ![x] = None]
    BY <1>3 DEF MarkStatus, Forget
  <2>3. AfterStatus(x) # "done"
    BY DEF AfterStatus
  <2>4. Unfinished(t)
    BY <2>1, <2>2, <2>3, NoneAssumption DEF Unfinished, Handled, Places, Types, Thread, Caller
  <2> QED
    BY <1>1, <2>1, <2>4
<1>4. ASSUME NEW x \in Thread, CloseTun(x) PROVE tunnel' = t
  <2>1. /\ "overlap" \notin causes /\ UNCHANGED <<tunnel, kind, engine>>
        /\ pc[x] = "closeTun"
        /\ pc' = [pc EXCEPT ![x] = IF x \in Tunnels THEN "done" ELSE "idle"]
        /\ arg' = IF x \in Tunnels THEN arg ELSE [arg EXCEPT ![x] = None]
    BY <1>4 DEF CloseTun, Goto, Forget
  <2>2. Unfinished(t)
    BY <2>1, NoneAssumption DEF Unfinished, Handled, Places, Types, Thread, Caller
  <2> QED
    BY <1>1, <2>1, <2>2
<1>5. ASSUME NEW x \in Thread, EngineStop(x) PROVE tunnel' = t
  <2>1. /\ "overlap" \notin causes /\ UNCHANGED <<tunnel, kind, arg>> /\ engine' = None
        /\ pc[x] = "engineStop" /\ pc' = [pc EXCEPT ![x] = "postFalse"]
    BY <1>5 DEF EngineStop, Goto
  <2>2. Unfinished(t)
    BY <2>1, NoneAssumption DEF Unfinished, Handled, Places, Thread
  <2> QED
    BY <1>1, <2>1, <2>2
<1>6. ASSUME NEW x \in Caller, ShutsDown(x) PROVE tunnel' = t
  BY <1>1, <1>6 DEF ShutsDown, Unfinished, Handled, Places, Thread, Caller, statusAndKind
<1>7. ASSUME NEW x \in Caller, Stops(x) PROVE tunnel' = t
  <2>1. /\ "overlap" \notin causes /\ UNCHANGED <<tunnel, kind, engine>>
        /\ pc[x] = "idle" /\ arg' = [arg EXCEPT ![x] = tunnel]
        /\ \E s : pc' = [pc EXCEPT ![x] = s]
    BY <1>7 DEF Stops, BeginStop, Goto
  <2>2. Unfinished(t) \/ tunnel = t
    BY <2>1 DEF Unfinished, Handled, Places, Types, Thread, Caller
  <2> QED
    BY <1>1, <2>1, <2>2
<1>8. ASSUME NEW u \in Tunnels, Works(u) PROVE tunnel' = t
  <2>1. /\ UNCHANGED <<arg, tunnel, kind, engine, causes>>
        /\ pc[u] # "done" /\ \E s : pc' = [pc EXCEPT ![u] = s]
    BY <1>8 DEF Works, statusAndKind, WorkerSteps
  <2>2. Unfinished(t)
    BY <2>1 DEF Unfinished, Handled, Places, Thread
  <2> QED
    BY <1>1, <2>1, <2>2
<1>9. ASSUME NEW u \in Tunnels, NEW k \in Kinds, Starts(u, k) PROVE tunnel' = t
  <2>1. \A v \in Tunnels : ~ Unfinished(v)
    BY <1>9 DEF Starts, Establish
  <2>2. /\ pc["main"] = "idle" /\ pc' = [pc EXCEPT !["main"] = "postTrue"]
        /\ kind' = [kind EXCEPT ![u] = k] /\ tunnel' = u /\ engine' = engine
        /\ arg' = [arg EXCEPT !["main"] = u]
    BY <1>9 DEF Starts, Establish, Goto
  <2>3. t = u
    BY <2>1, <2>2 DEF Unfinished, Handled, Places, Types, Thread, Caller
  <2> QED
    BY <2>2, <2>3
<1>10. ASSUME StartTunnel PROVE tunnel' = t
  <2>1. /\ "overlap" \notin causes /\ UNCHANGED <<tunnel, kind>>
        /\ pc["main"] = "go" /\ arg' = [arg EXCEPT !["main"] = None]
        /\ arg["main"] \in Tunnels /\ pc[arg["main"]] = "idle"
    BY <1>10 DEF StartTunnel, Classes, Starting
  <2>2. CASE kind[arg["main"]] = "ipref"
    <3>1. /\ engine' = engine
          /\ pc' = [pc EXCEPT !["main"] = "idle", ![arg["main"]] = "run"]
      BY <1>10, <2>2 DEF StartTunnel
    <3>2. Unfinished(t)
      BY <2>1, <3>1, NoneAssumption DEF Unfinished, Handled, Places, Types, Thread, Caller
    <3> QED
      BY <1>1, <2>1, <3>2
  <2>3. CASE kind[arg["main"]] # "ipref"
    <3>1. engine' = arg["main"] /\ pc' = [pc EXCEPT !["main"] = "idle"]
      BY <1>10, <2>3 DEF StartTunnel, Goto
    <3>2. Unfinished(t)
      BY <2>1, <3>1, NoneAssumption DEF Unfinished, Handled, Places, Types, Thread, Caller
    <3> QED
      BY <1>1, <2>1, <3>2
  <2> QED
    BY <2>2, <2>3
<1>11. ASSUME DeliverStatus \/ ServiceConnected \/ Recreate \/ Rests PROVE tunnel' = t
  <2>1. "overlap" \notin causes /\ UNCHANGED <<pc, arg, kind, tunnel, engine>>
    BY <1>11 DEF DeliverStatus, ServiceConnected, Recreate, Rests, statusAndKind
  <2>2. Unfinished(t)
    BY <2>1 DEF Unfinished, Handled
  <2> QED
    BY <1>1, <2>1, <2>2
<1>12. ASSUME Reopen PROVE tunnel' = t
  <2>1. UNCHANGED <<pc, arg, kind, engine, causes>>
    BY <1>12 DEF Reopen
  <2>2. Unfinished(t)
    BY <2>1 DEF Unfinished, Handled
  <2>3. up # None /\ tunnel' = tunnel
    BY <1>12, <2>2 DEF Reopen
  <2> QED
    BY <1>1, <2>1, <2>2, <2>3
<1> QED
  BY <1>2, <1>3, <1>4, <1>5, <1>6, <1>7, <1>8, <1>9, <1>10, <1>11, <1>12, StepKinds

\* Whoever starts or stops a tunnel has the service's, or the service is gone.
LEMMA NextHandledOfService ==
  ASSUME IInv, [Next]_vars, "overlap" \notin causes', NEW t \in Tunnels, Handled(t)'
  PROVE  tunnel' \in {t, None}
<1> USE ThreadAssumption, NoneAssumption DEF EngineSteps, EndSteps, IInv, Caller
<1>1. ASSUME "overlap" \notin causes, Handled(t), tunnel' \in {tunnel, None}
      PROVE  tunnel' \in {t, None}
  BY <1>1 DEF OneAtATime
<1>2. ASSUME NEW x \in Thread, PostStatus(x) PROVE tunnel' \in {t, None}
  BY <1>1, <1>2 DEF PostStatus, Goto, Handled, Places, Thread
<1>3. ASSUME NEW x \in Thread, MarkStatus(x) \/ CloseTun(x) PROVE tunnel' \in {t, None}
  <2>1. /\ "overlap" \notin causes /\ tunnel' = tunnel
        /\ pc[x] \in {"markTrue", "markFalse", "closeTun"}
        /\ \E s : pc' = [pc EXCEPT ![x] = s]
        /\ arg' = arg \/ arg' = [arg EXCEPT ![x] = None]
    BY <1>3 DEF MarkStatus, CloseTun, Goto, Halfway, Forget
  <2>2. Handled(t)
    BY <2>1 DEF Handled, Places, Types, Thread
  <2> QED
    BY <1>1, <2>1, <2>2
<1>4. ASSUME NEW x \in Thread, EngineStop(x) PROVE tunnel' \in {t, None}
  BY <1>1, <1>4 DEF EngineStop, Goto, Handled, Places, Thread
<1>5. ASSUME NEW x \in Caller, ShutsDown(x) PROVE tunnel' \in {t, None}
  BY <1>1, <1>5 DEF ShutsDown, Handled, Places, Thread, statusAndKind
<1>6. ASSUME NEW x \in Caller, Stops(x) PROVE tunnel' \in {t, None}
  <2>1. /\ "overlap" \notin causes /\ tunnel' = tunnel
        /\ arg' = [arg EXCEPT ![x] = tunnel]
        /\ \E s : pc' = [pc EXCEPT ![x] = s]
    BY <1>6 DEF Stops, BeginStop, Goto
  <2>2. Handled(t) \/ tunnel = t
    BY <2>1 DEF Handled, Places, Types, Thread
  <2> QED
    BY <1>1, <2>1, <2>2
<1>7. ASSUME NEW u \in Tunnels, Works(u) PROVE tunnel' \in {t, None}
  <2>1. /\ UNCHANGED <<arg, tunnel, causes>>
        /\ \E s : pc' = [pc EXCEPT ![u] = s]
    BY <1>7 DEF Works, statusAndKind
  <2>2. Handled(t)
    BY <2>1 DEF Handled, Places, Thread
  <2> QED
    BY <1>1, <2>1, <2>2
<1>8. ASSUME NEW u \in Tunnels, NEW k \in Kinds, Starts(u, k) PROVE tunnel' \in {t, None}
  <2>1. /\ ~ Handled(t) /\ tunnel' = u
        /\ arg' = [arg EXCEPT !["main"] = u]
        /\ pc' = [pc EXCEPT !["main"] = "postTrue"]
    BY <1>8 DEF Starts, Establish, Goto
  <2>2. t = u
    BY <2>1 DEF Handled, Places, Types, Thread
  <2> QED
    BY <2>1, <2>2
<1>9. ASSUME StartTunnel PROVE tunnel' \in {t, None}
  <2>1. /\ "overlap" \notin causes /\ tunnel' = tunnel /\ pc["main"] = "go"
        /\ arg["main"] \in Tunnels /\ arg' = [arg EXCEPT !["main"] = None]
        /\ \/ pc' = [pc EXCEPT !["main"] = "idle", ![arg["main"]] = "run"]
           \/ pc' = [pc EXCEPT !["main"] = "idle"]
    BY <1>9 DEF StartTunnel, Goto, Classes, Starting
  <2>2. Handled(t)
    BY <2>1 DEF Handled, Places, Types, Thread
  <2> QED
    BY <1>1, <2>1, <2>2
<1>10. ASSUME DeliverStatus \/ ServiceConnected \/ Recreate \/ Reopen \/ Rests
       PROVE  tunnel' \in {t, None}
  <2>1. /\ "overlap" \notin causes /\ UNCHANGED <<pc, arg>> /\ tunnel' \in {tunnel, None}
    BY <1>10 DEF DeliverStatus, ServiceConnected, Recreate, Reopen, Rests, statusAndKind
  <2>2. Handled(t)
    BY <2>1 DEF Handled
  <2> QED
    BY <1>1, <2>1, <2>2
<1> QED
  BY <1>2, <1>3, <1>4, <1>5, <1>6, <1>7, <1>8, <1>9, <1>10, StepKinds

\* A tunnel is not stopped while it is started, and no engine runs behind a
\* caller that is setting the status back.
LEMMA NextCallers ==
  ASSUME IInv, [Next]_vars, causes' = {}
  PROVE  /\ pc'["binder"] \in EngineSteps => ~ Starting'
         /\ \A x \in Caller : pc'[x] \in EndSteps => engine' = None
<1> DEFINE Apart ==
      /\ pc["binder"] \in EngineSteps => ~ Starting
      /\ \A x \in Caller : pc[x] \in EndSteps => engine = None
<1> SUFFICES Apart'
  OBVIOUS
<1> USE ThreadAssumption DEF EngineSteps, EndSteps, IInv
<1>1. causes = {} => Apart
  BY DEF OneAtATime
<1>2. ASSUME NEW x \in Thread, PostStatus(x) PROVE Apart'
  <2>1. /\ causes = {} /\ engine' = engine
        /\ pc[x] \in {"postTrue", "postFalse"}
        /\ pc' = [pc EXCEPT ![x] = IF pc[x] = "postTrue" THEN "markTrue" ELSE "markFalse"]
    BY <1>2 DEF PostStatus, Goto
  <2> QED
    BY <1>1, <2>1 DEF Places, Starting, Thread, Caller
<1>3. ASSUME NEW x \in Thread, MarkStatus(x) PROVE Apart'
  <2>1. /\ causes = {} /\ engine' = engine
        /\ pc[x] \in {"markTrue", "markFalse"}
        /\ pc' = [pc EXCEPT ![x] = AfterStatus(x)]
    BY <1>3 DEF MarkStatus, Goto, Halfway
  <2>2. /\ AfterStatus(x) \in {"go", "closeTun", "idle"}
        /\ AfterStatus(x) = "go" => pc[x] = "markTrue"
    BY DEF AfterStatus
  <2> QED
    BY <1>1, <2>1, <2>2 DEF Places, Starting, Thread, Caller
<1>4. ASSUME NEW x \in Thread, CloseTun(x) PROVE Apart'
  BY <1>1, <1>4 DEF CloseTun, Goto, Places, Starting, Thread, Caller
<1>5. ASSUME NEW x \in Thread, EngineStop(x) PROVE Apart'
  BY <1>1, <1>5 DEF EngineStop, Goto, Places, Starting, Thread, Caller
<1>6. ASSUME NEW x \in Caller, ShutsDown(x) PROVE Apart'
  BY <1>1, <1>6 DEF ShutsDown, Places, Starting, Thread, Caller, statusAndKind
<1>7. ASSUME NEW x \in Caller, Stops(x) PROVE Apart'
  <2>1. /\ causes = {} /\ ~ Starting /\ engine' = engine
        /\ pc[x] = "idle"
        /\ \E s \in {"shutdown", "engineStop"} : pc' = [pc EXCEPT ![x] = s]
    BY <1>7 DEF Stops, BeginStop, Goto
  <2> QED
    BY <1>1, <2>1 DEF Places, Starting, Thread, Caller
<1>8. ASSUME NEW t \in Tunnels, Works(t) PROVE Apart'
  BY <1>1, <1>8 DEF Works, Places, Starting, Thread, Caller, statusAndKind
<1>9. ASSUME NEW t \in Tunnels, NEW k \in Kinds, Starts(t, k) PROVE Apart'
  <2>1. /\ causes = {} /\ \A v \in Tunnels : ~ Unfinished(v)
        /\ pc' = [pc EXCEPT !["main"] = "postTrue"] /\ engine' = engine
    BY <1>9 DEF Starts, Establish, Goto
  <2>2. pc["binder"] \notin EngineSteps
    BY <2>1 DEF Unfinished, Handled, Classes, Caller
  <2> QED
    BY <1>1, <2>1, <2>2 DEF Places, Thread, Caller
<1>10. ASSUME StartTunnel PROVE Apart'
  <2>1. /\ causes = {} /\ pc["main"] = "go"
        /\ arg["main"] \in Tunnels /\ pc[arg["main"]] = "idle"
        /\ \/ pc' = [pc EXCEPT !["main"] = "idle", ![arg["main"]] = "run"]
           \/ pc' = [pc EXCEPT !["main"] = "idle"]
    BY <1>10 DEF StartTunnel, Goto, Starting, Classes
  <2>2. pc["binder"] \notin EngineSteps
    BY <1>1, <2>1 DEF Starting
  <2> QED
    BY <2>1, <2>2 DEF Places, Starting, Thread, Caller
<1>11. ASSUME DeliverStatus \/ ServiceConnected \/ Recreate \/ Reopen \/ Rests PROVE Apart'
  <2>1. causes = {} /\ UNCHANGED <<pc, engine>>
    BY <1>11 DEF DeliverStatus, ServiceConnected, Recreate, Reopen, Rests, statusAndKind
  <2> QED
    BY <1>1, <2>1 DEF Starting
<1> QED
  BY <1>2, <1>3, <1>4, <1>5, <1>6, <1>7, <1>8, <1>9, <1>10, <1>11, StepKinds

\* Running is true while main goes on to start the tunnel, and as long as it
\* lives.
LEMMA NextRunning ==
  ASSUME IInv, [Next]_vars, causes' = {}
  PROVE  /\ pc'["main"] = "go" => Running'
         /\ (\E t \in Tunnels : Live(t)') =>
              Running' \/ pc'["main"] \in {"postTrue", "markTrue"}
<1> DEFINE Runs ==
      /\ pc["main"] = "go" => Running
      /\ (\E t \in Tunnels : Live(t)) => Running \/ pc["main"] \in {"postTrue", "markTrue"}
<1> SUFFICES Runs'
  OBVIOUS
<1> USE ThreadAssumption DEF EngineSteps, EndSteps, IInv
<1>1. causes = {} => Runs
  BY DEF OneAtATime
<1>2. ASSUME NEW x \in Thread, PostStatus(x) PROVE Runs'
  <2>1. /\ causes = {} /\ UNCHANGED <<engine, kind, Running>>
        /\ pc[x] \in {"postTrue", "postFalse"}
        /\ pc' = [pc EXCEPT ![x] = IF pc[x] = "postTrue" THEN "markTrue" ELSE "markFalse"]
    BY <1>2 DEF PostStatus, Goto
  <2>2. \A t \in Tunnels : Live(t)' => Live(t)
    BY <2>1 DEF Live, Places, Thread
  <2>3. CASE x = "main"
    BY <1>1, <2>1, <2>2, <2>3, EndsAlone DEF Places, Thread
  <2>4. CASE x # "main"
    BY <1>1, <2>1, <2>2, <2>4 DEF Places, Thread
  <2> QED
    BY <2>3, <2>4
<1>3. ASSUME NEW x \in Thread, MarkStatus(x) PROVE Runs'
  <2>1. /\ causes = {} /\ UNCHANGED <<engine, kind>>
        /\ pc[x] \in {"markTrue", "markFalse"}
        /\ Running' = (pc[x] = "markTrue")
        /\ pc' = [pc EXCEPT ![x] = AfterStatus(x)]
    BY <1>3 DEF MarkStatus, Goto, Halfway
  <2>2. AfterStatus(x) \in {"go", "closeTun", "idle"} /\ (x \in Tunnels => pc[x] = "markFalse")
    BY <2>1 DEF AfterStatus, Places, WorkerSteps
  <2>3. CASE pc[x] = "markFalse"
    <3>1. \A t \in Tunnels : ~ Live(t)
      BY <2>1, <2>3, EndsAlone
    <3>2. AfterStatus(x) \in {"closeTun", "idle"} /\ (x \in Tunnels => AfterStatus(x) = "closeTun")
      BY <2>3 DEF AfterStatus
    <3>3. \A t \in Tunnels : ~ Live(t)'
      BY <2>1, <3>1, <3>2 DEF Live, Places, Thread
    <3>4. pc["main"] # "go"
      <4> SUFFICES ASSUME pc["main"] = "go" PROVE FALSE
        OBVIOUS
      <4>1. /\ arg["main"] \in Tunnels /\ kind[arg["main"]] # "none"
            /\ pc[arg["main"]] = "idle"
        BY DEF Classes, Starting
      <4>2. kind[arg["main"]] \in {"ipref", "sock"} /\ Unfinished(arg["main"])
        BY <4>1 DEF Types, Unfinished, Handled
      <4>3. CASE x \in Tunnels
        <5>1. Unfinished(x)
          BY <2>3, <4>3 DEF Classes, Unfinished, Handled
        <5>2. x = arg["main"]
          BY <2>1, <4>1, <4>2, <4>3, <5>1 DEF OneAtATime
        <5> QED
          BY <2>3, <4>1, <5>2
      <4>4. CASE x = "binder"
        BY <2>1, <2>3, <4>4 DEF OneAtATime, Starting
      <4> QED
        BY <2>3, <4>3, <4>4 DEF Thread
    <3>5. pc'["main"] # "go"
      BY <2>1, <3>2, <3>4 DEF Places, Thread
    <3> QED
      BY <3>3, <3>5
  <2>4. CASE pc[x] = "markTrue"
    BY <2>1, <2>4
  <2> QED
    BY <2>1, <2>3, <2>4
<1>4. ASSUME NEW x \in Thread, CloseTun(x) PROVE Runs'
  <2>1. /\ causes = {} /\ UNCHANGED <<engine, kind, Running>>
        /\ pc[x] = "closeTun"
        /\ pc' = [pc EXCEPT ![x] = IF x \in Tunnels THEN "done" ELSE "idle"]
    BY <1>4 DEF CloseTun, Goto
  <2> QED
    BY <1>1, <2>1 DEF Live, Places, Thread
<1>5. ASSUME NEW x \in Thread, EngineStop(x) PROVE Runs'
  <2>1. /\ causes = {} /\ UNCHANGED <<kind, Running>> /\ engine' = None
        /\ pc[x] = "engineStop" /\ pc' = [pc EXCEPT ![x] = "postFalse"]
    BY <1>5 DEF EngineStop, Goto
  <2> QED
    BY <1>1, <2>1, NoneAssumption DEF Live, Places, Thread
<1>6. ASSUME NEW x \in Caller, ShutsDown(x) \/ Stops(x) PROVE Runs'
  <2>1. /\ causes = {} /\ UNCHANGED <<engine, kind, Running>>
        /\ pc[x] \in {"idle", "shutdown"}
        /\ \E s \in {"shutdown", "engineStop", "closeTun"} : pc' = [pc EXCEPT ![x] = s]
    BY <1>6 DEF ShutsDown, Stops, BeginStop, Goto, statusAndKind
  <2> QED
    BY <1>1, <2>1 DEF Live, Places, Thread, Caller
<1>7. ASSUME NEW t \in Tunnels, Works(t) PROVE Runs'
  <2>1. /\ causes = {} /\ UNCHANGED <<engine, kind, Running>> /\ pc'["main"] = pc["main"]
    BY <1>7 DEF Works, statusAndKind, Places, Thread
  <2>2. \A u \in Tunnels : Live(u)' => Live(u)
    BY <1>7, <2>1 DEF Works, Live, Places, Thread, WorkerSteps
  <2> QED
    BY <1>1, <2>1, <2>2
<1>8. ASSUME NEW t \in Tunnels, NEW k \in Kinds, Starts(t, k) PROVE Runs'
  <2>1. pc'["main"] = "postTrue"
    BY <1>8 DEF Starts, Establish, Goto, Places, Thread
  <2> QED
    BY <2>1
<1>9. ASSUME StartTunnel PROVE Runs'
  <2>1. Running' = Running /\ causes = {} /\ pc["main"] = "go"
    BY <1>9 DEF StartTunnel
  <2> QED
    BY <1>1, <2>1
<1>10. ASSUME DeliverStatus \/ ServiceConnected \/ Recreate \/ Rests PROVE Runs'
  <2>1. causes = {} /\ UNCHANGED <<pc, kind, engine, Running>>
    BY <1>10 DEF DeliverStatus, ServiceConnected, Recreate, Rests, statusAndKind
  <2> QED
    BY <1>1, <2>1 DEF Live
<1>11. ASSUME Reopen PROVE Runs'
  <2>1. /\ UNCHANGED <<pc, kind, engine, causes>> /\ pc["main"] = "idle"
        /\ Running' = (Running /\ up # None)
        /\ up # None \/ \A t \in Tunnels : ~ Unfinished(t)
    BY <1>11 DEF Reopen, MainIdle
  <2> QED
    BY <1>1, <2>1, LiveUnfinished DEF Live, Types
<1> QED
  BY <1>2, <1>3, <1>4, <1>5, <1>6, <1>7, <1>8, <1>9, <1>10, <1>11, StepKinds

-------------------------------------------------------------------------------
(* Theorems *)

LEMMA InitIInv == Init => IInv
<1> SUFFICES ASSUME Init PROVE IInv
  OBVIOUS
<1> USE ThreadAssumption, NoneAssumption DEF Init
<1>1. Places
  BY DEF Places, Thread
<1>2. Types /\ Classes
  BY DEF Types, Classes, Starting, Thread, Caller, EngineSteps, EndSteps
<1>3. Agree /\ Reason
  BY DEF Agree, Reason
<1>4. OneAtATime
  BY DEF OneAtATime, Unfinished, Handled, Live, Thread, Caller, EngineSteps, EndSteps
<1> QED
  BY <1>1, <1>2, <1>3, <1>4 DEF IInv

THEOREM Invariance == SafetySpec => []IInv
<1>1. ASSUME IInv, [Next]_vars PROVE OneAtATime'
  BY <1>1, NextTunnelOfService, NextHandledOfService, NextCallers, NextRunning
     DEF OneAtATime
<1>2. IInv /\ [Next]_vars => IInv'
  BY <1>1, NextPlaces, NextTypes, NextClasses, NextAgree, NextReason DEF IInv
<1> QED
  BY <1>2, InitIInv, PTL DEF SafetySpec

LEMMA Agreement ==
  ASSUME IInv, Settled, "race" \notin causes
  PROVE  (shown = "true") = Running
  BY DEF IInv, Agree, Announced, Settled, Halfway, StatusSteps

\* When nothing is on its way, the button shows what Running holds, unless two
\* updates of the status, or one and a reconnect, met halfway.
THEOREM ButtonAgrees == SafetySpec => []StatusAgrees
<1>1. IInv => StatusAgrees
  BY Agreement DEF StatusAgrees
<1> QED
  BY <1>1, Invariance, PTL

\* The button does not go on showing "running" when nothing runs.
THEOREM ButtonShowsNoPhantom == SafetySpec => []NoPhantom
<1>1. ASSUME IInv, Settled, "race" \notin causes, shown = "true"
      PROVE  \E t \in Tunnels : Live(t) \/ Unfinished(t)
  <2>1. Running
    BY <1>1, Agreement
  <2>2. pc["main"] = "idle" /\ \A x \in Thread : pc[x] \notin EndSteps
    BY <1>1 DEF Settled, MainIdle, StatusSteps, EndSteps
  <2>3. \/ \E t \in Tunnels : kind[t] = "ipref" /\ pc[t] \notin {"closeTun", "done"}
        \/ engine # None
    BY <1>1, <2>1, <2>2 DEF IInv, Reason
  <2> QED
    BY <1>1, <2>3 DEF IInv, Types, Live, Unfinished, Handled
<1>2. IInv => NoPhantom
  BY <1>1 DEF NoPhantom
<1> QED
  BY <1>2, Invariance, PTL

\* No tunnel is live behind a button that shows "not running", unless tunnels
\* overlapped or a start met a stop.
THEOREM ButtonHidesNothing == SafetySpec => []NoHidden
<1>1. ASSUME IInv, Settled, causes = {}, shown # "true", NEW t \in Tunnels
      PROVE  ~ Live(t)
  <2>1. ~ Running
    BY <1>1, Agreement
  <2>2. pc["main"] = "idle"
    BY <1>1 DEF Settled, MainIdle
  <2> QED
    BY <1>1, <2>1, <2>2 DEF IInv, OneAtATime
<1>2. IInv => NoHidden
  BY <1>1 DEF NoHidden
<1> QED
  BY <1>2, Invariance, PTL

-------------------------------------------------------------------------------
(* Descriptors *)

Tables ==
  /\ open \in [Fd -> Desc \cup {Nothing}]
  /\ number \in [Tunnels \X {"tun", "udp"} -> Fd \cup {0}]
  /\ tunFd \in [Tunnels -> Fd \cup {0}]
  /\ global \in Fd \cup {0}

\* Where a worker is while it has its control connection.
TcpSteps == {"connect", "setup", "relay", "free", "closeUdp", "closeTcp"}

\* The numbers of tunnels that are over, or have not begun, stay forgotten.
Forgotten ==
  \A t \in Tunnels : kind[t] = "none" \/ pc[t] = "done" => number[<<t, "tun">>] = 0

\* What a tunnel owns until its relay ends; C's copy is Java's number until a stop
\* has closed it.
Owns(t) ==
  /\ number[<<t, "tun">>] # 0 => open[number[<<t, "tun">>]] = <<t, "tun">>
  /\ pc[t] \notin {"idle", "run"} /\ number[<<t, "tun">>] # 0 =>
       tunFd[t] = number[<<t, "tun">>]
  /\ pc[t] \in {"connect", "setup", "relay"} => global \in Fd /\ open[global] = <<t, "tcp">>
  /\ pc[t] = "relay" =>
       number[<<t, "udp">>] \in Fd /\ open[number[<<t, "udp">>]] = <<t, "udp">>

Working(t) ==
  /\ kind[t] = "ipref"
  /\ pc[t] \in {"idle", "run", "socket", "connect", "setup", "relay"}

Owned == \A t \in Tunnels : Working(t) => Owns(t)

\* A control connection that is open is that of a worker that has not closed it,
\* and the one in tcp_control_sock_fd.
Controls ==
  \A f \in Fd, t \in Tunnels :
    open[f] = <<t, "tcp">> => f = global /\ pc[t] \in TcpSteps

Kept ==
  /\ Tables /\ Forgotten
  /\ "overlap" \notin causes => Owned /\ Controls

DInv == IInv /\ Kept

\* Somewhere the table has room.
Roomy == \E f \in Fd : open[f] = Nothing

LEMMA LeastElement ==
  ASSUME NEW S, S \subseteq Nat, S # {}
  PROVE  \E f \in S : \A g \in S : f <= g
<1>1. PICK f \in S : \A g \in S : ~ <<g, f>> \in OpToRel(<, Nat)
  BY NatLessThanWellFounded, WFMin, Zenon
<1>2. ASSUME NEW g \in S PROVE f <= g
  <2>1. f \in Nat /\ g \in Nat /\ <<g, f>> \in Nat \X Nat
    OBVIOUS
  <2>2. <<g, f>>[1] = g /\ <<g, f>>[2] = f
    OBVIOUS
  <2>3. ~ (g < f)
    BY <1>1, <2>1, <2>2 DEF OpToRel
  <2> QED
    BY <2>1, <2>3
<1> QED
  BY <1>2

LEMMA NextFreeIsFree ==
  ASSUME Roomy
  PROVE  NextFree \in Fd /\ open[NextFree] = Nothing
<1> DEFINE free == {f \in Fd : open[f] = Nothing}
<1>1. PICK f \in free : \A g \in free : f <= g
  BY LeastElement, FdAssumption DEF Roomy
<1>2. f \in Fd /\ open[f] = Nothing /\ \A g \in Fd : open[g] = Nothing => f <= g
  BY <1>1
<1> QED
  BY <1>2 DEF NextFree

\* Steps that leave the table alone, and bring no tunnel closer to having more.
Keeps ==
  /\ UNCHANGED <<open, number, tunFd, global, kind>>
  /\ causes \subseteq causes'
  /\ \A t \in Tunnels :
       /\ pc'[t] \in {"idle", "run"} => pc[t] \in {"idle", "run"}
       /\ pc'[t] \in {"socket", "connect", "relay", "done"} => pc'[t] = pc[t]
       /\ pc'[t] = "setup" => pc[t] \in {"connect", "setup"}
       /\ pc[t] \in TcpSteps => pc'[t] \in TcpSteps

LEMMA TableKinds ==
  ASSUME IInv, [Next]_vars
  PROVE  \/ \E x \in Thread : CloseTun(x) \/ EngineStop(x)
         \/ \E t \in Tunnels :
              TakeFd(t) \/ CreateSocket(t) \/ OpenTunnel(t) \/ FreeBuffers(t) \/ CloseSocket(t)
         \/ \E t \in Tunnels, k \in Kinds : Starts(t, k) /\ UNCHANGED <<tunFd, global>>
         \/ Keeps
<1> USE ThreadAssumption DEF IInv, TcpSteps
<1>1. ASSUME NEW x \in Thread, PostStatus(x) PROVE Keeps
  BY <1>1 DEF PostStatus, Goto, Keeps, Places, Thread
<1>2. ASSUME NEW x \in Thread, MarkStatus(x) PROVE Keeps
  <2>1. AfterStatus(x) \in {"go", "closeTun", "idle"} /\ (x \in Tunnels => AfterStatus(x) # "idle")
    BY DEF AfterStatus
  <2> QED
    BY <1>2, <2>1 DEF MarkStatus, Halfway, Goto, Keeps, Places, Thread
<1>3. ASSUME NEW x \in Thread, Shutdown(x) PROVE Keeps
  BY <1>3 DEF Shutdown, Goto, Keeps, Places, Thread
<1>4. ASSUME StartTunnel PROVE Keeps
  <2>1. arg["main"] \in Tunnels /\ pc[arg["main"]] = "idle"
    BY <1>4 DEF StartTunnel, Starting, Classes
  <2> QED
    BY <1>4, <2>1 DEF StartTunnel, Goto, Keeps, Places, Thread
<1>5. ASSUME NEW t \in Tunnels, Connect(t) \/ LoopReturns(t) PROVE Keeps
  BY <1>5 DEF Connect, LoopReturns, Goto, Keeps, Places, Thread
<1>6. ASSUME NEW t \in Tunnels, SetupExits(t) \/ TunFails(t) PROVE Keeps
  BY <1>6 DEF SetupExits, TunFails, Die, Keeps
<1>7. ASSUME NEW t \in Tunnels, NEW k \in Kinds, ClickStart(t, k) \/ ConsentGranted(t, k)
      PROVE  Starts(t, k) /\ UNCHANGED <<tunFd, global>>
  BY <1>7 DEF ClickStart, ConsentGranted, StartVpnService, MainIdle, Starts
<1>8. ASSUME ClickStop \/ Revoke PROVE Keeps
  <2>1. \E x \in Caller : BeginStop(x) /\ UNCHANGED <<open, number, tunFd, global, kind>>
    BY <1>8 DEF ClickStop, Revoke, Caller
  <2> QED
    BY <2>1 DEF BeginStop, Goto, Keeps, Places, Thread, Caller
<1>9. ASSUME ClickTooEarly \/ ClickAsks \/ ConsentDenied \/ ConsentUnused \/ StartThrows
      PROVE  Keeps
  BY <1>9 DEF ClickTooEarly, ClickAsks, ConsentDenied, ConsentUnused, StartThrows, Die,
              Keeps
<1>10. ASSUME DeliverStatus \/ ServiceConnected \/ Recreate \/ Reopen PROVE Keeps
  BY <1>10 DEF DeliverStatus, ServiceConnected, Recreate, Reopen, Keeps
<1>11. ASSUME UNCHANGED vars PROVE Keeps
  BY <1>11 DEF vars, Keeps
<1> QED
  BY <1>1, <1>2, <1>3, <1>4, <1>5, <1>6, <1>7, <1>8, <1>9, <1>10, <1>11
     DEF Next, Run, Deliver, User, Relay

LEMMA NextTables == DInv /\ Roomy /\ [Next]_vars => Tables'
<1> SUFFICES ASSUME IInv, Tables, Roomy, [Next]_vars PROVE Tables'
  BY DEF DInv, Kept
<1>1. NextFree \in Fd
  BY NextFreeIsFree
<1>2. ASSUME NEW f PROVE Closed(f) \in [Fd -> Desc \cup {Nothing}]
  BY DEF Closed, Tables
<1>3. ASSUME NEW t \in Tunnels, NEW w \in {"tun", "tcp", "udp"}
      PROVE  Opened(NextFree, <<t, w>>) \in [Fd -> Desc \cup {Nothing}]
  BY <1>1 DEF Opened, Tables, Desc
<1>4. ASSUME NEW x \in Thread, CloseTun(x) PROVE Tables'
  <2>1. \E f, d : open' = Closed(f) /\ number' = [number EXCEPT ![d] = 0]
    BY <1>4 DEF CloseTun
  <2>2. UNCHANGED <<tunFd, global>>
    BY <1>4 DEF CloseTun
  <2> QED
    BY <1>2, <2>1, <2>2 DEF Tables
<1>5. ASSUME NEW x \in Thread, EngineStop(x) PROVE Tables'
  <2>1. open' = open \/ \E f : open' = Closed(f)
    BY <1>5 DEF EngineStop
  <2>2. UNCHANGED <<number, tunFd, global>>
    BY <1>5 DEF EngineStop
  <2> QED
    BY <1>2, <2>1, <2>2 DEF Tables
<1>6. ASSUME NEW t \in Tunnels, CreateSocket(t) PROVE Tables'
  BY <1>1, <1>3, <1>6 DEF CreateSocket, Tables
<1>7. ASSUME NEW t \in Tunnels, OpenTunnel(t) PROVE Tables'
  BY <1>1, <1>3, <1>7 DEF OpenTunnel, Tables
<1>8. ASSUME NEW t \in Tunnels, FreeBuffers(t) PROVE Tables'
  BY <1>8 DEF FreeBuffers, Die, Tables
<1>9. ASSUME NEW t \in Tunnels, CloseSocket(t) PROVE Tables'
  <2>1. \E f : open' = Closed(f)
    BY <1>9 DEF CloseSocket
  <2>2. /\ number' = [number EXCEPT ![<<t, "udp">>] = 0] /\ global' = global
        /\ tunFd' = tunFd \/ tunFd' = [tunFd EXCEPT ![t] = 0]
    BY <1>9 DEF CloseSocket
  <2> QED
    BY <1>2, <2>1, <2>2 DEF Tables
<1>10. ASSUME NEW t \in Tunnels, NEW k \in Kinds, Starts(t, k),
              UNCHANGED <<tunFd, global>>
       PROVE  Tables'
  BY <1>1, <1>3, <1>10 DEF Starts, Establish, Tables
<1>11. ASSUME Keeps PROVE Tables'
  BY <1>11 DEF Keeps, Tables
<1>12. ASSUME NEW t \in Tunnels, TakeFd(t) PROVE Tables'
  BY <1>12 DEF TakeFd, Die, Tables
<1> QED
  BY <1>12, <1>4, <1>5, <1>6, <1>7, <1>8, <1>9, <1>10, <1>11, TableKinds

\* Nobody else is unfinished while a tunnel works.
LEMMA WorksAlone ==
  ASSUME IInv, "overlap" \notin causes, NEW t \in Tunnels, Working(t)
  PROVE  /\ engine = None
         /\ \A u \in Tunnels : Unfinished(u) => u = t
         /\ \A x \in Caller : pc[x] \notin EngineSteps
<1>1. Unfinished(t)
  BY DEF Working, Unfinished, Handled
<1>2. \A u \in Tunnels : Unfinished(u) => u = t
  BY <1>1 DEF IInv, OneAtATime
<1>3. engine = None
  BY <1>2 DEF IInv, Types, Classes, Unfinished, Handled, Working
<1>4. ASSUME NEW x \in Caller, pc[x] \in EngineSteps PROVE FALSE
  <2>1. arg[x] \in Tunnels /\ kind[arg[x]] = "sock" /\ pc[x] # "idle"
    BY <1>4 DEF IInv, Classes, EngineSteps, EndSteps
  <2>2. Unfinished(arg[x])
    BY <2>1 DEF Unfinished, Handled, Caller
  <2> QED
    BY <1>2, <2>1, <2>2 DEF Working
<1> QED
  BY <1>2, <1>3, <1>4

LEMMA NextForgotten == DInv /\ [Next]_vars => Forgotten'
<1> SUFFICES ASSUME IInv, Tables, Forgotten, [Next]_vars PROVE Forgotten'
  BY DEF DInv, Kept
<1> USE ThreadAssumption DEF IInv
<1>1. ASSUME NEW x \in Thread, CloseTun(x) PROVE Forgotten'
  <2> DEFINE u == IF x \in Tunnels THEN x ELSE arg[x]
  <2>1. /\ pc[x] = "closeTun" /\ kind' = kind
        /\ pc' = [pc EXCEPT ![x] = IF x \in Tunnels THEN "done" ELSE "idle"]
        /\ number' = [number EXCEPT ![<<u, "tun">>] = 0]
    BY <1>1 DEF CloseTun, Goto, Mine
  <2>2. u \in Tunnels
    BY <2>1 DEF Classes, Thread, Caller
  <2> HIDE DEF u
  <2>3. \A t \in Tunnels : <<t, "tun">> \in Tunnels \X {"tun", "udp"}
    OBVIOUS
  <2>4. \A t \in Tunnels : number[<<t, "tun">>] = 0 => number'[<<t, "tun">>] = 0
    BY <2>1, <2>3 DEF Tables
  <2>5. CASE x \in Tunnels
    <3>1. u = x
      BY <2>5 DEF u
    <3>2. number'[<<x, "tun">>] = 0
      BY <2>1, <2>3, <2>5, <3>1 DEF Tables
    <3>3. \A t \in Tunnels : pc'[t] = "done" => pc[t] = "done" \/ t = x
      BY <2>1 DEF Places
    <3> QED
      BY <2>1, <2>4, <3>2, <3>3 DEF Forgotten
  <2>6. CASE x \notin Tunnels
    <3>1. \A t \in Tunnels : pc'[t] = pc[t]
      BY <2>1, <2>6 DEF Places
    <3> QED
      BY <2>1, <2>4, <3>1 DEF Forgotten
  <2> QED
    BY <2>5, <2>6
<1>2. ASSUME NEW x \in Thread, EngineStop(x) PROVE Forgotten'
  BY <1>2 DEF EngineStop, Goto, Forgotten, Places
<1>3. ASSUME NEW t \in Tunnels, CreateSocket(t) PROVE Forgotten'
  BY <1>3 DEF CreateSocket, Goto, Forgotten, Places
<1>4. ASSUME NEW t \in Tunnels, OpenTunnel(t) \/ CloseSocket(t) PROVE Forgotten'
  <2>1. /\ kind' = kind
        /\ \E n : number' = [number EXCEPT ![<<t, "udp">>] = n]
        /\ \E p \in {"relay", "closeUdp", "closeTcp", "reshut"} : pc' = [pc EXCEPT ![t] = p]
    BY <1>4 DEF OpenTunnel, CloseSocket, Goto
  <2>2. \A u \in Tunnels : number'[<<u, "tun">>] = number[<<u, "tun">>]
    BY <2>1 DEF Tables
  <2>3. \A u \in Tunnels : pc'[u] = "done" => pc[u] = "done"
    BY <2>1 DEF Places
  <2> QED
    BY <2>1, <2>2, <2>3 DEF Forgotten
<1>5. ASSUME NEW t \in Tunnels, FreeBuffers(t) PROVE Forgotten'
  <2>1. /\ UNCHANGED <<kind, number>>
        /\ pc' = pc \/ pc' = [pc EXCEPT ![t] = "closeUdp"]
    BY <1>5 DEF FreeBuffers, Die, Goto
  <2>2. \A u \in Tunnels : pc'[u] = "done" => pc[u] = "done"
    <3>1. CASE pc' = pc
      BY <3>1
    <3>2. CASE pc' = [pc EXCEPT ![t] = "closeUdp"]
      BY <3>2 DEF Places
    <3> QED
      BY <2>1, <3>1, <3>2
  <2> QED
    BY <2>1, <2>2 DEF Forgotten
<1>8. ASSUME NEW t \in Tunnels, TakeFd(t) PROVE Forgotten'
  <2>1. /\ UNCHANGED <<kind, number>>
        /\ pc' = pc \/ pc' = [pc EXCEPT ![t] = "socket"]
    BY <1>8 DEF TakeFd, Die, Goto
  <2>2. \A u \in Tunnels : pc'[u] = "done" => pc[u] = "done"
    <3>1. CASE pc' = pc
      BY <3>1
    <3>2. CASE pc' = [pc EXCEPT ![t] = "socket"]
      BY <3>2 DEF Places
    <3> QED
      BY <2>1, <3>1, <3>2
  <2> QED
    BY <2>1, <2>2 DEF Forgotten
<1>6. ASSUME NEW t \in Tunnels, NEW k \in Kinds, Starts(t, k) PROVE Forgotten'
  <2>1. /\ kind[t] = "none" /\ kind' = [kind EXCEPT ![t] = k]
        /\ \E n : number' = [number EXCEPT ![<<t, "tun">>] = n]
        /\ pc' = [pc EXCEPT !["main"] = "postTrue"]
    BY <1>6 DEF Starts, Establish, Goto
  <2>2. \A u \in Tunnels \ {t} :
          kind'[u] = kind[u] /\ number'[<<u, "tun">>] = number[<<u, "tun">>]
    BY <2>1 DEF Tables, Types
  <2>3. kind'[t] # "none"
    BY <2>1, KindAssumption DEF Types
  <2>4. pc[t] = "idle" /\ \A u \in Tunnels : pc'[u] = pc[u]
    BY <2>1 DEF Places, Classes
  <2> QED
    BY <2>2, <2>3, <2>4 DEF Forgotten
<1>7. ASSUME Keeps PROVE Forgotten'
  BY <1>7 DEF Keeps, Forgotten
<1> QED
  BY <1>1, <1>2, <1>3, <1>4, <1>5, <1>6, <1>7, <1>8, TableKinds

\* What has coincided has.
LEMMA CausesGrow ==
  ASSUME IInv, [Next]_vars, "overlap" \notin causes'
  PROVE  "overlap" \notin causes
<1>1. CASE Keeps
  BY <1>1 DEF Keeps
<1>2. ASSUME NEW x \in Thread, CloseTun(x) \/ EngineStop(x) PROVE causes' = causes
  BY <1>2 DEF CloseTun, EngineStop
<1>3. ASSUME NEW t \in Tunnels,
             TakeFd(t) \/ CreateSocket(t) \/ OpenTunnel(t) \/ FreeBuffers(t) \/ CloseSocket(t)
      PROVE  causes' = causes
  BY <1>3 DEF TakeFd, CreateSocket, OpenTunnel, FreeBuffers, CloseSocket, Die
<1>4. ASSUME NEW t \in Tunnels, NEW k \in Kinds, Starts(t, k) PROVE causes \subseteq causes'
  BY <1>4 DEF Starts, Establish
<1> QED
  BY <1>1, <1>2, <1>3, <1>4, TableKinds

LEMMA NextOwns ==
  ASSUME DInv, Roomy, [Next]_vars, "overlap" \notin causes', NEW t \in Tunnels, Working(t)'
  PROVE  Owns(t)'
<1> USE ThreadAssumption DEF DInv, Kept
<1>1. ASSUME "overlap" \notin causes, Working(t) PROVE Owns(t)
  BY <1>1 DEF Owned
<1>2. NextFree \in Fd /\ open[NextFree] = Nothing
  BY NextFreeIsFree
<1>3. 0 \notin Fd /\ \A w : <<t, w>> # Nothing
  BY FdAssumption, NoneAssumption DEF Nothing
<1>4. ASSUME NEW x \in Thread, CloseTun(x) PROVE Owns(t)'
  <2> DEFINE u == Mine(x)
  <2>1. /\ pc[x] = "closeTun" /\ UNCHANGED <<kind, causes, tunFd, global>>
        /\ pc' = [pc EXCEPT ![x] = IF x \in Tunnels THEN "done" ELSE "idle"]
        /\ number' = [number EXCEPT ![<<u, "tun">>] = 0]
        /\ open' = Closed(number[<<u, "tun">>])
    BY <1>4 DEF CloseTun, Goto
  <2>2. u \in Tunnels /\ kind[u] = "ipref"
    BY <2>1 DEF Mine, IInv, Classes, Thread, Caller
  <2>3. x # t
    BY <2>1 DEF IInv, Places, Working
  <2>4. pc'[t] = pc[t] /\ Working(t)
    BY <2>1, <2>3 DEF IInv, Places, Working, Thread
  <2>5. Owns(t) /\ (Unfinished(u) => u = t)
    BY <1>1, <2>1, <2>2, <2>4, WorksAlone
  <2> HIDE DEF u
  <2>6. CASE u = t
    <3>1. number'[<<t, "tun">>] = 0 /\ number'[<<t, "udp">>] = number[<<t, "udp">>]
      BY <2>1, <2>6 DEF Tables
    <3>2. CASE number[<<t, "tun">>] = 0
      <4>1. open' = open
        BY <1>3, <2>1, <2>6, <3>2 DEF Closed, Tables
      <4> QED
        BY <2>1, <2>4, <2>5, <3>1, <4>1 DEF Owns
    <3>3. CASE number[<<t, "tun">>] # 0
      <4>1. open[number[<<t, "tun">>]] = <<t, "tun">>
        BY <2>4, <2>5, <3>3 DEF Owns, Working
      <4>2. \A f \in Fd : open[f] # <<t, "tun">> => open'[f] = open[f]
        BY <2>1, <2>6, <4>1 DEF Closed
      <4> QED
        BY <2>1, <2>4, <2>5, <3>1, <4>2 DEF Owns
    <3> QED
      BY <3>2, <3>3
  <2>7. CASE u # t
    <3>1. pc[u] = "done"
      BY <2>2, <2>5, <2>7 DEF Unfinished, Handled
    <3>2. number[<<u, "tun">>] = 0
      BY <2>2, <3>1 DEF Forgotten
    <3>3. open' = open
      BY <1>3, <2>1, <3>2 DEF Closed, Tables
    <3>4. \A w \in {"tun", "udp"} : number'[<<t, w>>] = number[<<t, w>>]
      BY <2>1, <2>7 DEF Tables
    <3> QED
      BY <2>1, <2>4, <2>5, <3>3, <3>4 DEF Owns
  <2> QED
    BY <2>6, <2>7
<1>5. ASSUME NEW x \in Thread, EngineStop(x) PROVE Owns(t)'
  <2>1. /\ pc[x] = "engineStop" /\ pc' = [pc EXCEPT ![x] = "postFalse"]
        /\ UNCHANGED <<kind, causes>>
    BY <1>5 DEF EngineStop, Goto
  <2>2. x \in Caller
    BY <2>1 DEF IInv, Places, Thread, Caller, EndSteps, WorkerSteps
  <2>3. Working(t)
    BY <2>1, <2>2 DEF IInv, Places, Working, Thread, Caller
  <2> QED
    BY <2>1, <2>2, <2>3, WorksAlone DEF EngineSteps
<1>6. ASSUME NEW u \in Tunnels, CreateSocket(u) PROVE Owns(t)'
  <2>1. /\ pc[u] = "socket" /\ pc' = [pc EXCEPT ![u] = "connect"]
        /\ open' = Opened(NextFree, <<u, "tcp">>) /\ global' = NextFree
        /\ UNCHANGED <<kind, causes, number, tunFd>>
    BY <1>6 DEF CreateSocket, Goto
  <2>2. Working(t) /\ u = t
    <3>1. Working(t)
      BY <2>1 DEF IInv, Places, Working, Thread
    <3>2. Unfinished(u)
      BY <2>1 DEF IInv, Classes, Unfinished, Handled
    <3> QED
      BY <2>1, <3>1, <3>2, WorksAlone
  <2>3. Owns(t)
    BY <1>1, <2>1, <2>2
  <2>4. open'[NextFree] = <<t, "tcp">> /\ \A f \in Fd : open[f] # Nothing => open'[f] = open[f]
    BY <1>2, <2>1, <2>2 DEF Opened, Tables
  <2>5. number[<<t, "tun">>] \in Fd \cup {0} /\ pc[t] = "socket" /\ pc'[t] = "connect"
    BY <2>1, <2>2 DEF IInv, Places, Tables, Thread
  <2> QED
    BY <1>2, <1>3, <2>1, <2>2, <2>3, <2>4, <2>5 DEF Owns
<1>7. ASSUME NEW u \in Tunnels, OpenTunnel(u) PROVE Owns(t)'
  <2>1. /\ pc[u] = "setup" /\ \E p : pc' = [pc EXCEPT ![u] = p]
        /\ open' = Opened(NextFree, <<u, "udp">>)
        /\ number' = [number EXCEPT ![<<u, "udp">>] = NextFree]
        /\ UNCHANGED <<kind, causes, tunFd, global>>
    BY <1>7 DEF OpenTunnel, Goto
  <2>2. Working(t) /\ u = t /\ pc[t] = "setup"
    <3>1. pc'[u] \in {"relay", "closeUdp"}
      BY <1>7 DEF OpenTunnel, Goto, IInv, Places, Thread
    <3>2. Working(t)
      BY <2>1, <3>1 DEF IInv, Places, Working, Thread
    <3>3. Unfinished(u)
      BY <2>1 DEF IInv, Classes, Unfinished, Handled
    <3> QED
      BY <2>1, <3>2, <3>3, WorksAlone
  <2>3. Owns(t)
    BY <1>1, <2>1, <2>2
  <2>4. open'[NextFree] = <<t, "udp">> /\ \A f \in Fd : open[f] # Nothing => open'[f] = open[f]
    BY <1>2, <2>1, <2>2 DEF Opened, Tables
  <2>5. /\ number[<<t, "tun">>] \in Fd \cup {0}
        /\ number'[<<t, "tun">>] = number[<<t, "tun">>]
        /\ number'[<<t, "udp">>] = NextFree
    BY <2>1, <2>2 DEF Tables
  <2> QED
    BY <1>2, <1>3, <2>1, <2>2, <2>3, <2>4, <2>5 DEF Owns
<1>8. ASSUME NEW u \in Tunnels, FreeBuffers(u) \/ CloseSocket(u), ~ Keeps PROVE Owns(t)'
  <2>1. /\ pc[u] \in {"free", "closeUdp", "closeTcp"} /\ UNCHANGED <<kind, causes>>
        /\ \E p \in {"closeUdp", "closeTcp", "reshut"} : pc' = [pc EXCEPT ![u] = p]
    BY <1>8 DEF FreeBuffers, CloseSocket, Die, Goto, Keeps
  <2>2. Working(t)
    BY <2>1 DEF IInv, Places, Working, Thread
  <2>3. Unfinished(u)
    BY <2>1 DEF IInv, Classes, Unfinished, Handled
  <2> QED
    BY <2>1, <2>2, <2>3, WorksAlone DEF Working
<1>9. ASSUME NEW u \in Tunnels, NEW k \in Kinds, Starts(u, k), UNCHANGED <<tunFd, global>>
      PROVE  Owns(t)'
  <2>1. /\ \A v \in Tunnels : ~ Unfinished(v)
        /\ kind[u] = "none" /\ kind' = [kind EXCEPT ![u] = k]
        /\ open' = Opened(NextFree, <<u, "tun">>)
        /\ number' = [number EXCEPT ![<<u, "tun">>] = NextFree]
        /\ pc["main"] = "idle" /\ pc' = [pc EXCEPT !["main"] = "postTrue"]
    BY <1>9 DEF Starts, Establish, Goto
  <2>2. pc'[t] = pc[t]
    BY <2>1 DEF IInv, Places
  <2>3. t = u
    BY <2>1, <2>2 DEF IInv, Types, Working, Unfinished, Handled
  <2>4. pc[t] = "idle"
    BY <2>1, <2>3 DEF IInv, Classes
  <2>5. open'[NextFree] = <<t, "tun">> /\ number'[<<t, "tun">>] = NextFree
    BY <1>2, <2>1, <2>3 DEF Opened, Tables
  <2> QED
    BY <2>2, <2>4, <2>5 DEF Owns
<1>10. ASSUME Keeps PROVE Owns(t)'
  <2>1. /\ UNCHANGED <<open, number, tunFd, global, kind>> /\ causes \subseteq causes'
        /\ pc'[t] \in {"idle", "run"} => pc[t] \in {"idle", "run"}
        /\ pc'[t] \in {"socket", "connect", "relay", "done"} => pc'[t] = pc[t]
        /\ pc'[t] = "setup" => pc[t] \in {"connect", "setup"}
    BY <1>10 DEF Keeps
  <2>2. "overlap" \notin causes /\ Working(t)
    BY <2>1 DEF Working
  <2> QED
    BY <1>1, <2>1, <2>2 DEF Owns, Working
<1>11. ASSUME NEW u \in Tunnels, TakeFd(u), ~ Keeps PROVE Owns(t)'
  <2>1. /\ pc[u] = "run" /\ pc' = [pc EXCEPT ![u] = "socket"]
        /\ tunFd' = [tunFd EXCEPT ![u] = number[<<u, "tun">>]]
        /\ UNCHANGED <<open, number, global, kind, causes>>
    BY <1>11 DEF TakeFd, Die, Goto, Keeps
  <2>2. Working(t) /\ u = t
    <3>1. Working(t)
      BY <2>1 DEF IInv, Places, Working, Thread
    <3>2. Unfinished(u)
      BY <2>1 DEF IInv, Classes, Unfinished, Handled
    <3> QED
      BY <2>1, <3>1, <3>2, WorksAlone
  <2>3. Owns(t) /\ pc'[t] = "socket" /\ tunFd'[t] = number[<<t, "tun">>]
    BY <1>1, <2>1, <2>2 DEF IInv, Places, Thread, Tables
  <2> QED
    BY <2>1, <2>3 DEF Owns
<1> QED
  BY <1>4, <1>5, <1>6, <1>7, <1>8, <1>9, <1>10, <1>11, TableKinds

\* Opening and closing descriptors leaves no control connection without its
\* worker.
LEMMA NextControls ==
  ASSUME DInv, Roomy, [Next]_vars, "overlap" \notin causes'
  PROVE  Controls'
<1> USE ThreadAssumption DEF DInv, Kept
<1>1. "overlap" \notin causes
  BY CausesGrow
<1>2. Controls
  BY <1>1
<1>3. NextFree \in Fd /\ open[NextFree] = Nothing
  BY NextFreeIsFree
<1>4. ASSUME /\ global' = global
             /\ \A f \in Fd, t \in Tunnels : open'[f] = <<t, "tcp">> => open[f] = <<t, "tcp">>
             /\ \A t \in Tunnels : pc[t] \in TcpSteps => pc'[t] \in TcpSteps
      PROVE  Controls'
  BY <1>2, <1>4 DEF Controls
<1>5. ASSUME NEW f PROVE \A g \in Fd, t \in Tunnels : Closed(f)[g] = <<t, "tcp">> => open[g] = <<t, "tcp">>
  BY NoneAssumption DEF Closed, Nothing
<1>6. ASSUME NEW x \in Thread, CloseTun(x) PROVE Controls'
  <2>1. /\ pc[x] = "closeTun" /\ \E p : pc' = [pc EXCEPT ![x] = p]
        /\ \E f : open' = Closed(f)
        /\ global' = global
    BY <1>6 DEF CloseTun, Goto
  <2>2. \A t \in Tunnels : pc[t] \in TcpSteps => pc'[t] \in TcpSteps
    BY <2>1 DEF IInv, Places, TcpSteps
  <2> QED
    BY <1>4, <1>5, <2>1, <2>2
<1>7. ASSUME NEW x \in Thread, EngineStop(x) PROVE Controls'
  <2>1. /\ pc[x] = "engineStop" /\ \E p : pc' = [pc EXCEPT ![x] = p]
        /\ open' = open \/ \E f : open' = Closed(f)
        /\ global' = global
    BY <1>7 DEF EngineStop, Goto
  <2>2. \A t \in Tunnels : pc[t] \in TcpSteps => pc'[t] \in TcpSteps
    BY <2>1 DEF IInv, Places, TcpSteps
  <2> QED
    BY <1>4, <1>5, <2>1, <2>2
<1>8. ASSUME NEW u \in Tunnels, CreateSocket(u) PROVE Controls'
  <2>1. /\ pc[u] = "socket" /\ pc' = [pc EXCEPT ![u] = "connect"]
        /\ open' = [open EXCEPT ![NextFree] = <<u, "tcp">>] /\ global' = NextFree
    BY <1>8 DEF CreateSocket, Goto, Opened
  <2>2. Unfinished(u)
    BY <2>1 DEF IInv, Classes, Unfinished
  <2>3. ASSUME NEW f \in Fd, NEW t \in Tunnels, open[f] = <<t, "tcp">> PROVE FALSE
    <3>1. pc[t] \in TcpSteps
      BY <1>2, <2>3 DEF Controls
    <3>2. Unfinished(t)
      BY <3>1 DEF IInv, Classes, Unfinished, TcpSteps
    <3>3. t = u
      BY <1>1, <2>2, <3>2 DEF IInv, OneAtATime
    <3> QED
      BY <2>1, <3>1, <3>3 DEF TcpSteps
  <2>4. pc'[u] = "connect"
    BY <2>1 DEF IInv, Places, Thread
  <2>5. ASSUME NEW f \in Fd, NEW t \in Tunnels, open'[f] = <<t, "tcp">>
        PROVE  f = NextFree /\ t = u
    BY <1>3, <2>1, <2>3, <2>5 DEF Tables
  <2> QED
    BY <2>1, <2>4, <2>5 DEF Controls, TcpSteps
<1>9. ASSUME NEW u \in Tunnels, OpenTunnel(u) PROVE Controls'
  <2>1. /\ pc[u] = "setup"
        /\ \E p \in {"relay", "closeUdp"} : pc' = [pc EXCEPT ![u] = p]
        /\ open' = [open EXCEPT ![NextFree] = <<u, "udp">>] /\ global' = global
    BY <1>9 DEF OpenTunnel, Goto, Opened
  <2>2. \A f \in Fd, t \in Tunnels : open'[f] = <<t, "tcp">> => open[f] = <<t, "tcp">>
    BY <1>3, <2>1 DEF Tables
  <2>3. \A t \in Tunnels : pc[t] \in TcpSteps => pc'[t] \in TcpSteps
    BY <2>1 DEF IInv, Places, TcpSteps
  <2> QED
    BY <1>4, <2>1, <2>2, <2>3
<1>10. ASSUME NEW u \in Tunnels, FreeBuffers(u), ~ Keeps PROVE Controls'
  <2>1. /\ pc[u] = "free" /\ pc' = [pc EXCEPT ![u] = "closeUdp"]
        /\ global' = global
        /\ \E freed : open' = [f \in Fd |-> IF f \in freed THEN Nothing ELSE open[f]]
    BY <1>10 DEF FreeBuffers, Die, Goto, Keeps
  <2>2. \A f \in Fd, t \in Tunnels : open'[f] = <<t, "tcp">> => open[f] = <<t, "tcp">>
    BY <2>1, NoneAssumption DEF Nothing
  <2>3. \A t \in Tunnels : pc[t] \in TcpSteps => pc'[t] \in TcpSteps
    BY <2>1 DEF IInv, Places, TcpSteps
  <2> QED
    BY <1>4, <2>1, <2>2, <2>3
<1>11. ASSUME NEW u \in Tunnels, CloseSocket(u) PROVE Controls'
  <2>1. /\ global' = global /\ pc[u] \in {"closeUdp", "closeTcp"}
        /\ \E f : open' = Closed(f)
        /\ pc[u] = "closeUdp" => pc' = [pc EXCEPT ![u] = "closeTcp"]
        /\ pc[u] = "closeTcp" => open' = Closed(global)
    BY <1>11 DEF CloseSocket, Goto
  <2>2. CASE pc[u] = "closeUdp"
    <3>1. pc' = [pc EXCEPT ![u] = "closeTcp"]
      BY <2>1, <2>2
    <3>2. \A t \in Tunnels : pc[t] \in TcpSteps => pc'[t] \in TcpSteps
      BY <3>1 DEF IInv, Places, TcpSteps
    <3>3. \A f \in Fd, t \in Tunnels : open'[f] = <<t, "tcp">> => open[f] = <<t, "tcp">>
      BY <1>5, <2>1
    <3> QED
      BY <1>4, <2>1, <3>2, <3>3
  <2>3. CASE pc[u] = "closeTcp"
    <3>1. ASSUME NEW f \in Fd, NEW t \in Tunnels, open'[f] = <<t, "tcp">> PROVE FALSE
      <4>1. open' = Closed(global)
        BY <2>1, <2>3
      <4>2. f = global
        BY <1>2, <1>5, <3>1, <4>1 DEF Controls
      <4> QED
        BY <3>1, <4>1, <4>2, NoneAssumption DEF Closed, Nothing
    <3> QED
      BY <3>1 DEF Controls
  <2> QED
    BY <2>1, <2>2, <2>3
<1>12. ASSUME NEW u \in Tunnels, NEW k \in Kinds, Starts(u, k), UNCHANGED <<tunFd, global>>
       PROVE  Controls'
  <2>1. /\ open' = [open EXCEPT ![NextFree] = <<u, "tun">>] /\ global' = global
        /\ pc' = [pc EXCEPT !["main"] = "postTrue"]
    BY <1>12 DEF Starts, Establish, Goto, Opened
  <2>2. \A f \in Fd, t \in Tunnels : open'[f] = <<t, "tcp">> => open[f] = <<t, "tcp">>
    BY <1>3, <2>1 DEF Tables
  <2>3. \A t \in Tunnels : pc[t] \in TcpSteps => pc'[t] \in TcpSteps
    BY <2>1 DEF IInv, Places
  <2> QED
    BY <1>4, <2>1, <2>2, <2>3
<1>13. ASSUME NEW u \in Tunnels, TakeFd(u), ~ Keeps PROVE Controls'
  <2>1. /\ pc[u] = "run" /\ pc' = [pc EXCEPT ![u] = "socket"]
        /\ UNCHANGED <<open, global>>
    BY <1>13 DEF TakeFd, Die, Goto, Keeps
  <2>2. \A t \in Tunnels : pc[t] \in TcpSteps => pc'[t] \in TcpSteps
    BY <2>1 DEF IInv, Places, TcpSteps
  <2> QED
    BY <1>4, <2>1, <2>2
<1>14. ASSUME Keeps PROVE Controls'
  BY <1>4, <1>14 DEF Keeps
<1> QED
  BY <1>6, <1>7, <1>8, <1>9, <1>10, <1>11, <1>12, <1>13, <1>14, TableKinds

\* A shutdown meets only the tunnel it is for: the connection it finds open is that
\* of the one unfinished tunnel.
LEMMA ShutdownHitsItsOwn ==
  ASSUME DInv, "overlap" \notin causes, NEW x \in Thread, NEW t \in Tunnels,
         pc[x] \in {"shutdown", "reshut"}, HasControl(t)
  PROVE  t = Mine(x)
<1> USE DEF DInv, Kept
<1>1. Mine(x) \in Tunnels /\ (Handled(Mine(x)) \/ Unfinished(Mine(x)))
  <2>1. CASE x \in Tunnels
    BY <2>1 DEF Mine, Unfinished, IInv, Classes
  <2>2. CASE x \in Caller /\ x \notin Tunnels
    <3>1. pc[x] = "shutdown"
      BY <2>2, ThreadAssumption DEF IInv, Places, Caller, EngineSteps, EndSteps, StartSteps
    <3> QED
      BY <2>2, <3>1 DEF Mine, Handled, Caller, IInv, Classes
  <2> QED
    BY <2>1, <2>2 DEF Thread, Caller
<1>2. pc[t] \in TcpSteps
  BY DEF HasControl, Controls
<1>3. Unfinished(t)
  BY <1>2 DEF IInv, Classes, Unfinished, TcpSteps
<1> QED
  BY <1>1, <1>3, NoneAssumption DEF IInv, OneAtATime

LEMMA DescriptorInvariance == SafetySpec /\ []Roomy => []DInv
<1>1. Init => Kept
  BY NoneAssumption DEF Init, Kept, Tables, Forgotten, Owned, Working, Owns, Controls,
                        Nothing, Thread
<1>2. DInv /\ Roomy /\ [Next]_vars => Kept'
  BY NextTables, NextForgotten, NextOwns, NextControls DEF Kept, Owned
<1> QED
  BY <1>1, <1>2, Invariance, PTL DEF SafetySpec, DInv

\* While a tunnel sets up or relays, its descriptors are its own and no other's
\* stop shuts its connection down, as long as the table always has room and no
\* tunnel is started before the one before it, and its stop, have finished.
THEOREM DescriptorsHold == SafetySpec /\ []Roomy => []DescriptorsIntact
<1>1. ASSUME DInv, "overlap" \notin causes, NEW t \in Tunnels
      PROVE  /\ pc[t] \in {"connect", "setup", "relay"} => HasControl(t)
             /\ pc[t] = "relay" => open[number[<<t, "udp">>]] = <<t, "udp">>
             /\ pc[t] \in {"socket", "connect", "setup", "relay"}
                  /\ number[<<t, "tun">>] # 0 => open[tunFd[t]] = <<t, "tun">>
  <2>1. pc[t] # "idle" => kind[t] = "ipref"
    BY <1>1 DEF DInv, IInv, Classes
  <2>2. Working(t) => Owns(t)
    BY <1>1 DEF DInv, Kept, Owned
  <2> QED
    BY <2>1, <2>2 DEF Working, Owns, HasControl
<1>2. DInv => DescriptorsIntact
  BY <1>1, ShutdownHitsItsOwn DEF DescriptorsIntact
<1> QED
  BY <1>2, DescriptorInvariance, PTL

\* The variables the two invariants say nothing of.
Others ==
  /\ app \in {"up", "dead"}
  /\ prepared \in BOOLEAN
  /\ consents \in 0 .. MaxConsents
  /\ up \in Tunnels \cup {None}
  /\ tunFailed \in [Tunnels -> BOOLEAN]
  /\ causes \in SUBSET {"overlap", "race"}

LEMMA NextOthers == IInv /\ Others /\ [Next]_vars => Others'
<1> SUFFICES ASSUME IInv, Others, [Next]_vars PROVE Others'
  OBVIOUS
<1>1. ASSUME NEW table PROVE UpAfter(table) \in Tunnels \cup {None}
  BY DEF UpAfter, Others
<1>3. ASSUME Die PROVE Others'
  BY <1>3 DEF Die, Others
<1>4. ASSUME NEW x \in Thread, PostStatus(x) \/ MarkStatus(x) PROVE Others'
  BY <1>4 DEF PostStatus, MarkStatus, Others
<1>5. ASSUME NEW x \in Thread, Shutdown(x) PROVE Others'
  BY <1>5 DEF Shutdown, Others
<1>6. ASSUME NEW x \in Thread, CloseTun(x) \/ EngineStop(x) PROVE Others'
  <2>1. \E table : up' = UpAfter(table)
    BY <1>6 DEF CloseTun, EngineStop
  <2> QED
    BY <1>1, <1>6, <2>1 DEF CloseTun, EngineStop, Others
<1>7. ASSUME StartTunnel PROVE Others'
  BY <1>7 DEF StartTunnel, Others
<1>8. ASSUME NEW t \in Tunnels, TakeFd(t) \/ CreateSocket(t) \/ Connect(t) \/ OpenTunnel(t)
      PROVE  Others'
  BY <1>3, <1>8 DEF TakeFd, CreateSocket, Connect, OpenTunnel, Others
<1>9. ASSUME NEW t \in Tunnels, TunFails(t) \/ LoopReturns(t) PROVE Others'
  BY <1>9 DEF TunFails, LoopReturns, Others
<1>10. ASSUME NEW t \in Tunnels, FreeBuffers(t) \/ CloseSocket(t) PROVE Others'
  <2>1. Die \/ (/\ \E table : up' = UpAfter(table)
               /\ UNCHANGED <<app, prepared, consents, tunFailed, causes>>)
    BY <1>10 DEF FreeBuffers, CloseSocket
  <2> QED
    BY <1>1, <1>3, <2>1 DEF Others
<1>11. ASSUME NEW t \in Tunnels, NEW k \in Kinds, ClickStart(t, k) PROVE Others'
  BY <1>11 DEF ClickStart, StartVpnService, Establish, Others
<1>12. ASSUME NEW t \in Tunnels, NEW k \in Kinds, ConsentGranted(t, k) PROVE Others'
  BY <1>12, ConsentAssumption DEF ConsentGranted, StartVpnService, Establish, Others
<1>13. ASSUME ClickStop \/ Revoke PROVE Others'
  BY <1>13 DEF ClickStop, Revoke, BeginStop, Others
<1>17. ASSUME ConsentUnused PROVE Others'
  <2>1. consents > 0 /\ consents' = consents - 1
    BY <1>17 DEF ConsentUnused
  <2>2. consents' \in 0 .. MaxConsents
    BY <2>1, ConsentAssumption DEF Others
  <2> QED
    BY <1>17, <2>2 DEF ConsentUnused, Others
<1>14. ASSUME ClickAsks \/ ConsentDenied PROVE Others'
  <2>1. /\ \/ consents < MaxConsents /\ consents' = consents + 1
           \/ consents > 0 /\ consents' = consents - 1
        /\ UNCHANGED <<app, prepared, up, tunFailed, causes>>
    BY <1>14 DEF ClickAsks, ConsentDenied
  <2>2. consents' \in 0 .. MaxConsents
    BY <2>1, ConsentAssumption DEF Others
  <2> QED
    BY <2>1, <2>2 DEF Others
<1>15. ASSUME DeliverStatus \/ ServiceConnected \/ Recreate \/ Reopen PROVE Others'
  BY <1>15 DEF DeliverStatus, ServiceConnected, Recreate, Reopen, Others
<1>16. ASSUME UNCHANGED vars PROVE Others'
  BY <1>16 DEF vars, Others
<1> QED
  BY <1>3, <1>4, <1>5, <1>6, <1>7, <1>8, <1>9, <1>10, <1>11, <1>12, <1>13, <1>14,
     <1>15, <1>16, <1>17 DEF Next, Run, Deliver, User, Relay, SetupExits, ClickTooEarly, StartThrows

\* Every variable keeps its type, as long as the table always has room.
THEOREM TypeCorrect == SafetySpec /\ []Roomy => []TypeOK
<1>1. Init => Others
  <2>1. 0 \in 0 .. MaxConsents
    BY ConsentAssumption
  <2> QED
    BY <2>1 DEF Init, Others
<1>2. DInv /\ Others => TypeOK
  BY DEF DInv, Kept, IInv, Places, Types, Tables, Others, TypeOK, Caller
<1> QED
  BY <1>1, <1>2, NextOthers, Invariance, DescriptorInvariance, PTL DEF SafetySpec
===============================================================================
