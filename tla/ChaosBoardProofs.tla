--------------------------- MODULE ChaosBoardProofs ---------------------------
(***************************************************************************)
(* Theorems about the dashboard of a namespace whose containers may be     *)
(* paused, unpaused, killed and stopped but are never started again, on a  *)
(* host where deleting a qdisc succeeds.  (With start, or with a failing   *)
(* delete, what these theorems say is false, as the README explains.)      *)
(***************************************************************************)
EXTENDS ChaosDashboardProofs

\* What users ask for, and which docker calls are relied upon.  (A monkey that
\* kills starts its victim again.)
NeverStarted ==
  /\ NodeActions \subseteq {"pause", "unpause", "kill", "stop"}
  /\ MonkeyModes \subseteq {"pause"}
  /\ DeleteWorks

\* No monkey kills, and the removal of a helper is owed only for a node that is
\* down.
QuietActors ==
  /\ \A m \in Monkey : monkeyMode[m] = "pause"
  /\ \A a \in Actor : pending[a] # None => ~Joinable(pending[a])

\* The inductive invariant behind ShapedThroughHelper.
HostInv == TypeInv /\ QuietActors /\ HelpersInPlace /\ Addressed /\ InOrder(UI)

\* What is done to nodes without the mutex.
ActorActs ==
  \/ \E h \in Handler, n \in Node, action \in NodeActions : HandleNode(h, n, action)
  \/ \E m \in Monkey : MonkeyStep(m)
  \/ \E a \in Actor : DropHelper(a)

\* The history variable records the node that goes down, if one does.
Accounted ==
  \/ NodesStay /\ touched' = touched
  \/ \E n \in Node : NodeLeaves(n) /\ touched' = touched \cup {n}

\* Whatever is shaped is about to be watched, watched, or being cleared.
Watched ==
  (TTL > 0 /\ stage # "gone" /\ ~HostUnshaped) =>
    \/ timer = "armed"
    \/ fired
    \/ call[UI] \in {"list", "inspect", "helpers", "work", "clist", "cwork"}

\* From the moment stopAll is through, nothing asks for a fault any more; after
\* its clear, nothing is shaped.
Winding ==
  /\ stage \in {"clear", "clearing", "close"} => flaps = [k \in Pair |-> None]
  /\ stage \in {"clearing", "close"} =>
       links = NoLinks /\ call[UI] \in {"idle", "clist", "cwork", "cleared"}
  /\ stage = "clearing" => call[UI] # "idle"
  /\ stage \in {"close", "gone"} => HostUnshaped
  /\ \A l \in FlapLoop : loopAt[l] # "free" => loopPair[l] \in Pair

\* The reconcile in progress works towards the board, and a clear in progress
\* has emptied it.
BoardSought ==
  /\ Reconciling(UI, Wish, touched)
  /\ call[UI] \in {"clist", "cwork", "cleared"} => links = NoLinks

\* The inductive part of FaultsMatchBoard, beside HostInv: between two engine
\* calls every node nothing was missed of is as the board wants it, while the
\* dashboard serves; a dashboard that has ended has missed everything.
BoardInv ==
  /\ BoardSought
  /\ stage = "up" /\ call[UI] = "idle" =>
       \A n \in Node \ touched : Suits(n, qdisc[n], Wish)
  /\ stage = "gone" => touched = Node /\ call[UI] = "idle"

-----------------------------------------------------------------------------
(***************************************************************************)
(* What the actors that do not take the mutex do                           *)
(***************************************************************************)

\* A node command of an actor.
LEMMA CommandOnlyTakes ==
  ASSUME HostInv, NEW a \in Actor, NEW n \in Node,
         NEW action \in {"pause", "unpause", "kill", "stop"}, NodeCommand(a, n, action)
  PROVE  /\ NodesOnlyLeave /\ HelpersInPlace' /\ Addressed' /\ Accounted
         /\ \A b \in Actor : (pending[b] # None => ~Joinable(pending[b]))'
<1> USE DashboardAssumption DEF HostInv, TypeInv, TypeOK
<1>1. Docker(n, action) /\ pending' = [pending EXCEPT ![a] = HelperOwed(n, action)]
  BY DEF NodeCommand
<1>2. /\ NodesOnlyLeave /\ HelpersInPlace' /\ Addressed'
      /\ IF action \in {"kill", "stop"} THEN NodeLeaves(n) ELSE NodesStay
  BY <1>1, DockerOnlyTakes
<1>3. Accounted
  BY <1>2 DEF NodeCommand, Accounted
<1>4. action \in {"kill", "stop"} => ~Joinable(n)'
  BY <1>2 DEF NodeLeaves
<1>5. ASSUME NEW b \in Actor, pending'[b] # None
      PROVE  ~Joinable(pending[b])'
  <2>1. CASE b = a
    <3>1. pending'[a] = HelperOwed(n, action)
      BY <1>1
    <3>2. pending'[a] = n /\ action \in {"kill", "stop"}
      BY <1>5, <2>1, <3>1 DEF HelperOwed
    <3> QED BY <1>4, <2>1, <3>2
  <2>2. CASE b # a
    <3>1. pending'[b] = pending[b] /\ pending[b] \in Node
      BY <1>1, <1>5, <2>2
    <3>2. ~Joinable(pending[b])
      BY <1>5, <3>1 DEF QuietActors
    <3> QED BY <1>2, <3>1, <3>2 DEF NodesOnlyLeave
  <2> QED BY <2>1, <2>2
<1> QED BY <1>2, <1>3, <1>5

\* Handlers and monkeys bring nodes down, remove the helpers of nodes that are
\* down, and touch nothing else of the namespace.
LEMMA ActorsOnlyTake ==
  ASSUME NeverStarted, HostInv, ActorActs
  PROVE  /\ NodesOnlyLeave /\ HelpersInPlace' /\ Addressed' /\ QuietActors'
         /\ Accounted
         /\ UNCHANGED <<engineVars, boardVars, loopVars, timerVars, stage>>
<1> USE DEF HostInv, TypeInv, TypeOK
<1>1. ASSUME NEW h \in Handler, NEW n \in Node, NEW action \in NodeActions,
             HandleNode(h, n, action)
      PROVE  /\ NodesOnlyLeave /\ HelpersInPlace' /\ Addressed' /\ QuietActors'
             /\ Accounted
             /\ UNCHANGED <<engineVars, boardVars, loopVars, timerVars, stage>>
  <2>1. NodeCommand(h, n, action) /\ UNCHANGED <<engineVars, uiVars>>
    BY <1>1 DEF HandleNode
  <2>2. h \in Actor /\ action \in {"pause", "unpause", "kill", "stop"}
    BY DEF Actor, NeverStarted
  <2> QED BY <2>1, <2>2, CommandOnlyTakes DEF uiVars, monkeyVars, QuietActors
<1>2. ASSUME NEW m \in Monkey, MonkeyStep(m)
      PROVE  /\ NodesOnlyLeave /\ HelpersInPlace' /\ Addressed' /\ QuietActors'
             /\ Accounted
             /\ UNCHANGED <<engineVars, boardVars, loopVars, timerVars, stage>>
  <2>1. UNCHANGED <<engineVars, boardVars, loopVars, timerVars, stage, monkeyMode>>
    BY <1>2 DEF MonkeyStep, MonkeyStops, MonkeyPicks, MonkeyStrikes, MonkeyRecovers,
                MonkeyFrame
  <2>2. ASSUME UNCHANGED <<hostVars, pending, touched>>
        PROVE  /\ NodesOnlyLeave /\ HelpersInPlace' /\ Addressed' /\ QuietActors'
               /\ Accounted
    BY <2>1, <2>2 DEF hostVars, NodesOnlyLeave, HelpersInPlace, Addressed, QuietActors,
                      Joinable, HelperExists, Accounted, NodesStay
  <2>3. ASSUME NEW action \in {"pause", "unpause"}, MonkeyCommand(m, action),
               victim[m] \in Node
        PROVE  /\ NodesOnlyLeave /\ HelpersInPlace' /\ Addressed' /\ QuietActors'
               /\ Accounted
    <3>1. CASE NodeCommand(m, victim[m], action)
      BY <2>1, <2>3, <3>1, CommandOnlyTakes DEF Actor, QuietActors
    <3> QED BY <2>2, <2>3, <3>1 DEF MonkeyCommand
  <2>4. monkeyMode[m] = "pause" /\ Recovery(monkeyMode[m]) = "unpause"
    BY DEF QuietActors, Recovery
  <2>5. monkeyAt[m] \in {"strike", "hold"} => victim[m] \in Node
    BY DEF VictimHeld
  <2>6. CASE MonkeyStops(m) \/ MonkeyPicks(m)
    BY <2>1, <2>2, <2>6 DEF MonkeyStops, MonkeyPicks, MonkeyFrame
  <2>7. CASE MonkeyStrikes(m)
    BY <2>1, <2>3, <2>4, <2>5, <2>7 DEF MonkeyStrikes
  <2>8. CASE MonkeyRecovers(m)
    BY <2>1, <2>3, <2>4, <2>5, <2>8 DEF MonkeyRecovers
  <2> QED BY <1>2, <2>1, <2>6, <2>7, <2>8 DEF MonkeyStep
<1>3. ASSUME NEW a \in Actor, DropHelper(a)
      PROVE  /\ NodesOnlyLeave /\ HelpersInPlace' /\ Addressed' /\ QuietActors'
             /\ Accounted
             /\ UNCHANGED <<engineVars, boardVars, loopVars, timerVars, stage>>
  <2>1. pending[a] \in Node /\ ~Joinable(pending[a]) /\ RemoveHelper(pending[a])
    BY <1>3 DEF DropHelper, QuietActors
  <2>2. /\ NodesOnlyLeave /\ HelpersInPlace' /\ Addressed' /\ NodeLeaves(pending[a])
        /\ touched' = touched \cup {pending[a]}
    BY <1>3, <2>1, DownHelperGoes DEF DropHelper
  <2>3. Accounted
    BY <2>1, <2>2 DEF Accounted
  <2>4. QuietActors'
    BY <1>3 DEF DropHelper, QuietActors, uiVars, monkeyVars, Joinable
  <2> QED BY <1>3, <2>2, <2>3, <2>4 DEF DropHelper, uiVars
<1> QED BY <1>1, <1>2, <1>3 DEF ActorActs

-----------------------------------------------------------------------------
(***************************************************************************)
(* ShapedThroughHelper                                                     *)
(***************************************************************************)

\* The engine leaves nodes, addresses and the dashboard's fields alone.
LEMMA EngineFrame ==
  ASSUME EngineRuns
  PROVE  UNCHANGED <<nstate, addr, uiVars, pending>> /\ stage # "gone"
BY DEF EngineRuns, Listing, ListNodes, ClearList, ListingFails, ListFails,
       InspectFails, HelpersFail, ClearListFails, CallerRuns, InspectIPs, PlanFrom, StartWorkers,
       ClearHelpers, WorkerRuns, WorkerFails, EnsureHelper, CreateHelper, ExecShape,
       ChooseHelper, ExecDelete, RunDelete, CreateHelperFails, ShapeFails, DeleteFails,
       hostVars

\* A step is one of the actors', of the engine, or leaves the host alone.
LEMMA StepFrame ==
  ASSUME [Next]_vars
  PROVE  ActorActs \/ EngineRuns \/ UNCHANGED hostVars
<1>1. CASE Request
  BY <1>1
     DEF Request, HandleLink, HandleLinks, HandleClear, SetFlux, HandleFlapOn,
         HandleFlapOff, SetMonkeyOn, SetMonkeyOff, MonkeyFrame, ActorActs, hostVars
<1>2. CASE Background
  BY <1>2
     DEF Background, ReconcileReturn, ReconcileEnd, ClearReturn, ClearEnd, DeadmanFire,
         DeadmanRun, FluxTick, FluxRun, LoopStops, SetPhase, ActorActs
<1>3. CASE Shutdown
  BY <1>3 DEF Shutdown, Signal, StopFlux, StopMonkey, StopFlaps, ShutdownClear, Exit,
              Crash, Gone, Restart, hostVars
<1> QED BY <1>1, <1>2, <1>3 DEF Next, vars

\* No actor ever does more to a node than take it away.
LEMMA QuietActorStep ==
  ASSUME NeverStarted
  PROVE  HostInv /\ [Next]_vars => QuietActors'
<1> SUFFICES ASSUME HostInv, [Next]_vars
             PROVE  QuietActors'
  OBVIOUS
<1> USE DEF HostInv, TypeInv
<1>1. CASE ActorActs
  BY <1>1, ActorsOnlyTake
<1>2. CASE ~ActorActs
  <2>1. nstate' = nstate
    BY <1>2, StepFrame, EngineFrame DEF hostVars
  <2>2. CASE UNCHANGED <<pending, monkeyMode>>
    BY <2>1, <2>2 DEF QuietActors, Joinable
  <2>3. ASSUME NEW mode \in MonkeyModes, SetMonkeyOn(mode)
        PROVE  QuietActors'
    BY <2>1, <2>3 DEF SetMonkeyOn, QuietActors, NeverStarted, Joinable, TypeOK
  <2>4. ASSUME NEW on, ResetServer(on)
        PROVE  QuietActors'
    BY <2>4 DEF ResetServer, QuietActors
  <2>5. CASE Request
    BY <1>2, <2>2, <2>3, <2>5
       DEF Request, HandleLink, HandleLinks, HandleClear, SetFlux, HandleFlapOn,
           HandleFlapOff, SetMonkeyOff, monkeyVars, ActorActs
  <2>6. CASE Background
    BY <1>2, <2>2, <2>6
       DEF Background, EngineRuns, ReconcileReturn, ClearReturn, DeadmanFire,
           DeadmanRun, FluxTick, FluxRun, LoopStops, SetPhase, uiVars, monkeyVars,
           ActorActs
  <2>7. CASE Shutdown
    BY <2>2, <2>4, <2>7
       DEF Shutdown, Signal, StopFlux, StopMonkey, StopFlaps, ShutdownClear, Exit,
           Crash, Gone, Restart, monkeyVars
  <2> QED BY <2>2, <2>5, <2>6, <2>7 DEF Next, vars, uiVars, monkeyVars
<1> QED BY <1>1, <1>2

\* Host and engine, step by step.
LEMMA HostStep ==
  ASSUME NeverStarted
  PROVE  HostInv /\ [Next]_vars => HelpersInPlace' /\ Addressed' /\ InOrder(UI)'
<1> SUFFICES ASSUME HostInv, [Next]_vars
             PROVE  HelpersInPlace' /\ Addressed' /\ InOrder(UI)'
  OBVIOUS
<1> USE DashboardAssumption DEF HostInv, TypeInv
<1>1. /\ call \in [Proc -> CallState]
      /\ work \in [Proc -> [Node -> WorkState]]
      /\ UI \in Proc
  BY DEF TypeOK, EngineTypeOK
<1>2. CASE ActorActs
  BY <1>1, <1>2, ActorsOnlyTake, LeavingKeepsCalls
<1>3. CASE EngineRuns
  <2>1. HelpersInPlace' /\ InOrder(UI)'
    BY <1>1, <1>3, CallerInOrder, WorkerInOrder DEF EngineRuns, NeverStarted, TypeOK
  <2>2. Addressed'
    BY <1>3, EngineFrame DEF Addressed, Joinable
  <2> QED BY <2>1, <2>2
<1>4. CASE ~ActorActs /\ ~EngineRuns
  <2>1. UNCHANGED hostVars
    BY <1>4, StepFrame
  <2>2. HelpersInPlace' /\ Addressed'
    BY <2>1 DEF HelpersInPlace, Addressed, hostVars, Joinable, HelperExists
  <2> SUFFICES InOrder(UI)'
    BY <2>2
  <2>3. ASSUME UNCHANGED engineVars
        PROVE  InOrder(UI)'
    BY <2>1, <2>3 DEF InOrder, engineVars, hostVars, HostUnshaped, Joinable
  <2>4. ASSUME work'[UI] = NoWork, call'[UI] \in {"idle", "list", "clist"}
        PROVE  InOrder(UI)'
    BY <2>4 DEF InOrder, NoWork
  <2>5. ASSUME NEW ls, ReconcileBegin(UI, ls)
        PROVE  InOrder(UI)'
    BY <1>1, <2>4, <2>5 DEF ReconcileBegin, InOrder
  <2>6. ASSUME ClearBegin(UI)
        PROVE  InOrder(UI)'
    BY <1>1, <2>4, <2>6 DEF ClearBegin, InOrder
  <2>7. ASSUME ReconcileEnd(UI) \/ ClearEnd(UI)
        PROVE  InOrder(UI)'
    BY <1>1, <2>4, <2>7 DEF ReconcileEnd, ClearEnd, InOrder, WorkersDone
  <2>8. ASSUME EngineGone(UI)
        PROVE  InOrder(UI)'
    BY <1>1, <2>4, <2>8 DEF EngineGone
  <2>9. CASE Request
    BY <1>4, <2>3, <2>5, <2>6, <2>9
       DEF Request, HandleLink, HandleLinks, HandleClear, SetFlux, HandleFlapOn,
           HandleFlapOff, SetMonkeyOn, SetMonkeyOff, MonkeyFrame, Reconcile, ActorActs
  <2>10. CASE Background
    BY <1>4, <2>3, <2>5, <2>6, <2>7, <2>10
       DEF Background, ReconcileReturn, ClearReturn, DeadmanFire, DeadmanRun, FluxTick,
           FluxRun, LoopStops, SetPhase, Reconcile, ActorActs
  <2>11. CASE Shutdown
    BY <2>3, <2>6, <2>8, <2>11
       DEF Shutdown, Signal, StopFlux, StopMonkey, StopFlaps, ShutdownClear, Exit,
           Crash, Gone, Restart
  <2> QED BY <2>3, <2>9, <2>10, <2>11 DEF Next, vars
<1> QED BY <1>2, <1>3, <1>4

\* The inductive invariant holds from the start.
LEMMA HostInvariant ==
  ASSUME NeverStarted
  PROVE  Spec => []HostInv
<1>1. Init => QuietActors
  BY DEF Init, FreshServer, QuietActors
<1>2. Init => HelpersInPlace /\ Addressed
  BY DEF Init, HostInit, HelpersInPlace, Addressed, Joinable
<1>3. Init => InOrder(UI)
  BY DashboardAssumption DEF Init, EngineInit, InOrder, NoWork
<1>4. Init /\ TypeInv => HostInv
  BY <1>1, <1>2, <1>3 DEF HostInv
<1>5. HostInv /\ TypeInv' /\ [Next]_vars => HostInv'
  BY QuietActorStep, HostStep DEF HostInv
<1> QED BY <1>4, <1>5, TypeInvariant, PTL DEF Spec

\* The invariant chaosReconcileLinks relies on, "a node with no helper has no
\* shaping", in a namespace whose containers go down but are not started again.
THEOREM ShapedOnlyThroughHelper ==
  ASSUME NeverStarted
  PROVE  Spec => []ShapedThroughHelper
<1>1. HostInv => ShapedThroughHelper
  BY DEF HostInv, HelpersInPlace, ShapedThroughHelper
<1> QED BY <1>1, HostInvariant, PTL

-----------------------------------------------------------------------------
(***************************************************************************)
(* FaultsAreWatched and ExitLeavesNoFault                                  *)
(***************************************************************************)

\* The engine at work: a reconcile stays one, and a clear, which shapes
\* nothing, ends with nothing shaped.
LEMMA EngineMoves ==
  ASSUME NeverStarted, ListWorks, HostInv, HostInv', EngineRuns
  PROVE  /\ UNCHANGED uiVars
         /\ \/ /\ call[UI] \in {"list", "inspect", "helpers", "work"}
               /\ call'[UI] \in {"list", "inspect", "helpers", "work"}
            \/ /\ call[UI] \in {"clist", "cwork"}
               /\ call'[UI] \in {"clist", "cwork", "cleared"}
               /\ HostUnshaped => HostUnshaped'
               /\ call'[UI] = "cleared" => HostUnshaped'
<1> USE DashboardAssumption DEF HostInv, TypeInv
<1>1. /\ call \in [Proc -> CallState]
      /\ work \in [Proc -> [Node -> WorkState]]
      /\ qdisc \in [Node -> Shaping]
      /\ UI \in Proc
      /\ call'[UI] = "cleared" => HostUnshaped'
  BY DEF TypeOK, EngineTypeOK, HostTypeOK, InOrder
<1>2. UNCHANGED uiVars
  BY DEF EngineRuns
<1>3. CASE Listing(UI) \/ ListingFails(UI) \/ CallerRuns(UI)
  <2>1. UNCHANGED qdisc
    BY <1>3 DEF Listing, ListingFails, CallerRuns, ListNodes, ClearList, ListFails,
                InspectFails, HelpersFail, ClearListFails, InspectIPs, PlanFrom, StartWorkers,
                ClearHelpers, hostVars
  <2>2. ~ListFails(UI) /\ ~ClearListFails(UI)
    BY DEF ListFails, ClearListFails, ListWorks
  <2>3. \/ /\ call[UI] \in {"list", "inspect", "helpers"}
           /\ call'[UI] \in {"inspect", "helpers", "work"}
        \/ call[UI] = "clist" /\ call'[UI] = "cwork"
        \/ call[UI] = "cwork" /\ call'[UI] = "cleared"
    BY <1>1, <1>3, <2>2
       DEF Listing, ListingFails, CallerRuns, ListNodes, ClearList, InspectFails,
           HelpersFail, InspectIPs, PlanFrom, StartWorkers, ClearHelpers
  <2> QED BY <1>1, <1>2, <2>1, <2>3 DEF HostUnshaped
<1>4. ASSUME NEW n \in Node, WorkerRuns(UI, n) \/ WorkerFails(UI, n)
      PROVE  /\ call[UI] \in {"work", "cwork"} /\ call'[UI] = call[UI]
             /\ call[UI] = "cwork" /\ HostUnshaped => HostUnshaped'
  <2>1. /\ work[UI][n] # "idle"
        /\ call' = call
    BY <1>4 DEF WorkerRuns, WorkerFails, EnsureHelper, CreateHelper, ExecShape,
                ChooseHelper, ExecDelete, RunDelete, CreateHelperFails, ShapeFails,
                DeleteFails, WorkTo
  <2>2. call[UI] \in {"work", "cwork"}
    BY <2>1 DEF InOrder, NoWork
  <2>3. ASSUME call[UI] = "cwork", HostUnshaped
        PROVE  HostUnshaped'
    <3>1. work[UI][n] # "exec"
      BY <2>3 DEF InOrder
    <3>2. ~ExecShape(UI, n)
      BY <3>1 DEF ExecShape, WorkTo
    <3>3. qdisc' = [qdisc EXCEPT ![n] = Unshaped] \/ UNCHANGED qdisc
      BY <1>4, <3>2
         DEF WorkerRuns, WorkerFails, EnsureHelper, CreateHelper, ChooseHelper,
             ExecDelete, ExecInHelper, RunDelete, ThrowawayClear,
             CreateHelperFails, ShapeFails, DeleteFails, hostVars
    <3> QED BY <1>1, <2>3, <3>3 DEF HostUnshaped
  <2> QED BY <2>1, <2>2, <2>3
<1> QED BY <1>1, <1>2, <1>3, <1>4 DEF EngineRuns

\* What an actor does to a node shapes nothing.
LEMMA ActorsShapeNothing ==
  ASSUME NeverStarted, HostInv, ActorActs
  PROVE  /\ HostUnshaped => HostUnshaped'
         /\ UNCHANGED <<engineVars, boardVars, loopVars, timerVars, stage>>
BY ActorsOnlyTake, LeavingKeepsCalls

\* The dead-man timer's watch, step by step.
LEMMA WatchedStep ==
  ASSUME NeverStarted, ListWorks, Restarts = FALSE
  PROVE  HostInv /\ HostInv' /\ Watched /\ [Next]_vars => Watched'
<1> SUFFICES ASSUME HostInv, HostInv', Watched, [Next]_vars
             PROVE  Watched'
  OBVIOUS
<1> USE DashboardAssumption
<1>0. call \in [Proc -> CallState] /\ UI \in Proc
  BY DEF HostInv, TypeInv, TypeOK, EngineTypeOK
<1>1. ASSUME HostUnshaped => HostUnshaped', UNCHANGED <<call, timer, fired>>,
             stage' # "gone" => stage # "gone"
      PROVE  Watched'
  BY <1>1 DEF Watched
<1>2. ASSUME NEW ls, ReconcileBegin(UI, ls) \/ ClearBegin(UI)
      PROVE  Watched'
  BY <1>0, <1>2 DEF ReconcileBegin, ClearBegin, Watched
<1>3. CASE EngineRuns
  BY <1>3, EngineMoves DEF Watched, uiVars, timerVars
<1>4. CASE ReconcileReturn
  BY <1>4 DEF ReconcileReturn, Armed, Watched
<1>5. CASE ClearReturn
  <2>1. HostUnshaped /\ UNCHANGED qdisc
    BY <1>5 DEF ClearReturn, ClearEnd, HostInv, InOrder, hostVars
  <2> QED BY <2>1 DEF Watched, HostUnshaped
<1>6. CASE DeadmanFire
  BY <1>6 DEF DeadmanFire, Watched
<1>7. CASE Gone
  BY <1>7 DEF Gone, Watched
<1>8. CASE ActorActs
  BY <1>1, <1>8, ActorsShapeNothing DEF engineVars, timerVars
<1>9. ASSUME UNCHANGED <<hostVars, engineVars, timerVars, stage>>
      PROVE  Watched'
  BY <1>1, <1>9 DEF hostVars, engineVars, timerVars, HostUnshaped
<1>10. CASE Request
  BY <1>2, <1>8, <1>9, <1>10
     DEF Request, HandleLink, HandleLinks, HandleClear, SetFlux, HandleFlapOn,
         HandleFlapOff, SetMonkeyOn, SetMonkeyOff, MonkeyFrame, ActorActs, Reconcile
<1>11. CASE Background
  BY <1>2, <1>3, <1>4, <1>5, <1>6, <1>8, <1>9, <1>11
     DEF Background, DeadmanRun, FluxTick, FluxRun, LoopStops, SetPhase, ActorActs,
         Reconcile
<1>12. CASE Signal \/ StopFlux \/ StopMonkey \/ StopFlaps \/ ShutdownClear
  BY <1>1, <1>2, <1>12
     DEF Signal, StopFlux, StopMonkey, StopFlaps, ShutdownClear, hostVars, engineVars,
         timerVars, HostUnshaped
<1>13. CASE Shutdown
  BY <1>7, <1>12, <1>13 DEF Shutdown, Exit, Crash, Restart
<1> QED BY <1>9, <1>10, <1>11, <1>13 DEF Next, vars, uiVars

\* A shaped node is watched by the dead-man timer whenever the mutex is free,
\* whichever of the dashboard's actors shaped it last.
THEOREM FaultsWatched ==
  ASSUME NeverStarted, ListWorks, Restarts = FALSE
  PROVE  Spec => []FaultsAreWatched
<1>1. Init => Watched
  BY DEF Init, HostInit, Watched, HostUnshaped
<1>2. Watched => FaultsAreWatched
  BY DEF Watched, FaultsAreWatched, MuFree
<1> QED BY <1>1, <1>2, WatchedStep, HostInvariant, PTL DEF Spec

\* The way to the exit, step by step.
LEMMA WindingStep ==
  ASSUME NeverStarted, ListWorks, Crashes = FALSE, LateRequests = FALSE
  PROVE  HostInv /\ HostInv' /\ Winding /\ [Next]_vars => Winding'
<1> SUFFICES ASSUME HostInv, HostInv', Winding, [Next]_vars
             PROVE  Winding'
  OBVIOUS
<1> USE DashboardAssumption
<1>0. /\ call \in [Proc -> CallState] /\ UI \in Proc
      /\ loopAt \in [FlapLoop -> {"free", "start", "down", "up"}]
      /\ loopPair \in [FlapLoop -> Pair \cup {{}}]
  BY DEF HostInv, TypeInv, TypeOK, EngineTypeOK
<1>1. ASSUME HostUnshaped => HostUnshaped',
             UNCHANGED <<engineVars, boardVars, loopVars, stage>>
      PROVE  Winding'
  BY <1>1 DEF Winding, engineVars, boardVars, loopVars
<1>2. ASSUME stage = "up", UNCHANGED <<stage, loopVars>>
      PROVE  Winding'
  BY <1>2 DEF Winding, loopVars
<1>3. CASE Request
  <2>1. stage = "up" /\ stage' = stage
    BY <1>3 DEF Request, HandleLink, HandleLinks, HandleClear, SetFlux, HandleFlapOn,
         HandleFlapOff, SetMonkeyOn, SetMonkeyOff, MonkeyFrame, HandleNode,
         Locked, Serving, uiVars
  <2>2. ASSUME NEW k \in Pair, HandleFlapOn(k)
        PROVE  Winding'
    BY <1>0, <2>1, <2>2 DEF HandleFlapOn, Winding
  <2> QED BY <1>2, <1>3, <2>1, <2>2
          DEF Request, HandleLink, HandleLinks, HandleClear, SetFlux,
              HandleFlapOff, SetMonkeyOn, SetMonkeyOff, MonkeyFrame, HandleNode,
              uiVars
<1>4. CASE EngineRuns
  <2>1. UNCHANGED <<stage, links, flaps, loopVars>> /\ stage # "gone"
    BY <1>4 DEF EngineRuns, uiVars, boardVars
  <2> QED BY <1>4, <2>1, EngineMoves DEF Winding, loopVars
<1>5. CASE ReconcileReturn
  <2>1. /\ call[UI] \notin {"idle", "clist", "cwork", "cleared"}
        /\ stage # "gone"
        /\ UNCHANGED <<stage, links, flaps, loopVars>>
    BY <1>5 DEF ReconcileReturn, ReconcileEnd, boardVars
  <2> QED BY <2>1 DEF Winding, loopVars
<1>6. CASE ClearReturn
  <2>1. /\ HostUnshaped'
        /\ call'[UI] = "idle"
        /\ UNCHANGED <<links, flaps, loopVars>>
        /\ stage' = IF stage = "clearing" THEN "close" ELSE stage
    BY <1>0, <1>6 DEF ClearReturn, ClearEnd, HostInv, InOrder, hostVars,
                      HostUnshaped, boardVars
  <2> QED BY <2>1 DEF Winding, loopVars
<1>7. CASE DeadmanFire \/ FluxTick
  BY <1>1, <1>7 DEF DeadmanFire, FluxTick, hostVars, HostUnshaped
<1>8. ASSUME ClearBegin(UI), links' = NoLinks, MuFree,
             UNCHANGED <<hostVars, flaps, loopVars>>,
             stage' = stage \/ (stage = "clear" /\ stage' = "clearing")
      PROVE  Winding'
  BY <1>0, <1>8 DEF ClearBegin, MuFree, Winding, HostUnshaped, hostVars, loopVars
<1>9. CASE DeadmanRun \/ ShutdownClear
  BY <1>8, <1>9 DEF DeadmanRun, ShutdownClear
<1>10. CASE FluxRun
  <2>1. CASE links = NoLinks
    BY <1>1, <1>10, <2>1 DEF FluxRun, hostVars, HostUnshaped
  <2>2. CASE links # NoLinks
    BY <1>10, <2>2 DEF FluxRun, MuFree, Winding, boardVars, loopVars
  <2> QED BY <2>1, <2>2
<1>11. ASSUME NEW l \in FlapLoop, LoopStops(l)
       PROVE  Winding'
  BY <1>0, <1>11 DEF LoopStops, LoopEnds, Winding, hostVars, engineVars, boardVars, HostUnshaped
<1>12. ASSUME NEW l \in FlapLoop, NEW down \in BOOLEAN, SetPhase(l, down)
       PROVE  Winding'
  <2>1. loopPair[l] \in Pair
    BY <1>12 DEF SetPhase, Winding
  <2>2. CASE OwnsFlap(l)
    <3>1. stage \notin {"clear", "clearing", "close", "gone"}
      BY <1>12, <2>1, <2>2 DEF SetPhase, OwnsFlap, Winding, MuFree
    <3> QED BY <1>0, <1>12, <2>1, <2>2, <3>1 DEF SetPhase, Winding
  <2>3. CASE ~OwnsFlap(l)
    BY <1>0, <1>12, <2>3 DEF SetPhase, LoopEnds, Winding, hostVars, engineVars, HostUnshaped
  <2> QED BY <2>2, <2>3
<1>13. CASE ActorActs
  BY <1>1, <1>13, ActorsShapeNothing
<1>14. CASE Background
  BY <1>4, <1>5, <1>6, <1>7, <1>9, <1>10, <1>11, <1>12, <1>13, <1>14
     DEF Background, ActorActs
<1>15. CASE StopFlaps
  BY <1>15 DEF StopFlaps, Winding, loopVars
<1>16. CASE Signal \/ StopFlux \/ StopMonkey
  BY <1>16 DEF Signal, StopFlux, StopMonkey, Winding, loopVars
<1>17. CASE Exit
  BY <1>17 DEF Exit, Gone, ResetServer, Winding, HostUnshaped, hostVars
<1>18. CASE Restart
  BY <1>18 DEF Restart, ResetServer, Winding
<1>19. CASE Shutdown
  BY <1>9, <1>15, <1>16, <1>17, <1>18, <1>19 DEF Shutdown, Crash
<1> QED BY <1>1, <1>3, <1>14, <1>19 DEF Next, vars, hostVars, uiVars, HostUnshaped

\* Ctrl-C leaves no fault behind, whatever flaps, flux ticks and dead-man
\* functions were waiting for the mutex when it came.
THEOREM ExitIsClean ==
  ASSUME NeverStarted, ListWorks, Crashes = FALSE, LateRequests = FALSE
  PROVE  Spec => []ExitLeavesNoFault
<1>1. Init => Winding
  BY DEF Init, FreshServer, Winding
<1>2. Winding => ExitLeavesNoFault
  BY DEF Winding, ExitLeavesNoFault
<1> QED BY <1>1, <1>2, WindingStep, HostInvariant, PTL DEF Spec

-----------------------------------------------------------------------------
(***************************************************************************)
(* FaultsMatchBoard                                                        *)
(***************************************************************************)

\* The engine at work on the board.
LEMMA EngineKeepsBoard ==
  ASSUME NeverStarted, BandsSuffice, HostInv, BoardSought, EngineRuns
  PROVE  BoardSought' /\ call[UI] # "idle" /\ call'[UI] # "idle"
<1> USE DashboardAssumption DEF HostInv, TypeInv
<1>1. /\ call \in [Proc -> CallState]
      /\ UI \in Proc
      /\ HostTypeOK /\ EngineTypeOK
  BY DEF TypeOK, EngineTypeOK
<1>2. UNCHANGED boardVars
  BY DEF EngineRuns, uiVars
<1>3. PICK W : W = Wish
  OBVIOUS
<1>4. PICK T : T = touched
  OBVIOUS
<1>5. PICK U : U = touched'
  OBVIOUS
<1>6. W = Wish'
  BY <1>2, <1>3 DEF Wish, Wanted, boardVars
<1>7. Reconciling(UI, W, T)
  BY <1>3, <1>4 DEF BoardSought
<1>8. /\ call[UI] \in {"list", "inspect", "helpers", "work", "clist", "cwork"}
      /\ call'[UI] # "idle"
      /\ call'[UI] \in {"clist", "cwork", "cleared"} => call[UI] \in {"clist", "cwork"}
  <2>1. CASE Listing(UI) \/ ListingFails(UI) \/ CallerRuns(UI)
    BY <1>1, <2>1
       DEF Listing, ListNodes, ClearList, ListingFails, ListFails, InspectFails,
           HelpersFail, ClearListFails, CallerRuns, InspectIPs, PlanFrom, StartWorkers, ClearHelpers
  <2>2. ASSUME NEW n \in Node, WorkerRuns(UI, n) \/ WorkerFails(UI, n)
        PROVE  call' = call /\ work[UI][n] # "idle"
    BY <2>2 DEF WorkerRuns, WorkerFails, EnsureHelper, CreateHelper, ExecShape,
                ChooseHelper, ExecDelete, RunDelete, CreateHelperFails, ShapeFails,
                DeleteFails, WorkTo
  <2> QED BY <2>1, <2>2 DEF EngineRuns, InOrder, NoWork
<1>9. Reconciling(UI, W, U)'
  <2>1. CASE Listing(UI) \/ (ListingFails(UI) /\ U = Node) \/ (CallerRuns(UI) /\ U = T)
    BY <1>1, <1>7, <2>1, CallerReconciles
  <2>2. ASSUME NEW n \in Node, WorkerRuns(UI, n), U = T
        PROVE  Reconciling(UI, W, U)'
    BY <1>1, <1>7, <2>2, WorkerReconciles DEF NeverStarted
  <2>3. ASSUME NEW n \in Node, WorkerFails(UI, n), U = T \cup {n}
        PROVE  Reconciling(UI, W, U)'
    <3>1. Reconciling(UI, W, U)
      BY <1>7, <1>8, <2>3 DEF Reconciling
    <3> QED BY <1>1, <2>3, <3>1, WorkerReconciles DEF NeverStarted
  <2> QED BY <1>4, <1>5, <2>1, <2>2, <2>3 DEF EngineRuns
<1>10. Reconciling(UI, Wish, touched)'
  BY <1>5, <1>6, <1>9 DEF Reconciling, Suits
<1> QED BY <1>2, <1>8, <1>10 DEF BoardSought, boardVars

\* Nodes that go down leave the board as well kept as it was.
LEMMA ActorsKeepBoard ==
  ASSUME NeverStarted, HostInv, BoardInv, ActorActs
  PROVE  BoardInv'
<1> USE DashboardAssumption DEF HostInv, TypeInv
<1>1. /\ NodesOnlyLeave /\ HelpersInPlace' /\ Accounted
      /\ UNCHANGED <<engineVars, boardVars, stage>>
  BY ActorsOnlyTake
<1>2. PICK W : W = Wish
  OBVIOUS
<1>3. PICK T : T = touched
  OBVIOUS
<1>4. PICK U : U = touched'
  OBVIOUS
<1>5. W = Wish'
  BY <1>1, <1>2 DEF Wish, Wanted, boardVars
<1>6. T \subseteq U /\ U \subseteq Node /\ touched \subseteq touched'
  BY <1>1, <1>3, <1>4 DEF Accounted, TypeOK
<1>7. Reconciling(UI, W, T)
  BY <1>2, <1>3 DEF BoardInv, BoardSought
<1>8. Reconciling(UI, W, U)'
  BY <1>1, <1>6, <1>7, LeavingKeepsCalls
<1>9. Reconciling(UI, Wish, touched)'
  BY <1>4, <1>5, <1>8 DEF Reconciling, Suits
<1>10. ASSUME NEW n \in Node \ touched', stage = "up", call[UI] = "idle"
       PROVE  Suits(n, qdisc[n], Wish)'
  <2>1. Suits(n, qdisc[n], W)
    BY <1>2, <1>6, <1>10 DEF BoardInv
  <2>2. Suits(n, qdisc[n], W)'
    BY <1>1, <2>1, LeavingKeepsCalls
  <2> QED BY <1>5, <2>2 DEF Suits
<1>11. call' = call /\ links' = links /\ stage' = stage
  BY <1>1 DEF engineVars, boardVars
<1>12. BoardSought'
  BY <1>9, <1>11 DEF BoardInv, BoardSought
<1>13. stage' = "gone" => touched' = Node /\ call'[UI] = "idle"
  BY <1>4, <1>6, <1>11 DEF BoardInv
<1> QED BY <1>10, <1>11, <1>12, <1>13 DEF BoardInv

\* The dashboard's other steps.
LEMMA DashboardKeepsBoard ==
  ASSUME NeverStarted, BandsSuffice, HostInv, BoardInv, [Next]_vars,
         ~EngineRuns, ~ActorActs
  PROVE  BoardInv'
<1> USE DashboardAssumption, HostAssumption DEF HostInv, TypeInv
<1>1. /\ call \in [Proc -> CallState]
      /\ desired \in [Proc -> LinkSet]
      /\ UI \in Proc
      /\ BoardSought
  BY DEF TypeOK, EngineTypeOK, BoardInv
<1>2. UNCHANGED hostVars
  BY StepFrame
<1>3. ASSUME UNCHANGED <<engineVars, boardVars, touched>>,
             stage' \in {"up", "gone"} => stage' = stage
      PROVE  BoardInv'
  <2>1. Wish' = Wish
    BY <1>3 DEF Wish, Wanted, boardVars
  <2> QED BY <1>1, <1>2, <1>3, <2>1
          DEF BoardInv, BoardSought, Reconciling, Suits, Fits, Working, Joinable,
              engineVars, boardVars, hostVars
<1>4. ASSUME Reconcile, UNCHANGED <<stage, touched>>, stage # "gone"
      PROVE  BoardInv'
  <2>1. call'[UI] = "list" /\ desired'[UI] = Effective(links, flaps, phaseDown)'
    BY <1>1, <1>4 DEF Reconcile, ReconcileBegin, Effective
  <2>2. \A k \in Pair : Effective(links, flaps, phaseDown)'[k] \in Wish'[k]
    BY DEF Effective, Wish, Wanted
  <2> QED BY <1>4, <2>1, <2>2 DEF BoardInv, BoardSought, Reconciling
<1>5. ASSUME ClearBegin(UI), links' = NoLinks, stage' # "gone"
      PROVE  BoardInv'
  <2>1. call'[UI] = "clist"
    BY <1>1, <1>5 DEF ClearBegin
  <2> QED BY <1>5, <2>1 DEF BoardInv, BoardSought, Reconciling
<1>6. ASSUME MuFree, UNCHANGED <<engineVars, touched>>, stage' # "gone",
             stage' = "up" =>
               \A n \in Node \ touched : Suits(n, qdisc[n], Wish)'
      PROVE  BoardInv'
  BY <1>6 DEF MuFree, BoardInv, BoardSought, Reconciling, engineVars
<1>7. CASE ReconcileReturn
  <2>1. UNCHANGED <<boardVars, touched, stage>> /\ call'[UI] = "idle" /\ stage # "gone"
    BY <1>1, <1>7 DEF ReconcileReturn, ReconcileEnd
  <2>2. \A n \in Node \ touched : Suits(n, qdisc[n], Wish)
    BY <1>1, <1>7, ReconcileDelivers DEF ReconcileReturn, BoardSought
  <2>3. Wish' = Wish
    BY <2>1 DEF Wish, Wanted, boardVars
  <2> QED BY <1>2, <2>1, <2>2, <2>3
          DEF BoardInv, BoardSought, Reconciling, Suits, Joinable, hostVars
<1>8. CASE ClearReturn
  <2>1. /\ UNCHANGED <<boardVars, touched>> /\ call'[UI] = "idle" /\ call[UI] # "idle"
        /\ stage' \in {stage, "close"}
    BY <1>1, <1>8 DEF ClearReturn, ClearEnd
  <2>2. touched = Node \/ (HostUnshaped /\ links = NoLinks)
    BY <1>1, <1>8 DEF ClearReturn, ClearEnd, BoardSought, Reconciling, InOrder
  <2>3. ASSUME NEW n \in Node \ touched, NEW m \in Node \ {n},
               Joinable(n)', Joinable(m)'
        PROVE  qdisc'[n][addr'[m]] \in Wish'[{n, m}]
    <3>1. qdisc[n] = Unshaped /\ addr[m] \in IP /\ {n, m} \in Pair
      BY <1>2, <2>2, <2>3, TwoNodesArePair DEF HostUnshaped, Addressed, Joinable, hostVars
    <3>2. NoFault \in Wish[{n, m}]
      BY <2>2, <3>1 DEF Wish, Wanted, NoLinks
    <3> QED BY <1>2, <2>1, <3>1, <3>2 DEF Wish, Wanted, Unshaped, boardVars, hostVars
  <2> QED BY <2>1, <2>3 DEF BoardInv, BoardSought, Reconciling, Suits
<1>9. ASSUME NEW k \in Pair, HandleFlapOn(k)
      PROVE  BoardInv'
  <2>1. PICK l \in FlapLoop : flaps' = [flaps EXCEPT ![k] = l]
    BY <1>9 DEF HandleFlapOn
  <2>2. \A j \in Pair : Wish[j] \subseteq Wish'[j]
    BY <1>9, <2>1 DEF HandleFlapOn, TypeOK, Wish, Wanted
  <2>3. /\ MuFree /\ call[UI] = "idle" /\ stage' = stage /\ stage # "gone"
        /\ UNCHANGED <<hostVars, engineVars, touched>>
    BY <1>9 DEF HandleFlapOn, Locked, MuFree
  <2>4. stage' = "up" => \A n \in Node \ touched : Suits(n, qdisc[n], Wish)'
    BY <2>2, <2>3, TwoNodesArePair DEF BoardInv, Suits, Joinable, hostVars
  <2> QED BY <1>6, <2>3, <2>4
<1>10. CASE Gone
  <2>1. call'[UI] = "idle" /\ touched' = Node /\ stage' = "gone"
    BY <1>1, <1>10 DEF Gone, EngineGone
  <2> QED BY <2>1 DEF BoardInv, BoardSought, Reconciling
<1>11. CASE Restart
  <2>1. UNCHANGED <<engineVars, touched>> /\ stage = "gone" /\ stage' = "up"
    BY <1>11 DEF Restart
  <2>2. touched = Node /\ call[UI] = "idle"
    BY <2>1 DEF BoardInv
  <2> QED BY <2>1, <2>2 DEF BoardInv, BoardSought, Reconciling, engineVars
<1>12. CASE Request
  BY <1>3, <1>4, <1>5, <1>9, <1>12
     DEF Request, HandleLink, HandleLinks, HandleClear, SetFlux, HandleFlapOff,
         SetMonkeyOn, SetMonkeyOff, MonkeyFrame, ActorActs, Locked, MuFree
<1>13. CASE Background
  BY <1>3, <1>4, <1>5, <1>7, <1>8, <1>13
     DEF Background, DeadmanFire, DeadmanRun, FluxTick, FluxRun, LoopStops, SetPhase,
         ActorActs, MuFree, boardVars
<1>14. CASE Shutdown
  BY <1>3, <1>5, <1>6, <1>10, <1>11, <1>14
     DEF Shutdown, Signal, StopFlux, StopMonkey, StopFlaps, ShutdownClear, Exit, Crash
<1> QED BY <1>3, <1>12, <1>13, <1>14 DEF Next, vars, uiVars

\* The inductive invariant, step by step.
LEMMA BoardStep ==
  ASSUME NeverStarted, BandsSuffice
  PROVE  HostInv /\ BoardInv /\ [Next]_vars => BoardInv'
<1>1. HostInv /\ BoardInv /\ EngineRuns => BoardInv'
  BY EngineKeepsBoard, EngineFrame DEF BoardInv, uiVars
<1> QED BY <1>1, ActorsKeepBoard, DashboardKeepsBoard

\* A pair of nodes the board asks nothing of is as it should be.
LEMMA BareSuits ==
  ASSUME Addressed, NEW n \in Node, qdisc[n] = Unshaped, NEW W,
         \A k \in Pair : NoFault \in W[k]
  PROVE  Suits(n, qdisc[n], W)
BY TwoNodesArePair DEF Suits, Addressed, Unshaped

\* The inductive invariant holds from the start.
LEMMA BoardInvariant ==
  ASSUME NeverStarted, BandsSuffice
  PROVE  Spec => [](HostInv /\ BoardInv)
<1> USE DashboardAssumption
<1>1. Init /\ HostInv => BoardInv
  <2> SUFFICES ASSUME Init, HostInv
               PROVE  BoardInv
    OBVIOUS
  <2>1. /\ \A n \in Node : qdisc[n] = Unshaped
        /\ \A k \in Pair : NoFault \in Wish[k]
    BY DEF Init, HostInit, FreshServer, Wish, Wanted, NoLinks
  <2>2. \A n \in Node : Suits(n, qdisc[n], Wish)
    BY <2>1, BareSuits DEF HostInv
  <2> QED BY <2>2 DEF Init, EngineInit, BoardInv, BoardSought, Reconciling
<1> QED BY <1>1, BoardStep, HostInvariant, PTL DEF Spec

\* The promise of a full rebuild: whenever the mutex is free, what any two nodes
\* nothing was missed of do to each other's traffic is what the board says, in
\* both directions, however flaps, flux, requests, dead-man clears, node
\* commands, failures of docker and restarts of the dashboard interleave.
THEOREM BoardMatched ==
  ASSUME NeverStarted, BandsSuffice
  PROVE  Spec => []FaultsMatchBoard
<1>1. HostInv /\ BoardInv => FaultsMatchBoard
  <2> SUFFICES ASSUME HostInv, BoardInv, stage = "up", MuFree,
                      NEW a \in Node \ touched, NEW b \in Node \ touched, a # b,
                      Joinable(a), Joinable(b)
               PROVE  FaultTowards(a, b) \in Wanted({a, b})
    BY DEF FaultsMatchBoard
  <2>1. Suits(a, qdisc[a], Wish) /\ addr[b] # NoIP
    BY HostAssumption DEF HostInv, BoardInv, MuFree, Addressed
  <2> QED BY <2>1, TwoNodesArePair DEF Suits, Wish, FaultTowards
<1> QED BY <1>1, BoardInvariant, PTL

-----------------------------------------------------------------------------
(***************************************************************************)
(* KeepsBoard: the dashboard implements LinkBoard                          *)
(***************************************************************************)

\* The board is one of LinkBoard's.
LEMMA WishType ==
  ASSUME TypeOK
  PROVE  Wish \in Board!Boards
BY HostAssumption
   DEF TypeOK, Wish, Wanted, LinkSet, Fault, Board!Boards, Board!Pair, Pair

\* So is the board of the next state.
LEMMA NextWishType ==
  ASSUME TypeOK'
  PROVE  Wish' \in Board!Boards
BY HostAssumption
   DEF TypeOK, Wish, Wanted, LinkSet, Fault, Board!Boards, Board!Pair, Pair

\* A board the shapings suit is followed.
LEMMA SuitedIsFollowed ==
  ASSUME HostInv, NEW W, \A n \in Node \ touched : Suits(n, qdisc[n], W)
  PROVE  Board!Followed(W)
BY SuitableFaults DEF HostInv, Board!Followed, Board!Suits

\* The board as it will be is followed, when a step that leaves the host alone
\* ends with the mutex free.
LEMMA KeptIsFollowed ==
  ASSUME HostInv, BoardInv', UNCHANGED <<hostVars, touched>>,
         stage' = "up", call'[UI] = "idle"
  PROVE  Board!Followed(Wish')
<1>1. PICK W : W = Wish'
  OBVIOUS
<1>2. \A n \in Node \ touched : Suits(n, qdisc[n], W)
  BY <1>1 DEF BoardInv, Suits, Joinable, hostVars
<1> QED BY <1>1, <1>2, SuitedIsFollowed

\* Nodes stay, or one goes down.
LEMMA ActorsBoard ==
  ASSUME NeverStarted, HostInv, ActorActs
  PROVE  [Board!Next]_(Board!vars)
<1>1. /\ NodesOnlyLeave /\ HelpersInPlace' /\ Addressed' /\ Accounted
      /\ HelpersInPlace /\ Addressed
      /\ UNCHANGED <<engineVars, boardVars, stage>>
  BY ActorsOnlyTake DEF HostInv
<1>2. UNCHANGED <<Wish, call, stage>>
  BY <1>1 DEF Wish, Wanted, boardVars, engineVars
<1>3. CASE NodesStay /\ touched' = touched
  <2>1. UNCHANGED <<LinkFaults, NodesUp>>
    BY <1>1, <1>3, StayingFaults
  <2> QED BY <1>2, <1>3, <2>1 DEF Board!vars
<1>4. ASSUME NEW n \in Node, NodeLeaves(n), touched' = touched \cup {n}
      PROVE  Board!Down(n)
  BY <1>1, <1>2, <1>4, LeavingFaults DEF Board!Down
<1> QED BY <1>1, <1>3, <1>4 DEF Accounted, Board!Next

\* A shaping that is replaced by a suitable one, or dropped.
LEMMA ReplacedBoard ==
  ASSUME HostTypeOK, Addressed, NEW n \in Node, Joinable(n), NEW s \in Shaping,
         qdisc' = [qdisc EXCEPT ![n] = s], UNCHANGED <<nstate, addr>>,
         Suits(n, s, Wish) \/ (n \in touched /\ s = Unshaped),
         call[UI] # "idle", call'[UI] # "idle", UNCHANGED <<Wish, stage, touched>>
  PROVE  Board!Shape(n)
<1>1. PICK W : W = Wish
  OBVIOUS
<1>2. PICK T : T = touched
  OBVIOUS
<1>3. Suits(n, s, W) \/ (n \in T /\ s = Unshaped)
  BY <1>1, <1>2
<1>4. /\ n \in NodesUp /\ NodesUp' = NodesUp
      /\ \E r \in [Node \ {n} -> Fault] :
           /\ \/ \A m \in NodesUp \ {n} : r[m] \in W[{n, m}]
              \/ n \in T /\ r = [m \in Node \ {n} |-> NoFault]
           /\ LinkFaults' = [LinkFaults EXCEPT ![n] = r]
  BY <1>3, ReplacedFaults
<1>5. PICK r \in [Node \ {n} -> Fault] :
        /\ \/ \A m \in NodesUp \ {n} : r[m] \in W[{n, m}]
           \/ n \in T /\ r = [m \in Node \ {n} |-> NoFault]
        /\ LinkFaults' = [LinkFaults EXCEPT ![n] = r]
  BY <1>4
<1>6. Board!Suits(n, r, Wish) \/ (n \in touched /\ r = Board!Bare(n))
  BY <1>1, <1>2, <1>5 DEF Board!Bare, Board!Suits
<1> QED BY <1>4, <1>5, <1>6 DEF Board!Shape, Board!Row

\* The nodes are listed, a shaping is replaced, or something is missed.
LEMMA EngineBoard ==
  ASSUME NeverStarted, BandsSuffice, HostInv, BoardInv, EngineRuns
  PROVE  [Board!Next]_(Board!vars)
<1> USE DashboardAssumption DEF HostInv, TypeInv
<1>1. call[UI] # "idle" /\ call'[UI] # "idle" /\ BoardSought
  BY EngineKeepsBoard DEF BoardInv
<1>2. UNCHANGED <<Wish, stage>>
  BY DEF EngineRuns, uiVars, boardVars, Wish, Wanted
<1>3. touched \subseteq Node /\ HostTypeOK /\ EngineTypeOK /\ UI \in Proc
  BY DEF TypeOK
<1>4. CASE Listing(UI) /\ touched' = InFlight
  <2>1. UNCHANGED <<nstate, addr, qdisc>>
    BY <1>4 DEF Listing, ListNodes, ClearList, hostVars
  <2>2. touched' \subseteq Node \ NodesUp
    BY <1>4 DEF InFlight, QuietActors, NodesUp, TypeOK
  <2> QED BY <1>1, <1>2, <2>1, <2>2, StillFaults DEF Board!Next, Board!Survey
<1>5. ASSUME UNCHANGED <<nstate, addr, qdisc>>, touched \subseteq touched',
             touched' \subseteq Node, Failures # {}
      PROVE  Board!Miss
  BY <1>1, <1>2, <1>5, StillFaults DEF Board!Miss
<1>6. CASE ListingFails(UI) /\ touched' = Node
  <2>1. UNCHANGED <<nstate, addr, qdisc>> /\ Failures # {}
    BY <1>6 DEF ListingFails, ListFails, InspectFails, HelpersFail, PlanFrom, ClearListFails, hostVars
  <2> QED BY <1>3, <1>5, <1>6, <2>1 DEF Board!Next
<1>7. CASE CallerRuns(UI) /\ UNCHANGED touched
  <2>1. UNCHANGED <<nstate, addr, qdisc>>
    BY <1>7 DEF CallerRuns, InspectIPs, PlanFrom, StartWorkers, ClearHelpers, hostVars
  <2> QED BY <1>1, <1>2, <1>7, <2>1, StillFaults DEF Board!vars
<1>8. ASSUME NEW n \in Node, WorkerRuns(UI, n) \/ WorkerFails(UI, n)
      PROVE  /\ UNCHANGED <<nstate, addr>>
             /\ WorkerFails(UI, n) => UNCHANGED qdisc
             /\ \/ UNCHANGED qdisc
                \/ \E s \in Shaping :
                     /\ Joinable(n) /\ qdisc' = [qdisc EXCEPT ![n] = s]
                     /\ Suits(n, s, Wish) \/ (n \in touched /\ s = Unshaped)
  <2>1. call[UI] = "cwork" => \A k \in Pair : NoFault \in Wish[k]
    BY <1>1 DEF BoardSought, Wish, Wanted, NoLinks
  <2> QED BY <1>1, <1>3, <1>8, <2>1, WorkerReplaces DEF BoardSought, NeverStarted
<1>9. ASSUME NEW n \in Node, WorkerRuns(UI, n), UNCHANGED touched
      PROVE  [Board!Next]_(Board!vars)
  <2>1. CASE UNCHANGED qdisc
    BY <1>1, <1>2, <1>8, <1>9, <2>1, StillFaults DEF Board!vars
  <2>2. ASSUME NEW s \in Shaping, Joinable(n), qdisc' = [qdisc EXCEPT ![n] = s],
               Suits(n, s, Wish) \/ (n \in touched /\ s = Unshaped)
        PROVE  Board!Shape(n)
    BY <1>1, <1>2, <1>3, <1>8, <1>9, <2>2, ReplacedBoard
  <2> QED BY <1>8, <1>9, <2>1, <2>2 DEF Board!Next
<1>10. ASSUME NEW n \in Node, WorkerFails(UI, n), touched' = touched \cup {n}
       PROVE  Board!Miss
  <2>1. Failures # {}
    BY <1>10 DEF WorkerFails, CreateHelperFails, ShapeFails, DeleteFails
  <2> QED BY <1>3, <1>5, <1>8, <1>10, <2>1
<1> QED BY <1>4, <1>6, <1>7, <1>9, <1>10 DEF EngineRuns, Board!Next

\* What the dashboard does of its own accord, or is asked to.
LEMMA DashboardBoard ==
  ASSUME NeverStarted, BandsSuffice, HostInv, BoardInv, HostInv', BoardInv',
         [Next]_vars, ~EngineRuns, ~ActorActs
  PROVE  [Board!Next]_(Board!vars)
<1> USE DashboardAssumption DEF HostInv, TypeInv
<1>1. /\ call \in [Proc -> CallState]
      /\ UI \in Proc
      /\ UNCHANGED hostVars
  BY StepFrame DEF TypeOK, EngineTypeOK
<1>2. UNCHANGED <<LinkFaults, NodesUp>>
  BY <1>1, StillFaults DEF hostVars
<1>3. ASSUME UNCHANGED <<engineVars, boardVars, touched>>, stage' = "up" <=> stage = "up"
      PROVE  UNCHANGED Board!vars
  BY <1>2, <1>3 DEF Board!vars, Wish, Wanted, engineVars, boardVars
<1>4. ASSUME call[UI] = "idle", call'[UI] # "idle", UNCHANGED touched,
             stage' = "up" <=> stage = "up"
      PROVE  Board!Ask
  BY <1>2, <1>4, NextWishType DEF Board!Ask
<1>5. ASSUME Reconcile, UNCHANGED <<touched, stage>>
      PROVE  Board!Ask
  BY <1>1, <1>4, <1>5 DEF Reconcile, ReconcileBegin
<1>6. ASSUME ClearBegin(UI), UNCHANGED touched, stage' = "up" <=> stage = "up"
      PROVE  Board!Ask
  BY <1>1, <1>4, <1>6 DEF ClearBegin
<1>7. ASSUME NEW k \in Pair, HandleFlapOn(k)
      PROVE  Board!Restate
  <2>1. call[UI] = "idle" /\ UNCHANGED <<call, touched, stage>>
    BY <1>7 DEF HandleFlapOn, Locked, MuFree, engineVars
  <2> QED BY <1>1, <1>2, <2>1, NextWishType, KeptIsFollowed DEF Board!Restate
<1>8. CASE ReconcileReturn
  <2>1. /\ call[UI] # "idle" /\ call'[UI] = "idle"
        /\ UNCHANGED <<Wish, touched, stage>>
    BY <1>1, <1>8 DEF ReconcileReturn, ReconcileEnd, Wish, Wanted, boardVars
  <2>2. Board!Settle
    BY <1>1, <1>2, <2>1, NextWishType, KeptIsFollowed DEF Board!Settle
  <2> QED BY <2>2 DEF Board!Next
<1>9. CASE ClearReturn
  <2>1. /\ call[UI] # "idle" /\ call'[UI] = "idle"
        /\ UNCHANGED <<Wish, touched>> /\ (stage' = "up" <=> stage = "up")
    BY <1>1, <1>9 DEF ClearReturn, ClearEnd, Wish, Wanted, boardVars
  <2>2. Board!Settle
    BY <1>1, <1>2, <2>1, NextWishType, KeptIsFollowed DEF Board!Settle
  <2> QED BY <2>2 DEF Board!Next
<1>10. CASE Request
  BY <1>3, <1>5, <1>6, <1>7, <1>10
     DEF Request, HandleLink, HandleLinks, HandleClear, SetFlux, HandleFlapOff,
         SetMonkeyOn, SetMonkeyOff, MonkeyFrame, ActorActs, Board!Next
<1>11. CASE Background
  BY <1>3, <1>5, <1>6, <1>8, <1>9, <1>11
     DEF Background, DeadmanFire, DeadmanRun, FluxTick, FluxRun, LoopStops, SetPhase,
         ActorActs, boardVars, Board!Next
<1>12. CASE Signal
  <2>1. Board!Leave
    BY <1>2, <1>12 DEF Signal, Board!Leave, Wish, Wanted, engineVars, boardVars
  <2> QED BY <2>1 DEF Board!Next
<1>13. CASE StopFlux \/ StopMonkey
  BY <1>3, <1>13 DEF StopFlux, StopMonkey
<1>14. CASE StopFlaps
  <2>1. call[UI] = "idle" /\ UNCHANGED <<call, touched>> /\ stage # "up" /\ stage' # "up"
    BY <1>14 DEF StopFlaps, MuFree, engineVars
  <2>2. Board!Restate
    BY <1>2, <2>1, NextWishType DEF Board!Restate
  <2> QED BY <2>2 DEF Board!Next
<1>15. CASE ShutdownClear
  BY <1>6, <1>15 DEF ShutdownClear, Board!Next
<1>16. CASE Exit \/ Crash
  <2>1. /\ call'[UI] = "idle" /\ touched' = Node /\ stage' # "up"
        /\ Crashes \/ stage # "up"
    BY <1>1, <1>16 DEF Exit, Crash, Gone, EngineGone
  <2>2. Board!Abandon
    BY <1>2, <2>1, NextWishType DEF Board!Abandon
  <2> QED BY <2>2 DEF Board!Next
<1>17. CASE Restart
  <2>1. /\ UNCHANGED <<call, touched>> /\ stage = "gone" /\ stage' = "up"
        /\ touched = Node
    BY <1>17 DEF Restart, BoardInv, engineVars
  <2>2. Board!Resume
    BY <1>2, <2>1, NextWishType DEF Board!Resume
  <2> QED BY <2>2 DEF Board!Next
<1>18. CASE Shutdown
  BY <1>12, <1>13, <1>14, <1>15, <1>16, <1>17, <1>18 DEF Shutdown
<1>19. CASE UNCHANGED vars
  BY <1>3, <1>19 DEF vars, uiVars
<1> QED BY <1>10, <1>11, <1>18, <1>19 DEF Next

\* A namespace freshly deployed, with an empty board.
LEMMA BoardInit ==
  ASSUME Init, HostInv
  PROVE  Board!Init
<1>1. Wish = [k \in Board!Pair |-> {NoFault}]
  BY DEF Init, FreshServer, Wish, Wanted, NoLinks, Board!Pair, Pair
<1>2. NodesUp = Node
  BY DEF Init, HostInit, NodesUp, Joinable
<1>3. \A a \in Node : \A b \in Node : FaultTowards(a, b) = NoFault
  BY DEF Init, HostInit, HostInv, Addressed, FaultTowards, Unshaped
<1>4. LinkFaults = [n \in Node |-> Board!Bare(n)]
  BY <1>3 DEF LinkFaults, Board!Bare
<1>5. call[UI] = "idle" /\ stage = "up" /\ touched = {}
  BY DashboardAssumption DEF Init, EngineInit
<1> QED BY <1>1, <1>2, <1>4, <1>5 DEF Board!Init

\* The dashboard keeps the namespace to its board: nodes are reshaped only by
\* an engine call, each in one step and only to what the board says at that
\* moment, or to nothing when something of the node was missed, and a call that
\* returns leaves every node nothing was missed of following the board.
THEOREM DashboardKeepsTheBoard ==
  ASSUME NeverStarted, BandsSuffice
  PROVE  Spec => KeepsBoard
<1>1. Init /\ HostInv => Board!Init
  BY BoardInit
<1>2. HostInv /\ BoardInv /\ HostInv' /\ BoardInv' /\ [Next]_vars
        => [Board!Next]_(Board!vars)
  BY ActorsBoard, EngineBoard, DashboardBoard
<1> QED BY <1>1, <1>2, BoardInvariant, PTL DEF Spec, KeepsBoard, Board!Spec

==============================================================================
