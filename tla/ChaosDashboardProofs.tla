------------------------ MODULE ChaosDashboardProofs ------------------------
(***************************************************************************)
(* Theorems about ChaosDashboard, for every set of nodes, addresses,       *)
(* profiles and goroutines.                                                *)
(***************************************************************************)
EXTENDS ChaosDashboard, ChaosEngineProofs

\* An overlay of a link set is a link set.
LEMMA EffectiveType ==
  ASSUME NEW base \in LinkSet, NEW owner, NEW down
  PROVE  Effective(base, owner, down) \in LinkSet
BY HostAssumption DEF Effective, LinkSet, Fault

-----------------------------------------------------------------------------
(***************************************************************************)
(* Type correctness                                                        *)
(***************************************************************************)

\* The fields of the server and the stage of its life.
UiTypeOK ==
  /\ links \in LinkSet
  /\ flaps \in [Pair -> FlapLoop \cup {None}]
  /\ phaseDown \in [Pair -> BOOLEAN]
  /\ loopAt \in [FlapLoop -> {"free", "start", "down", "up"}]
  /\ loopPair \in [FlapLoop -> Pair \cup {{}}]
  /\ timer \in {"off", "armed"}
  /\ fired \in BOOLEAN
  /\ fluxOn \in BOOLEAN
  /\ fluxDue \in BOOLEAN
  /\ monkey \in Monkey \cup {None}
  /\ monkeyAt \in [Monkey -> {"free", "wait", "strike", "hold"}]
  /\ monkeyMode \in [Monkey -> {"pause", "kill"}]
  /\ victim \in [Monkey -> Node \cup {None}]
  /\ stage \in Stage

\* What the actors owe, and the history variable.
ActorTypeOK ==
  /\ pending \in [Actor -> Node \cup {None}]
  /\ touched \subseteq Node

\* A monkey that is about to strike, or to recover, has a victim.
VictimHeld == \A m \in Monkey : monkeyAt[m] \in {"strike", "hold"} => victim[m] # None

\* Type correctness is inductive together with VictimHeld: recovering a victim
\* that is no node would leave the helper of no node to be removed.
TypeInv == TypeOK /\ VictimHeld

\* TypeOK by the part of the system the variables belong to.
LEMMA TypeParts == TypeOK <=> HostTypeOK /\ EngineTypeOK /\ UiTypeOK /\ ActorTypeOK
BY DEF TypeOK, UiTypeOK, ActorTypeOK

\* The fields of a fresh server are well typed.
LEMMA FreshType ==
  ASSUME NEW on \in BOOLEAN
  PROVE  /\ FreshServer(on) /\ stage \in Stage => UiTypeOK
         /\ ResetServer(on) /\ stage' \in Stage => UiTypeOK'
<1>1. ASSUME FreshServer(on), stage \in Stage
      PROVE  UiTypeOK
  <2>1. /\ flaps \in [Pair -> FlapLoop \cup {None}]
        /\ phaseDown \in [Pair -> BOOLEAN]
        /\ loopAt \in [FlapLoop -> {"free", "start", "down", "up"}]
        /\ loopPair \in [FlapLoop -> Pair \cup {{}}]
    BY <1>1 DEF FreshServer
  <2>2. /\ monkeyAt \in [Monkey -> {"free", "wait", "strike", "hold"}]
        /\ monkeyMode \in [Monkey -> {"pause", "kill"}]
        /\ victim \in [Monkey -> Node \cup {None}]
        /\ monkey \in Monkey \cup {None}
    BY <1>1 DEF FreshServer
  <2> QED BY <1>1, <2>1, <2>2, NoLinksType DEF FreshServer, UiTypeOK
<1>2. ASSUME ResetServer(on), stage' \in Stage
      PROVE  UiTypeOK'
  <2>1. /\ flaps' \in [Pair -> FlapLoop \cup {None}]
        /\ phaseDown' \in [Pair -> BOOLEAN]
        /\ loopAt' \in [FlapLoop -> {"free", "start", "down", "up"}]
        /\ loopPair' \in [FlapLoop -> Pair \cup {{}}]
    BY <1>2 DEF ResetServer
  <2>2. /\ monkeyAt' \in [Monkey -> {"free", "wait", "strike", "hold"}]
        /\ monkeyMode' \in [Monkey -> {"pause", "kill"}]
        /\ victim' \in [Monkey -> Node \cup {None}]
        /\ monkey' \in Monkey \cup {None}
    BY <1>2 DEF ResetServer
  <2> QED BY <1>2, <2>1, <2>2, NoLinksType DEF ResetServer, UiTypeOK
<1> QED BY <1>1, <1>2

\* Every initial state is well typed.
LEMMA InitType == Init => TypeOK
<1> SUFFICES ASSUME Init PROVE TypeOK
  OBVIOUS
<1>1. HostTypeOK /\ EngineTypeOK
  BY StartType DEF Init
<1>3. PICK on \in {FALSE, UseFlux} : FreshServer(on)
  BY DEF Init
<1>4. on \in BOOLEAN
  BY <1>3, DashboardAssumption
<1>5. UiTypeOK
  BY <1>3, <1>4, FreshType DEF Init, Stage
<1>6. ActorTypeOK
  BY <1>3 DEF Init, FreshServer, ActorTypeOK
<1> QED BY <1>1, <1>5, <1>6, TypeParts

\* A lifecycle command of either kind of actor keeps all it touches typed.
LEMMA NodeCommandType ==
  ASSUME HostTypeOK, ActorTypeOK, NEW a \in Actor, NEW n \in Node, NEW action,
         NodeCommand(a, n, action)
  PROVE  HostTypeOK' /\ ActorTypeOK'
<1>1. HostTypeOK'
  BY DockerType DEF NodeCommand
<1>2. HelperOwed(n, action) \in Node \cup {None}
  BY DEF HelperOwed
<1>3. ActorTypeOK'
  BY <1>2 DEF NodeCommand, ActorTypeOK
<1> QED BY <1>1, <1>3

\* Requests keep the dashboard well typed.
LEMMA RequestType == TypeOK /\ Request => TypeOK'
<1> SUFFICES ASSUME HostTypeOK, EngineTypeOK, UiTypeOK, ActorTypeOK, Request
             PROVE  HostTypeOK' /\ EngineTypeOK' /\ UiTypeOK' /\ ActorTypeOK'
  BY DEF TypeOK, UiTypeOK, ActorTypeOK
<1> USE DashboardAssumption
<1>1. ASSUME NEW sel, NEW f \in Fault, HandleLinks(sel, f)
      PROVE  HostTypeOK' /\ EngineTypeOK' /\ UiTypeOK' /\ ActorTypeOK'
  <2>1. links' \in LinkSet
    BY <1>1 DEF HandleLinks, UiTypeOK, LinkSet
  <2>2. EngineTypeOK'
    BY <1>1, <2>1, EffectiveType, BeginType DEF HandleLinks, Reconcile
  <2>3. HostTypeOK' /\ ActorTypeOK'
    BY <1>1 DEF HandleLinks, HostTypeOK, hostVars, ActorTypeOK
  <2>4. UiTypeOK'
    BY <1>1, <2>1 DEF HandleLinks, UiTypeOK, loopVars, timerVars, fluxVars, monkeyVars
  <2> QED BY <2>2, <2>3, <2>4
<1>2. CASE HandleClear
  <2>1. EngineTypeOK'
    BY <1>2, BeginType DEF HandleClear
  <2>2. HostTypeOK' /\ ActorTypeOK'
    BY <1>2 DEF HandleClear, HostTypeOK, hostVars, ActorTypeOK
  <2>3. UiTypeOK'
    BY <1>2, NoLinksType DEF HandleClear, UiTypeOK, loopVars, timerVars, fluxVars, monkeyVars
  <2> QED BY <2>1, <2>2, <2>3
<1>3. ASSUME NEW on \in {FALSE, UseFlux}, SetFlux(on)
      PROVE  HostTypeOK' /\ EngineTypeOK' /\ UiTypeOK' /\ ActorTypeOK'
  <2>1. HostTypeOK' /\ ActorTypeOK' /\ EngineTypeOK'
    BY <1>3 DEF SetFlux, HostTypeOK, hostVars, ActorTypeOK, EngineTypeOK, engineVars
  <2>2. UiTypeOK'
    BY <1>3 DEF SetFlux, UiTypeOK, boardVars, loopVars, timerVars, monkeyVars
  <2> QED BY <2>1, <2>2
<1>4. ASSUME NEW k \in Pair, HandleFlapOn(k)
      PROVE  HostTypeOK' /\ EngineTypeOK' /\ UiTypeOK' /\ ActorTypeOK'
  <2>1. HostTypeOK' /\ ActorTypeOK' /\ EngineTypeOK'
    BY <1>4 DEF HandleFlapOn, HostTypeOK, hostVars, ActorTypeOK, EngineTypeOK, engineVars
  <2>2. UiTypeOK'
    BY <1>4 DEF HandleFlapOn, UiTypeOK, timerVars, fluxVars, monkeyVars
  <2> QED BY <2>1, <2>2
<1>5. ASSUME NEW k \in Pair, HandleFlapOff(k)
      PROVE  HostTypeOK' /\ EngineTypeOK' /\ UiTypeOK' /\ ActorTypeOK'
  <2>1. HostTypeOK' /\ ActorTypeOK'
    BY <1>5 DEF HandleFlapOff, HostTypeOK, hostVars, ActorTypeOK
  <2>2. UiTypeOK'
    BY <1>5 DEF HandleFlapOff, UiTypeOK, loopVars, timerVars, fluxVars, monkeyVars
  <2>3. EngineTypeOK'
    BY <1>5, <2>2, EffectiveType, BeginType DEF HandleFlapOff, Reconcile, UiTypeOK
  <2> QED BY <2>1, <2>2, <2>3
<1>6. ASSUME NEW mode \in MonkeyModes, SetMonkeyOn(mode)
      PROVE  HostTypeOK' /\ EngineTypeOK' /\ UiTypeOK' /\ ActorTypeOK'
  <2>1. HostTypeOK' /\ ActorTypeOK' /\ EngineTypeOK'
    BY <1>6 DEF SetMonkeyOn, MonkeyFrame, HostTypeOK, hostVars, ActorTypeOK,
                EngineTypeOK, engineVars
  <2>2. UiTypeOK'
    BY <1>6 DEF SetMonkeyOn, MonkeyFrame, UiTypeOK, boardVars, loopVars, timerVars, fluxVars
  <2> QED BY <2>1, <2>2
<1>7. CASE SetMonkeyOff
  <2>1. HostTypeOK' /\ ActorTypeOK' /\ EngineTypeOK'
    BY <1>7 DEF SetMonkeyOff, MonkeyFrame, HostTypeOK, hostVars, ActorTypeOK,
                EngineTypeOK, engineVars
  <2>2. UiTypeOK'
    BY <1>7 DEF SetMonkeyOff, MonkeyFrame, UiTypeOK, boardVars, loopVars, timerVars, fluxVars
  <2> QED BY <2>1, <2>2
<1>8. ASSUME NEW h \in Handler, NEW n \in Node, NEW action, HandleNode(h, n, action)
      PROVE  HostTypeOK' /\ EngineTypeOK' /\ UiTypeOK' /\ ActorTypeOK'
  <2>1. HostTypeOK' /\ ActorTypeOK'
    BY <1>8, NodeCommandType DEF HandleNode, Actor
  <2>2. EngineTypeOK'
    BY <1>8 DEF HandleNode, EngineTypeOK, engineVars
  <2>3. UiTypeOK'
    BY <1>8 DEF HandleNode, UiTypeOK, uiVars, boardVars, loopVars, timerVars,
                fluxVars, monkeyVars
  <2> QED BY <2>1, <2>2, <2>3
<1> QED BY <1>1, <1>2, <1>3, <1>4, <1>5, <1>6, <1>7, <1>8 DEF Request, HandleLink
\* What the process does of its own accord keeps the dashboard well typed.
LEMMA BackgroundType == TypeInv /\ Background => TypeOK'
<1> SUFFICES ASSUME HostTypeOK, EngineTypeOK, UiTypeOK, ActorTypeOK, VictimHeld,
                    Background
             PROVE  HostTypeOK' /\ EngineTypeOK' /\ UiTypeOK' /\ ActorTypeOK'
  BY DEF TypeInv, TypeOK, UiTypeOK, ActorTypeOK
<1> USE DashboardAssumption
<1>1. CASE EngineRuns
  <2>1. HostTypeOK' /\ EngineTypeOK'
    BY <1>1, CallerType, WorkerType DEF EngineRuns
  <2>2. UiTypeOK'
    BY <1>1 DEF EngineRuns, UiTypeOK, uiVars, boardVars, loopVars, timerVars,
                fluxVars, monkeyVars
  <2>3. ActorTypeOK'
    BY <1>1 DEF EngineRuns, ActorTypeOK, InFlight
  <2> QED BY <2>1, <2>2, <2>3
<1>2. CASE ReconcileReturn
  <2>1. HostTypeOK' /\ ActorTypeOK'
    BY <1>2 DEF ReconcileReturn, ReconcileEnd, HostTypeOK, hostVars, ActorTypeOK
  <2>2. EngineTypeOK'
    BY <1>2, BeginType DEF ReconcileReturn
  <2>3. UiTypeOK'
    BY <1>2 DEF ReconcileReturn, Armed, UiTypeOK, boardVars, loopVars, fluxVars,
                monkeyVars
  <2> QED BY <2>1, <2>2, <2>3
<1>3. CASE ClearReturn
  <2>1. HostTypeOK' /\ ActorTypeOK'
    BY <1>3 DEF ClearReturn, ClearEnd, HostTypeOK, hostVars, ActorTypeOK
  <2>2. EngineTypeOK'
    BY <1>3, BeginType DEF ClearReturn
  <2>3. UiTypeOK'
    BY <1>3 DEF ClearReturn, UiTypeOK, boardVars, loopVars, timerVars, fluxVars,
                monkeyVars, Stage
  <2> QED BY <2>1, <2>2, <2>3
<1>4. CASE DeadmanFire \/ FluxTick
  <2>1. HostTypeOK' /\ ActorTypeOK' /\ EngineTypeOK'
    BY <1>4 DEF DeadmanFire, FluxTick, HostTypeOK, hostVars, ActorTypeOK,
                EngineTypeOK, engineVars
  <2>2. UiTypeOK'
    BY <1>4 DEF DeadmanFire, FluxTick, UiTypeOK, boardVars, loopVars, timerVars,
                fluxVars, monkeyVars
  <2> QED BY <2>1, <2>2
<1>5. CASE DeadmanRun
  <2>1. HostTypeOK' /\ ActorTypeOK'
    BY <1>5 DEF DeadmanRun, HostTypeOK, hostVars, ActorTypeOK
  <2>2. EngineTypeOK'
    BY <1>5, BeginType DEF DeadmanRun
  <2>3. UiTypeOK'
    BY <1>5, NoLinksType DEF DeadmanRun, UiTypeOK, loopVars, fluxVars, monkeyVars
  <2> QED BY <2>1, <2>2, <2>3
<1>6. CASE FluxRun
  <2>1. HostTypeOK' /\ ActorTypeOK'
    BY <1>6 DEF FluxRun, HostTypeOK, hostVars, ActorTypeOK
  <2>2. UiTypeOK'
    BY <1>6 DEF FluxRun, UiTypeOK, boardVars, loopVars, timerVars, monkeyVars
  <2>3. EngineTypeOK'
    BY <1>6, <2>2, EffectiveType, BeginType
       DEF FluxRun, Reconcile, UiTypeOK, EngineTypeOK, engineVars
  <2> QED BY <2>1, <2>2, <2>3
<1>7. ASSUME NEW l \in FlapLoop, LoopStops(l)
      PROVE  HostTypeOK' /\ EngineTypeOK' /\ UiTypeOK' /\ ActorTypeOK'
  <2>1. HostTypeOK' /\ ActorTypeOK' /\ EngineTypeOK'
    BY <1>7 DEF LoopStops, HostTypeOK, hostVars, ActorTypeOK, EngineTypeOK, engineVars
  <2>2. UiTypeOK'
    BY <1>7 DEF LoopStops, LoopEnds, UiTypeOK, boardVars, timerVars, fluxVars, monkeyVars
  <2> QED BY <2>1, <2>2
<1>8. ASSUME NEW l \in FlapLoop, NEW down \in BOOLEAN, SetPhase(l, down)
      PROVE  HostTypeOK' /\ EngineTypeOK' /\ UiTypeOK' /\ ActorTypeOK'
  <2>1. HostTypeOK' /\ ActorTypeOK'
    BY <1>8 DEF SetPhase, HostTypeOK, hostVars, ActorTypeOK
  <2>2. UiTypeOK'
    BY <1>8 DEF SetPhase, LoopEnds, UiTypeOK, timerVars, fluxVars, monkeyVars
  <2>3. EngineTypeOK'
    BY <1>8, <2>2, EffectiveType, BeginType
       DEF SetPhase, Reconcile, UiTypeOK, EngineTypeOK, engineVars
  <2> QED BY <2>1, <2>2, <2>3
<1>9. ASSUME NEW a \in Actor, DropHelper(a)
      PROVE  HostTypeOK' /\ EngineTypeOK' /\ UiTypeOK' /\ ActorTypeOK'
  <2>1. pending[a] \in Node
    BY <1>9 DEF DropHelper, ActorTypeOK
  <2>2. HostTypeOK' /\ ActorTypeOK'
    BY <1>9, <2>1 DEF DropHelper, RemoveHelper, HostTypeOK, HelperState, ActorTypeOK
  <2>3. EngineTypeOK' /\ UiTypeOK'
    BY <1>9 DEF DropHelper, EngineTypeOK, engineVars, UiTypeOK, uiVars, boardVars,
                loopVars, timerVars, fluxVars, monkeyVars
  <2> QED BY <2>2, <2>3
<1>10. ASSUME NEW m \in Monkey, MonkeyStep(m)
       PROVE  HostTypeOK' /\ EngineTypeOK' /\ UiTypeOK' /\ ActorTypeOK'
  <2>1. CASE MonkeyStops(m)
    <3>1. HostTypeOK' /\ ActorTypeOK' /\ EngineTypeOK'
      BY <2>1 DEF MonkeyStops, MonkeyFrame, HostTypeOK, hostVars, ActorTypeOK,
                  EngineTypeOK, engineVars
    <3>2. UiTypeOK'
      BY <2>1 DEF MonkeyStops, MonkeyFrame, UiTypeOK, boardVars, loopVars,
                  timerVars, fluxVars
    <3> QED BY <3>1, <3>2
  <2>2. CASE MonkeyPicks(m)
    <3>1. HostTypeOK' /\ ActorTypeOK' /\ EngineTypeOK'
      BY <2>2 DEF MonkeyPicks, MonkeyFrame, HostTypeOK, hostVars, ActorTypeOK,
                  EngineTypeOK, engineVars
    <3>2. UiTypeOK'
      BY <2>2 DEF MonkeyPicks, MonkeyFrame, UiTypeOK, boardVars, loopVars,
                  timerVars, fluxVars, RunningNodes
    <3> QED BY <3>1, <3>2
  <2>3. ASSUME NEW action, MonkeyCommand(m, action), victim[m] \in Node
        PROVE  HostTypeOK' /\ ActorTypeOK'
    <3>1. CASE NodeCommand(m, victim[m], action)
      BY <3>1, <2>3, NodeCommandType DEF Actor
    <3>2. CASE UNCHANGED <<hostVars, pending, touched>>
      BY <3>2 DEF HostTypeOK, hostVars, ActorTypeOK
    <3> QED BY <2>3, <3>1, <3>2 DEF MonkeyCommand
  <2>4. monkeyAt[m] \in {"strike", "hold"} => victim[m] \in Node
    BY DEF VictimHeld, UiTypeOK
  <2>5. CASE MonkeyStrikes(m)
    <3>1. HostTypeOK' /\ ActorTypeOK'
      BY <2>3, <2>4, <2>5 DEF MonkeyStrikes
    <3>2. EngineTypeOK' /\ UiTypeOK'
      BY <2>5 DEF MonkeyStrikes, EngineTypeOK, engineVars, UiTypeOK, boardVars,
                  loopVars, timerVars, fluxVars
    <3> QED BY <3>1, <3>2
  <2>6. CASE MonkeyRecovers(m)
    <3>1. HostTypeOK' /\ ActorTypeOK'
      BY <2>3, <2>4, <2>6 DEF MonkeyRecovers
    <3>2. EngineTypeOK' /\ UiTypeOK'
      BY <2>6 DEF MonkeyRecovers, EngineTypeOK, engineVars, UiTypeOK, boardVars,
                  loopVars, timerVars, fluxVars
    <3> QED BY <3>1, <3>2
  <2> QED BY <1>10, <2>1, <2>2, <2>5, <2>6 DEF MonkeyStep
<1> QED BY <1>1, <1>2, <1>3, <1>4, <1>5, <1>6, <1>7, <1>8, <1>9, <1>10 DEF Background

\* Shutting down, dying and starting again keep the dashboard well typed.
LEMMA ShutdownType == TypeOK /\ Shutdown => TypeOK'
<1> SUFFICES ASSUME HostTypeOK, EngineTypeOK, UiTypeOK, ActorTypeOK, Shutdown
             PROVE  HostTypeOK' /\ EngineTypeOK' /\ UiTypeOK' /\ ActorTypeOK'
  BY DEF TypeOK, UiTypeOK, ActorTypeOK
<1> USE DashboardAssumption
<1>1. CASE Signal \/ StopFlux \/ StopMonkey \/ StopFlaps
  <2>1. HostTypeOK' /\ ActorTypeOK' /\ EngineTypeOK'
    BY <1>1 DEF Signal, StopFlux, StopMonkey, StopFlaps, HostTypeOK, hostVars,
                ActorTypeOK, EngineTypeOK, engineVars
  <2>2. CASE Signal \/ StopFlux \/ StopMonkey
    BY <2>1, <2>2 DEF Signal, StopFlux, StopMonkey, UiTypeOK, boardVars, loopVars,
                      timerVars, fluxVars, monkeyVars, Stage
  <2>3. CASE StopFlaps
    <3>1. flaps' \in [Pair -> FlapLoop \cup {None}] /\ phaseDown' \in [Pair -> BOOLEAN]
      BY <2>3 DEF StopFlaps
    <3>2. stage' \in Stage
      BY <2>3 DEF StopFlaps, Stage
    <3>3. UNCHANGED <<links, loopVars, timerVars, fluxVars, monkeyVars>>
      BY <2>3 DEF StopFlaps
    <3> QED BY <2>1, <3>1, <3>2, <3>3 DEF UiTypeOK, loopVars, timerVars, fluxVars, monkeyVars
  <2> QED BY <1>1, <2>2, <2>3
<1>2. CASE ShutdownClear
  <2>1. HostTypeOK' /\ ActorTypeOK'
    BY <1>2 DEF ShutdownClear, HostTypeOK, hostVars, ActorTypeOK
  <2>2. EngineTypeOK'
    BY <1>2, BeginType DEF ShutdownClear
  <2>3. UiTypeOK'
    BY <1>2, NoLinksType DEF ShutdownClear, UiTypeOK, loopVars, timerVars,
                             fluxVars, monkeyVars, Stage
  <2> QED BY <2>1, <2>2, <2>3
<1>3. CASE Gone
  <2>1. HostTypeOK' /\ ActorTypeOK'
    BY <1>3 DEF Gone, ResetServer, HostTypeOK, hostVars, ActorTypeOK
  <2>2. EngineTypeOK'
    BY <1>3, BeginType DEF Gone
  <2>3. UiTypeOK'
    BY <1>3, FreshType DEF Gone, Stage
  <2> QED BY <2>1, <2>2, <2>3
<1>4. CASE Restart
  <2>1. PICK on \in {FALSE, UseFlux} : ResetServer(on)
    BY <1>4 DEF Restart
  <2>2. HostTypeOK' /\ ActorTypeOK' /\ EngineTypeOK'
    BY <1>4, <2>1 DEF Restart, ResetServer, HostTypeOK, hostVars, ActorTypeOK,
                      EngineTypeOK, engineVars
  <2>3. UiTypeOK'
    BY <1>4, <2>1, FreshType DEF Restart, Stage
  <2> QED BY <2>2, <2>3
<1> QED BY <1>1, <1>2, <1>3, <1>4 DEF Shutdown, Exit, Crash

\* A monkey keeps its victim from the moment it picks it until it recovers it.
LEMMA VictimStep == TypeInv /\ [Next]_vars => VictimHeld'
<1> SUFFICES ASSUME TypeOK, VictimHeld, [Next]_vars
             PROVE  VictimHeld'
  BY DEF TypeInv
<1> USE DEF VictimHeld
<1>1. CASE UNCHANGED monkeyVars
  BY <1>1 DEF monkeyVars
<1>2. ASSUME NEW mode \in MonkeyModes, SetMonkeyOn(mode)
      PROVE  VictimHeld'
  BY <1>2 DEF SetMonkeyOn, TypeOK
<1>3. CASE SetMonkeyOff
  BY <1>3 DEF SetMonkeyOff
<1>4. ASSUME NEW m \in Monkey, MonkeyStep(m)
      PROVE  VictimHeld'
  <2>1. CASE MonkeyStops(m)
    BY <2>1 DEF MonkeyStops, TypeOK
  <2>2. CASE MonkeyPicks(m)
    BY <2>2, DashboardAssumption DEF MonkeyPicks, RunningNodes, TypeOK
  <2>3. CASE MonkeyStrikes(m)
    BY <2>3 DEF MonkeyStrikes, TypeOK
  <2>4. CASE MonkeyRecovers(m)
    BY <2>4 DEF MonkeyRecovers, TypeOK
  <2> QED BY <1>4, <2>1, <2>2, <2>3, <2>4 DEF MonkeyStep
<1>5. CASE StopMonkey
  BY <1>5 DEF StopMonkey
<1>6. ASSUME NEW on, ResetServer(on)
      PROVE  VictimHeld'
  BY <1>6 DEF ResetServer
<1>7. CASE Request
  BY <1>1, <1>2, <1>3, <1>7
     DEF Request, HandleLink, HandleLinks, HandleClear, SetFlux, HandleFlapOn,
         HandleFlapOff, HandleNode, uiVars
<1>8. CASE Background
  BY <1>1, <1>4, <1>8
     DEF Background, EngineRuns, ReconcileReturn, ClearReturn, DeadmanFire,
         DeadmanRun, FluxTick, FluxRun, LoopStops, SetPhase, DropHelper, uiVars
<1>9. CASE Shutdown
  BY <1>1, <1>5, <1>6, <1>9
     DEF Shutdown, Signal, StopFlux, StopFlaps, ShutdownClear, Exit, Crash, Gone, Restart
<1> QED BY <1>1, <1>7, <1>8, <1>9 DEF Next, vars, uiVars

\* The inductive invariant behind TypeCorrect.
LEMMA TypeInvariant == Spec => []TypeInv
<1>1. Init => TypeInv
  BY InitType DEF Init, FreshServer, TypeInv, VictimHeld
<1>2. TypeInv /\ [Next]_vars => TypeInv'
  <2> SUFFICES ASSUME TypeInv, [Next]_vars PROVE TypeInv'
    OBVIOUS
  <2>1. CASE Next
    BY <2>1, RequestType, BackgroundType, ShutdownType, VictimStep DEF Next, TypeInv
  <2>2. CASE UNCHANGED vars
    <3>1. TypeOK'
      BY <2>2 DEF TypeInv, TypeOK, HostTypeOK, EngineTypeOK, vars, hostVars,
                  engineVars, uiVars, boardVars, loopVars, timerVars, fluxVars,
                  monkeyVars
    <3> QED BY <3>1, VictimStep DEF TypeInv
  <2> QED BY <2>1, <2>2
<1> QED BY <1>1, <1>2, PTL DEF Spec

\* Every state of the dashboard is well typed, for any number of nodes,
\* addresses, profiles and goroutines, with or without docker failures.
THEOREM TypeCorrect == Spec => []TypeOK
<1>1. TypeInv => TypeOK
  BY DEF TypeInv
<1> QED BY <1>1, TypeInvariant, PTL
-----------------------------------------------------------------------------
(***************************************************************************)
(* Flap loops                                                              *)
(***************************************************************************)

\* The bookkeeping of flap loops is inductive as it stands: a loop that still
\* runs but lost its pair to another loop, or to stopAll, is in nobody's flaps,
\* so whatever it does touches no flap in force.
LEMMA FlapStep == TypeOK /\ FlapPhaseFollowsOwner /\ [Next]_vars => FlapPhaseFollowsOwner'
<1> SUFFICES ASSUME TypeOK, FlapPhaseFollowsOwner, [Next]_vars
             PROVE  FlapPhaseFollowsOwner'
  OBVIOUS
<1> USE DEF FlapPhaseFollowsOwner
<1>0. /\ flaps \in [Pair -> FlapLoop \cup {None}]
      /\ phaseDown \in [Pair -> BOOLEAN]
      /\ loopAt \in [FlapLoop -> {"free", "start", "down", "up"}]
      /\ loopPair \in [FlapLoop -> Pair \cup {{}}]
      /\ None \notin FlapLoop
  BY DashboardAssumption DEF TypeOK
<1>1. CASE UNCHANGED <<flaps, phaseDown, loopVars>>
  BY <1>1 DEF loopVars
<1>2. ASSUME NEW k \in Pair, HandleFlapOn(k)
      PROVE  FlapPhaseFollowsOwner'
  <2>1. PICK l \in FlapLoop :
          /\ loopAt[l] = "free"
          /\ flaps' = [flaps EXCEPT ![k] = l]
          /\ loopAt' = [loopAt EXCEPT ![l] = "start"]
          /\ loopPair' = [loopPair EXCEPT ![l] = k]
    BY <1>2 DEF HandleFlapOn
  <2>2. phaseDown' = [phaseDown EXCEPT ![k] = FALSE]
    BY <1>2 DEF HandleFlapOn
  <2>3. SUFFICES ASSUME NEW j \in Pair, flaps'[j] # None
                 PROVE  /\ loopPair'[flaps'[j]] = j
                        /\ loopAt'[flaps'[j]] # "free"
                        /\ phaseDown'[j] = (loopAt'[flaps'[j]] = "down")
    OBVIOUS
  <2>4. CASE j = k
    BY <1>0, <2>1, <2>2, <2>4
  <2>5. CASE j # k
    <3>1. flaps'[j] = flaps[j] /\ flaps[j] # l
      BY <1>0, <2>1, <2>3, <2>5
    <3> QED BY <1>0, <2>1, <2>2, <2>3, <2>5, <3>1
  <2> QED BY <2>4, <2>5
<1>3. ASSUME NEW k \in Pair, HandleFlapOff(k)
      PROVE  FlapPhaseFollowsOwner'
  BY <1>0, <1>3 DEF HandleFlapOff, loopVars
<1>4. ASSUME NEW l \in FlapLoop, NEW down \in BOOLEAN, SetPhase(l, down), OwnsFlap(l)
      PROVE  FlapPhaseFollowsOwner'
  <2>1. /\ phaseDown' = [phaseDown EXCEPT ![loopPair[l]] = down]
        /\ loopAt' = [loopAt EXCEPT ![l] = IF down THEN "down" ELSE "up"]
        /\ UNCHANGED <<flaps, loopPair>>
    BY <1>4 DEF SetPhase
  <2>2. SUFFICES ASSUME NEW j \in Pair, flaps[j] # None
                 PROVE  /\ loopPair[flaps[j]] = j
                        /\ loopAt'[flaps[j]] # "free"
                        /\ phaseDown'[j] = (loopAt'[flaps[j]] = "down")
    BY <2>1
  <2>3. CASE flaps[j] = l
    BY <1>0, <2>1, <2>2, <2>3
  <2>4. CASE flaps[j] # l
    <3>1. loopPair[l] # j
      BY <1>4, <2>4 DEF OwnsFlap
    <3> QED BY <1>0, <2>1, <2>2, <2>4, <3>1
  <2> QED BY <2>3, <2>4
<1>5. ASSUME NEW l \in FlapLoop, ~OwnsFlap(l), LoopEnds(l), UNCHANGED <<flaps, phaseDown>>
      PROVE  FlapPhaseFollowsOwner'
  BY <1>0, <1>5 DEF LoopEnds, OwnsFlap
<1>6. CASE StopFlaps
  BY <1>6 DEF StopFlaps
<1>7. ASSUME NEW on, ResetServer(on)
      PROVE  FlapPhaseFollowsOwner'
  BY <1>7 DEF ResetServer
<1>8. CASE Request
  BY <1>1, <1>2, <1>3, <1>8
     DEF Request, HandleLink, HandleLinks, HandleClear, SetFlux, SetMonkeyOn,
         SetMonkeyOff, MonkeyFrame, HandleNode, uiVars, boardVars
<1>9. ASSUME NEW l \in FlapLoop, LoopStops(l)
      PROVE  FlapPhaseFollowsOwner'
  BY <1>5, <1>9 DEF LoopStops, FlapStopped, OwnsFlap, boardVars
<1>10. ASSUME NEW l \in FlapLoop, NEW down \in BOOLEAN, SetPhase(l, down)
       PROVE  FlapPhaseFollowsOwner'
  BY <1>4, <1>5, <1>10 DEF SetPhase
<1>11. ASSUME NEW m \in Monkey, MonkeyStep(m)
       PROVE  FlapPhaseFollowsOwner'
  BY <1>1, <1>11 DEF MonkeyStep, MonkeyStops, MonkeyPicks, MonkeyStrikes,
                     MonkeyRecovers, MonkeyFrame, boardVars
<1>12. CASE Background
  BY <1>1, <1>9, <1>10, <1>11, <1>12
     DEF Background, EngineRuns, ReconcileReturn, ClearReturn, DeadmanFire,
         DeadmanRun, FluxTick, FluxRun, DropHelper, uiVars, boardVars
<1>13. CASE Shutdown
  BY <1>1, <1>6, <1>7, <1>13
     DEF Shutdown, Signal, StopFlux, StopMonkey, ShutdownClear, Exit, Crash,
         Gone, Restart, boardVars
<1> QED BY <1>1, <1>8, <1>12, <1>13 DEF Next, vars, uiVars, boardVars

\* The phase of a flap is the phase of the loop that owns it, however many
\* loops were superseded and still wait for the mutex.
THEOREM FlapPhaseCorrect == Spec => []FlapPhaseFollowsOwner
<1>1. Init => FlapPhaseFollowsOwner
  BY DEF Init, FreshServer, FlapPhaseFollowsOwner
<1> QED BY <1>1, FlapStep, TypeCorrect, PTL DEF Spec
-----------------------------------------------------------------------------
(***************************************************************************)
(* Stale helpers                                                           *)
(***************************************************************************)

\* Only a lifecycle command makes a helper stale, and then its actor owes the
\* removal of that helper.
LEMMA CommandOwesHelper ==
  ASSUME TypeOK, NEW a \in Actor, NEW m \in Node, NEW action, NodeCommand(a, m, action),
         stage # "gone", StaleHelperIsDoomed, UNCHANGED stage
  PROVE  StaleHelperIsDoomed'
<1> SUFFICES ASSUME NEW n \in Node, helper'[n] = "stale"
             PROVE  n \in InFlight'
  BY DEF StaleHelperIsDoomed
<1>1. /\ pending \in [Actor -> Node \cup {None}]
      /\ helper \in [Node -> HelperState]
      /\ None \notin Node
  BY DashboardAssumption DEF TypeOK, HostTypeOK
<1>2. pending[a] = None /\ pending' = [pending EXCEPT ![a] = HelperOwed(m, action)]
  BY DEF NodeCommand
<1>3. CASE helper[n] = "stale"
  <2>1. PICK b \in Actor : pending[b] = n
    BY <1>3 DEF StaleHelperIsDoomed, InFlight
  <2>2. pending'[b] = n
    BY <1>1, <1>2, <2>1
  <2> QED BY <1>1, <2>2 DEF InFlight
<1>4. CASE helper[n] # "stale"
  <2>1. action \in {"kill", "stop"} /\ n = m
    BY <1>1, <1>4 DEF NodeCommand, Docker, Freeze, Thaw, Halt, Boot, AlreadyThere, hostVars
  <2>2. pending'[a] = n
    BY <1>1, <1>2, <2>1 DEF HelperOwed
  <2> QED BY <1>1, <2>2 DEF InFlight
<1> QED BY <1>3, <1>4

\* Neither the engine nor the removal of a helper leaves an unowned stale one.
LEMMA StaleStep ==
  ASSUME Restarts = FALSE
  PROVE  TypeInv /\ StaleHelperIsDoomed /\ [Next]_vars => StaleHelperIsDoomed'
<1> SUFFICES ASSUME TypeOK, VictimHeld, StaleHelperIsDoomed, [Next]_vars
             PROVE  StaleHelperIsDoomed'
  BY DEF TypeInv
<1>1. ASSUME UNCHANGED pending, stage # "gone",
             \A n \in Node : helper'[n] = "stale" => helper[n] = "stale"
      PROVE  StaleHelperIsDoomed'
  BY <1>1 DEF StaleHelperIsDoomed, InFlight
<1>2. ASSUME UNCHANGED <<pending, helper>>, stage' # "gone" => stage # "gone"
      PROVE  StaleHelperIsDoomed'
  BY <1>2 DEF StaleHelperIsDoomed, InFlight
<1>3. CASE EngineRuns
  <2>1. ASSUME Listing(UI) \/ ListingFails(UI) \/ CallerRuns(UI)
        PROVE  \A n \in Node : helper'[n] = "stale" => helper[n] = "stale"
    BY <2>1 DEF Listing, ListingFails, CallerRuns, ListNodes, ClearList, ListFails,
                InspectFails, HelpersFail, ClearListFails, InspectIPs, PlanFrom, StartWorkers,
                ClearHelpers, RemoveHelpers, hostVars
  <2>2. ASSUME NEW m \in Node, WorkerRuns(UI, m) \/ WorkerFails(UI, m)
        PROVE  \A n \in Node : helper'[n] = "stale" => helper[n] = "stale"
    BY <2>2 DEF TypeOK, HostTypeOK, WorkerRuns, WorkerFails, EnsureHelper,
                CreateHelper, StartHelper, ExecShape, ChooseHelper, ExecDelete,
                RunDelete, CreateHelperFails, RemoveHelper, ShapeFails,
                DeleteFails, hostVars
  <2> QED BY <1>1, <1>3, <2>1, <2>2 DEF EngineRuns
<1>4. ASSUME NEW a \in Actor, DropHelper(a)
      PROVE  StaleHelperIsDoomed'
  <2>1. SUFFICES ASSUME NEW n \in Node, helper'[n] = "stale", stage # "gone"
                 PROVE  n \in InFlight'
    BY <1>4 DEF StaleHelperIsDoomed, DropHelper
  <2>2. helper[n] = "stale" /\ pending[a] # n
    BY <1>4, <2>1 DEF DropHelper, RemoveHelper, TypeOK, HostTypeOK
  <2>3. PICK b \in Actor : pending[b] = n
    BY <2>1, <2>2 DEF StaleHelperIsDoomed, InFlight
  <2>4. pending'[b] = n
    BY <1>4, <2>2, <2>3 DEF DropHelper, TypeOK
  <2> QED BY <2>4, DashboardAssumption DEF InFlight
<1>5. ASSUME NEW h \in Handler, NEW n \in Node, NEW action, HandleNode(h, n, action)
      PROVE  StaleHelperIsDoomed'
  BY <1>5, CommandOwesHelper DEF HandleNode, Serving, uiVars, Actor, Stage
<1>6. ASSUME NEW m \in Monkey, MonkeyStep(m)
      PROVE  StaleHelperIsDoomed'
  <2>1. CASE MonkeyStops(m) \/ MonkeyPicks(m)
    BY <1>2, <2>1 DEF MonkeyStops, MonkeyPicks, MonkeyFrame, hostVars
  <2>2. ASSUME NEW action, MonkeyCommand(m, action), stage # "gone", UNCHANGED stage,
               victim[m] \in Node
        PROVE  StaleHelperIsDoomed'
    BY <1>2, <2>2, CommandOwesHelper DEF MonkeyCommand, Actor, hostVars
  <2>3. monkeyAt[m] \in {"strike", "hold"} => victim[m] \in Node
    BY DEF VictimHeld, TypeOK
  <2>4. CASE MonkeyStrikes(m)
    BY <2>2, <2>3, <2>4 DEF MonkeyStrikes
  <2>5. CASE MonkeyRecovers(m)
    BY <2>2, <2>3, <2>5 DEF MonkeyRecovers
  <2> QED BY <1>6, <2>1, <2>4, <2>5 DEF MonkeyStep
<1>7. CASE Gone
  BY <1>7 DEF Gone, StaleHelperIsDoomed
<1>8. CASE Request
  BY <1>2, <1>5, <1>8
     DEF Request, HandleLink, HandleLinks, HandleClear, SetFlux, HandleFlapOn,
         HandleFlapOff, SetMonkeyOn, SetMonkeyOff, MonkeyFrame, hostVars
<1>9. CASE Background
  BY <1>2, <1>3, <1>4, <1>6, <1>9
     DEF Background, ReconcileReturn, ReconcileEnd, ClearReturn, ClearEnd,
         DeadmanFire, DeadmanRun, FluxTick, FluxRun, LoopStops, SetPhase, hostVars
<1>10. CASE Shutdown
  BY <1>2, <1>7, <1>10
     DEF Shutdown, Signal, StopFlux, StopMonkey, StopFlaps, ShutdownClear, Exit,
         Crash, Restart, hostVars
<1> QED BY <1>2, <1>8, <1>9, <1>10 DEF Next, vars, hostVars, uiVars

\* As long as no dashboard inherits the helpers of one that was killed, a
\* helper attached to a dead network namespace is about to be removed.
THEOREM StaleHelpersRemoved ==
  ASSUME Restarts = FALSE
  PROVE  Spec => []StaleHelperIsDoomed
<1>1. Init => StaleHelperIsDoomed
  BY DEF Init, HostInit, StaleHelperIsDoomed
<1> QED BY <1>1, StaleStep, TypeInvariant, PTL DEF Spec
==============================================================================
