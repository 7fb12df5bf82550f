--------------------------- MODULE ChaosDashboard ---------------------------
(***************************************************************************)
(* The chaos dashboard (cmd/anydbver/chaos_web.go): one server process     *)
(* whose HTTP handlers, flap loops, flux ticker, chaos monkey, dead-man    *)
(* timer and shutdown goroutine share the fields of chaosServer under one  *)
(* mutex, and drive the engine of ChaosEngine with the mutex held.         *)
(*                                                                         *)
(* The mutex is free exactly when the dashboard's engine call is "idle":   *)
(* a critical section that calls no engine operation is one action, one    *)
(* that does is the action that begins it and the actions that follow      *)
(* until ReconcileReturn or ClearReturn.  Node lifecycle commands          *)
(* (handleNode, the monkey) do not take the mutex.                         *)
(***************************************************************************)
EXTENDS ChaosEngine

CONSTANTS
  UI,            \* the dashboard, a member of Proc
  None,          \* nil
  FlapLoop,      \* goroutines running flapLoop (a bound on live ones)
  Monkey,        \* goroutines running monkeyLoop (a bound on live ones)
  Handler,       \* concurrent /api/node requests
  NodeActions,   \* the actions users request of /api/node
  MonkeyModes,   \* the modes users choose for the monkey
  TTL,           \* --ttl, in abstract units: 0 disables the dead-man timer
  UseFlux,       \* whether users switch flux on
  LateRequests,  \* whether a request may still be served after the signal
  Crashes,       \* whether the process may be killed
  Restarts       \* whether a dashboard is started again afterwards

ASSUME DashboardAssumption ==
  /\ UI \in Proc
  /\ None \notin Node \cup FlapLoop \cup Monkey
  /\ Handler \cap Monkey = {}
  /\ NodeActions \subseteq {"pause", "unpause", "kill", "start", "stop"}
  /\ MonkeyModes \subseteq {"pause", "kill"}
  /\ TTL \in Nat
  /\ UseFlux \in BOOLEAN /\ LateRequests \in BOOLEAN
  /\ Crashes \in BOOLEAN /\ Restarts \in BOOLEAN

VARIABLES
  links,       \* s.links: the baseline degrade of each pair
  flaps,       \* s.flaps: the loop that owns each pair's flap
  phaseDown,   \* chaosFlap.phaseDown of each pair's flap
  loopAt,      \* where each flapLoop goroutine stands
  loopPair,    \* the link key it was started with
  timer,       \* s.deadman
  fired,       \* its function has started and waits for the mutex
  fluxOn,      \* s.fluxInterval > 0
  fluxDue,     \* a flux goroutine took a tick and waits for the mutex
  monkey,      \* the monkey loop s.monkey.stop belongs to
  monkeyAt,    \* where each monkeyLoop goroutine stands
  monkeyMode,  \* the mode it was started with
  victim,      \* the node it has taken down, or is about to
  pending,     \* the node whose helper a chaosNodeAction still has to remove
  stage,       \* the life of the process
  touched      \* history: the nodes whose shaping the last reconcile may have missed

boardVars == <<links, flaps, phaseDown>>
loopVars == <<loopAt, loopPair>>
timerVars == <<timer, fired>>
fluxVars == <<fluxOn, fluxDue>>
monkeyVars == <<monkey, monkeyAt, monkeyMode, victim>>
uiVars == <<boardVars, loopVars, timerVars, fluxVars, monkeyVars, stage>>
vars == <<hostVars, engineVars, uiVars, pending, touched>>

Actor == Handler \cup Monkey

Stage == {"up", "stopFlux", "stopMonkey", "stopFlaps", "clear", "clearing",
          "close", "gone"}

TypeOK ==
  /\ HostTypeOK
  /\ EngineTypeOK
  /\ links \in LinkSet
  /\ flaps \in [Pair -> FlapLoop \cup {None}]
  /\ phaseDown \in [Pair -> BOOLEAN]
  /\ loopAt \in [FlapLoop -> {"free", "start", "down", "up"}]
  /\ loopPair \in [FlapLoop -> Pair \cup {{}}]
  /\ timer \in {"off", "armed"}
  /\ fired \in BOOLEAN
  /\ fluxOn \in BOOLEAN
  /\ fluxDue \in BOOLEAN
  /\ monkey \in Monkey \cup {None}
  /\ monkeyAt \in [Monkey -> {"free", "wait", "strike", "hold"}]
  /\ monkeyMode \in [Monkey -> {"pause", "kill"}]
  /\ victim \in [Monkey -> Node \cup {None}]
  /\ pending \in [Actor -> Node \cup {None}]
  /\ stage \in Stage
  /\ touched \subseteq Node

MuFree == call[UI] = "idle" /\ stage # "gone"

\* Handlers run until the process ends, not just until the signal.
Serving == stage = "up" \/ (LateRequests /\ stage # "gone")

\* Three variants of the switch at the end of chaosNodeAction: one that names
\* the action instead of the node, one without kill and stop, one with pause.
HelperOwedMixedUp(n, action) ==
  IF action \in {"kill", "stop", "start"} THEN action ELSE None
HelperOwedOnStart(n, action) == IF action = "start" THEN n ELSE None
HelperOwedAlways(n, action) == n

\* chaosNodeAction removes the helper after these, not after (un)pause.
HelperOwed(n, action) == IF action \in {"kill", "stop", "start"} THEN n ELSE None

\* The variant that only asks whether the pair is flapped at all.
OwnsAnyFlap(l) == flaps[loopPair[l]] # None

\* s.flaps[key] is still the flap this loop was started for.
OwnsFlap(l) == flaps[loopPair[l]] = l

\* Close of a flap's stop channel always goes with its removal from s.flaps.
FlapStopped(l) == flaps[loopPair[l]] # l

\* The variant in which an up flap heals the baseline too.
EffectiveFlapWins(base, owner, down) ==
  [k \in Pair |-> IF owner[k] = None THEN base[k]
                 ELSE IF down[k] THEN Partition ELSE NoFault]

\* effectiveLinks: a flap that is down overlays the baseline.
Effective(base, owner, down) ==
  [k \in Pair |-> IF owner[k] # None /\ down[k] THEN Partition ELSE base[k]]

\* Nodes whose lifecycle command has run but whose helper is still there.
InFlight == {pending[a] : a \in Actor} \ {None}

-----------------------------------------------------------------------------
\* The fields of a new chaosServer.
FreshServer(on) ==
  /\ links = NoLinks
  /\ flaps = [k \in Pair |-> None]
  /\ phaseDown = [k \in Pair |-> FALSE]
  /\ loopAt = [l \in FlapLoop |-> "free"]
  /\ loopPair = [l \in FlapLoop |-> {}]
  /\ timer = "off"
  /\ fired = FALSE
  /\ fluxOn = on
  /\ fluxDue = FALSE
  /\ monkey = None
  /\ monkeyAt = [m \in Monkey |-> "free"]
  /\ monkeyMode = [m \in Monkey |-> "pause"]
  /\ victim = [m \in Monkey |-> None]
  /\ pending = [a \in Actor |-> None]

\* A process that starts with them, or ends and loses them.
ResetServer(on) ==
  /\ links' = NoLinks
  /\ flaps' = [k \in Pair |-> None]
  /\ phaseDown' = [k \in Pair |-> FALSE]
  /\ loopAt' = [l \in FlapLoop |-> "free"]
  /\ loopPair' = [l \in FlapLoop |-> {}]
  /\ timer' = "off"
  /\ fired' = FALSE
  /\ fluxOn' = on
  /\ fluxDue' = FALSE
  /\ monkey' = None
  /\ monkeyAt' = [m \in Monkey |-> "free"]
  /\ monkeyMode' = [m \in Monkey |-> "pause"]
  /\ victim' = [m \in Monkey |-> None]
  /\ pending' = [a \in Actor |-> None]

\* runChaosUI: --flux N starts the ticker before the first request.
Init ==
  /\ HostInit
  /\ EngineInit
  /\ \E on \in {FALSE, UseFlux} : FreshServer(on)
  /\ stage = "up"
  /\ touched = {}

-----------------------------------------------------------------------------
(***************************************************************************)
(* Engine calls made with the mutex held                                   *)
(***************************************************************************)

\* A step of the engine, and what it tells the history variable.
EngineRuns ==
  /\ stage # "gone"
  /\ \/ Listing(UI) /\ touched' = InFlight
     \/ ListingFails(UI) /\ touched' = Node
     \/ CallerRuns(UI) /\ UNCHANGED touched
     \/ \E n \in Node : WorkerRuns(UI, n) /\ UNCHANGED touched
     \/ \E n \in Node : WorkerFails(UI, n) /\ touched' = touched \cup {n}
  /\ UNCHANGED <<uiVars, pending>>

\* reconcile() begins, with the links the fields will hold.
Reconcile == ReconcileBegin(UI, Effective(links', flaps', phaseDown'))

\* The variant that takes a ttl of 1 for none.
ArmedAboveOne == IF TTL > 1 THEN "armed" ELSE timer

\* reconcile() ends: armDeadman stops the timer and starts a new one.
Armed == IF TTL > 0 THEN "armed" ELSE timer

ReconcileReturn ==
  /\ stage # "gone"
  /\ ReconcileEnd(UI)
  /\ timer' = Armed
  /\ UNCHANGED <<boardVars, loopVars, fired, fluxVars, monkeyVars, stage,
                 pending, touched>>

ClearReturn ==
  /\ ClearEnd(UI)
  /\ stage' = IF stage = "clearing" THEN "close" ELSE stage
  /\ UNCHANGED <<boardVars, loopVars, timerVars, fluxVars, monkeyVars,
                 pending, touched>>

-----------------------------------------------------------------------------
(***************************************************************************)
(* Requests about links                                                    *)
(***************************************************************************)

\* A handler that takes the mutex.
Locked == MuFree /\ Serving

\* /api/links: the fault f (NoFault: disabled) for a selection of links, all
\* validated first, applied together, one reconcile.
HandleLinks(selection, f) ==
  /\ Locked
  /\ links' = [k \in Pair |-> IF k \in selection THEN f ELSE links[k]]
  /\ UNCHANGED <<flaps, phaseDown>>
  /\ Reconcile
  /\ UNCHANGED <<hostVars, loopVars, timerVars, fluxVars, monkeyVars, stage,
                 pending, touched>>

\* /api/link
HandleLink(k, f) == HandleLinks({k}, f)

\* /api/clear: flaps, flux and the monkey go on.
HandleClear ==
  /\ Locked
  /\ links' = NoLinks
  /\ ClearBegin(UI)
  /\ UNCHANGED <<hostVars, flaps, phaseDown, loopVars, timerVars, fluxVars,
                 monkeyVars, stage, pending, touched>>

-----------------------------------------------------------------------------
(***************************************************************************)
(* Dead-man timer.  Stop does not recall a function that has started; at   *)
(* most one started function is modelled as waiting for the mutex.         *)
(***************************************************************************)

DeadmanFire ==
  /\ stage # "gone"
  /\ timer = "armed" /\ ~fired
  /\ timer' = "off"
  /\ fired' = TRUE
  /\ UNCHANGED <<hostVars, engineVars, boardVars, loopVars, fluxVars,
                 monkeyVars, stage, pending, touched>>

DeadmanRun ==
  /\ MuFree
  /\ fired
  /\ fired' = FALSE
  /\ links' = NoLinks
  /\ ClearBegin(UI)
  /\ UNCHANGED <<hostVars, flaps, phaseDown, loopVars, timer, fluxVars,
                 monkeyVars, stage, pending, touched>>

-----------------------------------------------------------------------------
(***************************************************************************)
(* Flux.  A goroutine that has taken its tick is not stopped any more.     *)
(***************************************************************************)

SetFlux(on) ==
  /\ Locked
  /\ fluxOn' = on
  /\ UNCHANGED <<hostVars, engineVars, boardVars, loopVars, timerVars, fluxDue,
                 monkeyVars, stage, pending, touched>>

FluxTick ==
  /\ fluxOn /\ ~fluxDue
  /\ stage # "gone"
  /\ fluxDue' = TRUE
  /\ UNCHANGED <<hostVars, engineVars, boardVars, loopVars, timerVars, fluxOn,
                 monkeyVars, stage, pending, touched>>

FluxRun ==
  /\ MuFree
  /\ fluxDue
  /\ fluxDue' = FALSE
  /\ UNCHANGED boardVars
  /\ IF links # NoLinks THEN Reconcile ELSE UNCHANGED engineVars
  /\ UNCHANGED <<hostVars, loopVars, timerVars, fluxOn, monkeyVars, stage,
                 pending, touched>>

-----------------------------------------------------------------------------
(***************************************************************************)
(* Flap loops                                                              *)
(***************************************************************************)

\* /api/flap with enabled: a running flap is replaced; nothing is reconciled
\* until the new loop's first setPhase.
HandleFlapOn(k) ==
  /\ Locked
  /\ \E l \in FlapLoop :
       /\ loopAt[l] = "free"
       /\ flaps' = [flaps EXCEPT ![k] = l]
       /\ loopAt' = [loopAt EXCEPT ![l] = "start"]
       /\ loopPair' = [loopPair EXCEPT ![l] = k]
  /\ phaseDown' = [phaseDown EXCEPT ![k] = FALSE]
  /\ UNCHANGED <<hostVars, engineVars, links, timerVars, fluxVars, monkeyVars,
                 stage, pending, touched>>

\* /api/flap without enabled: the baseline degrade is kept.
HandleFlapOff(k) ==
  /\ Locked
  /\ flaps' = [flaps EXCEPT ![k] = None]
  /\ phaseDown' = [phaseDown EXCEPT ![k] = FALSE]
  /\ UNCHANGED links
  /\ Reconcile
  /\ UNCHANGED <<hostVars, loopVars, timerVars, fluxVars, monkeyVars, stage,
                 pending, touched>>

LoopEnds(l) ==
  /\ loopAt' = [loopAt EXCEPT ![l] = "free"]
  /\ loopPair' = [loopPair EXCEPT ![l] = {}]

\* setPhase(down): the loop's next phase, unless it has been superseded.
SetPhase(l, down) ==
  /\ MuFree
  /\ loopAt[l] \in (IF down THEN {"start", "up"} ELSE {"down"})
  /\ UNCHANGED <<links, flaps>>
  /\ IF OwnsFlap(l)
     THEN /\ phaseDown' = [phaseDown EXCEPT ![loopPair[l]] = down]
          /\ loopAt' = [loopAt EXCEPT ![l] = IF down THEN "down" ELSE "up"]
          /\ Reconcile
          /\ UNCHANGED loopPair
     ELSE LoopEnds(l) /\ UNCHANGED <<phaseDown, engineVars>>
  /\ UNCHANGED <<hostVars, timerVars, fluxVars, monkeyVars, stage, pending,
                 touched>>

\* The loop, waiting out a phase, sees its stop channel closed.
LoopStops(l) ==
  /\ stage # "gone"
  /\ loopAt[l] \in {"down", "up"}
  /\ FlapStopped(l)
  /\ LoopEnds(l)
  /\ UNCHANGED <<hostVars, engineVars, boardVars, timerVars, fluxVars,
                 monkeyVars, stage, pending, touched>>

-----------------------------------------------------------------------------
(***************************************************************************)
(* Node lifecycle: chaosNodeAction, without the mutex                      *)
(***************************************************************************)

\* docker succeeded; the helper is removed by a later step.
NodeCommand(a, n, action) ==
  /\ pending[a] = None
  /\ Docker(n, action)
  /\ pending' = [pending EXCEPT ![a] = HelperOwed(n, action)]
  /\ touched' = IF action \in {"kill", "stop", "start"}
                THEN touched \cup {n} ELSE touched

\* /api/node
HandleNode(h, n, action) ==
  /\ Serving
  /\ NodeCommand(h, n, action)
  /\ UNCHANGED <<engineVars, uiVars>>

DropHelper(a) ==
  /\ stage # "gone"
  /\ pending[a] # None
  /\ RemoveHelper(pending[a])
  /\ pending' = [pending EXCEPT ![a] = None]
  /\ touched' = touched \cup {pending[a]}
  /\ UNCHANGED <<nstate, addr, qdisc, engineVars, uiVars>>

-----------------------------------------------------------------------------
(***************************************************************************)
(* Chaos monkey                                                            *)
(***************************************************************************)

RunningNodes == {n \in Node : nstate[n] = "running"}

\* "never take down the last node standing"
Enough == Cardinality(RunningNodes) >= 2

\* What the monkey's own bookkeeping leaves alone.
MonkeyFrame == <<hostVars, engineVars, boardVars, loopVars, timerVars,
                 fluxVars, stage, touched>>

SetMonkeyOn(mode) ==
  /\ Locked
  /\ \E m \in Monkey :
       /\ monkeyAt[m] = "free" /\ pending[m] = None
       /\ monkey' = m
       /\ monkeyAt' = [monkeyAt EXCEPT ![m] = "wait"]
       /\ monkeyMode' = [monkeyMode EXCEPT ![m] = mode]
  /\ UNCHANGED <<MonkeyFrame, victim, pending>>

SetMonkeyOff ==
  /\ Locked
  /\ monkey' = None
  /\ UNCHANGED <<MonkeyFrame, monkeyAt, monkeyMode, victim, pending>>

\* The loop, waiting out the interval, sees its stop channel closed.
MonkeyStops(m) ==
  /\ stage # "gone"
  /\ monkeyAt[m] = "wait" /\ monkey # m /\ pending[m] = None
  /\ monkeyAt' = [monkeyAt EXCEPT ![m] = "free"]
  /\ UNCHANGED <<MonkeyFrame, monkey, monkeyMode, victim, pending>>

\* The interval is over: list the nodes, spare the last one running.
MonkeyPicks(m) ==
  /\ stage # "gone"
  /\ monkeyAt[m] = "wait" /\ pending[m] = None
  /\ Enough
  /\ \E n \in RunningNodes : victim' = [victim EXCEPT ![m] = n]
  /\ monkeyAt' = [monkeyAt EXCEPT ![m] = "strike"]
  /\ UNCHANGED <<MonkeyFrame, monkey, monkeyMode, pending>>

\* chaosNodeAction(victim, action), its error ignored.
MonkeyCommand(m, action) ==
  \/ NodeCommand(m, victim[m], action)
  \/ /\ Refused(victim[m], action) \/ "list" \in Failures
     /\ UNCHANGED <<hostVars, pending, touched>>

MonkeyStrikes(m) ==
  /\ stage # "gone"
  /\ monkeyAt[m] = "strike"
  /\ MonkeyCommand(m, monkeyMode[m])
  /\ monkeyAt' = [monkeyAt EXCEPT ![m] = "hold"]
  /\ UNCHANGED <<engineVars, boardVars, loopVars, timerVars, fluxVars, monkey,
                 monkeyMode, victim, stage>>

\* The variant that knows one way to recover.
RecoveryStart(mode) == "start"

Recovery(mode) == IF mode = "kill" THEN "start" ELSE "unpause"

\* Half an interval later, or at once when stopped.
MonkeyRecovers(m) ==
  /\ stage # "gone"
  /\ monkeyAt[m] = "hold" /\ pending[m] = None
  /\ MonkeyCommand(m, Recovery(monkeyMode[m]))
  /\ monkeyAt' = [monkeyAt EXCEPT ![m] = IF monkey = m THEN "wait" ELSE "free"]
  /\ victim' = [victim EXCEPT ![m] = None]
  /\ UNCHANGED <<engineVars, boardVars, loopVars, timerVars, fluxVars, monkey,
                 monkeyMode, stage>>

MonkeyStep(m) ==
  \/ MonkeyStops(m)
  \/ MonkeyPicks(m)
  \/ MonkeyStrikes(m)
  \/ MonkeyRecovers(m)

-----------------------------------------------------------------------------
(***************************************************************************)
(* Shutdown: the goroutine that waits for SIGINT / SIGTERM                 *)
(***************************************************************************)

Signal ==
  /\ stage = "up"
  /\ stage' = "stopFlux"
  /\ UNCHANGED <<hostVars, engineVars, boardVars, loopVars, timerVars, fluxVars,
                 monkeyVars, pending, touched>>

\* stopAll, in its three critical sections.
StopFlux ==
  /\ stage = "stopFlux" /\ MuFree
  /\ fluxOn' = FALSE
  /\ stage' = "stopMonkey"
  /\ UNCHANGED <<hostVars, engineVars, boardVars, loopVars, timerVars, fluxDue,
                 monkeyVars, pending, touched>>

StopMonkey ==
  /\ stage = "stopMonkey" /\ MuFree
  /\ monkey' = None
  /\ stage' = "stopFlaps"
  /\ UNCHANGED <<hostVars, engineVars, boardVars, loopVars, timerVars, fluxVars,
                 monkeyAt, monkeyMode, victim, pending, touched>>

\* The variant of stopAll without the loop over s.flaps.
StopFlapsForgotten ==
  /\ stage = "stopFlaps" /\ MuFree
  /\ stage' = "clear"
  /\ UNCHANGED <<hostVars, engineVars, boardVars, loopVars, timerVars, fluxVars,
                 monkeyVars, pending, touched>>

StopFlaps ==
  /\ stage = "stopFlaps" /\ MuFree
  /\ flaps' = [k \in Pair |-> None]
  /\ phaseDown' = [k \in Pair |-> FALSE]
  /\ stage' = "clear"
  /\ UNCHANGED <<hostVars, engineVars, links, loopVars, timerVars, fluxVars,
                 monkeyVars, pending, touched>>

ShutdownClear ==
  /\ stage = "clear" /\ MuFree
  /\ links' = NoLinks
  /\ ClearBegin(UI)
  /\ stage' = "clearing"
  /\ UNCHANGED <<hostVars, flaps, phaseDown, loopVars, timerVars, fluxVars,
                 monkeyVars, pending, touched>>

\* The process ends and every goroutine, timer and field with it.
Gone ==
  /\ stage' = "gone"
  /\ ResetServer(FALSE)
  /\ EngineGone(UI)
  /\ touched' = Node
  /\ UNCHANGED hostVars

\* srv.Close, ListenAndServe returns, main returns: nobody is waited for.
Exit == stage = "close" /\ Gone

Crash == Crashes /\ stage # "gone" /\ Gone

\* `anydbver chaos ui` again: nothing of the host is looked at.
Restart ==
  /\ Restarts
  /\ stage = "gone"
  /\ stage' = "up"
  /\ \E on \in {FALSE, UseFlux} : ResetServer(on)
  /\ UNCHANGED <<hostVars, engineVars, touched>>

-----------------------------------------------------------------------------
\* What the people in front of the dashboard ask for.
Request ==
  \/ \E k \in Pair, f \in Fault : HandleLink(k, f)
  \/ \E s \in SUBSET Pair, f \in Fault : Cardinality(s) > 1 /\ HandleLinks(s, f)
  \/ HandleClear
  \/ \E on \in {FALSE, UseFlux} : SetFlux(on)
  \/ \E k \in Pair : HandleFlapOn(k) \/ HandleFlapOff(k)
  \/ \E mode \in MonkeyModes : SetMonkeyOn(mode)
  \/ SetMonkeyOff
  \/ \E h \in Handler, n \in Node, action \in NodeActions : HandleNode(h, n, action)

\* What the process does of its own accord.
Background ==
  \/ EngineRuns
  \/ ReconcileReturn
  \/ ClearReturn
  \/ DeadmanFire
  \/ DeadmanRun
  \/ FluxTick
  \/ FluxRun
  \/ \E l \in FlapLoop : LoopStops(l) \/ \E down \in BOOLEAN : SetPhase(l, down)
  \/ \E a \in Actor : DropHelper(a)
  \/ \E m \in Monkey : MonkeyStep(m)

Shutdown ==
  \/ Signal
  \/ StopFlux
  \/ StopMonkey
  \/ StopFlaps
  \/ ShutdownClear
  \/ Exit
  \/ Crash
  \/ Restart

Next == Request \/ Background \/ Shutdown

Spec == Init /\ [][Next]_vars

(***************************************************************************)
(* Fairness.  Goroutines are scheduled, docker commands return (runtools   *)
(* gives each a timeout), and a Go mutex is handed to a starving waiter,   *)
(* hence strong fairness for what waits for it.  A time.Timer either fires *)
(* or is reset.  Nobody is obliged to ask for anything, to press Ctrl-C,   *)
(* to crash or to restart.                                                 *)
(***************************************************************************)
Fairness ==
  /\ WF_vars(EngineRuns)
  /\ WF_vars(ReconcileReturn)
  /\ WF_vars(ClearReturn)
  /\ WF_vars(DeadmanFire \/ ReconcileReturn)
  /\ SF_vars(DeadmanRun)
  /\ WF_vars(FluxTick)
  /\ SF_vars(FluxRun)
  /\ \A l \in FlapLoop :
       WF_vars(LoopStops(l)) /\ SF_vars(\E down \in BOOLEAN : SetPhase(l, down))
  /\ \A a \in Actor : WF_vars(DropHelper(a))
  /\ \A m \in Monkey : WF_vars(MonkeyStep(m))
  /\ SF_vars(StopFlux \/ StopMonkey \/ StopFlaps \/ ShutdownClear)
  /\ WF_vars(Exit)

FairSpec == Spec /\ Fairness

-----------------------------------------------------------------------------
(***************************************************************************)
(* Properties                                                              *)
(***************************************************************************)

\* The faults the board asks for on pair k.  A flapped pair is partitioned
\* or at its baseline, depending on the moment.
Wanted(k) == IF flaps[k] = None THEN {links[k]} ELSE {links[k], Partition}

\* The faults the board would have on each pair.
Wish == [k \in Pair |-> Wanted(k)]

\* What chaos_web.go promises of a full rebuild ("simple + always
\* consistent"): with the mutex free, what two nodes do to each other's
\* traffic is what the board says, in both directions, for every pair no
\* lifecycle command or docker failure has touched since the last listing.
FaultsMatchBoard ==
  (stage = "up" /\ MuFree) =>
    \A a, b \in Node \ touched :
      (a # b /\ Joinable(a) /\ Joinable(b)) => FaultTowards(a, b) \in Wanted({a, b})

\* The dashboard keeps the namespace to its board as LinkBoard has it: with the
\* mutex held somebody works on the shapings, each is replaced in one step by
\* what the board says, and once the mutex is free again the board is followed.
Board == INSTANCE LinkBoard WITH
  board <- Wish,
  shaping <- LinkFaults,
  alive <- NodesUp,
  missed <- touched,
  calm <- call[UI] = "idle",
  kept <- stage = "up",
  Failing <- Failures # {},
  Crashing <- Crashes

KeepsBoard == Board!Spec

\* The invariant chaosReconcileLinks relies on to skip nodes: "a node with no
\* helper has no shaping".
ShapedThroughHelper == \A n \in Node : qdisc[n] # Unshaped => HelperExists(n)

\* chaosNodeAction's comment: a helper left attached to the old network
\* namespace is dropped.  While the process lives, somebody still has to.
StaleHelperIsDoomed ==
  stage # "gone" => \A n \in Node : helper[n] = "stale" => n \in InFlight

\* chaosFlap.phaseDown is the phase of the loop that owns the flap, whatever
\* the loops it superseded still do.
FlapPhaseFollowsOwner ==
  \A k \in Pair : flaps[k] # None =>
    /\ loopPair[flaps[k]] = k
    /\ loopAt[flaps[k]] # "free"
    /\ phaseDown[k] = (loopAt[flaps[k]] = "down")

\* The dead-man timer watches over every fault: with the mutex free, a shaped
\* node means the timer is running or its function is about to clear.
FaultsAreWatched ==
  (TTL > 0 /\ stage = "up" /\ MuFree /\ ~HostUnshaped) => timer = "armed" \/ fired

\* Ctrl-C "stops and clears all faults": nothing is shaped once the process
\* has ended, whatever loops were running when the signal came.
ExitLeavesNoFault == stage = "gone" => HostUnshaped

\* "An inactivity dead-man timer clears them if the operator walks away."
DeadmanClears == <>[][~Request]_vars => <>[]HostUnshaped

\* The monkey "auto-recovers" the node it disrupts.
MonkeyRevives ==
  \A m \in Monkey, n \in Node :
    (monkeyAt[m] = "hold" /\ victim[m] = n) ~> (nstate[n] = "running" \/ stage = "gone")
==============================================================================
