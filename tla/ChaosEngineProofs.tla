-------------------------- MODULE ChaosEngineProofs --------------------------
(***************************************************************************)
(* Lemmas about ChaosEngine that the front ends share: its operators       *)
(* return shapings, its steps keep host and engine well typed, and what a  *)
(* reconcile installs, node by node, is what it was asked for.             *)
(***************************************************************************)
EXTENDS ChaosEngine, FiniteSetTheorems, TLAPS

-----------------------------------------------------------------------------
(***************************************************************************)
(* Lemmas on the operators of the engine                                   *)
(***************************************************************************)

\* Two distinct nodes make a link.
LEMMA TwoNodesArePair ==
  ASSUME NEW a \in Node, NEW b \in Node, a # b
  PROVE  {a, b} \in Pair
<1>1. {a, b} \in {{x, y} : x, y \in Node}
  OBVIOUS
<1>2. {a, b} \notin {{x} : x \in Node}
  OBVIOUS
<1> QED BY <1>1, <1>2 DEF Pair

\* No shaping is a shaping.
LEMMA UnshapedType == Unshaped \in Shaping
BY DEF Unshaped, Shaping, Fault

\* No links are a set of links.
LEMMA NoLinksType == NoLinks \in LinkSet
BY DEF NoLinks, LinkSet, Fault

\* What the reconcile computes for a node is a shaping.
LEMMA PeerShapesType ==
  ASSUME NEW n \in Node, NEW ls \in LinkSet, NEW ips
  PROVE  PeerShapes(n, ls, ips) \in Shaping
<1> SUFFICES ASSUME NEW i \in IP, ips[n] # NoIP, PeersAt(n, i, ips) # {}
             PROVE  ls[{n, CHOOSE m \in PeersAt(n, i, ips) : TRUE}] \in Fault
  BY DEF PeerShapes, Shaping, Fault
<1> DEFINE c == CHOOSE m \in PeersAt(n, i, ips) : TRUE
<1>1. c \in PeersAt(n, i, ips)
  OBVIOUS
<1>2. c \in Node /\ c # n
  BY <1>1 DEF PeersAt
<1>3. {n, c} \in Pair
  BY <1>2, TwoNodesArePair
<1> QED BY <1>3 DEF LinkSet

\* Fitting a shaping into the bands yields shapings.
LEMMA FittingType ==
  ASSUME NEW s \in Shaping
  PROVE  Fitting(s) \subseteq Shaping
BY DEF Fitting, Shaping, Fault

-----------------------------------------------------------------------------
(***************************************************************************)
(* Type correctness of host and engine                                     *)
(***************************************************************************)

\* Host and engine are well typed when a front end starts.
LEMMA StartType ==
  /\ HostInit => HostTypeOK
  /\ EngineInit => EngineTypeOK
<1>1. NoPlan \in [Node -> Shaping] /\ NoWork \in [Node -> WorkState]
  BY UnshapedType DEF NoPlan, NoWork, WorkState
<1>2. NothingSeen \in [Node -> NodeState]
  BY DEF NothingSeen, NodeState
<1>3. HostInit => HostTypeOK
  BY UnshapedType DEF HostInit, HostTypeOK, NodeState, HelperState
<1>4. EngineInit => EngineTypeOK
  BY <1>1, <1>2, NoLinksType DEF EngineInit, EngineTypeOK, CallState
<1> QED BY <1>3, <1>4

\* A docker lifecycle command keeps the host well typed.
LEMMA DockerType ==
  ASSUME HostTypeOK, NEW n \in Node, NEW action, Docker(n, action)
  PROVE  HostTypeOK'
<1>1. CASE Freeze(n)
  BY <1>1 DEF Freeze, HostTypeOK, NodeState
<1>2. CASE Thaw(n)
  BY <1>2 DEF Thaw, HostTypeOK, NodeState
<1>3. CASE Halt(n)
  BY <1>3, UnshapedType DEF Halt, HostTypeOK, NodeState, HelperState
<1>4. CASE Boot(n)
  BY <1>4 DEF Boot, HostTypeOK, NodeState
<1>5. CASE AlreadyThere(n, action)
  BY <1>5 DEF AlreadyThere, HostTypeOK, hostVars
<1> QED BY <1>1, <1>2, <1>3, <1>4, <1>5 DEF Docker

\* A step of a node's goroutine keeps host and engine well typed.
LEMMA WorkerType ==
  ASSUME HostTypeOK, EngineTypeOK, NEW p \in Proc, NEW n \in Node,
         WorkerRuns(p, n) \/ WorkerFails(p, n)
  PROVE  HostTypeOK' /\ EngineTypeOK'
<1>1. ASSUME NEW from, NEW to \in WorkState, WorkTo(p, n, from, to)
      PROVE  EngineTypeOK'
  BY <1>1 DEF WorkTo, EngineTypeOK
<1>2. CASE EnsureHelper(p, n)
  BY <1>2, <1>1 DEF EnsureHelper, WorkState, HostTypeOK, hostVars
<1>3. CASE CreateHelper(p, n)
  <2>1. HostTypeOK'
    BY <1>3 DEF CreateHelper, StartHelper, HostTypeOK, HelperState
  <2> QED BY <2>1, <1>3, <1>1 DEF CreateHelper, WorkState
<1>4. CASE CreateHelperFails(p, n)
  <2>1. HostTypeOK'
    BY <1>4 DEF CreateHelperFails, RemoveHelper, HostTypeOK, HelperState
  <2> QED BY <2>1, <1>4, <1>1 DEF CreateHelperFails, WorkState
<1>5. CASE ExecShape(p, n)
  <2>1. PICK s \in Fitting(plan[p][n]) : ExecInHelper(n, s)
    BY <1>5 DEF ExecShape
  <2>2. s \in Shaping
    BY <2>1, FittingType DEF EngineTypeOK
  <2>3. HostTypeOK'
    BY <1>5, <2>1, <2>2 DEF ExecShape, ExecInHelper, HostTypeOK
  <2> QED BY <2>3, <1>5, <1>1 DEF ExecShape, WorkState
<1>6. CASE ShapeFails(p, n) \/ DeleteFails(p, n)
  BY <1>6, <1>1 DEF ShapeFails, DeleteFails, WorkState, HostTypeOK, hostVars
<1>7. CASE ChooseHelper(p, n)
  BY <1>7, <1>1 DEF ChooseHelper, WorkState, HostTypeOK, hostVars
<1>8. CASE ExecDelete(p, n)
  <2>1. HostTypeOK'
    BY <1>8, UnshapedType DEF ExecDelete, ExecInHelper, HostTypeOK
  <2> QED BY <2>1, <1>8, <1>1 DEF ExecDelete, WorkState
<1>9. CASE RunDelete(p, n)
  <2>1. HostTypeOK'
    BY <1>9, UnshapedType DEF RunDelete, ThrowawayClear, HostTypeOK
  <2> QED BY <2>1, <1>9, <1>1 DEF RunDelete, WorkState
<1> QED BY <1>2, <1>3, <1>4, <1>5, <1>6, <1>7, <1>8, <1>9
        DEF WorkerRuns, WorkerFails

\* So does a step of the goroutine that called the engine.
LEMMA CallerType ==
  ASSUME HostTypeOK, EngineTypeOK, NEW p \in Proc,
         Listing(p) \/ ListingFails(p) \/ CallerRuns(p)
  PROVE  HostTypeOK' /\ EngineTypeOK'
<1>1. CASE ListNodes(p)
  BY <1>1 DEF ListNodes, HostTypeOK, EngineTypeOK, hostVars, CallState
<1>2. CASE ClearList(p)
  BY <1>2 DEF ClearList, HostTypeOK, EngineTypeOK, hostVars, CallState, WorkState
<1>3. CASE ListFails(p)
  BY <1>3, NoLinksType DEF ListFails, HostTypeOK, EngineTypeOK, hostVars, CallState
<1>4. CASE ClearListFails(p)
  BY <1>4 DEF ClearListFails, HostTypeOK, EngineTypeOK, hostVars, CallState
<1>5. ASSUME NEW ips, PlanFrom(p, ips)
      PROVE  HostTypeOK' /\ EngineTypeOK'
  <2>1. [n \in Node |-> PeerShapes(n, desired[p], ips)] \in [Node -> Shaping]
    BY PeerShapesType DEF EngineTypeOK
  <2> QED BY <1>5, <2>1, NoLinksType
          DEF PlanFrom, HostTypeOK, EngineTypeOK, hostVars, CallState
<1>6. CASE StartWorkers(p)
  <2>1. [n \in Node |-> FirstStep(n, seen[p][n], plan[p][n])] \in [Node -> WorkState]
    BY DEF FirstStep, WorkState
  <2>2. NothingSeen \in [Node -> NodeState]
    BY DEF NothingSeen, NodeState
  <2> QED BY <1>6, <2>1, <2>2
          DEF StartWorkers, HostTypeOK, EngineTypeOK, hostVars, CallState
<1>7. CASE ClearHelpers(p)
  BY <1>7 DEF ClearHelpers, RemoveHelpers, HostTypeOK, EngineTypeOK, CallState,
              HelperState
<1>8. CASE HelpersFail(p)
  <2>1. [n \in Node |-> FirstStepUnhelped(n, seen[p][n], plan[p][n])] \in [Node -> WorkState]
    BY DEF FirstStepUnhelped, WorkState
  <2>2. NothingSeen \in [Node -> NodeState]
    BY DEF NothingSeen, NodeState
  <2> QED BY <1>8, <2>1, <2>2
          DEF HelpersFail, HostTypeOK, EngineTypeOK, hostVars, CallState
<1> QED BY <1>1, <1>2, <1>3, <1>4, <1>5, <1>6, <1>7, <1>8
        DEF Listing, ListingFails, CallerRuns, InspectIPs, InspectFails

\* Beginning an operation, ending one, and dying in the middle of one.
LEMMA BeginType ==
  ASSUME EngineTypeOK, NEW p \in Proc
  PROVE  /\ \A ls \in LinkSet : ReconcileBegin(p, ls) => EngineTypeOK'
         /\ ClearBegin(p) => EngineTypeOK'
         /\ ReconcileEnd(p) => EngineTypeOK'
         /\ ClearEnd(p) => EngineTypeOK'
         /\ EngineGone(p) => EngineTypeOK'
<1> USE DEF EngineTypeOK
<1>1. /\ NoPlan \in [Node -> Shaping]
      /\ NoWork \in [Node -> WorkState]
      /\ NothingSeen \in [Node -> NodeState]
  BY UnshapedType DEF NoPlan, NoWork, NothingSeen, WorkState, NodeState
<1>2. \A ls \in LinkSet : ReconcileBegin(p, ls) => EngineTypeOK'
  BY DEF ReconcileBegin, CallState
<1>3. ClearBegin(p) => EngineTypeOK'
  BY DEF ClearBegin, CallState
<1>4. ReconcileEnd(p) => EngineTypeOK'
  BY <1>1 DEF ReconcileEnd, CallState
<1>5. ClearEnd(p) => EngineTypeOK'
  BY DEF ClearEnd, CallState
<1>6. EngineGone(p) => EngineTypeOK'
  BY <1>1, NoLinksType DEF EngineGone, CallState
<1> QED BY <1>2, <1>3, <1>4, <1>5, <1>6

-----------------------------------------------------------------------------
(***************************************************************************)
(* Reconcile and clear where containers may be paused, unpaused, killed    *)
(* and stopped, none is started again, and deleting a qdisc does not fail  *)
(***************************************************************************)

\* The docker calls relied upon.
DeleteWorks == "delete" \notin Failures
ListWorks == "list" \notin Failures

\* The helper of a node that is up is attached to the network namespace the
\* node uses; a node that is down has neither namespace nor shaping; what is
\* shaped has a helper.
HelpersInPlace ==
  \A n \in Node :
    /\ Joinable(n) => helper[n] \in {"none", "live"}
    /\ ~Joinable(n) => helper[n] # "live" /\ qdisc[n] = Unshaped
    /\ qdisc[n] # Unshaped => HelperExists(n)

\* A worker that creates a helper does it where there is none; a clear's
\* worker that is done leaves its node unshaped.
InOrder(p) ==
  /\ ListWorks => call[p] # "cfailed"
  /\ call[p] \notin {"work", "cwork"} => work[p] = NoWork
  /\ \A n \in Node : work[p][n] = "create" /\ Joinable(n) => helper[n] = "none"
  /\ call[p] = "cwork" =>
       \A n \in Node :
         /\ work[p][n] \in {"idle", "check", "execDel", "runDel"}
         /\ work[p][n] = "idle" => qdisc[n] = Unshaped
  /\ call[p] = "cleared" => HostUnshaped

\* A step of a node's goroutine.
LEMMA WorkerInOrder ==
  ASSUME DeleteWorks, HostTypeOK, EngineTypeOK, NEW p \in Proc, NEW n \in Node,
         HelpersInPlace, InOrder(p),
         WorkerRuns(p, n) \/ WorkerFails(p, n)
  PROVE  HelpersInPlace' /\ InOrder(p)'
<1>1. /\ call \in [Proc -> CallState]
      /\ work \in [Proc -> [Node -> WorkState]]
      /\ nstate \in [Node -> NodeState]
      /\ helper \in [Node -> HelperState]
      /\ qdisc \in [Node -> Shaping]
  BY DEF EngineTypeOK, HostTypeOK
<1>2. ASSUME NEW from, NEW to, WorkTo(p, n, from, to), from # "idle"
      PROVE  /\ work[p][n] = from
             /\ work'[p] = [work[p] EXCEPT ![n] = to]
             /\ call' = call
             /\ call[p] \in {"work", "cwork"}
  BY <1>1, <1>2 DEF WorkTo, InOrder, NoWork
<1>3. ASSUME NEW from, NEW to, WorkTo(p, n, from, to), from # "idle",
             UNCHANGED nstate,
             to = "create" /\ Joinable(n) => helper'[n] = "none",
             \A m \in Node \ {n} : helper'[m] = helper[m] /\ qdisc'[m] = qdisc[m],
             call[p] = "cwork" =>
               /\ to \in {"idle", "check", "execDel", "runDel"}
               /\ to = "idle" => qdisc'[n] = Unshaped
      PROVE  InOrder(p)'
  <2>0. work'[p] = [work[p] EXCEPT ![n] = to] /\ work[p] \in [Node -> WorkState]
    BY <1>1, <1>2, <1>3
  <2>1. \A m \in Node : work'[p][m] = IF m = n THEN to ELSE work[p][m]
    BY <2>0
  <2>2. call'[p] = call[p] /\ call[p] \in {"work", "cwork"}
    BY <1>2, <1>3
  <2>3. \A m \in Node : work'[p][m] = "create" /\ Joinable(m)' => helper'[m] = "none"
    BY <1>3, <2>1 DEF InOrder, Joinable
  <2>4. call[p] = "cwork" =>
          \A m \in Node :
            /\ work'[p][m] \in {"idle", "check", "execDel", "runDel"}
            /\ work'[p][m] = "idle" => qdisc'[m] = Unshaped
    BY <1>3, <2>1 DEF InOrder
  <2> QED BY <2>2, <2>3, <2>4 DEF InOrder
<1>4. ASSUME UNCHANGED hostVars
      PROVE  HelpersInPlace'
  BY <1>4 DEF HelpersInPlace, hostVars, Joinable, HelperExists
<1>5. ASSUME UNCHANGED <<nstate, helper>>, qdisc' = [qdisc EXCEPT ![n] = Unshaped]
      PROVE  HelpersInPlace'
  BY <1>1, <1>5 DEF HelpersInPlace, Joinable, HelperExists
<1>6. /\ Joinable(n) => helper[n] \in {"none", "live"}
      /\ Joinable(n) /\ helper[n] = "none" => qdisc[n] = Unshaped
      /\ ~Joinable(n) => qdisc[n] = Unshaped
  BY DEF HelpersInPlace, HelperExists
<1>7. work[p][n] \in {"ensure", "create", "exec"} => call[p] # "cwork"
  BY DEF InOrder
<1>8. CASE EnsureHelper(p, n)
  <2>1. ~HelperRunning(n) /\ Joinable(n) => helper'[n] = "none"
    BY <1>6, <1>8 DEF EnsureHelper, HelperRunning, hostVars
  <2>2. WorkTo(p, n, "ensure", IF HelperRunning(n) THEN "exec" ELSE "create")
    BY <1>8 DEF EnsureHelper
  <2>3. call[p] # "cwork"
    BY <1>2, <1>7, <2>2
  <2>4. InOrder(p)'
    BY <1>3, <1>8, <2>1, <2>2, <2>3 DEF EnsureHelper, hostVars
  <2> QED BY <1>4, <1>8, <2>4 DEF EnsureHelper
<1>9. CASE CreateHelper(p, n)
  <2>1. /\ WorkTo(p, n, "create", IF Joinable(n) THEN "exec" ELSE "idle")
        /\ helper' = [helper EXCEPT ![n] = IF Joinable(n) THEN "live" ELSE "dead"]
    BY <1>9 DEF CreateHelper, StartHelper
  <2>2. call[p] # "cwork"
    BY <1>2, <1>7, <2>1
  <2>3. InOrder(p)'
    BY <1>1, <1>3, <1>9, <2>1, <2>2 DEF CreateHelper
  <2>4. HelpersInPlace'
    BY <1>1, <1>9, <2>1 DEF CreateHelper, HelpersInPlace, Joinable, HelperExists
  <2> QED BY <2>3, <2>4
<1>10. CASE CreateHelperFails(p, n)
  <2>1. WorkTo(p, n, "create", "idle") /\ helper' = [helper EXCEPT ![n] = "none"]
    BY <1>10 DEF CreateHelperFails, RemoveHelper
  <2>2. call[p] # "cwork" /\ work[p][n] = "create"
    BY <1>2, <1>7, <2>1
  <2>3. qdisc[n] = Unshaped
    BY <1>6, <2>2 DEF InOrder
  <2>4. InOrder(p)'
    BY <1>1, <1>3, <1>10, <2>1, <2>2 DEF CreateHelperFails
  <2>5. HelpersInPlace'
    BY <1>1, <1>10, <2>1, <2>3 DEF CreateHelperFails, HelpersInPlace, Joinable, HelperExists
  <2> QED BY <2>4, <2>5
<1>11. CASE ExecShape(p, n)
  <2>1. PICK s \in Fitting(plan[p][n]) : ExecInHelper(n, s)
    BY <1>11 DEF ExecShape
  <2>2. WorkTo(p, n, "exec", "idle") /\ UNCHANGED <<nstate, helper>>
    BY <1>11 DEF ExecShape
  <2>3. call[p] # "cwork"
    BY <1>2, <1>7, <2>2
  <2>4. InOrder(p)'
    BY <1>1, <1>3, <2>1, <2>2, <2>3 DEF ExecInHelper
  <2>5. HelpersInPlace'
    BY <1>1, <2>1, <2>2 DEF ExecInHelper, HelpersInPlace, Joinable, HelperExists
  <2> QED BY <2>4, <2>5
<1>12. CASE ShapeFails(p, n)
  <2>1. WorkTo(p, n, "exec", "idle")
    BY <1>12 DEF ShapeFails
  <2>2. call[p] # "cwork"
    BY <1>2, <1>7, <2>1
  <2>3. InOrder(p)'
    BY <1>3, <1>12, <2>1, <2>2 DEF ShapeFails, hostVars
  <2> QED BY <1>4, <1>12, <2>3 DEF ShapeFails
<1>13. CASE ChooseHelper(p, n)
  <2>1. InOrder(p)'
    BY <1>3, <1>13 DEF ChooseHelper, hostVars
  <2> QED BY <1>4, <1>13, <2>1 DEF ChooseHelper
<1>14. CASE ExecDelete(p, n)
  <2>1. qdisc' = [qdisc EXCEPT ![n] = Unshaped]
    BY <1>1, <1>6, <1>14 DEF ExecDelete, ExecInHelper
  <2>2. InOrder(p)'
    BY <1>1, <1>3, <1>14, <2>1 DEF ExecDelete
  <2> QED BY <1>5, <1>14, <2>1, <2>2 DEF ExecDelete
<1>15. CASE RunDelete(p, n)
  <2>1. qdisc' = [qdisc EXCEPT ![n] = Unshaped]
    BY <1>1, <1>6, <1>15 DEF RunDelete, ThrowawayClear
  <2>2. InOrder(p)'
    BY <1>1, <1>3, <1>15, <2>1 DEF RunDelete
  <2> QED BY <1>5, <1>15, <2>1, <2>2 DEF RunDelete
<1>16. ~DeleteFails(p, n)
  BY DEF DeleteFails, DeleteWorks
<1> QED BY <1>8, <1>9, <1>10, <1>11, <1>12, <1>13, <1>14, <1>15, <1>16
        DEF WorkerRuns, WorkerFails

\* A step of the goroutine that called the engine.
LEMMA CallerInOrder ==
  ASSUME HostTypeOK, EngineTypeOK, NEW p \in Proc, HelpersInPlace, InOrder(p),
         Listing(p) \/ ListingFails(p) \/ CallerRuns(p)
  PROVE  HelpersInPlace' /\ InOrder(p)'
<1>1. /\ call \in [Proc -> CallState]
      /\ work \in [Proc -> [Node -> WorkState]]
      /\ nstate \in [Node -> NodeState]
  BY DEF EngineTypeOK, HostTypeOK
<1>2. ASSUME UNCHANGED hostVars
      PROVE  HelpersInPlace'
  BY <1>2 DEF HelpersInPlace, hostVars, Joinable, HelperExists
<1>3. CASE ListNodes(p) \/ InspectIPs(p) \/ InspectFails(p)
  <2>1. InOrder(p)'
    BY <1>1, <1>3 DEF ListNodes, InspectIPs, InspectFails, PlanFrom, InOrder, NoWork, hostVars
  <2> QED BY <1>2, <1>3, <2>1 DEF ListNodes, InspectIPs, InspectFails, PlanFrom
<1>4. CASE ClearList(p)
  <2>1. \A n \in Node : ~Clearable(n) => qdisc[n] = Unshaped
    BY DEF HelpersInPlace, Joinable, Clearable
  <2>2. /\ call'[p] = "cwork" /\ UNCHANGED hostVars
        /\ \A n \in Node : work'[p][n] = IF Clearable(n) THEN "check" ELSE "idle"
    BY <1>1, <1>4 DEF ClearList
  <2>3. InOrder(p)'
    BY <2>1, <2>2 DEF InOrder, hostVars
  <2> QED BY <1>2, <2>2, <2>3
<1>5. CASE StartWorkers(p)
  <2>1. call'[p] = "work" /\ \A n \in Node : work'[p][n] \in {"ensure", "check", "idle"}
    BY <1>1, <1>5 DEF StartWorkers, FirstStep
  <2>2. InOrder(p)'
    BY <2>1 DEF InOrder
  <2> QED BY <1>2, <1>5, <2>2 DEF StartWorkers
<1>6. CASE ClearHelpers(p)
  <2>1. call'[p] = "cleared" /\ call[p] = "cwork" /\ work' = work /\ work[p] = NoWork
    BY <1>1, <1>6 DEF ClearHelpers, WorkersDone
  <2>2. \A n \in Node : qdisc[n] = Unshaped
    BY <2>1 DEF InOrder, NoWork
  <2>3. helper' = [n \in Node |-> "none"] /\ UNCHANGED <<nstate, qdisc>>
    BY <1>6 DEF ClearHelpers, RemoveHelpers
  <2>4. InOrder(p)'
    BY <2>1, <2>2, <2>3 DEF InOrder, NoWork, HostUnshaped
  <2>5. HelpersInPlace'
    BY <2>2, <2>3 DEF HelpersInPlace
  <2> QED BY <2>4, <2>5
<1>7. CASE ListFails(p) \/ ClearListFails(p)
  <2>1. InOrder(p)'
    BY <1>1, <1>7 DEF ListFails, ClearListFails, ListWorks, InOrder, NoWork, hostVars,
                      HostUnshaped
  <2> QED BY <1>2, <1>7, <2>1 DEF ListFails, ClearListFails
<1>8. CASE HelpersFail(p)
  <2>1. call'[p] = "work" /\ \A n \in Node : work'[p][n] \in {"ensure", "idle"}
    BY <1>1, <1>8 DEF HelpersFail, FirstStepUnhelped
  <2>2. InOrder(p)'
    BY <2>1 DEF InOrder
  <2> QED BY <1>2, <1>8, <2>2 DEF HelpersFail
<1> QED BY <1>3, <1>4, <1>5, <1>6, <1>7, <1>8 DEF Listing, ListingFails, CallerRuns

-----------------------------------------------------------------------------
(***************************************************************************)
(* What a reconcile installs.  W gives each pair the faults that would do; *)
(* T holds the nodes the reconcile may have missed something of.           *)
(***************************************************************************)

\* One qdisc has a band for every peer of a node.
BandsSuffice == IsFiniteSet(Node) /\ Cardinality(Node) <= MaxPeers + 1

\* Every node that is up has an address of its own, every other node none.
Addressed ==
  /\ \A n \in Node : IF Joinable(n) THEN addr[n] \in IP ELSE addr[n] = NoIP
  /\ \A m, n \in Node : Joinable(m) /\ Joinable(n) /\ addr[m] = addr[n] => m = n

\* The shaping s of node n, if n is up, does what W wants towards every other
\* node that is up.
Suits(n, s, W) ==
  \A m \in Node \ {n} : Joinable(n) /\ Joinable(m) => s[addr[m]] \in W[{n, m}]

\* No peer of the shaping s is left out.
Fits(s) == Fitting(s) = {s}

\* Node n's goroutine, done, has installed the plan; about to run tc, it has a
\* helper to run it in, or nothing to install.
Working(p, n) ==
  /\ work[p][n] = "idle" => qdisc[n] = plan[p][n]
  /\ work[p][n] = "exec" => helper[n] = "live"
  /\ work[p][n] \in {"check", "execDel", "runDel"} => plan[p][n] = Unshaped

\* What a reconcile knows, call state by call state.  A plan that does not suit
\* comes of a failed `docker inspect`, and is empty.
Reconciling(p, W, T) ==
  /\ call[p] \in {"list", "inspect"} => \A k \in Pair : desired[p][k] \in W[k]
  /\ call[p] \in {"inspect", "helpers"} =>
       \A n \in Node : Joinable(n) => seen[p][n] \in {"running", "paused"}
  /\ call[p] \in {"helpers", "work"} =>
       \A n \in Node :
         /\ Fits(plan[p][n])
         /\ Suits(n, plan[p][n], W) \/ (n \in T /\ plan[p][n] = Unshaped)
  /\ call[p] = "work" => \A n \in Node \ T : Joinable(n) => Working(p, n)
  /\ call[p] \in {"rfailed", "cfailed"} => T = Node

\* A step that, if it touches a node, brings it down.
NodesOnlyLeave ==
  \A n \in Node : Joinable(n)' =>
    /\ Joinable(n)
    /\ addr'[n] = addr[n] /\ helper'[n] = helper[n] /\ qdisc'[n] = qdisc[n]

\* Every node stays as it is; node n goes down, or is.
NodesStay == \A m \in Node : Joinable(m)' <=> Joinable(m)

NodeLeaves(n) ==
  /\ ~Joinable(n)'
  /\ \A m \in Node \ {n} : Joinable(m)' <=> Joinable(m)

\* The empty shaping leaves no peer out, there being none.
LEMMA UnshapedFits == Fits(Unshaped)
<1>1. ShapedPeers(Unshaped) = {}
  BY DEF ShapedPeers, Unshaped
<1>2. Cardinality(ShapedPeers(Unshaped)) = 0
  BY <1>1, FS_EmptySet
<1>3. 0 <= MaxPeers
  BY HostAssumption
<1> QED BY <1>2, <1>3 DEF Fits, Fitting

\* With an address of its own for every node that is up, the plan holds for
\* each of its peers the fault of their link, and leaves no peer out.
LEMMA PlanSuits ==
  ASSUME Addressed, BandsSuffice, NEW n \in Node, NEW ls
  PROVE  /\ \A m \in Node \ {n} : Joinable(n) /\ Joinable(m) =>
              PeerShapes(n, ls, addr)[addr[m]] = ls[{n, m}]
         /\ Fits(PeerShapes(n, ls, addr))
<1> USE HostAssumption
<1>1. ASSUME NEW m \in Node \ {n}, Joinable(n), Joinable(m)
      PROVE  PeerShapes(n, ls, addr)[addr[m]] = ls[{n, m}]
  <2>1. addr[n] # NoIP /\ addr[m] \in IP
    BY <1>1 DEF Addressed
  <2>2. PeersAt(n, addr[m], addr) = {m}
    BY <1>1, <2>1 DEF PeersAt, Addressed
  <2>3. (CHOOSE x \in {m} : TRUE) = m
    OBVIOUS
  <2> QED BY <2>1, <2>2, <2>3 DEF PeerShapes
<1> DEFINE shaped == ShapedPeers(PeerShapes(n, ls, addr))
           peers == Node \ {n}
           at == [i \in shaped |-> CHOOSE m \in peers : addr[m] = i]
<1>2. \A i \in shaped : at[i] \in peers /\ addr[at[i]] = i
  BY DEF ShapedPeers, PeerShapes, PeersAt
<1> HIDE DEF at
<1>3. at \in [shaped -> peers]
  BY <1>2 DEF at
<1>4. at \in Injection(shaped, peers)
  BY <1>2, <1>3 DEF Injection, IsInjective
<1>5. IsFiniteSet(peers) /\ Cardinality(peers) = Cardinality(Node) - 1
  BY FS_RemoveElement DEF BandsSuffice
<1>6. IsFiniteSet(shaped) /\ Cardinality(shaped) <= Cardinality(peers)
  BY <1>4, <1>5, FS_Injection
<1>7. Cardinality(shaped) \in Nat /\ Cardinality(Node) \in Nat
  BY <1>6, FS_CardinalityType DEF BandsSuffice
<1>8. Cardinality(shaped) <= MaxPeers
  BY <1>5, <1>6, <1>7 DEF BandsSuffice
<1>9. Fits(PeerShapes(n, ls, addr))
  BY <1>8 DEF Fits, Fitting
<1> QED BY <1>1, <1>9

\* A docker command other than start touches no node it does not bring down.
LEMMA DockerOnlyTakes ==
  ASSUME HostTypeOK, HelpersInPlace, Addressed, NEW n \in Node,
         NEW action \in {"pause", "unpause", "kill", "stop"}, Docker(n, action)
  PROVE  /\ NodesOnlyLeave /\ HelpersInPlace' /\ Addressed'
         /\ IF action \in {"kill", "stop"} THEN NodeLeaves(n) ELSE NodesStay
<1> USE DEF HostTypeOK
<1>1. CASE action \in {"pause", "unpause"}
  <2>1. UNCHANGED <<addr, helper, qdisc>> /\ NodesStay
    BY <1>1 DEF Docker, Freeze, Thaw, AlreadyThere, Joinable, NodesStay
  <2>2. HelpersInPlace'
    BY <2>1 DEF HelpersInPlace, HelperExists, NodesStay
  <2>3. Addressed'
    BY <2>1 DEF Addressed, NodesStay
  <2> QED BY <1>1, <2>1, <2>2, <2>3 DEF NodesOnlyLeave, NodesStay
<1>2. CASE action \in {"kill", "stop"} /\ Halt(n)
  <2>1. NodeLeaves(n)
    BY <1>2 DEF Halt, Joinable, NodeLeaves
  <2>2. /\ addr'[n] = NoIP /\ qdisc'[n] = Unshaped /\ helper'[n] # "live"
        /\ \A m \in Node \ {n} :
             addr'[m] = addr[m] /\ helper'[m] = helper[m] /\ qdisc'[m] = qdisc[m]
    BY <1>2 DEF Halt
  <2>3. HelpersInPlace'
    BY <2>1, <2>2 DEF HelpersInPlace, HelperExists, NodeLeaves
  <2>4. Addressed'
    BY <2>1, <2>2 DEF Addressed, NodeLeaves
  <2> QED BY <1>2, <2>1, <2>2, <2>3, <2>4 DEF NodesOnlyLeave, NodeLeaves
<1>3. CASE action = "stop" /\ AlreadyThere(n, action)
  BY <1>3 DEF AlreadyThere, hostVars, NodesOnlyLeave, HelpersInPlace, Addressed, Joinable,
              HelperExists, NodeLeaves
<1> QED BY <1>1, <1>2, <1>3 DEF Docker, AlreadyThere

\* Removing the helper of a node that is down touches no node that is up.
LEMMA DownHelperGoes ==
  ASSUME HostTypeOK, HelpersInPlace, Addressed, NEW n \in Node, ~Joinable(n),
         RemoveHelper(n), UNCHANGED <<nstate, addr, qdisc>>
  PROVE  NodesOnlyLeave /\ HelpersInPlace' /\ Addressed' /\ NodeLeaves(n)
<1>1. /\ \A m \in Node : Joinable(m)' <=> Joinable(m)
      /\ \A m \in Node : helper'[m] = IF m = n THEN "none" ELSE helper[m]
  BY DEF HostTypeOK, RemoveHelper, Joinable
<1>2. HelpersInPlace'
  BY <1>1 DEF HelpersInPlace, HelperExists
<1>3. Addressed'
  BY <1>1 DEF Addressed
<1> QED BY <1>1, <1>2, <1>3 DEF NodesOnlyLeave, NodeLeaves

\* A node that leaves disturbs no engine call: its goroutine finds nothing to
\* do or nobody to do it to, and nobody waits for its shaping.
LEMMA LeavingKeepsCalls ==
  ASSUME NodesOnlyLeave, HelpersInPlace', UNCHANGED engineVars
  PROVE  /\ \A p \in Proc : InOrder(p) => InOrder(p)'
         /\ HostUnshaped => HostUnshaped'
         /\ \A n \in Node : \A W : Suits(n, qdisc[n], W) => Suits(n, qdisc[n], W)'
         /\ \A p \in Proc : \A W, T, U :
              T \subseteq U /\ U \subseteq Node /\ Reconciling(p, W, T)
                => Reconciling(p, W, U)'
<1>1. \A n \in Node : qdisc'[n] = qdisc[n] \/ qdisc'[n] = Unshaped
  BY DEF NodesOnlyLeave, HelpersInPlace
<1>2. ASSUME NEW p \in Proc, InOrder(p)
      PROVE  InOrder(p)'
  BY <1>1, <1>2 DEF InOrder, NodesOnlyLeave, engineVars, HostUnshaped
<1>3. HostUnshaped => HostUnshaped'
  BY <1>1 DEF HostUnshaped
<1>4. ASSUME NEW n \in Node, NEW W, Suits(n, qdisc[n], W)
      PROVE  Suits(n, qdisc[n], W)'
  BY <1>4 DEF Suits, NodesOnlyLeave
<1>5. ASSUME NEW p \in Proc, NEW W, NEW T, NEW U, T \subseteq U, U \subseteq Node,
             Reconciling(p, W, T)
      PROVE  Reconciling(p, W, U)'
  <2>1. /\ call' = call /\ desired' = desired /\ seen' = seen /\ plan' = plan /\ work' = work
        /\ \A n \in Node : Joinable(n)' => Joinable(n)
    BY DEF engineVars, NodesOnlyLeave
  <2>2. call[p] \in {"helpers", "work"} =>
          \A n \in Node :
            /\ Fits(plan[p][n])'
            /\ Suits(n, plan[p][n], W)' \/ (n \in U /\ plan'[p][n] = Unshaped)
    BY <1>5, <2>1 DEF Reconciling, Fits, Suits, NodesOnlyLeave
  <2>3. call[p] = "work" => \A n \in Node \ U : Joinable(n)' => Working(p, n)'
    BY <1>5, <2>1 DEF Reconciling, Working, NodesOnlyLeave
  <2> QED BY <1>5, <2>1, <2>2, <2>3 DEF Reconciling
<1> QED BY <1>2, <1>3, <1>4, <1>5

\* The goroutine of a node goes about installing what the reconcile planned.
LEMMA WorkerReconciles ==
  ASSUME DeleteWorks, HostTypeOK, EngineTypeOK, HelpersInPlace,
         NEW p \in Proc, InOrder(p), NEW W, NEW T, Reconciling(p, W, T),
         NEW n \in Node,
         \/ WorkerRuns(p, n)
         \/ WorkerFails(p, n) /\ n \in T
  PROVE  Reconciling(p, W, T)'
<1>1. /\ call \in [Proc -> CallState]
      /\ work \in [Proc -> [Node -> WorkState]]
      /\ nstate \in [Node -> NodeState]
      /\ helper \in [Node -> HelperState]
      /\ qdisc \in [Node -> Shaping]
  BY DEF EngineTypeOK, HostTypeOK
<1>2. /\ UNCHANGED <<call, desired, seen, plan, addr, nstate>>
      /\ work[p][n] # "idle"
      /\ \E to : work' = [work EXCEPT ![p][n] = to]
      /\ \A m \in Node \ {n} : helper'[m] = helper[m] /\ qdisc'[m] = qdisc[m]
  BY <1>1
     DEF WorkerRuns, WorkerFails, EnsureHelper, CreateHelper, ExecShape, ChooseHelper,
         ExecDelete, RunDelete, CreateHelperFails, ShapeFails, DeleteFails, WorkTo,
         hostVars, StartHelper, RemoveHelper, ExecInHelper, ThrowawayClear
<1>3. \A m \in Node \ {n} : work'[p][m] = work[p][m]
  BY <1>1, <1>2
<1>4. \A m \in Node : Joinable(m)' <=> Joinable(m)
  BY <1>2 DEF Joinable
<1>5. CASE call[p] # "work"
  BY <1>2, <1>4, <1>5 DEF Reconciling, Suits, Fits
<1>6. CASE call[p] = "work"
  <2> USE <1>6
  <2>1. \A m \in (Node \ T) \ {n} : Joinable(m)' => Working(p, m)'
    BY <1>2, <1>3, <1>4 DEF Reconciling, Working
  <2>2. ASSUME n \notin T, Joinable(n)
        PROVE  Working(p, n)'
    <3> USE <2>2
    <3>1. Working(p, n) /\ Fits(plan[p][n])
      BY DEF Reconciling
    <3>2. CASE EnsureHelper(p, n)
      <4>1. work'[p][n] = IF HelperRunning(n) THEN "exec" ELSE "create"
        BY <1>1, <3>2 DEF EnsureHelper, WorkTo
      <4>2. HelperRunning(n) => helper'[n] = "live"
        BY <3>2 DEF EnsureHelper, HelperRunning, HelpersInPlace, hostVars
      <4> QED BY <4>1, <4>2 DEF Working
    <3>3. CASE CreateHelper(p, n)
      <4>1. work'[p][n] = "exec" /\ helper'[n] = "live"
        BY <1>1, <3>3 DEF CreateHelper, WorkTo, StartHelper
      <4> QED BY <4>1 DEF Working
    <3>4. CASE ExecShape(p, n)
      <4>1. work[p][n] = "exec" /\ work'[p][n] = "idle"
        BY <1>1, <3>4 DEF ExecShape, WorkTo
      <4>2. helper[n] = "live"
        BY <3>1, <4>1 DEF Working
      <4>3. ExecInHelper(n, plan[p][n])
        BY <3>1, <3>4 DEF ExecShape, Fits
      <4>4. qdisc'[n] = plan[p][n]
        BY <1>1, <4>2, <4>3 DEF ExecInHelper
      <4> QED BY <1>2, <4>1, <4>4 DEF Working
    <3>5. CASE ChooseHelper(p, n)
      <4>1. work[p][n] = "check" /\ work'[p][n] \in {"execDel", "runDel"}
        BY <1>1, <3>5 DEF ChooseHelper, WorkTo
      <4> QED BY <1>2, <3>1, <4>1 DEF Working
    <3>6. CASE ExecDelete(p, n)
      <4>1. work[p][n] = "execDel" /\ work'[p][n] = "idle"
        BY <1>1, <3>6 DEF ExecDelete, WorkTo
      <4>2. qdisc'[n] = Unshaped
        BY <1>1, <3>6 DEF ExecDelete, ExecInHelper, HelpersInPlace, HelperExists
      <4> QED BY <1>2, <3>1, <4>1, <4>2 DEF Working
    <3>7. CASE RunDelete(p, n)
      <4>1. work[p][n] = "runDel" /\ work'[p][n] = "idle"
        BY <1>1, <3>7 DEF RunDelete, WorkTo
      <4>2. qdisc'[n] = Unshaped
        BY <1>1, <3>7 DEF RunDelete, ThrowawayClear
      <4> QED BY <1>2, <3>1, <4>1, <4>2 DEF Working
    <3> QED BY <3>2, <3>3, <3>4, <3>5, <3>6, <3>7 DEF WorkerRuns
  <2>3. \A m \in Node \ T : Joinable(m)' => Working(p, m)'
    BY <1>4, <2>1, <2>2
  <2>4. \A m \in Node :
          /\ Fits(plan[p][m])'
          /\ Suits(m, plan[p][m], W)' \/ (m \in T /\ plan'[p][m] = Unshaped)
    BY <1>2, <1>4 DEF Reconciling, Fits, Suits
  <2> QED BY <1>2, <2>3, <2>4 DEF Reconciling
<1> QED BY <1>5, <1>6

\* Listing, planning and starting the goroutines; a failure spoils every node.
LEMMA CallerReconciles ==
  ASSUME HostTypeOK, EngineTypeOK, HelpersInPlace, Addressed, BandsSuffice,
         NEW p \in Proc, InOrder(p), NEW W, NEW T, Reconciling(p, W, T), NEW U,
         \/ Listing(p)
         \/ ListingFails(p) /\ U = Node
         \/ CallerRuns(p) /\ U = T
  PROVE  Reconciling(p, W, U)'
<1>1. /\ call \in [Proc -> CallState]
      /\ desired \in [Proc -> LinkSet]
      /\ seen \in [Proc -> [Node -> NodeState]]
      /\ plan \in [Proc -> [Node -> Shaping]]
      /\ work \in [Proc -> [Node -> WorkState]]
  BY DEF EngineTypeOK
<1>2. CASE ListNodes(p)
  <2>1. /\ call[p] = "list" /\ call'[p] = "inspect"
        /\ desired' = desired /\ seen'[p] = nstate /\ nstate' = nstate
    BY <1>1, <1>2 DEF ListNodes, hostVars
  <2>2. \A n \in Node : Joinable(n)' => seen'[p][n] \in {"running", "paused"}
    BY <2>1 DEF Joinable
  <2> QED BY <2>1, <2>2 DEF Reconciling
<1>3. CASE InspectIPs(p)
  <2>1. /\ call[p] = "inspect" /\ call'[p] = "helpers"
        /\ plan'[p] = [n \in Node |-> PeerShapes(n, desired[p], addr)]
        /\ seen' = seen /\ addr' = addr /\ nstate' = nstate
    BY <1>1, <1>3 DEF InspectIPs, PlanFrom, hostVars
  <2>2. ASSUME NEW n \in Node
        PROVE  Suits(n, plan[p][n], W)' /\ Fits(plan[p][n])'
    <3>1. \A m \in Node \ {n} : desired[p][{n, m}] \in W[{n, m}]
      BY <2>1, TwoNodesArePair DEF Reconciling
    <3>2. plan'[p][n] = PeerShapes(n, desired[p], addr)
      BY <2>1
    <3>3. \A m \in Node \ {n} :
            Joinable(n) /\ Joinable(m) => plan'[p][n][addr[m]] \in W[{n, m}]
      BY <3>1, <3>2, PlanSuits
    <3>4. Fits(plan'[p][n])
      BY <3>2, PlanSuits
    <3> QED BY <2>1, <3>3, <3>4 DEF Suits, Fits, Joinable
  <2>3. \A n \in Node : Joinable(n)' => seen'[p][n] \in {"running", "paused"}
    BY <2>1 DEF Reconciling, Joinable
  <2> QED BY <2>1, <2>2, <2>3 DEF Reconciling
<1>4. CASE ListFails(p) /\ U = Node
  <2>1. call'[p] = "rfailed"
    BY <1>1, <1>4 DEF ListFails
  <2> QED BY <1>4, <2>1 DEF Reconciling
<1>5. CASE InspectFails(p) /\ U = Node
  <2>1. /\ call[p] = "inspect" /\ call'[p] = "helpers" /\ seen' = seen /\ nstate' = nstate
        /\ plan'[p] = [n \in Node |-> PeerShapes(n, desired[p], [m \in Node |-> NoIP])]
    BY <1>1, <1>5 DEF InspectFails, PlanFrom, hostVars
  <2>2. \A n \in Node : PeerShapes(n, desired[p], [m \in Node |-> NoIP]) = Unshaped
    BY DEF PeerShapes, Unshaped
  <2>3. \A n \in Node : Fits(plan'[p][n]) /\ plan'[p][n] = Unshaped
    BY <2>1, <2>2, UnshapedFits
  <2>4. \A n \in Node : Joinable(n)' => seen'[p][n] \in {"running", "paused"}
    BY <2>1 DEF Reconciling, Joinable
  <2> QED BY <1>5, <2>1, <2>3, <2>4 DEF Reconciling, Fits
<1>6. CASE StartWorkers(p) /\ U = T
  <2>1. /\ call[p] = "helpers" /\ call'[p] = "work" /\ U = T
        /\ work'[p] = [n \in Node |-> FirstStep(n, seen[p][n], plan[p][n])]
        /\ UNCHANGED <<hostVars, plan>>
    BY <1>1, <1>6 DEF StartWorkers
  <2>2. \A n \in Node : Joinable(n)' <=> Joinable(n)
    BY <2>1 DEF Joinable, hostVars
  <2>3. ASSUME NEW n \in Node, Joinable(n)
        PROVE  Working(p, n)'
    <3>1. work'[p][n] = FirstStep(n, seen[p][n], plan[p][n])
      BY <2>1
    <3>2. seen[p][n] \in {"running", "paused"}
      BY <2>1, <2>3 DEF Reconciling
    <3>3. plan[p][n] = Unshaped /\ ~HelperExists(n) => qdisc[n] = plan[p][n]
      BY DEF HelpersInPlace
    <3> QED BY <2>1, <3>1, <3>2, <3>3 DEF Working, FirstStep, hostVars
  <2>4. \A n \in Node :
          /\ Fits(plan[p][n])'
          /\ Suits(n, plan[p][n], W)' \/ (n \in U /\ plan'[p][n] = Unshaped)
    BY <2>1, <2>2 DEF Reconciling, Fits, Suits, hostVars
  <2> QED BY <2>1, <2>2, <2>3, <2>4 DEF Reconciling
<1>7. CASE ClearList(p) \/ (ClearListFails(p) /\ U = Node) \/ ClearHelpers(p)
  <2>1. \/ call'[p] \in {"cwork", "cleared"}
        \/ call'[p] = "cfailed" /\ U = Node
    BY <1>1, <1>7 DEF ClearList, ClearListFails, ClearHelpers
  <2> QED BY <2>1 DEF Reconciling
<1>8. CASE HelpersFail(p) /\ U = Node
  <2>1. /\ call[p] = "helpers" /\ call'[p] = "work" /\ U = Node
        /\ UNCHANGED <<hostVars, plan>>
    BY <1>1, <1>8 DEF HelpersFail
  <2>2. \A n \in Node : Joinable(n)' <=> Joinable(n)
    BY <2>1 DEF Joinable, hostVars
  <2>3. \A n \in Node :
          /\ Fits(plan[p][n])'
          /\ Suits(n, plan[p][n], W)' \/ (n \in U /\ plan'[p][n] = Unshaped)
    BY <2>1, <2>2 DEF Reconciling, Fits, Suits, hostVars
  <2> QED BY <2>1, <2>3 DEF Reconciling
<1> QED BY <1>2, <1>3, <1>4, <1>5, <1>6, <1>7, <1>8 DEF Listing, ListingFails, CallerRuns

\* A reconcile that returns leaves every node it missed nothing of as wanted.
LEMMA ReconcileDelivers ==
  ASSUME NEW p \in Proc, NEW W, NEW T, Reconciling(p, W, T), ReconcileEnd(p)
  PROVE  \A n \in Node \ T : Suits(n, qdisc[n], W)
BY DEF ReconcileEnd, Reconciling, WorkersDone, NoWork, Working, Suits

-----------------------------------------------------------------------------
(***************************************************************************)
(* What these steps are to LinkBoard: nodes that stay or go down, and      *)
(* shapings that are replaced                                              *)
(***************************************************************************)

\* A node that is down shapes no traffic, and none is shaped towards it.
LEMMA DownIsBare ==
  ASSUME HelpersInPlace, Addressed, NEW a \in Node, NEW b \in Node,
         ~Joinable(a) \/ ~Joinable(b)
  PROVE  FaultTowards(a, b) = NoFault
BY DEF HelpersInPlace, Addressed, FaultTowards, Unshaped

\* Nodes that stay do what they did.
LEMMA StayingFaults ==
  ASSUME HelpersInPlace, Addressed, NodesOnlyLeave, HelpersInPlace', Addressed', NodesStay
  PROVE  UNCHANGED <<LinkFaults, NodesUp>>
<1>1. ASSUME NEW a \in Node, NEW b \in Node
      PROVE  FaultTowards(a, b)' = FaultTowards(a, b)
  <2>1. CASE Joinable(a) /\ Joinable(b)
    BY <2>1 DEF NodesStay, NodesOnlyLeave, FaultTowards
  <2>2. CASE ~(Joinable(a) /\ Joinable(b))
    <3>1. FaultTowards(a, b) = NoFault
      BY <2>2, DownIsBare
    <3>2. (~Joinable(a) \/ ~Joinable(b))'
      BY <2>2 DEF NodesStay
    <3>3. FaultTowards(a, b)' = NoFault
      BY <3>2 DEF HelpersInPlace, Addressed, FaultTowards, Unshaped
    <3> QED BY <3>1, <3>3
  <2> QED BY <2>1, <2>2
<1> QED BY <1>1 DEF LinkFaults, NodesUp, NodesStay

\* A node that leaves takes the faults from and towards it along.
LEMMA LeavingFaults ==
  ASSUME HelpersInPlace, Addressed, NodesOnlyLeave, HelpersInPlace', Addressed',
         NEW n \in Node, NodeLeaves(n)
  PROVE  /\ NodesUp' = NodesUp \ {n}
         /\ LinkFaults' = [a \in Node |-> [b \in Node \ {a} |->
                             IF n \in {a, b} THEN NoFault ELSE LinkFaults[a][b]]]
<1>1. ASSUME NEW a \in Node, NEW b \in Node \ {a}
      PROVE  FaultTowards(a, b)' = IF n \in {a, b} THEN NoFault ELSE FaultTowards(a, b)
  <2>1. CASE (Joinable(a) /\ Joinable(b))'
    BY <2>1 DEF NodeLeaves, NodesOnlyLeave, FaultTowards
  <2>2. CASE ~(Joinable(a) /\ Joinable(b))'
    <3>1. FaultTowards(a, b)' = NoFault
      BY <2>2 DEF HelpersInPlace, Addressed, FaultTowards, Unshaped
    <3>2. n \notin {a, b} => FaultTowards(a, b) = NoFault
      BY <2>2, DownIsBare DEF NodeLeaves
    <3> QED BY <3>1, <3>2
  <2> QED BY <2>1, <2>2
<1>2. NodesUp' = NodesUp \ {n}
  BY DEF NodesUp, NodeLeaves
<1> QED BY <1>1, <1>2 DEF LinkFaults

\* The faults depend on the nodes, their addresses and their shapings.
LEMMA StillFaults ==
  ASSUME UNCHANGED <<nstate, addr, qdisc>>
  PROVE  UNCHANGED <<LinkFaults, NodesUp>>
BY DEF LinkFaults, FaultTowards, NodesUp, Joinable

\* Shapings that suit are faults that are wanted.
LEMMA SuitableFaults ==
  ASSUME Addressed, NEW W, NEW T, \A n \in Node \ T : Suits(n, qdisc[n], W)
  PROVE  \A n \in NodesUp \ T : \A m \in NodesUp \ {n} : LinkFaults[n][m] \in W[{n, m}]
BY HostAssumption DEF Addressed, Suits, LinkFaults, FaultTowards, NodesUp

\* A node whose shaping is replaced by one that suits, or by none, in the terms
\* of LinkBoard.
LEMMA ReplacedFaults ==
  ASSUME HostTypeOK, Addressed, NEW n \in Node, Joinable(n), NEW s \in Shaping,
         qdisc' = [qdisc EXCEPT ![n] = s], UNCHANGED <<nstate, addr>>,
         NEW W, NEW T, Suits(n, s, W) \/ (n \in T /\ s = Unshaped)
  PROVE  /\ n \in NodesUp /\ NodesUp' = NodesUp
         /\ \E r \in [Node \ {n} -> Fault] :
              /\ \/ \A m \in NodesUp \ {n} : r[m] \in W[{n, m}]
                 \/ n \in T /\ r = [m \in Node \ {n} |-> NoFault]
              /\ LinkFaults' = [LinkFaults EXCEPT ![n] = r]
<1> DEFINE r == [m \in Node \ {n} |-> FaultTowards(n, m)']
<1>1. \A m \in Node : addr[m] \in IP \cup {NoIP}
  BY DEF HostTypeOK
<1>2. \A m \in Node \ {n} : FaultTowards(n, m)' = IF addr[m] = NoIP THEN NoFault ELSE s[addr[m]]
  BY DEF HostTypeOK, FaultTowards
<1>3. r \in [Node \ {n} -> Fault]
  BY <1>1, <1>2 DEF Shaping, Fault
<1>4. NodesUp' = NodesUp /\ n \in NodesUp
  BY DEF NodesUp, Joinable
<1>5. LinkFaults' = [LinkFaults EXCEPT ![n] = r]
  <2>1. \A a \in Node \ {n} : \A b \in Node : FaultTowards(a, b)' = FaultTowards(a, b)
    BY DEF HostTypeOK, FaultTowards
  <2> QED BY <2>1 DEF LinkFaults
<1>6. CASE Suits(n, s, W)
  <2>1. \A m \in NodesUp \ {n} : r[m] \in W[{n, m}]
    BY <1>2, <1>6, HostAssumption DEF Suits, Addressed, NodesUp
  <2> QED BY <1>3, <1>4, <1>5, <2>1
<1>7. CASE n \in T /\ s = Unshaped
  <2>1. \A m \in Node \ {n} : FaultTowards(n, m)' = NoFault
    BY <1>1, <1>2, <1>7 DEF Unshaped
  <2>2. r = [m \in Node \ {n} |-> NoFault]
    BY <2>1
  <2> QED BY <1>3, <1>4, <1>5, <1>7, <2>2
<1> QED BY <1>6, <1>7

\* The goroutine of a node replaces its shaping by one that suits, by none if
\* something of the node was missed, or not at all.
LEMMA WorkerReplaces ==
  ASSUME DeleteWorks, HostTypeOK, EngineTypeOK, HelpersInPlace, NEW p \in Proc,
         InOrder(p), NEW W, NEW T, Reconciling(p, W, T), NEW n \in Node, Addressed,
         WorkerRuns(p, n) \/ WorkerFails(p, n),
         call[p] = "cwork" => \A k \in Pair : NoFault \in W[k]
  PROVE  /\ UNCHANGED <<nstate, addr, call>> /\ call[p] \in {"work", "cwork"}
         /\ WorkerFails(p, n) => UNCHANGED qdisc
         /\ \/ UNCHANGED qdisc
            \/ \E s \in Shaping :
                 /\ Joinable(n) /\ qdisc' = [qdisc EXCEPT ![n] = s]
                 /\ Suits(n, s, W) \/ (n \in T /\ s = Unshaped)
<1>1. /\ work \in [Proc -> [Node -> WorkState]]
      /\ plan \in [Proc -> [Node -> Shaping]]
      /\ qdisc \in [Node -> Shaping]
  BY DEF EngineTypeOK, HostTypeOK
<1>2. UNCHANGED <<nstate, addr, call>> /\ work[p][n] # "idle"
  BY DEF WorkerRuns, WorkerFails, EnsureHelper, CreateHelper, ExecShape, ChooseHelper,
         ExecDelete, RunDelete, CreateHelperFails, ShapeFails, DeleteFails, WorkTo,
         hostVars
<1>3. call[p] \in {"work", "cwork"}
  BY <1>2 DEF InOrder, NoWork
<1>4. WorkerFails(p, n) => UNCHANGED qdisc
  BY DEF WorkerFails, CreateHelperFails, ShapeFails, DeleteFails, hostVars
<1>5. helper[n] = "live" => Joinable(n)
  BY DEF HelpersInPlace
<1>6. CASE ExecShape(p, n)
  <2>1. call[p] = "work"
    BY <1>3, <1>6 DEF ExecShape, WorkTo, InOrder
  <2>2. /\ Fitting(plan[p][n]) = {plan[p][n]}
        /\ Suits(n, plan[p][n], W) \/ (n \in T /\ plan[p][n] = Unshaped)
    BY <2>1 DEF Reconciling, Fits
  <2>3. ExecInHelper(n, plan[p][n])
    BY <1>6, <2>2 DEF ExecShape
  <2> QED BY <1>1, <1>2, <1>3, <1>4, <1>5, <2>2, <2>3 DEF ExecInHelper
<1>7. CASE ExecDelete(p, n) \/ RunDelete(p, n)
  <2>1. qdisc' = qdisc \/ (Joinable(n) /\ qdisc' = [qdisc EXCEPT ![n] = Unshaped])
    BY <1>5, <1>7 DEF ExecDelete, ExecInHelper, RunDelete, ThrowawayClear
  <2>2. Joinable(n) => Suits(n, Unshaped, W) \/ n \in T
    <3>1. CASE call[p] = "cwork"
      BY <3>1, TwoNodesArePair DEF Suits, Unshaped, Addressed
    <3>2. CASE call[p] = "work"
      BY <1>7, <3>2 DEF Reconciling, Working, ExecDelete, RunDelete, WorkTo
    <3> QED BY <1>3, <3>1, <3>2
  <2> QED BY <1>2, <1>3, <1>4, <2>1, <2>2, UnshapedType
<1>8. CASE ~ExecShape(p, n) /\ ~ExecDelete(p, n) /\ ~RunDelete(p, n)
  BY <1>2, <1>3, <1>4, <1>8
     DEF WorkerRuns, EnsureHelper, CreateHelper, ChooseHelper, hostVars
<1> QED BY <1>6, <1>7, <1>8
==============================================================================
