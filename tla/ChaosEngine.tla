----------------------------- MODULE ChaosEngine -----------------------------
(***************************************************************************)
(* The chaos engine (cmd/anydbver/chaos.go): the two operations every      *)
(* front end drives, chaosReconcileLinks and chaosClearAll, each a         *)
(* sequence of docker commands that other processes of the host interleave *)
(* with.  A front end p has at most one of them in progress.               *)
(*                                                                         *)
(*   reconcile: list -> inspect -> helpers -> work (one worker per node)   *)
(*   clear:     clist -> cwork (one worker per node) -> cleared            *)
(***************************************************************************)
EXTENDS ChaosHost

CONSTANTS
  Proc,       \* the front ends: a dashboard, CLI invocations
  Failures    \* the docker calls that may fail in this model

ASSUME EngineAssumption == Failures \subseteq {"list", "inspect", "helpers", "run", "shape", "delete"}

VARIABLES
  call,      \* where the engine operation of each front end stands
  desired,   \* the link set it was called with
  seen,      \* the node states its `docker ps -a` printed
  plan,      \* the shaping it computed for each node (perContainer)
  work       \* where the goroutine of each node stands

engineVars == <<call, desired, seen, plan, work>>

\* chaosLinkKey sorts the two names: a link is an unordered pair.
Pair == {{a, b} : a, b \in Node} \ {{a} : a \in Node}

LinkSet == [Pair -> Fault]

NoLinks == [k \in Pair |-> NoFault]

CallState == {"idle", "list", "inspect", "helpers", "work", "rfailed",
              "clist", "cwork", "cleared", "cfailed"}

\* ensure, create, exec: chaosShapeContainer; check, execDel, runDel:
\* chaosClearContainer.
WorkState == {"idle", "ensure", "create", "exec", "check", "execDel", "runDel"}

NoWork == [n \in Node |-> "idle"]
NoPlan == [n \in Node |-> Unshaped]
NothingSeen == [n \in Node |-> "exited"]

EngineTypeOK ==
  /\ call \in [Proc -> CallState]
  /\ desired \in [Proc -> LinkSet]
  /\ seen \in [Proc -> [Node -> NodeState]]
  /\ plan \in [Proc -> [Node -> Shaping]]
  /\ work \in [Proc -> [Node -> WorkState]]

EngineInit ==
  /\ call = [p \in Proc |-> "idle"]
  /\ desired = [p \in Proc |-> NoLinks]
  /\ seen = [p \in Proc |-> NothingSeen]
  /\ plan = [p \in Proc |-> NoPlan]
  /\ work = [p \in Proc |-> NoWork]

-----------------------------------------------------------------------------
(***************************************************************************)
(* Pure parts of the reconcile                                             *)
(***************************************************************************)

\* The nodes m, other than n, that hold address i in the inspected ips.
PeersAt(n, i, ips) == {m \in Node \ {n} : ips[m] = i}

\* perContainer[n] as a function of the peer's address: a link is skipped
\* when either end has no address.
PeerShapes(n, links, ips) ==
  [i \in IP |->
     IF ips[n] # NoIP /\ PeersAt(n, i, ips) # {}
     THEN links[{n, CHOOSE m \in PeersAt(n, i, ips) : TRUE}]
     ELSE NoFault]

ShapedPeers(s) == {i \in IP : s[i] # NoFault}

\* The variant that reserves one band too many.
FittingBelowLimit(s) ==
  IF Cardinality(ShapedPeers(s)) < MaxPeers THEN {s}
  ELSE {[i \in IP |-> IF i \in keep THEN s[i] ELSE NoFault] :
          keep \in {k \in SUBSET ShapedPeers(s) : Cardinality(k) = MaxPeers - 1}}

\* chaosShapeContainer keeps the first chaosMaxPeers peers of a list whose
\* order is the dashboard's map iteration order: any of them.
Fitting(s) ==
  IF Cardinality(ShapedPeers(s)) <= MaxPeers THEN {s}
  ELSE {[i \in IP |-> IF i \in keep THEN s[i] ELSE NoFault] :
          keep \in {k \in SUBSET ShapedPeers(s) : Cardinality(k) = MaxPeers}}

\* chaosExistingHelpers: `docker ps -a` prints the helper, running or not.
HelperExists(n) == helper[n] # "none"

\* With no helper in the list, a node in no link is taken for an unshaped one.
FirstStepUnhelped(n, state, shaping) ==
  IF state \in {"running", "paused"} /\ shaping # Unshaped THEN "ensure" ELSE "idle"

\* What the reconcile's goroutine for n has to do.
FirstStep(n, state, shaping) ==
  IF state \notin {"running", "paused"} THEN "idle"
  ELSE IF shaping # Unshaped THEN "ensure"
  ELSE IF HelperExists(n) THEN "check"
  ELSE "idle"

WorkersDone(p) == work[p] = NoWork

-----------------------------------------------------------------------------
(***************************************************************************)
(* chaosReconcileLinks(links)                                              *)
(***************************************************************************)

ReconcileBegin(p, links) ==
  /\ call[p] = "idle"
  /\ call' = [call EXCEPT ![p] = "list"]
  /\ desired' = [desired EXCEPT ![p] = links]
  /\ UNCHANGED <<seen, plan, work>>

\* chaosListNodes, first half: `docker ps -a` prints every node's state.
ListNodes(p) ==
  /\ call[p] = "list"
  /\ call' = [call EXCEPT ![p] = "inspect"]
  /\ seen' = [seen EXCEPT ![p] = nstate]
  /\ UNCHANGED <<hostVars, desired, plan, work>>

ListFails(p) ==
  /\ "list" \in Failures
  /\ call[p] = "list"
  /\ call' = [call EXCEPT ![p] = "rfailed"]
  /\ desired' = [desired EXCEPT ![p] = NoLinks]
  /\ UNCHANGED <<hostVars, seen, plan, work>>

\* chaosInspectIPs, and the loop that fills perContainer from the links.
PlanFrom(p, ips) ==
  /\ call[p] = "inspect"
  /\ call' = [call EXCEPT ![p] = "helpers"]
  /\ plan' = [plan EXCEPT ![p] = [n \in Node |-> PeerShapes(n, desired[p], ips)]]
  /\ desired' = [desired EXCEPT ![p] = NoLinks]
  /\ UNCHANGED <<hostVars, seen, work>>

InspectIPs(p) == PlanFrom(p, addr)

\* One `docker inspect` for all nodes: if it fails there are no addresses,
\* hence no peers, for any of them.
InspectFails(p) ==
  /\ "inspect" \in Failures
  /\ PlanFrom(p, [n \in Node |-> NoIP])

\* `docker ps -a` of the helpers, then one goroutine per listed live node.
StartWorkers(p) ==
  /\ call[p] = "helpers"
  /\ call' = [call EXCEPT ![p] = "work"]
  /\ work' = [work EXCEPT ![p] =
                [n \in Node |-> FirstStep(n, seen[p][n], plan[p][n])]]
  /\ seen' = [seen EXCEPT ![p] = NothingSeen]
  /\ UNCHANGED <<hostVars, desired, plan>>

\* The error of that `docker ps -a` is dropped, and the list of helpers empty.
HelpersFail(p) ==
  /\ "helpers" \in Failures
  /\ call[p] = "helpers"
  /\ call' = [call EXCEPT ![p] = "work"]
  /\ work' = [work EXCEPT ![p] =
                [n \in Node |-> FirstStepUnhelped(n, seen[p][n], plan[p][n])]]
  /\ seen' = [seen EXCEPT ![p] = NothingSeen]
  /\ UNCHANGED <<hostVars, desired, plan>>

\* wg.Wait() returns, or chaosListNodes returned an error.
ReconcileEnd(p) ==
  /\ \/ call[p] = "work" /\ WorkersDone(p)
     \/ call[p] = "rfailed"
  /\ call' = [call EXCEPT ![p] = "idle"]
  /\ plan' = [plan EXCEPT ![p] = NoPlan]
  /\ UNCHANGED <<hostVars, desired, seen, work>>

-----------------------------------------------------------------------------
(***************************************************************************)
(* The goroutine of node n                                                 *)
(***************************************************************************)

WorkTo(p, n, from, to) ==
  /\ work[p][n] = from
  /\ work' = [work EXCEPT ![p][n] = to]
  /\ UNCHANGED <<call, desired, seen, plan>>

\* chaosEnsureHelper: a running helper is reused as it is.
EnsureHelper(p, n) ==
  /\ WorkTo(p, n, "ensure", IF HelperRunning(n) THEN "exec" ELSE "create")
  /\ UNCHANGED hostVars

\* chaosEnsureHelper: the rest; an error ends the goroutine with a log line.
CreateHelper(p, n) ==
  /\ WorkTo(p, n, "create", IF Joinable(n) THEN "exec" ELSE "idle")
  /\ StartHelper(n)
  /\ UNCHANGED <<nstate, addr, qdisc>>

\* The image is missing or the daemon refuses: the old helper is gone.
CreateHelperFails(p, n) ==
  /\ "run" \in Failures
  /\ WorkTo(p, n, "create", "idle")
  /\ RemoveHelper(n)
  /\ UNCHANGED <<nstate, addr, qdisc>>

\* chaosSh: the batch deletes the root qdisc and rebuilds it.
ExecShape(p, n) ==
  /\ WorkTo(p, n, "exec", "idle")
  /\ \E s \in Fitting(plan[p][n]) : ExecInHelper(n, s)
  /\ UNCHANGED <<nstate, addr, helper>>

\* The batch fails (no netem module, docker error): a log line, no shaping.
ShapeFails(p, n) ==
  /\ "shape" \in Failures
  /\ WorkTo(p, n, "exec", "idle")
  /\ UNCHANGED hostVars

\* chaosTc: through the helper when one is running, else a throwaway one.
ChooseHelper(p, n) ==
  /\ WorkTo(p, n, "check", IF HelperRunning(n) THEN "execDel" ELSE "runDel")
  /\ UNCHANGED hostVars

ExecDelete(p, n) ==
  /\ WorkTo(p, n, "execDel", "idle")
  /\ ExecInHelper(n, Unshaped)
  /\ UNCHANGED <<nstate, addr, helper>>

RunDelete(p, n) ==
  /\ WorkTo(p, n, "runDel", "idle")
  /\ IF Joinable(n) THEN ThrowawayClear(n) ELSE UNCHANGED qdisc
  /\ UNCHANGED <<nstate, addr, helper>>

\* The error of a failed `tc qdisc del` is not even logged.
DeleteFails(p, n) ==
  /\ "delete" \in Failures
  /\ WorkTo(p, n, "execDel", "idle") \/ WorkTo(p, n, "runDel", "idle")
  /\ UNCHANGED hostVars

\* The steps of n's goroutine, and those in which docker lets it down.
WorkerRuns(p, n) ==
  \/ EnsureHelper(p, n)
  \/ CreateHelper(p, n)
  \/ ExecShape(p, n)
  \/ ChooseHelper(p, n)
  \/ ExecDelete(p, n)
  \/ RunDelete(p, n)

WorkerFails(p, n) ==
  CreateHelperFails(p, n) \/ ShapeFails(p, n) \/ DeleteFails(p, n)

-----------------------------------------------------------------------------
(***************************************************************************)
(* chaosClearAll                                                           *)
(***************************************************************************)

\* The variant that takes a paused node for an unreachable one.
ClearableRunning(n) == nstate[n] = "running"

\* The nodes chaosClearAll starts a goroutine for.
Clearable(n) == nstate[n] \in {"running", "paused"}

ClearBegin(p) ==
  /\ call[p] = "idle"
  /\ call' = [call EXCEPT ![p] = "clist"]
  /\ UNCHANGED <<desired, seen, plan, work>>

ClearList(p) ==
  /\ call[p] = "clist"
  /\ call' = [call EXCEPT ![p] = "cwork"]
  /\ work' = [work EXCEPT ![p] =
                [n \in Node |-> IF Clearable(n) THEN "check" ELSE "idle"]]
  /\ UNCHANGED <<hostVars, desired, seen, plan>>

ClearListFails(p) ==
  /\ "list" \in Failures
  /\ call[p] = "clist"
  /\ call' = [call EXCEPT ![p] = "cfailed"]
  /\ UNCHANGED <<hostVars, desired, seen, plan, work>>

\* After wg.Wait(): the helpers of all listed nodes go, whatever their state.
ClearHelpers(p) ==
  /\ call[p] = "cwork"
  /\ WorkersDone(p)
  /\ call' = [call EXCEPT ![p] = "cleared"]
  /\ RemoveHelpers
  /\ UNCHANGED <<nstate, addr, qdisc, desired, seen, plan, work>>

\* The CLI state file is dropped on success (see ChaosCLI); then return.
ClearEnd(p) ==
  /\ call[p] \in {"cleared", "cfailed"}
  /\ call' = [call EXCEPT ![p] = "idle"]
  /\ UNCHANGED <<hostVars, desired, seen, plan, work>>

-----------------------------------------------------------------------------
\* `docker ps -a` of either operation.
Listing(p) == ListNodes(p) \/ ClearList(p)

ListingFails(p) ==
  ListFails(p) \/ InspectFails(p) \/ HelpersFail(p) \/ ClearListFails(p)

\* The other steps of the calling goroutine.
CallerRuns(p) == InspectIPs(p) \/ StartWorkers(p) \/ ClearHelpers(p)

\* The process of front end p is gone: its goroutines with it.
EngineGone(p) ==
  /\ call' = [call EXCEPT ![p] = "idle"]
  /\ desired' = [desired EXCEPT ![p] = NoLinks]
  /\ seen' = [seen EXCEPT ![p] = NothingSeen]
  /\ plan' = [plan EXCEPT ![p] = NoPlan]
  /\ work' = [work EXCEPT ![p] = NoWork]
==============================================================================
