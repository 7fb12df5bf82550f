------------------------------- MODULE ChaosCLI -------------------------------
(***************************************************************************)
(* The command line front end of the chaos engine: each `anydbver chaos`   *)
(* command is a process of its own, the links it asks for are kept between *)
(* commands in a state file per namespace, and `--ttl` leaves a detached   *)
(* shell behind that clears the namespace later.  Nothing locks the file.  *)
(* (cmd/anydbver/chaos.go from chaosLoadState on, and the chaos commands   *)
(* of cmd/anydbver/anydbver.go.)                                           *)
(*                                                                         *)
(* `partition` is `link` with the profile Partition; `status` and          *)
(* `measure` only read.  A command that cannot resolve its nodes, or that  *)
(* docker refuses, ends without a trace and is no step of this model.      *)
(***************************************************************************)
EXTENDS ChaosEngine

CONSTANTS
  None,          \* no node
  Shell,         \* detached dead-man shells (a bound on live ones)
  NodeActions,   \* the node commands users run
  WithTTL,       \* which of --ttl 0 (FALSE) and --ttl N (TRUE) users choose
  Overlap,       \* whether a command or an awake shell may run next to another
  Interrupts     \* whether a command may be killed

ASSUME CliAssumption ==
  /\ None \notin Node
  /\ Shell \cap Proc = {}
  /\ NodeActions \subseteq {"pause", "unpause", "kill", "start"}
  /\ WithTTL \subseteq BOOLEAN
  /\ Overlap \in BOOLEAN /\ Interrupts \in BOOLEAN

VARIABLES
  file,      \* the state file; NoLinks: there is none
  at,        \* where each process stands
  asked,     \* the link command it runs
  draft,     \* the link set it will save
  owed,      \* the node whose helper a process or shell removes next
  shellAt,   \* the dead-man shells
  todo,      \* the nodes an awake shell has still to clear
  touched    \* history: the nodes whose shaping the last reconcile may have missed

cmdVars == <<at, asked, draft>>
shellVars == <<shellAt, todo>>
vars == <<hostVars, engineVars, cmdVars, shellVars, file, owed, touched>>

NoRequest == [pair |-> {}, fault |-> NoFault, ttl |-> FALSE]

TypeOK ==
  /\ HostTypeOK
  /\ EngineTypeOK
  /\ file \in LinkSet
  /\ at \in [Proc -> {"idle", "load", "reconcile", "save", "arm", "clear", "drop"}]
  /\ asked \in [Proc -> [pair : Pair \cup {{}}, fault : Fault, ttl : BOOLEAN]]
  /\ draft \in [Proc -> LinkSet]
  /\ owed \in [Proc \cup Shell -> Node \cup {None}]
  /\ shellAt \in [Shell -> {"free", "asleep", "awake"}]
  /\ todo \in [Shell -> SUBSET Node]
  /\ touched \subseteq Node

Init ==
  /\ HostInit
  /\ EngineInit
  /\ file = NoLinks
  /\ at = [p \in Proc |-> "idle"]
  /\ asked = [p \in Proc |-> NoRequest]
  /\ draft = [p \in Proc |-> NoLinks]
  /\ owed = [x \in Proc \cup Shell |-> None]
  /\ shellAt = [s \in Shell |-> "free"]
  /\ todo = [s \in Shell |-> {}]
  /\ touched = {}

-----------------------------------------------------------------------------
\* Nothing is under way, except shells that sleep.
Quiet ==
  /\ \A p \in Proc : at[p] = "idle"
  /\ \A s \in Shell : shellAt[s] # "awake"

MayStart(p) == at[p] = "idle" /\ (Overlap \/ Quiet)

\* Every link command with a ttl will find a shell of the bound.
ShellLeft ==
  Cardinality({s \in Shell : shellAt[s] = "free"}) >
    Cardinality({p \in Proc : asked[p].ttl})

\* The variant that starts the set over instead of adding to it.
UpsertFresh(links, k, f) == [NoLinks EXCEPT ![k] = f]

\* A command's link replaces the link of its pair or is added.
Upsert(links, k, f) == [links EXCEPT ![k] = f]

\* chaosLoadState: os.WriteFile truncates before it writes, and what cannot
\* be parsed counts as no links.
Readable(p) ==
  {file} \cup (IF \E q \in Proc \ {p} : at[q] = "save" THEN {NoLinks} ELSE {})

InFlight == {owed[x] : x \in Proc \cup Shell} \ {None}

\* A process of the command returns.
Returns(p) ==
  /\ at' = [at EXCEPT ![p] = "idle"]
  /\ asked' = [asked EXCEPT ![p] = NoRequest]
  /\ draft' = [draft EXCEPT ![p] = NoLinks]

-----------------------------------------------------------------------------
(***************************************************************************)
(* chaos link / chaos partition: chaosDegradeLink                          *)
(***************************************************************************)

\* chaosListNodes finds both nodes, with an address each.
LinkStart(p, k, f, ttl) ==
  /\ MayStart(p)
  /\ ttl => ShellLeft
  /\ \A n \in k : addr[n] # NoIP
  /\ at' = [at EXCEPT ![p] = "load"]
  /\ asked' = [asked EXCEPT ![p] = [pair |-> k, fault |-> f, ttl |-> ttl]]
  /\ UNCHANGED <<hostVars, engineVars, draft, shellVars, file, owed, touched>>

Load(p) ==
  /\ at[p] = "load"
  /\ at' = [at EXCEPT ![p] = "reconcile"]
  /\ \E links \in Readable(p) :
       LET merged == Upsert(links, asked[p].pair, asked[p].fault)
       IN  /\ draft' = [draft EXCEPT ![p] = merged]
           /\ ReconcileBegin(p, merged)
  /\ UNCHANGED <<hostVars, asked, shellVars, file, owed, touched>>

\* A step of the engine, and what it tells the history variable.
EngineRuns(p) ==
  /\ \/ Listing(p) /\ touched' = InFlight
     \/ ListingFails(p) /\ touched' = Node
     \/ CallerRuns(p) /\ UNCHANGED touched
     \/ \E n \in Node : WorkerRuns(p, n) /\ UNCHANGED touched
     \/ \E n \in Node : WorkerFails(p, n) /\ touched' = touched \cup {n}
  /\ UNCHANGED <<cmdVars, shellVars, file, owed>>

\* An error ends the command before it saves.
ReconcileReturn(p) ==
  /\ ReconcileEnd(p)
  /\ IF call[p] = "rfailed" THEN Returns(p)
     ELSE at' = [at EXCEPT ![p] = "save"] /\ UNCHANGED <<asked, draft>>
  /\ UNCHANGED <<shellVars, file, owed, touched>>

Save(p) ==
  /\ at[p] = "save"
  /\ file' = draft[p]
  /\ IF asked[p].ttl THEN at' = [at EXCEPT ![p] = "arm"] /\ UNCHANGED <<asked, draft>>
     ELSE Returns(p)
  /\ UNCHANGED <<hostVars, engineVars, shellVars, owed, touched>>

\* chaosScheduleDeadMan; when docker ps fails no shell is started and no error
\* returned.
Arm(p) ==
  /\ at[p] = "arm"
  /\ \/ \E s \in Shell : shellAt[s] = "free" /\ shellAt' = [shellAt EXCEPT ![s] = "asleep"]
     \/ "list" \in Failures /\ UNCHANGED shellAt
  /\ Returns(p)
  /\ UNCHANGED <<hostVars, engineVars, todo, file, owed, touched>>

-----------------------------------------------------------------------------
(***************************************************************************)
(* The dead-man shell: sleep, then per node a throwaway delete and the     *)
(* removal of the helper, then the file.  Errors are ignored.              *)
(***************************************************************************)

ShellWakes(s) ==
  /\ shellAt[s] = "asleep"
  /\ Overlap \/ Quiet
  /\ shellAt' = [shellAt EXCEPT ![s] = "awake"]
  /\ todo' = [todo EXCEPT ![s] = Node]
  /\ UNCHANGED <<hostVars, engineVars, cmdVars, file, owed, touched>>

ShellDeletes(s, n) ==
  /\ shellAt[s] = "awake" /\ owed[s] = None
  /\ n \in todo[s]
  /\ ThrowawayClear(n) \/ ("delete" \in Failures /\ UNCHANGED qdisc)
  /\ owed' = [owed EXCEPT ![s] = n]
  /\ todo' = [todo EXCEPT ![s] = @ \ {n}]
  /\ UNCHANGED <<nstate, addr, helper, engineVars, cmdVars, shellAt, file, touched>>

\* The variant of the shell's script without the last `rm -f`.
ShellEndsKeepingFile(s) ==
  /\ shellAt[s] = "awake" /\ owed[s] = None /\ todo[s] = {}
  /\ shellAt' = [shellAt EXCEPT ![s] = "free"]
  /\ UNCHANGED <<hostVars, engineVars, cmdVars, todo, file, owed, touched>>

ShellEnds(s) ==
  /\ shellAt[s] = "awake" /\ owed[s] = None /\ todo[s] = {}
  /\ shellAt' = [shellAt EXCEPT ![s] = "free"]
  /\ file' = NoLinks
  /\ UNCHANGED <<hostVars, engineVars, cmdVars, todo, owed, touched>>

-----------------------------------------------------------------------------
(***************************************************************************)
(* chaos clear; chaos pause, unpause, kill, start; Ctrl-C                  *)
(***************************************************************************)

ClearStart(p) ==
  /\ MayStart(p)
  /\ ClearBegin(p)
  /\ at' = [at EXCEPT ![p] = "clear"]
  /\ UNCHANGED <<hostVars, asked, draft, shellVars, file, owed, touched>>

\* The variant that leaves the state file behind.
ClearReturnKeepingFile(p) ==
  /\ ClearEnd(p)
  /\ Returns(p)
  /\ UNCHANGED <<shellVars, file, owed, touched>>

\* chaosClearAll forgets the links when it got as far as removing the helpers.
ClearReturn(p) ==
  /\ ClearEnd(p)
  /\ file' = IF call[p] = "cleared" THEN NoLinks ELSE file
  /\ Returns(p)
  /\ UNCHANGED <<shellVars, owed, touched>>

ChangesNamespace(action) == action \in {"kill", "start"}

NodeCommand(p, n, action) ==
  /\ MayStart(p)
  /\ Docker(n, action)
  /\ IF ChangesNamespace(action)
     THEN /\ at' = [at EXCEPT ![p] = "drop"]
          /\ owed' = [owed EXCEPT ![p] = n]
          /\ touched' = touched \cup {n}
     ELSE UNCHANGED <<at, owed, touched>>
  /\ UNCHANGED <<engineVars, asked, draft, shellVars, file>>

\* The helper of a killed or started node, or of one a shell has cleared.
DropHelper(x) ==
  /\ owed[x] # None
  /\ x \in Proc => at[x] = "drop"
  /\ RemoveHelper(owed[x])
  /\ owed' = [owed EXCEPT ![x] = None]
  /\ at' = IF x \in Proc THEN [at EXCEPT ![x] = "idle"] ELSE at
  /\ touched' = IF x \in Proc THEN touched \cup {owed[x]} ELSE touched
  /\ UNCHANGED <<nstate, addr, qdisc, engineVars, asked, draft, shellVars, file>>

\* Killed at any point; the shell it may have started is in its own session.
Interrupt(p) ==
  /\ Interrupts
  /\ at[p] # "idle"
  /\ EngineGone(p)
  /\ Returns(p)
  /\ file' \in {file} \cup (IF at[p] = "save" THEN {NoLinks} ELSE {})
  /\ owed' = [owed EXCEPT ![p] = None]
  /\ touched' = Node
  /\ UNCHANGED <<hostVars, shellVars>>

-----------------------------------------------------------------------------
\* What users type.
Command(p) ==
  \/ \E k \in Pair, f \in Profile, ttl \in WithTTL : LinkStart(p, k, f, ttl)
  \/ ClearStart(p)
  \/ \E n \in Node, action \in NodeActions : NodeCommand(p, n, action)

\* What a command does until it returns.
Advance(p) ==
  \/ Load(p)
  \/ EngineRuns(p)
  \/ ReconcileReturn(p)
  \/ Save(p)
  \/ Arm(p)
  \/ ClearReturn(p)
  \/ DropHelper(p)

ShellRuns(s) ==
  \/ ShellWakes(s)
  \/ \E n \in Node : ShellDeletes(s, n)
  \/ DropHelper(s)
  \/ ShellEnds(s)

Next ==
  \/ \E p \in Proc : Command(p) \/ Advance(p) \/ Interrupt(p)
  \/ \E s \in Shell : ShellRuns(s)

Spec == Init /\ [][Next]_vars

\* Processes and shells are scheduled, their docker commands return, and a
\* sleep ends.  Nobody has to type anything, or to interrupt it.
Fairness ==
  /\ \A p \in Proc : WF_vars(Advance(p))
  /\ \A s \in Shell : WF_vars(ShellRuns(s))

FairSpec == Spec /\ Fairness

-----------------------------------------------------------------------------
(***************************************************************************)
(* Properties                                                              *)
(***************************************************************************)

\* chaosScheduleDeadMan: "so the live shaping and the state file stay
\* consistent".  When nothing is under way, two nodes do to each other what
\* the file says, unless an interrupt, a node command or a docker failure has
\* touched them since the last listing.
FileMatchesShaping ==
  Quiet =>
    \A a, b \in Node \ touched :
      (a # b /\ Joinable(a) /\ Joinable(b)) => FaultTowards(a, b) = file[{a, b}]

\* The faults on each pair in a link set.
AsBoard(ls) == [k \in Pair |-> {ls[k]}]

\* Somebody is about to clear the namespace, or about to build what it will save.
Clearing == (\E p \in Proc : at[p] = "clear") \/ \E s \in Shell : shellAt[s] = "awake"
Builders == {p \in Proc : at[p] \in {"reconcile", "save"}}
Calm == Builders = {} /\ ~Clearing

\* What the nodes are being brought to, or were brought to last.
Wish ==
  AsBoard(IF Builders # {} THEN draft[CHOOSE p \in Builders : TRUE]
          ELSE IF Clearing THEN NoLinks ELSE file)

\* The commands, one at a time, keep the namespace to the state file as
\* LinkBoard has it: a command builds what it will save, or clears, one node at
\* a time, and when it is done the file says what the nodes do.
Board == INSTANCE LinkBoard WITH
  board <- Wish,
  shaping <- LinkFaults,
  alive <- NodesUp,
  missed <- touched,
  calm <- Calm,
  kept <- TRUE,
  Failing <- Failures # {},
  Crashing <- Interrupts

KeepsBoard == Board!Spec

\* "The CLI persists the desired link set so separate invocations accumulate":
\* a link command forgets no link, only a clear, a dead-man shell, or an
\* interrupt in the middle of the write.
LinksAccumulate ==
  [][(\E p \in Proc : Save(p)) =>
       \A k \in Pair : file[k] # NoFault => file'[k] # NoFault]_vars

\* "Every fault is armed with a dead-man switch so a forgotten fault
\* auto-clears": with a ttl on every link command, and however commands,
\* shells and node commands overlap, once nobody types any more the
\* namespace ends up unshaped and the file gone.
ForgottenFaultsClear ==
  <>[][~ \E p \in Proc : Command(p)]_vars => <>[](HostUnshaped /\ file = NoLinks)
==============================================================================
