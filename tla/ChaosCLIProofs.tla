---------------------------- MODULE ChaosCLIProofs ----------------------------
(***************************************************************************)
(* Theorems about ChaosCLI, for every set of nodes, addresses, profiles,   *)
(* processes and shells.                                                   *)
(***************************************************************************)
EXTENDS ChaosCLI, ChaosEngineProofs

-----------------------------------------------------------------------------
(***************************************************************************)
(* Type correctness                                                        *)
(***************************************************************************)

\* The variables that are not the host's and not the engine's.
CommandTypeOK ==
  /\ file \in LinkSet
  /\ at \in [Proc -> {"idle", "load", "reconcile", "save", "arm", "clear", "drop"}]
  /\ asked \in [Proc -> [pair : Pair \cup {{}}, fault : Fault, ttl : BOOLEAN]]
  /\ draft \in [Proc -> LinkSet]
  /\ owed \in [Proc \cup Shell -> Node \cup {None}]
  /\ shellAt \in [Shell -> {"free", "asleep", "awake"}]
  /\ todo \in [Shell -> SUBSET Node]
  /\ touched \subseteq Node

\* A command that is past its start asks for a fault on a link.
AskedForLink ==
  \A p \in Proc : at[p] = "load" => asked[p].pair \in Pair /\ asked[p].fault \in Profile

\* Type correctness is inductive together with AskedForLink: what a command
\* merges into the file must be a link.
TypeInv == TypeOK /\ AskedForLink

\* TypeOK by the part of the system the variables belong to.
LEMMA TypeParts == TypeOK <=> HostTypeOK /\ EngineTypeOK /\ CommandTypeOK
BY DEF TypeOK, CommandTypeOK

\* The request of a process that runs no link command.
LEMMA NoRequestType ==
  NoRequest \in [pair : Pair \cup {{}}, fault : Fault, ttl : BOOLEAN]
BY DEF NoRequest, Fault

\* Merging a link into a link set yields a link set.
LEMMA UpsertType ==
  ASSUME NEW ls \in LinkSet, NEW k \in Pair, NEW f \in Fault
  PROVE  Upsert(ls, k, f) \in LinkSet
BY DEF Upsert, LinkSet

\* What can be read of the state file is a link set.
LEMMA ReadableType ==
  ASSUME CommandTypeOK, NEW p \in Proc
  PROVE  Readable(p) \subseteq LinkSet
BY NoLinksType DEF Readable, CommandTypeOK

\* A process that returns leaves well typed fields.
LEMMA ReturnsType ==
  ASSUME CommandTypeOK, NEW p \in Proc, Returns(p), file' \in LinkSet,
         UNCHANGED <<owed, shellAt, todo, touched>>
  PROVE  CommandTypeOK'
BY NoRequestType, NoLinksType DEF Returns, CommandTypeOK

\* The commands users type keep the model well typed.
LEMMA CommandType ==
  ASSUME HostTypeOK, EngineTypeOK, CommandTypeOK, NEW p \in Proc, Command(p)
  PROVE  HostTypeOK' /\ EngineTypeOK' /\ CommandTypeOK'
<1> USE CliAssumption
<1>1. ASSUME NEW k \in Pair, NEW f \in Profile, NEW ttl \in WithTTL,
             LinkStart(p, k, f, ttl)
      PROVE  HostTypeOK' /\ EngineTypeOK' /\ CommandTypeOK'
  <2>1. HostTypeOK' /\ EngineTypeOK'
    BY <1>1 DEF LinkStart, HostTypeOK, hostVars, EngineTypeOK, engineVars
  <2>2. [pair |-> k, fault |-> f, ttl |-> ttl] \in
          [pair : Pair \cup {{}}, fault : Fault, ttl : BOOLEAN]
    BY DEF Fault
  <2>3. CommandTypeOK'
    BY <1>1, <2>2 DEF LinkStart, CommandTypeOK, shellVars
  <2> QED BY <2>1, <2>3
<1>2. CASE ClearStart(p)
  <2>1. HostTypeOK' /\ EngineTypeOK'
    BY <1>2, BeginType DEF ClearStart, HostTypeOK, hostVars
  <2>2. CommandTypeOK'
    BY <1>2 DEF ClearStart, CommandTypeOK, shellVars
  <2> QED BY <2>1, <2>2
<1>3. ASSUME NEW n \in Node, NEW action \in NodeActions, NodeCommand(p, n, action)
      PROVE  HostTypeOK' /\ EngineTypeOK' /\ CommandTypeOK'
  <2>1. HostTypeOK' /\ EngineTypeOK'
    BY <1>3, DockerType DEF NodeCommand, EngineTypeOK, engineVars
  <2>2. CommandTypeOK'
    BY <1>3 DEF NodeCommand, CommandTypeOK, shellVars
  <2> QED BY <2>1, <2>2
<1> QED BY <1>1, <1>2, <1>3 DEF Command

\* The removal of a helper, by a process or a shell.
LEMMA DropType ==
  ASSUME HostTypeOK, EngineTypeOK, CommandTypeOK, NEW x \in Proc \cup Shell,
         DropHelper(x)
  PROVE  HostTypeOK' /\ EngineTypeOK' /\ CommandTypeOK'
<1>1. HostTypeOK' /\ EngineTypeOK'
  BY DEF DropHelper, RemoveHelper, HostTypeOK, HelperState, EngineTypeOK, engineVars
<1>2. owed[x] \in Node
  BY DEF DropHelper, CommandTypeOK
<1>3. CommandTypeOK'
  BY <1>2 DEF DropHelper, CommandTypeOK, shellVars
<1> QED BY <1>1, <1>3

\* What a command does until it returns keeps the model well typed.
LEMMA AdvanceType ==
  ASSUME HostTypeOK, EngineTypeOK, CommandTypeOK, AskedForLink, NEW p \in Proc,
         Advance(p)
  PROVE  HostTypeOK' /\ EngineTypeOK' /\ CommandTypeOK'
<1>1. CASE Load(p)
  <2>1. PICK ls \in Readable(p) :
          LET merged == Upsert(ls, asked[p].pair, asked[p].fault)
          IN  draft' = [draft EXCEPT ![p] = merged] /\ ReconcileBegin(p, merged)
    BY <1>1 DEF Load
  <2>2. asked[p].pair \in Pair /\ asked[p].fault \in Fault
    BY <1>1 DEF Load, AskedForLink, Fault
  <2>3. Upsert(ls, asked[p].pair, asked[p].fault) \in LinkSet
    BY <2>1, <2>2, UpsertType, ReadableType
  <2>4. EngineTypeOK'
    BY <2>1, <2>3, BeginType
  <2>5. HostTypeOK' /\ CommandTypeOK'
    BY <1>1, <2>1, <2>3 DEF Load, HostTypeOK, hostVars, CommandTypeOK, shellVars
  <2> QED BY <2>4, <2>5
<1>2. CASE EngineRuns(p)
  <2>1. HostTypeOK' /\ EngineTypeOK'
    BY <1>2, CallerType, WorkerType DEF EngineRuns
  <2>2. InFlight \subseteq Node
    BY DEF InFlight, CommandTypeOK
  <2>3. touched' \subseteq Node
    BY <1>2, <2>2 DEF EngineRuns, CommandTypeOK
  <2>4. CommandTypeOK'
    BY <1>2, <2>3 DEF EngineRuns, CommandTypeOK, cmdVars, shellVars
  <2> QED BY <2>1, <2>4
<1>3. CASE ReconcileReturn(p)
  <2>1. HostTypeOK' /\ EngineTypeOK'
    BY <1>3, BeginType DEF ReconcileReturn, ReconcileEnd, HostTypeOK, hostVars
  <2>2. UNCHANGED <<shellAt, todo, file, owed, touched>>
    BY <1>3 DEF ReconcileReturn, shellVars
  <2>3. file' \in LinkSet
    BY <2>2 DEF CommandTypeOK
  <2>4. CASE Returns(p)
    BY <2>1, <2>2, <2>3, <2>4, ReturnsType
  <2>5. CASE at' = [at EXCEPT ![p] = "save"] /\ UNCHANGED <<asked, draft>>
    BY <2>1, <2>2, <2>5 DEF CommandTypeOK
  <2>6. Returns(p) \/ (at' = [at EXCEPT ![p] = "save"] /\ UNCHANGED <<asked, draft>>)
    BY <1>3 DEF ReconcileReturn
  <2> QED BY <2>1, <2>4, <2>5, <2>6
<1>4. CASE Save(p)
  <2>1. HostTypeOK' /\ EngineTypeOK'
    BY <1>4 DEF Save, HostTypeOK, hostVars, EngineTypeOK, engineVars
  <2>2. file' \in LinkSet
    BY <1>4 DEF Save, CommandTypeOK
  <2>3. UNCHANGED <<shellAt, todo, owed, touched>>
    BY <1>4 DEF Save, shellVars
  <2>4. CASE Returns(p)
    BY <2>1, <2>2, <2>3, <2>4, ReturnsType
  <2>5. CASE at' = [at EXCEPT ![p] = "arm"] /\ UNCHANGED <<asked, draft>>
    BY <2>1, <2>2, <2>3, <2>5 DEF CommandTypeOK
  <2>6. Returns(p) \/ (at' = [at EXCEPT ![p] = "arm"] /\ UNCHANGED <<asked, draft>>)
    BY <1>4 DEF Save
  <2> QED BY <2>1, <2>4, <2>5, <2>6
<1>5. CASE Arm(p)
  <2>1. HostTypeOK' /\ EngineTypeOK'
    BY <1>5 DEF Arm, HostTypeOK, hostVars, EngineTypeOK, engineVars
  <2>2. shellAt' \in [Shell -> {"free", "asleep", "awake"}]
    BY <1>5 DEF Arm, CommandTypeOK
  <2>3. CommandTypeOK'
    BY <1>5, <2>2, NoRequestType, NoLinksType DEF Arm, Returns, CommandTypeOK
  <2> QED BY <2>1, <2>3
<1>6. CASE ClearReturn(p)
  <2>1. HostTypeOK' /\ EngineTypeOK'
    BY <1>6, BeginType DEF ClearReturn, ClearEnd, HostTypeOK, hostVars
  <2>2. file' \in LinkSet
    BY <1>6, NoLinksType DEF ClearReturn, CommandTypeOK
  <2>3. CommandTypeOK'
    BY <1>6, <2>2, ReturnsType DEF ClearReturn, shellVars
  <2> QED BY <2>1, <2>3
<1>7. CASE DropHelper(p)
  BY <1>7, DropType
<1> QED BY <1>1, <1>2, <1>3, <1>4, <1>5, <1>6, <1>7 DEF Advance

\* So does an interrupt.
LEMMA InterruptType ==
  ASSUME HostTypeOK, EngineTypeOK, CommandTypeOK, NEW p \in Proc, Interrupt(p)
  PROVE  HostTypeOK' /\ EngineTypeOK' /\ CommandTypeOK'
<1>1. HostTypeOK' /\ EngineTypeOK'
  BY BeginType DEF Interrupt, HostTypeOK, hostVars
<1>2. file' \in LinkSet
  BY NoLinksType DEF Interrupt, CommandTypeOK
<1>3. CommandTypeOK'
  BY <1>2, NoRequestType, NoLinksType DEF Interrupt, Returns, CommandTypeOK, shellVars
<1> QED BY <1>1, <1>3

\* And a dead-man shell.
LEMMA ShellType ==
  ASSUME HostTypeOK, EngineTypeOK, CommandTypeOK, NEW s \in Shell, ShellRuns(s)
  PROVE  HostTypeOK' /\ EngineTypeOK' /\ CommandTypeOK'
<1>1. CASE ShellWakes(s)
  BY <1>1 DEF ShellWakes, HostTypeOK, hostVars, EngineTypeOK, engineVars,
              CommandTypeOK, cmdVars
<1>2. ASSUME NEW n \in Node, ShellDeletes(s, n)
      PROVE  HostTypeOK' /\ EngineTypeOK' /\ CommandTypeOK'
  <2>1. qdisc' \in [Node -> Shaping]
    BY <1>2, UnshapedType DEF ShellDeletes, ThrowawayClear, HostTypeOK
  <2>2. HostTypeOK' /\ EngineTypeOK'
    BY <1>2, <2>1 DEF ShellDeletes, HostTypeOK, EngineTypeOK, engineVars
  <2>3. CommandTypeOK'
    BY <1>2 DEF ShellDeletes, CommandTypeOK, cmdVars
  <2> QED BY <2>2, <2>3
<1>3. CASE DropHelper(s)
  BY <1>3, DropType
<1>4. CASE ShellEnds(s)
  BY <1>4, NoLinksType DEF ShellEnds, HostTypeOK, hostVars, EngineTypeOK, engineVars,
              CommandTypeOK, cmdVars
<1> QED BY <1>1, <1>2, <1>3, <1>4 DEF ShellRuns

\* No step but LinkStart brings a process to "load", or changes its request there.
LEMMA AskedStep == TypeInv /\ [Next]_vars => AskedForLink'
<1> SUFFICES ASSUME TypeInv, [Next]_vars,
                    NEW q \in Proc, at'[q] = "load"
             PROVE  asked'[q].pair \in Pair /\ asked'[q].fault \in Profile
  BY DEF AskedForLink
<1> USE DEF TypeInv, TypeOK
<1>1. ASSUME at[q] = "load", asked'[q] = asked[q]
      PROVE  asked'[q].pair \in Pair /\ asked'[q].fault \in Profile
  BY <1>1 DEF AskedForLink
<1>2. CASE UNCHANGED <<at, asked>>
  BY <1>1, <1>2
<1>3. ASSUME NEW p \in Proc, Returns(p)
      PROVE  at[q] = "load" /\ asked'[q] = asked[q]
  BY <1>3 DEF Returns
<1>4. ASSUME NEW p \in Proc, Command(p)
      PROVE  asked'[q].pair \in Pair /\ asked'[q].fault \in Profile
  <2>1. ASSUME NEW k \in Pair, NEW f \in Profile, NEW ttl \in WithTTL,
               LinkStart(p, k, f, ttl)
        PROVE  asked'[q].pair \in Pair /\ asked'[q].fault \in Profile
    <3>1. CASE q = p
      BY <2>1, <3>1 DEF LinkStart
    <3>2. CASE q # p
      BY <1>1, <2>1, <3>2 DEF LinkStart
    <3> QED BY <3>1, <3>2
  <2>2. CASE ClearStart(p)
    BY <1>1, <2>2 DEF ClearStart
  <2>3. ASSUME NEW n \in Node, NEW action \in NodeActions, NodeCommand(p, n, action)
        PROVE  asked'[q].pair \in Pair /\ asked'[q].fault \in Profile
    BY <1>1, <2>3 DEF NodeCommand
  <2> QED BY <1>4, <2>1, <2>2, <2>3 DEF Command
<1>5. ASSUME NEW p \in Proc, Advance(p)
      PROVE  asked'[q].pair \in Pair /\ asked'[q].fault \in Profile
  <2>1. CASE Load(p)
    BY <1>1, <2>1 DEF Load
  <2>2. CASE EngineRuns(p)
    BY <1>2, <2>2 DEF EngineRuns, cmdVars
  <2>3. CASE ReconcileReturn(p)
    BY <1>1, <1>3, <2>3 DEF ReconcileReturn
  <2>4. CASE Save(p)
    BY <1>1, <1>3, <2>4 DEF Save
  <2>5. CASE Arm(p) \/ ClearReturn(p)
    BY <1>1, <1>3, <2>5 DEF Arm, ClearReturn
  <2>6. CASE DropHelper(p)
    BY <1>1, <2>6 DEF DropHelper
  <2> QED BY <1>5, <2>1, <2>2, <2>3, <2>4, <2>5, <2>6 DEF Advance
<1>6. ASSUME NEW p \in Proc, Interrupt(p)
      PROVE  asked'[q].pair \in Pair /\ asked'[q].fault \in Profile
  BY <1>1, <1>3, <1>6 DEF Interrupt
<1>7. ASSUME NEW s \in Shell, ShellRuns(s)
      PROVE  asked'[q].pair \in Pair /\ asked'[q].fault \in Profile
  <2>1. CASE DropHelper(s)
    BY <1>1, <2>1, CliAssumption DEF DropHelper
  <2>2. CASE UNCHANGED cmdVars
    BY <1>2, <2>2 DEF cmdVars
  <2> QED BY <1>7, <2>1, <2>2 DEF ShellRuns, ShellWakes, ShellDeletes, ShellEnds
<1> QED BY <1>2, <1>4, <1>5, <1>6, <1>7 DEF Next, vars, cmdVars

\* The inductive invariant behind TypeCorrect.
LEMMA TypeInvariant == Spec => []TypeInv
<1>1. Init => TypeInv
  <2> SUFFICES ASSUME Init PROVE TypeInv
    OBVIOUS
  <2>1. HostTypeOK /\ EngineTypeOK
    BY StartType DEF Init
  <2>2. CommandTypeOK
    BY NoRequestType, NoLinksType DEF Init, CommandTypeOK
  <2>3. AskedForLink
    BY DEF Init, AskedForLink
  <2> QED BY <2>1, <2>2, <2>3, TypeParts DEF TypeInv
<1>2. TypeInv /\ [Next]_vars => TypeInv'
  <2> SUFFICES ASSUME TypeInv, [Next]_vars PROVE TypeInv'
    OBVIOUS
  <2>1. HostTypeOK /\ EngineTypeOK /\ CommandTypeOK /\ AskedForLink
    BY TypeParts DEF TypeInv
  <2>2. HostTypeOK' /\ EngineTypeOK' /\ CommandTypeOK'
    <3>1. CASE Next
      BY <2>1, <3>1, CommandType, AdvanceType, InterruptType, ShellType DEF Next
    <3>2. CASE UNCHANGED vars
      BY <2>1, <3>2 DEF HostTypeOK, EngineTypeOK, CommandTypeOK, vars, hostVars,
                        engineVars, cmdVars, shellVars
    <3> QED BY <3>1, <3>2
  <2>3. TypeOK'
    BY <2>2 DEF TypeOK, CommandTypeOK
  <2> QED BY <2>3, AskedStep DEF TypeInv
<1> QED BY <1>1, <1>2, PTL DEF Spec

\* Every reachable state of the command line front end is well typed: for any
\* number of overlapping commands and shells, interrupted or not.
THEOREM TypeCorrect == Spec => []TypeOK
<1>1. TypeInv => TypeOK
  BY DEF TypeInv
<1> QED BY <1>1, TypeInvariant, PTL

-----------------------------------------------------------------------------
(***************************************************************************)
(* Links accumulate                                                        *)
(***************************************************************************)

\* At most one command at a time; dead-man shells may run next to it.
OneCommand == ~Overlap \/ \A p, q \in Proc : p = q

\* The commands are under way one at a time.
Alone == \A p, q \in Proc : at[p] # "idle" /\ at[q] # "idle" => p = q

ReconcileCalls == {"list", "inspect", "helpers", "work", "rfailed"}

\* Only a link command rebuilds, and it does nothing else meanwhile.
Rebuilding == \A p \in Proc : call[p] \in ReconcileCalls => at[p] = "reconcile"

\* What a command will save keeps every link of the file as it is now.
DraftKeeps ==
  \A p \in Proc : at[p] \in {"reconcile", "save"} =>
    \A k \in Pair : file[k] # NoFault => draft[p][k] # NoFault

\* LinksAccumulate needs what a command has read to be still in the file
\* when it writes: Alone and Rebuilding carry that from the load to the save.
AccumulateInv == Alone /\ Rebuilding /\ DraftKeeps

\* A rebuild is where it was or further.
LEMMA EngineKeepsKind ==
  ASSUME EngineTypeOK, NEW p \in Proc, EngineRuns(p), NEW q \in Proc
  PROVE  call'[q] \in ReconcileCalls => call[q] \in ReconcileCalls
<1> USE DEF ReconcileCalls
<1>1. CASE Listing(p)
  BY <1>1 DEF Listing, ListNodes, ClearList, EngineTypeOK
<1>2. CASE ListingFails(p)
  BY <1>2 DEF ListingFails, ListFails, InspectFails, HelpersFail, PlanFrom, ClearListFails, EngineTypeOK
<1>3. CASE CallerRuns(p)
  BY <1>3 DEF CallerRuns, InspectIPs, PlanFrom, StartWorkers, ClearHelpers, EngineTypeOK
<1>4. CASE \E n \in Node : WorkerRuns(p, n) \/ WorkerFails(p, n)
  BY <1>4 DEF WorkerRuns, WorkerFails, EnsureHelper, CreateHelper, CreateHelperFails,
              ExecShape, ShapeFails, ChooseHelper, ExecDelete, RunDelete, DeleteFails, WorkTo
<1> QED BY <1>1, <1>2, <1>3, <1>4 DEF EngineRuns

\* A process becomes busy only by a command that starts alone.
LEMMA AloneStep ==
  ASSUME OneCommand, TypeOK, Alone, Rebuilding, [Next]_vars
  PROVE  Alone'
<1> SUFFICES ASSUME NEW r \in Proc, at[r] = "idle", at'[r] # "idle"
             PROVE  \A q \in Proc \ {r} : at'[q] = "idle"
  BY DEF Alone
<1> USE DEF TypeOK
<1>1. CASE UNCHANGED vars
  BY <1>1 DEF vars, cmdVars
<1>2. ASSUME NEW p \in Proc, MayStart(p), \A q \in Proc \ {p} : at'[q] = at[q]
      PROVE  \A q \in Proc \ {r} : at'[q] = "idle"
  BY <1>2 DEF MayStart, OneCommand, Quiet
<1>3. ASSUME NEW p \in Proc, Command(p)
      PROVE  \A q \in Proc \ {r} : at'[q] = "idle"
  <2>1. MayStart(p)
    BY <1>3 DEF Command, LinkStart, ClearStart, NodeCommand
  <2>2. \A q \in Proc \ {p} : at'[q] = at[q]
    BY <1>3 DEF Command, LinkStart, ClearStart, NodeCommand
  <2> QED BY <1>2, <2>1, <2>2
<1>4. ASSUME NEW p \in Proc, Returns(p) PROVE FALSE
  BY <1>4 DEF Returns
<1>5. ASSUME NEW p \in Proc, Advance(p) PROVE FALSE
  <2>1. CASE Load(p)
    BY <2>1 DEF Load
  <2>2. CASE EngineRuns(p)
    BY <2>2 DEF EngineRuns, cmdVars
  <2>3. CASE ReconcileReturn(p)
    BY <1>4, <2>3 DEF ReconcileReturn, ReconcileEnd, Rebuilding, ReconcileCalls
  <2>4. CASE Save(p)
    BY <1>4, <2>4 DEF Save
  <2>5. CASE Arm(p) \/ ClearReturn(p)
    BY <1>4, <2>5 DEF Arm, ClearReturn
  <2>6. CASE DropHelper(p)
    BY <2>6 DEF DropHelper
  <2> QED BY <1>5, <2>1, <2>2, <2>3, <2>4, <2>5, <2>6 DEF Advance
<1>6. ASSUME NEW p \in Proc, Interrupt(p) PROVE FALSE
  BY <1>4, <1>6 DEF Interrupt
<1>7. ASSUME NEW s \in Shell, ShellRuns(s) PROVE FALSE
  BY <1>7, CliAssumption DEF ShellRuns, ShellWakes, ShellDeletes, DropHelper, ShellEnds, cmdVars
<1> QED BY <1>1, <1>3, <1>5, <1>6, <1>7 DEF Next

\* A rebuild begins in Load, and its process leaves "reconcile" when it ends.
LEMMA RebuildingStep ==
  ASSUME TypeOK, Rebuilding, [Next]_vars
  PROVE  Rebuilding'
<1> SUFFICES ASSUME NEW q \in Proc, call'[q] \in ReconcileCalls
             PROVE  at'[q] = "reconcile"
  BY DEF Rebuilding
<1> USE DEF TypeOK, EngineTypeOK
<1>1. ASSUME call[q] \in ReconcileCalls, at'[q] = at[q] PROVE at'[q] = "reconcile"
  BY <1>1 DEF Rebuilding
<1>2. CASE UNCHANGED <<call, at>>
  BY <1>1, <1>2
<1>3. ASSUME NEW p \in Proc, call'[p] \notin ReconcileCalls, Returns(p),
             \E c : call' = [call EXCEPT ![p] = c]
      PROVE  at'[q] = "reconcile"
  BY <1>1, <1>3 DEF Returns
<1>4. ASSUME NEW p \in Proc, Command(p) PROVE at'[q] = "reconcile"
  <2>1. ASSUME NEW k \in Pair, NEW f \in Profile, NEW ttl \in WithTTL,
               LinkStart(p, k, f, ttl)
        PROVE  at'[q] = "reconcile"
    BY <1>1, <2>1 DEF LinkStart, MayStart, Rebuilding, engineVars
  <2>2. CASE ClearStart(p)
    BY <1>1, <2>2 DEF ClearStart, ClearBegin, MayStart, ReconcileCalls
  <2>3. ASSUME NEW n \in Node, NEW action \in NodeActions, NodeCommand(p, n, action)
        PROVE  at'[q] = "reconcile"
    BY <1>1, <2>3 DEF NodeCommand, MayStart, Rebuilding, engineVars
  <2> QED BY <1>4, <2>1, <2>2, <2>3 DEF Command
<1>5. ASSUME NEW p \in Proc, Advance(p) PROVE at'[q] = "reconcile"
  <2>1. CASE Load(p)
    BY <1>1, <2>1 DEF Load, ReconcileBegin
  <2>2. CASE EngineRuns(p)
    BY <1>1, <2>2, EngineKeepsKind DEF EngineRuns, cmdVars
  <2>3. CASE ReconcileReturn(p)
    <3>1. call' = [call EXCEPT ![p] = "idle"]
      BY <2>3 DEF ReconcileReturn, ReconcileEnd
    <3>2. q # p /\ call[q] \in ReconcileCalls
      BY <3>1 DEF ReconcileCalls
    <3>3. at'[q] = at[q]
      BY <2>3, <3>2 DEF ReconcileReturn, Returns
    <3> QED BY <1>1, <3>2, <3>3
  <2>4. CASE Save(p)
    BY <1>1, <2>4 DEF Save, Returns, Rebuilding, engineVars
  <2>5. CASE Arm(p)
    BY <1>1, <2>5 DEF Arm, Returns, Rebuilding, engineVars
  <2>6. CASE ClearReturn(p)
    <3>1. call' = [call EXCEPT ![p] = "idle"]
      BY <2>6 DEF ClearReturn, ClearEnd
    <3>2. q # p /\ call[q] \in ReconcileCalls
      BY <3>1 DEF ReconcileCalls
    <3>3. at'[q] = at[q]
      BY <2>6, <3>2 DEF ClearReturn, Returns
    <3> QED BY <1>1, <3>2, <3>3
  <2>7. CASE DropHelper(p)
    BY <1>1, <2>7 DEF DropHelper, Rebuilding, engineVars
  <2> QED BY <1>5, <2>1, <2>2, <2>3, <2>4, <2>5, <2>6, <2>7 DEF Advance
<1>6. ASSUME NEW p \in Proc, Interrupt(p) PROVE at'[q] = "reconcile"
  BY <1>1, <1>6 DEF Interrupt, EngineGone, Returns, ReconcileCalls
<1>7. ASSUME NEW s \in Shell, ShellRuns(s) PROVE at'[q] = "reconcile"
  BY <1>2, <1>7, CliAssumption DEF ShellRuns, ShellWakes, ShellDeletes, DropHelper, ShellEnds,
     engineVars, cmdVars
<1> QED BY <1>2, <1>4, <1>5, <1>6, <1>7 DEF Next, vars, engineVars, cmdVars

\* Nobody else writes the file between a command's load and its save, except
\* to forget all links.
LEMMA DraftStep ==
  ASSUME TypeInv, Alone, Rebuilding, DraftKeeps, [Next]_vars
  PROVE  DraftKeeps'
<1> SUFFICES ASSUME NEW q \in Proc, at'[q] \in {"reconcile", "save"},
                    NEW k \in Pair, file'[k] # NoFault
             PROVE  draft'[q][k] # NoFault
  BY DEF DraftKeeps
<1> USE DEF TypeInv, TypeOK
<1>1. ASSUME at[q] \in {"reconcile", "save"}, file[k] # NoFault, draft'[q] = draft[q]
      PROVE  draft'[q][k] # NoFault
  BY <1>1 DEF DraftKeeps
<1>2. CASE UNCHANGED <<cmdVars, file>>
  BY <1>1, <1>2 DEF cmdVars
<1>3. ASSUME NEW p \in Proc, Returns(p), file'[k] = file[k]
      PROVE  draft'[q][k] # NoFault
  BY <1>1, <1>3 DEF Returns
<1>4. ASSUME file' = NoLinks PROVE FALSE
  BY <1>4 DEF NoLinks
<1>5. ASSUME NEW p \in Proc, Command(p) PROVE draft'[q][k] # NoFault
  BY <1>1, <1>5 DEF Command, LinkStart, ClearStart, NodeCommand
<1>6. ASSUME NEW p \in Proc, Advance(p) PROVE draft'[q][k] # NoFault
  <2>1. CASE Load(p)
    <3>1. CASE q = p
      <4>1. at[p] = "load" /\ file' = file
        BY <2>1 DEF Load
      <4>2. Readable(p) = {file}
        BY <4>1 DEF Readable, Alone
      <4>3. draft' = [draft EXCEPT ![p] = Upsert(file, asked[p].pair, asked[p].fault)]
        BY <2>1, <4>2 DEF Load
      <4>4. asked[p].fault # NoFault
        BY <4>1, HostAssumption DEF AskedForLink
      <4>5. draft'[q] = Upsert(file, asked[p].pair, asked[p].fault)
        BY <3>1, <4>3
      <4> QED BY <4>1, <4>4, <4>5 DEF Upsert, LinkSet
    <3>2. CASE q # p
      BY <1>1, <2>1, <3>2 DEF Load
    <3> QED BY <3>1, <3>2
  <2>2. CASE EngineRuns(p)
    BY <1>2, <2>2 DEF EngineRuns
  <2>3. CASE ReconcileReturn(p)
    <3>1. at[p] = "reconcile" /\ file' = file
      BY <2>3 DEF ReconcileReturn, ReconcileEnd, Rebuilding, ReconcileCalls
    <3>2. CASE Returns(p)
      BY <1>3, <3>1, <3>2
    <3>3. CASE at' = [at EXCEPT ![p] = "save"] /\ UNCHANGED <<asked, draft>>
      BY <1>1, <3>1, <3>3
    <3> QED BY <2>3, <3>2, <3>3 DEF ReconcileReturn
  <2>4. CASE Save(p)
    <3>1. at[p] = "save" /\ at'[p] \in {"arm", "idle"}
      BY <2>4 DEF Save, Returns
    <3>2. q # p /\ at[q] \in {"reconcile", "save"}
      BY <2>4, <3>1 DEF Save, Returns
    <3> QED BY <3>1, <3>2 DEF Alone
  <2>5. CASE Arm(p)
    BY <1>3, <2>5 DEF Arm
  <2>6. CASE ClearReturn(p)
    BY <1>3, <1>4, <2>6 DEF ClearReturn
  <2>7. CASE DropHelper(p)
    BY <1>1, <2>7 DEF DropHelper
  <2> QED BY <1>6, <2>1, <2>2, <2>3, <2>4, <2>5, <2>6, <2>7 DEF Advance
<1>7. ASSUME NEW p \in Proc, Interrupt(p) PROVE draft'[q][k] # NoFault
  <2>1. file' = file \/ file' = NoLinks
    BY <1>7 DEF Interrupt
  <2> QED BY <1>3, <1>4, <1>7, <2>1 DEF Interrupt
<1>8. ASSUME NEW s \in Shell, ShellRuns(s) PROVE draft'[q][k] # NoFault
  <2>1. CASE ShellEnds(s)
    BY <1>4, <2>1 DEF ShellEnds
  <2>2. CASE DropHelper(s)
    BY <1>1, <2>2, CliAssumption DEF DropHelper
  <2>3. CASE UNCHANGED <<cmdVars, file>>
    BY <1>2, <2>3
  <2> QED BY <1>8, <2>1, <2>2, <2>3 DEF ShellRuns, ShellWakes, ShellDeletes
<1> QED BY <1>2, <1>5, <1>6, <1>7, <1>8 DEF Next, vars

\* A link command forgets no link when commands run one at a time, however
\* docker fails them, users interrupt them, and dead-man shells wake up next
\* to them.  (Two that overlap do lose links.)
THEOREM NoLinkLost ==
  ASSUME OneCommand
  PROVE  Spec => LinksAccumulate
<1>1. Init => AccumulateInv
  BY DEF Init, EngineInit, AccumulateInv, Alone, Rebuilding, ReconcileCalls, DraftKeeps
<1>2. TypeInv /\ AccumulateInv /\ [Next]_vars => AccumulateInv'
  BY OneCommand, AloneStep, RebuildingStep, DraftStep DEF AccumulateInv, TypeInv
<1>3. TypeInv /\ AccumulateInv /\ [Next]_vars =>
        [(\E p \in Proc : Save(p)) =>
           \A k \in Pair : file[k] # NoFault => file'[k] # NoFault]_vars
  BY DEF AccumulateInv, DraftKeeps, Save
<1> QED BY <1>1, <1>2, <1>3, TypeInvariant, PTL DEF Spec, LinksAccumulate

-----------------------------------------------------------------------------
(***************************************************************************)
(* FileMatchesShaping                                                      *)
(***************************************************************************)

\* Containers are paused, unpaused and killed, but none is started again; one
\* thing happens at a time, and deleting a qdisc works.
CarefulUse ==
  /\ NodeActions \subseteq {"pause", "unpause", "kill"}
  /\ ~Overlap
  /\ DeleteWorks

\* An awake shell is alone too, and owes only the helper of a node it has done.
ShellsAlone ==
  \A s \in Shell :
    /\ shellAt[s] = "awake" =>
         /\ \A p \in Proc : at[p] = "idle"
         /\ \A t \in Shell \ {s} : shellAt[t] # "awake"
    /\ owed[s] # None => shellAt[s] = "awake" /\ owed[s] \notin todo[s]

\* A process calls the engine for one purpose, and owes a helper only to a node
\* it has killed.
OnePurpose ==
  \A p \in Proc :
    /\ call[p] \in {"clist", "cwork", "cleared", "cfailed"} => at[p] = "clear"
    /\ IF at[p] = "drop" THEN owed[p] \in Node /\ ~Joinable(owed[p]) ELSE owed[p] = None

\* The faults the draft of process p has on each pair, and those of the file.
Drafted(p) == AsBoard(draft[p])
Filed == AsBoard(file)

\* A node nothing was missed of is shaped as the file says.
FileHolds == \A n \in Node \ touched : Suits(n, qdisc[n], Filed)

\* The reconcile of process p, if any, goes towards its draft.
Towards(p) == Reconciling(p, Drafted(p), touched)

\* What a command makes of the namespace on its way to the file, and a shell on
\* its way to the file's removal.
OnTheWay ==
  /\ \A p \in Proc : InOrder(p) /\ Towards(p)
  /\ \A p \in Proc : at[p] = "save" =>
       \A n \in Node \ touched : Suits(n, qdisc[n], Drafted(p))
  /\ \A p \in Proc : at[p] \in {"arm", "drop"} => FileHolds
  /\ \A s \in Shell : shellAt[s] = "awake" =>
       \A n \in Node \ todo[s] : qdisc[n] = Unshaped
  /\ Quiet => FileHolds

\* The inductive invariant behind FileMatchesShaping.
FileInv ==
  /\ Alone /\ Rebuilding /\ ShellsAlone /\ OnePurpose
  /\ HelpersInPlace /\ Addressed
  /\ OnTheWay

\* A process that is not in the middle of an engine call has none.
LEMMA IdleCalls ==
  ASSUME TypeOK, Rebuilding, OnePurpose, NEW p \in Proc, at[p] \notin {"reconcile", "clear"}
  PROVE  call[p] = "idle"
BY DEF TypeOK, EngineTypeOK, CallState, Rebuilding, ReconcileCalls, OnePurpose

\* Without an engine call nothing is in progress.
LEMMA IdleEngine ==
  ASSUME NEW p \in Proc, NEW W, NEW T, call[p] = "idle", work[p] = NoWork
  PROVE  InOrder(p) /\ Reconciling(p, W, T)
BY DEF InOrder, Reconciling, NoWork

\* The engine of a process leaves the calls of the others and the addresses
\* alone, and a call is the same call until it ends.
LEMMA EngineConfined ==
  ASSUME EngineTypeOK, NEW p \in Proc, InOrder(p), EngineRuns(p)
  PROVE  /\ \A q \in Proc \ {p} : call'[q] = call[q] /\ work'[q] = work[q]
         /\ UNCHANGED <<addr, nstate>>
         /\ call[p] # "idle" /\ call'[p] # "idle"
         /\ call'[p] \in {"clist", "cwork", "cleared", "cfailed"} <=>
              call[p] \in {"clist", "cwork", "cleared", "cfailed"}
<1>1. CASE Listing(p) \/ ListingFails(p) \/ CallerRuns(p)
  BY <1>1 DEF EngineTypeOK, Listing, ListNodes, ClearList, ListingFails, ListFails,
              InspectFails, HelpersFail, ClearListFails, CallerRuns, InspectIPs, PlanFrom,
              StartWorkers, ClearHelpers, hostVars
<1>2. ASSUME NEW n \in Node, WorkerRuns(p, n) \/ WorkerFails(p, n)
      PROVE  /\ call' = call /\ UNCHANGED <<addr, nstate>>
             /\ work[p][n] # "idle"
             /\ \A q \in Proc \ {p} : work'[q] = work[q]
  BY <1>2 DEF EngineTypeOK, WorkerRuns, WorkerFails, EnsureHelper, CreateHelper, ExecShape,
              ChooseHelper, ExecDelete, RunDelete, CreateHelperFails, ShapeFails,
              DeleteFails, WorkTo, hostVars
<1>3. call[p] = "idle" => \A n \in Node : work[p][n] = "idle"
  BY DEF InOrder, NoWork
<1> QED BY <1>1, <1>2, <1>3 DEF EngineRuns

\* A node command, and the removal of a helper it leads to, have the host to
\* themselves: every node stays, or one goes down and is known to be touched.
LEMMA NodesLeave ==
  ASSUME CarefulUse, TypeOK, FileInv, NEW p \in Proc,
         \/ \E n \in Node, action \in NodeActions : NodeCommand(p, n, action)
         \/ DropHelper(p)
  PROVE  /\ NodesOnlyLeave /\ HelpersInPlace' /\ Addressed'
         /\ \/ NodesStay /\ touched' = touched
            \/ \E n \in Node : NodeLeaves(n) /\ touched' = touched \cup {n}
         /\ UNCHANGED <<engineVars, draft, shellVars, file>>
         /\ \A q \in Proc : call[q] = "idle"
         /\ \A s \in Shell : shellAt[s] # "awake" /\ owed'[s] = owed[s]
         /\ \A q \in Proc \ {p} : at[q] = "idle" /\ at'[q] = "idle" /\ owed'[q] = owed[q]
         /\ at[p] \in {"idle", "drop"} /\ at'[p] \in {"idle", "drop"}
         /\ IF at'[p] = "drop" THEN owed'[p] \in Node /\ (~Joinable(owed[p]))'
            ELSE owed'[p] = None
         /\ FileHolds
<1> USE CliAssumption DEF TypeOK, FileInv, CarefulUse
<1>1. at[p] # "idle" =>
        /\ \A q \in Proc \ {p} : at[q] = "idle"
        /\ \A s \in Shell : shellAt[s] # "awake"
  BY DEF Alone, ShellsAlone
<1>2. ASSUME NEW n \in Node, NEW action \in {"pause", "unpause", "kill"},
             NodeCommand(p, n, action)
      PROVE  /\ NodesOnlyLeave /\ HelpersInPlace' /\ Addressed'
             /\ IF ChangesNamespace(action)
                THEN /\ at' = [at EXCEPT ![p] = "drop"]
                     /\ owed' = [owed EXCEPT ![p] = n]
                     /\ touched' = touched \cup {n}
                     /\ NodeLeaves(n)
                ELSE UNCHANGED <<at, owed, touched>> /\ NodesStay
             /\ Quiet /\ at[p] = "idle"
             /\ UNCHANGED <<engineVars, draft, shellVars, file>>
  <2>1. Docker(n, action)
    BY <1>2 DEF NodeCommand
  <2>2. /\ NodesOnlyLeave /\ HelpersInPlace' /\ Addressed'
        /\ IF action \in {"kill", "stop"} THEN NodeLeaves(n) ELSE NodesStay
    BY <2>1, DockerOnlyTakes
  <2> QED BY <1>2, <2>2 DEF NodeCommand, ChangesNamespace, MayStart
<1>3. ASSUME NEW n \in Node, NEW action \in {"pause", "unpause", "kill"},
             NodeCommand(p, n, action)
      PROVE  /\ IF at'[p] = "drop" THEN owed'[p] \in Node /\ (~Joinable(owed[p]))'
                ELSE owed'[p] = None
             /\ \A s \in Shell : owed'[s] = owed[s]
             /\ \A q \in Proc \ {p} : at'[q] = at[q] /\ owed'[q] = owed[q]
             /\ at'[p] \in {"idle", "drop"}
  <2>1. CASE ChangesNamespace(action)
    BY <1>2, <1>3, <2>1 DEF NodeLeaves, Joinable
  <2>2. CASE ~ChangesNamespace(action)
    BY <1>2, <1>3, <2>2 DEF OnePurpose
  <2> QED BY <2>1, <2>2
<1>4. CASE DropHelper(p)
  <2>1. PICK n \in Node : n = owed[p]
    BY <1>4 DEF DropHelper
  <2>2. /\ at[p] = "drop" /\ ~Joinable(n)
        /\ RemoveHelper(n)
        /\ owed' = [owed EXCEPT ![p] = None]
        /\ at' = [at EXCEPT ![p] = "idle"]
        /\ touched' = touched \cup {n}
        /\ UNCHANGED <<nstate, addr, qdisc, engineVars, draft, shellVars, file>>
    BY <1>4, <2>1 DEF DropHelper, OnePurpose
  <2>3. NodesOnlyLeave /\ HelpersInPlace' /\ Addressed' /\ NodeLeaves(n)
    BY <2>2, DownHelperGoes
  <2>4. FileHolds /\ \A q \in Proc : call[q] = "idle"
    BY <1>1, <2>2, IdleCalls DEF OnTheWay
  <2> QED BY <1>1, <2>2, <2>3, <2>4
<1>5. ASSUME NEW n \in Node, NEW action \in NodeActions, NodeCommand(p, n, action)
      PROVE  /\ FileHolds
             /\ \A q \in Proc : at[q] = "idle" /\ call[q] = "idle"
             /\ \A s \in Shell : shellAt[s] # "awake"
  BY <1>2, <1>5, IdleCalls DEF OnTheWay, Quiet
<1>6. CASE \E n \in Node, action \in NodeActions : NodeCommand(p, n, action)
  <2>1. PICK n \in Node, action \in NodeActions : NodeCommand(p, n, action)
    BY <1>6
  <2>2. action \in {"pause", "unpause", "kill"}
    OBVIOUS
  <2>3. /\ FileHolds /\ \A q \in Proc : at[q] = "idle" /\ call[q] = "idle"
        /\ \A s \in Shell : shellAt[s] # "awake"
    BY <1>5, <2>1
  <2>4. /\ IF at'[p] = "drop" THEN owed'[p] \in Node /\ (~Joinable(owed[p]))'
           ELSE owed'[p] = None
        /\ \A s \in Shell : owed'[s] = owed[s]
        /\ \A q \in Proc \ {p} : at'[q] = at[q] /\ owed'[q] = owed[q]
        /\ at'[p] \in {"idle", "drop"}
    BY <1>3, <2>1, <2>2
  <2>5. /\ NodesOnlyLeave /\ HelpersInPlace' /\ Addressed'
        /\ \/ NodesStay /\ touched' = touched
           \/ NodeLeaves(n) /\ touched' = touched \cup {n}
        /\ UNCHANGED <<engineVars, draft, shellVars, file>>
    BY <1>2, <2>1, <2>2
  <2> HIDE DEF TypeOK, FileInv, CarefulUse
  <2> QED BY <2>3, <2>4, <2>5
<1> QED BY <1>4, <1>6

\* What is under way stays under way for one process or one shell at a time.
LEMMA ShellsAloneStep ==
  ASSUME CarefulUse, TypeOK, FileInv, [Next]_vars
  PROVE  ShellsAlone'
<1> USE CliAssumption DEF TypeOK, FileInv, CarefulUse
<1>1. ASSUME NEW p \in Proc, Command(p)
      PROVE  ShellsAlone'
  <2>1. Quiet /\ UNCHANGED shellVars
    BY <1>1 DEF Command, LinkStart, ClearStart, NodeCommand, MayStart
  <2>2. \A s \in Shell : owed'[s] = owed[s]
    BY <1>1, NodesLeave DEF Command, LinkStart, ClearStart
  <2> QED BY <2>1, <2>2 DEF ShellsAlone, Quiet, shellVars
<1>2. ASSUME NEW p \in Proc, DropHelper(p)
      PROVE  ShellsAlone'
  BY <1>2, NodesLeave DEF ShellsAlone, shellVars
<1>3. ASSUME NEW p \in Proc, Advance(p), ~DropHelper(p)
      PROVE  ShellsAlone'
  <2>1. at[p] # "idle"
    BY <1>3, IdleCalls, EngineConfined
       DEF Advance, Load, ReconcileReturn, ReconcileEnd, Save, Arm, ClearReturn, ClearEnd,
           OnTheWay
  <2>2. owed' = owed /\ todo' = todo
    BY <1>3 DEF Advance, Load, EngineRuns, ReconcileReturn, Save, Arm, ClearReturn, shellVars
  <2>3. \A s \in Shell : shellAt[s] # "awake" /\ shellAt'[s] # "awake"
    BY <1>3, <2>1 DEF Advance, Load, EngineRuns, ReconcileReturn, Save, Arm, ClearReturn,
                      shellVars, ShellsAlone
  <2> QED BY <2>2, <2>3 DEF ShellsAlone
<1>4. ASSUME NEW p \in Proc, Interrupt(p)
      PROVE  ShellsAlone'
  <2>1. \A s \in Shell : shellAt[s] # "awake" /\ owed'[s] = owed[s]
    BY <1>4 DEF Interrupt, ShellsAlone
  <2> QED BY <1>4, <2>1 DEF Interrupt, ShellsAlone, shellVars
<1>5. ASSUME NEW s \in Shell, ShellRuns(s)
      PROVE  ShellsAlone'
  <2>1. CASE ShellWakes(s)
    BY <2>1 DEF ShellWakes, Quiet, ShellsAlone, cmdVars
  <2>2. ASSUME NEW n \in Node, ShellDeletes(s, n)
        PROVE  ShellsAlone'
    BY <2>2 DEF ShellDeletes, ShellsAlone, cmdVars
  <2>3. CASE DropHelper(s)
    BY <2>3 DEF DropHelper, ShellsAlone, shellVars
  <2>4. CASE ShellEnds(s)
    BY <2>4 DEF ShellEnds, ShellsAlone, cmdVars
  <2> QED BY <1>5, <2>1, <2>2, <2>3, <2>4 DEF ShellRuns
<1>6. CASE UNCHANGED vars
  BY <1>6 DEF vars, cmdVars, shellVars, ShellsAlone
<1> QED BY <1>1, <1>2, <1>3, <1>4, <1>5, <1>6 DEF Next

\* A process enters the engine where its command does, and leaves it there.
LEMMA OnePurposeStep ==
  ASSUME CarefulUse, TypeOK, FileInv, [Next]_vars
  PROVE  OnePurpose'
<1> USE CliAssumption DEF TypeOK, EngineTypeOK, FileInv, CarefulUse
<1>1. ASSUME NEW p \in Proc, Command(p)
      PROVE  OnePurpose'
  <2>1. call[p] = "idle"
    BY <1>1, IdleCalls DEF Command, LinkStart, ClearStart, NodeCommand, MayStart
  <2>2. ASSUME NEW k \in Pair, NEW f \in Profile, NEW ttl \in WithTTL,
               LinkStart(p, k, f, ttl)
        PROVE  OnePurpose'
    BY <2>1, <2>2 DEF LinkStart, MayStart, OnePurpose, engineVars, Joinable, hostVars
  <2>3. CASE ClearStart(p)
    BY <2>1, <2>3 DEF ClearStart, ClearBegin, MayStart, OnePurpose, Joinable, hostVars
  <2>4. ASSUME NEW n \in Node, NEW action \in NodeActions, NodeCommand(p, n, action)
        PROVE  OnePurpose'
    BY <2>4, NodesLeave DEF OnePurpose, engineVars, Joinable
  <2> QED BY <1>1, <2>2, <2>3, <2>4 DEF Command
<1>2. ASSUME NEW p \in Proc, Advance(p)
      PROVE  OnePurpose'
  <2>1. CASE DropHelper(p)
    BY <2>1, NodesLeave DEF OnePurpose, engineVars, Joinable
  <2>2. CASE EngineRuns(p)
    BY <2>2, EngineConfined DEF EngineRuns, OnePurpose, OnTheWay, cmdVars, Joinable
  <2>3. CASE Load(p)
    BY <2>3 DEF Load, ReconcileBegin, OnePurpose, Joinable, hostVars
  <2>4. CASE ReconcileReturn(p) \/ ClearReturn(p)
    <3>1. /\ call[p] \in {"work", "rfailed", "cleared", "cfailed"}
          /\ call' = [call EXCEPT ![p] = "idle"]
          /\ UNCHANGED <<hostVars, owed>>
          /\ at'[p] # "drop" /\ \A q \in Proc \ {p} : at'[q] = at[q]
      BY <2>4 DEF ReconcileReturn, ReconcileEnd, ClearReturn, ClearEnd, Returns
    <3>2. at[p] # "drop"
      BY <3>1, IdleCalls
    <3> QED BY <3>1, <3>2 DEF OnePurpose, Joinable, hostVars
  <2>5. CASE Save(p) \/ Arm(p)
    <3>1. call[p] = "idle"
      BY <2>5, IdleCalls DEF Save, Arm
    <3>2. /\ at[p] \in {"save", "arm"} /\ at'[p] \in {"arm", "idle"}
          /\ UNCHANGED <<hostVars, call, owed>>
          /\ \A q \in Proc \ {p} : at'[q] = at[q]
      BY <2>5 DEF Save, Arm, Returns, engineVars
    <3> QED BY <3>1, <3>2 DEF OnePurpose, Joinable, hostVars
  <2> QED BY <1>2, <2>1, <2>2, <2>3, <2>4, <2>5 DEF Advance
<1>3. ASSUME NEW p \in Proc, Interrupt(p)
      PROVE  OnePurpose'
  BY <1>3 DEF Interrupt, EngineGone, Returns, OnePurpose, Joinable, hostVars
<1>4. ASSUME NEW s \in Shell, ShellRuns(s)
      PROVE  OnePurpose'
  <2>1. /\ UNCHANGED <<engineVars, nstate>> /\ at' = at
        /\ \A p \in Proc : owed'[p] = owed[p]
    BY <1>4 DEF ShellRuns, ShellWakes, ShellDeletes, DropHelper, ShellEnds, cmdVars, hostVars
  <2> QED BY <2>1 DEF OnePurpose, engineVars, Joinable
<1>5. CASE UNCHANGED vars
  BY <1>5 DEF vars, cmdVars, engineVars, OnePurpose, Joinable, hostVars
<1> QED BY <1>1, <1>2, <1>3, <1>4, <1>5 DEF Next

\* Host and engine in the hands of one process or one shell.
LEMMA HostStep ==
  ASSUME CarefulUse, TypeOK, FileInv, [Next]_vars
  PROVE  /\ HelpersInPlace' /\ Addressed'
         /\ \A p \in Proc : InOrder(p)'
<1> USE CliAssumption DEF TypeOK, FileInv, CarefulUse
<1>0. /\ call \in [Proc -> CallState]
      /\ work \in [Proc -> [Node -> WorkState]]
      /\ helper \in [Node -> HelperState]
      /\ qdisc \in [Node -> Shaping]
      /\ nstate \in [Node -> NodeState]
      /\ \A p \in Proc : InOrder(p)
  BY DEF EngineTypeOK, HostTypeOK, OnTheWay
<1>1. ASSUME NEW q \in Proc, call[q] = "idle", call'[q] = "idle", work'[q] = work[q]
      PROVE  InOrder(q)'
  <2>1. work'[q] = NoWork
    BY <1>0, <1>1 DEF InOrder
  <2> QED BY <1>1, <2>1 DEF InOrder, NoWork
<1>2. ASSUME UNCHANGED hostVars
      PROVE  HelpersInPlace' /\ Addressed'
  BY <1>2 DEF hostVars, HelpersInPlace, Joinable, HelperExists, Addressed
<1>3. ASSUME NEW p \in Proc,
              \/ \E n \in Node, action \in NodeActions : NodeCommand(p, n, action)
              \/ DropHelper(p)
       PROVE  HelpersInPlace' /\ Addressed' /\ \A q \in Proc : InOrder(q)'
  <2>1. NodesOnlyLeave /\ HelpersInPlace' /\ Addressed' /\ UNCHANGED engineVars
    BY <1>3, NodesLeave
  <2> QED BY <1>0, <2>1, LeavingKeepsCalls
<1>4. ASSUME UNCHANGED <<hostVars, engineVars>>
      PROVE  \A p \in Proc : InOrder(p)'
  BY <1>0, <1>4 DEF InOrder, engineVars, HostUnshaped, hostVars, Joinable
<1>5. ASSUME UNCHANGED hostVars, NEW p \in Proc, call[p] = "idle",
             call'[p] \in {"list", "clist"}, work' = work,
             \A q \in Proc \ {p} : call'[q] = call[q]
      PROVE  HelpersInPlace' /\ Addressed' /\ \A q \in Proc : InOrder(q)'
  <2>0. work[p] = NoWork
    BY <1>0, <1>5 DEF InOrder
  <2>1. InOrder(p)'
    BY <1>5, <2>0 DEF InOrder, NoWork
  <2>2. \A q \in Proc \ {p} : InOrder(q)'
    BY <1>0, <1>5 DEF InOrder, HostUnshaped, hostVars, Joinable
  <2> QED BY <1>2, <1>5, <2>1, <2>2
<1>6. ASSUME UNCHANGED hostVars, NEW p \in Proc, call'[p] = "idle", work'[p] = NoWork,
             \A q \in Proc \ {p} : call'[q] = call[q] /\ work'[q] = work[q]
      PROVE  HelpersInPlace' /\ Addressed' /\ \A q \in Proc : InOrder(q)'
  <2>1. InOrder(p)'
    BY <1>6 DEF InOrder, NoWork
  <2>2. \A q \in Proc \ {p} : InOrder(q)'
    BY <1>0, <1>6 DEF InOrder, HostUnshaped, hostVars, Joinable
  <2> QED BY <1>2, <1>6, <2>1, <2>2
<1>7. ASSUME NEW p \in Proc, Command(p)
      PROVE  HelpersInPlace' /\ Addressed' /\ \A q \in Proc : InOrder(q)'
  <2>1. call[p] = "idle"
    BY <1>7, IdleCalls DEF Command, LinkStart, ClearStart, NodeCommand, MayStart
  <2>2. ASSUME NEW k \in Pair, NEW f \in Profile, NEW ttl \in WithTTL,
               LinkStart(p, k, f, ttl)
        PROVE  HelpersInPlace' /\ Addressed' /\ \A q \in Proc : InOrder(q)'
    BY <1>2, <1>4, <2>2 DEF LinkStart
  <2>3. CASE ClearStart(p)
    BY <1>0, <1>5, <2>1, <2>3 DEF ClearStart, ClearBegin
  <2> QED BY <1>3, <1>7, <2>2, <2>3 DEF Command
<1>8. ASSUME NEW p \in Proc, Advance(p)
      PROVE  HelpersInPlace' /\ Addressed' /\ \A q \in Proc : InOrder(q)'
  <2>2. CASE EngineRuns(p)
    <3>1. HelpersInPlace' /\ InOrder(p)'
      BY <1>0, <2>2, CallerInOrder, WorkerInOrder DEF EngineRuns
    <3>2. /\ \A q \in Proc \ {p} : call'[q] = call[q] /\ work'[q] = work[q]
          /\ UNCHANGED <<addr, nstate>> /\ call[p] # "idle"
      BY <1>0, <2>2, EngineConfined
    <3>3. at[p] # "idle"
      BY <3>2, IdleCalls
    <3>4. \A q \in Proc \ {p} : call[q] = "idle"
      BY <3>3, IdleCalls DEF Alone
    <3>5. \A q \in Proc \ {p} : InOrder(q)'
      BY <1>1, <3>2, <3>4
    <3>6. Addressed'
      BY <3>2 DEF Addressed, Joinable
    <3> QED BY <3>1, <3>5, <3>6
  <2>3. CASE Load(p)
    BY <1>0, <1>5, <2>3 DEF Load, ReconcileBegin
  <2>4. CASE ReconcileReturn(p) \/ ClearReturn(p)
    <3>1. /\ UNCHANGED hostVars /\ work' = work
          /\ call' = [call EXCEPT ![p] = "idle"]
          /\ call[p] = "work" => work[p] = NoWork
          /\ call[p] \in {"work", "rfailed", "cleared", "cfailed"}
      BY <2>4 DEF ReconcileReturn, ReconcileEnd, ClearReturn, ClearEnd, WorkersDone
    <3>2. work[p] = NoWork
      BY <1>0, <3>1 DEF InOrder
    <3> QED BY <1>0, <1>6, <3>1, <3>2
  <2>5. CASE Save(p) \/ Arm(p)
    BY <1>2, <1>4, <2>5 DEF Save, Arm
  <2> QED BY <1>3, <1>8, <2>2, <2>3, <2>4, <2>5 DEF Advance
<1>9. ASSUME NEW p \in Proc, Interrupt(p)
      PROVE  HelpersInPlace' /\ Addressed' /\ \A q \in Proc : InOrder(q)'
  <2>1. /\ UNCHANGED hostVars
        /\ call' = [call EXCEPT ![p] = "idle"]
        /\ work' = [work EXCEPT ![p] = NoWork]
    BY <1>9 DEF Interrupt, EngineGone
  <2> QED BY <1>0, <1>6, <2>1
<1>10. ASSUME NEW s \in Shell, ShellRuns(s)
      PROVE  HelpersInPlace' /\ Addressed' /\ \A q \in Proc : InOrder(q)'
  <2>1. CASE ShellWakes(s) \/ ShellEnds(s)
    BY <1>2, <1>4, <2>1 DEF ShellWakes, ShellEnds
  <2>2. CASE shellAt[s] = "awake" /\ UNCHANGED <<engineVars, nstate, addr>>
    <3>1. \A q \in Proc : call[q] = "idle"
      BY <2>2, IdleCalls DEF ShellsAlone
    <3>2. \A q \in Proc : InOrder(q)'
      BY <1>1, <2>2, <3>1 DEF engineVars
    <3>3. ASSUME UNCHANGED helper, NEW n \in Node, qdisc' = [qdisc EXCEPT ![n] = Unshaped]
          PROVE  HelpersInPlace'
      <4>1. \A m \in Node : qdisc'[m] = IF m = n THEN Unshaped ELSE qdisc[m]
        BY <1>0, <3>3
      <4> QED BY <2>2, <3>3, <4>1 DEF HelpersInPlace, Joinable, HelperExists
    <3>4. ASSUME DropHelper(s), owed[s] # None
          PROVE  HelpersInPlace'
      <4>1. /\ qdisc[owed[s]] = Unshaped
            /\ helper' = [helper EXCEPT ![owed[s]] = "none"] /\ qdisc' = qdisc
        BY <3>4 DEF DropHelper, RemoveHelper, ShellsAlone, OnTheWay
      <4> QED BY <1>0, <2>2, <4>1 DEF HelpersInPlace, Joinable, HelperExists
    <3>5. ASSUME NEW n \in Node, ShellDeletes(s, n)
          PROVE  HelpersInPlace'
      BY <3>3, <3>5 DEF ShellDeletes, ThrowawayClear, DeleteWorks
    <3>6. Addressed'
      BY <2>2 DEF Addressed, Joinable
    <3> QED BY <1>10, <2>1, <3>2, <3>4, <3>5, <3>6 DEF ShellRuns, DropHelper
  <2>3. \/ shellAt[s] = "awake" /\ UNCHANGED <<engineVars, nstate, addr>>
        \/ ShellWakes(s) \/ ShellEnds(s)
    BY <1>10 DEF ShellRuns, ShellDeletes, DropHelper, ShellsAlone
  <2> QED BY <2>1, <2>2, <2>3
<1>11. CASE UNCHANGED vars
  BY <1>2, <1>4, <1>11 DEF vars
<1> QED BY <1>7, <1>8, <1>9, <1>10, <1>11 DEF Next

\* A step of a command's engine call goes towards the command's draft.
LEMMA EngineTowardsDraft ==
  ASSUME CarefulUse, BandsSuffice, TypeOK, FileInv, NEW p \in Proc, EngineRuns(p)
  PROVE  Towards(p)'
<1> USE DEF TypeOK, FileInv, CarefulUse
<1>1. PICK W : W = Drafted(p)
  OBVIOUS
<1>2. PICK T : T = touched
  OBVIOUS
<1>3. PICK U : U = touched'
  OBVIOUS
<1>4. W = Drafted(p)'
  BY <1>1 DEF EngineRuns, cmdVars, Drafted
<1>5. Reconciling(p, W, T) /\ InOrder(p)
  BY <1>1, <1>2 DEF OnTheWay, Towards
<1>6. Reconciling(p, W, U)'
  <2>1. CASE Listing(p) \/ (ListingFails(p) /\ U = Node) \/ (CallerRuns(p) /\ U = T)
    BY <1>5, <2>1, CallerReconciles
  <2>2. ASSUME NEW n \in Node, WorkerRuns(p, n), U = T
        PROVE  Reconciling(p, W, U)'
    BY <1>5, <2>2, WorkerReconciles
  <2>3. ASSUME NEW n \in Node, WorkerFails(p, n), U = T \cup {n}
        PROVE  Reconciling(p, W, U)'
    <3>1. call[p] \notin {"rfailed", "cfailed"}
      BY <1>5, <2>3 DEF WorkerFails, CreateHelperFails, ShapeFails, DeleteFails, WorkTo,
                        InOrder, NoWork
    <3>2. Reconciling(p, W, U)
      BY <1>5, <2>3, <3>1 DEF Reconciling
    <3> QED BY <1>5, <2>3, <3>2, WorkerReconciles
  <2> QED BY <1>2, <1>3, <2>1, <2>2, <2>3 DEF EngineRuns
<1> QED BY <1>3, <1>4, <1>6 DEF Towards, Reconciling, Suits

\* With a single engine call in progress, only its direction matters.
LEMMA OneTowards ==
  ASSUME NEW p \in Proc, Towards(p)', \A q \in Proc \ {p} : call'[q] = "idle"
  PROVE  \A q \in Proc : Towards(q)'
<1> SUFFICES ASSUME NEW q \in Proc, q # p
             PROVE  Towards(q)'
  OBVIOUS
<1>1. call'[q] = "idle"
  OBVIOUS
<1> QED BY <1>1 DEF Towards, Reconciling

\* What is shaped follows what a command will save, then what it has saved.
LEMMA OnTheWayStep ==
  ASSUME CarefulUse, BandsSuffice, TypeOK, FileInv, \A q \in Proc : InOrder(q)',
         OnePurpose', Alone', Rebuilding', TypeOK', [Next]_vars
  PROVE  OnTheWay'
<1> USE CliAssumption, HostAssumption DEF TypeOK, FileInv, CarefulUse
<1>0. /\ call \in [Proc -> CallState]
      /\ qdisc \in [Node -> Shaping]
      /\ desired \in [Proc -> LinkSet]
  BY DEF EngineTypeOK, HostTypeOK
<1>1. ASSUME NEW q \in Proc, call'[q] = "idle"
      PROVE  Towards(q)'
  BY <1>1 DEF Towards, Reconciling
<1>2. ASSUME UNCHANGED <<hostVars, engineVars, draft, touched>>
      PROVE  \A q \in Proc : Towards(q)'
  <2> SUFFICES ASSUME NEW q \in Proc
               PROVE  Towards(q)'
    OBVIOUS
  <2>1. Drafted(q)' = Drafted(q) /\ Towards(q)
    BY <1>2 DEF Drafted, OnTheWay
  <2> QED BY <1>2, <2>1 DEF Towards, Reconciling, Suits, Fits, Working, engineVars,
                            hostVars, Joinable
<1>3. ASSUME UNCHANGED <<nstate, addr, qdisc, file, touched>>, FileHolds
      PROVE  FileHolds'
  <2>1. Filed' = Filed
    BY <1>3 DEF Filed
  <2> QED BY <1>3, <2>1 DEF FileHolds, Suits, Joinable
<1>4. ASSUME touched' = Node
      PROVE  FileHolds'
  BY <1>4 DEF FileHolds, Suits
<1>5. ASSUME HostUnshaped', file' = NoLinks, UNCHANGED <<nstate, addr>>
      PROVE  FileHolds'
  BY <1>5, TwoNodesArePair
     DEF FileHolds, HostUnshaped, Suits, Filed, AsBoard, NoLinks, Unshaped, Addressed,
         Joinable
<1>6. ASSUME NEW p \in Proc,
              \/ \E n \in Node, action \in NodeActions : NodeCommand(p, n, action)
              \/ DropHelper(p)
       PROVE  OnTheWay'
  <2>1. /\ NodesOnlyLeave /\ HelpersInPlace' /\ touched \subseteq touched'
        /\ UNCHANGED <<engineVars, shellVars, file>>
        /\ \A q \in Proc : call[q] = "idle"
        /\ \A s \in Shell : shellAt[s] # "awake"
        /\ \A q \in Proc : at'[q] \in {"idle", "drop"}
        /\ FileHolds
    BY <1>6, NodesLeave
  <2>2. \A q \in Proc : Towards(q)'
    BY <1>1, <2>1 DEF engineVars
  <2>3. PICK W : W = Filed
    OBVIOUS
  <2>4. W = Filed'
    BY <2>1, <2>3 DEF Filed
  <2>5. \A n \in Node \ touched' : Suits(n, qdisc[n], W)'
    BY <2>1, <2>3, LeavingKeepsCalls DEF FileHolds
  <2>6. FileHolds'
    BY <2>4, <2>5 DEF FileHolds, Suits
  <2> QED BY <2>1, <2>2, <2>6 DEF OnTheWay, shellVars
<1>7. ASSUME NEW p \in Proc, at[p] # "idle"
      PROVE  /\ \A q \in Proc \ {p} : at[q] = "idle" /\ call[q] = "idle"
             /\ \A s \in Shell : shellAt[s] # "awake"
  BY <1>7, IdleCalls DEF Alone, ShellsAlone
<1>8. ASSUME NEW p \in Proc, Command(p)
      PROVE  OnTheWay'
  <2>1. Quiet /\ UNCHANGED <<shellVars, file>> /\ call[p] = "idle"
    BY <1>8, IdleCalls DEF Command, LinkStart, ClearStart, NodeCommand, MayStart
  <2>2. ASSUME NEW k \in Pair, NEW f \in Profile, NEW ttl \in WithTTL,
               LinkStart(p, k, f, ttl)
        PROVE  OnTheWay'
    BY <1>2, <2>1, <2>2 DEF LinkStart, OnTheWay, Quiet, shellVars, hostVars
  <2>3. CASE ClearStart(p)
    <3>1. call' = [call EXCEPT ![p] = "clist"] /\ at' = [at EXCEPT ![p] = "clear"]
      BY <2>3 DEF ClearStart, ClearBegin
    <3>2. \A q \in Proc \ {p} : call'[q] = "idle"
      BY <2>1, <3>1, IdleCalls DEF Quiet
    <3>3. Towards(p)'
      BY <1>0, <3>1 DEF Towards, Reconciling
    <3>4. \A q \in Proc : Towards(q)'
      BY <3>2, <3>3, OneTowards
    <3> QED BY <2>1, <3>1, <3>4 DEF OnTheWay, Quiet, shellVars
  <2> QED BY <1>6, <1>8, <2>2, <2>3 DEF Command
<1>9. ASSUME NEW p \in Proc, Load(p)
      PROVE  OnTheWay'
  <2>1. PICK ls \in Readable(p) :
          LET merged == Upsert(ls, asked[p].pair, asked[p].fault)
          IN  /\ draft' = [draft EXCEPT ![p] = merged]
              /\ ReconcileBegin(p, merged)
    BY <1>9 DEF Load
  <2>2. /\ at[p] = "load" /\ at' = [at EXCEPT ![p] = "reconcile"]
        /\ UNCHANGED <<hostVars, shellVars, file, touched>>
    BY <1>9 DEF Load
  <2>3. /\ call' = [call EXCEPT ![p] = "list"]
        /\ desired'[p] = draft'[p]
    BY <1>0, <2>1 DEF ReconcileBegin
  <2>4. Towards(p)'
    BY <1>0, <2>3 DEF Towards, Reconciling, Drafted, AsBoard
  <2>5. \A q \in Proc \ {p} : call'[q] = "idle"
    BY <1>0, <1>7, <2>2, <2>3
  <2>6. \A q \in Proc : Towards(q)'
    BY <2>4, <2>5, OneTowards
  <2> QED BY <1>7, <2>2, <2>6 DEF OnTheWay, Quiet, shellVars
<1>10. ASSUME NEW p \in Proc, EngineRuns(p)
      PROVE  OnTheWay'
  <2>1. /\ UNCHANGED <<cmdVars, shellVars, file>>
        /\ call[p] # "idle" /\ at[p] # "idle"
        /\ \A q \in Proc \ {p} : call'[q] = call[q]
    BY <1>10, EngineConfined, IdleCalls DEF EngineRuns, OnTheWay
  <2>2. at[p] \in {"reconcile", "clear"}
    BY <2>1, IdleCalls
  <2>3. Towards(p)'
    BY <1>10, EngineTowardsDraft
  <2>4. \A q \in Proc \ {p} : call'[q] = "idle"
    BY <1>7, <2>1
  <2>5. \A q \in Proc : Towards(q)'
    BY <2>3, <2>4, OneTowards
  <2> QED BY <1>7, <2>1, <2>2, <2>5 DEF OnTheWay, Quiet, cmdVars, shellVars
<1>11. ASSUME NEW p \in Proc, ReconcileReturn(p)
       PROVE  OnTheWay'
  <2>1. /\ call[p] \in {"work", "rfailed"} /\ call' = [call EXCEPT ![p] = "idle"]
        /\ UNCHANGED <<hostVars, shellVars, file, touched>>
    BY <1>11 DEF ReconcileReturn, ReconcileEnd
  <2>2. at[p] = "reconcile"
    BY <2>1 DEF Rebuilding, ReconcileCalls
  <2>3. \A q \in Proc : call'[q] = "idle"
    BY <1>0, <1>7, <2>1, <2>2
  <2> USE <1>1, <2>3
  <2>4. CASE call[p] = "rfailed"
    <3>1. touched' = Node /\ at' = [at EXCEPT ![p] = "idle"]
      BY <1>11, <2>1, <2>4 DEF ReconcileReturn, Returns, OnTheWay, Towards, Reconciling
    <3> QED BY <1>4, <1>7, <2>1, <2>2, <2>3, <3>1 DEF OnTheWay, shellVars
  <2>5. CASE call[p] = "work"
    <3>1. at' = [at EXCEPT ![p] = "save"] /\ draft' = draft
      BY <1>11, <2>5 DEF ReconcileReturn
    <3>2. \A n \in Node \ touched : Suits(n, qdisc[n], Drafted(p))
      BY <1>11, ReconcileDelivers DEF ReconcileReturn, OnTheWay, Towards
    <3>3. Drafted(p)' = Drafted(p)
      BY <3>1 DEF Drafted
    <3>4. \A n \in Node \ touched' : Suits(n, qdisc[n], Drafted(p))'
      BY <2>1, <3>2, <3>3 DEF Suits, Joinable, hostVars
    <3> QED BY <1>7, <2>1, <2>2, <2>3, <3>1, <3>4 DEF OnTheWay, Quiet, shellVars
  <2> QED BY <2>1, <2>4, <2>5
<1>12. ASSUME NEW p \in Proc, Save(p)
       PROVE  OnTheWay'
  <2>1. /\ at[p] = "save" /\ at'[p] \in {"arm", "idle"} /\ file' = draft[p]
        /\ UNCHANGED <<hostVars, engineVars, shellVars, touched>>
        /\ \A q \in Proc \ {p} : at'[q] = at[q]
    BY <1>12 DEF Save, Returns
  <2>2. Filed' = Drafted(p)
    BY <2>1 DEF Filed, Drafted
  <2>3. FileHolds'
    BY <2>1, <2>2 DEF OnTheWay, FileHolds, Suits, Joinable, hostVars
  <2>4. \A q \in Proc : call'[q] = "idle"
    BY <1>7, <2>1, IdleCalls DEF engineVars
  <2> QED BY <1>1, <1>7, <2>1, <2>3, <2>4 DEF OnTheWay, shellVars
<1>13. ASSUME NEW p \in Proc, Arm(p)
       PROVE  OnTheWay'
  <2>1. /\ at[p] = "arm" /\ at' = [at EXCEPT ![p] = "idle"]
        /\ UNCHANGED <<hostVars, engineVars, todo, file, touched>>
        /\ \A s \in Shell : shellAt'[s] = "awake" => shellAt[s] = "awake"
    BY <1>13 DEF Arm, Returns
  <2>2. FileHolds'
    BY <1>3, <2>1 DEF OnTheWay, hostVars
  <2>3. \A q \in Proc : call'[q] = "idle"
    BY <1>7, <2>1, IdleCalls DEF engineVars
  <2> QED BY <1>1, <1>7, <2>1, <2>2, <2>3 DEF OnTheWay
<1>14. ASSUME NEW p \in Proc, ClearReturn(p)
       PROVE  OnTheWay'
  <2>1. /\ call[p] \in {"cleared", "cfailed"} /\ call' = [call EXCEPT ![p] = "idle"]
        /\ at' = [at EXCEPT ![p] = "idle"]
        /\ UNCHANGED <<hostVars, shellVars, touched>>
    BY <1>14 DEF ClearReturn, ClearEnd, Returns
  <2>2. at[p] = "clear"
    BY <2>1 DEF OnePurpose
  <2>3. \A q \in Proc : call'[q] = "idle"
    BY <1>0, <1>7, <2>1, <2>2
  <2> USE <1>1, <2>3
  <2>4. CASE call[p] = "cleared"
    <3>1. HostUnshaped' /\ file' = NoLinks /\ UNCHANGED <<nstate, addr>>
      BY <1>14, <2>1, <2>4 DEF ClearReturn, OnTheWay, InOrder, HostUnshaped, hostVars
    <3> QED BY <1>5, <1>7, <2>1, <2>2, <2>3, <3>1 DEF OnTheWay, shellVars
  <2>5. CASE call[p] = "cfailed"
    <3>1. touched' = Node
      BY <2>1, <2>5 DEF OnTheWay, Towards, Reconciling
    <3> QED BY <1>4, <1>7, <2>1, <2>2, <2>3, <3>1 DEF OnTheWay, shellVars
  <2> QED BY <2>1, <2>4, <2>5
<1>15. ASSUME NEW p \in Proc, Interrupt(p)
       PROVE  OnTheWay'
  <2>1. /\ call' = [call EXCEPT ![p] = "idle"] /\ at' = [at EXCEPT ![p] = "idle"]
        /\ touched' = Node /\ at[p] # "idle" /\ UNCHANGED shellVars
    BY <1>15 DEF Interrupt, EngineGone, Returns
  <2>2. \A q \in Proc : Towards(q)'
    BY <1>0, <1>1, <1>7, <2>1
  <2> QED BY <1>4, <1>7, <2>1, <2>2 DEF OnTheWay, shellVars
<1>16. ASSUME NEW s \in Shell, ShellRuns(s)
       PROVE  OnTheWay'
  <2>1. CASE ShellWakes(s)
    <3>1. /\ Quiet /\ shellAt' = [shellAt EXCEPT ![s] = "awake"]
          /\ todo' = [todo EXCEPT ![s] = Node]
          /\ UNCHANGED <<hostVars, engineVars, cmdVars, file, touched>>
      BY <2>1 DEF ShellWakes
    <3> QED BY <1>2, <3>1 DEF OnTheWay, Quiet, hostVars, cmdVars
  <2>2. CASE shellAt[s] = "awake" /\ UNCHANGED <<engineVars, cmdVars, nstate, addr>>
    <3>1. /\ \A q \in Proc : at[q] = "idle" /\ at'[q] = "idle"
          /\ \A t \in Shell \ {s} : shellAt[t] # "awake"
      BY <2>2 DEF ShellsAlone, cmdVars
    <3>2. \A q \in Proc : call'[q] = "idle"
      BY <2>2, <3>1, IdleCalls DEF engineVars
    <3>3. \A q \in Proc : Towards(q)'
      BY <1>1, <3>2
    <3>4. ASSUME NEW n \in Node, ShellDeletes(s, n)
          PROVE  OnTheWay'
      <4>1. /\ \A m \in Node : qdisc'[m] = IF m = n THEN Unshaped ELSE qdisc[m]
            /\ todo' = [todo EXCEPT ![s] = @ \ {n}] /\ shellAt' = shellAt
        BY <1>0, <3>4 DEF ShellDeletes, ThrowawayClear, DeleteWorks
      <4>2. \A m \in Node \ todo'[s] : qdisc'[m] = Unshaped
        BY <2>2, <4>1 DEF OnTheWay
      <4> QED BY <2>2, <3>1, <3>3, <4>1, <4>2 DEF OnTheWay, Quiet
    <3>5. CASE DropHelper(s)
      BY <2>2, <3>1, <3>3, <3>5 DEF DropHelper, OnTheWay, Quiet, shellVars
    <3>6. CASE ShellEnds(s)
      <4>1. /\ shellAt' = [shellAt EXCEPT ![s] = "free"] /\ todo[s] = {}
            /\ file' = NoLinks /\ UNCHANGED <<hostVars, todo>>
        BY <3>6 DEF ShellEnds
      <4>2. HostUnshaped'
        BY <2>2, <4>1 DEF OnTheWay, HostUnshaped, hostVars
      <4>3. FileHolds'
        BY <1>5, <2>2, <4>1, <4>2
      <4> QED BY <3>1, <3>3, <4>1, <4>3 DEF OnTheWay
    <3> QED BY <1>16, <2>1, <3>4, <3>5, <3>6 DEF ShellRuns
  <2>3. \/ shellAt[s] = "awake" /\ UNCHANGED <<engineVars, cmdVars, nstate, addr>>
        \/ ShellWakes(s)
    BY <1>16 DEF ShellRuns, ShellDeletes, DropHelper, ShellEnds, ShellsAlone, hostVars, cmdVars
  <2> QED BY <2>1, <2>2, <2>3
<1>17. CASE UNCHANGED vars
  <2>1. /\ UNCHANGED <<hostVars, engineVars, cmdVars, shellVars, file, touched>>
        /\ Quiet' = Quiet
    BY <1>17 DEF vars, cmdVars, shellVars, Quiet
  <2>2. \A q \in Proc : Towards(q)'
    BY <1>2, <2>1 DEF hostVars, cmdVars
  <2>3. ASSUME FileHolds
        PROVE  FileHolds'
    BY <1>3, <2>1, <2>3 DEF hostVars
  <2>4. ASSUME NEW q \in Proc, at[q] = "save"
        PROVE  \A n \in Node \ touched' : Suits(n, qdisc[n], Drafted(q))'
    <3>1. Drafted(q)' = Drafted(q)
      BY <2>1 DEF Drafted, cmdVars
    <3> QED BY <2>1, <2>4, <3>1 DEF OnTheWay, Suits, Joinable, hostVars
  <2> QED BY <2>1, <2>2, <2>3, <2>4 DEF OnTheWay, cmdVars, shellVars, hostVars
<1> QED BY <1>6, <1>8, <1>9, <1>10, <1>11, <1>12, <1>13, <1>14, <1>15, <1>16, <1>17
        DEF Next, Advance

\* The inductive invariant holds from the start.
LEMMA FileInvariant ==
  ASSUME CarefulUse, BandsSuffice
  PROVE  Spec => []FileInv
<1> USE HostAssumption
<1>1. Init /\ TypeInv => FileInv
  <2> SUFFICES ASSUME Init, TypeInv
               PROVE  FileInv
    OBVIOUS
  <2>1. HelpersInPlace /\ Addressed
    BY DEF Init, HostInit, HelpersInPlace, Joinable, Addressed
  <2>2. FileHolds
    BY <2>1, TwoNodesArePair
       DEF Init, HostInit, FileHolds, Suits, Filed, AsBoard, NoLinks, Unshaped, Addressed
  <2>3. /\ \A p \in Proc : call[p] = "idle" /\ at[p] = "idle" /\ work[p] = NoWork
        /\ \A s \in Shell : shellAt[s] = "free"
        /\ \A x \in Proc \cup Shell : owed[x] = None
    BY DEF Init, EngineInit
  <2>4. OnTheWay
    BY <2>2, <2>3 DEF OnTheWay, InOrder, Towards, Reconciling, NoWork
  <2> QED BY <2>1, <2>3, <2>4
          DEF FileInv, Alone, Rebuilding, ReconcileCalls, ShellsAlone, OnePurpose
<1>2. TypeInv /\ TypeInv' /\ FileInv /\ [Next]_vars => FileInv'
  <2> SUFFICES ASSUME TypeInv, TypeInv', FileInv, [Next]_vars
               PROVE  FileInv'
    OBVIOUS
  <2>1. TypeOK /\ TypeOK' /\ OneCommand
    BY DEF TypeInv, CarefulUse, OneCommand
  <2>2. Alone' /\ Rebuilding'
    BY <2>1, AloneStep, RebuildingStep DEF FileInv
  <2>3. ShellsAlone' /\ OnePurpose'
    BY <2>1, ShellsAloneStep, OnePurposeStep
  <2>4. HelpersInPlace' /\ Addressed' /\ \A p \in Proc : InOrder(p)'
    BY <2>1, HostStep
  <2>5. OnTheWay'
    BY <2>1, <2>2, <2>3, <2>4, OnTheWayStep
  <2> QED BY <2>2, <2>3, <2>4, <2>5 DEF FileInv
<1> QED BY <1>1, <1>2, TypeInvariant, PTL DEF Spec

\* The live shaping and the state file stay consistent: when nothing is under
\* way, nodes nothing was missed of do to each other what the file says, however
\* commands fail, are interrupted between any two steps, or give way to a
\* dead-man shell.
THEOREM FileIsTruth ==
  ASSUME CarefulUse, BandsSuffice
  PROVE  Spec => []FileMatchesShaping
<1> USE HostAssumption
<1>1. FileInv => FileMatchesShaping
  <2> SUFFICES ASSUME FileInv, Quiet,
                      NEW a \in Node \ touched, NEW b \in Node \ touched, a # b,
                      Joinable(a), Joinable(b)
               PROVE  FaultTowards(a, b) = file[{a, b}]
    BY DEF FileMatchesShaping
  <2>1. Suits(a, qdisc[a], Filed) /\ addr[b] # NoIP
    BY DEF FileInv, OnTheWay, FileHolds, Addressed
  <2> QED BY <2>1, TwoNodesArePair DEF Suits, Filed, AsBoard, FaultTowards
<1> QED BY <1>1, FileInvariant, PTL
-----------------------------------------------------------------------------
(***************************************************************************)
(* KeepsBoard: the commands implement LinkBoard                            *)
(***************************************************************************)

\* The faults of a link set are a board.
LEMMA AsBoardType ==
  ASSUME NEW ls \in LinkSet
  PROVE  AsBoard(ls) \in Board!Boards
BY DEF AsBoard, LinkSet, Board!Boards, Board!Pair, Pair

\* A command that rebuilds, or is to save, brings the nodes to its draft.
LEMMA BuildersWish ==
  ASSUME Alone, NEW p \in Proc, at[p] \in {"reconcile", "save"}
  PROVE  ~Calm /\ Wish = AsBoard(draft[p])
<1>1. Builders = {p}
  BY DEF Alone, Builders
<1>2. (CHOOSE q \in {p} : TRUE) = p
  OBVIOUS
<1> QED BY <1>1, <1>2 DEF Calm, Wish

LEMMA NextBuildersWish ==
  ASSUME Alone', NEW p \in Proc, at'[p] \in {"reconcile", "save"}
  PROVE  ~Calm' /\ Wish' = AsBoard(draft[p])'
<1>1. Builders' = {p}
  BY DEF Alone, Builders
<1>2. (CHOOSE q \in {p} : TRUE) = p
  OBVIOUS
<1> QED BY <1>1, <1>2 DEF Calm, Wish, AsBoard

\* A clear, or an awake shell, brings them to no links.
LEMMA ClearersWish ==
  ASSUME \A q \in Proc : at[q] \notin {"reconcile", "save"}, Clearing
  PROVE  ~Calm /\ Wish = AsBoard(NoLinks)
BY DEF Calm, Wish, Builders

LEMMA NextClearersWish ==
  ASSUME \A q \in Proc : at'[q] \notin {"reconcile", "save"}, Clearing'
  PROVE  ~Calm' /\ Wish' = AsBoard(NoLinks)
BY DEF Calm, Wish, Builders, AsBoard

\* When nobody works on them, they are as the file says.
Resting ==
  /\ \A q \in Proc : at[q] \notin {"reconcile", "save", "clear"}
  /\ \A s \in Shell : shellAt[s] # "awake"

LEMMA RestingWish ==
  ASSUME Resting
  PROVE  Calm /\ Wish = AsBoard(file)
BY DEF Resting, Calm, Wish, Builders, Clearing

LEMMA NextRestingWish ==
  ASSUME Resting'
  PROVE  Calm' /\ Wish' = AsBoard(file)'
BY DEF Resting, Calm, Wish, Builders, Clearing, AsBoard

\* Calm is a truth value: it stays if it is as true as before.
LEMMA StillCalm ==
  ASSUME Calm' <=> Calm
  PROVE  Calm' = Calm
BY DEF Calm

\* Where the work is done, the file is followed.
LEMMA FileIsFollowed ==
  ASSUME TypeOK, FileInv, FileInv', UNCHANGED <<hostVars, touched>>, Resting',
         \A q \in Proc : at'[q] # "load", TypeOK'
  PROVE  Board!Followed(Wish')
<1> USE DEF FileInv
<1>1. FileHolds'
  <2>1. CASE \E q \in Proc : at'[q] \in {"arm", "drop"}
    BY <2>1 DEF OnTheWay
  <2>2. CASE \A q \in Proc : at'[q] \notin {"arm", "drop"}
    <3>1. Quiet'
      BY <2>2 DEF Quiet, Resting, TypeOK
    <3> QED BY <3>1 DEF OnTheWay
  <2> QED BY <2>1, <2>2
<1>2. PICK W : W = Filed'
  OBVIOUS
<1>3. \A n \in Node \ touched : Suits(n, qdisc[n], W)
  BY <1>1, <1>2 DEF FileHolds, Suits, Joinable, hostVars
<1>4. PICK T : T = touched
  OBVIOUS
<1>5. \A n \in NodesUp \ T : \A m \in NodesUp \ {n} : LinkFaults[n][m] \in W[{n, m}]
  BY <1>3, <1>4, SuitableFaults
<1>6. Wish' = W
  BY <1>2, NextRestingWish DEF Filed, AsBoard
<1> QED BY <1>4, <1>5, <1>6 DEF Board!Followed, Board!Suits

\* A node command and what it leads to: the nodes stay, or one goes down.
LEMMA LeavingBoard ==
  ASSUME CarefulUse, TypeInv, FileInv, NEW p \in Proc,
         \/ \E n \in Node, action \in NodeActions : NodeCommand(p, n, action)
         \/ DropHelper(p)
  PROVE  [Board!Next]_(Board!vars)
<1>1. /\ NodesOnlyLeave /\ HelpersInPlace' /\ Addressed' /\ HelpersInPlace /\ Addressed
      /\ \/ NodesStay /\ touched' = touched
         \/ \E n \in Node : NodeLeaves(n) /\ touched' = touched \cup {n}
      /\ UNCHANGED <<shellVars, file>>
      /\ \A s \in Shell : shellAt[s] # "awake"
      /\ \A q \in Proc : at[q] \in {"idle", "drop"} /\ at'[q] \in {"idle", "drop"}
  BY NodesLeave DEF TypeInv, FileInv
<1>2. Resting /\ Resting'
  BY <1>1 DEF Resting, shellVars
<1>3. UNCHANGED <<Wish, Calm>>
  BY <1>1, <1>2, RestingWish, NextRestingWish DEF AsBoard
<1>4. CASE NodesStay /\ touched' = touched
  BY <1>1, <1>3, <1>4, StayingFaults DEF Board!vars
<1>5. ASSUME NEW n \in Node, NodeLeaves(n), touched' = touched \cup {n}
      PROVE  Board!Down(n)
  BY <1>1, <1>3, <1>5, LeavingFaults DEF Board!Down
<1> QED BY <1>1, <1>4, <1>5 DEF Board!Next

\* What users type: somebody sets about a clear, or a node goes down.
LEMMA CommandBoard ==
  ASSUME CarefulUse, TypeInv, FileInv, NEW p \in Proc, Command(p)
  PROVE  [Board!Next]_(Board!vars)
<1> USE CliAssumption DEF TypeInv, TypeOK, FileInv, CarefulUse
<1>1. Resting
  BY DEF Command, LinkStart, ClearStart, NodeCommand, MayStart, Quiet, Resting
<1>2. Calm /\ Wish = AsBoard(file)
  BY <1>1, RestingWish
<1>3. ASSUME NEW k \in Pair, NEW f \in Profile, NEW ttl \in WithTTL,
             LinkStart(p, k, f, ttl)
      PROVE  UNCHANGED Board!vars
  <2>1. UNCHANGED <<hostVars, file, touched>> /\ Resting'
    BY <1>1, <1>3 DEF LinkStart, Resting, shellVars
  <2>2. Calm' /\ Wish' = Wish
    BY <1>2, <2>1, NextRestingWish DEF AsBoard
  <2> QED BY <1>2, <2>1, <2>2, StillFaults DEF Board!vars, hostVars
<1>4. CASE ClearStart(p)
  <2>1. /\ UNCHANGED <<hostVars, touched>>
        /\ Clearing' /\ \A q \in Proc : at'[q] \notin {"reconcile", "save"}
    BY <1>1, <1>4 DEF ClearStart, Clearing, Resting
  <2>2. ~Calm' /\ Wish' = AsBoard(NoLinks)
    BY <2>1, NextClearersWish
  <2>3. Board!Ask
    BY <1>2, <2>1, <2>2, StillFaults, AsBoardType, NoLinksType DEF Board!Ask, hostVars
  <2> QED BY <2>3 DEF Board!Next
<1>5. CASE \E n \in Node, action \in NodeActions : NodeCommand(p, n, action)
  BY <1>5, LeavingBoard
<1> QED BY <1>3, <1>4, <1>5 DEF Command

\* A shaping that is replaced by a suitable one, or dropped.
LEMMA ReplacedBoard ==
  ASSUME HostTypeOK, Addressed, NEW n \in Node, Joinable(n), NEW s \in Shaping,
         qdisc' = [qdisc EXCEPT ![n] = s], UNCHANGED <<nstate, addr>>,
         Suits(n, s, Wish) \/ (n \in touched /\ s = Unshaped),
         ~Calm, ~Calm', UNCHANGED <<Wish, touched>>
  PROVE  Board!Shape(n)
<1>1. PICK W : W = Wish
  OBVIOUS
<1>2. PICK T : T = touched
  OBVIOUS
<1>3. Suits(n, s, W) \/ (n \in T /\ s = Unshaped)
  BY <1>1, <1>2
<1>4. /\ n \in NodesUp /\ NodesUp' = NodesUp
      /\ \E r \in [Node \ {n} -> Fault] :
           /\ \/ \A m \in NodesUp \ {n} : r[m] \in W[{n, m}]
              \/ n \in T /\ r = [m \in Node \ {n} |-> NoFault]
           /\ LinkFaults' = [LinkFaults EXCEPT ![n] = r]
  BY <1>3, ReplacedFaults
<1>5. PICK r \in [Node \ {n} -> Fault] :
        /\ \/ \A m \in NodesUp \ {n} : r[m] \in W[{n, m}]
           \/ n \in T /\ r = [m \in Node \ {n} |-> NoFault]
        /\ LinkFaults' = [LinkFaults EXCEPT ![n] = r]
  BY <1>4
<1>6. Board!Suits(n, r, Wish) \/ (n \in touched /\ r = Board!Bare(n))
  BY <1>1, <1>2, <1>5 DEF Board!Bare, Board!Suits
<1> QED BY <1>4, <1>5, <1>6, StillCalm DEF Board!Shape, Board!Row

\* The engine of a command, while it runs, works towards what the nodes are
\* brought to.
LEMMA EngineWish ==
  ASSUME CarefulUse, TypeInv, FileInv, NEW p \in Proc, EngineRuns(p)
  PROVE  /\ ~Calm /\ ~Calm' /\ Wish' = Wish
         /\ InOrder(p) /\ Reconciling(p, Wish, touched)
         /\ call[p] = "cwork" => \A k \in Pair : NoFault \in Wish[k]
         /\ InFlight = {}
<1> USE CliAssumption DEF TypeInv, TypeOK, FileInv
<1>1. /\ UNCHANGED <<at, draft, shellAt, file>>
      /\ call[p] # "idle" /\ InOrder(p) /\ Towards(p)
  BY EngineConfined DEF EngineRuns, cmdVars, shellVars, OnTheWay
<1>2. at[p] \in {"reconcile", "clear"}
  BY <1>1, IdleCalls
<1>3. /\ \A q \in Proc \ {p} : at[q] = "idle"
      /\ \A s \in Shell : shellAt[s] # "awake"
  BY <1>2 DEF Alone, ShellsAlone
<1>4. InFlight = {}
  BY <1>2, <1>3 DEF InFlight, OnePurpose, ShellsAlone
<1>5. CASE at[p] = "reconcile"
  <2>1. /\ ~Calm /\ Wish = AsBoard(draft[p])
        /\ ~Calm' /\ Wish' = AsBoard(draft[p])'
    BY <1>1, <1>5, BuildersWish, NextBuildersWish DEF Alone
  <2>2. Wish' = Wish /\ Drafted(p) = Wish
    BY <1>1, <2>1 DEF AsBoard, Drafted
  <2>3. call[p] # "cwork"
    BY <1>5 DEF OnePurpose
  <2>4. Reconciling(p, Wish, touched)
    BY <1>1, <2>2 DEF Towards
  <2> QED BY <1>1, <1>4, <2>1, <2>2, <2>3, <2>4
<1>6. CASE at[p] = "clear"
  <2>1. Clearing /\ \A q \in Proc : at[q] \notin {"reconcile", "save"}
    BY <1>3, <1>6 DEF Clearing
  <2>2. Clearing' /\ \A q \in Proc : at'[q] \notin {"reconcile", "save"}
    BY <1>1, <1>3, <1>6 DEF Clearing
  <2>3. ~Calm /\ ~Calm' /\ Wish = AsBoard(NoLinks) /\ Wish' = Wish
    BY <2>1, <2>2, ClearersWish, NextClearersWish
  <2>4. call[p] \notin {"list", "inspect", "helpers", "work"}
    BY <1>6 DEF Rebuilding, ReconcileCalls
  <2>5. Reconciling(p, Wish, touched)
    BY <1>1, <2>4 DEF Towards, Reconciling
  <2>6. \A k \in Pair : NoFault \in Wish[k]
    BY <2>3 DEF AsBoard, NoLinks
  <2> QED BY <1>1, <1>4, <2>3, <2>5, <2>6
<1> QED BY <1>2, <1>5, <1>6

\* The nodes are listed, a shaping is replaced, or something is missed.
LEMMA EngineBoard ==
  ASSUME CarefulUse, BandsSuffice, TypeInv, FileInv, NEW p \in Proc, EngineRuns(p)
  PROVE  [Board!Next]_(Board!vars)
<1> USE DEF TypeInv, FileInv
<1>1. ~Calm /\ ~Calm' /\ Wish' = Wish
  BY EngineWish
<1>2. touched \subseteq Node /\ HostTypeOK /\ EngineTypeOK
  BY DEF TypeOK
<1>3. CASE Listing(p) /\ touched' = InFlight
  <2>1. UNCHANGED <<nstate, addr, qdisc>>
    BY <1>3 DEF Listing, ListNodes, ClearList, hostVars
  <2>2. touched' = {}
    BY <1>3, EngineWish
  <2>3. Board!Survey
    BY <1>1, <2>1, <2>2, StillFaults, StillCalm DEF Board!Survey
  <2> QED BY <2>3 DEF Board!Next
<1>4. ASSUME UNCHANGED <<nstate, addr, qdisc>>, touched \subseteq touched',
             touched' \subseteq Node, Failures # {}
      PROVE  Board!Miss
  BY <1>1, <1>4, StillFaults, StillCalm DEF Board!Miss
<1>5. CASE ListingFails(p) /\ touched' = Node
  <2>1. UNCHANGED <<nstate, addr, qdisc>> /\ Failures # {}
    BY <1>5 DEF ListingFails, ListFails, InspectFails, HelpersFail, PlanFrom, ClearListFails, hostVars
  <2>2. Board!Miss
    BY <1>2, <1>4, <1>5, <2>1
  <2> QED BY <2>2 DEF Board!Next
<1>6. CASE CallerRuns(p) /\ UNCHANGED touched
  <2>1. UNCHANGED <<nstate, addr, qdisc>>
    BY <1>6 DEF CallerRuns, InspectIPs, PlanFrom, StartWorkers, ClearHelpers, hostVars
  <2> QED BY <1>1, <1>6, <2>1, StillFaults, StillCalm DEF Board!vars
<1>7. PICK W : W = Wish
  OBVIOUS
<1>8. PICK T : T = touched
  OBVIOUS
<1>9. ASSUME NEW n \in Node, WorkerRuns(p, n) \/ WorkerFails(p, n)
      PROVE  /\ UNCHANGED <<nstate, addr>>
             /\ WorkerFails(p, n) => UNCHANGED qdisc
             /\ \/ UNCHANGED qdisc
                \/ \E s \in Shaping :
                     /\ Joinable(n) /\ qdisc' = [qdisc EXCEPT ![n] = s]
                     /\ Suits(n, s, Wish) \/ (n \in touched /\ s = Unshaped)
  <2>1. /\ InOrder(p) /\ Reconciling(p, W, T) /\ DeleteWorks
        /\ call[p] = "cwork" => \A k \in Pair : NoFault \in W[k]
    BY <1>7, <1>8, EngineWish DEF CarefulUse
  <2>2. /\ UNCHANGED <<nstate, addr>>
        /\ WorkerFails(p, n) => UNCHANGED qdisc
        /\ \/ UNCHANGED qdisc
           \/ \E s \in Shaping :
                /\ Joinable(n) /\ qdisc' = [qdisc EXCEPT ![n] = s]
                /\ Suits(n, s, W) \/ (n \in T /\ s = Unshaped)
    BY <1>2, <1>9, <2>1, WorkerReplaces
  <2> QED BY <1>7, <1>8, <2>2
<1>10. ASSUME NEW n \in Node, WorkerRuns(p, n), UNCHANGED touched
      PROVE  [Board!Next]_(Board!vars)
  <2>1. CASE UNCHANGED qdisc
    BY <1>1, <1>9, <1>10, <2>1, StillFaults, StillCalm DEF Board!vars
  <2>2. ASSUME NEW s \in Shaping, Joinable(n), qdisc' = [qdisc EXCEPT ![n] = s],
               Suits(n, s, Wish) \/ (n \in touched /\ s = Unshaped)
        PROVE  Board!Shape(n)
    BY <1>1, <1>2, <1>9, <1>10, <2>2, ReplacedBoard
  <2> QED BY <1>9, <1>10, <2>1, <2>2 DEF Board!Next
<1>11. ASSUME NEW n \in Node, WorkerFails(p, n), touched' = touched \cup {n}
       PROVE  Board!Miss
  <2>1. Failures # {}
    BY <1>11 DEF WorkerFails, CreateHelperFails, ShapeFails, DeleteFails
  <2> QED BY <1>2, <1>4, <1>9, <1>11, <2>1
<1> QED BY <1>3, <1>5, <1>6, <1>10, <1>11 DEF EngineRuns, Board!Next

\* A command that goes about it, then is done or gives up.
LEMMA AdvanceBoard ==
  ASSUME CarefulUse, BandsSuffice, TypeInv, FileInv, TypeInv', FileInv',
         NEW p \in Proc, Advance(p)
  PROVE  [Board!Next]_(Board!vars)
<1> USE CliAssumption DEF TypeInv, TypeOK, FileInv
<1>1. ASSUME at[p] # "idle"
      PROVE  /\ \A q \in Proc \ {p} : at[q] = "idle"
             /\ \A s \in Shell : shellAt[s] # "awake"
  BY <1>1 DEF Alone, ShellsAlone
<1>2. ASSUME ~Calm, Resting', UNCHANGED <<hostVars, touched>>,
             \A q \in Proc : at'[q] # "load",
             Wish' # Wish => touched = Node
      PROVE  Board!Settle
  <2>1. Calm' /\ Wish' = AsBoard(file)'
    BY <1>2, NextRestingWish
  <2>2. Wish' \in Board!Boards
    <3>1. AsBoard(file)' = AsBoard(file') /\ file' \in LinkSet
      BY DEF AsBoard
    <3> QED BY <2>1, <3>1, AsBoardType
  <2>3. Board!Followed(Wish')
    BY <1>2, FileIsFollowed
  <2> QED BY <1>2, <2>1, <2>2, <2>3, StillFaults DEF Board!Settle, hostVars
<1>3. CASE Load(p)
  <2>1. PICK ls \in Readable(p) :
          draft' = [draft EXCEPT ![p] = Upsert(ls, asked[p].pair, asked[p].fault)]
    BY <1>3 DEF Load
  <2>2. /\ at[p] = "load" /\ at'[p] = "reconcile"
        /\ UNCHANGED <<hostVars, touched>>
    BY <1>3 DEF Load
  <2>3. Resting
    BY <1>1, <2>2 DEF Resting
  <2>4. ~Calm' /\ Wish' = AsBoard(draft'[p])
    BY <2>2, NextBuildersWish DEF AsBoard
  <2>5. Board!Ask
    BY <2>2, <2>3, <2>4, RestingWish, StillFaults, AsBoardType DEF Board!Ask, hostVars
  <2> QED BY <2>5 DEF Board!Next
<1>4. CASE ReconcileReturn(p)
  <2>1. /\ call[p] \in {"work", "rfailed"} /\ UNCHANGED <<hostVars, shellVars, file, touched>>
        /\ \A q \in Proc \ {p} : at'[q] = at[q]
    BY <1>4 DEF ReconcileReturn, ReconcileEnd, Returns
  <2>2. at[p] = "reconcile"
    BY <2>1 DEF Rebuilding, ReconcileCalls
  <2>3. ~Calm /\ Wish = AsBoard(draft[p])
    BY <2>2, BuildersWish
  <2>4. CASE call[p] = "work"
    <3>1. at'[p] = "save" /\ draft' = draft
      BY <1>4, <2>4 DEF ReconcileReturn
    <3>2. ~Calm' /\ Wish' = Wish
      BY <2>3, <3>1, NextBuildersWish DEF AsBoard
    <3> QED BY <2>1, <2>3, <3>2, StillFaults, StillCalm DEF Board!vars, hostVars
  <2>5. CASE call[p] = "rfailed"
    <3>1. at'[p] = "idle"
      BY <1>4, <2>5 DEF ReconcileReturn, Returns
    <3>2. Resting' /\ \A q \in Proc : at'[q] # "load"
      BY <1>1, <2>1, <2>2, <3>1 DEF Resting, shellVars
    <3>3. touched = Node
      BY <2>5 DEF OnTheWay, Towards, Reconciling
    <3> QED BY <1>2, <2>1, <2>3, <3>2, <3>3 DEF Board!Next
  <2> QED BY <2>1, <2>4, <2>5
<1>5. CASE Save(p)
  <2>1. /\ at[p] = "save" /\ at'[p] \in {"arm", "idle"} /\ file' = draft[p]
        /\ UNCHANGED <<hostVars, shellVars, touched>>
        /\ \A q \in Proc \ {p} : at'[q] = at[q]
    BY <1>5 DEF Save, Returns
  <2>2. Resting' /\ \A q \in Proc : at'[q] # "load"
    BY <1>1, <2>1 DEF Resting, shellVars
  <2>3. ~Calm /\ Wish = AsBoard(draft[p])
    BY <2>1, BuildersWish
  <2>4. Wish' = AsBoard(file)'
    BY <2>2, NextRestingWish
  <2>5. AsBoard(file)' = AsBoard(draft[p])
    BY <2>1 DEF AsBoard
  <2>6. Board!Settle
    BY <1>2, <2>1, <2>2, <2>3, <2>4, <2>5
  <2> QED BY <2>6 DEF Board!Next
<1>6. CASE Arm(p)
  <2>1. /\ at[p] = "arm" /\ at'[p] = "idle" /\ UNCHANGED <<hostVars, file, touched>>
        /\ \A q \in Proc \ {p} : at'[q] = at[q]
        /\ \A s \in Shell : shellAt'[s] = "awake" => shellAt[s] = "awake"
    BY <1>6 DEF Arm, Returns
  <2>2. Resting /\ Resting'
    BY <1>1, <2>1 DEF Resting
  <2>3. UNCHANGED <<Wish, Calm>>
    BY <2>1, <2>2, RestingWish, NextRestingWish DEF AsBoard
  <2> QED BY <2>1, <2>3, StillFaults DEF Board!vars, hostVars
<1>7. CASE ClearReturn(p)
  <2>1. /\ call[p] \in {"cleared", "cfailed"} /\ at'[p] = "idle"
        /\ file' = IF call[p] = "cleared" THEN NoLinks ELSE file
        /\ UNCHANGED <<hostVars, shellVars, touched>>
        /\ \A q \in Proc \ {p} : at'[q] = at[q]
    BY <1>7 DEF ClearReturn, ClearEnd, Returns
  <2>2. at[p] = "clear"
    BY <2>1 DEF OnePurpose
  <2>3. Resting' /\ \A q \in Proc : at'[q] # "load"
    BY <1>1, <2>1, <2>2 DEF Resting, shellVars
  <2>4. ~Calm /\ Wish = AsBoard(NoLinks)
    BY <1>1, <2>2, ClearersWish DEF Clearing
  <2>5. call[p] = "cfailed" => touched = Node
    BY DEF OnTheWay, Towards, Reconciling
  <2>6. call[p] = "cleared" => Wish' = Wish
    BY <2>1, <2>3, <2>4, NextRestingWish DEF AsBoard
  <2> QED BY <1>2, <2>1, <2>3, <2>4, <2>5, <2>6 DEF Board!Next
<1>8. CASE EngineRuns(p)
  BY <1>8, EngineBoard
<1>9. CASE DropHelper(p)
  BY <1>9, LeavingBoard
<1> QED BY <1>3, <1>4, <1>5, <1>6, <1>7, <1>8, <1>9 DEF Advance

\* A command that is interrupted abandons the board.
LEMMA InterruptBoard ==
  ASSUME CarefulUse, TypeInv, FileInv, TypeInv', NEW p \in Proc, Interrupt(p)
  PROVE  Board!Abandon
<1> USE DEF TypeInv, TypeOK, FileInv
<1>1. /\ Interrupts /\ at[p] # "idle" /\ at'[p] = "idle" /\ touched' = Node
      /\ UNCHANGED <<hostVars, shellVars>>
      /\ \A q \in Proc \ {p} : at'[q] = at[q]
  BY DEF Interrupt, Returns
<1>2. Resting'
  BY <1>1 DEF Resting, Alone, ShellsAlone, shellVars
<1>3. Calm' /\ Wish' = AsBoard(file')
  BY <1>2, NextRestingWish DEF AsBoard
<1>4. Wish' \in Board!Boards
  BY <1>3, AsBoardType
<1> QED BY <1>1, <1>3, <1>4, StillFaults DEF Board!Abandon, hostVars

\* A dead-man shell wakes, unshapes the nodes one by one, and is done.
LEMMA ShellBoard ==
  ASSUME CarefulUse, TypeInv, FileInv, TypeInv', FileInv', NEW s \in Shell, ShellRuns(s)
  PROVE  [Board!Next]_(Board!vars)
<1> USE CliAssumption DEF TypeInv, TypeOK, FileInv, CarefulUse
<1>1. CASE ShellWakes(s)
  <2>1. /\ Quiet /\ shellAt'[s] = "awake" /\ UNCHANGED <<hostVars, at, touched>>
    BY <1>1 DEF ShellWakes, cmdVars
  <2>2. Resting
    BY <2>1 DEF Resting, Quiet
  <2>3. ~Calm' /\ Wish' = AsBoard(NoLinks)
    BY <2>1, NextClearersWish DEF Clearing, Quiet
  <2>4. Board!Ask
    BY <2>1, <2>2, <2>3, RestingWish, StillFaults, AsBoardType, NoLinksType
       DEF Board!Ask, hostVars
  <2> QED BY <2>4 DEF Board!Next
<1>2. ASSUME shellAt[s] = "awake"
      PROVE  /\ \A q \in Proc : at[q] = "idle"
             /\ ~Calm /\ Wish = AsBoard(NoLinks)
  <2>1. \A q \in Proc : at[q] = "idle"
    BY <1>2 DEF ShellsAlone
  <2> QED BY <1>2, <2>1, ClearersWish DEF Clearing
<1>3. ASSUME shellAt[s] = "awake", UNCHANGED <<at, shellAt>>
      PROVE  ~Calm' /\ Wish' = Wish
  BY <1>2, <1>3, NextClearersWish DEF Clearing
<1>4. ASSUME NEW n \in Node, ShellDeletes(s, n)
      PROVE  [Board!Next]_(Board!vars)
  <2>1. /\ shellAt[s] = "awake" /\ UNCHANGED <<at, shellAt, nstate, addr, touched>>
        /\ qdisc' = [qdisc EXCEPT ![n] = Unshaped]
    BY <1>4 DEF ShellDeletes, ThrowawayClear, DeleteWorks, cmdVars
  <2>2. ~Calm /\ ~Calm' /\ Wish' = Wish /\ Wish = AsBoard(NoLinks)
    BY <1>2, <1>3, <2>1
  <2>3. CASE Joinable(n)
    <3>1. Suits(n, Unshaped, Wish)
      BY <2>2, TwoNodesArePair DEF Suits, Unshaped, Addressed, AsBoard, NoLinks
    <3>2. Board!Shape(n)
      BY <2>1, <2>2, <2>3, <3>1, UnshapedType, ReplacedBoard
    <3> QED BY <3>2 DEF Board!Next
  <2>4. CASE ~Joinable(n)
    <3>1. qdisc' = qdisc
      BY <2>1, <2>4 DEF HelpersInPlace, HostTypeOK
    <3> QED BY <2>1, <2>2, <3>1, StillFaults, StillCalm DEF Board!vars
  <2> QED BY <2>3, <2>4
<1>5. CASE DropHelper(s)
  <2>1. /\ shellAt[s] = "awake"
        /\ UNCHANGED <<at, shellAt, nstate, addr, qdisc, touched>>
    BY <1>5 DEF DropHelper, ShellsAlone, shellVars
  <2> QED BY <1>2, <1>3, <2>1, StillFaults, StillCalm DEF Board!vars
<1>6. CASE ShellEnds(s)
  <2>1. /\ shellAt[s] = "awake" /\ shellAt' = [shellAt EXCEPT ![s] = "free"]
        /\ file' = NoLinks /\ UNCHANGED <<hostVars, at, touched>>
    BY <1>6 DEF ShellEnds, cmdVars
  <2>2. Resting' /\ \A q \in Proc : at'[q] # "load"
    BY <1>2, <2>1 DEF Resting, ShellsAlone
  <2>3. Calm' /\ Wish' = AsBoard(NoLinks)
    BY <2>1, <2>2, NextRestingWish DEF AsBoard
  <2>4. Board!Followed(Wish')
    BY <2>1, <2>2, FileIsFollowed
  <2>5. Board!Settle
    BY <1>2, <2>1, <2>3, <2>4, StillFaults, AsBoardType, NoLinksType
       DEF Board!Settle, hostVars
  <2> QED BY <2>5 DEF Board!Next
<1> QED BY <1>1, <1>4, <1>5, <1>6 DEF ShellRuns

\* The commands, one at a time, keep the namespace to the state file: nodes are
\* reshaped only while a command or an awake shell works on them, each in one
\* step and only to what the command will save or, on a clear, to nothing, and
\* a command that is done leaves every node nothing was missed of following the
\* file, whatever fails, is interrupted, or is killed in between.
THEOREM CommandsKeepTheBoard ==
  ASSUME CarefulUse, BandsSuffice
  PROVE  Spec => KeepsBoard
<1>1. Init /\ TypeInv /\ FileInv => Board!Init
  <2> SUFFICES ASSUME Init, FileInv
               PROVE  Board!Init
    OBVIOUS
  <2>1. Resting
    BY DEF Init, Resting
  <2>2. Calm /\ Wish = AsBoard(file)
    BY <2>1, RestingWish
  <2>3. AsBoard(file) = [k \in Board!Pair |-> {NoFault}]
    BY DEF Init, AsBoard, NoLinks, Board!Pair, Pair
  <2>4. NodesUp = Node
    BY DEF Init, HostInit, NodesUp, Joinable
  <2>5. \A a \in Node : \A b \in Node : FaultTowards(a, b) = NoFault
    BY DEF Init, HostInit, FileInv, Addressed, FaultTowards, Unshaped
  <2>6. LinkFaults = [n \in Node |-> Board!Bare(n)]
    BY <2>5 DEF LinkFaults, Board!Bare
  <2> QED BY <2>2, <2>3, <2>4, <2>6 DEF Init, Board!Init
<1>2. TypeInv /\ FileInv /\ TypeInv' /\ FileInv' /\ [Next]_vars
        => [Board!Next]_(Board!vars)
  <2> SUFFICES ASSUME TypeInv, FileInv, TypeInv', FileInv', [Next]_vars
               PROVE  [Board!Next]_(Board!vars)
    OBVIOUS
  <2>1. CASE Next
    BY <2>1, CommandBoard, AdvanceBoard, InterruptBoard, ShellBoard DEF Next, Board!Next
  <2>2. CASE UNCHANGED vars
    <3>1. UNCHANGED <<hostVars, at, draft, shellAt, file, touched>>
      BY <2>2 DEF vars, cmdVars, shellVars
    <3>2. UNCHANGED <<Wish, Calm>>
      BY <3>1 DEF Wish, Calm, AsBoard, Builders, Clearing
    <3> QED BY <3>1, <3>2, StillFaults DEF Board!vars, hostVars
  <2> QED BY <2>1, <2>2
<1> QED BY <1>1, <1>2, TypeInvariant, FileInvariant, PTL DEF Spec, KeepsBoard, Board!Spec

==============================================================================
