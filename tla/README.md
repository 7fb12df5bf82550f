# A TLA+ verification of anydbver

anydbver deploys database topologies into docker containers of a *namespace*
(a docker network) and can then disturb them: its chaos feature degrades links,
pauses and kills nodes, and promises to clean up after itself. This directory
holds TLA+ modules that model the program, TLC configurations that check them
on small instances, and theorems checked by TLAPS.

1. [The system](#1-the-system)
2. [Plan](#2-plan)
3. [The modules and the code](#3-the-modules-and-the-code)
4. [What is checked](#4-what-is-checked)
5. [Bounds and fairness](#5-bounds-and-fairness)
6. [What is proved](#6-what-is-proved)
7. [Where the code and its documentation part](#7-where-the-code-and-its-documentation-part)
8. [What is not modelled](#8-what-is-not-modelled)

`tlc -config <run>.cfg <MC module>.tla` repeats a run (`PROJECT.json` names its
module), `tlapm <module>.tla` a proof. `PROJECT.json` lists the runs, the mutations of the model each property
must notice, the source lines of every definition, and the hazards the
properties aim at.

## 1. The system

| component | source | state it keeps | operations | talks to |
|---|---|---|---|---|
| chaos engine | `cmd/anydbver/chaos.go` | none of its own: locals of a reconcile or clear; the result is `tc` state and helper containers in docker | `chaosReconcileLinks`, `chaosClearAll`, `chaosNodeAction`, `chaosMeasure`, `chaosStatus` | docker and `tc`, through the command runner; one goroutine per node |
| chaos dashboard | `cmd/anydbver/chaos_web.go` | `chaosServer`: links, flaps, flux ticker, monkey, dead-man timer, one mutex | HTTP handlers for links, nodes, flux, flaps, monkey, clear; flap, flux and monkey goroutines; dead-man function; shutdown goroutine | the engine, with the mutex held, except node lifecycle commands |
| chaos CLI | `chaos.go`, `anydbver.go` 3036-3132 | a JSON state file per namespace; detached dead-man shells | `link`, `partition`, `pause`/`unpause`/`kill`/`start`, `clear`, `status`, `measure`, `ui` | the engine; the file system; other CLI processes and the dashboard only through docker and the file |
| namespace lifecycle | `anydbver.go` 65-190, 418-585, 737-815 | containers, network, inventory, k3d clusters | create, deploy, destroy | docker; must undo what chaos did (unpause, helpers, state file) |
| deployment planning | `anydbver.go` 995-1265, 1389-1560, 1933-2475 | none: command line to node definitions, versions, inventory lines, links between nodes | parse, validate, order, resolve, run the playbook | version database, ansible |
| command runner | `pkg/runtools/runner.go` | per call: process, pipe readers, waiter, timer, heartbeat | `RunFatal`, `RunPipe`, `RunGetOutput` | every other component runs commands through it |
| version database | `pkg/common/profile.go`, `pkg/version_fetch`, `versions.go` | an SQLite file in the cache directory | download, create and populate, update, query, select a version | HTTP, deployment planning |
| version ordering | `versions.go`, `anydbver.go` 995-1080 | none | `versionLess`, `cleanVersion`, `majorOf`, `latestPerMajor` | planning, version listing |
| scrapers | `pkg/rpmpackages`, `pkg/debianpackages` | none | parse repository indexes | version database |
| direct docker deployments | `pkg/unmodified_docker` | none (containers, retries) | one `docker run` each; Coroot polls and registers targets | docker, HTTP |
| image cache | `pkg/common/images.go`, `anydbver.go` 586-735 | docker images named by a hash | build or reuse | docker |
| roles, tools, image builds | `roles`, `tools`, `images-build`, `Docker` | inside the containers | ansible and shell | - |

Where the difficulty is, and what correctness means:

* **Engine.** A rebuild is a sequence of docker commands: list the nodes,
  inspect their addresses, list the helper containers, then in parallel per
  node make sure of the helper and run one `tc` batch in it. Anything may
  change between two of them, and each may fail. Correct means: what two nodes
  do to each other's traffic is what was asked for, in both directions; a node
  that the rebuild skips ("no helper") carries no shaping; no helper stays
  behind in a network namespace that no longer exists; a node with more peers
  than `tc` bands keeps as many as fit.
* **Dashboard.** Six kinds of goroutines share one mutex, and the engine is
  called with it held, which may take seconds. Goroutines that wait for the
  mutex meanwhile carry decisions taken before: a tick, an expired timer, a
  phase of a flap that has been replaced. Correct means: a superseded goroutine
  does no harm, every fault is watched by the dead-man timer, the timer fires
  only when nobody touched anything, Ctrl-C leaves nothing behind, the monkey
  never takes the last node and revives what it took.
* **CLI.** Processes that load, modify, apply and save one file without a lock,
  and shells that wake up minutes later. Correct means: the file and the
  shaping agree when all processes have returned, no link is lost, and a
  dead-man clears what it was armed for.
* **Namespace lifecycle.** Destroying a namespace whose containers are paused,
  hang on a dead NFS mount, or are being disturbed by a dashboard. Correct
  means: nothing is left that a later deployment of the same name would inherit.
* **Command runner.** A process, two readers, a waiter and a timer. Correct
  means: a call returns once, with the whole output when the command succeeded,
  soon after the timeout otherwise, and leaks nothing.
* **Version database.** A file whose existence is all that is checked, made from
  a dump that is executed statement by statement, removed and filled by commands
  nobody keeps apart. Correct means: `update` repairs whatever was left behind, a
  fetch loses nothing, what is listed can be deployed, and the newest is what an
  unpinned keyword gets - although four pieces of code order versions, each in
  its own way.
* **Planning and deployment.** A command line becomes nodes, systems, inventory
  lines and coroot targets; validation and use read the same tables by different
  queries. Correct means: a refused line costs nothing, the nodes are those
  asked for, every accepted option and every reference to a node arrives, and
  a deploy on top of a broken one works.
* **Coroot.** An agent that sees only what runs when it starts, a server that
  discovers late or never. Correct means: every wait ends, the agent sees every
  node, a monitored database is linked.

## 2. Plan

Modules, in the order they were written:

1. `ChaosHost` (docker, network namespaces, `tc`), `ChaosEngine` (reconcile and
   clear for any number of front ends), `ChaosDashboard` (the server), with
   `MCChaosDashboard`, `ChaosEngineProofs`, `ChaosDashboardProofs`, `ChaosBoardProofs`.
2. `ChaosCLI` EXTENDS `ChaosEngine`: CLI processes as members of `Proc`, the
   state file, load - reconcile - save - arm, detached dead-man shells, with
   `MCChaosCLI`, `ChaosCLIProofs`; `LinkBoard`, what both front ends promise,
   which each of them implements (`Board`, an INSTANCE).
3. `CommandCall`, what every component expects of a command it runs, and
   `RunCommand`, the runner, which implements it (`Promise`, an INSTANCE), with
   `MCRunCommand`, `RunCommandProofs`.
4. `NamespaceLifecycle`: create, deploy, destroy of one namespace next to chaos,
   with `MCNamespace`, `NamespaceProofs`.
5. `Versions`, the pure part (orders, listing, availability, the roles' query),
   and `VersionDB` EXTENDS `Versions`, the file and the processes that make,
   refresh and read it, with `MCVersions`, `VersionProofs`.
6. `DeployPlan`, the pure part of a deploy; `CorootSetup` EXTENDS `DeployPlan`,
   the last step of it; `Deployment` EXTENDS `CorootSetup`, the whole command,
   with `MCDeployment`, `DeploymentProofs`.

None of them declares a RECURSIVE operator; the pure parts use folds.

## 3. The modules and the code

**`ChaosHost`** is the docker host as `chaos.go` drives it. It is external to the
repository and says only what the engine relies on. Per node: `nstate` (docker's
state), `addr` (the address in `docker inspect`), `helper` (the container
`chaos-helper-<node>`) and `qdisc` (the shaping of `eth0`, as the profile applied
per peer address). `Docker(n, action)` is a successful `docker pause|unpause|
kill|stop|start`, `Refused` a failing one. Killing or stopping a node destroys
its network namespace: shaping and address go, and a helper that was attached
turns `stale` (it keeps running in a namespace nobody else uses); starting one
gives it any free address. A `tc` batch is atomic (section 8). A netem profile is a model
value; 100% loss is `Partition`.

**`ChaosEngine`** is `chaosReconcileLinks` and `chaosClearAll`. A front end `p` in
`Proc` has at most one of them in progress; `call[p]` is the next docker command
of the calling goroutine and `work[p][n]` that of node n's goroutine:

| `call` / `work` | code |
|---|---|
| `list`, `inspect` | `chaosListNodes`, `chaosInspectIPs` |
| `helpers` | `chaosExistingHelpers`; then the per-node decision, `FirstStep` |
| `work` | the goroutines run; `wg.Wait` is `ReconcileEnd` |
| `ensure`, `create`, `exec` | `chaosShapeContainer`: `chaosEnsureHelper`, then `chaosSh` |
| `check`, `execDel`, `runDel` | `chaosClearContainer` = `chaosTc`: helper running?, `docker exec` or a throwaway `docker run` |
| `clist`, `cwork`, `cleared` | `chaosClearAll`: list, goroutines, `chaosRemoveHelpers` |
| `rfailed`, `cfailed` | `docker ps` failed, the error is returned |

Locals are `desired` (the links passed in), `seen` (listed states) and `plan`
(`perContainer`), each forgotten when the code no longer reads it. `Fitting` keeps any `MaxPeers`
peers of a node that has more: the order of the list is the iteration order of a Go map.
`Failures` names the docker calls that may fail; a failed listing of the helpers (`HelpersFail`) is taken for there being none.

**`ChaosDashboard`** is `chaosServer`. The mutex is free exactly when `call[UI]`
is `idle`: a critical section without an engine call is one action, one with an
engine call begins the call and ends with `ReconcileReturn` (which re-arms the
timer, as `reconcile` does) or `ClearReturn`. Actions carry the names of the
handlers. Node commands do not take the mutex, and neither do the monkey's:
`docker kill` and the removal of the helper are two steps, with `pending` between
them. `DeadmanFire` starts the timer's function, `DeadmanRun` is the function
once it has the mutex; `FluxTick` and `FluxRun`, the waiting of a flap loop and
its `SetPhase` are split the same way. `Signal` to `Exit` is the shutdown
goroutine with `stopAll`'s three critical sections; `Crash` loses the process at
any point, `Restart` starts a new one on the host as it is. `touched` is a
history variable: the nodes whose shaping may differ from the board because of
a lifecycle command or a docker failure since the engine last listed the nodes.

**`ChaosCLI`** is the `anydbver chaos` command line. Each command is a process
`p` in `Proc`, whose place in the code is `at[p]`:

| `at` | code |
|---|---|
| `load` | `chaosDegradeLink` has resolved its nodes; next is `chaosLoadState` (`Load`) |
| `reconcile` | inside `chaosReconcileLinks` (`EngineRuns`, `ReconcileReturn`) |
| `save`, `arm` | `chaosSaveState`, `chaosScheduleDeadMan` |
| `clear` | inside `chaosClearAll`, which ends with the removal of the file |
| `drop` | `chaosNodeAction` between the docker command and the removal of the helper |

`file` is the state file of the namespace (`NoLinks` when there is none, or when
it cannot be parsed, as while another process writes it), `draft[p]` the links a
command has merged and will save. A detached shell sleeps, is awake with the
nodes `todo`, and ends with `rm -f`; it shares no lock with anybody. `Interrupt`
ends a process at any point, its docker state as it is. `touched` is a history
variable as in the dashboard's module. `partition` is `link` with the profile
`Partition`.

**`LinkBoard`** is what a user of chaos may rely on, whichever front end is used: a
`board`, the `shaping` each node applies to each other, who is `alive` and of whom
something may have been `missed`. Listings, plans, helpers, goroutines, the mutex and
the state file are gone. While somebody works on the shapings (`~calm`), each node goes from one
shaping to the next in one step (`Shape`), and only to what the board says towards every
peer that is up, or to nothing if it was missed; the work ends (`Settle`) with the
board followed (`Followed`), and a board changed without work (`Restate`) must be followed already.

| `LinkBoard` | in `ChaosDashboard` | in `ChaosCLI` |
|---|---|---|
| `board` | the links, or for a flapped pair its link and `Partition` | the draft of the command in its rebuild or save; nothing during a clear; else the file |
| `shaping`, `alive` | `LinkFaults`, `NodesUp`: what a node does to the traffic to a peer, the nodes that can be joined | the same |
| `missed` | `touched` | `touched` |
| `calm` | the mutex is free | no command before its save is done, no clear, no shell awake |
| `kept` | the dashboard serves | always |
| `Ask` | `Reconcile`, `ClearBegin`: the mutex is taken for a rebuild | a link command goes from its load to its rebuild; a clear begins or a shell wakes |
| `Survey`, `Shape`, `Miss` | `ListNodes`; `ExecShape`, `ExecDelete`, `RunDelete`; the failures | the same |
| `Settle` | `ReconcileReturn`, `ClearReturn` | `Save`, a rebuild that could list nothing, `ClearReturn`, the shell's end |
| `Restate` | a flap begins; `StopFlaps` | - |
| `Down` | kill and stop | kill |
| `Leave`, `Abandon`, `Resume` | `Signal`; `Exit`, `Crash`; `Restart` | -; `Interrupt`; - |

What is left of the code stutters. A board of several faults per pair (a flapped link
may be whole or cut) is why a flap may begin without a rebuild.

**`CommandCall`** and **`RunCommand`**. `CommandCall` has the two things a caller
can observe, what became of the command and what the call returned, and allows
each verdict only in the states it is true of. `RunCommand` is one call of
`RunFatal`, `RunGetOutput` or `RunPipe` (`api`). `at` is the caller (`select` is the
select between the timer and `done`, `drain` and `drainLate` the two `wg.Wait`s),
`proc` the command, `held` a child that inherited its output, `pipe`, `hand`,
`snap` and `text` the way of a line from the pipe to `full_output` or to the
buffer. `Load` and `Store` are the two halves of the unsynchronised append, and a
`Load` beside another `Store` may see a string of which only one word is new (`Torn`).
`WaitPipes` closes RunPipe's pipes when the command has ended, read or not, as
the documentation of `os/exec` warns; `WaitBuffered` waits for the copying goroutine.
`proc = "killed"` refines to a running command: the kill is sent, the command
has not ended yet.

**`NamespaceLifecycle`** is one namespace of nodes with a container (`box`), an NFS
`mount` and a chaos `helper` each, its network, its inventory and its chaos state
file. One anydbver process at a time is at `at`:

| `at` | code |
|---|---|
| `k3d`, `list`, `unmount`, `unpause`, `helpers`, `rm` | `deleteNamespace` up to the bulk removal |
| `left`, `stop`, `rmleft` | `removeStubbornContainers` |
| `netrm`, `files`, `state` | the network, `os.Remove` of the inventory and of the chaos state |
| `clusters`, `network`, `create` | `createK3dCluster`, `createNamespace`, `createContainer` |
| `hosts`, `playbook` | `deployHost`, `runPlaybook` |

`RemoveFails`, `ReuseFails`, `RunFails` are the ends `RunFatal` makes of a docker
failure its `ignoreMsg` does not match; `TimesOut` is the timeout `RunFatal` returns
from as if nothing had happened, `CreationTimesOut` that of the network, a start or a run, after which the node
is missing; `Aborts` any other failure, or a kill. What
`docker rm -f` cannot remove (`Removable`) is what the comments of the code report.
`clean` and `orphan` are history variables.

**`Versions`** writes a version as the sequence of its symbols, because the code
reads it as numbers between dots in one place and as text in the next; the symbols
are ordered as their character codes are. `RoleOrder` is the `ORDER BY` of the
query of `roles/postgresql/vars/main.yml` (the other roles' are alike), with what
SQLite makes of `INSTR` and `CAST` when there are fewer dots than expected.

**`VersionDB`** is the file (there or not, its tables, its rows) and the processes
that use it. The root command's `PersistentPreRun` runs before every command
(`stat`, `download`, `populate`, `commit`, `late`, `version`); then comes the command
(`run`): a reader, `update`, which removes the file and makes it again, or
`update PROGRAM`, which writes row by row. The dump is one transaction followed
by statements of their own, as `anydbver_version.sql` is. A process whose file is
removed keeps writing to the removed one (`orphan`).

**`DeployPlan`** has the functions of `anydbver.go` under their names. A command
line is a sequence of items; `Plan` is the first loop of `deployHosts`, with the
string of systems as a sequence of entries and `SetLastOs` its regular expression,
oddities included; `ExecuteQueries` turns a keyword into inventory arguments,
`ResolveAll` is the substitution loop of `deployHost`.

**`CorootSetup`** is `SetupCoroot`: `agent`, `api`, `look`, `instrument`,
`scrape` and `relink` are its stages per server. `targets` is the set of places, in the
list of all databases, of those still to be looked for; the next is the least. `coroot` is the external side: which containers
the agent `saw` when it started, which database connections it `linked`, which
applications coroot has `known`, been `told` of and `scraped`.

**`Deployment`** is the command: `start` (validate, `Refuse` or `Wipe`), `clusters`,
`create`, `hosts` (one node after the other, and on a node of images one docker
command after the other), then the playbook and `SetupCoroot`. `Again` deploys once more on
what a first deploy, however it ended, left behind; `RemoveNode` loses a node in between.

**`ChaosEngineProofs`** holds the lemmas about the engine both front ends'
proofs use: types, what keeps a worker's steps in order (`InOrder`), and what a
reconcile has achieved in each of its call states (`Reconciling`), also next to a node
that goes down (`NodeLeaves`). **`ChaosDashboardProofs`** and **`ChaosBoardProofs`** are about the dashboard,
on any host and on one whose containers are not started again; **`ChaosCLIProofs`** is about the command line.

**`RunCommandProofs`** holds the theorems about one call of the runner and the
refinement of `CommandCall`, **`NamespaceProofs`**, **`VersionProofs`** and
**`DeploymentProofs`** those about the module in their name. Section 6 gives their arguments.

**`MCChaosDashboard`** and **`MCChaosCLI`** add the symmetry of nodes, addresses
and, for the CLI, processes and shells; **`MCVersions`** and **`MCDeployment`** hold
tables, dumps and command lines in the shapes of the repository's own
(`anydbver_version.sql`, `tests/`, `instructions.md`). Operators whose
comment begins "The variant" are faults planted in the model for the mutants and
are used nowhere else.

## 4. What is checked

| run | instance | properties | shows |
|---|---|---|---|
| `links` | 3 nodes, 2 bands, kills by a request, all failures, crash and restart | `KeepsBoard` | The dashboard implements `LinkBoard`: whatever is killed or fails in the middle of a rebuild, nothing but the board is ever installed, nothing changes while nobody works, and with the mutex free the board is followed in both directions; a failed `docker ps` (of the nodes or of the helpers), `inspect`, `run` or batch disturbs only the nodes it hit, and the next listing repairs them. |
| `flaps` | 2 nodes, 2 flap loops, flux, timer, Ctrl-C | `FlapPhaseFollowsOwner`, `FaultsMatchBoard`, `ExitLeavesNoFault`, `FaultsAreWatched`, `KeepsBoard` | Replaced loops that still wait for the mutex do nothing; a flap overlays the baseline and gives it back, and what it does between two rebuilds is within the board; with the mutex free, what two nodes do to each other is what the board says; Ctrl-C leaves nothing shaped although ticks and phases were waiting; every shaped node is watched by the timer. |
| `live` | 2 nodes, a pausing monkey, timer, Ctrl-C, fair | `ShapedThroughHelper`, `MonkeyRevives`, `DeadmanClears` | The invariant that lets a rebuild skip nodes; the monkey always revives its victim; once requests cease, the timer leaves the namespace unshaped for good, paused nodes included. |
| `lifecycle` | 2 nodes, 3 addresses, kill and start by a request and a killing monkey, failing deletes | `TypeOK`, `StaleHelperIsDoomed` | A helper in a dead network namespace always has somebody about to remove it, whatever the rebuild running meanwhile does. |
| `cli` | 3 nodes, link, partition, pause, kill and clear, one command or shell at a time, interrupts, all failures but that of a delete, ttl or none | `FileMatchesShaping`, `LinksAccumulate`, `KeepsBoard` | Whenever nothing runs, what the nodes do to each other is what the file says, except on nodes an interrupt, a failure or a node command has touched since the last rebuild; the next complete command repairs these too. No link command forgets a link. The commands implement the same `LinkBoard` as the dashboard, with the file for a board. |
| `cli_ttl` | 2 nodes, 2 dead-man shells overlapping link, clear, kill and start, fair | `ForgottenFaultsClear` | When every link command has a ttl and nobody types any more, the shells leave nothing shaped and no file, whatever they overlapped with. |
| `command` | one call of each function, 2 lines, a pipe of 2, a child that holds the output, fair | `KeepsPromise`, `BufferedOutputIsWhole`, `PipeTextIsPrefix`, `PipeReturnIsFinal`, `GoroutinesEnd` | The runner implements `CommandCall`: it always returns, once, and never says of a command what is not so. A buffered call judges by all the command wrote; a piped text is a prefix of what one stream carried, and nothing of the command is printed after the call returned (a heartbeat's last line may be); the heartbeat ends on every way out. |
| `namespace` | an NFS server that is disturbed, its client, a k3d cluster; docker failures, timeouts and kills everywhere | `DestroyLeavesNothing`, `PlaybookReachesAll`, `DestroySucceeds`, `KeepSparesNodes`, `CommandsReturn` | However earlier commands ended, a destroy that nothing failed leaves no container, network, inventory, state or helper (but of a node it could not find), and reaches its end, also with mounted shares and paused nodes (but no paused NFS client, section 7); no playbook waits for a node that is gone; `--keep` spares what is there. |
| `versions` | 2 processes, old or no database, a dump with 3 late statements, an RPM and a Debian repository | `UpdateRepairs`, `FetchForgetsNothing`, `FetchedRowsAreComplete`, `ListedIsDeployable`, `TipDeploysNewest`, `UnpinnedDeploysNewest`, `NagsWhileOld` | `update` run alone repairs whatever kills, failures and races left behind; a fetch loses nothing. In every database reached, also half-made ones, what is listed passes the check and is found by the role, and the newest by the listing is the newest by the role. |
| `deploy` | 3 nodes, every line of up to 3 of 7 items and 16 others, rows with a `version_filter`, a second deploy of 4 | `RejectedSparesEnvironment`, `NodesMatchRequest`, `AcceptedOptionsReachTheHost`, `ReferencesResolved`, `NamesAreFree`, `CorootSeesEveryNode`, `MonitoredAreLinked`, `DeployEnds` | A refused line costs nothing; plain lines get the containers and systems they ask for; what validation lets through arrives at the host if a row of its option is for its value or version, references as addresses; a deploy interrupted anywhere never makes the next one fail on a name; coroot's agent is bounced late enough; every wait ends. |
| `exact_version` | violation of `ExactVersionIsExact` | | section 7 |
| `destroy_stubborn` | violation of `DestroySucceeds` | | section 7 |

`DestroySucceeds` in a passing and in a violation run draws the line between
what the code guarantees and what it does not: a deletion ends unless a container
cannot be killed. Likewise `ExitLeavesNoFault` holds as long as no request is
served after the signal (`LateRequests`), `DeadmanClears` as long as the process lives
(`Crashes`), `FileMatchesShaping` as long as no shell wakes inside a command (`Overlap`),
`ShapedThroughHelper` and `KeepsBoard` as long as no node that was killed is started again (`NodeActions`): the constants stand in the
configurations, and section 7 says what happens without them.

## 5. Bounds and fairness

* **Nodes.** Three in `links`, the smallest number with a node that has two
  peers and can reach the limit of its bands; two elsewhere, where one link
  suffices and time goes into the interleavings.
* **`MaxPeers`** is 2 in `links` in place of 15, so that the limit is met with
  equality. Beyond it the code drops peers, and neither `KeepsBoard` nor `FaultsMatchBoard` can hold.
* **Profiles.** `part` alone, or `degrade` and `part` where a flap's overlay must be
  told from the baseline under it.
* **Addresses.** One more than nodes in `lifecycle`, so that a restarted node may
  or may not get its old address back.
* **`FlapLoop`, `Monkey`, `Handler`** bound the goroutines of a kind that are
  alive at once, superseded ones included. Two loops: one that owns a flap and
  one it replaced.
* **`TTL`** is 0 (no timer, in `links` and `lifecycle`) or 1; time itself is not modelled: a timer may fire
  whenever it is armed. Flux intervals and flap phases likewise have any length.
* At most one fired dead-man function and one flux tick wait for the mutex.
* **`LateRequests`, `Crashes`, `Restarts`** switch those behaviours on where a
  run is about them.
* **CLI.** `Overlap` lets a command or a shell that wakes up run next to another.
  `cli` is about commands one after the other, so one process is enough; in
  `cli_ttl` one process overlaps with two shells. `Shell`
  bounds the shells alive at once: a link command with a ttl starts only when one will
  be left for it (`ShellLeft`). A ttl has any length. `cli` leaves out the failing delete: a helper
  is then removed from a node that stays shaped, and later rebuilds skip it (section 7).
* A `tc` batch, a `docker ps` and a `docker inspect` of all nodes are each one step.
* **Runner.** `MaxLines` = 2 lines and `PipeSize` = 2: two lines are the least that
  can race, be reordered, or be torn apart by a pipe that is closed between them.
  The timer may fire at any time, so it stands for every timeout.
* **Namespace.** One node of each kind that matters to the order of a deletion: a
  server, a client that mounts from it, a cluster. `Disturbed` is the server, whose
  pause or stop is what endangers the others. Commands are unbounded in number.
* **Versions.** Versions in the shapes of the repository's dump: 17.1 and 17.10
  (number against text), builds, a 9.6.2 (series of two numbers), operators without
  platform, a row behind the COMMIT. `Packaged` leaves out Hub sources (no
  table) and operators (no platform), whose listing the role's query never reads.
  Two processes; the state space is closed under any number of commands.
* **Deployment.** Three nodes, because a reference list needs two others; two
  deploys, because one state left behind is what the second meets. `Patience` = 1
  look before a deadline. The properties about requests (`NodesMatchRequest`,
  `NamesAreFree`) are about `Plain` lines, which name each node once and mix no image or
  cluster with another keyword of the same node; section 7 says what happens on others.

`CHECK_DEADLOCK FALSE` stands in the runs in which the dashboard, the CLI, the call
or the deploys may end for good; `links`, where the dashboard is restarted, checks for deadlock.

In the CLI, processes and shells are scheduled and their docker commands return
(weak fairness of `Advance` and `ShellRuns`); nobody has to type anything. In the
dashboard, fairness is used by `live`. Goroutines are scheduled and docker commands return, since
the command runner gives each a timeout (weak fairness of the engine, the
monkey, the returns); what waits for the mutex gets it sometimes when it is free
again and again (strong fairness; Go hands a mutex to a waiter that starved for
a millisecond); an armed timer fires unless it is re-armed first. Users owe
nothing, and neither do crashes, restarts and Ctrl-C.

In `RunCommand` goroutines run and the timer expires (weak fairness); the command
owes nothing but to die of a kill. The heartbeat's `select` between its ticker and
the closed channel takes the latter at last (strong fairness: Go chooses among
ready cases at random). In `NamespaceLifecycle` and `Deployment` the anydbver process
goes on (weak fairness of `Process`, of `Program`), because every command it
runs returns, which is what `KeepsPromise` shows of the runner; docker, coroot,
chaos and users owe nothing. `VersionDB` states no fairness and no liveness: commands end by themselves.

## 6. What is proved

For all nodes, addresses, profiles, bands, goroutines and failures, from
`HostAssumption`, `EngineAssumption` and `DashboardAssumption` (the constants
are what their comments say), in `ChaosDashboardProofs`:

* `TypeCorrect`: `Spec => []TypeOK`. `TypeOK` is not inductive: a monkey's strike
  on a victim that is no node would leave the helper of no node to be removed. `TypeInv` adds
  `VictimHeld`: a monkey about to strike or to recover holds a node.
* `FlapPhaseCorrect`: `Spec => []FlapPhaseFollowsOwner`, inductive given types.
  The argument: only the owner passes `OwnsFlap`, so only the owner moves the
  phase; a loop is given to a flap only when it is free, and a free loop owns nothing.
* `StaleHelpersRemoved`: without `Restarts`, `Spec => []StaleHelperIsDoomed`. A
  helper turns stale only in the command that makes its actor owe the removal.
  (A dashboard started after one that was killed between the two steps inherits
  a stale helper nobody owes: the assumption is needed.)

In `ChaosBoardProofs`, for `NeverStarted` (nodes are paused, unpaused, killed and stopped at
any moment, by requests and by a pausing monkey, but no container is started again; `tc qdisc del`
does not fail):

* `ShapedOnlyThroughHelper`: `Spec => []ShapedThroughHelper`. The invariant
  `HostInv` adds where helpers are (`HelpersInPlace`: that of a node that is up shares its network
  namespace, what is shaped has one, a node that is down is bare), that a helper is owed only for a node that is down
  (`QuietActors`), and what the engine's goroutines have achieved:
  a worker that creates a helper does so where none is; in a clear, a worker that
  is done leaves its node unshaped, so that when `RemoveHelpers` runs nothing is
  shaped (`InOrder`). `HelpersInPlace` alone is not inductive for that reason.
  (`live` checks the property where nodes are only paused; kills are covered by the theorem.)
* `BoardMatched`: if moreover one qdisc has bands for all of a node's peers
  (`BandsSuffice`: nodes are finitely many, at most `MaxPeers + 1`),
  `Spec => []FaultsMatchBoard`, with `docker ps`, `inspect`, `run` and batches that fail,
  crashes and restarts. `Reconciling` follows the faults from the board to the
  kernel: the link set asked for, then the plan of each node, then the goroutine that
  installs it (done, it has; about to run `tc`, it has a helper to run it in), for
  all nodes but those a failure has spoilt. `PlanSuits` is the step between: since
  addresses are distinct (`Addressed`), the plan by address is the board by peer, and
  leaves no peer out. A node that goes down in the middle of this is one the rebuild missed, and takes
  its address out of what its peers are held to (`LeavingKeepsCalls`). `BoardInv` adds that a clear has emptied the board and that a
  flap which begins or ends only widens what is wanted or rebuilds.
* `FaultsWatched`: if `docker ps` works (`ListWorks`), without `Restarts`,
  `Spec => []FaultsAreWatched`, with `Watched`:
  while anything is shaped the timer is armed, or has fired, or an engine call is under
  way that ends in arming it or in nothing shaped.
* `ExitIsClean`: if `docker ps` works, without `Crashes` and `LateRequests`,
  `Spec => []ExitLeavesNoFault`, with `Winding`: from the end of `stopAll` no flap is in force, from the clear
  on no link is, so whoever still waits for the mutex asks for nothing.

* `DashboardKeepsTheBoard`: if moreover `BandsSuffice`, `Spec => KeepsBoard`: the dashboard implements
  `LinkBoard` under the mapping of section 3. `HostInv` and `BoardInv` tell, of every step, which abstract one it is:
  a worker's `tc` batch replaces one node's shaping and by nothing but the board's (`WorkerReplaces`, from
  `PlanSuits`), a node that goes down takes its faults along (`LeavingFaults`), every other step leaves `LinkFaults` as they are (`StillFaults`),
  and with the mutex free the board is followed (`KeptIsFollowed`).

In `ChaosCLIProofs`, from `CliAssumption` besides:

* `TypeCorrect`: `Spec => []TypeOK` of the CLI. `TypeInv` adds `AskedForLink`:
  what a command is about to merge into the file is a fault on a link.
* `NoLinkLost`: if commands run one at a time (`OneCommand`; dead-man shells may
  run next to them), `Spec => LinksAccumulate`, with interrupts and any failures.
  `AccumulateInv` says why: commands are alone (`Alone`), a rebuild belongs to a
  link command (`Rebuilding`), so from its load to its save only somebody who
  forgets all links can write the file, and what it will save keeps every link of the
  file as it is now (`DraftKeeps`). Two commands that overlap do lose a link.
* `FileIsTruth`: for `CarefulUse` (nodes are paused, unpaused and killed but not started, commands and shells
  run one at a time, `tc qdisc del` does not fail) and `BandsSuffice`,
  `Spec => []FileMatchesShaping`, with interrupts between any two steps and every other
  failure. The same `Reconciling` takes a link command's draft to the kernel; `FileInv` adds
  that the shaping suits the draft until the draft is the file, that an awake shell
  is alone and has unshaped every node it no longer lists (`ShellsAlone`, `OnTheWay`), that a
  process is in the engine for one purpose (`OnePurpose`), and where helpers are.
* `CommandsKeepTheBoard`: under the same hypotheses, `Spec => KeepsBoard`: the commands implement the
  same `LinkBoard` as the dashboard. Whoever is at work determines the board (`BuildersWish`, `ClearersWish`,
  `RestingWish`); between a command's load and its save the draft is the board, so that
  writing the file changes nothing a user could tell (`EngineWish`, `FileIsFollowed`).

In `RunCommandProofs`, for any number of lines and any size of the pipes:

* `CallKeepsPromise`: `Spec` implies the safety part of `CommandCall` under the
  refinement mapping `Promise`. `CallInv` says that the command is started with
  the call (`StartedOnce`) and that the waiter reports, and RunPipe drains after, a command
  that has ended (`WaiterTellsTheTruth`); without it a verdict could come early.
* `PipeReturnCorrect`: `Spec => []PipeReturnIsFinal`. `ReaderInv` adds that what a
  reader holds are numbers of written lines (`LineNumbers`), so that a reader that gave
  up before the command ended met a long line (`GivesUpAtLongLine`).
* `BufferedOutputCorrect`: `Spec => []BufferedOutputIsWhole`. `BufferInv`: text,
  hand and pipe, one after the other, are the lines `1 .. Len(log)` (`InOrder`),
  and the waiter reports only once hand and pipe are empty (`CopyIsComplete`).
* `PipeTextCorrect`: `Spec => []PipeTextIsPrefix`. `PipeInv`: as long as one stream
  was used, the other one's reader is never between its load and its store
  (`OtherIsQuiet`), hence nothing is overwritten or torn, and what is on its way
  continues what was stored (`ComingInOrder`).

In `NamespaceProofs`, for any nodes, mounts and failures, from `NamespaceAssumption`.
`LifeInv` says of each stage of a command what has become true by then:

* `TypeCorrect`: `Spec => []TypeOK`.
* `DestroyIsComplete`: `Spec => []DestroyLeavesNothing`. In an undisturbed deletion the list
  is that of all containers until the bulk removal, nothing exists after it, and the
  network goes after the last container (`DeletionAdvances`); a helper whose node
  is gone is known to be one (`OrphansKnown`), which the property excepts.
* `PlaybookIsComplete`: `Spec => []PlaybookReachesAll`. The inventory grows from nothing, with one
  node of the command line after the other, all created before (`InventoryFresh`, `DeploymentAdvances`).
* `KeepIsSafe`: `Spec => KeepSparesNodes`, because `--keep` never enters the stages
  of a deletion (`KeepDeletesNothing`).
* `DestroyEnds`: `CanEnd /\ Spec => DestroySucceeds`. `CanEnd` says that no container is
  stubborn and that chaos leaves the clients of the share alone. The second half is needed:
  the unmount comes before the unpause, so a paused client would keep its mount (section 7).
  `MountsEnd` adds that only running clients mount, and that an undisturbed deletion
  reaches its removals with nothing mounted and nothing paused.

In `VersionProofs`, for any number of processes, any dump and any repositories, from
`VersionDBAssumption` (rows have the columns of their tables; no table for a source on
Docker Hub). `DBInv` follows each process through its statements:

* `TypeCorrect`: `Spec => []TypeOK`. It rests on lemmas about `Versions`: what cutting a version
  at a symbol (`BeforeType`) and grouping the packages of a repository (`SiteRowsType`) return.
* `UpdateIsComplete`: `Spec => []UpdateRepairs`. A process that is alone and got the dump has, at
  each late statement, exactly the transaction and the statements before (`AloneAdvances`).
* `FetchIsSafe`: `Spec => FetchForgetsNothing`: rows leave with the file, or for a row of their key.
* `FetchIsComplete`: `OneSitePerVersion /\ Spec => []FetchedRowsAreComplete`. The hypothesis is a
  fact about PostgreSQL's RPM repositories, one per major version; were the packages of one version spread
  over two, the later fetch would overwrite the row of the former.
* `NagsRight`: `OneRelease /\ ReleasesInOrder /\ Spec => []NagsWhileOld`. The dump names its release in one
  row, within its transaction (`anydbver_version.sql:3711`), and is as new as the program. `versionLess` is opaque here;
  that it orders releases as they appeared is left to the run. `MCVersions` assumes `OneSitePerVersion` and
  `OneRelease` of its dump, so TLC evaluates them.

In `DeploymentProofs`, for any command lines and keywords, any moment of failure and any coroot, from
`DeploymentAssumption`: what a command line makes of coroot's clients and servers are lists of nodes (a client
that names something else as its server is outside the model). `DeployAlways` is the inductive invariant:

* `RefusalIsFree`: `Spec => []RejectedSparesEnvironment`. Until the wipe nothing has changed
  since the deploy began (`Untouched`), whatever an earlier deploy left.
* `AgentsSeeAll`: `Spec => []CorootSeesEveryNode`. Every server of a round that has passed its
  agent's start sees all containers (`SeenInv`), and none comes or goes before the end.
* `MonitoringIsLinked`: `Spec => []MonitoredAreLinked`. A new coroot is told of nothing but its databases
  (`ToldInv`), so when there is one, what the cluster-agent has scraped is that one; the
  agent is started again after a scrape, or the server is late (`LinkedInv`). `PlaceSound` keeps
  `SetupCoroot` inside its lists; `RoundMoves` and `AgentMoves` say once what its dozen steps do.

Only model-checked:

* Liveness under fairness, which is out of the prover's reach, as is ENABLED: `DeadmanClears`,
  `MonkeyRevives`, `ForgottenFaultsClear`, `GoroutinesEnd`, `CommandsReturn`, `DeployEnds` and the
  liveness in `KeepsPromise`.
* What a fold, a sort or a selection over a command line or a list of versions computes for every
  input, which is induction over data: `NodesMatchRequest`, `AcceptedOptionsReachTheHost`, `ReferencesResolved`,
  `NamesAreFree` (about `Plain` lines, so about `Plan`), `ListedIsDeployable`, `TipDeploysNewest`, `UnpinnedDeploysNewest`.

## 7. Where the code and its documentation part

Two have a run:

* `exact_version`: `instructions.md:258` calls `ps:8.4.5` an exact version; the
  check and the roles look for `LIKE '8.4.5%'` and take the greatest, so `pg:17.1` is 17.10 or newer.
* `destroy_stubborn`: `removeStubbornContainers` is never reached when it is needed:
  the bulk `docker rm -f` that fails on the stubborn container ends the program.

More are known, and excluded from the properties by the constants or the
hypotheses named here. Chaos:

* `chaosNodeAction` removes the helper without the mutex. If a
  rebuild shapes the node between `docker start` and the removal, the node is
  shaped and has no helper, against the invariant quoted at `chaos.go:685`; the
  rebuilds that follow skip it when it has no link any more (`NodeActions`).
* `Timer.Stop` does not recall a function that already waits for
  the mutex (`chaos_web.go:121`). It clears the change that re-armed the timer.
* The dead-man timer lives in the process, although the flag's help (`anydbver.go:3092`)
  says it is for a dashboard that exits unexpectedly (`Crashes`).
* The listener is closed after the last clear; a request that
  waited for the mutex shapes behind it (`LateRequests`).
* A dead-man shell of an earlier command wakes while a later link command is
  between its rebuild and its save, clears the shaping and removes the file; the save brings
  the file back. Or it clears one node before, another after the rebuild (`Overlap`).
* A monkey switched off and on again runs next to the one it replaces: two loops
  strike on the strength of the same two running nodes, though the page says
  it can't take the whole cluster down (`chaos_ui.html:128`).
* Every flux tick re-arms the inactivity timer (`chaos_web.go:386`, 111); with an interval below
  the ttl, an operator who walks away leaves the faults for ever.
* Nobody waits for the monkey's recovery at exit: a node may stay paused.
* Two link commands that overlap both load the old file, and the one that saves
  last drops the other's link, although "separate invocations accumulate" (`chaos.go:728`).
* A `kill` or `start` that is interrupted before the removal leaves a helper in a dead
  network namespace; the next rebuild reuses it and shapes nothing, without an error.
* The addresses of a rebuild are read before its batches run: a node started in between may
  get the address another had, and the filter meant for that one (`NodeActions`).
* After kill and start a node comes back unshaped while its peers go on shaping
  towards it: a link is one-sided until the next change (`instructions.md:1150`
  calls it symmetric).
* A clear whose `tc qdisc del` failed removes the helper all the same
  (`chaos.go:776-779`, 955): the node stays shaped and is skipped from then on.

Runner:

* Two streams race for `full_output`: lines are lost or torn, and an error may be
  ignored or not by what is left of the text.
* `cmd.Wait` closes the pipes as soon as the command has ended; what the readers
  have not read is lost, a successful command's output included.
* A line of more than 64 KB ends its reader: the rest of that stream is never read.
* A `RunFatal` that times out returns 1 like an ignored failure, and no caller looks:
  a node that could not be created in time is missing from a deployment that goes on.
* A child that keeps the output open turns a success of a buffered call into a timeout.

Namespace:

* `deploy --keep` on a node chaos has paused runs `docker start`, which fails, and ends.
* The unmount comes before the unpause, so a paused client keeps its mount
  (`anydbver.go:487-492`); it is unpaused and then has a dead share to hang on.
* A helper that is started while `destroy` runs, or for a node of a k3d cluster, or whose listing
  failed, outlives its node and is not found again (`orphan`).
* The failure of `docker network rm`, and timeouts of `RunFatal`, are not looked at:
  a destroy may end well and leave containers or the network.

Versions:

* A first run without network, an error page instead of the dump, or a kill in
  between leave an empty or half-made database that every later command takes as it is;
  only `anydbver update` repairs it. The dump has statements behind its COMMIT.
* `update` removes the old database before it has the new one.
* Two first runs at once: the second fails on the tables of the first.
* The role's order ignores the build: of 8.0.4-1 and 8.0.4-2 it may take either.
* A Debian repository has one row per package, of which the last written remains.

Deployment:

* `re_lastosver` (`anydbver.go:2255`) rewrites what the last `=` begins: a second image or cluster
  keyword of a node, or `os:` after one, changes or drops the node before it.
* `k3d:...,expose=...` makes no cluster, the `expose` branch comes first (`anydbver.go:2286`).
* A node of images next to another keyword ends the program after the environment was wiped.
* A reference to an image node of a higher number is resolved before that node exists, to nothing.
* An option is accepted by its name alone (`anydbver.go:2158-2213`), but a row takes part only
  when the value or the version fits its `version_filter` (962). `role` of `psmdb` and `mongodb` has rows
  for `shard` and `cfg` only (`anydbver_version.sql:4183-4184`, 4193-4194), so `psmdb:role=mongos` is accepted and
  dropped in silence (and so is the `shardsrv` of `instructions.md:350`, read as a role; as an option of its own it is refused),
  although the known options are "the options that reach the deploy" (`anydbver.go:2141`) and the
  validation "fails fast on an option the deploy would drop" (2225). `AcceptedOptionsReachTheHost` asks that an option
  has a row and that the rows its value or version fits arrive; a value that fits none asks nothing.
* "Every deploy that adds nodes needs the agent bounced afterwards" (`coroot.go:161-163`), but only
  the servers that the command line names, as a node or of a client, are bounced: after
  `deploy --keep node2 pg` the agent of a coroot that is there does not see node2.
* Of two options that take the same inventory argument only the row of the higher order remains (`opts-file` and `galera`).
* `docker-image` for a keyword `CreateContainer` does not know makes no container, silently.
* The coroot server is created before its cluster-agent: a failure between the two leaves
  a node that `deploy --keep` reuses without one.
* `waitForClusterAgentScrape` is satisfied by the collection of any database in the last
  five minutes: of several databases, or with `--keep`, some may stay unlinked.
* A coroot that does not answer yet is skipped: `newCorootApi` does not retry.
* The result of `k3d cluster create` is dropped.

## 8. What is not modelled

* Reading operations (`chaosMeasure`, `chaosStatus`, the topology endpoint): they change nothing.
* netem parameters, their ranges and their re-rolling by flux: a profile is opaque, and a
  re-roll rebuilds the same profiles.
* HTTP and JSON, and validation of requests: a request is a valid one. That a node named in a
  link exists is not checked by the code and not needed by it; links are between existing nodes here.
* Node names and their resolution; several namespaces; a `docker ps` that prints a
  node in a state other than running, paused and exited.
* Two anydbver processes on one namespace at once (`NamespaceLifecycle`,
  `Deployment`); a namespace destroyed and deployed again under a dead-man shell.
* A `tc` batch that fails half-way. It is one `docker exec` of commands joined by `;`
  (`chaos.go:642-653`), which may leave the root qdisc without some of its filters; here a batch
  installs all or leaves what there was, and the node counts as missed until the next listing either way.
* What the arguments of a `docker run` are; exposed ports, memory and CPU limits; the
  key of the base image cache; Everest; `anydbver test`.
* Scrapers beyond the grouping of packages: they parse and change nothing.
* Ansible roles, shell tools, image builds, configuration templates and sample data:
  they run inside the containers, without control that a model of this kind would
  find anything out about. Of the roles, the query that picks a version is modelled.
