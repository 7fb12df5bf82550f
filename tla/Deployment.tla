----------------------------- MODULE Deployment -----------------------------
(***************************************************************************)
(* `anydbver deploy` from its command line to the end, of the deploy       *)
(* command and deployHosts in cmd/anydbver/anydbver.go: what is refused,   *)
(* the environment wiped or kept, the containers made, the inventory       *)
(* written, the playbook, and coroot told of the databases (CorootSetup).  *)
(*                                                                         *)
(* A deploy may fail at a docker command or be interrupted, and another    *)
(* one, with or without --keep, may follow.  NamespaceLifecycle has the    *)
(* details of the wipe and of the waiting for the playbook.                *)
(***************************************************************************)
EXTENDS CorootSetup

CONSTANTS
  CommandLines,  \* of the first deploy
  NextLines      \* of a second one

\* The clients of coroot name nodes as their servers.
ASSUME DeploymentAssumption ==
  \A line \in CommandLines \cup NextLines :
    LET targets == buildCorootTargets(Plan(line))
    IN  /\ targets \in Seq([node : Node, server : Node, type : Range(DbType)])
        /\ SetupServers(CorootServers(Plan(line)), targets) \in Seq(Node)

VARIABLES
  deploy,        \* [at, line, keep, first, plan, verdict, targets, servers,
                 \* todo, item, step, before]
  containers,    \* the node containers there are, with their systems; "image": not ours
  sidecars,      \* the coroot containers next to them, <<node, what>>
  clusters,      \* the k3d clusters
  inventory      \* the lines of the inventory file

world == <<containers, sidecars, clusters, inventory>>
vars == <<deploy, world, setup, coroot>>

There == DOMAIN containers
Sidecars == {"clickhouse", "prometheus", "cluster-agent"}

\* What CreateCorootContainer does, in order.
CorootSteps == <<"remove", "clickhouse", "prometheus", "server", "cluster-agent">>

NoContainers == [n \in {} |-> ""]

\* What a command line leads to needs nothing but the line.
Command(line, plan, keep, first) ==
  [at |-> "start", line |-> line, keep |-> keep, first |-> first, todo |-> {},
   plan |-> plan, verdict |-> Verdict(line), targets |-> buildCorootTargets(plan),
   servers |-> SetupServers(CorootServers(plan), buildCorootTargets(plan)),
   item |-> 1, step |-> 1,
   before |-> [containers |-> containers, sidecars |-> sidecars, clusters |-> clusters,
               inventory |-> inventory]]

Init ==
  /\ containers = NoContainers /\ sidecars = {} /\ clusters = {} /\ inventory = <<>>
  /\ \E line \in CommandLines, keep \in BOOLEAN : \E plan \in {Plan(line)} :
       deploy = Command(line, plan, keep, TRUE)
  /\ setup = NoSetup /\ coroot = [n \in Node |-> NoAgent]

Goto(at) == deploy' = [deploy EXCEPT !.at = at]

\* The variant that clears the way first.
RefuseAfterWipe ==
  /\ deploy.at = "start" /\ deploy.verdict # "deploy"
  /\ Goto("refused")
  /\ IF deploy.keep THEN UNCHANGED world
     ELSE containers' = NoContainers /\ sidecars' = {} /\ clusters' = {} /\ inventory' = <<>>
  /\ UNCHANGED <<setup, coroot>>

Refuse ==
  /\ deploy.at = "start" /\ deploy.verdict # "deploy"
  /\ Goto("refused")
  /\ UNCHANGED <<world, setup, coroot>>

\* The old environment goes, with --keep only its inventory.
Wipe ==
  /\ deploy.at = "start" /\ deploy.verdict = "deploy"
  /\ deploy' = [deploy EXCEPT !.at = "clusters", !.todo = deploy.plan.clusters]
  /\ inventory' = <<>>
  /\ IF deploy.keep THEN UNCHANGED <<containers, sidecars, clusters, coroot>>
     ELSE /\ containers' = NoContainers /\ sidecars' = {} /\ clusters' = {}
          /\ coroot' = [n \in Node |-> NoAgent]
  /\ UNCHANGED setup

\* createK3dCluster: that k3d failed is not looked at.
createK3dCluster ==
  /\ deploy.at = "clusters"
  /\ \E n \in deploy.todo :
       /\ deploy' = [deploy EXCEPT !.todo = @ \ {n}]
       /\ clusters' \in {clusters, clusters \cup {n}}
  /\ UNCHANGED <<containers, sidecars, inventory, setup, coroot>>

Planned ==
  /\ deploy.at = "clusters" /\ deploy.todo = {}
  /\ deploy' = [deploy EXCEPT !.at = "create", !.todo = DOMAIN Containers(deploy.plan)]
  /\ UNCHANGED <<world, setup, coroot>>

\* With --keep, a container that is there is started if need be and used.
Reused(n) == deploy.keep /\ n \in There

\* createNamespace makes the containers in no order; docker run refuses a name
\* that is taken.
createContainer ==
  /\ deploy.at = "create"
  /\ \E n \in deploy.todo :
       IF Reused(n) THEN deploy' = [deploy EXCEPT !.todo = @ \ {n}] /\ UNCHANGED containers
       ELSE IF n \in There THEN Goto("name taken") /\ UNCHANGED containers
       ELSE /\ deploy' = [deploy EXCEPT !.todo = @ \ {n}]
            /\ containers' = (n :> Containers(deploy.plan)[n]) @@ containers
  /\ UNCHANGED <<sidecars, clusters, inventory, setup, coroot>>

Created ==
  /\ deploy.at = "create" /\ deploy.todo = {}
  /\ deploy' = [deploy EXCEPT !.at = "hosts", !.todo = Range(Order(deploy.plan))]
  /\ UNCHANGED <<world, setup, coroot>>

Host == CHOOSE n \in deploy.todo : \A m \in deploy.todo : Number[n] <= Number[m]

AtHost(provider) ==
  /\ deploy.at = "hosts" /\ deploy.todo # {} /\ deploy.plan.provider[Host] = provider

NextHost == [deploy EXCEPT !.todo = @ \ {Host}, !.item = 1, !.step = 1]

\* deployHost of a node of ours adds its line to the inventory.
deployHost ==
  /\ AtHost("docker")
  /\ inventory' = Append(inventory, InventoryLine(deploy.plan, Host, There))
  /\ deploy' = NextHost
  /\ UNCHANGED <<containers, sidecars, clusters, setup, coroot>>

\* On a cluster it runs the operator tool, and nothing here changes.
runOperatorTool ==
  /\ AtHost("kubectl")
  /\ deploy' = NextHost
  /\ UNCHANGED <<world, setup, coroot>>

\* On a node of images it takes one item after the other, but the coroot-client.
Images == SelectSeq(deploy.plan.defs[Host],
                    LAMBDA item : ParseDeploymentKeyword(item).cmd # "coroot-client")
Image == ParseDeploymentKeyword(Images[deploy.item]).cmd
Fresh == deploy.item = 1 /\ deploy.step = 1
NextImage == IF deploy.item = Len(Images) THEN NextHost
             ELSE [deploy EXCEPT !.item = @ + 1, !.step = 1]

ReuseImage ==
  /\ AtHost("docker-image") /\ Fresh /\ Reused(Host)
  /\ deploy' = NextHost
  /\ UNCHANGED <<world, setup, coroot>>

AtImage == AtHost("docker-image") /\ ~(Fresh /\ Reused(Host))

\* Something else stands next to an image: the program ends here.
MixedUp ==
  /\ AtImage /\ ~IsImage(Images[deploy.item])
  /\ Goto("mixed")
  /\ UNCHANGED <<world, setup, coroot>>

\* A keyword without an image of its own makes no container.
CreateContainer ==
  /\ AtImage /\ IsImage(Images[deploy.item]) /\ Image # "coroot-server"
  /\ IF Image \notin Imaged THEN deploy' = NextImage /\ UNCHANGED containers
     ELSE IF Host \in There THEN Goto("name taken") /\ UNCHANGED containers
     ELSE deploy' = NextImage /\ containers' = (Host :> "image") @@ containers
  /\ UNCHANGED <<sidecars, clusters, inventory, setup, coroot>>

\* The variant that leaves a lost server's sidecars.
LeftBehindKept(n) == {}

\* The sidecars of a coroot that was there before.
LeftBehind(n) == {s \in sidecars : s[1] = n}

CreateCorootContainer ==
  /\ AtImage /\ IsImage(Images[deploy.item]) /\ Image = "coroot-server"
  /\ LET step == CorootSteps[deploy.step]
         taken == \/ step \in Sidecars /\ <<Host, step>> \in sidecars
                  \/ step = "server" /\ Host \in There
     IN  /\ deploy' = IF taken THEN [deploy EXCEPT !.at = "name taken"]
                      ELSE IF deploy.step < Len(CorootSteps) THEN [deploy EXCEPT !.step = @ + 1]
                      ELSE NextImage
         /\ sidecars' = CASE step = "remove" -> sidecars \ LeftBehind(Host)
                          [] step = "server" -> sidecars
                          [] OTHER -> sidecars \cup {<<Host, step>>}
         /\ containers' = IF step = "server" /\ ~taken THEN (Host :> "image") @@ containers
                          ELSE containers
         /\ coroot' = IF step = "remove" THEN [coroot EXCEPT ![Host] = NoAgent] ELSE coroot
  /\ UNCHANGED <<clusters, inventory, setup>>

\* SetupContainer prepares the databases of images; then the playbook runs, if
\* there is an inventory.
HostsDone == deploy.at = "hosts" /\ deploy.todo = {}

runPlaybook ==
  /\ HostsDone
  /\ Goto("coroot")
  /\ UNCHANGED <<world, setup, coroot>>

PlaybookFails ==
  /\ HostsDone /\ inventory # <<>>
  /\ Goto("failed")
  /\ UNCHANGED <<world, setup, coroot>>

BeginCoroot ==
  /\ deploy.at = "coroot"
  /\ SetupCoroot(deploy.servers, deploy.targets)
  /\ UNCHANGED <<deploy, world>>

Coroot ==
  /\ deploy.at = "coroot" /\ SetupStep(There)
  /\ UNCHANGED <<deploy, world>>

CorootFails ==
  /\ deploy.at = "coroot" /\ SetupFails
  /\ UNCHANGED <<deploy, world>>

Done ==
  /\ deploy.at = "coroot" /\ setup.at \in {"ended", "failed"}
  /\ Goto(IF setup.at = "ended" THEN "done" ELSE "failed")
  /\ UNCHANGED <<world, setup, coroot>>

Program ==
  \/ Refuse \/ Wipe \/ createK3dCluster \/ Planned \/ createContainer \/ Created
  \/ deployHost \/ runOperatorTool \/ ReuseImage \/ MixedUp \/ CreateContainer
  \/ CreateCorootContainer \/ runPlaybook \/ BeginCoroot \/ Coroot \/ Done

Ended == {"refused", "mixed", "name taken", "failed", "done"}

\* A docker command fails, or someone interrupts the program.
Break ==
  /\ deploy.at \in {"clusters", "create", "hosts"}
  /\ Goto("failed")
  /\ UNCHANGED <<world, setup, coroot>>

\* Someone deploys once more.
Again ==
  /\ deploy.at \in Ended /\ deploy.first
  /\ \E line \in NextLines \cup {deploy.line}, keep \in BOOLEAN : \E plan \in {Plan(line)} :
       deploy' = Command(line, plan, keep, FALSE)
  /\ setup' = NoSetup
  /\ UNCHANGED <<world, coroot>>

\* Someone removes a node: agents and scrapes lose the container of that name.
RemoveNode ==
  /\ deploy.at \in Ended \ {"refused"} /\ deploy.first
  /\ \E n \in There :
       /\ containers' = [m \in There \ {n} |-> containers[m]]
       /\ coroot' = [s \in Node |-> [coroot[s] EXCEPT !.saw = @ \ {n}, !.linked = @ \ {n},
                                                      !.scraped = @ \ {n}]]
  /\ UNCHANGED <<deploy, sidecars, clusters, inventory, setup>>

\* What coroot does between two deploys it may as well do in the second.
CorootWorks ==
  /\ deploy.at = "coroot"
  /\ Discover \/ Scrape
  /\ UNCHANGED <<deploy, world>>

Next ==
  \/ Program \/ PlaybookFails \/ CorootFails \/ Break \/ Again \/ RemoveNode
  \/ CorootWorks

Spec == Init /\ [][Next]_vars /\ WF_vars(Program)

-----------------------------------------------------------------------------
(* What a deploy promises. *)

\* A command line that is refused costs nothing of the environment there was: no
\* container, sidecar, cluster or inventory.  The deploy command validates "before
\* touching anything - in particular before the implicit destroy".
RejectedSparesEnvironment ==
  deploy.at = "refused" =>
    deploy.before = [containers |-> containers, sidecars |-> sidecars, clusters |-> clusters,
                     inventory |-> inventory]

\* The node an item stands behind, read off the command line.
Owner(line, i) ==
  LET seps == {j \in 1..i : IsNode(line[j])}
  IN  IF seps = {} THEN "node0" ELSE line[Max(seps)].word

Mine(line, n) == {i \in Keywords(line) : Owner(line, i) = n}
Requested(line) == {line[i].word : i \in {i \in DOMAIN line : IsNode(line[i])}}
                     \cup (IF line = <<>> \/ ~IsNode(line[1]) THEN {"node0"} ELSE {})

\* The keywords that take the container away, those of the first kind each time
\* they come, an operator only from a node that still has one.
Claims(item) == ParseDeploymentKeyword(item).cmd = "k3d" \/ IsKubectl(item)
Clustered(item) ==
  LET kw == ParseDeploymentKeyword(item)
  IN  /\ Claims(item) \/ kw.cmd \in Operators
      /\ ~IsImage(item) /\ ~Has(kw, "expose")

\* Lines that name each node once, and give a node without a container of ours
\* no system and one keyword that takes it away, before any operator.  On others
\* deployHosts rewrites the system of a neighbour.
Plain(line) ==
  /\ \A i, j \in DOMAIN line : IsNode(line[i]) /\ line[i] = line[j] => i = j
  /\ \A i \in DOMAIN line : line[i].word = "node0" => i = 1
  /\ \A n \in Requested(line) :
       LET items == {line[i] : i \in Mine(line, n)}
           images == {i \in Mine(line, n) : IsImage(line[i])}
           clustered == {i \in Mine(line, n) : Clustered(line[i])}
       IN  /\ images # {} => /\ Cardinality(images) = 1
                             /\ \A item \in items : ~Clustered(item) /\ item.word # "os"
           /\ \A i, j \in clustered : Claims(line[i]) => i <= j
           /\ clustered # {} => \A item \in items : item.word # "os"

Wanted(line, n) ==
  LET items == {line[i] : i \in Mine(line, n)}
      systems == {i \in Mine(line, n) : line[i].word = "os"}
  IN  IF \E item \in items : IsImage(item) THEN "image"
      ELSE IF \E item \in items : Clustered(item) THEN ""
      ELSE IF systems = {} THEN "el8" ELSE line[Max(systems)].version

\* When the hosts are done, the containers are those the command line asks for,
\* each with its system, and with --keep those there were besides.
NodesMatchRequest ==
  HostsDone /\ Plain(deploy.line) =>
    LET old == IF deploy.keep THEN deploy.before.containers ELSE NoContainers
        new == {n \in Requested(deploy.line) : Wanted(deploy.line, n) # ""}
    IN  containers = old @@ [n \in new |-> Wanted(deploy.line, n)]

Ours(line) == {i \in Keywords(line) : deploy.plan.provider[Owner(line, i)] = "docker"
                                       /\ ~IsImage(line[i])}

Entries(n) == UNION {inventory[k].args : k \in {k \in DOMAIN inventory : inventory[k].host = n}}

\* An option the validation let through arrives at its host: there is a row for
\* it, and each row that lets its value or the version through has put the value
\* given, or the default, in the inventory, unless a row that ranks as high takes
\* the same argument.  knownDeployOptions and ExecuteQueries read the same
\* tables, by different ways: a value that no row of its option names, such as
\* role=mongos, is accepted all the same and reaches nothing.
AcceptedOptionsReachTheHost ==
  HostsDone =>
    \A i \in Ours(deploy.line) :
      LET kw == ParseDeploymentKeyword(deploy.line[i])
          n == Owner(deploy.line, i)
          rows == {r \in ArgRows : r.cmd = kw.cmd /\ r.opt \in DOMAIN kw.args}
          passing == {r \in rows : r.values = {} \/ {kw.args[r.opt], kw.version} \cap r.values # {}}
          overruled(r) == \E q \in passing \ {r} : q.arg = r.arg /\ q.orderno >= r.orderno
          arrived(r) == \E e \in Entries(n) :
            /\ e.arg = r.arg
            /\ \/ kw.args[r.opt] \in Node \cup {"default"}
               \/ e.value = IF kw.args[r.opt] = "" THEN r.default ELSE kw.args[r.opt]
      IN  kw.cmd \in {r.cmd : r \in ArgRows} =>
            \A o \in DOMAIN kw.args \ {"expose"} :
              \/ o = "master" /\ kw.args[o] = n
              \/ /\ o \in {r.opt : r \in rows}
                 /\ \A r \in passing : r.opt = o /\ ~overruled(r) => arrived(r)

Addressable(m, n) == m \in There /\ (containers[m] # "image" \/ Number[m] < Number[n])

\* Every node named in a list of nodes or in an option is an address when the
\* playbook starts, if it names a node of ours or an image of a lower number.
ReferencesResolved ==
  HostsDone =>
    \A i \in Ours(deploy.line) :
      LET kw == ParseDeploymentKeyword(deploy.line[i])
          n == Owner(deploy.line, i)
          addresses == [k \in DOMAIN kw.refs |-> Ip[kw.refs[k]]]
      IN  /\ kw.refs # <<>> /\ (\A k \in DOMAIN kw.refs : Addressable(kw.refs[k], n)) =>
               \E e \in Entries(n) : e.refs = addresses
          /\ \A o \in DOMAIN kw.args :
               kw.args[o] \in Node \ {n} /\ Addressable(kw.args[o], n) =>
                 \A r \in ArgRows : r.cmd = kw.cmd /\ r.opt = o =>
                   \E e \in Entries(n) : e.arg = r.arg /\ e.value = Ip[kw.args[o]]

\* Docker never refuses a name because of what an earlier deploy, however it
\* ended, left behind: --keep reuses a container, and a coroot server is rebuilt
\* without the sidecars of the last one.
NamesAreFree ==
  deploy.at = "name taken" => ~Plain(deploy.line)

\* After a deploy whose line names a coroot server, as a node of its own or of a
\* client, its agent has scanned with every node running: "every deploy that adds
\* nodes needs the agent bounced afterwards".  One that names none bounces none.
CorootSeesEveryNode ==
  deploy.at = "done" => \A s \in Range(setup.servers) : There \subseteq coroot[s].saw

\* A database that a new coroot monitors alone, and reached before its deadline,
\* is linked to its client: the agent was started again once it was scraped.
MonitoredAreLinked ==
  deploy.at = "done" /\ ~deploy.keep =>
    \A m \in setup.monitored :
      m[1] \notin setup.late /\ Cardinality(Targets(m[1])) = 1 /\ m[2] \in There =>
        m[2] \in coroot[m[1]].linked

\* Every deploy comes to an end, whatever docker and coroot do: each wait has a
\* deadline.
DeployEnds == (deploy.at = "start") ~> (deploy.at \in Ended)
=============================================================================
