------------------------- MODULE NamespaceLifecycle -------------------------
(***************************************************************************)
(* Creating, deploying and destroying one namespace, cmd/anydbver/         *)
(* anydbver.go: one anydbver process after the other, each of which may    *)
(* fail or be killed at any docker command, and next to it the chaos       *)
(* feature, which pauses nodes, starts helpers and saves links.            *)
(*                                                                         *)
(* docker rm -f fails on a running container whose NFS server is gone and  *)
(* on a stubborn one (privileged, --pid host), as the comments of the code *)
(* report, and may fail on a paused one.                                   *)
(***************************************************************************)
EXTENDS Integers, FiniteSets

CONSTANTS
    Node,
    Server,     \* the node that exports an NFS share
    Client,     \* the nodes that mount it
    Cluster,    \* the nodes that are a k3d cluster
    Stubborn,   \* the nodes docker kill cannot end
    Disturbed,  \* the nodes chaos or their user touches
    Overlap,    \* chaos goes on while an anydbver process runs
    Failures    \* docker may fail for other reasons, or hang

ASSUME NamespaceAssumption ==
    /\ Server \in Node
    /\ Client \subseteq Node \ {Server}
    /\ Cluster \subseteq Node /\ Stubborn \subseteq Node /\ Disturbed \subseteq Node
    /\ Overlap \in BOOLEAN /\ Failures \in BOOLEAN

VARIABLES
    box,        \* the container of a node
    mount,      \* the nodes that have the share mounted
    helper,     \* the nodes that have a chaos helper
    net,        \* the network of the namespace exists
    inventory,  \* the nodes in the ansible inventory
    links,      \* the chaos state file exists
    at,         \* where the anydbver process is, "idle" when there is none
    cmd,        \* its command
    wanted,     \* the nodes its command line names
    todo,       \* the nodes its present step still has to treat
    listed,     \* the containers it found
    clean,      \* history: since it began nothing failed and nobody interfered
    orphan      \* history: the helpers a process missed or was too early for

docker == <<box, mount, helper, net>>
files == <<inventory, links>>
process == <<at, cmd, wanted, todo, listed>>
history == <<clean, orphan>>
vars == <<docker, files, process, history>>

Points == {"idle", "k3d", "list", "unmount", "unpause", "helpers", "rm", "left",
           "stop", "rmleft", "netrm", "files", "state", "gone", "clusters", "network", "create",
           "hosts", "playbook", "done", "aborted"}

TypeOK ==
    /\ box \in [Node -> {"none", "running", "paused", "exited"}]
    /\ {mount, helper, inventory, wanted, todo, listed, orphan} \subseteq SUBSET Node
    /\ {net, links, clean} \subseteq BOOLEAN
    /\ at \in Points
    /\ cmd \in {"destroy", "deploy", "keep", "create", "playbook"}

Init ==
    /\ box = [n \in Node |-> "none"] /\ mount = {} /\ helper = {} /\ net = FALSE
    /\ inventory = {} /\ links = FALSE
    /\ at = "idle" /\ cmd = "destroy" /\ wanted = {} /\ todo = {} /\ listed = {}
    /\ clean = TRUE /\ orphan = {}

Existing == {n \in Node : box[n] # "none"}
Alive == {n \in Node : box[n] \in {"running", "paused"}}
Ends == at' = "aborted" /\ todo' = {} /\ listed' = {} /\ UNCHANGED <<cmd, wanted>>

\* Containers that are removed take their mount along, but not their helper.
Remove(S) ==
    /\ box' = [n \in Node |-> IF n \in S THEN "none" ELSE box[n]]
    /\ mount' = mount \ S

Step(from, to) ==
    /\ at = from /\ at' = to
    /\ UNCHANGED <<cmd, wanted>>

-----------------------------------------------------------------------------
\* deleteNamespace.

\* k3d cluster delete, when there is a k3d and docker ps shows a cluster.
DeleteClusters ==
    /\ Step("k3d", "list")
    /\ Remove(Cluster)
    /\ orphan' = orphan \cup (helper \cap Cluster)
    /\ UNCHANGED <<helper, net, files, todo, listed, clean>>

\* Without k3d, or when docker ps fails, the cluster is left to docker rm.
NoClusters ==
    /\ Step("k3d", "list")
    /\ Failures /\ clean' = FALSE
    /\ UNCHANGED <<docker, files, todo, listed, orphan>>

ListBoxes ==
    /\ at = "list"
    /\ at' = IF Existing = {} THEN "netrm" ELSE "unmount"
    /\ listed' = Existing
    /\ UNCHANGED <<docker, files, cmd, wanted, todo, history>>

\* The errors of both are dropped.  docker exec works in running containers only.
BestEffort(S, done) ==
    /\ done \subseteq S /\ (done # S => Failures)
    /\ clean' = (clean /\ done = S)

\* The variant that leaves the mounts to docker rm.
UnmountSkipped ==
    /\ Step("unmount", "unpause")
    /\ UNCHANGED <<docker, files, todo, listed, history>>

Unmount ==
    /\ Step("unmount", "unpause")
    /\ \E done \in SUBSET listed :
         /\ BestEffort({n \in listed : box[n] = "running"}, done)
         /\ mount' = mount \ done
    /\ UNCHANGED <<box, helper, net, files, todo, listed, orphan>>

Unpause ==
    /\ Step("unpause", "helpers")
    /\ \E done \in SUBSET listed :
         /\ BestEffort({n \in listed : box[n] = "paused"}, done)
         /\ box' = [n \in Node |-> IF n \in done THEN "running" ELSE box[n]]
    /\ UNCHANGED <<mount, helper, net, files, todo, listed, orphan>>

\* The variant that lists running nodes only.
CleanupHelpersOfRunning ==
    /\ Step("helpers", "rm")
    /\ helper' = helper \ {n \in Node : box[n] = "running"}
    /\ todo' = listed
    /\ UNCHANGED <<box, mount, net, files, listed, history>>

\* chaosCleanupHelpers lists the nodes again, and gives up when that fails.
CleanupHelpers ==
    /\ Step("helpers", "rm")
    /\ \/ helper' = helper \ Existing /\ orphan' = orphan \ Existing /\ UNCHANGED clean
       \/ Failures /\ clean' = FALSE /\ orphan' = helper /\ UNCHANGED helper
    /\ todo' = listed
    /\ UNCHANGED <<box, mount, net, files, listed>>

Removable(n) ==
    \/ box[n] \in {"exited", "paused"}
    \/ box[n] = "running" /\ n \notin Stubborn /\ (n \in mount => box[Server] = "running")

\* docker rm -f removes what it can, in any order.
RemoveOne(n) ==
    /\ Step("rm", "rm")
    /\ n \in todo /\ Removable(n)
    /\ todo' = todo \ {n}
    /\ Remove({n})
    /\ UNCHANGED <<helper, net, files, listed, history>>

\* What is missing by now makes docker fail with a message RunFatal ignores.
BulkRemoved ==
    /\ Step("rm", "left")
    /\ todo \cap Existing # {} => todo \ Existing # {}
    /\ todo' = {}
    /\ UNCHANGED <<docker, files, listed, history>>

\* Any other failure is the end of the program.
RemoveFails ==
    /\ at = "rm" /\ Ends
    /\ todo # {} /\ todo \subseteq Existing
    /\ \A n \in todo : ~Removable(n) \/ box[n] = "paused"
    /\ UNCHANGED <<docker, files, history>>

\* removeStubbornContainers.
ListLeft ==
    /\ at = "left"
    /\ listed' = Existing
    /\ at' = IF Existing = {} THEN "netrm" ELSE "stop"
    /\ UNCHANGED <<docker, files, cmd, wanted, todo, history>>

ListLeftFails ==
    /\ Step("left", "netrm") /\ Failures /\ clean' = FALSE
    /\ UNCHANGED <<docker, files, todo, listed, orphan>>

StopLeft ==
    /\ Step("stop", "rmleft")
    /\ box' = [n \in Node |-> IF n \in listed /\ box[n] = "running" THEN "exited" ELSE box[n]]
    /\ mount' = mount \ {n \in listed : box[n] = "running"}
    /\ UNCHANGED <<helper, net, files, todo, listed, history>>

RemoveLeft ==
    /\ Step("rmleft", "netrm")
    /\ \A n \in listed \cap Existing : Removable(n)
    /\ Remove(listed)
    /\ UNCHANGED <<helper, net, files, todo, listed, history>>

RemoveLeftFails ==
    /\ at = "rmleft" /\ Ends
    /\ \E n \in listed \cap Existing : ~Removable(n) \/ box[n] = "paused"
    /\ UNCHANGED <<docker, files, history>>

\* A network with active endpoints stays, and nobody is told.
RemoveNetwork ==
    /\ Step("netrm", "files")
    /\ net' = (net /\ Alive # {})
    /\ listed' = {}
    /\ UNCHANGED <<box, mount, helper, files, todo, history>>

RemoveInventory ==
    /\ Step("files", "state")
    /\ inventory' = {}
    /\ UNCHANGED <<docker, links, todo, listed, history>>

RemoveState ==
    /\ Step("state", "gone")
    /\ links' = FALSE
    /\ UNCHANGED <<docker, inventory, todo, listed, history>>

\* destroy ends, deploy goes on.
Deleted ==
    /\ at = "gone"
    /\ at' = IF cmd = "destroy" THEN "done" ELSE "clusters"
    /\ UNCHANGED <<docker, files, cmd, wanted, todo, listed, history>>

-----------------------------------------------------------------------------
\* deployHosts: k3d clusters while the command line is read, then
\* createNamespace, then the hosts.

\* k3d creates the network if need be; what it returns is not looked at.
CreateClusters ==
    /\ Step("clusters", "network")
    /\ \E done \in SUBSET (wanted \cap Cluster) :
         /\ BestEffort(wanted \cap Cluster, done)
         /\ box' = [n \in Node |-> IF n \in done /\ box[n] = "none" THEN "running" ELSE box[n]]
         /\ net' = (net \/ done # {})
    /\ UNCHANGED <<mount, helper, files, todo, listed, orphan>>

CreateNetwork ==
    /\ Step("network", "create")
    /\ net' = (net \/ wanted \ Cluster # {})
    /\ todo' = wanted \ Cluster
    /\ UNCHANGED <<box, mount, helper, files, listed, history>>

\* deploy --keep uses the container that is there.
Reuses(n) == cmd = "keep" /\ box[n] # "none"

ReuseBox(n) ==
    /\ Step("create", "create")
    /\ n \in todo /\ Reuses(n) /\ box[n] # "paused"
    /\ box' = [box EXCEPT ![n] = "running"]
    /\ todo' = todo \ {n}
    /\ UNCHANGED <<mount, helper, net, files, listed, history>>

\* docker cannot start a paused container.
ReuseFails(n) ==
    /\ at = "create" /\ Ends
    /\ n \in todo /\ Reuses(n) /\ box[n] = "paused"
    /\ UNCHANGED <<docker, files, history>>

RunBox(n) ==
    /\ Step("create", "create")
    /\ n \in todo /\ box[n] = "none" /\ net
    /\ box' = [box EXCEPT ![n] = "running"]
    /\ todo' = todo \ {n}
    /\ UNCHANGED <<mount, helper, net, files, listed, history>>

\* docker run refuses a name that is taken, and a failed build ends the program.
RunFails(n) ==
    /\ at = "create" /\ Ends
    /\ n \in todo /\ ~Reuses(n) /\ (box[n] # "none" \/ ~net)
    /\ UNCHANGED <<docker, files, history>>

Created ==
    /\ at = "create" /\ todo = {}
    /\ at' = IF cmd = "create" THEN "done" ELSE "hosts"
    /\ todo' = IF cmd = "create" THEN {} ELSE wanted \ Cluster
    /\ UNCHANGED <<docker, files, cmd, wanted, listed, history>>

\* deployHost appends a line per node.
AppendInventory(n) ==
    /\ Step("hosts", "hosts")
    /\ n \in todo
    /\ inventory' = inventory \cup {n}
    /\ todo' = todo \ {n}
    /\ UNCHANGED <<docker, links, listed, history>>

HostsDone ==
    /\ at = "hosts" /\ todo = {}
    /\ at' = IF inventory = {} THEN "done" ELSE "playbook"
    /\ UNCHANGED <<docker, files, cmd, wanted, todo, listed, history>>

\* The playbook starts when it has reached every node of the inventory.
RunPlaybook ==
    /\ Step("playbook", "done")
    /\ \A n \in inventory : box[n] = "running"
    /\ mount' = mount \cup {n \in Client \cap inventory : box[Server] = "running"}
    /\ UNCHANGED <<box, helper, net, files, todo, listed, history>>

\* The variant without a timeout.
PlaybookWaits ==
    /\ at = "playbook" /\ \E n \in inventory : box[n] # "running"
    /\ UNCHANGED vars

\* Otherwise RunPipe ends it after 20 minutes.
PlaybookFails ==
    /\ at = "playbook" /\ Ends
    /\ \E n \in inventory : box[n] # "running"
    /\ UNCHANGED <<docker, files, history>>

-----------------------------------------------------------------------------
\* The process.

\* The variant whose --keep deploy appends to the inventory that is there.
BeginKeepingInventory(c, W) ==
    /\ at = "idle"
    /\ at' = CASE c \in {"destroy", "deploy"} -> "k3d"
               [] c = "keep" -> "clusters"
               [] c = "create" -> "network"
               [] c = "playbook" -> IF inventory = {} THEN "done" ELSE "playbook"
    /\ cmd' = c /\ wanted' = W
    /\ clean' = TRUE
    /\ UNCHANGED <<docker, files, todo, listed, orphan>>

\* The variant that deletes the namespace whatever the flag says.
BeginDeleting(c, W) ==
    /\ at = "idle"
    /\ at' = IF c \in {"destroy", "deploy", "keep"} THEN "k3d" ELSE "network"
    /\ cmd' = c /\ wanted' = W
    /\ clean' = TRUE
    /\ UNCHANGED <<docker, files, todo, listed, orphan>>

Begin(c, W) ==
    /\ at = "idle"
    /\ at' = CASE c \in {"destroy", "deploy"} -> "k3d"
               [] c = "keep" -> "clusters"
               [] c = "create" -> "network"
               [] c = "playbook" -> IF inventory = {} THEN "done" ELSE "playbook"
    /\ inventory' = IF c = "keep" THEN {} ELSE inventory
    /\ cmd' = c /\ wanted' = W
    /\ clean' = TRUE
    /\ UNCHANGED <<docker, links, todo, listed, orphan>>

\* A docker command fails and RunFatal, or logger.Fatalf, ends the process; or
\* somebody else does.
Aborts ==
    /\ at \notin {"idle", "done", "aborted"} /\ Failures
    /\ Ends /\ clean' = FALSE
    /\ UNCHANGED <<docker, files, orphan>>

\* RunFatal gives a command five minutes and goes on as if it had succeeded.
TimesOut ==
    /\ Failures
    /\ Step("rm", "left") \/ Step("stop", "rmleft") \/ Step("rmleft", "netrm")
       \/ Step("netrm", "files")
    /\ clean' = FALSE
    /\ todo' = {} /\ listed' = (IF at = "netrm" THEN {} ELSE listed)
    /\ UNCHANGED <<docker, files, orphan>>

\* So it does with docker network create, docker start and docker run.
CreationTimesOut ==
    /\ Failures
    /\ \/ Step("network", "create") /\ wanted \ Cluster # {} /\ todo' = wanted \ Cluster
       \/ /\ Step("create", "create")
          /\ \E n \in todo : ~(Reuses(n) /\ box[n] = "running") /\ todo' = todo \ {n}
    /\ clean' = FALSE
    /\ UNCHANGED <<docker, files, listed, orphan>>

Exits ==
    /\ at \in {"done", "aborted"}
    /\ at' = "idle" /\ cmd' = "destroy" /\ wanted' = {}
    /\ clean' = TRUE
    /\ UNCHANGED <<docker, files, todo, listed, orphan>>

Delete ==
    \/ DeleteClusters \/ NoClusters \/ ListBoxes \/ Unmount \/ Unpause \/ CleanupHelpers
    \/ (\E n \in Node : RemoveOne(n)) \/ BulkRemoved \/ RemoveFails
    \/ ListLeft \/ ListLeftFails \/ StopLeft \/ RemoveLeft \/ RemoveLeftFails
    \/ RemoveNetwork \/ RemoveInventory \/ RemoveState \/ Deleted

Create ==
    \/ CreateClusters \/ CreateNetwork
    \/ \E n \in Node : ReuseBox(n) \/ ReuseFails(n) \/ RunBox(n) \/ RunFails(n)
    \/ Created
    \/ (\E n \in Node : AppendInventory(n)) \/ HostsDone \/ RunPlaybook \/ PlaybookFails

-----------------------------------------------------------------------------
\* Chaos, and the user.

Interferes ==
    /\ at = "idle" \/ Overlap
    /\ clean' = (clean /\ at = "idle")
    /\ UNCHANGED <<files, process, orphan>>

ChaosPauses(n) ==
    /\ Interferes
    /\ box[n] = "running"
    /\ box' = [box EXCEPT ![n] = "paused"]
    /\ UNCHANGED <<mount, helper, net>>

UserStops(n) ==
    /\ Interferes
    /\ box[n] = "running" /\ box' = [box EXCEPT ![n] = "exited"]
    /\ mount' = mount \ {n}
    /\ UNCHANGED <<helper, net>>

\* A reconcile makes sure of the helper of a node it shapes.
ChaosShapes(n) ==
    /\ at = "idle" \/ Overlap
    /\ box[n] \in {"running", "paused"} /\ n \notin helper
    /\ helper' = helper \cup {n}
    /\ orphan' = IF at = "idle" THEN orphan \ {n} ELSE orphan \cup {n}
    /\ links' = TRUE
    /\ clean' = (clean /\ at = "idle")
    /\ UNCHANGED <<box, mount, net, inventory, process>>

Chaos == \E n \in Disturbed : ChaosPauses(n) \/ UserStops(n) \/ ChaosShapes(n)

User ==
    \/ \E c \in {"deploy", "keep"}, W \in SUBSET Node \ {{}} : Begin(c, W)
    \/ \E W \in SUBSET (Node \ Cluster) \ {{}} : Begin("create", W)
    \/ \E c \in {"destroy", "playbook"} : Begin(c, {})

Process == Delete \/ Create \/ Exits
Next == User \/ Process \/ Aborts \/ TimesOut \/ CreationTimesOut \/ Chaos

-----------------------------------------------------------------------------
\* A destroy that nothing failed and nobody interfered with leaves nothing a
\* later deployment of the same name would inherit, whatever earlier commands
\* that failed left behind.  Out of reach is only a helper whose node an earlier
\* process removed without it, for that node is not listed any more: one started
\* meanwhile, one whose removal failed, one of a cluster.
DestroyLeavesNothing ==
    at = "gone" /\ clean =>
        /\ Existing = {} /\ ~net /\ inventory = {} /\ ~links
        /\ helper \subseteq orphan

\* A command that nothing failed and nobody interfered with does not end in the
\* middle of a deletion.
DestroySucceeds ==
    [][clean' /\ at \in {"rm", "rmleft"} => at' # "aborted"]_vars

\* The playbook of a deployment waits for every node of the inventory, so all
\* of them are there: --keep does not replay nodes removed or stopped since.
PlaybookReachesAll ==
    at = "playbook" /\ cmd \in {"deploy", "keep"} /\ clean =>
        /\ \A n \in inventory : box[n] = "running"
        /\ inventory = wanted \ Cluster

\* deploy --keep adds to an environment: what is there stays there, and only
\* nodes the command line names change.
KeepSparesNodes ==
    [][cmd = "keep" /\ at # "idle" /\ ~Chaos =>
         /\ Existing \subseteq Existing' /\ links' = links
         /\ \A n \in Node : box'[n] # box[n] => n \in wanted]_vars

\* Every command returns.
CommandsReturn == at # "idle" ~> at = "idle"

Spec == Init /\ [][Next]_vars /\ WF_vars(Process)

=============================================================================
