------------------------------ MODULE ChaosHost ------------------------------
(***************************************************************************)
(* The docker host as the chaos feature of anydbver sees it: the node      *)
(* containers of one namespace, the IP address each has on the namespace   *)
(* network, the persistent helper container that shares a node's network   *)
(* namespace, and the tc shaping installed on the node's eth0.             *)
(*                                                                         *)
(* docker and tc are not part of the repository; they are modelled from    *)
(* the way cmd/anydbver/chaos.go drives them and from its comments on what *)
(* a lifecycle command does to a node's network namespace.                 *)
(***************************************************************************)
EXTENDS Naturals, FiniteSets

CONSTANTS
  Node,        \* the node containers on the namespace network
  IP,          \* the addresses docker may hand out on that network
  NoIP,        \* "": the address of a container that is not running
  Profile,     \* the netem profiles a link can be given
  Partition,   \* the profile {Loss: "100%"}
  NoFault,     \* the absence of a profile
  MaxPeers     \* chaosMaxPeers: the prio bands available for peers

ASSUME HostAssumption ==
  /\ NoIP \notin IP
  /\ Partition \in Profile
  /\ NoFault \notin Profile
  /\ MaxPeers \in Nat \ {0}

VARIABLES
  nstate,   \* docker state of each node
  addr,     \* its address on the namespace network
  helper,   \* its helper container chaos-helper-<node>
  qdisc     \* the shaping on its eth0: the profile applied per peer address

hostVars == <<nstate, addr, helper, qdisc>>

Fault == Profile \cup {NoFault}

NodeState == {"running", "paused", "exited"}

(***************************************************************************)
(* none:  no such container.                                               *)
(* live:  running, attached to the node's current network namespace.       *)
(* stale: running, attached to a namespace the node no longer uses.        *)
(* dead:  the container exists but is not running.                         *)
(***************************************************************************)
HelperState == {"none", "live", "stale", "dead"}

Shaping == [IP -> Fault]

Unshaped == [i \in IP |-> NoFault]

HostTypeOK ==
  /\ nstate \in [Node -> NodeState]
  /\ addr \in [Node -> IP \cup {NoIP}]
  /\ helper \in [Node -> HelperState]
  /\ qdisc \in [Node -> Shaping]

\* A deployed namespace: every node runs, has an address of its own, no chaos.
HostInit ==
  /\ nstate = [n \in Node |-> "running"]
  /\ addr \in {f \in [Node -> IP] : \A m, n \in Node : f[m] = f[n] => m = n}
  /\ helper = [n \in Node |-> "none"]
  /\ qdisc = [n \in Node |-> Unshaped]

-----------------------------------------------------------------------------
(***************************************************************************)
(* State predicates the engine's docker inspect / docker ps calls evaluate *)
(***************************************************************************)

\* `docker inspect -f {{.State.Running}}` of the helper prints true.
HelperRunning(n) == helper[n] \in {"live", "stale"}

\* A node whose network namespace a container can join.
Joinable(n) == nstate[n] \in {"running", "paused"}

-----------------------------------------------------------------------------
(***************************************************************************)
(* The lifecycle commands of chaosNodeAction.  Losing the process loses    *)
(* the network namespace: the shaping goes with it, the address returns to *)
(* the pool, and a helper still attached is attached to nothing.           *)
(***************************************************************************)

Freeze(n) ==
  /\ nstate[n] = "running"
  /\ nstate' = [nstate EXCEPT ![n] = "paused"]
  /\ UNCHANGED <<addr, helper, qdisc>>

Thaw(n) ==
  /\ nstate[n] = "paused"
  /\ nstate' = [nstate EXCEPT ![n] = "running"]
  /\ UNCHANGED <<addr, helper, qdisc>>

Halt(n) ==
  /\ Joinable(n)
  /\ nstate' = [nstate EXCEPT ![n] = "exited"]
  /\ addr' = [addr EXCEPT ![n] = NoIP]
  /\ helper' = [helper EXCEPT ![n] = IF @ = "live" THEN "stale" ELSE @]
  /\ qdisc' = [qdisc EXCEPT ![n] = Unshaped]

\* A started container gets any address no running container holds.
Boot(n) ==
  /\ nstate[n] = "exited"
  /\ nstate' = [nstate EXCEPT ![n] = "running"]
  /\ \E i \in IP \ {addr[m] : m \in Node} : addr' = [addr EXCEPT ![n] = i]
  /\ UNCHANGED <<helper, qdisc>>

\* `docker stop` of a stopped and `docker start` of a running container
\* succeed without doing anything.
AlreadyThere(n, action) ==
  /\ \/ action = "stop" /\ nstate[n] = "exited"
     \/ action = "start" /\ nstate[n] = "running"
  /\ UNCHANGED hostVars

\* `docker <action> <node>` succeeds.
Docker(n, action) ==
  \/ action = "pause" /\ Freeze(n)
  \/ action = "unpause" /\ Thaw(n)
  \/ action \in {"kill", "stop"} /\ Halt(n)
  \/ action = "start" /\ Boot(n)
  \/ AlreadyThere(n, action)

\* `docker <action> <node>` exits with an error and changes nothing.
Refused(n, action) ==
  \/ action = "pause" /\ nstate[n] # "running"
  \/ action = "unpause" /\ nstate[n] # "paused"
  \/ action = "kill" /\ nstate[n] = "exited"
  \/ action = "start" /\ nstate[n] = "paused"

-----------------------------------------------------------------------------
(***************************************************************************)
(* Helper containers and tc.  A script run in a stale helper finds no eth0 *)
(* and changes nothing.                                                    *)
(***************************************************************************)

\* `docker rm -f helper; docker run -d --net=container:n`: the container is
\* created, but starting it fails when there is no namespace to join.
StartHelper(n) ==
  helper' = [helper EXCEPT ![n] = IF Joinable(n) THEN "live" ELSE "dead"]

RemoveHelper(n) == helper' = [helper EXCEPT ![n] = "none"]

RemoveHelpers == helper' = [n \in Node |-> "none"]

\* `docker exec helper ...` with an effect s on the shaping of eth0.
ExecInHelper(n, s) ==
  qdisc' = IF helper[n] = "live" THEN [qdisc EXCEPT ![n] = s] ELSE qdisc

\* `docker run --rm --net=container:n ... tc qdisc del dev eth0 root`
ThrowawayClear(n) == qdisc' = [qdisc EXCEPT ![n] = Unshaped]

-----------------------------------------------------------------------------
\* The fault a's eth0 applies to traffic towards b.
FaultTowards(a, b) == IF addr[b] = NoIP THEN NoFault ELSE qdisc[a][addr[b]]

\* The nodes that are up, and what each node does to each other's traffic.
NodesUp == {n \in Node : Joinable(n)}
LinkFaults == [a \in Node |-> [b \in Node \ {a} |-> FaultTowards(a, b)]]

\* No node of the namespace carries any shaping.
HostUnshaped == \A n \in Node : qdisc[n] = Unshaped
==============================================================================
