-------------------------- MODULE DeploymentProofs --------------------------
(***************************************************************************)
(* Theorems about a deployment and its coroot, for any command lines, any  *)
(* keywords and any moment at which a command fails.                       *)
(***************************************************************************)
EXTENDS Deployment, WellFoundedInduction, FiniteSetTheorems, TLAPS

-----------------------------------------------------------------------------
(* The invariant, in parts. *)

AllLines == CommandLines \cup NextLines
TargetSet == [node : Node, server : Node, type : Range(DbType)]
SetupPoints == {"idle", "agent", "api", "look", "instrument", "scrape", "relink", "ended", "failed"}

\* deploy has the fields of a command, and what a command line leads to.
Fields == {"at", "line", "keep", "first", "todo", "plan", "verdict", "targets", "servers",
           "item", "step", "before"}
DeployType ==
  /\ deploy = [f \in Fields |-> deploy[f]]
  /\ deploy.at \in {"start", "clusters", "create", "hosts", "coroot"} \cup Ended
  /\ deploy.line \in AllLines /\ deploy.keep \in BOOLEAN
  /\ deploy.targets \in Seq(TargetSet) /\ deploy.servers \in Seq(Node)

SetupType ==
  setup \in [at : SetupPoints, servers : Seq(Node), now : Nat \ {0}, all : Seq(TargetSet),
             targets : SUBSET Nat, looks : Nat, monitored : SUBSET (Node \X Node),
             late : SUBSET Node]

\* An agent may see and report containers of any name.
AgentFields == {"agent", "saw", "linked", "known", "told", "scraped"}
CorootType ==
  /\ coroot = [s \in Node |-> coroot[s]]
  /\ \A s \in Node : coroot[s] = [f \in AgentFields |-> coroot[s][f]]

\* Until its containers are touched, a deploy finds what it found at its start.
Untouched ==
  deploy.at \in {"start", "refused"} =>
    deploy.before = [containers |-> containers, sidecars |-> sidecars, clusters |-> clusters,
                     inventory |-> inventory]

\* Where SetupCoroot stands in its lists.
Busy == {"api", "look", "instrument", "scrape", "relink"}

PlaceSound ==
  /\ deploy.at \in {"start", "clusters", "create", "hosts"} => setup = NoSetup
  /\ setup.at = "idle" => setup = NoSetup
  /\ deploy.at = "done" => setup.at = "ended"
  /\ setup.at \in {"agent"} \cup Busy => setup.now \in DOMAIN setup.servers
  /\ setup.at \in {"look", "instrument"} => setup.targets \subseteq Targets(Server)
  /\ setup.at = "instrument" => setup.targets # {}

\* The servers an agent was started on see every node.
SeenInv ==
  /\ deploy.at = "coroot" =>
       /\ setup.at \in Busy => There \subseteq coroot[Server].saw
       /\ setup.at \in {"agent"} \cup Busy =>
            \A k \in 1..(setup.now - 1) : There \subseteq coroot[setup.servers[k]].saw
       /\ setup.at = "ended" =>
            \A k \in DOMAIN setup.servers : There \subseteq coroot[setup.servers[k]].saw
  /\ deploy.at = "done" =>
       \A k \in DOMAIN setup.servers : There \subseteq coroot[setup.servers[k]].saw

\* What a coroot of this deploy has been told and has done.
ToldInv ==
  /\ \A s \in Node : coroot[s].linked \subseteq coroot[s].scraped
                     /\ coroot[s].scraped \subseteq coroot[s].told
  /\ deploy.at \in {"clusters", "create", "hosts"} /\ ~deploy.keep =>
       \A s \in Node : coroot[s].told = {}
  /\ deploy.at \in {"coroot", "done"} /\ ~deploy.keep =>
       \A s \in Node : coroot[s].told \subseteq {setup.all[i].node : i \in Targets(s)}

\* A database that is monitored alone is linked when its server is left.
LinkedInv ==
  deploy.at \in {"coroot", "done"} /\ setup.at # "failed" /\ ~deploy.keep =>
    /\ deploy.at = "coroot" /\ setup.at = "relink" =>
         Server \in setup.late \/ coroot[Server].scraped # {}
    /\ \A m \in setup.monitored :
         /\ \E i \in Targets(m[1]) : m[2] = setup.all[i].node
         /\ \/ deploy.at = "coroot" /\ setup.at \in {"look", "instrument", "scrape", "relink"}
               /\ m[1] = Server
            \/ m[1] \in setup.late
            \/ Cardinality(Targets(m[1])) = 1 /\ m[2] \in There => m[2] \in coroot[m[1]].linked

DeployInv ==
  /\ DeployType /\ SetupType /\ CorootType
  /\ Untouched /\ PlaceSound /\ SeenInv /\ ToldInv /\ LinkedInv

-----------------------------------------------------------------------------
(* The steps, by what they leave alone. *)

\* From the wipe to the playbook.
Building == {"clusters", "create", "hosts"}
BuildStep ==
  \/ createK3dCluster \/ Planned \/ createContainer \/ Created
  \/ deployHost \/ runOperatorTool \/ ReuseImage \/ MixedUp \/ CreateContainer
  \/ CreateCorootContainer \/ runPlaybook \/ PlaybookFails \/ Break

LEMMA BuildStepEffect ==
  ASSUME DeployType, BuildStep
  PROVE  /\ deploy.at \in Building
         /\ deploy'.at \in Building \cup {"mixed", "name taken", "failed", "coroot"}
         /\ deploy' = [f \in Fields |-> deploy'[f]]
         /\ \A f \in {"line", "keep", "targets", "servers", "before"} : deploy'[f] = deploy[f]
         /\ UNCHANGED setup
         /\ coroot' = coroot \/ \E n : coroot' = [coroot EXCEPT ![n] = NoAgent]
<1> USE DEF DeployType, Fields, Goto, Building
<1>1. CASE createK3dCluster \/ createContainer
  BY <1>1 DEF createK3dCluster, createContainer
<1>2. CASE Planned \/ Created
  BY <1>2 DEF Planned, Created, world
<1>3. CASE deployHost \/ runOperatorTool \/ ReuseImage
  BY <1>3 DEF deployHost, runOperatorTool, ReuseImage, AtHost, NextHost, world
<1>4. CASE MixedUp \/ runPlaybook \/ PlaybookFails \/ Break
  BY <1>4 DEF MixedUp, AtImage, AtHost, runPlaybook, PlaybookFails, HostsDone, Break, world
<1>5. CASE CreateContainer
  <2>1. UNCHANGED <<setup, coroot>>
    BY <1>5 DEF CreateContainer
  <2>2. deploy.at = "hosts"
    BY <1>5 DEF CreateContainer, AtImage, AtHost
  <2>3. deploy' = [deploy EXCEPT !.at = "name taken"] \/ deploy' = NextImage
    BY <1>5 DEF CreateContainer
  <2> QED BY <2>1, <2>2, <2>3 DEF NextImage, NextHost
<1>6. CASE CreateCorootContainer
  <2>1. UNCHANGED setup /\ (coroot' = coroot \/ coroot' = [coroot EXCEPT ![Host] = NoAgent])
    BY <1>6 DEF CreateCorootContainer
  <2>2. deploy.at = "hosts"
    BY <1>6 DEF CreateCorootContainer, AtImage, AtHost
  <2>3. \/ deploy' = [deploy EXCEPT !.at = "name taken"]
        \/ deploy' = [deploy EXCEPT !.step = @ + 1]
        \/ deploy' = NextImage
    BY <1>6 DEF CreateCorootContainer
  <2> QED BY <2>1, <2>2, <2>3 DEF NextImage, NextHost
<1> QED BY <1>1, <1>2, <1>3, <1>4, <1>5, <1>6 DEF BuildStep

\* The wipe before.
LEMMA WipeEffect ==
  ASSUME DeployType, Wipe
  PROVE  /\ deploy.at = "start" /\ deploy'.at = "clusters"
         /\ deploy' = [f \in Fields |-> deploy'[f]]
         /\ \A f \in {"line", "keep", "targets", "servers", "before"} : deploy'[f] = deploy[f]
         /\ UNCHANGED setup
         /\ coroot' = IF deploy.keep THEN coroot ELSE [n \in Node |-> NoAgent]
BY DEF DeployType, Fields, Wipe

\* While coroot is set up, and when it is.
CorootStep == BeginCoroot \/ Coroot \/ CorootFails \/ CorootWorks

LEMMA CorootStepEffect ==
  ASSUME CorootStep
  PROVE  deploy.at = "coroot" /\ UNCHANGED <<deploy, containers, sidecars, clusters, inventory>>
BY DEF CorootStep, BeginCoroot, Coroot, CorootFails, CorootWorks, world

LEMMA NextSteps ==
  Next <=> Refuse \/ Wipe \/ BuildStep \/ CorootStep \/ Done \/ Again \/ RemoveNode
BY DEF Next, Program, BuildStep, CorootStep

LEMMA CommandType ==
  ASSUME NEW line \in AllLines, NEW keep \in BOOLEAN, NEW first,
         deploy' = Command(line, Plan(line), keep, first)
  PROVE  DeployType' /\ deploy'.at = "start" /\ deploy'.keep = keep
         /\ deploy'.before = [containers |-> containers, sidecars |-> sidecars,
                              clusters |-> clusters, inventory |-> inventory]
<1> DEFINE targets == buildCorootTargets(Plan(line))
           servers == SetupServers(CorootServers(Plan(line)), targets)
<1>1. targets \in Seq(TargetSet) /\ servers \in Seq(Node)
  BY DeploymentAssumption DEF AllLines, TargetSet
<1> HIDE DEF targets
<1>2. deploy'.targets = targets /\ deploy'.servers = servers /\ deploy'.line = line
      /\ deploy'.keep = keep /\ deploy'.at = "start"
  BY DEF Command, targets
<1> HIDE DEF servers
<1>3. deploy' = [f \in Fields |-> deploy'[f]]
  BY DEF Command, Fields
<1>4. deploy'.before = [containers |-> containers, sidecars |-> sidecars,
                              clusters |-> clusters, inventory |-> inventory]
  BY DEF Command
<1> QED BY <1>1, <1>2, <1>3, <1>4 DEF DeployType

-----------------------------------------------------------------------------
(* The invariant holds at the start; types; a deploy refused. *)

LEMMA DeployInit == Init => DeployInv
<1> SUFFICES ASSUME Init PROVE DeployInv
  OBVIOUS
<1>0. PICK line \in CommandLines, keep \in BOOLEAN : deploy = Command(line, Plan(line), keep, TRUE)
  BY DEF Init
<1> DEFINE targets == buildCorootTargets(Plan(line))
           servers == SetupServers(CorootServers(Plan(line)), targets)
<1>1. targets \in Seq(TargetSet) /\ servers \in Seq(Node)
  BY DeploymentAssumption DEF TargetSet
<1> HIDE DEF targets
<1>2. deploy.targets = targets /\ deploy.servers = servers /\ deploy.line = line
      /\ deploy.keep = keep /\ deploy.at = "start"
  BY <1>0 DEF Command, targets
<1> HIDE DEF servers
<1>3. deploy = [f \in Fields |-> deploy[f]]
  BY <1>0 DEF Command, Fields
<1>4. DeployType
  BY <1>1, <1>2, <1>3 DEF DeployType, AllLines
<1>5. SetupType
  BY DEF Init, NoSetup, SetupType, SetupPoints
<1>6. CorootType
  BY DEF Init, CorootType, NoAgent, AgentFields
<1>7. Untouched
  BY <1>0 DEF Untouched, Command
<1>8. PlaceSound
  <2>1. setup = NoSetup /\ setup.at = "idle"
    BY DEF Init, NoSetup
  <2> QED BY <1>2, <2>1 DEF PlaceSound, Busy
<1>9. SeenInv /\ LinkedInv
  BY <1>2 DEF SeenInv, LinkedInv
<1>10. ToldInv
  BY <1>2 DEF ToldInv, Init, NoAgent, Building
<1> QED BY <1>4, <1>5, <1>6, <1>7, <1>8, <1>9, <1>10 DEF DeployInv

LEMMA AgainEffect ==
  ASSUME DeployType, Again
  PROVE  /\ DeployType' /\ deploy'.at = "start" /\ setup' = NoSetup
         /\ deploy'.before = [containers |-> containers, sidecars |-> sidecars,
                              clusters |-> clusters, inventory |-> inventory]
         /\ UNCHANGED <<containers, sidecars, clusters, inventory, coroot>>
<1>1. PICK line \in AllLines, keep \in BOOLEAN :
        deploy' = Command(line, Plan(line), keep, FALSE)
  BY DEF Again, AllLines, DeployType
<1> QED BY <1>1, CommandType DEF Again, world

LEMMA DeployTypeNext == DeployType /\ Untouched /\ [Next]_vars => DeployType' /\ Untouched'
<1> SUFFICES ASSUME DeployType, Untouched, [Next]_vars PROVE DeployType' /\ Untouched'
  OBVIOUS
<1>1. CASE Refuse
  BY <1>1 DEF Refuse, Goto, DeployType, Untouched, Fields, Ended, world
<1>2. CASE Wipe
  BY <1>2, WipeEffect DEF DeployType, Untouched
<1>3. CASE BuildStep
  BY <1>3, BuildStepEffect DEF DeployType, Untouched, Building, Ended
<1>4. CASE CorootStep
  BY <1>4, CorootStepEffect DEF DeployType, Untouched
<1>5. CASE Done
  BY <1>5 DEF Done, Goto, DeployType, Untouched, Fields, Ended
<1>6. CASE Again
  BY <1>6, AgainEffect DEF Untouched
<1>7. CASE RemoveNode
  BY <1>7 DEF RemoveNode, DeployType, Untouched, Ended
<1>8. CASE UNCHANGED vars
  BY <1>8 DEF vars, world, DeployType, Untouched
<1> QED BY <1>1, <1>2, <1>3, <1>4, <1>5, <1>6, <1>7, <1>8, NextSteps

-----------------------------------------------------------------------------
(* The steps of SetupCoroot. *)

LEMMA MinProperties ==
  ASSUME NEW S \in SUBSET Nat, S # {}
  PROVE  Min(S) \in S /\ \A x \in S : Min(S) <= x
<1> DEFINE less == OpToRel(<, Nat)
<1>1. S \subseteq Nat /\ IsWellFoundedOn(less, Nat)
  BY NatLessThanWellFounded
<1> HIDE DEF less
<1>2. PICK x \in S : \A y \in S : ~ (<<y, x>> \in less)
  BY <1>1, WFMin
<1>3. \A y \in Nat : y < x => <<y, x>> \in less
  BY <1>1, Zenon DEF OpToRel, less
<1>4. \A y \in S : ~ (y < x)
  BY <1>1, <1>2, <1>3, Zenon
<1>5. \A y \in S : x <= y
  BY <1>1, <1>4
<1> QED BY <1>5 DEF Min

\* In a server's round, the server is a node.
LEMMA ServerType ==
  ASSUME SetupType, PlaceSound, setup.at \in {"agent"} \cup Busy
  PROVE  Server \in Node /\ setup.now \in DOMAIN setup.servers
         /\ DOMAIN setup.servers = 1..Len(setup.servers) /\ Len(setup.servers) \in Nat
<1>1. setup.servers \in Seq(Node) /\ setup.now \in DOMAIN setup.servers
  BY DEF SetupType, PlaceSound
<1> QED BY <1>1 DEF Server

\* The database a round looks for is one of the server's.
LEMMA TargetType ==
  ASSUME SetupType, PlaceSound, setup.at \in {"look", "instrument"}, setup.targets # {}
  PROVE  /\ Min(setup.targets) \in Targets(Server)
         /\ Target = setup.all[Min(setup.targets)].node /\ Target \in Node
<1>1. setup.targets \in SUBSET Nat /\ setup.targets \subseteq Targets(Server)
  BY DEF SetupType, PlaceSound
<1>2. Min(setup.targets) \in Targets(Server)
  BY <1>1, MinProperties
<1>3. setup.all \in Seq(TargetSet)
  BY DEF SetupType
<1>4. \A T : \A q \in Seq(T) : \A k \in DOMAIN q : q[k] \in T
  OBVIOUS
<1>5. Min(setup.targets) \in DOMAIN setup.all
  BY <1>2 DEF Targets
<1>6. setup.all[Min(setup.targets)] \in TargetSet
  BY <1>3, <1>4, <1>5
<1> QED BY <1>2, <1>6 DEF Target, TargetSet

\* The round of a server ends.
LEMMA OnwardEffect ==
  ASSUME SetupType, PlaceSound, setup.at \in {"agent"} \cup Busy
  PROVE  LET s == Onward(setup)
         IN  /\ s \in [at : SetupPoints, servers : Seq(Node), now : Nat \ {0}, all : Seq(TargetSet),
                       targets : SUBSET Nat, looks : Nat, monitored : SUBSET (Node \X Node),
                       late : SUBSET Node]
             /\ s.servers = setup.servers /\ s.all = setup.all /\ s.monitored = setup.monitored
             /\ s.late = setup.late /\ s.targets = {} /\ s.now = setup.now + 1
             /\ \/ s.at = "ended" /\ setup.now = Len(setup.servers)
                \/ s.at = "agent" /\ s.now \in DOMAIN s.servers
<1>1. setup.now \in DOMAIN setup.servers /\ DOMAIN setup.servers = 1..Len(setup.servers)
      /\ Len(setup.servers) \in Nat
  BY ServerType
<1>2. setup.now + 1 \in Nat \ {0}
  BY DEF SetupType
<1>3. setup.now # Len(setup.servers) => setup.now + 1 \in DOMAIN setup.servers
  BY <1>1
<1> QED BY <1>1, <1>2, <1>3 DEF Onward, SetupType, SetupPoints

\* Within a round the server and its databases stay.
LEMMA SameRound ==
  ASSUME setup'.servers = setup.servers, setup'.all = setup.all
  PROVE  /\ \A s : Targets(s)' = Targets(s)
         /\ setup'.now = setup.now => Server' = Server /\ Targets(Server)' = Targets(Server)
BY DEF Targets, Server

\* Another look, at a server's projects or at its agent, and the next target.
LEMMA OneMoreLook ==
  ASSUME SetupType, setup' = [setup EXCEPT !.looks = @ + 1]
  PROVE  SetupType'
<1>1. setup.looks + 1 \in Nat
  BY DEF SetupType
<1> QED BY <1>1 DEF SetupType

LEMMA AnotherTarget ==
  ASSUME SetupType, setup' = NextTarget(setup)
  PROVE  SetupType'
<1>1. 0 \in Nat
  OBVIOUS
<1> QED BY <1>1 DEF SetupType, SetupPoints, NextTarget

LEMMA SetupNext ==
  ASSUME DeployType, SetupType, PlaceSound, CorootStep
  PROVE  SetupType' /\ PlaceSound'
<1> USE DEF SetupType, SetupPoints, Busy
<1>0. deploy'.at = "coroot"
  BY CorootStepEffect
<1> DEFINE Placed ==
     /\ setup'.at # "idle"
     /\ setup'.at \in {"agent"} \cup Busy => setup'.now \in DOMAIN setup'.servers
     /\ setup'.at \in {"look", "instrument"} => setup'.targets \subseteq Targets(Server)'
     /\ setup'.at = "instrument" => setup'.targets # {}
<1>1. SetupType' /\ Placed => SetupType' /\ PlaceSound'
  BY <1>0 DEF PlaceSound
<1>2. CASE BeginCoroot
  <2>1. deploy.servers \in Seq(Node) /\ deploy.targets \in Seq(TargetSet)
    BY DEF DeployType
  <2>2. SetupType'
    <3>1. setup' = [at |-> IF deploy.servers = <<>> THEN "ended" ELSE "agent",
                    servers |-> deploy.servers, now |-> 1, all |-> deploy.targets, targets |-> {},
                    looks |-> 0, monitored |-> {}, late |-> {}]
      BY <1>2 DEF BeginCoroot, SetupCoroot, NoSetup
    <3>2. 1 \in Nat \ {0} /\ 0 \in Nat
      OBVIOUS
    <3> QED BY <2>1, <3>1, <3>2
  <2>3. deploy.servers # <<>> => 1 \in DOMAIN deploy.servers
    BY <2>1
  <2>4. Placed
    BY <1>2, <2>3 DEF BeginCoroot, SetupCoroot, NoSetup
  <2> QED BY <1>1, <2>2, <2>4
<1>3. CASE StartCorootNodeAgent(There)
  <2>1. CASE setup.at = "agent"
    <3>1. setup' = [setup EXCEPT !.at = "api"]
      BY <1>3, <2>1 DEF StartCorootNodeAgent
    <3> QED BY <1>1, <2>1, <3>1 DEF PlaceSound
  <2>2. CASE setup.at = "relink"
    <3>1. setup' = Onward(setup)
      BY <1>3, <2>2 DEF StartCorootNodeAgent
    <3> QED BY <1>1, <2>2, <3>1, OnwardEffect
  <2> QED BY <1>3, <2>1, <2>2 DEF StartCorootNodeAgent
<1>4. CASE Api(There)
  <2>1. setup' = [setup EXCEPT !.at = "look", !.targets = Targets(Server), !.looks = 0]
    BY <1>4 DEF Api
  <2>2. setup.at = "api" /\ setup.now \in DOMAIN setup.servers
    BY <1>4 DEF Api, PlaceSound
  <2>3. Targets(Server) \in SUBSET Nat
    BY DEF Targets
  <2>4. setup'.now = setup.now /\ setup'.servers = setup.servers /\ setup'.all = setup.all
        /\ setup'.targets = Targets(Server) /\ setup'.at = "look"
    BY <2>1
  <2>5. Targets(Server)' = Targets(Server)
    BY <2>4 DEF Targets, Server
  <2>6. SetupType'
    BY <2>1, <2>3
  <2> QED BY <1>1, <2>2, <2>4, <2>5, <2>6
<1>5. CASE NoApi
  <2>1. Server \in Node
    BY <1>5, ServerType DEF NoApi
  <2>2. setup' = [Onward(setup) EXCEPT !.late = @ \cup {Server}] /\ setup.at = "api"
    BY <1>5 DEF NoApi
  <2> QED BY <1>1, <2>1, <2>2, OnwardEffect
<1>6. CASE appId
  <2>1. setup' = [setup EXCEPT !.at = "instrument", !.looks = 0] /\ setup.at = "look"
        /\ setup.targets # {}
    BY <1>6 DEF appId
  <2> QED BY <1>1, <2>1 DEF PlaceSound, Targets, Server
<1>7. CASE NotYet
  <2>0. setup.at = "look" /\ setup.targets \subseteq Targets(Server)
        /\ setup.now \in DOMAIN setup.servers
    BY <1>7 DEF NotYet, PlaceSound
  <2>1. CASE setup' = [setup EXCEPT !.looks = @ + 1]
    <3>1. setup'.at = "look" /\ setup'.targets = setup.targets /\ setup'.servers = setup.servers
          /\ setup'.all = setup.all /\ setup'.now = setup.now
      BY <2>0, <2>1
    <3>2. SetupType'
      BY <2>1, OneMoreLook
    <3> QED BY <1>1, <2>0, <3>1, <3>2, SameRound
  <2>2. CASE setup' = NextTarget(setup)
    <3>1. setup'.at = "look" /\ setup'.targets \subseteq setup.targets
          /\ setup'.servers = setup.servers /\ setup'.all = setup.all /\ setup'.now = setup.now
      BY <2>0, <2>2 DEF NextTarget
    <3>2. SetupType'
      BY <2>2, AnotherTarget
    <3> QED BY <1>1, <2>0, <3>1, <3>2, SameRound
  <2> QED BY <1>7, <2>1, <2>2 DEF NotYet
<1>8. CASE Instrument
  <2>1. Server \in Node /\ Target \in Node
    BY <1>8, ServerType, TargetType DEF Instrument, PlaceSound
  <2>2. setup' = [NextTarget(setup) EXCEPT !.at = "look", !.monitored = @ \cup {<<Server, Target>>}]
    BY <1>8 DEF Instrument
  <2>3. setup.targets \subseteq Targets(Server) /\ setup.now \in DOMAIN setup.servers
    BY <1>8 DEF Instrument, PlaceSound
  <2>4. setup'.at = "look" /\ setup'.targets \subseteq setup.targets
        /\ setup'.servers = setup.servers /\ setup'.all = setup.all /\ setup'.now = setup.now
    BY <2>2 DEF NextTarget
  <2> DEFINE pair == <<Server, Target>>
  <2>5. pair \in Node \X Node
    BY <2>1
  <2> HIDE DEF pair
  <2>6. SetupType'
    <3>1. setup' = [NextTarget(setup) EXCEPT !.at = "look", !.monitored = @ \cup {pair}]
      BY <2>2 DEF pair
    <3>2. 0 \in Nat
      OBVIOUS
    <3> QED BY <2>5, <3>1, <3>2 DEF NextTarget
  <2> QED BY <1>1, <2>3, <2>4, <2>6, SameRound
<1>9. CASE InstrumentFails
  BY <1>1, <1>9 DEF InstrumentFails, NextTarget, PlaceSound, Targets, Server
<1>10. CASE Registered
  <2>1. CASE setup' = [setup EXCEPT !.at = "scrape"]
    BY <1>1, <1>10, <2>1 DEF Registered, PlaceSound
  <2>2. CASE setup' = Onward(setup)
    BY <1>1, <1>10, <2>2, OnwardEffect DEF Registered
  <2> QED BY <1>10, <2>1, <2>2 DEF Registered
<1>11. CASE waitForClusterAgentScrape
  <2>1. Server \in Node
    BY <1>11, ServerType DEF waitForClusterAgentScrape
  <2>2. setup.at = "scrape" /\ setup.now \in DOMAIN setup.servers
    BY <1>11 DEF waitForClusterAgentScrape, PlaceSound
  <2>3. CASE setup' = [setup EXCEPT !.at = "relink"]
    BY <1>1, <2>2, <2>3
  <2>4. CASE setup' = [setup EXCEPT !.looks = @ + 1]
    <3>1. setup'.at = "scrape" /\ setup'.servers = setup.servers /\ setup'.now = setup.now
      BY <2>2, <2>4
    <3>2. SetupType'
      BY <2>4, OneMoreLook
    <3> QED BY <1>1, <2>2, <3>1, <3>2
  <2>5. CASE setup' = [setup EXCEPT !.at = "relink", !.late = @ \cup {Server}]
    BY <1>1, <2>1, <2>2, <2>5
  <2> QED BY <1>11, <2>3, <2>4, <2>5 DEF waitForClusterAgentScrape
<1>12. CASE NodeAgentFails
  BY <1>1, <1>12 DEF NodeAgentFails
<1>13. CASE CorootWorks
  BY <1>0, <1>13 DEF CorootWorks, Discover, Scrape, PlaceSound, Targets, Server
<1> QED BY <1>2, <1>3, <1>4, <1>5, <1>6, <1>7, <1>8, <1>9, <1>10, <1>11, <1>12, <1>13
       DEF CorootStep, Coroot, CorootFails, SetupStep, SetupFails

\* The fields of SetupCoroot, through every other step.
LEMMA PlaceNext ==
  DeployType /\ SetupType /\ PlaceSound /\ [Next]_vars => SetupType' /\ PlaceSound'
<1> SUFFICES ASSUME DeployType, SetupType, PlaceSound, [Next]_vars PROVE SetupType' /\ PlaceSound'
  OBVIOUS
<1> DEFINE Before == {"start", "clusters", "create", "hosts"}
<1>1. /\ setup' = setup
      /\ deploy'.at \in Before => deploy.at \in Before
      /\ deploy'.at = "done" => setup.at = "ended"
      => SetupType' /\ PlaceSound'
  <2> SUFFICES ASSUME setup' = setup, deploy'.at \in Before => deploy.at \in Before,
                      deploy'.at = "done" => setup.at = "ended"
               PROVE  SetupType' /\ PlaceSound'
    OBVIOUS
  <2>1. Targets(Server)' = Targets(Server)
    BY SameRound
  <2> QED BY <2>1 DEF SetupType, PlaceSound
<1>2. CASE Refuse
  <2>1. setup' = setup /\ deploy'.at = "refused"
    BY <1>2 DEF Refuse, Goto, DeployType, Fields
  <2> QED BY <1>1, <2>1
<1>3. CASE Wipe
  BY <1>1, <1>3, WipeEffect
<1>4. CASE BuildStep
  BY <1>1, <1>4, BuildStepEffect DEF Building
<1>5. CASE CorootStep
  BY <1>5, SetupNext
<1>6. CASE Done
  <2>1. deploy'.at \notin Before /\ (deploy'.at = "done" => setup.at = "ended")
    BY <1>6 DEF Done, Goto, DeployType, Fields
  <2> QED BY <1>1, <1>6, <2>1 DEF Done
<1>7. CASE Again
  <2>1. setup' = NoSetup
    BY <1>7, AgainEffect
  <2>2. 1 \in Nat \ {0} /\ 0 \in Nat
    OBVIOUS
  <2>3. SetupType'
    BY <2>1, <2>2 DEF SetupType, SetupPoints, NoSetup
  <2>4. setup'.at = "idle" /\ deploy'.at = "start"
    BY <1>7, <2>1, AgainEffect DEF NoSetup
  <2> QED BY <2>1, <2>3, <2>4 DEF PlaceSound, Busy
<1>8. CASE RemoveNode
  BY <1>1, <1>8 DEF RemoveNode, PlaceSound
<1>9. CASE UNCHANGED vars
  BY <1>1, <1>9 DEF vars, PlaceSound
<1> QED BY <1>2, <1>3, <1>4, <1>5, <1>6, <1>7, <1>8, <1>9, NextSteps

-----------------------------------------------------------------------------
(* What a step does to the rounds, and what it does to coroot. *)

Kept ==
  /\ setup'.servers = setup.servers /\ setup'.all = setup.all
  /\ setup.late \subseteq setup'.late

\* The first round begins.
Begins ==
  /\ setup.at = "idle" /\ setup'.monitored = {} /\ setup'.now = 1 /\ coroot' = coroot
  /\ setup'.at = "agent" \/ (setup'.at = "ended" /\ setup'.servers = <<>>)

\* The agent of the round's server starts.
Starts ==
  /\ setup.at = "agent" /\ setup' = [setup EXCEPT !.at = "api"]
  /\ coroot' = [coroot EXCEPT ![Server] = Started(@, There)]

\* A round goes on.
Stays ==
  /\ Kept /\ setup'.now = setup.now
  /\ setup.at \in Busy /\ setup'.at \in Busy \ {"api"}
  /\ setup'.at = "relink" => Server \in setup'.late \/ coroot[Server].scraped # {}
  /\ \/ coroot' = coroot /\ setup'.monitored = setup.monitored
     \/ /\ setup.at = "instrument" /\ setup'.at = "look"
        /\ coroot' = [coroot EXCEPT ![Server].told = @ \cup {Target}]
        /\ setup'.monitored = setup.monitored \cup {<<Server, Target>>}

\* A round ends.
Leaves ==
  /\ Kept /\ setup'.now = setup.now + 1 /\ setup'.monitored = setup.monitored
  /\ \/ setup'.at = "ended" /\ setup.now = Len(setup.servers)
     \/ setup'.at = "agent"
  /\ \/ setup.at = "relink" /\ coroot' = [coroot EXCEPT ![Server] = Started(@, There)]
     \/ setup.at = "api" /\ Server \in setup'.late /\ coroot' = coroot
     \/ /\ setup.at = "look" /\ coroot' = coroot
        /\ ~ \E i \in Targets(Server) : <<Server, setup.all[i].node>> \in setup.monitored

\* The agent of a round fails to stop or to start.
Breaks ==
  /\ setup.at \in {"agent", "relink"} /\ setup' = [setup EXCEPT !.at = "failed"]
  /\ coroot' \in {coroot, [coroot EXCEPT ![Server].agent = FALSE]}

LEMMA RoundMoves ==
  ASSUME SetupType, PlaceSound, CorootStep
  PROVE  \/ Begins \/ Starts \/ Stays \/ Leaves \/ Breaks
         \/ setup' = setup /\ (Discover \/ Scrape)
<1> USE DEF Busy
<1>0. setup = [at |-> setup.at, servers |-> setup.servers, now |-> setup.now, all |-> setup.all,
               targets |-> setup.targets, looks |-> setup.looks, monitored |-> setup.monitored,
               late |-> setup.late]
  BY DEF SetupType
<1>1. CASE BeginCoroot
  <2>1. setup' = [NoSetup EXCEPT !.at = IF deploy.servers = <<>> THEN "ended" ELSE "agent",
                                 !.servers = deploy.servers, !.all = deploy.targets]
        /\ setup.at = "idle" /\ coroot' = coroot
    BY <1>1 DEF BeginCoroot, SetupCoroot
  <2>2. setup'.monitored = {} /\ setup'.now = 1 /\ setup'.servers = deploy.servers
    BY <2>1 DEF NoSetup
  <2>3. setup'.at = "agent" \/ (setup'.at = "ended" /\ deploy.servers = <<>>)
    BY <2>1 DEF NoSetup
  <2>4. Begins
    BY <2>1, <2>2, <2>3, Zenon DEF Begins
  <2> QED BY <2>4
<1>2. CASE StartCorootNodeAgent(There)
  <2>1. CASE setup.at = "agent"
    BY <1>2, <2>1 DEF StartCorootNodeAgent, Starts
  <2>2. CASE setup.at = "relink"
    <3>1. setup' = Onward(setup) /\ coroot' = [coroot EXCEPT ![Server] = Started(@, There)]
      BY <1>2, <2>2 DEF StartCorootNodeAgent
    <3> QED BY <2>2, <3>1, OnwardEffect DEF Leaves, Kept
  <2> QED BY <1>2, <2>1, <2>2 DEF StartCorootNodeAgent
<1>3. CASE Api(There)
  BY <1>0, <1>3 DEF Api, Stays, Kept
<1>4. CASE NoApi
  <2>1. setup' = [Onward(setup) EXCEPT !.late = @ \cup {Server}] /\ setup.at = "api"
        /\ coroot' = coroot
    BY <1>4 DEF NoApi
  <2> QED BY <2>1, OnwardEffect DEF Leaves, Kept
<1>5. CASE appId
  BY <1>0, <1>5 DEF appId, Stays, Kept
<1>6. CASE NotYet
  <2>1. CASE setup' = [setup EXCEPT !.looks = @ + 1]
    BY <1>0, <1>6, <2>1 DEF NotYet, Stays, Kept
  <2>2. CASE setup' = NextTarget(setup)
    BY <1>0, <1>6, <2>2 DEF NotYet, NextTarget, Stays, Kept
  <2> QED BY <1>6, <2>1, <2>2 DEF NotYet
<1>7. CASE Instrument
  BY <1>0, <1>7 DEF Instrument, NextTarget, Stays, Kept
<1>8. CASE InstrumentFails
  BY <1>0, <1>8 DEF InstrumentFails, NextTarget, Stays, Kept
<1>9. CASE Registered
  <2>1. CASE \E i \in Targets(Server) : <<Server, setup.all[i].node>> \in setup.monitored
    BY <1>0, <1>9, <2>1 DEF Registered, Stays, Kept
  <2>2. CASE ~ \E i \in Targets(Server) : <<Server, setup.all[i].node>> \in setup.monitored
    <3>1. setup' = Onward(setup) /\ setup.at = "look" /\ coroot' = coroot
      BY <1>9, <2>2 DEF Registered
    <3> QED BY <2>2, <3>1, OnwardEffect DEF Leaves, Kept
  <2> QED BY <2>1, <2>2
<1>10. CASE waitForClusterAgentScrape
  <2>0. setup.at = "scrape" /\ coroot' = coroot
    BY <1>10 DEF waitForClusterAgentScrape
  <2>1. CASE coroot[Server].scraped # {}
    <3>1. setup' = [setup EXCEPT !.at = "relink"]
      BY <1>10, <2>1 DEF waitForClusterAgentScrape
    <3> QED BY <1>0, <2>0, <2>1, <3>1 DEF Stays, Kept
  <2>2. CASE coroot[Server].scraped = {} /\ setup.looks < Patience
    <3>1. setup' = [setup EXCEPT !.looks = @ + 1]
      BY <1>10, <2>2 DEF waitForClusterAgentScrape
    <3> QED BY <1>0, <2>0, <2>2, <3>1 DEF Stays, Kept
  <2>3. CASE coroot[Server].scraped = {} /\ ~ (setup.looks < Patience)
    <3>1. setup' = [setup EXCEPT !.at = "relink", !.late = @ \cup {Server}]
      BY <1>10, <2>3 DEF waitForClusterAgentScrape
    <3> QED BY <1>0, <2>0, <2>3, <3>1 DEF Stays, Kept
  <2> QED BY <2>1, <2>2, <2>3
<1>11. CASE NodeAgentFails
  BY <1>11 DEF NodeAgentFails, Breaks
<1>12. CASE CorootWorks
  BY <1>12 DEF CorootWorks, Discover, Scrape
<1> QED BY <1>1, <1>2, <1>3, <1>4, <1>5, <1>6, <1>7, <1>8, <1>9, <1>10, <1>11, <1>12
       DEF CorootStep, Coroot, CorootFails, SetupStep, SetupFails

LEMMA AgentUpdate ==
  ASSUME CorootType, NEW s \in Node, NEW a, a = [f \in AgentFields |-> a[f]],
         coroot' = [coroot EXCEPT ![s] = a]
  PROVE  CorootType' /\ coroot'[s] = a /\ \A r \in Node \ {s} : coroot'[r] = coroot[r]
<1>1. coroot'[s] = a /\ (\A r \in Node \ {s} : coroot'[r] = coroot[r])
      /\ coroot' = [r \in Node |-> coroot'[r]]
  BY DEF CorootType
<1> QED BY <1>1 DEF CorootType

\* The fields of coroot grow, and only these.
LEMMA AgentMoves ==
  ASSUME SetupType, PlaceSound, CorootType, CorootStep
  PROVE  /\ CorootType'
         /\ \A s \in Node :
              /\ coroot'[s].told = coroot[s].told
                 \/ /\ setup.at = "instrument" /\ s = Server /\ setup'.all = setup.all
                    /\ coroot'[s].told = coroot[s].told \cup {Target}
              /\ coroot[s].scraped \subseteq coroot'[s].scraped
              /\ coroot'[s].scraped \subseteq coroot[s].scraped \cup coroot[s].told
              /\ coroot'[s].linked \in {coroot[s].linked, coroot[s].scraped}
              /\ coroot'[s].saw \in {coroot[s].saw, There}
<1>0. \A s \in Node : coroot[s] = [f \in AgentFields |-> coroot[s][f]]
  BY DEF CorootType
<1>1. CASE coroot' = coroot
  BY <1>1 DEF CorootType
<1>2. CASE Starts \/ Leaves
  <2>1. Server \in Node
    BY <1>2, ServerType DEF Starts, Leaves, Busy
  <2>2. CASE coroot' = [coroot EXCEPT ![Server] = Started(@, There)]
    <3> DEFINE a == Started(coroot[Server], There)
    <3>1. a = [f \in AgentFields |-> a[f]] /\ a.told = coroot[Server].told
          /\ a.scraped = coroot[Server].scraped /\ a.linked = coroot[Server].scraped
          /\ a.saw = There
      BY <1>0, <2>1 DEF Started, AgentFields
    <3>2. coroot' = [coroot EXCEPT ![Server] = a]
      BY <2>2
    <3> HIDE DEF a
    <3>3. CorootType' /\ coroot'[Server] = a
          /\ \A r \in Node \ {Server} : coroot'[r] = coroot[r]
      BY <2>1, <3>1, <3>2, AgentUpdate
    <3> QED BY <3>1, <3>3
  <2> QED BY <1>1, <1>2, <2>2 DEF Starts, Leaves
<1>3. CASE Stays
  <2>1. Server \in Node /\ setup'.all = setup.all
    BY <1>3, ServerType DEF Stays, Kept
  <2>2. CASE coroot' = [coroot EXCEPT ![Server].told = @ \cup {Target}] /\ setup.at = "instrument"
    <3> DEFINE a == [coroot[Server] EXCEPT !.told = @ \cup {Target}]
    <3>1. a = [f \in AgentFields |-> a[f]] /\ a.told = coroot[Server].told \cup {Target}
          /\ a.scraped = coroot[Server].scraped /\ a.linked = coroot[Server].linked
          /\ a.saw = coroot[Server].saw
      BY <1>0, <2>1 DEF AgentFields
    <3>2. coroot' = [coroot EXCEPT ![Server] = a]
      BY <2>2
    <3> HIDE DEF a
    <3>3. CorootType' /\ coroot'[Server] = a
          /\ \A r \in Node \ {Server} : coroot'[r] = coroot[r]
      BY <2>1, <3>1, <3>2, AgentUpdate
    <3> QED BY <2>1, <2>2, <3>1, <3>3
  <2> QED BY <1>1, <1>3, <2>2 DEF Stays
<1>4. CASE Discover
  <2>1. PICK s \in Node : \E n : coroot' = [coroot EXCEPT ![s].known = @ \cup {n}]
    BY <1>4 DEF Discover
  <2>2. PICK n : coroot' = [coroot EXCEPT ![s].known = @ \cup {n}]
    BY <2>1
  <2> DEFINE a == [coroot[s] EXCEPT !.known = @ \cup {n}]
  <2>3. a = [f \in AgentFields |-> a[f]] /\ a.told = coroot[s].told
        /\ a.scraped = coroot[s].scraped /\ a.linked = coroot[s].linked /\ a.saw = coroot[s].saw
    BY <1>0 DEF AgentFields
  <2>4. coroot' = [coroot EXCEPT ![s] = a]
    BY <2>2
  <2> HIDE DEF a
  <2>5. CorootType' /\ coroot'[s] = a /\ \A r \in Node \ {s} : coroot'[r] = coroot[r]
    BY <2>3, <2>4, AgentUpdate
  <2> QED BY <2>3, <2>5
<1>5. CASE Scrape
  <2>1. PICK s \in Node : \E n \in coroot[s].told :
          coroot' = [coroot EXCEPT ![s].scraped = @ \cup {n}]
    BY <1>5 DEF Scrape
  <2>2. PICK n \in coroot[s].told : coroot' = [coroot EXCEPT ![s].scraped = @ \cup {n}]
    BY <2>1
  <2> DEFINE a == [coroot[s] EXCEPT !.scraped = @ \cup {n}]
  <2>3. a = [f \in AgentFields |-> a[f]] /\ a.told = coroot[s].told
        /\ a.scraped = coroot[s].scraped \cup {n} /\ a.linked = coroot[s].linked
        /\ a.saw = coroot[s].saw
    BY <1>0 DEF AgentFields
  <2>4. coroot' = [coroot EXCEPT ![s] = a]
    BY <2>2
  <2> HIDE DEF a
  <2>5. CorootType' /\ coroot'[s] = a /\ \A r \in Node \ {s} : coroot'[r] = coroot[r]
    BY <2>3, <2>4, AgentUpdate
  <2> QED BY <2>2, <2>3, <2>5
<1>6. CASE Breaks
  <2>1. Server \in Node
    BY <1>6, ServerType DEF Breaks, Busy
  <2>2. CASE coroot' = [coroot EXCEPT ![Server].agent = FALSE]
    <3> DEFINE a == [coroot[Server] EXCEPT !.agent = FALSE]
    <3>1. a = [f \in AgentFields |-> a[f]] /\ a.told = coroot[Server].told
          /\ a.scraped = coroot[Server].scraped /\ a.linked = coroot[Server].linked
          /\ a.saw = coroot[Server].saw
      BY <1>0, <2>1 DEF AgentFields
    <3>2. coroot' = [coroot EXCEPT ![Server] = a]
      BY <2>2
    <3> HIDE DEF a
    <3>3. CorootType' /\ coroot'[Server] = a
          /\ \A r \in Node \ {Server} : coroot'[r] = coroot[r]
      BY <2>1, <3>1, <3>2, AgentUpdate
    <3> QED BY <3>1, <3>3
  <2> QED BY <1>1, <1>6, <2>2 DEF Breaks
<1> QED BY <1>1, <1>2, <1>3, <1>4, <1>5, <1>6, RoundMoves DEF Begins

LEMMA CorootNext ==
  DeployType /\ SetupType /\ PlaceSound /\ CorootType /\ [Next]_vars => CorootType'
<1> SUFFICES ASSUME DeployType, SetupType, PlaceSound, CorootType, [Next]_vars PROVE CorootType'
  OBVIOUS
<1>1. CASE Refuse \/ Done \/ UNCHANGED vars
  BY <1>1 DEF Refuse, Done, vars, CorootType
<1>2. CASE Wipe
  BY <1>2, WipeEffect DEF CorootType, NoAgent, AgentFields
<1>3. CASE BuildStep
  <2>1. NoAgent = [f \in AgentFields |-> NoAgent[f]]
    BY DEF NoAgent, AgentFields
  <2> QED BY <1>3, <2>1, BuildStepEffect DEF CorootType
<1>4. CASE CorootStep
  BY <1>4, AgentMoves
<1>5. CASE Again
  BY <1>5, AgainEffect DEF CorootType
<1>6. CASE RemoveNode
  <2>1. PICK n \in There : coroot' = [s \in Node |->
          [coroot[s] EXCEPT !.saw = @ \ {n}, !.linked = @ \ {n}, !.scraped = @ \ {n}]]
    BY <1>6 DEF RemoveNode
  <2> QED BY <2>1 DEF CorootType, AgentFields
<1> QED BY <1>1, <1>2, <1>3, <1>4, <1>5, <1>6, NextSteps

\* A node removed is gone from what every agent saw, linked and scraped.
LEMMA RemoveEffect ==
  ASSUME CorootType, RemoveNode
  PROVE  /\ UNCHANGED <<deploy, setup>> /\ deploy.at \in Ended \ {"refused"}
         /\ There' \subseteq There
         /\ \A s \in Node : /\ coroot[s].saw \cap There' \subseteq coroot'[s].saw
                            /\ coroot[s].linked \cap There' \subseteq coroot'[s].linked
                            /\ coroot'[s].told = coroot[s].told
                            /\ coroot'[s].scraped \subseteq coroot[s].scraped
                            /\ coroot[s].linked \subseteq coroot[s].scraped =>
                                 coroot'[s].linked \subseteq coroot'[s].scraped
<1>1. PICK n \in There :
        /\ containers' = [m \in There \ {n} |-> containers[m]]
        /\ coroot' = [s \in Node |->
             [coroot[s] EXCEPT !.saw = @ \ {n}, !.linked = @ \ {n}, !.scraped = @ \ {n}]]
  BY DEF RemoveNode
<1>2. There' = There \ {n}
  BY <1>1 DEF There
<1>3. ASSUME NEW s \in Node
      PROVE  /\ coroot'[s].saw = coroot[s].saw \ {n} /\ coroot'[s].told = coroot[s].told
             /\ coroot'[s].linked = coroot[s].linked \ {n}
             /\ coroot'[s].scraped = coroot[s].scraped \ {n}
  BY <1>1 DEF CorootType, AgentFields
<1> QED BY <1>2, <1>3 DEF RemoveNode

\* No node comes or goes between the playbook and the end.
LEMMA SeenNext ==
  DeployType /\ SetupType /\ PlaceSound /\ CorootType /\ SeenInv /\ [Next]_vars => SeenInv'
<1> SUFFICES ASSUME DeployType, SetupType, PlaceSound, CorootType, SeenInv, [Next]_vars
             PROVE  SeenInv'
  OBVIOUS
<1>0. \A T : \A q \in Seq(T) : DOMAIN q = 1..Len(q) /\ Len(q) \in Nat
                               /\ \A k \in DOMAIN q : q[k] \in T
  OBVIOUS
<1>1. CASE Refuse \/ Wipe \/ Again
  BY <1>1, WipeEffect, AgainEffect DEF Refuse, Goto, DeployType, Fields, SeenInv
<1>2. CASE BuildStep
  <2>1. deploy'.at \notin {"done"} /\ setup' = NoSetup
    BY <1>2, BuildStepEffect DEF PlaceSound, Building
  <2>2. setup'.at = "idle"
    BY <2>1 DEF NoSetup
  <2> QED BY <2>1, <2>2 DEF SeenInv, Busy
<1>3. CASE CorootStep
  <2>0. deploy.at = "coroot" /\ deploy'.at = "coroot" /\ There' = There
    BY <1>3, CorootStepEffect DEF There
  <2> DEFINE Seen(k) == There \subseteq coroot[setup.servers[k]].saw
  <2>1. \A s \in Node : There \subseteq coroot[s].saw => There \subseteq coroot'[s].saw
    BY <1>3, AgentMoves
  <2>2. setup'.servers = setup.servers =>
          \A k \in DOMAIN setup.servers : Seen(k) => Seen(k)'
    BY <1>0, <2>0, <2>1 DEF SetupType
  <2>3. CASE Begins
    BY <1>0, <2>0, <2>3 DEF Begins, SeenInv, Busy
  <2>4. CASE Starts
    <3>1. Server \in Node /\ setup'.at = "api" /\ setup'.now = setup.now /\ setup.at = "agent"
          /\ setup'.servers = setup.servers /\ setup.now \in DOMAIN setup.servers
      BY <2>4, ServerType DEF Starts, SetupType
    <3>2. coroot'[Server].saw = There
      BY <2>4, <3>1 DEF Starts, Started, CorootType, AgentFields
    <3>3. Server' = Server
      BY <3>1 DEF Server
    <3>4. \A k \in 1..(setup.now - 1) : k \in DOMAIN setup.servers
      BY <1>0, <3>1 DEF SetupType
    <3> QED BY <2>0, <2>2, <3>1, <3>2, <3>3, <3>4 DEF SeenInv, Busy
  <2>5. CASE Stays
    <3>1. Server \in Node /\ setup'.at \in Busy /\ setup'.now = setup.now /\ setup.at \in Busy
          /\ setup'.servers = setup.servers /\ setup.now \in DOMAIN setup.servers
      BY <2>5, ServerType DEF Stays, Kept
    <3>2. Server' = Server
      BY <3>1 DEF Server
    <3>3. \A k \in 1..(setup.now - 1) : k \in DOMAIN setup.servers
      BY <1>0, <3>1 DEF SetupType
    <3> QED BY <2>0, <2>1, <2>2, <3>1, <3>2, <3>3 DEF SeenInv, Busy
  <2>6. CASE Leaves
    <3>1. /\ Server \in Node /\ setup.at \in Busy /\ setup'.now = setup.now + 1
          /\ setup'.at \in {"agent", "ended"}
          /\ setup'.at = "ended" => setup.now = Len(setup.servers)
          /\ setup'.servers = setup.servers /\ setup.now \in DOMAIN setup.servers
      BY <2>6, ServerType DEF Leaves, Kept, Busy
    <3>2. \A k \in 1..setup.now : Seen(k)
      <4>1. setup.now \in Nat \ {0}
        BY DEF SetupType
      <4>2. Seen(setup.now) /\ \A k \in 1..(setup.now - 1) : Seen(k)
        BY <2>0, <3>1 DEF SeenInv, Server
      <4> QED BY <4>1, <4>2
    <3>3. \A k \in 1..setup.now : k \in DOMAIN setup.servers
      BY <1>0, <3>1 DEF SetupType
    <3>4. \A k \in 1..setup.now : Seen(k)'
      BY <2>2, <3>1, <3>2, <3>3
    <3>5. setup'.now - 1 = setup.now
      BY <3>1 DEF SetupType
    <3>6. setup'.at = "ended" => DOMAIN setup'.servers = 1..setup.now
      BY <1>0, <3>1 DEF SetupType
    <3> QED BY <2>0, <3>1, <3>4, <3>5, <3>6 DEF SeenInv, Busy
  <2>7. CASE Breaks
    <3>1. setup'.at = "failed"
      BY <2>7 DEF Breaks, SetupType
    <3> QED BY <2>0, <3>1 DEF SeenInv, Busy
  <2>8. CASE setup' = setup
    <3>1. setup.at \in Busy => Server \in Node /\ Server' = Server
      BY <2>8, ServerType DEF Server
    <3>2. setup.at \in {"agent"} \cup Busy =>
            \A k \in 1..(setup.now - 1) : k \in DOMAIN setup.servers
      BY <1>0 DEF SetupType, PlaceSound
    <3> QED BY <2>0, <2>1, <2>2, <2>8, <3>1, <3>2 DEF SeenInv
  <2> QED BY <1>3, <2>3, <2>4, <2>5, <2>6, <2>7, <2>8, RoundMoves
<1>4. CASE Done
  <2>1. UNCHANGED <<containers, setup, coroot>> /\ deploy.at = "coroot"
        /\ deploy'.at \in {"done", "failed"} /\ (deploy'.at = "done" => setup.at = "ended")
    BY <1>4 DEF Done, Goto, world, DeployType, Fields
  <2> QED BY <2>1 DEF SeenInv, There
<1>5. CASE RemoveNode
  <2>1. \A k \in DOMAIN setup.servers : setup.servers[k] \in Node
    BY <1>0 DEF SetupType
  <2> QED BY <1>5, <2>1, RemoveEffect DEF SeenInv, Ended
<1>6. CASE UNCHANGED vars
  BY <1>6 DEF vars, world, SeenInv, There, Server
<1> QED BY <1>1, <1>2, <1>3, <1>4, <1>5, <1>6, NextSteps

\* No coroot of this deploy is told of more than its databases.
LEMMA ToldNext ==
  DeployType /\ SetupType /\ PlaceSound /\ CorootType /\ ToldInv /\ [Next]_vars => ToldInv'
<1> SUFFICES ASSUME DeployType, SetupType, PlaceSound, CorootType, ToldInv, [Next]_vars
             PROVE  ToldInv'
  OBVIOUS
<1> DEFINE Chain == \A s \in Node : coroot[s].linked \subseteq coroot[s].scraped
                                    /\ coroot[s].scraped \subseteq coroot[s].told
           Mine0(s) == {setup.all[i].node : i \in Targets(s)}
<1>0. Chain
  BY DEF ToldInv
<1>1. CASE Refuse \/ Again
  <2>1. UNCHANGED coroot /\ deploy'.at \in {"refused", "start"}
    BY <1>1, AgainEffect DEF Refuse, Goto, DeployType, Fields
  <2> QED BY <2>1 DEF ToldInv
<1>2. CASE Wipe
  <2>1. deploy'.at = "clusters" /\ deploy'.keep = deploy.keep
        /\ coroot' = IF deploy.keep THEN coroot ELSE [n \in Node |-> NoAgent]
    BY <1>2, WipeEffect
  <2>2. CASE deploy.keep
    BY <1>0, <2>1, <2>2 DEF ToldInv
  <2>3. CASE ~deploy.keep
    BY <2>1, <2>3 DEF ToldInv, NoAgent
  <2> QED BY <2>2, <2>3
<1>3. CASE BuildStep
  <2>1. /\ deploy.at \in Building /\ deploy'.keep = deploy.keep /\ setup' = setup
        /\ coroot' = coroot \/ \E n : coroot' = [coroot EXCEPT ![n] = NoAgent]
    BY <1>3, BuildStepEffect
  <2>2. \A s \in Node : coroot'[s] \in {coroot[s], NoAgent}
    BY <2>1 DEF CorootType
  <2>3. Chain'
    BY <1>0, <2>2 DEF NoAgent
  <2>4. ~deploy.keep => \A s \in Node : coroot'[s].told = {}
    BY <2>1, <2>2 DEF ToldInv, NoAgent, Building
  <2> QED BY <2>1, <2>3, <2>4 DEF ToldInv
<1>4. CASE CorootStep
  <2>0. deploy.at = "coroot" /\ deploy' = deploy
    BY <1>4, CorootStepEffect
  <2>1. Chain'
    <3> SUFFICES ASSUME NEW s \in Node
                 PROVE  coroot'[s].linked \subseteq coroot'[s].scraped
                        /\ coroot'[s].scraped \subseteq coroot'[s].told
      OBVIOUS
    <3>1. coroot[s].linked \subseteq coroot[s].scraped /\ coroot[s].scraped \subseteq coroot[s].told
      BY <1>0
    <3>2. /\ coroot[s].told \subseteq coroot'[s].told
          /\ coroot[s].scraped \subseteq coroot'[s].scraped
          /\ coroot'[s].scraped \subseteq coroot[s].scraped \cup coroot[s].told
          /\ coroot'[s].linked \in {coroot[s].linked, coroot[s].scraped}
      BY <1>4, AgentMoves
    <3> QED BY <3>1, <3>2
  <2>2. ASSUME ~deploy.keep, NEW s \in Node
        PROVE  coroot'[s].told \subseteq Mine0(s)'
    <3>1. coroot[s].told \subseteq Mine0(s)
      BY <2>0, <2>2 DEF ToldInv
    <3>2. CASE Begins
      <4>1. setup = NoSetup
        BY <3>2 DEF PlaceSound, Begins
      <4>2. coroot[s].told = {}
        BY <3>1, <4>1 DEF NoSetup, Targets
      <4> QED BY <3>2, <4>2 DEF Begins
    <3>3. CASE setup'.all = setup.all /\ setup'.servers = setup.servers
      <4>1. Mine0(s)' = Mine0(s)
        BY <3>3, SameRound
      <4>2. CASE coroot'[s].told = coroot[s].told
        BY <3>1, <4>1, <4>2
      <4>3. CASE setup.at = "instrument" /\ s = Server
                 /\ coroot'[s].told = coroot[s].told \cup {Target}
        <5>1. Target \in Mine0(Server)
          BY <4>3, TargetType DEF PlaceSound
        <5> QED BY <3>1, <4>1, <4>3, <5>1
      <4> QED BY <1>4, <4>2, <4>3, AgentMoves
    <3>4. Begins \/ (setup'.all = setup.all /\ setup'.servers = setup.servers)
      BY <1>4, RoundMoves DEF Starts, Stays, Leaves, Breaks, Kept, SetupType
    <3> QED BY <3>2, <3>3, <3>4
  <2> QED BY <2>0, <2>1, <2>2 DEF ToldInv
<1>5. CASE Done
  <2>1. UNCHANGED <<setup, coroot>> /\ deploy.at = "coroot" /\ deploy'.keep = deploy.keep
        /\ deploy'.at \in {"done", "failed"}
    BY <1>5 DEF Done, Goto, DeployType, Fields
  <2> QED BY <2>1 DEF ToldInv, Targets
<1>6. CASE RemoveNode
  <2>1. UNCHANGED <<deploy, setup>>
    BY <1>6, RemoveEffect
  <2>2. \A s \in Node : /\ coroot'[s].told = coroot[s].told
                        /\ coroot'[s].scraped \subseteq coroot[s].scraped
                        /\ coroot'[s].linked \subseteq coroot'[s].scraped
    BY <1>0, <1>6, RemoveEffect
  <2>3. Chain'
    <3> SUFFICES ASSUME NEW s \in Node
                 PROVE  coroot'[s].linked \subseteq coroot'[s].scraped
                        /\ coroot'[s].scraped \subseteq coroot'[s].told
      OBVIOUS
    <3> QED BY <1>0, <2>2
  <2> QED BY <2>1, <2>2, <2>3 DEF ToldInv, Targets
<1>7. CASE UNCHANGED vars
  BY <1>7 DEF vars, ToldInv, Targets
<1> QED BY <1>1, <1>2, <1>3, <1>4, <1>5, <1>6, <1>7, NextSteps

LEMMA TargetsFinite ==
  ASSUME SetupType, NEW s
  PROVE  IsFiniteSet(Targets(s))
<1>1. DOMAIN setup.all = 1..Len(setup.all) /\ Len(setup.all) \in Nat
  BY DEF SetupType
<1>2. IsFiniteSet(DOMAIN setup.all)
  BY <1>1, FS_Interval
<1> QED BY <1>2, FS_Subset DEF Targets

\* A server is left with its lone database linked, or late.
LEMMA LinkedNext ==
  DeployType /\ SetupType /\ PlaceSound /\ CorootType /\ ToldInv /\ LinkedInv /\ [Next]_vars
    => LinkedInv'
<1> SUFFICES ASSUME DeployType, SetupType, PlaceSound, CorootType, ToldInv, LinkedInv,
                    [Next]_vars,
                    deploy'.at \in {"coroot", "done"}, setup'.at # "failed", ~deploy'.keep
             PROVE  LinkedInv'
  BY DEF LinkedInv
<1> DEFINE Databases(m) == \E i \in Targets(m[1]) : m[2] = setup.all[i].node
           InRound(m) == deploy.at = "coroot" /\ m[1] = Server
                         /\ setup.at \in {"look", "instrument", "scrape", "relink"}
           Settled(m) == m[1] \in setup.late \/
             (Cardinality(Targets(m[1])) = 1 /\ m[2] \in There => m[2] \in coroot[m[1]].linked)
           Relinks == deploy.at = "coroot" /\ setup.at = "relink" =>
                        Server \in setup.late \/ coroot[Server].scraped # {}
           Always == Relinks /\ \A m \in setup.monitored :
                                  Databases(m) /\ (InRound(m) \/ Settled(m))
<1>a. Always' => LinkedInv'
  BY DEF LinkedInv
<1>b. deploy.at \in {"coroot", "done"} /\ setup.at # "failed" /\ ~deploy.keep => Always
  BY DEF LinkedInv
<1>0. \A m \in setup.monitored : m \in Node \X Node /\ m[1] \in Node
  BY DEF SetupType
<1>1. CASE Refuse \/ Wipe \/ Again
  BY <1>1, WipeEffect, AgainEffect DEF Refuse, Goto, DeployType, Fields
<1>2. CASE BuildStep
  <2>1. setup' = NoSetup
    BY <1>2, BuildStepEffect DEF PlaceSound, Building
  <2> QED BY <1>a, <2>1 DEF NoSetup
<1>3. CASE CorootStep
  <2>0. deploy.at = "coroot" /\ deploy' = deploy /\ ~deploy.keep /\ There' = There
    BY <1>3, CorootStepEffect DEF There
  <2>1. \A s \in Node : coroot[s].linked \subseteq coroot'[s].linked
                        /\ coroot[s].scraped \subseteq coroot'[s].scraped
    BY <1>3, AgentMoves DEF ToldInv
  <2>2. ASSUME setup'.servers = setup.servers, setup'.all = setup.all,
               setup.late \subseteq setup'.late, NEW m \in setup.monitored
        PROVE  (Databases(m) => Databases(m)') /\ (Settled(m) => Settled(m)')
    <3>1. Targets(m[1])' = Targets(m[1]) /\ m[1] \in Node
      BY <1>0, <2>2, SameRound
    <3> QED BY <2>0, <2>1, <2>2, <3>1
  <2>3. CASE Begins
    BY <1>a, <2>0, <2>3 DEF Begins
  <2>4. CASE Starts
    <3>1. setup'.servers = setup.servers /\ setup'.all = setup.all /\ setup'.late = setup.late
          /\ setup'.monitored = setup.monitored /\ setup'.at = "api" /\ setup.at = "agent"
      BY <2>4 DEF Starts, SetupType
    <3>2. \A m \in setup.monitored : Databases(m) /\ Settled(m)
      BY <1>b, <2>0, <3>1
    <3> QED BY <1>a, <2>2, <3>1, <3>2
  <2>5. CASE Stays
    <3>1. Kept /\ setup'.now = setup.now /\ setup.at # "failed"
          /\ setup'.at \in {"look", "instrument", "scrape", "relink"}
      BY <2>5 DEF Stays, Busy
    <3>2. Server' = Server /\ Targets(Server)' = Targets(Server) /\ Server \in Node
      BY <2>5, <3>1, SameRound, ServerType DEF Kept, Stays
    <3>3. Relinks'
      BY <2>1, <2>5, <3>2 DEF Stays
    <3>4. \A m \in setup.monitored : Databases(m)' /\ (InRound(m)' \/ Settled(m)')
      BY <1>b, <2>0, <2>2, <3>1, <3>2 DEF Kept
    <3>5. ASSUME NEW m \in setup'.monitored, m \notin setup.monitored
          PROVE  Databases(m)' /\ InRound(m)'
      <4>1. setup.at = "instrument" /\ m = <<Server, Target>>
        BY <2>5, <3>5 DEF Stays
      <4>2. Min(setup.targets) \in Targets(Server) /\ Target = setup.all[Min(setup.targets)].node
        BY <4>1, TargetType DEF PlaceSound
      <4>3. m[1] = Server /\ m[2] = Target
        BY <4>1
      <4>4. setup'.all = setup.all
        BY <3>1 DEF Kept
      <4>5. Databases(m)'
        BY <3>2, <4>2, <4>3, <4>4
      <4> QED BY <2>0, <3>1, <3>2, <4>3, <4>5
    <3> QED BY <1>a, <3>3, <3>4, <3>5
  <2>6. CASE Leaves
    <3>1. Kept /\ setup'.monitored = setup.monitored /\ setup'.at \in {"ended", "agent"}
          /\ setup.at \in {"relink", "api", "look"}
      BY <2>6 DEF Leaves
    <3>2. Server \in Node
      BY <3>1, ServerType DEF Busy
    <3>3. ASSUME NEW m \in setup.monitored
          PROVE  Databases(m) /\ (Settled(m)' \/ InRound(m))
      BY <1>b, <2>0, <2>2, <3>1 DEF Kept
    <3>4. ASSUME NEW m \in setup.monitored, InRound(m)
          PROVE  Settled(m)'
      <4>1. Databases(m) /\ m[1] = Server /\ setup.at \in {"relink", "look"}
        BY <3>1, <3>3, <3>4
      <4>2. CASE setup.at = "look"
        <5>1. m = <<Server, m[2]>>
          BY <1>0, <4>1
        <5> QED BY <2>6, <3>4, <4>1, <4>2, <5>1 DEF Leaves
      <4>3. CASE setup.at = "relink" /\ Server \in setup.late
        BY <3>1, <4>1, <4>3 DEF Kept
      <4>4. CASE setup.at = "relink" /\ Server \notin setup.late
        <5>1. coroot[Server].scraped # {}
          BY <1>b, <2>0, <4>4
        <5>2. coroot'[Server].linked = coroot[Server].scraped
          BY <2>6, <3>2, <4>4 DEF Leaves, Started, CorootType, AgentFields
        <5>3. coroot[Server].scraped \subseteq {setup.all[i].node : i \in Targets(Server)}
          BY <2>0, <3>2 DEF ToldInv
        <5>4. Targets(m[1])' = Targets(m[1])
          BY <3>1, SameRound DEF Kept
        <5>5. ASSUME Cardinality(Targets(Server)) = 1
              PROVE  m[2] \in coroot[Server].scraped
          <6>1. PICK i : Targets(Server) = {i}
            BY <5>5, TargetsFinite, FS_Singleton
          <6> QED BY <4>1, <5>1, <5>3, <6>1
        <5> QED BY <4>1, <5>2, <5>4, <5>5
      <4> QED BY <4>1, <4>2, <4>3, <4>4
    <3>5. \A m \in setup.monitored : Databases(m)'
      BY <2>2, <3>1, <3>3 DEF Kept
    <3> QED BY <1>a, <3>1, <3>3, <3>4, <3>5
  <2>7. CASE setup' = setup
    <3>1. Always
      BY <1>b, <2>0, <2>7
    <3>2. setup.at = "relink" => Server \in Node
      BY ServerType DEF Busy
    <3>3. Server' = Server
      BY <2>7 DEF Server
    <3>4. Relinks'
      BY <2>0, <2>1, <2>7, <3>1, <3>2, <3>3
    <3>5. \A m \in setup.monitored : Databases(m)' /\ (InRound(m)' \/ Settled(m)')
      BY <2>0, <2>2, <2>7, <3>1, <3>3
    <3> QED BY <1>a, <2>7, <3>4, <3>5
  <2>8. ~Breaks
    BY DEF Breaks, SetupType
  <2> QED BY <1>3, <2>3, <2>4, <2>5, <2>6, <2>7, <2>8, RoundMoves
<1>4. CASE Done
  <2>1. UNCHANGED <<containers, setup, coroot>> /\ deploy.at = "coroot" /\ deploy'.at = "done"
        /\ setup.at = "ended" /\ ~deploy.keep
    BY <1>4 DEF Done, Goto, world, DeployType, Fields
  <2>2. Always
    BY <1>b, <2>1
  <2>3. \A m \in setup.monitored : Databases(m) /\ Settled(m)
    BY <2>1, <2>2
  <2>4. \A m \in setup.monitored : Databases(m)' /\ Settled(m)'
    BY <2>1, <2>3 DEF Targets, There
  <2> QED BY <1>a, <2>1, <2>4
<1>5. CASE RemoveNode
  <2>1. UNCHANGED <<deploy, setup>> /\ deploy.at = "done" /\ There' \subseteq There
    BY <1>5, RemoveEffect DEF Ended
  <2>2. Always
    BY <1>b, <2>1
  <2>3. \A s \in Node : coroot[s].linked \cap There' \subseteq coroot'[s].linked
    BY <1>5, RemoveEffect
  <2>4. \A m \in setup.monitored : Databases(m) /\ Settled(m)
    BY <2>1, <2>2
  <2>5. \A m \in setup.monitored : Databases(m)' /\ Settled(m)'
    BY <1>0, <2>1, <2>3, <2>4 DEF Targets
  <2> QED BY <1>a, <2>1, <2>5
<1>6. CASE UNCHANGED vars
  BY <1>6 DEF vars, world, LinkedInv, Targets, Server, There
<1> QED BY <1>1, <1>2, <1>3, <1>4, <1>5, <1>6, NextSteps

-----------------------------------------------------------------------------
(* The theorems. *)

\* The invariant holds in every state of a deployment: the fields have their
\* types, a deploy finds what it found until it wipes, SetupCoroot stands in its
\* lists, its agents see every node, and know its databases.
THEOREM DeployAlways == Spec => []DeployInv
<1>1. Init => DeployInv
  BY DeployInit
<1>2. DeployInv /\ [Next]_vars => DeployInv'
  BY DeployTypeNext, PlaceNext, CorootNext, SeenNext, ToldNext, LinkedNext DEF DeployInv
<1> QED BY <1>1, <1>2, PTL DEF Spec

\* The deploy command validates before it touches anything: a command line that is
\* refused costs no container, sidecar, cluster or inventory.
THEOREM RefusalIsFree == Spec => []RejectedSparesEnvironment
<1>1. DeployInv => RejectedSparesEnvironment
  BY DEF DeployInv, Untouched, RejectedSparesEnvironment
<1> QED BY <1>1, DeployAlways, PTL

\* After a deploy that touches coroot servers, the agent of each has scanned with
\* every node running, whichever of its databases were found or given up.
THEOREM AgentsSeeAll == Spec => []CorootSeesEveryNode
<1>1. DeployInv => CorootSeesEveryNode
  <2> SUFFICES ASSUME DeployInv, deploy.at = "done", NEW s \in Range(setup.servers)
               PROVE  There \subseteq coroot[s].saw
    BY DEF CorootSeesEveryNode
  <2>1. PICK k \in DOMAIN setup.servers : s = setup.servers[k]
    BY DEF Range
  <2> QED BY <2>1 DEF DeployInv, SeenInv
<1> QED BY <1>1, DeployAlways, PTL

\* A database that a new coroot monitors alone, and reached before its deadline, is
\* linked to its client: the agent is started again only once it is scraped.
THEOREM MonitoringIsLinked == Spec => []MonitoredAreLinked
<1>1. DeployInv => MonitoredAreLinked
  <2> SUFFICES ASSUME DeployInv, deploy.at = "done", ~deploy.keep, NEW m \in setup.monitored,
                      m[1] \notin setup.late, Cardinality(Targets(m[1])) = 1, m[2] \in There
               PROVE  m[2] \in coroot[m[1]].linked
    BY DEF MonitoredAreLinked
  <2>1. setup.at # "failed"
    BY DEF DeployInv, PlaceSound
  <2> QED BY <2>1 DEF DeployInv, LinkedInv
<1> QED BY <1>1, DeployAlways, PTL
=============================================================================
