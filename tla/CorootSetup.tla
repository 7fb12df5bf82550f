---------------------------- MODULE CorootSetup ----------------------------
(***************************************************************************)
(* The last step of a deploy: pkg/unmodified_docker/coroot-client.go       *)
(* starts the node-agent of each coroot server, waits for coroot to notice *)
(* each database, switches its monitoring on, waits until the databases    *)
(* are scraped and starts the agent once more.                             *)
(*                                                                         *)
(* Coroot itself is external.  It notices a container some time after an   *)
(* agent that saw it at its own start has reported it, and scrapes a       *)
(* database some time after it was told to; both may take for ever.  An    *)
(* agent records the connections that exist when it starts.                *)
(***************************************************************************)
EXTENDS DeployPlan

CONSTANT
  Patience       \* the looks within a deadline of three minutes

ASSUME PatienceAssumption == Patience \in Nat

VARIABLES
  setup,         \* the command: [at, servers, now, all, targets, looks, monitored, late]
  coroot         \* for each server: [agent, saw, linked, known, told, scraped]

NoAgent ==
  [agent |-> FALSE, saw |-> {}, linked |-> {}, known |-> {}, told |-> {}, scraped |-> {}]

NoSetup ==
  [at |-> "idle", servers |-> <<>>, now |-> 1, all |-> <<>>, targets |-> {}, looks |-> 0,
   monitored |-> {}, late |-> {}]

Server == setup.servers[setup.now]
Target == setup.all[Min(setup.targets)].node

\* The databases of a server, by their places in the list.
Targets(server) == {i \in DOMAIN setup.all : setup.all[i].server = server}

NextTarget(s) == [s EXCEPT !.targets = @ \ {Min(@)}, !.looks = 0]

\* On to the next server, or the end.
Onward(s) ==
  [s EXCEPT !.now = @ + 1, !.targets = {}, !.looks = 0,
            !.at = IF s.now = Len(s.servers) THEN "ended" ELSE "agent"]

\* SetupCoroot begins with its list of servers and of databases.
SetupCoroot(servers, targets) ==
  /\ setup.at = "idle"
  /\ setup' = [NoSetup EXCEPT !.at = IF servers = <<>> THEN "ended" ELSE "agent",
                              !.servers = servers, !.all = targets]
  /\ UNCHANGED coroot

\* An agent starts, or stops and starts: it scans what runs now.
Started(a, there) == [a EXCEPT !.agent = TRUE, !.saw = there, !.linked = a.scraped]

\* The variant that leaves alone an agent that runs before the deploy.
StartCorootNodeAgentIfAbsent(there) ==
  /\ setup.at \in {"agent", "relink"}
  /\ coroot' = IF setup.at = "agent" /\ coroot[Server].agent THEN coroot
               ELSE [coroot EXCEPT ![Server] = Started(@, there)]
  /\ setup' = IF setup.at = "agent" THEN [setup EXCEPT !.at = "api"] ELSE Onward(setup)

StartCorootNodeAgent(there) ==
  /\ setup.at \in {"agent", "relink"}
  /\ coroot' = [coroot EXCEPT ![Server] = Started(@, there)]
  /\ setup' = IF setup.at = "agent" THEN [setup EXCEPT !.at = "api"] ELSE Onward(setup)

\* A docker command of StartCorootNodeAgent fails and takes the program along:
\* docker stop, and the agent that ran goes on, or docker start, and it stays
\* stopped.
NodeAgentFails ==
  /\ setup.at \in {"agent", "relink"}
  /\ setup' = [setup EXCEPT !.at = "failed"]
  /\ coroot' \in {coroot, [coroot EXCEPT ![Server].agent = FALSE]}

\* corootServerURL, newCorootApi and projectId succeed on a server that runs.
Api(there) ==
  /\ setup.at = "api" /\ Server \in there
  /\ setup' = [setup EXCEPT !.at = "look", !.targets = Targets(Server), !.looks = 0]
  /\ UNCHANGED coroot

\* One of them fails: nothing is monitored from this server.
NoApi ==
  /\ setup.at = "api"
  /\ setup' = [Onward(setup) EXCEPT !.late = @ \cup {Server}]
  /\ UNCHANGED coroot

\* appId finds the application.
appId ==
  /\ setup.at = "look" /\ setup.targets # {} /\ Target \in coroot[Server].known
  /\ setup' = [setup EXCEPT !.at = "instrument", !.looks = 0]
  /\ UNCHANGED coroot

\* The variant without the deadline.
NotYetForEver ==
  /\ setup.at = "look" /\ setup.targets # {} /\ Target \notin coroot[Server].known
  /\ UNCHANGED <<setup, coroot>>

\* It does not: sleep, or give the database up at the deadline.
NotYet ==
  /\ setup.at = "look" /\ setup.targets # {} /\ Target \notin coroot[Server].known
  /\ setup' = IF setup.looks < Patience THEN [setup EXCEPT !.looks = @ + 1]
              ELSE NextTarget(setup)
  /\ UNCHANGED coroot

Instrument ==
  /\ setup.at = "instrument"
  /\ coroot' = [coroot EXCEPT ![Server].told = @ \cup {Target}]
  /\ setup' = [NextTarget(setup) EXCEPT !.at = "look", !.monitored = @ \cup {<<Server, Target>>}]

InstrumentFails ==
  /\ setup.at = "instrument"
  /\ setup' = [NextTarget(setup) EXCEPT !.at = "look"]
  /\ UNCHANGED coroot

\* Every database was looked for.
Registered ==
  /\ setup.at = "look" /\ setup.targets = {}
  /\ setup' = IF \E i \in Targets(Server) : <<Server, setup.all[i].node>> \in setup.monitored
              THEN [setup EXCEPT !.at = "scrape"] ELSE Onward(setup)
  /\ UNCHANGED coroot

\* The variant that does not wait.
waitForNothing ==
  /\ setup.at = "scrape"
  /\ setup' = [setup EXCEPT !.at = "relink"]
  /\ UNCHANGED coroot

\* The log of the cluster-agent shows a collection, or the deadline passes.
waitForClusterAgentScrape ==
  /\ setup.at = "scrape"
  /\ setup' = IF coroot[Server].scraped # {} THEN [setup EXCEPT !.at = "relink"]
              ELSE IF setup.looks < Patience THEN [setup EXCEPT !.looks = @ + 1]
              ELSE [setup EXCEPT !.at = "relink", !.late = @ \cup {Server}]
  /\ UNCHANGED coroot

SetupStep(there) ==
  \/ StartCorootNodeAgent(there)
  \/ Api(there) \/ NoApi \/ appId \/ NotYet \/ Instrument \/ Registered \/ waitForClusterAgentScrape

SetupFails == NodeAgentFails \/ InstrumentFails

\* The world.
Discover ==
  /\ \E s \in Node : \E n \in coroot[s].saw \ coroot[s].known :
       /\ coroot[s].agent
       /\ coroot' = [coroot EXCEPT ![s].known = @ \cup {n}]
  /\ UNCHANGED setup

Scrape ==
  /\ \E s \in Node : \E n \in coroot[s].told \ coroot[s].scraped :
       coroot' = [coroot EXCEPT ![s].scraped = @ \cup {n}]
  /\ UNCHANGED setup
=============================================================================
