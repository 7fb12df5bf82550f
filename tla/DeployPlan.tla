----------------------------- MODULE DeployPlan -----------------------------
(***************************************************************************)
(* What `anydbver deploy` makes of its command line: the pure part of      *)
(* cmd/anydbver/anydbver.go, from the keywords to the nodes, the           *)
(* inventory and the databases to monitor.                                 *)
(*                                                                         *)
(* An item of the command line is a node separator or a keyword with its   *)
(* options: [word, version, opts, refs], opts a function from the options  *)
(* given to their values and refs the nodes of a keyword that takes a list *)
(* of them (mongos-shard:rs0/node1,node2).                                 *)
(***************************************************************************)
EXTENDS Integers, FiniteSets, Sequences, SequencesExt

CONSTANTS
  Node,          \* the names of nodes
  Number,        \* the number in each name
  Ip,            \* the address a node's container has
  Aliases,       \* keyword_aliases: from other words to keywords
  OptAliases,    \* subcmd_aliases: from other words to options
  ArgRows,       \* ansible_arguments: [cmd, opt, values, arg, default, orderno, always]
  K8sRows,       \* k8s_arguments: [cmd, opt]
  Operators,     \* the keywords that end in -operator
  DbType,        \* the databases coroot can scrape, with their types
  Imaged,        \* the keywords that have an image of their own to run
  Available,     \* the <<keyword, version>> the version database has for this machine
  Sourced        \* the keywords whose versions it knows

ASSUME DeployAssumption ==
  /\ Number \in [Node -> Nat] /\ \A m, n \in Node : Number[m] = Number[n] => m = n
  /\ DOMAIN Ip = Node /\ \A n \in Node : Ip[n] \notin Node \cup {""}
  /\ "node0" \in Node

Lists == {"mongos-shard", "mongos-cfg", "haproxy-pg", "haproxy-patroni", "pgbouncer"}

IsNode(item) == item.word \in Node

Renamed(alias, w) == IF w \in DOMAIN alias THEN alias[w] ELSE w

\* The command, version and options of an item.  Two names of one option give
\* it one value.
ParseDeploymentKeyword(item) ==
  LET cmd == Renamed(Aliases, item.word)
      given == {Renamed(OptAliases, o) : o \in DOMAIN item.opts}
      value(o) == CHOOSE v \in {item.opts[w] : w \in DOMAIN item.opts} :
                    \E w \in DOMAIN item.opts : Renamed(OptAliases, w) = o /\ item.opts[w] = v
      image == IF cmd = "coroot-server" /\ "docker-image" \notin given
               THEN {"docker-image"} ELSE {}
  IN  [cmd |-> cmd,
       version |-> IF cmd \in Lists \/ item.version # "" THEN item.version ELSE "latest",
       args |-> IF cmd \in Lists THEN <<>>
                ELSE [o \in given \cup image |-> IF o \in image THEN "" ELSE value(o)],
       refs |-> item.refs]

Has(kw, opt) == opt \in DOMAIN kw.args
IsImage(item) == Has(ParseDeploymentKeyword(item), "docker-image")

Keywords(line) == {i \in DOMAIN line : ~IsNode(line[i])}

-----------------------------------------------------------------------------
(* What is refused before anything is touched. *)

knownDeployKeywords ==
  {"os", "provider"} \cup DOMAIN Aliases \cup Range(Aliases)
    \cup {r.cmd : r \in ArgRows} \cup {r.cmd : r \in K8sRows}

goDeployOptions(cmd) ==
  CASE cmd = "k3d" -> {"nodes", "storage-path", "host-alias", "ingress-type", "ingress",
                       "registry-cache"}
    [] cmd = "coroot-client" -> {"server", "user", "password", "port"}
    [] OTHER -> {}

knownDeployOptions(cmd) ==
  {r.opt : r \in {r \in ArgRows : r.cmd = cmd}} \cup {r.opt : r \in {r \in K8sRows : r.cmd = cmd}}
    \cup goDeployOptions(cmd)

\* The variant that does not look up the names of options.
unknownDeployOptionsTyped(item) ==
  LET known == knownDeployOptions(item.word)
  IN  IF known = {} THEN {} ELSE DOMAIN item.opts \ (known \cup {"version", "expose", "docker-image"})

unknownDeployOptions(item) ==
  LET kw == ParseDeploymentKeyword(item)
      known == knownDeployOptions(kw.cmd)
  IN  IF Has(kw, "docker-image") \/ known = {} THEN {}
      ELSE DOMAIN kw.args \ (known \cup {"version", "expose"})

unavailable(item) ==
  LET kw == ParseDeploymentKeyword(item)
  IN  /\ kw.version \notin {"", "latest"} /\ ~Has(kw, "docker-image")
      /\ kw.cmd \in Sourced /\ <<kw.cmd, kw.version>> \notin Available

Verdict(line) ==
  IF \E i \in Keywords(line) : line[i].word \notin knownDeployKeywords THEN "unknown keyword"
  ELSE IF \E i \in Keywords(line) : unknownDeployOptions(line[i]) # {} THEN "unknown option"
  ELSE IF \E i \in Keywords(line) : unavailable(line[i]) THEN "unknown version"
  ELSE "deploy"

-----------------------------------------------------------------------------
(* The nodes. *)

NoOs == ""

\* The code keeps "node0=el8,node1=el9" and rewrites what its last = begins.
\* An entry whose system was taken away has no =, so the last system before it
\* is the one rewritten, and everything behind it goes.
SetLastOs(osvers, os) ==
  LET set == {i \in DOMAIN osvers : osvers[i].os # NoOs}
  IN  IF set = {} THEN osvers
      ELSE Append(SubSeq(osvers, 1, Max(set) - 1), [node |-> osvers[Max(set)].node, os |-> os])

\* The variant that keeps node0 next to a first node of another name.
NewNodeAfterFirst(plan, i, n) ==
  [plan EXCEPT !.osvers = Append(@, [node |-> n, os |-> "el8"]),
               !.current = n,
               !.provider[n] = "docker"]

NewNode(plan, i, n) ==
  [plan EXCEPT !.osvers = IF i = 1 THEN <<[node |-> n, os |-> "el8"]>>
                          ELSE Append(@, [node |-> n, os |-> "el8"]),
               !.current = n,
               !.provider[n] = "docker"]

\* A node that takes no container from this program.
Elsewhere(plan, provider) ==
  [plan EXCEPT !.provider[plan.current] = provider, !.osvers = SetLastOs(@, NoOs)]

WithCluster(plan) == [Elsewhere(plan, "kubectl") EXCEPT !.clusters = @ \cup {plan.current}]

\* The argument provider:kubectl; kubectl reads as an option.
IsKubectl(item) ==
  /\ item.word = "provider" /\ item.version = ""
  /\ DOMAIN item.opts = {"kubectl"} /\ item.opts["kubectl"] = ""

AddItem(plan, item) ==
  LET kw == ParseDeploymentKeyword(item)
      with == [plan EXCEPT !.defs[plan.current] = Append(@, item)]
  IN  CASE kw.cmd = "os" -> [with EXCEPT !.osvers = SetLastOs(@, item.version)]
        [] kw.cmd # "os" /\ Has(kw, "docker-image") -> Elsewhere(with, "docker-image")
        [] kw.cmd # "os" /\ ~Has(kw, "docker-image") ->
             IF Has(kw, "expose") THEN with
             ELSE IF kw.cmd = "k3d" THEN WithCluster(with)
             ELSE IF IsKubectl(item) THEN Elsewhere(with, "kubectl")
             ELSE IF plan.provider[plan.current] # "kubectl" /\ kw.cmd \in Operators
                  THEN WithCluster(with)
             ELSE with

NoPlan ==
  [osvers |-> <<[node |-> "node0", os |-> "el8"]>>, current |-> "node0", clusters |-> {},
   defs |-> [n \in Node |-> <<>>],
   provider |-> [n \in Node |-> IF n = "node0" THEN "docker" ELSE ""]]

Plan(line) ==
  FoldLeftDomain(LAMBDA plan, i : IF IsNode(line[i]) THEN NewNode(plan, i, line[i].word)
                                  ELSE AddItem(plan, line[i]),
                 NoPlan, line)

\* ConvertStringToMap: an entry without a system is none, the last of a node counts.
Containers(plan) ==
  LET set == {i \in DOMAIN plan.osvers : plan.osvers[i].os # NoOs}
      last(n) == Max({i \in set : plan.osvers[i].node = n})
  IN  [n \in {plan.osvers[i].node : i \in set} |-> plan.osvers[last(n)].os]

\* The nodes with items, by number.
Order(plan) ==
  LET hosts == {n \in Node : plan.defs[n] # <<>>}
      before(n) == {m \in hosts : Number[m] < Number[n]}
  IN  [k \in 1..Cardinality(hosts) |-> CHOOSE n \in hosts : Cardinality(before(n)) = k - 1]

-----------------------------------------------------------------------------
(* The inventory. *)

\* The inventory arguments a keyword leads to: the rows of the options given and
\* of those always added, one row per argument, each with the value given or the
\* default.  The series of a keyword without a version (defaultSeries in
\* Versions) stands in its row as the default.
ExecuteQueries(kw) ==
  LET args == IF kw.version = "latest" THEN kw.args ELSE kw.args @@ ("version" :> kw.version)
      value(r) == IF r.opt \in DOMAIN args /\ args[r.opt] # "" THEN args[r.opt] ELSE r.default
      fits(r) == /\ r.cmd = kw.cmd
                 /\ r.always \/ r.opt \in DOMAIN args
                 /\ \/ r.values = {}
                    \/ r.opt \in DOMAIN args /\ args[r.opt] \in r.values
                    \/ "version" \in DOMAIN args /\ args["version"] \in r.values
      fitting == {r \in ArgRows : fits(r)}
      row(a) == CHOOSE r \in fitting : r.arg = a /\ \A q \in fitting : q.arg = a => q.orderno <= r.orderno
  IN  {[arg |-> a, value |-> value(row(a)), refs |-> kw.refs] : a \in {r.arg : r \in fitting}}

\* An address that cannot be found is put in as nothing.
getNodeIp(n, there) == IF n \in there THEN Ip[n] ELSE ""

\* One pass of the substitution: the last name still left in each list.
ResolveLast(refs, there) ==
  LET names == {i \in DOMAIN refs : refs[i] \in Node}
  IN  IF names = {} THEN refs ELSE [refs EXCEPT ![Max(names)] = getNodeIp(refs[Max(names)], there)]

\* The variant that makes one pass.
ResolveOnce(refs, there) == ResolveLast(refs, there)

\* Passes until one changes nothing.
ResolveAll(refs, there) == FoldLeftDomain(LAMBDA r, i : ResolveLast(r, there), refs, refs)

\* Addresses for names.  An object store is addressed by its container's name.
Resolved(entry, there) ==
  LET name == IF entry.value = "default" THEN "node0" ELSE entry.value
      byName == entry.arg \in {"extra_minio_url", "extra_pbm_s3_url"}
  IN  [entry EXCEPT !.refs = ResolveAll(@, there),
                    !.value = IF name \in Node /\ ~byName THEN getNodeIp(name, there) ELSE @]

\* A master cannot lead itself.
WithoutSelf(kw, name) ==
  IF Has(kw, "master") /\ kw.args["master"] = name
  THEN [kw EXCEPT !.args = [o \in DOMAIN kw.args \ {"master"} |-> kw.args[o]]]
  ELSE kw

InventoryLine(plan, name, there) ==
  LET def == plan.defs[name]
      entries(i) == ExecuteQueries(WithoutSelf(ParseDeploymentKeyword(def[i]), name))
  IN  [host |-> name, ip |-> getNodeIp(name, there),
       args |-> UNION {{Resolved(e, there) : e \in entries(i)} : i \in DOMAIN def}]

-----------------------------------------------------------------------------
(* Coroot. *)

\* A node's last item with one of the keywords; <<>>: there is none.
LastOf(def, cmds) ==
  LET set == {i \in DOMAIN def : ParseDeploymentKeyword(def[i]).cmd \in cmds}
  IN  IF set = {} THEN <<>> ELSE <<ParseDeploymentKeyword(def[Max(set)])>>

CorootServers(plan) ==
  SelectSeq(Order(plan), LAMBDA n : LastOf(plan.defs[n], {"coroot-server"}) # <<>>)

\* A database that is deployed next to a coroot-client with a server.
buildCorootTargets(plan) ==
  LET client(n) == LastOf(plan.defs[n], {"coroot-client"})
      db(n) == LastOf(plan.defs[n], DOMAIN DbType)
      targets == SelectSeq(Order(plan), LAMBDA n : /\ client(n) # <<>> /\ db(n) # <<>>
                                                   /\ Has(client(n)[1], "server"))
  IN  [i \in DOMAIN targets |->
         [node |-> targets[i], server |-> client(targets[i])[1].args["server"],
          type |-> DbType[db(targets[i])[1].cmd]]]

\* The servers of SetupCoroot: those deployed, then those clients name.
SetupServers(deployed, targets) ==
  FoldLeft(LAMBDA servers, t : IF Contains(servers, t.server) THEN servers
                               ELSE Append(servers, t.server),
           deployed, targets)
=============================================================================
