---------------------------- MODULE MCDeployment ----------------------------
(* Rows, aliases and command lines in the shapes the repository has. *)
EXTENDS Deployment

item(word, version, opts, refs) == [word |-> word, version |-> version, opts |-> opts, refs |-> refs]
plain(word) == item(word, "", <<>>, <<>>)
with(word, opts) == item(word, "", opts, <<>>)

MCNumber == [n \in Node |-> CASE n = "node0" -> 0 [] n = "node1" -> 1 [] OTHER -> 2]
MCIp == [n \in Node |-> CASE n = "node0" -> "ip0" [] n = "node1" -> "ip1" [] OTHER -> "ip2"]
MCAliases ==
  "pg" :> "postgresql" @@ "k8s-pg" :> "pg-operator" @@ "coroot" :> "coroot-server" @@
  "psmdb" :> "percona-server-mongodb" @@ "pxc" :> "percona-xtradb-cluster"
MCOptAliases == "primary" :> "master"

row(cmd, opt, arg, default, orderno, always) ==
  [cmd |-> cmd, opt |-> opt, values |-> {}, arg |-> arg, default |-> default,
   orderno |-> orderno, always |-> always]

\* A row with a version_filter other than %.
filtered(cmd, opt, values, arg, default, orderno, always) ==
  [row(cmd, opt, arg, default, orderno, always) EXCEPT !.values = values]

MCArgRows ==
  {row("postgresql", "version", "extra_postgresql_version", "18", 1, TRUE),
   row("postgresql", "master", "extra_master_ip", "", 1, FALSE),
   row("mariadb", "opts-file", "extra_db_opts_file", "async.cnf", 1, TRUE),
   row("mariadb", "galera", "extra_replication_type", "galera", 2, FALSE),
   row("mariadb", "galera", "extra_db_opts_file", "galera.cnf", 2, FALSE),
   row("mongos-shard", "version", "extra_mongos_shard", "", 1, TRUE),
   row("percona-server-mongodb", "version", "extra_psmdb_version", "8.0", 1, TRUE),
   row("percona-server-mongodb", "replica-set", "extra_mongo_replicaset", "", 1, FALSE),
   filtered("percona-server-mongodb", "role", {"shard"}, "extra_mongo_shardsrv", "1", 1, FALSE),
   filtered("percona-server-mongodb", "role", {"cfg"}, "extra_mongo_configsrv", "1", 1, FALSE),
   row("percona-xtradb-cluster", "version", "extra_percona_xtradb_cluster_version", "8.4", 1, TRUE),
   row("percona-xtradb-cluster", "opts-file", "extra_db_opts_file", "async.cnf", 1, TRUE),
   filtered("percona-xtradb-cluster", "opts-file", {"5.7"}, "extra_db_opts_file", "pxc5657.cnf",
            2, TRUE)}
MCK8sRows == {[cmd |-> "pg-operator", opt |-> "version"], [cmd |-> "k3d", opt |-> "version"],
              [cmd |-> "coroot-client", opt |-> "server"]}
MCAvailable == {<<"postgresql", "17">>}
MCDbType == "postgresql" :> "postgres"

Nodes == {plain("node0"), plain("node1")}
Follower(n) == with("pg", "primary" :> n)
Shards == item("mongos-shard", "", <<>>, <<"node0", "node1">>)
Galera == with("mariadb", "galera" :> "")
Doc == with("pg", "docker-image" :> "")
Pinned == item("pg", "17", <<>>, <<>>)
Missing == item("pg", "99", <<>>, <<>>)
Typo == with("pg", "mater" :> "node0")
Client == with("coroot-client", "server" :> "node0")
El9 == item("os", "el9", <<>>, <<>>)
Mongo(role) == with("psmdb", "replica-set" :> "rs0" @@ "role" :> role)
Pxc57(opts) == item("pxc", "5.7", opts, <<>>)
Provider(name) == with("provider", name :> "")

\* What makes short lines.
Items == Nodes \cup {plain("pg"), Follower("node0"), Doc, plain("k3d"), El9}

Lines(n) == UNION {[1..k -> Items] : k \in 0..n}

MCCommandLines ==
  Lines(3) \cup
  {<<plain("galera-master")>>, <<Missing>>, <<Galera, Typo>>, <<Galera>>, <<plain("k8s-pg"), plain("node1"), Pinned>>,
   <<plain("pg"), plain("node1"), Follower("node0"), plain("node2"), Follower("node1")>>,
   <<plain("pg"), plain("node1"), Doc, plain("node2"), Shards>>,
   <<plain("coroot"), plain("node1"), plain("pg"), Client>>,
   <<plain("coroot"), plain("node1"), plain("pg"), Client, plain("node2"), Doc, Client>>,
   <<plain("pg"), plain("node1"), Doc, Client>>,
   <<Mongo("shard"), plain("node1"), Mongo("cfg")>>, <<Mongo("mongos")>>,
   <<Pxc57("opts-file" :> "my.cnf")>>, <<Pxc57("opts-file" :> ""), plain("node1"), Pxc57(<<>>)>>,
   <<plain("pg"), plain("node1"), Provider("kubectl"), plain("k8s-pg")>>,
   <<plain("node1"), Provider("docker"), plain("pg")>>}

MCNextLines ==
  {<<Typo>>, <<plain("node2"), plain("pg")>>,
   <<plain("coroot"), plain("node1"), plain("pg"), Client>>}
=============================================================================
