------------------------------ MODULE VersionDB ------------------------------
(***************************************************************************)
(* The local version database, and the commands that make, refresh and     *)
(* read it.  It is a file made from a downloaded SQL dump; whether it is    *)
(* there is all a command checks.  `update` removes it and makes it again,  *)
(* `update PROGRAM` adds rows scraped from package repositories.  Nothing   *)
(* but SQLite's own locking keeps two commands apart.                      *)
(* (pkg/common/profile.go, pkg/version_fetch/version_fetch.go, the root    *)
(* and update commands of cmd/anydbver/anydbver.go.)                       *)
(*                                                                         *)
(* The dump is one transaction (Base) followed by statements of their own  *)
(* (Late), some of which create tables.                                    *)
(***************************************************************************)
EXTENDS Versions

CONSTANTS
  Proc,          \* anydbver processes
  Late,          \* the statements behind the dump's COMMIT: [source, rows]
  Base,          \* the rows the dump's transaction inserts
  OldRows,       \* the rows of a dump installed earlier
  Series,        \* version_series, the same in both dumps
  Self,          \* the source that holds anydbver's own release
  Binary,        \* the release of the program that runs
  Sites,         \* the package repositories, as a sequence
  ThisArch       \* the architecture of this machine

\* A site: [source, os, arch, deb, offers], offers a set of [name, version].
ASSUME VersionDBAssumption ==
  /\ Base \subseteq Row /\ OldRows \subseteq Row
  /\ \A r \in Base : r.source \notin Hub
  /\ Late \in Seq([source : Source \ Hub, rows : SUBSET Row])
  /\ Sites \in Seq([source : Source, os : OS, arch : Arch, deb : BOOLEAN,
                    offers : SUBSET [name : Seq(Symbol), version : Seq(Symbol)]])
  /\ Self \in Source \ Hub /\ ThisArch \in Arch

VARIABLES
  file,         \* the database: whether it is there, its tables, its rows
  at,           \* where each process stands
  cmd,          \* the command it runs
  own,          \* whether update has removed the file and makes the new one
  line,         \* the late statement it executes, or the site it fetches
  left,         \* the rows it has still to write for that site
  orphan,       \* whether the file it has open was removed
  undisturbed   \* history: it runs alone, and every download was the dump

vars == <<file, at, cmd, own, line, left, orphan, undisturbed>>

NoFile == [there |-> FALSE, tables |-> {}, rows |-> {}]

LateSources == {Late[i].source : i \in DOMAIN Late} \ {r.source : r \in Base}
DumpRows == Base \cup UNION {Late[i].rows : i \in DOMAIN Late}
Installed(rows) == [there |-> TRUE, tables |-> Source \ Hub, rows |-> rows]
Whole == file = Installed(DumpRows)

TypeOK ==
  /\ file \in [there : BOOLEAN, tables : SUBSET Source, rows : SUBSET Row]
  /\ at \in [Proc -> {"idle", "stat", "download", "populate", "commit", "late", "version",
                      "run", "site", "replace", "done"}]
  /\ cmd \in [Proc -> {"read", "update", "fetch"}]
  /\ own \in [Proc -> BOOLEAN]
  /\ line \in [Proc -> Nat] /\ left \in [Proc -> SUBSET Row]
  /\ orphan \in [Proc -> BOOLEAN] /\ undisturbed \in [Proc -> BOOLEAN]

Init ==
  /\ file \in {NoFile, Installed(OldRows)}
  /\ at = [p \in Proc |-> "idle"]
  /\ cmd = [p \in Proc |-> "read"]
  /\ own = [p \in Proc |-> FALSE]
  /\ line = [p \in Proc |-> 1]
  /\ left = [p \in Proc |-> {}]
  /\ orphan = [p \in Proc |-> FALSE]
  /\ undisturbed = [p \in Proc |-> FALSE]

-----------------------------------------------------------------------------
Go(p, where) == at' = [at EXCEPT ![p] = where]

\* sqlite makes the file it opens.
Opened == [file EXCEPT !.there = TRUE]

\* What p writes goes to the file it opened, which may be gone.
Written(p, f) == IF orphan[p] THEN file ELSE f

\* Another process may hold the lock of the file p writes to.
Busy(p) ==
  ~orphan[p] /\ \E q \in Proc \ {p} : ~orphan[q] /\ at[q] \in {"commit", "late", "replace"}

Start(p, c) ==
  /\ at[p] = "idle"
  /\ Go(p, "stat")
  /\ cmd' = [cmd EXCEPT ![p] = c]
  /\ undisturbed' = [q \in Proc |-> q = p /\ \A r \in Proc : at[r] = "idle"]
  /\ UNCHANGED <<file, own, line, left, orphan>>

\* GetDatabasePath: a file that is there is taken as it is.
GetDatabasePath(p) ==
  /\ at[p] = "stat"
  /\ Go(p, IF file.there THEN "version" ELSE "download")
  /\ UNCHANGED <<file, cmd, own, line, left, orphan, undisturbed>>

DownloadFails(p) ==
  /\ at[p] = "download"
  /\ Go(p, IF own[p] THEN "done" ELSE "version")
  /\ undisturbed' = [undisturbed EXCEPT ![p] = FALSE]
  /\ UNCHANGED <<file, cmd, own, line, left, orphan>>

\* An answer that is no dump (an error page: the status is not looked at) is
\* executed like one.  That ends the command and leaves the opened file behind.
DownloadsPage(p) ==
  /\ at[p] = "download"
  /\ Go(p, "done")
  /\ file' = Opened
  /\ undisturbed' = [undisturbed EXCEPT ![p] = FALSE]
  /\ UNCHANGED <<cmd, own, line, left, orphan>>

DownloadsDump(p) ==
  /\ at[p] = "download"
  /\ Go(p, "populate")
  /\ UNCHANGED <<file, cmd, own, line, left, orphan, undisturbed>>

OpenDatabase(p) ==
  /\ at[p] = "populate"
  /\ Go(p, "commit")
  /\ file' = Opened
  /\ orphan' = [orphan EXCEPT ![p] = FALSE]
  /\ UNCHANGED <<cmd, own, line, left, undisturbed>>

\* The transaction.
Commit(p) ==
  /\ at[p] = "commit"
  /\ orphan[p] \/ file.tables = {}
  /\ Go(p, "late")
  /\ file' = Written(p, [there |-> TRUE, tables |-> Source \ (Hub \cup LateSources),
                         rows |-> Base])
  /\ line' = [line EXCEPT ![p] = 1]
  /\ UNCHANGED <<cmd, own, left, orphan, undisturbed>>

ExecuteLate(p) ==
  /\ at[p] = "late" /\ line[p] \in DOMAIN Late
  /\ file' = Written(p, [file EXCEPT !.tables = @ \cup {Late[line[p]].source},
                                     !.rows = @ \cup Late[line[p]].rows])
  /\ line' = [line EXCEPT ![p] = @ + 1]
  /\ UNCHANGED <<at, cmd, own, left, orphan, undisturbed>>

\* The script fails on tables that are there or on a lock, and ends the command.
ScriptFails(p) ==
  /\ \/ at[p] = "commit" /\ (orphan[p] \/ file.tables # {} \/ Busy(p))
     \/ at[p] = "late" /\ Busy(p)
  /\ Go(p, "done")
  /\ UNCHANGED <<file, cmd, own, line, left, orphan, undisturbed>>

Populated(p) ==
  /\ at[p] = "late" /\ line[p] \notin DOMAIN Late
  /\ Go(p, IF own[p] THEN "done" ELSE "version")
  /\ UNCHANGED <<file, cmd, own, line, left, orphan, undisturbed>>

-----------------------------------------------------------------------------
\* The release the database was made for: the last in text order.
DatabaseVersion(f) ==
  LET own_rows == {r \in f.rows : r.source = Self}
  IN  IF own_rows = {} THEN <<>>
      ELSE (CHOOSE r \in own_rows : \A q \in own_rows : ~TextLess(r.version, q.version)).version

\* The root command's "Version database update is available".
Nags == DatabaseVersion(file) # <<>> /\ versionLess(DatabaseVersion(file), Binary)

\* Every command reads the release first, which makes an empty file of none.
ReadDatabaseVersion(p) ==
  /\ at[p] = "version"
  /\ Go(p, "run")
  /\ file' = Opened
  /\ line' = [line EXCEPT ![p] = 1]
  /\ UNCHANGED <<cmd, own, left, orphan, undisturbed>>

\* A command that only reads: versions, deploy, ...
Reads(p) ==
  /\ at[p] = "run" /\ cmd[p] = "read"
  /\ Go(p, "done")
  /\ UNCHANGED <<file, cmd, own, line, left, orphan, undisturbed>>

\* The variant of RemoveDatabase: the new dump goes over the old database.
RemoveNothing(p) ==
  /\ at[p] = "run" /\ cmd[p] = "update"
  /\ Go(p, "download")
  /\ own' = [own EXCEPT ![p] = TRUE]
  /\ UNCHANGED <<file, cmd, line, left, orphan, undisturbed>>

RemoveDatabase(p) ==
  /\ at[p] = "run" /\ cmd[p] = "update"
  /\ Go(p, "download")
  /\ file' = NoFile
  /\ own' = [own EXCEPT ![p] = TRUE]
  /\ orphan' = [q \in Proc |-> at[q] \in {"commit", "late", "replace"} \/ orphan[q]]
  /\ UNCHANGED <<cmd, line, left, undisturbed>>

\* getProgramUrls: without the sites' table there is nothing to fetch.
getProgramUrls(p) ==
  /\ at[p] = "run" /\ cmd[p] = "fetch"
  /\ Go(p, IF file.tables = {} THEN "done" ELSE "site")
  /\ file' = Opened
  /\ UNCHANGED <<cmd, own, line, left, orphan, undisturbed>>

\* The variant of SiteRows: every package has a row of its own.
SiteRowsPerPackage(site) ==
  {[source |-> site.source, version |-> extractBaseVersion(o.version), os |-> site.os,
    arch |-> site.arch, packages |-> {o.name}] : o \in site.offers}

\* One row per base version of an RPM repository, with all its packages; one
\* per package of a Debian one.
SiteRows(site) ==
  LET row(v, pkgs) == [source |-> site.source, version |-> v, os |-> site.os,
                       arch |-> site.arch, packages |-> pkgs]
      base == {extractBaseVersion(o.version) : o \in site.offers}
  IN  IF site.deb THEN {row(o.version, {o.name}) : o \in site.offers}
      ELSE {row(v, {o.name : o \in {o \in site.offers : extractBaseVersion(o.version) = v}}) :
              v \in base}

FetchSite(p) ==
  /\ at[p] = "site" /\ line[p] \in DOMAIN Sites
  /\ Go(p, "replace")
  /\ left' = [left EXCEPT ![p] = SiteRows(Sites[line[p]])]
  /\ file' = Opened
  /\ orphan' = [orphan EXCEPT ![p] = FALSE]
  /\ UNCHANGED <<cmd, own, line, undisturbed>>

\* The variant of Replace: the rows of the platform are deleted with the first new one.
ReplacePlatform(p) ==
  /\ at[p] = "replace" /\ (orphan[p] \/ file.tables # {})
  /\ \E r \in left[p] :
       /\ file' = Written(p, [file EXCEPT !.rows =
                                {q \in @ : <<q.source, q.os, q.arch>> # <<r.source, r.os, r.arch>>}
                                  \cup {r}])
       /\ left' = [left EXCEPT ![p] = @ \ {r}]
  /\ UNCHANGED <<at, cmd, own, line, orphan, undisturbed>>

\* REPLACE INTO, in any order: Go walks a map.
Replace(p) ==
  /\ at[p] = "replace" /\ (orphan[p] \/ file.tables # {})
  /\ \E r \in left[p] :
       /\ file' = Written(p, [file EXCEPT !.rows = {q \in @ : Key(q) # Key(r)} \cup {r}])
       /\ left' = [left EXCEPT ![p] = @ \ {r}]
  /\ UNCHANGED <<at, cmd, own, line, orphan, undisturbed>>

NextSite(p) ==
  /\ at[p] = "replace" /\ left[p] = {}
  /\ Go(p, "site")
  /\ line' = [line EXCEPT ![p] = @ + 1]
  /\ UNCHANGED <<file, cmd, own, left, orphan, undisturbed>>

\* The first site that does not answer, or row that is refused, ends the fetch.
FetchFails(p) ==
  /\ \/ at[p] = "site" /\ line[p] \in DOMAIN Sites
     \/ at[p] = "replace" /\ left[p] # {} /\ (orphan[p] \/ file.tables = {} \/ Busy(p))
  /\ Go(p, "done")
  /\ UNCHANGED <<file, cmd, own, line, left, orphan, undisturbed>>

Fetched(p) ==
  /\ at[p] = "site" /\ line[p] \notin DOMAIN Sites
  /\ Go(p, "done")
  /\ UNCHANGED <<file, cmd, own, line, left, orphan, undisturbed>>

\* A process that ended, or that Ctrl-C or a kill ends between any two steps.
Gone(p) ==
  /\ Go(p, "idle")
  /\ cmd' = [cmd EXCEPT ![p] = "read"]
  /\ own' = [own EXCEPT ![p] = FALSE]
  /\ line' = [line EXCEPT ![p] = 1]
  /\ left' = [left EXCEPT ![p] = {}]
  /\ orphan' = [orphan EXCEPT ![p] = FALSE]
  /\ undisturbed' = [undisturbed EXCEPT ![p] = FALSE]
  /\ UNCHANGED file

Ends(p) == at[p] = "done" /\ Gone(p)

Interrupt(p) == at[p] \notin {"idle", "done"} /\ Gone(p)

Step(p) ==
  \/ GetDatabasePath(p) \/ DownloadFails(p) \/ DownloadsPage(p) \/ DownloadsDump(p)
  \/ OpenDatabase(p) \/ Commit(p) \/ ExecuteLate(p) \/ ScriptFails(p) \/ Populated(p)
  \/ ReadDatabaseVersion(p) \/ Reads(p) \/ RemoveDatabase(p)
  \/ getProgramUrls(p) \/ FetchSite(p) \/ Replace(p) \/ NextSite(p) \/ FetchFails(p)
  \/ Fetched(p) \/ Ends(p) \/ Interrupt(p)

Next == \E p \in Proc : Step(p) \/ \E c \in {"read", "update", "fetch"} : Start(p, c)

Spec == Init /\ [][Next]_vars

-----------------------------------------------------------------------------
(* Properties. *)

Packaged == {s \in Source \ (Operators \cup Hub) : \E r \in DumpRows : r.source = s /\ r.os # Blank}

\* An update that ran alone and was given the dump leaves the whole of it,
\* whatever it found: an empty file, a half-made one, rows fetched since.
UpdateRepairs ==
  \A p \in Proc : at[p] = "done" /\ cmd[p] = "update" /\ undisturbed[p] => Whole

\* A row is lost only with the file: what `update PROGRAM` adds, also when it
\* fails half-way or races another, replaces rows of the same key and no others.
FetchForgetsNothing ==
  [][\A r \in file.rows : \/ ~file'.there
                         \/ \E q \in file'.rows : Key(q) = Key(r)]_vars

\* The row fetched for an RPM version names every package the repository has
\* of it, in every state a half-done fetch may leave behind.
FetchedRowsAreComplete ==
  \A i \in DOMAIN Sites : ~Sites[i].deb =>
    \A r \in file.rows \ (DumpRows \cup OldRows) : \A q \in SiteRows(Sites[i]) :
      Key(r) = Key(q) => r = q

\* Each version of a platform is offered by one RPM repository: those of PostgreSQL
\* are one per major version.
OneSitePerVersion ==
  \A i, j \in DOMAIN Sites : i # j /\ ~Sites[i].deb =>
    \A q \in SiteRows(Sites[i]), r \in SiteRows(Sites[j]) : Key(q) # Key(r)

\* What anydbver shows can be deployed.  Each version `versions` lists for a
\* platform passes the check `deploy` makes and is found by the role there, so is
\* each raw version of --all on the platforms shown with it, and what a refused
\* deployment suggests instead is not refused in its turn.
ListedIsDeployable ==
  \A s \in Packaged :
    LET rows == {r \in file.rows : r.source = s}
        all == printVersionAll(rows, Blank, Blank)
    IN  /\ \A os \in OS, arch \in Arch : \A v \in Range(distinctVersions(rows, s, os, arch)) :
             /\ versionAvailability(file.rows, s, v, arch).forArch
             /\ PackageInfo(file.rows, s, v, os, arch) # {}
        /\ \A v \in DOMAIN all : \A on \in all[v] :
             PackageInfo(file.rows, s, v, on[1], on[2]) # {}
        /\ \A v \in Range(knownVersionsForArch(rows, s, ThisArch, 3)) :
             versionAvailability(file.rows, s, v, ThisArch).forArch

\* "tip: deploy with pg:18 (anydbver picks the newest build for your OS/arch)":
\* for the major of each version of --latest the role picks no version older than
\* it, although the listing and the role's query each order versions in their way.
TipDeploysNewest ==
  \A s \in Packaged \cap Strip, os \in OS, arch \in Arch :
    LET shown == printVersionDetail({r \in file.rows : r.source = s}, s, os, arch, TRUE)
    IN  \A v \in Range(shown.versions) :
          \A r \in PackageInfo(file.rows, s, majorOf(v), os, arch) : ~versionLess(r.version, v)

\* A keyword without a version deploys the series no other of its status is
\* newer than, and of it the newest version there is for the platform.
UnpinnedDeploysNewest ==
  \A s \in Packaged, os \in OS, arch \in Arch :
    LET d == defaultSeries(Series, s)
        at_hand == {r \in file.rows : r.source = s /\ r.os = os /\ r.arch = arch}
        inSeries == {r \in at_hand : Like(r.version, d)}
        status == IF \E t \in Series : t.source = s /\ t.status = "lts" THEN "lts" ELSE "ga"
    IN  \A r \in PackageInfo(file.rows, s, d, os, arch) :
          /\ \A q \in inSeries : ~versionLess(r.version, q.version)
          /\ \A t \in Series : t.source = s /\ t.status = status => ~versionLess(d, t.series)

\* The program asks for an update exactly while it runs on the database of an
\* older release, whichever commands were killed or failed before.
NagsWhileOld ==
  \A r \in file.rows : r.source = Self => (Nags <=> r \in OldRows \ DumpRows)

OwnRows(rows) == {r \in rows : r.source = Self}

\* A dump names the one release it was made for, and in its transaction.
OneRelease ==
  /\ \E r \in Base : OwnRows(DumpRows) = {r}
  /\ \A r \in OwnRows(OldRows) : OwnRows(OldRows) = {r}
  /\ \A i \in DOMAIN Late : OwnRows(Late[i].rows) = {}
  /\ \A i \in DOMAIN Sites : Sites[i].source # Self

\* The dump is for this program, an earlier one was for an earlier one.
ReleasesInOrder ==
  /\ \A r \in OwnRows(DumpRows) : ~versionLess(r.version, Binary)
  /\ \A r \in OwnRows(OldRows) : r.version # <<>> /\ versionLess(r.version, Binary)

\* instructions.md: "anydbver deploy ps:8.4.5     # exact version".
ExactVersionIsExact ==
  \A s \in Packaged, os \in OS, arch \in Arch :
    \A v \in Range(distinctVersions({r \in file.rows : r.source = s}, s, os, arch)) :
    \A r \in PackageInfo(file.rows, s, v, os, arch) : cleanVersion(r.version, s \in Strip) = v
=============================================================================
