---------------------------- MODULE VersionProofs ----------------------------
(***************************************************************************)
(* Theorems about the version database, for any number of processes, any   *)
(* dump and any repositories.                                              *)
(***************************************************************************)
EXTENDS VersionDB, WellFoundedInduction, TLAPS

-----------------------------------------------------------------------------
(* What the operators of Versions return. *)

LEMMA MinProperties ==
  ASSUME NEW S \in SUBSET Nat, S # {}
  PROVE  Min(S) \in S /\ \A x \in S : Min(S) <= x
<1>1. IsWellFoundedOn(OpToRel(<, Nat), Nat)
  BY NatLessThanWellFounded
<1> DEFINE less == OpToRel(<, Nat)
<1>0. S \subseteq Nat
  OBVIOUS
<1> HIDE DEF less
<1>2. \E x \in S : \A y \in S : ~ (<<y, x>> \in less)
  BY <1>0, <1>1, WFMin DEF less
<1>3. PICK x \in S : \A y \in S : ~ (<<y, x>> \in less)
  BY <1>2
<1>4. \A y \in Nat : y < x => <<y, x>> \in less
  BY <1>0, Zenon DEF OpToRel, less
<1>5. \A y \in S : ~ (y < x)
  BY <1>0, <1>3, <1>4, Zenon
<1>6. \A y \in S : x <= y
  BY <1>0, <1>5
<1> QED BY <1>6 DEF Min

LEMMA BeforeType ==
  ASSUME NEW v \in Seq(Symbol), NEW stops
  PROVE  Before(v, stops) \in Seq(Symbol)
<1> DEFINE cuts == {i \in DOMAIN v : v[i] \in stops}
<1>1. CASE cuts = {}
  BY <1>1 DEF Before
<1>2. CASE cuts # {}
  <2>1. Min(cuts) \in cuts
    BY <1>2, MinProperties
  <2>2. Min(cuts) \in 1..Len(v)
    BY <2>1
  <2> HIDE DEF cuts
  <2>3. Min(cuts) - 1 \in 0..Len(v)
    BY <2>2
  <2>4. \A k \in 0..Len(v) : SubSeq(v, 1, k) \in Seq(Symbol)
    OBVIOUS
  <2>5. Before(v, stops) = SubSeq(v, 1, Min(cuts) - 1)
    BY <1>2 DEF Before, cuts
  <2> QED BY <2>3, <2>4, <2>5
<1> QED BY <1>1, <1>2

LEMMA BaseVersionType ==
  ASSUME NEW v \in Seq(Symbol)
  PROVE  extractBaseVersion(v) \in Seq(Symbol)
<1> DEFINE base == Before(v, {V, Letter})
<1>1. base \in Seq(Symbol)
  BY BeforeType
<1> HIDE DEF base
<1>2. base # <<>> => Front(base) \in Seq(Symbol)
  BY <1>1 DEF Front
<1> QED BY <1>1, <1>2 DEF extractBaseVersion, base

\* The rows of all package repositories.
Offered == UNION {SiteRows(Sites[i]) : i \in DOMAIN Sites}

LEMMA SiteRowsType ==
  ASSUME NEW i \in DOMAIN Sites
  PROVE  SiteRows(Sites[i]) \subseteq Row
<1> DEFINE site == Sites[i]
<1> DEFINE SiteSet == [source : Source, os : OS, arch : Arch, deb : BOOLEAN,
                       offers : SUBSET [name : Seq(Symbol), version : Seq(Symbol)]]
<1>1. site \in SiteSet
  <2>1. Sites \in Seq(SiteSet)
    BY VersionDBAssumption
  <2>2. \A T : \A s \in Seq(T) : \A k \in DOMAIN s : s[k] \in T
    OBVIOUS
  <2> HIDE DEF SiteSet
  <2> QED BY <2>1, <2>2
<1> HIDE DEF site
<1>2. \A o \in site.offers : o.name \in Seq(Symbol) /\ o.version \in Seq(Symbol)
  BY <1>1
<1>3. ASSUME NEW v \in Seq(Symbol), NEW pkgs \in SUBSET Seq(Symbol)
      PROVE  [source |-> site.source, version |-> v, os |-> site.os, arch |-> site.arch,
              packages |-> pkgs] \in Row
  BY <1>1, <1>3 DEF Row
<1>4. CASE site.deb
  <2>1. SiteRows(site) = {[source |-> site.source, version |-> o.version, os |-> site.os,
                           arch |-> site.arch, packages |-> {o.name}] : o \in site.offers}
    BY <1>4 DEF SiteRows
  <2>2. \A o \in site.offers : {o.name} \in SUBSET Seq(Symbol)
    BY <1>2
  <2>3. SiteRows(site) \subseteq Row
    BY <2>1, <2>2, <1>2, <1>3
  <2> QED BY <2>3 DEF site
<1>5. CASE ~site.deb
  <2>1. \A o \in site.offers : extractBaseVersion(o.version) \in Seq(Symbol)
    BY <1>2, BaseVersionType
  <2>2. \A v : {o.name : o \in {o \in site.offers : extractBaseVersion(o.version) = v}}
                 \in SUBSET Seq(Symbol)
    BY <1>2
  <2> DEFINE row(v, pkgs) == [source |-> site.source, version |-> v, os |-> site.os,
                              arch |-> site.arch, packages |-> pkgs]
             of(v) == {o.name : o \in {o \in site.offers : extractBaseVersion(o.version) = v}}
             base == {extractBaseVersion(o.version) : o \in site.offers}
  <2>3. SiteRows(site) = {row(v, of(v)) : v \in base}
    BY <1>5, Zenon DEF SiteRows
  <2>4. base \subseteq Seq(Symbol)
    BY <2>1
  <2> HIDE DEF of, base
  <2>5. \A v : of(v) \in SUBSET Seq(Symbol)
    BY <2>2 DEF of
  <2>6. \A v \in base : row(v, of(v)) \in Row
    BY <2>4, <2>5, <1>3
  <2> QED BY <2>3, <2>6 DEF site
<1> QED BY <1>4, <1>5

LEMMA OfferedType == Offered \subseteq Row
BY SiteRowsType DEF Offered

-----------------------------------------------------------------------------
(* The invariant, in parts. *)

\* A file that is not there, or has no table, has no row.
FileSound ==
  /\ ~file.there => file.tables = {}
  /\ file.tables = {} => file.rows = {}

\* What a process that has the file open knows of it.
HandlesSound ==
  \A p \in Proc :
    /\ at[p] = "idle" => ~orphan[p]
    /\ at[p] \in {"commit", "late", "replace"} /\ ~orphan[p] => file.there
    /\ at[p] \in {"site", "replace"} => cmd[p] = "fetch"
    /\ line[p] # 0

\* Where rows come from.
RowsSound ==
  /\ file.rows \subseteq DumpRows \cup OldRows \cup Offered
  /\ \A p \in Proc : left[p] \subseteq Offered

\* The database when the late statements before the k-th are executed.
LateBefore(k) == {i \in DOMAIN Late : i < k}
Half(k) ==
  [there |-> TRUE,
   tables |-> (Source \ (Hub \cup LateSources)) \cup {Late[i].source : i \in LateBefore(k)},
   rows |-> Base \cup UNION {Late[i].rows : i \in LateBefore(k)}]

\* How far a process has come that nothing disturbed.
AloneAdvances ==
  \A p \in Proc : undisturbed[p] =>
    /\ \A q \in Proc \ {p} : at[q] = "idle"
    /\ ~orphan[p]
    /\ at[p] \in {"download", "populate", "commit"} => file.tables = {}
    /\ at[p] = "late" => file = Half(line[p])
    /\ at[p] = "done" /\ cmd[p] = "update" => Whole

DBInv == TypeOK /\ FileSound /\ HandlesSound /\ RowsSound /\ AloneAdvances

-----------------------------------------------------------------------------
(* The dump. *)

LEMMA LateType ==
  ASSUME NEW i \in DOMAIN Late
  PROVE  Late[i].source \in Source \ Hub /\ Late[i].rows \subseteq Row
<1> DEFINE Statement == [source : Source \ Hub, rows : SUBSET Row]
<1>1. Late \in Seq(Statement)
  BY VersionDBAssumption
<1>2. \A T : \A s \in Seq(T) : \A k \in DOMAIN s : s[k] \in T
  OBVIOUS
<1> HIDE DEF Statement
<1>3. Late[i] \in Statement
  BY <1>1, <1>2
<1> QED BY <1>3 DEF Statement

LEMMA DumpRowsType == DumpRows \subseteq Row
BY LateType, VersionDBAssumption DEF DumpRows

LEMMA DomainLate == DOMAIN Late = 1..Len(Late) /\ Len(Late) \in Nat
BY VersionDBAssumption

\* The late statements bring the tables the transaction does not make.
LEMMA HalfEnds ==
  ASSUME NEW k \in Nat, k # 0, k \notin DOMAIN Late
  PROVE  Half(k) = Installed(DumpRows)
<1>1. LateBefore(k) = DOMAIN Late
  BY DomainLate DEF LateBefore
<1>2. Base \cup UNION {Late[i].rows : i \in DOMAIN Late} = DumpRows
  BY DEF DumpRows
<1>3. (Source \ (Hub \cup LateSources)) \cup {Late[i].source : i \in DOMAIN Late} = Source \ Hub
  BY LateType DEF LateSources
<1> QED BY <1>1, <1>2, <1>3 DEF Half, Installed

LEMMA HalfBegins ==
  Half(1) = [there |-> TRUE, tables |-> Source \ (Hub \cup LateSources), rows |-> Base]
<1>1. LateBefore(1) = {}
  BY DomainLate DEF LateBefore
<1> QED BY <1>1 DEF Half

LEMMA HalfAdvances ==
  ASSUME NEW k \in DOMAIN Late
  PROVE  Half(k + 1) = [there |-> TRUE, tables |-> Half(k).tables \cup {Late[k].source},
                        rows |-> Half(k).rows \cup Late[k].rows]
<1>1. LateBefore(k + 1) = LateBefore(k) \cup {k}
  BY DomainLate DEF LateBefore
<1>2. {Late[i].source : i \in LateBefore(k + 1)} = {Late[i].source : i \in LateBefore(k)} \cup {Late[k].source}
  BY <1>1
<1>3. UNION {Late[i].rows : i \in LateBefore(k + 1)}
        = (UNION {Late[i].rows : i \in LateBefore(k)}) \cup Late[k].rows
  BY <1>1
<1>4. Half(k + 1).tables = Half(k).tables \cup {Late[k].source}
  BY <1>2 DEF Half
<1>5. Half(k + 1).rows = Half(k).rows \cup Late[k].rows
  BY <1>3 DEF Half
<1>6. Half(k + 1) = [there |-> TRUE, tables |-> Half(k + 1).tables, rows |-> Half(k + 1).rows]
  BY DEF Half
<1> QED BY <1>4, <1>5, <1>6

\* The transaction makes a table for each of its rows.
LEMMA BaseHasTables == Source \ (Hub \cup LateSources) = {} => Base = {}
<1> SUFFICES ASSUME NEW r \in Base PROVE r.source \in Source \ (Hub \cup LateSources)
  OBVIOUS
<1>1. r.source \in Source /\ r.source \notin Hub
  BY VersionDBAssumption DEF Row
<1> QED BY <1>1 DEF LateSources

-----------------------------------------------------------------------------
(* The initial state, and the types. *)

LEMMA DBInit == Init => DBInv
<1> SUFFICES ASSUME Init PROVE DBInv
  OBVIOUS
<1> USE VersionDBAssumption DEF Init
<1>1. file \in [there : BOOLEAN, tables : SUBSET Source, rows : SUBSET Row]
  <2>1. CASE file = NoFile
    BY <2>1 DEF NoFile
  <2>2. CASE file = Installed(OldRows)
    BY <2>2 DEF Installed
  <2> QED BY <2>1, <2>2
<1>2. TypeOK
  BY <1>1 DEF TypeOK
<1>3. FileSound
  BY DEF FileSound, NoFile, Installed
<1>4. HandlesSound
  BY DEF HandlesSound
<1>5. RowsSound
  BY DEF RowsSound, NoFile, Installed
<1>6. AloneAdvances
  BY DEF AloneAdvances
<1> QED BY <1>2, <1>3, <1>4, <1>5, <1>6 DEF DBInv

LEMMA DBType == DBInv /\ [Next]_vars => TypeOK'
<1> SUFFICES ASSUME TypeOK, [Next]_vars PROVE TypeOK'
  BY DEF DBInv
<1> USE DEF TypeOK, Go
<1>1. ASSUME NEW p \in Proc, NEW c \in {"read", "update", "fetch"}, Start(p, c)
      PROVE  TypeOK'
  BY <1>1 DEF Start
<1>2. ASSUME NEW p \in Proc, Step(p)
      PROVE  TypeOK'
  <2>1. CASE GetDatabasePath(p) \/ DownloadFails(p) \/ DownloadsPage(p) \/ DownloadsDump(p)
    BY <2>1 DEF GetDatabasePath, DownloadFails, DownloadsPage, DownloadsDump, Opened
  <2>2. CASE OpenDatabase(p)
    BY <2>2 DEF OpenDatabase, Opened
  <2>3. CASE Commit(p)
    <3>1. file' \in [there : BOOLEAN, tables : SUBSET Source, rows : SUBSET Row]
      BY <2>3, VersionDBAssumption DEF Commit, Written
    <3> QED BY <2>3, <3>1 DEF Commit
  <2>4. CASE ExecuteLate(p)
    <3>1. file' \in [there : BOOLEAN, tables : SUBSET Source, rows : SUBSET Row]
      BY <2>4, LateType DEF ExecuteLate, Written
    <3> QED BY <2>4, <3>1 DEF ExecuteLate
  <2>5. CASE ScriptFails(p) \/ Populated(p) \/ Reads(p) \/ NextSite(p) \/ FetchFails(p) \/ Fetched(p)
    BY <2>5 DEF ScriptFails, Populated, Reads, NextSite, FetchFails, Fetched
  <2>6. CASE ReadDatabaseVersion(p) \/ getProgramUrls(p)
    <3>1. Opened \in [there : BOOLEAN, tables : SUBSET Source, rows : SUBSET Row]
      BY DEF Opened
    <3>2. CASE ReadDatabaseVersion(p)
      BY <3>1, <3>2 DEF ReadDatabaseVersion
    <3>3. CASE getProgramUrls(p)
      BY <3>1, <3>3 DEF getProgramUrls
    <3> QED BY <2>6, <3>2, <3>3
  <2>7. CASE RemoveDatabase(p)
    BY <2>7 DEF RemoveDatabase, NoFile
  <2>8. CASE FetchSite(p)
    <3>1. SiteRows(Sites[line[p]]) \in SUBSET Row
      BY <2>8, SiteRowsType DEF FetchSite
    <3> QED BY <2>8, <3>1 DEF FetchSite, Opened
  <2>9. CASE Replace(p)
    <3>1. PICK r \in left[p] :
            /\ file' = Written(p, [file EXCEPT !.rows = {q \in @ : Key(q) # Key(r)} \cup {r}])
            /\ left' = [left EXCEPT ![p] = @ \ {r}]
      BY <2>9 DEF Replace
    <3>2. r \in Row
      OBVIOUS
    <3>3. file' \in [there : BOOLEAN, tables : SUBSET Source, rows : SUBSET Row]
      BY <3>1, <3>2 DEF Written
    <3> QED BY <2>9, <3>1, <3>3 DEF Replace
  <2>10. CASE Ends(p) \/ Interrupt(p)
    <3>1. Gone(p)
      BY <2>10 DEF Ends, Interrupt
    <3> QED BY <3>1 DEF Gone
  <2> QED BY <1>2, <2>1, <2>2, <2>3, <2>4, <2>5, <2>6, <2>7, <2>8, <2>9, <2>10 DEF Step
<1>3. CASE UNCHANGED vars
  BY <1>3 DEF vars
<1> QED BY <1>1, <1>2, <1>3 DEF Next

-----------------------------------------------------------------------------
(* The parts of the invariant, one by one. *)

LEMMA DBFile == DBInv /\ [Next]_vars => FileSound'
<1> SUFFICES ASSUME TypeOK, FileSound, HandlesSound, [Next]_vars PROVE FileSound'
  BY DEF DBInv
<1> USE DEF FileSound, Go
<1>1. ASSUME NEW p \in Proc, NEW c \in {"read", "update", "fetch"}, Start(p, c)
      PROVE  FileSound'
  BY <1>1 DEF Start
<1>2. ASSUME NEW p \in Proc, Step(p)
      PROVE  FileSound'
  <2>1. CASE GetDatabasePath(p) \/ DownloadFails(p) \/ DownloadsPage(p) \/ DownloadsDump(p)
             \/ OpenDatabase(p)
    BY <2>1 DEF GetDatabasePath, DownloadFails, DownloadsPage, DownloadsDump, OpenDatabase,
                Opened, TypeOK
  <2>2. CASE Commit(p)
    BY <2>2, BaseHasTables DEF Commit, Written
  <2>3. CASE ExecuteLate(p)
    <3>1. CASE orphan[p]
      BY <2>3, <3>1 DEF ExecuteLate, Written
    <3>2. CASE ~orphan[p]
      <4>1. file.there
        BY <2>3, <3>2 DEF ExecuteLate, HandlesSound
      <4>2. file'.there = file.there /\ file'.tables = file.tables \cup {Late[line[p]].source}
        BY <2>3, <3>2 DEF ExecuteLate, Written, TypeOK
      <4> QED BY <4>1, <4>2
    <3> QED BY <3>1, <3>2
  <2>4. CASE ScriptFails(p) \/ Populated(p) \/ Reads(p) \/ NextSite(p) \/ FetchFails(p) \/ Fetched(p)
    BY <2>4 DEF ScriptFails, Populated, Reads, NextSite, FetchFails, Fetched
  <2>5. CASE ReadDatabaseVersion(p) \/ getProgramUrls(p) \/ FetchSite(p)
    BY <2>5 DEF ReadDatabaseVersion, getProgramUrls, FetchSite, Opened, TypeOK
  <2>6. CASE RemoveDatabase(p)
    BY <2>6 DEF RemoveDatabase, NoFile
  <2>7. CASE Replace(p)
    <3>1. CASE orphan[p]
      BY <2>7, <3>1 DEF Replace, Written
    <3>2. CASE ~orphan[p]
      <4>1. file.tables # {}
        BY <2>7, <3>2 DEF Replace
      <4>2. file'.there = file.there /\ file'.tables = file.tables
        BY <2>7, <3>2 DEF Replace, Written, TypeOK
      <4> QED BY <4>1, <4>2
    <3> QED BY <3>1, <3>2
  <2>8. CASE Ends(p) \/ Interrupt(p)
    BY <2>8 DEF Ends, Interrupt, Gone
  <2> QED BY <1>2, <2>1, <2>2, <2>3, <2>4, <2>5, <2>6, <2>7, <2>8 DEF Step
<1>3. CASE UNCHANGED vars
  BY <1>3 DEF vars
<1> QED BY <1>1, <1>2, <1>3 DEF Next

LEMMA DBHandles == DBInv /\ [Next]_vars => HandlesSound'
<1> SUFFICES ASSUME TypeOK, HandlesSound, [Next]_vars PROVE HandlesSound'
  BY DEF DBInv
<1> USE DEF HandlesSound, TypeOK, Go
<1>1. ASSUME NEW p \in Proc, NEW c \in {"read", "update", "fetch"}, Start(p, c)
      PROVE  HandlesSound'
  BY <1>1 DEF Start
<1>2. ASSUME NEW p \in Proc, Step(p)
      PROVE  HandlesSound'
  <2>1. CASE GetDatabasePath(p) \/ DownloadFails(p) \/ DownloadsPage(p) \/ DownloadsDump(p)
    BY <2>1 DEF GetDatabasePath, DownloadFails, DownloadsPage, DownloadsDump, Opened
  <2>2. CASE OpenDatabase(p)
    BY <2>2 DEF OpenDatabase, Opened
  <2>3. CASE Commit(p)
    BY <2>3 DEF Commit, Written
  <2>4. CASE ExecuteLate(p)
    <3>1. file'.there = file.there
      BY <2>4 DEF ExecuteLate, Written
    <3>2. line' = [line EXCEPT ![p] = @ + 1] /\ UNCHANGED <<at, cmd, orphan>>
      BY <2>4 DEF ExecuteLate
    <3>3. \A n \in Nat : n + 1 # 0
      OBVIOUS
    <3> QED BY <3>1, <3>2, <3>3
  <2>5. CASE ScriptFails(p) \/ Populated(p) \/ Reads(p) \/ FetchFails(p) \/ Fetched(p)
    BY <2>5 DEF ScriptFails, Populated, Reads, FetchFails, Fetched
  <2>6. CASE NextSite(p)
    BY <2>6 DEF NextSite
  <2>7. CASE ReadDatabaseVersion(p)
    BY <2>7 DEF ReadDatabaseVersion, Opened
  <2>8. CASE getProgramUrls(p)
    BY <2>8 DEF getProgramUrls, Opened
  <2>9. CASE RemoveDatabase(p)
    BY <2>9 DEF RemoveDatabase
  <2>10. CASE FetchSite(p)
    BY <2>10 DEF FetchSite, Opened
  <2>11. CASE Replace(p)
    <3>1. file'.there = file.there /\ UNCHANGED <<at, cmd, line, orphan>>
      BY <2>11 DEF Replace, Written
    <3> QED BY <3>1
  <2>12. CASE Ends(p) \/ Interrupt(p)
    <3>1. Gone(p)
      BY <2>12 DEF Ends, Interrupt
    <3> QED BY <3>1 DEF Gone
  <2> QED BY <1>2, <2>1, <2>2, <2>3, <2>4, <2>5, <2>6, <2>7, <2>8, <2>9, <2>10, <2>11, <2>12
          DEF Step
<1>3. CASE UNCHANGED vars
  BY <1>3 DEF vars
<1> QED BY <1>1, <1>2, <1>3 DEF Next

LEMMA DBRows == DBInv /\ [Next]_vars => RowsSound'
<1> SUFFICES ASSUME TypeOK, RowsSound, [Next]_vars PROVE RowsSound'
  BY DEF DBInv
<1> USE DEF RowsSound, TypeOK
<1>1. ASSUME NEW p \in Proc, NEW c \in {"read", "update", "fetch"}, Start(p, c)
      PROVE  RowsSound'
  BY <1>1 DEF Start
<1>2. ASSUME NEW p \in Proc, Step(p)
      PROVE  RowsSound'
  <2>1. CASE GetDatabasePath(p) \/ DownloadFails(p) \/ DownloadsPage(p) \/ DownloadsDump(p)
             \/ OpenDatabase(p)
    BY <2>1 DEF GetDatabasePath, DownloadFails, DownloadsPage, DownloadsDump, OpenDatabase, Opened
  <2>2. CASE Commit(p)
    BY <2>2 DEF Commit, Written, DumpRows
  <2>3. CASE ExecuteLate(p)
    <3>1. Late[line[p]].rows \subseteq DumpRows
      BY <2>3 DEF ExecuteLate, DumpRows
    <3>2. file'.rows \subseteq file.rows \cup Late[line[p]].rows
      BY <2>3 DEF ExecuteLate, Written
    <3>3. left' = left
      BY <2>3 DEF ExecuteLate
    <3> QED BY <3>1, <3>2, <3>3
  <2>4. CASE ScriptFails(p) \/ Populated(p) \/ Reads(p) \/ NextSite(p) \/ FetchFails(p) \/ Fetched(p)
    BY <2>4 DEF ScriptFails, Populated, Reads, NextSite, FetchFails, Fetched
  <2>5. CASE ReadDatabaseVersion(p) \/ getProgramUrls(p)
    BY <2>5 DEF ReadDatabaseVersion, getProgramUrls, Opened
  <2>6. CASE FetchSite(p)
    <3>1. SiteRows(Sites[line[p]]) \subseteq Offered
      BY <2>6 DEF FetchSite, Offered
    <3>2. file'.rows = file.rows
      BY <2>6 DEF FetchSite, Opened
    <3>3. left' = [left EXCEPT ![p] = SiteRows(Sites[line[p]])]
      BY <2>6 DEF FetchSite
    <3> QED BY <3>1, <3>2, <3>3
  <2>7. CASE RemoveDatabase(p)
    BY <2>7 DEF RemoveDatabase, NoFile
  <2>8. CASE Replace(p)
    <3>1. PICK r \in left[p] :
            /\ file' = Written(p, [file EXCEPT !.rows = {q \in @ : Key(q) # Key(r)} \cup {r}])
            /\ left' = [left EXCEPT ![p] = @ \ {r}]
      BY <2>8 DEF Replace
    <3>2. file'.rows \subseteq file.rows \cup {r}
      BY <3>1 DEF Written
    <3> QED BY <3>1, <3>2
  <2>9. CASE Ends(p) \/ Interrupt(p)
    BY <2>9 DEF Ends, Interrupt, Gone
  <2> QED BY <1>2, <2>1, <2>2, <2>3, <2>4, <2>5, <2>6, <2>7, <2>8, <2>9 DEF Step
<1>3. CASE UNCHANGED vars
  BY <1>3 DEF vars
<1> QED BY <1>1, <1>2, <1>3 DEF Next

LEMMA DBAlone == DBInv /\ [Next]_vars => AloneAdvances'
<1> SUFFICES ASSUME TypeOK, FileSound, HandlesSound, AloneAdvances, [Next]_vars
             PROVE  AloneAdvances'
  BY DEF DBInv
<1> USE DEF TypeOK, Go
<1>1. ASSUME NEW p \in Proc, NEW c \in {"read", "update", "fetch"}, Start(p, c)
      PROVE  AloneAdvances'
  <2> SUFFICES ASSUME NEW r \in Proc, undisturbed'[r]
               PROVE  /\ \A q \in Proc \ {r} : at'[q] = "idle"
                      /\ ~orphan'[r]
                      /\ at'[r] = "stat"
    BY DEF AloneAdvances
  <2>1. r = p /\ \A q \in Proc : at[q] = "idle"
    BY <1>1 DEF Start
  <2>2. ~orphan[r]
    BY <2>1 DEF HandlesSound
  <2> QED BY <1>1, <2>1, <2>2 DEF Start
<1>2. ASSUME NEW p \in Proc, Step(p)
      PROVE  AloneAdvances'
  <2>1. at[p] # "idle"
    BY <1>2 DEF Step, GetDatabasePath, DownloadFails, DownloadsPage, DownloadsDump, OpenDatabase,
           Commit, ExecuteLate, ScriptFails, Populated, ReadDatabaseVersion, Reads, RemoveDatabase,
           getProgramUrls, FetchSite, Replace, NextSite, FetchFails, Fetched, Ends, Interrupt
  <2>2. \A r \in Proc : undisturbed'[r] => undisturbed[r]
    BY <1>2 DEF Step, GetDatabasePath, DownloadFails, DownloadsPage, DownloadsDump, OpenDatabase,
           Commit, ExecuteLate, ScriptFails, Populated, ReadDatabaseVersion, Reads, RemoveDatabase,
           getProgramUrls, FetchSite, Replace, NextSite, FetchFails, Fetched, Ends, Interrupt, Gone
  <2>3. \A q \in Proc \ {p} : at'[q] = at[q]
    BY <1>2 DEF Step, GetDatabasePath, DownloadFails, DownloadsPage, DownloadsDump, OpenDatabase,
           Commit, ExecuteLate, ScriptFails, Populated, ReadDatabaseVersion, Reads, RemoveDatabase,
           getProgramUrls, FetchSite, Replace, NextSite, FetchFails, Fetched, Ends, Interrupt, Gone
  <2>4. SUFFICES ASSUME undisturbed'[p]
                 PROVE  /\ ~orphan'[p]
                        /\ at'[p] \in {"download", "populate", "commit"} => file'.tables = {}
                        /\ at'[p] = "late" => file' = Half(line'[p])
                        /\ at'[p] = "done" /\ cmd'[p] = "update" => Whole'
    BY <2>1, <2>2, <2>3 DEF AloneAdvances
  <2>5. /\ undisturbed[p] /\ \A q \in Proc \ {p} : at[q] = "idle"
        /\ ~orphan[p] /\ ~Busy(p)
        /\ at[p] \in {"download", "populate", "commit"} => file.tables = {}
        /\ at[p] = "late" => file = Half(line[p])
    BY <2>2, <2>4 DEF AloneAdvances, Busy
  <2>6. CASE GetDatabasePath(p) \/ DownloadsDump(p)
    BY <2>5, <2>6 DEF GetDatabasePath, DownloadsDump, FileSound
  <2>7. CASE DownloadFails(p) \/ DownloadsPage(p) \/ Ends(p) \/ Interrupt(p)
    BY <2>4, <2>7 DEF DownloadFails, DownloadsPage, Ends, Interrupt, Gone
  <2>8. CASE OpenDatabase(p)
    BY <2>5, <2>8 DEF OpenDatabase, Opened
  <2>9. CASE Commit(p)
    BY <2>5, <2>9, HalfBegins DEF Commit, Written
  <2>10. CASE ExecuteLate(p)
    <3>1. file' = [there |-> file.there, tables |-> file.tables \cup {Late[line[p]].source},
                   rows |-> file.rows \cup Late[line[p]].rows]
      BY <2>5, <2>10 DEF ExecuteLate, Written
    <3>2. file = Half(line[p]) /\ file.there = TRUE
      BY <2>5, <2>10 DEF ExecuteLate, Half
    <3>3. file' = Half(line[p] + 1)
      BY <2>10, <3>1, <3>2, HalfAdvances DEF ExecuteLate
    <3> QED BY <2>5, <2>10, <3>3 DEF ExecuteLate
  <2>11. CASE ScriptFails(p)
    BY <2>5, <2>11 DEF ScriptFails
  <2>12. CASE Populated(p)
    <3>1. line[p] \in Nat /\ line[p] # 0 /\ line[p] \notin DOMAIN Late
      BY <2>12 DEF Populated, HandlesSound
    <3>2. file = Installed(DumpRows)
      BY <2>5, <2>12, <3>1, HalfEnds DEF Populated
    <3> QED BY <2>5, <2>12, <3>2 DEF Populated, Whole
  <2>13. CASE ReadDatabaseVersion(p) \/ Reads(p)
    BY <2>5, <2>13 DEF ReadDatabaseVersion, Reads
  <2>14. CASE RemoveDatabase(p)
    BY <2>5, <2>14 DEF RemoveDatabase, NoFile
  <2>15. CASE getProgramUrls(p)
    BY <2>5, <2>15 DEF getProgramUrls
  <2>16. CASE FetchSite(p) \/ Replace(p) \/ NextSite(p) \/ FetchFails(p) \/ Fetched(p)
    BY <2>5, <2>16 DEF FetchSite, Replace, NextSite, FetchFails, Fetched, HandlesSound
  <2> QED BY <1>2, <2>6, <2>7, <2>8, <2>9, <2>10, <2>11, <2>12, <2>13, <2>14, <2>15, <2>16
          DEF Step
<1>3. CASE UNCHANGED vars
  BY <1>3 DEF vars, AloneAdvances, Whole
<1> QED BY <1>1, <1>2, <1>3 DEF Next

LEMMA DBNext == DBInv /\ [Next]_vars => DBInv'
BY DBType, DBFile, DBHandles, DBRows, DBAlone DEF DBInv

LEMMA DBAlways == Spec => []DBInv
BY DBInit, DBNext, PTL DEF Spec

-----------------------------------------------------------------------------
(* The theorems. *)

\* What any of the commands, interleaved, writes to the database file keeps to
\* the columns of its tables: rows of the dump and rows SiteRows makes.
THEOREM TypeCorrect == Spec => []TypeOK
<1>1. DBInv => TypeOK
  BY DEF DBInv
<1> QED BY DBAlways, <1>1, PTL

\* `update`, alone and given the dump, ends with the whole dump and nothing else,
\* from every file that commands killed anywhere can leave: none, an empty one, one
\* without the late statements, one with rows added by `update PROGRAM`.
THEOREM UpdateIsComplete == Spec => []UpdateRepairs
<1>1. DBInv => UpdateRepairs
  BY DEF DBInv, AloneAdvances, UpdateRepairs
<1> QED BY DBAlways, <1>1, PTL

\* No step of any command loses a row but with the file or to a row of its key:
\* the dump's transaction only runs on a database without tables.
THEOREM FetchIsSafe == Spec => FetchForgetsNothing
<1>1. DBInv /\ [Next]_vars =>
        [\A r \in file.rows : \/ ~file'.there
                             \/ \E q \in file'.rows : Key(q) = Key(r)]_vars
  <2> DEFINE Kept == \A r \in file.rows : \/ ~file'.there
                                          \/ \E q \in file'.rows : Key(q) = Key(r)
  <2> SUFFICES ASSUME TypeOK, FileSound, NEW p \in Proc,
                      Step(p) \/ \E c \in {"read", "update", "fetch"} : Start(p, c)
               PROVE  Kept
    BY DEF DBInv, Next
  <2>1. CASE \E c \in {"read", "update", "fetch"} : Start(p, c)
    BY <2>1 DEF Start
  <2>2. CASE GetDatabasePath(p) \/ DownloadFails(p) \/ DownloadsPage(p) \/ DownloadsDump(p)
             \/ OpenDatabase(p)
    BY <2>2 DEF GetDatabasePath, DownloadFails, DownloadsPage, DownloadsDump, OpenDatabase,
                Opened, TypeOK
  <2>3. CASE Commit(p)
    BY <2>3 DEF Commit, Written, FileSound
  <2>4. CASE ExecuteLate(p)
    BY <2>4 DEF ExecuteLate, Written, TypeOK
  <2>5. CASE ScriptFails(p) \/ Populated(p) \/ Reads(p) \/ NextSite(p) \/ FetchFails(p) \/ Fetched(p)
    BY <2>5 DEF ScriptFails, Populated, Reads, NextSite, FetchFails, Fetched
  <2>6. CASE ReadDatabaseVersion(p) \/ getProgramUrls(p) \/ FetchSite(p)
    BY <2>6 DEF ReadDatabaseVersion, getProgramUrls, FetchSite, Opened, TypeOK
  <2>7. CASE RemoveDatabase(p)
    BY <2>7 DEF RemoveDatabase, NoFile
  <2>8. CASE Replace(p)
    <3>1. PICK r \in left[p] :
            file' = Written(p, [file EXCEPT !.rows = {q \in @ : Key(q) # Key(r)} \cup {r}])
      BY <2>8 DEF Replace
    <3>2. file' = file \/ file'.rows = {q \in file.rows : Key(q) # Key(r)} \cup {r}
      BY <3>1 DEF Written, TypeOK
    <3> QED BY <3>2
  <2>9. CASE Ends(p) \/ Interrupt(p)
    BY <2>9 DEF Ends, Interrupt, Gone
  <2> QED BY <2>1, <2>2, <2>3, <2>4, <2>5, <2>6, <2>7, <2>8, <2>9 DEF Step
<1> QED BY DBAlways, <1>1, PTL DEF Spec, FetchForgetsNothing

-----------------------------------------------------------------------------
(* The rows of package repositories. *)

LEMMA SiteRowsUnique ==
  ASSUME NEW i \in DOMAIN Sites, ~Sites[i].deb,
         NEW q \in SiteRows(Sites[i]), NEW r \in SiteRows(Sites[i]), Key(q) = Key(r)
  PROVE  q = r
<1> DEFINE site == Sites[i]
           of(v) == {o.name : o \in {o \in site.offers : extractBaseVersion(o.version) = v}}
           row(v) == [source |-> site.source, version |-> v, os |-> site.os,
                      arch |-> site.arch, packages |-> of(v)]
           base == {extractBaseVersion(o.version) : o \in site.offers}
<1>1. SiteRows(site) = {row(v) : v \in base}
  BY Zenon DEF SiteRows
<1> HIDE DEF of, base
<1>2. PICK v \in base : q = row(v)
  BY <1>1
<1>3. PICK w \in base : r = row(w)
  BY <1>1
<1>4. v = w
  BY <1>2, <1>3 DEF Key
<1> QED BY <1>2, <1>3, <1>4

\* `update PROGRAM`: where each version has its repository, no interleaving of
\* fetches, refreshes and failures leaves a row that lacks a package of its version.
THEOREM FetchIsComplete == OneSitePerVersion /\ Spec => []FetchedRowsAreComplete
<1> SUFFICES ASSUME OneSitePerVersion PROVE Spec => []FetchedRowsAreComplete
  OBVIOUS
<1>1. DBInv => FetchedRowsAreComplete
  <2> SUFFICES ASSUME RowsSound, NEW i \in DOMAIN Sites, ~Sites[i].deb,
                      NEW r \in file.rows \ (DumpRows \cup OldRows),
                      NEW q \in SiteRows(Sites[i]), Key(r) = Key(q)
               PROVE  r = q
    BY DEF DBInv, FetchedRowsAreComplete
  <2>1. PICK j \in DOMAIN Sites : r \in SiteRows(Sites[j])
    BY DEF RowsSound, Offered
  <2>2. i = j
    BY <2>1, OneSitePerVersion DEF OneSitePerVersion
  <2> QED BY <2>1, <2>2, SiteRowsUnique
<1> QED BY DBAlways, <1>1, PTL

-----------------------------------------------------------------------------
(* The release. *)

\* The file names releases of one dump only.
OneDump ==
  \/ OwnRows(file.rows) \subseteq OldRows
  \/ OwnRows(file.rows) \subseteq DumpRows

\* With a single row, the last in text order is that row.
LEMMA SingleRelease ==
  ASSUME NEW f, NEW r \in Row, OwnRows(f.rows) = {r}
  PROVE  DatabaseVersion(f) = r.version
<1>1. ~TextLess(r.version, r.version)
  <2>1. \A i \in DOMAIN r.version : r.version[i] \in Int
    BY DEF Row, Symbol, Plus, Letter
  <2>2. \A i \in DOMAIN r.version : ~ (r.version[i] < r.version[i])
    BY <2>1
  <2> QED BY <2>2, Zenon DEF TextLess, IsStrictPrefix
<1> QED BY <1>1 DEF DatabaseVersion, OwnRows

\* The program asks for an update on the database of an older release, and only
\* there, whatever ran before: a release is never mixed with another's.
THEOREM NagsRight == OneRelease /\ ReleasesInOrder /\ Spec => []NagsWhileOld
<1> SUFFICES ASSUME OneRelease, ReleasesInOrder PROVE Spec => []NagsWhileOld
  OBVIOUS
<1>1. Init => OneDump
  BY DEF Init, NoFile, Installed, OneDump, OwnRows
<1>2. DBInv /\ OneDump /\ [Next]_vars => OneDump'
  <2> SUFFICES ASSUME TypeOK, FileSound, RowsSound, OneDump, [Next]_vars PROVE OneDump'
    BY DEF DBInv
  <2>1. ASSUME NEW p \in Proc, Commit(p) PROVE OneDump'
    <3>1. CASE orphan[p]
      BY <2>1, <3>1 DEF Commit, Written, OneDump
    <3>2. CASE ~orphan[p]
      BY <2>1, <3>2 DEF Commit, Written, OneDump, OwnRows, DumpRows
    <3> QED BY <3>1, <3>2
  <2>2. ASSUME NEW p \in Proc, ~Commit(p),
               Step(p) \/ \E c \in {"read", "update", "fetch"} : Start(p, c)
        PROVE  OwnRows(file'.rows) \subseteq OwnRows(file.rows)
    <3>1. CASE ExecuteLate(p)
      <4>1. file'.rows \subseteq file.rows \cup Late[line[p]].rows /\ line[p] \in DOMAIN Late
        BY <3>1 DEF ExecuteLate, Written, TypeOK
      <4> QED BY <4>1, OneRelease DEF OneRelease, OwnRows
    <3>2. CASE Replace(p)
      <4>1. PICK r \in left[p] :
              file' = Written(p, [file EXCEPT !.rows = {q \in @ : Key(q) # Key(r)} \cup {r}])
        BY <3>2 DEF Replace
      <4>2. file'.rows \subseteq file.rows \cup {r}
        BY <4>1 DEF Written, TypeOK
      <4>3. r.source # Self
        <5>1. PICK i \in DOMAIN Sites : r \in SiteRows(Sites[i])
          BY DEF RowsSound, Offered
        <5>2. r.source = Sites[i].source
          BY <5>1 DEF SiteRows
        <5> QED BY <5>2, OneRelease DEF OneRelease
      <4> QED BY <4>2, <4>3 DEF OwnRows
    <3>3. CASE ~ExecuteLate(p) /\ ~Replace(p)
      <4>1. file'.rows \subseteq file.rows
        BY <2>2, <3>3 DEF Step, Start, GetDatabasePath, DownloadFails, DownloadsPage, DownloadsDump,
           OpenDatabase, ScriptFails, Populated, ReadDatabaseVersion, Reads, RemoveDatabase,
           getProgramUrls, FetchSite, NextSite, FetchFails, Fetched, Ends, Interrupt, Gone,
           Opened, NoFile, TypeOK
      <4> QED BY <4>1 DEF OwnRows
    <3> QED BY <3>1, <3>2, <3>3
  <2>3. CASE UNCHANGED vars
    BY <2>3 DEF vars, OneDump
  <2> QED BY <2>1, <2>2, <2>3 DEF Next, OneDump
<1>3. DBInv /\ OneDump => NagsWhileOld
  <2> SUFFICES ASSUME TypeOK, OneDump, NEW r \in file.rows, r.source = Self
               PROVE  Nags <=> r \in OldRows \ DumpRows
    BY DEF DBInv, NagsWhileOld
  <2>1. r \in OwnRows(file.rows)
    BY DEF OwnRows
  <2>2. CASE OwnRows(file.rows) \subseteq OldRows
    <3>1. r \in OwnRows(OldRows)
      BY <2>1, <2>2 DEF OwnRows
    <3>2. OwnRows(file.rows) = {r}
      BY <2>1, <2>2, <3>1, OneRelease DEF OneRelease, OwnRows
    <3>3. DatabaseVersion(file) = r.version
      BY <3>2, SingleRelease DEF TypeOK
    <3>4. Nags
      BY <3>1, <3>3, ReleasesInOrder DEF ReleasesInOrder, Nags
    <3>5. r \notin DumpRows
      BY <3>1, ReleasesInOrder DEF ReleasesInOrder, OwnRows
    <3> QED BY <3>1, <3>4, <3>5 DEF OwnRows
  <2>3. CASE OwnRows(file.rows) \subseteq DumpRows
    <3>1. r \in OwnRows(DumpRows)
      BY <2>1, <2>3 DEF OwnRows
    <3>2. OwnRows(file.rows) = {r}
      BY <2>1, <2>3, <3>1, OneRelease DEF OneRelease, OwnRows
    <3>3. DatabaseVersion(file) = r.version
      BY <3>2, SingleRelease DEF TypeOK
    <3> QED BY <3>1, <3>3, ReleasesInOrder DEF ReleasesInOrder, Nags, OwnRows
  <2> QED BY <2>2, <2>3 DEF OneDump
<1> QED BY DBAlways, <1>1, <1>2, <1>3, PTL DEF Spec

=============================================================================
