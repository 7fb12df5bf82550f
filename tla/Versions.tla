------------------------------ MODULE Versions ------------------------------
(***************************************************************************)
(* How anydbver orders, lists, checks and picks software versions: the     *)
(* pure part.  A version is the sequence of its symbols, because the code  *)
(* treats it in two ways that disagree, as numbers between dots            *)
(* (versionLess) and as text (LIKE 'x%', order by version).                *)
(* (cmd/anydbver/versions.go, cmd/anydbver/anydbver.go, the queries of     *)
(* roles/*/vars/main.yml.)                                                 *)
(***************************************************************************)
EXTENDS Integers, FiniteSets, Sequences, SequencesExt

CONSTANTS
  Source,      \* the version sources: a table, or a program's part of one
  Strip,       \* the sources listed without the -build suffix
  Operators,   \* the sources whose table has no os and arch columns
  Hub,         \* the sources fetched from Docker Hub, which have no table
  OS, Arch,    \* platforms
  Blank          \* no filter, or an empty column

ASSUME VersionsAssumption ==
  /\ Strip \subseteq Source /\ Operators \subseteq Source /\ Hub \subseteq Source
  /\ Operators \cap Hub = {}
  /\ Blank \notin OS \cup Arch

\* The symbols of a version, in the order of their character codes.
Plus == -3
Dash == -2
Dot == -1
Digit == 0..9
V == 10
Letter == 11
Symbol == Plus..Letter

-----------------------------------------------------------------------------
Before(v, stops) ==
  LET cuts == {i \in DOMAIN v : v[i] \in stops}
  IN  IF cuts = {} THEN v ELSE SubSeq(v, 1, Min(cuts) - 1)

Parts(v) ==
  FoldLeft(LAMBDA parts, x : IF x = Dot THEN Append(parts, <<>>)
                             ELSE [parts EXCEPT ![Len(parts)] = Append(@, x)],
           << <<>> >>, v)

\* The value of a digit string.
Number(digits) == FoldLeft(LAMBDA n, d : 10 * n + d, 0, digits)

\* strconv.Atoi, 0 on an error.
Atoi(s) == IF Range(s) \subseteq Digit THEN Number(s) ELSE 0

\* CAST(s AS INTEGER): the digits s begins with.
Cast(s) == Number(Before(s, Symbol \ Digit))

norm(v) ==
  LET bare == IF v # <<>> /\ v[1] = V THEN Tail(v) ELSE v
      parts == Parts(Before(bare, {Dash, Plus}))
  IN  [i \in DOMAIN parts |-> Atoi(parts[i])]

Precedes(x, y) ==
  \E i \in 1..Len(x) : x[i] < y[i] /\ \A j \in 1..(i - 1) : x[j] = y[j]

Padded(x, n) == [i \in 1..n |-> IF i \in DOMAIN x THEN x[i] ELSE 0]

\* ORDER BY version on a text column.
TextLess(a, b) ==
  \/ IsStrictPrefix(a, b)
  \/ \E i \in DOMAIN a \cap DOMAIN b :
       a[i] < b[i] /\ \A j \in 1..(i - 1) : a[j] = b[j]

\* The variant of versionLess: versions in text order.
versionLessAsText(a, b) == TextLess(a, b)

versionLess(a, b) ==
  LET x == norm(a)
      y == norm(b)
      n == Max({Len(x), Len(y)})
  IN  Precedes(Padded(x, n), Padded(y, n))

\* version LIKE prefix || '%'
Like(v, prefix) == IsPrefix(prefix, v)

cleanVersion(v, strip) == IF strip THEN Before(v, {Dash}) ELSE v

majorOf(v) ==
  LET run == Before(v, Symbol \ Digit) IN IF run = <<>> THEN v ELSE run

\* "17.0-1PGDG.rhel8" -> "17.0-1"
extractBaseVersion(v) ==
  LET base == Before(v, {V, Letter})
  IN  IF base # v /\ base # <<>> /\ Last(base) = Dot THEN Front(base) ELSE base

-----------------------------------------------------------------------------
\* A row of a version table; packages is what the role will install.
Row == [source : Source, version : Seq(Symbol), os : OS \cup {Blank},
        arch : Arch \cup {Blank}, packages : SUBSET Seq(Symbol)]

\* What identifies a row: the primary key of its table.
Key(r) == <<r.source, r.version, r.os, r.arch>>

\* The variant of Passes: the architecture is not looked at.
PassesAnyArch(r, osFilter, archFilter) == osFilter = Blank \/ r.os = Blank \/ r.os = osFilter

Passes(r, osFilter, archFilter) ==
  /\ osFilter = Blank \/ r.os = Blank \/ r.os = osFilter
  /\ archFilter = Blank \/ r.arch = Blank \/ r.arch = archFilter

distinctVersions(rows, s, osFilter, archFilter) ==
  LET clean == {cleanVersion(r.version, s \in Strip) :
                  r \in {r \in rows : Passes(r, osFilter, archFilter)}}
  IN  SetToSortSeq(clean \ {<<>>}, LAMBDA a, b : versionLess(b, a))

latestPerMajor(versions) ==
  FoldLeft(LAMBDA out, v :
             IF \E i \in DOMAIN out : majorOf(out[i]) = majorOf(v) THEN out
             ELSE Append(out, v),
           <<>>, versions)

\* The listing of one software, and the version its tip says to deploy.
printVersionDetail(rows, s, osFilter, archFilter, latest) ==
  LET all == distinctVersions(rows, s, osFilter, archFilter)
      vers == IF latest THEN latestPerMajor(all) ELSE all
  IN  [versions |-> vers,
       tip |-> IF vers = <<>> THEN <<>>
               ELSE IF s \in Strip THEN majorOf(vers[1]) ELSE vers[1]]

\* The raw versions of --all, each with the platforms it is there for.
printVersionAll(rows, osFilter, archFilter) ==
  LET shown == {r \in rows : Passes(r, osFilter, archFilter)}
  IN  [v \in {r.version : r \in shown} |->
         {<<r.os, r.arch>> : r \in {r \in shown : r.version = v}} \ {<<Blank, Blank>>}]

\* What the existence check before a deployment says of a requested version.
versionAvailability(rows, s, version, arch) ==
  LET found == {r \in rows : r.source = s /\ Like(r.version, version)}
  IN  IF s \in Hub THEN [exists |-> TRUE, forArch |-> TRUE]
      ELSE [exists |-> found # {},
            forArch |-> /\ found # {}
                        /\ \/ s \in Operators
                           \/ \E r \in found : r.arch \in {arch, Blank}]

knownVersionsForArch(rows, s, arch, limit) ==
  LET all == distinctVersions(rows, s, Blank, arch)
  IN  SubSeq(all, 1, Min({limit, Len(all)}))

\* The variant of defaultSeries: the newest in text order.
defaultSeriesAsText(series, s) ==
  LET of(status) == {t.series : t \in {t \in series : t.source = s /\ t.status = status}}
      newest(set) == CHOOSE v \in set : \A w \in set : ~TextLess(v, w)
  IN  IF of("lts") # {} THEN newest(of("lts"))
      ELSE IF of("ga") # {} THEN newest(of("ga"))
      ELSE <<>>

\* The newest lts series, else the newest ga one; <<>>: no series is known.
defaultSeries(series, s) ==
  LET of(status) == {t.series : t \in {t \in series : t.source = s /\ t.status = status}}
      newest(set) == CHOOSE v \in set : \A w \in set : ~versionLess(v, w)
  IN  IF of("lts") # {} THEN newest(of("lts"))
      ELSE IF of("ga") # {} THEN newest(of("ga"))
      ELSE <<>>

-----------------------------------------------------------------------------
\* The variant of RoleOrder: the last number does not count.
RoleOrderOfTwo(v) ==
  LET p == Parts(v)
  IN  IF Len(p) < 3 THEN <<0, 0, 0>> ELSE <<Cast(p[1]), Cast(p[2]), 0>>

\* The three numbers the roles' queries order by.  The second is '.' (0) when
\* the version has one dot, the first '' (0) when it has none.
RoleOrder(v) ==
  LET p == Parts(v)
      n == Len(p)
  IN  <<IF n = 1 THEN 0 ELSE Cast(p[1]),
        IF n < 3 THEN 0 ELSE Cast(p[2]),
        Cast(p[Min({n, 3})])>>

\* The rows the role's query may answer with: LIMIT 1 of equals is any of them.
PackageInfo(rows, s, version, os, arch) ==
  LET found == {r \in rows : /\ r.source = s /\ Like(r.version, version)
                             /\ r.os = os /\ r.arch = arch}
  IN  {r \in found : \A q \in found : ~Precedes(RoleOrder(r.version), RoleOrder(q.version))}
=============================================================================
