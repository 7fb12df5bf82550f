----------------------------- MODULE MCVersions -----------------------------
(* Versions and repositories in the shapes the repository's own dump has. *)
EXTENDS VersionDB

CONSTANTS pg, mongo, pmm, operator, self, el9, x86, arm

row(s, v, o, a, p) == [source |-> s, version |-> v, os |-> o, arch |-> a, packages |-> p]

Pg(minor, build) == <<1, 7, Dot>> \o minor \o <<Dash, build>>
Operator(minor) == <<1, Dot>> \o minor

MCBase ==
  {row(pg, Pg(<<1>>, 1), el9, x86, {<<1>>}), row(pg, Pg(<<1, 0>>, 2), el9, x86, {<<1>>}),
   row(operator, Operator(<<9>>), Blank, Blank, {}), row(operator, Operator(<<1, 0>>), Blank, Blank, {}),
   row(self, <<0, Dot, 1, Dot, 1, 0>>, Blank, Blank, {})}

MCOldRows ==
  {row(pg, Pg(<<1>>, 1), el9, x86, {<<1>>}), row(pg, <<9, Dot, 6, Dot, 2, Dash, 1>>, el9, arm, {<<1>>}),
   row(self, <<0, Dot, 1, Dot, 9>>, Blank, Blank, {})}

MCLate ==
  <<[source |-> mongo, rows |-> {}],
    [source |-> mongo, rows |-> {row(mongo, <<8, Dot, 0, Dot, 4, Dash, 1>>, el9, x86, {<<1>>})}],
    [source |-> mongo, rows |-> {row(mongo, <<8, Dot, 0, Dot, 4, Dash, 2>>, el9, x86, {<<1>>})}]>>

MCSeries ==
  {[source |-> pg, series |-> <<9>>, status |-> "ga"], [source |-> pg, series |-> <<1, 7>>, status |-> "ga"],
   [source |-> mongo, series |-> <<8, Dot, 0>>, status |-> "lts"],
   [source |-> mongo, series |-> <<8, Dot, 3>>, status |-> "ga"]}

\* An RPM repository with two packages of a new version, then one of Debian.
MCSites ==
  <<[source |-> pg, os |-> el9, arch |-> x86, deb |-> FALSE,
     offers |-> {[name |-> <<1>>, version |-> Pg(<<1, 1>>, 1) \o <<Letter, Dot, Letter>>],
                 [name |-> <<2>>, version |-> Pg(<<1, 1>>, 1) \o <<Letter, Dot, Letter>>]}],
    [source |-> pg, os |-> el9, arch |-> arm, deb |-> TRUE,
     offers |-> {[name |-> <<1>>, version |-> Pg(<<1, 0>>, 1) \o <<Dot, Letter, Plus, 1>>]}]>>

\* The processes differ in nothing; every property checked is a safety property.
Symmetry == Permutations(Proc)

\* What the theorems about fetched rows and releases suppose.
ASSUME DumpAssumption == OneSitePerVersion /\ OneRelease

MCBinary == <<0, Dot, 1, Dot, 1, 0>>
=============================================================================
