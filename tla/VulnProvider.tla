---------------------------- MODULE VulnProvider ----------------------------
(***************************************************************************)
(* The read side of a v6 database: how an operating system, a package or a *)
(* CPE of a search is resolved to rows (operating_system_store.go,         *)
(* package_store.go, cpe_store.go), how rows become vulnerabilities        *)
(* (vulnerability.go) and what FindVulnerabilities returns                 *)
(* (vulnerability_provider.go, search_query.go, grype/search).             *)
(*                                                                         *)
(* A database is a record of rows:                                         *)
(*   oss        operating system rows                                      *)
(*   handles    affected and unaffected package and CPE handles            *)
(* Text that only identifies (names, labels, channels, ids) is a string    *)
(* compared as sqlite's "collate nocase" does on one spelling; a part of   *)
(* an operating system version is its sequence of digits, "" is <<>>.      *)
(* A package version is a number, a constraint a set of alternatives       *)
(* joined by "||". The tens of an rpm version are its epoch; the versions   *)
(* in rpm records have one.                                                *)
(***************************************************************************)
EXTENDS Packages, FiniteSetsExt

(***************************************************************************)
(* Constraints                                                             *)
(***************************************************************************)

\* One alternative: [op, v]; op "bad" is a text no format parses, AnyVersion the
\* empty text.
AnyVersion == [op |-> "any", v |-> 0]
NakConstraint == [op |-> "lt", v |-> 0]

\* An rpm package's version from NoEpoch on has no epoch.
NoEpoch == 100

\* An epoch that only one side has is ignored: v as it is compared with n.
against(v, n) == IF v >= NoEpoch THEN 10 * (n \div 10) + (v % 10) ELSE v

satisfiedBy(c, v) ==
    \/ c.op = "lt" /\ against(v, c.v) < c.v
    \/ c.op = "ge" /\ against(v, c.v) >= c.v
    \/ c.op = "eq" /\ against(v, c.v) = c.v

\* Constraint.Satisfied of the joined alternatives; the empty text accepts
\* every version.
Satisfied(cons, v) == cons = {} \/ \E c \in cons : satisfiedBy(c, v)

(***************************************************************************)
(* Operating systems                                                       *)
(***************************************************************************)

\* "04" is stored and searched as "4", "00" as "0".
trimZeroes(s) ==
    LET sig == {i \in DOMAIN s : s[i] # 0}
    IN  IF s = <<>> THEN s
        ELSE IF sig = {} THEN <<0>> ELSE SubSeq(s, Min(sig), Len(s))

clean(d) == [d EXCEPT !.major = trimZeroes(@), !.minor = trimZeroes(@)]

\* OSSpecifier.version: the numbers, else the label.
specVersion(d) ==
    IF d.major = <<>> THEN <<<<>>, <<>>, d.label>> ELSE <<d.major, d.minor, d.rest>>

\* A specifier is "none" when nothing of it is set.
NoOSSpecified ==
    [name |-> None, major |-> <<>>, minor |-> <<>>, rest |-> None, label |-> None,
     channel |-> None, exact |-> FALSE, noFallback |-> FALSE]

\* An override of the table KnownOperatingSystemSpecifierOverrides; each field
\* that is None (or FALSE) says nothing. The patterns the table uses are
\* "_alpha" releases and two leading numbers.
Override ==
    [alias |-> None, codename |-> None, version |-> None, pattern |-> None, usable |-> TRUE,
     name |-> None, rolling |-> FALSE, major |-> None, minor |-> None, label |-> None]

\* One override of each form the table holds, in the table's order.
KnownOperatingSystemSpecifierOverrides ==
    << [Override EXCEPT !.alias = "almalinux", !.name = "rhel"],
       [Override EXCEPT !.alias = "rhel", !.pattern = "numbers", !.minor = <<>>, !.usable = FALSE],
       [Override EXCEPT !.alias = "alpine", !.pattern = "alpha", !.label = "edge", !.rolling = TRUE],
       [Override EXCEPT !.alias = "hummingbird", !.rolling = TRUE],
       [Override EXCEPT !.alias = "wolfi", !.rolling = TRUE],
       [Override EXCEPT !.alias = "debian", !.codename = "forky", !.rolling = TRUE, !.label = "unstable"],
       [Override EXCEPT !.alias = "postmarketos", !.version = <<<<>>, <<>>, "edge">>, !.name = "alpine",
                        !.label = "edge", !.rolling = TRUE],
       [Override EXCEPT !.alias = "postmarketos", !.version = <<<<2, 5>>, <<1, 2>>, None>>,
                        !.name = "alpine", !.major = <<3>>, !.minor = <<2, 3>>] >>

matchesVersionPattern(d, pattern) ==
    \/ pattern = "numbers" /\ d.major # <<>> /\ d.minor # <<>>
    \/ pattern = "alpha" /\ d.rest = "alpha"

canUseOverride(d, o) ==
    /\ o.alias = d.name
    /\ o.usable
    /\ o.codename = None \/ o.codename = d.label
    /\ o.version = None \/ o.version = specVersion(d)
    /\ o.pattern = None \/ matchesVersionPattern(d, o.pattern)

\* Fields are replaced one after the other: Rolling empties the numbers before
\* a replacement sets them.
applyOverride(d, o) ==
    LET Or(new, old) == IF new = None THEN old ELSE new
    IN  [d EXCEPT !.name  = Or(o.name, @),
                  !.major = Or(o.major, IF o.rolling THEN <<>> ELSE @),
                  !.minor = Or(o.minor, IF o.rolling THEN <<>> ELSE @),
                  !.label = Or(o.label, @)]

\* The first override that applies, and only that one.
applyOSAlias(d) ==
    LET tbl == KnownOperatingSystemSpecifierOverrides
        fit == {i \in DOMAIN tbl : canUseOverride(d, tbl[i])}
    IN  IF fit = {} THEN d ELSE applyOverride(d, tbl[Min(fit)])

\* Rows with the name (or release id), the label (or codename), the channel.
prepareQuery(oss, d) ==
    {o \in oss : /\ d.name = None \/ d.name \in {o.name, o.release}
                 /\ d.label = None \/ d.label \in {o.codename, o.label}
                 /\ o.channel = d.channel}

\* Exact version first, then the major row without minor, then any minor.
searchForOSExactVersions(rows, d) ==
    LET exact == {o \in rows : o.major = d.major /\ o.minor = d.minor}
        only  == {o \in rows : o.major = d.major /\ o.minor = <<>>}
        any   == {o \in rows : o.major = d.major}
    IN  CASE d.major = <<>> -> IF d.minor = <<>> THEN rows ELSE {}
          [] d.major # <<>> /\ (exact # {} \/ d.noFallback) -> exact
          [] OTHER -> IF only # {} THEN only ELSE any

GetOperatingSystems(oss, spec) ==
    LET d == clean(IF spec.exact THEN spec ELSE applyOSAlias(spec))
    IN  searchForOSExactVersions(prepareQuery(oss, d), d)

\* A distribution of a package: [type, major, minor, rest, label, channels].
specOf(d, channel, exact) ==
    [NoOSSpecified EXCEPT !.name = d.type, !.major = d.major, !.minor = d.minor,
        !.rest = d.rest, !.label = d.label, !.channel = channel, !.exact = exact]

\* handleDistro: one specifier per channel, or one without channel.
handleDistro(distros, exact) ==
    {specOf(d, None, exact) : d \in {d \in distros : d.channels = {}}}
    \cup UNION {{specOf(d, c, exact) : c \in d.channels} : d \in distros}

\* Mutant: the end of life of the major release is taken for the minor one's.
EOLRows_Fallback(oss, d) == GetOperatingSystems(oss, specOf(d, None, TRUE))

\* GetOperatingSystemEOL: the distribution's own row, no alias, no fallback.
EOLRows(oss, d) ==
    GetOperatingSystems(oss, [specOf(d, None, TRUE) EXCEPT !.noFallback = TRUE])

\* The rows that may come first of those, None when there is none; the others
\* are not looked at.
GetOperatingSystemEOL(oss, d) ==
    IF d = None \/ EOLRows(oss, d) = {} THEN {None} ELSE EOLRows(oss, d)

(***************************************************************************)
(* Rows to vulnerabilities                                                 *)
(***************************************************************************)

\* A handle: [kind, unaffected, id, aliases, prov, os, name, eco, cpe, ranges,
\* quals, status]; a range: [cons, fix]; a fix: [state, v] or None.

\* filterAffectedPackageRanges: a range that does not parse is not counted as
\* unmatched, so it keeps the handle.
rangesKept(h, ver) ==
    \/ ver = None
    \/ h.ranges = <<>>
    \/ \E i \in DOMAIN h.ranges :
           h.ranges[i].cons.op = "bad" \/ Satisfied({h.ranges[i].cons} \ {AnyVersion}, ver)

\* getVersionConstraint: the texts that are not empty, joined; None when the
\* joined text does not parse.
getVersionConstraint(h) ==
    LET texts == {h.ranges[i].cons : i \in DOMAIN h.ranges} \ {AnyVersion}
    IN  IF \E c \in texts : c.op = "bad" THEN None ELSE texts

\* toFix: fixed once a range is, else the last state named.
toFix(h) ==
    LET named == {i \in DOMAIN h.ranges : h.ranges[i].fix # None /\ h.ranges[i].fix.state # "not-affected"}
        fixed == {i \in named : h.ranges[i].fix.state = "fixed"}
    IN  [state |-> IF fixed # {} THEN "fixed"
                   ELSE IF named = {} THEN None ELSE h.ranges[Max(named)].fix.state,
         versions |-> {h.ranges[i].fix.v : i \in fixed}]

\* getRelatedVulnerabilities: the CVE and GHSA ids of the record but, for a
\* provider's own records, the id itself.
getRelatedVulnerabilities(h) ==
    {r \in {h.id} \cup h.aliases : ~(r = h.id /\ h.prov \in {"nvd", "github"})}

\* newVulnerabilityFromParts; None when the constraint does not parse.
newVulnerability(h) ==
    LET cons == getVersionConstraint(h)
    IN  IF cons = None THEN None
        ELSE [id |-> h.id, prov |-> h.prov, os |-> h.os, name |-> h.name, cons |-> cons,
              related |-> getRelatedVulnerabilities(h), fix |-> toFix(h), cpe |-> h.cpe,
              quals |-> h.quals, unaffected |-> h.unaffected, status |-> h.status]

(***************************************************************************)
(* Searches                                                                *)
(***************************************************************************)

\* The criteria of one search. None or {} leaves a criterion out; version and
\* pred are applied to ranges and to vulnerabilities.
Criteria ==
    [name |-> None, eco |-> None, id |-> None, cpe |-> None, distros |-> {}, exact |-> FALSE,
     unaffected |-> FALSE, version |-> None, nak |-> FALSE]

\* queryCPEAttributeScope: a named attribute must be equal, "any" (None) of
\* the search is no condition; "any" of the row is only equal to itself.
cpeRow(spec, row) == \A a \in DOMAIN spec : spec[a] = None \/ row[a] = spec[a]

\* getPackages: name, ecosystem, CPEs of the package, id, operating systems.
\* No operating system asked for means rows without one; systems that no row
\* matches (ErrOSNotPresent) find nothing.
handlePackage(c, h) ==
    /\ c.name = None \/ h.name = c.name
    /\ c.eco = None \/ h.eco = c.eco
    /\ c.cpe = None \/ (h.cpe # None /\ cpeRow(c.cpe, h.cpe))

handleOSOptions(hs, oss, c) == {h \in hs : IF c.distros = {} THEN h.os = None ELSE h.os \in oss}

getPackages(db, c) ==
    handleOSOptions({h \in db.handles : /\ h.kind = "pkg" /\ h.unaffected = c.unaffected
                                        /\ handlePackage(c, h)
                                        /\ c.id = None \/ h.id = c.id},
                    UNION {GetOperatingSystems(db.oss, s) : s \in handleDistro(c.distros, c.exact)},
                    c)

getCPEHandles(db, c) ==
    {h \in db.handles : /\ h.kind = "cpe" /\ h.unaffected = c.unaffected
                        /\ cpeRow(c.cpe, h.cpe)
                        /\ c.id = None \/ h.id = c.id}

\* filterAffectedPackageVersions and its three siblings. A search for NAKs asks
\* for the constraint itself.
filterVersions(hs, c) ==
    LET nak(h) == \E i \in DOMAIN h.ranges :
                      h.ranges[i].cons = NakConstraint \/ h.ranges[i].cons.op = "bad"
    IN  {h \in hs : rangesKept(h, c.version) /\ (c.nak => nak(h))}

\* processAffectedPackageHandles and its siblings: a record that cannot be
\* converted is logged and left out.
processHandles(hs) == {newVulnerability(h) : h \in hs} \ {None}

fetchAndProcessPackages(db, c) ==
    IF c.name = None /\ c.eco = None /\ c.cpe = None /\ c.id = None THEN {} ELSE getPackages(db, c)

fetchAndProcessCPEs(db, c) == IF c.cpe = None THEN {} ELSE getCPEHandles(db, c)

\* FindVulnerabilities but for the criteria that are functions: those filter
\* what it returns.
FindVulnerabilities(db, c) ==
    processHandles(filterVersions(fetchAndProcessPackages(db, c) \cup fetchAndProcessCPEs(db, c), c))
=============================================================================
