----------------------------- MODULE OSTransform ----------------------------
(***************************************************************************)
(* grype/db/v6/build/transformers/os: the records of the distributions.    *)
(*                                                                         *)
(* A record: [id, ns, fixedIns, cves, severity, cvss, kernelBase].  The    *)
(* namespace ns is [id, major, minor, channel, word], e.g. rhel:9.4+eus    *)
(* (word for a release that is not a number).  kernelBase is the lower     *)
(* bound an ALASKERNEL id names, None for other ids.  A FixedIn:           *)
(* [name, version, range, format, module, arch, noAdvisory, dated,         *)
(* advisories]; version 0 is the "0" of a package that is not affected,    *)
(* range a set of constraints or {}, an advisory is [minor, version].      *)
(***************************************************************************)
EXTENDS Ranges

CONSTANT rhelMinorSpan      \* the last minor release of each RHEL major

getPackageType(osName) ==
    CASE osName \in {"arch", "archlinux"} -> "alpm"
      [] osName \in {"redhat", "amazonlinux", "oraclelinux", "sles", "mariner", "azurelinux", "photon", "fedora",
                     "rocky", "rockylinux", "almalinux", "centos", "hummingbird"} -> "rpm"
      [] osName \in {"ubuntu", "debian", "echo"} -> "deb"
      [] osName \in {"alpine", "chainguard", "wolfi", "minimos", "secureos"} -> "apk"
      [] osName = "windows" -> "msrc-kb"
      [] OTHER -> None

\* The distribution an id stands for (distro.IDMapping); unknown ids stay.
normalizeOsName(id) ==
    CASE id = "rhel" -> "redhat"
      [] id = "amzn" -> "amazonlinux"
      [] id = "ol"   -> "oraclelinux"
      [] OTHER -> id

\* Mariner 3 and later is Azure Linux.
getOSInfo(ns) ==
    LET id == IF ns.id = "mariner" /\ ns.word = None /\ ns.major # <<>>
                 /\ (Len(ns.major) > 1 \/ ns.major[1] >= 3) THEN "azurelinux" ELSE ns.id
    IN  [ns EXCEPT !.id = id] @@ [name |-> normalizeOsName(id)]

getOperatingSystem(oi) ==
    IF oi.major = <<>> /\ oi.word = None THEN None
    ELSE osRow(oi.name, oi.id, oi.major, oi.minor, oi.word, oi.channel)

getOperatingSystemWithMinor(oi, minor) == [getOperatingSystem(oi) EXCEPT !.minor = minor]

\* groupFixedIns: by package, module, format and architecture.
GroupOf(f) == [name |-> f.name, module |-> f.module, format |-> f.format, arch |-> f.arch]
groups(rec) == {GroupOf(rec.fixedIns[i]) : i \in DOMAIN rec.fixedIns}
groupFixedIns(rec, g) == LET in(f) == GroupOf(f) = g IN SelectSeq(rec.fixedIns, in)

isNotAffectedGroup(fs) == \A i \in DOMAIN fs : fs[i].version = 0

\* deriveConstraintFromFix: kernel live patches have a lower bound in their id.
deriveConstraintFromFix(v, rec) ==
    IF rec.kernelBase = None THEN {Bound("lt", v)} ELSE {Bound("ge", rec.kernelBase), Bound("lt", v)}

\* enforceConstraint: the constraints of a vulnerable range come first.
enforceConstraint(f, rec) ==
    IF f.range # {} THEN f.range
    ELSE {IF f.version = None THEN {} ELSE deriveConstraintFromFix(f.version, rec)}

getFix(f) ==
    Fix(IF f.version # None THEN "fixed" ELSE IF f.noAdvisory THEN "wont-fix" ELSE "not-fixed", f.version, f.dated)

\* buildRanges; the alternatives of one vulnerable range are ranges here.
buildRanges(rec, fs) ==
    FlattenSeq([i \in DOMAIN fs |->
        LET cs == SetToSeq(enforceConstraint(fs[i], rec))
        IN  [j \in DOMAIN cs |-> Range_(cs[j], getFix(fs[i]))]])

\* The minor releases a group is written for, None standing for the row without
\* minor; {} when the group is written as it is.
rhelGAExpansionMinors(oi, g) ==
    IF /\ g.format = "rpm" /\ oi.name = "redhat" /\ oi.channel = None
       /\ oi.minor = <<>> /\ oi.major \in DOMAIN rhelMinorSpan
    THEN {<<m>> : m \in 0 .. rhelMinorSpan[oi.major]} \cup {<<>>} ELSE {}

\* The fix of each minor release with an advisory of its own; the last wins.
collectKnownMinorFixes(fs) ==
    LET all == FlattenSeq([i \in DOMAIN fs |->
                  [j \in DOMAIN fs[i].advisories |->
                      [minor |-> fs[i].advisories[j].minor, version |-> fs[i].advisories[j].version, dated |-> fs[i].dated]]])
        of(m) == {i \in DOMAIN all : all[i].minor = m}
    IN  [m \in {all[i].minor : i \in DOMAIN all} \ {None} |-> all[Max(of(m))]]

hasVulnerableRange(fs) == \E i \in DOMAIN fs : fs[i].range # {}

\* rangesFor of expandRHELMinorRows: the minor's own fix or the group's ranges.
rangesFor(rec, fs, minor) ==
    LET fixes == collectKnownMinorFixes(fs)
    IN  IF hasVulnerableRange(fs) \/ minor = <<>> \/ minor[1] \notin DOMAIN fixes THEN buildRanges(rec, fs)
        ELSE << Range_(deriveConstraintFromFix(fixes[minor[1]].version, rec),
                       Fix("fixed", fixes[minor[1]].version, fixes[minor[1]].dated)) >>

\* Only rpm groups are qualified: by module ("" is none) and architecture.
qualifiersOf(g) ==
    IF g.format # "rpm" THEN NoQuals
    ELSE [NoQuals EXCEPT !.module = IF g.module = None THEN "" ELSE g.module, !.arch = g.arch]

affectedHandle(oi, g, os, ranges) == PackageHandle(FALSE, g.name, getPackageType(oi.name), os, qualifiersOf(g), ranges)

expandRHELMinorRows(rec, oi, g, fs) ==
    {affectedHandle(oi, g, getOperatingSystemWithMinor(oi, m), rangesFor(rec, fs, m)) : m \in rhelGAExpansionMinors(oi, g)}

\* Mutant: a package that is not affected is written for the major release only.
expandUnaffectedHandles_MajorOnly(oi, g) ==
    {PackageHandle(TRUE, g.name, getPackageType(oi.name), getOperatingSystem(oi), NoQuals,
                   <<Range_({}, Fix("not-affected", None, FALSE))>>)}

\* The rows of the affected handles, without their qualifiers.
expandUnaffectedHandles(oi, g) ==
    LET mk(os) == PackageHandle(TRUE, g.name, getPackageType(oi.name), os, NoQuals,
                                <<Range_({}, Fix("not-affected", None, FALSE))>>)
    IN  IF rhelGAExpansionMinors(oi, g) = {} THEN {mk(getOperatingSystem(oi))}
        ELSE {mk(getOperatingSystemWithMinor(oi, m)) : m \in rhelGAExpansionMinors(oi, g)}

groupHandles(rec, oi, g, fs) ==
    CASE getPackageType(oi.name) # "apk" /\ isNotAffectedGroup(fs) -> expandUnaffectedHandles(oi, g)
      [] ~(getPackageType(oi.name) # "apk" /\ isNotAffectedGroup(fs)) /\ rhelGAExpansionMinors(oi, g) # {} ->
            expandRHELMinorRows(rec, oi, g, fs)
      [] OTHER -> {affectedHandle(oi, g, getOperatingSystem(oi), buildRanges(rec, fs))}

getPackages(rec) ==
    LET oi == getOSInfo(rec.ns)
    IN  UNION {groupHandles(rec, oi, g, groupFixedIns(rec, g)) : g \in groups(rec)}

\* The stated severity before the scores; "unknown" is none.
getSeverities(rec) ==
    (IF rec.severity \in {None, "unknown"} THEN <<>> ELSE <<[scheme |-> "CHMLN", value |-> rec.severity, rank |-> 1]>>)
    \o [i \in DOMAIN rec.cvss |-> [scheme |-> "CVSS", value |-> rec.cvss[i], rank |-> 2]]

Transform(rec) ==
    [id |-> rec.id, aliases |-> rec.cves, status |-> "active", severities |-> getSeverities(rec),
     handles |-> SetToSeq(getPackages(rec))]
=============================================================================
