------------------------------- MODULE Report -------------------------------
(***************************************************************************)
(* From the matches of a scan to its report: the document                  *)
(* (grype/presenter/models), the table, SARIF and CycloneDX views of it,   *)
(* and the explanation of a vulnerability (grype/presenter/explain).       *)
(*                                                                         *)
(* A match: [pkg, vuln, type]; type is "direct", "indirect" or "cpe".      *)
(* pkg: [id, type, name, version, locs, distro].                           *)
(* vuln: [id, ns, sev, risk, epss, kev, fixes, state, cvss, related]; epss *)
(* and fixes are sequences, cvss the base scores, related a sequence of    *)
(* [id, ns, cvss].  A fix version is a number of one digit, or NotSemver.  *)
(* Rank gives every text its place, from 1, in the order of the bytes.     *)
(* The related vulnerabilities of a match have different ids.              *)
(***************************************************************************)
EXTENDS Integers, FiniteSetsExt, Provide

CONSTANTS Rank, VersionLength, MaxVersionFieldLength, NVD

(***************************************************************************)
(* The order of the findings                                               *)
(***************************************************************************)

\* Go sorts short slices by insertion: an element moves left past its
\* predecessors for as long as it is less than the next one.
InsertionSort(s, less(_, _)) ==
    LET place(done, x) == Max({0} \cup {k \in DOMAIN done : ~less(x, done[k])}) + 1
        sorted[n \in 0 .. Len(s)] ==
            IF n = 0 THEN <<>> ELSE InsertAt(sorted[n - 1], place(sorted[n - 1], s[n]), s[n])
    IN  sorted[Len(s)]

Lexicographic(s, t) ==
    \E i \in DOMAIN s \cap DOMAIN t : s[i] < t[i] /\ \A j \in 1 .. i - 1 : s[j] = t[j]

\* Texts of different lengths: a beginning comes before what it begins.
TextLess(s, t) == Lexicographic(Append(s, 0), Append(t, 0))

\* The place of a version among texts.
VersionRank(v) == IF v = NotSemver THEN 0 ELSE v

\* ByElements: matches that agree on all of this (those of two namespaces)
\* keep the order in which the map happened to list them.
ByElements(a, b) ==
    LET fixes(m) == InsertionSort([i \in DOMAIN m.vuln.fixes |-> VersionRank(m.vuln.fixes[i])], <)
        paths(m) == SetToSortSeq({Rank[l[1]] : l \in m.pkg.locs}, <)
        key(m)   == <<Rank[m.vuln.id], Rank[m.pkg.name], VersionRank(m.pkg.version), Rank[m.pkg.type]>>
    IN  \/ Lexicographic(key(a), key(b))
        \/ key(a) = key(b) /\ TextLess(fixes(a), fixes(b))
        \/ key(a) = key(b) /\ fixes(a) = fixes(b) /\ TextLess(paths(a), paths(b))

severityPriority(sev) ==
    CASE sev = "critical" -> 1 [] sev = "high" -> 2 [] sev = "medium" -> 3
      [] sev = "low" -> 4 [] sev = "negligible" -> 5 [] OTHER -> 100

epssPercentile(epss) == Max({0} \cup Range(epss))

comparePackageAttributes(m) == <<Rank[m.pkg.name], VersionRank(m.pkg.version), Rank[m.pkg.type]>>
compareThreat(m) == <<0 - m.vuln.risk, severityPriority(m.vuln.sev), 0 - epssPercentile(m.vuln.epss)>>
compareVulnerabilityAttributes(m) == <<Rank[m.vuln.id]>> \o compareThreat(m)

\* An unknown strategy is the default one, by risk.
matchSortStrategy(strategy, m) ==
    CASE strategy = "package"       -> comparePackageAttributes(m) \o compareVulnerabilityAttributes(m)
      [] strategy = "vulnerability" -> compareVulnerabilityAttributes(m) \o comparePackageAttributes(m)
      [] strategy = "severity"      -> <<severityPriority(m.vuln.sev), 0 - m.vuln.risk, 0 - epssPercentile(m.vuln.epss)>>
                                       \o comparePackageAttributes(m) \o <<Rank[m.vuln.id]>>
      [] strategy = "epss"          -> <<0 - epssPercentile(m.vuln.epss), 0 - m.vuln.risk, severityPriority(m.vuln.sev)>>
                                       \o comparePackageAttributes(m) \o <<Rank[m.vuln.id]>>
      [] strategy = "kev"           -> <<0 - m.vuln.kev>> \o compareThreat(m) \o comparePackageAttributes(m) \o <<Rank[m.vuln.id]>>
      [] OTHER                      -> compareThreat(m) \o comparePackageAttributes(m) \o <<Rank[m.vuln.id]>>

SortMatches(findings, strategy) ==
    InsertionSort(findings, LAMBDA a, b : Lexicographic(matchSortStrategy(strategy, a), matchSortStrategy(strategy, b)))

(***************************************************************************)
(* The document                                                            *)
(***************************************************************************)

\* Fix versions above the installed one come first, in ascending order. A
\* version that cannot be compared is never less, and nothing is less than it.
fixBefore(installed, v1, v2) ==
    /\ v1 # NotSemver /\ v2 # NotSemver
    /\ IF (v1 <= installed) # (v2 <= installed) THEN v1 > installed ELSE v2 > v1

calculateSuggestedFixedVersion(installed, fixes) ==
    IF fixes = <<>> THEN None
    ELSE Head(InsertionSort(fixes, LAMBDA v1, v2 : fixBefore(installed, v1, v2)))

\* sortVersions: what cannot be compared goes last.
sortVersions(fixes) ==
    InsertionSort(SelectSeq(fixes, LAMBDA v : v # NotSemver), LAMBDA a, b : a < b)
    \o SelectSeq(fixes, LAMBDA v : v = NotSemver)

newMatch(m) ==
    [pkg |-> m.pkg, type |-> m.type, suggested |-> calculateSuggestedFixedVersion(m.pkg.version, m.vuln.fixes),
     vuln |-> [m.vuln EXCEPT !.fixes = sortVersions(@)]]

selectMostCommonDistro(pkgs) ==
    LET count(i) == Cardinality({j \in 1 .. i : pkgs[j].distro = pkgs[i].distro})
        named    == {i \in DOMAIN pkgs : pkgs[i].distro # None}
        top      == Max({0} \cup {count(i) : i \in named})
    IN  IF named = {} THEN None ELSE pkgs[Min({i \in named : count(i) = top})].distro

newDistribution(ctxDistro, common) == IF ctxDistro # None THEN ctxDistro ELSE common

\* listed: the matches in the order the map lists them.
NewDocument(pkgs, ctxDistro, listed, ignored, strategy, eol) ==
    LET sorted == InsertionSort(listed, ByElements)
    IN  [matches |-> SortMatches([i \in DOMAIN sorted |-> newMatch(sorted[i])], strategy),
         ignored |-> [i \in DOMAIN ignored |-> newMatch(ignored[i])],
         alerts  |-> {p.id : p \in {p \in Range(pkgs) : p.distro \in eol}},
         distro  |-> newDistribution(ctxDistro, selectMostCommonDistro(pkgs))]

(***************************************************************************)
(* The table                                                               *)
(***************************************************************************)

\* Mutant: the column is cut without regard to the suggested fix.
formatFirstVersions(m) == SubSeq(m.vuln.fixes, 1, Min({Len(m.vuln.fixes), MaxVersionFieldLength \div VersionLength}))

\* With several fixes, the suggested one is always shown; of the others, those
\* that fit in the column.
formatVersionsToDisplay(m) ==
    LET fixes == m.vuln.fixes
        step(acc, v) ==
            IF v \in Range(acc) THEN acc
            ELSE IF Len(fixes) > 1 /\ m.suggested # None /\ v # m.suggested
                    /\ (Len(acc) + 1) * VersionLength > MaxVersionFieldLength
                 THEN acc ELSE Append(acc, v)
    IN  FoldLeft(step, <<>>, fixes)

\* The versions of the "Fixed In" column, and whether it ends in dots.
formatFix(m) ==
    IF m.vuln.state \in {"wont-fix", "unknown"} THEN [text |-> m.vuln.state, shown |-> <<>>, more |-> FALSE]
    ELSE [text |-> "versions", shown |-> formatVersionsToDisplay(m),
          more |-> Len(m.vuln.fixes) > 1 /\ Len(m.vuln.fixes) * VersionLength > MaxVersionFieldLength]

newEPSS(epss) == IF epss = <<>> THEN 0 ELSE epss[1]

newRow(m, suppressed, showDistro) ==
    [name |-> m.pkg.name, version |-> m.pkg.version, fix |-> formatFix(m), type |-> m.pkg.type, id |-> m.vuln.id,
     sev |-> m.vuln.sev, epss |-> newEPSS(m.vuln.epss), risk |-> m.vuln.risk,
     notes |-> (IF m.vuln.kev > 0 THEN {"kev"} ELSE {}) \cup (IF suppressed THEN {"suppressed"} ELSE {})
               \cup (IF showDistro /\ m.vuln.ns.distro THEN {m.vuln.ns.name} ELSE {})]

Deduplicate(rows) == FoldLeft(LAMBDA acc, r : IF r \in Range(acc) THEN acc ELSE Append(acc, r), <<>>, rows)

getRows(doc, showSuppressed) ==
    LET several == Cardinality({m.vuln.ns : m \in {m \in Range(doc.matches) : m.vuln.ns.distro}}) > 1
        row(m) == newRow(m, FALSE, several)
        gone(m) == newRow(m, TRUE, several)
    IN  Deduplicate([i \in DOMAIN doc.matches |-> row(doc.matches[i])]
                    \o IF showSuppressed THEN [i \in DOMAIN doc.ignored |-> gone(doc.ignored[i])] ELSE <<>>)

(***************************************************************************)
(* SARIF and CycloneDX                                                     *)
(***************************************************************************)

ruleID(m) == <<m.vuln.id, m.pkg.name>>

levelValue(sev) ==
    CASE sev \in {"critical", "high"} -> "error" [] sev = "medium" -> "warning" [] OTHER -> "note"

\* The highest score that is not the NVD's, or else the highest of all.
cvssScore(m) ==
    LET all == {[ns |-> m.vuln.ns, cvss |-> m.vuln.cvss]} \cup {[ns |-> r.ns, cvss |-> r.cvss] : r \in Range(m.vuln.related)}
        top(S) == Max({-1} \cup UNION {x.cvss : x \in S})
    IN  IF top({x \in all : x.ns # NVD}) > 0 THEN top({x \in all : x.ns # NVD}) ELSE top(all)

securitySeverityValue(m) ==
    IF cvssScore(m) > 0 THEN cvssScore(m)
    ELSE CASE m.vuln.sev = "critical" -> 90 [] m.vuln.sev = "high" -> 70 [] m.vuln.sev = "medium" -> 40
           [] m.vuln.sev = "low" -> 10 [] OTHER -> 0

\* A rule is described by the first finding that has it.
sarifRules(doc) ==
    FoldLeft(LAMBDA rules, m : IF \E r \in Range(rules) : r.id = ruleID(m) THEN rules
                               ELSE Append(rules, [id |-> ruleID(m), score |-> securitySeverityValue(m)]), <<>>, doc.matches)

partialFingerprints(m) == <<m.pkg.type, m.pkg.name, m.pkg.version, m.pkg.locs>>

sarifResults(doc) ==
    [i \in DOMAIN doc.matches |->
        LET m == doc.matches[i]
        IN  [rule |-> ruleID(m), level |-> levelValue(m.vuln.sev), print |-> partialFingerprints(m)]]

cdxSeverityFromGrypeSeverity(sev) ==
    IF sev = "negligible" THEN "none" ELSE IF sev \in {"low", "medium", "high", "critical"} THEN sev ELSE "unknown"

\* One rating per score, one without a score if there is none, and one for
\* each of EPSS and KEV.
generateCDXRatings(v) ==
    LET rating(method, score, sev) == [method |-> method, score |-> score, severity |-> sev]
        severity == cdxSeverityFromGrypeSeverity(v.sev)
    IN  {rating("cvss", c, severity) : c \in v.cvss}
        \cup (IF v.cvss = {} THEN {rating("", None, severity)} ELSE {})
        \cup (IF v.epss # <<>> THEN {rating("EPSS", newEPSS(v.epss), "")} ELSE {})
        \cup (IF v.kev > 0 THEN {rating("other", 1, "")} ELSE {})

NewVulnerability(doc) ==
    [i \in DOMAIN doc.matches |->
        LET m == doc.matches[i]
        IN  [id |-> m.vuln.id, source |-> m.vuln.ns, affects |-> m.pkg.id,
             severity |-> cdxSeverityFromGrypeSeverity(m.vuln.sev), ratings |-> generateCDXRatings(m.vuln)]]

(***************************************************************************)
(* Explaining a vulnerability                                              *)
(***************************************************************************)

\* The match a builder is about: a later one takes its place if the user asked
\* for its id and it is the NVD's own record or one the present match refers to.
isPrimaryAdd(b, m, requested) ==
    \/ b.primary = None
    \/ /\ requested = {} \/ m.vuln.id \in requested
       /\ m.vuln.ns = NVD \/ \E r \in Range(b.primary.vuln.related) : r.id = m.vuln.id

WithMatch(b, m, requested) ==
    IF ~isPrimaryAdd(b, m, requested) THEN [b EXCEPT !.related = Append(@, m)]
    ELSE [primary |-> m, related |-> IF b.primary = None THEN b.related ELSE Append(b.related, b.primary)]

\* The builder of an id: the matches of that id, then those that refer to it.
builder(doc, id, requested) ==
    LET with(b, m) == WithMatch(b, m, requested)
        direct == SelectSeq(doc.matches, LAMBDA m : m.vuln.id = id)
        others == SelectSeq(doc.matches, LAMBDA m : \E r \in Range(m.vuln.related) : r.id = id)
    IN  FoldLeft(with, FoldLeft(with, [primary |-> None, related |-> <<>>], direct), others)

primaryVulnerability(b) ==
    LET all == {m : m \in Range(b.related) \cup {b.primary}}
        nvd == {x \in UNION {{[id |-> r.id, ns |-> r.ns] : r \in Range(m.vuln.related)} \cup {[id |-> m.vuln.id, ns |-> m.vuln.ns]} : m \in all} :
                    x.id = b.primary.vuln.id /\ x.ns = NVD}
    IN  IF nvd # {} THEN CHOOSE x \in nvd : TRUE ELSE [id |-> b.primary.vuln.id, ns |-> b.primary.vuln.ns]

\* The evidence of a package: the first match describes it; later ones add
\* their locations and the kinds of explanation it lacks, but never a direct one.
groupAndSortEvidence(matches) ==
    LET of(id) == SelectSeq(matches, LAMBDA m : m.pkg.id = id)
        kinds(id) == {of(id)[1].type} \cup {m.type : m \in {m \in Range(of(id)) : m.type \in {"cpe", "indirect"}}}
        priority(m) == CASE m.type = "direct" -> 2 [] m.type = "cpe" -> 1 [] OTHER -> 0
    IN  {[pkg |-> id, kinds |-> kinds(id), locs |-> UNION {m.pkg.locs : m \in Range(of(id))},
          priority |-> FoldLeft(LAMBDA n, m : n + priority(m), 0, of(id))] : id \in {m.pkg.id : m \in Range(matches)}}

Build(b) ==
    LET all == Append(b.related, b.primary)
        vulns == UNION {{[id |-> r.id, ns |-> r.ns] : r \in Range(m.vuln.related)} \cup {[id |-> m.vuln.id, ns |-> m.vuln.ns]} : m \in Range(all)}
    IN  [primary |-> primaryVulnerability(b), related |-> vulns \ {primaryVulnerability(b)},
         packages |-> groupAndSortEvidence(all)]

\* ExplainByID: the ids that no finding is about or refers to are passed over.
ExplainByID(doc, ids) ==
    LET known == {m.vuln.id : m \in Range(doc.matches)} \cup UNION {{r.id : r \in Range(m.vuln.related)} : m \in Range(doc.matches)}
    IN  [id \in ids \cap known |-> Build(builder(doc, id, ids))]
=============================================================================
