------------------------------ MODULE Matchers ------------------------------
(***************************************************************************)
(* How one package is matched against a database (grype/matcher).  A       *)
(* matcher works through a list of searches; each search queries the       *)
(* database and adds matches and ignore filters; a query may fail, and     *)
(* each search has its own way to deal with that.                          *)
(*                                                                         *)
(*   db        the database (VulnProvider)                                 *)
(*   pkg       the catalogued package                                      *)
(*   cfg       the matchers' configuration: [cpes, maven, stdlib, epochs]  *)
(*   todo      the searches still to do                                    *)
(*   matches   [v, pkg, det], by Set.ToMatches                             *)
(*   ignores   [kind, id]: "owned" for packages whose files this one owns, *)
(*             "rule" for packages of this name and version                *)
(*   status    "run", "done", or "error": Match returned an error          *)
(*   lost      the searches whose failure was only logged                  *)
(*                                                                         *)
(* The version of a fix is [n, el]: its number and the RHEL release of the *)
(* build, None without one.                                                *)
(***************************************************************************)
EXTENDS VulnProvider, ResultSet

CONSTANTS Scenarios,    \* [pkg, oss, handles, cfg]: what may be scanned
          MaxHandles    \* records in a database

VARIABLES db, pkg, cfg, todo, matches, ignores, status, lost

vars == <<db, pkg, cfg, todo, matches, ignores, status, lost>>

(***************************************************************************)
(* Searching                                                               *)
(***************************************************************************)

\* detailProvider: a distribution record found under another name than the
\* catalogued one is an indirect match.
detailType(c, catalog) ==
    CASE c.cpe # None -> "cpe"
      [] c.eco # None -> "direct"
      [] OTHER -> IF c.name = catalog.name THEN "direct" ELSE "indirect"

FindResults(c, catalog, keep(_)) ==
    {[v |-> v, det |-> {[type |-> detailType(c, catalog), name |-> c.name]}] :
        v \in {v \in FindVulnerabilities(db, c) : keep(v)}}

Any(v) == TRUE

isUnknownVersion(v) == v = UnknownVersion

OnlyVulnerableVersions(v, ver) == Satisfied(v.cons, ver)

OnlyNonWithdrawnVulnerabilities(v) == v.status \notin {"withdrawn", "rejected"}

collectVulnerabilityIDs(v) == {v.id} \cup v.related

OwnershipIgnores(s) ==
    {[kind |-> "owned", id |-> id] : id \in UNION {collectVulnerabilityIDs(v) : v \in Vulnerabilities(s)}}

constructIgnoreFilters(s) ==
    {[kind |-> "rule", id |-> id] : id \in UNION {collectVulnerabilityIDs(v) : v \in Vulnerabilities(s)}}

Nothing == [m |-> {}, ig |-> {}]

\* ConvertToIndirectMatches
ConvertToIndirectMatches(ms, catalog) ==
    {[x EXCEPT !.pkg = catalog,
               !.det = {[d EXCEPT !.type = IF @ = "direct" THEN "indirect" ELSE @] : d \in @}] : x \in ms}

ByName(p, name, exact, unaffected) ==
    [Criteria EXCEPT !.name = name, !.distros = {p.distro}, !.exact = exact, !.unaffected = unaffected]

(***************************************************************************)
(* By distribution                                                         *)
(***************************************************************************)

\* What is vulnerable and not denied; the rest of what was found is fixed.
distroOutcome(all, unaffected, p, catalog) ==
    LET vulnerable == Filter(all, LAMBDA v : OnlyVulnerableVersions(v, p.version))
        fixed == Merge(Remove(all, vulnerable), unaffected)
    IN  [m |-> ToMatches(Remove(vulnerable, unaffected), catalog), ig |-> OwnershipIgnores(fixed)]

\* The denials are not asked for the qualifiers of the disclosures.
MatchPackageByDistro(p, catalog) ==
    IF p.distro = None \/ isUnknownVersion(p.version) THEN Nothing
    ELSE distroOutcome(
             UNION {FindResults(ByName(p, n, FALSE, FALSE), catalog, LAMBDA v : OnlyQualifiedPackages(p, v)) :
                       n \in PackageNames(p)},
             UNION {FindResults([ByName(p, n, FALSE, TRUE) EXCEPT !.version = p.version], catalog, Any) :
                       n \in PackageNames(p)},
             p, catalog)

(***************************************************************************)
(* By ecosystem                                                            *)
(***************************************************************************)

ecosystemOutcome(all, unaffected, p) ==
    [m |-> ToMatches(Remove(Filter(all, LAMBDA v : OnlyVulnerableVersions(v, p.version)), unaffected), p),
     ig |-> constructIgnoreFilters(unaffected)]

MatchPackageByEcosystem(p, names) ==
    LET keep(v) == OnlyQualifiedPackages(p, v) /\ OnlyNonWithdrawnVulnerabilities(v)
        found(un) == UNION {FindResults([Criteria EXCEPT !.name = n, !.eco = p.type, !.unaffected = un,
                                                         !.version = IF un THEN p.version ELSE None], p, keep) :
                               n \in names}
    IN  IF isUnknownVersion(p.version) THEN Nothing ELSE ecosystemOutcome(found(FALSE), found(TRUE), p)

(***************************************************************************)
(* By CPE                                                                  *)
(***************************************************************************)

matchesAttribute(a, b) == a = None \/ b = None \/ a = b

Languages == {"python", "npm", "java", "go"}

\* A target that names no language and is not one of the known products.
isUnknownTarget(t) == t \notin Languages \cup {"joomla", "drupal"}

OnlyVulnerableTargets(p, v) ==
    LET same == {c \in p.cpes : v.cpe # None /\ matchesAttribute(c.product, v.cpe.product)}
        pkgT == {c.target : c \in same}
        named == pkgT \ {None}
    IN  \/ isOSPackage(p) \/ p.type = "kb"
        \/ /\ v.cpe = None \/ same # {}
           /\ \/ v.cpe # None /\ v.cpe.target \in named
              \/ p.type = "java"
              \/ /\ p.type = "binary"
                 /\ None \in pkgT \cup {c.cpe.target : c \in {x \in {v} : x.cpe # None}}
              \/ /\ p.type \notin {"java", "binary"}
                 /\ v.cpe = None \/ v.cpe.target \in {None, p.type} \/ isUnknownTarget(v.cpe.target)

\* The release of an apk (its last digit) is no part of a CPE's version.
alpineCPEComparableVersion(ver) == ver - (ver % 10)

\* The version a CPE of the package is searched with: its own, or the package's.
searchVersion(p, c) ==
    LET own == IF c.version \in {None, UnknownVersion} THEN None
               ELSE IF p.type = "apk" THEN alpineCPEComparableVersion(c.version) ELSE c.version
    IN  IF own = None THEN p.version ELSE own

cpeOutcome(all, unaffected, p, ver) ==
    LET vulns == Filter(all, LAMBDA v : OnlyVulnerableVersions(v, ver))
    IN  [m |-> {[v |-> v, pkg |-> p, det |-> {[type |-> "cpe", name |-> None]}] : v \in Vulnerabilities(vulns)},
         ig |-> OwnershipIgnores(Merge(Remove(all, vulns), unaffected))]

AllOf(rs) == [m |-> UNION {r.m : r \in rs}, ig |-> UNION {r.ig : r \in rs}]

\* A package without a CPE (ErrEmptyCPEMatch) finds nothing.
MatchPackageByCPEs(p) ==
    LET keep(v) == OnlyVulnerableTargets(p, v) /\ OnlyQualifiedPackages(p, v) /\ OnlyNonWithdrawnVulnerabilities(v)
        found(c, un) == FindResults([Criteria EXCEPT !.cpe = [product |-> c.product, target |-> c.target],
                                         !.unaffected = un, !.version = IF un THEN searchVersion(p, c) ELSE None], p, keep)
    IN  AllOf({cpeOutcome(found(c, FALSE), found(c, TRUE), p, searchVersion(p, c)) :
                  c \in {c \in p.cpes : ~isUnknownVersion(searchVersion(p, c))}})

(***************************************************************************)
(* rpm                                                                     *)
(***************************************************************************)

\* addEpochIfApplicable: the catalogued package gets the epoch of its metadata
\* or 0; an upstream package keeps the version its source rpm is named with,
\* which has none. (UnknownVersion is the empty version here: the text
\* "unknown" would be given an epoch.)
addEpochIfApplicable(p) ==
    IF isUnknownVersion(p.version) \/ p.version < NoEpoch THEN p
    ELSE [p EXCEPT !.version = @ - NoEpoch + 10 * (IF p.epoch = None THEN 0 ELSE p.epoch)]

\* The MissingEpochStrategy of the matcher: "zero" supplies epoch 0, "auto" the
\* one of the version compared with.
NewWithConfig(p, strategy) ==
    IF strategy = "zero" /\ ~isUnknownVersion(p.version) /\ p.version >= NoEpoch
    THEN [p EXCEPT !.version = @ - NoEpoch] ELSE p

standardOutcome(all, unaffected, p, catalog) ==
    LET disclosures == Filter(all, LAMBDA v : OnlyVulnerableVersions(v, p.version))
    IN  [m |-> ToMatches(disclosures, catalog),
         ig |-> OwnershipIgnores(Merge(unaffected, Remove(all, disclosures)))]

standardMatches(p, catalog) ==
    LET found(un) == FindResults([ByName(p, p.name, FALSE, un) EXCEPT !.version = IF un THEN p.version ELSE None],
                                 catalog, LAMBDA v : OnlyQualifiedPackages(p, v))
    IN  standardOutcome(found(FALSE), found(TRUE), p, catalog)

\* ByFixedVersion; a fix that cannot be compared makes the criterion fail with
\* the record counted as fixed, and Filter keeps what fails.
ByFixedVersion(v, ver) ==
    v.fix.state = "fixed" /\ \E f \in v.fix.versions : f.n = None \/ against(ver, f.n) >= f.n

neededFixes(v, ver) == {f \in v.fix.versions : f.n # None /\ against(ver, f.n) < f.n}

\* The number some digits write, 0 for none.
numberOf(digits) == SeqX!FoldLeft(LAMBDA n, d : 10 * n + d, 0, digits)

\* Mutant: every build for the major release can be installed.
isFixReachableForEUS_AnyMinor(f, d) == d = None \/ f.el = None \/ f.el[1] = numberOf(d.major)

\* A build for a later minor release (or another major one) cannot be
\* installed on this one; a build that names no release can.
isFixReachableForEUS(f, d) ==
    \/ d = None \/ d.major = <<>> \/ f.el = None
    \/ f.el[1] = numberOf(d.major) /\ f.el[2] <= numberOf(d.minor)

\* collectMatchingConstraintsDetailsAndFixState for one advisory; eus is None
\* in the ESM search, where every fix is applicable.
collectAdvisory(acc, r, ver, eus) ==
    LET won == IF r.v.fix.state = "wont-fix" /\ acc.state # "fixed" THEN "wont-fix" ELSE acc.state
        needed == neededFixes(r.v, ver)
        usable == {f \in needed : isFixReachableForEUS(f, eus)}
    IN  CASE usable = {} /\ needed # {} /\ won # "fixed" ->
                 [acc EXCEPT !.state = "not-fixed", !.cons = @ \cup {r.v.cons}, !.det = @ \cup r.det]
          [] usable = {} /\ (needed = {} \/ won = "fixed") -> [acc EXCEPT !.state = won]
          [] OTHER -> [fixes |-> acc.fixes \cup usable, cons |-> acc.cons \cup {r.v.cons},
                       state |-> IF won = "fixed" THEN won ELSE r.v.fix.state, det |-> acc.det \cup r.det]

finalizeFixState(v, state) ==
    IF state # None /\ state # "unknown" THEN state ELSE IF v.fix.state = None THEN "unknown" ELSE v.fix.state

\* mergeEUSAdvisoryIntoSingleDisclosure: the set of the patched result, empty
\* when no constraint is left. CombineConstraints joins the constraints.
mergeAdvisories(r, overlays, ver, eus) ==
    LET start == [fixes |-> {}, cons |-> IF OnlyVulnerableVersions(r.v, ver) THEN {r.v.cons} ELSE {},
                  state |-> None, det |-> r.det]
        step(acc, o) == collectAdvisory(acc, o, ver, eus)
        end == SeqX!FoldLeft(step, start, overlays)
        fixed == end.state = "fixed"
        all == end.cons \cup (IF fixed THEN {{[op |-> "lt", v |-> f.n]} : f \in end.fixes} ELSE {})
    IN  IF end.cons = {} THEN {}
        ELSE {[v |-> [r.v EXCEPT
                         !.cons = IF {} \in all THEN {} ELSE UNION all,
                         !.fix = [state |-> finalizeFixState(r.v, end.state),
                                  versions |-> IF fixed THEN end.fixes ELSE @.versions]],
               det |-> end.det]}

hasChannel(p, type, channel) == p.distro # None /\ p.distro.type = type /\ channel \in p.distro.channels

\* redhatEUSMatches and ubuntuESMMatches; order is the order the database
\* returns the resolutions in.
Resolutions(p, catalog) ==
    FindResults([ByName(p, p.name, FALSE, FALSE) EXCEPT !.distros = {p.distro, [p.distro EXCEPT !.channels = {}]}],
                catalog, LAMBDA v : OnlyQualifiedPackages(p, v))

channelOutcome(disclosures, resolutions, p, catalog, order, eus) ==
    LET fixes == Filter(resolutions, LAMBDA v : ByFixedVersion(v, p.version))
        overlays(r) == SelectSeq(order, LAMBDA o : o \in resolutions /\ o.v.id = r.v.id)
        remaining == UNION {mergeAdvisories(r, overlays(r), p.version, eus) : r \in Remove(disclosures, fixes)}
    IN  IF disclosures = {} THEN Nothing
        ELSE [m |-> ToMatches(remaining, catalog), ig |-> OwnershipIgnores(fixes)]

channelMatches(p, catalog, order, eus) ==
    channelOutcome(FindResults([ByName(p, p.name, FALSE, FALSE) EXCEPT
                                    !.distros = {[p.distro EXCEPT !.channels = {}]}, !.version = p.version],
                               catalog, LAMBDA v : OnlyQualifiedPackages(p, v)),
                   Resolutions(p, catalog), p, catalog, order, eus)

(***************************************************************************)
(* AlmaLinux: RHEL disclosures, AlmaLinux fixes                            *)
(***************************************************************************)

markAsIndirectMatches(s) ==
    {[r EXCEPT !.det = {[d EXCEPT !.type = "indirect"] : d \in @}] : r \in s}

\* The version after ">=" or "=" when the constraint has only that.
extractFixVersionFromConstraint(cons) ==
    {c.v : c \in {c \in cons : Cardinality(cons) = 1 /\ c.op \in {"ge", "eq"}}}

replaceWithAlmaLinuxFixInfo(r, incoming) ==
    LET fix == extractFixVersionFromConstraint(incoming.v.cons)
    IN  IF fix = {} THEN r
        ELSE [r EXCEPT !.v.cons = {[op |-> "lt", v |-> n] : n \in fix},
                       !.v.fix = [state |-> "fixed", versions |-> {[n |-> n, el |-> None] : n \in fix}]]

\* What RHEL discloses about a package, the binary itself or a source of it.
rhelOutcome(all, p, source) ==
    LET vulns == Filter(all, LAMBDA v : OnlyVulnerableVersions(v, p.version))
    IN  [vulns |-> IF source THEN markAsIndirectMatches(vulns) ELSE vulns, ig |-> OwnershipIgnores(Remove(all, vulns))]

rhelDisclosures(p, catalog, source) ==
    rhelOutcome(FindResults(ByName([p EXCEPT !.distro.type = "rhel"], p.name, FALSE, FALSE), catalog,
                            LAMBDA v : OnlyQualifiedPackages(p, v)),
                p, source)

\* failed: the queries that fail, of those whose failure is only logged.
almaDisclosures(p, catalog, failed) ==
    LET sources == IF "upstream" \in failed THEN {} ELSE UpstreamPackages(p)
        rs == {rhelDisclosures(q[1], catalog, q[2]) : q \in {<<p, FALSE>>} \cup (sources \X {TRUE})}
    IN  [vulns |-> UNION {r.vulns : r \in rs}, ig |-> UNION {r.ig : r \in rs}]

\* The records of AlmaLinux for the binary and, by findRelatedUnaffectedPackages,
\* for its sources.
allAlmaUnaffected(p, catalog, failed) ==
    UNION {FindResults(ByName(p, name, TRUE, TRUE), catalog, LAMBDA v : OnlyQualifiedPackages(p, v)) :
              name \in {p.name} \cup (IF "related" \in failed THEN {} ELSE {u.name : u \in p.ups})}

applyAlmaLinuxUnaffectedFiltering(disclosures, order, ver) ==
    LET unaffected == SeqX!ToSet(order)
    IN  Update(Remove(disclosures, Filter(unaffected, LAMBDA v : OnlyVulnerableVersions(v, ver))),
               order, replaceWithAlmaLinuxFixInfo)

almaOutcome(all, p, catalog, failed, order) ==
    LET updated == applyAlmaLinuxUnaffectedFiltering(all.vulns, order, p.version)
    IN  IF "unaffected" \in failed \/ all.vulns = {} THEN [m |-> ToMatches(all.vulns, catalog), ig |-> all.ig]
        ELSE [m |-> ToMatches(updated, catalog),
              ig |-> all.ig \cup OwnershipIgnores(Remove(SeqX!ToSet(order), updated))]

\* No advisories are published for debug material.
almaLinuxMatchesWithUpstreams(p, catalog, failed, order) ==
    IF p.name[Len(p.name)] \in {"debuginfo", "debugsource"} THEN Nothing
    ELSE almaOutcome(almaDisclosures(p, catalog, failed), p, catalog, failed, order)

(***************************************************************************)
(* apk                                                                     *)
(***************************************************************************)

\* What the distribution's own database says of an ID decides; an ID it does
\* not know loses the fix NVD names.
withoutSecDBFixes(found, secDB, p) ==
    LET forID(id) == {v \in secDB : v.id = id}
        unfixed(x) == IF x.v.fix.versions = {} THEN x ELSE [x EXCEPT !.v.fix = [state |-> "unknown", versions |-> {}]]
    IN  IF p.distro = None THEN found
        ELSE [found EXCEPT !.m =
            {unfixed(x) : x \in {x \in @ : forID(x.v.id) = {}}}
            \cup {x \in @ : \E v \in forID(x.v.id) : v.fix.versions # {} /\ OnlyVulnerableVersions(v, p.version)}]

cpeMatchesWithoutSecDBFixes(p, cpeFails) ==
    IF cpeFails THEN Nothing
    ELSE withoutSecDBFixes(MatchPackageByCPEs(p),
                           UNION {FindVulnerabilities(db, ByName(p, n, FALSE, FALSE)) :
                                     n \in {p.name} \cup {u.name : u \in p.ups}},
                           p)

apkOutcome(secDB, byCPE) ==
    [m |-> secDB.m \cup {x \in byCPE.m : x.v.id \notin IDs(secDB.m)}, ig |-> secDB.ig \cup byCPE.ig]

findMatchesForPackage(p, catalog, cpeFails) ==
    apkOutcome(MatchPackageByDistro(p, catalog), cpeMatchesWithoutSecDBFixes(p, cpeFails))

findNaksForPackage(p) ==
    LET naks == UNION {FindVulnerabilities(db, [ByName(p, n, FALSE, FALSE) EXCEPT !.nak = TRUE]) :
                          n \in {p.name} \cup {u.name : u \in p.ups}}
    IN  IF p.distro = None THEN Nothing
        ELSE [m |-> {}, ig |-> OwnershipIgnores({[v |-> v, det |-> {}] : v \in naks})]

(***************************************************************************)
(* The searches of each matcher                                            *)
(***************************************************************************)

\* row is the first row of the distribution, or None.
IsDistroEOL(row) == row # None /\ row.eol

eolSearch(row, c) == IF c.cpes /\ IsDistroEOL(row) THEN <<"eolCPE">> ELSE <<>>

debSearches(p, row, c) ==
    (IF hasChannel(p, "ubuntu", "esm") THEN <<"esm">> ELSE <<"debUpstream", "distro">>) \o eolSearch(row, c)

rpmSearches(p, row, c) ==
    (IF p.distro # None /\ p.distro.type = "almalinux" THEN <<"alma">>
     ELSE IF hasChannel(p, "rhel", "eus") THEN <<"eusDirect", "eusUpstream">> ELSE <<"rpmDirect", "rpmUpstream">>)
    \o eolSearch(row, c)

languageSearches(p, c) == <<"language">> \o (IF c.cpes THEN <<"cpe">> ELSE <<>>)

\* The standard library has a setting of its own.
searchByCPE(p, c) == c.cpes \/ (c.stdlib /\ p.name = <<"stdlib">>)

goSearches(p, c) ==
    IF p.devel THEN <<>> ELSE languageSearches(p, [c EXCEPT !.cpes = searchByCPE(p, c)])

javaSearches(p, c) == (IF c.maven THEN <<"maven">> ELSE <<>>) \o languageSearches(p, c)

searchesFor(p, row, c) ==
    CASE p.type = "apk" -> <<"apkDirect", "apkOrigin", "apkNaks">>
      [] p.type = "deb" -> debSearches(p, row, c)
      [] p.type = "rpm" -> rpmSearches(p, row, c)
      [] p.type \in {"portage", "alpm"} -> <<"distro">>
      [] p.type \in {"kb", "bitnami"} -> <<"ecosystemName">>
      [] p.type = "go" -> goSearches(p, c)
      [] p.type = "java" -> javaSearches(p, c)
      [] OTHER -> languageSearches(p, c)

Init ==
    \E s \in Scenarios : \E hs \in SUBSET s.handles, row \in GetOperatingSystemEOL(s.oss, s.pkg.distro) :
        /\ Cardinality(hs) <= MaxHandles
        /\ db = [oss |-> s.oss, handles |-> hs]
        /\ pkg = s.pkg /\ cfg = s.cfg
        /\ todo = searchesFor(s.pkg, row, s.cfg)
        /\ matches = {} /\ ignores = {} /\ lost = {}
        /\ status = IF todo = <<>> THEN "done" ELSE "run"

Doing(s) == status = "run" /\ Head(todo) = s

FinishWith(r, failed) ==
    /\ lost' = lost \cup failed
    /\ matches' = matches \cup r.m /\ ignores' = ignores \cup r.ig
    /\ todo' = Tail(todo) /\ status' = IF Len(todo) = 1 THEN "done" ELSE "run"
    /\ UNCHANGED <<db, pkg, cfg>>

Finish(r) == FinishWith(r, {})

Indirect(r) == [r EXCEPT !.m = ConvertToIndirectMatches(@, pkg)]

Known(p) == p.distro # None /\ ~isUnknownVersion(p.version)

\* The packages a search looks for: the catalogued one or its sources.
IndirectSearches == {"debUpstream", "apkOrigin", "maven"}
Found(r) == IF Head(todo) \in IndirectSearches THEN Indirect(r) ELSE r

SearchDistro ==
    /\ Doing("distro") \/ Doing("debUpstream")
    /\ LET ps == IF Head(todo) = "distro" THEN {pkg} ELSE UpstreamPackages(pkg)
       IN  Finish(Found(AllOf({MatchPackageByDistro(p, pkg) : p \in ps})))

SearchRpm ==
    /\ Doing("rpmDirect") \/ Doing("rpmUpstream")
    /\ LET ps == IF Head(todo) = "rpmDirect" THEN {addEpochIfApplicable(pkg)} ELSE UpstreamPackages(pkg)
       IN  Finish(AllOf({standardMatches(NewWithConfig(p, cfg.epochs), pkg) : p \in {p \in ps : Known(p)}}))

\* Extended support: RHEL EUS, first the package and then its sources; Ubuntu
\* ESM, both together.
SearchChannel ==
    LET esm == Head(todo) = "esm"
        ps == CASE esm -> {pkg} \cup UpstreamPackages(pkg)
                [] Head(todo) = "eusDirect" -> {p \in {addEpochIfApplicable(pkg)} : Known(p)}
                [] OTHER -> {p \in UpstreamPackages(pkg) : Known(p)}
    IN  /\ Doing("esm") \/ Doing("eusDirect") \/ Doing("eusUpstream")
        /\ \E order \in SeqX!SetToSeqs(UNION {Resolutions(p, pkg) : p \in ps}) :
               Finish(AllOf({channelMatches(NewWithConfig(p, cfg.epochs), pkg, order, IF esm THEN None ELSE p.distro) :
                               p \in ps}))

SearchAlma ==
    /\ Doing("alma")
    /\ LET p == addEpochIfApplicable(pkg)
       IN  \E failed \in SUBSET {"upstream", "unaffected", "related"} :
           \E order \in SeqX!SetToSeqs(allAlmaUnaffected(p, pkg, failed)) :
               FinishWith(IF Known(pkg) THEN almaLinuxMatchesWithUpstreams(p, pkg, failed, order) ELSE Nothing, failed)

\* A failed CPE search of an apk is logged and its matches are missing.
SearchApk ==
    \/ /\ Doing("apkDirect") \/ Doing("apkOrigin")
       /\ LET ps == IF Head(todo) = "apkDirect" THEN {pkg} ELSE UpstreamPackages(pkg)
          IN  \E fails \in BOOLEAN : Finish(Found(AllOf({findMatchesForPackage(p, pkg, fails) : p \in ps})))
    \/ Doing("apkNaks") /\ Finish(findNaksForPackage(pkg))

\* "ecosystemName" asks for the package's own name only. "maven" searches for
\* the package Maven Central knows under the archive's digest or, with the
\* POM's data present, for the package itself.
SearchLanguage ==
    /\ Doing("language") \/ Doing("ecosystemName") \/ Doing("maven")
    /\ LET p == IF Head(todo) = "maven" /\ pkg.maven # None THEN [pkg EXCEPT !.name = pkg.maven] ELSE pkg
           names == IF Head(todo) = "ecosystemName" THEN {p.name} ELSE PackageNames(p)
       IN  Finish(Found(MatchPackageByEcosystem(p, names)))

SearchCPE == (Doing("cpe") \/ Doing("eolCPE")) /\ Finish(MatchPackageByCPEs(pkg))

\* Mutant: a failed search of the distribution's records is only logged.
loggedOnly_Distro == {"language", "cpe", "eolCPE", "debUpstream"}

\* A query of the search at the head fails: Match returns the error, or the
\* search is logged and left out.
loggedOnly == {"language", "cpe", "eolCPE"}

SearchFails ==
    /\ status = "run"
    /\ \/ Head(todo) \in loggedOnly /\ FinishWith(Nothing, {Head(todo)})
       \/ Head(todo) = "maven" /\ FinishWith(Nothing, {"maven"})        \* "no artifact found"
       \/ /\ Head(todo) \notin loggedOnly
          /\ matches' = {} /\ ignores' = {} /\ status' = "error"
          /\ UNCHANGED <<db, pkg, cfg, todo, lost>>

Next ==
    \/ SearchDistro \/ SearchRpm \/ SearchChannel \/ SearchAlma \/ SearchApk
    \/ SearchLanguage \/ SearchCPE \/ SearchFails

Spec == Init /\ [][Next]_vars

(***************************************************************************)
(* Properties                                                              *)
(***************************************************************************)

idsOf(h) == {h.id} \cup h.aliases
inRange(h, ver) == \E i \in DOMAIN h.ranges : Satisfied({h.ranges[i].cons} \ {AnyVersion}, ver)
parses(h) == \A i \in DOMAIN h.ranges : h.ranges[i].cons.op # "bad"

\* The packages searched for, as they are searched for.
Searched ==
    IF pkg.type # "rpm" THEN {pkg} \cup UpstreamPackages(pkg)
    ELSE {NewWithConfig(p, cfg.epochs) : p \in {addEpochIfApplicable(pkg)} \cup UpstreamPackages(pkg)}

\* The rows of the distribution itself, no channel, as a reference.
BaseRows(p) ==
    LET d == IF p.distro.type = "almalinux" THEN "rhel" ELSE p.distro.type
    IN  {o \in db.oss : o.name = d /\ o.channel = None /\ o.major = p.distro.major
                        /\ o.minor = trimZeroes(p.distro.minor)}

\* The records that disclose something about p as it is, and those that deny it.
Disclosed(p) ==
    {h \in db.handles : /\ h.kind = "pkg" /\ ~h.unaffected /\ parses(h) /\ h.os \in BaseRows(p)
                        /\ h.name \in PackageNames(p) /\ inRange(h, p.version) /\ OnlyQualifiedPackages(p, h)}
Denied(p) ==
    {h \in db.handles : /\ h.kind = "pkg" /\ h.unaffected /\ parses(h) /\ h.name \in PackageNames(p)
                        /\ inRange(h, p.version)
                        /\ IF p.distro = None THEN h.os = None /\ h.eco = p.type /\ OnlyQualifiedPackages(p, h)
                                                   /\ h.status # "withdrawn"
                           ELSE h.os \in BaseRows(p)}

\* A package of a search by distribution or ecosystem is not reported for what
\* a record of its own name there denies, under any of the identifiers either
\* record has: the negatives of Root.io and of the vendors' feeds, which name
\* other identifiers than the disclosures, always reach them (distro.go,
\* language.go: Remove by identity). A CPE match of a language package is
\* reported together with a filter that takes it away. Three searches do not
\* subtract denials and are left out: the extended support ones (ubuntu_esm.go,
\* rhel_eus.go) never ask for them, the standard rpm search only hands them on
\* (DenialsHandedOn), and what AlmaLinux denies is the matter of AlmaFixes. This
\* is not what the builder of the records expects: os/transform.go says that a
\* not-affected handle suppresses an affected match for the same package.
NegativesReach ==
    /\ status = "done" /\ lost = {}
    /\ pkg.type # "rpm" /\ ~hasChannel(pkg, "ubuntu", "esm")
    => \A x \in matches : \A p \in Searched : \A h \in Denied(p) :
           /\ p.distro = None \/ \E d \in x.det : d.name \in PackageNames(p)
           /\ idsOf(h) \cap collectVulnerabilityIDs(x.v) # {}
           => \E i \in ignores : i.kind = "rule" /\ i.id \in collectVulnerabilityIDs(x.v)

\* What is denied of an rpm, or of its source package, in the standard search
\* hides, under each identifier of the denial, matches of the packages whose
\* files the rpm owns, also when the rpm itself is reported for the same
\* identifier (rpm/matcher.go, standardMatches).
DenialsHandedOn ==
    /\ status = "done" /\ pkg.type = "rpm"
    /\ pkg.distro # None /\ pkg.distro.type # "almalinux" /\ ~hasChannel(pkg, "rhel", "eus")
    => \A p \in {p \in Searched : Known(p)} : \A h \in Denied(p) :
           h.name = p.name /\ OnlyQualifiedPackages(p, h)
           => \A id \in idsOf(h) : [kind |-> "owned", id |-> id] \in ignores

\* The identifiers of all the disclosures of p that share h's ID.
GroupIDs(hs, h) == UNION {idsOf(g) : g \in {g \in hs : g.id = h.id}}

ChannelSearch == hasChannel(pkg, "ubuntu", "esm") \/ hasChannel(pkg, "rhel", "eus")

\* The records of the distribution and of its channel with a fix p already has.
FixReached(p) ==
    {h \in db.handles :
        /\ h.kind = "pkg" /\ ~h.unaffected /\ parses(h) /\ h.name = p.name /\ OnlyQualifiedPackages(p, h)
        /\ h.os # None /\ h.os.name = p.distro.type /\ h.os.channel \in p.distro.channels \cup {None}
        /\ toFix(h).state = "fixed" /\ \E f \in toFix(h).versions : against(p.version, f.n) >= f.n}

\* Nothing the distribution discloses about the package as it is installed is
\* lost on the way through the searches, merges and filters: it is reported,
\* or a record that denies it, or a fix of the channel the package already
\* has, answers it under one of its identifiers. A failed query is an error of
\* the matcher, never a shorter report.
DisclosuresKept ==
    status = "done" /\ pkg.type \in {"deb", "apk", "portage", "rpm"} /\ pkg.distro # None
                    /\ pkg.distro.type # "almalinux" =>
        \A p \in {p \in Searched : ~isUnknownVersion(p.version)} : \A h \in Disclosed(p) :
            LET ids == GroupIDs(Disclosed(p), h)
            IN  \/ \E x \in matches : x.v.id = h.id /\ x.v.name = h.name
                \/ /\ ~ChannelSearch /\ pkg.type # "rpm"
                   /\ \E n \in Denied(p) : idsOf(n) \cap ids # {}
                \/ /\ ChannelSearch
                   /\ \E f \in FixReached(p) : idsOf(f) \cap ids # {}

\* In an extended support search a package that has a fix of its channel is not
\* reported, and a fix that is shown is newer than what is installed and, on
\* RHEL EUS, can be installed on that minor release, whatever the order in
\* which the advisories came (rhel_eus.go, ubuntu_esm.go).
FixesUsable ==
    status = "done" /\ ChannelSearch =>
        \A x \in matches : \A p \in Searched :
            x.v.name = p.name =>
                /\ x.v.fix.state = "fixed" =>
                      /\ x.v.fix.versions # {}
                      /\ \A f \in x.v.fix.versions :
                            /\ against(p.version, f.n) < f.n
                            /\ p.type = "rpm" /\ f.el # None =>
                                  f.el[1] = numberOf(p.distro.major) /\ f.el[2] <= numberOf(p.distro.minor)
                /\ \A h \in FixReached(p) : h.id # x.v.id
                /\ OnlyVulnerableVersions(x.v, p.version)

\* On AlmaLinux no package at or past the version AlmaLinux published is
\* reported, and what is reported shows AlmaLinux's fix and not Red Hat's
\* (almalinux.go), unless the AlmaLinux records could not be read.
AlmaFixes ==
    status = "done" /\ lost = {} /\ pkg.type = "rpm" /\ pkg.distro # None /\ pkg.distro.type = "almalinux" =>
        LET p == addEpochIfApplicable(pkg)
            published(x) == {h \in db.handles :
                /\ h.kind = "pkg" /\ h.unaffected /\ h.os # None /\ h.os.name = "almalinux"
                /\ h.name \in {p.name} \cup {u.name : u \in p.ups} /\ OnlyQualifiedPackages(p, h)
                /\ idsOf(h) \cap collectVulnerabilityIDs(x.v) # {}}
        IN  \A x \in matches :
                /\ \A h \in published(x) : ~inRange(h, p.version)
                /\ published(x) # {} => \A f \in x.v.fix.versions :
                        p.version < f.n /\ \E h \in published(x) : h.ranges[1].cons.v = f.n

\* An apk is not reported by CPE for an ID the distribution's records cover but
\* none of them says this version is vulnerable, neither directly nor through
\* its origin package (apk/matcher.go).
SecDBDecides ==
    status = "done" /\ pkg.type = "apk" /\ pkg.distro # None =>
        \A x \in matches : (\A d \in x.det : d.type = "cpe") =>
            LET known == {h \in db.handles :
                    /\ h.kind = "pkg" /\ ~h.unaffected /\ h.id = x.v.id /\ parses(h) /\ h.os \in BaseRows(pkg)
                    /\ h.name \in {pkg.name} \cup {u.name : u \in pkg.ups}}
            IN  /\ known # {} => \E h \in known : \E p \in Searched : inRange(h, p.version)
                /\ known = {} => x.v.fix.versions = {}

\* When one search decides, what it reports and what it hides on packages whose
\* files the package owns have no identifier in common: a library is never
\* taken for fixed because of the very package that is reported.
HiddenNotReported ==
    status = "done" /\ pkg.ups = {} /\ pkg.type \in {"deb", "portage"} /\ ~cfg.cpes =>
        \A x \in matches : \A i \in ignores : i.id \notin collectVulnerabilityIDs(x.v)

\* The records of a support channel are only used for packages of that channel,
\* and the end of life of another release never brings CPE matches into a
\* package's report (operating_system_store.go, eol.go).
RowsOfTheDistro ==
    \A x \in matches :
        /\ x.v.os # None => x.v.os.channel = None
        /\ pkg.type \in {"deb", "rpm"} /\ (\E d \in x.det : d.type = "cpe") =>
               \E o \in db.oss : o.eol /\ o.name = pkg.distro.type /\ o.major = pkg.distro.major
                                 /\ o.minor = trimZeroes(pkg.distro.minor)

\* What is denied is not reported by the searches that ask for denials,
\* whichever of them the denial and the disclosure come from: a record of the
\* package's own name, the secdb of an apk, or the package that owns the files
\* and is itself reported; an rpm's denials reach the packages it owns.
DenialsHonoured ==
  /\ NegativesReach
  /\ DenialsHandedOn
  /\ SecDBDecides
  /\ HiddenNotReported

\* The fix that is shown for a package of an extended support channel or of
\* AlmaLinux is one for that package to install, and none it already has.
FixesRight ==
  /\ FixesUsable
  /\ AlmaFixes

=============================================================================
