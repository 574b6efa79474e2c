------------------------------ MODULE DBSearch ------------------------------
(***************************************************************************)
(* "grype db search" and "grype db search vuln" on a database that DBDiff  *)
(* built: the options become specifiers, each specifier is one query of a  *)
(* store with a limit of its own, the handles found are filtered by fix    *)
(* state, decorated and grouped by vulnerability.                          *)
(*                                                                         *)
(* The options of a search are a record:                                   *)
(*   command    "matches" or "vulns"                                       *)
(*   ids        vulnerability ids, one specifier each                      *)
(*   after, modifiedAfter, providers, states   filters; 0 or {} is unset   *)
(*   packages   sequence of [is, name, eco]: a name, a package URL, or a   *)
(*              CPE, which has a part too; the other attributes of a CPE   *)
(*              are compared as these are, and left out                    *)
(*   ecosystem  --ecosystem, or None                                       *)
(*   distros    set of OS specifiers; {} is any                            *)
(*   broad, limit   --broad-cpe-matching and --limit; 0 is no limit        *)
(***************************************************************************)
EXTENDS DBDiff

CONSTANTS Searches,      \* pool -> the options a search may be given
          CVEs,          \* the ids that begin with "cve-", in any case
          FixStates(_)   \* ranges -> the states of their fixes

VARIABLE answer          \* the options, what is shown and the error; None before

\* KnownPackageSpecifierOverrides, one of its rows: the name of a language or of
\* a package URL's type stands for a package type.
applyPackageAlias(eco) == IF eco = "pypi" THEN "python" ELSE eco

(***************************************************************************)
(* Options to specifiers                                                   *)
(***************************************************************************)

AnyPackageSpecified == None

vulnSpec(o, name) ==
    [Query EXCEPT !.name = name, !.after = o.after, !.modifiedAfter = o.modifiedAfter, !.providers = o.providers]

\* DBSearchVulnerabilities.PostLoad: one specifier for each id, or one without
\* an id when there is something else to ask for.
vulnSpecs(o) ==
    IF o.ids # <<>> THEN [i \in DOMAIN o.ids |-> vulnSpec(o, o.ids[i])]
    ELSE IF o.after # 0 \/ o.modifiedAfter # 0 \/ o.providers # {} THEN << vulnSpec(o, None) >> ELSE <<>>

\* DBSearchPackages.PostLoad. --ecosystem goes to the package specifier of a
\* name and not to its CPE specifier. A name or a package URL is looked for among
\* the CPEs of applications, --ecosystem alone among those of any part.
Attributes(part, product, target) == [part |-> part, product |-> product, target |-> target]
pkgSpecs(o) ==
    IF o.packages = <<>> /\ o.ecosystem # None
    THEN << [name |-> None, eco |-> o.ecosystem, cpe |-> None] >>
    ELSE [i \in DOMAIN o.packages |->
             LET p == o.packages[i]
             IN  CASE p.is = "cpe"  -> [name |-> None, eco |-> None, cpe |-> Attributes(p.part, p.name, p.eco)]
                   [] p.is = "purl" -> [name |-> p.name, eco |-> p.eco, cpe |-> None]
                   [] p.is = "name" -> [name |-> p.name, eco |-> o.ecosystem, cpe |-> None]]
cpeSpecs(o) ==
    IF o.packages = <<>> /\ o.ecosystem # None THEN << Attributes(None, None, o.ecosystem) >>
    ELSE [i \in DOMAIN o.packages |->
             LET p == o.packages[i]
             IN  CASE p.is = "cpe"  -> Attributes(p.part, p.name, p.eco)
                   [] p.is = "purl" -> Attributes("a", p.name, p.eco)
                   [] p.is = "name" -> Attributes("a", p.name, None)]

\* Both dates, an ecosystem beside a package URL, and "vuln" without an id are
\* refused.
badOptions(o) ==
    \/ o.command = "vulns" /\ o.ids = <<>>
    \/ o.after # 0 /\ o.modifiedAfter # 0
    \/ o.ecosystem # None /\ \E i \in DOMAIN o.packages : o.packages[i].is = "purl"

\* validateProvidersFilter.
unknownProviders(d, o) == o.providers \ {p.id : p \in d.providers}

(***************************************************************************)
(* Queries                                                                 *)
(***************************************************************************)

vulnOK(d, vspecs, vid) ==
    vspecs = <<>> \/ \E i \in DOMAIN vspecs : handleVulnerabilityOptions(d, d.vulns[vid], vspecs[i])

\* queryCPEAttributeScope: with --broad-cpe-matching "any" of the row will do.
queryCPEAttributeScope(value, column, broad) ==
    value = None \/ Lower(column) = Lower(value) \/ (broad /\ column = "any")
handleCPEOptions(d, spec, c, broad) ==
    /\ queryCPEAttributeScope(spec.part, d.cpes[c].part, broad)
    /\ queryCPEAttributeScope(spec.product, d.cpes[c].product, broad)
    /\ queryCPEAttributeScope(spec.target, d.cpes[c].target, broad)

\* handlePackage: the rows of the joins, one for each CPE of the package that
\* fits when a CPE is asked for.
packageRows(d, spec, broad) ==
    LET fits(h) == \/ spec = AnyPackageSpecified
                   \/ /\ spec.name = None \/ Lower(d.packages[h.pkg].name) = Lower(spec.name)
                      /\ spec.eco = None \/ Lower(d.packages[h.pkg].ecosystem) = Lower(applyPackageAlias(spec.eco))
        hs == {h \in d.handles : h.affected /\ fits(h)}
    IN  IF spec = AnyPackageSpecified \/ spec.cpe = None THEN {<<h, 0>> : h \in hs}
        ELSE {r \in hs \X DOMAIN d.cpes : <<r[1].pkg, r[2]>> \in d.links /\ handleCPEOptions(d, spec.cpe, r[2], broad)}

resolved(d, distros) ==
    LET rows == {d.oses[i] : i \in DOMAIN d.oses}
        found == UNION {P!GetOperatingSystems(rows, s) : s \in distros}
    IN  {i \in DOMAIN d.oses : d.oses[i] \in found}

\* The outcome of one query. At the limit the stores return an error and none of
\* the rows they have read.
Result(rows, limit) ==
    IF limit > 0 /\ Cardinality(rows) >= limit THEN [found |-> {}, err |-> "limit"]
    ELSE [found |-> {r[1] : r \in rows}, err |-> None]

\* Mutant: the rows up to the limit, and nothing said of the others.
GetAffectedPackages_Truncated(d, o, spec, vspecs) ==
    LET rows == {r \in packageRows(d, spec, o.broad) :
                    vulnOK(d, vspecs, r[1].vuln) /\ (o.distros # {} => r[1].os \in resolved(d, o.distros))}
    IN  IF o.limit = 0 \/ Cardinality(rows) < o.limit THEN Result(rows, 0)
        ELSE Result(CHOOSE s \in SUBSET rows : Cardinality(s) = o.limit, 0)

GetAffectedPackages(d, o, spec, vspecs) ==
    IF o.distros # {} /\ resolved(d, o.distros) = {} THEN [found |-> {}, err |-> "os"]
    ELSE Result({r \in packageRows(d, spec, o.broad) :
                    vulnOK(d, vspecs, r[1].vuln) /\ (o.distros # {} => r[1].os \in resolved(d, o.distros))}, o.limit)

GetAffectedCPEs(d, o, spec, vspecs) ==
    Result({<<h, 0>> : h \in {x \in d.cpeHandles : /\ x.affected /\ vulnOK(d, vspecs, x.vuln)
                                                   /\ spec = None \/ handleCPEOptions(d, spec, x.cpe, o.broad)}},
           o.limit)

\* One query after the other until one fails; what the earlier ones found is
\* kept when the failure is the limit.
Collect(Ask(_), specs) ==
    FoldLeft(LAMBDA acc, s : IF acc.err # None THEN acc
                             ELSE LET r == Ask(s) IN [found |-> acc.found \cup r.found, err |-> r.err],
             [found |-> {}, err |-> None], specs)

(***************************************************************************)
(* dbsearch                                                                *)
(***************************************************************************)

\* Packages first, then CPEs unless an operating system was asked for; a search
\* with a vulnerability or an operating system and no package is for any.
findAffectedPackages(d, o) ==
    LET vs == vulnSpecs(o)
        open == vs # <<>> \/ o.distros # {}
        ps == IF open /\ pkgSpecs(o) = <<>> THEN << AnyPackageSpecified >> ELSE pkgSpecs(o)
        cs == IF open /\ cpeSpecs(o) = <<>> THEN << AnyPackageSpecified >> ELSE cpeSpecs(o)
        pkgs == Collect(LAMBDA s : GetAffectedPackages(d, o, s, vs), ps)
        cpes == Collect(LAMBDA s : GetAffectedCPEs(d, o, s, vs), cs)
        none == [found |-> {}, cpes |-> {}, err |-> None]
    IN  CASE vs = <<>> /\ pkgSpecs(o) = <<>> /\ cpeSpecs(o) = <<>> -> [none EXCEPT !.err = "criteria"]
          [] pkgs.err \notin {None, "limit"} -> [none EXCEPT !.err = pkgs.err]
          [] pkgs.err = "limit" \/ o.distros # {} -> [none EXCEPT !.found = pkgs.found, !.err = pkgs.err]
          [] OTHER -> [found |-> pkgs.found, cpes |-> cpes.found, err |-> cpes.err]

\* Fixed once a range is, then won't-fix, then not-fixed.
getFixStateFromPackageBlob(blob) ==
    LET has == FixStates(blob.ranges)
    IN  CASE "fixed" \in has -> "fixed"
          [] "fixed" \notin has /\ "wont-fix" \in has -> "wont-fix"
          [] has \cap {"fixed", "wont-fix"} = {} /\ "not-fixed" \in has -> "not-fixed"
          [] OTHER -> "unknown"

filterByFixedState(d, hs, states) ==
    IF states = {} THEN hs ELSE {h \in hs : getFixStateFromPackageBlob(blobValue(d, h.blob)) \in states}

\* The CVEs of a vulnerability: its name and its aliases.
getCVEs(d, vid) == ({d.vulns[vid].name} \cup blobValue(d, d.vulns[vid].blob).aliases) \cap CVEs

\* A score that cannot be read is logged and left out.
decorateVulnerabilities(d, vid) ==
    [kevs |-> UNION {{k.cve : k \in GetKnownExploitedVulnerabilities(612, d, c)} : c \in getCVEs(d, vid)},
     epss |-> IF GetEpssFails(612, d) THEN {} ELSE UNION {GetEpss(612, d, c) : c \in getCVEs(d, vid)}]

\* newMatchesRows: by vulnerability.
newMatchesRows(d, hs, cs) ==
    {[vuln |-> vulnOf(d, i), with |-> decorateVulnerabilities(d, i),
      pkgs |-> {attached(d, h) : h \in {x \in hs : x.vuln = i}},
      cpes |-> {attachedCPE(d, h) : h \in {x \in cs : x.vuln = i}}] : i \in {x.vuln : x \in hs \cup cs}}

\* Reaching the limit is reported together with the rows.
FindMatches(d, o) ==
    LET r == findAffectedPackages(d, o)
    IN  [rows |-> newMatchesRows(d, filterByFixedState(d, r.found, o.states), filterByFixedState(d, r.cpes, o.states)),
         err |-> r.err]

\* The query of the affected packages of one vulnerability.
recordsOf(d, vid) == {h \in d.handles : h.affected /\ h.vuln = vid}

vulnRowOf(d, vid) ==
    [vuln |-> vulnOf(d, vid), with |-> decorateVulnerabilities(d, vid), count |-> Cardinality(recordsOf(d, vid)),
     oses |-> {OSOf(d, h.os) : h \in recordsOf(d, vid)} \ {None}]

\* FindVulnerabilities: the query of an id and that of the packages of each
\* vulnerability found may reach the limit. The command then shows no row.
FindVulnerabilities(d, o) ==
    LET ask(s) == Result({<<i, 0>> : i \in GetVulnerabilities(d, s)}, o.limit)
        r == Collect(ask, vulnSpecs(o))
        full == o.limit > 0 /\ \E i \in r.found : Cardinality(recordsOf(d, i)) >= o.limit
    IN  IF r.err # None \/ full THEN [rows |-> {}, err |-> "limit"]
        ELSE [rows |-> {vulnRowOf(d, i) : i \in r.found}, err |-> None]

(***************************************************************************)
(* The commands                                                            *)
(***************************************************************************)

searchable == Len(built) = 1 /\ answer = None /\ cmd = None
reader == built[1].db
Answer(o, r) == answer' = [opts |-> o, rows |-> r.rows, err |-> r.err] /\ UNCHANGED vars
Refused(o) == badOptions(o) \/ unknownProviders(reader, o) # {}

runDBSearchMatches(o) ==
    searchable /\ o.command = "matches" /\ ~Refused(o) /\ Answer(o, FindMatches(reader, o))
runDBSearchVulnerabilities(o) ==
    searchable /\ o.command = "vulns" /\ ~Refused(o) /\ Answer(o, FindVulnerabilities(reader, o))
Refuse(o) == searchable /\ Refused(o) /\ Answer(o, [rows |-> {}, err |-> "options"])

SearchInit == Init /\ answer = None
SearchNext ==
    \/ Next /\ UNCHANGED answer
    \/ \E o \in Searches[pool] : runDBSearchMatches(o) \/ runDBSearchVulnerabilities(o) \/ Refuse(o)

SearchSpec == SearchInit /\ [][SearchNext]_<<vars, answer>>

(***************************************************************************)
(* Properties                                                              *)
(***************************************************************************)

Searched(command) == answer # None /\ answer.opts.command = command /\ answer.err = None
Written == built[1].log
Opt == answer.opts

AskedVuln(v) ==
    /\ Opt.ids = <<>> \/ \E i \in DOMAIN Opt.ids : Lower(Opt.ids[i]) = Lower(v.name)
    /\ Opt.providers = {} \/ v.provider.id \in Opt.providers
    /\ v.published > Opt.after
    /\ v.published > Opt.modifiedAfter \/ v.modified > Opt.modifiedAfter
AskedVulns == {identity(v) : v \in {w \in Written.vulns : AskedVuln(w)}}

StateAsked(has) ==
    IF has = {} THEN "unknown"
    ELSE CHOOSE s \in has : s = "fixed" \/ (has = {s}) \/ (s = "wont-fix" /\ "fixed" \notin has)
AskedState(blob) == Opt.states = {} \/ StateAsked(FixStates(blob.ranges)) \in Opt.states
AskedOS(os) ==
    Opt.distros = {} \/ \E s \in Opt.distros :
        os # None /\ os[1] = s.name /\ (s.major = <<>> \/ os[3] = P!trimZeroes(s.major)) /\ os[6] = s.channel
AskedName(key) ==
    IF Opt.packages = <<>> THEN Opt.ecosystem = None \/ Opt.ecosystem = key[1]
    ELSE \E i \in DOMAIN Opt.packages : LET p == Opt.packages[i] IN
        /\ Lower(p.name) = key[2]
        /\ \A e \in {p.eco, Opt.ecosystem} : e \in {None, key[1]} \/ (e = "pypi" /\ key[1] = "python")
AskedProduct(c) ==
    IF Opt.packages = <<>> THEN Opt.ecosystem = None \/ Opt.ecosystem = c.target
    ELSE \E i \in DOMAIN Opt.packages : LET p == Opt.packages[i] IN
        /\ (IF p.is = "cpe" THEN p.part ELSE "a") \in {None, c.part}
        /\ Lower(p.name) = c.product
        /\ (p.is = "name" \/ p.eco \in {None, c.target} \/ (Opt.broad /\ c.target = "any"))

CPEAsked == \E i \in DOMAIN Opt.packages : Opt.packages[i].is = "cpe"

\* Without an error the answer of "db search" is complete and exact: it has the
\* affected records written for the vulnerabilities, packages, CPEs, operating
\* systems and fix states asked for, under any spelling and in any combination
\* of options, and no other. A record that is left out because of the limit is
\* never passed over in silence. (Packages found by a CPE are left out.)
SearchExact ==
    Searched("matches") =>
        /\ CPEAsked \/ \A r \in Written.records : (\E x \in answer.rows : r \in x.pkgs) <=>
               (r.affected /\ r.vuln \in AskedVulns /\ AskedState(r.blob) /\ AskedOS(r.os) /\ AskedName(r.pkg))
        /\ \A r \in Written.cpeRecords : (\E x \in answer.rows : r \in x.cpes) <=>
               (r.affected /\ r.vuln \in AskedVulns /\ AskedState(r.blob) /\ Opt.distros = {} /\ AskedProduct(r.cpe))

\* The same of "db search vuln": each vulnerability asked for, with the
\* operating systems and the number of the records that are its own.
VulnSearchExact ==
    Searched("vulns") =>
        /\ {x.vuln : x \in answer.rows} = AskedVulns
        /\ \A x \in answer.rows :
               LET own == {r \in Written.records : r.affected /\ r.vuln = x.vuln}
               IN  x.count = Cardinality(own) /\ x.oses = {r.os : r \in own} \ {None}

\* A row shows what is known of any CVE the vulnerability goes by: scores and
\* exploitation are recorded for CVEs only, and found for a GHSA by its alias.
SearchDecorated ==
    answer # None => \A x \in answer.rows :
        LET names == {Lower(n) : n \in ({x.vuln.name} \cup x.vuln.blob.aliases) \cap CVEs}
        IN  /\ x.with.kevs = {k.cve : k \in {y \in Written.kevs : Lower(y.cve) \in names}}
            /\ x.with.epss = {e \in Written.epss : Lower(e.cve) \in names}

\* Both searches answer exactly what was asked, and decorate what they find.
SearchesExact ==
  /\ SearchExact
  /\ VulnSearchExact
  /\ SearchDecorated

=============================================================================
