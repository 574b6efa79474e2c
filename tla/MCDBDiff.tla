------------------------------ MODULE MCDBDiff ------------------------------
(***************************************************************************)
(* DBDiff and DBSearch on small instances, a pool of entries for each      *)
(* question: what the searches make of their options; what the stores make *)
(* of entries that share names, blobs, packages and operating systems; how *)
(* package records, vulnerabilities and decorations of two databases are   *)
(* compared; how the arguments are resolved.                               *)
(***************************************************************************)
EXTENDS DBSearch

\* Two spellings of one name.
MCLower(s) == IF s = "Foo" THEN "foo" ELSE IF s = "cve-1" THEN "CVE-1" ELSE s

Provider(id_, run) == [id |-> id_, run |-> run]
NVD == Provider("nvd", 1)
RHEL == Provider("rhel", 1)
GitHub == Provider("github", 1)

Text(t, aliases) == [text |-> t, aliases |-> aliases]
Vuln(name, provider, t, aliases) ==
    [name |-> name, provider |-> provider, status |-> "active", published |-> 1, modified |-> 0, withdrawn |-> 0,
     blob |-> Text(t, aliases)]

OS(name, major, minor, label, channel) ==
    [name |-> name, release |-> name, major |-> major, minor |-> minor, label |-> label,
     codename |-> None, channel |-> channel]
RHEL8 == OS("rhel", <<8>>, <<>>, None, None)
EUS8 == OS("rhel", <<8>>, <<>>, None, "eus")
RHEL08 == OS("rhel", <<0, 8>>, <<>>, None, None)
Unstable == OS("debian", <<>>, <<>>, "unstable", None)
Ubuntu == OS("ubuntu", <<2, 0>>, <<0, 4>>, None, None)

Pkg(ecosystem, name, cpe) == [ecosystem |-> ecosystem, name |-> name, cpe |-> cpe]
CPE(product) == [part |-> "a", product |-> product, target |-> "any"]
Ranges(r, available) == [ranges |-> r, available |-> available]

Record(affected, os, pkg, blob) == [kind |-> "pkg", affected |-> affected, os |-> os, pkg |-> pkg, blob |-> blob]
CPERecord(affected, cpe, blob) == [kind |-> "cpe", affected |-> affected, cpe |-> cpe, blob |-> blob]
Entry(vuln, handles) == [kind |-> "vuln", vuln |-> vuln, handles |-> handles]
EpssAt(cve, score, percentile, date) ==
    [kind |-> "epss", provider |-> Provider("epss", 1),
     row |-> [cve |-> cve, score |-> score, percentile |-> percentile, date |-> date]]
Epss(cve, score, date) == EpssAt(cve, score, 1, date)
KEV(cve) == [kind |-> "kev", provider |-> Provider("kev", 1), row |-> [cve |-> cve, blob |-> [due |-> 1]]]
CWE(cve) == [kind |-> "cwe", provider |-> NVD, row |-> [cve |-> cve, cwe |-> "CWE-79"]]

A == Ranges("a", 1)
B == Ranges("b", 1)
OpenSSL == Pkg("rpm", "openssl", None)

StorePool ==
    {Entry(Vuln("CVE-1", NVD, "x", {}),
           << CPERecord(TRUE, CPE("foo"), A), Record(TRUE, None, Pkg("plugin", "foo", CPE("foo")), A) >>),
     Entry([Vuln("GHSA-1", GitHub, "x", {"CVE-1", "GHSA-1"}) EXCEPT !.published = 2],
           << Record(TRUE, None, Pkg("npm", "foo", None), A), Record(FALSE, None, Pkg("npm", "Foo", None), B) >>),
     Entry(Vuln("GHSA-1", GitHub, "y", {"CVE-2"}), << Record(TRUE, None, Pkg("pypi", "foo", None), A) >>),
     Entry(Vuln("CVE-1", RHEL, "x", {}), << Record(TRUE, RHEL8, OpenSSL, A), Record(TRUE, EUS8, OpenSSL, B) >>),
     Entry([Vuln("CVE-1", RHEL, "x", {}) EXCEPT !.modified = 2], << Record(FALSE, RHEL08, OpenSSL, A) >>),
     Entry(Vuln("CVE-2", Provider("debian", 1), "x", {}),
           << Record(TRUE, Unstable, Pkg("deb", "openssl", None), A), Record(TRUE, Ubuntu, Pkg("deb", "openssl", None), B) >>),
     Entry(Vuln("cve-1", NVD, "x", {}),
           << CPERecord(FALSE, CPE("Foo"), B), Record(TRUE, None, Pkg("plugin", "bar", CPE("foo")), B),
              Record(TRUE, None, Pkg("plugin", "bar", CPE("bar")), B) >>),
     Entry(Vuln("CVE-2", Provider("nvd", 2), "x", {}), << >>),
     Epss("CVE-1", 1, 1), Epss("cve-1", 2, 1), Epss("CVE-2", 1, 2), KEV("CVE-1"), CWE("CVE-1")}

\* Records of one vulnerability for one package, its status, another package.
V1 == Vuln("CVE-1", RHEL, "x", {})
Rejected == [V1 EXCEPT !.status = "rejected"]
RecordPool ==
    {Entry(V1, << Record(TRUE, RHEL8, OpenSSL, A) >>),
     Entry(V1, << Record(TRUE, RHEL8, OpenSSL, Ranges("a", 2)) >>),
     Entry(V1, << Record(TRUE, RHEL8, OpenSSL, B) >>),
     Entry(V1, << Record(FALSE, RHEL8, OpenSSL, A) >>),
     Entry(V1, << Record(TRUE, EUS8, OpenSSL, A) >>),
     Entry(Rejected, << Record(TRUE, RHEL8, OpenSSL, A) >>),
     Entry(V1, << Record(TRUE, None, Pkg("npm", "openssl", None), A), CPERecord(TRUE, CPE("foo"), A) >>),
     Entry(V1, << CPERecord(TRUE, CPE("foo"), B) >>),
     Entry(V1, << CPERecord(FALSE, CPE("foo"), B) >>)}

\* Versions of a vulnerability and its decorations.
VulnPool ==
    {Entry(V1, << >>), Entry(Rejected, << >>),
     Entry([V1 EXCEPT !.modified = 2], << >>), Entry([V1 EXCEPT !.withdrawn = 2], << >>),
     Entry(Vuln("CVE-1", RHEL, "y", {}), << >>),
     Entry(Vuln("CVE-1", NVD, "x", {}), << >>),
     KEV("CVE-1"), Epss("CVE-1", 1, 1), EpssAt("CVE-1", 2, 2, 1), Epss("CVE-1", 5, 1),
     EpssAt("CVE-1", 1, 5, 1)}

\* Vulnerabilities of several providers that share names, packages and CPEs.
Unfixed == Ranges("c", 1)
SearchPool ==
    {Entry(Vuln("CVE-1", NVD, "x", {}),
           << CPERecord(TRUE, CPE("foo"), A), Record(TRUE, None, Pkg("plugin", "foo", CPE("foo")), A) >>),
     Entry(Vuln("cve-1", NVD, "y", {}),
           << CPERecord(TRUE, [CPE("foo") EXCEPT !.target = "npm"], Unfixed), CPERecord(FALSE, CPE("Foo"), B),
              CPERecord(TRUE, [CPE("foo") EXCEPT !.part = "o"], A) >>),
     Entry([Vuln("GHSA-1", GitHub, "x", {"CVE-1"}) EXCEPT !.published = 2],
           << Record(TRUE, None, Pkg("npm", "Foo", None), A), Record(FALSE, None, Pkg("npm", "foo", None), B),
              Record(TRUE, None, Pkg("python", "foo", None), B) >>),
     Entry(Vuln("CVE-1", RHEL, "x", {}), << Record(TRUE, RHEL8, OpenSSL, A), Record(TRUE, EUS8, OpenSSL, B) >>),
     Entry([Vuln("CVE-2", RHEL, "x", {}) EXCEPT !.modified = 2], << Record(TRUE, RHEL08, OpenSSL, Unfixed) >>),
     Epss("CVE-1", 1, 1), KEV("cve-1")}

MCFixStates(r) == IF r = "a" THEN {"fixed", "not-fixed"} ELSE IF r = "b" THEN {"wont-fix", "not-fixed"} ELSE {}
Argument(is, name, eco) == [is |-> is, name |-> name, eco |-> eco]
CPEArgument(part, name, eco) == [is |-> "cpe", part |-> part, name |-> name, eco |-> eco]
Host8 == [P!NoOSSpecified EXCEPT !.name = "rhel", !.major = <<0, 8>>]
AllOptions ==
    [command : {"matches"}, ids : {<<>>, << "cve-1" >>, << "CVE-2", "GHSA-1" >>},
     packages : {<<>>, << Argument("name", "foo", None) >>, << Argument("purl", "foo", "pypi") >>,
                 << CPEArgument("a", "foo", "npm") >>, << CPEArgument("o", "foo", None) >>,
                 << Argument("name", "openssl", None), Argument("name", "Foo", None) >>},
     ecosystem : {None, "npm"}, distros : {{}, {Host8}}, states : {{}, {"wont-fix", "unknown"}},
     limit : {0, 2}, broad : {FALSE}, after : {0}, modifiedAfter : {0}, providers : {{}}]
NoOptions ==
    [command |-> "vulns", ids |-> <<>>, packages |-> <<>>, ecosystem |-> None, distros |-> {}, states |-> {},
     limit |-> 0, broad |-> FALSE, after |-> 0, modifiedAfter |-> 0, providers |-> {}]
VulnOptions ==
    [command : {"vulns", "matches"}, ids : {<<>>, << "cve-1" >>, << "CVE-1", "GHSA-1" >>}, packages : {<<>>}, ecosystem : {None},
     distros : {{}}, states : {{}}, broad : {FALSE}, after : {0, 1}, modifiedAfter : {0, 1},
     providers : {{}, {"rhel"}}, limit : {0, 2}]
BroadOptions == {[NoOptions EXCEPT !.command = "matches", !.packages = << CPEArgument(None, "foo", "npm") >>, !.broad = TRUE]}

MCPools == [search |-> SearchPool, store |-> StorePool, records |-> RecordPool, vulns |-> VulnPool,
            resolve |-> {Entry(V1, << Record(TRUE, RHEL8, OpenSSL, A) >>)}]
Place(is, fails) == [is |-> is, fails |-> fails]
Dir == {Place("dir", "no")}
MCPlaces == [search |-> {}, store |-> {}, records |-> Dir, vulns |-> Dir,
             resolve |-> {Place("dir", f) : f \in {"no", "hydrate", "open"}}
                         \cup {Place("archive", f) : f \in {"no", "mkdir", "fetch", "hydrate", "info", "open"}}
                         \cup {Place("url", f) : f \in {"no", "fetch", "open"}}]
MCOrders == [p \in DOMAIN MCPlaces |-> {<<1, 2>>, <<2, 1>>} \cup IF p = "resolve" THEN {<<1, 1>>} ELSE {}]
MCMaxRuns == [p \in DOMAIN MCPlaces |-> IF p = "resolve" THEN 2 ELSE 1]
MCMaxWrites == [search |-> 3, store |-> 4, records |-> 2, vulns |-> 2, resolve |-> 1]

Include(packages, vulns, epss, kev) == [packages |-> packages, vulns |-> vulns, epss |-> epss, kev |-> kev]
DefaultInclude == {Include(TRUE, TRUE, FALSE, TRUE)}
MCIncludes == [search |-> {}, store |-> {}, records |-> DefaultInclude, resolve |-> DefaultInclude,
               vulns |-> DefaultInclude \cup {Include(FALSE, TRUE, TRUE, FALSE), Include(FALSE, FALSE, TRUE, FALSE)}]
MCSearches == [p \in DOMAIN MCPools |->
    IF p = "search" THEN AllOptions \cup VulnOptions \cup BroadOptions ELSE {}]
=============================================================================
