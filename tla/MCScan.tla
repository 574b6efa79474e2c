------------------------------- MODULE MCScan -------------------------------
(* A small scan: a library p1 whose files the distribution package d1      *)
(* owns.  The library's advisory GHSA-1 is an alias of CVE-1, which the    *)
(* CPE search and the distribution's data know by that name.               *)
EXTENDS Scan

CONSTANTS p1, d1

ghsa == [id |-> "GHSA-1", ns |-> "github"]
nvd  == [id |-> "CVE-1", ns |-> "nvd"]
deb  == [id |-> "CVE-1", ns |-> "debian"]
other == [id |-> "CVE-2", ns |-> "debian"]

mcRefs == {ghsa, nvd, deb, other}

mcNameOf == [p \in Pkgs |-> IF p = p1 THEN "lib" ELSE "deb-lib"]
mcPathsOf == [p \in Pkgs |-> {[real |-> "/lib", access |-> "/link"]}]
mcOwnersOf == [p \in Pkgs |-> IF p = p1 THEN {d1} ELSE {}]
mcStateOf == [f \in Fixes |-> IF f = 0 THEN "not-fixed" ELSE "fixed"]
mcNameMatches == {<<"lib", "lib">>, <<"deb-lib", "deb-lib">>, <<".*lib", "lib">>, <<".*lib", "deb-lib">>}
mcPathMatches == {<<"/lib", "/lib">>, <<"/l*", "/lib">>, <<"/l*", "/link">>}

M(v, rel, p, f, ty) == [vuln |-> v, rec |-> v, pkg |-> p, fix |-> f, related |-> rel,
                        details |-> {[type |-> ty, id |-> v.ns]}]

byLanguage == M(ghsa, {nvd}, p1, 1, "exact-direct-match")
byCPE      == M(nvd, {}, p1, 0, "cpe-match")
byUpstream == M(nvd, {}, p1, 1, "exact-indirect-match")
byDistro   == M(deb, {nvd}, d1, 2, "exact-direct-match")

Out(ms, dn, w) == [matches |-> ms, denied |-> dn, way |-> w]
Advisory(v, rel) == [vuln |-> v, related |-> rel]

mcCalls == <<p1, p1, d1>>

mcOutcomes ==
  <<{Out({byLanguage}, {}, "name"), Out({}, {Advisory(ghsa, {nvd})}, "name")},
    {Out(ms, {}, "name") : ms \in SUBSET {byCPE, byUpstream}} \cup {Out({byUpstream, M(ghsa, {nvd}, p1, 2, "exact-direct-match")}, {}, "name")},
    {Out({byDistro, M(other, {}, d1, 1, "exact-direct-match")}, {}, "ownership"), Out({}, {Advisory(deb, {nvd})}, "ownership"),
     Out({}, {}, "ownership")}>>

mcExclusions == {[NoRule EXCEPT !.vuln = "CVE-2", !.name = "deb-lib", !.pkgs = {d1}]}

Statement(v, p, s) == [vuln |-> v, aliases |-> {}, pkg |-> p, status |-> s, just |-> "code_not_present"]

mcSeverityOf == [r \in Refs |-> IF r = ghsa THEN 3 ELSE 2]

Opts(rules, byCVE, sev, docs, format) ==
  [rules |-> rules, byCVE |-> byCVE, failSeverity |-> sev, docs |-> docs, format |-> format]

mcRules ==
  {{}, {[NoRule EXCEPT !.vuln = "CVE-1", !.aliases = TRUE]}, {[NoRule EXCEPT !.vuln = "CVE-1"]},
   {[NoRule EXCEPT !.vuln = "GHSA-1"]}, {[NoRule EXCEPT !.ns = "nvd"]},
   {[NoRule EXCEPT !.state = "fixed"], [NoRule EXCEPT !.type = "cpe-match"]},
   {[NoRule EXCEPT !.loc = "/l*", !.name = ".*lib", !.type = "exact-indirect-match"]},
   {[NoRule EXCEPT !.vex = "not_affected"], [NoRule EXCEPT !.vuln = "GHSA-1"]}}

mcDocs ==
  {{}, {Statement("CVE-1", p1, "not_affected"), Statement("GHSA-1", p1, "affected")},
   {Statement("CVE-1", p1, "affected"), Statement("GHSA-1", p1, "fixed")}}

(* CSAF: agreeing and contradicting statuses of one product.               *)
mcAdvisories ==
  {{Statement("CVE-1", p1, "known_not_affected"), Statement("GHSA-1", p1, "known_affected")},
   {Statement("CVE-1", p1, "fixed"), Statement("CVE-1", p1, "under_investigation"),
    Statement("GHSA-1", p1, "first_fixed"), Statement("GHSA-1", p1, "known_not_affected")}}

mcOptions ==
  {Opts(r, n, s, d, "openvex") : r \in mcRules, n \in BOOLEAN, s \in {0, 3}, d \in mcDocs}
    \cup {Opts(r, n, 0, d, "csaf") : r \in mcRules, n \in BOOLEAN, d \in mcAdvisories}

=============================================================================
