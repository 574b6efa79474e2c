------------------------------ MODULE VulnDiff ------------------------------
(***************************************************************************)
(* What "grype db diff" reports about two databases (grype/db/v6/diff):    *)
(* the tables and views it creates over both and the changes it reads from *)
(* them. A database is the record of tables of VulnStore. A set of rows    *)
(* stands for a temporary table; the lists of the report are sorted at the *)
(* end and hold an entry once, except that a vulnerability without a       *)
(* provider may stand in "modified" for both of its decorations.           *)
(***************************************************************************)
EXTENDS VulnStore, Integers

CONSTANT EPSSThreshold     \* in the unit of the scores and percentiles

CPEEcosystem == "cpe"

\* config.go: without a choice of packages or vulnerabilities both are included,
\* and the known exploited ones with them.
allUnset(c) == ~c.packages /\ ~c.vulns
IncludePackages(c) == allUnset(c) \/ c.packages
IncludeVulns(c) == allUnset(c) \/ c.vulns
IncludeEPSS(c) == c.epss
IncludeKEV(c) == allUnset(c) \/ c.kev

(***************************************************************************)
(* Tables                                                                  *)
(***************************************************************************)

\* Mutant: the whole blob is compared.
matchingBlob_Whole(b) == <<b.ranges, b.available>>

\* The date a fix became available does not affect matching and is removed.
matchingBlob(b) == b.ranges

\* 1 for a record that makes a package vulnerable.
status(d, h) ==
    IF ~h.affected \/ d.vulns[h.vuln].status \in {"withdrawn", "rejected"} THEN 0 ELSE 1

\* The columns two rows are joined on. The label of an operating system is not
\* one of them.
columns(o) == <<o.name, o.major, o.minor, o.codename, o.channel>>
osColumns(d, i) == IF i = 0 THEN <<None, <<>>, <<>>, None, None>> ELSE columns(d.oses[i])

\* diff_pkg_old and diff_pkg_new.
diffPkg(d) ==
    {[key |-> [vuln |-> d.vulns[h.vuln].name, provider |-> d.vulns[h.vuln].provider,
               ecosystem |-> d.packages[h.pkg].ecosystem, name |-> d.packages[h.pkg].name,
               os |-> osColumns(d, h.os)],
      blob |-> matchingBlob(d.blobs[h.blob]), status |-> status(d, h), vid |-> h.vuln] :
        h \in d.handles}

\* diff_cpe_old and diff_cpe_new.
diffCPE(d) ==
    {[key |-> [vuln |-> d.vulns[h.vuln].name, provider |-> d.vulns[h.vuln].provider,
               cpe |-> d.cpes[h.cpe]],
      blob |-> matchingBlob(d.blobs[h.blob]), status |-> status(d, h), vid |-> h.vuln] :
        h \in d.cpeHandles}

\* diff_vuln_old and diff_vuln_new: the row, its three dates included, with the
\* text of its blob.
diffVuln(d) == {[r EXCEPT !.blob = d.blobs[@]] : r \in {d.vulns[i] : i \in DOMAIN d.vulns}}

(***************************************************************************)
(* Views                                                                   *)
(***************************************************************************)

\* The rows of p without a partner in q, or vulnerable with a partner that is
\* not: "added" from new to old, "removed" from old to new.
onlyIn(p, q) ==
    {r \in p : \/ \A s \in q : s.key # r.key
               \/ r.status = 1 /\ \E s \in q : s.key = r.key /\ s.status = 0}

\* The old rows that have a partner of their status, none with their blob.
modifiedIn(old, new) ==
    {r \in old : /\ \E s \in new : s.key = r.key /\ s.status = r.status
                 /\ ~\E s \in new : s.key = r.key /\ s.status = r.status /\ s.blob = r.blob}

(***************************************************************************)
(* Package changes                                                         *)
(***************************************************************************)

id(r) == [id |-> r.key.vuln, provider |-> r.key.provider]

\* applyChange: what one row says of which package. An entry is kept once.
applyChange(kind, ecosystem, name, cpe, r) ==
    [kind |-> kind, pkg |-> [ecosystem |-> ecosystem, name |-> name, cpe |-> cpe], id |-> id(r)]
pkgChange(kind, r) == applyChange(kind, r.key.ecosystem, r.key.name, None, r)
cpeChange(kind, r) == applyChange(kind, CPEEcosystem, r.key.cpe.product, r.key.cpe, r)

\* The views over the package tables and over the CPE tables.
pkgViews(old, new) ==
    UNION {{pkgChange("added", r) : r \in onlyIn(new, old)},
           {pkgChange("removed", r) : r \in onlyIn(old, new)},
           {pkgChange("modified", r) : r \in modifiedIn(old, new)}}
cpeViews(old, new) ==
    UNION {{cpeChange("added", r) : r \in onlyIn(new, old)},
           {cpeChange("removed", r) : r \in onlyIn(old, new)},
           {cpeChange("modified", r) : r \in modifiedIn(old, new)}}

diffPackages(old, new) == pkgViews(diffPkg(old), diffPkg(new)) \cup cpeViews(diffCPE(old), diffCPE(new))

(***************************************************************************)
(* Vulnerability changes                                                   *)
(***************************************************************************)

rowID(r) == [id |-> r.name, provider |-> r.provider]
rowIDs(rows) == {rowID(r) : r \in rows}

vulnsAdded(vo, vn) == rowIDs(vn) \ rowIDs(vo)

\* Rows of new that name a vulnerability of old and equal none of its rows.
vulnsModified(vo, vn) == {rowID(r) : r \in {x \in vn \ vo : rowID(x) \in rowIDs(vo)}}

Cves(rows) == {r.cve : r \in rows}
unowned(cves) == {[id |-> c, provider |-> None] : c \in cves}

\* A change in which vulnerabilities are known to be exploited.
findKevDiffs(old, new) ==
    (Cves(new.kevs) \ Cves(old.kevs)) \cup (Cves(old.kevs) \ Cves(new.kevs))

Apart(a, b) == a - b > EPSSThreshold \/ b - a > EPSSThreshold

\* A score that came, went, or moved by more than the threshold, itself or in
\* its percentile.
moved(o, n) == Apart(o.score, n.score) \/ Apart(o.percentile, n.percentile)
findEpssDiffs(old, new) ==
    (Cves(new.epss) \ Cves(old.epss)) \cup (Cves(old.epss) \ Cves(new.epss))
    \cup {r.cve : r \in {o \in old.epss : \E n \in new.epss : n.cve = o.cve /\ moved(o, n)}}

diffVulns(c, old, new) ==
    LET vo == diffVuln(old)
        vn == diffVuln(new)
    IN  [added    |-> vulnsAdded(vo, vn),
         removed  |-> vulnsAdded(vn, vo),
         modified |-> vulnsModified(vo, vn)
                      \cup (IF IncludeKEV(c) THEN unowned(findKevDiffs(old, new)) ELSE {})
                      \cup (IF IncludeEPSS(c) THEN unowned(findEpssDiffs(old, new)) ELSE {})]

\* Diff: a part that is not included is left out of the result.
Diff(c, old, new) ==
    [packages |-> IF IncludePackages(c) THEN diffPackages(old, new) ELSE {},
     vulns |-> IF IncludeVulns(c) THEN diffVulns(c, old, new)
               ELSE [added |-> {}, removed |-> {}, modified |-> {}]]
=============================================================================
