--------------------------- MODULE FeedTransform ----------------------------
(***************************************************************************)
(* The remaining feeds: GitHub advisories, Microsoft's update guide, end   *)
(* of life dates, exploitation scores and the references they share        *)
(* (grype/db/v6/build/transformers/{github,msrc,eol,kev,epss}).            *)
(*                                                                         *)
(* A GitHub advisory: [id, cves, withdrawn, fixedIns, urls]; a FixedIn:    *)
(* [name, eco, range, fix, dated, odd], odd for a range the format of its  *)
(* ecosystem cannot read.  An update: [id, product, vulnerable, fixedIns], *)
(* a fix [id, latest, dated].  A release: [product, major, minor, eol,     *)
(* eoas], dates or None.                                                   *)
(***************************************************************************)
EXTENDS Ranges

CONSTANTS SupportedDistros,     \* supportedDistros of the end of life feed
          ProductNames          \* productNameMapping

\* The types of packages; an unknown ecosystem is its own type.
getPackageType(eco) ==
    CASE eco \in {"rust", "cargo"} -> "rust-crate"
      [] eco \in {"go", "golang"} -> "go-module"
      [] eco \in {"pypi", "python", "pip"} -> "python"
      [] OTHER -> eco

\* A range its format cannot read is compared without format.
getRanges(f) == <<Range_(f.range, normalizeFix(f.fix, f.dated))>>
formatOf(f) == IF f.odd THEN "unknown" ELSE IF f.eco = "pip" THEN "python" ELSE f.eco

\* getAffectedPackage: one handle per FixedIn, those of one package not joined.
getAffectedPackage(adv) ==
    [i \in DOMAIN adv.fixedIns |->
        PackageHandle(FALSE, adv.fixedIns[i].name, getPackageType(adv.fixedIns[i].eco), None, NoQuals,
                      getRanges(adv.fixedIns[i]))]

\* DeduplicateReferences: the first of those with one URL and the same tags.
DeduplicateReferences(refs) ==
    LET isFirst(i) == \A j \in 1 .. i - 1 : refs[j] # refs[i]
        order == SelectSeq([i \in DOMAIN refs |-> i], isFirst)
    IN  [k \in DOMAIN order |-> refs[order[k]]]

TransformGitHub(adv) ==
    [id |-> adv.id, aliases |-> adv.cves, status |-> IF adv.withdrawn THEN "rejected" ELSE "active",
     refs |-> DeduplicateReferences(adv.urls), formats |-> {formatOf(adv.fixedIns[i]) : i \in DOMAIN adv.fixedIns},
     handles |-> getAffectedPackage(adv)]

\* The updates that do not fix it, and the system without any ("base").
msrcRanges(up) == {up.vulnerable[i] : i \in DOMAIN up.vulnerable} \cup {"base"}

\* fixedInKB: the first of the fixes that is the latest.
fixedInKB(up) ==
    LET latest == {i \in DOMAIN up.fixedIns : up.fixedIns[i].latest}
    IN  IF latest = {} THEN Fix("not-fixed", None, FALSE)
        ELSE Fix("fixed", up.fixedIns[Min(latest)].id, up.fixedIns[Min(latest)].dated)

TransformMSRC(up) ==
    [id |-> up.id, aliases |-> {}, status |-> "active", product |-> up.product, kbs |-> msrcRanges(up), fix |-> fixedInKB(up)]

\* normalizeVersion: "04" is written as "4".
normalizeVersion(s) ==
    LET sig == {i \in DOMAIN s : s[i] # 0}
    IN  IF s = <<>> THEN s ELSE IF sig = {} THEN <<0>> ELSE SubSeq(s, Min(sig), Len(s))

translateProductName(p) == IF p \in DOMAIN ProductNames THEN ProductNames[p] ELSE p

\* Products that are no distributions, and releases without a date, are skipped.
TransformEOL(rel) ==
    LET name == translateProductName(rel.product)
    IN  IF name \notin SupportedDistros \/ (rel.eol = None /\ rel.eoas = None) THEN None
        ELSE [name |-> name, major |-> normalizeVersion(rel.major), minor |-> normalizeVersion(rel.minor),
              eol |-> rel.eol, eoas |-> rel.eoas]

\* getURLs: the notes that are links become references, with those in brackets
\* in the other texts; each once.
TransformKEV(kev) ==
    LET link(n) == n.url
        texts(ns) == [i \in DOMAIN ns |-> ns[i].text]
        urls == texts(SelectSeq(kev.notes, link)) \o kev.bracketed
        rest(n) == ~n.url
    IN  [cve |-> kev.cve, urls |-> DeduplicateReferences(urls), notes |-> texts(SelectSeq(kev.notes, rest))]

\* A score without a date it can read fails.
TransformEPSS(e) == IF e.date = None THEN None ELSE [cve |-> e.cve, epss |-> e.epss, date |-> e.date]
=============================================================================
