----------------------------- MODULE MCMatches ------------------------------
(* Small instances of Matches: two versions of one advisory (fixed or not) *)
(* on two packages, found directly, through an upstream package or by CPE. *)
EXTENDS Matches

CONSTANTS p1, p2, a, b

cve == [id |-> "CVE-1", ns |-> "nvd"]

mcRefs == {cve}

Found(p, f, ty, i) == [vuln |-> cve, rec |-> cve, pkg |-> p, fix |-> f, related |-> {},
                       details |-> {[type |-> ty, id |-> i]}]

mcInputs ==
  {Found(p1, f, "exact-direct-match", "d") : f \in {1, 2}}
    \cup {Found(p1, f, "exact-indirect-match", "i") : f \in {0, 1, 2}}
    \cup {Found(p1, 1, "cpe-match", "c"), Found(p2, 1, "exact-indirect-match", "i")}
=============================================================================
