---------------------------- MODULE NVDTransform ----------------------------
(***************************************************************************)
(* grype/db/v6/build/transformers/nvd: the configurations of an NVD record *)
(* turned into affected CPEs.                                              *)
(*                                                                         *)
(* A record: [id, configs, status, weaknesses]; a configuration: [op,      *)
(* nodes], op None when it is absent; a node: [op, matches]; a match:      *)
(* [product, part, version, update, vulnerable, bounds, fix, bad].         *)
(* product stands for all the attributes of the CPE but its version and    *)
(* update (cpeKey); version None is "*", 0 is "-"; bounds is               *)
(* [startInc, startExc, endInc, endExc]; fix the version with a known      *)
(* date; bad a text that is not a CPE.                                     *)
(***************************************************************************)
EXTENDS Ranges

CONSTANTS CPEParts,             \* Config.CPEParts
          InferNVDFixVersions,  \* Config.InferNVDFixVersions
          PackageSpecs          \* products of CPEPackageSpecifierLookup

(***************************************************************************)
(* Ranges                                                                  *)
(***************************************************************************)

NoBounds == [startInc |-> None, startExc |-> None, endInc |-> None, endExc |-> None]

\* deriveRangesFromCPE: a CPE with a version is that version, "-" included.
deriveRangesFromCPE(m) ==
    IF m.version = None THEN {}
    ELSE {[exact |-> m.version, update |-> m.update, bounds |-> NoBounds, fix |-> None]}

newAffectedRange(m) == [exact |-> None, update |-> None, bounds |-> m.bounds, fix |-> m.fix]

\* String of a range: one lower and one upper bound, or the version itself; an
\* update is a later release of its version, "-" is no constraint.
rangeConstraint(r) ==
    LET b  == r.bounds
        lo == IF b.startInc # None THEN {Bound("ge", b.startInc)}
              ELSE IF b.startExc # None THEN {Bound("gt", b.startExc)} ELSE {}
        hi == IF b.endExc # None THEN {Bound("lt", b.endExc)}
              ELSE IF b.endInc # None THEN {Bound("le", b.endInc)} ELSE {}
    IN  IF lo \cup hi # {} THEN lo \cup hi
        ELSE IF r.exact \in {None, 0} THEN {}
        ELSE {Bound("eq", IF r.update = None THEN r.exact ELSE r.exact + r.update)}

\* The version before which all are affected, unless it is itself known to be.
getFix(r, versions) ==
    LET known == ({r.bounds.startInc, r.bounds.endInc} \cup versions) \ {None, 0}
        fixes == {r.bounds.endExc} \ ({None, 0} \cup known)
    IN  IF ~InferNVDFixVersions \/ fixes = {} THEN None
        ELSE Fix("fixed", r.bounds.endExc, r.fix = r.bounds.endExc)

getRanges(cand) ==
    LET rs == SetToSeq(cand.ranges)
    IN  [i \in DOMAIN rs |-> Range_(rangeConstraint(rs[i]), getFix(rs[i], {cand.version}))]

(***************************************************************************)
(* Nodes                                                                   *)
(***************************************************************************)

Matches(node) == {node.matches[i] : i \in DOMAIN node.matches}

\* The candidates, in the order of the matches: [product, version, platforms,
\* ranges].
extractVulnerableCPEs(node) ==
    LET kept(m) == m.vulnerable /\ m.part \in CPEParts
        ms == SelectSeq(node.matches, kept)
    IN  [i \in DOMAIN ms |->
            [product |-> ms[i].product, version |-> ms[i].version, platforms |-> {},
             ranges |-> IF ms[i].bounds # NoBounds THEN {newAffectedRange(ms[i])} ELSE deriveRangesFromCPE(ms[i])]]

\* A platform is not vulnerable in any match of the node.
extractPlatformCPEs(node) ==
    {m.product : m \in {m \in Matches(node) : ~m.vulnerable}}
        \ {m.product : m \in {m \in Matches(node) : m.vulnerable}}

\* The candidates of one product become one: the first, with the platforms and
\* the ranges of all of them.
joined(cs) ==
    LET same(p)  == {i \in DOMAIN cs : cs[i].product = p}
        one(p)   == [cs[Min(same(p))] EXCEPT !.platforms = UNION {cs[i].platforms : i \in same(p)},
                                             !.ranges    = UNION {cs[i].ranges : i \in same(p)}]
        firsts   == {i \in DOMAIN cs : i = Min(same(cs[i].product))}
        isFirst(i) == i \in firsts
        order    == SelectSeq([i \in DOMAIN cs |-> i], isFirst)
    IN  [k \in DOMAIN order |-> one(cs[order[k]].product)]

InOrder(nodes, F(_)) == FlattenSeq([i \in DOMAIN nodes |-> F(nodes[i])])

isOr(n) == n.op = "OR"

\* Mutant: the platforms of one node only go to the CPEs of that node.
processANDNodes_PerNode(nodes) ==
    LET cpes(n) == LET cs == extractVulnerableCPEs(n)
                   IN  [i \in DOMAIN cs |-> [cs[i] EXCEPT !.platforms = extractPlatformCPEs(n)]]
    IN  InOrder(SelectSeq(nodes, isOr), cpes)

\* The vulnerable CPEs of all the OR nodes, on the platforms of all of them;
\* AND nodes are dropped.
processANDNodes(nodes) ==
    LET ors   == SelectSeq(nodes, isOr)
        cs    == joined(InOrder(ors, extractVulnerableCPEs))
        plats == UNION {extractPlatformCPEs(ors[i]) : i \in DOMAIN ors}
    IN  [i \in DOMAIN cs |-> [cs[i] EXCEPT !.platforms = plats]]

processORNodes(nodes) ==
    LET one(n) == IF n.op = "AND" THEN processANDNodes(<<n>>) ELSE extractVulnerableCPEs(n)
    IN  InOrder(nodes, one)

processConfiguration(config) ==
    IF config.op = "AND" THEN processANDNodes(config.nodes) ELSE processORNodes(config.nodes)

Nodes(config) == {config.nodes[i] : i \in DOMAIN config.nodes}
Configs(rec) == {rec.configs[i] : i \in DOMAIN rec.configs}

\* A text that is not a CPE leaves the record without affected CPEs.
Broken(rec) ==
    \E c \in Configs(rec) : \E n \in Nodes(c) :
        n.op = "OR" /\ \E m \in Matches(n) : m.bad /\ (c.op = "AND" \/ m.vulnerable)

\* deduplicateCandidates: one candidate per product over all configurations.
allCandidates(rec) == IF Broken(rec) THEN <<>> ELSE joined(InOrder(rec.configs, processConfiguration))

(***************************************************************************)
(* Records                                                                 *)
(***************************************************************************)

\* Without platforms, a product known as a package is also written as one.
affectedApplicationPackage(c) ==
    << [cpe |-> c.product, quals |-> [NoQuals EXCEPT !.platforms = c.platforms], ranges |-> getRanges(c)] >>
    \o IF c.platforms = {} /\ c.product \in PackageSpecs
       THEN <<PackageHandle(FALSE, c.product, "package", None, NoQuals, getRanges(c))>> ELSE <<>>

getVulnStatus(s) ==
    CASE s \in {"awaitinganalysis", "undergoinganalysis"} -> "analyzing"
      [] s = "disputed" -> "disputed"
      [] s \in {"rejected", "reject"} -> "rejected"
      [] s \in {"modified", "analyzed", "published"} -> "active"
      [] OTHER -> "unknown"

\* getCWEs: "noinfo" and texts that are no CWE are left out.
isValidCWE(w) == w \in {"CWE", "NVD-CWE-Other"}
getCWEs(rec) == {w \in rec.weaknesses : isValidCWE(w)}

Transform(rec) ==
    LET cs == allCandidates(rec)
    IN  [id |-> rec.id, aliases |-> {}, status |-> getVulnStatus(rec.status), cwes |-> getCWEs(rec),
         handles |-> FlattenSeq([i \in DOMAIN cs |-> affectedApplicationPackage(cs[i])])]
=============================================================================
