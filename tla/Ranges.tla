------------------------------- MODULE Ranges -------------------------------
(***************************************************************************)
(* The version ranges of a record (grype/db/v6/blobs.go) and the helpers   *)
(* that write their constraints (grype/db/internal/versionutil).           *)
(*                                                                         *)
(* A version is a number, in the order of its format; None is the absent   *)
(* one.  A constraint is the set of bounds that must all hold, so that {}  *)
(* is the empty text; a bound is [op, v].  A bound without a version ("<"  *)
(* followed by nothing) is a text no format parses.  A range is            *)
(* [cons, fix]; a fix is [state, v, dated] or None.                        *)
(***************************************************************************)
EXTENDS Naturals, Sequences, FiniteSets, SequencesExt

CONSTANT None

Bound(op, v) == [op |-> op, v |-> v]

Unparsable(c) == \E b \in c : b.v = None

boundHolds(b, v) ==
    CASE b.op = "ge" -> v >= b.v
      [] b.op = "gt" -> v > b.v
      [] b.op = "le" -> v <= b.v
      [] b.op = "lt" -> v < b.v
      [] b.op = "eq" -> v = b.v

Accepts(c, v) == ~Unparsable(c) /\ \A b \in c : boundHolds(b, v)

\* What a search for version v makes of the ranges of a handle: the texts that
\* are not empty are joined, none stand for every version, and one that does not
\* parse discards the record.
Affects(ranges, v) ==
    LET texts == {ranges[i].cons : i \in DOMAIN ranges} \ {{}}
    IN  /\ ~\E c \in texts : Unparsable(c)
        /\ texts = {} \/ \E c \in texts : Accepts(c, v)

\* CleanConstraint, EnforceSemVerConstraint: "none" is no constraint.
CleanConstraint(v) == IF v = None THEN {} ELSE {Bound("lt", v)}

\* A fix with its state; dated when the provider knows since when.
Fix(state, v, dated) == [state |-> state, v |-> v, dated |-> dated]

\* normalizeFix, getFix: the state follows from the version.
normalizeFix(v, dated) == Fix(IF v = None THEN "not-fixed" ELSE "fixed", v, dated)

Range_(c, fix) == [cons |-> c, fix |-> fix]

\* Handles of packages: [unaffected, name, eco, os, quals, ranges], of CPEs:
\* [cpe, quals, ranges].  quals is [arch, root, module, platforms, imports].
NoQuals == [arch |-> None, root |-> FALSE, module |-> None, platforms |-> {}, imports |-> {}]

PackageHandle(unaffected, name, eco, os, quals, ranges) ==
    [unaffected |-> unaffected, name |-> name, eco |-> eco, os |-> os, quals |-> quals, ranges |-> ranges,
     swap |-> None]

\* An operating system in the form of VulnProvider's rows; a part of a version is
\* its sequence of digits, a word is a string. Codenames are left out.
osRow(name, release, major, minor, label, channel) ==
    [name |-> name, release |-> release, codename |-> None, label |-> label, major |-> major,
     minor |-> minor, channel |-> channel, eol |-> FALSE]

\* The order of the texts of constraints: the lower bound is written first, and
\* "<" precedes "<=", "=", ">" and ">=".
opRank == [lt |-> 1, le |-> 2, eq |-> 3, gt |-> 4, ge |-> 5]
textKey(c) ==
    LET later(b1, b2) == opRank[b1.op] > opRank[b2.op]
        bs == SetToSortSeq(c, later)
    IN  FlattenSeq([i \in DOMAIN bs |-> <<opRank[bs[i].op], bs[i].v>>])

keyLess(k1, k2) ==
    \/ Len(k1) < Len(k2) /\ SubSeq(k2, 1, Len(k1)) = k1
    \/ \E i \in DOMAIN k1 \cap DOMAIN k2 : k1[i] < k2[i] /\ \A j \in 1 .. i - 1 : k1[j] = k2[j]

\* The part of the key in which the systems of one record differ.
operatingSystemSortKey(os) == IF os = None THEN <<>> ELSE os.minor

\* Mutant: the operating system does not break ties.
comparePackageHandles_NoOS(h1, h2) ==
    IF h1.name # h2.name THEN h1.name < h2.name
    ELSE \E i \in DOMAIN h1.ranges \cap DOMAIN h2.ranges :
             keyLess(textKey(h1.ranges[i].cons), textKey(h2.ranges[i].cons))

\* comparePackageHandles, for the handles of one ecosystem with numbers for
\* names: the first pair of ranges, of all pairs, whose texts differ decides.
comparePackageHandles(h1, h2) ==
    LET differ == {p \in (DOMAIN h1.ranges) \X (DOMAIN h2.ranges) : h1.ranges[p[1]].cons # h2.ranges[p[2]].cons}
        before(p, q) == p[1] < q[1] \/ (p[1] = q[1] /\ p[2] <= q[2])
        first == CHOOSE p \in differ : \A q \in differ : before(p, q)
    IN  IF h1.name # h2.name THEN h1.name < h2.name
        ELSE IF differ # {} THEN keyLess(textKey(h1.ranges[first[1]].cons), textKey(h2.ranges[first[2]].cons))
        ELSE keyLess(operatingSystemSortKey(h1.os), operatingSystemSortKey(h2.os))
=============================================================================
