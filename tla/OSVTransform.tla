---------------------------- MODULE OSVTransform ----------------------------
(***************************************************************************)
(* grype/db/v6/build/transformers/osv: what becomes of a record in the OSV *)
(* format, for the five publishers the build knows.                        *)
(*                                                                         *)
(* A record: [id, strategy, affected, aliases, related, upstream,          *)
(* withdrawn, badScore], strategy standing for the prefix of the id.  An   *)
(* affected entry: [name, eco, ranges, custom, arch, module, imports]; a   *)
(* range: [type, events, dates], dates the versions with a date; an event: *)
(* [k, v], k one of "introduced", "fixed", "last_affected".  The ecosystem *)
(* is the sequence of its parts.  A Go pseudo-version is a version of the  *)
(* set PseudoVersions.                                                     *)
(***************************************************************************)
EXTENDS Ranges

CONSTANT PseudoVersions     \* the versions isGoPseudoVersion recognises

(***************************************************************************)
(* Ranges                                                                  *)
(***************************************************************************)

\* normalizeConstraint: only the formats of semantic versions get a comma
\* between two bounds; with a blank the text does not parse.
normalizeConstraint(c, type) ==
    IF Cardinality(c) > 1 /\ type \notin {"semver", "bitnami", "go"}
    THEN {Bound("and", None)} ELSE c

\* Mutant: a window is left open by the version that was last affected.
eventStep_LastIgnored(acc, e, dates, type) ==
    CASE e.k = "introduced" /\ e.v # 0 -> [acc EXCEPT !.open = {Bound("ge", e.v)}]
      [] e.k = "fixed" -> [open |-> {}, out |-> Append(acc.out, Range_(normalizeConstraint(acc.open \cup {Bound("lt", e.v)}, type), normalizeFix(e.v, e.v \in dates)))]
      [] OTHER -> acc

\* One event: a lower bound replaces the pending one, an upper bound closes the
\* window and, when it is a fix, names it.
eventStep(acc, e, dates, type) ==
    LET emit(b, fix) == [open |-> {}, out |-> Append(acc.out, Range_(normalizeConstraint(acc.open \cup {b}, type), fix))]
    IN  CASE e.k = "introduced" /\ e.v # 0 -> [acc EXCEPT !.open = {Bound("ge", e.v)}]
          [] e.k = "last_affected" -> emit(Bound("le", e.v), None)
          [] e.k = "fixed" -> emit(Bound("lt", e.v), normalizeFix(e.v, e.v \in dates))
          [] OTHER -> acc

eventsToRanges(events, dates, type) ==
    LET step(acc, e) == eventStep(acc, e, dates, type)
        end == FoldLeft(step, [open |-> {}, out |-> <<>>], events)
    IN  IF end.open = {} THEN end.out ELSE Append(end.out, Range_(end.open, None))

\* Each range on its own, the results one after the other.
rangesOf(ranges, type(_)) ==
    FlattenSeq([i \in DOMAIN ranges |-> eventsToRanges(ranges[i].events, ranges[i].dates, type(ranges[i].type))])

createUnaffectedRange(v, dates) == Range_({Bound("ge", v)}, normalizeFix(v, v \in dates))

\* getGrypeUnaffectedRangesFromRange: one open range per fix, of advisories
\* that tell which versions are not vulnerable.
unaffectedRangesOf(ranges) ==
    FlattenSeq([i \in DOMAIN ranges |->
        LET fixed(e) == e.k = "fixed"
            fixes == SelectSeq(ranges[i].events, fixed)
        IN  [j \in DOMAIN fixes |-> createUnaffectedRange(fixes[j].v, ranges[i].dates)]])

bitnamiRangeType(t) == IF t = "semver" THEN "bitnami" ELSE t
cgRangeType(t) == IF t = "ecosystem" THEN "apk" ELSE t

(***************************************************************************)
(* Custom ranges of the Go vulnerability database                          *)
(***************************************************************************)

Closes(e) == e.k \in {"fixed", "last_affected"}
hasUpperBound(events) == \E i \in DOMAIN events : Closes(events[i])
isDefaultFloorOnly(events) == events = <<[k |-> "introduced", v |-> 0]>>
flattenEvents(ranges) == FlattenSeq([i \in DOMAIN ranges |-> ranges[i].events])
fixDates(ranges) == UNION {ranges[i].dates : i \in DOMAIN ranges}

introducedAt(events) == {i \in DOMAIN events : events[i].k = "introduced"}
firstIntroduced(events) == IF introducedAt(events) = {} THEN 0 ELSE events[Min(introducedAt(events))].v

\* Only the first window takes the floor, and only if it starts at zero.
withFloor(events, floor) ==
    IF floor = 0 \/ introducedAt(events) = {} THEN events
    ELSE [events EXCEPT ![Min(introducedAt(events))].v = IF @ = 0 THEN floor ELSE @]

\* Up to the last event that closes a window.
boundedEvents(events) ==
    LET closing == {i \in DOMAIN events : Closes(events[i])}
    IN  IF closing = {} THEN <<>> ELSE SubSeq(events, 1, Max(closing))

mergeWithCustom(standard, custom) ==
    CASE isDefaultFloorOnly(standard) -> custom
      [] ~isDefaultFloorOnly(standard) /\ ~hasUpperBound(standard) -> withFloor(custom, firstIntroduced(standard))
      [] hasUpperBound(standard) /\ ~hasUpperBound(custom) -> withFloor(boundedEvents(standard), firstIntroduced(custom))
      [] OTHER -> boundedEvents(standard) \o custom

\* Custom ranges that leave nothing do not widen the record to every version.
govulndbRanges(standard, custom) ==
    LET plain  == eventsToRanges(flattenEvents(standard), fixDates(standard), "go")
        merged == eventsToRanges(mergeWithCustom(flattenEvents(standard), flattenEvents(custom)),
                                 fixDates(standard) \cup fixDates(custom), "go")
    IN  IF custom = <<>> \/ merged = <<>> THEN plain ELSE merged

\* The pairing the merge with GitHub's advisories uses: the pseudo-version the
\* one standard range ends with, and the one custom range without any.
NoReplacement == [from |-> None, to |-> <<>>]

pseudoVersionReplacement(standard, custom) ==
    IF Len(standard) # 1 \/ Len(custom) # 1 THEN NoReplacement
    ELSE LET fixed(e) == e.k = "fixed"
             fixes == SelectSeq(standard[1].events, fixed)
             to    == eventsToRanges(custom[1].events, fixDates(custom), "go")
             fits  == /\ \A i \in DOMAIN standard[1].events : standard[1].events[i].k # "last_affected"
                      /\ Len(fixes) = 1 /\ fixes[1].v \in PseudoVersions
                      /\ hasUpperBound(custom[1].events)
                      /\ \A i \in DOMAIN custom[1].events : custom[1].events[i].v \notin PseudoVersions
                      /\ to # <<>>
         IN  IF fits THEN [from |-> fixes[1].v, to |-> to] ELSE NoReplacement

(***************************************************************************)
(* Operating systems and packages                                          *)
(***************************************************************************)

almaOSFromEcosystem(eco) ==
    CASE Len(eco) < 2 -> None
      [] Len(eco) >= 2 /\ eco[2].word # None -> osRow("almalinux", None, <<>>, <<>>, eco[2].word, None)
      [] OTHER -> osRow("almalinux", None, eco[2].major, eco[2].minor, None, None)

cgOperatingSystem(eco) ==
    IF eco[1] \in {"chainguard", "wolfi"} THEN osRow(eco[1], eco[1], <<>>, <<>>, "rolling", None) ELSE None

\* Unknown ecosystems are skipped.
rootioPackageType(eco) ==
    CASE Len(eco) = 2 /\ eco[1] = "root" /\ eco[2] \in {"npm", "python", "maven"} -> eco[2]
      [] Len(eco) = 3 /\ eco[1] = "root" /\ eco[2] = "alpine" -> "apk"
      [] Len(eco) = 3 /\ eco[1] = "root" /\ eco[2] \in {"debian", "ubuntu"} -> "deb"
      [] OTHER -> None

\* A release that is not a number leaves the record without operating system.
rootioOSFromEcosystem(eco) ==
    IF Len(eco) < 3 \/ eco[3].word # None THEN None
    ELSE osRow(eco[2], None, eco[3].major, eco[3].minor, None, None)

(***************************************************************************)
(* Records                                                                 *)
(***************************************************************************)

AllAffected(rec, F(_)) == FlattenSeq([i \in DOMAIN rec.affected |-> F(rec.affected[i])])

almaHandles(a) ==
    << PackageHandle(TRUE, a.name, "rpm", almaOSFromEcosystem(a.eco), [NoQuals EXCEPT !.module = a.module],
                     unaffectedRangesOf(a.ranges)) >>

bitnamiHandles(a) ==
    << PackageHandle(FALSE, a.name, a.eco[1], None, NoQuals, rangesOf(a.ranges, bitnamiRangeType)) >>

cgHandles(a) ==
    << PackageHandle(FALSE, a.name, a.eco[1], cgOperatingSystem(a.eco), [NoQuals EXCEPT !.arch = a.arch],
                     rangesOf(a.ranges, cgRangeType)) >>

rootioHandles(a) ==
    IF rootioPackageType(a.eco) = None THEN <<>>
    ELSE << PackageHandle(TRUE, a.name, rootioPackageType(a.eco), rootioOSFromEcosystem(a.eco),
                          [NoQuals EXCEPT !.root = TRUE], unaffectedRangesOf(a.ranges)) >>

govulndbHandles(a) ==
    << [PackageHandle(FALSE, a.name, "go-module", None, [NoQuals EXCEPT !.imports = a.imports],
                      govulndbRanges(a.ranges, a.custom))
        EXCEPT !.swap = pseudoVersionReplacement(a.ranges, a.custom)] >>

\* What a record is written as: None when it is skipped or cannot be read.
Entry(rec, names, status, handles) == [id |-> rec.id, aliases |-> names, status |-> status, handles |-> handles]

\* Only the Go database's withdrawals are looked at; a Go record without
\* packages is not written.
almaTransform(rec) == Entry(rec, rec.aliases \cup rec.related, "active", AllAffected(rec, almaHandles))
bitnamiTransform(rec) == Entry(rec, rec.aliases, "active", AllAffected(rec, bitnamiHandles))
chainguardTransform(rec) == Entry(rec, rec.aliases \cup rec.upstream, "active", AllAffected(rec, cgHandles))
rootioTransform(rec) == Entry(rec, rec.aliases \cup rec.related, "active", AllAffected(rec, rootioHandles))
govulndbTransform(rec) ==
    IF rec.affected = <<>> THEN None
    ELSE Entry(rec, rec.aliases, IF rec.withdrawn THEN "rejected" ELSE "active", AllAffected(rec, govulndbHandles))

\* getSeverities: a score that cannot be read fails the record.
readable(rec) == ~rec.badScore

Transform(rec) ==
    CASE ~readable(rec) \/ rec.strategy = None -> None
      [] readable(rec) /\ rec.strategy = "alma" -> almaTransform(rec)
      [] readable(rec) /\ rec.strategy = "bitnami" -> bitnamiTransform(rec)
      [] readable(rec) /\ rec.strategy = "cg" -> chainguardTransform(rec)
      [] readable(rec) /\ rec.strategy = "rootio" -> rootioTransform(rec)
      [] readable(rec) /\ rec.strategy = "go" -> govulndbTransform(rec)
=============================================================================
