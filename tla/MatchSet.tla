------------------------------ MODULE MatchSet ------------------------------
(***************************************************************************)
(* match.Match and match.Matches (grype/match): the collection in which a  *)
(* scan accumulates what it finds.  A collection keeps its matches by      *)
(* fingerprint and two indexes over them, by core fingerprint and by       *)
(* package.  Adding to it is not a function: when several stored matches   *)
(* could be superseded, the one that is depends on the iteration order of  *)
(* a Go map, so every operation that adds returns the set of possible      *)
(* results.                                                                *)
(*                                                                         *)
(* Abstractions.  A vulnerability is named by a reference (ID and          *)
(* namespace); the list of fixed versions is one value, 0 when it is       *)
(* empty, ordered as the joined strings are; a detail is its match type    *)
(* and an identity (what searched, what was found, which matcher); lists   *)
(* of details, references and CPEs that the code keeps free of duplicates  *)
(* and sorts for output are sets.                                          *)
(***************************************************************************)
EXTENDS Naturals, FiniteSets, Sequences, SequencesExt

CONSTANTS
  Refs,        \* vulnerability references: records [id, ns]
  Pkgs,        \* package IDs
  Fixes,       \* joined lists of fixed versions, ordered; 0 is the empty list
  DetailIDs    \* identities of match details

Types == {"exact-direct-match", "exact-indirect-match", "cpe-match"}

Detail == [type : Types, id : DetailIDs]

(* The vulnerability, its package, how it was matched; rec is the database *)
(* record behind the reference (Reference.Internal).                       *)
Match == [vuln : Refs, rec : Refs, pkg : Pkgs, fix : Fixes,
          related : SUBSET Refs, details : SUBSET Detail]

coreFingerprint(m) == [vuln |-> m.vuln, pkg |-> m.pkg]

Fingerprint(m) == [vuln |-> m.vuln, pkg |-> m.pkg, fix |-> m.fix]

Cores == [vuln : Refs, pkg : Pkgs]

Fingerprints == [vuln : Refs, pkg : Pkgs, fix : Fixes]

CoreOf(fp) == [vuln |-> fp.vuln, pkg |-> fp.pkg]

hasMatchType(details, ty) == \E d \in details : d.type = ty

hasExclusivelyAnyMatchTypes(details, tys) ==
  details # {} /\ \A d \in details : d.type \in tys

(***************************************************************************)
(* Match.Merge: refused unless the fingerprints agree; otherwise the       *)
(* related vulnerabilities and the details of both are kept.               *)
(***************************************************************************)
CanMerge(m, other) == Fingerprint(m) = Fingerprint(other)

MergeMatch(m, other) == [m EXCEPT !.related = @ \cup other.related,
                                  !.details = @ \cup other.details]

(***************************************************************************)
(* The collection.                                                         *)
(***************************************************************************)
newMatches == [byFingerprint     |-> [fp \in {} |-> {}],
               byCoreFingerprint |-> [c \in Cores |-> {}],
               byPackage         |-> [p \in Pkgs |-> {}]]

Stored(r) == {r.byFingerprint[fp] : fp \in DOMAIN r.byFingerprint}

Put(f, fp, m) == [x \in DOMAIN f \cup {fp} |-> IF x = fp THEN m ELSE f[x]]

(* The case analysis of mergeCoreMatches.  An entry of byCoreFingerprint   *)
(* whose match was replaced has no stored match any more: the zero Match   *)
(* the code then reads has no details and can neither be superseded nor    *)
(* merged with.                                                            *)
Supersedable_Mixed(r, m) ==
  {fp \in r.byCoreFingerprint[coreFingerprint(m)] \cap DOMAIN r.byFingerprint :
     /\ hasMatchType(m.details, "exact-direct-match")
     /\ hasMatchType(r.byFingerprint[fp].details, "exact-indirect-match")}

Supersedable(r, m) ==
  {fp \in r.byCoreFingerprint[coreFingerprint(m)] \cap DOMAIN r.byFingerprint :
     /\ hasMatchType(m.details, "exact-direct-match")
     /\ hasExclusivelyAnyMatchTypes(r.byFingerprint[fp].details, {"exact-indirect-match"})}

Mergeable(r, m) ==
  {fp \in r.byCoreFingerprint[coreFingerprint(m)] \cap DOMAIN r.byFingerprint :
     CanMerge(r.byFingerprint[fp], m)}

(* replace: the new match takes the place of the one stored under og in    *)
(* byFingerprint and byPackage, and inherits its details.                  *)
replace_KeepsIndex(r, m, og) ==
  LET fp == Fingerprint(m)
      kept == [x \in DOMAIN r.byFingerprint \ {og} |-> r.byFingerprint[x]]
  IN [r EXCEPT !.byFingerprint =
        Put(kept, fp, [m EXCEPT !.details = @ \cup r.byFingerprint[og].details])]

replace_DropsDetails(r, m, og) ==
  LET fp == Fingerprint(m)
      kept == [x \in DOMAIN r.byFingerprint \ {og} |-> r.byFingerprint[x]]
  IN [r EXCEPT
        !.byPackage = [p \in Pkgs |-> IF og \in @[p] THEN (@[p] \ {og}) \cup {fp}
                                                     ELSE @[p]],
        !.byFingerprint = Put(kept, fp, m)]

replace(r, m, og) ==
  LET fp == Fingerprint(m)
      kept == [x \in DOMAIN r.byFingerprint \ {og} |-> r.byFingerprint[x]]
  IN [r EXCEPT
        !.byPackage = [p \in Pkgs |-> IF og \in @[p] THEN (@[p] \ {og}) \cup {fp}
                                                     ELSE @[p]],
        !.byFingerprint =
           Put(kept, fp, [m EXCEPT !.details = @ \cup r.byFingerprint[og].details])]

(* Case A merges with the match stored under the same fingerprint, case B1 *)
(* replaces, case C stores.  In case B2 the code merges into a copy that   *)
(* it does not store.                                                      *)
addOrMerge(r, m) ==
  LET fp == Fingerprint(m)
      stored == [r EXCEPT !.byFingerprint = Put(@, fp, m)]
      merged == [r EXCEPT !.byFingerprint = Put(@, fp, MergeMatch(@[fp], m))]
  IN IF fp \in DOMAIN r.byFingerprint
     THEN {merged}
     ELSE IF Supersedable(r, m) \cup Mergeable(r, m) # {}
          THEN {replace(r, m, og) : og \in Supersedable(r, m)}
                 \cup {r : x \in Mergeable(r, m)}
          ELSE {stored}

(* Matches.Add of one match: the results, one for each choice the          *)
(* iteration over byCoreFingerprint may make.                              *)
Add(r, m) ==
  LET fp == Fingerprint(m)
  IN {[x EXCEPT !.byCoreFingerprint[coreFingerprint(m)] = @ \cup {fp},
                !.byPackage[m.pkg] = @ \cup {fp}] : x \in addOrMerge(r, m)}

(***************************************************************************)
(* What the callers do with collections.                                   *)
(***************************************************************************)
(* The list ms is added in order, without the matches in out.              *)
AddAll(rs, ms, out) ==
  LET added[n \in 0..Len(ms)] ==
        IF n = 0 THEN rs
        ELSE IF ms[n] \in out THEN added[n - 1]
        ELSE UNION {Add(r, ms[n]) : r \in added[n - 1]}
  IN added[Len(ms)]

(* NewMatches of a list in a given order.                                  *)
NewMatches(ms) == AddAll({newMatches}, ms, {})

(* The lists of the members of a set, in every order.                      *)
Orders(ms) == {s \in SeqOf(ms, Cardinality(ms)) : ToSet(s) = ms}

(* Matches of different core fingerprints never touch each other in Add,   *)
(* and two of the same core that differ in their fingerprint differ in     *)
(* their fixes: by them Sorted orders the matches that matter.             *)
SortedOrders(ms) ==
  {s \in Orders(ms) : \A i, j \in DOMAIN s : i < j => s[i].fix <= s[j].fix}

Sorted(r) == SortedOrders(Stored(r))

(* The collections a list of matches in unspecified, or in Sorted, order   *)
(* can become.                                                             *)
Collect(ms) == UNION {NewMatches(s) : s \in Orders(ms)}

CollectSorted(ms) == UNION {NewMatches(s) : s \in SortedOrders(ms)}

GetByPkgID(r, p) == {r.byFingerprint[fp] : fp \in r.byPackage[p]}

-----------------------------------------------------------------------------
(* One match per fingerprint, stored under its own fingerprint, and the    *)
(* package index names exactly the stored matches of the package: a        *)
(* replaced match must leave no entry behind in byPackage (GetByPkgID and  *)
(* Merge would read a zero Match for it), and none may be missing.  The    *)
(* core index may name replaced matches, but misses no stored one.         *)
Indexed(r) ==
  /\ \A fp \in DOMAIN r.byFingerprint : Fingerprint(r.byFingerprint[fp]) = fp
  /\ \A p \in Pkgs : r.byPackage[p] = {fp \in DOMAIN r.byFingerprint : fp.pkg = p}
  /\ \A fp \in DOMAIN r.byFingerprint : fp \in r.byCoreFingerprint[CoreOf(fp)]

=============================================================================
