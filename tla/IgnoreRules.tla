---------------------------- MODULE IgnoreRules -----------------------------
(***************************************************************************)
(* Which matches are set aside: the ignore rules of grype/match/ignore.go, *)
(* the filters matchers return, the index grype/vulnerability_matcher.go   *)
(* builds over them, and the VEX rules of grype/vex.                       *)
(*                                                                         *)
(* Abstractions.  What a rule says of the package alone is either a name   *)
(* (exact or a regular expression), a location (a path or a glob), or the  *)
(* rest (version, language, type, upstream name), which is the set of      *)
(* packages that meet it.  Which name or path an expression matches is a   *)
(* given relation.  A fix state is a function of the fixed versions.       *)
(***************************************************************************)
EXTENDS MatchSet

CONSTANTS
  None,        \* a field of a rule that is not set
  NameOf,      \* [Pkgs -> names]
  PathsOf,     \* [Pkgs -> set of [real, access]]: Package.Locations
  OwnersOf,    \* [Pkgs -> SUBSET Pkgs]: ownership-by-file-overlap relations
  StateOf,     \* [Fixes -> fix states]
  NameMatches, \* pairs <<name or expression of a rule, name it matches>>
  PathMatches, \* pairs <<path or glob of a rule, path it matches>>
  Globs        \* the paths of rules that contain a '*'

IDsOf(m) == {m.vuln.id} \cup {x.id : x \in m.related}

(***************************************************************************)
(* IgnoreRule.                                                             *)
(***************************************************************************)
NoRule == [kind |-> "rule", vuln |-> None, aliases |-> FALSE, ns |-> None,
           name |-> None, pkgs |-> None, loc |-> None, state |-> None,
           type |-> None, vex |-> None, just |-> None]

(* getIgnoreConditionsForRule: the criteria the rule specifies.            *)
Criteria(r) ==
  {f \in {"vuln", "ns", "name", "pkgs", "loc", "state", "type"} : r[f] # None}

ifVulnerabilityApplies(r, m) ==
  \/ r.vuln = m.vuln.id
  \/ r.aliases /\ \E x \in m.related : x.id = r.vuln

ifPackageLocationApplies(r, m) ==
  \E l \in PathsOf[m.pkg] : <<r.loc, l.real>> \in PathMatches \/ <<r.loc, l.access>> \in PathMatches

Meets(f, r, m) ==
  CASE f = "vuln"  -> ifVulnerabilityApplies(r, m)
    [] f = "ns"    -> r.ns = m.vuln.ns
    [] f = "name"  -> <<r.name, NameOf[m.pkg]>> \in NameMatches
    [] f = "pkgs"  -> m.pkg \in r.pkgs
    [] f = "loc"   -> ifPackageLocationApplies(r, m)
    [] f = "state" -> r.state = StateOf[m.fix]
    [] f = "type"  -> hasMatchType(m.details, r.type)

(* IgnoreRule.IgnoreMatch; rules about a VEX status are left to VEX.       *)
RuleApplies(r, m) ==
  /\ r.vex = None
  /\ Criteria(r) # {}
  /\ \A f \in Criteria(r) : Meets(f, r, m)

HasConditions(r) == Criteria(r) = {}

(***************************************************************************)
(* The filters matchers return for advisories they found not to apply: by  *)
(* file ownership (distribution packages), or by name and the rest of the  *)
(* package's identity (language ecosystems).  An advisory is a reference   *)
(* and its aliases.                                                        *)
(***************************************************************************)
OwnershipIgnores(p, advisories) ==
  {[kind |-> "related", vuln |-> i, pkg |-> p] : i \in UNION {IDsOf(a) : a \in advisories}}

constructIgnoreFilters(p, advisories) ==
  {[NoRule EXCEPT !.vuln = i, !.aliases = TRUE, !.name = NameOf[p], !.pkgs = {p}] :
     i \in UNION {IDsOf(a) : a \in advisories}}

IgnoreRelatedPackage(f, m) == f.vuln \in IDsOf(m) /\ f.pkg \in OwnersOf[m.pkg]

FilterApplies(f, m) ==
  IF f.kind = "related" THEN IgnoreRelatedPackage(f, m) ELSE RuleApplies(f, m)

(* ignoredMatchFilter and ignoreRulesByIndex.IgnoreMatch: a filter is put  *)
(* under its location, else its name, else its vulnerability ID, else in   *)
(* the list every match is tried against; only what the match's own paths, *)
(* name and IDs look up is evaluated.                                      *)
LookedUp_PrimaryID(f, m) ==
  CASE f.kind = "rule" /\ f.loc \notin Globs \cup {None} -> \E l \in PathsOf[m.pkg] : l.real = f.loc
    [] f.kind = "rule" /\ f.loc \in Globs \cup {None} /\ f.name # None -> f.name = NameOf[m.pkg]
    [] f.kind = "rule" /\ f.loc \in Globs \cup {None} /\ f.name = None ->
         f.vuln # None /\ f.aliases => f.vuln = m.vuln.id
    [] f.kind = "related" -> f.vuln # None => f.vuln = m.vuln.id

LookedUp(f, m) ==
  CASE f.kind = "rule" /\ f.loc \notin Globs \cup {None} -> \E l \in PathsOf[m.pkg] : l.real = f.loc
    [] f.kind = "rule" /\ f.loc \in Globs \cup {None} /\ f.name # None -> f.name = NameOf[m.pkg]
    [] f.kind = "rule" /\ f.loc \in Globs \cup {None} /\ f.name = None ->
         f.vuln # None /\ f.aliases => f.vuln \in IDsOf(m)
    [] f.kind = "related" -> f.vuln # None => f.vuln \in IDsOf(m)

IndexIgnores(filters, m) == \E f \in filters : LookedUp(f, m) /\ FilterApplies(f, m)

(***************************************************************************)
(* ApplyIgnoreRules: the collections of what is kept, and what is ignored  *)
(* with the rules that applied.                                            *)
(***************************************************************************)
Kept(r, rules) == {m \in Stored(r) : \A x \in rules : ~RuleApplies(x, m)}

ApplyIgnoreRules(r, rules) == CollectSorted(Kept(r, rules))

IgnoredBy(r, rules) ==
  {[match |-> m, rules |-> {x \in rules : RuleApplies(x, m)}] : m \in Stored(r) \ Kept(r, rules)}

(***************************************************************************)
(* VEX.  A statement names a vulnerability by its ID and its aliases, a    *)
(* package (matched by its URL, alone or inside the scanned product), a    *)
(* status and, for products that are not affected, a justification.        *)
(***************************************************************************)
AugmentList == {"affected", "under_investigation"}

IgnoreList == {"fixed", "not_affected"}

(* matchesVexStatus: CSAF's statuses; OpenVEX uses the others as they are. *)
VexStatusOf(s) ==
  CASE s \in {"first_affected", "known_affected", "last_affected", "recommended"} -> "affected"
    [] s = "first_fixed" -> "fixed"
    [] s = "known_not_affected" -> "not_affected"
    [] OTHER -> s

(* extractVexRules: the rules with a VEX status, under namespace "vex".    *)
extractVexRules(rules) == {[r EXCEPT !.ns = "vex"] : r \in {x \in rules : x.vex # None}}

(* What a matching rule must say, beside its status, of vulnerability and  *)
(* justification, in openvex/implementation.go and csaf/implementation.go. *)
OpenVexRule(r, st) ==
  /\ ~(VexStatusOf(st.status) = "not_affected" /\ r.just # None /\ r.just # st.just)
  /\ r.vuln \in {None, st.vuln} \cup st.aliases

CsafRule(r, st) == r.vuln \in {None, st.vuln}

VexRuleMatches(r, m, st, allowed, format) ==
  /\ HasConditions(r) => RuleApplies([r EXCEPT !.vex = None], m)
  /\ r.vex = VexStatusOf(st.status)
  /\ r.vex \in allowed
  /\ IF format = "csaf" THEN CsafRule(r, st) ELSE OpenVexRule(r, st)

(* matchingRule: the rules of which one is returned; with no VEX rules at  *)
(* all, one made from the statement.                                       *)
matchingRule(rules, m, st, allowed, format) ==
  IF rules = {}
  THEN IF VexStatusOf(st.status) \in allowed
       THEN {[NoRule EXCEPT !.ns = "vex", !.vuln = st.vuln, !.just = st.just,
                            !.vex = VexStatusOf(st.status)]}
       ELSE {}
  ELSE {r \in rules : VexRuleMatches(r, m, st, allowed, format)}

=============================================================================
