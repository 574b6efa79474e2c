----------------------------- MODULE ScanProofs -----------------------------
(***************************************************************************)
(* Proofs about a scan, for any packages, matchers, outcomes, rules and    *)
(* documents: what filters, rules and VEX statements say is honoured in    *)
(* the end, no detail that a matcher returned is lost on the way, and a    *)
(* search that was cancelled is not reported in part.                      *)
(***************************************************************************)
EXTENDS Scan, MatchSetProofs

(***************************************************************************)
(* Rules and filters on matches derived from others.                       *)
(***************************************************************************)
(* The rules whose effect survives merging: those that do not ask for a    *)
(* match type and those that ask for nothing else.                         *)
Stable(r) == r.type = None \/ Criteria(r) = {"type"}

LEMMA SamePackageAndFix ==
  ASSUME NEW x, NEW y, Fingerprint(x) = Fingerprint(y), NEW r,
         NEW f \in {"ns", "name", "pkgs", "loc", "state"}, Meets(f, r, y)
  PROVE  Meets(f, r, x)
<1>1. x.vuln = y.vuln /\ x.pkg = y.pkg /\ x.fix = y.fix BY PrintCore
<1>2. CASE f = "ns" BY <1>1, <1>2 DEF Meets
<1>3. CASE f = "name" BY <1>1, <1>3 DEF Meets
<1>4. CASE f = "pkgs" BY <1>1, <1>4 DEF Meets
<1>5. CASE f = "loc" BY <1>1, <1>5 DEF Meets, ifPackageLocationApplies
<1>6. CASE f = "state" BY <1>1, <1>6 DEF Meets
<1> QED BY <1>2, <1>3, <1>4, <1>5, <1>6

LEMMA UntypedRule ==
  ASSUME NEW M, NEW y, Named(y, M), NEW r, r.type = None, RuleApplies(r, y)
  PROVE  \E x \in M : Fingerprint(x) = Fingerprint(y) /\ RuleApplies(r, x)
<1>1. Criteria(r) \subseteq {"vuln", "ns", "name", "pkgs", "loc", "state"}
  BY DEF Criteria
<1>2. ASSUME NEW x \in M, Fingerprint(x) = Fingerprint(y),
             "vuln" \in Criteria(r) => Meets("vuln", r, x)
      PROVE  RuleApplies(r, x)
  <2>1. ASSUME NEW f \in Criteria(r) PROVE Meets(f, r, x)
    <3>1. CASE f = "vuln" BY <3>1, <1>2
    <3>2. CASE f # "vuln"
      <4>1. Meets(f, r, y) BY DEF RuleApplies
      <4>2. f \in {"ns", "name", "pkgs", "loc", "state"} BY <3>2, <1>1
      <4> QED BY <4>1, <4>2, <1>2, SamePackageAndFix
    <3> QED BY <3>1, <3>2
  <2> QED BY <2>1 DEF RuleApplies
<1>3. PICK b \in M : Fingerprint(b) = Fingerprint(y) BY DEF Named
<1>4. CASE "vuln" \notin Criteria(r) BY <1>2, <1>3, <1>4
<1>5. CASE "vuln" \in Criteria(r)
  <2>1. ifVulnerabilityApplies(r, y) BY <1>5 DEF RuleApplies, Meets
  <2>2. CASE r.vuln = y.vuln.id
    <3>1. Meets("vuln", r, b) BY <2>2, <1>3, PrintCore DEF Meets, ifVulnerabilityApplies
    <3> QED BY <3>1, <1>2, <1>3
  <2>3. CASE r.aliases /\ \E ref \in y.related : ref.id = r.vuln
    <3>1. PICK ref \in y.related : ref.id = r.vuln BY <2>3
    <3>2. PICK x \in M : Fingerprint(x) = Fingerprint(y) /\ ref \in x.related BY DEF Named
    <3>3. Meets("vuln", r, x) BY <2>3, <3>1, <3>2 DEF Meets, ifVulnerabilityApplies
    <3> QED BY <3>2, <3>3, <1>2
  <2> QED BY <2>1, <2>2, <2>3 DEF ifVulnerabilityApplies
<1> QED BY <1>4, <1>5

LEMMA StableRule ==
  ASSUME NEW M, NEW y, Derived(y, M), NEW r, Stable(r), RuleApplies(r, y)
  PROVE  \E x \in M : RuleApplies(r, x)
<1>1. CASE r.type = None BY <1>1, UntypedRule DEF Derived
<1>2. CASE Criteria(r) = {"type"}
  <2>1. hasMatchType(y.details, r.type) BY <1>2 DEF RuleApplies, Meets
  <2>2. PICK d \in y.details : d.type = r.type BY <2>1 DEF hasMatchType
  <2>3. PICK x \in M : d \in x.details BY DEF Derived, Named
  <2>4. Meets("type", r, x) BY <2>2, <2>3 DEF Meets, hasMatchType
  <2> QED BY <2>4, <1>2 DEF RuleApplies
<1> QED BY <1>1, <1>2 DEF Stable

LEMMA DerivedIDs ==
  ASSUME NEW M, NEW y, Derived(y, M), NEW i \in IDsOf(y)
  PROVE  \E x \in M : Fingerprint(x) = Fingerprint(y) /\ i \in IDsOf(x)
<1>1. CASE i = y.vuln.id
  <2>1. PICK x \in M : Fingerprint(x) = Fingerprint(y) BY DEF Derived, Named
  <2> QED BY <1>1, <2>1, PrintCore DEF IDsOf
<1>2. CASE \E ref \in y.related : i = ref.id
  <2>1. PICK ref \in y.related : i = ref.id BY <1>2
  <2>2. PICK x \in M : Fingerprint(x) = Fingerprint(y) /\ ref \in x.related BY DEF Derived, Named
  <2> QED BY <2>1, <2>2 DEF IDsOf
<1> QED BY <1>1, <1>2 DEF IDsOf

(* The filters that matchers return ask for no match type.                 *)
Plain(f) == f.kind = "related" \/ f.type = None

LEMMA PlainFilter ==
  ASSUME NEW M, NEW y, Derived(y, M), NEW f, Plain(f), FilterApplies(f, y)
  PROVE  \E x \in M : Fingerprint(x) = Fingerprint(y) /\ FilterApplies(f, x)
<1>1. CASE f.kind = "related"
  <2>1. f.vuln \in IDsOf(y) /\ f.pkg \in OwnersOf[y.pkg]
    BY <1>1 DEF FilterApplies, IgnoreRelatedPackage
  <2>2. PICK x \in M : Fingerprint(x) = Fingerprint(y) /\ f.vuln \in IDsOf(x) BY <2>1, DerivedIDs
  <2> QED BY <1>1, <2>1, <2>2, PrintCore DEF FilterApplies, IgnoreRelatedPackage
<1>2. CASE f.kind # "related" BY <1>2, UntypedRule DEF FilterApplies, Plain, Derived
<1> QED BY <1>1, <1>2

(***************************************************************************)
(* The shape of the state.                                                 *)
(***************************************************************************)
Stages == {"search", "rules", "normalize", "vex", "severity", "done"}

Aside == {x.match : x \in ignored}

All == Stored(res) \cup Aside

TypeOK ==
  /\ opt \in Options /\ pc \in Stages
  /\ call \in 0..Len(Calls)
  /\ found \in Seq(Match) /\ returned \subseteq Match
  /\ Good(res)
  /\ \A x \in ignored : DOMAIN x = {"match", "rules"} /\ x.match \in Match

(* What holds in each stage.                                               *)
StagesOK ==
  /\ pc = "search" => res = newMatches
  /\ pc \in {"search", "rules"} => ignored = {}
  /\ pc # "done" => err = "none"
  /\ pc = "normalize" => opt.byCVE

(* After a search that did not go through all packages there is nothing.   *)
NothingPartial ==
  pc # "search" /\ call # Len(Calls) /\ err # "fatal" =>
    cancelled /\ Stored(res) = {} /\ ignored = {}

(* What is found, reported and set aside comes from what was returned,     *)
(* until it is renamed.                                                    *)
Origins ==
  /\ \A m \in returned : m.rec = m.vuln
  /\ \A i \in DOMAIN found : Derived(found[i], returned)
  /\ pc \in {"search", "rules", "normalize"} => \A y \in All : Derived(y, returned)

ScanInv == TypeOK /\ StagesOK /\ NothingPartial /\ Origins

(***************************************************************************)
(* The effects of the actions on the collections.                          *)
(***************************************************************************)
LEMMA SelfMade ==
  ASSUME NEW r, Good(r)
  PROVE  MadeFrom(r, Stored(r))
  BY DerivedSelf DEF MadeFrom, Keeps

LEMMA SearchCallEffect ==
  ASSUME ScanInv, SearchCall
  PROVE  \E o \in Outcomes[call + 1] : \E r, x, s :
           /\ o.matches \subseteq Match
           /\ \A m \in o.matches : m.pkg = Calls[call + 1] /\ m.rec = m.vuln
           /\ MadeFrom(r, o.matches) /\ MadeFrom(x, Kept(r, Exclusions))
           /\ s \in Seq(Match) /\ {s[i] : i \in DOMAIN s} = Stored(x)
           /\ found' = found \o s
           /\ filters' = filters \cup FiltersOf(Calls[call + 1], o)
           /\ returned' = returned \cup o.matches
           /\ denied' = denied \cup {<<Calls[call + 1], a, o.way>> : a \in o.denied}
<1>0. call + 1 \in 1..Len(Calls) /\ call \in Nat
  BY ScanAssumption DEF SearchCall, ScanInv, TypeOK
<1>1. PICK o \in Outcomes[call + 1] :
        /\ \E r \in Collect(o.matches) : \E x \in ApplyIgnoreRules(r, Exclusions) :
             \E s \in Sorted(x) : found' = found \o s
        /\ filters' = filters \cup FiltersOf(Calls[call + 1], o)
        /\ returned' = returned \cup o.matches
        /\ denied' = denied \cup {<<Calls[call + 1], a, o.way>> : a \in o.denied}
  BY DEF SearchCall
<1>2. PICK r \in Collect(o.matches) : \E x \in ApplyIgnoreRules(r, Exclusions) :
             \E s \in Sorted(x) : found' = found \o s
  BY <1>1
<1>3. PICK x \in ApplyIgnoreRules(r, Exclusions) : \E s \in Sorted(x) : found' = found \o s
  BY <1>2
<1>4. PICK s \in Sorted(x) : found' = found \o s BY <1>3
<1>5. o.matches \subseteq Match /\ \A m \in o.matches : m.pkg = Calls[call + 1] /\ m.rec = m.vuln
  BY <1>0, ScanAssumption
<1>6. MadeFrom(r, o.matches) BY <1>5, CollectMade
<1>7. Kept(r, Exclusions) \in SUBSET Match BY <1>6, StoredMatches DEF MadeFrom, Kept
<1>8. MadeFrom(x, Kept(r, Exclusions)) BY <1>7, CollectMade DEF ApplyIgnoreRules
<1>9. s \in Seq(Match) /\ {s[i] : i \in DOMAIN s} = Stored(x)
  <2>1. s \in Orders(Stored(x)) BY DEF Sorted, SortedOrders
  <2>2. Stored(x) \subseteq Match BY <1>8, StoredMatches DEF MadeFrom
  <2> QED BY <2>1, <2>2, OrdersAre
<1> QED BY <1>1, <1>4, <1>5, <1>6, <1>8, <1>9

LEMMA SearchEndEffect ==
  ASSUME ScanInv, SearchEnd
  PROVE  MadeFrom(res', {m \in {found[i] : i \in DOMAIN found} : ~IndexIgnores(filters, m)})
<1> DEFINE out == {m \in ToSet(found) : IndexIgnores(filters, m)}
           N == {m \in {found[i] : i \in DOMAIN found} : ~IndexIgnores(filters, m)}
           new == {newMatches}
           none == {}
<1>1. found \in Seq(Match) BY DEF ScanInv, TypeOK
<1>2. res' \in AddAll(new, found, out) BY DEF SearchEnd
<1>3. Joined(N, none, found, out) BY DEF Joined, ToSet
<1>4. \A x \in new : MadeFrom(x, none) BY NewMade
<1> HIDE DEF out, N, new, none
<1>5. MadeFrom(res', N) BY <1>1, <1>2, <1>3, <1>4, AddAllMade
<1> QED BY <1>5 DEF N

(* The state after rules were applied to a collection: what is kept is     *)
(* made into a new one and the rest is set aside.                          *)
Applied(r, before) ==
  /\ MadeFrom(res', Kept(r, opt.rules))
  /\ Aside' = before \cup (Stored(r) \ Kept(r, opt.rules))
  /\ \A x \in ignored' : DOMAIN x = {"match", "rules"}

LEMMA IgnoredByIs ==
  ASSUME NEW r, NEW rules
  PROVE  /\ {x.match : x \in IgnoredBy(r, rules)} = Stored(r) \ Kept(r, rules)
         /\ \A x \in IgnoredBy(r, rules) : DOMAIN x = {"match", "rules"}
<1> DEFINE Out == Stored(r) \ Kept(r, rules)
           why(m) == {x \in rules : RuleApplies(x, m)}
<1>1. IgnoredBy(r, rules) = {[match |-> m, rules |-> why(m)] : m \in Out} BY DEF IgnoredBy
<1> HIDE DEF Out, why
<1>2. {x.match : x \in IgnoredBy(r, rules)} = Out
  <2>1. \A x \in IgnoredBy(r, rules) : x.match \in Out BY <1>1
  <2>2. ASSUME NEW m \in Out PROVE \E x \in IgnoredBy(r, rules) : x.match = m
    <3>1. [match |-> m, rules |-> why(m)] \in IgnoredBy(r, rules) BY <1>1
    <3>2. [match |-> m, rules |-> why(m)].match = m OBVIOUS
    <3> QED BY <3>1, <3>2
  <2> QED BY <2>1, <2>2
<1>3. \A x \in IgnoredBy(r, rules) : DOMAIN x = {"match", "rules"} BY <1>1
<1> QED BY <1>2, <1>3 DEF Out

LEMMA ApplyRulesEffect ==
  ASSUME ScanInv, ApplyRules
  PROVE  Applied(res, {})
<1>1. Good(res) /\ ignored = {} BY DEF ScanInv, TypeOK, StagesOK, ApplyRules
<1>2. Kept(res, opt.rules) \in SUBSET Match BY <1>1, StoredMatches DEF Kept
<1>3. CASE opt.rules = {}
  <2>1. Kept(res, opt.rules) = Stored(res) BY <1>3 DEF Kept
  <2>2. res' = res /\ ignored' = ignored BY <1>3 DEF ApplyRules
  <2> QED BY <2>1, <2>2, <1>1, SelfMade DEF Applied, Aside
<1>4. CASE opt.rules # {}
  <2>1. res' \in ApplyIgnoreRules(res, opt.rules) /\ ignored' = IgnoredBy(res, opt.rules)
    BY <1>4 DEF ApplyRules
  <2>2. MadeFrom(res', Kept(res, opt.rules)) BY <2>1, <1>2, CollectMade DEF ApplyIgnoreRules
  <2> QED BY <2>1, <2>2, IgnoredByIs DEF Applied, Aside
<1> QED BY <1>3, <1>4

(* normalizeByCVE changes the name, to a CVE among the related ones, and   *)
(* the related vulnerabilities, to the old name.                           *)
LEMMA Renamed ==
  ASSUME NEW m \in Match, NEW n \in normalizeByCVE(m)
  PROVE  /\ n \in Match
         /\ n.pkg = m.pkg /\ n.fix = m.fix /\ n.rec = m.rec /\ n.details = m.details
         /\ IDsOf(n) \subseteq IDsOf(m)
         /\ n.vuln = m.vuln \/ (IsCVE(n.vuln) /\ n.vuln \in m.related)
<1>1. CASE n = m BY <1>1
<1>2. CASE n # m
  <2>1. PICK ref \in m.related : IsCVE(ref) /\ n = [m EXCEPT !.vuln = ref, !.related = {m.vuln}]
    BY <1>2 DEF normalizeByCVE
  <2>2. m.vuln \in Refs /\ ref \in Refs BY DEF Match
  <2>3. n \in Match /\ n.vuln = ref /\ n.related = {m.vuln} BY <2>1, <2>2 DEF Match
  <2>4. n.pkg = m.pkg /\ n.fix = m.fix /\ n.rec = m.rec /\ n.details = m.details
    BY <2>1 DEF Match
  <2> QED BY <2>1, <2>3, <2>4 DEF IDsOf
<1> QED BY <1>1, <1>2

LEMMA RenamingsAre ==
  ASSUME NEW S \in SUBSET Match, NEW f \in Renamings(S)
  PROVE  DOMAIN f = S /\ \A y \in S : f[y] \in normalizeByCVE(y) /\ f[y] \in Match
<1>1. DOMAIN f = S /\ \A y \in S : f[y] \in normalizeByCVE(y) BY DEF Renamings
<1> QED BY <1>1, Renamed

LEMMA NormalizeEffect ==
  ASSUME ScanInv, Normalize
  PROVE  \E f \in Renamings(Stored(res)), g \in Renamings(Aside) : \E r :
           /\ MadeFrom(r, {f[y] : y \in Stored(res)})
           /\ Applied(r, {g[y] : y \in Aside})
<1>0. /\ Good(res) /\ Stored(res) \subseteq Match /\ Aside \subseteq Match
      /\ \A x \in ignored : DOMAIN x = {"match", "rules"} /\ x.match \in Match
  BY StoredMatches DEF ScanInv, TypeOK, Aside
<1>1. PICK f \in Renamings(Stored(res)), g \in Renamings(Aside) :
        \E s \in Orders(Stored(res)) : \E r \in NewMatches([i \in DOMAIN s |-> f[s[i]]]) :
          LET before == {[x EXCEPT !.match = g[x.match]] : x \in ignored} IN
          IF opt.rules = {}
          THEN res' = r /\ ignored' = before
          ELSE /\ res' \in ApplyIgnoreRules(r, opt.rules)
               /\ ignored' = before \cup IgnoredBy(r, opt.rules)
  BY DEF Normalize, Aside
<1> DEFINE before == {[x EXCEPT !.match = g[x.match]] : x \in ignored}
<1>2. PICK s \in Orders(Stored(res)) : \E r \in NewMatches([i \in DOMAIN s |-> f[s[i]]]) :
          IF opt.rules = {}
          THEN res' = r /\ ignored' = before
          ELSE /\ res' \in ApplyIgnoreRules(r, opt.rules)
               /\ ignored' = before \cup IgnoredBy(r, opt.rules)
  BY <1>1
<1> DEFINE t == [i \in DOMAIN s |-> f[s[i]]]
           N == {f[y] : y \in Stored(res)}
<1>3. PICK r \in NewMatches(t) :
          IF opt.rules = {}
          THEN res' = r /\ ignored' = before
          ELSE /\ res' \in ApplyIgnoreRules(r, opt.rules)
               /\ ignored' = before \cup IgnoredBy(r, opt.rules)
  BY <1>2
<1>4. /\ s \in Seq(Stored(res)) /\ {s[i] : i \in DOMAIN s} = Stored(res)
      /\ \A y \in Stored(res) : f[y] \in Match
  BY <1>0, OrdersAre, RenamingsAre
<1>5. t \in Seq(Match) /\ DOMAIN t = DOMAIN s /\ \A i \in DOMAIN s : t[i] = f[s[i]]
  BY <1>4
<1>6. Joined(N, {}, t, {})
  <2> HIDE DEF t
  <2> QED BY <1>4, <1>5 DEF Joined
<1>7. MadeFrom(r, N)
  <2> HIDE DEF t, N
  <2> QED BY <1>3, <1>5, <1>6, NewMatchesMade
<1>8. {x.match : x \in before} = {g[y] : y \in Aside} /\ \A x \in before : DOMAIN x = {"match", "rules"}
  <2>1. \A x \in ignored : /\ [x EXCEPT !.match = g[x.match]].match = g[x.match]
                           /\ DOMAIN [x EXCEPT !.match = g[x.match]] = {"match", "rules"}
    BY <1>0
  <2>2. \A z \in before : z.match \in {g[y] : y \in Aside} /\ DOMAIN z = {"match", "rules"}
    BY <2>1 DEF Aside
  <2>3. ASSUME NEW y \in Aside PROVE \E z \in before : z.match = g[y]
    <3>1. PICK x \in ignored : y = x.match BY DEF Aside
    <3>2. [x EXCEPT !.match = g[x.match]] \in before OBVIOUS
    <3> QED BY <2>1, <3>1, <3>2
  <2> HIDE DEF before
  <2> QED BY <2>2, <2>3
<1>9. Applied(r, {g[y] : y \in Aside})
  <2>0. Good(r) BY <1>7 DEF MadeFrom
  <2>1. CASE opt.rules = {}
    <3>1. Kept(r, opt.rules) = Stored(r) BY <2>1 DEF Kept
    <3>2. res' = r /\ ignored' = before BY <2>1, <1>3
    <3> HIDE DEF before
    <3> QED BY <3>1, <3>2, <2>0, <1>8, SelfMade DEF Applied, Aside
  <2>2. CASE opt.rules # {}
    <3>1. res' \in ApplyIgnoreRules(r, opt.rules) /\ ignored' = before \cup IgnoredBy(r, opt.rules)
      BY <2>2, <1>3
    <3>2. Kept(r, opt.rules) \in SUBSET Match BY <2>0, StoredMatches DEF Kept
    <3>3. MadeFrom(res', Kept(r, opt.rules)) BY <3>1, <3>2, CollectMade DEF ApplyIgnoreRules
    <3>4. Aside' = {x.match : x \in before} \cup {x.match : x \in IgnoredBy(r, opt.rules)}
      <4> HIDE DEF before
      <4> QED BY <3>1 DEF Aside
    <3> HIDE DEF before
    <3> QED BY <3>1, <3>3, <3>4, <1>8, IgnoredByIs DEF Applied
  <2> QED BY <2>1, <2>2
<1> QED BY <1>7, <1>9

LEMMA AugmentedIs ==
  ASSUME NEW m \in Match
  PROVE  /\ Augmented(m) \in Match /\ Fingerprint(Augmented(m)) = Fingerprint(m)
         /\ Augmented(m).rec = m.rec /\ Augmented(m).related = m.related
         /\ m.details \subseteq Augmented(m).details
<1>1. [type |-> "exact-direct-match", id |-> "vex"] \in Detail
  BY ScanAssumption DEF Detail, Types
<1> DEFINE ds == m.details \cup {[type |-> "exact-direct-match", id |-> "vex"]}
<1>2. ds \in SUBSET Detail BY <1>1 DEF Match
<1>3. Augmented(m) = [m EXCEPT !.details = ds] BY DEF Augmented
<1>4. m.details \subseteq ds OBVIOUS
<1> HIDE DEF ds
<1> QED BY <1>2, <1>3, <1>4 DEF Match, Fingerprint

LEMMA ApplyVEXEffect ==
  ASSUME ScanInv, ApplyVEX
  PROVE  \E f \in Lookups(Stored(res)) : \E out, g, back :
           /\ out = {m \in DOMAIN f : FilterRules(m, f[m]) # {}}
           /\ g \in Lookups(Aside \cup out)
           /\ back = {m \in DOMAIN g : AugmentRules(m, g[m]) # {}}
           /\ MadeFrom(res', (Stored(res) \ out) \cup {Augmented(m) : m \in back})
           /\ Aside' = (Aside \cup out) \ back
           /\ \A x \in ignored' : DOMAIN x = {"match", "rules"}
<1>0. /\ Good(res) /\ Stored(res) \subseteq Match
      /\ \A x \in ignored : DOMAIN x = {"match", "rules"} /\ x.match \in Match
  BY StoredMatches DEF ScanInv, TypeOK
<1>1. PICK f \in Lookups(Stored(res)) :
        LET out == {m \in DOMAIN f : FilterRules(m, f[m]) # {}}
            all == ignored \cup {FilteredBy(m, f[m]) : m \in out}
        IN \E g \in Lookups({x.match : x \in all}) :
             LET back == {x \in all : x.match \in DOMAIN g /\ AugmentRules(x.match, g[x.match]) # {}}
             IN /\ \E r \in CollectSorted(Stored(res) \ out) :
                     \E s \in Orders({Augmented(x.match) : x \in back}) : res' \in AddAll({r}, s, {})
                /\ ignored' = all \ back
  BY DEF ApplyVEX
<1> DEFINE out == {m \in DOMAIN f : FilterRules(m, f[m]) # {}}
           all == ignored \cup {FilteredBy(m, f[m]) : m \in out}
<1>2. PICK g \in Lookups({x.match : x \in all}) :
             LET back == {x \in all : x.match \in DOMAIN g /\ AugmentRules(x.match, g[x.match]) # {}}
             IN /\ \E r \in CollectSorted(Stored(res) \ out) :
                     \E s \in Orders({Augmented(x.match) : x \in back}) : res' \in AddAll({r}, s, {})
                /\ ignored' = all \ back
  BY <1>1
<1> DEFINE back == {x \in all : x.match \in DOMAIN g /\ AugmentRules(x.match, g[x.match]) # {}}
           B == {m \in DOMAIN g : AugmentRules(m, g[m]) # {}}
<1>3. PICK r \in CollectSorted(Stored(res) \ out),
           s \in Orders({Augmented(x.match) : x \in back}) : res' \in AddAll({r}, s, {})
  BY <1>2
<1>4. ignored' = all \ back BY <1>2
<1>5. out \subseteq Stored(res) BY DEF Lookups
<1>6. \A m \in out : FilteredBy(m, f[m]).match = m /\ DOMAIN FilteredBy(m, f[m]) = {"match", "rules"}
  BY DEF FilteredBy
<1>7. {x.match : x \in all} = Aside \cup out
  <2>1. \A x \in all : x.match \in Aside \cup out BY <1>6 DEF Aside
  <2>2. \A m \in Aside \cup out : \E x \in all : x.match = m BY <1>6 DEF Aside
  <2> QED BY <2>1, <2>2
<1>8. \A x \in all : DOMAIN x = {"match", "rules"} /\ x.match \in Match BY <1>0, <1>5, <1>6
<1> HIDE DEF out, all
<1>9. {x.match : x \in back} = B
  <2>1. DOMAIN g \subseteq {x.match : x \in all} BY DEF Lookups
  <2>2. \A x \in back : x.match \in B OBVIOUS
  <2>3. \A m \in B : \E x \in back : x.match = m BY <2>1
  <2> QED BY <2>2, <2>3
<1>10. Aside' = (Aside \cup out) \ B
  <2>1. \A x \in all : x \in back <=> x.match \in B BY <1>9
  <2>2. Aside' = {x.match : x \in all \ back} BY <1>4 DEF Aside
  <2>3. \A x \in all \ back : x.match \in (Aside \cup out) \ B BY <1>7, <2>1
  <2>4. \A m \in (Aside \cup out) \ B : \E x \in all \ back : x.match = m BY <1>7, <2>1
  <2> HIDE DEF back, B
  <2> QED BY <2>2, <2>3, <2>4
<1>11. {Augmented(x.match) : x \in back} = {Augmented(m) : m \in B}
  <2> HIDE DEF back, B
  <2> QED BY <1>9
<1> DEFINE A == {Augmented(m) : m \in B}
           N == (Stored(res) \ out) \cup A
           rs == {r}
           none == {}
<1>12. B \subseteq Match BY <1>8, <1>9
<1>13. A \subseteq Match
  <2> HIDE DEF B
  <2> QED BY <1>12, AugmentedIs
<1>14. s \in Seq(Match) /\ {s[i] : i \in DOMAIN s} = A
  <2> HIDE DEF B, A, back
  <2>1. s \in Orders(A) BY <1>11 DEF A
  <2> QED BY <2>1, <1>13, OrdersAre
<1>15. \A x \in rs : MadeFrom(x, Stored(res) \ out) BY <1>0, CollectMade
<1>16. Joined(N, Stored(res) \ out, s, none) BY <1>14 DEF Joined
<1>17. MadeFrom(res', N)
  <2>1. res' \in AddAll(rs, s, none) BY <1>3
  <2> HIDE DEF N, rs, none, A
  <2> QED BY <2>1, <1>14, <1>15, <1>16, AddAllMade
<1>18. \A x \in ignored' : DOMAIN x = {"match", "rules"} BY <1>4, <1>8
<1>19. g \in Lookups(Aside \cup out) BY <1>7
<1> QED BY <1>10, <1>17, <1>18, <1>19 DEF out

(***************************************************************************)
(* ScanInv is inductive.                                                   *)
(***************************************************************************)
LEMMA EmptyMade ==
  ASSUME NEW r, MadeFrom(r, {})
  PROVE  Stored(r) = {}
  BY DEF MadeFrom, Derived, Named

(* After rules were applied, everything reported or set aside is of the    *)
(* collection they were applied to, or was set aside before.               *)
LEMMA AppliedIs ==
  ASSUME NEW r, NEW before \in SUBSET Match, Good(r), Applied(r, before)
  PROVE  /\ Good(res')
         /\ \A x \in ignored' : DOMAIN x = {"match", "rules"} /\ x.match \in Match
         /\ \A y \in Stored(res') : Derived(y, Kept(r, opt.rules))
         /\ \A y \in All' : Derived(y, Stored(r) \cup before)
         /\ Keeps(All', Stored(r) \cup before)
         /\ Stored(r) = {} /\ before = {} => Stored(res') = {} /\ ignored' = {}
<1> DEFINE K == Kept(r, opt.rules)
           M == Stored(r) \cup before
<1>1. K \subseteq Stored(r) /\ Stored(r) \subseteq Match BY StoredMatches DEF Kept
<1>2. /\ Good(res') /\ \A y \in Stored(res') : Derived(y, K)
      /\ Keeps(Stored(res'), K) /\ Aside' = before \cup (Stored(r) \ K)
      /\ \A x \in ignored' : DOMAIN x = {"match", "rules"}
  BY DEF Applied, MadeFrom
<1>3. \A x \in ignored' : x.match \in Aside' BY DEF Aside
<1>4. \A x \in ignored' : x.match \in Match BY <1>1, <1>2, <1>3
<1> HIDE DEF K
<1>5. \A y \in Stored(res') \cup Aside' : Derived(y, M)
  <2>1. \A y \in Stored(res') : Derived(y, M) BY <1>1, <1>2, DerivedMore
  <2>2. \A y \in Aside' : Derived(y, M) BY <1>2, DerivedSelf
  <2> QED BY <2>1, <2>2
<1>6. Keeps(Stored(res') \cup Aside', M) BY <1>1, <1>2 DEF Keeps
<1>7. ASSUME Stored(r) = {}, before = {} PROVE Stored(res') = {} /\ ignored' = {}
  <2>1. K = {} /\ Aside' = {} BY <1>1, <1>2, <1>7
  <2> QED BY <2>1, <1>2, <1>3 DEF Derived, Named
<1>8. All' = Stored(res') \cup Aside' BY DEF All, Stored
<1> QED BY <1>2, <1>4, <1>5, <1>6, <1>7, <1>8 DEF K

LEMMA SearchCallInv ==
  ASSUME ScanInv, SearchCall
  PROVE  ScanInv'
<1>0. /\ pc' = pc /\ opt' = opt /\ res' = res /\ ignored' = ignored /\ err' = err
      /\ pc = "search" /\ call' = call + 1 /\ call < Len(Calls) /\ ScanInv
  BY DEF SearchCall
<1>1. PICK o \in Outcomes[call + 1] : \E r, x, s :
           /\ o.matches \subseteq Match
           /\ \A m \in o.matches : m.pkg = Calls[call + 1] /\ m.rec = m.vuln
           /\ MadeFrom(r, o.matches) /\ MadeFrom(x, Kept(r, Exclusions))
           /\ s \in Seq(Match) /\ {s[i] : i \in DOMAIN s} = Stored(x)
           /\ found' = found \o s
           /\ returned' = returned \cup o.matches
  BY SearchCallEffect
<1>2. PICK r, x, s :
           /\ o.matches \subseteq Match
           /\ \A m \in o.matches : m.pkg = Calls[call + 1] /\ m.rec = m.vuln
           /\ MadeFrom(r, o.matches) /\ MadeFrom(x, Kept(r, Exclusions))
           /\ s \in Seq(Match) /\ {s[i] : i \in DOMAIN s} = Stored(x)
           /\ found' = found \o s
           /\ returned' = returned \cup o.matches
  BY <1>1
<1>3. Len(Calls) \in Nat BY ScanAssumption
<1>4. TypeOK'
  <2>1. call' \in 0..Len(Calls) BY <1>0, <1>3 DEF ScanInv, TypeOK
  <2>2. found' \in Seq(Match) BY <1>2 DEF ScanInv, TypeOK
  <2>3. returned' \subseteq Match BY <1>2 DEF ScanInv, TypeOK
  <2> QED BY <2>1, <2>2, <2>3, <1>0 DEF ScanInv, TypeOK
<1>5. StagesOK' /\ NothingPartial' BY <1>0 DEF ScanInv, StagesOK, NothingPartial
<1>6. Origins'
  <2>0. \A m \in returned' : m.rec = m.vuln BY <1>2 DEF ScanInv, Origins
  <2>1. \A z \in Stored(x) : Derived(z, returned')
    <3>1. Kept(r, Exclusions) \subseteq Stored(r) BY DEF Kept
    <3>2. \A z \in Kept(r, Exclusions) : Derived(z, o.matches) BY <3>1, <1>2 DEF MadeFrom
    <3>3. \A z \in Stored(x) : Derived(z, o.matches) BY <3>2, <1>2, DerivedTrans DEF MadeFrom
    <3> QED BY <3>3, <1>2, DerivedMore
  <2>2. \A i \in DOMAIN found : Derived(found[i], returned') BY <1>2, DerivedMore DEF ScanInv, Origins
  <2>3. ASSUME NEW i \in DOMAIN found' PROVE Derived(found'[i], returned')
    <3>1. found \in Seq(Match) BY DEF ScanInv, TypeOK
    <3>2. \/ i \in DOMAIN found /\ found'[i] = found[i]
          \/ \E j \in DOMAIN s : found'[i] = s[j]
      <4>1. /\ DOMAIN found' = 1..(Len(found) + Len(s)) /\ DOMAIN found = 1..Len(found)
            /\ DOMAIN s = 1..Len(s) /\ Len(found) \in Nat /\ Len(s) \in Nat
        BY <3>1, <1>2
      <4>2. CASE i <= Len(found) BY <4>1, <4>2, <3>1, <1>2
      <4>3. CASE i > Len(found)
        <5>1. i - Len(found) \in DOMAIN s /\ found'[i] = s[i - Len(found)] BY <4>1, <4>3, <3>1, <1>2
        <5> QED BY <5>1
      <4> QED BY <4>1, <4>2, <4>3
    <3> QED BY <3>2, <2>1, <2>2, <1>2
  <2>4. All' = All BY <1>0 DEF All, Aside
  <2>5. All = {} BY <1>0, NewGood DEF ScanInv, StagesOK, All, Aside
  <2> QED BY <2>0, <2>3, <2>4, <2>5 DEF Origins
<1> QED BY <1>4, <1>5, <1>6 DEF ScanInv

LEMMA SearchEndInv ==
  ASSUME ScanInv, SearchEnd
  PROVE  ScanInv'
<1>0. /\ pc' = "rules" /\ opt' = opt /\ ignored' = ignored /\ err' = err /\ found' = found
      /\ pc = "search" /\ call' = call /\ call = Len(Calls) /\ returned' = returned
  BY DEF SearchEnd, history
<1> DEFINE N == {m \in {found[i] : i \in DOMAIN found} : ~IndexIgnores(filters, m)}
<1>1. MadeFrom(res', N) BY SearchEndEffect
<1>2. \A y \in N : Derived(y, returned) BY DEF ScanInv, Origins
<1> HIDE DEF N
<1>3. Good(res') /\ \A y \in Stored(res') : Derived(y, returned)
  BY <1>1, <1>2, DerivedTrans DEF MadeFrom
<1>4. TypeOK' BY <1>0, <1>3 DEF ScanInv, TypeOK, Stages
<1>5. StagesOK' /\ NothingPartial' BY <1>0 DEF ScanInv, StagesOK, NothingPartial
<1>6. All' = Stored(res') BY <1>0 DEF All, Aside, Stored, ScanInv, StagesOK
<1>7. Origins' BY <1>0, <1>3, <1>6 DEF ScanInv, Origins
<1> QED BY <1>4, <1>5, <1>7 DEF ScanInv

LEMMA ApplyRulesInv ==
  ASSUME ScanInv, ApplyRules
  PROVE  ScanInv'
<1>0. /\ pc' = (IF opt.byCVE THEN "normalize" ELSE "vex") /\ opt' = opt /\ err' = err
      /\ pc = "rules" /\ call' = call /\ found' = found /\ returned' = returned
      /\ cancelled' = cancelled
  BY DEF ApplyRules, history
<1> DEFINE none == {}
<1>1. Good(res) /\ Applied(res, none) /\ none \in SUBSET Match
  BY ApplyRulesEffect DEF ScanInv, TypeOK
<1>2. /\ Good(res')
      /\ \A x \in ignored' : DOMAIN x = {"match", "rules"} /\ x.match \in Match
      /\ \A y \in All' : Derived(y, Stored(res) \cup none)
      /\ Stored(res) = {} /\ none = {} => Stored(res') = {} /\ ignored' = {}
  <2> HIDE DEF none
  <2> QED BY <1>1, AppliedIs
<1>3. TypeOK' BY <1>0, <1>2 DEF ScanInv, TypeOK, Stages
<1>4. StagesOK' BY <1>0 DEF ScanInv, StagesOK
<1>5. NothingPartial' BY <1>0, <1>2 DEF ScanInv, NothingPartial
<1>6. \A y \in Stored(res) \cup none : Derived(y, returned) BY <1>0 DEF ScanInv, Origins, All
<1>7. Origins'
  <2> HIDE DEF none
  <2> QED BY <1>0, <1>2, <1>6, DerivedTrans DEF ScanInv, Origins
<1> QED BY <1>3, <1>4, <1>5, <1>7 DEF ScanInv

LEMMA NormalizeInv ==
  ASSUME ScanInv, Normalize
  PROVE  ScanInv'
<1>0. /\ pc' = "vex" /\ opt' = opt /\ err' = err /\ pc = "normalize"
      /\ call' = call /\ found' = found /\ returned' = returned /\ cancelled' = cancelled
  BY DEF Normalize, history
<1>1. PICK f \in Renamings(Stored(res)), g \in Renamings(Aside) : \E r :
           /\ MadeFrom(r, {f[y] : y \in Stored(res)})
           /\ Applied(r, {g[y] : y \in Aside})
  BY NormalizeEffect
<1>2. PICK r : /\ MadeFrom(r, {f[y] : y \in Stored(res)})
               /\ Applied(r, {g[y] : y \in Aside})
  BY <1>1
<1> DEFINE before == {g[y] : y \in Aside}
<1>3. before \in SUBSET Match
  BY RenamingsAre DEF ScanInv, TypeOK, Aside
<1>4. Good(r) /\ Applied(r, before) BY <1>2 DEF MadeFrom
<1>5. Stored(res) = {} /\ ignored = {} => Stored(r) = {} /\ before = {}
  BY <1>2, EmptyMade DEF Aside
<1>6. /\ Good(res')
      /\ \A x \in ignored' : DOMAIN x = {"match", "rules"} /\ x.match \in Match
      /\ Stored(r) = {} /\ before = {} => Stored(res') = {} /\ ignored' = {}
  <2> HIDE DEF before
  <2> QED BY <1>3, <1>4, AppliedIs
<1>7. TypeOK' BY <1>0, <1>6 DEF ScanInv, TypeOK, Stages
<1>8. StagesOK' BY <1>0 DEF ScanInv, StagesOK
<1>9. NothingPartial' BY <1>0, <1>5, <1>6 DEF ScanInv, NothingPartial
<1>10. Origins' BY <1>0 DEF ScanInv, Origins
<1> QED BY <1>7, <1>8, <1>9, <1>10 DEF ScanInv

LEMMA ApplyVEXInv ==
  ASSUME ScanInv, ApplyVEX
  PROVE  ScanInv'
<1>0. /\ pc' = "severity" /\ opt' = opt /\ err' = err /\ pc = "vex"
      /\ call' = call /\ found' = found /\ returned' = returned /\ cancelled' = cancelled
  BY DEF ApplyVEX, history
<1>1. PICK f \in Lookups(Stored(res)) : \E out, g, back :
           /\ out = {m \in DOMAIN f : FilterRules(m, f[m]) # {}}
           /\ g \in Lookups(Aside \cup out)
           /\ back = {m \in DOMAIN g : AugmentRules(m, g[m]) # {}}
           /\ MadeFrom(res', (Stored(res) \ out) \cup {Augmented(m) : m \in back})
           /\ Aside' = (Aside \cup out) \ back
           /\ \A x \in ignored' : DOMAIN x = {"match", "rules"}
  BY ApplyVEXEffect
<1>2. PICK out, g, back :
           /\ out = {m \in DOMAIN f : FilterRules(m, f[m]) # {}}
           /\ g \in Lookups(Aside \cup out)
           /\ back = {m \in DOMAIN g : AugmentRules(m, g[m]) # {}}
           /\ MadeFrom(res', (Stored(res) \ out) \cup {Augmented(m) : m \in back})
           /\ Aside' = (Aside \cup out) \ back
           /\ \A x \in ignored' : DOMAIN x = {"match", "rules"}
  BY <1>1
<1>3. out \subseteq Stored(res) /\ back \subseteq Aside \cup out BY <1>2 DEF Lookups
<1>4. Good(res') BY <1>2 DEF MadeFrom
<1>5. \A x \in ignored' : x.match \in Aside' BY DEF Aside
<1>6. Aside \subseteq Match /\ Stored(res) \subseteq Match
  BY StoredMatches DEF ScanInv, TypeOK, Aside
<1>7. TypeOK' BY <1>0, <1>2, <1>3, <1>4, <1>5, <1>6 DEF ScanInv, TypeOK, Stages
<1>8. StagesOK' BY <1>0 DEF ScanInv, StagesOK
<1>9. NothingPartial'
  <2> SUFFICES ASSUME call # Len(Calls), err # "fatal"
               PROVE  cancelled /\ Stored(res') = {} /\ ignored' = {}
    BY <1>0 DEF NothingPartial, Stored
  <2>1. cancelled /\ Stored(res) = {} /\ ignored = {} BY <1>0 DEF ScanInv, NothingPartial
  <2>2. out = {} /\ back = {} BY <2>1, <1>3 DEF Aside
  <2>3. Aside' = {} BY <2>1, <2>2, <1>2 DEF Aside
  <2>4. (Stored(res) \ out) \cup {Augmented(m) : m \in back} = {} BY <2>1, <2>2
  <2> QED BY <2>1, <2>3, <2>4, <1>2, <1>5, EmptyMade
<1>10. Origins' BY <1>0 DEF ScanInv, Origins
<1> QED BY <1>7, <1>8, <1>9, <1>10 DEF ScanInv

(* The actions that leave the collections alone.                           *)
LEMMA OthersInv ==
  ASSUME ScanInv, Cancel \/ SearchFatal \/ NoVEX \/ VEXFails \/ Severity \/ UNCHANGED vars
  PROVE  ScanInv'
<1>0. /\ res' = res /\ ignored' = ignored /\ All' = All /\ found' = found /\ returned' = returned
      /\ opt' = opt /\ call' = call
  BY DEF Cancel, SearchFatal, NoVEX, VEXFails, Severity, vars, history, All, Aside
<1>1. pc' = pc \/ pc' = "severity" \/ pc' = "done"
  BY DEF Cancel, SearchFatal, NoVEX, VEXFails, Severity, vars, Fail
<1>2. TypeOK' BY <1>0, <1>1 DEF ScanInv, TypeOK, Stages
<1>3. StagesOK' /\ NothingPartial'
  BY <1>0 DEF Cancel, SearchFatal, NoVEX, VEXFails, Severity, vars, Fail,
              ScanInv, StagesOK, NothingPartial
<1>4. Origins' BY <1>0, <1>1 DEF ScanInv, Origins
<1> QED BY <1>2, <1>3, <1>4 DEF ScanInv

LEMMA SearchCancelledInv ==
  ASSUME ScanInv, SearchCancelled
  PROVE  ScanInv'
<1>0. /\ res' = newMatches /\ ignored' = ignored /\ found' = found /\ returned' = returned
      /\ opt' = opt /\ call' = call /\ pc = "search" /\ pc' = "rules" /\ cancelled /\ cancelled' = cancelled
      /\ err' = err
  BY DEF SearchCancelled, history
<1>1. TypeOK' BY <1>0, NewGood DEF ScanInv, TypeOK, Stages
<1>2. StagesOK' BY <1>0 DEF ScanInv, StagesOK
<1>3. NothingPartial' BY <1>0, NewGood DEF ScanInv, StagesOK, NothingPartial
<1>4. All' = {} BY <1>0, NewGood DEF ScanInv, StagesOK, All, Aside
<1>5. Origins' BY <1>0, <1>4 DEF ScanInv, Origins
<1> QED BY <1>1, <1>2, <1>3, <1>5 DEF ScanInv

(* The collections of a scan stay typed and indexed through all its        *)
(* stages; what they hold comes from what matchers returned; and after a   *)
(* search that was cut short there is nothing in them.                     *)
THEOREM ScanInvariant == Spec => []ScanInv
<1>1. Init => ScanInv
  <2> SUFFICES ASSUME Init PROVE ScanInv OBVIOUS
  <2>1. TypeOK /\ StagesOK /\ NothingPartial
    BY NewGood, ScanAssumption DEF Init, TypeOK, Stages, StagesOK, NothingPartial
  <2>2. Origins BY NewGood DEF Init, Origins, All, Aside
  <2> QED BY <2>1, <2>2 DEF ScanInv
<1>2. ScanInv /\ [Next]_vars => ScanInv'
  BY SearchCallInv, SearchEndInv, ApplyRulesInv, NormalizeInv, ApplyVEXInv, SearchCancelledInv,
     OthersInv DEF Next
<1> QED BY <1>1, <1>2, PTL DEF Spec

(* A cancelled scan that goes on neither reports nor ignores anything.     *)
THEOREM NothingReportedInPart == Spec => []PartialNotReported
<1>1. ScanInv => PartialNotReported
  BY DEF ScanInv, NothingPartial, PartialNotReported, Finished, Searched
<1> QED BY <1>1, ScanInvariant, PTL

(***************************************************************************)
(* What a distribution's or a language's data denies.                      *)
(***************************************************************************)
(* The name of a package, taken as the name in a rule, matches itself.     *)
(* The code takes a name with characters of a regular expression for one,  *)
(* and it then need not match the name it is written as.                   *)
PlainNames == \A p \in Pkgs : NameOf[p] # None /\ <<NameOf[p], NameOf[p]>> \in NameMatches

Concerns(n, m) ==
  \/ n[3] = "ownership" /\ n[1] \in OwnersOf[m.pkg]
  \/ n[3] = "name" /\ n[1] = m.pkg

Undenied(m) == \A n \in denied : Concerns(n, m) => IDsOf(m) \cap IDsOf(n[2]) = {}

OwnerFilter(p, i) == [kind |-> "related", vuln |-> i, pkg |-> p]

NameFilter(p, i) == [NoRule EXCEPT !.vuln = i, !.aliases = TRUE, !.name = NameOf[p], !.pkgs = {p}]

(* The filters hold what was denied, and ask for no match type.            *)
FiltersHold ==
  /\ \A f \in filters : Plain(f)
  /\ \A n \in denied : \A i \in IDsOf(n[2]) :
       /\ n[1] \in Pkgs
       /\ n[3] = "ownership" => OwnerFilter(n[1], i) \in filters
       /\ n[3] = "name" => NameFilter(n[1], i) \in filters

NegativesInv == FiltersHold /\ (pc # "search" => \A y \in All : Undenied(y))

LEMMA NameFilterIs ==
  ASSUME NEW p, NEW i
  PROVE  LET f == NameFilter(p, i)
         IN /\ f.kind = "rule" /\ f.vuln = i /\ f.aliases /\ f.name = NameOf[p] /\ p \in f.pkgs
            /\ f.ns = None /\ f.loc = None /\ f.state = None /\ f.type = None /\ f.vex = None
  BY DEF NameFilter, NoRule

LEMMA FiltersOfIs ==
  ASSUME NEW p, NEW o
  PROVE  /\ \A f \in FiltersOf(p, o) : Plain(f)
         /\ \A a \in o.denied : \A i \in IDsOf(a) :
              /\ o.way = "ownership" => OwnerFilter(p, i) \in FiltersOf(p, o)
              /\ o.way = "name" => NameFilter(p, i) \in FiltersOf(p, o)
<1> DEFINE ids == UNION {IDsOf(a) : a \in o.denied}
<1>1. CASE o.way = "ownership"
  <2>1. FiltersOf(p, o) = {OwnerFilter(p, i) : i \in ids}
    BY <1>1 DEF FiltersOf, OwnershipIgnores, OwnerFilter
  <2>2. \A i : OwnerFilter(p, i).kind = "related" BY DEF OwnerFilter
  <2> QED BY <2>1, <2>2, <1>1 DEF Plain
<1>2. CASE o.way # "ownership"
  <2>1. FiltersOf(p, o) = {NameFilter(p, i) : i \in ids}
    BY <1>2 DEF FiltersOf, constructIgnoreFilters, NameFilter
  <2>2. \A i : NameFilter(p, i).type = None BY DEF NameFilter, NoRule
  <2> QED BY <2>1, <2>2, <1>2 DEF Plain
<1> QED BY <1>1, <1>2

(* A match that passes the index over the filters is not denied.           *)
LEMMA PassedUndenied ==
  ASSUME PlainNames, FiltersHold, NEW m \in Match, ~IndexIgnores(filters, m)
  PROVE  Undenied(m)
<1> SUFFICES ASSUME NEW n \in denied, Concerns(n, m), NEW i \in IDsOf(m), i \in IDsOf(n[2])
             PROVE  FALSE
  BY DEF Undenied
<1>1. CASE n[3] = "ownership" /\ n[1] \in OwnersOf[m.pkg]
  <2> DEFINE f == OwnerFilter(n[1], i)
  <2>1. f \in filters BY <1>1 DEF FiltersHold
  <2>2. f.kind = "related" /\ f.vuln = i /\ f.pkg = n[1] BY DEF OwnerFilter
  <2> HIDE DEF f
  <2>3. FilterApplies(f, m) BY <2>2, <1>1 DEF FilterApplies, IgnoreRelatedPackage
  <2>4. LookedUp(f, m) BY <2>2 DEF LookedUp
  <2> QED BY <2>1, <2>3, <2>4 DEF IndexIgnores
<1>2. CASE n[3] = "name" /\ n[1] = m.pkg
  <2> DEFINE f == NameFilter(n[1], i)
  <2>1. f \in filters /\ m.pkg \in Pkgs BY <1>2 DEF FiltersHold
  <2>2. /\ f.kind = "rule" /\ f.vuln = i /\ f.aliases /\ f.name = NameOf[m.pkg]
        /\ m.pkg \in f.pkgs /\ f.ns = None /\ f.loc = None /\ f.state = None
        /\ f.type = None /\ f.vex = None
    BY <1>2, NameFilterIs
  <2>3. NameOf[m.pkg] # None /\ <<NameOf[m.pkg], NameOf[m.pkg]>> \in NameMatches
    BY <2>1 DEF PlainNames
  <2> HIDE DEF f
  <2>4. Criteria(f) \subseteq {"vuln", "name", "pkgs"} /\ "name" \in Criteria(f)
    BY <2>2, <2>3 DEF Criteria
  <2>5. Meets("vuln", f, m) BY <2>2 DEF Meets, ifVulnerabilityApplies, IDsOf
  <2>6. Meets("name", f, m) /\ Meets("pkgs", f, m) BY <2>2, <2>3 DEF Meets
  <2>7. FilterApplies(f, m) BY <2>2, <2>4, <2>5, <2>6 DEF FilterApplies, RuleApplies
  <2>8. LookedUp(f, m) BY <2>2, <2>3 DEF LookedUp
  <2> QED BY <2>1, <2>7, <2>8 DEF IndexIgnores
<1> QED BY <1>1, <1>2 DEF Concerns

LEMMA UndeniedDerived ==
  ASSUME NEW M, \A x \in M : Undenied(x), NEW y, Derived(y, M)
  PROVE  Undenied(y)
<1> SUFFICES ASSUME NEW n \in denied, Concerns(n, y), NEW i \in IDsOf(y), i \in IDsOf(n[2])
             PROVE  FALSE
  BY DEF Undenied
<1>1. PICK x \in M : Fingerprint(x) = Fingerprint(y) /\ i \in IDsOf(x) BY DerivedIDs
<1>2. Concerns(n, x) BY <1>1, PrintCore DEF Concerns
<1> QED BY <1>1, <1>2 DEF Undenied

LEMMA UndeniedRenamed ==
  ASSUME NEW m \in Match, Undenied(m), NEW y \in normalizeByCVE(m)
  PROVE  Undenied(y)
  BY Renamed DEF Undenied, Concerns

LEMMA NegativesCall ==
  ASSUME ScanInv, NegativesInv, SearchCall
  PROVE  NegativesInv'
<1>0. pc' = "search" /\ call + 1 \in 1..Len(Calls)
  BY ScanAssumption DEF SearchCall, ScanInv, TypeOK
<1> DEFINE p == Calls[call + 1]
<1>1. p \in Pkgs BY <1>0, ScanAssumption
<1>2. PICK o \in Outcomes[call + 1] :
           /\ filters' = filters \cup FiltersOf(p, o)
           /\ denied' = denied \cup {<<p, a, o.way>> : a \in o.denied}
  BY SearchCallEffect
<1> HIDE DEF p
<1>3. \A f \in filters' : Plain(f) BY <1>2, FiltersOfIs DEF NegativesInv, FiltersHold
<1>4. ASSUME NEW n \in denied', NEW i \in IDsOf(n[2])
      PROVE  /\ n[1] \in Pkgs
             /\ n[3] = "ownership" => OwnerFilter(n[1], i) \in filters'
             /\ n[3] = "name" => NameFilter(n[1], i) \in filters'
  <2>1. CASE n \in denied BY <2>1, <1>2 DEF NegativesInv, FiltersHold
  <2>2. CASE n \in {<<p, a, o.way>> : a \in o.denied}
    <3>1. PICK a \in o.denied : n = <<p, a, o.way>> BY <2>2
    <3>2. n[1] = p /\ n[2] = a /\ n[3] = o.way BY <3>1
    <3>3. i \in IDsOf(a) BY <3>2
    <3> QED BY <3>2, <3>3, <1>1, <1>2, FiltersOfIs
  <2> QED BY <2>1, <2>2, <1>2
<1>5. FiltersHold' BY <1>3, <1>4 DEF FiltersHold
<1> QED BY <1>0, <1>5 DEF NegativesInv

(* A step that leaves the filters alone.                                   *)
LEMMA NegativesKept ==
  ASSUME NegativesInv, filters' = filters, denied' = denied,
         pc' # "search" => \A y \in All' : Undenied(y)
  PROVE  NegativesInv'
<1>1. FiltersHold' BY DEF NegativesInv, FiltersHold
<1>2. pc' # "search" => \A y \in All' : \A n \in denied' :
        Concerns(n, y) => IDsOf(y) \cap IDsOf(n[2]) = {}
  BY DEF Undenied
<1> QED BY <1>1, <1>2 DEF NegativesInv, Undenied

LEMMA NegativesStep ==
  ASSUME PlainNames, ScanInv, NegativesInv, [Next]_vars
  PROVE  NegativesInv'
<1>0. /\ Stored(res) \subseteq Match /\ Aside \subseteq Match /\ All \subseteq Match /\ Good(res)
      /\ pc # "search" => \A y \in All : Undenied(y)
  BY StoredMatches DEF ScanInv, TypeOK, Aside, All, NegativesInv
<1>1. CASE SearchCall BY <1>1, NegativesCall
<1>2. CASE SearchEnd
  <2> DEFINE N == {m \in {found[i] : i \in DOMAIN found} : ~IndexIgnores(filters, m)}
  <2>1. MadeFrom(res', N) BY <1>2, SearchEndEffect
  <2>2. \A y \in N : Undenied(y) BY PassedUndenied DEF ScanInv, TypeOK, NegativesInv
  <2> HIDE DEF N
  <2>3. \A y \in Stored(res') : Undenied(y) BY <2>1, <2>2, UndeniedDerived DEF MadeFrom
  <2>4. filters' = filters /\ denied' = denied /\ ignored' = ignored /\ pc = "search"
    BY <1>2 DEF SearchEnd, history
  <2>5. All' = Stored(res') BY <2>4 DEF All, Aside, Stored, ScanInv, StagesOK
  <2> QED BY <2>3, <2>4, <2>5, NegativesKept
<1>3. CASE ApplyRules
  <2> DEFINE none == {}
  <2>1. Good(res) /\ Applied(res, none) /\ none \in SUBSET Match BY <1>0, <1>3, ApplyRulesEffect
  <2>2. \A y \in Stored(res) \cup none : Undenied(y) BY <1>0, <1>3 DEF ApplyRules, All
  <2> HIDE DEF none
  <2>3. \A y \in All' : Undenied(y) BY <2>1, <2>2, AppliedIs, UndeniedDerived
  <2>4. filters' = filters /\ denied' = denied BY <1>3 DEF ApplyRules, history
  <2> QED BY <2>3, <2>4, NegativesKept
<1>4. CASE Normalize
  <2>1. PICK f \in Renamings(Stored(res)), g \in Renamings(Aside) : \E r :
           /\ MadeFrom(r, {f[y] : y \in Stored(res)})
           /\ Applied(r, {g[y] : y \in Aside})
    BY <1>4, NormalizeEffect
  <2> DEFINE F == {f[y] : y \in Stored(res)}
             before == {g[y] : y \in Aside}
  <2>2. PICK r : MadeFrom(r, F) /\ Applied(r, before) BY <2>1
  <2>3. \A y \in Stored(res) \cup Aside : Undenied(y) BY <1>0, <1>4 DEF Normalize, All
  <2>4. F \in SUBSET Match /\ before \in SUBSET Match BY <1>0, RenamingsAre
  <2>5. (\A y \in F : Undenied(y)) /\ (\A y \in before : Undenied(y))
    BY <1>0, <2>3, RenamingsAre, UndeniedRenamed
  <2> HIDE DEF F, before
  <2>6. Good(r) /\ \A y \in Stored(r) \cup before : Undenied(y)
    BY <2>2, <2>5, UndeniedDerived DEF MadeFrom
  <2>7. \A y \in All' : Undenied(y) BY <2>2, <2>4, <2>6, AppliedIs, UndeniedDerived
  <2>8. filters' = filters /\ denied' = denied BY <1>4 DEF Normalize, history
  <2> QED BY <2>7, <2>8, NegativesKept
<1>5. CASE ApplyVEX
  <2>1. PICK f, out, g, back :
           /\ f \in Lookups(Stored(res))
           /\ out = {m \in DOMAIN f : FilterRules(m, f[m]) # {}}
           /\ g \in Lookups(Aside \cup out)
           /\ back = {m \in DOMAIN g : AugmentRules(m, g[m]) # {}}
           /\ MadeFrom(res', (Stored(res) \ out) \cup {Augmented(m) : m \in back})
           /\ Aside' = (Aside \cup out) \ back
    BY <1>5, ApplyVEXEffect, ZenonT(60)
  <2>2. out \subseteq Stored(res) /\ back \subseteq Aside \cup out BY <2>1 DEF Lookups
  <2>3. \A y \in Stored(res) \cup Aside : Undenied(y) BY <1>0, <1>5 DEF ApplyVEX, All
  <2> DEFINE N == (Stored(res) \ out) \cup {Augmented(m) : m \in back}
  <2>4. \A m \in back : Undenied(Augmented(m))
    <3>1. \A m \in back : m \in Match /\ Undenied(m) BY <1>0, <2>2, <2>3
    <3>2. \A m \in back : /\ Augmented(m).vuln = m.vuln /\ Augmented(m).pkg = m.pkg
                         /\ Augmented(m).related = m.related
      BY <3>1, AugmentedIs, PrintCore
    <3> QED BY <3>1, <3>2 DEF Undenied, Concerns, IDsOf
  <2>5. \A y \in N : Undenied(y) BY <2>3, <2>4
  <2>6. MadeFrom(res', N) BY <2>1
  <2> HIDE DEF N
  <2>7. \A y \in Stored(res') : Undenied(y) BY <2>5, <2>6, UndeniedDerived DEF MadeFrom
  <2>8. \A y \in Aside' : Undenied(y) BY <2>1, <2>2, <2>3
  <2>9. All' = Stored(res') \cup Aside' BY DEF All, Stored
  <2>10. filters' = filters /\ denied' = denied BY <1>5 DEF ApplyVEX, history
  <2> QED BY <2>7, <2>8, <2>9, <2>10, NegativesKept
<1>6. CASE SearchCancelled
  <2>1. filters' = filters /\ denied' = denied /\ res' = newMatches /\ ignored' = {}
    BY <1>6 DEF SearchCancelled, history, ScanInv, StagesOK
  <2>2. All' = {} BY <2>1, NewGood DEF All, Aside
  <2> QED BY <2>1, <2>2, NegativesKept
<1>7. CASE Cancel \/ SearchFatal \/ NoVEX \/ VEXFails \/ Severity \/ UNCHANGED vars
  <2>1. filters' = filters /\ denied' = denied /\ All' = All /\ (pc' # "search" => pc # "search" \/ SearchFatal)
    BY <1>7 DEF Cancel, SearchFatal, NoVEX, VEXFails, Severity, vars, history, All, Aside
  <2>2. SearchFatal => All = {} BY NewGood DEF SearchFatal, ScanInv, StagesOK, All, Aside
  <2> QED BY <2>1, <2>2, <1>0, NegativesKept
<1> QED BY <1>1, <1>2, <1>3, <1>4, <1>5, <1>6, <1>7 DEF Next

(* What the data of an owning package or of the package itself denies is   *)
(* not reported, by any of its names, whichever of the packages was        *)
(* scanned first, however matches were merged, renamed or brought back by  *)
(* VEX: provided that the packages' names match themselves (PlainNames).   *)
THEOREM DenialsRespected == ASSUME PlainNames PROVE Spec => []NegativesRespected
<1>1. Init => NegativesInv BY DEF Init, NegativesInv, FiltersHold
<1>2. ScanInv /\ NegativesInv /\ [Next]_vars => NegativesInv' BY NegativesStep
<1>3. NegativesInv => NegativesRespected
  BY DEF NegativesInv, NegativesRespected, Finished, All, Undenied, Concerns
<1> QED BY <1>1, <1>2, <1>3, ScanInvariant, PTL DEF Spec

(***************************************************************************)
(* The user's rules.                                                       *)
(***************************************************************************)
(* The match under the name its record has.                                *)
Original(m) == [m EXCEPT !.vuln = m.rec, !.related = {}]

RulesInv ==
  /\ pc = "normalize" => \A r \in opt.rules : Stable(r) => \A m \in Stored(res) : ~RuleApplies(r, m)
  /\ RulesHonoured

LEMMA KeptHonours ==
  ASSUME NEW q, NEW rules, NEW r \in rules, Stable(r), NEW y, Derived(y, Kept(q, rules))
  PROVE  ~RuleApplies(r, y)
  BY StableRule DEF Kept

(* A rule that does not apply to a match does not apply under its original *)
(* name to one that a renaming made of it.                                 *)
LEMMA OriginalRule ==
  ASSUME NEW m \in Match, NEW s \in Match,
         m.rec = s.vuln /\ m.rec = s.rec /\ m.pkg = s.pkg /\ m.fix = s.fix,
         NEW r, Stable(r), ~RuleApplies(r, s), ~RuleApplies(r, m)
  PROVE  ~RuleApplies(r, Original(m))
<1> SUFFICES ASSUME RuleApplies(r, Original(m)) PROVE FALSE OBVIOUS
<1> DEFINE o == Original(m)
<1>1. /\ o.vuln = s.vuln /\ o.rec = s.rec /\ o.pkg = s.pkg /\ o.fix = s.fix /\ o.related = {}
      /\ o.details = m.details
  BY DEF Original, Match
<1> HIDE DEF o
<1>2. CASE r.type = None
  <2>1. Named(o, {s}) BY <1>1 DEF Named, Fingerprint
  <2> QED BY <2>1, <1>2, UntypedRule DEF o
<1>3. CASE Criteria(r) = {"type"}
  <2>1. Meets("type", r, o) BY <1>3 DEF RuleApplies, o
  <2>2. Meets("type", r, m) BY <2>1, <1>1 DEF Meets
  <2>3. r.vex = None BY DEF RuleApplies
  <2> QED BY <2>2, <2>3, <1>3 DEF RuleApplies
<1> QED BY <1>2, <1>3 DEF Stable

LEMMA HonouredWhen ==
  ASSUME \A r \in opt'.rules : Stable(r) =>
           \A m \in Stored(res') : ~RuleApplies(r, m) /\ ~RuleApplies(r, Original(m))
  PROVE  RulesHonoured'
  BY DEF RulesHonoured, Stable, Original, Stored

LEMMA RulesStep ==
  ASSUME ScanInv, RulesInv, [Next]_vars
  PROVE  RulesInv'
<1>0. Stored(res) \subseteq Match /\ Good(res) BY StoredMatches DEF ScanInv, TypeOK
<1>1. CASE ApplyRules
  <2> DEFINE none == {}
             K == Kept(res, opt.rules)
  <2>1. Applied(res, none) /\ none \in SUBSET Match BY <1>1, ApplyRulesEffect
  <2>2. Good(res') /\ \A m \in Stored(res') : Derived(m, K)
    <3> HIDE DEF none
    <3> QED BY <2>1, <1>0, AppliedIs
  <2>3. opt' = opt /\ pc = "rules" BY <1>1 DEF ApplyRules
  <2>4. ASSUME NEW r \in opt.rules, Stable(r), NEW m \in Stored(res') PROVE ~RuleApplies(r, m)
    BY <2>2, <2>4, KeptHonours
  <2>5. ASSUME NEW r \in opt.rules, Stable(r), NEW m \in Stored(res') PROVE ~RuleApplies(r, Original(m))
    <3>1. m \in Match BY <2>2, StoredMatches
    <3>2. \A y \in K : Derived(y, returned) BY <2>3 DEF ScanInv, Origins, All, Kept
    <3>3. Derived(m, returned) BY <3>2, <2>2, DerivedTrans
    <3>4. PICK x \in returned : Fingerprint(x) = Fingerprint(m) /\ x.rec = m.rec BY <3>3 DEF Derived, Named
    <3>5. m.rec = m.vuln BY <3>4, PrintCore DEF ScanInv, Origins
    <3> QED BY <3>1, <3>5, <2>4, <2>5, OriginalRule
  <2>6. RulesHonoured' BY <2>3, <2>4, <2>5, HonouredWhen
  <2> QED BY <2>3, <2>4, <2>6 DEF RulesInv, Stored
<1>2. CASE Normalize
  <2>1. PICK f \in Renamings(Stored(res)), g \in Renamings(Aside) : \E q :
           /\ MadeFrom(q, {f[y] : y \in Stored(res)})
           /\ Applied(q, {g[y] : y \in Aside})
    BY <1>2, NormalizeEffect
  <2> DEFINE F == {f[y] : y \in Stored(res)}
             before == {g[y] : y \in Aside}
  <2>2. PICK q : MadeFrom(q, F) /\ Applied(q, before) BY <2>1
  <2>3. opt' = opt /\ pc = "normalize" /\ pc' = "vex" BY <1>2 DEF Normalize
  <2>4. MadeFrom(res', Kept(q, opt.rules)) /\ Kept(q, opt.rules) \subseteq Stored(q)
    BY <2>2 DEF Applied, Kept
  <2>5. ASSUME NEW r \in opt.rules, Stable(r), NEW m \in Stored(res') PROVE ~RuleApplies(r, m)
    BY <2>4, <2>5, KeptHonours DEF MadeFrom
  <2>6. ASSUME NEW r \in opt.rules, Stable(r), NEW m \in Stored(res') PROVE ~RuleApplies(r, Original(m))
    <3>1. m \in Match BY <2>4, StoredMatches DEF MadeFrom
    <3>2. \A y \in Kept(q, opt.rules) : Derived(y, F) BY <2>2, <2>4 DEF MadeFrom
    <3>3. Derived(m, F) BY <3>2, <2>4, DerivedTrans DEF MadeFrom
    <3>4. PICK y \in Stored(res) : Fingerprint(f[y]) = Fingerprint(m) /\ f[y].rec = m.rec
      BY <3>3 DEF Derived, Named
    <3>5. y \in Match /\ f[y] \in normalizeByCVE(y) BY <1>0, RenamingsAre
    <3>6. m.rec = y.rec /\ m.pkg = y.pkg /\ m.fix = y.fix BY <3>4, <3>5, Renamed, PrintCore
    <3>7. y.rec = y.vuln
      <4>1. Derived(y, returned) BY <2>3 DEF ScanInv, Origins, All
      <4>2. PICK x \in returned : Fingerprint(x) = Fingerprint(y) /\ x.rec = y.rec
        BY <4>1 DEF Derived, Named
      <4> QED BY <4>2, PrintCore DEF ScanInv, Origins
    <3>8. ~RuleApplies(r, y) BY <2>3, <2>6 DEF RulesInv
    <3> QED BY <3>1, <3>5, <3>6, <3>7, <3>8, <2>5, <2>6, OriginalRule
  <2>7. RulesHonoured' BY <2>3, <2>5, <2>6, HonouredWhen
  <2> QED BY <2>3, <2>7 DEF RulesInv
<1>3. CASE SearchCall \/ SearchEnd \/ SearchCancelled \/ SearchFatal \/ ApplyVEX \/ NoVEX \/ VEXFails
           \/ Severity
  BY <1>3 DEF SearchCall, SearchEnd, SearchCancelled, SearchFatal, ApplyVEX, NoVEX, VEXFails, Severity,
              Fail, RulesInv, RulesHonoured
<1>4. CASE Cancel \/ UNCHANGED vars
  BY <1>4 DEF Cancel, vars, RulesInv, RulesHonoured
<1> QED BY <1>1, <1>2, <1>3, <1>4 DEF Next

(* No rule of the user's that does not mix the match type with something   *)
(* else applies to a match that goes on to VEX, neither under the name it  *)
(* has then nor under the one it had before it was renamed to a CVE.       *)
THEOREM RulesAreHonoured == Spec => []RulesHonoured
<1>1. Init => RulesInv BY DEF Init, RulesInv, RulesHonoured
<1>2. ScanInv /\ RulesInv /\ [Next]_vars => RulesInv' BY RulesStep
<1>3. RulesInv => RulesHonoured BY DEF RulesInv
<1> QED BY <1>1, <1>2, <1>3, ScanInvariant, PTL DEF Spec

(***************************************************************************)
(* VEX statements.                                                         *)
(***************************************************************************)
Reportable(m) ==
  StatementsFor(m) # {} => \E st \in StatementsFor(m) : VexStatusOf(st.status) \notin IgnoreList

Ignorable(m) ==
  StatementsFor(m) # {} => \E st \in StatementsFor(m) : VexStatusOf(st.status) \notin AugmentList

StatementsHonoured == (\A m \in Stored(res) : Reportable(m)) /\ (\A m \in Aside : Ignorable(m))

VexInv == pc = "severity" \/ Finished => (vexRules = {} => StatementsHonoured)

(* Statements are about a vulnerability and a package: about what a match  *)
(* is derived from as about the match.                                     *)
LEMMA ReportableDerived ==
  ASSUME NEW M, \A x \in M : Reportable(x), NEW y, Derived(y, M)
  PROVE  Reportable(y)
<1>1. PICK x \in M : Fingerprint(x) = Fingerprint(y) BY DEF Derived, Named
<1>2. StatementsFor(x) = StatementsFor(y) BY <1>1, PrintCore DEF StatementsFor
<1> QED BY <1>2 DEF Reportable

LEMMA ApplyVEXHonours ==
  ASSUME ScanInv, ApplyVEX, vexRules = {}
  PROVE  (\A m \in Stored(res') : Reportable(m)) /\ (\A m \in Aside' : Ignorable(m))
<1>1. PICK f, out, g, back :
           /\ f \in Lookups(Stored(res))
           /\ out = {m \in DOMAIN f : FilterRules(m, f[m]) # {}}
           /\ g \in Lookups(Aside \cup out)
           /\ back = {m \in DOMAIN g : AugmentRules(m, g[m]) # {}}
           /\ MadeFrom(res', (Stored(res) \ out) \cup {Augmented(m) : m \in back})
           /\ Aside' = (Aside \cup out) \ back
  BY ApplyVEXEffect, ZenonT(60)
<1>2. /\ DOMAIN f = {m \in Stored(res) : StatementsFor(m) # {}}
      /\ \A m \in DOMAIN f : f[m] \in StatementsFor(m)
      /\ DOMAIN g = {m \in Aside \cup out : StatementsFor(m) # {}}
      /\ \A m \in DOMAIN g : g[m] \in StatementsFor(m)
  BY <1>1 DEF Lookups
<1>3. ASSUME NEW m, NEW st
      PROVE  /\ FilterRules(m, st) = {} => VexStatusOf(st.status) \notin IgnoreList
             /\ AugmentRules(m, st) = {} <=> VexStatusOf(st.status) \notin AugmentList
  BY DEF FilterRules, AugmentRules, matchingRule
<1>4. \A m \in Stored(res) \ out : Reportable(m) BY <1>1, <1>2, <1>3 DEF Reportable
<1>5. ASSUME NEW m \in back PROVE Reportable(Augmented(m))
  <2>1. m \in DOMAIN g /\ VexStatusOf(g[m].status) \in AugmentList BY <1>1, <1>3
  <2>2. VexStatusOf(g[m].status) \notin IgnoreList BY <2>1 DEF AugmentList, IgnoreList
  <2>3. m \in Match
    <3>1. Aside \subseteq Match /\ Stored(res) \subseteq Match
      BY StoredMatches DEF ScanInv, TypeOK, Aside
    <3> QED BY <3>1, <1>1, <1>2, <2>1
  <2>4. StatementsFor(Augmented(m)) = StatementsFor(m)
    BY <2>3, AugmentedIs, PrintCore DEF StatementsFor
  <2> QED BY <2>1, <2>2, <2>4, <1>2 DEF Reportable
<1> DEFINE N == (Stored(res) \ out) \cup {Augmented(m) : m \in back}
<1>6. \A y \in N : Reportable(y) BY <1>4, <1>5
<1>7. MadeFrom(res', N) BY <1>1
<1> HIDE DEF N
<1>8. \A y \in Stored(res') : Reportable(y) BY <1>6, <1>7, ReportableDerived DEF MadeFrom
<1>9. \A m \in Aside' : Ignorable(m) BY <1>1, <1>2, <1>3 DEF Ignorable
<1> QED BY <1>8, <1>9

LEMMA VexStep ==
  ASSUME ScanInv, VexInv, [Next]_vars
  PROVE  VexInv'
<1>1. CASE ApplyVEX
  <2>1. opt' = opt BY <1>1 DEF ApplyVEX
  <2>2. vexRules' = vexRules BY <2>1 DEF vexRules
  <2>3. vexRules = {} =>
          (\A m \in Stored(res') : Reportable(m)) /\ (\A m \in Aside' : Ignorable(m))
    BY <1>1, ApplyVEXHonours
  <2> QED BY <2>1, <2>2, <2>3 DEF VexInv, StatementsHonoured, Reportable, Ignorable, StatementsFor, Stored
<1>2. CASE NoVEX
  <2>1. opt' = opt /\ opt.docs = {} BY <1>2 DEF NoVEX
  <2> QED BY <2>1 DEF VexInv, StatementsHonoured, Reportable, Ignorable, StatementsFor
<1>3. CASE Severity \/ Cancel \/ UNCHANGED vars
  <2>1. /\ res' = res /\ ignored' = ignored /\ opt' = opt
        /\ (pc' = "severity" \/ Finished') => (pc = "severity" \/ Finished)
    BY <1>3 DEF Severity, Cancel, vars, Finished
  <2>2. vexRules' = vexRules /\ (StatementsHonoured <=> StatementsHonoured')
    BY <2>1 DEF vexRules, StatementsHonoured, Reportable, Ignorable, StatementsFor, Aside
  <2> QED BY <2>1, <2>2 DEF VexInv
<1>4. CASE SearchCall \/ SearchEnd \/ SearchCancelled \/ SearchFatal \/ ApplyRules \/ Normalize \/ VEXFails
  BY <1>4 DEF SearchCall, SearchEnd, SearchCancelled, SearchFatal, ApplyRules, Normalize, VEXFails,
              Fail, VexInv, Finished
<1> QED BY <1>1, <1>2, <1>3, <1>4 DEF Next

(* Without VEX rules of the user's own, every statement is honoured: none  *)
(* that all say is fixed or not affected is reported, whatever was merged  *)
(* when matches were brought back, and none that all say is affected or    *)
(* investigated stays ignored.                                             *)
THEOREM StatementsAreHonoured == Spec => []VexHonoured
<1>1. Init => VexInv BY DEF Init, VexInv, Finished
<1>2. ScanInv /\ VexInv /\ [Next]_vars => VexInv' BY VexStep
<1>3. VexInv => VexHonoured
  BY DEF VexInv, VexHonoured, StatementsHonoured, Reportable, Ignorable, Aside
<1> QED BY <1>1, <1>2, <1>3, ScanInvariant, PTL DEF Spec

(***************************************************************************)
(* Nothing gets lost.                                                      *)
(***************************************************************************)
Excluded(m) == \E x \in Core(m) : \E r \in Exclusions : RuleApplies(r, x)

Filtered(m) == \E x \in Core(m) : \E f \in filters : FilterApplies(f, x)

Found == {found[i] : i \in DOMAIN found}

(* y is a match for what m is a match for, or for the CVE it was renamed   *)
(* to.                                                                     *)
Successor(y, m) ==
  /\ y.pkg = m.pkg
  /\ \/ y.vuln = m.vuln
     \/ opt.byCVE /\ IsCVE(y.vuln) /\ \E x \in Core(m) : y.vuln \in x.related

Late == pc \in {"vex", "severity"} \/ Finished

WhileSearching ==
  pc = "search" => \A m \in returned : Excluded(m) \/ Keeps(Found, {m})

BeforeRenaming ==
  pc \in {"rules", "normalize"} /\ Searched =>
    \A m \in returned : Excluded(m) \/ Filtered(m) \/ Keeps(All, {m})

AfterRenaming ==
  Late /\ Searched =>
    \A m \in returned : \/ Excluded(m) \/ Filtered(m)
                        \/ \A d \in m.details : \E y \in All : Successor(y, m) /\ d \in y.details

ConservedInv ==
  /\ \A f \in filters : Plain(f)
  /\ WhileSearching /\ BeforeRenaming /\ AfterRenaming

LEMMA KeptSuccessor ==
  ASSUME NEW S, NEW m, Keeps(S, {m}), NEW d \in m.details
  PROVE  \E y \in S : Successor(y, m) /\ d \in y.details
<1>1. PICK y \in S : coreFingerprint(y) = coreFingerprint(m) /\ d \in y.details BY DEF Keeps
<1>2. y.pkg = m.pkg /\ y.vuln = m.vuln BY <1>1 DEF coreFingerprint
<1> QED BY <1>1, <1>2 DEF Successor

LEMMA SuccessorKept ==
  ASSUME NEW S, NEW T, Keeps(S, T), NEW m, NEW d, NEW y \in T, Successor(y, m), d \in y.details
  PROVE  \E z \in S : Successor(z, m) /\ d \in z.details
<1>1. PICK z \in S : coreFingerprint(z) = coreFingerprint(y) /\ d \in z.details BY DEF Keeps
<1>2. z.pkg = y.pkg /\ z.vuln = y.vuln BY <1>1 DEF coreFingerprint
<1> QED BY <1>1, <1>2 DEF Successor

(* What a call returns is found, unless an exclusion drops it.             *)
LEMMA ConservedCall ==
  ASSUME ScanInv, ConservedInv, SearchCall
  PROVE  ConservedInv'
<1>0. pc = "search" /\ pc' = "search" BY DEF SearchCall
<1>1. PICK o \in Outcomes[call + 1] : \E r, x, s :
           /\ o.matches \subseteq Match
           /\ MadeFrom(r, o.matches) /\ MadeFrom(x, Kept(r, Exclusions))
           /\ s \in Seq(Match) /\ {s[i] : i \in DOMAIN s} = Stored(x)
           /\ found' = found \o s
           /\ filters' = filters \cup FiltersOf(Calls[call + 1], o)
           /\ returned' = returned \cup o.matches
  BY SearchCallEffect
<1>2. PICK r, x, s :
           /\ o.matches \subseteq Match
           /\ MadeFrom(r, o.matches) /\ MadeFrom(x, Kept(r, Exclusions))
           /\ s \in Seq(Match) /\ {s[i] : i \in DOMAIN s} = Stored(x)
           /\ found' = found \o s
           /\ filters' = filters \cup FiltersOf(Calls[call + 1], o)
           /\ returned' = returned \cup o.matches
  BY <1>1
<1>3. \A f \in filters' : Plain(f) BY <1>2, FiltersOfIs DEF ConservedInv
<1>4. Found \subseteq Found' /\ Stored(x) \subseteq Found'
  <2>1. found \in Seq(Match) BY DEF ScanInv, TypeOK
  <2>2. /\ DOMAIN found' = 1..(Len(found) + Len(s)) /\ DOMAIN found = 1..Len(found)
        /\ DOMAIN s = 1..Len(s) /\ Len(found) \in Nat /\ Len(s) \in Nat
    BY <2>1, <1>2
  <2>3. \A i \in DOMAIN found : i \in DOMAIN found' /\ found'[i] = found[i] BY <2>1, <2>2, <1>2
  <2>4. ASSUME NEW j \in DOMAIN s PROVE s[j] \in Found'
    <3>1. Len(found) + j \in DOMAIN found' /\ found'[Len(found) + j] = s[j] BY <2>1, <2>2, <1>2
    <3> QED BY <3>1 DEF Found
  <2>5. Found \subseteq Found' BY <2>3 DEF Found
  <2> QED BY <2>4, <2>5, <1>2
<1>5. \A m \in returned : Core(m) \subseteq Core(m)' BY <1>2 DEF Core
<1>6. ASSUME NEW m \in returned' PROVE Excluded(m)' \/ Keeps(Found', {m})
  <2>1. CASE m \in returned
    <3>1. CASE Excluded(m) BY <3>1, <2>1, <1>5 DEF Excluded
    <3>2. CASE Keeps(Found, {m}) BY <3>2, <1>4 DEF Keeps
    <3> QED BY <3>1, <3>2, <2>1, <1>0 DEF ConservedInv, WhileSearching
  <2>2. CASE m \in o.matches
    <3> SUFFICES ASSUME ~Excluded(m)', NEW d \in m.details
                 PROVE  \E y \in Found' : coreFingerprint(y) = coreFingerprint(m) /\ d \in y.details
      BY DEF Keeps
    <3>1. PICK z \in Stored(r) : coreFingerprint(z) = coreFingerprint(m) /\ d \in z.details
      BY <1>2, <2>2 DEF MadeFrom, Keeps
    <3>2. ASSUME NEW e \in Exclusions, RuleApplies(e, z) PROVE FALSE
      <4>1. e.type = None /\ Named(z, o.matches) BY <1>2, ScanAssumption DEF MadeFrom, Derived
      <4>2. PICK b \in o.matches : Fingerprint(b) = Fingerprint(z) /\ RuleApplies(e, b)
        BY <4>1, <3>2, UntypedRule
      <4>3. b \in Core(m)' BY <4>2, <3>1, <1>2, PrintCore DEF Core
      <4> QED BY <4>2, <4>3 DEF Excluded
    <3>3. z \in Kept(r, Exclusions) BY <3>2 DEF Kept
    <3>4. PICK y \in Stored(x) : coreFingerprint(y) = coreFingerprint(z) /\ d \in y.details
      BY <3>1, <3>3, <1>2 DEF MadeFrom, Keeps
    <3> QED BY <3>1, <3>4, <1>4
  <2> QED BY <2>1, <2>2, <1>2
<1>7. WhileSearching' BY <1>6 DEF WhileSearching, Keeps
<1>8. BeforeRenaming' /\ AfterRenaming' BY <1>0 DEF BeforeRenaming, AfterRenaming, Late, Finished
<1> QED BY <1>3, <1>7, <1>8 DEF ConservedInv

(* What is found becomes part of the collection, unless a filter drops it. *)
LEMMA ConservedEnd ==
  ASSUME ScanInv, ConservedInv, SearchEnd
  PROVE  ConservedInv'
<1>0. /\ pc = "search" /\ pc' = "rules" /\ filters' = filters /\ returned' = returned
      /\ ignored' = ignored /\ found' = found
  BY DEF SearchEnd, history
<1> DEFINE N == {m \in {found[i] : i \in DOMAIN found} : ~IndexIgnores(filters, m)}
<1>1. MadeFrom(res', N) BY SearchEndEffect
<1>2. All' = Stored(res') BY <1>0 DEF All, Aside, Stored, ScanInv, StagesOK
<1>3. \A m : (Excluded(m)' <=> Excluded(m)) /\ (Filtered(m)' <=> Filtered(m))
  BY <1>0 DEF Excluded, Filtered, Core
<1>4. ASSUME NEW m \in returned, ~Excluded(m), ~Filtered(m) PROVE Keeps(All', {m})
  <2> SUFFICES ASSUME NEW d \in m.details
               PROVE  \E y \in All' : coreFingerprint(y) = coreFingerprint(m) /\ d \in y.details
    BY DEF Keeps
  <2>1. PICK z \in Found : coreFingerprint(z) = coreFingerprint(m) /\ d \in z.details
    BY <1>0, <1>4 DEF ConservedInv, WhileSearching, Keeps
  <2>2. ASSUME NEW f \in filters, FilterApplies(f, z) PROVE FALSE
    <3>1. Derived(z, returned) /\ Plain(f) BY DEF ScanInv, Origins, Found, ConservedInv
    <3>2. PICK b \in returned : Fingerprint(b) = Fingerprint(z) /\ FilterApplies(f, b)
      BY <2>2, <3>1, PlainFilter
    <3>3. b \in Core(m) BY <3>2, <2>1, PrintCore DEF Core
    <3> QED BY <3>2, <3>3, <1>4 DEF Filtered
  <2>3. z \in N BY <2>2 DEF IndexIgnores, Found
  <2> HIDE DEF N
  <2>4. PICK y \in Stored(res') : coreFingerprint(y) = coreFingerprint(z) /\ d \in y.details
    BY <2>1, <2>3, <1>1 DEF MadeFrom, Keeps
  <2> QED BY <2>1, <2>4, <1>2
<1>5. BeforeRenaming' BY <1>0, <1>3, <1>4 DEF BeforeRenaming, Keeps
<1>6. WhileSearching' /\ AfterRenaming' BY <1>0 DEF WhileSearching, AfterRenaming, Late, Finished
<1> QED BY <1>0, <1>5, <1>6 DEF ConservedInv

LEMMA ConservedRules ==
  ASSUME ScanInv, ConservedInv, ApplyRules
  PROVE  ConservedInv'
<1>0. /\ pc = "rules" /\ pc' \in {"normalize", "vex"} /\ filters' = filters /\ returned' = returned
      /\ opt' = opt /\ call' = call
  BY DEF ApplyRules, history
<1> DEFINE none == {}
<1>1. Good(res) /\ Applied(res, none) /\ none \in SUBSET Match
  BY ApplyRulesEffect DEF ScanInv, TypeOK
<1>2. Keeps(All', Stored(res) \cup none)
  <2> HIDE DEF none
  <2> QED BY <1>1, AppliedIs
<1>3. All = Stored(res) \cup none BY <1>0 DEF All, Aside, ScanInv, StagesOK
<1>4. \A m : (Excluded(m)' <=> Excluded(m)) /\ (Filtered(m)' <=> Filtered(m))
  BY <1>0 DEF Excluded, Filtered, Core
<1>5. ASSUME Searched, NEW m \in returned, ~Excluded(m), ~Filtered(m) PROVE Keeps(All', {m})
  <2>1. Keeps(All, {m}) BY <1>0, <1>5 DEF ConservedInv, BeforeRenaming
  <2> QED BY <2>1, <1>2, <1>3, KeepsTrans
<1>6. ASSUME Searched, NEW m \in returned, ~Excluded(m), ~Filtered(m), NEW d \in m.details
      PROVE  \E y \in All' : Successor(y, m) /\ d \in y.details
  BY <1>5, <1>6, KeptSuccessor
<1>7. Searched' = Searched /\ \A y, m : Successor(y, m)' <=> Successor(y, m)
  BY <1>0 DEF Searched, Successor, Core
<1>8. BeforeRenaming' BY <1>0, <1>4, <1>5, <1>7 DEF BeforeRenaming, Keeps
<1>9. AfterRenaming' BY <1>0, <1>4, <1>6, <1>7 DEF AfterRenaming
<1>10. WhileSearching' BY <1>0 DEF WhileSearching
<1> QED BY <1>0, <1>8, <1>9, <1>10 DEF ConservedInv

LEMMA ConservedNormalize ==
  ASSUME ScanInv, ConservedInv, Normalize
  PROVE  ConservedInv'
<1>0. /\ pc = "normalize" /\ pc' = "vex" /\ filters' = filters /\ returned' = returned
      /\ opt' = opt /\ call' = call /\ opt.byCVE
  BY DEF Normalize, history, ScanInv, StagesOK
<1>1. PICK f \in Renamings(Stored(res)), g \in Renamings(Aside) : \E q :
           /\ MadeFrom(q, {f[y] : y \in Stored(res)})
           /\ Applied(q, {g[y] : y \in Aside})
  BY NormalizeEffect
<1> DEFINE F == {f[y] : y \in Stored(res)}
           before == {g[y] : y \in Aside}
<1>2. PICK q : MadeFrom(q, F) /\ Applied(q, before) BY <1>1
<1>3. Stored(res) \subseteq Match /\ Aside \subseteq Match
  BY StoredMatches DEF ScanInv, TypeOK, Aside
<1>4. before \in SUBSET Match BY <1>3, RenamingsAre
<1>5. Keeps(All', F \cup before)
  <2> HIDE DEF F, before
  <2>1. Good(q) /\ Keeps(Stored(q), F) BY <1>2 DEF MadeFrom
  <2>2. Keeps(All', Stored(q) \cup before) BY <2>1, <1>2, <1>4, AppliedIs
  <2>3. Keeps(Stored(q) \cup before, F \cup before) BY <2>1 DEF Keeps
  <2> QED BY <2>2, <2>3, KeepsTrans
<1>6. ASSUME NEW y \in All
      PROVE  \E n \in F \cup before : n \in normalizeByCVE(y)
  BY <1>3, RenamingsAre DEF All
<1> HIDE DEF F, before
<1>7. ASSUME Searched, NEW m \in returned, ~Excluded(m), ~Filtered(m), NEW d \in m.details
      PROVE  \E z \in All' : Successor(z, m) /\ d \in z.details
  <2>1. PICK y \in All : coreFingerprint(y) = coreFingerprint(m) /\ d \in y.details
    BY <1>0, <1>7 DEF ConservedInv, BeforeRenaming, Keeps
  <2>2. PICK n \in F \cup before : n \in normalizeByCVE(y) BY <1>6
  <2>3. y \in Match BY <1>3 DEF All
  <2>4. /\ n.pkg = y.pkg /\ n.details = y.details
        /\ n.vuln = y.vuln \/ (IsCVE(n.vuln) /\ n.vuln \in y.related)
    BY <2>2, <2>3, Renamed
  <2>5. y.pkg = m.pkg /\ y.vuln = m.vuln BY <2>1 DEF coreFingerprint
  <2>6. Successor(n, m)
    <3>1. CASE n.vuln = y.vuln BY <3>1, <2>4, <2>5 DEF Successor
    <3>2. CASE IsCVE(n.vuln) /\ n.vuln \in y.related
      <4>1. Derived(y, returned) BY <1>0 DEF ScanInv, Origins
      <4>2. PICK x \in returned : Fingerprint(x) = Fingerprint(y) /\ n.vuln \in x.related
        BY <4>1, <3>2 DEF Derived, Named
      <4>3. x \in Core(m) BY <4>2, <2>1, PrintCore DEF Core
      <4> QED BY <4>2, <4>3, <3>2, <2>4, <2>5, <1>0 DEF Successor
    <3> QED BY <3>1, <3>2, <2>4
  <2> QED BY <2>1, <2>4, <2>6, <1>5, SuccessorKept
<1>8. \A m : (Excluded(m)' <=> Excluded(m)) /\ (Filtered(m)' <=> Filtered(m))
  BY <1>0 DEF Excluded, Filtered, Core
<1>9. Searched' = Searched /\ \A y, m : Successor(y, m)' <=> Successor(y, m)
  BY <1>0 DEF Searched, Successor, Core
<1>10. AfterRenaming' BY <1>0, <1>7, <1>8, <1>9 DEF AfterRenaming
<1>11. WhileSearching' /\ BeforeRenaming' BY <1>0 DEF WhileSearching, BeforeRenaming
<1> QED BY <1>0, <1>10, <1>11 DEF ConservedInv

(* VEX moves matches between the reported and the ignored ones.            *)
LEMMA ApplyVEXKeeps ==
  ASSUME ScanInv, ApplyVEX
  PROVE  Keeps(All', All)
<1>1. PICK f, out, g, back :
           /\ f \in Lookups(Stored(res))
           /\ out = {m \in DOMAIN f : FilterRules(m, f[m]) # {}}
           /\ g \in Lookups(Aside \cup out)
           /\ back = {m \in DOMAIN g : AugmentRules(m, g[m]) # {}}
           /\ MadeFrom(res', (Stored(res) \ out) \cup {Augmented(m) : m \in back})
           /\ Aside' = (Aside \cup out) \ back
  BY ApplyVEXEffect, ZenonT(60)
<1>2. Stored(res) \subseteq Match /\ Aside \subseteq Match
  BY StoredMatches DEF ScanInv, TypeOK, Aside
<1> DEFINE N == (Stored(res) \ out) \cup {Augmented(m) : m \in back}
<1>3. All' = Stored(res') \cup Aside' BY DEF All, Stored
<1>4. Keeps(Stored(res') \cup Aside', N \cup Aside') BY <1>1 DEF MadeFrom, Keeps
<1>5. Keeps(N \cup Aside', All)
  <2> SUFFICES ASSUME NEW y \in All, NEW d \in y.details
               PROVE  \E z \in N \cup Aside' : coreFingerprint(z) = coreFingerprint(y) /\ d \in z.details
    BY DEF Keeps
  <2>1. y \in Match BY <1>2 DEF All
  <2>2. CASE y \in N \cup Aside' BY <2>2
  <2>3. CASE y \in back
    <3>1. Augmented(y) \in N BY <2>3
    <3>2. Fingerprint(Augmented(y)) = Fingerprint(y) /\ d \in Augmented(y).details BY <2>1, AugmentedIs
    <3>3. coreFingerprint(Augmented(y)) = coreFingerprint(y) BY <3>2, PrintCore
    <3> QED BY <3>1, <3>2, <3>3
  <2>4. y \in N \cup Aside' \cup back BY <1>1 DEF All
  <2> QED BY <2>2, <2>3, <2>4
<1> HIDE DEF N
<1> QED BY <1>3, <1>4, <1>5, KeepsTrans

LEMMA ConservedLate ==
  ASSUME ScanInv, ConservedInv, ApplyVEX \/ NoVEX \/ Severity
  PROVE  ConservedInv'
<1>0. /\ Late /\ pc' \in {"severity", "done"} /\ filters' = filters /\ returned' = returned
      /\ opt' = opt /\ call' = call
  BY DEF ApplyVEX, NoVEX, Severity, history, Late
<1>1. Keeps(All', All)
  <2>1. CASE ApplyVEX BY <2>1, ApplyVEXKeeps
  <2>2. CASE NoVEX \/ Severity
    <3>1. All' = All BY <2>2 DEF NoVEX, Severity, All, Aside
    <3> QED BY <3>1 DEF Keeps
  <2> QED BY <2>1, <2>2
<1>2. ASSUME Searched, NEW m \in returned, ~Excluded(m), ~Filtered(m), NEW d \in m.details
      PROVE  \E z \in All' : Successor(z, m) /\ d \in z.details
  <2>1. PICK y \in All : Successor(y, m) /\ d \in y.details
    BY <1>0, <1>2 DEF ConservedInv, AfterRenaming
  <2> QED BY <2>1, <1>1, SuccessorKept
<1>3. \A m : (Excluded(m)' <=> Excluded(m)) /\ (Filtered(m)' <=> Filtered(m))
  BY <1>0 DEF Excluded, Filtered, Core
<1>4. Searched' = Searched /\ \A y, m : Successor(y, m)' <=> Successor(y, m)
  BY <1>0 DEF Searched, Successor, Core
<1>5. AfterRenaming' BY <1>0, <1>2, <1>3, <1>4 DEF AfterRenaming
<1>6. WhileSearching' /\ BeforeRenaming' BY <1>0 DEF WhileSearching, BeforeRenaming
<1> QED BY <1>0, <1>5, <1>6 DEF ConservedInv

LEMMA ConservedStep ==
  ASSUME ScanInv, ConservedInv, [Next]_vars
  PROVE  ConservedInv'
<1>1. CASE SearchCancelled
  <2>1. /\ pc' = "rules" /\ filters' = filters /\ call' = call /\ call < Len(Calls)
    BY <1>1 DEF SearchCancelled
  <2>2. call # Len(Calls) BY <2>1, ScanAssumption DEF ScanInv, TypeOK
  <2> QED BY <2>1, <2>2 DEF ConservedInv, WhileSearching, BeforeRenaming, AfterRenaming, Late, Finished,
                            Searched
<1>2. CASE SearchFatal \/ VEXFails
  BY <1>2 DEF SearchFatal, VEXFails, Fail, ConservedInv, WhileSearching, BeforeRenaming, AfterRenaming,
              Late, Finished
<1>3. CASE Cancel \/ UNCHANGED vars
  <2>1. /\ pc' = pc /\ opt' = opt /\ call' = call /\ found' = found /\ filters' = filters
        /\ res' = res /\ ignored' = ignored /\ err' = err /\ returned' = returned
    BY <1>3 DEF Cancel, vars, history
  <2>2. /\ All' = All /\ Found' = Found /\ Late' = Late /\ Searched' = Searched
        /\ \A m : Core(m)' = Core(m)
    BY <2>1 DEF All, Aside, Found, Late, Finished, Searched, Core
  <2> QED BY <2>1, <2>2 DEF ConservedInv, WhileSearching, BeforeRenaming, AfterRenaming, Excluded, Filtered,
                            Successor, Keeps
<1> QED BY <1>1, <1>2, <1>3, ConservedCall, ConservedEnd, ConservedRules, ConservedNormalize,
           ConservedLate DEF Next

(* Each detail of each match that a matcher returned is, at the end of a   *)
(* scan that went through all its packages, on a reported or ignored match *)
(* for the same package and vulnerability, or the CVE it was renamed to,   *)
(* unless an exclusion or a matcher's filter is about one of its core      *)
(* fingerprint: however matches were merged, superseded, ignored, renamed  *)
(* and moved by VEX on the way.                                            *)
THEOREM NothingLost == Spec => []Conserved
<1>1. Init => ConservedInv
  BY DEF Init, ConservedInv, WhileSearching, BeforeRenaming, AfterRenaming, Late, Finished
<1>2. ScanInv /\ ConservedInv /\ [Next]_vars => ConservedInv' BY ConservedStep
<1>3. ConservedInv => Conserved
  <2> SUFFICES ASSUME ConservedInv, Finished, Searched, NEW m \in returned,
                      ~Excluded(m), ~Filtered(m), NEW d \in m.details
               PROVE  \E y \in Stored(res) \cup {x.match : x \in ignored} :
                        /\ y.pkg = m.pkg /\ d \in y.details
                        /\ \/ y.vuln = m.vuln
                           \/ opt.byCVE /\ IsCVE(y.vuln) /\ \E x \in Core(m) : y.vuln \in x.related
    BY DEF Conserved, Excluded, Filtered
  <2>1. PICK y \in All : Successor(y, m) /\ d \in y.details BY DEF ConservedInv, AfterRenaming, Late
  <2> QED BY <2>1 DEF All, Aside, Successor
<1> QED BY <1>1, <1>2, <1>3, ScanInvariant, PTL DEF Spec
=============================================================================
