-------------------------------- MODULE Scan --------------------------------
(***************************************************************************)
(* One scan: VulnerabilityMatcher.FindMatchesContext                       *)
(* (grype/vulnerability_matcher.go) and the VEX processor it ends in       *)
(* (grype/vex).  The matchers of each package are called in turn; what     *)
(* they find goes through the database's and the hard-coded exclusions,    *)
(* then through the filters all of them returned, then through the user's  *)
(* ignore rules, is renamed to CVEs if asked to, goes through the rules    *)
(* again and at last through VEX and the severity threshold.               *)
(*                                                                         *)
(* Abstractions.  What a matcher returns is any of the outcomes given for  *)
(* the call, an advisory's metadata is its severity, and an OpenVEX        *)
(* document has at most one statement per vulnerability and package (CSAF  *)
(* documents may list a product under several statuses).  Progress         *)
(* counters, log lines and the list of end-of-life packages are left out.  *)
(***************************************************************************)
EXTENDS IgnoreRules

CONSTANTS
  Calls,       \* the packages in order, once for each matcher of their type
  Outcomes,    \* [1..Len(Calls) -> what that matcher call may return]
  Exclusions,  \* ignore rules: hard-coded and from the database
  CVEs,        \* the IDs that are CVE IDs
  SeverityOf,  \* [Refs -> Nat], 0 for unknown
  Options      \* [rules, byCVE, failSeverity, docs, format] of the scans

ASSUME ScanAssumption ==
  /\ Calls \in Seq(Pkgs)
  /\ \A c \in 1..Len(Calls) : \A o \in Outcomes[c] :
       o.matches \subseteq Match /\ \A m \in o.matches : m.pkg = Calls[c] /\ m.rec = m.vuln
  /\ \A r \in Exclusions : r.type = None
  /\ "vex" \in DetailIDs
  /\ \A o \in Options : o.format = "openvex" => \A s, t \in o.docs : s.vuln = t.vuln /\ s.pkg = t.pkg => s = t

VARIABLES
  pc,         \* the stage reached
  opt,        \* the options of this scan
  call,       \* matcher calls made
  cancelled,  \* the context given to the scan is cancelled
  found,      \* allMatches
  filters,    \* allIgnorers
  res,        \* the matches, as a collection
  ignored,    \* ignoredMatches
  err,        \* the error returned, or "none"
  returned,   \* history: the matches that calls returned
  denied      \* history: <<package, advisory, way>> found not to apply

vars == <<pc, opt, call, cancelled, found, filters, res, ignored, err, returned, denied>>

history == <<returned, denied>>

Init ==
  /\ pc = "search" /\ opt \in Options
  /\ call = 0 /\ cancelled = FALSE
  /\ found = <<>> /\ filters = {}
  /\ res = newMatches /\ ignored = {}
  /\ err = "none"
  /\ returned = {} /\ denied = {}

Fail(e) == pc' = "done" /\ err' = e

(* The caller gives up: an interrupt cancels the context.                  *)
Cancel ==
  /\ pc # "done" /\ ~cancelled
  /\ cancelled' = TRUE
  /\ UNCHANGED <<pc, opt, call, found, filters, res, ignored, err, history>>

(***************************************************************************)
(* searchDBForMatches.                                                     *)
(***************************************************************************)
FiltersOf(p, o) ==
  IF o.way = "ownership" THEN OwnershipIgnores(p, o.denied)
                         ELSE constructIgnoreFilters(p, o.denied)

(* The matcher returns, with or without an error that is not fatal: such   *)
(* an error is logged, and what came with it is used.  The returned list   *)
(* becomes a collection, the exclusions are applied to it and what is left *)
(* is appended in Sorted order.                                            *)
SearchCall_DropOnError ==
  /\ pc = "search" /\ call < Len(Calls) /\ ~cancelled
  /\ \E o \in Outcomes[call + 1], failed \in BOOLEAN :
       LET p == Calls[call + 1] IN
       /\ IF failed THEN UNCHANGED found
          ELSE \E r \in Collect(o.matches) : \E x \in ApplyIgnoreRules(r, Exclusions) :
                 \E s \in Sorted(x) : found' = found \o s
       /\ filters' = filters \cup FiltersOf(p, o)
       /\ returned' = returned \cup o.matches
       /\ denied' = denied \cup {<<p, a, o.way>> : a \in o.denied}
  /\ call' = call + 1
  /\ UNCHANGED <<pc, opt, cancelled, res, ignored, err>>

SearchCall ==
  /\ pc = "search" /\ call < Len(Calls) /\ ~cancelled
  /\ \E o \in Outcomes[call + 1] :
       LET p == Calls[call + 1] IN
       /\ \E r \in Collect(o.matches) : \E x \in ApplyIgnoreRules(r, Exclusions) :
            \E s \in Sorted(x) : found' = found \o s
       /\ filters' = filters \cup FiltersOf(p, o)
       /\ returned' = returned \cup o.matches
       /\ denied' = denied \cup {<<p, a, o.way>> : a \in o.denied}
  /\ call' = call + 1
  /\ UNCHANGED <<pc, opt, cancelled, res, ignored, err>>

(* A fatal error, or a panic that callMatcherSafely makes one.             *)
SearchFatal ==
  /\ pc = "search" /\ call < Len(Calls) /\ ~cancelled
  /\ Fail("fatal")
  /\ UNCHANGED <<opt, call, cancelled, found, filters, res, ignored, history>>

SearchCancelled_Partial ==
  /\ pc = "search" /\ call < Len(Calls) /\ cancelled
  /\ pc' = "rules"
  /\ res' \in AddAll({newMatches}, found, {m \in ToSet(found) : IndexIgnores(filters, m)})
  /\ UNCHANGED <<opt, call, cancelled, found, filters, ignored, err, history>>

(* ctx.Err() is returned with an empty collection, and as it is not a      *)
(* fatal error findDBMatches logs it and goes on.                          *)
SearchCancelled ==
  /\ pc = "search" /\ call < Len(Calls) /\ cancelled
  /\ pc' = "rules"
  /\ res' = newMatches
  /\ UNCHANGED <<opt, call, cancelled, found, filters, ignored, err, history>>

(* Every matcher has been called: their filters are applied to everything  *)
(* found, and the rest becomes a collection, in the order found.           *)
SearchEnd ==
  /\ pc = "search" /\ call = Len(Calls)
  /\ res' \in AddAll({newMatches}, found, {m \in ToSet(found) : IndexIgnores(filters, m)})
  /\ pc' = "rules"
  /\ UNCHANGED <<opt, call, cancelled, found, filters, ignored, err, history>>

(***************************************************************************)
(* findDBMatches, after the search.                                        *)
(***************************************************************************)
ApplyRules ==
  /\ pc = "rules"
  /\ IF opt.rules = {}
     THEN UNCHANGED <<res, ignored>>
     ELSE /\ res' \in ApplyIgnoreRules(res, opt.rules)
          /\ ignored' = IgnoredBy(res, opt.rules)
  /\ pc' = IF opt.byCVE THEN "normalize" ELSE "vex"
  /\ UNCHANGED <<opt, call, cancelled, found, filters, err, history>>

IsCVE(ref) == ref.id \in CVEs

(* normalizeByCVE: the vulnerability takes the name of the first CVE among *)
(* its related ones (a database order: any of them), unless its metadata   *)
(* cannot be read.  The record behind the match stays the original one.    *)
normalizeByCVE(m) ==
  {m} \cup IF IsCVE(m.vuln) THEN {}
           ELSE {[m EXCEPT !.vuln = ref, !.related = {m.vuln}] : ref \in {x \in m.related : IsCVE(x)}}

(* Every way to normalise each of a set of matches.                        *)
Renamings(ms) == {f \in [ms -> UNION {normalizeByCVE(m) : m \in ms}] :
                    \A m \in ms : f[m] \in normalizeByCVE(m)}

(* The matches are walked over in map order and normalised into a new      *)
(* collection, the rules are applied again, and the matches ignored before *)
(* are normalised too.                                                     *)
Normalize_Once ==
  /\ pc = "normalize"
  /\ \E f \in Renamings(Stored(res)), g \in Renamings({x.match : x \in ignored}) :
       \E s \in Orders(Stored(res)) :
         LET renamed == [i \in DOMAIN s |-> f[s[i]]] IN
         /\ res' \in NewMatches(renamed)
         /\ ignored' = {[x EXCEPT !.match = g[x.match]] : x \in ignored}
  /\ pc' = "vex"
  /\ UNCHANGED <<opt, call, cancelled, found, filters, err, history>>

Normalize ==
  /\ pc = "normalize"
  /\ \E f \in Renamings(Stored(res)), g \in Renamings({x.match : x \in ignored}) :
       \E s \in Orders(Stored(res)) : \E r \in NewMatches([i \in DOMAIN s |-> f[s[i]]]) :
         LET before == {[x EXCEPT !.match = g[x.match]] : x \in ignored} IN
         IF opt.rules = {}
         THEN res' = r /\ ignored' = before
         ELSE /\ res' \in ApplyIgnoreRules(r, opt.rules)
              /\ ignored' = before \cup IgnoredBy(r, opt.rules)
  /\ pc' = "vex"
  /\ UNCHANGED <<opt, call, cancelled, found, filters, err, history>>

(***************************************************************************)
(* ApplyVEX.                                                               *)
(***************************************************************************)
vexRules == extractVexRules(opt.rules)

(* findMatchingStatement, or advisories.matches.                           *)
StatementsFor(m) == {st \in opt.docs : m.vuln.id \in {st.vuln} \cup st.aliases /\ st.pkg = m.pkg}

(* The statement each lookup takes.  CSAF's statuses are in a map that is  *)
(* walked over anew for every lookup: when a product is listed under       *)
(* several of them, filtering and augmenting may come to different ones.   *)
Lookups(ms) ==
  {f \in [{m \in ms : StatementsFor(m) # {}} -> opt.docs] :
     \A m \in DOMAIN f : f[m] \in StatementsFor(m)}

FilterRules(m, st) ==
  IF VexStatusOf(st.status) \in IgnoreList
  THEN matchingRule(vexRules, m, st, IgnoreList, opt.format) ELSE {}

AugmentRules_WrongList(m, st) == matchingRule(vexRules, m, st, IgnoreList, opt.format)

AugmentRules(m, st) == matchingRule(vexRules, m, st, AugmentList, opt.format)

(* One rule is recorded, the first in an order the model does not keep.    *)
FilteredBy(m, st) == [match |-> m, rules |-> {CHOOSE r \in FilterRules(m, st) : TRUE}]

Augmented(m) == [m EXCEPT !.details = @ \cup {[type |-> "exact-direct-match", id |-> "vex"]}]

(* FilterMatches moves to the ignored matches those that a statement and a *)
(* rule say are fixed or not affected; AugmentMatches then moves back      *)
(* those that a statement and a rule say are affected or investigated.     *)
ApplyVEX ==
  /\ pc = "vex" /\ opt.docs # {}
  /\ \E f \in Lookups(Stored(res)) :
       LET out == {m \in DOMAIN f : FilterRules(m, f[m]) # {}}
           all == ignored \cup {FilteredBy(m, f[m]) : m \in out}
       IN \E g \in Lookups({x.match : x \in all}) :
            LET back == {x \in all : x.match \in DOMAIN g /\ AugmentRules(x.match, g[x.match]) # {}}
            IN /\ \E r \in CollectSorted(Stored(res) \ out) :
                    \E s \in Orders({Augmented(x.match) : x \in back}) : res' \in AddAll({r}, s, {})
               /\ ignored' = all \ back
  /\ pc' = "severity"
  /\ UNCHANGED <<opt, call, cancelled, found, filters, err, history>>

(* Without documents the matches pass through.                             *)
NoVEX ==
  /\ pc = "vex" /\ opt.docs = {}
  /\ pc' = "severity"
  /\ UNCHANGED <<opt, call, cancelled, found, filters, res, ignored, err, history>>

(* A document cannot be read.                                              *)
VEXFails ==
  /\ pc = "vex" /\ opt.docs # {}
  /\ Fail("vex")
  /\ UNCHANGED <<opt, call, cancelled, found, filters, res, ignored, history>>

(***************************************************************************)
(* hasSeverityAtOrAbove: by the record behind each match.                  *)
(***************************************************************************)
Severity ==
  /\ pc = "severity"
  /\ pc' = "done"
  /\ err' = IF opt.failSeverity # 0 /\ \E m \in Stored(res) : SeverityOf[m.rec] >= opt.failSeverity
            THEN "threshold" ELSE "none"
  /\ UNCHANGED <<opt, call, cancelled, found, filters, res, ignored, history>>

Next ==
  \/ Cancel
  \/ SearchCall \/ SearchFatal \/ SearchCancelled \/ SearchEnd
  \/ ApplyRules \/ Normalize
  \/ ApplyVEX \/ NoVEX \/ VEXFails
  \/ Severity

Spec == Init /\ [][Next]_vars

-----------------------------------------------------------------------------
Finished == pc = "done" /\ err \in {"none", "threshold"}

(* The scan went through all its packages.                                 *)
Searched == call = Len(Calls)

Core(m) == {x \in returned : coreFingerprint(x) = coreFingerprint(m)}

(* Nothing a matcher returned gets lost on the way: at the end of a scan   *)
(* that went through all its packages, each detail of each match is on a   *)
(* remaining or an ignored match for the same package and vulnerability    *)
(* (or the CVE it was renamed to), unless an exclusion or a matcher's      *)
(* filter drops it.                                                        *)
Conserved ==
  Finished /\ Searched =>
    \A m \in returned :
      \/ \E x \in Core(m) : \E r \in Exclusions : RuleApplies(r, x)
      \/ \E x \in Core(m) : \E f \in filters : FilterApplies(f, x)
      \/ \A d \in m.details :
           \E y \in Stored(res) \cup {x.match : x \in ignored} :
             /\ y.pkg = m.pkg /\ d \in y.details
             /\ \/ y.vuln = m.vuln
                \/ opt.byCVE /\ IsCVE(y.vuln) /\ \E x \in Core(m) : y.vuln \in x.related

(* What a distribution's data says does not apply stays out: no match is   *)
(* reported for a package whose files another package owns if that         *)
(* package's matcher found an advisory naming the same vulnerability, by   *)
(* ID or alias, not to apply, whichever of the two was scanned first; and  *)
(* none for the package itself where a language's data says so.            *)
NegativesRespected ==
  Finished =>
    \A n \in denied : \A m \in Stored(res) :
      (n[3] = "ownership" /\ n[1] \in OwnersOf[m.pkg]) \/ (n[3] = "name" /\ n[1] = m.pkg)
        => IDsOf(m) \cap IDsOf(n[2]) = {}

(* The user's rules are honoured, on the name of the vulnerability that is *)
(* reported and on its name before it was renamed to a CVE.  (A rule on    *)
(* the match type and something else is left out: re-adding matches after  *)
(* rules were applied may merge an indirect match into a direct one.)      *)
RulesHonoured ==
  pc = "vex" =>
    \A r \in opt.rules : \A m \in Stored(res) :
      r.type = None \/ Criteria(r) = {"type"} =>
        /\ ~RuleApplies(r, m)
        /\ ~RuleApplies(r, [m EXCEPT !.vuln = m.rec, !.related = {}])

(* Without VEX rules of the user's own, every statement is honoured: what  *)
(* all statements about it say is fixed or not affected is not reported,   *)
(* and what they say is affected or investigated is not ignored.           *)
VexHonoured ==
  Finished /\ vexRules = {} =>
    /\ \A m \in Stored(res) : StatementsFor(m) # {} =>
         \E st \in StatementsFor(m) : VexStatusOf(st.status) \notin IgnoreList
    /\ \A x \in ignored : StatementsFor(x.match) # {} =>
         \E st \in StatementsFor(x.match) : VexStatusOf(st.status) \notin AugmentList

(* A search that was cancelled is not reported in part: as the filters of  *)
(* the packages not yet reached are missing, what was found so far may     *)
(* hold matches that the whole search denies, so a scan that goes on after *)
(* a cancellation neither reports nor ignores anything.                    *)
PartialNotReported ==
  Finished /\ ~Searched => cancelled /\ Stored(res) = {} /\ ignored = {}

=============================================================================
