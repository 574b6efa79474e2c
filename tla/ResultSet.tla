----------------------------- MODULE ResultSet ------------------------------
(***************************************************************************)
(* The set algebra the matchers compute with                               *)
(* (grype/matcher/internal/result).  A Set of the code maps an ID to the   *)
(* results found for it; here it is the set of its results                 *)
(* [v, det], v a vulnerability and det its match details.  A result as     *)
(* FindResults makes it has one vulnerability; results are keyed by the ID *)
(* of theirs.                                                              *)
(***************************************************************************)
EXTENDS FiniteSets

SeqX == INSTANCE SequencesExt

WithID(s, id) == {r \in s : r.v.id = id}
IDs(s) == {r.v.id : r \in s}

\* Mutant: aliases are not compared.
getIdentity_IDOnly(s, id) == {id}

\* getIdentity: the ID and the aliases of every result stored under it.
getIdentity(s, id) == {id} \cup UNION {r.v.related : r \in WithID(s, id)}

Identities(s) == UNION {getIdentity(s, id) : id \in IDs(s)}

Remove(s, incoming) == {r \in s : getIdentity(s, r.v.id) \cap Identities(incoming) = {}}

Merge(s, incoming) == s \cup incoming

\* Filter: keep decides on a vulnerability. When a criterion fails the result
\* is kept, so keep says TRUE for one it cannot decide.
Filter(s, keep(_)) == {r \in s : keep(r.v)}

IdentitiesOverlap(a, b) == ({a.v.id} \cup a.v.related) \cap ({b.v.id} \cup b.v.related) # {}

\* Update: every result is changed by each incoming result it overlaps with,
\* in the order the map of incoming results is walked.
Update(s, order, update(_, _)) ==
    LET step(r, i) == IF IdentitiesOverlap(r, i) THEN update(r, i) ELSE r
    IN  {SeqX!FoldLeft(step, r, order) : r \in s}

Vulnerabilities(s) == {r.v : r \in s}

\* unionIntoResult, ToMatches: one match for each vulnerability, with the
\* details of all the results of its ID.
ToMatches(s, package) ==
    {[v |-> r.v, pkg |-> package, det |-> UNION {q.det : q \in WithID(s, r.v.id)}] : r \in s}
=============================================================================
