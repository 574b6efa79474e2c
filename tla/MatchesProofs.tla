---------------------------- MODULE MatchesProofs ---------------------------
(***************************************************************************)
(* Proofs about match.Matches for all packages, vulnerabilities and        *)
(* sequences of operations, whatever the iteration order of the maps: the  *)
(* indexes agree, no detail is lost or invented, and what a direct match   *)
(* says is fixed stays reported.                                           *)
(***************************************************************************)
EXTENDS Matches, MatchSetProofs

(***************************************************************************)
(* The inductive invariant: the collections are good ones, and the matches *)
(* that Merge and Diff still have to add are matches.                      *)
(***************************************************************************)
CollOK == DOMAIN coll = Colls /\ \A c \in Colls : Good(coll[c])

JobOK ==
  /\ DOMAIN job = {"into", "todo"}
  /\ job.todo \subseteq Match
  /\ job.todo # {} => job.into \in Colls

GivenOK == DOMAIN given = Colls

IInv == CollOK /\ JobOK /\ GivenOK /\ DetailsKept /\ DetailsGiven

(***************************************************************************)
(* The operations.                                                         *)
(***************************************************************************)
LEMMA InitIInv == Init => IInv
<1> SUFFICES ASSUME Init PROVE IInv OBVIOUS
<1>1. CollOK BY NewGood DEF Init, CollOK
<1>2. JobOK /\ GivenOK BY DEF Init, JobOK, GivenOK, Idle
<1>3. DetailsKept BY DEF Init, DetailsKept
<1>4. DetailsGiven BY NewGood DEF Init, DetailsGiven
<1> QED BY <1>1, <1>2, <1>3, <1>4 DEF IInv

LEMMA AddToStep ==
  ASSUME IInv, NEW c \in Colls, NEW m \in Match, AddTo(c, m)
  PROVE  CollOK' /\ GivenOK' /\ DetailsKept' /\ DetailsGiven'
<1>1. PICK y \in Add(coll[c], m) : coll' = [coll EXCEPT ![c] = y] BY DEF AddTo
<1>2. given' = [given EXCEPT ![c] = @ \cup {m}] BY DEF AddTo
<1>3. /\ DOMAIN coll = Colls /\ DOMAIN given = Colls /\ Good(coll[c])
      /\ \A k \in Colls : Good(coll[k])
  BY DEF IInv, CollOK, GivenOK
<1>4. Good(y) BY <1>3, AddGood
<1>5. CollOK' /\ GivenOK' BY <1>1, <1>2, <1>3, <1>4 DEF CollOK, GivenOK
<1>6. /\ coll'[c] = y /\ given'[c] = given[c] \cup {m}
      /\ \A k \in Colls \ {c} : coll'[k] = coll[k] /\ given'[k] = given[k]
  BY <1>1, <1>2, <1>3
<1>7. DetailsKept'
  <2> SUFFICES ASSUME NEW k \in Colls, NEW g \in given'[k], NEW d \in g.details
               PROVE  \E x \in Stored(coll'[k]) :
                        coreFingerprint(x) = coreFingerprint(g) /\ d \in x.details
    BY DEF DetailsKept, Stored
  <2>1. CASE k # c BY <2>1, <1>6 DEF IInv, DetailsKept
  <2>2. CASE k = c /\ g = m BY <2>2, <1>3, <1>6, AddDetails
  <2>3. CASE k = c /\ g \in given[c]
    <3>1. PICK s \in Stored(coll[c]) : coreFingerprint(s) = coreFingerprint(g) /\ d \in s.details
      BY <2>3 DEF IInv, DetailsKept
    <3>2. PICK z \in Stored(y) : coreFingerprint(z) = coreFingerprint(s) /\ s.details \subseteq z.details
      BY <1>3, AddDetails
    <3> QED BY <3>1, <3>2, <2>3, <1>6
  <2> QED BY <2>1, <2>2, <2>3, <1>6
<1>8. DetailsGiven'
  <2> SUFFICES ASSUME NEW k \in Colls, NEW z \in Stored(coll'[k]), NEW d \in z.details
               PROVE  \E g \in given'[k] :
                        coreFingerprint(z) = coreFingerprint(g) /\ d \in g.details
    BY DEF DetailsGiven, Stored
  <2>1. CASE k # c BY <2>1, <1>6 DEF IInv, DetailsGiven
  <2>2. CASE k = c
    <3>1. z \in Stored(y) BY <2>2, <1>6
    <3>2. CASE coreFingerprint(z) = coreFingerprint(m) /\ d \in m.details BY <3>2, <2>2, <1>6
    <3>3. CASE \E s \in Stored(coll[c]) : coreFingerprint(s) = coreFingerprint(z) /\ d \in s.details
      <4>1. PICK s \in Stored(coll[c]) : coreFingerprint(s) = coreFingerprint(z) /\ d \in s.details
        BY <3>3
      <4>2. PICK g \in given[c] : coreFingerprint(s) = coreFingerprint(g) /\ d \in g.details
        BY <4>1 DEF IInv, DetailsGiven
      <4> QED BY <4>1, <4>2, <2>2, <1>6
    <3> QED BY <3>1, <3>2, <3>3, <1>3, AddDetails
  <2> QED BY <2>1, <2>2
<1> QED BY <1>5, <1>7, <1>8

(* IInv is inductive: it holds throughout any sequence of Add, Merge and   *)
(* Diff, between the iterations of their loops too.                        *)
THEOREM MatchesInvariant == Spec => []IInv
<1>1. IInv /\ [Next]_vars => IInv'
  <2> SUFFICES ASSUME IInv, [Next]_vars PROVE IInv' OBVIOUS
  <2>1. ASSUME NEW c \in Colls, NEW m \in Inputs, CallAdd(c, m) PROVE IInv'
    <3>1. m \in Match BY MatchesAssumption
    <3>2. JobOK' BY <2>1 DEF CallAdd, IInv, JobOK
    <3> QED BY <3>1, <3>2, <2>1, AddToStep DEF CallAdd, IInv
  <2>2. ASSUME NEW c \in Colls, NEW d \in Colls, CallMerge(c, d) PROVE IInv'
    <3>1. \A p \in Pkgs : GetByPkgID(coll[d], p) \subseteq Match
      BY StoredMatches DEF IInv, CollOK
    <3>2. JobOK' BY <2>2, <3>1 DEF CallMerge, JobOK
    <3>3. CollOK' /\ GivenOK' /\ DetailsKept' /\ DetailsGiven'
      BY <2>2 DEF CallMerge, IInv, CollOK, GivenOK, DetailsKept, DetailsGiven
    <3> QED BY <3>2, <3>3 DEF IInv
  <2>3. ASSUME NEW c \in Colls, NEW d \in Colls, CallDiff(c, d) PROVE IInv'
    <3>1. /\ DOMAIN coll' = Colls /\ DOMAIN given' = Colls
          /\ coll'[c] = newMatches /\ given'[c] = {}
          /\ \A k \in Colls \ {c} : coll'[k] = coll[k] /\ given'[k] = given[k]
      BY <2>3 DEF CallDiff, IInv, CollOK, GivenOK
    <3>2. Stored(coll[c]) \subseteq Match BY StoredMatches DEF IInv, CollOK
    <3>3. JobOK' BY <2>3, <3>2 DEF CallDiff, JobOK, Idle
    <3>4. CollOK' /\ GivenOK' BY <3>1, NewGood DEF IInv, CollOK, GivenOK
    <3>5. DetailsKept' BY <3>1 DEF IInv, DetailsKept
    <3>6. DetailsGiven' BY <3>1, NewGood DEF IInv, DetailsGiven
    <3> QED BY <3>3, <3>4, <3>5, <3>6 DEF IInv
  <2>4. ASSUME NEW m \in job.todo, AddNext(m) PROVE IInv'
    <3>1. m \in Match /\ job.into \in Colls BY DEF IInv, JobOK
    <3>2. JobOK' BY <2>4 DEF AddNext, IInv, JobOK, Idle
    <3> QED BY <3>1, <3>2, <2>4, AddToStep DEF AddNext, IInv
  <2>5. CASE UNCHANGED vars
    BY <2>5 DEF vars, IInv, CollOK, JobOK, GivenOK, DetailsKept, DetailsGiven
  <2> QED BY <2>1, <2>2, <2>3, <2>4, <2>5 DEF Next
<1> QED BY <1>1, InitIInv, PTL DEF Spec

(* The three maps of a collection agree after any operations: byPackage    *)
(* names exactly the stored matches, so GetByPkgID, AllByPkgID and Merge   *)
(* never read a zero Match.                                                *)
THEOREM IndexesCorrect == Spec => []IndexesAgree
<1>1. IInv => IndexesAgree BY DEF IInv, CollOK, Good, IndexesAgree
<1> QED BY <1>1, MatchesInvariant, PTL

(* No detail given to Add is lost, however matches were merged, replaced   *)
(* and moved between collections since.                                    *)
THEOREM NoDetailLost == Spec => []DetailsKept
<1>1. IInv => DetailsKept BY DEF IInv
<1> QED BY <1>1, MatchesInvariant, PTL

(* No stored match carries a detail of another vulnerability or package.   *)
THEOREM NoDetailInvented == Spec => []DetailsGiven
<1>1. IInv => DetailsGiven BY DEF IInv
<1> QED BY <1>1, MatchesInvariant, PTL

(* mergeCoreMatches and replace remove a stored match only if all its      *)
(* details are indirect; nothing else but Diff, which starts over, removes *)
(* one.                                                                    *)
THEOREM DirectMatchStays == Spec => DirectStays
<1> DEFINE Stays == \A c \in Colls : \A fp \in DOMAIN coll[c].byFingerprint :
                      \/ fp \in DOMAIN coll'[c].byFingerprint
                      \/ hasExclusivelyAnyMatchTypes(coll[c].byFingerprint[fp].details,
                                                     {"exact-indirect-match"})
                      \/ given'[c] = {}
<1>1. IInv /\ [Next]_vars => [Stays]_vars
  <2> SUFFICES ASSUME IInv, Next PROVE Stays BY DEF vars
  <2>0. DOMAIN coll = Colls /\ DOMAIN given = Colls /\ \A k \in Colls : Good(coll[k])
    BY DEF IInv, CollOK, GivenOK
  <2>1. ASSUME NEW c \in Colls, NEW m \in Match, AddTo(c, m) PROVE Stays
    <3>1. PICK y \in Add(coll[c], m) : coll' = [coll EXCEPT ![c] = y] BY <2>1 DEF AddTo
    <3>2. coll'[c] = y /\ \A k \in Colls \ {c} : coll'[k] = coll[k] BY <3>1, <2>0
    <3> QED BY <3>2, <2>0, AddDetails
  <2>2. ASSUME NEW c \in Colls, NEW m \in Inputs, CallAdd(c, m) PROVE Stays
    <3>1. m \in Match BY MatchesAssumption
    <3> QED BY <3>1, <2>1, <2>2 DEF CallAdd
  <2>3. ASSUME NEW c \in Colls, NEW d \in Colls, CallMerge(c, d) PROVE Stays
    BY <2>3 DEF CallMerge
  <2>4. ASSUME NEW c \in Colls, NEW d \in Colls, CallDiff(c, d) PROVE Stays
    <3>1. given'[c] = {} /\ \A k \in Colls \ {c} : coll'[k] = coll[k] BY <2>4, <2>0 DEF CallDiff
    <3> QED BY <3>1
  <2>5. ASSUME NEW m \in job.todo, AddNext(m) PROVE Stays
    <3>1. m \in Match /\ job.into \in Colls BY DEF IInv, JobOK
    <3> QED BY <3>1, <2>1, <2>5 DEF AddNext
  <2> QED BY <2>2, <2>3, <2>4, <2>5 DEF Next
<1> QED BY <1>1, MatchesInvariant, PTL DEF Spec, DirectStays

=============================================================================
