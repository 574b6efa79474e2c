--------------------------- MODULE MatchSetProofs ---------------------------
(***************************************************************************)
(* What adding to a collection of matches does, for all references,        *)
(* packages and fixes and whatever the iteration order of the maps: one    *)
(* Add, and the lists of matches that callers add.                         *)
(***************************************************************************)
EXTENDS MatchSet, Induction

(***************************************************************************)
(* A good collection: typed, its maps in agreement.                        *)
(***************************************************************************)
Fields == {"byFingerprint", "byCoreFingerprint", "byPackage"}

Typed(r) ==
  /\ DOMAIN r = Fields
  /\ DOMAIN r.byFingerprint \subseteq Fingerprints
  /\ \A fp \in DOMAIN r.byFingerprint : r.byFingerprint[fp] \in Match
  /\ r.byCoreFingerprint \in [Cores -> SUBSET Fingerprints]
  /\ r.byPackage \in [Pkgs -> SUBSET Fingerprints]

(* An entry of the core index, replaced or not, has that core.             *)
CoresApart(r) == \A k \in Cores : \A fp \in r.byCoreFingerprint[k] : CoreOf(fp) = k

Good(r) == Typed(r) /\ Indexed(r) /\ CoresApart(r)

LEMMA NewGood == Good(newMatches) /\ Stored(newMatches) = {}
  BY DEF Good, Typed, Fields, Indexed, CoresApart, newMatches, Stored

LEMMA StoredMatches ==
  ASSUME NEW r, Good(r)
  PROVE  /\ Stored(r) \subseteq Match
         /\ \A p \in Pkgs : GetByPkgID(r, p) \subseteq Match
  BY DEF Good, Typed, Indexed, Stored, GetByPkgID

(***************************************************************************)
(* One Add.                                                                *)
(***************************************************************************)
LEMMA Prints ==
  ASSUME NEW m \in Match
  PROVE  /\ Fingerprint(m) \in Fingerprints
         /\ coreFingerprint(m) \in Cores
         /\ CoreOf(Fingerprint(m)) = coreFingerprint(m)
         /\ Fingerprint(m).pkg = m.pkg /\ m.pkg \in Pkgs
  BY DEF Match, Fingerprint, coreFingerprint, Fingerprints, Cores, CoreOf

LEMMA SamePrint ==
  ASSUME NEW m \in Match, NEW ds \in SUBSET Detail, NEW rs \in SUBSET Refs
  PROVE  /\ [m EXCEPT !.details = ds] \in Match
         /\ Fingerprint([m EXCEPT !.details = ds]) = Fingerprint(m)
         /\ coreFingerprint([m EXCEPT !.details = ds]) = coreFingerprint(m)
         /\ [m EXCEPT !.details = ds].details = ds
         /\ [m EXCEPT !.related = rs, !.details = ds] \in Match
         /\ Fingerprint([m EXCEPT !.related = rs, !.details = ds]) = Fingerprint(m)
         /\ coreFingerprint([m EXCEPT !.related = rs, !.details = ds]) = coreFingerprint(m)
         /\ [m EXCEPT !.related = rs, !.details = ds].details = ds
  BY DEF Match, Fingerprint, coreFingerprint

(* The three cases of addOrMerge, field by field.  Case B2, a merge with   *)
(* a match of another fingerprint, cannot occur.                           *)
CaseA(r, m, x) ==
  /\ Fingerprint(m) \in DOMAIN r.byFingerprint
  /\ x.byFingerprint = Put(r.byFingerprint, Fingerprint(m),
                           MergeMatch(r.byFingerprint[Fingerprint(m)], m))
  /\ x.byPackage = r.byPackage

CaseB1(r, m, x) ==
  \E og \in Supersedable(r, m) :
    /\ Fingerprint(m) \notin DOMAIN r.byFingerprint
    /\ x.byFingerprint =
         Put([y \in DOMAIN r.byFingerprint \ {og} |-> r.byFingerprint[y]], Fingerprint(m),
             [m EXCEPT !.details = @ \cup r.byFingerprint[og].details])
    /\ x.byPackage = [p \in Pkgs |-> IF og \in r.byPackage[p]
                                     THEN (r.byPackage[p] \ {og}) \cup {Fingerprint(m)}
                                     ELSE r.byPackage[p]]

CaseC(r, m, x) ==
  /\ Fingerprint(m) \notin DOMAIN r.byFingerprint
  /\ x.byFingerprint = Put(r.byFingerprint, Fingerprint(m), m)
  /\ x.byPackage = r.byPackage

LEMMA AddOrMergeCases ==
  ASSUME NEW r, Good(r), NEW m \in Match, NEW x \in addOrMerge(r, m)
  PROVE  /\ DOMAIN x = Fields
         /\ x.byCoreFingerprint = r.byCoreFingerprint
         /\ CaseA(r, m, x) \/ CaseB1(r, m, x) \/ CaseC(r, m, x)
<1> USE DEF Good, Typed, Fields
<1>1. CASE Fingerprint(m) \in DOMAIN r.byFingerprint
  BY <1>1 DEF addOrMerge, CaseA
<1>2. CASE Fingerprint(m) \notin DOMAIN r.byFingerprint
  <2>1. Mergeable(r, m) = {} BY <1>2 DEF Mergeable, CanMerge, Indexed
  <2>2. CASE Supersedable(r, m) = {} BY <1>2, <2>1, <2>2 DEF addOrMerge, CaseC
  <2>3. CASE Supersedable(r, m) # {}
    <3>1. PICK og \in Supersedable(r, m) : x = replace(r, m, og)
      BY <1>2, <2>1, <2>3 DEF addOrMerge
    <3> QED BY <3>1, <1>2 DEF replace, CaseB1
  <2> QED BY <2>2, <2>3
<1> QED BY <1>1, <1>2

(* What addOrMerge leaves under each fingerprint.                          *)
LEMMA AddOrMergeStored ==
  ASSUME NEW r, Good(r), NEW m \in Match, NEW x \in addOrMerge(r, m)
  PROVE  /\ DOMAIN x.byFingerprint \subseteq DOMAIN r.byFingerprint \cup {Fingerprint(m)}
         /\ Fingerprint(m) \in DOMAIN x.byFingerprint
         /\ \A fp \in DOMAIN x.byFingerprint :
              fp # Fingerprint(m) => x.byFingerprint[fp] = r.byFingerprint[fp]
         /\ LET z == x.byFingerprint[Fingerprint(m)]
            IN /\ z \in Match /\ Fingerprint(z) = Fingerprint(m) /\ m.details \subseteq z.details
               /\ \A fp \in DOMAIN r.byFingerprint :
                    \/ fp \in DOMAIN x.byFingerprint /\ r.byFingerprint[fp].details
                                                          \subseteq x.byFingerprint[fp].details
                    \/ /\ CoreOf(fp) = coreFingerprint(m)
                       /\ r.byFingerprint[fp].details \subseteq z.details
                       /\ hasExclusivelyAnyMatchTypes(r.byFingerprint[fp].details,
                                                      {"exact-indirect-match"})
               /\ \A d \in z.details :
                    \/ d \in m.details
                    \/ \E fp \in DOMAIN r.byFingerprint :
                         CoreOf(fp) = coreFingerprint(m) /\ d \in r.byFingerprint[fp].details
<1> DEFINE F == Fingerprint(m)
           z == x.byFingerprint[F]
<1> USE DEF Good, Typed
<1>0. F \in Fingerprints /\ CoreOf(F) = coreFingerprint(m) BY Prints
<1>00. m.details \in SUBSET Detail /\ m.related \in SUBSET Refs BY DEF Match
<1>1. CASE CaseA(r, m, x)
  <2> DEFINE old == r.byFingerprint[F]
  <2>1. F \in DOMAIN r.byFingerprint /\ old \in Match /\ Fingerprint(old) = F
    BY <1>1 DEF CaseA, Indexed
  <2>2. old.details \in SUBSET Detail /\ old.related \in SUBSET Refs BY <2>1 DEF Match
  <2>3. DOMAIN x.byFingerprint = DOMAIN r.byFingerprint
    BY <1>1, <2>1 DEF CaseA, Put
  <2>4. z = MergeMatch(old, m) BY <1>1, <2>1 DEF CaseA, Put
  <2>5. \A fp \in DOMAIN x.byFingerprint : fp # F => x.byFingerprint[fp] = r.byFingerprint[fp]
    BY <1>1, <2>1 DEF CaseA, Put
  <2> DEFINE ds == old.details \cup m.details
             rs == old.related \cup m.related
  <2>6. ds \in SUBSET Detail /\ rs \in SUBSET Refs BY <2>2, <1>00
  <2>7. z = [old EXCEPT !.related = rs, !.details = ds]
    BY <2>1, <2>4 DEF MergeMatch, Match
  <2>8. z \in Match /\ Fingerprint(z) = F /\ z.details = ds
    <3> HIDE DEF ds, rs, z, old, F
    <3> QED BY <2>1, <2>6, <2>7 DEF Match, Fingerprint
  <2> HIDE DEF z
  <2> QED BY <1>0, <2>1, <2>3, <2>5, <2>8 DEF z
<1>2. CASE CaseB1(r, m, x)
  <2>1. PICK og \in Supersedable(r, m) :
          /\ F \notin DOMAIN r.byFingerprint
          /\ x.byFingerprint =
               Put([y \in DOMAIN r.byFingerprint \ {og} |-> r.byFingerprint[y]], F,
                   [m EXCEPT !.details = @ \cup r.byFingerprint[og].details])
    BY <1>2 DEF CaseB1
  <2> DEFINE old == r.byFingerprint[og]
             ds == m.details \cup old.details
  <2>2. /\ og \in DOMAIN r.byFingerprint /\ old \in Match /\ og \in Fingerprints
        /\ hasExclusivelyAnyMatchTypes(old.details, {"exact-indirect-match"})
    BY DEF Supersedable
  <2>3. CoreOf(og) = coreFingerprint(m)
    BY Prints DEF Supersedable, CoresApart
  <2>4. ds \in SUBSET Detail BY <2>2, <1>00 DEF Match
  <2>5. z = [m EXCEPT !.details = ds] BY <2>1 DEF Put, Match
  <2>6. z \in Match /\ Fingerprint(z) = F /\ z.details = ds
    <3> HIDE DEF ds, z, old
    <3> QED BY <2>4, <2>5, <1>00, SamePrint
  <2>7. /\ DOMAIN x.byFingerprint = (DOMAIN r.byFingerprint \ {og}) \cup {F}
        /\ \A fp \in DOMAIN x.byFingerprint : fp # F => x.byFingerprint[fp] = r.byFingerprint[fp]
    BY <2>1 DEF Put
  <2> HIDE DEF z
  <2> QED BY <1>0, <2>1, <2>2, <2>3, <2>6, <2>7 DEF z
<1>3. CASE CaseC(r, m, x)
  <2>1. /\ DOMAIN x.byFingerprint = DOMAIN r.byFingerprint \cup {F} /\ z = m
        /\ \A fp \in DOMAIN x.byFingerprint : fp # F => x.byFingerprint[fp] = r.byFingerprint[fp]
        /\ F \notin DOMAIN r.byFingerprint
    BY <1>3 DEF CaseC, Put
  <2> QED BY <1>0, <2>1
<1> QED BY <1>1, <1>2, <1>3, AddOrMergeCases

(* Add keeps a collection typed and its indexes in agreement.              *)
LEMMA AddGood ==
  ASSUME NEW r, Good(r), NEW m \in Match, NEW y \in Add(r, m)
  PROVE  Good(y) /\ \E x \in addOrMerge(r, m) : y.byFingerprint = x.byFingerprint
<1> DEFINE F == Fingerprint(m)
           K == coreFingerprint(m)
<1>0. F \in Fingerprints /\ K \in Cores /\ CoreOf(F) = K /\ F.pkg = m.pkg /\ m.pkg \in Pkgs
  BY Prints
<1>1. PICK x \in addOrMerge(r, m) :
        y = [x EXCEPT !.byCoreFingerprint[K] = @ \cup {F}, !.byPackage[m.pkg] = @ \cup {F}]
  BY DEF Add
<1>2. DOMAIN x = Fields /\ x.byCoreFingerprint = r.byCoreFingerprint BY AddOrMergeCases
<1>3. /\ DOMAIN y = Fields
      /\ y.byFingerprint = x.byFingerprint
      /\ y.byCoreFingerprint = [r.byCoreFingerprint EXCEPT ![K] = @ \cup {F}]
      /\ y.byPackage = [x.byPackage EXCEPT ![m.pkg] = @ \cup {F}]
  BY <1>1, <1>2 DEF Fields
<1>4. /\ \A fp \in DOMAIN x.byFingerprint :
           /\ fp \in Fingerprints /\ x.byFingerprint[fp] \in Match
           /\ Fingerprint(x.byFingerprint[fp]) = fp
      /\ DOMAIN x.byFingerprint \subseteq DOMAIN r.byFingerprint \cup {F}
  <2>1. \A fp \in DOMAIN r.byFingerprint : r.byFingerprint[fp] \in Match /\ fp \in Fingerprints
                                            /\ Fingerprint(r.byFingerprint[fp]) = fp
    BY DEF Good, Typed, Indexed
  <2> QED BY <2>1, <1>0, AddOrMergeStored
<1>5. y.byCoreFingerprint \in [Cores -> SUBSET Fingerprints] /\ CoresApart(y)
  BY <1>0, <1>3 DEF Good, Typed, CoresApart
<1>6. \A fp \in DOMAIN y.byFingerprint : fp \in y.byCoreFingerprint[CoreOf(fp)]
  <2> SUFFICES ASSUME NEW fp \in DOMAIN x.byFingerprint
               PROVE  fp \in y.byCoreFingerprint[CoreOf(fp)]
    BY <1>3
  <2>1. CoreOf(fp) \in Cores BY <1>4 DEF CoreOf, Cores, Fingerprints
  <2>2. CASE fp = F BY <2>2, <1>0, <1>3 DEF Good, Typed
  <2>3. CASE fp \in DOMAIN r.byFingerprint
    <3>1. fp \in r.byCoreFingerprint[CoreOf(fp)] BY <2>3 DEF Good, Indexed
    <3> QED BY <3>1, <2>1, <1>0, <1>3 DEF Good, Typed
  <2> QED BY <2>2, <2>3, <1>4
<1>7. /\ y.byPackage \in [Pkgs -> SUBSET Fingerprints]
      /\ \A p \in Pkgs : y.byPackage[p] = {fp \in DOMAIN x.byFingerprint : fp.pkg = p}
  <2>0. /\ r.byPackage \in [Pkgs -> SUBSET Fingerprints]
        /\ \A p \in Pkgs : r.byPackage[p] = {fp \in DOMAIN r.byFingerprint : fp.pkg = p}
    BY DEF Good, Typed, Indexed
  <2>1. CASE CaseA(r, m, x)
    <3>1. x.byPackage = r.byPackage /\ DOMAIN x.byFingerprint = DOMAIN r.byFingerprint
          /\ F \in DOMAIN r.byFingerprint
      BY <2>1 DEF CaseA, Put
    <3> QED BY <3>1, <2>0, <1>0, <1>3
  <2>2. CASE CaseB1(r, m, x)
    <3>1. PICK og \in Supersedable(r, m) :
            /\ DOMAIN x.byFingerprint = (DOMAIN r.byFingerprint \ {og}) \cup {F}
            /\ x.byPackage = [p \in Pkgs |-> IF og \in r.byPackage[p]
                                             THEN (r.byPackage[p] \ {og}) \cup {F}
                                             ELSE r.byPackage[p]]
      BY <2>2 DEF CaseB1, Put
    <3>2. /\ og \in DOMAIN r.byFingerprint
          /\ CoreOf(og) = K
      BY <1>0 DEF Supersedable, Good, CoresApart
    <3>3. og.pkg = m.pkg BY <3>2 DEF CoreOf, coreFingerprint
    <3>4. x.byPackage \in [Pkgs -> SUBSET Fingerprints] BY <3>1, <2>0, <1>0
    <3>5. y.byPackage \in [Pkgs -> SUBSET Fingerprints] BY <3>4, <1>0, <1>3
    <3>6. ASSUME NEW p \in Pkgs
          PROVE  y.byPackage[p] = {fp \in DOMAIN x.byFingerprint : fp.pkg = p}
      <4>1. CASE p = m.pkg
        <5>1. y.byPackage[p] = (r.byPackage[p] \ {og}) \cup {F}
          BY <4>1, <3>1, <3>2, <3>3, <3>4, <2>0, <1>3
        <5> QED BY <5>1, <4>1, <3>1, <3>3, <2>0, <1>0
      <4>2. CASE p # m.pkg
        <5>1. og \notin r.byPackage[p] BY <4>2, <3>3, <2>0
        <5>2. y.byPackage[p] = r.byPackage[p] BY <5>1, <4>2, <3>1, <3>4, <1>3
        <5> QED BY <5>2, <4>2, <3>1, <3>3, <2>0, <1>0
      <4> QED BY <4>1, <4>2
    <3> QED BY <3>5, <3>6
  <2>3. CASE CaseC(r, m, x)
    <3>1. x.byPackage = r.byPackage /\ DOMAIN x.byFingerprint = DOMAIN r.byFingerprint \cup {F}
      BY <2>3 DEF CaseC, Put
    <3> QED BY <3>1, <2>0, <1>0, <1>3
  <2> QED BY <2>1, <2>2, <2>3, AddOrMergeCases
<1>8. Typed(y) BY <1>3, <1>4, <1>5, <1>7 DEF Typed
<1>9. Indexed(y) BY <1>3, <1>4, <1>6, <1>7 DEF Indexed
<1> QED BY <1>3, <1>5, <1>8, <1>9 DEF Good

(* What an Add does to the stored matches: details only grow, unless an    *)
(* indirect match is replaced, whose details move to the new match of the  *)
(* same core; and each detail comes from the new match or was there.       *)
LEMMA AddDetails ==
  ASSUME NEW r, Good(r), NEW m \in Match, NEW y \in Add(r, m)
  PROVE  /\ \E z \in Stored(y) : coreFingerprint(z) = coreFingerprint(m) /\ m.details \subseteq z.details
         /\ \A s \in Stored(r) : \E z \in Stored(y) :
              coreFingerprint(z) = coreFingerprint(s) /\ s.details \subseteq z.details
         /\ \A z \in Stored(y) : \A d \in z.details :
              \/ coreFingerprint(z) = coreFingerprint(m) /\ d \in m.details
              \/ \E s \in Stored(r) : coreFingerprint(s) = coreFingerprint(z) /\ d \in s.details
         /\ \A fp \in DOMAIN r.byFingerprint :
              \/ fp \in DOMAIN y.byFingerprint
              \/ hasExclusivelyAnyMatchTypes(r.byFingerprint[fp].details, {"exact-indirect-match"})
<1> DEFINE F == Fingerprint(m)
           K == coreFingerprint(m)
<1>1. PICK x \in addOrMerge(r, m) : y.byFingerprint = x.byFingerprint BY AddGood
<1>2. \A fp \in DOMAIN r.byFingerprint :
        r.byFingerprint[fp] \in Match /\ coreFingerprint(r.byFingerprint[fp]) = CoreOf(fp)
  BY Prints DEF Good, Typed, Indexed
<1>3. \A fp \in DOMAIN y.byFingerprint :
        y.byFingerprint[fp] \in Match /\ coreFingerprint(y.byFingerprint[fp]) = CoreOf(fp)
  BY AddGood, Prints DEF Good, Typed, Indexed
<1> DEFINE z0 == y.byFingerprint[F]
<1>4. z0 \in Stored(y) /\ coreFingerprint(z0) = K /\ m.details \subseteq z0.details
  BY <1>1, <1>3, AddOrMergeStored, Prints DEF Stored
<1>5. ASSUME NEW s \in Stored(r)
      PROVE  \E z \in Stored(y) : coreFingerprint(z) = coreFingerprint(s) /\ s.details \subseteq z.details
  <2>1. PICK fp \in DOMAIN r.byFingerprint : s = r.byFingerprint[fp] BY DEF Stored
  <2>2. CASE fp \in DOMAIN y.byFingerprint /\ s.details \subseteq y.byFingerprint[fp].details
    BY <2>1, <2>2, <1>2, <1>3 DEF Stored
  <2>3. CASE CoreOf(fp) = K /\ s.details \subseteq z0.details
    BY <2>1, <2>3, <1>2, <1>4
  <2> QED BY <2>1, <2>2, <2>3, <1>1, AddOrMergeStored
<1>6. ASSUME NEW z \in Stored(y), NEW d \in z.details
      PROVE  \/ coreFingerprint(z) = K /\ d \in m.details
             \/ \E s \in Stored(r) : coreFingerprint(s) = coreFingerprint(z) /\ d \in s.details
  <2>1. PICK fp \in DOMAIN y.byFingerprint : z = y.byFingerprint[fp] BY DEF Stored
  <2>2. CASE fp = F
    <3>1. z = z0 BY <2>1, <2>2
    <3>2. \/ d \in m.details
          \/ \E g \in DOMAIN r.byFingerprint : CoreOf(g) = K /\ d \in r.byFingerprint[g].details
      BY <3>1, <1>1, AddOrMergeStored
    <3> QED BY <3>1, <3>2, <1>2, <1>4 DEF Stored
  <2>3. CASE fp # F
    <3>1. fp \in DOMAIN r.byFingerprint /\ z = r.byFingerprint[fp]
      BY <2>1, <2>3, <1>1, AddOrMergeStored
    <3> QED BY <3>1 DEF Stored
  <2> QED BY <2>2, <2>3
<1>7. \A fp \in DOMAIN r.byFingerprint :
        \/ fp \in DOMAIN y.byFingerprint
        \/ hasExclusivelyAnyMatchTypes(r.byFingerprint[fp].details, {"exact-indirect-match"})
  BY <1>1, AddOrMergeStored
<1> QED BY <1>4, <1>5, <1>6, <1>7

(* Where the match that addOrMerge stores comes from: its record and its   *)
(* related vulnerabilities are those of the new match or of the one stored *)
(* under the same fingerprint.                                             *)
LEMMA AddOrMergeOrigin ==
  ASSUME NEW r, Good(r), NEW m \in Match, NEW x \in addOrMerge(r, m)
  PROVE  LET z == x.byFingerprint[Fingerprint(m)]
             B == {b \in Stored(r) \cup {m} : Fingerprint(b) = Fingerprint(m)}
         IN /\ \E b \in B : b.rec = z.rec
            /\ \A ref \in z.related : \E b \in B : ref \in b.related
<1> DEFINE F == Fingerprint(m)
           z == x.byFingerprint[F]
           B == {b \in Stored(r) \cup {m} : Fingerprint(b) = F}
<1>0. m \in B OBVIOUS
<1>1. CASE CaseA(r, m, x)
  <2> DEFINE old == r.byFingerprint[F]
  <2>1. old \in Match /\ old \in B
    BY <1>1 DEF CaseA, Good, Typed, Indexed, Stored
  <2>2. z = MergeMatch(old, m) BY <1>1 DEF CaseA, Put
  <2>3. z.rec = old.rec /\ z.related = old.related \cup m.related
    BY <2>1, <2>2 DEF MergeMatch, Match
  <2> QED BY <2>1, <2>3, <1>0
<1>2. CASE CaseB1(r, m, x)
  <2>1. PICK og \in Supersedable(r, m) : z = [m EXCEPT !.details = @ \cup r.byFingerprint[og].details]
    BY <1>2 DEF CaseB1, Put
  <2>2. z.rec = m.rec /\ z.related = m.related BY <2>1 DEF Match
  <2> QED BY <2>2, <1>0
<1>3. CASE CaseC(r, m, x)
  <2>1. z = m BY <1>3 DEF CaseC, Put
  <2> QED BY <2>1, <1>0
<1> QED BY <1>1, <1>2, <1>3, AddOrMergeCases

(***************************************************************************)
(* Collections made from a set of matches.  A match is derived from a set  *)
(* of matches if its record and each of its related vulnerabilities come   *)
(* from members with its fingerprint, and each of its details from one     *)
(* with its core fingerprint; a collection keeps a set of matches if it    *)
(* has each of their details on a match with the same core fingerprint.    *)
(***************************************************************************)
Named(y, M) ==
  /\ \E x \in M : Fingerprint(x) = Fingerprint(y) /\ x.rec = y.rec
  /\ \A ref \in y.related : \E x \in M : Fingerprint(x) = Fingerprint(y) /\ ref \in x.related

Derived(y, M) ==
  /\ Named(y, M)
  /\ \A d \in y.details : \E x \in M : coreFingerprint(x) = coreFingerprint(y) /\ d \in x.details

Keeps(S, M) ==
  \A x \in M : \A d \in x.details :
    \E y \in S : coreFingerprint(y) = coreFingerprint(x) /\ d \in y.details

MadeFrom(r, M) ==
  /\ Good(r)
  /\ \A y \in Stored(r) : Derived(y, M)
  /\ Keeps(Stored(r), M)

LEMMA DerivedSelf ==
  ASSUME NEW M, NEW y \in M
  PROVE  Derived(y, M)
  BY DEF Derived, Named

LEMMA PrintCore ==
  ASSUME NEW x, NEW y, Fingerprint(x) = Fingerprint(y)
  PROVE  /\ x.vuln = y.vuln /\ x.pkg = y.pkg /\ x.fix = y.fix
         /\ coreFingerprint(x) = coreFingerprint(y)
  BY DEF Fingerprint, coreFingerprint

LEMMA DerivedTrans ==
  ASSUME NEW y, NEW M, NEW N, Derived(y, M), \A x \in M : Derived(x, N)
  PROVE  Derived(y, N)
<1>1. \E x \in N : Fingerprint(x) = Fingerprint(y) /\ x.rec = y.rec
  BY DEF Derived, Named
<1>2. \A ref \in y.related : \E x \in N : Fingerprint(x) = Fingerprint(y) /\ ref \in x.related
  BY DEF Derived, Named
<1>3. ASSUME NEW d \in y.details
      PROVE  \E x \in N : coreFingerprint(x) = coreFingerprint(y) /\ d \in x.details
  <2>1. PICK x \in M : coreFingerprint(x) = coreFingerprint(y) /\ d \in x.details BY DEF Derived, Named
  <2> QED BY <2>1 DEF Derived, Named
<1> QED BY <1>1, <1>2, <1>3 DEF Derived, Named

LEMMA DerivedMore ==
  ASSUME NEW y, NEW M, NEW N, Derived(y, M), M \subseteq N
  PROVE  Derived(y, N)
  BY DEF Derived, Named

LEMMA KeepsTrans ==
  ASSUME NEW S, NEW M, NEW N, Keeps(S, M), Keeps(M, N)
  PROVE  Keeps(S, N)
<1> SUFFICES ASSUME NEW x \in N, NEW d \in x.details
             PROVE  \E y \in S : coreFingerprint(y) = coreFingerprint(x) /\ d \in y.details
  BY DEF Keeps
<1>1. PICK z \in M : coreFingerprint(z) = coreFingerprint(x) /\ d \in z.details BY DEF Keeps
<1>2. PICK y \in S : coreFingerprint(y) = coreFingerprint(z) /\ d \in y.details BY <1>1 DEF Keeps
<1> QED BY <1>1, <1>2

LEMMA NewMade == MadeFrom(newMatches, {})
  BY NewGood DEF MadeFrom, Keeps

LEMMA AddMade ==
  ASSUME NEW M, NEW r, MadeFrom(r, M), NEW m \in Match, NEW y \in Add(r, m)
  PROVE  MadeFrom(y, M \cup {m})
<1> DEFINE F == Fingerprint(m)
           N == M \cup {m}
<1>0. Good(r) BY DEF MadeFrom
<1>1. Good(y) BY <1>0, AddGood
<1>2. \A s \in Stored(r) \cup {m} : Derived(s, N)
  BY DerivedSelf, DerivedMore DEF MadeFrom
<1>3. ASSUME NEW z \in Stored(y) PROVE Derived(z, Stored(r) \cup {m})
  <2>0. PICK x \in addOrMerge(r, m) : y.byFingerprint = x.byFingerprint BY <1>0, AddGood
  <2>1. PICK fp \in DOMAIN y.byFingerprint : z = y.byFingerprint[fp] BY DEF Stored
  <2>2. CASE fp # F
    <3>1. z \in Stored(r) BY <2>0, <2>1, <2>2, <1>0, AddOrMergeStored DEF Stored
    <3> QED BY <3>1, DerivedSelf
  <2>3. CASE fp = F
    <3>1. Fingerprint(z) = F BY <2>1, <2>3, <1>1 DEF Good, Indexed
    <3>2. z = x.byFingerprint[F] BY <2>0, <2>1, <2>3
    <3>3. \E b \in Stored(r) \cup {m} : Fingerprint(b) = F /\ b.rec = z.rec
      BY <3>2, <1>0, AddOrMergeOrigin
    <3>4. \A ref \in z.related : \E b \in Stored(r) \cup {m} : Fingerprint(b) = F /\ ref \in b.related
      BY <3>2, <1>0, AddOrMergeOrigin
    <3>5. \A d \in z.details : \E b \in Stored(r) \cup {m} :
            coreFingerprint(b) = coreFingerprint(z) /\ d \in b.details
      BY <1>0, AddDetails
    <3> QED BY <3>1, <3>3, <3>4, <3>5 DEF Derived, Named
  <2> QED BY <2>2, <2>3
<1>4. \A z \in Stored(y) : Derived(z, N) BY <1>2, <1>3, DerivedTrans
<1>5. Keeps(Stored(y), Stored(r) \cup {m})
  BY <1>0, AddDetails DEF Keeps
<1>6. Keeps(Stored(r) \cup {m}, N) BY DEF MadeFrom, Keeps
<1>7. Keeps(Stored(y), N) BY <1>5, <1>6, KeepsTrans
<1> QED BY <1>1, <1>4, <1>7 DEF MadeFrom

(***************************************************************************)
(* Lists of matches.  AddAll is a recursive function, and what it computes *)
(* is shown by looking at the least number of matches for which it would   *)
(* not be so.                                                              *)
(***************************************************************************)
(* The collections after n matches of the list.                            *)
Added(f, rs, ms, out, k) ==
  f = [n \in 0..k |-> IF n = 0 THEN rs
                      ELSE IF ms[n] \in out THEN f[n - 1]
                      ELSE UNION {Add(r, ms[n]) : r \in f[n - 1]}]

LEMMA AddedExists ==
  ASSUME NEW rs, NEW ms, NEW out, Len(ms) \in Nat
  PROVE  \E f : Added(f, rs, ms, out, Len(ms))
<1> DEFINE Bad == {k \in Nat : ~ \E f : Added(f, rs, ms, out, k)}
<1> SUFFICES ASSUME Bad # {} PROVE FALSE OBVIOUS
<1>1. PICK k \in Bad : \A j \in Bad : k <= j BY Least
<1>2. k # 0
  <2>1. Added([n \in 0..0 |-> rs], rs, ms, out, 0) BY DEF Added
  <2> QED BY <2>1
<1>3. PICK g : Added(g, rs, ms, out, k - 1) BY <1>1, <1>2
<1> DEFINE Step(f, n) == IF ms[n] \in out THEN f[n - 1]
                         ELSE UNION {Add(r, ms[n]) : r \in f[n - 1]}
           h == [n \in 0..k |-> IF n = k THEN Step(g, n) ELSE g[n]]
<1>4. ASSUME NEW n \in 0..k PROVE h[n] = IF n = 0 THEN rs ELSE Step(h, n)
  <2>0. k \in Nat /\ n \in Nat /\ k # 0 BY <1>1, <1>2
  <2>1. CASE n = k
    <3>1. h[k - 1] = g[k - 1] BY <2>0
    <3> QED BY <2>0, <2>1, <3>1
  <2>2. CASE n # k
    <3>1. h[n] = g[n] /\ n \in 0..(k - 1) BY <2>0, <2>2
    <3>2. g[n] = IF n = 0 THEN rs ELSE Step(g, n) BY <3>1, <1>3 DEF Added
    <3>3. n # 0 => h[n - 1] = g[n - 1] BY <2>0, <2>2
    <3> QED BY <3>1, <3>2, <3>3
  <2> QED BY <2>1, <2>2
<1>5. Added(h, rs, ms, out, k) BY <1>4 DEF Added
<1> QED BY <1>5

LEMMA AddAllIs ==
  ASSUME NEW rs, NEW ms, NEW out, Len(ms) \in Nat
  PROVE  \E f : Added(f, rs, ms, out, Len(ms)) /\ AddAll(rs, ms, out) = f[Len(ms)]
<1> DEFINE F == CHOOSE f : Added(f, rs, ms, out, Len(ms))
<1>1. Added(F, rs, ms, out, Len(ms)) BY AddedExists
<1>2. AddAll(rs, ms, out) = F[Len(ms)] BY DEF AddAll, Added
<1> QED BY <1>1, <1>2

(* N is M and the members of the list ms that are not in out.              *)
Joined(N, M, ms, out) ==
  \A x : x \in N <=> x \in M \/ \E i \in DOMAIN ms : x = ms[i] /\ x \notin out

(* A collection to which a list is added, without some of its matches, is  *)
(* made from what it was made from and the rest of the list.               *)
LEMMA AddAllMade ==
  ASSUME NEW M, NEW rs, \A x \in rs : MadeFrom(x, M),
         NEW ms \in Seq(Match), NEW out, NEW r \in AddAll(rs, ms, out),
         NEW N, Joined(N, M, ms, out)
  PROVE  MadeFrom(r, N)
<1>0. Len(ms) \in Nat /\ DOMAIN ms = 1..Len(ms) OBVIOUS
<1>1. PICK f : Added(f, rs, ms, out, Len(ms)) /\ AddAll(rs, ms, out) = f[Len(ms)]
  BY <1>0, AddAllIs
<1> DEFINE Upto(n) == M \cup {ms[i] : i \in {j \in 1..n : ms[j] \notin out}}
           Bad == {n \in 0..Len(ms) : ~ \A x \in f[n] : MadeFrom(x, Upto(n))}
<1>2. f[0] = rs BY <1>0, <1>1 DEF Added
<1>3. ASSUME NEW n \in 1..Len(ms)
      PROVE  f[n] = IF ms[n] \in out THEN f[n - 1]
                    ELSE UNION {Add(x, ms[n]) : x \in f[n - 1]}
  <2> HIDE DEF Upto, Bad
  <2>1. n \in 0..Len(ms) /\ n # 0 BY <1>0
  <2> QED BY <2>1, <1>1 DEF Added
<1>4. Bad = {}
  <2> SUFFICES ASSUME Bad # {} PROVE FALSE OBVIOUS
  <2>0. Bad \in SUBSET Nat BY <1>0
  <2>1. PICK n \in Bad : \A k \in Bad : n <= k
    <3> HIDE DEF Bad
    <3> QED BY <2>0, Least
  <2>2. n # 0
    <3>1. Upto(0) = M OBVIOUS
    <3> QED BY <3>1, <1>2
  <2>3. n \in 1..Len(ms) /\ n - 1 \in 0..Len(ms) /\ ms[n] \in Match BY <2>1, <2>2, <1>0
  <2>4. \A x \in f[n - 1] : MadeFrom(x, Upto(n - 1)) BY <2>1, <2>3
  <2>5. CASE ms[n] \in out
    <3>1. Upto(n) = Upto(n - 1) BY <2>3, <2>5
    <3> HIDE DEF Upto
    <3> QED BY <3>1, <2>3, <2>4, <2>5, <1>3
  <2>6. CASE ms[n] \notin out
    <3>1. Upto(n) = Upto(n - 1) \cup {ms[n]}
      <4>1. \A j : j \in 1..n <=> j \in 1..(n - 1) \/ j = n BY <2>3
      <4> QED BY <2>6, <4>1
    <3>2. ASSUME NEW x \in f[n] PROVE MadeFrom(x, Upto(n))
      <4>0. x \in UNION {Add(y, ms[n]) : y \in f[n - 1]}
        <5> HIDE DEF Upto, Bad
        <5> QED BY <2>3, <2>6, <1>3
      <4>1. PICK y \in f[n - 1] : x \in Add(y, ms[n]) BY <4>0
      <4>2. MadeFrom(y, Upto(n - 1)) BY <2>4, <4>1
      <4> HIDE DEF Upto
      <4> QED BY <4>1, <4>2, <3>1, <2>3, AddMade
    <3> QED BY <3>2
  <2> QED BY <2>5, <2>6
<1>5. MadeFrom(r, Upto(Len(ms))) BY <1>0, <1>1, <1>4
<1>6. Upto(Len(ms)) = N BY <1>0 DEF Joined
<1> HIDE DEF Upto
<1> QED BY <1>5, <1>6

LEMMA OrdersAre ==
  ASSUME NEW M, NEW s \in Orders(M)
  PROVE  s \in Seq(M) /\ {s[i] : i \in DOMAIN s} = M
<1>1. PICK n \in 0..Cardinality(M) : s \in [1..n -> M] BY DEF Orders, SeqOf
<1>2. n \in Nat OBVIOUS
<1>3. s \in Seq(M) BY <1>1, <1>2
<1>4. {s[i] : i \in DOMAIN s} = M BY DEF Orders, ToSet
<1> QED BY <1>3, <1>4

LEMMA NewMatchesMade ==
  ASSUME NEW ms \in Seq(Match), NEW r \in NewMatches(ms), NEW N, Joined(N, {}, ms, {})
  PROVE  MadeFrom(r, N)
<1> DEFINE new == {newMatches}
           none == {}
<1>1. r \in AddAll(new, ms, none) /\ \A x \in new : MadeFrom(x, none) BY NewMade DEF NewMatches
<1> HIDE DEF new, none
<1> QED BY <1>1, AddAllMade DEF none

LEMMA CollectMade ==
  ASSUME NEW M \in SUBSET Match, NEW r \in Collect(M) \cup CollectSorted(M)
  PROVE  MadeFrom(r, M)
<1>1. PICK s \in Orders(M) : r \in NewMatches(s) BY DEF Collect, CollectSorted, SortedOrders
<1>2. s \in Seq(Match) /\ {s[i] : i \in DOMAIN s} = M BY OrdersAre
<1>3. Joined(M, {}, s, {}) BY <1>2 DEF Joined
<1> QED BY <1>1, <1>2, <1>3, NewMatchesMade
=============================================================================
