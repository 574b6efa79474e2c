---------------------------- MODULE DBDiffProofs ----------------------------
(***************************************************************************)
(* What is proved of the stores of a database and of the difference of two *)
(* databases.  A table only grows, so a reference, once valid, goes on     *)
(* naming the row it named; what a reader finds by following the           *)
(* references is what was asked to be written.  The difference is exact    *)
(* for any two databases with such tables.                                 *)
(***************************************************************************)
EXTENDS DBSearch, Induction, FiniteSetTheorems

(* A database is a function of the names of its tables.                    *)
Fields == {"providers", "blobs", "vulns", "aliases", "packages", "oses", "cpes", "links", "handles",
           "cpeHandles", "kevs", "epss", "epssDate", "cwes", "err"}
IsDB(d) == d = [f \in Fields |-> d[f]]
IsList(s) == s \in Seq(Range(s))

VulnsOf(p) == {e.vuln : e \in VulnEntries(p)}

(* The row of a vulnerability, by the id of its blob.                      *)
rowOf(v, j) ==
  [name |-> v.name, provider |-> v.provider.id, status |-> v.status, published |-> v.published,
   modified |-> IF v.modified = 0 THEN v.published ELSE v.modified, withdrawn |-> v.withdrawn, blob |-> j]
IsRow(d, r, v) == \E j \in DOMAIN d.blobs : d.blobs[j] = v.blob /\ r = rowOf(v, j)

IsPackage(r) == r = [ecosystem |-> r.ecosystem, name |-> r.name]

PkgRefs(d, h) ==
  /\ h.vuln \in DOMAIN d.vulns /\ h.pkg \in DOMAIN d.packages /\ h.blob \in DOMAIN d.blobs
  /\ h.os = 0 \/ h.os \in DOMAIN d.oses
CPERefs(d, h) == h.vuln \in DOMAIN d.vulns /\ h.cpe \in DOMAIN d.cpes /\ h.blob \in DOMAIN d.blobs

Lists(d) ==
  /\ IsDB(d) /\ d.err = FALSE
  /\ IsList(d.blobs) /\ IsList(d.vulns) /\ IsList(d.packages) /\ IsList(d.oses) /\ IsList(d.cpes)

(* The rows are those of the entries of a pool, and every reference names  *)
(* a row.                                                                  *)
Rows(d, p) ==
  /\ \A i, j \in DOMAIN d.blobs : d.blobs[i] = d.blobs[j] => i = j
  /\ \A i \in DOMAIN d.vulns : \E v \in VulnsOf(p) : IsRow(d, d.vulns[i], v)
  /\ \A i \in DOMAIN d.oses : \E o \in Systems(p) : d.oses[i] = clean(o)
  /\ \A i \in DOMAIN d.packages : IsPackage(d.packages[i])
  /\ \A i \in DOMAIN d.cpes : d.cpes[i] # None
Refs(d) == (\A h \in d.handles : PkgRefs(d, h)) /\ (\A h \in d.cpeHandles : CPERefs(d, h))

Tables(d, p) == Lists(d) /\ Rows(d, p) /\ Refs(d)

(* What a reader finds.                                                    *)
Records(d) == {attached(d, h) : h \in d.handles}
CPERecords(d) == {attachedCPE(d, h) : h \in d.cpeHandles}
Identities(d) == {vulnOf(d, i) : i \in DOMAIN d.vulns}

Scored(d) == \A r \in d.epss : r.score \in Int /\ r.percentile \in Int
scoreRow(e) == [cve |-> e.cve, score |-> e.score, percentile |-> e.percentile]

(* A database and what was asked to be written to it.                      *)
AsAsked(d, l) ==
  /\ Records(d) = l.records /\ CPERecords(d) = l.cpeRecords
  /\ Identities(d) = {identity(v) : v \in l.vulns}
  /\ d.aliases = UNION {aliasRows(v) : v \in l.vulns}
Runs(d, l) ==
  /\ \A v \in l.vulns : v.provider \in d.providers
  /\ \A q, r \in d.providers : q.id = r.id => q = r
Decorated(d, l, p) ==
  /\ \A e \in l.epss : /\ e \in {f.row : f \in {f \in DecorationEntries(p) : f.kind = "epss"}}
                       /\ scoreRow(e) \in d.epss /\ e.date = d.epssDate
  /\ d.epssDate # 0 => \E e \in l.epss : e.date = d.epssDate
  /\ \A k \in l.kevs : /\ k \in {f.row : f \in DecorationEntries(p)}
                       /\ \E r \in d.kevs : r.cve = k.cve /\ r.blob \in DOMAIN d.blobs /\ d.blobs[r.blob] = k.blob
  /\ l.cwes \subseteq {f.row : f \in DecorationEntries(p)} /\ d.cwes = l.cwes

IsLog(l, p) ==
  /\ l = [vulns |-> l.vulns, records |-> l.records, cpeRecords |-> l.cpeRecords,
          epss |-> l.epss, kevs |-> l.kevs, cwes |-> l.cwes]
  /\ l.vulns \subseteq VulnsOf(p)

(* A database that was not refused anything holds what was asked for.      *)
Faithful(d, l, p) == Tables(d, p) /\ Scored(d) /\ AsAsked(d, l) /\ Runs(d, l) /\ Decorated(d, l, p)
StoreInv == IF db.err THEN WritesAccepted ELSE Faithful(db, log, pool)

BuiltInv ==
  /\ IsList(built) /\ Len(built) <= 2
  /\ \A i \in DOMAIN built : Tables(built[i].db, pool) /\ Scored(built[i].db)

(* The directories of a command c: only a file in the making can be mixed; *)
(* an argument is ready with a whole database, unless the other goroutine  *)
(* has put its hand to the same directory and must still hydrate it, or    *)
(* failed; a first run on two directories tears nothing.                   *)
Unfinished == {"writing", "fetched", "hydrating", "failed"}
Whole == {"hydrated", "torn"}
Shares(c, a, b) == b # a /\ dirOf(c, b) = dirOf(c, a)
MixedInv(c, f) ==
  \A d \in Dirs : f[d] = "mixed" =>
    c.state = "resolving" /\ \E b \in Args : dirOf(c, b) = d /\ c.at[b] = "writing"
ReadyInv(c, f) ==
  \A a \in Args : c.at[a] = "ready" =>
    f[dirOf(c, a)] \in Whole \/ \E b \in Args : Shares(c, a, b) /\ c.at[b] \in Unfinished
TornInv(c, f) ==
  c.run = 1 /\ dirOf(c, 1) # dirOf(c, 2) /\ c.state # "killed" => \A d \in Dirs : f[d] \notin {"torn", "mixed"}
DirInv(c, f) ==
  /\ c.run # 0 /\ MixedInv(c, f) /\ TornInv(c, f)
  /\ c.state = "resolving" => ReadyInv(c, f)
  /\ c.state \in {"open", "done"} => \A a \in Args : f[dirOf(c, a)] \in Whole

(* The command, the directories its arguments resolve to, and its report.  *)
CmdInv ==
  /\ cmd # None => cmd \in Commands(pool) /\ Len(built) = 2 /\ DirInv(cmd, dir)
  /\ cmd = None => \A d \in Dirs : dir[d] = "none"
  /\ dir \in [Dirs -> DirStates]
  /\ report # None => /\ cmd # None /\ cmd.state = "done"
                      /\ report.diff # None =>
                           report.diff = Diff(cmd.include, built[cmd.order[1]].db, built[cmd.order[2]].db)

DiffInv == pool \in DOMAIN Pools /\ IsLog(log, pool) /\ StoreInv /\ BuiltInv /\ CmdInv

(***************************************************************************)
(* Databases and lists.                                                    *)
(***************************************************************************)
(* Nothing but the tables F changed.                                       *)
Only(d, e, F) == \A g \in Fields : g \notin F => e[g] = d[g]

Puts(d, f, x, e) == e = [g \in Fields |-> IF g = f THEN x ELSE d[g]]

LEMMA Put ==
  ASSUME NEW d, NEW f \in Fields, NEW x, NEW e, Puts(d, f, x, e)
  PROVE  IsDB(e) /\ e[f] = x /\ Only(d, e, {f})
<1>1. e[f] = x /\ \A g \in Fields : g # f => e[g] = d[g] BY DEF Puts
<1>2. IsDB(e) BY <1>1 DEF IsDB, Puts
<1>3. Only(d, e, {f}) BY <1>1 DEF Only
<1> QED BY <1>1, <1>2, <1>3

LEMMA ListIs ==
  ASSUME NEW S, NEW s \in Seq(S)
  PROVE  IsList(s) /\ Len(s) \in Nat /\ DOMAIN s = 1..Len(s) /\ 0 \notin DOMAIN s
<1>1. Len(s) \in Nat /\ DOMAIN s = 1..Len(s) /\ 0 \notin DOMAIN s OBVIOUS
<1>2. \A i \in 1..Len(s) : s[i] \in Range(s) BY <1>1 DEF Range
<1>3. s \in Seq(Range(s)) BY <1>1, <1>2
<1> QED BY <1>1, <1>3 DEF IsList

(* A list is longer when it has the rows of another, at their places.      *)
Longer(s, t) == DOMAIN s \subseteq DOMAIN t /\ \A i \in DOMAIN s : t[i] = s[i]

LEMMA AppendIs ==
  ASSUME NEW s, IsList(s), NEW x
  PROVE  LET t == Append(s, x)
         IN  /\ IsList(t) /\ Longer(s, t) /\ Len(s) \in Nat /\ Len(t) = Len(s) + 1
             /\ Len(t) \in DOMAIN t /\ Len(t) \notin DOMAIN s /\ t[Len(t)] = x
             /\ DOMAIN t = DOMAIN s \cup {Len(t)}
<1> DEFINE t == Append(s, x)
           S == Range(s) \cup {x}
<1>1. s \in Seq(S)
  <2>1. PICK R : R = Range(s) /\ s \in Seq(R) BY DEF IsList
  <2>2. Len(s) \in Nat /\ s \in [1..Len(s) -> R] BY <2>1
  <2>3. \A y \in R : y \in S BY <2>1
  <2> HIDE DEF S
  <2>4. s \in [1..Len(s) -> S] BY <2>2, <2>3
  <2> QED BY <2>2, <2>4
<1>2. x \in S OBVIOUS
<1> HIDE DEF S
<1>3. /\ t \in Seq(S) /\ Len(s) \in Nat /\ Len(t) = Len(s) + 1 /\ DOMAIN s = 1..Len(s) /\ DOMAIN t = 1..(Len(s) + 1)
      /\ \A i \in 1..Len(s) : t[i] = s[i]
      /\ t[Len(s) + 1] = x
  BY <1>1, <1>2
<1>4. IsList(t) BY <1>3, ListIs
<1> HIDE DEF t
<1> QED BY <1>3, <1>4 DEF Longer, t

LEMMA EmptyList == IsList(<<>>) /\ DOMAIN <<>> = {}
<1>1. PICK s \in Seq({0}) : s = <<>>
  <2>1. <<>> \in Seq({0}) OBVIOUS
  <2> QED BY <2>1
<1>2. IsList(s) BY ListIs
<1>3. DOMAIN <<>> = {} OBVIOUS
<1> QED BY <1>1, <1>2, <1>3

LEMMA LongerSelf == ASSUME NEW s PROVE Longer(s, s)
BY DEF Longer

(* cache.getID.                                                            *)
LEMMA GetID ==
  ASSUME NEW keys, NEW key, 0 \notin DOMAIN keys
  PROVE  /\ getID(keys, key) # 0 => getID(keys, key) \in DOMAIN keys /\ keys[getID(keys, key)] = key
         /\ (\E i \in DOMAIN keys : keys[i] = key) => getID(keys, key) # 0
<1> DEFINE hits == {i \in DOMAIN keys : keys[i] = key}
<1>1. getID(keys, key) = IF hits = {} THEN 0 ELSE CHOOSE i \in hits : TRUE BY Zenon DEF getID
<1>2. hits # {} => (CHOOSE i \in hits : TRUE) \in hits BY Zenon
<1>3. \A i \in hits : i # 0 /\ i \in DOMAIN keys /\ keys[i] = key OBVIOUS
<1>4. (\E i \in DOMAIN keys : keys[i] = key) => hits # {} OBVIOUS
<1> HIDE DEF hits
<1> QED BY <1>1, <1>2, <1>3, <1>4

(***************************************************************************)
(* Tables that grow.                                                       *)
(***************************************************************************)
Grown(d, e) ==
  /\ Longer(d.blobs, e.blobs) /\ Longer(d.vulns, e.vulns) /\ Longer(d.packages, e.packages)
  /\ Longer(d.oses, e.oses) /\ Longer(d.cpes, e.cpes)

LEMMA GrownTwice ==
  ASSUME NEW c, NEW d, NEW e, Grown(c, d), Grown(d, e) PROVE Grown(c, e)
<1>1. ASSUME NEW s, NEW t, NEW u, Longer(s, t), Longer(t, u) PROVE Longer(s, u) BY <1>1 DEF Longer
<1> QED BY <1>1 DEF Grown

LEMMA TablesList ==
  ASSUME NEW d, NEW p, Tables(d, p)
  PROVE  /\ 0 \notin DOMAIN d.blobs /\ 0 \notin DOMAIN d.vulns /\ 0 \notin DOMAIN d.packages
         /\ 0 \notin DOMAIN d.oses /\ 0 \notin DOMAIN d.cpes
         /\ IsDB(d) /\ d.err = FALSE
<1>1. ASSUME NEW s, IsList(s) PROVE 0 \notin DOMAIN s
  <2>1. PICK S : s \in Seq(S) BY <1>1 DEF IsList
  <2> QED BY <2>1, ListIs
<1> QED BY <1>1 DEF Tables, Lists

LEMMA ReadsSame ==
  ASSUME NEW d, NEW e, NEW p, Tables(d, p), Grown(d, e)
  PROVE  /\ \A i \in DOMAIN d.vulns : /\ vulnOf(e, i) = vulnOf(d, i)
                                      /\ \E v \in VulnsOf(p) : IsRow(e, e.vulns[i], v)
         /\ \A h : PkgRefs(d, h) => PkgRefs(e, h) /\ attached(e, h) = attached(d, h)
         /\ \A h : CPERefs(d, h) => CPERefs(e, h) /\ attachedCPE(e, h) = attachedCPE(d, h)
<1>1. ASSUME NEW i \in DOMAIN d.vulns
      PROVE  /\ vulnOf(e, i) = vulnOf(d, i)
             /\ \E v \in VulnsOf(p) : IsRow(e, e.vulns[i], v)
  <2>1. PICK v \in VulnsOf(p) : IsRow(d, d.vulns[i], v) BY DEF Tables, Rows
  <2>2. PICK j \in DOMAIN d.blobs : d.blobs[j] = v.blob /\ d.vulns[i] = rowOf(v, j) BY <2>1 DEF IsRow
  <2>3. d.vulns[i].blob = j BY <2>2 DEF rowOf
  <2>4. e.vulns[i] = d.vulns[i] /\ e.blobs[j] = d.blobs[j] /\ j \in DOMAIN e.blobs BY DEF Grown, Longer
  <2>5. IsRow(e, e.vulns[i], v) BY <2>2, <2>4 DEF IsRow
  <2>6. vulnOf(e, i) = vulnOf(d, i) BY <2>3, <2>4 DEF vulnOf, blobValue
  <2> QED BY <2>5, <2>6
<1>2. ASSUME NEW h, PkgRefs(d, h) PROVE PkgRefs(e, h) /\ attached(e, h) = attached(d, h)
  <2>1. /\ h.vuln \in DOMAIN d.vulns /\ h.pkg \in DOMAIN d.packages /\ h.blob \in DOMAIN d.blobs
        /\ h.os = 0 \/ h.os \in DOMAIN d.oses
    BY <1>2 DEF PkgRefs
  <2>2. PkgRefs(e, h) BY <2>1 DEF PkgRefs, Grown, Longer
  <2>3. vulnOf(e, h.vuln) = vulnOf(d, h.vuln) BY <1>1, <2>1
  <2>4. /\ blobValue(e, h.blob) = blobValue(d, h.blob) /\ OSOf(e, h.os) = OSOf(d, h.os)
        /\ pkgKey(e.packages[h.pkg]) = pkgKey(d.packages[h.pkg])
    BY <2>1 DEF Grown, Longer, blobValue, OSOf
  <2> QED BY <2>2, <2>3, <2>4 DEF attached
<1>3. ASSUME NEW h, CPERefs(d, h) PROVE CPERefs(e, h) /\ attachedCPE(e, h) = attachedCPE(d, h)
  <2>1. h.vuln \in DOMAIN d.vulns /\ h.cpe \in DOMAIN d.cpes /\ h.blob \in DOMAIN d.blobs
    BY <1>3 DEF CPERefs
  <2>2. CPERefs(e, h) BY <2>1 DEF CPERefs, Grown, Longer
  <2>3. vulnOf(e, h.vuln) = vulnOf(d, h.vuln) BY <1>1, <2>1
  <2>4. /\ blobValue(e, h.blob) = blobValue(d, h.blob) /\ cpeKey(e.cpes[h.cpe]) = cpeKey(d.cpes[h.cpe])
    BY <2>1 DEF Grown, Longer, blobValue
  <2> QED BY <2>2, <2>3, <2>4 DEF attachedCPE
<1> QED BY <1>1, <1>2, <1>3

(* Handles that stay read the same.                                        *)
LEMMA HandlesStay ==
  ASSUME NEW d, NEW e, NEW p, Tables(d, p), Grown(d, e), e.handles = d.handles, e.cpeHandles = d.cpeHandles
  PROVE  Refs(e) /\ Records(e) = Records(d) /\ CPERecords(e) = CPERecords(d)
<1>1. \A h \in d.handles : PkgRefs(d, h) BY DEF Tables, Refs
<1>2. \A h \in d.cpeHandles : CPERefs(d, h) BY DEF Tables, Refs
<1>3. \A h \in d.handles : PkgRefs(e, h) /\ attached(e, h) = attached(d, h) BY <1>1, ReadsSame
<1>4. \A h \in d.cpeHandles : CPERefs(e, h) /\ attachedCPE(e, h) = attachedCPE(d, h) BY <1>2, ReadsSame
<1>5. Refs(e) BY <1>3, <1>4 DEF Refs
<1>6. Records(e) = Records(d) BY <1>3 DEF Records
<1>7. CPERecords(e) = CPERecords(d) BY <1>4 DEF CPERecords
<1> QED BY <1>5, <1>6, <1>7

(***************************************************************************)
(* The stores.                                                             *)
(***************************************************************************)
LEMMA addBlobsIs ==
  ASSUME NEW d, NEW p, Tables(d, p), NEW b
  PROVE  LET e == addBlobs(d, b)
         IN  /\ Tables(e, p) /\ Grown(d, e) /\ Only(d, e, {"blobs"})
             /\ blobID(e, b) \in DOMAIN e.blobs /\ e.blobs[blobID(e, b)] = b
<1> DEFINE e == addBlobs(d, b)
<1>1. 0 \notin DOMAIN d.blobs /\ IsDB(d) /\ IsList(d.blobs) BY TablesList DEF Tables, Lists
<1>2. CASE getID(d.blobs, b) # 0
  <2>1. e = d BY <1>2 DEF addBlobs
  <2>2. Grown(d, e) BY <2>1, LongerSelf DEF Grown
  <2>3. blobID(d, b) \in DOMAIN d.blobs /\ d.blobs[blobID(d, b)] = b BY <1>1, <1>2, GetID DEF blobID
  <2> HIDE DEF e
  <2> QED BY <2>1, <2>2, <2>3 DEF Only, e
<1>3. CASE getID(d.blobs, b) = 0
  <2>1. Puts(d, "blobs", Append(d.blobs, b), e)
    <3>1. DOMAIN d = Fields BY <1>1, Zenon DEF IsDB
    <3>2. e = [d EXCEPT !.blobs = Append(d.blobs, b)] BY <1>3 DEF addBlobs
    <3> QED BY <3>1, <3>2 DEF Puts
  <2>2. "blobs" \in Fields BY DEF Fields
  <2> HIDE DEF e
  <2>3. IsDB(e) /\ e.blobs = Append(d.blobs, b) /\ Only(d, e, {"blobs"}) BY <2>1, <2>2, Put
  <2>4. e.blobs = Append(d.blobs, b) BY <2>3
  <2>5. /\ e.vulns = d.vulns /\ e.packages = d.packages /\ e.oses = d.oses /\ e.cpes = d.cpes /\ e.err = d.err
        /\ e.handles = d.handles /\ e.cpeHandles = d.cpeHandles
    BY <2>3 DEF Fields, Only
  <2>6. /\ IsList(e.blobs) /\ Longer(d.blobs, e.blobs)
        /\ \E n : /\ n \in DOMAIN e.blobs /\ n \notin DOMAIN d.blobs /\ e.blobs[n] = b
                  /\ DOMAIN e.blobs = DOMAIN d.blobs \cup {n}
    BY <2>4, <1>1, AppendIs
  <2>7. PICK n : /\ n \in DOMAIN e.blobs /\ n \notin DOMAIN d.blobs /\ e.blobs[n] = b
                 /\ DOMAIN e.blobs = DOMAIN d.blobs \cup {n}
    BY <2>6
  <2>8. Grown(d, e) BY <2>5, <2>6, LongerSelf DEF Grown
  <2>9. Lists(e) BY <2>3, <2>5, <2>6 DEF Lists, Tables
  <2>10. Refs(e) BY <2>5, <2>8, HandlesStay
  <2>11. \A i \in DOMAIN d.blobs : d.blobs[i] # b BY <1>1, <1>3, GetID
  <2>12. \A i, j \in DOMAIN e.blobs : e.blobs[i] = e.blobs[j] => i = j
    BY <2>6, <2>7, <2>11 DEF Longer, Tables, Rows
  <2>13. \A i \in DOMAIN e.vulns : \E v \in VulnsOf(p) : IsRow(e, e.vulns[i], v) BY <2>5, <2>8, ReadsSame
  <2>14. Rows(e, p) BY <2>5, <2>12, <2>13 DEF Rows, Tables
  <2>15. 0 \notin DOMAIN e.blobs BY <2>9, <2>10, <2>14, TablesList DEF Tables
  <2>16. blobID(e, b) \in DOMAIN e.blobs /\ e.blobs[blobID(e, b)] = b BY <2>7, <2>15, GetID DEF blobID
  <2> QED BY <2>3, <2>8, <2>9, <2>10, <2>14, <2>16 DEF Tables, e
<1> QED BY <1>2, <1>3

(* Lists that grow by rows of the pool leave the tables sound.             *)
LEMMA Keeps ==
  ASSUME NEW d, NEW e, NEW p, Tables(d, p), IsDB(e), e.err = FALSE,
         e.blobs = d.blobs, e.handles = d.handles, e.cpeHandles = d.cpeHandles, Grown(d, e),
         IsList(e.vulns), IsList(e.packages), IsList(e.oses), IsList(e.cpes),
         \A i \in DOMAIN e.vulns : i \notin DOMAIN d.vulns => \E v \in VulnsOf(p) : IsRow(e, e.vulns[i], v),
         \A i \in DOMAIN e.oses : i \notin DOMAIN d.oses => \E o \in Systems(p) : e.oses[i] = clean(o),
         \A i \in DOMAIN e.packages : i \notin DOMAIN d.packages => IsPackage(e.packages[i]),
         \A i \in DOMAIN e.cpes : i \notin DOMAIN d.cpes => e.cpes[i] # None
  PROVE  Tables(e, p) /\ Records(e) = Records(d) /\ CPERecords(e) = CPERecords(d)
<1>1. Refs(e) /\ Records(e) = Records(d) /\ CPERecords(e) = CPERecords(d) BY HandlesStay
<1>2. Lists(e) BY DEF Lists, Tables
<1>3. \A i \in DOMAIN e.vulns : \E v \in VulnsOf(p) : IsRow(e, e.vulns[i], v)
  <2>1. ASSUME NEW i \in DOMAIN e.vulns PROVE \E v \in VulnsOf(p) : IsRow(e, e.vulns[i], v)
    <3>1. CASE i \in DOMAIN d.vulns BY <3>1, ReadsSame
    <3>2. CASE i \notin DOMAIN d.vulns BY <3>2
    <3> QED BY <3>1, <3>2
  <2> QED BY <2>1
<1>4. \A i \in DOMAIN e.oses : \E o \in Systems(p) : e.oses[i] = clean(o)
  BY DEF Tables, Rows, Grown, Longer
<1>5. \A i \in DOMAIN e.packages : IsPackage(e.packages[i]) BY DEF Tables, Rows, Grown, Longer
<1>6. Rows(e, p)
  <2>1. \A i, j \in DOMAIN e.blobs : e.blobs[i] = e.blobs[j] => i = j BY DEF Tables, Rows
  <2>2. \A i \in DOMAIN e.cpes : e.cpes[i] # None BY DEF Tables, Rows, Grown, Longer
  <2> QED BY <2>1, <2>2, <1>3, <1>4, <1>5 DEF Rows
<1> QED BY <1>1, <1>2, <1>6 DEF Tables

(* The row with the key of a vulnerability reads as that vulnerability.    *)
Keyed(d, i, v) ==
  \E j \in DOMAIN d.blobs : d.blobs[j] = v.blob /\ vulnKey(d.vulns[i]) = <<Lower(v.name), Lower(v.provider.id), j>>
Holds(d, v) == \E i \in DOMAIN d.vulns : Keyed(d, i, v)

LEMMA KeyReads ==
  ASSUME NEW d, NEW p \in DOMAIN Pools, Tables(d, p), NEW v \in VulnsOf(p), NEW i \in DOMAIN d.vulns, Keyed(d, i, v)
  PROVE  vulnOf(d, i) = identity(v)
<1>1. PICK j \in DOMAIN d.blobs :
        d.blobs[j] = v.blob /\ vulnKey(d.vulns[i]) = <<Lower(v.name), Lower(v.provider.id), j>>
  BY DEF Keyed
<1>2. PICK w \in VulnsOf(p) : IsRow(d, d.vulns[i], w) BY DEF Tables, Rows
<1>3. PICK k \in DOMAIN d.blobs : d.blobs[k] = w.blob /\ d.vulns[i] = rowOf(w, k) BY <1>2 DEF IsRow
<1>4. d.vulns[i].name = w.name /\ d.vulns[i].provider = w.provider.id /\ d.vulns[i].blob = k BY <1>3 DEF rowOf
<1>5. Lower(w.name) = Lower(v.name) /\ Lower(w.provider.id) = Lower(v.provider.id) /\ k = j
  BY <1>1, <1>4 DEF vulnKey
<1>6. PICK e \in VulnEntries(p), f \in VulnEntries(p) : w = e.vuln /\ v = f.vuln BY DEF VulnsOf
<1>7. w.provider.id = v.provider.id BY <1>5, <1>6, PoolsAssumption
<1> QED BY <1>1, <1>4, <1>5, <1>7 DEF vulnOf, blobValue, identity

LEMMA HoldsID ==
  ASSUME NEW d, NEW p \in DOMAIN Pools, Tables(d, p), NEW v \in VulnsOf(p), Holds(d, v)
  PROVE  vulnID(d, v) \in DOMAIN d.vulns /\ vulnOf(d, vulnID(d, v)) = identity(v)
<1>1. PICK i \in DOMAIN d.vulns : Keyed(d, i, v) BY DEF Holds
<1>2. PICK j \in DOMAIN d.blobs :
        d.blobs[j] = v.blob /\ vulnKey(d.vulns[i]) = <<Lower(v.name), Lower(v.provider.id), j>>
  BY <1>1 DEF Keyed
<1>3. 0 \notin DOMAIN d.blobs /\ 0 \notin DOMAIN d.vulns BY TablesList
<1>4. blobID(d, v.blob) = j
  <2>1. blobID(d, v.blob) \in DOMAIN d.blobs /\ d.blobs[blobID(d, v.blob)] = v.blob BY <1>2, <1>3, GetID DEF blobID
  <2> QED BY <2>1, <1>2 DEF Tables, Rows
<1>5. vulnKey(vulnRow(d, v)) = <<Lower(v.name), Lower(v.provider.id), j>> BY <1>4 DEF vulnKey, vulnRow
<1> DEFINE keys == vulnKeys(d)
           key == vulnKey(vulnRow(d, v))
<1>6. DOMAIN keys = DOMAIN d.vulns /\ \A k \in DOMAIN d.vulns : keys[k] = vulnKey(d.vulns[k]) BY DEF vulnKeys
<1>7. vulnID(d, v) = getID(keys, key) BY DEF vulnID
<1> HIDE DEF keys, key
<1>8. keys[i] = key BY <1>2, <1>5, <1>6 DEF key
<1>9. getID(keys, key) \in DOMAIN keys /\ keys[getID(keys, key)] = key BY <1>3, <1>6, <1>8, GetID
<1>10. Keyed(d, vulnID(d, v), v) BY <1>2, <1>5, <1>6, <1>7, <1>9 DEF Keyed, key
<1> QED BY <1>6, <1>7, <1>9, <1>10, KeyReads

LEMMA HoldsOn ==
  ASSUME NEW d, NEW e, NEW v, Holds(d, v), Grown(d, e) PROVE Holds(e, v)
<1>1. PICK i \in DOMAIN d.vulns : Keyed(d, i, v) BY DEF Holds
<1>2. PICK j \in DOMAIN d.blobs :
        d.blobs[j] = v.blob /\ vulnKey(d.vulns[i]) = <<Lower(v.name), Lower(v.provider.id), j>>
  BY <1>1 DEF Keyed
<1>3. i \in DOMAIN e.vulns /\ e.vulns[i] = d.vulns[i] /\ j \in DOMAIN e.blobs /\ e.blobs[j] = d.blobs[j]
  BY DEF Grown, Longer
<1>4. Keyed(e, i, v) BY <1>2, <1>3 DEF Keyed
<1> QED BY <1>3, <1>4 DEF Holds

LEMMA addVulnIs ==
  ASSUME NEW d, NEW p \in DOMAIN Pools, Tables(d, p), NEW v \in VulnsOf(p)
  PROVE  LET e == addVuln(d, v)
         IN  /\ Tables(e, p) /\ Grown(d, e) /\ Only(d, e, {"blobs", "aliases", "vulns"}) /\ Holds(e, v)
             /\ Records(e) = Records(d) /\ CPERecords(e) = CPERecords(d)
             /\ Identities(e) = Identities(d) \cup {identity(v)}
             /\ e.aliases = d.aliases \cup aliasRows(v)
<1> DEFINE wb == addBlobs(d, v.blob)
           wa == [wb EXCEPT !.aliases = @ \cup aliasRows(v)]
           row == vulnRow(wb, v)
           e == addVuln(d, v)
           j == blobID(wb, v.blob)
<1>1. /\ Tables(wb, p) /\ Grown(d, wb) /\ Only(d, wb, {"blobs"})
      /\ j \in DOMAIN wb.blobs /\ wb.blobs[j] = v.blob
  BY addBlobsIs
<1>2. e = createRecordsWithCache(wa, row) BY DEF addVuln
<1>3. row = rowOf(v, j) BY DEF vulnRow, rowOf
<1>4. IsDB(wa) /\ wa.aliases = wb.aliases \cup aliasRows(v) /\ Only(wb, wa, {"aliases"})
  <2>1. IsDB(wb) BY <1>1, TablesList
  <2>2. Puts(wb, "aliases", wb.aliases \cup aliasRows(v), wa)
    <3>1. DOMAIN wb = Fields BY <2>1, Zenon DEF IsDB
    <3> HIDE DEF wb
    <3> QED BY <3>1 DEF Puts
  <2>3. "aliases" \in Fields BY DEF Fields
  <2> HIDE DEF wa
  <2> QED BY <2>2, <2>3, Put
<1> HIDE DEF wb, wa, row, e, j
<1>5. /\ wa.blobs = wb.blobs /\ wa.vulns = wb.vulns /\ wa.packages = wb.packages /\ wa.oses = wb.oses
      /\ wa.cpes = wb.cpes /\ wa.err = wb.err /\ wa.handles = wb.handles /\ wa.cpeHandles = wb.cpeHandles
  BY <1>4 DEF Only, Fields
<1>6. Grown(wb, wa) BY <1>5, LongerSelf DEF Grown
<1>7. Tables(wa, p) /\ Records(wa) = Records(wb) /\ CPERecords(wa) = CPERecords(wb)
  BY <1>1, <1>4, <1>5, <1>6, Keeps DEF Tables, Lists
<1>8. wb.vulns = d.vulns /\ wb.handles = d.handles /\ wb.cpeHandles = d.cpeHandles /\ wb.aliases = d.aliases
  BY <1>1 DEF Only, Fields
<1>9. Records(wb) = Records(d) /\ CPERecords(wb) = CPERecords(d) BY <1>1, <1>8, HandlesStay
<1>10. Grown(d, wa) BY <1>1, <1>6, GrownTwice
<1>11. Only(d, wa, {"blobs", "aliases", "vulns"}) BY <1>1, <1>4 DEF Only
<1>12. vulnKey(row) = <<Lower(v.name), Lower(v.provider.id), j>> BY <1>3 DEF vulnKey, rowOf
<1>13. j \in DOMAIN wa.blobs /\ wa.blobs[j] = v.blob BY <1>1, <1>5
<1>14. \A i \in DOMAIN d.vulns : vulnOf(wa, i) = vulnOf(d, i) BY <1>10, ReadsSame
<1>15. DOMAIN wa.vulns = DOMAIN d.vulns BY <1>5, <1>8
<1>16. Identities(wa) = Identities(d) BY <1>14, <1>15 DEF Identities
<1> DEFINE keys == vulnKeys(wa)
           key == vulnKey(row)
<1>17. DOMAIN keys = DOMAIN wa.vulns /\ \A k \in DOMAIN wa.vulns : keys[k] = vulnKey(wa.vulns[k]) BY DEF vulnKeys
<1>18. e = IF getID(keys, key) # 0 THEN wa ELSE [wa EXCEPT !.vulns = Append(wa.vulns, row)]
  BY <1>2 DEF createRecordsWithCache
<1>19. 0 \notin DOMAIN keys BY <1>7, <1>17, TablesList
<1> HIDE DEF keys, key
<1>20. CASE getID(keys, key) # 0
  <2>1. e = wa BY <1>18, <1>20
  <2>2. PICK i \in DOMAIN wa.vulns : keys[i] = key BY <1>17, <1>19, <1>20, GetID
  <2>3. Keyed(wa, i, v) BY <2>2, <1>12, <1>13, <1>17 DEF Keyed, key
  <2>4. vulnOf(wa, i) = identity(v) BY <2>3, <1>7, KeyReads
  <2>5. identity(v) \in Identities(wa) BY <2>4 DEF Identities
  <2>6. Holds(e, v) BY <2>1, <2>3 DEF Holds
  <2>7. Identities(e) = Identities(d) \cup {identity(v)} BY <2>1, <2>5, <1>16
  <2>8. e.aliases = d.aliases \cup aliasRows(v) BY <2>1, <1>4, <1>8
  <2> QED BY <2>1, <2>6, <2>7, <2>8, <1>7, <1>9, <1>10, <1>11 DEF e
<1>21. CASE getID(keys, key) = 0
  <2>1. IsDB(e) /\ e.vulns = Append(wa.vulns, row) /\ Only(wa, e, {"vulns"})
    <3>1. e = [wa EXCEPT !.vulns = Append(wa.vulns, row)] BY <1>18, <1>21
    <3>2. Puts(wa, "vulns", Append(wa.vulns, row), e)
      <4>1. DOMAIN wa = Fields BY <1>4, Zenon DEF IsDB
      <4> QED BY <3>1, <4>1 DEF Puts
    <3>3. "vulns" \in Fields BY DEF Fields
    <3> QED BY <3>2, <3>3, Put
  <2>2. /\ e.blobs = wa.blobs /\ e.packages = wa.packages /\ e.oses = wa.oses /\ e.aliases = wa.aliases
        /\ e.cpes = wa.cpes /\ e.err = wa.err /\ e.handles = wa.handles /\ e.cpeHandles = wa.cpeHandles
    BY <2>1 DEF Only, Fields
  <2>3. IsList(wa.vulns) /\ IsList(wa.packages) /\ IsList(wa.oses) /\ IsList(wa.cpes) BY <1>7 DEF Tables, Lists
  <2>4. PICK n : /\ IsList(e.vulns) /\ Longer(wa.vulns, e.vulns) /\ n \notin DOMAIN wa.vulns
                 /\ e.vulns[n] = row /\ DOMAIN e.vulns = DOMAIN wa.vulns \cup {n}
    BY <2>1, <2>3, AppendIs
  <2>5. Grown(wa, e) BY <2>2, <2>4, LongerSelf DEF Grown
  <2>6. IsRow(e, row, v) BY <2>2, <1>3, <1>13 DEF IsRow
  <2>7. \A i \in DOMAIN e.vulns : i \notin DOMAIN wa.vulns => \E w \in VulnsOf(p) : IsRow(e, e.vulns[i], w)
    BY <2>4, <2>6
  <2>8. e.err = FALSE BY <2>2, <1>7 DEF Tables, Lists
  <2>9. Tables(e, p) /\ Records(e) = Records(wa) /\ CPERecords(e) = CPERecords(wa)
    BY <2>1, <2>2, <2>3, <2>4, <2>5, <2>7, <2>8, <1>7, Keeps
  <2>10. Grown(d, e) BY <2>5, <1>10, GrownTwice
  <2>11. Only(d, e, {"blobs", "aliases", "vulns"}) BY <2>1, <1>11 DEF Only
  <2>12. n \in DOMAIN e.vulns /\ Keyed(e, n, v) BY <2>2, <2>4, <1>12, <1>13 DEF Keyed
  <2>13. Holds(e, v) BY <2>12 DEF Holds
  <2>14. vulnOf(e, n) = identity(v) BY <2>12, <2>9, KeyReads
  <2>15. \A i \in DOMAIN wa.vulns : vulnOf(e, i) = vulnOf(wa, i) BY <2>5, <1>7, ReadsSame
  <2>16. Identities(e) = Identities(wa) \cup {identity(v)} BY <2>4, <2>14, <2>15 DEF Identities
  <2>17. e.aliases = d.aliases \cup aliasRows(v) BY <2>2, <1>4, <1>8
  <2> QED BY <2>9, <2>10, <2>11, <2>13, <2>16, <2>17, <1>7, <1>9, <1>16 DEF e
<1> QED BY <1>20, <1>21

(* The key of the cache, the unique index and the columns two databases    *)
(* are compared by tell the same operating systems apart.                  *)
LEMMA SystemsTold ==
  ASSUME NEW p \in DOMAIN Pools, NEW o \in {clean(s) : s \in Systems(p)},
         NEW q \in {clean(s) : s \in Systems(p)}
  PROVE  /\ o.name # None /\ osIndex(o) # None
         /\ osKey(o) = osKey(q) <=> osIndex(o) = osIndex(q)
         /\ columns(o) = columns(q) <=> osIndex(o) = osIndex(q)
<1> DEFINE Number(x) == IF x.label = None THEN x.major # <<>>
                        ELSE x.major = <<>> /\ x.minor = <<>> /\ x.channel = None
           Numbers(a, i, c) == [major |-> a, minor |-> i, channel |-> c]
<1>1. o.name # None /\ osIndex(o) # None BY PoolsAssumption
<1>2. Number(o) /\ Number(q) BY PoolsAssumption
<1>3. Lower(o.name) = Lower(q.name) => o.name = q.name /\ o.release = q.release BY PoolsAssumption
<1>4. o.name = q.name /\ o.label # None /\ q.label # None => o.label = q.label BY PoolsAssumption
<1>5. o.name = q.name /\ o.major = q.major /\ o.minor = q.minor => o.codename = q.codename
  BY PoolsAssumption
<1>6. Version(o) = IF o.label # None THEN [label |-> Lower(o.label)] ELSE Numbers(o.major, o.minor, o.channel)
  BY <1>2 DEF Version
<1>7. Version(q) = IF q.label # None THEN [label |-> Lower(q.label)] ELSE Numbers(q.major, q.minor, q.channel)
  BY <1>2 DEF Version
<1>8. ASSUME NEW a, NEW i, NEW c, NEW a2, NEW i2, NEW c2
       PROVE  Numbers(a, i, c) = Numbers(a2, i2, c2) <=> a = a2 /\ i = i2 /\ c = c2
  OBVIOUS
<1>9. ASSUME NEW l, NEW a, NEW i, NEW c PROVE [label |-> l] # Numbers(a, i, c)
  <2>1. "label" \in DOMAIN [label |-> l] /\ "label" \notin DOMAIN Numbers(a, i, c) OBVIOUS
  <2> QED BY <2>1
<1>10. osKey(o) = osKey(q) <=> Lower(o.name) = Lower(q.name) /\ Version(o) = Version(q) BY DEF osKey
<1>11. osIndex(o) = osIndex(q) <=>
         /\ Lower(o.name) = Lower(q.name) /\ Lower(o.release) = Lower(q.release)
         /\ o.major = q.major /\ o.minor = q.minor /\ Lower(o.label) = Lower(q.label)
         /\ o.channel = q.channel
  BY DEF osIndex
<1>12. columns(o) = columns(q) <=>
         /\ o.name = q.name /\ o.major = q.major /\ o.minor = q.minor
         /\ o.codename = q.codename /\ o.channel = q.channel
  BY DEF columns
<1>13. (o.label = None <=> q.label = None) => (Lower(o.name) = Lower(q.name) => o.label = q.label)
  BY <1>3, <1>4
<1>14. o.major = q.major => (o.label = None <=> q.label = None) BY <1>2
<1>15. Version(o) = Version(q) => (o.label = None <=> q.label = None) /\ o.major = q.major /\ o.minor = q.minor
                                  /\ o.channel = q.channel
  <2> HIDE DEF Numbers
  <2>1. CASE o.label # None /\ q.label # None BY <2>1, <1>2
  <2>2. CASE o.label = None /\ q.label = None BY <2>2, <1>6, <1>7, <1>8
  <2>3. CASE o.label # None /\ q.label = None BY <2>3, <1>9, <1>6, <1>7
  <2>4. CASE o.label = None /\ q.label # None BY <2>4, <1>9, <1>6, <1>7
  <2> QED BY <2>1, <2>2, <2>3, <2>4
<1> HIDE DEF Numbers, Number
<1>16. osKey(o) = osKey(q) => osIndex(o) = osIndex(q) BY <1>3, <1>10, <1>11, <1>13, <1>15
<1>17. osIndex(o) = osIndex(q) => osKey(o) = osKey(q)
  BY <1>6, <1>7, <1>10, <1>11, <1>13, <1>14
<1>18. columns(o) = columns(q) => osIndex(o) = osIndex(q) BY <1>3, <1>11, <1>12, <1>13, <1>14
<1>19. osIndex(o) = osIndex(q) => columns(o) = columns(q) BY <1>3, <1>5, <1>11, <1>12
<1> QED BY <1>1, <1>16, <1>17, <1>18, <1>19

(* One list of rows grows by a row, or stays.                              *)
LEMMA addOsIs ==
  ASSUME NEW d, NEW p \in DOMAIN Pools, Tables(d, p), NEW os, os = None \/ os \in Systems(p)
  PROVE  LET e == addOsFromPackages(d, os)
         IN  /\ Tables(e, p) /\ Grown(d, e) /\ Only(d, e, {"oses"})
             /\ Records(e) = Records(d) /\ CPERecords(e) = CPERecords(d)
             /\ osID(e, os) = 0 \/ osID(e, os) \in DOMAIN e.oses
             /\ OSOf(e, osID(e, os)) = IF os = None THEN None ELSE osIndex(clean(os))
<1> DEFINE e == addOsFromPackages(d, os)
           o == clean(os)
           keys == osKeys(d)
<1>1. DOMAIN keys = DOMAIN d.oses /\ \A i \in DOMAIN d.oses : keys[i] = osKey(d.oses[i]) BY DEF osKeys
<1>2. 0 \notin DOMAIN d.oses BY TablesList
<1>3. os # None => \A i \in DOMAIN d.oses : osKey(d.oses[i]) = osKey(o) <=> osIndex(d.oses[i]) = osIndex(o)
  <2>1. ASSUME os # None, NEW i \in DOMAIN d.oses
        PROVE  osKey(d.oses[i]) = osKey(o) <=> osIndex(d.oses[i]) = osIndex(o)
    <3>1. os \in Systems(p) BY <2>1
    <3>2. PICK s \in Systems(p) : d.oses[i] = clean(s) BY DEF Tables, Rows
    <3>3. o \in {clean(t) : t \in Systems(p)} /\ d.oses[i] \in {clean(t) : t \in Systems(p)} BY <3>1, <3>2
    <3> HIDE DEF o
    <3> QED BY <3>3, SystemsTold
  <2> QED BY <2>1
<1> HIDE DEF o, keys
<1>4. CASE os = None
  <2>1. e = d BY <1>4 DEF addOsFromPackages
  <2>2. Grown(d, d) BY LongerSelf DEF Grown
  <2>3. osID(d, os) = 0 BY <1>4 DEF osID
  <2>4. OSOf(d, 0) = None BY DEF OSOf
  <2> HIDE DEF e
  <2> QED BY <2>1, <2>2, <2>3, <2>4, <1>4 DEF Only, e
<1>5. CASE os # None /\ getID(keys, osKey(o)) # 0
  <2>1. e = d BY <1>5 DEF addOsFromPackages, keys, o
  <2>2. Grown(d, d) BY LongerSelf DEF Grown
  <2>3. osID(d, os) = getID(keys, osKey(o)) BY <1>5 DEF osID, keys, o
  <2>4. getID(keys, osKey(o)) \in DOMAIN d.oses /\ osKey(d.oses[getID(keys, osKey(o))]) = osKey(o)
    BY <1>1, <1>2, <1>5, GetID
  <2>5. osID(d, os) \in DOMAIN d.oses /\ osIndex(d.oses[osID(d, os)]) = osIndex(o) BY <2>3, <2>4, <1>3, <1>5
  <2>6. OSOf(d, osID(d, os)) = osIndex(o) BY <2>5, <1>2 DEF OSOf
  <2> HIDE DEF e
  <2> QED BY <2>1, <2>2, <2>5, <2>6, <1>5 DEF Only, e, o
<1>6. CASE os # None /\ getID(keys, osKey(o)) = 0
  <2>1. e = createOS(d, o) BY <1>6 DEF addOsFromPackages, keys, o
  <2>2. \A i \in DOMAIN d.oses : osKey(d.oses[i]) # osKey(o) BY <1>1, <1>2, <1>6, GetID
  <2>3. e = [d EXCEPT !.oses = Append(d.oses, o)] BY <2>1, <2>2, <1>3, <1>6 DEF createOS
  <2> HIDE DEF e
  <2>4. IsDB(e) /\ e.oses = Append(d.oses, o) /\ Only(d, e, {"oses"})
    <3>1. Puts(d, "oses", Append(d.oses, o), e)
      <4>1. IsDB(d) BY TablesList
      <4>2. DOMAIN d = Fields BY <4>1, Zenon DEF IsDB
      <4> QED BY <2>3, <4>2 DEF Puts
    <3>2. "oses" \in Fields BY DEF Fields
    <3> QED BY <3>1, <3>2, Put
  <2>5. /\ e.blobs = d.blobs /\ e.packages = d.packages /\ e.vulns = d.vulns
        /\ e.cpes = d.cpes /\ e.err = d.err /\ e.handles = d.handles /\ e.cpeHandles = d.cpeHandles
    BY <2>4 DEF Only, Fields
  <2>6. IsList(d.vulns) /\ IsList(d.packages) /\ IsList(d.oses) /\ IsList(d.cpes) /\ d.err = FALSE
    BY DEF Tables, Lists
  <2>7. PICK n : /\ IsList(e.oses) /\ Longer(d.oses, e.oses) /\ n \notin DOMAIN d.oses
                 /\ e.oses[n] = o /\ DOMAIN e.oses = DOMAIN d.oses \cup {n}
    BY <2>4, <2>6, AppendIs
  <2>8. Grown(d, e) BY <2>5, <2>7, LongerSelf DEF Grown
  <2>9. \A i \in DOMAIN e.oses : i \notin DOMAIN d.oses => \E s \in Systems(p) : e.oses[i] = clean(s)
    BY <2>7, <1>6 DEF o
  <2>10. Tables(e, p) /\ Records(e) = Records(d) /\ CPERecords(e) = CPERecords(d)
    BY <2>4, <2>5, <2>6, <2>7, <2>8, <2>9, Keeps
  <2>11. 0 \notin DOMAIN e.oses BY <2>10, TablesList
  <2>12. PICK ks : ks = osKeys(e) OBVIOUS
  <2>13. DOMAIN ks = DOMAIN e.oses /\ \A i \in DOMAIN e.oses : ks[i] = osKey(e.oses[i]) BY <2>12 DEF osKeys
  <2>14. osID(e, os) = getID(ks, osKey(o)) BY <1>6, <2>12 DEF osID, o
  <2>15. n \in DOMAIN ks /\ ks[n] = osKey(o) BY <2>7, <2>13
  <2>16. osID(e, os) \in DOMAIN e.oses /\ osKey(e.oses[osID(e, os)]) = osKey(o)
    BY <2>11, <2>13, <2>14, <2>15, GetID
  <2>17. osID(e, os) = n
    <3>1. osID(e, os) \in DOMAIN d.oses => e.oses[osID(e, os)] = d.oses[osID(e, os)] BY <2>7 DEF Longer
    <3> QED BY <3>1, <2>2, <2>7, <2>16
  <2>18. OSOf(e, osID(e, os)) = osIndex(o) BY <2>7, <2>11, <2>16, <2>17 DEF OSOf
  <2> QED BY <2>4, <2>8, <2>10, <2>16, <2>18, <1>6 DEF e, o
<1> QED BY <1>4, <1>5, <1>6

LEMMA addCPEsIs ==
  ASSUME NEW d, NEW p, Tables(d, p), NEW c, c # None
  PROVE  LET e == addCPEs(d, c)
         IN  /\ Tables(e, p) /\ Grown(d, e) /\ Only(d, e, {"cpes"})
             /\ Records(e) = Records(d) /\ CPERecords(e) = CPERecords(d)
             /\ cpeID(e, c) \in DOMAIN e.cpes /\ cpeKey(e.cpes[cpeID(e, c)]) = cpeKey(c)
<1> DEFINE e == addCPEs(d, c)
<1>1. ASSUME NEW x, Tables(x, p), \E i \in DOMAIN x.cpes : cpeKey(x.cpes[i]) = cpeKey(c)
      PROVE  cpeID(x, c) \in DOMAIN x.cpes /\ cpeKey(x.cpes[cpeID(x, c)]) = cpeKey(c)
  <2>1. PICK ks : ks = cpeKeys(x) OBVIOUS
  <2>2. DOMAIN ks = DOMAIN x.cpes /\ \A i \in DOMAIN x.cpes : ks[i] = cpeKey(x.cpes[i]) BY <2>1 DEF cpeKeys
  <2>3. cpeID(x, c) = getID(ks, cpeKey(c)) BY <2>1 DEF cpeID
  <2>4. 0 \notin DOMAIN ks BY <2>2, <1>1, TablesList
  <2>5. \E i \in DOMAIN ks : ks[i] = cpeKey(c) BY <2>2, <1>1
  <2> QED BY <2>2, <2>3, <2>4, <2>5, GetID
<1>2. CASE getID(cpeKeys(d), cpeKey(c)) # 0
  <2>1. e = d BY <1>2 DEF addCPEs
  <2>2. Grown(d, d) BY LongerSelf DEF Grown
  <2>3. \E i \in DOMAIN d.cpes : cpeKey(d.cpes[i]) = cpeKey(c)
    <3>1. PICK ks : ks = cpeKeys(d) OBVIOUS
    <3>2. DOMAIN ks = DOMAIN d.cpes /\ \A i \in DOMAIN d.cpes : ks[i] = cpeKey(d.cpes[i]) BY <3>1 DEF cpeKeys
    <3>3. 0 \notin DOMAIN ks BY <3>2, TablesList
    <3>4. getID(ks, cpeKey(c)) \in DOMAIN ks /\ ks[getID(ks, cpeKey(c))] = cpeKey(c) BY <3>1, <3>3, <1>2, GetID
    <3> QED BY <3>2, <3>4
  <2>4. cpeID(d, c) \in DOMAIN d.cpes /\ cpeKey(d.cpes[cpeID(d, c)]) = cpeKey(c) BY <2>3, <1>1
  <2> HIDE DEF e
  <2> QED BY <2>1, <2>2, <2>4 DEF Only, e
<1>3. CASE getID(cpeKeys(d), cpeKey(c)) = 0
  <2>1. e = [d EXCEPT !.cpes = Append(d.cpes, c)] BY <1>3 DEF addCPEs
  <2> HIDE DEF e
  <2>2. IsDB(e) /\ e.cpes = Append(d.cpes, c) /\ Only(d, e, {"cpes"})
    <3>1. Puts(d, "cpes", Append(d.cpes, c), e)
      <4>1. IsDB(d) BY TablesList
      <4>2. DOMAIN d = Fields BY <4>1, Zenon DEF IsDB
      <4> QED BY <2>1, <4>2 DEF Puts
    <3>2. "cpes" \in Fields BY DEF Fields
    <3> QED BY <3>1, <3>2, Put
  <2>3. /\ e.blobs = d.blobs /\ e.packages = d.packages /\ e.vulns = d.vulns
        /\ e.oses = d.oses /\ e.err = d.err /\ e.handles = d.handles /\ e.cpeHandles = d.cpeHandles
    BY <2>2 DEF Only, Fields
  <2>4. IsList(d.vulns) /\ IsList(d.packages) /\ IsList(d.oses) /\ IsList(d.cpes) /\ d.err = FALSE
    BY DEF Tables, Lists
  <2>5. PICK n : /\ IsList(e.cpes) /\ Longer(d.cpes, e.cpes) /\ n \in DOMAIN e.cpes /\ e.cpes[n] = c
                 /\ DOMAIN e.cpes = DOMAIN d.cpes \cup {n}
    BY <2>2, <2>4, AppendIs
  <2>6. Grown(d, e) BY <2>3, <2>5, LongerSelf DEF Grown
  <2>7. Tables(e, p) /\ Records(e) = Records(d) /\ CPERecords(e) = CPERecords(d)
    BY <2>2, <2>3, <2>4, <2>5, <2>6, Keeps
  <2>8. cpeID(e, c) \in DOMAIN e.cpes /\ cpeKey(e.cpes[cpeID(e, c)]) = cpeKey(c)
    <3>1. \E i \in DOMAIN e.cpes : cpeKey(e.cpes[i]) = cpeKey(c) BY <2>5
    <3> QED BY <3>1, <2>7, <1>1
  <2> QED BY <2>2, <2>6, <2>7, <2>8 DEF e
<1> QED BY <1>2, <1>3

(* The row of a package, found by its key.                                 *)
LEMMA pkgIDIs ==
  ASSUME NEW d, NEW p, Tables(d, p), NEW k
  PROVE  /\ getID(pkgKeys(d), pkgKey(k)) # 0 => \E i \in DOMAIN d.packages : pkgKey(d.packages[i]) = pkgKey(k)
         /\ (\E i \in DOMAIN d.packages : pkgKey(d.packages[i]) = pkgKey(k)) =>
              pkgID(d, k) \in DOMAIN d.packages /\ pkgKey(d.packages[pkgID(d, k)]) = pkgKey(k)
<1>1. PICK ks : ks = pkgKeys(d) OBVIOUS
<1>2. DOMAIN ks = DOMAIN d.packages /\ \A i \in DOMAIN d.packages : ks[i] = pkgKey(d.packages[i]) BY <1>1 DEF pkgKeys
<1>3. 0 \notin DOMAIN ks BY <1>2, TablesList
<1>4. pkgID(d, k) = getID(ks, pkgKey(k)) BY <1>1 DEF pkgID
<1>5. /\ getID(ks, pkgKey(k)) # 0 => getID(ks, pkgKey(k)) \in DOMAIN ks /\ ks[getID(ks, pkgKey(k))] = pkgKey(k)
      /\ (\E i \in DOMAIN ks : ks[i] = pkgKey(k)) => getID(ks, pkgKey(k)) # 0
  BY <1>3, GetID
<1> QED BY <1>1, <1>2, <1>4, <1>5

LEMMA newPackageIs ==
  ASSUME NEW d, NEW p, Tables(d, p), NEW row, IsPackage(row), NEW e, Puts(d, "packages", Append(d.packages, row), e)
  PROVE  /\ Tables(e, p) /\ Grown(d, e) /\ Only(d, e, {"packages"})
         /\ Records(e) = Records(d) /\ CPERecords(e) = CPERecords(d)
         /\ \E i \in DOMAIN e.packages : e.packages[i] = row
<1>1. "packages" \in Fields BY DEF Fields
<1>2. IsDB(e) /\ e.packages = Append(d.packages, row) /\ Only(d, e, {"packages"}) BY <1>1, Put
<1>3. /\ e.blobs = d.blobs /\ e.cpes = d.cpes /\ e.vulns = d.vulns
      /\ e.oses = d.oses /\ e.err = d.err /\ e.handles = d.handles /\ e.cpeHandles = d.cpeHandles
  BY <1>2 DEF Only, Fields
<1>4. IsList(d.vulns) /\ IsList(d.packages) /\ IsList(d.oses) /\ IsList(d.cpes) /\ d.err = FALSE
  BY DEF Tables, Lists
<1>5. PICK n : /\ IsList(e.packages) /\ Longer(d.packages, e.packages) /\ n \in DOMAIN e.packages
               /\ e.packages[n] = row /\ DOMAIN e.packages = DOMAIN d.packages \cup {n}
  <2>1. IsList(d.packages) BY <1>4
  <2>2. PICK t : t = Append(d.packages, row) OBVIOUS
  <2>3. /\ IsList(t) /\ Longer(d.packages, t) /\ Len(t) \in DOMAIN t /\ t[Len(t)] = row
        /\ DOMAIN t = DOMAIN d.packages \cup {Len(t)}
    BY <2>1, <2>2, AppendIs
  <2> QED BY <1>2, <2>2, <2>3
<1>6. Grown(d, e) BY <1>3, <1>5, LongerSelf DEF Grown
<1>7. \A i \in DOMAIN e.packages : i \notin DOMAIN d.packages => IsPackage(e.packages[i]) BY <1>5
<1>8. Tables(e, p) /\ Records(e) = Records(d) /\ CPERecords(e) = CPERecords(d)
  BY <1>2, <1>3, <1>4, <1>5, <1>6, <1>7, Keeps
<1> QED BY <1>2, <1>5, <1>6, <1>8

LEMMA linkedIs ==
  ASSUME NEW d, NEW p, Tables(d, p), NEW x, NEW e, e = [d EXCEPT !.links = x]
  PROVE  /\ Tables(e, p) /\ Grown(d, e) /\ Only(d, e, {"links"})
         /\ Records(e) = Records(d) /\ CPERecords(e) = CPERecords(d)
<1>1. IsDB(e) /\ Only(d, e, {"links"})
  <2>1. Puts(d, "links", x, e)
    <3>1. IsDB(d) BY TablesList
    <3>2. DOMAIN d = Fields BY <3>1, Zenon DEF IsDB
    <3> QED BY <3>2 DEF Puts
  <2>2. "links" \in Fields BY DEF Fields
  <2> QED BY <2>1, <2>2, Put
<1>2. /\ e.blobs = d.blobs /\ e.cpes = d.cpes /\ e.vulns = d.vulns /\ e.packages = d.packages
      /\ e.oses = d.oses /\ e.err = d.err /\ e.handles = d.handles /\ e.cpeHandles = d.cpeHandles
  BY <1>1 DEF Only, Fields
<1>3. Grown(d, e) BY <1>2, LongerSelf DEF Grown
<1>4. IsList(d.vulns) /\ IsList(d.packages) /\ IsList(d.oses) /\ IsList(d.cpes) /\ d.err = FALSE
  BY DEF Tables, Lists
<1>5. Tables(e, p) /\ Records(e) = Records(d) /\ CPERecords(e) = CPERecords(d)
  BY <1>1, <1>2, <1>3, <1>4, Keeps
<1> QED BY <1>1, <1>3, <1>5

LEMMA addPackagesIs ==
  ASSUME NEW d, NEW p, Tables(d, p), NEW k
  PROVE  LET e == addPackages(d, k)
         IN  /\ Tables(e, p) /\ Grown(d, e) /\ Only(d, e, {"packages", "cpes", "links"})
             /\ Records(e) = Records(d) /\ CPERecords(e) = CPERecords(d)
             /\ pkgID(e, k) \in DOMAIN e.packages /\ pkgKey(e.packages[pkgID(e, k)]) = pkgKey(k)
<1> DEFINE e == addPackages(d, k)
           F == {"packages", "cpes", "links"}
           Found(x) == \E i \in DOMAIN x.packages : pkgKey(x.packages[i]) = pkgKey(k)
           known == getID(pkgKeys(d), pkgKey(k)) # 0
           row == [ecosystem |-> k.ecosystem, name |-> k.name]
           wp == IF known THEN d ELSE [d EXCEPT !.packages = Append(@, row)]
           wc == addCPEs(wp, k.cpe)
           wl == [wc EXCEPT !.links = @ \cup {<<getID(pkgKeys(wc), pkgKey(k)), cpeID(wc, k.cpe)>>}]
<1>1. (e = d /\ known) \/ e = wp \/ (e = wl /\ k.cpe # None)
  <2>1. createPackage(d, k) = IF k.cpe = None THEN wp ELSE IF known /\ cpeID(d, k.cpe) # 0 THEN d ELSE wl
    BY Zenon DEF createPackage
  <2>2. e = IF k.cpe = None /\ known THEN d ELSE createPackage(d, k) BY Zenon DEF addPackages
  <2> HIDE DEF e, wp, wl, known
  <2> QED BY <2>1, <2>2
<1>2. Tables(d, p) /\ Grown(d, d) /\ Only(d, d, F) /\ (known => Found(d)) BY LongerSelf, pkgIDIs DEF Grown, Only
<1>3. /\ Tables(wp, p) /\ Grown(d, wp) /\ Only(d, wp, F) /\ Found(wp)
      /\ Records(wp) = Records(d) /\ CPERecords(wp) = CPERecords(d)
  <2>1. CASE known
    <3>1. wp = d BY <2>1
    <3> HIDE DEF wp, known, F
    <3> QED BY <3>1, <2>1, <1>2
  <2>2. CASE ~known
    <3>1. Puts(d, "packages", Append(d.packages, row), wp)
      <4>1. IsDB(d) BY TablesList
      <4>2. DOMAIN d = Fields BY <4>1, Zenon DEF IsDB
      <4>3. wp = [d EXCEPT !.packages = Append(d.packages, row)] BY <2>2
      <4> QED BY <4>2, <4>3 DEF Puts
    <3>2. IsPackage(row) /\ pkgKey(row) = pkgKey(k) BY DEF IsPackage, pkgKey
    <3> HIDE DEF wp, known, row
    <3>4. /\ Tables(wp, p) /\ Grown(d, wp) /\ Only(d, wp, {"packages"})
          /\ Records(wp) = Records(d) /\ CPERecords(wp) = CPERecords(d)
          /\ \E i \in DOMAIN wp.packages : wp.packages[i] = row
      BY <3>1, <3>2, newPackageIs
    <3>3. Only(d, wp, F) BY <3>4 DEF Only
    <3> QED BY <3>2, <3>3, <3>4
  <2> QED BY <2>1, <2>2
<1> HIDE DEF wp, known
<1>4. ASSUME k.cpe # None
      PROVE  /\ Tables(wl, p) /\ Grown(d, wl) /\ Only(d, wl, F) /\ Found(wl)
             /\ Records(wl) = Records(d) /\ CPERecords(wl) = CPERecords(d)
  <2>1. /\ Tables(wc, p) /\ Grown(wp, wc) /\ Only(wp, wc, {"cpes"})
        /\ Records(wc) = Records(wp) /\ CPERecords(wc) = CPERecords(wp)
    BY <1>3, <1>4, addCPEsIs
  <2>2. Found(wc) /\ Only(d, wc, F) /\ Grown(d, wc)
    <3> HIDE DEF wc
    <3>1. Only(d, wc, F) BY <1>3, <2>1 DEF Only
    <3>2. wc.packages = wp.packages BY <2>1 DEF Only, Fields
    <3> QED BY <3>1, <3>2, <1>3, <2>1, GrownTwice
  <2> HIDE DEF wc
  <2>3. /\ Tables(wl, p) /\ Grown(wc, wl) /\ Only(wc, wl, {"links"})
        /\ Records(wl) = Records(wc) /\ CPERecords(wl) = CPERecords(wc)
    BY <2>1, linkedIs
  <2> HIDE DEF wl
  <2>4. Only(d, wl, F) BY <2>2, <2>3 DEF Only
  <2>5. wl.packages = wc.packages BY <2>3 DEF Only, Fields
  <2>6. Found(wl) BY <2>2, <2>5
  <2>7. Grown(d, wl) BY <2>2, <2>3, GrownTwice
  <2> HIDE DEF Found, F
  <2> QED BY <2>1, <2>3, <2>4, <2>6, <2>7, <1>3
<1> HIDE DEF wl
<1> HIDE DEF e, F
<1>8. /\ Tables(e, p) /\ Grown(d, e) /\ Only(d, e, F) /\ Found(e)
      /\ Records(e) = Records(d) /\ CPERecords(e) = CPERecords(d)
  <2> HIDE DEF Found
  <2> QED BY <1>1, <1>2, <1>3, <1>4
<1>9. pkgID(e, k) \in DOMAIN e.packages /\ pkgKey(e.packages[pkgID(e, k)]) = pkgKey(k) BY <1>8, pkgIDIs
<1> QED BY <1>8, <1>9 DEF e, F

(* A new handle is read as what its references name.                       *)
LEMMA newHandleIs ==
  ASSUME NEW d, NEW p, Tables(d, p), NEW hd, PkgRefs(d, hd), NEW e, Puts(d, "handles", d.handles \cup {hd}, e)
  PROVE  /\ Tables(e, p) /\ Grown(d, e) /\ Only(d, e, {"handles"})
         /\ Records(e) = Records(d) \cup {attached(d, hd)} /\ CPERecords(e) = CPERecords(d)
<1>1. "handles" \in Fields BY DEF Fields
<1>2. IsDB(e) /\ e.handles = d.handles \cup {hd} /\ Only(d, e, {"handles"}) BY <1>1, Put
<1>3. /\ e.blobs = d.blobs /\ e.cpes = d.cpes /\ e.vulns = d.vulns /\ e.packages = d.packages
      /\ e.oses = d.oses /\ e.err = d.err /\ e.cpeHandles = d.cpeHandles
  BY <1>2 DEF Only, Fields
<1>4. Grown(d, e) BY <1>3, LongerSelf DEF Grown
<1>5. Lists(e) BY <1>2, <1>3 DEF Tables, Lists
<1>6. Rows(e, p) BY <1>3 DEF Tables, Rows, IsRow
<1>7. \A h : PkgRefs(d, h) => PkgRefs(e, h) /\ attached(e, h) = attached(d, h) BY <1>4, ReadsSame
<1>8. \A h : CPERefs(d, h) => CPERefs(e, h) /\ attachedCPE(e, h) = attachedCPE(d, h) BY <1>4, ReadsSame
<1>9. (\A h \in d.handles : PkgRefs(d, h)) /\ (\A h \in d.cpeHandles : CPERefs(d, h)) BY DEF Tables, Refs
<1>10. Refs(e) BY <1>2, <1>3, <1>7, <1>8, <1>9 DEF Refs
<1>11. Records(e) = Records(d) \cup {attached(d, hd)}
  <2>1. \A h \in e.handles : attached(e, h) = attached(d, h) BY <1>2, <1>7, <1>9
  <2> QED BY <2>1, <1>2 DEF Records
<1>12. CPERecords(e) = CPERecords(d) BY <1>3, <1>8, <1>9 DEF CPERecords
<1> QED BY <1>2, <1>4, <1>5, <1>6, <1>10, <1>11, <1>12 DEF Tables

LEMMA newCPEHandleIs ==
  ASSUME NEW d, NEW p, Tables(d, p), NEW hd, CPERefs(d, hd), NEW e, Puts(d, "cpeHandles", d.cpeHandles \cup {hd}, e)
  PROVE  /\ Tables(e, p) /\ Grown(d, e) /\ Only(d, e, {"cpeHandles"})
         /\ Records(e) = Records(d) /\ CPERecords(e) = CPERecords(d) \cup {attachedCPE(d, hd)}
<1>1. "cpeHandles" \in Fields BY DEF Fields
<1>2. IsDB(e) /\ e.cpeHandles = d.cpeHandles \cup {hd} /\ Only(d, e, {"cpeHandles"}) BY <1>1, Put
<1>3. /\ e.blobs = d.blobs /\ e.cpes = d.cpes /\ e.vulns = d.vulns /\ e.packages = d.packages
      /\ e.oses = d.oses /\ e.err = d.err /\ e.handles = d.handles
  BY <1>2 DEF Only, Fields
<1>4. Grown(d, e) BY <1>3, LongerSelf DEF Grown
<1>5. Lists(e) BY <1>2, <1>3 DEF Tables, Lists
<1>6. Rows(e, p) BY <1>3 DEF Tables, Rows, IsRow
<1>7. \A h : PkgRefs(d, h) => PkgRefs(e, h) /\ attached(e, h) = attached(d, h) BY <1>4, ReadsSame
<1>8. \A h : CPERefs(d, h) => CPERefs(e, h) /\ attachedCPE(e, h) = attachedCPE(d, h) BY <1>4, ReadsSame
<1>9. (\A h \in d.handles : PkgRefs(d, h)) /\ (\A h \in d.cpeHandles : CPERefs(d, h)) BY DEF Tables, Refs
<1>10. Refs(e) BY <1>2, <1>3, <1>7, <1>8, <1>9 DEF Refs
<1>11. CPERecords(e) = CPERecords(d) \cup {attachedCPE(d, hd)}
  <2>1. \A h \in e.cpeHandles : attachedCPE(e, h) = attachedCPE(d, h) BY <1>2, <1>8, <1>9
  <2> QED BY <2>1, <1>2 DEF CPERecords
<1>12. Records(e) = Records(d) BY <1>3, <1>7, <1>9 DEF Records
<1> QED BY <1>2, <1>4, <1>5, <1>6, <1>10, <1>11, <1>12 DEF Tables

(* The tables that records fill.                                           *)
RecordTables == {"blobs", "packages", "cpes", "links", "oses", "handles", "cpeHandles"}

LEMMA addPackagesWithOSIs ==
  ASSUME NEW d, NEW p \in DOMAIN Pools, Tables(d, p), NEW aff, NEW vid \in DOMAIN d.vulns,
         NEW h, h.os = None \/ h.os \in Systems(p)
  PROVE  LET e == addPackagesWithOS(d, aff, vid, h)
         IN  /\ Tables(e, p) /\ Grown(d, e) /\ Only(d, e, RecordTables)
             /\ Records(e) = Records(d) \cup
                  {[affected |-> aff, vuln |-> vulnOf(d, vid),
                    os |-> IF h.os = None THEN None ELSE osIndex(clean(h.os)),
                    pkg |-> pkgKey(h.pkg), blob |-> h.blob]}
             /\ CPERecords(e) = CPERecords(d)
<1> DEFINE wo == addOsFromPackages(d, h.os)
           wp == addPackages(wo, h.pkg)
           wb == addBlobs(wp, h.blob)
           hd == [affected |-> aff, vuln |-> vid, os |-> osID(wb, h.os), pkg |-> pkgID(wb, h.pkg),
                  blob |-> blobID(wb, h.blob)]
           e == addPackagesWithOS(d, aff, vid, h)
           index == IF h.os = None THEN None ELSE osIndex(clean(h.os))
<1>1. /\ Tables(wo, p) /\ Grown(d, wo) /\ Only(d, wo, {"oses"})
      /\ Records(wo) = Records(d) /\ CPERecords(wo) = CPERecords(d)
      /\ osID(wo, h.os) = 0 \/ osID(wo, h.os) \in DOMAIN wo.oses
      /\ OSOf(wo, osID(wo, h.os)) = index
  BY addOsIs
<1>2. e = addHandle(wb, aff, vid, h)
  <2>1. wo.err = FALSE BY <1>1, TablesList
  <2> QED BY <2>1, Zenon DEF addPackagesWithOS
<1>3. e = [wb EXCEPT !.handles = wb.handles \cup {hd}] BY <1>2 DEF addHandle
<1> HIDE DEF wo, index
<1>4. /\ Tables(wp, p) /\ Grown(wo, wp) /\ Only(wo, wp, {"packages", "cpes", "links"})
      /\ Records(wp) = Records(wo) /\ CPERecords(wp) = CPERecords(wo)
      /\ pkgID(wp, h.pkg) \in DOMAIN wp.packages /\ pkgKey(wp.packages[pkgID(wp, h.pkg)]) = pkgKey(h.pkg)
  BY <1>1, addPackagesIs
<1> HIDE DEF wp
<1>5. /\ Tables(wb, p) /\ Grown(wp, wb) /\ Only(wp, wb, {"blobs"})
      /\ blobID(wb, h.blob) \in DOMAIN wb.blobs /\ wb.blobs[blobID(wb, h.blob)] = h.blob
  BY <1>4, addBlobsIs
<1> HIDE DEF wb
<1>6. /\ wb.oses = wo.oses /\ wb.packages = wp.packages /\ wp.handles = wb.handles /\ wp.cpeHandles = wb.cpeHandles
  BY <1>4, <1>5 DEF Only, Fields
<1>7. Records(wb) = Records(wp) /\ CPERecords(wb) = CPERecords(wp) BY <1>4, <1>5, <1>6, HandlesStay
<1>8. Grown(wo, wb) BY <1>4, <1>5, GrownTwice
<1>9. Grown(d, wb) BY <1>1, <1>8, GrownTwice
<1>10. osID(wb, h.os) = osID(wo, h.os) /\ OSOf(wb, osID(wb, h.os)) = index
  <2>1. osID(wb, h.os) = osID(wo, h.os) BY <1>6 DEF osID, osKeys
  <2>2. \A i : OSOf(wb, i) = OSOf(wo, i) BY <1>6 DEF OSOf
  <2> QED BY <2>1, <2>2, <1>1
<1>11. pkgID(wb, h.pkg) = pkgID(wp, h.pkg) BY <1>6 DEF pkgID, pkgKeys
<1>12. vid \in DOMAIN wb.vulns /\ vulnOf(wb, vid) = vulnOf(d, vid) BY <1>9, ReadsSame DEF Grown, Longer
<1>13. /\ hd.vuln = vid /\ hd.os = osID(wb, h.os) /\ hd.pkg = pkgID(wb, h.pkg) /\ hd.blob = blobID(wb, h.blob)
       /\ hd.affected = aff
  OBVIOUS
<1> HIDE DEF hd
<1>14. PkgRefs(wb, hd) BY <1>1, <1>4, <1>5, <1>6, <1>10, <1>11, <1>12, <1>13 DEF PkgRefs
<1>15. attached(wb, hd) = [affected |-> aff, vuln |-> vulnOf(d, vid), os |-> index, pkg |-> pkgKey(h.pkg), blob |-> h.blob]
  <2>1. pkgKey(wb.packages[hd.pkg]) = pkgKey(h.pkg) BY <1>4, <1>6, <1>11, <1>13
  <2>2. blobValue(wb, hd.blob) = h.blob BY <1>5, <1>13 DEF blobValue
  <2> QED BY <2>1, <2>2, <1>10, <1>12, <1>13 DEF attached
<1>16. Puts(wb, "handles", wb.handles \cup {hd}, e)
  <2>1. IsDB(wb) BY <1>5, TablesList
  <2>2. DOMAIN wb = Fields BY <2>1, Zenon DEF IsDB
  <2> HIDE DEF e
  <2> QED BY <2>2, <1>3 DEF Puts
<1> HIDE DEF e
<1>17. /\ Tables(e, p) /\ Grown(wb, e) /\ Only(wb, e, {"handles"})
       /\ Records(e) = Records(wb) \cup {attached(wb, hd)} /\ CPERecords(e) = CPERecords(wb)
  BY <1>5, <1>14, <1>16, newHandleIs
<1>18. Grown(d, e) BY <1>9, <1>17, GrownTwice
<1>19. Only(d, e, RecordTables) BY <1>1, <1>4, <1>5, <1>17 DEF Only, RecordTables
<1> QED BY <1>1, <1>4, <1>7, <1>15, <1>17, <1>18, <1>19 DEF e, index

LEMMA addCPEHandlesIs ==
  ASSUME NEW d, NEW p \in DOMAIN Pools, Tables(d, p), NEW aff, NEW vid \in DOMAIN d.vulns, NEW h, h.cpe # None
  PROVE  LET e == addCPEHandles(d, aff, vid, h)
         IN  /\ Tables(e, p) /\ Grown(d, e) /\ Only(d, e, RecordTables)
             /\ CPERecords(e) = CPERecords(d) \cup
                  {[affected |-> aff, vuln |-> vulnOf(d, vid), cpe |-> cpeKey(h.cpe), blob |-> h.blob]}
             /\ Records(e) = Records(d)
<1> DEFINE wc == addCPEs(d, h.cpe)
           wb == addBlobs(wc, h.blob)
           hd == [affected |-> aff, vuln |-> vid, cpe |-> cpeID(wb, h.cpe), blob |-> blobID(wb, h.blob)]
           e == addCPEHandles(d, aff, vid, h)
<1>1. e = [wb EXCEPT !.cpeHandles = wb.cpeHandles \cup {hd}] BY DEF addCPEHandles, addCPEHandle
<1>2. /\ Tables(wc, p) /\ Grown(d, wc) /\ Only(d, wc, {"cpes"})
      /\ Records(wc) = Records(d) /\ CPERecords(wc) = CPERecords(d)
      /\ cpeID(wc, h.cpe) \in DOMAIN wc.cpes /\ cpeKey(wc.cpes[cpeID(wc, h.cpe)]) = cpeKey(h.cpe)
  BY addCPEsIs
<1> HIDE DEF wc
<1>3. /\ Tables(wb, p) /\ Grown(wc, wb) /\ Only(wc, wb, {"blobs"})
      /\ blobID(wb, h.blob) \in DOMAIN wb.blobs /\ wb.blobs[blobID(wb, h.blob)] = h.blob
  BY <1>2, addBlobsIs
<1> HIDE DEF wb
<1>4. /\ wb.cpes = wc.cpes /\ wc.handles = wb.handles /\ wc.cpeHandles = wb.cpeHandles
  BY <1>3 DEF Only, Fields
<1>5. Records(wb) = Records(wc) /\ CPERecords(wb) = CPERecords(wc) BY <1>2, <1>3, <1>4, HandlesStay
<1>6. Grown(d, wb) BY <1>2, <1>3, GrownTwice
<1>7. cpeID(wb, h.cpe) = cpeID(wc, h.cpe) BY <1>4 DEF cpeID, cpeKeys
<1>8. vid \in DOMAIN wb.vulns /\ vulnOf(wb, vid) = vulnOf(d, vid) BY <1>6, ReadsSame DEF Grown, Longer
<1>9. hd.vuln = vid /\ hd.cpe = cpeID(wb, h.cpe) /\ hd.blob = blobID(wb, h.blob) /\ hd.affected = aff OBVIOUS
<1> HIDE DEF hd
<1>10. CPERefs(wb, hd) BY <1>2, <1>3, <1>4, <1>7, <1>8, <1>9 DEF CPERefs
<1>11. attachedCPE(wb, hd) = [affected |-> aff, vuln |-> vulnOf(d, vid), cpe |-> cpeKey(h.cpe), blob |-> h.blob]
  <2>1. cpeKey(wb.cpes[hd.cpe]) = cpeKey(h.cpe) BY <1>2, <1>4, <1>7, <1>9
  <2>2. blobValue(wb, hd.blob) = h.blob BY <1>3, <1>9 DEF blobValue
  <2> QED BY <2>1, <2>2, <1>8, <1>9 DEF attachedCPE
<1>12. Puts(wb, "cpeHandles", wb.cpeHandles \cup {hd}, e)
  <2>1. IsDB(wb) BY <1>3, TablesList
  <2>2. DOMAIN wb = Fields BY <2>1, Zenon DEF IsDB
  <2> HIDE DEF e
  <2> QED BY <2>2, <1>1 DEF Puts
<1> HIDE DEF e
<1>13. /\ Tables(e, p) /\ Grown(wb, e) /\ Only(wb, e, {"cpeHandles"})
       /\ Records(e) = Records(wb) /\ CPERecords(e) = CPERecords(wb) \cup {attachedCPE(wb, hd)}
  BY <1>3, <1>10, <1>12, newCPEHandleIs
<1>14. Grown(d, e) BY <1>6, <1>13, GrownTwice
<1>15. Only(d, e, RecordTables) BY <1>2, <1>3, <1>13 DEF Only, RecordTables
<1> QED BY <1>2, <1>5, <1>11, <1>13, <1>14, <1>15 DEF e

(***************************************************************************)
(* The records of an entry, one after the other.                           *)
(***************************************************************************)
IsRecord(h, p) ==
  /\ h.kind \in {"pkg", "cpe"} /\ h.affected \in BOOLEAN
  /\ h.kind = "pkg" => h.os = None \/ h.os \in Systems(p)
  /\ h.kind = "cpe" => h.cpe # None

AskedOf(v, h) == IF h.kind = "pkg" THEN {asked(v, h)} ELSE {}
AskedCPEOf(v, h) == IF h.kind = "cpe" THEN {askedCPE(v, h)} ELSE {}

LEMMA writeRelatedIs ==
  ASSUME NEW d, NEW p \in DOMAIN Pools, Tables(d, p), NEW v \in VulnsOf(p), Holds(d, v), NEW h, IsRecord(h, p)
  PROVE  LET e == writeRelated(d, v, h)
         IN  /\ Tables(e, p) /\ Grown(d, e) /\ Only(d, e, RecordTables)
             /\ Records(e) = Records(d) \cup AskedOf(v, h)
             /\ CPERecords(e) = CPERecords(d) \cup AskedCPEOf(v, h)
<1> DEFINE e == writeRelated(d, v, h)
<1>1. PICK vid \in DOMAIN d.vulns : vid = vulnID(d, v) /\ vulnOf(d, vid) = identity(v) BY HoldsID
<1>2. d.err = FALSE BY TablesList
<1>3. CASE h.kind = "pkg"
  <2>1. e = addPackagesWithOS(d, h.affected, vid, h)
    <3>1. CASE h.affected = TRUE BY <3>1, <1>1, <1>2, <1>3 DEF writeRelated, AddAffectedPackages
    <3>2. CASE h.affected = FALSE BY <3>2, <1>1, <1>2, <1>3 DEF writeRelated, AddUnaffectedPackages
    <3> QED BY <3>1, <3>2 DEF IsRecord
  <2>2. AskedOf(v, h) = {asked(v, h)} /\ AskedCPEOf(v, h) = {} BY <1>3 DEF AskedOf, AskedCPEOf
  <2>3. asked(v, h) = [affected |-> h.affected, vuln |-> vulnOf(d, vid),
                       os |-> IF h.os = None THEN None ELSE osIndex(clean(h.os)),
                       pkg |-> pkgKey(h.pkg), blob |-> h.blob]
    BY <1>1 DEF asked
  <2>4. h.os = None \/ h.os \in Systems(p) BY <1>3 DEF IsRecord
  <2> HIDE DEF e
  <2>5. /\ Tables(e, p) /\ Grown(d, e) /\ Only(d, e, RecordTables)
        /\ Records(e) = Records(d) \cup {asked(v, h)} /\ CPERecords(e) = CPERecords(d)
    BY <2>1, <2>3, <2>4, addPackagesWithOSIs
  <2> QED BY <2>2, <2>5 DEF e
<1>4. CASE h.kind = "cpe"
  <2>1. e = addCPEHandles(d, h.affected, vid, h)
    <3>1. CASE h.affected = TRUE BY <3>1, <1>1, <1>2, <1>4 DEF writeRelated, AddAffectedCPEs
    <3>2. CASE h.affected = FALSE BY <3>2, <1>1, <1>2, <1>4 DEF writeRelated, AddUnaffectedCPEs
    <3> QED BY <3>1, <3>2 DEF IsRecord
  <2>2. AskedOf(v, h) = {} /\ AskedCPEOf(v, h) = {askedCPE(v, h)} BY <1>4 DEF AskedOf, AskedCPEOf
  <2>3. askedCPE(v, h) = [affected |-> h.affected, vuln |-> vulnOf(d, vid), cpe |-> cpeKey(h.cpe), blob |-> h.blob]
    BY <1>1 DEF askedCPE
  <2> HIDE DEF e
  <2>5. h.cpe # None BY <1>4 DEF IsRecord
  <2>4. /\ Tables(e, p) /\ Grown(d, e) /\ Only(d, e, RecordTables)
        /\ CPERecords(e) = CPERecords(d) \cup {askedCPE(v, h)} /\ Records(e) = Records(d)
    BY <2>1, <2>3, <2>5, addCPEHandlesIs
  <2> QED BY <2>2, <2>4 DEF e
<1> QED BY <1>3, <1>4 DEF IsRecord

(* The database after each of the records hs.                              *)
Through(d, v, hs) ==
  CHOOSE f : f = [n \in 0 .. Len(hs) |-> IF n = 0 THEN d ELSE writeRelated(f[n - 1], v, hs[n])]

LEMMA ThroughIs ==
  ASSUME NEW d, NEW v, NEW hs, Len(hs) \in Nat
  PROVE  /\ Through(d, v, hs)[0] = d
         /\ \A n \in 1..Len(hs) : Through(d, v, hs)[n] = writeRelated(Through(d, v, hs)[n - 1], v, hs[n])
<1> DEFINE m == Len(hs)
           Step(f, n) == IF n = 0 THEN d ELSE writeRelated(f[n - 1], v, hs[n])
           Run(f, k) == f = [n \in 0..k |-> Step(f, n)]
           T == {k \in 0..m : \E f : Run(f, k)}
           U == Through(d, v, hs)
<1>1. 0 \in T
  <2>1. PICK f : f = [n \in 0..0 |-> d] OBVIOUS
  <2>2. \A n \in 0..0 : Step(f, n) = d OBVIOUS
  <2>3. Run(f, 0)
    <3> HIDE DEF Step
    <3> QED BY <2>1, <2>2
  <2> HIDE DEF Run
  <2> QED BY <2>3
<1>2. ASSUME NEW k \in 1..m, k - 1 \in T PROVE k \in T
  <2>1. PICK g : Run(g, k - 1)
    <3> HIDE DEF Run
    <3> QED BY <1>2
  <2>2. PICK h : h = [n \in 0..k |-> IF n = k THEN writeRelated(g[k - 1], v, hs[k]) ELSE g[n]] OBVIOUS
  <2>3. ASSUME NEW n \in 0..k PROVE h[n] = Step(h, n)
    <3>1. CASE n = 0
      <4>1. 0 \in 0..(k - 1) /\ 0 # k BY <1>2
      <4>2. g[0] = Step(g, 0)
        <5> HIDE DEF Step
        <5> QED BY <4>1, <2>1
      <4>3. h[0] = g[0] BY <4>1, <2>2
      <4> QED BY <3>1, <4>2, <4>3
    <3>2. CASE n # 0
      <4>1. n - 1 \in 0..k /\ n - 1 # k BY <3>2, <1>2
      <4>2. h[n - 1] = g[n - 1] BY <4>1, <2>2
      <4>3. CASE n = k
        <5>1. h[n] = writeRelated(g[n - 1], v, hs[n]) BY <4>3, <2>2
        <5> QED BY <5>1, <4>2, <3>2
      <4>4. CASE n # k
        <5>1. n \in 0..(k - 1) BY <4>4
        <5>2. g[n] = Step(g, n)
          <6> HIDE DEF Step
          <6> QED BY <5>1, <2>1
        <5>3. h[n] = g[n] BY <4>4, <2>2
        <5> QED BY <5>2, <5>3, <4>2, <3>2
      <4> QED BY <4>3, <4>4
    <3> QED BY <3>1, <3>2
  <2>4. Run(h, k)
    <3>1. DOMAIN h = 0..k /\ h = [n \in 0..k |-> h[n]] BY <2>2
    <3> HIDE DEF Step
    <3> QED BY <3>1, <2>3
  <2> HIDE DEF Run
  <2> QED BY <2>4
<1>3. m \in T
  <2> HIDE DEF T, m
  <2>1. m \in Nat BY DEF m
  <2> QED BY <1>1, <1>2, <2>1, Upward
<1>4. PICK f : Run(f, m)
  <2> HIDE DEF Run
  <2> QED BY <1>3
<1>5. U = [n \in 0..m |-> Step(U, n)] BY <1>4, Zenon DEF Through
<1> HIDE DEF U
<1>6. U[0] = d
  <2>1. 0 \in 0..m OBVIOUS
  <2> QED BY <2>1, <1>5
<1>7. ASSUME NEW n \in 1..m PROVE U[n] = writeRelated(U[n - 1], v, hs[n])
  <2>1. n \in 0..m /\ n # 0 OBVIOUS
  <2>2. U[n] = Step(U, n)
    <3> HIDE DEF Step
    <3> QED BY <2>1, <1>5
  <2> QED BY <2>1, <2>2
<1> QED BY <1>6, <1>7 DEF U

LEMMA RecordIsSound ==
  ASSUME NEW p \in DOMAIN Pools, NEW e \in VulnEntries(p), NEW h \in Range(e.handles)
  PROVE  h.kind \in {"pkg", "cpe"} /\ h.affected \in BOOLEAN /\ (h.kind = "cpe" => h.cpe # None)
BY PoolsAssumption

LEMMA relatedIs ==
  ASSUME NEW d, NEW p \in DOMAIN Pools, Tables(d, p), NEW e \in VulnEntries(p), Holds(d, e.vuln)
  PROVE  LET r == related(d, e)
         IN  /\ Tables(r, p) /\ Grown(d, r) /\ Only(d, r, RecordTables)
             /\ Records(r) = Records(d) \cup {asked(e.vuln, h) : h \in Of(e, "pkg")}
             /\ CPERecords(r) = CPERecords(d) \cup {askedCPE(e.vuln, h) : h \in Of(e, "cpe")}
<1> DEFINE v == e.vuln
           hs == e.handles
           m == Len(hs)
           U == Through(d, v, hs)
           PkgUpTo(n) == {asked(v, hs[i]) : i \in {i \in 1..n : hs[i].kind = "pkg"}}
           CPEUpTo(n) == {askedCPE(v, hs[i]) : i \in {i \in 1..n : hs[i].kind = "cpe"}}
           Sound(n) == /\ Tables(U[n], p) /\ Grown(d, U[n]) /\ Only(d, U[n], RecordTables)
                       /\ Records(U[n]) = Records(d) \cup PkgUpTo(n)
                       /\ CPERecords(U[n]) = CPERecords(d) \cup CPEUpTo(n)
           T == {n \in 0..m : Sound(n)}
<1>1. v \in VulnsOf(p) BY DEF VulnsOf
<1>2. /\ hs \in Seq(Range(hs))
      /\ \A h \in Range(hs) : /\ h.kind \in {"pkg", "cpe"} /\ h.affected \in BOOLEAN
                              /\ h.kind = "cpe" => h.cpe # None
  BY PoolsAssumption
<1>3. m \in Nat /\ DOMAIN hs = 1..m
  <2>1. PICK S : hs \in Seq(S) BY <1>2
  <2> QED BY <2>1, ListIs
<1>4. ASSUME NEW n \in 1..m PROVE IsRecord(hs[n], p)
  <2>1. n \in DOMAIN hs BY <1>3
  <2>2. hs[n] \in Range(hs) BY <2>1 DEF Range
  <2>3. hs[n] \in UNION {Range(x.handles) : x \in VulnEntries(p)} BY <2>2
  <2>4. hs[n].kind = "pkg" /\ hs[n].os # None => hs[n].os \in Systems(p) BY <2>3 DEF Systems
  <2>5. /\ hs[n].kind \in {"pkg", "cpe"} /\ hs[n].affected \in BOOLEAN
        /\ hs[n].kind = "cpe" => hs[n].cpe # None
    <3>1. PICK h : h = hs[n] OBVIOUS
    <3>2. h \in Range(e.handles) BY <2>2, <3>1
    <3>3. h.kind \in {"pkg", "cpe"} /\ h.affected \in BOOLEAN /\ (h.kind = "cpe" => h.cpe # None)
      BY <3>2, RecordIsSound
    <3> QED BY <3>1, <3>3, Zenon
  <2> HIDE DEF hs
  <2> QED BY <2>4, <2>5, Zenon DEF IsRecord
<1>5. related(d, e) = U[m] BY DEF related, Through
<1>6. /\ U[0] = d
      /\ \A n \in 1..m : U[n] = writeRelated(U[n - 1], v, hs[n])
  BY <1>3, ThroughIs
<1> HIDE DEF U
<1>7. 0 \in T
  <2>1. PkgUpTo(0) = {} /\ CPEUpTo(0) = {} OBVIOUS
  <2>2. Grown(d, d) BY LongerSelf DEF Grown
  <2>3. Only(d, d, RecordTables) BY DEF Only
  <2> HIDE DEF PkgUpTo, CPEUpTo
  <2>4. Sound(0) BY <2>1, <2>2, <2>3, <1>6
  <2> HIDE DEF Sound
  <2> QED BY <2>4, <1>3
<1>8. ASSUME NEW n \in 1..m, n - 1 \in T PROVE n \in T
  <2>1. PICK x : x = U[n - 1] OBVIOUS
  <2>2. PICK y : y = U[n] OBVIOUS
  <2>3. PICK h : h = hs[n] OBVIOUS
  <2>4. y = writeRelated(x, v, h) BY <2>1, <2>2, <2>3, <1>6
  <2>5. Sound(n - 1)
    <3> HIDE DEF Sound
    <3> QED BY <1>8
  <2>6. PkgUpTo(n) = PkgUpTo(n - 1) \cup AskedOf(v, h)
    <3>1. 1..n = 1..(n - 1) \cup {n} BY <1>3
    <3> QED BY <3>1, <2>3 DEF AskedOf
  <2>7. CPEUpTo(n) = CPEUpTo(n - 1) \cup AskedCPEOf(v, h)
    <3>1. 1..n = 1..(n - 1) \cup {n} BY <1>3
    <3> QED BY <3>1, <2>3 DEF AskedCPEOf
  <2> HIDE DEF PkgUpTo, CPEUpTo, v
  <2>8. /\ Tables(x, p) /\ Grown(d, x) /\ Only(d, x, RecordTables)
        /\ Records(x) = Records(d) \cup PkgUpTo(n - 1) /\ CPERecords(x) = CPERecords(d) \cup CPEUpTo(n - 1)
    BY <2>1, <2>5
  <2>9. Holds(x, v) BY <2>8, HoldsOn DEF v
  <2>10. IsRecord(h, p) BY <2>3, <1>4
  <2>11. /\ Tables(y, p) /\ Grown(x, y) /\ Only(x, y, RecordTables)
         /\ Records(y) = Records(x) \cup AskedOf(v, h) /\ CPERecords(y) = CPERecords(x) \cup AskedCPEOf(v, h)
    BY <2>4, <2>8, <2>9, <2>10, <1>1, writeRelatedIs
  <2>12. Grown(d, y) BY <2>8, <2>11, GrownTwice
  <2>13. Only(d, y, RecordTables) BY <2>8, <2>11 DEF Only
  <2>14. Records(y) = Records(d) \cup PkgUpTo(n) /\ CPERecords(y) = CPERecords(d) \cup CPEUpTo(n)
    BY <2>6, <2>7, <2>8, <2>11
  <2>15. Sound(n) BY <2>2, <2>11, <2>12, <2>13, <2>14
  <2> HIDE DEF Sound
  <2> QED BY <2>15, <1>3
<1>9. Sound(m)
  <2> HIDE DEF Sound, m
  <2>1. m \in T
    <3> HIDE DEF T
    <3> QED BY <1>3, <1>7, <1>8, Upward
  <2> QED BY <2>1
<1>10. /\ PkgUpTo(m) = {asked(v, h) : h \in Of(e, "pkg")}
       /\ CPEUpTo(m) = {askedCPE(v, h) : h \in Of(e, "cpe")}
  BY <1>3 DEF Of
<1> HIDE DEF PkgUpTo, CPEUpTo
<1> QED BY <1>5, <1>9, <1>10

(***************************************************************************)
(* Tables nothing refers to.                                               *)
(***************************************************************************)
Aside == {"providers", "aliases", "links", "kevs", "epss", "epssDate", "cwes"}

LEMMA putAside ==
  ASSUME NEW d, NEW p, Tables(d, p), NEW f \in Aside, NEW x, NEW e, Puts(d, f, x, e)
  PROVE  /\ Tables(e, p) /\ Grown(d, e) /\ Only(d, e, {f}) /\ e[f] = x
         /\ Records(e) = Records(d) /\ CPERecords(e) = CPERecords(d) /\ Identities(e) = Identities(d)
<1>1. f \in Fields BY DEF Aside, Fields
<1>2. IsDB(e) /\ e[f] = x /\ Only(d, e, {f}) BY <1>1, Put
<1>3. /\ e.blobs = d.blobs /\ e.cpes = d.cpes /\ e.vulns = d.vulns /\ e.packages = d.packages
      /\ e.oses = d.oses /\ e.err = d.err /\ e.handles = d.handles /\ e.cpeHandles = d.cpeHandles
  BY <1>2 DEF Only, Fields, Aside
<1>4. Grown(d, e) BY <1>3, LongerSelf DEF Grown
<1>5. IsList(d.vulns) /\ IsList(d.packages) /\ IsList(d.oses) /\ IsList(d.cpes) /\ d.err = FALSE
  BY DEF Tables, Lists
<1>6. Tables(e, p) /\ Records(e) = Records(d) /\ CPERecords(e) = CPERecords(d)
  BY <1>2, <1>3, <1>4, <1>5, Keeps
<1>7. Identities(e) = Identities(d)
  <2>1. \A i \in DOMAIN d.vulns : vulnOf(e, i) = vulnOf(d, i) BY <1>4, ReadsSame
  <2> QED BY <2>1, <1>3 DEF Identities
<1> QED BY <1>2, <1>4, <1>6, <1>7

(* Whatever has the fields of a database is a function of them.            *)
LEMMA DBDomain == ASSUME NEW d, NEW p, Tables(d, p) PROVE DOMAIN d = Fields
<1>1. IsDB(d) BY TablesList
<1> QED BY <1>1, Zenon DEF IsDB

(* AddVulnerabilities refuses a second run of a provider, or makes e of d. *)
Refuses(d, v, e) ==
  /\ e.err = TRUE /\ e.providers = d.providers
  /\ \E q \in d.providers : q.id = v.provider.id /\ q # v.provider
Taken(d, v, e, p) ==
  /\ Tables(e, p) /\ Grown(d, e) /\ Only(d, e, {"providers", "blobs", "aliases", "vulns"}) /\ Holds(e, v)
  /\ Records(e) = Records(d) /\ CPERecords(e) = CPERecords(d)
  /\ Identities(e) = Identities(d) \cup {identity(v)}
  /\ e.aliases = d.aliases \cup aliasRows(v)
  /\ e.providers = d.providers \cup {v.provider}
  /\ v.provider \in d.providers \/ \A q \in d.providers : q.id # v.provider.id

LEMMA AddVulnerabilitiesIs ==
  ASSUME NEW d, NEW p \in DOMAIN Pools, Tables(d, p), NEW v \in VulnsOf(p)
  PROVE  LET e == AddVulnerabilities(d, v) IN Refuses(d, v, e) \/ Taken(d, v, e, p)
<1> DEFINE wp == addProviders(d, v.provider)
           e == AddVulnerabilities(d, v)
           F == {"providers", "blobs", "aliases", "vulns"}
<1>1. e = IF wp.err THEN wp ELSE addVuln(wp, v) BY Zenon DEF AddVulnerabilities
<1>2. d.err = FALSE /\ DOMAIN d = Fields BY TablesList, DBDomain
<1>3. CASE v.provider \notin d.providers /\ \E q \in d.providers : q.id = v.provider.id
  <2>1. wp = [d EXCEPT !.err = TRUE] BY <1>3 DEF addProviders, cachedProvider, Failed
  <2>2. wp.err = TRUE /\ wp.providers = d.providers BY <2>1, <1>2 DEF Fields
  <2> HIDE DEF wp, e
  <2>3. e = wp BY <1>1, <2>2
  <2> QED BY <2>2, <2>3, <1>3 DEF e, Refuses
<1>4. CASE v.provider \in d.providers \/ \A q \in d.providers : q.id # v.provider.id
  <2>1. /\ Tables(wp, p) /\ Grown(d, wp) /\ Only(d, wp, {"providers"})
        /\ wp.providers = d.providers \cup {v.provider} /\ wp.aliases = d.aliases
        /\ Records(wp) = Records(d) /\ CPERecords(wp) = CPERecords(d) /\ Identities(wp) = Identities(d)
    <3>1. CASE v.provider \in d.providers
      <4>1. wp = d BY <3>1 DEF addProviders, cachedProvider
      <4>2. Grown(d, d) BY LongerSelf DEF Grown
      <4> HIDE DEF wp
      <4> QED BY <4>1, <4>2, <3>1 DEF Only
    <3>2. CASE v.provider \notin d.providers
      <4>1. wp = [d EXCEPT !.providers = @ \cup {v.provider}] BY <3>2, <1>4 DEF addProviders, cachedProvider
      <4>2. Puts(d, "providers", d.providers \cup {v.provider}, wp) BY <4>1, <1>2 DEF Puts
      <4>3. "providers" \in Aside BY DEF Aside
      <4> HIDE DEF wp
      <4>4. /\ Tables(wp, p) /\ Grown(d, wp) /\ Only(d, wp, {"providers"})
            /\ wp.providers = d.providers \cup {v.provider}
            /\ Records(wp) = Records(d) /\ CPERecords(wp) = CPERecords(d) /\ Identities(wp) = Identities(d)
        BY <4>2, <4>3, putAside
      <4>5. wp.aliases = d.aliases BY <4>4 DEF Only, Fields
      <4> QED BY <4>4, <4>5
    <3> QED BY <3>1, <3>2
  <2> HIDE DEF wp
  <2>2. wp.err = FALSE BY <2>1, TablesList
  <2>3. e = addVuln(wp, v) BY <1>1, <2>2
  <2> HIDE DEF e
  <2>4. /\ Tables(e, p) /\ Grown(wp, e) /\ Only(wp, e, {"blobs", "aliases", "vulns"}) /\ Holds(e, v)
        /\ Records(e) = Records(wp) /\ CPERecords(e) = CPERecords(wp)
        /\ Identities(e) = Identities(wp) \cup {identity(v)}
        /\ e.aliases = wp.aliases \cup aliasRows(v)
    BY <2>1, <2>3, addVulnIs
  <2>5. e.providers = wp.providers BY <2>4 DEF Only, Fields
  <2>6. Only(d, e, F) BY <2>1, <2>4 DEF Only
  <2>7. Grown(d, e) BY <2>1, <2>4, GrownTwice
  <2> QED BY <2>1, <2>4, <2>5, <2>6, <2>7, <1>4 DEF e, Taken
<1> QED BY <1>3, <1>4

LEMMA AddProviderIs ==
  ASSUME NEW d, NEW p, Tables(d, p), NEW r
  PROVE  LET e == AddProvider(d, r)
         IN  /\ Tables(e, p) /\ Grown(d, e) /\ Only(d, e, {"providers"})
             /\ Records(e) = Records(d) /\ CPERecords(e) = CPERecords(d) /\ Identities(e) = Identities(d)
             /\ d.providers \subseteq e.providers
             /\ (\A q, s \in d.providers : q.id = s.id => q = s) => \A q, s \in e.providers : q.id = s.id => q = s
<1> DEFINE e == AddProvider(d, r)
<1>1. CASE \E q \in d.providers : q.id = r.id
  <2>1. e = d BY <1>1 DEF AddProvider
  <2>2. Grown(d, d) BY LongerSelf DEF Grown
  <2> HIDE DEF e
  <2> QED BY <2>1, <2>2 DEF Only, e
<1>2. CASE ~\E q \in d.providers : q.id = r.id
  <2>1. DOMAIN d = Fields BY DBDomain
  <2>2. e = [d EXCEPT !.providers = @ \cup {r}] BY <1>2 DEF AddProvider
  <2>3. Puts(d, "providers", d.providers \cup {r}, e) BY <2>1, <2>2 DEF Puts
  <2>4. "providers" \in Aside BY DEF Aside
  <2> HIDE DEF e
  <2>5. /\ Tables(e, p) /\ Grown(d, e) /\ Only(d, e, {"providers"}) /\ e.providers = d.providers \cup {r}
        /\ Records(e) = Records(d) /\ CPERecords(e) = CPERecords(d) /\ Identities(e) = Identities(d)
    BY <2>3, <2>4, putAside
  <2> QED BY <2>5, <1>2 DEF e
<1> QED BY <1>1, <1>2

(* After a failure the records of an entry are passed over.                *)
LEMMA relatedFailed ==
  ASSUME NEW d, d.err = TRUE, NEW p \in DOMAIN Pools, NEW e \in VulnEntries(p)
  PROVE  related(d, e) = d
<1> DEFINE hs == e.handles
           m == Len(hs)
           U == Through(d, e.vuln, hs)
           T == {n \in 0..m : U[n] = d}
<1>1. m \in Nat
  <2>1. hs \in Seq(Range(hs)) BY PoolsAssumption
  <2>2. PICK S : hs \in Seq(S) BY <2>1
  <2> QED BY <2>2, ListIs
<1>2. related(d, e) = U[m] BY DEF related, Through
<1>3. U[0] = d /\ \A n \in 1..m : U[n] = writeRelated(U[n - 1], e.vuln, hs[n]) BY <1>1, ThroughIs
<1>4. \A h : writeRelated(d, e.vuln, h) = d BY DEF writeRelated
<1> HIDE DEF U
<1>5. 0 \in T BY <1>1, <1>3
<1>6. ASSUME NEW n \in 1..m, n - 1 \in T PROVE n \in T BY <1>1, <1>3, <1>4, <1>6
<1>7. m \in T
  <2> HIDE DEF T, m
  <2> QED BY <1>1, <1>5, <1>6, Upward
<1> QED BY <1>2, <1>7

(* What was written about a CVE stays.                                     *)
LEMMA DecoratedOn ==
  ASSUME NEW d, NEW e, NEW l, NEW k, NEW p, Decorated(d, l, p), Grown(d, e),
         e.epss = d.epss, e.epssDate = d.epssDate, e.kevs = d.kevs, e.cwes = d.cwes,
         k.epss = l.epss, k.kevs = l.kevs, k.cwes = l.cwes
  PROVE  Decorated(e, k, p)
<1>1. \A x \in l.epss : /\ x \in {f.row : f \in {f \in DecorationEntries(p) : f.kind = "epss"}}
                        /\ scoreRow(x) \in d.epss /\ x.date = d.epssDate
  BY DEF Decorated
<1>2. d.epssDate # 0 => \E x \in l.epss : x.date = d.epssDate BY DEF Decorated
<1>3. \A x \in l.kevs : x \in {f.row : f \in DecorationEntries(p)} BY DEF Decorated
<1>4. ASSUME NEW x \in l.kevs
      PROVE  \E r \in e.kevs : r.cve = x.cve /\ r.blob \in DOMAIN e.blobs /\ e.blobs[r.blob] = x.blob
  <2>1. PICK r \in d.kevs : r.cve = x.cve /\ r.blob \in DOMAIN d.blobs /\ d.blobs[r.blob] = x.blob BY DEF Decorated
  <2>2. r.blob \in DOMAIN e.blobs /\ e.blobs[r.blob] = d.blobs[r.blob] BY <2>1 DEF Grown, Longer
  <2> QED BY <2>1, <2>2
<1>5. l.cwes \subseteq {f.row : f \in DecorationEntries(p)} /\ d.cwes = l.cwes BY DEF Decorated
<1> QED BY <1>1, <1>2, <1>3, <1>4, <1>5 DEF Decorated

(***************************************************************************)
(* The invariant holds from the start, and writing an entry keeps it.      *)
(***************************************************************************)
LEMMA EmptyTables ==
  ASSUME NEW p
  PROVE  /\ Tables(EmptyDB, p) /\ Scored(EmptyDB) /\ AsAsked(EmptyDB, NoLog) /\ Runs(EmptyDB, NoLog)
         /\ Decorated(EmptyDB, NoLog, p) /\ IsLog(NoLog, p) /\ EmptyDB.err = FALSE
<1>1. /\ EmptyDB.blobs = <<>> /\ EmptyDB.vulns = <<>> /\ EmptyDB.packages = <<>> /\ EmptyDB.oses = <<>>
      /\ EmptyDB.cpes = <<>> /\ EmptyDB.handles = {} /\ EmptyDB.cpeHandles = {} /\ EmptyDB.err = FALSE
      /\ EmptyDB.providers = {} /\ EmptyDB.aliases = {} /\ EmptyDB.epss = {} /\ EmptyDB.epssDate = 0
      /\ EmptyDB.kevs = {} /\ EmptyDB.cwes = {}
  BY DEF EmptyDB
<1>2. IsDB(EmptyDB) BY DEF IsDB, EmptyDB, Fields
<1>3. /\ NoLog.vulns = {} /\ NoLog.records = {} /\ NoLog.cpeRecords = {} /\ NoLog.epss = {} /\ NoLog.kevs = {}
      /\ NoLog.cwes = {}
  BY DEF NoLog
<1>4. NoLog = [vulns |-> NoLog.vulns, records |-> NoLog.records, cpeRecords |-> NoLog.cpeRecords,
               epss |-> NoLog.epss, kevs |-> NoLog.kevs, cwes |-> NoLog.cwes]
  BY DEF NoLog
<1>5. IsLog(NoLog, p) BY <1>3, <1>4, Zenon DEF IsLog
<1>6. Lists(EmptyDB) BY <1>1, <1>2, EmptyList DEF Lists
<1>7. Rows(EmptyDB, p) BY <1>1, EmptyList DEF Rows
<1>8. Refs(EmptyDB) BY <1>1 DEF Refs
<1>9. AsAsked(EmptyDB, NoLog) BY <1>1, <1>3, EmptyList DEF AsAsked, Records, CPERecords, Identities
<1>10. Runs(EmptyDB, NoLog) /\ Scored(EmptyDB) BY <1>1, <1>3 DEF Runs, Scored
<1>11. Decorated(EmptyDB, NoLog, p) BY <1>1, <1>3 DEF Decorated
<1> QED BY <1>1, <1>5, <1>6, <1>7, <1>8, <1>9, <1>10, <1>11 DEF Tables

LEMMA InitDiff == Init => DiffInv
<1> SUFFICES ASSUME Init PROVE DiffInv OBVIOUS
<1>1. /\ pool \in DOMAIN Pools /\ db = EmptyDB /\ log = NoLog /\ built = <<>>
      /\ cmd = None /\ dir = [d \in Dirs |-> "none"] /\ report = None
  BY DEF Init
<1>2. IsLog(log, pool) /\ StoreInv BY <1>1, EmptyTables DEF StoreInv, Faithful
<1>3. BuiltInv
  <2>1. Len(<<>>) = 0 OBVIOUS
  <2> QED BY <2>1, <1>1, EmptyList DEF BuiltInv
<1>4. CmdInv BY <1>1 DEF CmdInv, DirStates
<1> QED BY <1>1, <1>2, <1>3, <1>4 DEF DiffInv

(* Only the database being built and its log change.                       *)
LEMMA RestStays ==
  ASSUME BuiltInv, CmdInv, UNCHANGED <<pool, built, cmd, dir, report>>
  PROVE  BuiltInv' /\ CmdInv'
<1>1. BuiltInv' BY DEF BuiltInv
<1>2. CmdInv' BY DEF CmdInv
<1> QED BY <1>1, <1>2

LEMMA WriteEntryStep == ASSUME NEW e \in Pools[pool] PROVE DiffInv /\ WriteEntry(e) => DiffInv'
<1> SUFFICES ASSUME DiffInv, WriteEntry(e) PROVE DiffInv' OBVIOUS
<1>1. e.kind = "vuln" /\ UNCHANGED <<pool, built, cmd, dir, report>> BY DEF WriteEntry, Building
<1>2. BuiltInv' /\ CmdInv' BY <1>1, RestStays DEF DiffInv
<1>3. pool \in DOMAIN Pools /\ e \in VulnEntries(pool) BY DEF DiffInv, VulnEntries, WriteEntry
<1> DEFINE v == e.vuln
           wv == AddVulnerabilities(db, v)
<1>4. v \in VulnsOf(pool) BY <1>3 DEF VulnsOf
<1>5. ~db.err BY DEF WriteEntry, Building
<1>6. /\ Tables(db, pool) /\ Scored(db) /\ AsAsked(db, log) /\ Runs(db, log) /\ Decorated(db, log, pool)
      /\ IsLog(log, pool)
  BY <1>5 DEF DiffInv, StoreInv, Faithful
<1>7. db' = related(wv, e) BY DEF WriteEntry
<1>8. /\ log'.vulns = log.vulns \cup {v}
      /\ log'.records = log.records \cup {asked(v, h) : h \in Of(e, "pkg")}
      /\ log'.cpeRecords = log.cpeRecords \cup {askedCPE(v, h) : h \in Of(e, "cpe")}
      /\ log'.epss = log.epss /\ log'.kevs = log.kevs /\ log'.cwes = log.cwes
      /\ log' = [vulns |-> log'.vulns, records |-> log'.records, cpeRecords |-> log'.cpeRecords,
                 epss |-> log'.epss, kevs |-> log'.kevs, cwes |-> log'.cwes]
  <2>1. PICK a, b, c, x, y, z : log = [vulns |-> a, records |-> b, cpeRecords |-> c, epss |-> x, kevs |-> y, cwes |-> z]
    BY <1>6 DEF IsLog
  <2>2. log' = [vulns |-> a \cup {v}, records |-> b \cup {asked(v, h) : h \in Of(e, "pkg")},
                cpeRecords |-> c \cup {askedCPE(v, h) : h \in Of(e, "cpe")}, epss |-> x, kevs |-> y, cwes |-> z]
    BY <2>1 DEF WriteEntry
  <2> QED BY <2>1, <2>2
<1>9. IsLog(log', pool')
  <2>1. log'.vulns \subseteq VulnsOf(pool') BY <1>1, <1>4, <1>6, <1>8 DEF IsLog
  <2> QED BY <2>1, <1>8, Zenon DEF IsLog
<1> HIDE DEF wv, v
<1>10. CASE Refuses(db, v, wv)
  <2>1. db' = wv BY <1>3, <1>7, <1>10, relatedFailed DEF Refuses
  <2>2. PICK q \in db'.providers : q.id = v.provider.id /\ q # v.provider BY <2>1, <1>10 DEF Refuses
  <2>3. v \in log'.vulns BY <1>8
  <2>4. WritesAccepted' BY <2>2, <2>3 DEF WritesAccepted
  <2>5. StoreInv' BY <2>1, <2>4, <1>10 DEF StoreInv, Faithful, Refuses
  <2> QED BY <2>5, <1>1, <1>2, <1>3, <1>9 DEF DiffInv
<1>11. CASE Taken(db, v, wv, pool)
  <2>1. /\ Tables(db', pool) /\ Grown(wv, db') /\ Only(wv, db', RecordTables)
        /\ Records(db') = Records(wv) \cup {asked(v, h) : h \in Of(e, "pkg")}
        /\ CPERecords(db') = CPERecords(wv) \cup {askedCPE(v, h) : h \in Of(e, "cpe")}
    BY <1>3, <1>7, <1>11, relatedIs DEF v, Taken
  <2>2. /\ db'.vulns = wv.vulns /\ db'.aliases = wv.aliases /\ db'.providers = wv.providers
        /\ db'.epss = wv.epss /\ db'.epssDate = wv.epssDate /\ db'.kevs = wv.kevs /\ db'.cwes = wv.cwes
    BY <2>1 DEF Only, Fields, RecordTables
  <2>3. wv.epss = db.epss /\ wv.epssDate = db.epssDate /\ wv.kevs = db.kevs /\ wv.cwes = db.cwes
    BY <1>11 DEF Only, Fields, Taken
  <2>4. Grown(db, db') BY <2>1, <1>11, GrownTwice DEF Taken
  <2>5. Identities(db') = Identities(wv)
    <3>1. \A i \in DOMAIN wv.vulns : vulnOf(db', i) = vulnOf(wv, i) BY <2>1, <1>11, ReadsSame DEF Taken
    <3> QED BY <3>1, <2>2 DEF Identities
  <2>6. AsAsked(db', log')
    <3>1. Records(db') = log'.records /\ CPERecords(db') = log'.cpeRecords BY <2>1, <1>6, <1>8, <1>11 DEF AsAsked, Taken
    <3>2. Identities(db') = {identity(w) : w \in log'.vulns}
      <4>1. {identity(w) : w \in log.vulns \cup {v}} = {identity(w) : w \in log.vulns} \cup {identity(v)} OBVIOUS
      <4> QED BY <4>1, <2>5, <1>6, <1>8, <1>11 DEF AsAsked, Taken
    <3>3. db'.aliases = UNION {aliasRows(w) : w \in log'.vulns}
      <4>1. UNION {aliasRows(w) : w \in log.vulns \cup {v}} = (UNION {aliasRows(w) : w \in log.vulns}) \cup aliasRows(v)
        OBVIOUS
      <4> QED BY <4>1, <2>2, <1>6, <1>8, <1>11 DEF AsAsked, Taken
    <3> QED BY <3>1, <3>2, <3>3 DEF AsAsked
  <2>7. Runs(db', log') BY <2>2, <1>6, <1>8, <1>11 DEF Runs, Taken
  <2>8. Decorated(db', log', pool) BY <2>2, <2>3, <2>4, <1>6, <1>8, DecoratedOn
  <2>9. Scored(db') BY <2>2, <2>3, <1>6 DEF Scored
  <2>10. db'.err = FALSE BY <2>1, TablesList
  <2>11. StoreInv' BY <2>1, <2>6, <2>7, <2>8, <2>9, <2>10, <1>1 DEF StoreInv, Faithful
  <2> QED BY <2>11, <1>1, <1>2, <1>3, <1>9 DEF DiffInv
<1>12. Refuses(db, v, wv) \/ Taken(db, v, wv, pool) BY <1>3, <1>4, <1>6, AddVulnerabilitiesIs DEF wv
<1> QED BY <1>10, <1>11, <1>12

(* A log, by what it holds.                                                *)
Logs(l, a, b, c, x, y, z) ==
  l = [vulns |-> a, records |-> b, cpeRecords |-> c, epss |-> x, kevs |-> y, cwes |-> z]

LEMMA LogIs ==
  ASSUME NEW l, NEW p, NEW a, NEW b, NEW c, NEW x, NEW y, NEW z, Logs(l, a, b, c, x, y, z), a \subseteq VulnsOf(p)
  PROVE  /\ IsLog(l, p) /\ l.vulns = a /\ l.records = b /\ l.cpeRecords = c
         /\ l.epss = x /\ l.kevs = y /\ l.cwes = z
<1>1. l.vulns = a /\ l.records = b /\ l.cpeRecords = c /\ l.epss = x /\ l.kevs = y /\ l.cwes = z BY DEF Logs
<1>2. l = [vulns |-> l.vulns, records |-> l.records, cpeRecords |-> l.cpeRecords,
           epss |-> l.epss, kevs |-> l.kevs, cwes |-> l.cwes]
  BY <1>1 DEF Logs
<1>3. IsLog(l, p) BY <1>1, <1>2, Zenon DEF IsLog
<1> QED BY <1>1, <1>3

LEMMA LogHas ==
  ASSUME NEW l, NEW p, IsLog(l, p)
  PROVE  \E a, b, c, x, y, z : Logs(l, a, b, c, x, y, z) /\ a \subseteq VulnsOf(p)
BY DEF Logs, IsLog

(* What a provider without vulnerabilities adds to.                        *)
LEMMA ProvidedIs ==
  ASSUME NEW d, NEW l, NEW p, Faithful(d, l, p), NEW r
  PROVE  /\ Faithful(AddProvider(d, r), l, p)
         /\ AddProvider(d, r).epssDate = d.epssDate
<1>1. PICK e : e = AddProvider(d, r) OBVIOUS
<1>2. Tables(d, p) /\ Scored(d) /\ AsAsked(d, l) /\ Runs(d, l) /\ Decorated(d, l, p) BY DEF Faithful
<1>3. /\ Tables(e, p) /\ Grown(d, e) /\ Only(d, e, {"providers"})
      /\ Records(e) = Records(d) /\ CPERecords(e) = CPERecords(d) /\ Identities(e) = Identities(d)
      /\ d.providers \subseteq e.providers
      /\ (\A q, s \in d.providers : q.id = s.id => q = s) => \A q, s \in e.providers : q.id = s.id => q = s
  BY <1>1, <1>2, AddProviderIs
<1>4. /\ e.epss = d.epss /\ e.epssDate = d.epssDate /\ e.kevs = d.kevs /\ e.cwes = d.cwes /\ e.aliases = d.aliases
  BY <1>3 DEF Only, Fields
<1>5. Scored(e) /\ AsAsked(e, l) BY <1>2, <1>3, <1>4 DEF Scored, AsAsked
<1>6. Runs(e, l) BY <1>2, <1>3 DEF Runs
<1>7. Decorated(e, l, p) BY <1>2, <1>3, <1>4, DecoratedOn
<1> QED BY <1>1, <1>3, <1>4, <1>5, <1>6, <1>7 DEF Faithful

(* The records, the vulnerabilities and the runs stay.                     *)
LEMMA AsideStays ==
  ASSUME NEW d, NEW e, NEW l, NEW k, NEW p, Faithful(d, l, p), Tables(e, p),
         Records(e) = Records(d), CPERecords(e) = CPERecords(d), Identities(e) = Identities(d),
         e.aliases = d.aliases, e.providers = d.providers,
         k.vulns = l.vulns, k.records = l.records, k.cpeRecords = l.cpeRecords,
         Scored(e), Decorated(e, k, p)
  PROVE  Faithful(e, k, p)
<1>1. AsAsked(e, k) BY DEF Faithful, AsAsked
<1>2. Runs(e, k) BY DEF Faithful, Runs
<1> QED BY <1>1, <1>2 DEF Faithful

LEMMA WriteCWEStep == ASSUME NEW e \in Pools[pool] PROVE DiffInv /\ WriteCWE(e) => DiffInv'
<1> SUFFICES ASSUME DiffInv, WriteCWE(e) PROVE DiffInv' OBVIOUS
<1>1. UNCHANGED <<pool, built, cmd, dir, report>> /\ ~db.err BY DEF WriteCWE, Building
<1>2. BuiltInv' /\ CmdInv' BY <1>1, RestStays DEF DiffInv
<1>3. pool \in DOMAIN Pools /\ e \in DecorationEntries(pool) BY DEF DiffInv, DecorationEntries, WriteCWE
<1>4. Faithful(db, log, pool) /\ IsLog(log, pool) BY <1>1 DEF DiffInv, StoreInv
<1>5. PICK d : d = AddProvider(db, e.provider) OBVIOUS
<1>6. Faithful(d, log, pool) BY <1>4, <1>5, ProvidedIs
<1>7. Tables(d, pool) /\ Scored(d) /\ Decorated(d, log, pool) BY <1>6 DEF Faithful
<1>8. db' = [d EXCEPT !.cwes = @ \cup {e.row}] BY <1>5 DEF WriteCWE, AddCWE
<1>9. Puts(d, "cwes", d.cwes \cup {e.row}, db')
  <2>1. DOMAIN d = Fields BY <1>7, DBDomain
  <2> QED BY <2>1, <1>8 DEF Puts
<1>10. "cwes" \in Aside BY DEF Aside
<1>11. /\ Tables(db', pool) /\ Grown(d, db') /\ Only(d, db', {"cwes"}) /\ db'.cwes = d.cwes \cup {e.row}
       /\ Records(db') = Records(d) /\ CPERecords(db') = CPERecords(d) /\ Identities(db') = Identities(d)
  BY <1>7, <1>9, <1>10, putAside
<1>12. /\ db'.epss = d.epss /\ db'.epssDate = d.epssDate /\ db'.kevs = d.kevs /\ db'.blobs = d.blobs
       /\ db'.aliases = d.aliases /\ db'.providers = d.providers
  BY <1>11 DEF Only, Fields
<1>13. /\ log'.vulns = log.vulns /\ log'.records = log.records /\ log'.cpeRecords = log.cpeRecords
       /\ log'.epss = log.epss /\ log'.kevs = log.kevs /\ log'.cwes = log.cwes \cup {e.row} /\ IsLog(log', pool)
  <2>1. PICK a, b, c, x, y, z : Logs(log, a, b, c, x, y, z) /\ a \subseteq VulnsOf(pool) BY <1>4, LogHas
  <2>2. Logs(log', a, b, c, x, y, z \cup {e.row}) BY <2>1 DEF WriteCWE, Logs
  <2>3. /\ log.vulns = a /\ log.records = b /\ log.cpeRecords = c
        /\ log.epss = x /\ log.kevs = y /\ log.cwes = z
    BY <2>1, LogIs
  <2>4. /\ log'.vulns = a /\ log'.records = b /\ log'.cpeRecords = c /\ IsLog(log', pool)
        /\ log'.epss = x /\ log'.kevs = y /\ log'.cwes = z \cup {e.row}
    BY <2>1, <2>2, LogIs
  <2> QED BY <2>3, <2>4
<1>14. Decorated(db', log', pool)
  <2>1. e.row \in {f.row : f \in DecorationEntries(pool)} BY <1>3
  <2> QED BY <2>1, <1>7, <1>11, <1>12, <1>13 DEF Decorated
<1>15. Scored(db') BY <1>7, <1>12 DEF Scored
<1>16. Faithful(db', log', pool) BY <1>6, <1>11, <1>12, <1>13, <1>14, <1>15, AsideStays
<1>17. db'.err = FALSE BY <1>11, TablesList
<1> QED BY <1>1, <1>2, <1>3, <1>13, <1>16, <1>17 DEF DiffInv, StoreInv

LEMMA WriteKEVStep == ASSUME NEW e \in Pools[pool] PROVE DiffInv /\ WriteKEV(e) => DiffInv'
<1> SUFFICES ASSUME DiffInv, WriteKEV(e) PROVE DiffInv' OBVIOUS
<1>1. UNCHANGED <<pool, built, cmd, dir, report>> /\ ~db.err BY DEF WriteKEV, Building
<1>2. BuiltInv' /\ CmdInv' BY <1>1, RestStays DEF DiffInv
<1>3. pool \in DOMAIN Pools /\ e \in DecorationEntries(pool) BY DEF DiffInv, DecorationEntries, WriteKEV
<1>4. Faithful(db, log, pool) /\ IsLog(log, pool) BY <1>1 DEF DiffInv, StoreInv
<1>5. PICK d : d = AddProvider(db, e.provider) OBVIOUS
<1>6. Faithful(d, log, pool) BY <1>4, <1>5, ProvidedIs
<1>7. Tables(d, pool) /\ Scored(d) /\ Decorated(d, log, pool) BY <1>6 DEF Faithful
<1>8. PICK w : w = addBlobs(d, e.row.blob) OBVIOUS
<1>9. PICK k : k = [cve |-> e.row.cve, blob |-> blobID(w, e.row.blob)] OBVIOUS
<1>10. db' = [w EXCEPT !.kevs = @ \cup {k}] BY <1>5, <1>8, <1>9 DEF WriteKEV, AddKnownExploitedVulnerabilities
<1>11. /\ Tables(w, pool) /\ Grown(d, w) /\ Only(d, w, {"blobs"})
       /\ blobID(w, e.row.blob) \in DOMAIN w.blobs /\ w.blobs[blobID(w, e.row.blob)] = e.row.blob
  BY <1>7, <1>8, addBlobsIs
<1>12. Puts(w, "kevs", w.kevs \cup {k}, db')
  <2>1. DOMAIN w = Fields BY <1>11, DBDomain
  <2> QED BY <2>1, <1>10 DEF Puts
<1>13. "kevs" \in Aside BY DEF Aside
<1>14. /\ Tables(db', pool) /\ Grown(w, db') /\ Only(w, db', {"kevs"}) /\ db'.kevs = w.kevs \cup {k}
       /\ Records(db') = Records(w) /\ CPERecords(db') = CPERecords(w) /\ Identities(db') = Identities(w)
  BY <1>11, <1>12, <1>13, putAside
<1>15. /\ w.epss = d.epss /\ w.epssDate = d.epssDate /\ w.kevs = d.kevs /\ w.cwes = d.cwes /\ w.vulns = d.vulns
       /\ w.aliases = d.aliases /\ w.providers = d.providers /\ w.handles = d.handles /\ w.cpeHandles = d.cpeHandles
  BY <1>11 DEF Only, Fields
<1>16. /\ db'.epss = w.epss /\ db'.epssDate = w.epssDate /\ db'.cwes = w.cwes /\ db'.blobs = w.blobs
       /\ db'.aliases = w.aliases /\ db'.providers = w.providers
  BY <1>14 DEF Only, Fields
<1>17. Records(w) = Records(d) /\ CPERecords(w) = CPERecords(d) BY <1>7, <1>11, <1>15, HandlesStay
<1>18. Identities(w) = Identities(d)
  <2>1. \A i \in DOMAIN d.vulns : vulnOf(w, i) = vulnOf(d, i) BY <1>7, <1>11, ReadsSame
  <2> QED BY <2>1, <1>15 DEF Identities
<1>19. /\ log'.vulns = log.vulns /\ log'.records = log.records /\ log'.cpeRecords = log.cpeRecords
       /\ log'.epss = log.epss /\ log'.kevs = log.kevs \cup {e.row} /\ log'.cwes = log.cwes /\ IsLog(log', pool)
  <2>1. PICK a, b, c, x, y, z : Logs(log, a, b, c, x, y, z) /\ a \subseteq VulnsOf(pool) BY <1>4, LogHas
  <2>2. Logs(log', a, b, c, x, y \cup {e.row}, z) BY <2>1 DEF WriteKEV, Logs
  <2>3. /\ log.vulns = a /\ log.records = b /\ log.cpeRecords = c
        /\ log.epss = x /\ log.kevs = y /\ log.cwes = z
    BY <2>1, LogIs
  <2>4. /\ log'.vulns = a /\ log'.records = b /\ log'.cpeRecords = c /\ IsLog(log', pool)
        /\ log'.epss = x /\ log'.kevs = y \cup {e.row} /\ log'.cwes = z
    BY <2>1, <2>2, LogIs
  <2> QED BY <2>3, <2>4
<1>20. Decorated(w, log, pool) BY <1>7, <1>11, <1>15, DecoratedOn
<1>21. Decorated(db', log', pool)
  <2>1. e.row \in {f.row : f \in DecorationEntries(pool)} BY <1>3
  <2>2. k \in db'.kevs /\ k.cve = e.row.cve /\ k.blob \in DOMAIN db'.blobs /\ db'.blobs[k.blob] = e.row.blob
    BY <1>9, <1>11, <1>14, <1>16
  <2>3. ASSUME NEW x \in log'.kevs
        PROVE  /\ x \in {f.row : f \in DecorationEntries(pool)}
               /\ \E r \in db'.kevs : r.cve = x.cve /\ r.blob \in DOMAIN db'.blobs /\ db'.blobs[r.blob] = x.blob
    <3>1. CASE x = e.row BY <3>1, <2>1, <2>2
    <3>2. CASE x \in log.kevs
      <4>1. PICK r \in w.kevs : r.cve = x.cve /\ r.blob \in DOMAIN w.blobs /\ w.blobs[r.blob] = x.blob
        BY <3>2, <1>20 DEF Decorated
      <4>2. x \in {f.row : f \in DecorationEntries(pool)} BY <3>2, <1>20 DEF Decorated
      <4> QED BY <4>1, <4>2, <1>14, <1>16
    <3> QED BY <3>1, <3>2, <1>19
  <2>4. \A x \in log'.epss : /\ x \in {f.row : f \in {f \in DecorationEntries(pool) : f.kind = "epss"}}
                             /\ scoreRow(x) \in db'.epss /\ x.date = db'.epssDate
    BY <1>16, <1>19, <1>20 DEF Decorated
  <2>5. db'.epssDate # 0 => \E x \in log'.epss : x.date = db'.epssDate BY <1>16, <1>19, <1>20 DEF Decorated
  <2>6. log'.cwes \subseteq {f.row : f \in DecorationEntries(pool)} /\ db'.cwes = log'.cwes
    BY <1>16, <1>19, <1>20 DEF Decorated
  <2> QED BY <2>3, <2>4, <2>5, <2>6 DEF Decorated
<1>22. Scored(db') BY <1>7, <1>15, <1>16 DEF Scored
<1>23. Faithful(db', log', pool)
  BY <1>6, <1>14, <1>15, <1>16, <1>17, <1>18, <1>19, <1>21, <1>22, AsideStays
<1>24. db'.err = FALSE BY <1>14, TablesList
<1> QED BY <1>1, <1>2, <1>3, <1>19, <1>23, <1>24 DEF DiffInv, StoreInv

(* A score is there before its date is looked at: another date is refused. *)
LEMMA WriteEpssStep == ASSUME NEW e \in Pools[pool] PROVE DiffInv /\ WriteEpss(e) => DiffInv'
<1> SUFFICES ASSUME DiffInv, WriteEpss(e) PROVE DiffInv' OBVIOUS
<1>1. UNCHANGED <<pool, built, cmd, dir, report>> /\ ~db.err BY DEF WriteEpss, Building
<1>2. BuiltInv' /\ CmdInv' BY <1>1, RestStays DEF DiffInv
<1>3. pool \in DOMAIN Pools /\ e \in DecorationEntries(pool) /\ e.kind = "epss"
  BY DEF DiffInv, DecorationEntries, WriteEpss
<1>4. Faithful(db, log, pool) /\ IsLog(log, pool) BY <1>1 DEF DiffInv, StoreInv
<1>5. PICK d : d = AddProvider(db, e.provider) OBVIOUS
<1>6. Faithful(d, log, pool) BY <1>4, <1>5, ProvidedIs
<1>7. Tables(d, pool) /\ Scored(d) /\ Decorated(d, log, pool) BY <1>6 DEF Faithful
<1>8. PICK k : k = scoreRow(e.row) OBVIOUS
<1>9. PICK w : w = [d EXCEPT !.epss = @ \cup {k}] OBVIOUS
<1>10. db' = setEPSSMetadata(w, e.row.date) BY <1>5, <1>8, <1>9 DEF WriteEpss, AddEpss, scoreRow
<1>11. Puts(d, "epss", d.epss \cup {k}, w)
  <2>1. DOMAIN d = Fields BY <1>7, DBDomain
  <2> QED BY <2>1, <1>9 DEF Puts
<1>12. "epss" \in Aside /\ "epssDate" \in Aside BY DEF Aside
<1>13. /\ Tables(w, pool) /\ Grown(d, w) /\ Only(d, w, {"epss"}) /\ w.epss = d.epss \cup {k}
       /\ Records(w) = Records(d) /\ CPERecords(w) = CPERecords(d) /\ Identities(w) = Identities(d)
  BY <1>7, <1>11, <1>12, putAside
<1>14. /\ w.epssDate = d.epssDate /\ w.kevs = d.kevs /\ w.blobs = d.blobs /\ w.cwes = d.cwes
       /\ w.aliases = d.aliases /\ w.providers = d.providers
  BY <1>13 DEF Only, Fields
<1>15. e.row.score \in Int /\ e.row.percentile \in Int /\ e.row.date \in Nat \ {0}
  <2>1. e.row \in [cve : {e.row.cve}, score : Int, percentile : Int, date : Nat \ {0}] BY <1>3, PoolsAssumption
  <2> QED BY <2>1
<1>16. k.cve = e.row.cve /\ k.score = e.row.score /\ k.percentile = e.row.percentile BY <1>8 DEF scoreRow
<1>17. Scored(w) BY <1>7, <1>13, <1>15, <1>16 DEF Scored
<1>18. /\ log'.vulns = log.vulns /\ log'.records = log.records /\ log'.cpeRecords = log.cpeRecords
       /\ log'.epss = log.epss \cup {e.row} /\ log'.kevs = log.kevs /\ log'.cwes = log.cwes /\ IsLog(log', pool)
  <2>1. PICK a, b, c, x, y, z : Logs(log, a, b, c, x, y, z) /\ a \subseteq VulnsOf(pool) BY <1>4, LogHas
  <2>2. Logs(log', a, b, c, x \cup {e.row}, y, z) BY <2>1 DEF WriteEpss, Logs
  <2>3. /\ log.vulns = a /\ log.records = b /\ log.cpeRecords = c
        /\ log.epss = x /\ log.kevs = y /\ log.cwes = z
    BY <2>1, LogIs
  <2>4. /\ log'.vulns = a /\ log'.records = b /\ log'.cpeRecords = c /\ IsLog(log', pool)
        /\ log'.epss = x \cup {e.row} /\ log'.kevs = y /\ log'.cwes = z
    BY <2>1, <2>2, LogIs
  <2> QED BY <2>3, <2>4
<1>19. /\ e.row \in {f.row : f \in {f \in DecorationEntries(pool) : f.kind = "epss"}} BY <1>3
<1>20. ASSUME Tables(db', pool), Grown(w, db'), Only(w, db', {"epssDate"}), db'.epssDate = e.row.date,
              d.epssDate \in {0, e.row.date},
              Records(db') = Records(w), CPERecords(db') = CPERecords(w), Identities(db') = Identities(w)
       PROVE  DiffInv'
  <2>1. /\ db'.epss = w.epss /\ db'.kevs = w.kevs /\ db'.blobs = w.blobs /\ db'.cwes = w.cwes
        /\ db'.aliases = w.aliases /\ db'.providers = w.providers
    BY <1>20 DEF Only, Fields
  <2>2. Scored(db') BY <1>17, <2>1 DEF Scored
  <2>3. Decorated(db', log', pool)
    <3>1. ASSUME NEW x \in log'.epss
          PROVE  /\ x \in {f.row : f \in {f \in DecorationEntries(pool) : f.kind = "epss"}}
                 /\ scoreRow(x) \in db'.epss /\ x.date = db'.epssDate
      <4>1. CASE x = e.row BY <4>1, <1>8, <1>13, <1>19, <1>20, <2>1
      <4>2. CASE x \in log.epss
        <5>1. /\ x \in {f.row : f \in {f \in DecorationEntries(pool) : f.kind = "epss"}}
              /\ scoreRow(x) \in d.epss /\ x.date = d.epssDate
          BY <4>2, <1>7 DEF Decorated
        <5>2. x.date # 0
          <6>1. PICK f \in DecorationEntries(pool) : f.kind = "epss" /\ x = f.row BY <5>1
          <6>2. f.row \in [cve : {f.row.cve}, score : Int, percentile : Int, date : Nat \ {0}] BY <6>1, <1>3, PoolsAssumption
          <6> QED BY <6>1, <6>2
        <5>3. x.date = e.row.date BY <5>1, <5>2, <1>20
        <5> QED BY <5>1, <5>3, <1>13, <1>20, <2>1
      <4> QED BY <4>1, <4>2, <1>18
    <3>2. \E x \in log'.epss : x.date = db'.epssDate BY <1>18, <1>20
    <3>3. \A y \in log'.kevs : /\ y \in {f.row : f \in DecorationEntries(pool)}
                               /\ \E r \in db'.kevs : /\ r.cve = y.cve /\ r.blob \in DOMAIN db'.blobs
                                                      /\ db'.blobs[r.blob] = y.blob
      BY <1>7, <1>14, <1>18, <2>1 DEF Decorated
    <3>4. log'.cwes \subseteq {f.row : f \in DecorationEntries(pool)} /\ db'.cwes = log'.cwes
      BY <1>7, <1>14, <1>18, <2>1 DEF Decorated
    <3> QED BY <3>1, <3>2, <3>3, <3>4 DEF Decorated
  <2>4. Faithful(db', log', pool) BY <1>6, <1>13, <1>14, <1>18, <1>20, <2>1, <2>2, <2>3, AsideStays
  <2>5. db'.err = FALSE BY <1>20, TablesList
  <2> QED BY <1>1, <1>2, <1>3, <1>18, <2>4, <2>5 DEF DiffInv, StoreInv
<1>21. CASE w.epssDate = 0
  <2>1. Puts(w, "epssDate", e.row.date, db')
    <3>1. DOMAIN w = Fields BY <1>13, DBDomain
    <3>2. db' = [w EXCEPT !.epssDate = e.row.date] BY <1>10, <1>21 DEF setEPSSMetadata
    <3> QED BY <3>1, <3>2 DEF Puts
  <2>2. /\ Tables(db', pool) /\ Grown(w, db') /\ Only(w, db', {"epssDate"}) /\ db'.epssDate = e.row.date
        /\ Records(db') = Records(w) /\ CPERecords(db') = CPERecords(w) /\ Identities(db') = Identities(w)
    BY <1>12, <1>13, <2>1, putAside
  <2> QED BY <2>2, <1>14, <1>20, <1>21
<1>22. CASE w.epssDate # 0 /\ w.epssDate = e.row.date
  <2>1. db' = w BY <1>10, <1>22 DEF setEPSSMetadata
  <2>2. Grown(w, db') /\ Only(w, db', {"epssDate"}) BY <2>1, LongerSelf DEF Grown, Only
  <2> QED BY <2>1, <2>2, <1>13, <1>14, <1>20, <1>22
<1>23. CASE w.epssDate # 0 /\ w.epssDate # e.row.date
  <2>1. db' = [w EXCEPT !.err = TRUE] BY <1>10, <1>23 DEF setEPSSMetadata, Failed
  <2>2. "err" \in DOMAIN w
    <3>1. DOMAIN w = Fields BY <1>13, DBDomain
    <3> QED BY <3>1 DEF Fields
  <2>3. db'.err = TRUE BY <2>1, <2>2
  <2>4. PICK x \in log.epss : x.date = d.epssDate BY <1>7, <1>14, <1>23 DEF Decorated
  <2>5. x \in log'.epss /\ e.row \in log'.epss /\ x.date # e.row.date BY <2>4, <1>14, <1>18, <1>23
  <2>6. WritesAccepted' BY <2>5 DEF WritesAccepted
  <2> QED BY <1>1, <1>2, <1>3, <1>18, <2>3, <2>6 DEF DiffInv, StoreInv
<1> QED BY <1>21, <1>22, <1>23

(* A finished database is kept as it is, and the next one starts empty.    *)
LEMMA CloseStep == DiffInv /\ Close => DiffInv'
<1> SUFFICES ASSUME DiffInv, Close PROVE DiffInv' OBVIOUS
<1>1. /\ Len(built) < 2 /\ cmd = None /\ ~db.err /\ built' = Append(built, [db |-> db, log |-> log])
      /\ db' = EmptyDB /\ log' = NoLog /\ UNCHANGED <<pool, cmd, dir, report>>
  BY DEF Close
<1>2. Tables(db, pool) /\ Scored(db) BY <1>1 DEF DiffInv, StoreInv, Faithful
<1>3. IsLog(log', pool) /\ StoreInv' BY <1>1, EmptyTables DEF StoreInv, Faithful
<1>4. PICK b : b = [db |-> db, log |-> log] OBVIOUS
<1>5. b.db = db BY <1>4
<1>6. /\ IsList(built) /\ Len(built) <= 2
      /\ \A i \in DOMAIN built : Tables(built[i].db, pool) /\ Scored(built[i].db)
  BY DEF DiffInv, BuiltInv
<1>7. /\ IsList(built') /\ Longer(built, built') /\ Len(built) \in Nat /\ Len(built') = Len(built) + 1
      /\ built'[Len(built')] = b /\ DOMAIN built' = DOMAIN built \cup {Len(built')}
  BY <1>1, <1>4, <1>6, AppendIs
<1>8. \A i \in DOMAIN built' : Tables(built'[i].db, pool) /\ Scored(built'[i].db)
  BY <1>2, <1>5, <1>6, <1>7 DEF Longer
<1>9. BuiltInv' BY <1>1, <1>7, <1>8 DEF BuiltInv
<1>10. CmdInv' BY <1>1 DEF DiffInv, CmdInv
<1> QED BY <1>1, <1>3, <1>9, <1>10 DEF DiffInv

(***************************************************************************)
(* The command keeps the invariant.                                        *)
(***************************************************************************)
(* Only the command, its directories and its report change.                *)
LEMMA StoresStay ==
  ASSUME DiffInv, UNCHANGED <<pool, db, log, writes, built>>, CmdInv'
  PROVE  DiffInv'
<1>1. StoreInv' BY DEF DiffInv, StoreInv, WritesAccepted
<1>2. BuiltInv' BY DEF DiffInv, BuiltInv
<1> QED BY <1>1, <1>2 DEF DiffInv

LEMMA DirOfIs ==
  ASSUME NEW p \in DOMAIN Pools, NEW c \in Commands(p), NEW a \in Args
  PROVE  dirOf(c, a) \in Dirs
<1>1. c.order \in Args \X Args BY PoolsAssumption DEF Commands
<1>2. c.order[a] \in Args BY <1>1 DEF Args
<1> QED BY <1>2 DEF dirOf, Dirs, TempDirs

(* What the invariant says before a report.                                *)
LEMMA CmdHas ==
  ASSUME DiffInv, cmd # None
  PROVE  /\ pool \in DOMAIN Pools /\ cmd \in Commands(pool) /\ Len(built) = 2 /\ dir \in [Dirs -> DirStates]
         /\ DirInv(cmd, dir) /\ \A a \in Args : dirOf(cmd, a) \in Dirs
         /\ cmd.state # "done" => report = None
BY DirOfIs DEF DiffInv, CmdInv

(* A run begins where the one before left the directories.                 *)
LEMMA StartDiffStep == DiffInv /\ StartDiff => DiffInv'
<1> SUFFICES ASSUME DiffInv, StartDiff PROVE DiffInv' OBVIOUS
<1>1. /\ UNCHANGED <<pool, db, log, writes, built, report>> /\ report = None /\ Len(built) = 2
      /\ cmd # None => cmd.state \in {"failed", "panicked", "killed"}
  BY DEF StartDiff
<1>2. PICK order \in Orders[pool], c \in Includes[pool], places \in [Args -> Places[pool]] :
          begin([order |-> order, include |-> c, place |-> places, state |-> "resolving",
                 run |-> IF cmd = None THEN 1 ELSE cmd.run + 1, at |-> [a \in Args |-> "start"]])
  BY DEF StartDiff
<1>3. cmd # None => cmd \in Commands(pool) /\ cmd.run \in Nat BY DEF DiffInv, CmdInv, Commands
<1>4. /\ cmd' \in Commands(pool) /\ cmd'.state = "resolving" /\ \A a \in Args : cmd'.at[a] = "start"
      /\ cmd'.run = IF cmd = None THEN 1 ELSE cmd.run + 1
  BY <1>2, <1>3 DEF Commands, begin
<1>5. dir \in [Dirs -> DirStates] BY DEF DiffInv, CmdInv
<1>6. \A d \in Dirs : dir'[d] \in {"none", "plain", dir[d]} BY <1>2 DEF begin
<1>7. dir' \in [Dirs -> DirStates]
  <2>1. dir' = [d \in Dirs |-> dir'[d]] BY <1>2 DEF begin
  <2> QED BY <2>1, <1>5, <1>6 DEF DirStates
<1>8. \A d \in Dirs : dir[d] # "mixed"
  <2>1. CASE cmd = None BY <2>1 DEF DiffInv, CmdInv
  <2>2. CASE cmd # None BY <2>2, <1>1 DEF DiffInv, CmdInv, DirInv, MixedInv
  <2> QED BY <2>1, <2>2
<1>9. MixedInv(cmd', dir') BY <1>6, <1>8 DEF MixedInv
<1>10. TornInv(cmd', dir')
  <2>1. CASE cmd = None BY <2>1, <1>6 DEF DiffInv, CmdInv, TornInv
  <2>2. CASE cmd # None
    <3>1. cmd'.run = cmd.run + 1 /\ cmd.run \in Nat BY <2>2, <1>3, <1>4
    <3>2. cmd.run # 0 BY <2>2 DEF DiffInv, CmdInv, DirInv
    <3>3. cmd'.run # 1 BY <3>1, <3>2
    <3> QED BY <3>3 DEF TornInv
  <2> QED BY <2>1, <2>2
<1>11. DirInv(cmd', dir')
  <2>1. cmd'.run # 0 BY <1>3, <1>4
  <2> QED BY <2>1, <1>4, <1>9, <1>10 DEF DirInv, ReadyInv
<1>12. cmd' # None BY <1>1, <1>4, PoolsAssumption DEF DiffInv
<1>13. CmdInv' BY <1>1, <1>4, <1>7, <1>11, <1>12 DEF CmdInv
<1> QED BY <1>1, <1>13, StoresStay

(* One of the arguments is a step further, at s, with t in its directory.  *)
LEMMA ArgStep ==
  ASSUME DiffInv, UNCHANGED <<pool, db, log, writes, built, report>>, cmd # None, cmd.state = "resolving",
         NEW a \in Args, NEW s \in {"start", "absent", "made", "writing", "fetched", "hydrating", "ready", "failed"},
         NEW t \in DirStates, goes(a, s, t),
         s = "ready" => t \in Whole \/ Beside(a, "writing"),
         \/ s \in Unfinished \/ t \in Whole \/ ~Beside(a, "ready")
         \/ t = here(a) /\ cmd.at[a] \notin Unfinished,
         t = "mixed" => s = "writing" \/ Beside(a, "writing"),
         t \in {"torn", "mixed"} => here(a) \in {"torn", "mixed"} \/ \E b \in Args : Shares(cmd, a, b)
  PROVE  DiffInv'
<1>1. /\ pool \in DOMAIN Pools /\ cmd \in Commands(pool) /\ Len(built) = 2 /\ dir \in [Dirs -> DirStates]
      /\ DirInv(cmd, dir) /\ report = None /\ \A b \in Args : dirOf(cmd, b) \in Dirs
  BY CmdHas
<1>2. /\ cmd' \in Commands(pool) /\ cmd'.state = "resolving" /\ cmd'.run = cmd.run
      /\ \A b \in Args : cmd'.at[b] = IF b = a THEN s ELSE cmd.at[b]
      /\ cmd'.place = cmd.place /\ cmd'.order = cmd.order
  BY <1>1 DEF Commands, goes
<1>3. \A b \in Args : dirOf(cmd', b) = dirOf(cmd, b) BY <1>2 DEF dirOf
<1>4. PICK e : e = dirOf(cmd, a) OBVIOUS
<1>5. dir' \in [Dirs -> DirStates] /\ \A d \in Dirs : dir'[d] = IF d = e THEN t ELSE dir[d]
  BY <1>1, <1>4 DEF goes
<1>6. here(a) = dir[e] BY <1>4 DEF here
<1>7. \A x : Beside(a, x) <=> \E b \in Args : b # a /\ dirOf(cmd, b) = e /\ cmd.at[b] = x BY <1>4 DEF Beside
<1>8. MixedInv(cmd', dir')
  <2> SUFFICES ASSUME NEW d \in Dirs, dir'[d] = "mixed"
               PROVE  \E b \in Args : dirOf(cmd, b) = d /\ cmd'.at[b] = "writing"
    BY <1>2, <1>3 DEF MixedInv
  <2>1. CASE d = e BY <2>1, <1>2, <1>4, <1>5, <1>7
  <2>2. CASE d # e
    <3>1. PICK b \in Args : dirOf(cmd, b) = d /\ cmd.at[b] = "writing" BY <2>2, <1>1, <1>5 DEF DirInv, MixedInv
    <3> QED BY <3>1, <2>2, <1>2, <1>4
  <2> QED BY <2>1, <2>2
<1>9. TornInv(cmd', dir')
  <2> SUFFICES ASSUME cmd'.run = 1, dirOf(cmd', 1) # dirOf(cmd', 2), NEW d \in Dirs
               PROVE  dir'[d] \notin {"torn", "mixed"}
    BY DEF TornInv
  <2>1. dirOf(cmd, 1) # dirOf(cmd, 2) BY <1>3 DEF Args
  <2>2. \A x \in Dirs : dir[x] \notin {"torn", "mixed"} BY <1>1, <1>2, <2>1 DEF DirInv, TornInv
  <2>3. ~\E b \in Args : Shares(cmd, a, b) BY <2>1 DEF Shares, Args
  <2>4. t \notin {"torn", "mixed"} BY <1>1, <1>4, <1>6, <2>2, <2>3
  <2> QED BY <1>5, <2>2, <2>4
<1>10. ReadyInv(cmd', dir')
  <2> SUFFICES ASSUME NEW b \in Args, cmd'.at[b] = "ready"
               PROVE  dir'[dirOf(cmd, b)] \in Whole \/ \E x \in Args : Shares(cmd, b, x) /\ cmd'.at[x] \in Unfinished
    BY <1>3 DEF ReadyInv, Shares
  <2>1. CASE b = a
    <3>1. s = "ready" BY <2>1, <1>2
    <3>2. CASE t \in Whole BY <3>2, <2>1, <1>1, <1>4, <1>5
    <3>3. CASE Beside(a, "writing")
      <4>1. PICK x \in Args : x # a /\ dirOf(cmd, x) = e /\ cmd.at[x] = "writing" BY <3>3, <1>7
      <4> QED BY <4>1, <2>1, <1>2, <1>4 DEF Shares, Unfinished
    <3> QED BY <3>1, <3>2, <3>3
  <2>2. CASE b # a
    <3>1. cmd.at[b] = "ready" BY <2>2, <1>2
    <3>2. dir[dirOf(cmd, b)] \in Whole \/ \E x \in Args : Shares(cmd, b, x) /\ cmd.at[x] \in Unfinished
      BY <3>1, <1>1 DEF DirInv, ReadyInv
    <3>3. CASE dirOf(cmd, b) # e
      <4>1. ~Shares(cmd, b, a) BY <3>3, <1>4 DEF Shares
      <4> QED BY <3>2, <3>3, <4>1, <1>1, <1>2, <1>5
    <3>4. CASE dirOf(cmd, b) = e
      <4>1. Shares(cmd, b, a) /\ dir'[dirOf(cmd, b)] = t BY <3>4, <2>2, <1>1, <1>4, <1>5 DEF Shares
      <4>2. Beside(a, "ready") BY <3>1, <3>4, <2>2, <1>7
      <4>3. CASE s \in Unfinished BY <4>1, <4>3, <1>2
      <4>4. CASE t \in Whole BY <4>1, <4>4
      <4>5. CASE t = here(a) /\ cmd.at[a] \notin Unfinished
        <5>1. \A x \in Args : Shares(cmd, b, x) => x = a BY <2>2 DEF Shares, Args
        <5>2. dir[e] \in Whole BY <3>2, <3>4, <4>5, <5>1
        <5> QED BY <5>2, <4>1, <4>5, <1>6
      <4> QED BY <4>2, <4>3, <4>4, <4>5
    <3> QED BY <3>3, <3>4
  <2> QED BY <2>1, <2>2
<1>11. DirInv(cmd', dir') BY <1>1, <1>2, <1>8, <1>9, <1>10 DEF DirInv
<1>12. cmd' # None BY <1>1, <1>2, PoolsAssumption
<1>13. CmdInv' BY <1>1, <1>2, <1>5, <1>11, <1>12 DEF CmdInv
<1> QED BY <1>13, StoresStay

(* A directory with an argument that is ready has a database in it, when   *)
(* the other goroutine has done nothing to it.                             *)
LEMMA ReadyHas ==
  ASSUME DiffInv, cmd # None, cmd.state = "resolving", NEW a \in Args, cmd.at[a] \notin Unfinished, Beside(a, "ready")
  PROVE  here(a) \in Whole
<1>1. ReadyInv(cmd, dir) BY CmdHas DEF DirInv
<1>2. PICK b \in Args : b # a /\ dirOf(cmd, b) = dirOf(cmd, a) /\ cmd.at[b] = "ready" BY DEF Beside
<1>3. ~\E x \in Args : Shares(cmd, b, x) /\ cmd.at[x] \in Unfinished
  <2>1. \A x \in Args : x # b => x = a BY <1>2 DEF Args
  <2> QED BY <2>1 DEF Shares
<1> QED BY <1>1, <1>2, <1>3 DEF ReadyInv, here

LEMMA HereIs ==
  ASSUME DiffInv, cmd # None, NEW a \in Args
  PROVE  here(a) \in DirStates
BY CmdHas DEF here

(* A file in the making is being written, if not by a then by the other.   *)
LEMMA MixedBeside ==
  ASSUME DiffInv, cmd # None, NEW a \in Args, here(a) = "mixed", cmd.at[a] # "writing"
  PROVE  Beside(a, "writing")
BY CmdHas DEF DirInv, MixedInv, here, Beside

LEMMA StatStep == ASSUME NEW a \in Args PROVE DiffInv /\ Stat(a) => DiffInv'
<1> SUFFICES ASSUME DiffInv, Stat(a) PROVE DiffInv' OBVIOUS
<1>1. /\ cmd # None /\ cmd.state = "resolving" /\ cmd.at[a] = "start"
      /\ UNCHANGED <<pool, db, log, writes, built, report>>
  BY DEF Stat, Resolving
<1>2. PICK s \in {"fetched", "absent"} : goes(a, s, here(a)) BY DEF Stat
<1>3. here(a) \in DirStates BY <1>1, HereIs
<1>4. cmd.at[a] \notin Unfinished BY <1>1 DEF Unfinished
<1>5. here(a) = "mixed" => Beside(a, "writing") BY <1>1, MixedBeside
<1> QED BY <1>1, <1>2, <1>3, <1>4, <1>5, ArgStep

LEMMA MakeDirStep == ASSUME NEW a \in Args PROVE DiffInv /\ MakeDir(a) => DiffInv'
<1> SUFFICES ASSUME DiffInv, MakeDir(a) PROVE DiffInv' OBVIOUS
<1>1. /\ cmd # None /\ cmd.state = "resolving" /\ cmd.at[a] = "absent"
      /\ UNCHANGED <<pool, db, log, writes, built, report>>
  BY DEF MakeDir, Resolving
<1>3. here(a) \in DirStates BY <1>1, HereIs
<1>4. cmd.at[a] \notin Unfinished BY <1>1 DEF Unfinished
<1>5. here(a) = "mixed" => Beside(a, "writing") BY <1>1, MixedBeside
<1>6. CASE goes(a, "failed", here(a)) BY <1>1, <1>3, <1>4, <1>5, <1>6, ArgStep
<1>7. CASE goes(a, "made", here(a)) BY <1>1, <1>3, <1>4, <1>5, <1>7, ArgStep
<1>8. CASE here(a) = "none" /\ goes(a, "made", "empty")
  <2>1. ~Beside(a, "ready") BY <1>1, <1>4, <1>8, ReadyHas DEF Whole
  <2> QED BY <2>1, <1>1, <1>8, ArgStep DEF DirStates
<1> QED BY <1>6, <1>7, <1>8 DEF MakeDir

LEMMA CreateStep == ASSUME NEW a \in Args PROVE DiffInv /\ Create(a) => DiffInv'
<1> SUFFICES ASSUME DiffInv, Create(a) PROVE DiffInv' OBVIOUS
<1>1. /\ cmd # None /\ cmd.state = "resolving" /\ UNCHANGED <<pool, db, log, writes, built, report>>
  BY DEF Create, Resolving
<1>2. CASE goes(a, "failed", "none") BY <1>1, <1>2, ArgStep DEF DirStates, Unfinished
<1>3. CASE goes(a, "writing", "short") BY <1>1, <1>3, ArgStep DEF DirStates, Unfinished
<1>4. CASE Beside(a, "hydrating") /\ goes(a, "writing", "mixed")
  <2>1. \E b \in Args : Shares(cmd, a, b) BY <1>4 DEF Beside, Shares
  <2> QED BY <2>1, <1>1, <1>4, ArgStep DEF DirStates, Unfinished
<1> QED BY <1>2, <1>3, <1>4 DEF Create

LEMMA DownloadStep == ASSUME NEW a \in Args PROVE DiffInv /\ Download(a) => DiffInv'
<1> SUFFICES ASSUME DiffInv, Download(a) PROVE DiffInv' OBVIOUS
<1>1. /\ cmd # None /\ cmd.state = "resolving" /\ UNCHANGED <<pool, db, log, writes, built, report>>
  BY DEF Download, Resolving
<1>2. CASE goes(a, "failed", "none") BY <1>1, <1>2, ArgStep DEF DirStates, Unfinished
<1>3. CASE goes(a, "writing", "short") BY <1>1, <1>3, ArgStep DEF DirStates, Unfinished
<1> QED BY <1>2, <1>3 DEF Download

LEMMA WriteEndsStep == ASSUME NEW a \in Args PROVE DiffInv /\ WriteEnds(a) => DiffInv'
<1> SUFFICES ASSUME DiffInv, WriteEnds(a) PROVE DiffInv' OBVIOUS
<1>1. /\ cmd # None /\ cmd.state = "resolving" /\ UNCHANGED <<pool, db, log, writes, built, report>>
  BY DEF WriteEnds, Resolving
<1>2. CASE goes(a, "failed", "none") BY <1>1, <1>2, ArgStep DEF DirStates, Unfinished
<1>3. CASE \E t \in written(a) : goes(a, "fetched", t)
  <2>1. PICK t \in written(a) : goes(a, "fetched", t) BY <1>3
  <2>2. here(a) \in DirStates BY <1>1, HereIs
  <2>3. CASE Beside(a, "writing")
    <3>1. t = here(a) BY <2>1, <2>3 DEF written
    <3> QED BY <2>1, <2>2, <2>3, <3>1, <1>1, ArgStep DEF Unfinished
  <2>4. CASE here(a) = "none"
    <3>1. t = "none" BY <2>1, <2>4 DEF written
    <3> QED BY <2>1, <3>1, <1>1, ArgStep DEF Unfinished, DirStates
  <2>5. CASE here(a) # "none" /\ ~Beside(a, "writing") /\ here(a) = "mixed"
    <3>1. t \in {"plain", "torn"} BY <2>1, <2>5 DEF written
    <3> QED BY <2>1, <2>5, <3>1, <1>1, ArgStep DEF Unfinished, DirStates
  <2>6. CASE here(a) # "none" /\ ~Beside(a, "writing") /\ here(a) # "mixed"
    <3>1. t = "plain" BY <2>1, <2>6 DEF written
    <3> QED BY <2>1, <3>1, <1>1, ArgStep DEF Unfinished, DirStates
  <2> QED BY <2>3, <2>4, <2>5, <2>6
<1> QED BY <1>2, <1>3 DEF WriteEnds

LEMMA HydrateStep == ASSUME NEW a \in Args PROVE DiffInv /\ Hydrate(a) => DiffInv'
<1> SUFFICES ASSUME DiffInv, Hydrate(a) PROVE DiffInv' OBVIOUS
<1>1. /\ cmd # None /\ cmd.state = "resolving" /\ UNCHANGED <<pool, db, log, writes, built, report>>
      /\ cmd.at[a] \in {"start", "fetched"}
  BY DEF Hydrate, Resolving, readyFor
<1>2. here(a) \in DirStates BY <1>1, HereIs
<1>3. here(a) = "mixed" => Beside(a, "writing") BY <1>1, MixedBeside
<1>4. CASE goes(a, "hydrating", here(a)) BY <1>1, <1>2, <1>3, <1>4, ArgStep DEF Unfinished
<1>5. CASE Beside(a, "writing") /\ goes(a, "hydrating", "mixed")
  <2>1. \E b \in Args : Shares(cmd, a, b) BY <1>5 DEF Beside, Shares
  <2> QED BY <2>1, <1>1, <1>5, ArgStep DEF DirStates, Unfinished
<1> QED BY <1>4, <1>5 DEF Hydrate

LEMMA HydrateEndsStep == ASSUME NEW a \in Args PROVE DiffInv /\ HydrateEnds(a) => DiffInv'
<1> SUFFICES ASSUME DiffInv, HydrateEnds(a) PROVE DiffInv' OBVIOUS
<1>1. /\ cmd # None /\ cmd.state = "resolving" /\ UNCHANGED <<pool, db, log, writes, built, report>>
      /\ cmd.at[a] = "hydrating"
  BY DEF HydrateEnds, Resolving
<1>2. here(a) = "mixed" => Beside(a, "writing") BY <1>1, MixedBeside
<1>3. PICK t : t = IF here(a) = "plain" THEN "hydrated" ELSE here(a) OBVIOUS
<1>4. CASE goes(a, "failed", "none") BY <1>1, <1>4, ArgStep DEF DirStates, Unfinished
<1>5. ASSUME hydrates(here(a))
      PROVE  /\ t \in {"hydrated", "torn", "mixed"}
             /\ t = "mixed" => here(a) = "mixed" /\ Beside(a, "writing")
             /\ t = "torn" => here(a) = "torn"
  BY <1>2, <1>3, <1>5 DEF hydrates
<1>6. Beside(a, "writing") => ~Beside(a, "ready")
  <2>1. \A b, c \in Args : b # a /\ c # a => b = c BY DEF Args
  <2> QED BY <2>1 DEF Beside
<1>7. CASE hydrates(here(a)) /\ goes(a, "failed", t) BY <1>1, <1>5, <1>7, ArgStep DEF DirStates, Unfinished
<1>8. CASE hydrates(here(a)) /\ goes(a, "ready", t) BY <1>1, <1>5, <1>6, <1>8, ArgStep DEF DirStates, Whole
<1> QED BY <1>3, <1>4, <1>7, <1>8 DEF HydrateEnds

(* Both goroutines were waited for: neither has anything left to do to the *)
(* directory of the other.                                                 *)
LEMMA OpenStep == DiffInv /\ Open => DiffInv'
<1> SUFFICES ASSUME DiffInv, Open PROVE DiffInv' OBVIOUS
<1>1. /\ cmd # None /\ cmd.state = "resolving" /\ waited /\ UNCHANGED <<pool, db, log, writes, built, report>>
  BY DEF Open
<1>2. /\ pool \in DOMAIN Pools /\ cmd \in Commands(pool) /\ Len(built) = 2 /\ dir \in [Dirs -> DirStates]
      /\ DirInv(cmd, dir) /\ report = None /\ \A a \in Args : dirOf(cmd, a) \in Dirs
  BY <1>1, CmdHas
<1>3. PICK s \in {"open", "failed", "panicked"} :
        /\ cmd' = [cmd EXCEPT !.state = s]
        /\ s = "open" => UNCHANGED dir /\ \A a \in Args : cmd.at[a] # "failed"
        /\ dir' = dir \/ dir' = [d \in Dirs |-> IF d \in TempDirs THEN "none" ELSE dir[d]]
  BY DEF Open
<1>4. /\ cmd' \in Commands(pool) /\ cmd'.state = s /\ cmd'.run = cmd.run
      /\ cmd'.place = cmd.place /\ cmd'.order = cmd.order
  BY <1>2, <1>3 DEF Commands
<1>5. \A a : dirOf(cmd', a) = dirOf(cmd, a) BY <1>4 DEF dirOf
<1>6. dir' \in [Dirs -> DirStates] /\ \A d \in Dirs : dir'[d] \in {"none", dir[d]} BY <1>2, <1>3 DEF DirStates
<1>7. \A d \in Dirs : dir[d] # "mixed" BY <1>1, <1>2 DEF DirInv, MixedInv, waited
<1>8. MixedInv(cmd', dir') BY <1>6, <1>7 DEF MixedInv
<1>9. TornInv(cmd', dir') BY <1>1, <1>2, <1>4, <1>5, <1>6 DEF DirInv, TornInv
<1>10. s = "open" => \A a \in Args : dir'[dirOf(cmd', a)] \in Whole
  <2> SUFFICES ASSUME s = "open", NEW a \in Args PROVE dir[dirOf(cmd, a)] \in Whole BY <1>3, <1>5
  <2>1. \A b \in Args : cmd.at[b] = "ready" BY <1>1, <1>3 DEF waited
  <2> QED BY <2>1, <1>1, <1>2 DEF DirInv, ReadyInv, Unfinished
<1>11. DirInv(cmd', dir') BY <1>2, <1>4, <1>8, <1>9, <1>10 DEF DirInv
<1>12. cmd' # None BY <1>2, <1>4, PoolsAssumption
<1>13. CmdInv' BY <1>1, <1>2, <1>4, <1>6, <1>11, <1>12 DEF CmdInv
<1> QED BY <1>1, <1>13, StoresStay

LEMMA KillStep == DiffInv /\ Kill => DiffInv'
<1> SUFFICES ASSUME DiffInv, Kill PROVE DiffInv' OBVIOUS
<1>1. /\ cmd # None /\ cmd.state \in {"resolving", "open"} /\ UNCHANGED <<pool, db, log, writes, built, report>>
      /\ cmd' = [cmd EXCEPT !.state = "killed"]
  BY DEF Kill
<1>2. /\ pool \in DOMAIN Pools /\ cmd \in Commands(pool) /\ Len(built) = 2 /\ dir \in [Dirs -> DirStates] /\ report = None
      /\ DirInv(cmd, dir)
  BY <1>1, CmdHas
<1>3. cmd' \in Commands(pool) /\ cmd'.state = "killed" /\ cmd'.run = cmd.run BY <1>1, <1>2 DEF Commands
<1>4. PICK torn : dir' = [d \in Dirs |-> IF d \in torn THEN "torn" ELSE IF dir[d] = "mixed" THEN "short" ELSE dir[d]]
  BY DEF Kill
<1>5. dir' \in [Dirs -> DirStates] /\ \A d \in Dirs : dir'[d] # "mixed" BY <1>2, <1>4 DEF DirStates
<1>6. DirInv(cmd', dir') BY <1>2, <1>3, <1>5 DEF DirInv, MixedInv, TornInv
<1>7. cmd' # None BY <1>2, <1>3, PoolsAssumption
<1>8. CmdInv' BY <1>1, <1>2, <1>3, <1>5, <1>6, <1>7 DEF CmdInv
<1> QED BY <1>1, <1>8, StoresStay

LEMMA RunDiffStep == DiffInv /\ RunDiff => DiffInv'
<1> SUFFICES ASSUME DiffInv, RunDiff PROVE DiffInv' OBVIOUS
<1>1. /\ cmd # None /\ cmd.state = "open" /\ UNCHANGED <<pool, db, log, writes, built, dir>>
      /\ report' = [labels |-> labels(cmd.order),
                    diff |-> IF \A a \in Args : here(a) = "hydrated"
                             THEN Diff(cmd.include, built[cmd.order[1]].db, built[cmd.order[2]].db) ELSE None]
      /\ cmd' = [cmd EXCEPT !.state = "done"]
  BY DEF RunDiff
<1>2. /\ pool \in DOMAIN Pools /\ cmd \in Commands(pool) /\ Len(built) = 2 /\ dir \in [Dirs -> DirStates]
      /\ DirInv(cmd, dir)
  BY <1>1, CmdHas
<1>3. /\ cmd' \in Commands(pool) /\ cmd'.state = "done" /\ cmd'.order = cmd.order /\ cmd'.run = cmd.run
      /\ cmd'.include = cmd.include /\ cmd'.place = cmd.place
  BY <1>1, <1>2 DEF Commands
<1>4. cmd' # None BY <1>2, <1>3, PoolsAssumption
<1>5. \A a : dirOf(cmd', a) = dirOf(cmd, a) BY <1>3 DEF dirOf
<1>6. MixedInv(cmd', dir') /\ TornInv(cmd', dir') BY <1>1, <1>2, <1>3, <1>5 DEF DirInv, MixedInv, TornInv
<1>7. \A a \in Args : dir'[dirOf(cmd', a)] \in Whole BY <1>1, <1>2, <1>5 DEF DirInv
<1>8. DirInv(cmd', dir') BY <1>2, <1>3, <1>6, <1>7 DEF DirInv
<1>9. report'.diff # None => report'.diff = Diff(cmd'.include, built'[cmd'.order[1]].db, built'[cmd'.order[2]].db)
  BY <1>1, <1>3
<1>10. CmdInv' BY <1>1, <1>2, <1>3, <1>4, <1>8, <1>9 DEF CmdInv
<1> QED BY <1>1, <1>10, StoresStay

LEMMA NextDiff == DiffInv /\ [Next]_vars => DiffInv'
<1> SUFFICES ASSUME DiffInv, [Next]_vars PROVE DiffInv' OBVIOUS
<1>1. CASE UNCHANGED vars
  <2>1. UNCHANGED <<pool, db, log, writes, built, cmd, dir, report>> BY <1>1 DEF vars
  <2>2. CmdInv' BY <2>1 DEF DiffInv, CmdInv
  <2> QED BY <2>1, <2>2, StoresStay
<1>2. ASSUME NEW e \in Pools[pool], WriteEntry(e) \/ WriteEpss(e) \/ WriteKEV(e) \/ WriteCWE(e) PROVE DiffInv'
  BY <1>2, WriteEntryStep, WriteEpssStep, WriteKEVStep, WriteCWEStep
<1>3. CASE Close BY <1>3, CloseStep
<1>4. CASE StartDiff BY <1>4, StartDiffStep
<1>5. ASSUME NEW a \in Args, \/ Stat(a) \/ MakeDir(a) \/ Create(a) \/ Download(a)
                              \/ WriteEnds(a) \/ Hydrate(a) \/ HydrateEnds(a)
      PROVE  DiffInv'
  BY <1>5, StatStep, MakeDirStep, CreateStep, DownloadStep, WriteEndsStep, HydrateStep, HydrateEndsStep
<1>6. CASE Open BY <1>6, OpenStep
<1>7. CASE Kill BY <1>7, KillStep
<1>8. CASE RunDiff BY <1>8, RunDiffStep
<1> QED BY <1>1, <1>2, <1>3, <1>4, <1>5, <1>6, <1>7, <1>8 DEF Next

(***************************************************************************)
(* The invariant of two builds and their comparison: what the tables of a  *)
(* database hold is what was asked to be written to it, whatever the       *)
(* caches merged; a finished database keeps its tables; a command that has *)
(* opened its databases has both of them whole, whatever the goroutines or *)
(* an earlier run did to their directories, and its report is the          *)
(* difference of the two.                                                  *)
(***************************************************************************)
THEOREM DiffInvariant == Spec => []DiffInv
<1>1. Init => DiffInv BY InitDiff
<1>2. DiffInv /\ [Next]_vars => DiffInv' BY NextDiff
<1> QED BY <1>1, <1>2, PTL DEF Spec

(* A search only reads: what holds of builds and comparisons holds with    *)
(* searches between them.                                                  *)
LEMMA SearchesOnlyRead == SearchSpec => Spec
<1>1. SearchInit => Init BY DEF SearchInit
<1>2. [SearchNext]_<<vars, answer>> => [Next]_vars
  <2> SUFFICES ASSUME [SearchNext]_<<vars, answer>> PROVE [Next]_vars OBVIOUS
  <2>1. CASE UNCHANGED <<vars, answer>> BY <2>1
  <2>2. CASE Next /\ UNCHANGED answer BY <2>2
  <2>3. ASSUME NEW o \in Searches[pool], runDBSearchMatches(o) \/ runDBSearchVulnerabilities(o) \/ Refuse(o)
        PROVE  UNCHANGED vars
    BY <2>3, Zenon DEF runDBSearchMatches, runDBSearchVulnerabilities, Refuse, Answer
  <2> QED BY <2>1, <2>2, <2>3 DEF SearchNext
<1> QED BY <1>1, <1>2, PTL DEF SearchSpec, Spec

(***************************************************************************)
(* A report is about databases that were written to the end and hydrated   *)
(* after it (ResolveDB, extractArchive, newResolvedDB), whichever of the   *)
(* goroutines of NewDBDiffer is first, whatever fails, when both use one   *)
(* directory and when an earlier run was killed over it; pages are torn    *)
(* only by such a kill or by an extraction under the other's hydration.    *)
(***************************************************************************)
THEOREM ReportsOfCompleteInputs == SearchSpec => []CompleteInputs
<1>1. ASSUME DiffInv PROVE CompleteInputs
  <2> SUFFICES ASSUME report # None
               PROVE  /\ \A a \in Args : here(a) \in {"hydrated", "torn"}
                      /\ cmd.run = 1 /\ dirOf(cmd, 1) # dirOf(cmd, 2) => \A a \in Args : here(a) = "hydrated"
    BY DEF CompleteInputs
  <2>1. cmd # None /\ cmd.state = "done" BY <1>1 DEF DiffInv, CmdInv
  <2>2. DirInv(cmd, dir) /\ \A a \in Args : dirOf(cmd, a) \in Dirs BY <1>1, <2>1, CmdHas
  <2>3. \A a \in Args : here(a) \in {"hydrated", "torn"} BY <2>1, <2>2 DEF DirInv, Whole, here
  <2>4. cmd.run = 1 /\ dirOf(cmd, 1) # dirOf(cmd, 2) => \A a \in Args : here(a) # "torn"
    BY <2>1, <2>2 DEF DirInv, TornInv, here
  <2> QED BY <2>3, <2>4
<1> QED BY <1>1, DiffInvariant, SearchesOnlyRead, PTL

(***************************************************************************)
(* What the stores promise.                                                *)
(***************************************************************************)
LEMMA DecorationsAreRead ==
  ASSUME NEW p \in DOMAIN Pools, p = pool, Decorated(db, log, p)
  PROVE  DecorationsRead
<1>0. kevEnabled(612) /\ epssEnabled(612) /\ cweEnabled(612) BY DEF kevEnabled, epssEnabled, cweEnabled
<1>1. ASSUME NEW e \in log.epss PROVE ~GetEpssFails(612, db) /\ e \in GetEpss(612, db, Lower(e.cve))
  <2>1. PICK f \in DecorationEntries(p) : f.kind = "epss" /\ e = f.row BY DEF Decorated
  <2>2. f.row \in [cve : {f.row.cve}, score : Int, percentile : Int, date : Nat \ {0}] /\ Lower(Lower(f.row.cve)) = Lower(f.row.cve)
    BY <2>1, PoolsAssumption
  <2>3. PICK x : x = scoreRow(e) OBVIOUS
  <2>4. x \in db.epss /\ e.date = db.epssDate BY <2>3 DEF Decorated
  <2>5. x.cve = e.cve /\ x.score = e.score /\ x.percentile = e.percentile BY <2>3 DEF scoreRow
  <2>6. e = [cve |-> x.cve, score |-> x.score, percentile |-> x.percentile, date |-> db.epssDate] BY <2>1, <2>2, <2>4, <2>5
  <2>7. Lower(x.cve) = Lower(Lower(e.cve)) BY <2>1, <2>2, <2>5
  <2>8. e \in GetEpss(612, db, Lower(e.cve)) BY <1>0, <2>4, <2>6, <2>7 DEF GetEpss
  <2>9. db.epssDate # 0 BY <2>1, <2>2, <2>4
  <2> QED BY <2>8, <2>9 DEF GetEpssFails
<1>2. ASSUME NEW k \in log.kevs
      PROVE  \E r \in GetKnownExploitedVulnerabilities(612, db, Lower(k.cve)) : blobValue(db, r.blob) = k.blob
  <2>1. PICK f \in DecorationEntries(p) : k = f.row BY DEF Decorated
  <2>2. Lower(Lower(k.cve)) = Lower(k.cve) BY <2>1, PoolsAssumption
  <2>3. PICK r \in db.kevs : r.cve = k.cve /\ db.blobs[r.blob] = k.blob BY DEF Decorated
  <2> QED BY <1>0, <2>2, <2>3 DEF GetKnownExploitedVulnerabilities, blobValue
<1>3. ASSUME NEW c \in log.cwes PROVE c \in GetCWEs(612, db, Lower(c.cve))
  <2>1. PICK f \in DecorationEntries(p) : c = f.row BY DEF Decorated
  <2>2. Lower(Lower(c.cve)) = Lower(c.cve) BY <2>1, PoolsAssumption
  <2>3. c \in db.cwes BY DEF Decorated
  <2> QED BY <1>0, <2>2, <2>3 DEF GetCWEs
<1> QED BY <1>1, <1>2, <1>3 DEF DecorationsRead

LEMMA VulnIsSound ==
  ASSUME NEW p \in DOMAIN Pools, NEW v \in VulnsOf(p)
  PROVE  /\ v.name # None /\ v.provider.id # None /\ None \notin v.blob.aliases
         /\ v.published \in Nat /\ v.modified \in Nat
         /\ v.modified # 0 => v.published <= v.modified
<1>1. PICK e \in VulnEntries(p) : v = e.vuln BY DEF VulnsOf
<1> QED BY <1>1, PoolsAssumption

LEMMA AliasesAreFound ==
  ASSUME NEW p \in DOMAIN Pools, p = pool, IsLog(log, p), AsAsked(db, log)
  PROVE  AliasesFound
<1>1. ASSUME NEW n \in Asked PROVE n # None
  <2>1. \A v \in log.vulns : v.name # None /\ None \notin v.blob.aliases BY VulnIsSound DEF IsLog
  <2> QED BY <2>1 DEF Asked
<1>2. ASSUME NEW n \in Asked
      PROVE  GetVulnerabilities(db, [Query EXCEPT !.name = n, !.aliases = TRUE])
               = {i \in DOMAIN db.vulns : joined(db, db.vulns[i], n)}
  <2>1. PICK q : q = [Query EXCEPT !.name = n, !.aliases = TRUE] OBVIOUS
  <2>2. /\ q.name = n /\ q.aliases = TRUE /\ q.after = 0 /\ q.modifiedAfter = 0 /\ q.status = None /\ q.providers = {}
    BY <2>1 DEF Query
  <2>3. \A r : handleVulnerabilityOptions(db, r, q) <=> joined(db, r, n)
    BY <1>1, <2>2 DEF handleVulnerabilityOptions, named
  <2> QED BY <2>1, <2>3 DEF GetVulnerabilities
<1>3. \A i \in DOMAIN db.vulns : vulnOf(db, i).name = Lower(db.vulns[i].name) BY DEF vulnOf
<1>4. \A v : identity(v).name = Lower(v.name) BY DEF identity
<1>5. \A i \in DOMAIN db.vulns : \E v \in log.vulns : Lower(v.name) = Lower(db.vulns[i].name)
  <2>1. ASSUME NEW i \in DOMAIN db.vulns PROVE \E v \in log.vulns : Lower(v.name) = Lower(db.vulns[i].name)
    <3>1. vulnOf(db, i) \in Identities(db) BY DEF Identities
    <3>2. PICK v \in log.vulns : identity(v) = vulnOf(db, i) BY <3>1 DEF AsAsked
    <3> QED BY <3>2, <1>3, <1>4
  <2> QED BY <2>1
<1>6. \A v \in log.vulns : \E i \in DOMAIN db.vulns : Lower(v.name) = Lower(db.vulns[i].name)
  <2>1. ASSUME NEW v \in log.vulns PROVE \E i \in DOMAIN db.vulns : Lower(v.name) = Lower(db.vulns[i].name)
    <3>1. identity(v) \in Identities(db) BY DEF AsAsked
    <3>2. PICK i \in DOMAIN db.vulns : vulnOf(db, i) = identity(v) BY <3>1 DEF Identities
    <3> QED BY <3>2, <1>3, <1>4
  <2> QED BY <2>1
<1> DEFINE Called(w, n) == \/ Lower(w.name) = Lower(n)
                           \/ \E u \in log.vulns : /\ Lower(u.name) = Lower(w.name)
                                                   /\ \E a \in u.blob.aliases : Lower(a) = Lower(n)
<1>7. ASSUME NEW r, NEW n PROVE joined(db, r, n) <=> Called(r, n)
  <2>1. \A u, b : b \in aliasRows(u) => b.name = u.name /\ b.alias \in u.blob.aliases BY DEF aliasRows
  <2>2. \A u : \A a \in u.blob.aliases :
           a # u.name => \E b \in aliasRows(u) : b.name = u.name /\ b.alias = a
    <3>1. ASSUME NEW u, NEW a \in u.blob.aliases, a # u.name
          PROVE  \E b \in aliasRows(u) : b.name = u.name /\ b.alias = a
      <4>1. PICK b : b = [name |-> u.name, alias |-> a] OBVIOUS
      <4>2. b \in aliasRows(u) BY <3>1, <4>1 DEF aliasRows
      <4> QED BY <4>1, <4>2
    <3> QED BY <3>1
  <2>3. db.aliases = UNION {aliasRows(v) : v \in log.vulns} BY DEF AsAsked
  <2>4. \A b \in db.aliases : \E u \in log.vulns : b.name = u.name /\ b.alias \in u.blob.aliases BY <2>1, <2>3
  <2>5. \A u \in log.vulns : \A a \in u.blob.aliases :
           a # u.name => \E b \in db.aliases : b.name = u.name /\ b.alias = a
    BY <2>2, <2>3
  <2>6. joined(db, r, n) => Called(r, n) BY <2>4 DEF joined
  <2>7. ASSUME Called(r, n), Lower(r.name) # Lower(n) PROVE joined(db, r, n)
    <3>1. PICK u \in log.vulns : Lower(u.name) = Lower(r.name) /\ \E a \in u.blob.aliases : Lower(a) = Lower(n)
      BY <2>7
    <3>2. PICK a \in u.blob.aliases : Lower(a) = Lower(n) BY <3>1
    <3>3. a # u.name BY <3>1, <3>2, <2>7
    <3> QED BY <3>1, <3>2, <3>3, <2>5 DEF joined
  <2> QED BY <2>6, <2>7 DEF joined
<1>8. \A v, w, n : Lower(v.name) = Lower(w.name) => (Called(v, n) <=> Called(w, n)) OBVIOUS
<1> HIDE DEF Called
<1>9. ASSUME NEW n \in Asked
      PROVE  {vulnOf(db, i).name : i \in {i \in DOMAIN db.vulns : joined(db, db.vulns[i], n)}}
               = {Lower(v.name) : v \in {w \in log.vulns : Called(w, n)}}
  <2>1. ASSUME NEW x \in {vulnOf(db, i).name : i \in {i \in DOMAIN db.vulns : joined(db, db.vulns[i], n)}}
        PROVE  x \in {Lower(v.name) : v \in {w \in log.vulns : Called(w, n)}}
    <3>1. PICK i \in DOMAIN db.vulns : joined(db, db.vulns[i], n) /\ x = Lower(db.vulns[i].name) BY <1>3
    <3>2. PICK v \in log.vulns : Lower(v.name) = Lower(db.vulns[i].name) BY <1>5
    <3>3. Called(v, n) BY <3>1, <3>2, <1>7, <1>8
    <3> QED BY <3>1, <3>2, <3>3
  <2>2. ASSUME NEW x \in {Lower(v.name) : v \in {w \in log.vulns : Called(w, n)}}
        PROVE  x \in {vulnOf(db, i).name : i \in {i \in DOMAIN db.vulns : joined(db, db.vulns[i], n)}}
    <3>1. PICK v \in log.vulns : Called(v, n) /\ x = Lower(v.name) OBVIOUS
    <3>2. PICK i \in DOMAIN db.vulns : Lower(v.name) = Lower(db.vulns[i].name) BY <1>6
    <3>3. joined(db, db.vulns[i], n) BY <3>1, <3>2, <1>7, <1>8
    <3>4. x = vulnOf(db, i).name BY <3>1, <3>2, <1>3
    <3> QED BY <3>3, <3>4
  <2> QED BY <2>1, <2>2
<1> QED BY <1>2, <1>9 DEF AliasesFound, Called

LEMMA NewOnesAreFound ==
  ASSUME NEW p \in DOMAIN Pools, p = pool, IsLog(log, p), Tables(db, p)
  PROVE  NewOnesFound
<1> SUFFICES ASSUME NEW t \in {v.published : v \in log.vulns}, t > 0,
                    NEW i \in GetVulnerabilities(db, [Query EXCEPT !.after = t])
             PROVE  i \in GetVulnerabilities(db, [Query EXCEPT !.modifiedAfter = t])
  BY DEF NewOnesFound
<1>1. t \in Nat BY VulnIsSound DEF IsLog
<1>2. PICK q : q = [Query EXCEPT !.after = t] OBVIOUS
<1>3. PICK s : s = [Query EXCEPT !.modifiedAfter = t] OBVIOUS
<1>4. q.after = t BY <1>2 DEF Query
<1>5. s.name = None /\ s.after = 0 /\ s.modifiedAfter = t /\ s.status = None /\ s.providers = {} BY <1>3 DEF Query
<1>6. i \in DOMAIN db.vulns /\ db.vulns[i].published > t
  BY <1>1, <1>2, <1>4 DEF GetVulnerabilities, handleVulnerabilityOptions
<1>7. PICK v \in VulnsOf(p) : IsRow(db, db.vulns[i], v) BY <1>6 DEF Tables, Rows
<1>8. PICK j : db.vulns[i] = rowOf(v, j) BY <1>7 DEF IsRow
<1>9. /\ db.vulns[i].published = v.published
      /\ db.vulns[i].modified = IF v.modified = 0 THEN v.published ELSE v.modified
  BY <1>8 DEF rowOf
<1>10. v.published \in Nat /\ v.modified \in Nat /\ (v.modified # 0 => v.published <= v.modified) BY VulnIsSound
<1>11. db.vulns[i].modified > t BY <1>1, <1>6, <1>9, <1>10
<1>12. handleVulnerabilityOptions(db, db.vulns[i], s) BY <1>5, <1>11 DEF handleVulnerabilityOptions
<1> QED BY <1>3, <1>6, <1>12 DEF GetVulnerabilities

(***************************************************************************)
(* The stores give back what was written (AddVulnerabilities,              *)
(* addPackagesWithOS, addCPEHandles, AddEpss and the Get operations of the *)
(* v6 stores): a reader that follows the references finds exactly the      *)
(* records asked for, every decoration under any spelling of its CVE, and  *)
(* a vulnerability under all its names; a write is refused only for a      *)
(* second run of a provider or a second date of the scores.                *)
(***************************************************************************)
THEOREM StoresGiveBackWhatWasWritten == SearchSpec => []StoresFaithful
<1>1. ASSUME DiffInv PROVE StoresFaithful
  <2>1. pool \in DOMAIN Pools /\ IsLog(log, pool) /\ StoreInv BY <1>1 DEF DiffInv
  <2>2. CASE db.err
    BY <2>1, <2>2 DEF StoreInv, StoresFaithful, RecordsFaithful, OneRun, DecorationsRead, AliasesFound, NewOnesFound
  <2>3. CASE ~db.err
    <3>1. /\ Tables(db, pool) /\ AsAsked(db, log) /\ Runs(db, log) /\ Decorated(db, log, pool)
      BY <2>1, <2>3 DEF StoreInv, Faithful
    <3>2. RecordsFaithful BY <3>1 DEF RecordsFaithful, AsAsked, Records, CPERecords, Identities
    <3>3. WritesAccepted BY <2>3 DEF WritesAccepted
    <3>4. OneRun BY <3>1 DEF OneRun, Runs
    <3>5. DecorationsRead BY <2>1, <3>1, DecorationsAreRead
    <3>6. AliasesFound BY <2>1, <3>1, AliasesAreFound
    <3>7. NewOnesFound BY <2>1, <3>1, NewOnesAreFound
    <3> QED BY <3>2, <3>3, <3>4, <3>5, <3>6, <3>7 DEF StoresFaithful
  <2> QED BY <2>2, <2>3
<1> QED BY <1>1, DiffInvariant, SearchesOnlyRead, PTL

(***************************************************************************)
(* The views over two tables of rows, key by key.                          *)
(***************************************************************************)
Under(T, k) == {<<r.status, r.blob>> : r \in {x \in T : x.key = k}}
IsTable(T) == \A r \in T : r.status \in {0, 1}
Reports(old, new, k) ==
  \E r : r.key = k /\ (r \in onlyIn(new, old) \/ r \in onlyIn(old, new) \/ r \in modifiedIn(old, new))

LEMMA UnderIs ==
  ASSUME NEW T, NEW k, NEW s, NEW b
  PROVE  <<s, b>> \in Under(T, k) <=> \E r \in T : r.key = k /\ r.status = s /\ r.blob = b
BY DEF Under

LEMMA UnderHas ==
  ASSUME NEW T, NEW k, NEW x \in Under(T, k)
  PROVE  \E r \in T : r.key = k /\ x[1] = r.status /\ x[2] = r.blob /\ x = <<r.status, r.blob>>
BY DEF Under

(* A change under a key is in one of the views.                            *)
LEMMA ViewsReport ==
  ASSUME NEW old, NEW new, NEW k, IsTable(old), IsTable(new), Changed(Under(old, k), Under(new, k))
  PROVE  Reports(old, new, k)
<1>1. CASE Under(old, k) = {}
  <2>1. PICK x \in Under(new, k) : TRUE BY <1>1 DEF Changed
  <2>2. PICK r \in new : r.key = k BY <2>1, UnderHas
  <2>3. \A s \in old : s.key # k
    <3>1. ASSUME NEW s \in old, s.key = k PROVE FALSE
      <4>1. <<s.status, s.blob>> \in Under(old, k) BY <3>1, UnderIs
      <4> QED BY <4>1, <1>1
    <3> QED BY <3>1
  <2> QED BY <2>2, <2>3 DEF Reports, onlyIn
<1>2. CASE ~(Under(old, k) \subseteq Under(new, k))
  <2>1. PICK x \in Under(old, k) : x \notin Under(new, k) BY <1>2
  <2>2. PICK r \in old : r.key = k /\ x = <<r.status, r.blob>> BY <2>1, UnderHas
  <2>3. ~\E s \in new : s.key = k /\ s.status = r.status /\ s.blob = r.blob BY <2>1, <2>2, UnderIs
  <2>4. CASE \A s \in new : s.key # k BY <2>2, <2>4 DEF Reports, onlyIn
  <2>5. CASE \E s \in new : s.key = k /\ s.status = r.status BY <2>2, <2>3, <2>5 DEF Reports, modifiedIn
  <2>6. ASSUME NEW s \in new, s.key = k, s.status # r.status PROVE Reports(old, new, k)
    <3>1. r.status \in {0, 1} /\ s.status \in {0, 1} BY <2>2 DEF IsTable
    <3>2. CASE r.status = 1 /\ s.status = 0 BY <2>2, <2>6, <3>2 DEF Reports, onlyIn
    <3>3. CASE r.status = 0 /\ s.status = 1 BY <2>2, <2>6, <3>3 DEF Reports, onlyIn
    <3> QED BY <2>6, <3>1, <3>2, <3>3
  <2> QED BY <2>4, <2>5, <2>6
<1> QED BY <1>1, <1>2 DEF Changed

(* What is in a view has changed under its key, or is not of one status.   *)
LEMMA ViewsSilent ==
  ASSUME NEW old, NEW new, NEW r,
         r \in onlyIn(new, old) \/ r \in onlyIn(old, new) \/ r \in modifiedIn(old, new)
  PROVE  Under(old, r.key) # Under(new, r.key) \/ Mixed(Under(new, r.key))
<1>0. \A s, t, b, c : <<s, b>>[1] = s /\ <<t, c>>[1] = t OBVIOUS
<1>1. ASSUME NEW T, NEW U, NEW V, r \in onlyIn(T, U), V \in {T, U}, Under(T, r.key) = Under(U, r.key)
      PROVE  Mixed(Under(V, r.key))
  <2>1. r \in T BY <1>1 DEF onlyIn
  <2>2. <<r.status, r.blob>> \in Under(T, r.key) BY <2>1, UnderIs
  <2>3. PICK q \in U : q.key = r.key BY <2>2, <1>1, UnderHas
  <2>4. PICK s \in U : s.key = r.key /\ s.status = 0 /\ r.status = 1 BY <2>3, <1>1 DEF onlyIn
  <2>5. <<0, s.blob>> \in Under(U, r.key) BY <2>4, UnderIs
  <2>6. <<1, r.blob>> \in Under(T, r.key) BY <2>2, <2>4
  <2>7. <<0, s.blob>> \in Under(V, r.key) /\ <<1, r.blob>> \in Under(V, r.key) BY <2>5, <2>6, <1>1
  <2>8. <<0, s.blob>>[1] # <<1, r.blob>>[1] OBVIOUS
  <2> QED BY <2>7, <2>8 DEF Mixed
<1>2. CASE r \in onlyIn(new, old) BY <1>1, <1>2
<1>3. CASE r \in onlyIn(old, new) BY <1>1, <1>3
<1>4. CASE r \in modifiedIn(old, new)
  <2>1. r \in old /\ ~\E s \in new : s.key = r.key /\ s.status = r.status /\ s.blob = r.blob BY <1>4 DEF modifiedIn
  <2>2. <<r.status, r.blob>> \in Under(old, r.key) /\ <<r.status, r.blob>> \notin Under(new, r.key) BY <2>1, UnderIs
  <2> QED BY <2>2
<1> QED BY <1>2, <1>3, <1>4

(* What is vulnerable in T and not in U stands in the view of T without U. *)
LEMMA ViewsDirect ==
  ASSUME NEW T, NEW U, NEW k, IsTable(U), Vulnerable(Under(T, k)), ~Vulnerable(Under(U, k))
  PROVE  \E r \in onlyIn(T, U) : r.key = k
<1>1. PICK x \in Under(T, k) : x[1] = 1 BY DEF Vulnerable
<1>2. PICK r \in T : r.key = k /\ r.status = 1 BY <1>1, UnderHas
<1>3. ASSUME NEW s \in U, s.key = k PROVE s.status = 0
  <2>1. PICK y : y = <<s.status, s.blob>> OBVIOUS
  <2>2. y \in Under(U, k) /\ y[1] = s.status BY <2>1, <1>3, UnderIs
  <2>3. s.status # 1 BY <2>2 DEF Vulnerable
  <2> QED BY <2>3 DEF IsTable
<1> QED BY <1>2, <1>3 DEF onlyIn

(***************************************************************************)
(* The keys of the tables that are compared tell the places of two         *)
(* databases apart.                                                        *)
(***************************************************************************)
pkgKeyOf(d, h) ==
  [vuln |-> d.vulns[h.vuln].name, provider |-> d.vulns[h.vuln].provider,
   ecosystem |-> d.packages[h.pkg].ecosystem, name |-> d.packages[h.pkg].name, os |-> osColumns(d, h.os)]
pkgRowOf(d, h) ==
  [key |-> pkgKeyOf(d, h), blob |-> matchingBlob(d.blobs[h.blob]), status |-> status(d, h), vid |-> h.vuln]
cpeKeyOf(d, h) ==
  [vuln |-> d.vulns[h.vuln].name, provider |-> d.vulns[h.vuln].provider, cpe |-> d.cpes[h.cpe]]
cpeRowOf(d, h) ==
  [key |-> cpeKeyOf(d, h), blob |-> matchingBlob(d.blobs[h.blob]), status |-> status(d, h), vid |-> h.vuln]

LEMMA TablesCompared ==
  ASSUME NEW d
  PROVE  /\ diffPkg(d) = {pkgRowOf(d, h) : h \in d.handles} /\ IsTable(diffPkg(d))
         /\ diffCPE(d) = {cpeRowOf(d, h) : h \in d.cpeHandles} /\ IsTable(diffCPE(d))
<1>1. diffPkg(d) = {pkgRowOf(d, h) : h \in d.handles} BY DEF diffPkg, pkgRowOf, pkgKeyOf
<1>2. diffCPE(d) = {cpeRowOf(d, h) : h \in d.cpeHandles} BY DEF diffCPE, cpeRowOf, cpeKeyOf
<1>3. \A h : status(d, h) \in {0, 1} BY DEF status
<1>4. \A h : pkgRowOf(d, h).status = status(d, h) BY DEF pkgRowOf
<1>5. \A h : cpeRowOf(d, h).status = status(d, h) BY DEF cpeRowOf
<1>6. IsTable(diffPkg(d)) BY <1>1, <1>3, <1>4 DEF IsTable
<1>7. IsTable(diffCPE(d)) BY <1>2, <1>3, <1>5 DEF IsTable
<1> QED BY <1>1, <1>2, <1>6, <1>7

(* The columns of an operating system, against its unique index.           *)
LEMMA SameSystem ==
  ASSUME NEW p \in DOMAIN Pools, NEW d, NEW e, Tables(d, p), Tables(e, p),
         NEW i, NEW j, i = 0 \/ i \in DOMAIN d.oses, j = 0 \/ j \in DOMAIN e.oses
  PROVE  osColumns(d, i) = osColumns(e, j) <=> OSOf(d, i) = OSOf(e, j)
<1> DEFINE C == {clean(s) : s \in Systems(p)}
<1>1. \A o, q \in C : /\ o.name # None /\ osIndex(o) # None
                      /\ columns(o) = columns(q) <=> osIndex(o) = osIndex(q)
  BY SystemsTold
<1>2. 0 \notin DOMAIN d.oses /\ 0 \notin DOMAIN e.oses BY TablesList
<1>3. i # 0 => d.oses[i] \in C BY DEF Tables, Rows
<1>4. j # 0 => e.oses[j] \in C BY DEF Tables, Rows
<1>5. ASSUME NEW o, columns(o) = <<None, <<>>, <<>>, None, None>> PROVE o.name = None
  <2>1. columns(o)[1] = o.name BY DEF columns
  <2> QED BY <2>1, <1>5
<1> HIDE DEF C
<1>6. CASE i = 0 /\ j = 0 BY <1>6 DEF osColumns, OSOf
<1>7. CASE i = 0 /\ j # 0
  <2>1. e.oses[j].name # None /\ osIndex(e.oses[j]) # None BY <1>1, <1>4, <1>7
  <2>2. osColumns(e, j) = columns(e.oses[j]) /\ osColumns(d, i) = <<None, <<>>, <<>>, None, None>>
    BY <1>7 DEF osColumns
  <2>3. osColumns(d, i) # osColumns(e, j) BY <2>1, <2>2, <1>5
  <2>4. OSOf(d, i) = None /\ OSOf(e, j) = osIndex(e.oses[j]) BY <1>7 DEF OSOf
  <2> QED BY <2>1, <2>3, <2>4
<1>8. CASE i # 0 /\ j = 0
  <2>1. d.oses[i].name # None /\ osIndex(d.oses[i]) # None BY <1>1, <1>3, <1>8
  <2>2. osColumns(d, i) = columns(d.oses[i]) /\ osColumns(e, j) = <<None, <<>>, <<>>, None, None>>
    BY <1>8 DEF osColumns
  <2>3. osColumns(d, i) # osColumns(e, j) BY <2>1, <2>2, <1>5
  <2>4. OSOf(e, j) = None /\ OSOf(d, i) = osIndex(d.oses[i]) BY <1>8 DEF OSOf
  <2> QED BY <2>1, <2>3, <2>4
<1>9. CASE i # 0 /\ j # 0
  <2>1. columns(d.oses[i]) = columns(e.oses[j]) <=> osIndex(d.oses[i]) = osIndex(e.oses[j]) BY <1>1, <1>3, <1>4, <1>9
  <2>2. osColumns(d, i) = columns(d.oses[i]) /\ osColumns(e, j) = columns(e.oses[j]) BY <1>9 DEF osColumns
  <2>3. OSOf(d, i) = osIndex(d.oses[i]) /\ OSOf(e, j) = osIndex(e.oses[j]) BY <1>9 DEF OSOf
  <2> QED BY <2>1, <2>2, <2>3
<1> QED BY <1>6, <1>7, <1>8, <1>9

LEMMA SamePlace ==
  ASSUME NEW p \in DOMAIN Pools, NEW d, NEW e, Tables(d, p), Tables(e, p), NEW h \in d.handles, NEW k \in e.handles
  PROVE  pkgKeyOf(d, h) = pkgKeyOf(e, k) <=> pkgPlace(d, h) = pkgPlace(e, k)
<1>1. PkgRefs(d, h) /\ PkgRefs(e, k) BY DEF Tables, Refs
<1>2. osColumns(d, h.os) = osColumns(e, k.os) <=> OSOf(d, h.os) = OSOf(e, k.os)
  BY <1>1, SameSystem DEF PkgRefs
<1>3. IsPackage(d.packages[h.pkg]) /\ IsPackage(e.packages[k.pkg]) BY <1>1 DEF Tables, Rows, PkgRefs
<1>4. d.packages[h.pkg] = e.packages[k.pkg] <=> /\ d.packages[h.pkg].ecosystem = e.packages[k.pkg].ecosystem
                                                /\ d.packages[h.pkg].name = e.packages[k.pkg].name
  BY <1>3, Zenon DEF IsPackage
<1>5. pkgKeyOf(d, h) = pkgKeyOf(e, k) <=>
        /\ d.vulns[h.vuln].name = e.vulns[k.vuln].name /\ d.vulns[h.vuln].provider = e.vulns[k.vuln].provider
        /\ d.packages[h.pkg].ecosystem = e.packages[k.pkg].ecosystem
        /\ d.packages[h.pkg].name = e.packages[k.pkg].name
        /\ osColumns(d, h.os) = osColumns(e, k.os)
  BY DEF pkgKeyOf
<1>6. pkgPlace(d, h) = pkgPlace(e, k) <=>
        /\ d.vulns[h.vuln].name = e.vulns[k.vuln].name /\ d.vulns[h.vuln].provider = e.vulns[k.vuln].provider
        /\ d.packages[h.pkg] = e.packages[k.pkg] /\ OSOf(d, h.os) = OSOf(e, k.os)
  BY DEF pkgPlace
<1> QED BY <1>2, <1>4, <1>5, <1>6

LEMMA MatchingIs ==
  ASSUME NEW p \in DOMAIN Pools, NEW d, NEW e, Tables(d, p), Tables(e, p), NEW h \in d.handles
  PROVE  Matching(e, pkgPlace(d, h)) = Under(diffPkg(e), pkgKeyOf(d, h))
<1> DEFINE At == {x \in e.handles : pkgPlace(e, x) = pkgPlace(d, h)}
           V == {x \in e.handles : pkgKeyOf(e, x) = pkgKeyOf(d, h)}
           F(x) == <<status(e, x), e.blobs[x.blob].ranges>>
<1>1. At = V
  <2>1. \A x \in e.handles : pkgPlace(e, x) = pkgPlace(d, h) <=> pkgKeyOf(e, x) = pkgKeyOf(d, h) BY SamePlace
  <2> QED BY <2>1
<1>2. Matching(e, pkgPlace(d, h)) = {F(x) : x \in At} BY DEF Matching
<1>3. \A x : pkgRowOf(e, x).key = pkgKeyOf(e, x) /\ <<pkgRowOf(e, x).status, pkgRowOf(e, x).blob>> = F(x)
  BY DEF pkgRowOf, matchingBlob
<1>4. Under(diffPkg(e), pkgKeyOf(d, h)) = {F(x) : x \in V}
  <2>1. diffPkg(e) = {pkgRowOf(e, x) : x \in e.handles} BY TablesCompared
  <2> HIDE DEF F
  <2> QED BY <2>1, <1>3 DEF Under
<1> HIDE DEF At, V, F
<1> QED BY <1>1, <1>2, <1>4

LEMMA MatchingCPEIs ==
  ASSUME NEW d, NEW e, NEW h
  PROVE  MatchingCPE(e, cpePlace(d, h)) = Under(diffCPE(e), cpeKeyOf(d, h))
<1> DEFINE At == {x \in e.cpeHandles : cpePlace(e, x) = cpePlace(d, h)}
           V == {x \in e.cpeHandles : cpeKeyOf(e, x) = cpeKeyOf(d, h)}
           F(x) == <<status(e, x), e.blobs[x.blob].ranges>>
<1>1. At = V
  <2>1. \A x : cpePlace(e, x) = cpePlace(d, h) <=> cpeKeyOf(e, x) = cpeKeyOf(d, h) BY DEF cpePlace, cpeKeyOf
  <2> QED BY <2>1
<1>2. MatchingCPE(e, cpePlace(d, h)) = {F(x) : x \in At} BY DEF MatchingCPE
<1>3. \A x : cpeRowOf(e, x).key = cpeKeyOf(e, x) /\ <<cpeRowOf(e, x).status, cpeRowOf(e, x).blob>> = F(x)
  BY DEF cpeRowOf, matchingBlob
<1>4. Under(diffCPE(e), cpeKeyOf(d, h)) = {F(x) : x \in V}
  <2>1. diffCPE(e) = {cpeRowOf(e, x) : x \in e.cpeHandles} BY TablesCompared
  <2> HIDE DEF F
  <2> QED BY <2>1, <1>3 DEF Under
<1> HIDE DEF At, V, F
<1> QED BY <1>1, <1>2, <1>4

(***************************************************************************)
(* The changes of packages.                                                *)
(***************************************************************************)
(* A place of two databases, under the key its rows are compared by.       *)
PkgAt(d, e, k, key) ==
  /\ Matching(d, k) = Under(diffPkg(d), key) /\ Matching(e, k) = Under(diffPkg(e), key)
  /\ \A r, kind : r.key = key => pkgChange(kind, r) = PkgChange(kind, k)
CPEAt(d, e, k, key) ==
  /\ MatchingCPE(d, k) = Under(diffCPE(d), key) /\ MatchingCPE(e, k) = Under(diffCPE(e), key)
  /\ \A r, kind : r.key = key => cpeChange(kind, r) = CPEChange(kind, k)

LEMMA PkgAtIs ==
  ASSUME NEW p \in DOMAIN Pools, NEW d, NEW e, Tables(d, p), Tables(e, p), NEW f \in {d, e}, NEW h \in f.handles
  PROVE  PkgAt(d, e, pkgPlace(f, h), pkgKeyOf(f, h))
<1>1. Tables(f, p) OBVIOUS
<1>2. ASSUME NEW r, NEW kind, r.key = pkgKeyOf(f, h) PROVE pkgChange(kind, r) = PkgChange(kind, pkgPlace(f, h))
  <2>1. /\ r.key.vuln = f.vulns[h.vuln].name /\ r.key.provider = f.vulns[h.vuln].provider
        /\ r.key.ecosystem = f.packages[h.pkg].ecosystem /\ r.key.name = f.packages[h.pkg].name
    BY <1>2 DEF pkgKeyOf
  <2>2. /\ pkgPlace(f, h).id = [id |-> f.vulns[h.vuln].name, provider |-> f.vulns[h.vuln].provider]
        /\ pkgPlace(f, h).pkg = f.packages[h.pkg]
    BY DEF pkgPlace
  <2> QED BY <2>1, <2>2 DEF pkgChange, applyChange, id, PkgChange
<1> QED BY <1>1, <1>2, MatchingIs DEF PkgAt

LEMMA CPEAtIs ==
  ASSUME NEW d, NEW e, NEW f, NEW h
  PROVE  CPEAt(d, e, cpePlace(f, h), cpeKeyOf(f, h))
<1>1. ASSUME NEW r, NEW kind, r.key = cpeKeyOf(f, h) PROVE cpeChange(kind, r) = CPEChange(kind, cpePlace(f, h))
  <2>1. /\ r.key.vuln = f.vulns[h.vuln].name /\ r.key.provider = f.vulns[h.vuln].provider
        /\ r.key.cpe = f.cpes[h.cpe]
    BY <1>1 DEF cpeKeyOf
  <2>2. /\ cpePlace(f, h).id = [id |-> f.vulns[h.vuln].name, provider |-> f.vulns[h.vuln].provider]
        /\ cpePlace(f, h).cpe = f.cpes[h.cpe]
    BY DEF cpePlace
  <2> QED BY <2>1, <2>2 DEF cpeChange, applyChange, id, CPEChange
<1> QED BY <1>1, MatchingCPEIs DEF CPEAt

LEMMA PlacesAt ==
  ASSUME NEW p \in DOMAIN Pools, NEW d, NEW e, Tables(d, p), Tables(e, p)
  PROVE  /\ \A k \in PkgPlaces(d) \cup PkgPlaces(e) : \E key : PkgAt(d, e, k, key)
         /\ \A k \in CPEPlaces(d) \cup CPEPlaces(e) : \E key : CPEAt(d, e, k, key)
<1>1. ASSUME NEW k \in PkgPlaces(d) \cup PkgPlaces(e) PROVE \E key : PkgAt(d, e, k, key)
  <2>1. PICK f \in {d, e} : k \in PkgPlaces(f) OBVIOUS
  <2>2. PICK h \in f.handles : k = pkgPlace(f, h) BY <2>1 DEF PkgPlaces
  <2> QED BY <2>2, PkgAtIs
<1>2. ASSUME NEW k \in CPEPlaces(d) \cup CPEPlaces(e) PROVE \E key : CPEAt(d, e, k, key)
  <2>1. PICK f \in {d, e} : k \in CPEPlaces(f) OBVIOUS
  <2>2. PICK h \in f.cpeHandles : k = cpePlace(f, h) BY <2>1 DEF CPEPlaces
  <2> QED BY <2>2, CPEAtIs
<1> QED BY <1>1, <1>2

(* The changes, by the views they come from.                               *)
LEMMA ViewsAre ==
  ASSUME NEW old, NEW new
  PROVE  /\ \A r \in onlyIn(new, old) : /\ pkgChange("added", r) \in pkgViews(old, new)
                                        /\ cpeChange("added", r) \in cpeViews(old, new)
         /\ \A r \in onlyIn(old, new) : /\ pkgChange("removed", r) \in pkgViews(old, new)
                                        /\ cpeChange("removed", r) \in cpeViews(old, new)
         /\ \A r \in modifiedIn(old, new) : /\ pkgChange("modified", r) \in pkgViews(old, new)
                                            /\ cpeChange("modified", r) \in cpeViews(old, new)
         /\ \A c \in pkgViews(old, new) : \E r \in old \cup new, kind \in Kinds :
              /\ c = pkgChange(kind, r)
              /\ r \in onlyIn(new, old) \/ r \in onlyIn(old, new) \/ r \in modifiedIn(old, new)
         /\ \A c \in cpeViews(old, new) : \E r \in old \cup new, kind \in Kinds : c = cpeChange(kind, r)
<1>1. onlyIn(new, old) \subseteq new /\ onlyIn(old, new) \subseteq old /\ modifiedIn(old, new) \subseteq old
  BY DEF onlyIn, modifiedIn
<1>2. PICK a, b, m : a = onlyIn(new, old) /\ b = onlyIn(old, new) /\ m = modifiedIn(old, new) OBVIOUS
<1>3. pkgViews(old, new) = UNION {{pkgChange("added", r) : r \in a}, {pkgChange("removed", r) : r \in b},
                                  {pkgChange("modified", r) : r \in m}}
  BY <1>2 DEF pkgViews
<1>4. cpeViews(old, new) = UNION {{cpeChange("added", r) : r \in a}, {cpeChange("removed", r) : r \in b},
                                  {cpeChange("modified", r) : r \in m}}
  BY <1>2 DEF cpeViews
<1>5. "added" \in Kinds /\ "removed" \in Kinds /\ "modified" \in Kinds BY DEF Kinds
<1>6. \A r \in a : pkgChange("added", r) \in pkgViews(old, new) /\ cpeChange("added", r) \in cpeViews(old, new)
  BY <1>3, <1>4
<1>7. \A r \in b : pkgChange("removed", r) \in pkgViews(old, new) /\ cpeChange("removed", r) \in cpeViews(old, new)
  BY <1>3, <1>4
<1>8. \A r \in m : pkgChange("modified", r) \in pkgViews(old, new) /\ cpeChange("modified", r) \in cpeViews(old, new)
  BY <1>3, <1>4
<1>9. \A c \in pkgViews(old, new) :
         (\E r \in a : c = pkgChange("added", r)) \/ (\E r \in b : c = pkgChange("removed", r))
         \/ (\E r \in m : c = pkgChange("modified", r))
  BY <1>3
<1>10. \A c \in cpeViews(old, new) :
         (\E r \in a : c = cpeChange("added", r)) \/ (\E r \in b : c = cpeChange("removed", r))
         \/ (\E r \in m : c = cpeChange("modified", r))
  BY <1>4
<1>11. \A c \in pkgViews(old, new) : \E r \in old \cup new, kind \in Kinds :
              /\ c = pkgChange(kind, r) /\ (r \in a \/ r \in b \/ r \in m)
  BY <1>1, <1>2, <1>5, <1>9
<1>12. \A c \in cpeViews(old, new) : \E r \in old \cup new, kind \in Kinds : c = cpeChange(kind, r)
  BY <1>1, <1>2, <1>5, <1>10
<1> QED BY <1>2, <1>6, <1>7, <1>8, <1>11, <1>12

LEMMA PackagesReport ==
  ASSUME NEW p \in DOMAIN Pools, NEW d, NEW e, Tables(d, p), Tables(e, p)
  PROVE  /\ \A k \in PkgPlaces(d) \cup PkgPlaces(e) : Changed(Matching(d, k), Matching(e, k)) =>
               \E kind \in Kinds : PkgChange(kind, k) \in diffPackages(d, e)
         /\ \A k \in CPEPlaces(d) \cup CPEPlaces(e) : Changed(MatchingCPE(d, k), MatchingCPE(e, k)) =>
               \E kind \in Kinds : CPEChange(kind, k) \in diffPackages(d, e)
<1>0. "added" \in Kinds /\ "removed" \in Kinds /\ "modified" \in Kinds BY DEF Kinds
<1>1. /\ pkgViews(diffPkg(d), diffPkg(e)) \subseteq diffPackages(d, e)
      /\ cpeViews(diffCPE(d), diffCPE(e)) \subseteq diffPackages(d, e)
  BY DEF diffPackages
<1>2. ASSUME NEW k \in PkgPlaces(d) \cup PkgPlaces(e), Changed(Matching(d, k), Matching(e, k))
      PROVE  \E kind \in Kinds : PkgChange(kind, k) \in diffPackages(d, e)
  <2>1. PICK key : PkgAt(d, e, k, key) BY PlacesAt
  <2>2. PICK old, new : old = diffPkg(d) /\ new = diffPkg(e) OBVIOUS
  <2>3. Changed(Under(old, key), Under(new, key)) BY <1>2, <2>1, <2>2 DEF PkgAt
  <2>4. Reports(old, new, key) BY <2>2, <2>3, ViewsReport, TablesCompared
  <2>5. PICK r : /\ r.key = key
                 /\ r \in onlyIn(new, old) \/ r \in onlyIn(old, new) \/ r \in modifiedIn(old, new)
    BY <2>4 DEF Reports
  <2>6. \E kind \in Kinds : pkgChange(kind, r) \in pkgViews(old, new) BY <1>0, <2>5, ViewsAre
  <2> QED BY <2>1, <2>2, <2>5, <2>6, <1>1 DEF PkgAt
<1>3. ASSUME NEW k \in CPEPlaces(d) \cup CPEPlaces(e), Changed(MatchingCPE(d, k), MatchingCPE(e, k))
      PROVE  \E kind \in Kinds : CPEChange(kind, k) \in diffPackages(d, e)
  <2>1. PICK key : CPEAt(d, e, k, key) BY PlacesAt
  <2>2. PICK old, new : old = diffCPE(d) /\ new = diffCPE(e) OBVIOUS
  <2>3. Changed(Under(old, key), Under(new, key)) BY <1>3, <2>1, <2>2 DEF CPEAt
  <2>4. Reports(old, new, key) BY <2>2, <2>3, ViewsReport, TablesCompared
  <2>5. PICK r : /\ r.key = key
                 /\ r \in onlyIn(new, old) \/ r \in onlyIn(old, new) \/ r \in modifiedIn(old, new)
    BY <2>4 DEF Reports
  <2>6. \E kind \in Kinds : cpeChange(kind, r) \in cpeViews(old, new) BY <1>0, <2>5, ViewsAre
  <2> QED BY <2>1, <2>2, <2>5, <2>6, <1>1 DEF CPEAt
<1> QED BY <1>2, <1>3

LEMMA PackagesSilent ==
  ASSUME NEW p \in DOMAIN Pools, NEW d, NEW e, Tables(d, p), Tables(e, p), NEW c \in diffPackages(d, e), c.pkg.cpe = None
  PROVE  \E k \in PkgPlaces(d) \cup PkgPlaces(e) :
            /\ k.id = c.id /\ k.pkg.name = c.pkg.name /\ k.pkg.ecosystem = c.pkg.ecosystem
            /\ Matching(d, k) # Matching(e, k) \/ Mixed(Matching(e, k))
<1>1. CASE c \in pkgViews(diffPkg(d), diffPkg(e))
  <2>1. PICK old, new : old = diffPkg(d) /\ new = diffPkg(e) OBVIOUS
  <2>2. PICK r \in old \cup new, kind \in Kinds :
          /\ c = pkgChange(kind, r)
          /\ r \in onlyIn(new, old) \/ r \in onlyIn(old, new) \/ r \in modifiedIn(old, new)
    BY <1>1, <2>1, ViewsAre
  <2>3. PICK f \in {d, e} : r \in diffPkg(f) BY <2>1, <2>2
  <2>4. PICK h \in f.handles : r = pkgRowOf(f, h) BY <2>3, TablesCompared
  <2>5. r.key = pkgKeyOf(f, h) BY <2>4 DEF pkgRowOf
  <2>6. PICK k : k = pkgPlace(f, h) OBVIOUS
  <2>7. PkgAt(d, e, k, r.key) BY <2>4, <2>5, <2>6, PkgAtIs
  <2>8. c = PkgChange(kind, k) BY <2>2, <2>7 DEF PkgAt
  <2>9. k.id = c.id /\ k.pkg.name = c.pkg.name /\ k.pkg.ecosystem = c.pkg.ecosystem BY <2>8 DEF PkgChange
  <2>10. Under(old, r.key) # Under(new, r.key) \/ Mixed(Under(new, r.key)) BY <2>2, ViewsSilent
  <2>11. Matching(d, k) # Matching(e, k) \/ Mixed(Matching(e, k)) BY <2>1, <2>7, <2>10 DEF PkgAt
  <2>12. k \in PkgPlaces(d) \cup PkgPlaces(e) BY <2>6 DEF PkgPlaces
  <2> QED BY <2>9, <2>11, <2>12
<1>2. CASE c \in cpeViews(diffCPE(d), diffCPE(e))
  <2>1. PICK r \in diffCPE(d) \cup diffCPE(e), kind \in Kinds : c = cpeChange(kind, r) BY <1>2, ViewsAre
  <2>2. PICK f \in {d, e} : r \in diffCPE(f) BY <2>1
  <2>3. PICK h \in f.cpeHandles : r = cpeRowOf(f, h) BY <2>2, TablesCompared
  <2>4. r.key.cpe = f.cpes[h.cpe] BY <2>3 DEF cpeRowOf, cpeKeyOf
  <2>5. Tables(f, p) OBVIOUS
  <2>6. f.cpes[h.cpe] # None BY <2>3, <2>5 DEF Tables, Rows, Refs, CPERefs
  <2>7. c.pkg.cpe = r.key.cpe BY <2>1 DEF cpeChange, applyChange
  <2> QED BY <2>4, <2>6, <2>7
<1> QED BY <1>1, <1>2 DEF diffPackages

LEMMA PackagesDirect ==
  ASSUME NEW p \in DOMAIN Pools, NEW d, NEW e, Tables(d, p), Tables(e, p), NEW k \in PkgPlaces(d) \cup PkgPlaces(e)
  PROVE  /\ ~Vulnerable(Matching(d, k)) /\ Vulnerable(Matching(e, k)) => PkgChange("added", k) \in diffPackages(d, e)
         /\ Vulnerable(Matching(d, k)) /\ ~Vulnerable(Matching(e, k)) => PkgChange("removed", k) \in diffPackages(d, e)
<1>1. PICK key : PkgAt(d, e, k, key) BY PlacesAt
<1>2. PICK old, new : old = diffPkg(d) /\ new = diffPkg(e) OBVIOUS
<1>3. Matching(d, k) = Under(old, key) /\ Matching(e, k) = Under(new, key) BY <1>1, <1>2 DEF PkgAt
<1>4. IsTable(old) /\ IsTable(new) BY <1>2, TablesCompared
<1>5. pkgViews(old, new) \subseteq diffPackages(d, e) BY <1>2 DEF diffPackages
<1>6. ASSUME ~Vulnerable(Matching(d, k)), Vulnerable(Matching(e, k)) PROVE PkgChange("added", k) \in diffPackages(d, e)
  <2>1. PICK r \in onlyIn(new, old) : r.key = key BY <1>3, <1>4, <1>6, ViewsDirect
  <2>2. pkgChange("added", r) \in pkgViews(old, new) BY ViewsAre
  <2> QED BY <2>1, <2>2, <1>1, <1>5 DEF PkgAt
<1>7. ASSUME Vulnerable(Matching(d, k)), ~Vulnerable(Matching(e, k)) PROVE PkgChange("removed", k) \in diffPackages(d, e)
  <2>1. PICK r \in onlyIn(old, new) : r.key = key BY <1>3, <1>4, <1>7, ViewsDirect
  <2>2. pkgChange("removed", r) \in pkgViews(old, new) BY ViewsAre
  <2> QED BY <2>1, <2>2, <1>1, <1>5 DEF PkgAt
<1> QED BY <1>6, <1>7

(***************************************************************************)
(* The changes of vulnerabilities and of what is known of them.            *)
(***************************************************************************)
IDsOwned(T) == \A i \in rowIDs(T) : i.provider # None

LEMMA DiffVulnOwned ==
  ASSUME NEW p \in DOMAIN Pools, NEW d, Tables(d, p)
  PROVE  IDsOwned(diffVuln(d))
<1>1. ASSUME NEW r \in diffVuln(d) PROVE rowID(r).provider # None
  <2>1. PICK i \in DOMAIN d.vulns : r = [d.vulns[i] EXCEPT !.blob = d.blobs[@]] BY DEF diffVuln
  <2>2. PICK v \in VulnsOf(p) : IsRow(d, d.vulns[i], v) BY DEF Tables, Rows
  <2>3. PICK j : d.vulns[i] = rowOf(v, j) BY <2>2 DEF IsRow
  <2>4. PICK x : x = d.vulns[i] OBVIOUS
  <2>5. x.provider = v.provider.id /\ x = [name |-> x.name, provider |-> x.provider, status |-> x.status,
                                           published |-> x.published, modified |-> x.modified,
                                           withdrawn |-> x.withdrawn, blob |-> x.blob]
    BY <2>3, <2>4 DEF rowOf
  <2>6. r.provider = x.provider BY <2>1, <2>4, <2>5
  <2>7. v.provider.id # None BY VulnIsSound
  <2>8. rowID(r).provider = r.provider BY DEF rowID
  <2> QED BY <2>5, <2>6, <2>7, <2>8
<1> QED BY <1>1 DEF IDsOwned, rowIDs

(* The lists of the report, one id at a time.                              *)
LEMMA ListsAre ==
  ASSUME NEW c, NEW d, NEW e, NEW i
  PROVE  LET D == diffVulns(c, d, e)
             vo == diffVuln(d)
             vn == diffVuln(e)
         IN  /\ DOMAIN D = {"added", "removed", "modified"}
             /\ i \in D.added <=> (\E r \in vn : rowID(r) = i) /\ ~(\E r \in vo : rowID(r) = i)
             /\ i \in D.removed <=> (\E r \in vo : rowID(r) = i) /\ ~(\E r \in vn : rowID(r) = i)
             /\ i \in D.modified <=>
                  \/ (\E r \in vn : r \notin vo /\ rowID(r) = i) /\ (\E r \in vo : rowID(r) = i)
                  \/ IncludeKEV(c) /\ i \in unowned(findKevDiffs(d, e))
                  \/ IncludeEPSS(c) /\ i \in unowned(findEpssDiffs(d, e))
<1>1. PICK vo, vn : vo = diffVuln(d) /\ vn = diffVuln(e) OBVIOUS
<1>2. PICK K, E : /\ K = (IF IncludeKEV(c) THEN unowned(findKevDiffs(d, e)) ELSE {})
                  /\ E = (IF IncludeEPSS(c) THEN unowned(findEpssDiffs(d, e)) ELSE {})
  OBVIOUS
<1>3. PICK D : D = diffVulns(c, d, e) OBVIOUS
<1>4. D = [added |-> vulnsAdded(vo, vn), removed |-> vulnsAdded(vn, vo), modified |-> vulnsModified(vo, vn) \cup K \cup E]
  BY <1>1, <1>2, <1>3, Zenon DEF diffVulns
<1>5. /\ DOMAIN D = {"added", "removed", "modified"} /\ D.added = vulnsAdded(vo, vn) /\ D.removed = vulnsAdded(vn, vo)
      /\ D.modified = vulnsModified(vo, vn) \cup K \cup E
  BY <1>4
<1>6. \A T : i \in rowIDs(T) <=> \E r \in T : rowID(r) = i BY DEF rowIDs
<1>7. i \in vulnsAdded(vo, vn) <=> (\E r \in vn : rowID(r) = i) /\ ~(\E r \in vo : rowID(r) = i) BY <1>6 DEF vulnsAdded
<1>8. i \in vulnsAdded(vn, vo) <=> (\E r \in vo : rowID(r) = i) /\ ~(\E r \in vn : rowID(r) = i) BY <1>6 DEF vulnsAdded
<1>9. i \in vulnsModified(vo, vn) <=> (\E r \in vn : r \notin vo /\ rowID(r) = i) /\ (\E r \in vo : rowID(r) = i)
  <2>1. i \in vulnsModified(vo, vn) <=> \E r \in vn : r \notin vo /\ rowID(r) = i /\ rowID(r) \in rowIDs(vo)
    BY DEF vulnsModified
  <2> QED BY <2>1, <1>6
<1>10. /\ i \in K <=> IncludeKEV(c) /\ i \in unowned(findKevDiffs(d, e))
       /\ i \in E <=> IncludeEPSS(c) /\ i \in unowned(findEpssDiffs(d, e))
  BY <1>2
<1> QED BY <1>1, <1>3, <1>5, <1>7, <1>8, <1>9, <1>10

LEMMA UnownedIs ==
  ASSUME NEW S
  PROVE  /\ \A i \in unowned(S) : i.provider = None
         /\ \A c : [id |-> c, provider |-> None] \in unowned(S) <=> c \in S
<1>1. \A i \in unowned(S) : i.provider = None BY DEF unowned
<1>2. ASSUME NEW c, [id |-> c, provider |-> None] \in unowned(S) PROVE c \in S
  <2>1. PICK x \in S : [id |-> c, provider |-> None] = [id |-> x, provider |-> None] BY <1>2 DEF unowned
  <2> QED BY <2>1
<1>3. \A c \in S : [id |-> c, provider |-> None] \in unowned(S) BY DEF unowned
<1> QED BY <1>1, <1>2, <1>3

LEMMA AtMostOne ==
  ASSUME NEW S, \A x, y \in S : x = y
  PROVE  Cardinality(S) <= 1
<1>1. CASE S = {} BY <1>1, FS_EmptySet
<1>2. CASE S # {}
  <2>1. PICK x \in S : TRUE BY <1>2
  <2>2. S = {x} BY <2>1
  <2>3. Cardinality({x}) = 1 BY FS_Singleton
  <2> QED BY <2>2, <2>3
<1> QED BY <1>1, <1>2

(* A vulnerability is listed when it changed, and once.                    *)
ListedRight(d, e, D, i) ==
  /\ VulnRows(d, i) # VulnRows(e, i) /\ ~(VulnRows(e, i) # {} /\ VulnRows(e, i) \subseteq VulnRows(d, i))
       => i \in D.added \cup D.removed \cup D.modified
  /\ VulnRows(d, i) = VulnRows(e, i) => i \notin D.added \cup D.removed \cup D.modified
  /\ Cardinality({s \in DOMAIN D : i \in D[s]}) <= 1

LEMMA VulnsReport ==
  ASSUME NEW p \in DOMAIN Pools, NEW d, NEW e, Tables(d, p), Tables(e, p), NEW c,
         NEW i \in rowIDs(diffVuln(d)) \cup rowIDs(diffVuln(e)), NEW D, D = diffVulns(c, d, e)
  PROVE  ListedRight(d, e, D, i)
<1>2. PICK vo, vn : vo = diffVuln(d) /\ vn = diffVuln(e) OBVIOUS
<1>3. i.provider # None BY DiffVulnOwned DEF IDsOwned
<1>4. PICK inOld, inNew, changed \in BOOLEAN :
        /\ inOld = (\E r \in vo : rowID(r) = i) /\ inNew = (\E r \in vn : rowID(r) = i)
        /\ changed = (\E r \in vn : r \notin vo /\ rowID(r) = i)
  BY Zenon
<1>5. i \notin unowned(findKevDiffs(d, e)) /\ i \notin unowned(findEpssDiffs(d, e)) BY <1>3, UnownedIs
<1>6. /\ DOMAIN D = {"added", "removed", "modified"}
      /\ i \in D.added <=> (\E r \in vn : rowID(r) = i) /\ ~(\E r \in vo : rowID(r) = i)
      /\ i \in D.removed <=> (\E r \in vo : rowID(r) = i) /\ ~(\E r \in vn : rowID(r) = i)
      /\ i \in D.modified <=> (\E r \in vn : r \notin vo /\ rowID(r) = i) /\ (\E r \in vo : rowID(r) = i)
  BY <1>2, <1>5, ListsAre
<1>7. /\ VulnRows(d, i) = {r \in vo : rowID(r) = i} /\ VulnRows(e, i) = {r \in vn : rowID(r) = i}
  BY <1>2 DEF VulnRows
<1>8. PICK old, new : old = VulnRows(d, i) /\ new = VulnRows(e, i) OBVIOUS
<1>9. ASSUME old # new, ~(new # {} /\ new \subseteq old) PROVE i \in D.added \cup D.removed \cup D.modified
  BY <1>6, <1>7, <1>8, <1>9
<1>10. ASSUME old = new PROVE i \notin D.added \cup D.removed \cup D.modified
  BY <1>6, <1>7, <1>8, <1>10
<1>11. Cardinality({s \in DOMAIN D : i \in D[s]}) <= 1
  <2>1. ~(i \in D.added /\ i \in D.removed) BY <1>6
  <2>2. ~(i \in D.added /\ i \in D.modified) BY <1>6
  <2>3. ~(i \in D.removed /\ i \in D.modified) BY <1>6
  <2>4. \A s, t \in {s \in DOMAIN D : i \in D[s]} : s = t BY <1>6, <2>1, <2>2, <2>3
  <2> QED BY <2>4, AtMostOne
<1> QED BY <1>8, <1>9, <1>10, <1>11 DEF ListedRight

LEMMA ScoresIs ==
  ASSUME NEW d, NEW c
  PROVE  /\ ScoresOf(d, c) = {} <=> c \notin Cves(d.epss)
         /\ \A x : x \in ScoresOf(d, c) <=> x \in d.epss /\ x.cve = c
<1>1. \A x : x \in ScoresOf(d, c) <=> x \in d.epss /\ x.cve = c BY DEF ScoresOf
<1>2. c \in Cves(d.epss) <=> \E r \in d.epss : r.cve = c BY DEF Cves
<1> QED BY <1>1, <1>2

LEMMA Differ ==
  ASSUME NEW a \in BOOLEAN, NEW b \in BOOLEAN
  PROVE  a # b <=> (a /\ ~b) \/ (b /\ ~a)
OBVIOUS

LEMMA DecorationsReport ==
  ASSUME NEW p \in DOMAIN Pools, NEW d, NEW e, Tables(d, p), Tables(e, p), Scored(d), Scored(e), NEW c, NEW x
  PROVE  [id |-> x, provider |-> None] \in diffVulns(c, d, e).modified <=>
            \/ IncludeKEV(c) /\ (x \in Cves(d.kevs)) # (x \in Cves(e.kevs))
            \/ /\ IncludeEPSS(c)
               /\ \/ (ScoresOf(d, x) = {}) # (ScoresOf(e, x) = {})
                  \/ \E s \in ScoresOf(d, x), t \in ScoresOf(e, x) : Beyond(s.score, t.score) \/ Beyond(s.percentile, t.percentile)
<1>1. PICK i : i = [id |-> x, provider |-> None] OBVIOUS
<1>2. i.provider = None BY <1>1
<1>3. ~\E r \in diffVuln(d) : rowID(r) = i BY <1>2, DiffVulnOwned DEF IDsOwned, rowIDs
<1>4. i \in diffVulns(c, d, e).modified <=> \/ IncludeKEV(c) /\ i \in unowned(findKevDiffs(d, e))
                                            \/ IncludeEPSS(c) /\ i \in unowned(findEpssDiffs(d, e))
  BY <1>3, ListsAre
<1>5. /\ i \in unowned(findKevDiffs(d, e)) <=> x \in findKevDiffs(d, e)
      /\ i \in unowned(findEpssDiffs(d, e)) <=> x \in findEpssDiffs(d, e)
  BY <1>1, UnownedIs
<1>6. x \in findKevDiffs(d, e) <=> (x \in Cves(d.kevs)) # (x \in Cves(e.kevs))
  <2>1. x \in findKevDiffs(d, e) <=> \/ x \in Cves(e.kevs) /\ x \notin Cves(d.kevs)
                                     \/ x \in Cves(d.kevs) /\ x \notin Cves(e.kevs)
    BY DEF findKevDiffs
  <2> QED BY <2>1, Differ
<1>7. (\E s \in ScoresOf(d, x), t \in ScoresOf(e, x) : Beyond(s.score, t.score) \/ Beyond(s.percentile, t.percentile)) <=>
        \E o \in d.epss, n \in e.epss : n.cve = o.cve /\ o.cve = x /\ moved(o, n)
  <2>1. \A o \in d.epss, n \in e.epss :
          moved(o, n) <=> Beyond(o.score, n.score) \/ Beyond(o.percentile, n.percentile)
    BY PoolsAssumption DEF Scored, Apart, moved, Beyond
  <2> QED BY <2>1, ScoresIs
<1>8. x \in findEpssDiffs(d, e) <=>
        \/ (x \in Cves(e.epss) /\ x \notin Cves(d.epss)) \/ (x \in Cves(d.epss) /\ x \notin Cves(e.epss))
        \/ \E o \in d.epss, n \in e.epss : n.cve = o.cve /\ o.cve = x /\ moved(o, n)
  <2>1. x \in {r.cve : r \in {o \in d.epss : \E n \in e.epss : n.cve = o.cve /\ moved(o, n)}} <=>
          \E o \in d.epss, n \in e.epss : n.cve = o.cve /\ o.cve = x /\ moved(o, n)
    OBVIOUS
  <2>2. PICK A, B, S : /\ A = Cves(e.epss) /\ B = Cves(d.epss)
                       /\ S = {r.cve : r \in {o \in d.epss : \E n \in e.epss : n.cve = o.cve /\ moved(o, n)}}
    OBVIOUS
  <2>3. findEpssDiffs(d, e) = (A \ B) \cup (B \ A) \cup S BY <2>2, Zenon DEF findEpssDiffs
  <2>4. x \in findEpssDiffs(d, e) <=> (x \in A /\ x \notin B) \/ (x \in B /\ x \notin A) \/ x \in S BY <2>3
  <2> QED BY <2>1, <2>2, <2>4, Zenon
<1>9. (ScoresOf(d, x) = {}) # (ScoresOf(e, x) = {}) <=>
        (x \in Cves(e.epss) /\ x \notin Cves(d.epss)) \/ (x \in Cves(d.epss) /\ x \notin Cves(e.epss))
  <2>1. (ScoresOf(d, x) = {} <=> x \notin Cves(d.epss)) /\ (ScoresOf(e, x) = {} <=> x \notin Cves(e.epss)) BY ScoresIs
  <2>2. PICK a, b \in BOOLEAN : a = (ScoresOf(d, x) = {}) /\ b = (ScoresOf(e, x) = {}) BY Zenon
  <2>3. a # b <=> (a /\ ~b) \/ (b /\ ~a) BY Differ
  <2> QED BY <2>1, <2>2, <2>3, Zenon
<1> QED BY <1>1, <1>4, <1>5, <1>6, <1>7, <1>8, <1>9, Zenon

(* What a report is about, and what it holds.                              *)
LEMMA ReportIs ==
  ASSUME DiffInv, Reported
  PROVE  /\ pool \in DOMAIN Pools /\ Tables(From, pool) /\ Tables(To, pool) /\ Scored(From) /\ Scored(To)
         /\ IncludePackages(cmd.include) => report.diff.packages = diffPackages(From, To)
         /\ IncludeVulns(cmd.include) => report.diff.vulns = diffVulns(cmd.include, From, To)
<1>1. /\ cmd \in Commands(pool) /\ Len(built) = 2
      /\ report.diff = Diff(cmd.include, From, To)
  BY DEF DiffInv, CmdInv, From, To, Reported
<1>2. cmd.order \in Args \X Args BY <1>1, PoolsAssumption DEF Commands, DiffInv
<1>3. cmd.order[1] \in 1..2 /\ cmd.order[2] \in 1..2 BY <1>2 DEF Args
<1>4. DOMAIN built = 1..2
  <2>1. PICK S : built \in Seq(S) BY DEF DiffInv, BuiltInv, IsList
  <2> QED BY <2>1, <1>1, ListIs
<1>5. Tables(From, pool) /\ Tables(To, pool) /\ Scored(From) /\ Scored(To)
  BY <1>3, <1>4 DEF DiffInv, BuiltInv, From, To
<1>6. report.diff = Diff(cmd.include, From, To) BY <1>1
<1>7. IncludePackages(cmd.include) => report.diff.packages = diffPackages(From, To) BY <1>6 DEF Diff
<1>8. IncludeVulns(cmd.include) => report.diff.vulns = diffVulns(cmd.include, From, To) BY <1>6 DEF Diff
<1> QED BY <1>5, <1>7, <1>8 DEF DiffInv

(***************************************************************************)
(* The difference of two databases is exact (the views and tables of       *)
(* grype/db/v6/diff): a change of what matches at a place is reported, in  *)
(* its direction, and what is the same in both is not, whatever ids the    *)
(* rows have; a vulnerability is in at most one list, and its decorations  *)
(* are reported when they came, went or moved past the threshold.          *)
(***************************************************************************)
THEOREM DifferencesAreExact == SearchSpec => []DiffExact
<1>1. ASSUME DiffInv PROVE DiffExact
  <2>1. ASSUME Reported
        PROVE  /\ pool \in DOMAIN Pools /\ Tables(From, pool) /\ Tables(To, pool) /\ Scored(From) /\ Scored(To)
               /\ IncludePackages(cmd.include) => report.diff.packages = diffPackages(From, To)
               /\ IncludeVulns(cmd.include) => report.diff.vulns = diffVulns(cmd.include, From, To)
    BY <1>1, <2>1, ReportIs
  <2>2. PICK d, e : d = From /\ e = To OBVIOUS
  <2>3. ChangeReported
    <3> SUFFICES ASSUME PackagesReported
                 PROVE  /\ \A k \in PkgPlaces(d) \cup PkgPlaces(e) : Changed(Matching(d, k), Matching(e, k)) =>
                              \E kind \in Kinds : PkgChange(kind, k) \in report.diff.packages
                        /\ \A k \in CPEPlaces(d) \cup CPEPlaces(e) : Changed(MatchingCPE(d, k), MatchingCPE(e, k)) =>
                              \E kind \in Kinds : CPEChange(kind, k) \in report.diff.packages
      BY <2>2, Zenon DEF ChangeReported
    <3>1. report.diff.packages = diffPackages(d, e) BY <2>1, <2>2 DEF PackagesReported
    <3> QED BY <3>1, <2>1, <2>2, PackagesReport DEF PackagesReported
  <2>4. UnchangedSilent
    <3> SUFFICES ASSUME PackagesReported, NEW c \in report.diff.packages, c.pkg.cpe = None
                 PROVE  \E k \in PkgPlaces(d) \cup PkgPlaces(e) :
                           /\ k.id = c.id /\ k.pkg.name = c.pkg.name /\ k.pkg.ecosystem = c.pkg.ecosystem
                           /\ Matching(d, k) # Matching(e, k) \/ Mixed(Matching(e, k))
      BY <2>2, Zenon DEF UnchangedSilent
    <3>1. c \in diffPackages(d, e) BY <2>1, <2>2 DEF PackagesReported
    <3> QED BY <3>1, <2>1, <2>2, PackagesSilent DEF PackagesReported
  <2>5. DirectionRight
    <3> SUFFICES ASSUME PackagesReported, NEW k \in PkgPlaces(d) \cup PkgPlaces(e)
                 PROVE  /\ ~Vulnerable(Matching(d, k)) /\ Vulnerable(Matching(e, k)) =>
                             PkgChange("added", k) \in report.diff.packages
                        /\ Vulnerable(Matching(d, k)) /\ ~Vulnerable(Matching(e, k)) =>
                             PkgChange("removed", k) \in report.diff.packages
      BY <2>2, Zenon DEF DirectionRight
    <3>1. report.diff.packages = diffPackages(d, e) BY <2>1, <2>2 DEF PackagesReported
    <3> QED BY <3>1, <2>1, <2>2, PackagesDirect DEF PackagesReported
  <2>6. VulnChangeReported
    <3> SUFFICES ASSUME VulnsReported, NEW i \in rowIDs(diffVuln(d)) \cup rowIDs(diffVuln(e))
                 PROVE  /\ VulnRows(d, i) # VulnRows(e, i) /\ ~(VulnRows(e, i) # {} /\ VulnRows(e, i) \subseteq VulnRows(d, i))
                             => i \in VulnChanges
                        /\ VulnRows(d, i) = VulnRows(e, i) => i \notin VulnChanges
                        /\ Cardinality({s \in DOMAIN report.diff.vulns : i \in report.diff.vulns[s]}) <= 1
      BY <2>2, Zenon DEF VulnChangeReported, AllIDs
    <3>1. report.diff.vulns = diffVulns(cmd.include, d, e) BY <2>1, <2>2 DEF VulnsReported
    <3>2. PICK c : c = cmd.include OBVIOUS
    <3>3. PICK D : D = diffVulns(c, d, e) OBVIOUS
    <3>4. report.diff.vulns = D /\ VulnChanges = D.added \cup D.removed \cup D.modified
      BY <3>1, <3>2, <3>3 DEF VulnChanges
    <3>5. pool \in DOMAIN Pools /\ Tables(d, pool) /\ Tables(e, pool) BY <2>1, <2>2 DEF VulnsReported
    <3>6. ListedRight(d, e, D, i) BY <3>3, <3>5, VulnsReport
    <3> QED BY <3>4, <3>6, Zenon DEF ListedRight
  <2>7. DecorationsReported
    <3> SUFFICES ASSUME VulnsReported, NEW x
                 PROVE  [id |-> x, provider |-> None] \in report.diff.vulns.modified <=>
                           \/ IncludeKEV(cmd.include) /\ KEVChanged(x)
                           \/ IncludeEPSS(cmd.include) /\ ScoreMoved(x)
      BY Zenon DEF DecorationsReported
    <3>1. report.diff.vulns = diffVulns(cmd.include, d, e) BY <2>1, <2>2 DEF VulnsReported
    <3>2. /\ KEVChanged(x) <=> (x \in Cves(d.kevs)) # (x \in Cves(e.kevs))
          /\ ScoreMoved(x) <=>
               \/ (ScoresOf(d, x) = {}) # (ScoresOf(e, x) = {})
               \/ \E s \in ScoresOf(d, x), t \in ScoresOf(e, x) : Beyond(s.score, t.score) \/ Beyond(s.percentile, t.percentile)
      BY <2>2, Zenon DEF KEVChanged, ScoreMoved
    <3>3. pool \in DOMAIN Pools /\ Tables(d, pool) /\ Tables(e, pool) /\ Scored(d) /\ Scored(e)
      BY <2>1, <2>2 DEF VulnsReported
    <3>4. [id |-> x, provider |-> None] \in diffVulns(cmd.include, d, e).modified <=>
            \/ IncludeKEV(cmd.include) /\ (x \in Cves(d.kevs)) # (x \in Cves(e.kevs))
            \/ /\ IncludeEPSS(cmd.include)
               /\ \/ (ScoresOf(d, x) = {}) # (ScoresOf(e, x) = {})
                  \/ \E s \in ScoresOf(d, x), t \in ScoresOf(e, x) : Beyond(s.score, t.score) \/ Beyond(s.percentile, t.percentile)
      BY <3>3, DecorationsReport, Zenon
    <3> QED BY <3>1, <3>2, <3>4, Zenon
  <2> QED BY <2>3, <2>4, <2>5, <2>6, <2>7 DEF DiffExact
<1> QED BY <1>1, DiffInvariant, SearchesOnlyRead, PTL
=============================================================================
