----------------------------- MODULE VulnStore -----------------------------
(***************************************************************************)
(* The tables of a v6 database and the store operations that fill them     *)
(* (grype/db/v6/*_store.go, models.go, cache.go).                          *)
(*                                                                         *)
(* A database is a record of tables. A table whose rows others refer to is *)
(* a sequence, a row's position its id and 0 "no row"; the others are sets *)
(* of rows. The stores write through a cache from a row's text key to its  *)
(* id: every row is cached when it is created and the store starts empty,  *)
(* so a lookup in the cache is a lookup of the key among the rows. What is *)
(* modelled is that the key is not the row: it folds case, an operating    *)
(* system's has its version in one text, a vulnerability's has no dates.   *)
(*                                                                         *)
(* A blob is a value that is equal when its JSON text is; its digest       *)
(* (xxh64) is taken to tell texts apart. A part of an operating system's   *)
(* version is its sequence of digits, "" is <<>>; a date is a number.      *)
(***************************************************************************)
EXTENDS Naturals, Sequences, FiniteSets

CONSTANTS None,        \* an unset text or reference
          Lower(_)     \* strings.ToLower and sqlite's "collate nocase"

P == INSTANCE VulnProvider WITH UnknownVersion <- None

\* The tables after newStore created them.
EmptyDB ==
    [providers |-> {}, blobs |-> <<>>, vulns |-> <<>>, aliases |-> {}, packages |-> <<>>,
     oses |-> <<>>, cpes |-> <<>>, links |-> {}, handles |-> {}, cpeHandles |-> {},
     kevs |-> {}, epss |-> {}, epssDate |-> 0, cwes |-> {}, err |-> FALSE]

\* cache.getID: the id of the row with this key, 0 when there is none.
getID(keys, key) ==
    LET hits == {i \in DOMAIN keys : keys[i] = key}
    IN  IF hits = {} THEN 0 ELSE CHOOSE i \in hits : TRUE

Failed(d) == [d EXCEPT !.err = TRUE]

(***************************************************************************)
(* Keys                                                                    *)
(***************************************************************************)

\* The key of a vulnerability row says neither its status nor its dates.
vulnKey(v) == <<Lower(v.name), Lower(v.provider), v.blob>>
vulnKeys(d) == [i \in DOMAIN d.vulns |-> vulnKey(d.vulns[i])]

pkgKey(p) == <<Lower(p.ecosystem), Lower(p.name)>>
pkgKeys(d) == [i \in DOMAIN d.packages |-> pkgKey(d.packages[i])]

cpeKey(c) == [f \in DOMAIN c |-> Lower(c[f])]
cpeKeys(d) == [i \in DOMAIN d.cpes |-> cpeKey(d.cpes[i])]

\* Mutant: the numbers without the channel.
Version_NoChannel(o) ==
    IF o.label # None THEN [label |-> Lower(o.label)] ELSE [major |-> o.major, minor |-> o.minor]

\* OperatingSystem.Version: the label, else the numbers and the channel, else
\* the codename.
Version(o) ==
    IF o.label # None THEN [label |-> Lower(o.label)]
    ELSE IF o.major # <<>> THEN [major |-> o.major, minor |-> o.minor, channel |-> o.channel]
    ELSE [codename |-> o.codename]

osKey(o) == <<Lower(o.name), Version(o)>>
osKeys(d) == [i \in DOMAIN d.oses |-> osKey(d.oses[i])]

\* The unique index os_idx.
osIndex(o) == <<Lower(o.name), Lower(o.release), o.major, o.minor, Lower(o.label), o.channel>>

(***************************************************************************)
(* Providers, blobs and vulnerabilities                                    *)
(***************************************************************************)

\* Provider.cacheKey is the whole description of the run that captured the data.
cachedProvider(d, p) == p \in d.providers

\* The id is the primary key: another run under a known id is refused.
addProviders(d, p) ==
    IF cachedProvider(d, p) THEN d
    ELSE IF \E q \in d.providers : q.id = p.id THEN Failed(d)
         ELSE [d EXCEPT !.providers = @ \cup {p}]

\* AddProvider: for entries without a vulnerability; a known id is kept.
AddProvider(d, p) ==
    IF \E q \in d.providers : q.id = p.id THEN d ELSE [d EXCEPT !.providers = @ \cup {p}]

\* addBlobable: equal values share a row.
addBlobs(d, b) == IF getID(d.blobs, b) # 0 THEN d ELSE [d EXCEPT !.blobs = Append(@, b)]
blobID(d, b) == getID(d.blobs, b)

\* A vulnerability as its row: the modification date defaults to the date of
\* publication.
vulnRow(d, v) ==
    [name |-> v.name, provider |-> v.provider.id, status |-> v.status, published |-> v.published,
     modified |-> IF v.modified = 0 THEN v.published ELSE v.modified, withdrawn |-> v.withdrawn,
     blob |-> blobID(d, v.blob)]

\* The aliases of the blob but for the name itself.
aliasRows(v) == {[name |-> v.name, alias |-> a] : a \in v.blob.aliases \ {v.name}}

\* createRecordsWithCache: a row with the key is reused.
createRecordsWithCache(d, row) ==
    IF getID(vulnKeys(d), vulnKey(row)) # 0 THEN d ELSE [d EXCEPT !.vulns = Append(@, row)]

\* AddVulnerabilities, one handle a call as the writer does.
addVuln(d, v) ==
    LET wb == addBlobs(d, v.blob)
    IN  createRecordsWithCache([wb EXCEPT !.aliases = @ \cup aliasRows(v)], vulnRow(wb, v))
AddVulnerabilities(d, v) ==
    LET wp == addProviders(d, v.provider) IN IF wp.err THEN wp ELSE addVuln(wp, v)

\* The id the handle carries afterwards, which the records related to it use.
vulnID(d, v) == getID(vulnKeys(d), vulnKey(vulnRow(d, v)))

(***************************************************************************)
(* Operating systems, packages and CPEs                                    *)
(***************************************************************************)

clean(o) == P!clean(o)

\* Create of an operating system: BeforeCreate cleans the row, a row equal in
\* the unique index refuses it.
createOS(d, o) ==
    IF \E i \in DOMAIN d.oses : osIndex(d.oses[i]) = osIndex(o) THEN Failed(d)
    ELSE [d EXCEPT !.oses = Append(@, o)]

addOsFromPackages(d, os) ==
    IF os = None \/ getID(osKeys(d), osKey(clean(os))) # 0 THEN d ELSE createOS(d, clean(os))
osID(d, os) == IF os = None THEN 0 ELSE getID(osKeys(d), osKey(clean(os)))

\* Cpe.BeforeCreate: a known CPE is reused.
addCPEs(d, c) == IF getID(cpeKeys(d), cpeKey(c)) # 0 THEN d ELSE [d EXCEPT !.cpes = Append(@, c)]
cpeID(d, c) == getID(cpeKeys(d), cpeKey(c))

\* Create of a package with at most one CPE. A new package is linked to its CPE,
\* known or not; a known package only to a CPE that is new.
createPackage(d, p) ==
    LET known == getID(pkgKeys(d), pkgKey(p)) # 0
        wp == IF known THEN d
              ELSE [d EXCEPT !.packages = Append(@, [ecosystem |-> p.ecosystem, name |-> p.name])]
        wc == addCPEs(wp, p.cpe)
    IN  IF p.cpe = None THEN wp
        ELSE IF known /\ cpeID(d, p.cpe) # 0 THEN d
        ELSE [wc EXCEPT !.links = @ \cup {<<getID(pkgKeys(wc), pkgKey(p)), cpeID(wc, p.cpe)>>}]

\* addPackages: a package without a CPE is created when its key is not cached,
\* one with a CPE always goes through Create.
addPackages(d, p) ==
    IF p.cpe = None /\ getID(pkgKeys(d), pkgKey(p)) # 0 THEN d ELSE createPackage(d, p)
pkgID(d, p) == getID(pkgKeys(d), pkgKey(p))

\* addPackagesWithOS: the operating system, the package, the blob, the handle.
\* Affected and unaffected handles are tables of the same form.
addHandle(d, affected, vid, h) ==
    [d EXCEPT !.handles = @ \cup {[affected |-> affected, vuln |-> vid, os |-> osID(d, h.os),
                                   pkg |-> pkgID(d, h.pkg), blob |-> blobID(d, h.blob)]}]
addPackagesWithOS(d, affected, vid, h) ==
    LET wo == addOsFromPackages(d, h.os)
    IN  IF wo.err THEN wo ELSE addHandle(addBlobs(addPackages(wo, h.pkg), h.blob), affected, vid, h)

\* addCPEHandles.
addCPEHandle(d, affected, vid, h) ==
    [d EXCEPT !.cpeHandles = @ \cup {[affected |-> affected, vuln |-> vid,
                                      cpe |-> cpeID(d, h.cpe), blob |-> blobID(d, h.blob)]}]
addCPEHandles(d, affected, vid, h) ==
    addCPEHandle(addBlobs(addCPEs(d, h.cpe), h.blob), affected, vid, h)

\* The four tables of records share the two forms.
AddAffectedPackages(d, vid, h) == addPackagesWithOS(d, TRUE, vid, h)
AddUnaffectedPackages(d, vid, h) == addPackagesWithOS(d, FALSE, vid, h)
AddAffectedCPEs(d, vid, h) == addCPEHandles(d, TRUE, vid, h)
AddUnaffectedCPEs(d, vid, h) == addCPEHandles(d, FALSE, vid, h)

(***************************************************************************)
(* Decorations                                                             *)
(***************************************************************************)

AddKnownExploitedVulnerabilities(d, k) ==
    LET wb == addBlobs(d, k.blob)
    IN  [wb EXCEPT !.kevs = @ \cup {[cve |-> k.cve, blob |-> blobID(wb, k.blob)]}]

\* One date for all scores: another date is refused.
setEPSSMetadata(d, date) ==
    IF d.epssDate = 0 THEN [d EXCEPT !.epssDate = date]
    ELSE IF d.epssDate = date THEN d ELSE Failed(d)

\* The row is there before its date is looked at.
AddEpss(d, e) ==
    setEPSSMetadata([d EXCEPT !.epss = @ \cup {[cve |-> e.cve, score |-> e.score, percentile |-> e.percentile]}],
                    e.date)

AddCWE(d, c) == [d EXCEPT !.cwes = @ \cup {c}]

(***************************************************************************)
(* Reading                                                                 *)
(***************************************************************************)

\* Which decorations a database of this schema version has: 6.0.1, 6.0.2, 6.1.2.
kevEnabled(v) == v >= 601
epssEnabled(v) == v >= 602
cweEnabled(v) == v >= 612

\* What is asked of a database without the table is nothing, not an error.
GetKnownExploitedVulnerabilities(v, d, cve) ==
    IF kevEnabled(v) THEN {k \in d.kevs : Lower(k.cve) = Lower(cve)} ELSE {}
GetCWEs(v, d, cve) == IF cweEnabled(v) THEN {c \in d.cwes : Lower(c.cve) = Lower(cve)} ELSE {}

\* Every score is given the one date; a database without one answers an error.
GetEpss(v, d, cve) ==
    IF ~epssEnabled(v) THEN {}
    ELSE {[cve |-> e.cve, score |-> e.score, percentile |-> e.percentile, date |-> d.epssDate] :
             e \in {x \in d.epss : Lower(x.cve) = Lower(cve)}}
GetEpssFails(v, d) == epssEnabled(v) /\ d.epssDate = 0

\* GetVulnerabilities: a specification with an unset field leaves it open. With
\* aliases the handles are joined with the aliases of their name, those without
\* any kept.
joined(d, r, name) ==
    \/ Lower(r.name) = Lower(name)
    \/ \E a \in d.aliases : Lower(a.name) = Lower(r.name) /\ Lower(a.alias) = Lower(name)

named(d, r, s) == IF s.aliases THEN joined(d, r, s.name) ELSE Lower(r.name) = Lower(s.name)

handleVulnerabilityOptions(d, r, s) ==
    /\ s.name # None => named(d, r, s)
    /\ s.after # 0 => r.published > s.after
    /\ s.modifiedAfter # 0 => r.modified > s.modifiedAfter
    /\ s.status # None => r.status = s.status
    /\ s.providers # {} => r.provider \in s.providers

GetVulnerabilities(d, s) == {i \in DOMAIN d.vulns : handleVulnerabilityOptions(d, d.vulns[i], s)}

\* attachBlobValue and the preloads: a handle with what its references name.
blobValue(d, i) == d.blobs[i]
vulnOf(d, i) == [name |-> Lower(d.vulns[i].name), provider |-> d.vulns[i].provider,
                 blob |-> blobValue(d, d.vulns[i].blob)]
OSOf(d, i) == IF i = 0 THEN None ELSE osIndex(d.oses[i])
attached(d, h) ==
    [affected |-> h.affected, vuln |-> vulnOf(d, h.vuln), os |-> OSOf(d, h.os),
     pkg |-> pkgKey(d.packages[h.pkg]), blob |-> blobValue(d, h.blob)]
attachedCPE(d, h) ==
    [affected |-> h.affected, vuln |-> vulnOf(d, h.vuln), cpe |-> cpeKey(d.cpes[h.cpe]),
     blob |-> blobValue(d, h.blob)]
=============================================================================
