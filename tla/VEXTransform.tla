---------------------------- MODULE VEXTransform ----------------------------
(***************************************************************************)
(* grype/db/v6/build/transformers/csafvex and .../openvex: advisories that *)
(* list products by status.                                                *)
(*                                                                         *)
(* A CSAF advisory, for one vulnerability: [cve, products, cpes, affected, *)
(* fixed, notAffected, fixes].  products maps a product id to [purl,       *)
(* platform]: purl is None when it has none or one that does not parse,    *)
(* else [type, name, version, arch]; platform is the product id a          *)
(* relationship places it on, else None.  cpes maps the product ids with a *)
(* CPE that names an operating system to it, as [name, major, minor]; two  *)
(* may have the same.  The three statuses are sequences of ids, fixes the  *)
(* vendor fixes in order: [products, url, date].                           *)
(*                                                                         *)
(* An OpenVEX statement: [name, aliases, status, products, fixes], a       *)
(* product a purl or None, fixes the products with a dated fix.            *)
(***************************************************************************)
EXTENDS Ranges

CONSTANT RollingDistros     \* distributions a rolling override names outright

(***************************************************************************)
(* CSAF                                                                    *)
(***************************************************************************)

\* osFromCPE: a rolling distribution has one row, whatever its version.
osFromCPE(c) ==
    IF c.name \in RollingDistros THEN osRow(c.name, None, <<>>, <<>>, "rolling", None)
    ELSE osRow(c.name, None, c.major, c.minor, None, None)

\* The system of the platform; None without a platform or a CPE of it.
getOperatingSystem(adv, p) ==
    IF p.platform \in DOMAIN adv.cpes THEN osFromCPE(adv.cpes[p.platform]) ELSE None

\* buildRemediationIndex: the last vendor fix that lists the product.
NoFixFor == [products |-> {}, url |-> FALSE, date |-> FALSE]
remediationOf(adv, id) ==
    LET of == {i \in DOMAIN adv.fixes : id \in adv.fixes[i].products}
    IN  IF of = {} THEN NoFixFor ELSE adv.fixes[Max(of)]

isSrc(purl) == purl.type = "rpm" /\ purl.arch = "src"

\* rpmArchQualifierForPURL: a binary rpm without architecture is any but "src".
rpmArchQualifierForPURL(purl) ==
    IF purl.type # "rpm" THEN NoQuals
    ELSE [NoQuals EXCEPT !.arch = IF purl.arch = None THEN "binary-no-arch-specified" ELSE purl.arch]

Listed(ids) == {ids[i] : i \in DOMAIN ids}

\* Mutant: a source is dropped for a binary of its name on any platform.
redundantSrcProductIDs_AnyPlatform(adv) ==
    LET rpms == {id \in Listed(adv.affected) \cup Listed(adv.fixed) :
                    LET p == adv.products[id] IN p.purl # None /\ p.purl.type = "rpm" /\ p.platform # None}
    IN  {s \in rpms : /\ isSrc(adv.products[s].purl)
                      /\ \E b \in rpms : /\ ~isSrc(adv.products[b].purl)
                                         /\ adv.products[b].purl.name = adv.products[s].purl.name}

\* The source products with a binary of the same name on the same platform; two
\* platforms with the same CPE remain two.
redundantSrcProductIDs(adv) ==
    LET rpms == {id \in Listed(adv.affected) \cup Listed(adv.fixed) :
                    LET p == adv.products[id] IN p.purl # None /\ p.purl.type = "rpm" /\ p.platform # None}
    IN  {s \in rpms : /\ isSrc(adv.products[s].purl)
                      /\ \E b \in rpms : /\ ~isSrc(adv.products[b].purl)
                                         /\ adv.products[b].platform = adv.products[s].platform
                                         /\ adv.products[b].purl.name = adv.products[s].purl.name}

productHandle(adv, unaffected, p, ranges) ==
    PackageHandle(unaffected, p.purl.name, p.purl.type, getOperatingSystem(adv, p), rpmArchQualifierForPURL(p.purl), ranges)

\* Affected without a vendor fix page: every version.
makeAffectedHandle(adv, id) ==
    LET p == adv.products[id]
    IN  productHandle(adv, FALSE, p, IF remediationOf(adv, id).url
                                THEN <<Range_({Bound("lt", p.purl.version)}, Fix("not-fixed", None, FALSE))>> ELSE <<>>)

makeFixedHandle(adv, id) ==
    LET p == adv.products[id]
    IN  productHandle(adv, FALSE, p, <<Range_({Bound("lt", p.purl.version)},
                                         Fix("fixed", p.purl.version, remediationOf(adv, id).date))>>)

makeUnaffectedHandle(adv, id) ==
    LET p == adv.products[id]
    IN  productHandle(adv, TRUE, p, <<Range_({Bound("eq", p.purl.version)}, Fix("not-affected", None, FALSE))>>)

\* Products without a purl are skipped.
getPackageHandles(adv) ==
    LET known(ids) == {id \in Listed(ids) : adv.products[id].purl # None}
        kept(ids)  == known(ids) \ redundantSrcProductIDs(adv)
    IN  {makeAffectedHandle(adv, id) : id \in kept(adv.affected)}
        \cup {makeFixedHandle(adv, id) : id \in kept(adv.fixed)}
        \cup {makeUnaffectedHandle(adv, id) : id \in known(adv.notAffected)}

TransformCSAF(adv) ==
    [id |-> adv.cve, aliases |-> {}, status |-> "active", handles |-> SetToSeq(getPackageHandles(adv))]

(***************************************************************************)
(* OpenVEX                                                                 *)
(***************************************************************************)

\* getPackageBlob: the version of the product and no other.
getPackageBlob(state, purl, dated) ==
    <<Range_({Bound("eq", purl.version)},
             IF state = None THEN None
             ELSE Fix(state, IF state = "fixed" THEN purl.version ELSE None,
                      dated /\ state = "fixed" /\ purl.version # None))>>

\* A product that is fixed denies the vulnerability, as one not affected.
getPackageHandle(st, i) ==
    LET purl == st.products[i]
        one(unaffected, state) == PackageHandle(unaffected, purl.name, purl.type, None, NoQuals,
                                                getPackageBlob(state, purl, i \in st.fixes))
    IN  CASE st.status = "affected"     -> one(FALSE, None)
          [] st.status = "not_affected" -> one(TRUE, "not-affected")
          [] st.status = "fixed"        -> one(TRUE, "fixed")

\* One product that cannot be read, or another status, fails the statement;
\* without products the status is not looked at.
TransformOpenVEX(st) ==
    LET readable == /\ st.products # <<>> => st.status \in {"affected", "not_affected", "fixed"}
                    /\ \A i \in DOMAIN st.products : st.products[i] # None
    IN  IF ~readable THEN None
        ELSE [id |-> st.name, aliases |-> st.aliases, status |-> "active",
              handles |-> [i \in DOMAIN st.products |-> getPackageHandle(st, i)]]
=============================================================================
