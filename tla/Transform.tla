----------------------------- MODULE Transform ------------------------------
(***************************************************************************)
(* The transformers of the v6 build (grype/db/v6/build/transformers) one   *)
(* record at a time, and the operating system rows the records leave in    *)
(* the database: which of them a host is resolved to depends on all the    *)
(* records written before and after.                                       *)
(*                                                                         *)
(* Versions are numbers 0 .. MaxVersion.  Records with operating systems   *)
(* carry in "hosts" the distributions their publisher wrote them for.      *)
(***************************************************************************)
EXTENDS Ranges

CONSTANTS UnknownVersion, PseudoVersions, rhelMinorSpan, CPEParts, InferNVDFixVersions, PackageSpecs,
          SupportedDistros, ProductNames,
          MaxVersion,       \* versions the properties ask about
          MaxDistros,       \* distributions with rows in one database
          OSVRecords, OSRecords, NVDRecords, CSAFAdvisories, OpenVEXStatements,
          GitHubAdvisories, MSRCUpdates, EOLReleases, KEVs, EPSSs

P    == INSTANCE VulnProvider
OSV  == INSTANCE OSVTransform
OS   == INSTANCE OSTransform
NVD  == INSTANCE NVDTransform

\* isRollingDistro: an override makes every version of the name rolling.
RollingDistros ==
    LET tbl == P!KnownOperatingSystemSpecifierOverrides
    IN  {tbl[i].alias : i \in {j \in DOMAIN tbl : /\ tbl[j].rolling /\ tbl[j].version = None
                                                 /\ tbl[j].pattern = None /\ tbl[j].codename = None}}

VEX  == INSTANCE VEXTransform
Feed == INSTANCE FeedTransform

VARIABLES feed,     \* the transformer that ran last
          rec,      \* its input
          entry,    \* its output, None when the record is skipped or refused
          oss       \* the operating system rows written so far

vars == <<feed, rec, entry, oss>>

ToHandles(e) == IF e = None \/ "handles" \notin DOMAIN e THEN {} ELSE {e.handles[i] : i \in DOMAIN e.handles}
OnOS(e) == {h \in ToHandles(e) : "os" \in DOMAIN h /\ h.os # None}

\* OperatingSystem.clean, called when a row is created.
stored(os) == [os EXCEPT !.major = P!trimZeroes(@), !.minor = P!trimZeroes(@)]
osRows(e) == {stored(h.os) : h \in OnOS(e)}

Init == feed = None /\ rec = None /\ entry = None /\ oss = {}

\* One record through one transformer. Records that name no operating system
\* are tried on the empty database only: its rows do not enter what they become.
Read(f) == feed = None /\ feed' = f /\ UNCHANGED oss
Becomes(r, e) == /\ osRows(e) = {} => oss = {}
                 /\ Cardinality({o.name : o \in oss \cup osRows(e)}) <= MaxDistros
                 /\ rec' = r /\ entry' = e

TransformOSV == Read("osv") /\ \E r \in OSVRecords : Becomes(r, OSV!Transform(r))
TransformOS == Read("os") /\ \E r \in OSRecords : Becomes(r, OS!Transform(r))
TransformNVD == Read("nvd") /\ \E r \in NVDRecords : Becomes(r, NVD!Transform(r))
TransformCSAF == Read("csaf") /\ \E r \in CSAFAdvisories : Becomes(r, VEX!TransformCSAF(r))
TransformOpenVEX == Read("openvex") /\ \E r \in OpenVEXStatements : Becomes(r, VEX!TransformOpenVEX(r))
TransformGitHub == Read("github") /\ \E r \in GitHubAdvisories : Becomes(r, Feed!TransformGitHub(r))
TransformMSRC == Read("msrc") /\ oss = {} /\ \E r \in MSRCUpdates : Becomes(r, Feed!TransformMSRC(r))
TransformKEV == Read("kev") /\ oss = {} /\ \E r \in KEVs : Becomes(r, Feed!TransformKEV(r))
TransformEPSS == Read("epss") /\ oss = {} /\ \E r \in EPSSs : Becomes(r, Feed!TransformEPSS(r))
TransformEOL ==
    Read("eol") /\ \E r \in EOLReleases : rec' = r /\ entry' = Feed!TransformEOL(r)

\* The writer takes the entry; the systems of its handles get their rows.
WriteEntry ==
    /\ feed # None
    /\ oss' = oss \cup osRows(entry)
    /\ feed' = None /\ rec' = None /\ entry' = None

Next ==
    \/ TransformOSV \/ TransformOS \/ TransformNVD \/ TransformCSAF \/ TransformOpenVEX
    \/ TransformGitHub \/ TransformMSRC \/ TransformKEV \/ TransformEPSS \/ TransformEOL
    \/ WriteEntry

Spec == Init /\ [][Next]_vars

(***************************************************************************)
(* Properties                                                              *)
(***************************************************************************)

Versions == 0 .. MaxVersion

\* What the OSV format says of a version: some window has begun and no event has
\* closed it since.
OSVAffected(ranges, v) ==
    \E i \in DOMAIN ranges : LET es == ranges[i].events IN
        \E s \in DOMAIN es :
            /\ es[s].k = "introduced" /\ es[s].v <= v
            /\ \A e \in DOMAIN es :
                   /\ ~(es[e].k = "fixed" /\ es[s].v < es[e].v /\ es[e].v <= v)
                   /\ ~(es[e].k = "last_affected" /\ es[s].v <= es[e].v /\ es[e].v < v)

OpenEnded(r) == r.events # <<>> /\ Last(r.events).k = "introduced"
Closed(ranges) == \A i \in DOMAIN ranges : ~OpenEnded(ranges[i])

\* The records whose texts say what the format says: an open window is the last
\* one and, next to others, has a beginning; apk windows begin at zero.
Expressible(strategy, ranges) ==
    /\ \A i \in DOMAIN ranges : OpenEnded(ranges[i]) => i = Len(ranges)
    /\ Len(ranges) > 1 => \A i \in DOMAIN ranges : ranges[i].events # <<[k |-> "introduced", v |-> 0]>>
    /\ strategy = "cg" =>
          \A i \in DOMAIN ranges : \A s \in DOMAIN ranges[i].events :
              LET es == ranges[i].events IN es[s].k = "introduced" => es[s].v = 0 \/ s = Len(es)

\* A version is affected by the ranges written for an OSV record exactly when
\* the record's own events say so, over all its windows and ranges.
OSVExact ==
    feed = "osv" /\ rec.strategy \in {"bitnami", "cg", "go"} /\ entry # None =>
        \A i \in DOMAIN rec.affected : LET a == rec.affected[i] IN
            a.custom = <<>> /\ Expressible(rec.strategy, a.ranges) =>
                \A v \in Versions : Affects(entry.handles[i].ranges, v) <=> OSVAffected(a.ranges, v)

\* Custom ranges of the Go database say more about what its standard ranges say,
\* when both are one range and an open window is the only one of the standard
\* range: what both affect stays affected, and nothing is affected that neither
\* affects.
GoCustomWithin ==
    feed = "osv" /\ rec.strategy = "go" /\ entry # None =>
        \A i \in DOMAIN rec.affected : LET a == rec.affected[i] IN
            Len(a.ranges) = 1 /\ Len(a.custom) = 1 /\ (Closed(a.ranges) \/ Len(a.ranges[1].events) = 1) =>
                \A v \in Versions :
                    LET now == Affects(entry.handles[i].ranges, v)
                    IN  /\ OSVAffected(a.ranges, v) /\ OSVAffected(a.custom, v) => now
                        /\ now => OSVAffected(a.ranges, v) \/ OSVAffected(a.custom, v)

\* Whatever the feed, the version named as the fix is out of the range it fixes,
\* and a record that denies the vulnerability denies it for that version.
FixesAgree ==
    feed \in {"osv", "os", "nvd", "csaf", "openvex", "github"} =>
        \A h \in ToHandles(entry) : \A i \in DOMAIN h.ranges :
            LET r == h.ranges[i]
            IN  r.fix # None /\ r.fix.state = "fixed" /\ ~Unparsable(r.cons) =>
                    (("unaffected" \in DOMAIN h /\ h.unaffected) <=> Accepts(r.cons, r.fix.v))

\* The rows once the entry is written, and those a distribution is resolved to in
\* a search of the matchers.
rows == oss \cup osRows(entry)
rowsOf(host, exact) == UNION {P!GetOperatingSystems(rows, s) : s \in P!handleDistro({host}, exact)}
handlesAt(host, exact) ==
    LET at == rowsOf(host, exact) IN {h \in OnOS(entry) : stored(h.os) \in at}

\* Every host a record was written for finds it, whether it says a package is
\* affected or not, whatever rows other records have added.
HostsReached ==
    feed \in {"os", "osv", "csaf"} /\ OnOS(entry) # {} =>
        \A host \in rec.hosts : LET at == handlesAt(host, host.type = "almalinux") IN
            \A h \in OnOS(entry) : \E g \in at : g.name = h.name /\ g.unaffected = h.unaffected

\* What a RHEL record says for a host of one minor release: the range itself,
\* the fix of that release, or the fix of the major release.
rhelAffected(fs, minor, v) ==
    LET own == {p \in (DOMAIN fs) \X (1 .. 3) :
                   minor # None /\ p[2] \in DOMAIN fs[p[1]].advisories /\ fs[p[1]].advisories[p[2]].minor = minor}
        last == CHOOSE p \in own : \A q \in own : q[1] < p[1] \/ (q[1] = p[1] /\ q[2] <= p[2])
    IN  IF \A i \in DOMAIN fs : fs[i].range = {}
        THEN IF own # {} THEN v < fs[last[1]].advisories[last[2]].version
             ELSE \E i \in DOMAIN fs : fs[i].version = None \/ v < fs[i].version
        ELSE \E i \in DOMAIN fs :
                IF fs[i].range # {} THEN \E c \in fs[i].range : Accepts(c, v)
                ELSE fs[i].version = None \/ v < fs[i].version

\* Two entries for one package, one without a fix: the ranges cannot say both.
contradicts(fs) == \E i, j \in DOMAIN fs : fs[i].version = None /\ fs[j].version # None

\* A RHEL host is told of its own minor release: through the row it is resolved
\* to, a version is affected exactly when the record says so for that release,
\* also for releases newer than the table of releases.
MinorsServed ==
    feed = "os" /\ rec.ns.id = "rhel" /\ rec.ns.minor = <<>> /\ rec.ns.channel = None =>
        \A host \in rec.hosts : LET at == handlesAt(host, FALSE) IN \A g \in OS!groups(rec) :
            LET fs == OS!groupFixedIns(rec, g)
                minor == IF host.minor = <<>> \/ host.minor[1] > rhelMinorSpan[rec.ns.major] THEN None ELSE host.minor[1]
            IN  ~OS!isNotAffectedGroup(fs) /\ ~contradicts(fs) =>
                    \A v \in Versions :
                        rhelAffected(fs, minor, v) <=>
                        \E h \in at :
                            /\ ~h.unaffected /\ h.name = g.name /\ h.quals = OS!qualifiersOf(g)
                            /\ Affects(h.ranges, v)

\* What NVD says: a configuration applies to a product at a version on a platform
\* (None: on its own).
applies(m, v) ==
    IF m.bounds # NVD!NoBounds
    THEN Accepts(NVD!rangeConstraint(NVD!newAffectedRange(m)), v) ELSE m.version \in {None, v}

configurationAffects(c, product, v, platform) ==
    LET vulnerable(n) == \E m \in NVD!Matches(n) : m.vulnerable /\ m.product = product /\ applies(m, v)
        satisfied(n)  == vulnerable(n) \/ \E m \in NVD!Matches(n) : ~m.vulnerable /\ m.product = platform
    IN  /\ \E n \in NVD!Nodes(c) : vulnerable(n)
        /\ c.op = "AND" => \A n \in NVD!Nodes(c) : satisfied(n)

\* Conditions are in nodes of their own.
pure(c) == c.op = "AND" => \A n \in NVD!Nodes(c) : \A m1, m2 \in NVD!Matches(n) : m1.vulnerable = m2.vulnerable

\* Candidates of one product that a merge does not confuse: all or none of them
\* on a platform, all or none with ranges.
mergeable(r, product) ==
    LET cs == FlattenSeq([i \in DOMAIN r.configs |-> NVD!processConfiguration(r.configs[i])])
        of == {i \in DOMAIN cs : cs[i].product = product}
    IN  /\ \A i, j \in of : (cs[i].platforms = {}) = (cs[j].platforms = {})
        /\ \A i, j \in of : (cs[i].ranges = {}) = (cs[j].ranges = {})

\* No product, version and platform that a configuration of an NVD record makes
\* vulnerable is lost, whatever its nodes and however many configurations name
\* the product; and no version is affected that none of them names.
NVDComplete ==
    feed = "nvd" /\ ~NVD!Broken(rec) =>
        \A c \in {c \in NVD!Configs(rec) : pure(c)} : \A n \in NVD!Nodes(c) : \A m \in NVD!Matches(n) :
            n.op = "OR" /\ m.vulnerable /\ m.part \in CPEParts /\ mergeable(rec, m.product) =>
                \A v \in 1 .. MaxVersion : \A platform \in {None} \cup {x.product : x \in NVD!Matches(n)} \cup {"os"} :
                    configurationAffects(c, m.product, v, platform) =>
                        \E h \in ToHandles(entry) :
                            /\ "cpe" \in DOMAIN h /\ h.cpe = m.product
                            /\ Affects(h.ranges, v)
                            /\ h.quals.platforms = {} \/ platform \in h.quals.platforms

\* What an NVD record affects, one of its matches names; and it is only affected
\* everywhere when some configuration names it without a platform.
NVDSound ==
    feed = "nvd" =>
        \A h \in ToHandles(entry) : "cpe" \in DOMAIN h =>
            LET naming(c, v) == \E n \in NVD!Nodes(c) : \E m \in NVD!Matches(n) :
                                    m.vulnerable /\ m.product = h.cpe /\ applies(m, v)
                free(c) == c.op # "AND" \/ \A n \in NVD!Nodes(c) : \A m \in NVD!Matches(n) : m.vulnerable \/ m.product = h.cpe
            IN  \A v \in 1 .. MaxVersion : Affects(h.ranges, v) =>
                    \E c \in NVD!Configs(rec) : naming(c, v) /\ (h.quals.platforms = {} => free(c) \/ ~pure(c))

\* A product an advisory lists as affected or fixed stays affected, under its
\* name, on its platform and for its architecture: only a source product may
\* go, and then a binary one of the same name on the same platform says as much.
CSAFKept ==
    feed = "csaf" =>
        \A id \in VEX!Listed(rec.affected) \cup VEX!Listed(rec.fixed) : LET p == rec.products[id] IN
            p.purl # None =>
                \E h \in ToHandles(entry) :
                    /\ ~h.unaffected /\ h.name = p.purl.name /\ h.os = VEX!getOperatingSystem(rec, p)
                    /\ h.quals = VEX!rpmArchQualifierForPURL(p.purl) \/ VEX!isSrc(p.purl)

\* What an advisory denies is the version of a product it lists as not affected,
\* never another version of it, and never on another platform.
VEXDeniesOnly ==
    feed \in {"csaf", "openvex"} =>
        \A h \in ToHandles(entry) : h.unaffected =>
            \A v \in Versions : Affects(h.ranges, v) =>
                IF feed = "csaf"
                THEN \E id \in VEX!Listed(rec.notAffected) : LET p == rec.products[id] IN
                        p.purl # None /\ p.purl.name = h.name /\ p.purl.version = v /\ h.os = VEX!getOperatingSystem(rec, p)
                ELSE \E i \in DOMAIN rec.products : rec.products[i].name = h.name /\ rec.products[i].version = v

\* UpdateOperatingSystemEOL: the rows of the name, and of the numbers given.
eolRows(e) == {o \in oss : /\ o.name = e.name
                           /\ e.major = <<>> \/ o.major = e.major
                           /\ e.minor = <<>> \/ o.minor = e.minor}

\* The end of life of a release reaches the row that a host of that release is
\* asked about, whenever records have left one.
EOLLands ==
    feed = "eol" /\ entry # None =>
        \A host \in rec.hosts : P!EOLRows(oss, host) \subseteq eolRows(entry)

\* comparePackageHandles leaves no two handles of a record in the order a map
\* happened to give them, so that the same feeds build the same database: with at
\* most one range each, two handles of one kind with the same qualifiers are
\* ordered, one way only, by their range or by their operating system.
BuiltInOneOrder ==
    feed = "os" =>
        \A h1, h2 \in ToHandles(entry) :
            /\ h1 # h2 /\ h1.unaffected = h2.unaffected /\ h1.quals = h2.quals
            /\ Len(h1.ranges) <= 1 /\ Len(h2.ranges) <= 1
            => comparePackageHandles(h1, h2) # comparePackageHandles(h2, h1)

\* The ranges written for a record say what the record says, with its windows,
\* its custom ranges and its fixes.
RangesExact ==
  /\ OSVExact
  /\ GoCustomWithin
  /\ FixesAgree

\* A host is served by the rows written for it, whatever rows other records have
\* added: it finds the records of its distribution, what they say of its own
\* minor release, and the end of its life.
HostsServed ==
  /\ HostsReached
  /\ MinorsServed
  /\ EOLLands

\* The configurations of an NVD record lose nothing and gain nothing on their
\* way into records of CPEs.
NVDExact ==
  /\ NVDComplete
  /\ NVDSound

\* A VEX document affirms all that it lists as affected, and denies only what it
\* lists as not affected.
VEXExact ==
  /\ CSAFKept
  /\ VEXDeniesOnly

=============================================================================
