------------------------------- MODULE DBDiff -------------------------------
(***************************************************************************)
(* Two databases are built, one after the other, and compared.             *)
(*                                                                         *)
(* A build writes entries through the stores of VulnStore: the             *)
(* vulnerability first, then what is related to it, as the writer's parent *)
(* and child batches are flushed. "grype db diff" then resolves its two    *)
(* arguments in two goroutines (NewDBDiffer, ResolveDB), attaches the      *)
(* second database to the first and reports the changes (VulnDiff).        *)
(***************************************************************************)
EXTENDS VulnDiff, SequencesExt

CONSTANTS Pools,         \* name -> the entries a build may be given
          Places,        \* pool -> what the arguments of a diff may be, and
                         \*         where resolving them fails
          Orders,        \* pool -> which database is the first argument of a diff,
                         \*         which the second
          MaxRuns,       \* pool -> how often the diff is run until it reports
          Includes,      \* pool -> what a diff may be asked to include
          MaxWrites      \* pool -> entries a database is built from

\* The entries that bring a vulnerability, and the systems their records name.
VulnEntries(p) == {e \in Pools[p] : e.kind = "vuln"}
Systems(p) ==
    {h.os : h \in {h \in UNION {Range(e.handles) : e \in VulnEntries(p)} : h.kind = "pkg"}} \ {None}
DecorationEntries(p) == {e \in Pools[p] : e.kind \in {"epss", "kev", "cwe"}}

Args == {1, 2}
Commands(p) ==
    [order : Orders[p], include : Includes[p], place : [Args -> Places[p]], run : Nat,
     state : {"resolving", "open", "failed", "panicked", "killed", "done"},
     at : [Args -> {"start", "absent", "made", "writing", "fetched", "hydrating", "ready", "failed"}]]

\* The directory of a database, which is also the one its archive is extracted
\* into, and the temporary ones of downloads.
TempDirs == {"temp"} \X Args
Dirs == ({"beside"} \X Args) \cup TempDirs

\* Without a vulnerability.db, or with one that is cut short; being written while
\* it is hydrated; whole; whole but for pages that were lost or overwritten
\* halfway through a hydration; hydrated.
DirStates == {"none", "empty", "short", "mixed", "plain", "torn", "hydrated"}
HasFile == DirStates \ {"none", "empty"}

\* What the transformers hand over. Nothing is named by an unset text, and no
\* vulnerability was modified before it was published; the ids of the providers
\* are written one way. An operating system has a number or a label, never both
\* (getOperatingSystem); a label has no channel and is the only one of its name;
\* the name decides the release id, and with the numbers the codename (LookupOS).
ASSUME PoolsAssumption ==
    /\ EPSSThreshold \in Int
    /\ \A p \in DOMAIN Pools :
        /\ None \notin Commands(p) /\ Orders[p] \subseteq Args \X Args
        /\ \A e \in VulnEntries(p) :
             /\ e.handles \in Seq(Range(e.handles))
             /\ \A h \in Range(e.handles) : /\ h.kind \in {"pkg", "cpe"} /\ h.affected \in BOOLEAN
                                            /\ h.kind = "cpe" => h.cpe # None
             /\ None \notin {e.vuln.name, e.vuln.provider.id} \cup e.vuln.blob.aliases
             /\ e.vuln.published \in Nat /\ e.vuln.modified \in Nat
             /\ e.vuln.modified # 0 => e.vuln.published <= e.vuln.modified
             /\ \A f \in VulnEntries(p) : Lower(e.vuln.provider.id) = Lower(f.vuln.provider.id) =>
                                          e.vuln.provider.id = f.vuln.provider.id
        /\ \A e \in DecorationEntries(p) :
             /\ Lower(Lower(e.row.cve)) = Lower(e.row.cve)
             /\ e.kind = "epss" => e.row \in [cve : {e.row.cve}, score : Int, percentile : Int, date : Nat \ {0}]
        /\ \A o, q \in {clean(s) : s \in Systems(p)} :
             /\ o.name # None /\ osIndex(o) # None
             /\ IF o.label = None THEN o.major # <<>>
                ELSE o.major = <<>> /\ o.minor = <<>> /\ o.channel = None
             /\ Lower(o.name) = Lower(q.name) => o.name = q.name /\ o.release = q.release
             /\ o.name = q.name =>
                  /\ None \notin {o.label, q.label} => o.label = q.label
                  /\ o.major = q.major /\ o.minor = q.minor => o.codename = q.codename

VARIABLES pool,      \* the entries this behaviour is about
          db,        \* the database being written
          log,       \* what was asked to be written to it
          writes,    \* how many entries it was given
          built,     \* the finished databases, in the order they were built
          cmd,       \* the diff command, None before it runs
          dir,       \* directory -> what is in it
          report     \* its result, None until there is one

vars == <<pool, db, log, writes, built, cmd, dir, report>>

NoLog == [vulns |-> {}, records |-> {}, cpeRecords |-> {}, epss |-> {}, kevs |-> {}, cwes |-> {}]

Init ==
    /\ pool \in DOMAIN Pools
    /\ db = EmptyDB /\ log = NoLog /\ writes = 0 /\ built = <<>>
    /\ cmd = None /\ dir = [d \in Dirs |-> "none"] /\ report = None

(***************************************************************************)
(* Building                                                                *)
(***************************************************************************)

\* What an entry asks to be stored, in the terms of a reader.
identity(v) == [name |-> Lower(v.name), provider |-> v.provider.id, blob |-> v.blob]
asked(v, h) ==
    [affected |-> h.affected, vuln |-> identity(v),
     os |-> IF h.os = None THEN None ELSE osIndex(clean(h.os)), pkg |-> pkgKey(h.pkg), blob |-> h.blob]
askedCPE(v, h) == [affected |-> h.affected, vuln |-> identity(v), cpe |-> cpeKey(h.cpe), blob |-> h.blob]

\* The related records of an entry, with the id its vulnerability was given.
writeRelated(d, v, h) ==
    CASE d.err -> d
      [] ~d.err /\ h.kind = "pkg" /\ h.affected -> AddAffectedPackages(d, vulnID(d, v), h)
      [] ~d.err /\ h.kind = "pkg" /\ ~h.affected -> AddUnaffectedPackages(d, vulnID(d, v), h)
      [] ~d.err /\ h.kind = "cpe" /\ h.affected -> AddAffectedCPEs(d, vulnID(d, v), h)
      [] ~d.err /\ h.kind = "cpe" /\ ~h.affected -> AddUnaffectedCPEs(d, vulnID(d, v), h)
related(d, e) ==
    LET upTo[n \in 0 .. Len(e.handles)] == IF n = 0 THEN d ELSE writeRelated(upTo[n - 1], e.vuln, e.handles[n])
    IN  upTo[Len(e.handles)]

Building(e) == /\ Len(built) < 2 /\ cmd = None /\ ~db.err
               /\ built # <<>> => Places[pool] # {}
               /\ writes < MaxWrites[pool] /\ writes' = writes + 1
               /\ UNCHANGED <<pool, built, cmd, dir, report>>

Of(e, kind) == {e.handles[i] : i \in {j \in DOMAIN e.handles : e.handles[j].kind = kind}}

\* An entry with a vulnerability.
WriteEntry(e) ==
    /\ e.kind = "vuln"
    /\ Building(e)
    /\ db' = related(AddVulnerabilities(db, e.vuln), e)
    /\ log' = [log EXCEPT !.vulns = @ \cup {e.vuln},
                          !.records = @ \cup {asked(e.vuln, h) : h \in Of(e, "pkg")},
                          !.cpeRecords = @ \cup {askedCPE(e.vuln, h) : h \in Of(e, "cpe")}]

\* An entry of a provider without vulnerabilities: scores, exploited ones, CWEs.
WriteEpss(e) ==
    /\ e.kind = "epss"
    /\ Building(e)
    /\ db' = AddEpss(AddProvider(db, e.provider), e.row)
    /\ log' = [log EXCEPT !.epss = @ \cup {e.row}]
WriteKEV(e) ==
    /\ e.kind = "kev"
    /\ Building(e)
    /\ db' = AddKnownExploitedVulnerabilities(AddProvider(db, e.provider), e.row)
    /\ log' = [log EXCEPT !.kevs = @ \cup {e.row}]
WriteCWE(e) ==
    /\ e.kind = "cwe"
    /\ Building(e)
    /\ db' = AddCWE(AddProvider(db, e.provider), e.row)
    /\ log' = [log EXCEPT !.cwes = @ \cup {e.row}]

\* Close: the database is finished; after a failed write there is none.
Close ==
    /\ Len(built) < 2 /\ cmd = None /\ writes > 0 /\ ~db.err
    /\ built' = Append(built, [db |-> db, log |-> log])
    /\ db' = EmptyDB /\ log' = NoLog /\ writes' = 0
    /\ UNCHANGED <<pool, cmd, dir, report>>

(***************************************************************************)
(* Comparing                                                               *)
(***************************************************************************)

\* The command is given the databases in either order, or one of them twice, each
\* as a directory (or a file in one), an archive or a URL; after a run that was
\* killed or failed it may be given again, and finds what that run left.
dirOf(c, a) == IF c.place[a].is = "url" THEN <<"temp", a>> ELSE <<"beside", c.order[a]>>
given(c, d) == \E a \in Args : c.place[a].is = "dir" /\ dirOf(c, a) = d
begin(c) ==
    /\ cmd' = c
    /\ dir' = [d \in Dirs |-> IF d \in TempDirs THEN "none"
                              ELSE IF dir[d] = "none" /\ given(c, d) THEN "plain" ELSE dir[d]]
StartDiff ==
    /\ Len(built) = 2 /\ report = None
    /\ cmd # None => cmd.state \in {"failed", "panicked", "killed"} /\ cmd.run < MaxRuns[pool]
    /\ \E order \in Orders[pool], c \in Includes[pool], places \in [Args -> Places[pool]] :
          begin([order |-> order, include |-> c, place |-> places, state |-> "resolving",
                 run |-> IF cmd = None THEN 1 ELSE cmd.run + 1, at |-> [a \in Args |-> "start"]])
    /\ UNCHANGED <<pool, db, log, writes, built, report>>

Resolving(a, s) ==
    /\ cmd # None /\ cmd.state = "resolving" /\ cmd.at[a] = s
    /\ UNCHANGED <<pool, db, log, writes, built, report>>

here(a) == dir[dirOf(cmd, a)]
goes(a, s, t) == cmd' = [cmd EXCEPT !.at[a] = s] /\ dir' = [dir EXCEPT ![dirOf(cmd, a)] = t]

\* The other goroutine is at s with the same directory.
Beside(a, s) == \E b \in Args \ {a} : dirOf(cmd, b) = dirOf(cmd, a) /\ cmd.at[b] = s

\* Mutant: a database that was extracted before is not hydrated again.
Stat_Reused(a) ==
    /\ Resolving(a, "start") /\ cmd.place[a].is = "archive"
    /\ goes(a, IF here(a) \in HasFile THEN "ready" ELSE "absent", here(a))

\* extractArchive: a directory that has a vulnerability.db is used as it is,
\* whoever put it there and however far they are.
Stat(a) ==
    /\ Resolving(a, "start") /\ cmd.place[a].is = "archive"
    /\ goes(a, IF here(a) \in HasFile THEN "fetched" ELSE "absent", here(a))
MakeDir(a) ==
    /\ Resolving(a, "absent")
    /\ IF cmd.place[a].fails = "mkdir" THEN goes(a, "failed", here(a))
       ELSE goes(a, "made", IF here(a) = "none" THEN "empty" ELSE here(a))

\* unarchiveDB: an existing file is truncated, under the other goroutine too.
\* When it fails the directory is removed with whatever is in it.
Create(a) ==
    /\ Resolving(a, "made")
    /\ \/ /\ here(a) # "none"
          /\ goes(a, "writing", IF Beside(a, "hydrating") THEN "mixed" ELSE "short")
       \/ /\ here(a) = "none" \/ cmd.place[a].fails = "fetch"
          /\ goes(a, "failed", "none")

\* downloadDB: into a directory of its own.
Download(a) ==
    /\ Resolving(a, "start") /\ cmd.place[a].is = "url"
    /\ \/ goes(a, "writing", "short")
       \/ cmd.place[a].fails = "fetch" /\ goes(a, "failed", "none")

\* The last byte is written. A file that was removed meanwhile is not there; one
\* the other is still writing is not whole before it ends as well.
written(a) ==
    CASE here(a) = "none" \/ Beside(a, "writing") -> {here(a)}
      [] here(a) = "mixed" /\ ~Beside(a, "writing") -> {"plain", "torn"}
      [] OTHER -> {"plain"}
WriteEnds(a) ==
    /\ Resolving(a, "writing")
    /\ \/ cmd.place[a].fails # "fetch" /\ \E t \in written(a) : goes(a, "fetched", t)
       \/ cmd.place[a].fails = "fetch" /\ goes(a, "failed", "none")

\* newResolvedDB: the indexes are created and the description is read.
readyFor(a) == IF cmd.place[a].is = "dir" THEN "start" ELSE "fetched"
Hydrate(a) ==
    /\ Resolving(a, readyFor(a))
    /\ goes(a, "hydrating", IF here(a) = "short" /\ Beside(a, "writing") THEN "mixed" ELSE here(a))

\* External: sqlite does not open a file that is shorter than its header says,
\* and an empty one has no description; two hydrations may meet a lock; what
\* becomes of one on a file in motion is open, and torn pages may go unnoticed.
hydrates(s) == s \in {"plain", "hydrated", "torn", "mixed"}
mayNotHydrate(a) == here(a) \notin {"plain", "hydrated"} \/ Beside(a, "hydrating")

\* When hydrating fails the directory is removed, whoever it belongs to and
\* whoever uses it; when the description cannot be read it stays.
HydrateEnds(a) ==
    /\ Resolving(a, "hydrating")
    /\ LET t == IF here(a) = "plain" THEN "hydrated" ELSE here(a) IN
       \/ cmd.place[a].fails \notin {"hydrate", "info"} /\ hydrates(here(a)) /\ goes(a, "ready", t)
       \/ cmd.place[a].fails = "info" /\ hydrates(here(a)) /\ goes(a, "failed", t)
       \/ (cmd.place[a].fails = "hydrate" \/ mayNotHydrate(a)) /\ goes(a, "failed", "none")

\* parallel: both goroutines are done.
waited == \A a \in Args : cmd.at[a] \in {"ready", "failed"}

\* NewDBDiffer: an error of either argument ends the command. When a database
\* cannot be opened or attached the clean-ups of both are called; only a URL has
\* one, and calling the missing one of a directory or an archive panics.
Open ==
    /\ cmd # None /\ cmd.state = "resolving" /\ waited
    /\ \/ /\ \E a \in Args : cmd.at[a] = "failed"
          /\ cmd' = [cmd EXCEPT !.state = "failed"] /\ UNCHANGED dir
       \/ /\ \A a \in Args : cmd.at[a] # "failed" /\ cmd.place[a].fails # "open"
          /\ cmd' = [cmd EXCEPT !.state = "open"] /\ UNCHANGED dir
       \/ /\ \A a \in Args : cmd.at[a] # "failed"
          /\ \E a \in Args : cmd.place[a].fails = "open" \/ here(a) = "torn"
          /\ cmd' = [cmd EXCEPT !.state = IF \A a \in Args : cmd.place[a].is = "url" THEN "failed" ELSE "panicked"]
          /\ dir' = [d \in Dirs |-> IF d \in TempDirs THEN "none" ELSE dir[d]]
    /\ UNCHANGED <<pool, db, log, writes, built, report>>

\* External: the process is killed. A file is as long as it was; a hydration,
\* whose journal is in memory, may leave pages of it half written.
Kill ==
    /\ cmd # None /\ cmd.state \in {"resolving", "open"} /\ cmd.run < MaxRuns[pool]
    /\ cmd' = [cmd EXCEPT !.state = "killed"]
    /\ LET hydrated == {dirOf(cmd, a) : a \in {b \in Args : cmd.at[b] = "hydrating"}}
           at(s) == {d \in Dirs : dir[d] \in s}
       IN  \E torn \in SUBSET ((hydrated \cap at({"plain", "hydrated"})) \cup at({"mixed"})) :
               dir' = [d \in Dirs |-> IF d \in torn THEN "torn" ELSE IF dir[d] = "mixed" THEN "short" ELSE dir[d]]
    /\ UNCHANGED <<pool, db, log, writes, built, report>>

\* newDBDifferDirs exchanges what the report calls before and after when the
\* first argument is the newer, not what is compared.
labels(order) == IF order = <<2, 1>> THEN [before |-> 1, after |-> 2]
                 ELSE [before |-> order[1], after |-> order[2]]

\* What is said of a database with torn pages is left open.
RunDiff ==
    /\ cmd # None /\ cmd.state = "open"
    /\ report' = [labels |-> labels(cmd.order),
                  diff |-> IF \A a \in Args : here(a) = "hydrated"
                           THEN Diff(cmd.include, built[cmd.order[1]].db, built[cmd.order[2]].db) ELSE None]
    /\ cmd' = [cmd EXCEPT !.state = "done"]
    /\ UNCHANGED <<pool, db, log, writes, built, dir>>

Next ==
    \/ \E e \in Pools[pool] : WriteEntry(e) \/ WriteEpss(e) \/ WriteKEV(e) \/ WriteCWE(e)
    \/ Close
    \/ StartDiff
    \/ \E a \in Args : \/ Stat(a) \/ MakeDir(a) \/ Create(a) \/ Download(a)
                      \/ WriteEnds(a) \/ Hydrate(a) \/ HydrateEnds(a)
    \/ Open
    \/ Kill
    \/ RunDiff

Spec == Init /\ [][Next]_vars

(***************************************************************************)
(* Properties of the stores                                                *)
(***************************************************************************)

Row(table) == DOMAIN table

\* A reader that follows the references of the rows finds exactly the records
\* that were asked to be written: neither the shared blobs nor the keys of the
\* cache, coarser than the rows, give a record another's package, operating
\* system, vulnerability or ranges.
RecordsFaithful ==
    ~db.err => /\ {attached(db, h) : h \in db.handles} = log.records
               /\ {attachedCPE(db, h) : h \in db.cpeHandles} = log.cpeRecords
               /\ {vulnOf(db, i) : i \in DOMAIN db.vulns} = {identity(v) : v \in log.vulns}

\* No unique index refuses a row the cache let through: a write fails only for
\* a second run of one provider or a second date of the scores.
WritesAccepted ==
    db.err => \/ \E v \in log.vulns, p \in db.providers : v.provider.id = p.id /\ v.provider # p
              \/ \E e, f \in log.epss : e.date # f.date

\* Vulnerabilities of two runs of one provider never stand side by side.
OneRun == ~db.err => \A v, w \in log.vulns : v.provider.id = w.provider.id => v.provider = w.provider

\* What was written about a CVE is read under any spelling of it: a score with
\* the date it was written with, an exploited one with its own blob.
DecorationsRead ==
    ~db.err =>
        /\ \A e \in log.epss : /\ ~GetEpssFails(612, db)
                               /\ e \in GetEpss(612, db, Lower(e.cve))
        /\ \A k \in log.kevs : \E r \in GetKnownExploitedVulnerabilities(612, db, Lower(k.cve)) :
                                   blobValue(db, r.blob) = k.blob
        /\ \A c \in log.cwes : c \in GetCWEs(612, db, Lower(c.cve))

Asked == {v.name : v \in log.vulns} \cup UNION {v.blob.aliases : v \in log.vulns}
Query == [name |-> None, aliases |-> FALSE, after |-> 0, modifiedAfter |-> 0, status |-> None, providers |-> {}]

\* A search by name with aliases finds the vulnerabilities of that name and of
\* every name that some record calls by it, in any case, and no other.
AliasesFound ==
    ~db.err => \A n \in Asked : LET found == GetVulnerabilities(db, [Query EXCEPT !.name = n, !.aliases = TRUE]) IN
        {vulnOf(db, i).name : i \in found} =
            {Lower(v.name) : v \in {w \in log.vulns : \/ Lower(w.name) = Lower(n)
                                                     \/ \E u \in log.vulns :
                                                            /\ Lower(u.name) = Lower(w.name)
                                                            /\ \E a \in u.blob.aliases : Lower(a) = Lower(n)}}

\* A search for what was modified after a date has every vulnerability that was
\* published after it.
NewOnesFound ==
    ~db.err => \A t \in {v.published : v \in log.vulns} :
        t > 0 => GetVulnerabilities(db, [Query EXCEPT !.after = t])
                     \subseteq GetVulnerabilities(db, [Query EXCEPT !.modifiedAfter = t])

(***************************************************************************)
(* Properties of the comparison                                            *)
(***************************************************************************)

\* A report is about databases that were written to the last byte and hydrated
\* after it, whatever the two goroutines do first, also when both extract or
\* hydrate the same directory and when it is one that a killed run left behind.
\* Pages can be torn, but not by a first run on two directories.
CompleteInputs ==
    report # None =>
        /\ \A a \in Args : here(a) \in {"hydrated", "torn"}
        /\ cmd.run = 1 /\ dirOf(cmd, 1) # dirOf(cmd, 2) => \A a \in Args : here(a) = "hydrated"

From == built[cmd.order[1]].db
To == built[cmd.order[2]].db
Reported == report # None /\ report.diff # None
PackagesReported == Reported /\ IncludePackages(cmd.include)
VulnsReported == Reported /\ IncludeVulns(cmd.include)

\* What decides a match of a package with a vulnerability, per place a record
\* is looked up under.
pkgPlace(d, h) == [id |-> [id |-> d.vulns[h.vuln].name, provider |-> d.vulns[h.vuln].provider],
                   pkg |-> d.packages[h.pkg], os |-> OSOf(d, h.os)]
Matching(d, k) ==
    {<<status(d, h), d.blobs[h.blob].ranges>> : h \in {x \in d.handles : pkgPlace(d, x) = k}}
PkgPlaces(d) == {pkgPlace(d, h) : h \in d.handles}

cpePlace(d, h) == [id |-> [id |-> d.vulns[h.vuln].name, provider |-> d.vulns[h.vuln].provider],
                   cpe |-> d.cpes[h.cpe]]
MatchingCPE(d, k) ==
    {<<status(d, h), d.blobs[h.blob].ranges>> : h \in {x \in d.cpeHandles : cpePlace(d, x) = k}}
CPEPlaces(d) == {cpePlace(d, h) : h \in d.cpeHandles}

PkgChange(kind, k) ==
    [kind |-> kind, id |-> k.id,
     pkg |-> [ecosystem |-> k.pkg.ecosystem, name |-> k.pkg.name, cpe |-> None]]
CPEChange(kind, k) ==
    [kind |-> kind, id |-> k.id, pkg |-> [ecosystem |-> CPEEcosystem, name |-> k.cpe.product, cpe |-> k.cpe]]
Kinds == {"added", "removed", "modified"}

\* The ranges of a place differ, and not only by some that came to others.
Changed(old, new) == old # new /\ ~(old # {} /\ old \subseteq new)

\* A change of what matches is never passed over in silence: the package, the
\* CPE and the vulnerability are in the report.
ChangeReported ==
    PackagesReported =>
        /\ \A k \in PkgPlaces(From) \cup PkgPlaces(To) : Changed(Matching(From, k), Matching(To, k)) =>
               \E kind \in Kinds : PkgChange(kind, k) \in report.diff.packages
        /\ \A k \in CPEPlaces(From) \cup CPEPlaces(To) : Changed(MatchingCPE(From, k), MatchingCPE(To, k)) =>
               \E kind \in Kinds : CPEChange(kind, k) \in report.diff.packages

Mixed(m) == \E x, y \in m : x[1] # y[1]

\* Nothing is reported of a package whose records are the same in both, in any
\* order they were written and with any ids; where a place has both affected
\* and unaffected records the report is not that exact.
UnchangedSilent ==
    PackagesReported => \A c \in report.diff.packages : c.pkg.cpe = None =>
        \E k \in PkgPlaces(From) \cup PkgPlaces(To) :
            /\ k.id = c.id /\ k.pkg.name = c.pkg.name /\ k.pkg.ecosystem = c.pkg.ecosystem
            /\ Matching(From, k) # Matching(To, k) \/ Mixed(Matching(To, k))

Vulnerable(m) == \E x \in m : x[1] = 1

\* With the older database first, what has become vulnerable is "added" and what
\* is no longer vulnerable "removed", whether the records or their status changed.
DirectionRight ==
    PackagesReported /\ cmd.order = <<1, 2>> =>
        \A k \in PkgPlaces(From) \cup PkgPlaces(To) :
            LET old == Matching(From, k)
                new == Matching(To, k)
            IN  /\ ~Vulnerable(old) /\ Vulnerable(new) => PkgChange("added", k) \in report.diff.packages
                /\ Vulnerable(old) /\ ~Vulnerable(new) => PkgChange("removed", k) \in report.diff.packages

VulnRows(d, i) == {r \in diffVuln(d) : rowID(r) = i}
AllIDs == rowIDs(diffVuln(From)) \cup rowIDs(diffVuln(To))
VulnChanges == report.diff.vulns.added \cup report.diff.vulns.removed \cup report.diff.vulns.modified

\* A vulnerability whose description, status or any of its three dates (of
\* publication, modification, withdrawal) changed is reported once,
\* and one whose rows are the same is not; a row that only went away among
\* others of the same vulnerability is not seen.
VulnChangeReported ==
    VulnsReported => \A i \in AllIDs :
        LET old == VulnRows(From, i)
            new == VulnRows(To, i)
        IN  /\ old # new /\ ~(new # {} /\ new \subseteq old) => i \in VulnChanges
            /\ old = new => i \notin VulnChanges
            /\ Cardinality({s \in DOMAIN report.diff.vulns : i \in report.diff.vulns[s]}) <= 1

ScoresOf(d, c) == {e \in d.epss : e.cve = c}
AllCves == Cves(From.kevs) \cup Cves(To.kevs) \cup Cves(From.epss) \cup Cves(To.epss)
KEVChanged(c) == (c \in Cves(From.kevs)) # (c \in Cves(To.kevs))
Beyond(x, y) == x > y + EPSSThreshold \/ y > x + EPSSThreshold
ScoreMoved(c) ==
    LET old == ScoresOf(From, c)
        new == ScoresOf(To, c)
    IN  \/ (old = {}) # (new = {})
        \/ \E x \in old, y \in new : Beyond(x.score, y.score) \/ Beyond(x.percentile, y.percentile)

\* A vulnerability is listed as modified without a provider exactly when it
\* became known to be exploited or ceased to, or its score came, went or moved
\* either way by more than the threshold, itself or in its percentile, as far as
\* these are included.
DecorationsReported ==
    VulnsReported => \A c \in AllCves :
        [id |-> c, provider |-> None] \in report.diff.vulns.modified <=>
            \/ IncludeKEV(cmd.include) /\ KEVChanged(c)
            \/ IncludeEPSS(cmd.include) /\ ScoreMoved(c)

\* The stores give back what was written: the records, the runs, the decorations
\* and the vulnerabilities under all their names, and refuse nothing without
\* cause.
StoresFaithful ==
  /\ RecordsFaithful
  /\ WritesAccepted
  /\ OneRun
  /\ DecorationsRead
  /\ AliasesFound
  /\ NewOnesFound

\* The difference of two databases has what changed, in its direction, and
\* nothing else.
DiffExact ==
  /\ ChangeReported
  /\ UnchangedSilent
  /\ DirectionRight
  /\ VulnChangeReported
  /\ DecorationsReported

=============================================================================
