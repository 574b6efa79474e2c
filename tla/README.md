# A formal model of grype

grype scans container images, file systems and SBOMs for known vulnerabilities. It keeps a
vulnerability database in a cache directory, matches the packages it finds against that database,
filters the matches through ignore rules and VEX documents, and reports the rest. The same
repository holds the code that builds the database from provider data, searches it and compares two
of them.

This directory models the parts of grype that carry state, orderings or algorithms worth checking.
Every definition is translated from the Go source; `PROJECT.json` ("map") names the lines.

## The system

| Part | State | Operations | What is hard about it |
|---|---|---|---|
| Curator of the installed database (`grype/db/v6/installation`) | cache directory: `vulnerability.db`, `import.json`, `last_update_check`, temp directories | Update, Import, Delete, Status, Reader | any number of processes share the directory without a lock; processes are killed; every step can fail; rehydration writes in place |
| Distribution client (`grype/db/v6/distribution`) | none (a remote listing) | Latest, IsUpdateAvailable, Download | a listing that lags; failing downloads |
| Transformers (`grype/db/v6/build/transformers`) | none | Transform, one per feed | windows of versions become constraints; platforms become conditions; rows of one record decide which rows hosts are resolved to |
| Database build (`grype/db/build.go`, `grype/db/v6/build`) | batches, held Go records, severity cache, the store | Write, Close, reconcile | two-tier batching must keep foreign keys; records of one feed amend records of another; order of providers |
| Stores (`grype/db/v6/*_store.go`) | SQLite tables, caches | Add*, Get* | get-or-create behind caches whose keys are coarser than the rows; shared blobs; limits |
| Vulnerability provider and search criteria (`grype/db/v6/vulnerability_provider.go`, `grype/search`) | none | FindVulnerabilities | which criteria become queries and which filters; resolution of operating systems with aliases and fallbacks |
| Matchers (`grype/matcher`) | none | Match | upstream packages, fix channels, negative results; a failing query in the middle |
| Match collection (`grype/match/matches.go`) | three indexes | Add, Merge, Diff | indexes must agree; iteration order of maps |
| Matching pipeline (`grype/vulnerability_matcher.go`) | accumulated matches and ignore filters | FindMatchesContext | a matcher that fails or panics; cancellation; ignore rules applied before and after normalisation |
| Ignore rules (`grype/match/ignore.go`) | none | IgnoreMatch | an indexed evaluation that must agree with the plain one |
| VEX (`grype/vex`) | matches and ignored matches | ApplyVEX | statements move matches in both directions; contradicting statements |
| Version comparison (`grype/version`) | a comparator per format, cached in a version | Validate, Is, Compare, Satisfied | fourteen formats that each must be an order; a cache that outlives a failed parse |
| Package catalogue (`grype/pkg`, `grype/distro`) | packages by reference | Provide | ownership, exclusions, distributions and channels interact; several SBOMs in one archive |
| Root command, writers and interface (`cmd/grype`, `grype/presenter`) | goroutines, files, event queue | runGrype, Handle, Teardown, explain | three goroutines; output files opened first; teardown while events arrive; interrupts |
| Difference and search of databases (`grype/db/v6/diff`, `cmd/grype/cli/commands/internal/dbsearch`) | two databases; one database | Diff; FindMatches, FindVulnerabilities | parallel resolution; joins over rows with different ids; limits per query |

The parts interact as follows. A build takes records of the provider workspaces through the
transformers into the writer, which fills the stores. The archive of a finished database is what the
curator downloads and activates. A run of the root command loads that database and the packages at
the same time; the pipeline gives every package to its matchers, which ask the provider; it filters
what they return, and the document goes to the outputs. `db search` and `db diff` read the same stores.

## Modules

| Module | What it models | Source |
|---|---|---|
| `DBCurator` | the installed database and the processes that share it | `grype/db/v6/installation/curator.go`, `grype/db/v6/import_metadata.go`, `grype/db/v6/distribution/client.go`, `grype/load_vulnerability_db.go` |
| `ServedDB` | abstract: one complete database or none | implemented by `DBCurator` |
| `MatchSet` | `match.Matches` as a value: Add, merge, replace, fingerprints | `grype/match/matches.go`, `match.go`, `details.go`, `fingerprint.go` |
| `Matches` | a program that adds to, merges and subtracts collections | the same |
| `IgnoreRules` | ignore rules, matcher filters and their index, VEX rules | `grype/match/ignore.go`, `grype/vulnerability_matcher.go`, `grype/vex` |
| `Scan` | one scan from the first matcher call to the severity threshold | `grype/vulnerability_matcher.go`, `grype/vex` |
| `GoVulnMerge` | merging GO records into the advisories they alias | `grype/db/v6/build/govulndb_merge.go` |
| `DBBuild` | the build: reading, holding, batching, flushing, closing | `grype/db/build.go`, `grype/db/v6/build/writer.go` |
| `VersionOrder` | the comparison of two versions in each format | `grype/version/*_version.go`, `fuzzy_constraint.go` |
| `Version` | a version object and its comparator cache, constraints | `grype/version/version.go`, `range_expression.go`, `*_constraint.go` |
| `Packages` | upstream packages, searched names, qualifiers, ownership | `grype/pkg`, `grype/db/v6/name`, `grype/internal/rootio` |
| `VulnProvider` | queries on a database and what they return | `grype/db/v6/vulnerability_provider.go`, `vulnerability.go`, `operating_system_store.go`, `package_store.go`, `cpe_store.go`, `grype/search` |
| `ResultSet` | the set algebra of the matchers | `grype/matcher/internal/result` |
| `Matchers` | matching one package by any of the matchers | `grype/matcher` |
| `Ranges` | version ranges, constraints, fixes, handles | `grype/db/v6/blobs.go`, `grype/db/internal/versionutil` |
| `OSVTransform`, `OSTransform`, `NVDTransform`, `VEXTransform`, `FeedTransform` | a record of each feed to the entry written for it | `grype/db/v6/build/transformers` |
| `Transform` | records transformed and written in any order, and the rows they leave | the same, `operating_system_store.go` |
| `Provide` | from the user's input to the packages of a scan | `grype/pkg`, `grype/distro` |
| `Report` | the document, its order, the table, SARIF, CycloneDX, explain | `grype/presenter` |
| `RootCommand` | one run of grype with its goroutines, files, events and interrupts | `cmd/grype/cli/commands`, `cmd/grype/internal/ui`, `internal/format` |
| `VulnStore` | the tables and the operations that fill and query them | `grype/db/v6/*_store.go`, `models.go`, `cache.go` |
| `VulnDiff` | the report of a comparison as a function of two databases | `grype/db/v6/diff` |
| `DBDiff` | two builds, the resolution of two arguments, the comparison | the same |
| `DBSearch` | `db search` and `db search vuln` on a database that was built | `cmd/grype/cli/commands`, `.../internal/dbsearch` |
| `DBCuratorProofs` | proofs about the installed database, and that it implements `ServedDB` | |
| `MatchSetProofs`, `MatchesProofs`, `ScanProofs` | proofs about collections and about a scan | |
| `DBBuildProofs` | proofs about the writer's buffers, and about what a finished build holds | |
| `RootCommandProofs` | proofs about a run of grype: goroutines, outputs, events, exit | |
| `DBDiffProofs` | proofs about the stores and about the difference of two databases | |
| `Induction` | induction over numbers, and the recursive functions it makes | |

`Scan` extends `IgnoreRules`, which extends `MatchSet`; `DBBuild` extends `GoVulnMerge`, `Version`
extends `VersionOrder`. `Matchers` extends `VulnProvider` (which extends `Packages`) and `ResultSet`.
`Transform` takes the five transformers and `VulnProvider` as instances: what a transformer writes is
judged by what the provider finds. `RootCommand` extends `Report`, which extends `Provide` and so
`Packages`. `DBSearch` extends `DBDiff`, `VulnDiff` and `VulnStore`, and uses the resolution of
operating systems of `VulnProvider`. The `MC*` modules only give values to constants.

### DBCurator

A directory is an inode with three files (`db`, `meta` for `import.json`, `check` for
`last_update_check`); `dbPath` is the inode at the path of the installed database. The distinction
is what makes the races visible: `os.RemoveAll` opens a directory, lists it once and unlinks the
entries it saw, while `Stat`, `Rename` and the readers resolve the path when they are called. A
process record holds the program counter and the local variables of the Go functions it is in.
`StartUpdate`, `ReadCurrent`, `Throttle`, `CheckOK`/`CheckFail` are `Update` up to the download;
`MkdirTemp`, `FetchOK`/`FetchFail` are `Download` and the copying of `Import`; `HydrateOK`,
`TruncateMeta`, `DigestDB`, `WriteMeta` are `hydrate`; `StatDB`, `PurgeOpen`, `Unlink`, `Rmdir`,
`RenameOK` are `replaceDB` and `Delete`; `Stamp` is `setLastSuccessfulUpdateCheck`; `StatusAge` to
`CloseReader` are `LoadVulnerabilityDB`. Every step that can fail has its failing variant (`StampFail` when
the time of the check cannot be written, `RenameFail` when `MkdirAll` or the rename fails, whatever is at the
path by then). `Crash` kills a process anywhere, `Corrupt` damages the installed file, `Tick` and `Publish` are the clock and the listing.
`tainted` (directories rehydrated in place or damaged) and `stamped` (what the listing offered at
the last recorded check) are history variables and are read by properties only.

### Matches, IgnoreRules, Scan

A match is its vulnerability, package, fixed versions and details; a fingerprint is the part of it
that the code hashes. `Add` returns the set of collections it can leave, because the code walks over
a Go map where the order decides. Lists without duplicates are sets. Regular expressions, globs and
package URLs are relations given as constants: which pattern matches which name is not the question,
what a match decides is.

`Scan` is sequential in the code; what is not determined in it is what the matchers return, which
iteration order a map has, when the context is cancelled and which call fails. One action is one
call of a matcher, or one stage of `findDBMatches`. An advisory of the CSAF format may give one
product several statuses. The code keeps them in a map and takes the first it meets, anew when it
filters and when it augments, so `Lookups` is a set of functions and `ApplyVEX` chooses twice.

### DBBuild, GoVulnMerge

The writer buffers closures. The model buffers what a closure does when it is run (`Run`), so that a
row's foreign key is read when it is flushed and not when it is buffered, as in the code. `then` is
the rest of the call stack of a flush, which can be entered from inside an entry.

### VersionOrder, Version

A version text is a sequence of tokens: numerals with their leading zeros, words ranked in the order
of strings, and punctuation. This is the level at which the formats differ; no property depends on
single characters. Formats whose order comes from a library (Debian, Alpine, Maven, PEP 440,
go-version) are compared with an order that has what grype relies on, a tilde before the end of a
text and a pre-release before its release; what grype adds around the library (epochs, stripped
qualifiers, local labels, Java spellings) is translated. `Version` follows the calls on one object.
`Is`, `Validate` and comparisons with an epoch strategy make and fill its map, while `Compare` has a
value receiver and fills it only if it exists. A constraint is evaluated by steps, one per operand and
one per unit (`job` says where it is), as what a unit leaves in the map changes the answer of the
next. `Panic` is what indexing a missing match or dereferencing a nil library version gives. Nothing is claimed
of a package with an epoch against an rpm constraint without one (`EpochAgreed`), see "Where code and comments
disagree".

### Packages, VulnProvider, ResultSet, Matchers

A database is its operating system rows and its handles (affected or unaffected, of a package or of a
CPE, each with identifiers, ranges, qualifiers and fix). `FindVulnerabilities` splits the criteria of a
search as the code does, into what the stores are asked (name, ecosystem, distribution, CPE) and what
is asked of each vulnerability afterwards. Names of packages are sequences of parts and versions are
numbers: the formats are the subject of `Version`.

A matcher is a list of searches (`todo`). Each is an action: `SearchDistro`, `SearchRpm`,
`SearchChannel` (RHEL EUS and Ubuntu ESM), `SearchAlma`, `SearchApk` (with the secdb),
`SearchLanguage`, `SearchCPE`. The end of life of a distribution is that of the first row it is resolved to, as
`IsDistroEOL` looks at no other; an rpm's source package takes over its epoch, or has none (`NoEpoch`), and is
then compared without epochs (`against`). `SearchFails` is the failing query; some searches turn it into the
error of the matcher, others only log it, which `lost` records. `Set.Update` walks a map, so the
AlmaLinux search chooses the order of the advisories.

### Ranges, the transformers, Transform

A version is a number and a constraint is a set of bounds; a text that does not parse is a bound
without a version. Each transformer is an operator from a record to an entry, or to None when the
record is skipped. `Transform` takes a record of any feed, and `WriteEntry` adds its operating system
rows to those already there, so that a host can be resolved to a row another record has added. A CSAF advisory
names its platforms by product ids and has the CPE of some of them; two ids may share one CPE, and source
products are redundant by id, not by CPE.

### Provide, Report, RootCommand

`Provide` offers the input to the providers in turn. Packages are pointers in the code and are changed
after others refer to them, so a catalogue is a heap and the list of references still in it. `Report`
has the comparison functions of the sorts, and the insertion sort Go uses for short lists, because
some of them are not orders. A package that is owned by others is dropped when an owner answers for it:
for a binary, any owner of about the same version; otherwise an operating system package of a distribution
with a comprehensive feed. `OwnersAnswer` says when that is right (`Answers`), with the distributions the input
tells for the owner (`Told`): the user's, its own package URL's, or those of the catalogue.

`RootCommand` has the main goroutine (`pc`), the three goroutines (`workers`), the events published and
not yet handled (`queue`), the interface (`ui`) and what it prints when it is torn down (`stdout`); `outs`
counts the outputs that were written, and `Chosen(s, T)` is the list of the members of `s` at the places
`T`. On a terminal the interface runs a program in a goroutine of its own. The event loop hands it one event
(`Handle`, `ui.hand`), and it keeps what it is to print later (`Update`, `ui.final`); without a terminal
`Handle` keeps it at once. `Exit` begins the teardown (`ui.closing`), during which the loop takes no more
events. A plain teardown waits until the program has dealt with its last event and ended (`Quit`); a forced
one waits for at most 250 ms, so `FinishTeardown` may come before or after `Update` and `Quit`. That the
progress components `Handle` started come to an end, for which a plain teardown waits first (`ui.go:85`), is
assumed. `Interrupt` may come at any moment, as a key, which first ends the program and then asks for an exit,
or as a signal, which ends the loop and forces the teardown. `Explain` is `grype explain`, run on a report
that was written whole.

### VulnStore, VulnDiff, DBDiff, DBSearch

A table others refer to is a sequence and a row's position its id. The stores look up a row by the text
key of the cache before they insert; the key folds case, joins the parts of a version and leaves out
columns, and the model keeps it apart from the row for that reason. `log` is what the stores were asked
to write, and the reference for the properties. `related` writes the records of an entry one after the other and
stops at the first that is refused.

`DBDiff` builds two databases, resolves two arguments in two goroutines and compares. An argument is a
directory, an archive or a URL, and `Orders` has which database is given first, or one of them twice. An
archive is extracted into the directory beside it, so that two arguments may share one directory, and a
directory that has a `vulnerability.db` is taken as it is (`Stat`), whether an earlier run left it or the other
goroutine is still writing it. `MakeDir`, `Create`, `Download`, `WriteEnds`, `Hydrate` and `HydrateEnds` are the
steps of one goroutine; `dir` says how far the file in each directory has come. A failed extraction or hydration
removes the directory whoever uses it. `Kill` ends a run anywhere, and up to `MaxRuns` runs follow on what it
left. Two facts about SQLite are external: a file that is shorter than its header says is refused (an empty one
has no description), and a hydration that is killed, or whose file is overwritten under it, may leave torn pages
that nobody notices, since its journal is in memory (`grype/db/internal/gormadapter/open.go:20-24`). `CompleteInputs`
names the second as its exception, and shows that a first run on two directories does not meet it. `Open` panics
where the code calls a clean-up that is nil. `RunDiff` is the report, a function of the two databases
(`VulnDiff`). `DBSearch` adds the two search commands.

## Properties and runs

A property that has parts is the conjunction of the named ones, each with its comment in the module.

| Run | Instance | Shows |
|---|---|---|
| `curator_single` (2,457,258 states) | one process, all commands, three directories, one crash, one corruption, clock to 4, listing one build behind | `UpdateNeverDowngrades`, `StampCoversDB` |
| `curator_pair` (3,199,015) | two processes of an older and a newer release, load and delete, one crash, clock to 2 | `TypeOK`, `ChecksumSound`, `TempPrivate`, `ReaderStable`, refinement of `ServedDB` |
| `curator_live` (35,183) | one process that keeps loading, deletes, one crash | `Recovery` |
| `curator_invalid` | one process, clock to 2 | finds an Update that skips an invalid database |
| `matches_all` | two collections, seven matches of one advisory on two packages | `IndexesAgree`, `DetailsKept`, `DirectStays` |
| `scan_all` | a library, the package that owns its files, eight rule sets, two VEX formats, contradicting statements | `Conserved`, `NegativesRespected`, `RulesHonoured`, `VexHonoured`, `PartialNotReported` |
| `build_all` | ten entries of five providers, batch sizes 1, 2, 3 and 7 | `ForeignKeys`, `StoredOnce`, `AmendmentsReach` (`EOLApplied`, `HeldSeverity`), `GoKept` |
| `version_all` (372,722) | texts of fourteen formats, three of which ask, three epoch strategies | `SameQuestion`, `SatisfiedMeans`, `ComparatorsSound` (`CompareAntisymmetric`, `CompareTransitive`, `EpochSupplied`, `JvmSpellings`) |
| `search_all` (37,954) | a package for every kind of matcher, every database of up to four records of its scenario | `DenialsHonoured` (`NegativesReach`, `DenialsHandedOn`, `SecDBDecides`, `HiddenNotReported`), `DisclosuresKept`, `FixesRight` (`FixesUsable`, `AlmaFixes`), `RowsOfTheDistro` |
| `transform_all` (13,900) | records of ten feeds, versions 0 to 5, rows of up to two distributions | `RangesExact` (`OSVExact`, `GoCustomWithin`, `FixesAgree`), `HostsServed` (`HostsReached`, `MinorsServed`, `EOLLands`), `NVDExact` (`NVDComplete`, `NVDSound`), `VEXExact` (`CSAFKept`, `VEXDeniesOnly`), `BuiltInOneOrder` |
| `cli_all` (126,144) | 1091 command lines | `EndsClean` (`ReportDelivered`, `NothingOnFailure`, `NothingUnhandled`, `StoreReleased`), `PackagesRight` (`OwnersAnswer`, `DistroAgreed`, `ChannelsAllowed`), `ReportsComplete` (`TableComplete`, `FormatsAgree`, `ExplainComplete`), `Terminates` |
| `store_all` (956,337) | five pools of entries | `StoresFaithful` (`RecordsFaithful`, `WritesAccepted`, `OneRun`, `DecorationsRead`, `AliasesFound`, `NewOnesFound`), `CompleteInputs`, `DiffExact` (`ChangeReported`, `UnchangedSilent`, `DirectionRight`, `VulnChangeReported`, `DecorationsReported`), `SearchesExact` (`SearchExact`, `VulnSearchExact`, `SearchDecorated`) |

### Bounds

*Curator.* Three directories are an installed one, a temp directory and one that is left behind; with
two processes the third is the other temp directory, and a process that finds none takes the error
path of `MkdirTemp`. Every race in the list of hazards needs two processes; a third would only repeat
one of the two roles (remover, installer). A clock of four instants has a build that is young, one
that is too old, a check that is too recent and one that is old enough, with the limits at 1. Two
properties are about a process working alone. With two of them `UpdateNeverDowngrades` is false and
cannot be expected: another process may import an older database in between, and no lock prevents it.

*Build.* Builds are made from an input in which every kind of entry, row and alias occurs, and batch
sizes of 1 to 3 fill both buffers at every place of an entry while 7 flushes only in `Close`.

*Versions.* Texts have up to six tokens, as every rule of the comparators looks at one token and its
neighbours or at what is left when the other text ends; each format has texts for each of its rules,
and all pairs and triples of them are compared.

*Search.* `MaxHandles` is 4: a disclosure, a denial or a fix of it, a second advisory with the same
identifier, and a record of the upstream package or of a channel. Each scenario has the records its
matcher tells apart, and every subset of them is a database.

*Transformers.* `MaxVersion` is 5, so that two windows with a gap between them fit; `MaxDistros` is 2,
as one distribution's rows do not decide about another's except through aliases, which need two. The CSAF
advisories have four platforms, two of which share a CPE and one of which has none.

*Command line.* Up to three outputs (two of which may share a file), `MaxSBOMEntries` SBOMs in an
archive (2: the conflict is between two), versions of `VersionLength` characters in a column of
`MaxVersionFieldLength`, so that the column is cut after the second.

*Stores.* `MaxWrites` entries per database: 4 where rows share keys (the store pool), 3 before a search, 2 in each of
two databases that are compared, 1 where the subject is the resolution of the arguments. There `MaxRuns` is 2, since what a killed run left is
met by the one after it, and a database may be given twice; elsewhere a diff runs once. `EPSSThreshold` is 1, with
scores and percentiles that move by less and by more.

### Fairness

`curator_live` uses weak fairness of the steps a running process takes by itself, and strong fairness
of starting another command, of reaching the listing and of the steps that write or move files (`RenameOK`
included, as a rename may fail at any time). The code
justifies the former as nothing in it waits for another process. The latter say that users go on
running grype and that neither the network nor the disk fails for ever; without them no program could
recover. Crashes are bounded by `MaxCrashes`.

`RootCommand` has weak fairness of the main goroutine, of each of the three goroutines and of the
event loop, of the program of the interface (`Update`, `Quit`) and of the end of the teardown. Go schedules every runnable goroutine, and the calls the goroutines make return (downloads
and catalogues have no further wait in grype's own code). Interrupts have none.

## Findings

`curator_invalid`. `Update` looks at the age of the installed database and not at its digest. One that
`Status` rejects (a process killed inside `RemoveAll` leaves a database without `import.json`) is kept
until the check interval has passed, although the comment says an invalid database is updated even when
no check is allowed.

### Where code and comments disagree

Two more comments say what the code does not do. The properties make no claim on these cases, and their
comments say so.

* *A constraint without an epoch.* "If the constraint (other) is missing an epoch, it is always treated as 0 per
  RPM specification" (`rpm_version.go:66-67`), and the test at `rpm_version_test.go:265-269` is commented
  "constraint gets epoch 0". `compare` uses epochs only when both versions have one, so "1:2-3" against "< 2-4" is
  less, where with epoch 0 it would not be. `EpochSupplied` is about the other cases (`EpochAgreed`).
* *A denial of the package itself.* "A not-affected handle SUPPRESSES an affected match for the same package+OS"
  (`os/transform.go:81`). The standard rpm search uses denials only to filter matches of the packages whose
  files the rpm owns (`rpm/matcher.go:271-289`, `DenialsHandedOn`) and reports the rpm itself; the searches of
  RHEL EUS and Ubuntu ESM never ask for denials. `NegativesReach` is about the other searches.

### Observations

What follows was met while modelling. The models do what the code does here, and the properties that
would say otherwise have the exception in their statement.

Curator: rehydration in place writes to a file that readers of other processes opened as immutable
(`ReaderStable` excludes it through `tainted`). `Import` removes its temp directory when activation
fails although the comment above says it is kept.

Pipeline and collection:

* A cancelled context ends the search with an error that is not fatal: everything found is dropped and
  the scan succeeds without matches (`vulnerability_matcher.go:141`, `:222`). `PartialNotReported` says
  that this is all that can happen, a part of the findings is never reported as the whole.
* `HasConditions` returns the opposite of its name (`match/ignore.go:167`), so the package conditions of
  VEX rules are never looked at.
* The CSAF processor accepts a rule before it looks at its justification. With contradicting statuses
  one finding can be reported and ignored at once (`csaf.go:105`).
* The filter that a denial makes is looked up by the package's name, and a name with characters of a
  regular expression is compiled as one (`ignore.go:266-291`), so that "c++" does not match itself. The
  denials of such a package are not applied to matches found under that name (hence `PlainNames`).
* Case B2 of `addOrMerge` cannot succeed, as `Match.Merge` refuses matches whose full fingerprints
  differ, so an indirect match that comes after the direct one stays beside it.

Versions:

* `getComparator` caches what a constructor returned beside an error (`version.go:85`). The second
  question asked of such a version is answered as if it were empty, or panics. The loops over fixes
  in the RHEL EUS and Ubuntu ESM code ask in this way.
* The rpm comparison is no order when segments are zero ("1" equals "1.0", which is after "1.a", which
  is after "1") or when only some versions have an epoch, hence the conditions of `CompareTransitive`.
  A Portage version without a digit makes the comparator panic.
* The rpm matcher puts "0:" in front of a version without an epoch before it asks whether the version is "unknown",
  so an unknown one is compared as a version.

Build and transformers:

* Nothing makes NVD the first provider, on which filling in severities depends (`writer.go`), so only
  the entries held until `Close` are sure to get one (`HeldSeverity`).
* When a build fails, the goroutine that feeds the openers stays blocked on its channel
  (`db/build.go:120`).
* Ranges of a record are compared by all pairs (`internal/sort.go:41`), so two handles with several
  ranges each may both come before the other, although the comment at line 25 speaks of a total order
  (hence "at most one range" in `BuiltInOneOrder`).
* An open window of an OSV record is dropped when another follows (`osv/helpers.go:74`), and two bounds
  of an apk window make a text that does not parse. `Expressible` names what is left.
* A group of distribution entries with one that has a fix and one that has none loses the latter.
  Unaffected handles drop module and architecture (`os/transform.go:273`).
* Merging NVD candidates of one product makes one without a platform depend on the platform of another
  (`node.go:149-187`); AND nodes are dropped (`node.go:76`). `mergeable` and `pure` name what is left.

Search and matchers:

* The metadata found for a vulnerability is kept under its name alone while one search is processed
  (`vulnerability_provider.go:600`), so records of two providers with the same name share the first
  one's. Metadata is not part of the models.
* Unaffected Root.io records are searched without qualifiers, other searches with (`distro.go:68`).
* With RHEL EUS, when no fix can be installed the state becomes not-fixed while the versions of the
  other release stay listed (`rhel_eus.go:335-350`).
* A fix that cannot be compared counts as reached (`version_constraint.go:74-80`), and one range that
  cannot be parsed drops the whole record (`vulnerability.go:86-89`).
* Failures of the language, CPE, end-of-life and AlmaLinux upstream searches are only logged (`common.go:19`,
  `dpkg/matcher.go:79`, `almalinux.go:94`).

Command line:

* When the document cannot be made, its error replaces the one of the severity threshold, so the exit
  code is 1 and not 2 (`root.go:260-263`).
* The store is not closed when cataloguing fails after it was opened (`root.go:204-208`; the exception
  in `StoreReleased`).
* Output files are truncated before anything else is done (`writer.go:125-166`), and two outputs without
  a file of their own overwrite each other in `--file`.
* After a key at the very end the exit code can be 0 while the report is dropped (`ui.go:139-145`).
* Of a package that two SBOMs of a zarf archive list, the first one's distribution is kept
  (`zarf_provider.go:203-218`). An excluded owner still removes what it owns when it has a distribution
  of its own (`provider.go:254-265`).
* The order of two findings that differ only in their namespace is not determined
  (`match/sort.go:18`, `models/sort.go:138`), and the suggested fix depends on the order of the list when
  one of the fixes cannot be parsed (`models/match.go:116-143`).

Stores, search and difference of databases:

* A search that meets its limit returns no rows of that query (`affected_package_store.go:38`), although the
  flag speaks of limiting the number of results; exactly as many rows as the limit are an error too
  (`package_store.go:279`).
* `--ecosystem` does not restrict CPE results when a package is named; `--distro` alone is refused.
* When the first argument of a diff is the newer database, only the labels are swapped
  (`differ.go:82-85`), so `DirectionRight` is about the other order.
* A place with affected and unaffected records is reported as changed when it is not
  (`package_tables.go:131-132`); additional ranges for a known place are not reported.
* A failed resolution of one argument deletes the directory given for it (`differ.go:89-92`). Two arguments that
  name the same archive share its directory: one goroutine may truncate the file the other hydrates, or take away
  the directory it writes to. What is then reported was written whole, except for torn pages (`CompleteInputs`).
* When a database cannot be opened or attached, the clean-ups of both arguments are called; a directory or an
  archive has none, so the call panics (`differ.go:46-49`). After a diff that succeeds no clean-up is called, and
  downloaded databases stay (`db_resolver.go:29`).

## Proofs

The proofs hold for all values of the constants that satisfy the named assumptions, which TLC evaluates
on the instances of the runs:

* `CuratorAssumption`, `MatchesAssumption`, `BuildAssumption`: the constants have their types.
* `ScanAssumption`: a matcher returns matches of the package it was called with; the exclusions of the
  pipeline ask for no match type (`match/explicit_ignores.go:65` sets none); an OpenVEX document set says
  one thing of a product (CSAF ones may contradict themselves).
* `FeedsAssumption`: entries are shaped as the transformers make them and have keys of their own, and the
  end-of-life dates of an operating system come after the packages that name it. The comment at
  `v6/build/processors.go:59` asks for this ("EOL processor must be last"); records are read in the order
  of the providers given to the build, so it is up to the caller (`internal/dbtest/workspace.go:54` sorts
  them so).
* `RequestsAssumption`: a command line has at least one output (the default is one, `parseOutputFlags`), and a
  catalogue is a list of packages; what the database knows is finite; `None` is no exit code and no outcome of a worker or teardown.
* `PoolsAssumption`: what the transformers hand to the writer. Every vulnerability, provider and alias has a
  name, and the ids of providers are written one way. A vulnerability is not modified before it is published,
  and an EPSS date is set. An operating system has a number or a label, never both
  (`transformers/os/transform.go:598`), and only numbered ones have a channel; the name decides the release
  id, and with the numbers the codename (`codename.LookupOS`). That the labels of one name do not differ is a
  fact of the feeds ("unstable" of Debian, "edge" of Alpine, "rolling"). It is needed because the label is not
  among the columns two databases are joined on.
* `OneProcess` and `PlainNames` are hypotheses of single theorems, see below.

Lists and recursive functions need induction over data. The proofs do it in first-order logic: lemma
`Least` of `Induction` gives the least number at which a statement would fail, and the statement at the
number before it is contradicted. `Upward` is the same argument for a set of numbers closed under the
successor, and `Recursion` says that a step function has one function that iterates it, which is what makes
the recursive functions of the models (`related`, `Chosen`) mean what their equations say.

**The installed database.** `ChecksumSound` is not inductive: that a rename installs a database with its
own digest depends on what the temp directory held at each control state before, and on nobody else
writing there. `IInv` adds `ControlOK` (which directory each control state works in), `BuildOK` (how far
the database in a temp directory has come) and `WritersApart` (no other process has its `import.json`
open). `ChecksumCorrect`, `ReaderCorrect` and `TempCorrect` follow. The argument for the unlink races is
that RemoveAll only takes files away from an inode that was installed, and that an inode is never used
again while anyone refers to it.

`CacheImplementsServedDB` is the refinement: a step of any process maps to installing a complete published
build, to taking away the one that is served, or to a stutter. Lemma `Effects` says once, for every step,
what it may do to the directory at the path and to the path. A step changes the database or its
`import.json` but never both, so that no step can turn one complete database into another in place.
`NeverDowngrades` and `StampCorrect` have the hypothesis `OneProcess` (they are false without it, see
Bounds). Their invariant `AloneInv` says of each control state what is still true of the installed
database since `Update` read it: that it is the build read, up to the comparison with the listing, and that
the candidate is not older than either from then on.

**Collections and scans.** `Add` is analysed once (`AddOrMergeCases` in `MatchSetProofs`: stored anew,
merged into the match with the same fingerprint, or replacing an indirect match), and each case is shown to
keep the indexes, the details and the direct matches. `JobOK` and `GivenOK` carry this through the loops of
`Merge` and `Diff`. `NoDetailInvented` is the converse of `NoDetailLost` and has no run of its own.

`ScanProofs` follows matches through the stages of a scan. `ScanInv` says which lists each stage may have
filled (`StagesOK`), that a search cut short leaves nothing (`NothingPartial`), and that every match goes
back to matches a matcher returned for the same package (`Origins`); this relation has to survive
renaming to the CVE, absorption into other matches, and augmentation by VEX. On it rest `NegativesInv`,
`RulesInv`, `VexInv` and `ConservedInv`, one per property:

* `DenialsRespected`: filters collected so far cover all denials, and nothing kept after the search is
  denied. The index of filters must agree with the plain evaluation, which it does only when a package's
  name matches itself as the name of a rule (`PlainNames`, a hypothesis; see Observations).
* `RulesAreHonoured`: rules are applied before and after normalisation, and matches are merged between.
  Merging can change the type of a match, so the argument separates rules that ask for a type along with
  other conditions from the `Stable` ones.
* `StatementsAreHonoured`: for either outcome of the two lookups among contradicting statements.
* `NothingLost`: each detail returned is on a kept or an ignored match, or an exclusion or filter covers it.

**The build.** `ForeignKeys` (`DBBuildProofs`) needs that the vulnerability of every buffered row is stored
or buffered (`ParentsComing`), that children are flushed only when no parent is buffered (a part of
`ControlOK`, on the stack `then`), and that an ID once assigned is the position of that vulnerability in
the table (`IDsOK`).

The rest is about what a build holds when it is done. `StoredOnce` says nothing of a build in
progress, so `ContentInv` has to say where every entry is: not read, held by the merge, being written,
or complete. For one that was begun, `Progress` cuts its rows in three, those that were run and are in
the table in their order (`Placed`), those next to each other in the buffer (`InBuffer`), and those to
come. `Single` says the same of its vulnerability. The entries held are existentially quantified in
`ContentInv`, since `Close` replaces them by what `reconcile` returns; `WhileClosing` says that
everything in that list is queued or taken. For `GoKept` the functions of the merge are analysed by
themselves: patching only widens what a row says, and a package is pruned only when one of the targets
has a row of the same module, which was patched with it.

`AmendInv` carries `AmendmentsReach`. The severity cache is sound and has every NVD record that was
written (`CacheSound`, `CacheFull`); what is held is written only after all were read. For end-of-life
dates, `DateSettled` says that a date is still to be read, to be buffered or to be run, or was applied,
or its system is not stored and no package to come names it (`NoneComing`). The last case must be
stable, which is where the order of providers is used.

**A run of grype.** `EndsClean` is about the end of a run, and what is printed then was decided in many steps by
five actors. `RunInv` follows it. `ReportsTravel` says that the reports for the terminal, those kept by the
interface, the one in the hand of its program and those still in the queue, are those of the outputs written so
far, in their order. It holds through publishing, handling and updating; an interrupt breaks it, hence its
condition. `ExitLast` is why nothing is torn down too early: the exit event is the last one of the queue and
only comes from a main goroutine that has returned, unless the user interrupts. `TornDown` is why nothing is
lost late: a teardown that was not forced begins with an empty queue, and prints only when the hand is empty as well. `FilesHold` says what each path holds at each stage:
the earlier report, nothing, or its own report when no other output shares the path. `ErrorsTell` relates the
errors to how far the run came, so that the exit code can be read off them, and `StoreHeld` says who may hold the
database open. The theorem is for any number of outputs, formats, packages and events.

**Stores.** `DiffInv` has the tables of the database being written (`StoreInv`), of the finished ones (`BuiltInv`)
and the command (`CmdInv`). The tables are lists that only grow (`Grown`), so a reference that named a row goes
on naming it, and what a reader finds under it does not change (`ReadsSame`, `HandlesStay`). Each
operation of `VulnStore` is analysed once (`addVulnIs`, `addOsIs`, `addCPEsIs`, `addPackagesWithOSIs`, ...): which
rows it adds, that its ids name the rows they should, and that it keeps all other tables. The text keys of
the caches are coarser than the rows, so the proof needs that equal keys mean equal places. Lemma `SystemsTold`
derives this for operating systems: the cache key, the unique index and the columns of the comparison tell the
same ones apart. `relatedIs` is the induction over the records of an entry, with the error that stops it.
`Faithful` then says that the records, identities and aliases in the tables are those of the log, from
which `StoresGiveBackWhatWasWritten` follows; when a write was refused, `WritesAccepted` has its cause.

**Differences.** `ReportsOfCompleteInputs` rests on `DirInv`, a part of `CmdInv`. That an argument is ready does
not mean that its directory is whole, since the other goroutine may have truncated or removed it. `ReadyInv` says
that the other one then still has to write and hydrate it, or has failed; `MixedInv` that a file in motion has a
writer; so that both directories are whole when both goroutines are done and neither failed. `TornInv` is the
first run on two directories. For `DifferencesAreExact`, the views of the comparison are
analysed key by key (`Under(T, k)` is what a table has under one key): lemmas `ViewsReport`, `ViewsSilent` and
`ViewsDirect` say when a key is in one of them, for any two tables. `SamePlace` translates between the keys,
which are columns of the joined rows, and the places of the property, which are the ids' meanings; the two
databases give the same row different ids. Vulnerabilities and decorations are compared in the same way
(`VulnsReport`, `DecorationsReport`).

The theorems are about the specification with the search commands. These change nothing but their answer (lemma
`SearchesOnlyRead`), so the invariant of the one without them is enough.

### What is only model-checked

* `Recovery` and `Terminates`: liveness under fairness is outside the prover.
* `ComparatorsSound` and the other properties of `Version`: comparisons recurse over two texts at once with a case
  for each format, and the modules declare recursive operators.
* The properties of `Matchers` and `Transform`, and `PackagesRight` and `ReportsComplete`: they compare the result
  of nested folds, sorts and library operators (`SelectSeq`, `FoldSeq`) with a definition by sets, and hold for
  the records the constants list; a statement for all inputs would need an induction for each fold.
* `SearchesExact`: it is a statement about the pools. Entries with the same key share the row of the first, so
  with arbitrary pools a search by date may miss what a later entry said.

## Not modelled

* The archive of a database and its metadata: one sequential pass of file I/O.
* Processors and unmarshalling: decoding of JSON into Go structures, without state of its own. That a
  record is supported or not is an input of `DBBuild`.
* The provider workspace (`grype/db/provider`): verification of a provider's state against its files.
* Version 5 (`grype/db/v5`): the earlier schema, kept to build old databases; this grype does not read
  it. Its writer fills in severities from the store and not from the batch it holds
  (`v5/build/writer.go:231`), so the result depends on where batches end.
* The digest of a blob (xxh64) is taken to tell texts apart; the SQL texts, the debug templates of the
  differ and the drawing of progress are left out.
* Downloads, archives and HTTP (wrappers of libraries), data types, test support.
* The text of constraints, version sets, the parsing of VEX documents and the product identifiers
  derived from an image.

## Plan

1. Proofs: `PackagesRight`, along the recursive functions of `Provide`; the set algebra of `ResultSet`, on which
   `DenialsHonoured` rests.
2. The provider workspace, and version 5 where it differs from version 6.
3. That the rpm and gem comparisons change their sign for all texts when the two are swapped.
