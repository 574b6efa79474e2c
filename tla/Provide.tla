------------------------------- MODULE Provide ------------------------------
(***************************************************************************)
(* The packages of a scan (grype/pkg): the user's input is offered to the  *)
(* providers in turn, the catalogue of the one that takes it becomes       *)
(* packages with their owners and their distribution, and packages another *)
(* package answers for are dropped.                                        *)
(*                                                                         *)
(* A catalogue (SBOM): [native, pkgs, overlaps, release]; native is syft's *)
(* own format, pkgs a sequence of [id, type, name, version, purl, locs,    *)
(* owned], overlaps the pairs <<owner, owned>> of ids, release the         *)
(* os-release.  purl is the distribution named by the package's URL.  A    *)
(* location is <<real path, access path>>.                                 *)
(*                                                                         *)
(* A distribution: [type, version, codename, channels, like]; a version is *)
(* a number, None, or NotSemver, which no constraint can be evaluated on.  *)
(*                                                                         *)
(* Packages are pointers in the code: one is changed after others refer to *)
(* it.  A provided catalogue is [heap, list]: the packages by reference    *)
(* <<catalogue number, id>>, and the references that are still in it.      *)
(***************************************************************************)
EXTENDS Packages, SequencesExt

CONSTANTS NotSemver, Garbage, VersionPrefixes, MaxSBOMEntries

\* The outcome of a provider: it does not take the input, it fails, or it
\* provides packages in a context.
DoesNotProvide == [kind |-> "none"]
Failed == [kind |-> "error"]
Provided(cat, distro, undetected) ==
    [kind |-> "ok", heap |-> cat.heap, list |-> cat.list, distro |-> distro, undetected |-> undetected]

(***************************************************************************)
(* Fix channels                                                            *)
(***************************************************************************)

\* "error" when the version cannot be compared.
Satisfied(channel, version) ==
    IF channel.min = None \/ version = None THEN "yes"
    ELSE IF version = NotSemver THEN "error"
    ELSE IF version >= channel.min THEN "yes" ELSE "no"

\* The channels a release starts with: a version outside the channel's range
\* falls through to the same answer as one inside it.
applyChannels(release, version, channels) ==
    {c.name : c \in {c \in channels :
        /\ release.type \in c.ids
        /\ Satisfied(c, version) # "error"
        /\ \/ c.apply = "always"
           \/ c.apply = "auto" /\ (release.extended \/ c.name \in release.suffix)}}

applyChannelsToDistro(d, channels) ==
    [d EXCEPT !.channels =
        {c.name : c \in {c \in channels :
            /\ Satisfied(c, d.version) \in {"yes", "error"}
            /\ c.apply = "always" \/ (c.apply = "auto" /\ c.name \in d.channels)}}]

buildChannelIndex(channels, type) == {c \in channels : type \in c.ids}

\* Mutant: what the release itself suggests is not checked again.
keepChannels(channels, d) == d

getDistroChannelApplier(channels, d) ==
    IF d = None \/ buildChannelIndex(channels, d.type) = {} THEN d
    ELSE applyChannelsToDistro(d, buildChannelIndex(channels, d.type))

(***************************************************************************)
(* Distributions                                                           *)
(***************************************************************************)

\* A release whose type is not recognised gives no distribution. The first of
\* VERSION_ID and VERSION that is a version is taken; if none is, VERSION_ID is
\* kept as it is written.
NewFromRelease(release, channels) ==
    LET semver   == SelectSeq(<<release.versionID, release.version>>, LAMBDA v : v \notin {None, NotSemver})
        selected == IF semver = <<>> THEN None ELSE Head(semver)
    IN  IF release.type = None THEN None
        ELSE [type     |-> release.type,
              version  |-> IF selected # None THEN selected ELSE release.versionID,
              codename |-> release.codename,
              like     |-> release.like,
              channels |-> applyChannels(release, selected, channels)]

FromRelease(release, channels) == IF release = None THEN None ELSE NewFromRelease(release, channels)

distroFromSBOM(s, cfg) ==
    LET d == getDistroChannelApplier(cfg.channels, FromRelease(s.release, cfg.channels))
    IN  IF cfg.override # None THEN [distro |-> cfg.override, undetected |-> FALSE]
        ELSE [distro |-> d, undetected |-> s.release # None /\ d = None]

(***************************************************************************)
(* Packages of a catalogue                                                 *)
(***************************************************************************)

\* New: the enhancers run in order, the override before the package URL.
New(p, cfg, purlEnhancers, owners) ==
    [id |-> p.id, type |-> p.type, name |-> p.name, version |-> p.version, locs |-> p.locs, owners |-> owners, sources |-> {},
     distro |-> IF cfg.override # None THEN cfg.override
                ELSE IF purlEnhancers /\ p.purl # None THEN getDistroChannelApplier(cfg.channels, p.purl)
                ELSE None]

\* The owners of a package: by the relationships of the catalogue, or, when no
\* relationship between its packages is an overlap, by the files they list.
Owners(s, p) ==
    LET known == {o \in s.overlaps : {o[1], o[2]} \subseteq {q.id : q \in Range(s.pkgs)}}
    IN  IF known # {} THEN {o[1] : o \in {o \in known : o[2] = p.id}}
        ELSE {q.id : q \in {q \in Range(s.pkgs) : q.id # p.id /\ q.owned \cap {l[1] : l \in p.locs} # {}}}

FromPackages(k, s, cfg, purlEnhancers) ==
    LET refs == {<<k, p.id>> : p \in Range(s.pkgs)}
        at(r) == CHOOSE p \in Range(s.pkgs) : p.id = r[2]
    IN  [heap |-> [r \in refs |-> New(at(r), cfg, purlEnhancers, {<<k, o>> : o \in Owners(s, at(r))})],
         list |-> [i \in DOMAIN s.pkgs |-> <<k, s.pkgs[i].id>>]]

(***************************************************************************)
(* The providers. An input is [prefix, content, files]: content is a       *)
(* catalogue, Garbage that a decoder rejects, or None if no decoder        *)
(* recognises it; an archive has several files.                            *)
(***************************************************************************)

IsSBOM(content) == content \notin {Garbage, None}

purlProvider(in, cfg) ==
    IF in.prefix # "pkg:" THEN DoesNotProvide
    ELSE IF ~IsSBOM(in.content) THEN Failed
    ELSE Provided(FromPackages(1, in.content, cfg, TRUE), None, FALSE)

cpeProvider(in, cfg) ==
    IF in.prefix # "cpe:" THEN DoesNotProvide
    ELSE IF ~IsSBOM(in.content) THEN Failed
    ELSE Provided(FromPackages(1, in.content, cfg, FALSE), None, FALSE)

\* getSBOMReader: standard input, a list or a document named as such, or a
\* text file; anything else is for another provider.
syftSBOMProvider(in, cfg) ==
    IF in.prefix \notin {"stdin", "purl:", "cpes:", "sbom:", "file"} THEN DoesNotProvide
    ELSE IF in.content = None THEN DoesNotProvide
    ELSE IF in.content = Garbage THEN Failed
    ELSE LET d == distroFromSBOM(in.content, cfg)
         IN  Provided(FromPackages(1, in.content, cfg, ~in.content.native), d.distro, d.undetected)

\* A package of a later file with the id of an earlier one only adds its source.
mergePackagesFromSBOM(all, k, cat, d) ==
    LET filled == [r \in DOMAIN cat.heap |->
                      [cat.heap[r] EXCEPT !.distro = IF @ = None THEN d ELSE @, !.sources = {k}]]
        seen   == {r[2] : r \in Range(all.list)}
    IN  [heap |-> [r \in DOMAIN all.heap \cup DOMAIN filled |->
                      IF r \in DOMAIN filled THEN filled[r]
                      ELSE IF r \in Range(all.list) /\ <<k, r[2]>> \in DOMAIN filled
                           THEN [all.heap[r] EXCEPT !.sources = @ \cup {k}]
                           ELSE all.heap[r]],
         list |-> all.list \o SelectSeq(cat.list, LAMBDA r : r[2] \notin seen)]

\* Files that cannot be read are skipped; too many of them, or none that can be
\* read, is an error. A file is [tooLarge, content].
readSBOMsFromTar(files, cfg) ==
    LET readable == {i \in DOMAIN files : ~files[i].tooLarge /\ IsSBOM(files[i].content)}
        merge(all, i) ==
            IF i \notin readable THEN all
            ELSE mergePackagesFromSBOM(all, i, FromPackages(i, files[i].content, cfg, ~files[i].content.native),
                                       distroFromSBOM(files[i].content, cfg).distro)
    IN  IF Len(files) > MaxSBOMEntries \/ readable = {} THEN Failed
        ELSE Provided(FoldLeft(merge, [heap |-> <<>>, list |-> <<>>], [i \in DOMAIN files |-> i]), None, FALSE)

zarfProvider(in, cfg) ==
    IF in.prefix # "zarf:" THEN DoesNotProvide ELSE readSBOMsFromTar(in.files, cfg)

\* Everything else is catalogued by syft, which leaves out the excluded paths.
syftProvider(in, cfg) ==
    IF ~IsSBOM(in.content) THEN Failed
    ELSE LET shown == SelectSeq(in.content.pkgs, LAMBDA p : p.locs = {} \/ \E l \in p.locs : l[1] \notin UNION cfg.exclusions)
             d     == distroFromSBOM(in.content, cfg)
         IN  Provided(FromPackages(1, [in.content EXCEPT !.pkgs = shown], cfg, FALSE), d.distro, d.undetected)

(***************************************************************************)
(* From the input to the packages                                          *)
(***************************************************************************)

\* An exclusion is the set of the paths its pattern matches.
locationMatches(location, exclusion) == location[1] \in exclusion \/ location[2] \in exclusion

\* A package stays when it has no location or one that no exclusion matches.
filterPackageExclusions(r, exclusions) ==
    IF r.kind # "ok" \/ exclusions = {} THEN r
    ELSE [r EXCEPT !.list = SelectSeq(@, LAMBDA ref :
             LET locs == r.heap[ref].locs
             IN  locs = {} \/ \E l \in locs : \A e \in exclusions : ~locationMatches(l, e))]

\* provide: the first provider that takes the input answers.
provide(in, cfg) ==
    LET chain == <<purlProvider(in, cfg), cpeProvider(in, cfg),
                   filterPackageExclusions(syftSBOMProvider(in, cfg), cfg.exclusions),
                   filterPackageExclusions(zarfProvider(in, cfg), cfg.exclusions),
                   syftProvider(in, cfg)>>
    IN  Head(SelectSeq(chain, LAMBDA r : r.kind # "none"))

\* One distribution for the whole scan, when the packages agree on it.
setContextDistro(r) ==
    LET named == SelectSeq(r.list, LAMBDA ref : r.heap[ref].distro # None)
        alike(d, e) == d.type = e.type /\ d.version = e.version /\ d.codename = e.codename
    IN  IF r.distro # None \/ named = <<>> THEN r.distro
        ELSE LET first == r.heap[named[1]].distro
             IN  IF \A ref \in Range(named) : alike(first, r.heap[ref].distro) THEN first ELSE None

removePackagesByOverlap(heap, list) ==
    SelectSeq(list, LAMBDA ref : \A o \in heap[ref].owners : ~excludePackage(heap[ref], heap[o], VersionPrefixes))

\* Provide: the override's own channels are settled first.
ProvidePackages(in, config) ==
    LET cfg == [config EXCEPT !.override = getDistroChannelApplier(config.channels, @)]
        r   == provide(in, cfg)
    IN  IF r.kind # "ok" THEN r
        ELSE LET distro == setContextDistro(r)
                 filled == [ref \in DOMAIN r.heap |->
                               IF ref \in Range(r.list) /\ r.heap[ref].distro = None
                               THEN [r.heap[ref] EXCEPT !.distro = distro] ELSE r.heap[ref]]
             IN  [kind |-> "ok", distro |-> distro, undetected |-> r.undetected,
                  pkgs |-> LET kept == removePackagesByOverlap(filled, r.list)
                           IN  [i \in DOMAIN kept |-> filled[kept[i]]]]
=============================================================================
