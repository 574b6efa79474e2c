------------------------------ MODULE Packages ------------------------------
(***************************************************************************)
(* What a scan takes from a package: the source packages it was built      *)
(* from (grype/pkg/upstream_package.go), the names it is searched under    *)
(* (grype/db/v6/name, grype/internal/rootio), the qualifiers a record may  *)
(* put on it (grype/pkg/qualifier), and which packages are dropped because *)
(* another one owns their files (grype/pkg/package.go).                    *)
(*                                                                         *)
(* A package: [type, name, version, epoch, arch, module, distro, cpes,     *)
(* ups, rootTag, symbols].  A name is the sequence of its parts, so that   *)
(* <<"rootio", "ssl">> stands for rootio-ssl and its spellings in other    *)
(* ecosystems.  A version is a number; UnknownVersion is the text          *)
(* "unknown".  meta is the kind of metadata: None, "rpm", "apk" or "go".   *)
(***************************************************************************)
EXTENDS Naturals, Sequences, FiniteSets

CONSTANTS None, UnknownVersion

(***************************************************************************)
(* Upstreams                                                               *)
(***************************************************************************)

\* One package per named upstream: its name, its version if it has one, the
\* CPEs rewritten to both, no upstreams of its own. Only rpm metadata records
\* that this is a source package.
UpstreamPackage(p, u) ==
    [p EXCEPT !.name = u.name,
              !.version = IF u.version = None THEN @ ELSE u.version,
              !.ups = {},
              !.cpes = {[c EXCEPT !.product = IF @ = p.name THEN u.name ELSE @,
                                  !.version = IF u.version = None THEN @ ELSE u.version] : c \in @},
              !.arch = IF p.meta = "rpm" THEN "src" ELSE @]

UpstreamPackages(p) == {UpstreamPackage(p, u) : u \in p.ups}

\* dataFromPkg: what the metadata of a catalogued package says about its
\* source: a dpkg source may have a version of its own, an apk origin has
\* none, a source rpm is its own package when the names are equal.
dataFromPkg(p, source) ==
    CASE source = None     -> {}
      [] p.type = "deb"    -> {[name |-> source.name, version |-> source.version]}
      [] p.type = "apk"    -> {[name |-> source.name, version |-> None]}
      [] p.type = "rpm"    -> IF source.name = p.name THEN {} ELSE {[name |-> source.name, version |-> source.version]}
      [] OTHER             -> {}

(***************************************************************************)
(* Names                                                                   *)
(***************************************************************************)

hasPrefix(name) == Len(name) > 1 /\ Head(name) = "rootio"
StripPrefix(name) == IF hasPrefix(name) THEN Tail(name) ELSE name
AddPrefix(name) == IF hasPrefix(name) THEN name ELSE <<"rootio">> \o name

\* rootTag: the version has the token Root.io adds (apk, deb, npm and python).
IsPackage(p) ==
    \/ hasPrefix(p.name)
    \/ p.rootTag /\ p.type \in {"apk", "deb", "npm", "python"}

PackageNames(p) ==
    IF IsPackage(p) THEN {p.name, StripPrefix(p.name), AddPrefix(p.name)} ELSE {p.name}

(***************************************************************************)
(* Qualifiers                                                              *)
(***************************************************************************)

\* The qualifiers of a record: [arch, root, module, platform, imports]; None,
\* FALSE or {} is a qualifier the record does not have.
NoQualifiers == [arch |-> None, root |-> FALSE, module |-> None, platform |-> None, imports |-> {}]

canonicalArch(a) == IF a = "x86_64" THEN "amd64" ELSE IF a = "aarch64" THEN "arm64" ELSE a

packageArch(p) == IF p.meta \in {"rpm", "apk"} THEN p.arch ELSE None

concreteMatch(pkgArch, arch) ==
    CASE arch = "src"                      -> TRUE
      [] arch = "binary-no-arch-specified" -> pkgArch # "src"
      [] OTHER -> canonicalArch(pkgArch) = canonicalArch(arch)

\* A disclosure without a proof to the contrary applies.
architectureQualifier(arch, p) ==
    \/ packageArch(p) = None \/ arch = None
    \/ {packageArch(p), arch} \cap {"noarch", "all"} # {}
    \/ concreteMatch(packageArch(p), arch)

\* An unaffected record applies only to an architecture it names.
unaffectedArchitectureQualifier(arch, p) ==
    \/ arch = None
    \/ packageArch(p) # None /\ concreteMatch(packageArch(p), arch)

\* The label of a package's module is a sequence of parts, <<>> the empty one, and
\* None no label. A record names the beginning of a label; an empty one names
\* only the empty label.
rpmModularity(module, p) ==
    \/ p.meta = None
    \/ /\ p.meta = "rpm"
       /\ \/ p.module = None
          \/ p.distro # None /\ p.distro.type = "ol" /\ p.module = <<>>
          \/ IF module = <<>> THEN p.module = <<>>
             ELSE Len(module) <= Len(p.module) /\ SubSeq(p.module, 1, Len(module)) = module

platformCPE(platform, p) ==
    /\ platform # "wordpress"
    /\ \/ p.distro = None
       \/ platform \notin {"windows", "ubuntu", "debian"}
       \/ p.distro.type = platform

\* Imports and symbols are pairs <<path, symbol>>: an import of the whole package
\* has the symbol None, as has a path of the binary without symbols. An advisory
\* with imports applies when the binary has one of them, or when nothing is known
\* of the binary's symbols.
gosymbolsQualifier(imports, p) ==
    \/ imports = {} \/ p.meta # "go" \/ p.symbols = {}
    \/ \E i \in imports, s \in p.symbols : i[1] = s[1] /\ i[2] \in {None, s[2]}

\* OnlyQualifiedPackages
OnlyQualifiedPackages(p, v) ==
    /\ IF v.unaffected THEN unaffectedArchitectureQualifier(v.quals.arch, p)
                       ELSE architectureQualifier(v.quals.arch, p)
    /\ v.quals.root => IsPackage(p)
    /\ v.quals.module # None => rpmModularity(v.quals.module, p)
    /\ v.quals.platform # None => platformCPE(v.quals.platform, p)
    /\ gosymbolsQualifier(v.quals.imports, p)

(***************************************************************************)
(* Packages owned by other packages                                        *)
(***************************************************************************)

comprehensiveDistros == {"arch", "azurelinux", "debian", "mariner", "rhel", "ubuntu"}

distroFeedIsComprehensive(d) ==
    d.type # "amzn" /\ ({d.type} \cup d.like) \cap comprehensiveDistros # {}

isOSPackage(p) == p.type \in {"deb", "rpm", "portage", "alpm", "apk"}

\* prefixes: the pairs of versions one of which begins with the other.
excludePackage(p, parent, prefixes) ==
    /\ parent.distro # None
    /\ {p.version, parent.version} \in prefixes
    /\ \/ distroFeedIsComprehensive(parent.distro) /\ isOSPackage(parent) /\ ~isOSPackage(p)
       \/ p.type = "binary"
=============================================================================
