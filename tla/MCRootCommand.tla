---------------------------- MODULE MCRootCommand ---------------------------
(***************************************************************************)
(* Small command lines: catalogues of up to three packages, all the ways   *)
(* to find a distribution and its channels, several outputs, and findings  *)
(* about the same vulnerability from several sources.                      *)
(***************************************************************************)
EXTENDS RootCommand

Texts == <<"CVE-1", "CVE-2", "GHSA-1", "gpg", "headers", "kernel-headers", "lib", "ssl", "binary", "deb", "python", "rpm",
           "/a", "/b", "/lib">>
MCRank == [t \in Range(Texts) |-> CHOOSE i \in DOMAIN Texts : Texts[i] = t]
MCPrefixes == {{1}, {2}, {3}, {1, 3}}

Namespace(n, d) == [name |-> n, distro |-> d]
MCNVD == Namespace("nvd:cpe", FALSE)
Debian == Namespace("debian:12", TRUE)
Ubuntu == Namespace("ubuntu:9", TRUE)
GitHub == Namespace("github", FALSE)

(***************************************************************************)
(* What the database knows                                                 *)
(***************************************************************************)
Vuln(id, ns, sev, risk, fixes, related) ==
    [id |-> id, ns |-> ns, sev |-> sev, risk |-> risk, epss |-> <<risk>>, kev |-> 0, fixes |-> fixes,
     state |-> IF fixes = <<>> THEN "not-fixed" ELSE "fixed", cvss |-> {}, related |-> related]
NVDRef == [id |-> "CVE-1", ns |-> MCNVD, cvss |-> {50}]
Entry(name, distro, type, vuln) == [name |-> name, distro |-> distro, type |-> type, vuln |-> vuln]

MCVulns ==
    {Entry("ssl", "debian", "direct", Vuln("CVE-1", Debian, "high", 1, <<2>>, <<NVDRef>>)),
     Entry("ssl", "ubuntu", "indirect", [Vuln("CVE-1", Ubuntu, "low", 1, <<4, 2>>, <<>>) EXCEPT !.state = "wont-fix"]),
     Entry("ssl", None, "cpe", [Vuln("CVE-1", MCNVD, "critical", 2, <<2, 3, 5>>, <<>>) EXCEPT !.cvss = {50}]),
     Entry("gpg", "debian", "direct", Vuln("CVE-1", Debian, "high", 3, <<>>, <<>>)),
     Entry("lib", None, "direct", [Vuln("GHSA-1", GitHub, "medium", 2, <<5, 3, 4>>, <<NVDRef>>) EXCEPT !.kev = 1]),
     Entry("lib", None, "cpe", Vuln("CVE-1", MCNVD, "critical", 2, <<NotSemver, 4, 3>>, <<>>)),
     Entry("kernel-headers", None, "indirect", Vuln("CVE-2", Debian, "negligible", 0, <<>>, <<>>))}

(***************************************************************************)
(* Packages and catalogues                                                 *)
(***************************************************************************)
Distro(type, version) == [type |-> type, version |-> version, codename |-> None, channels |-> {}, like |-> {}]
WithChannel(d, c) == [d EXCEPT !.channels = {c}]
ReleaseOf(type, version, extended) ==
    [type |-> type, versionID |-> version, version |-> None, codename |-> None, like |-> {}, suffix |-> {}, extended |-> extended]

Pkg(id, type, name, version, locs, owned, purl) ==
    [id |-> id, type |-> type, name |-> name, version |-> version, locs |-> locs, owned |-> owned, purl |-> purl]
At(path) == {<<path, path>>}

Owner == Pkg("p1", "deb", "ssl", 1, At("/a"), {"/lib"}, None)
Owned(type, version) == Pkg("p2", type, "lib", version, At("/lib"), {}, None)
Headers == Pkg("p3", "deb", "kernel-headers", 1, {}, {}, None)
Moved == Pkg("p2", "python", "lib", 1, {<<"/lib", "/b">>, <<"/b", "/b">>}, {}, None)

Catalogue(native, pkgs, overlaps, release) == [native |-> native, pkgs |-> pkgs, overlaps |-> overlaps, release |-> release]
Bookworm == ReleaseOf("debian", 1, FALSE)
Sample == Catalogue(TRUE, <<Owner, Owned("python", 3), Headers>>, {}, Bookworm)

Owning ==
    {Catalogue(TRUE, <<Owner, q>>, o, r) : q \in {Owned("python", 3), Owned("python", 2), Owned("binary", 1), Owned("deb", 1), Moved},
                                           o \in {{}, {<<"p1", "p2">>}, {<<"p2", "p1">>}, {<<"p9", "p2">>}},
                                           r \in {Bookworm, ReleaseOf("amzn", 1, FALSE), None}}

Input(prefix, content) == [prefix |-> prefix, content |-> content, files |-> <<>>]
Zarf(entries) == [prefix |-> "zarf:", content |-> None, files |-> entries]
Entries(c) == [tooLarge |-> FALSE, content |-> c]

(***************************************************************************)
(* Settings                                                                *)
(***************************************************************************)
Channel(name, id, apply, min) == [name |-> name, ids |-> {id}, apply |-> apply, min |-> min]
Auto == {Channel("eus", "rhel", "auto", 8), Channel("esm", "ubuntu", "auto", None)}
Config(override, channels, exclusions) == [override |-> override, channels |-> channels, exclusions |-> exclusions]
Plain == Config(None, Auto, {})

Output(format, file) == [format |-> format, file |-> file]
Default ==
    [outputs |-> <<Output("table", None)>>, badDirs |-> {}, onlyFixed |-> FALSE, onlyNotFixed |-> FALSE, kernelHeaders |-> FALSE,
     ignoreStates |-> {}, checkUpdate |-> FALSE, vexDocs |-> {}, vexAdd |-> {}, failOn |-> None, sortBy |-> "risk",
     eolAlerts |-> FALSE, showSuppressed |-> TRUE, quiet |-> FALSE, tty |-> FALSE]

Request(in, config, opts) == [in |-> in, config |-> config, opts |-> opts]

\* Every way to own a package, with the same paths excluded or not.
Ownerships ==
    {Request(Input("sbom:", c), Config(None, Auto, e), Default) : c \in Owning, e \in {{}, {{"/a"}}, {{"/lib"}, {"/b"}}, {{"/lib"}}}}
    \cup {Request(Input("image", c), Plain, Default) : c \in Owning}
    \cup {Request(Input("sbom:", c), Config(d, Auto, {}), Default) : c \in Owning, d \in {Distro("alpine", 3), Distro("debian", 1)}}

\* Every way to find a distribution, with every setting of the channels.
Releases ==
    {ReleaseOf("rhel", v, x) : v \in {7, 9, None, NotSemver}, x \in BOOLEAN}
    \cup {ReleaseOf("ubuntu", 9, TRUE), ReleaseOf("ubuntu", 9, FALSE), ReleaseOf(None, 1, FALSE), None}
Named(d) == Pkg("p1", "rpm", "ssl", 1, {}, {}, d)
Hints == {None, Distro("rhel", 9), WithChannel(Distro("rhel", 7), "eus"), WithChannel(Distro("ubuntu", 9), "esm")}
Settings ==
    {Config(o, {Channel("eus", "rhel", a, 8), Channel("esm", "ubuntu", IF a = "never" THEN "auto" ELSE "never", None)}, {}) :
        o \in {None, WithChannel(Distro("rhel", 9), "eus"), Distro("rhel", 7)}, a \in {"never", "auto", "always"}}
\* Packages of two distributions, and one that does not know its own.
Mixed(r) == Catalogue(FALSE, <<Named(Distro("rhel", 9)), Pkg("p2", "deb", "lib", 1, {}, {}, Distro("debian", 1)), Headers>>, {}, r)

Distributions ==
    {Request(Input("sbom:", Catalogue(FALSE, <<Named(h), Headers>>, {}, r)), s, Default) : h \in Hints, r \in Releases, s \in Settings}
    \cup {Request(Input("sbom:", Catalogue(TRUE, <<Named(h), Headers>>, {}, Bookworm)), s, Default) : h \in Hints, s \in Settings}
    \cup {Request(Input("pkg:", Catalogue(FALSE, <<Named(h)>>, {}, None)), s, Default) : h \in Hints, s \in Settings}
    \cup {Request(Input("sbom:", Mixed(r)), s, Default) : r \in {None, Bookworm}, s \in Settings}
    \cup {Request(Input("cpe:", Catalogue(FALSE, <<Named(None)>>, {}, None)), s, Default) : s \in Settings}

\* Archives of two catalogues, one of them possibly unreadable.
Archives ==
    {Request(Zarf(<<Entries(Catalogue(TRUE, <<Named(None), Owned("python", 1)>>, {}, r1)), f>>), c, Default) :
        r1 \in {None, ReleaseOf("rhel", 9, TRUE)},
        f \in {Entries(Garbage), [tooLarge |-> TRUE, content |-> Sample]}
              \cup {Entries(Catalogue(n, <<Named(h), Headers>>, {}, r2)) : n \in BOOLEAN, h \in {None, Distro("rhel", 9)},
                                                                         r2 \in {None, Bookworm, ReleaseOf("rhel", 9, FALSE)}},
        c \in {Plain, Config(Distro("rhel", 9), Auto, {{"/lib"}})}}
    \cup {Request(Zarf(<<Entries(Garbage)>>), Plain, Default), Request(Zarf(<<Entries(Sample), Entries(Sample), Entries(Sample)>>), Plain, Default)}
    \cup {Request(Input(p, c), Plain, Default) : p \in {"pkg:", "cpe:", "sbom:", "file", "image"}, c \in {Garbage, None}}

\* Outputs, thresholds, rules and notices.
OneSSL == Input("sbom:", Catalogue(TRUE, <<Owner>>, {}, Bookworm))
Options ==
    {[Default EXCEPT !.outputs = o, !.failOn = f, !.quiet = q, !.tty = t, !.checkUpdate = t, !.eolAlerts = q] :
        o \in {<<Output("json", "f"), Output("table", None)>>, <<Output("table", None), Output("broken template", None), Output("json", None)>>,
               <<Output("json", "f"), Output("sarif", "f")>>, <<Output("broken template", "g"), Output("json", "f")>>},
        f \in {None, "high"}, q \in BOOLEAN, t \in BOOLEAN}
    \cup {[Default EXCEPT !.outputs = <<Output("json", "f"), Output("table", "g")>>, !.badDirs = b] : b \in {{"f"}, {"g"}}}
    \cup {[Default EXCEPT !.outputs = <<Output("json", "f"), Output("unknown", None)>>]}
    \cup {[Default EXCEPT !.onlyFixed = f, !.onlyNotFixed = n, !.kernelHeaders = k] : f, n, k \in BOOLEAN}
    \cup {[Default EXCEPT !.ignoreStates = s] : s \in {{"fixed"}, {"bogus"}}}
    \cup {[Default EXCEPT !.vexDocs = d, !.vexAdd = a] : d \in {{}, {"vex"}, {"unreadable"}}, a \in {{}, {"affected"}, {"fixed"}}}

\* Findings of two packages, in every order, explained and sorted in every way.
Two == Catalogue(TRUE, <<Owner, Pkg("p2", "python", "lib", 2, At("/b"), {}, None)>>, {}, ReleaseOf("ubuntu", 9, FALSE))
Apart == Catalogue(TRUE, <<Owner, Pkg("p2", "deb", "gpg", 1, At("/b"), {}, None)>>, {}, Bookworm)
SamePackage == Catalogue(FALSE, <<Pkg("p1", "deb", "ssl", 1, At("/a"), {}, Distro("debian", 1)),
                                  Pkg("p2", "deb", "ssl", 1, At("/b"), {}, Distro("ubuntu", 9))>>, {}, None)
Findings ==
    {Request(Input("sbom:", c), Plain, [Default EXCEPT !.outputs = <<Output("json", "f")>>, !.sortBy = s]) :
        c \in {Two, Apart, SamePackage}, s \in {"package", "severity", "epss", "risk", "kev", "vulnerability"}}
    \cup {Request(Input("image", Sample), Plain, [Default EXCEPT !.kernelHeaders = TRUE, !.showSuppressed = FALSE])}

MCRequests == Ownerships \cup Distributions \cup Archives \cup Findings \cup {Request(OneSSL, Plain, o) : o \in Options}
MCEOL == {Distro("debian", 1)}
MCExplained == {{"CVE-1"}, {"GHSA-1"}, {"CVE-1", "GHSA-1"}, {"CVE-2"}}
=============================================================================
