---------------------------- MODULE MCTransform -----------------------------
(***************************************************************************)
(* Small records for every transformer.                                    *)
(***************************************************************************)
EXTENDS Transform

Seqs(S, n) == UNION {[1 .. k -> S] : k \in 0 .. n}
NonEmpty(SS) == SS \ {<<>>}

Host(type, major, minor) ==
    [type |-> type, major |-> major, minor |-> minor, rest |-> None, label |-> None, channels |-> {}]

\* Windows in the order of their versions, with or without an end.
Ev(k, v) == [k |-> k, v |-> v]
WindowsUpTo(n) ==
    {es \in NonEmpty(Seqs({Ev("introduced", v) : v \in 0 .. 3} \cup {Ev(k, v) : k \in {"fixed", "last_affected"}, v \in 1 .. 4}, n)) :
        \A i \in DOMAIN es :
            /\ (es[i].k = "introduced") <=> (i % 2 = 1)
            /\ i > 1 => IF es[i].k = "last_affected" THEN es[i - 1].v <= es[i].v ELSE es[i - 1].v < es[i].v}

Short == WindowsUpTo(2)
Long == WindowsUpTo(4)

OSVRange(type, es) == [type |-> type, events |-> es, dates |-> {2}]
OSVRecord(strategy, eco, type, ranges, custom, hosts) ==
    [id |-> "V", strategy |-> strategy, aliases |-> {}, related |-> {}, upstream |-> {}, withdrawn |-> FALSE,
     badScore |-> FALSE, hosts |-> hosts,
     affected |-> << [name |-> "p", eco |-> eco, arch |-> None, module |-> None, imports |-> {},
                      ranges |-> [i \in DOMAIN ranges |-> OSVRange(type, ranges[i])],
                      custom |-> [i \in DOMAIN custom |-> OSVRange(type, custom[i])]] >>]

Release(major, minor) == [word |-> None, major |-> major, minor |-> minor]
Fixed == {<< <<Ev("introduced", 0), Ev("fixed", v)>> >> : v \in {2, 3}}

MCOSVRecords ==
    {OSVRecord("bitnami", <<"bitnami">>, "semver", <<es>>, <<>>, {}) : es \in Long}
    \cup {OSVRecord("bitnami", <<"bitnami">>, "semver", <<e1, e2>>, <<>>, {}) : e1, e2 \in Short}
    \cup {OSVRecord("go", <<"go">>, "semver", <<e1, e2>>, <<>>, {}) : e1, e2 \in Short}
    \cup {OSVRecord("go", <<"go">>, "semver", <<e1>>, <<e2>>, {}) : e1 \in Long, e2 \in WindowsUpTo(3) \cup {<<>>}}
    \cup {OSVRecord("cg", <<"wolfi">>, "ecosystem", <<es>>, <<>>, {Host("wolfi", <<2, 0>>, <<>>)}) :
             es \in {es \in Short : es[1].v \in {0, 2}}}
    \cup {OSVRecord("alma", <<"almalinux", Release(<<9>>, <<>>)>>, "ecosystem", rs, <<>>, {Host("almalinux", <<9>>, <<4>>)}) : rs \in Fixed}
    \cup {OSVRecord("rootio", eco, "ecosystem", rs, <<>>, {Host("debian", <<1, 2>>, <<5>>)}) : rs \in Fixed,
             eco \in {<<"root", "debian", Release(<<1, 2>>, <<>>)>>, <<"root", "npm">>, <<"root", "cobol">>}}
    \cup {[OSVRecord("go", <<"go">>, "semver", << <<Ev("introduced", 0)>> >>, <<>>, {}) EXCEPT !.affected = <<>>]}
    \cup {[OSVRecord(None, <<"go">>, "semver", <<>>, <<>>, {}) EXCEPT !.badScore = b] : b \in BOOLEAN}

\* Two packages, fixes for the major and for a minor release, not affected, no fix.
Advisory(m, v) == [minor |-> m, version |-> v]
FixedIn(name, format, v, range, module, advisories) ==
    [name |-> name, version |-> v, range |-> range, format |-> format, module |-> module, arch |-> None,
     noAdvisory |-> FALSE, dated |-> FALSE, advisories |-> advisories]
FixedIns ==
    {FixedIn(1, "rpm", v, {}, None, <<>>) : v \in {0, None}}
    \cup {FixedIn(1, "rpm", 4, {}, None, as) : as \in {<<Advisory(0, 2)>>, <<Advisory(0, 2), Advisory(0, 1)>>, <<Advisory(2, 3)>>, <<Advisory(None, 4)>>}}
    \cup {FixedIn(1, "rpm", 4, {{Bound("ge", 1), Bound("lt", 4)}}, None, <<Advisory(0, 2)>>)}
    \cup {FixedIn(1, "rpm", 2, {}, "m", <<>>), FixedIn(2, "rpm", 0, {}, None, <<>>)}

OSRecord(id, major, minor, channel, fs, base, hosts) ==
    [id |-> "V", ns |-> [id |-> id, major |-> major, minor |-> minor, channel |-> channel, word |-> None],
     fixedIns |-> fs, cves |-> {}, severity |-> "high", cvss |-> <<>>, kernelBase |-> base, hosts |-> hosts]

RHELHosts == {Host("redhat", <<9>>, m) : m \in {<<>>, <<0>>, <<1>>, <<2>>}}
One(format) == {<<FixedIn(1, format, v, {}, None, <<>>)>> : v \in {0, 2, None}}

MCOSRecords ==
    {OSRecord("rhel", <<9>>, <<>>, None, fs, None, RHELHosts) : fs \in NonEmpty(Seqs(FixedIns, 2))}
    \cup {OSRecord("rhel", <<9>>, <<0>>, "eus", fs, None, {[Host("redhat", <<9>>, <<0>>) EXCEPT !.channels = {"eus"}]}) : fs \in One("rpm")}
    \cup {OSRecord("ubuntu", <<2, 0>>, <<0, 4>>, None, fs, None, {Host("ubuntu", <<2, 0>>, <<0, 4>>)}) : fs \in One("dpkg")}
    \cup {OSRecord("mariner", <<m>>, <<0>>, None, fs, None, {Host(IF m = 3 THEN "azurelinux" ELSE "mariner", <<m>>, <<0>>)}) :
             m \in {2, 3}, fs \in One("rpm")}
    \cup {OSRecord("alpine", <<3>>, <<2, 0>>, None, fs, None, {Host("alpine", <<3>>, <<2, 0>>)}) : fs \in One("apk")}
    \cup {OSRecord("amzn", <<2>>, <<>>, None, <<FixedIn(1, "rpm", 3, {}, None, <<>>)>>, 1, {Host("amazonlinux", <<2>>, <<>>)})}

\* An application on its own, or on a platform, in one or two nodes.
Match(product, part, version, vulnerable, bounds, bad) ==
    [product |-> product, part |-> part, version |-> version, update |-> None, vulnerable |-> vulnerable,
     bounds |-> bounds, fix |-> None, bad |-> bad]
Until(v) == [NVD!NoBounds EXCEPT !.endExc = v]
From(v, w) == [NVD!NoBounds EXCEPT !.startInc = v, !.endInc = w]
Apps == {Match("app", "a", None, TRUE, b, FALSE) : b \in {Until(3), From(2, 4)}}
        \cup {Match("app", "a", 2, TRUE, NVD!NoBounds, FALSE), Match("lib", "a", None, TRUE, NVD!NoBounds, FALSE)}
Platforms == {Match("os", "o", None, FALSE, NVD!NoBounds, FALSE), Match("os", "o", 2, TRUE, NVD!NoBounds, FALSE)}
NVDNodes == {[op |-> "OR", matches |-> ms] : ms \in {<<a>> : a \in Apps \cup Platforms} \cup {<<a, b>> : a, b \in Apps \cup Platforms}}
Config(op, ns) == [op |-> op, nodes |-> ns]
NVDRecord(cs) == [id |-> "V", configs |-> cs, status |-> "analyzed", weaknesses |-> {"CWE", "noinfo"}]
Simple == {Config(None, <<[op |-> "OR", matches |-> <<a>>]>>) : a \in Apps}
OnOSOnly == Config("AND", << [op |-> "OR", matches |-> <<CHOOSE a \in Apps : a.bounds = Until(3)>>],
                             [op |-> "OR", matches |-> <<CHOOSE p \in Platforms : ~p.vulnerable>>] >>)

MCNVDRecords ==
    {NVDRecord(<<Config(op, <<n>>)>>) : op \in {None, "AND", "OR"}, n \in NVDNodes}
    \cup {NVDRecord(<<Config("AND", <<n1, n2>>)>>) : n1, n2 \in {n \in NVDNodes : Len(n.matches) = 1 \/ n.matches[1] # n.matches[2]}}
    \cup {NVDRecord(<<c1, c2>>) : c1, c2 \in Simple \cup {OnOSOnly}}
    \cup {NVDRecord(<<Config("OR", <<[op |-> "AND", matches |-> <<a>>]>>)>>) : a \in Apps}
    \cup {NVDRecord(<<Config(None, <<[op |-> "OR", matches |-> <<[a EXCEPT !.bad = TRUE]>>]>>)>>) : a \in Apps}

\* Binaries and sources of one name on four platforms: two with the same CPE, one
\* of another system and one without a CPE.
Purl(arch, v) == [type |-> "rpm", name |-> "ssl", version |-> v, arch |-> arch]
Plat(name) == [name |-> name, major |-> <<1>>, minor |-> <<>>]
CPEs == [h1 |-> Plat("hummingbird"), h2 |-> Plat("hummingbird"), ph |-> Plat("photon")]
Products ==
    [a |-> [purl |-> Purl("src", 3), platform |-> "h1"],
     b |-> [purl |-> Purl("x86", 3), platform |-> "h1"],
     c |-> [purl |-> Purl("x86", 2), platform |-> "ph"],
     d |-> [purl |-> None, platform |-> "bare"],
     e |-> [purl |-> Purl(None, 3), platform |-> "h2"],
     f |-> [purl |-> Purl("src", 2), platform |-> "bare"]]
CSAFHosts(ids) ==
    LET at == {Products[ids[i]].platform : i \in DOMAIN ids}
        names == {CPEs[p].name : p \in at \cap DOMAIN CPEs}
    IN  IF Cardinality(names) = 1 /\ \A i \in DOMAIN ids : ids[i] # "f"
        THEN {Host(n, <<1>>, <<>>) : n \in names} ELSE {}
MCCSAFAdvisories ==
    {[cve |-> "V", products |-> Products, cpes |-> CPEs, affected |-> af, fixed |-> fx, notAffected |-> na, fixes |-> fixes,
      hosts |-> CSAFHosts(af \o fx \o na)] :
        af \in {<<>>, <<"a">>, <<"a", "b">>, <<"a", "c">>, <<"a", "e">>, <<"c", "d">>, <<"f">>}, fx \in {<<>>, <<"b">>, <<"c">>, <<"e">>},
        na \in {<<>>, <<"b">>, <<"c", "d">>},
        fixes \in {<<>>, <<[products |-> {"a", "b"}, url |-> TRUE, date |-> TRUE], [products |-> {"b"}, url |-> FALSE, date |-> FALSE]>>}}

MCOpenVEXStatements ==
    {[name |-> "V", aliases |-> {}, status |-> s, products |-> ps, fixes |-> {1}] :
        s \in {"affected", "not_affected", "fixed", "under_investigation"},
        ps \in Seqs({Purl(None, 2), Purl(None, 3), None}, 2)}

MCGitHubAdvisories ==
    {[id |-> "G", cves |-> {"V"}, withdrawn |-> w, urls |-> <<"u", "u">>, fixedIns |-> fs] :
        w \in BOOLEAN,
        fs \in Seqs({[name |-> "p", eco |-> "pip", range |-> CleanConstraint(v), fix |-> v, dated |-> TRUE, odd |-> o] :
                        v \in {None, 3}, o \in BOOLEAN}, 2)}

MCMSRCUpdates ==
    {[id |-> "V", product |-> "w", vulnerable |-> <<"k1">>, fixedIns |-> fs] :
        fs \in Seqs({[id |-> "k2", latest |-> l, dated |-> l] : l \in BOOLEAN}, 2)}
MCKEVs == {[cve |-> "V", notes |-> ns, bracketed |-> <<"u1">>] :
              ns \in Seqs({[url |-> TRUE, text |-> "u1"], [url |-> FALSE, text |-> "note"]}, 2)}
MCEPSSs == {[cve |-> "V", epss |-> 1, date |-> d] : d \in {None, 1}}

EOLRelease(product, major, minor, hosts) ==
    [product |-> product, major |-> major, minor |-> minor, eol |-> 1, eoas |-> None, hosts |-> hosts]
MCEOLReleases ==
    { EOLRelease("rhel", <<9>>, <<>>, RHELHosts),
      EOLRelease("ubuntu", <<2, 0>>, <<0, 4>>, {Host("ubuntu", <<2, 0>>, <<0, 4>>)}),
      EOLRelease("alpine-linux", <<3>>, <<2, 0>>, {Host("alpine", <<3>>, <<2, 0>>)}),
      EOLRelease("amazon-linux", <<2>>, <<>>, {Host("amazonlinux", <<2>>, <<>>)}),
      EOLRelease("nodejs", <<2>>, <<>>, {}) }

MCSpan == [m \in {<<9>>} |-> 1]
MCSupported == {"redhat", "ubuntu", "alpine", "amazonlinux", "debian"}
MCProductNames == [n \in {"rhel", "amazon-linux", "alpine-linux"} |->
                      CASE n = "rhel" -> "redhat" [] n = "amazon-linux" -> "amazonlinux" [] OTHER -> "alpine"]
=============================================================================
