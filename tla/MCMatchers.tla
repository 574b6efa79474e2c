----------------------------- MODULE MCMatchers -----------------------------
(***************************************************************************)
(* Packages of each matcher with the records that could meet them; every   *)
(* database of up to MaxHandles of those records is scanned.               *)
(***************************************************************************)
EXTENDS Matchers

Row(name, major, minor, channel, eol) ==
    [name |-> name, release |-> name, codename |-> None, label |-> None, major |-> major,
     minor |-> minor, channel |-> channel, eol |-> eol]

Deb11 == Row("debian", <<1, 1>>, <<>>, None, TRUE)
\* Another row of the same release, which has no end of life.
Deb11Beta == [Row("debian", <<1, 1>>, <<>>, None, FALSE) EXCEPT !.label = "beta"]
Ubuntu == Row("ubuntu", <<1, 6>>, <<4>>, None, FALSE)
UbuntuESM == Row("ubuntu", <<1, 6>>, <<4>>, "esm", FALSE)
Rhel9 == Row("rhel", <<9>>, <<>>, None, TRUE)
Rhel94 == Row("rhel", <<9>>, <<4>>, None, FALSE)
Rhel94EUS == Row("rhel", <<9>>, <<4>>, "eus", FALSE)
Rhel810 == Row("rhel", <<8>>, <<1, 0>>, None, FALSE)
Rhel810EUS == Row("rhel", <<8>>, <<1, 0>>, "eus", FALSE)
Alma94 == Row("almalinux", <<9>>, <<4>>, None, FALSE)
Alpine == Row("alpine", <<3>>, <<1, 8>>, None, FALSE)

Distro(type, major, minor, channels) ==
    [type |-> type, major |-> major, minor |-> minor, rest |-> None, label |-> None, channels |-> channels]

\* A record: disclosure or denial (un), under a name, with one range.
H(un, id, aliases, os, name, cons, fix) ==
    [kind |-> "pkg", unaffected |-> un, id |-> id, aliases |-> aliases, prov |-> "vendor", os |-> os, name |-> name,
     eco |-> None, cpe |-> None, ranges |-> <<[cons |-> cons, fix |-> fix]>>, quals |-> NoQualifiers, status |-> "active"]
Lt(n) == [op |-> "lt", v |-> n]
Ge(n) == [op |-> "ge", v |-> n]
Fix(n, el) == [state |-> "fixed", v |-> [n |-> n, el |-> el]]
Eco(h, eco) == [h EXCEPT !.eco = eco]
Nvd(id, product, target, cons) ==
    [H(FALSE, id, {}, None, None, cons, Fix(cons.v, None)) EXCEPT
        !.kind = "cpe", !.prov = "nvd", !.cpe = [product |-> product, target |-> target]]

Pkg(type, name, version, distro) ==
    [type |-> type, name |-> name, version |-> version, epoch |-> None, meta |-> None, arch |-> None, module |-> None,
     distro |-> distro, cpes |-> {}, ups |-> {}, rootTag |-> FALSE, symbols |-> {}, devel |-> FALSE, maven |-> None]
Cpe(product, target, version) == [product |-> product, target |-> target, version |-> version]

Ssl == <<"ssl">>
Src == <<"src">>
Off == [cpes |-> FALSE, maven |-> FALSE, stdlib |-> FALSE, epochs |-> "auto"]
On == [cpes |-> TRUE, maven |-> TRUE, stdlib |-> TRUE, epochs |-> "zero"]

Scenario(p, oss, handles, c) == [pkg |-> p, oss |-> oss, handles |-> handles, cfg |-> c]

DebHandles ==
    { H(FALSE, "CVE1", {}, Deb11, Ssl, Lt(5), Fix(5, None)), H(FALSE, "DSA1", {"CVE1"}, Deb11, Ssl, Lt(2), Fix(2, None)),
      H(FALSE, "CVE2", {}, Deb11, Ssl, AnyVersion, None), H(FALSE, "CVE1", {}, Deb11, Src, Lt(5), Fix(5, None)),
      H(TRUE, "VEX1", {"CVE1"}, Deb11, Ssl, Ge(3), None), H(TRUE, "CVE2", {}, Deb11, Src, AnyVersion, None),
      [H(FALSE, "CVE3", {}, Deb11, <<"rootio", "ssl">>, Lt(5), None) EXCEPT !.quals.root = TRUE],
      [H(FALSE, "CVE2", {}, Deb11, Ssl, Lt(9), None) EXCEPT !.ranges = Append(@, [cons |-> [op |-> "bad", v |-> 0], fix |-> None])],
      Nvd("CVE3", Ssl, None, Lt(5)) }

DebScenarios ==
    LET d == Distro("debian", <<1, 1>>, <<>>, {})
        p == Pkg("deb", Ssl, 3, d)
    IN  { Scenario(p, {Deb11}, DebHandles, Off),
          Scenario([p EXCEPT !.ups = dataFromPkg(p, [name |-> Src, version |-> 4]), !.cpes = {Cpe(Ssl, None, 3)}],
                   {Deb11, Deb11Beta}, DebHandles, On),
          Scenario([p EXCEPT !.name = <<"rootio", "ssl">>], {Deb11}, DebHandles, Off),
          Scenario([p EXCEPT !.version = UnknownVersion], {Deb11}, DebHandles, Off),
          Scenario([p EXCEPT !.type = "portage"], {Deb11}, DebHandles, Off) }

ESMHandles ==
    { H(FALSE, "CVE1", {}, Ubuntu, Ssl, Lt(9), None), H(FALSE, "CVE2", {}, Ubuntu, Ssl, AnyVersion, [state |-> "wont-fix", v |-> None]),
      H(FALSE, "CVE1", {}, UbuntuESM, Ssl, Lt(3), Fix(3, None)), H(FALSE, "CVE1", {}, UbuntuESM, Ssl, Lt(5), Fix(5, None)),
      H(FALSE, "USN1", {"CVE2"}, UbuntuESM, Ssl, Lt(2), Fix(2, None)), H(FALSE, "CVE2", {}, UbuntuESM, Ssl, Lt(7), Fix(7, None)),
      H(FALSE, "CVE1", {}, Ubuntu, Src, Lt(6), Fix(6, None)) }

ESMScenarios ==
    LET p == Pkg("deb", Ssl, 3, Distro("ubuntu", <<1, 6>>, <<0, 4>>, {"esm"}))
    IN  { Scenario([p EXCEPT !.version = v, !.ups = {[name |-> Src, version |-> None]}], {Ubuntu, UbuntuESM}, ESMHandles, Off) :
              v \in {3, 4} }

RhelHandles ==
    { H(FALSE, "CVE1", {}, Rhel94, Ssl, Lt(15), Fix(15, <<9, 6>>)), H(FALSE, "CVE2", {}, Rhel94, Ssl, AnyVersion, [state |-> "wont-fix", v |-> None]),
      H(FALSE, "CVE1", {}, Rhel94EUS, Ssl, Lt(14), Fix(14, <<9, 4>>)), H(FALSE, "RHSA1", {"CVE1"}, Rhel94EUS, Ssl, Lt(12), Fix(12, <<9, 2>>)),
      H(FALSE, "CVE2", {}, Rhel94EUS, Ssl, Lt(16), Fix(16, <<9, 6>>)),
      [H(FALSE, "CVE3", {}, Rhel94, Ssl, Lt(19), Fix(19, None)) EXCEPT !.quals.arch = "aarch64"],
      [H(FALSE, "CVE4", {}, Rhel94, Ssl, Lt(19), Fix(19, <<9, 3>>)) EXCEPT !.quals.module = <<"m1">>],
      H(FALSE, "CVE1", {}, Rhel94, Src, Lt(12), Fix(12, None)),
      H(TRUE, "CVE2", {}, Rhel94, Ssl, AnyVersion, None), H(TRUE, "VEX1", {"CVE1"}, Rhel94, Src, Ge(12), None) }

\* A minor release of two digits.
Rhel810Handles ==
    { H(FALSE, "CVE1", {}, Rhel810, Ssl, Lt(15), Fix(15, <<8, 0>>)),
      H(FALSE, "CVE1", {}, Rhel810EUS, Ssl, Lt(14), Fix(14, <<8, 8>>)), H(FALSE, "CVE1", {}, Rhel810EUS, Ssl, Lt(16), Fix(16, <<8, 10>>)),
      H(FALSE, "CVE2", {}, Rhel810, Ssl, AnyVersion, None), H(FALSE, "CVE2", {}, Rhel810EUS, Ssl, Lt(17), Fix(17, <<9, 1>>)) }

RhelScenarios ==
    LET p == [Pkg("rpm", Ssl, 103, Distro("rhel", <<9>>, <<4>>, {})) EXCEPT
                 !.meta = "rpm", !.arch = "x86_64", !.epoch = 1, !.ups = {[name |-> Src, version |-> 103]}]
    IN  { Scenario(p, {Rhel9, Rhel94, Rhel94EUS}, RhelHandles, On),
          Scenario([p EXCEPT !.module = <<"m1", "8">>, !.version = 102], {Rhel94, Rhel94EUS}, RhelHandles, Off),
          Scenario([p EXCEPT !.module = <<>>, !.epoch = None, !.ups = {[name |-> Src, version |-> 101]}], {Rhel94}, RhelHandles, Off),
          Scenario([p EXCEPT !.distro.channels = {"eus"}], {Rhel94, Rhel94EUS}, RhelHandles, Off),
          Scenario([p EXCEPT !.distro.channels = {"eus"}, !.version = 101, !.arch = "aarch64"], {Rhel94, Rhel94EUS}, RhelHandles, Off),
          Scenario([p EXCEPT !.cpes = {Cpe(Ssl, None, 103)}], {Rhel9, Alma94}, RhelHandles \cup {Nvd("CVE5", Ssl, None, Lt(19))}, On),
          Scenario([p EXCEPT !.distro = Distro("rhel", <<8>>, <<1, 0>>, {"eus"})], {Rhel810, Rhel810EUS}, Rhel810Handles, Off),
          Scenario([p EXCEPT !.distro = None], {Rhel94}, RhelHandles, Off) }

AlmaHandles ==
    { H(FALSE, "CVE1", {}, Rhel94, Ssl, Lt(5), Fix(5, None)), H(FALSE, "CVE2", {}, Rhel94, Src, Lt(6), Fix(6, None)),
      H(TRUE, "ALSA1", {"CVE1"}, Alma94, Ssl, Ge(4), None), H(TRUE, "ALSA2", {"CVE1", "CVE2"}, Alma94, Src, Ge(6), None),
      H(TRUE, "ALSA3", {"CVE2"}, Alma94, Ssl, Ge(3), None), H(FALSE, "CVE3", {}, Rhel94, Ssl, Lt(2), Fix(2, None)),
      H(TRUE, "CVE1", {}, Rhel94, Ssl, Ge(1), None) }

AlmaScenarios ==
    LET p == [Pkg("rpm", Ssl, 103, Distro("almalinux", <<9>>, <<4>>, {})) EXCEPT
                 !.meta = "rpm", !.epoch = 0, !.ups = {[name |-> Src, version |-> 103]}]
    IN  { Scenario([p EXCEPT !.version = v], {Rhel94, Alma94}, AlmaHandles, Off) : v \in {103, 104, UnknownVersion} }
        \cup { Scenario([p EXCEPT !.name = <<"ssl", "debuginfo">>], {Rhel94, Alma94}, AlmaHandles, Off) }

ApkHandles ==
    { H(FALSE, "CVE1", {}, Alpine, Ssl, Lt(35), Fix(35, None)), H(FALSE, "CVE1", {}, Alpine, Src, Lt(25), Fix(25, None)),
      H(FALSE, "CVE2", {}, Alpine, Ssl, NakConstraint, None), H(FALSE, "CVE2", {}, Alpine, Src, Lt(40), Fix(40, None)),
      Nvd("CVE1", Ssl, None, Lt(40)), Nvd("CVE2", Ssl, None, Lt(40)), Nvd("CVE3", Src, None, Lt(40)), Nvd("CVE3", Ssl, None, Lt(31)),
      [Nvd("CVE2", Ssl, None, Lt(99)) EXCEPT !.unaffected = TRUE] }

ApkScenarios ==
    LET p == Pkg("apk", Ssl, 32, Distro("alpine", <<3>>, <<1, 8>>, {}))
    IN  { Scenario([p EXCEPT !.cpes = {Cpe(Ssl, None, 32)}, !.ups = dataFromPkg(p, [name |-> Src, version |-> None])],
                   {Alpine}, ApkHandles, Off) }

LangHandles ==
    { Eco(H(FALSE, "GHSA1", {"CVE1"}, None, Ssl, Lt(5), Fix(5, None)), "python"), Eco(H(TRUE, "CVE1", {}, None, Ssl, Ge(3), None), "python"),
      Eco([H(FALSE, "GHSA2", {}, None, Ssl, Lt(5), None) EXCEPT !.status = "withdrawn"], "python"),
      Nvd("CVE1", Ssl, None, Lt(4)), Nvd("CVE2", Ssl, "joomla", Lt(4)), Nvd("CVE3", Ssl, "windows", Lt(4)),
      Eco([H(TRUE, "GHSA1", {}, None, <<"rootio", "ssl">>, Ge(1), None) EXCEPT !.quals.root = TRUE], "python"),
      [Nvd("CVE4", Ssl, None, Lt(4)) EXCEPT !.quals.platform = "windows"] }

LangScenarios ==
    LET p == [Pkg("python", Ssl, 3, None) EXCEPT !.cpes = {Cpe(Ssl, None, 3), Cpe(Ssl, "python", None)}]
        eco(t) == {IF h.eco = None THEN h ELSE [h EXCEPT !.eco = t] : h \in LangHandles}
    IN  { Scenario(p, {}, LangHandles, On), Scenario([p EXCEPT !.rootTag = TRUE], {}, LangHandles, Off),
          Scenario([p EXCEPT !.type = "java"], {}, eco("java"), On),
          Scenario([p EXCEPT !.type = "java", !.maven = <<"rootio", "ssl">>], {}, eco("java"), On),
          Scenario([p EXCEPT !.type = "kb"], {}, eco("kb"), Off),
          Scenario([p EXCEPT !.type = "binary"], {}, eco("binary"), On),
          Scenario([p EXCEPT !.type = "go", !.devel = TRUE], {}, {}, On),
          Scenario([p EXCEPT !.type = "go", !.name = <<"stdlib">>, !.meta = "go", !.symbols = {<<"html", "f">>, <<"net", None>>}], {},
                   { [h EXCEPT !.name = <<"stdlib">>, !.quals.imports = IF h.id = "GHSA1" THEN {<<"html", "g">>} ELSE {<<"net", None>>, <<"html", "g">>}] :
                         h \in {h \in eco("go") : h.kind = "pkg" /\ ~h.unaffected} }
                   \cup {Nvd("CVE1", Ssl, None, Lt(4))},
                   [Off EXCEPT !.stdlib = TRUE]) }

MCScenarios ==
    DebScenarios \cup ESMScenarios \cup RhelScenarios \cup AlmaScenarios \cup ApkScenarios \cup LangScenarios
=============================================================================
