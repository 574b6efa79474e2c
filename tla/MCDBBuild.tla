----------------------------- MODULE MCDBBuild ------------------------------
(* Builds of a few records from five providers, in every order of them     *)
(* that has the end-of-life provider last.                                 *)
EXTENDS DBBuild, SequencesExt

NoImports == [i \in {} |-> {}]

Pkg(n, imports, os, dated) ==
  [kind |-> "package", name |-> n, imports |-> imports, os |-> os, fixes |-> {"v0.0.0-1"},
   dated |-> dated, swap |-> NoSwap]

Row(k, n) == [Pkg(n, NoImports, {}, TRUE) EXCEPT !.kind = k]

Vuln(k, n, kind, cves, sev, related) ==
  [key |-> k, name |-> n, supported |-> TRUE, vuln |-> TRUE, kind |-> kind, rejected |-> FALSE,
   cves |-> cves, nvd |-> FALSE, sev |-> sev, aliases |-> {}, published |-> TRUE, related |-> related]

nvd == <<[Vuln(1, "CVE-1", "other", <<"CVE-1">>, 3, <<Row("cpe", "c")>>) EXCEPT !.nvd = TRUE],
         [Vuln(2, "CVE-2", "other", <<"CVE-2">>, 1, <<>>) EXCEPT !.nvd = TRUE]>>

debian == <<Vuln(3, "CVE-1", "other", <<"CVE-1">>, 1,
                 <<Pkg("a", NoImports, {"debian"}, TRUE), Pkg("b", NoImports, {"debian"}, TRUE)>>)>>

github == <<Vuln(4, "GHSA-1", "ghsa", <<"CVE-1">>, 2, <<Pkg("m", NoImports, {}, FALSE), Pkg("m/sub", NoImports, {}, TRUE)>>),
            Vuln(5, "GHSA-1", "ghsa", <<>>, 2, <<Pkg("m", NoImports, {}, TRUE)>>),
            [Vuln(6, "GHSA-2", "ghsa", <<>>, 2, <<Pkg("n", NoImports, {}, TRUE)>>) EXCEPT !.rejected = TRUE]>>

govulndb ==
  <<[Vuln(7, "GO-1", "go", <<"CVE-2", "CVE-1">>, 0,
          <<[Pkg("m", [i \in {"m/sub", "m/x"} |-> {"F"}], {}, TRUE) EXCEPT
               !.swap = [from |-> "v0.0.0-1", to |-> {"v1", "v2"}]],
            Pkg("n", [i \in {"n/x"} |-> {"F"}], {}, FALSE)>>)
       EXCEPT !.aliases = {"GHSA-1", "GHSA-2"}],
    [Vuln(8, "GO-2", "go", <<"CVE-3">>, 0, <<Pkg("m", [i \in {"m/sub"} |-> {}], {}, TRUE)>>)
       EXCEPT !.aliases = {"GHSA-1"}]>>

(* An end-of-life date and a record of an unknown schema.                  *)
eol == <<[Vuln(9, "eol", "other", <<>>, 0, <<Row("eol", "debian"), Row("plain", "kev")>>) EXCEPT !.vuln = FALSE],
         [Vuln(10, "new", "other", <<>>, 0, <<>>) EXCEPT !.supported = FALSE]>>

(* Any order with "eol" last; a build of nothing, and one of a package     *)
(* whose fix has no date.                                                  *)
mcInputs ==
  {o[1] \o o[2] \o o[3] \o o[4] \o eol : o \in SetToSeqs({nvd, debian, github, govulndb})}
    \cup {<<eol[2]>>, <<Vuln(1, "CVE-1", "other", <<>>, 2, <<Pkg("a", NoImports, {}, FALSE)>>)>>}

=============================================================================
