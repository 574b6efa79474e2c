----------------------------- MODULE GoVulnMerge ----------------------------
(***************************************************************************)
(* grype/db/v6/build/govulndb_merge.go: what becomes of the Go             *)
(* vulnerability database's records (GO) and of the GitHub advisories      *)
(* (GHSA) they alias when a database build ends.  The packages of a GHSA   *)
(* are given the vulnerable symbols of the GO records, and a package of a  *)
(* GO record whose module is on such a GHSA is dropped from the GO record. *)
(*                                                                         *)
(* Abstractions.  The code walks over the GO records one by one and        *)
(* patches the GHSAs in place; as a union of symbol sets does not depend   *)
(* on the order of its operands, the result is written here at once.  A    *)
(* package has a module name (folded to one case), the symbols vulnerable  *)
(* in each import path ({} stands for all of them, as the empty list       *)
(* does), the fix versions of its ranges and whether they carry dates; a   *)
(* pseudo-version replacement is the fix it replaces and the new fixes.    *)
(***************************************************************************)
EXTENDS Naturals, FiniteSets, Sequences

CONSTANT NoSwap     \* a package without pseudo-version replacement

Rows(e) == {e.related[i] : i \in DOMAIN e.related}

Packages(e) == {r \in Rows(e) : r.kind = "package"}

InSeq(s) == {s[i] : i \in DOMAIN s}

(* The held GHSAs that a GO record may be merged into: aliased, and        *)
(* neither of the two withdrawn.                                           *)
Targets(g, ghsas) ==
  {h \in InSeq(ghsas) : h.name \in g.aliases /\ ~h.rejected /\ ~g.rejected}

(* mergeGoSymbols, for any number of symbol lists: all symbols if any of   *)
(* them says so.                                                           *)
mergeGoSymbols_Narrow(lists) == UNION lists

mergeGoSymbols(lists) == IF {} \in lists THEN {} ELSE UNION lists

(* The GO packages that patch a GHSA's package: of the module itself, or   *)
(* with an import path of the package's name.                              *)
Patching(row, h, gos, ghsas) ==
  {p \in UNION {Packages(g) : g \in {x \in InSeq(gos) : h \in Targets(x, ghsas)}} :
     p.name = row.name \/ row.name \in DOMAIN p.imports}

ImportsFrom(row, p) == IF p.name = row.name THEN DOMAIN p.imports ELSE {row.name}

(* patchGHSAWithGoImports and addGoImports.                                *)
patchGoImports(row, ps) ==
  LET paths == DOMAIN row.imports \cup UNION {ImportsFrom(row, p) : p \in ps}
      lists(i) == {p.imports[i] : p \in {x \in ps : i \in ImportsFrom(row, x)}}
                    \cup (IF i \in DOMAIN row.imports THEN {row.imports[i]} ELSE {})
  IN [i \in paths |-> mergeGoSymbols(lists(i))]

(* replaceGHSAPseudoVersionRanges: only the one range of a package, when   *)
(* its fix is the pseudo-version the replacement is for.                   *)
replacePseudoVersion(row, ps) ==
  LET swaps == {p.swap : p \in {x \in ps : /\ x.name = row.name /\ x.swap # NoSwap
                                           /\ row.fixes = {x.swap.from}}}
  IN IF swaps = {} THEN row.fixes ELSE (CHOOSE s \in swaps : TRUE).to

(* The packages of a held GHSA, patched; backfillFixDates stamps ranges    *)
(* without a date with the record's own.                                   *)
PatchedRow(row, h, gos, ghsas) ==
  IF row.kind # "package" THEN row
  ELSE LET ps == Patching(row, h, gos, ghsas)
       IN [row EXCEPT !.imports = patchGoImports(row, ps),
                      !.fixes = replacePseudoVersion(row, ps),
                      !.dated = @ \/ h.published]

PatchedGHSA(h, gos, ghsas) ==
  [h EXCEPT !.related = [i \in DOMAIN @ |-> PatchedRow(@[i], h, gos, ghsas)]]

(* reconcilePackage: a package is covered if its module is on a target.    *)
Covered(p, g, ghsas) ==
  \E h \in Targets(g, ghsas) : \E r \in Packages(h) : r.name = p.name

(* handleEntry: a GO record keeps the packages that are not covered, and   *)
(* is written if it has any, was withdrawn or aliases no GHSA.             *)
Remaining(g, ghsas) ==
  LET remaining[n \in 0..Len(g.related)] ==
        IF n = 0 THEN <<>>
        ELSE IF g.related[n].kind = "package" /\ Covered(g.related[n], g, ghsas)
             THEN remaining[n - 1]
             ELSE Append(remaining[n - 1], g.related[n])
  IN remaining[Len(g.related)]

PrunedGO(g, ghsas) ==
  LET left == Remaining(g, ghsas)
  IN [g EXCEPT !.related = [i \in DOMAIN left |->
                              IF left[i].kind = "package"
                              THEN [left[i] EXCEPT !.dated = @ \/ g.published] ELSE left[i]],
               !.supported = g.rejected \/ g.aliases = {} \/ \E i \in DOMAIN left : left[i].kind = "package"]

(* reconcile: the GHSAs in their order of arrival, then the GO records     *)
(* (those no longer "supported" are dropped, see DBBuild).                 *)
reconcile(ghsas, gos) ==
  [i \in DOMAIN ghsas |-> PatchedGHSA(ghsas[i], gos, ghsas)]
    \o [i \in DOMAIN gos |-> PrunedGO(gos[i], ghsas)]

=============================================================================
