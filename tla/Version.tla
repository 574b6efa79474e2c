------------------------------ MODULE Version -------------------------------
(***************************************************************************)
(* Versions and constraints as objects (grype/version): a Version parses   *)
(* its text into a comparator of a format when it is first asked for and   *)
(* keeps it in a map, and is then asked for many advisories in turn.       *)
(*                                                                         *)
(* Validate, Is and comparisons with a missing-epoch strategy work on the  *)
(* object; Compare works on a copy, which shares the map only if there is  *)
(* one.  An expression is a sequence of units [or, op, text], those of the *)
(* same alternative (or) being and'ed; <<>> is the empty constraint.       *)
(***************************************************************************)
EXTENDS VersionOrder

CONSTANTS
  Formats,      \* the formats versions are made with
  Askers,       \* the formats of what they are compared with
  Texts,        \* Texts[f]: version texts met in data of format f
  Fixes,        \* Fixes[f]: those that the calls compare with
  Strategies    \* values of MissingEpochStrategy, "" for none

AllFormats == {"rpm", "pacman", "deb", "gem", "portage", "kb", "semantic", "apk", "maven",
               "bitnami", "go", "python", "jvm", "unknown"}

ASSUME VersionAssumption ==
  /\ Formats \subseteq AllFormats /\ Askers \subseteq Formats \ {"jvm"} /\ "semantic" \in Formats
  /\ \A f \in Formats : Fixes[f] \subseteq Texts[f]
  /\ Strategies \subseteq {"", "auto", "zero"}

VARIABLES
  v,          \* the version asked about: [text, format, strategy]
  hasMap,     \* v.comparators is not nil
  cached,     \* formats in v.comparators
  job,        \* the constraint being evaluated
  last        \* the last call and its outcome

vars == <<v, hasMap, cached, job, last>>

(* Outcomes: -1, 0 and 1 of a comparison, TRUE and FALSE as 1 and 0.       *)
Bad == 2
Panic == 3

-----------------------------------------------------------------------------
(* Comparators                                                             *)

(* The constructors that can fail.                                         *)
ParseFails(f, s) ==
  CASE f \in {"rpm", "pacman"} -> EpochError(s)
    [] f = "deb" -> DebError(s)
    [] f = "gem" -> GemError(s)
    [] f = "semantic" -> LibError(SemanticText(s))
    [] f = "apk" -> ~StartsWithNum(trimLeadingV(s))
    [] f = "bitnami" -> LibError(s)
    [] f = "go" -> GolangError(s)
    [] f = "python" -> ~StartsWithNum(s)
    [] f = "jvm" -> JvmError(s)
    [] f \in {"maven", "portage", "kb", "unknown"} -> FALSE

CompareTexts(f, s, t) ==
  CASE f \in {"rpm", "pacman"} -> CompareRpm(newRpmVersion(s), newRpmVersion(t))
    [] f = "deb" -> CompareDeb(newDebVersion(s), newDebVersion(t))
    [] f = "gem" -> CompareGem(newGemVersion(s), newGemVersion(t))
    [] f = "portage" -> IF s = t THEN 0
                        ELSE IF PortageError(s) \/ PortageError(t) THEN Panic
                        ELSE ComparePortage(newPortageVersion(s), newPortageVersion(t))
    [] f = "kb" -> IF s = t THEN 0 ELSE 1
    [] f = "semantic" -> CompareLib(newLibVersion(SemanticText(s)), newLibVersion(SemanticText(t)))
    [] f = "apk" -> libCompare(trimLeadingV(s), trimLeadingV(t))
    [] f = "maven" -> libCompare(stripJavaRuntime(s), stripJavaRuntime(t))
    [] f = "bitnami" -> CompareBitnami(s, t)
    [] f = "go" -> CompareGolang(s, t)
    [] f = "python" -> ComparePep440(newPep440Version(s), newPep440Version(t))
    [] f = "jvm" -> CompareLib(newJvmVersion(s), newJvmVersion(t))
    [] f = "unknown" -> CompareFuzzy(s, t)

(* The zero value of a comparator type: a nil library version panics, an   *)
(* empty text comes before any other.                                      *)
CompareZero(f, t) ==
  CASE f \in {"rpm", "pacman"} -> CompareRpm(newRpmVersion(<<>>), newRpmVersion(t))
    [] f = "gem" -> CompareGem(<<>>, newGemVersion(t))
    [] f \in {"semantic", "bitnami", "jvm"} -> Panic
    [] OTHER -> -1

(* Comparator.Compare: the other text is parsed as this format.  The       *)
(* comparator kept for a text that could not be parsed is the zero value.  *)
ComparatorCompare(f, s, t) ==
  IF ParseFails(f, t) THEN Bad ELSE IF ParseFails(f, s) THEN CompareZero(f, t) ELSE CompareTexts(f, s, t)

CompareWithConfig(f, s, t, strategy) ==
  LET rpm == IF ParseFails(f, s) THEN newRpmVersion(<<>>) ELSE newRpmVersion(s)
  IN IF ParseFails(f, t) THEN Bad
     ELSE IF f = "rpm" THEN RpmWithConfig(rpm, newRpmVersion(t), strategy)
     ELSE IF ParseFails(f, s) THEN -1 ELSE DebWithConfig(newDebVersion(s), newDebVersion(t), strategy)

(* The same as functions of the texts of the instance.  The text of a Java *)
(* release is one token, which only its own format looks at.               *)
TextsFor(f) == IF f = "jvm" THEN Texts["jvm"] ELSE UNION {Texts[g] : g \in Formats \ {"jvm"}}
Fails == [f \in Formats |-> [s \in TextsFor(f) |-> ParseFails(f, s)]]
Compares == [f \in Formats |-> [s, t \in TextsFor(f) |-> ComparatorCompare(f, s, t)]]
ComparesWith == [f \in Formats \cap {"rpm", "deb"}, e \in Strategies |->
                   [s, t \in TextsFor(f) |-> CompareWithConfig(f, s, t, e)]]
LooksSemantic == [s \in TextsFor("unknown") |-> pseudoSemver(s)]

compareUsing(f, o, t) ==
  IF o.strategy # "" /\ f \in {"rpm", "deb"} THEN ComparesWith[f, o.strategy][o.text, t]
  ELSE Compares[f][o.text, t]

(* getComparator: an error comes only with the first call, as what the     *)
(* constructor returned beside it is kept all the same.                    *)
GetError(o, f, known) == f \notin known /\ Fails[f][o.text]
CompareAs(o, f, known, t) == IF GetError(o, f, known) THEN Bad ELSE compareUsing(f, o, t)

(* Below, st is [known, map]: the formats in the map and whether there is  *)
(* one.  A call leaves a new one, with what it returns as out.             *)
(* Version.Compare: its own format, then the other's, on a copy.           *)
AfterOwn(o, st, f, t, own) ==
  LET again == own = Bad /\ o.format # f
  IN [known |-> IF ~st.map THEN st.known ELSE st.known \cup {o.format} \cup IF again THEN {f} ELSE {},
      map |-> st.map,
      out |-> IF again THEN CompareAs(o, f, st.known, t) ELSE own]
Compare(o, st, f, t) == AfterOwn(o, st, f, t, CompareAs(o, o.format, st.known, t))

Holds(op, c) == CASE op = "=" -> c = 0 [] op = "<" -> c < 0 [] op = "<=" -> c <= 0
                  [] op = ">" -> c > 0 [] op = ">=" -> c >= 0
Outcome(op, c) == IF c \in {Bad, Panic} THEN c ELSE IF Holds(op, c) THEN 1 ELSE 0

(* Version.Is, on the object.                                              *)
Is(o, st, op, t) ==
  [known |-> st.known \cup {o.format}, map |-> TRUE, out |-> Outcome(op, CompareAs(o, o.format, st.known, t))]

-----------------------------------------------------------------------------
(* Constraints                                                             *)

CompareObject_Plain(o, st, t) ==
  [known |-> st.known \cup {o.format}, map |-> TRUE,
   out |-> IF GetError(o, o.format, st.known) THEN Bad ELSE Compares[o.format][o.text, t]]

(* compareWithConfig of range_expression.go, on the object.                *)
CompareObject(o, st, t) ==
  [known |-> st.known \cup {o.format}, map |-> TRUE,
   out |-> CompareAs(o, o.format, st.known, t)]

CompareUnit(o, st, f, t) ==
  IF o.strategy # "" /\ f \in {"rpm", "deb"} THEN CompareObject(o, st, t) ELSE Compare(o, st, f, t)

uniqueConstraints_ByFormat(ks) ==
  {i \in DOMAIN ks : \A j \in 1..(i - 1) : ks[j].format # ks[i].format}

(* CombineConstraints keeps the first of those with the same text.         *)
uniqueConstraints(ks) == {i \in DOMAIN ks : \A j \in 1..(i - 1) : ks[j].units # ks[i].units}

(* The alternatives of an expression, without those ruled out.             *)
Left(c, no) == {c[i].or : i \in DOMAIN c} \ no

(* fuzzyConstraint checks semantic versions with the library's constraint. *)
AllSemantic(o, c) == LooksSemantic[o.text] /\ \A i \in DOMAIN c : LooksSemantic[c[i].text]
SemanticNo(o, c) == {c[i].or : i \in {i \in DOMAIN c : ~Holds(c[i].op, Compares["semantic"][o.text, c[i].text])}}

-----------------------------------------------------------------------------
(* Calls on one version                                                    *)

State == [known |-> cached, map |-> hasMap]

(* A job evaluates the operands ks of a constraint from the i-th on.  At   *)
(* "own" and "units" it compares the j-th unit in a format: the version's  *)
(* own, for a fuzzy constraint, or the one the operand has.                *)
NoJob == [at |-> "idle", ks |-> <<>>, i |-> 1, j |-> 1, format |-> "none", no |-> {},
          before |-> [known |-> {}, map |-> FALSE]]
Idle == job.at = "idle"

Init ==
  /\ \E f \in Formats : \E s \in Texts[f], st \in Strategies :
       /\ st # "" => f \in {"rpm", "deb"}
       /\ v = [text |-> s, format |-> f, strategy |-> st]
  /\ hasMap = FALSE /\ cached = {}
  /\ job = NoJob
  /\ last = [call |-> "none", out |-> 0]

(* The call returns r.out and leaves the map as r says.                    *)
Returns(call, r) ==
  /\ Idle
  /\ last' = [call |-> call, out |-> r.out]
  /\ hasMap' = r.map /\ cached' = r.known
  /\ UNCHANGED <<v, job>>

Validate ==
  Returns("validate", [known |-> cached \cup {v.format}, map |-> TRUE,
                       out |-> IF GetError(v, v.format, cached) THEN Bad ELSE 1])
CallIs(op, t) == Returns("is", Is(v, State, op, t))
CallCompare(f, t) == Returns("compare", Compare(v, State, f, t))

(* Satisfied of what GetConstraint and CombineConstraints made.            *)
CallSatisfied(ks) ==
  /\ Idle
  /\ job' = [NoJob EXCEPT !.at = "operand", !.ks = ks, !.before = State]
  /\ last' = [call |-> "none", out |-> 0]
  /\ UNCHANGED <<v, hasMap, cached>>

Answer(out) == job' = NoJob /\ last' = [call |-> "satisfied", out |-> out]
StartUnits(at, f) == job' = [job EXCEPT !.at = at, !.format = f, !.j = 1, !.no = {}] /\ UNCHANGED last

(* The first operand that holds decides; without one none does.            *)
Decide(left) ==
  \/ left # {} /\ Answer(1)
  \/ left = {} /\ job.i = Len(job.ks) /\ Answer(0)
  \/ /\ left = {} /\ job.i < Len(job.ks)
     /\ job' = [job EXCEPT !.at = "operand", !.i = @ + 1] /\ UNCHANGED last

(* What a fuzzy constraint does without, or after, the version's format.   *)
SemanticOrParts ==
  LET c == job.ks[job.i].units
  IN IF AllSemantic(v, c) THEN Decide(Left(c, SemanticNo(v, c))) ELSE StartUnits("units", "unknown")

(* The beginning of Satisfied of each kind of constraint, the empty one    *)
(* first.  CombineConstraints has left out an operand that is a repeat.    *)
Begin(kind) ==
  /\ job.at = "operand" /\ job.i \in uniqueConstraints(job.ks)
  /\ kind = IF job.ks[job.i].format \in {"kb", "unknown"} THEN job.ks[job.i].format ELSE "generic"
  /\ UNCHANGED <<v, hasMap, cached>>
Empty == job.ks[job.i].units = <<>>

BeginGeneric ==
  /\ Begin("generic")
  /\ \/ Empty /\ Answer(1)
     \/ ~Empty /\ StartUnits("units", job.ks[job.i].format)

BeginKB ==
  /\ Begin("kb")
  /\ \/ (Empty \/ v.format # "kb") /\ Answer(Bad)
     \/ ~Empty /\ v.format = "kb" /\ StartUnits("units", "kb")

(* A fuzzy constraint is first taken for one of the version's own format.  *)
BeginFuzzy ==
  /\ Begin("unknown")
  /\ \/ Empty /\ Answer(1)
     \/ ~Empty /\ v.format # "unknown" /\ StartUnits("own", v.format)
     \/ ~Empty /\ v.format = "unknown" /\ SemanticOrParts

SkipRepeated ==
  /\ job.at = "operand" /\ job.i \notin uniqueConstraints(job.ks)
  /\ Decide({})
  /\ UNCHANGED <<v, hasMap, cached>>

(* One unit of simpleRangeExpression.satisfied: all are evaluated, and the *)
(* first that cannot be compared ends it.                                  *)
EvalUnit ==
  /\ job.at \in {"own", "units"} /\ job.j <= Len(job.ks[job.i].units)
  /\ \E u \in {job.ks[job.i].units[job.j]} : \E r \in {CompareUnit(v, State, job.format, u.text)} :
       /\ hasMap' = r.map /\ cached' = r.known
       /\ \/ r.out = Panic /\ Answer(Panic)
          \/ r.out = Bad /\ job.at = "units" /\ Answer(Bad)
          \/ r.out = Bad /\ job.at = "own" /\ SemanticOrParts
          \/ /\ r.out \notin {Bad, Panic}
             /\ job' = [job EXCEPT !.j = @ + 1, !.no = IF Holds(u.op, r.out) THEN @ ELSE @ \cup {u.or}]
             /\ UNCHANGED last
  /\ UNCHANGED v

EndUnits ==
  /\ job.at \in {"own", "units"} /\ job.j > Len(job.ks[job.i].units)
  /\ Decide(Left(job.ks[job.i].units, job.no))
  /\ UNCHANGED <<v, hasMap, cached>>

Unit(or, op, t) == [or |-> or, op |-> op, text |-> t]
Below(t) == <<Unit(1, "<", t)>>
Between(s, t) == <<Unit(1, ">=", s), Unit(1, "<", t), Unit(2, "=", s)>>
Units == {<<>>} \cup {Below(t) : t \in Fixes[v.format]} \cup {Between(s, t) : s, t \in Fixes[v.format]}
Operand(f, c) == [format |-> f, units |-> c]

Others == {v.format} \cup IF v.format = "jvm" THEN {} ELSE Askers

Next ==
  \/ Validate
  \/ \E op \in {"<", "="}, t \in Fixes[v.format] : CallIs(op, t)
  \/ \E f \in Others, t \in Fixes[v.format] : CallCompare(f, t)
  \/ \E f \in Others, c \in Units : CallSatisfied(<<Operand(f, c)>>)
  \/ \E f \in Others, s, t \in Fixes[v.format] : CallSatisfied(<<Operand(f, Below(s)), Operand(f, Between(s, t))>>)
  \/ \E f \in Others, t \in Fixes[v.format] : CallSatisfied(<<Operand(f, Below(t)), Operand(v.format, Below(t))>>)
  \/ BeginGeneric
  \/ BeginKB
  \/ BeginFuzzy
  \/ SkipRepeated
  \/ EvalUnit
  \/ EndUnits

Spec == Init /\ [][Next]_vars

-----------------------------------------------------------------------------
(* Properties.  The order of texts is looked at once for every version, in *)
(* the state in which it was made.                                         *)

Unused == last.call = "none" /\ Idle
Comparable(f, s) == ~Fails[f][s] /\ ~(f = "portage" /\ PortageError(s))
Order(s, t) == Compares[v.format][s, t]
Peers == {s \in Texts[v.format] : Comparable(v.format, s)}
Swapped(s, t) == Order(s, t) = -Order(t, s)
Through(s, t, u) == Order(s, t) <= 0 /\ Order(t, u) <= 0 => Order(s, u) <= 0

(* Whichever of two versions is asked, the answer is the same: swapping    *)
(* them changes the sign, also when they differ in tildes, leading zeros,  *)
(* trailing zeros, separators or suffixes.  (A KB number is only equal or  *)
(* not, and a local label of Python counts on one side only.)              *)
CompareAntisymmetric ==
  Unused /\ v.format \notin {"kb", "python"} /\ v.text \in Peers => \A t \in Peers : Swapped(v.text, t)

ZeroSegment(s) == \E i \in DOMAIN s : IsNum(s[i]) /\ s[i].n = 0
Alike ==
  IF v.format \in {"rpm", "pacman"}
  THEN {s \in Peers : ~ZeroSegment(AfterEpoch(s)) /\ (EpochOf(s) = NoEpoch <=> EpochOf(v.text) = NoEpoch)}
  ELSE Peers

(* Sorting, and a range with two ends, rest on transitivity: the gem,      *)
(* portage and jvm comparators have it although they trim zeros, compare   *)
(* some components as decimals and take an update for a patch.  The rpm    *)
(* comparator has it as long as no segment is a zero and either all or     *)
(* none of the versions have an epoch.                                     *)
CompareTransitive ==
  Unused /\ v.format \in {"gem", "portage", "jvm", "rpm", "pacman"} /\ v.text \in Alike
    => \A t, u \in Alike : Through(v.text, t, u)

WithEpoch(e, s, t) ==
  LET full == <<e, Mark(":")>> \o s
  IN IF v.format = "rpm" THEN CompareRpm(newRpmVersion(full), newRpmVersion(t))
     ELSE CompareDeb(newDebVersion(full), newDebVersion(t))

(* An rpm constraint without an epoch, asked of a package with one, is     *)
(* where the code and its comment disagree: CompareWithConfig is said to   *)
(* treat the constraint as having epoch 0, and compare drops both epochs.  *)
EpochAgreed(s, t) == v.format = "deb" \/ EpochOf(s) = NoEpoch \/ EpochOf(t) # NoEpoch

(* A missing-epoch strategy says what text the package should have had:    *)
(* the constraint's epoch ("auto") or 0 ("zero"), and nothing else.  It    *)
(* has no say when the package has an epoch too or the constraint has none *)
(* either.  Nothing is claimed where EpochAgreed is false.                 *)
EpochSupplied ==
  v.format \in {"rpm", "deb"} /\ v.strategy # "" /\ v.text \in Peers /\ Unused =>
    \A t \in Peers : EpochAgreed(v.text, t) =>
      Compare(v, State, v.format, t).out =
        IF EpochOf(v.text) # NoEpoch \/ EpochOf(t) = NoEpoch THEN Order(v.text, t)
        ELSE LET e == IF v.strategy = "auto" THEN t[1] ELSE Num(1, 0)
             IN WithEpoch(e, v.text, t)

Answered == ~Idle /\ job'.at = "idle"

(* Matchers ask the same question in two ways, Satisfied("< fix") of an    *)
(* advisory and Is(LT, fix) of its fixes: the answers agree, whatever the  *)
(* version was asked before.                                               *)
SameQuestion ==
  [][Answered => \A t \in Fixes[v.format] :
       v.format # "unknown" /\ job.ks = <<Operand(v.format, Below(t))>>
         => last'.out = Is(v, job.before, "<", t).out]_vars

Meets(o, u) == Holds(u.op, compareUsing(o.format, o, u.text))
Meaning(o, c) == c = <<>> \/ \E k \in DOMAIN c : \A i \in DOMAIN c : c[i].or = c[k].or => Meets(o, c[i])

(* Where the versions can be compared as the package's own format, that is *)
(* how they are compared whatever format the advisory has, and the answer  *)
(* is that some alternative of some constraint holds in all its parts.     *)
SatisfiedMeans ==
  [][(/\ Answered /\ v.text \in Peers
      /\ \A i \in DOMAIN job.ks :
           /\ job.ks[i].format # "kb"
           /\ \A j \in DOMAIN job.ks[i].units : job.ks[i].units[j].text \in Peers)
     => last'.out = IF \E i \in DOMAIN job.ks : Meaning(v, job.ks[i].units) THEN 1 ELSE 0]_vars

(* The two spellings of a Java release are one version.                    *)
JvmSpellings ==
  Unused /\ v.format = "jvm" /\ Comparable("jvm", v.text) =>
    LET t == v.text[1]
        same(s) == CompareLib(newJvmVersion(v.text), newJvmVersion(s)) = 0
    IN /\ t.old => same(JVM(FALSE, t.major, t.minor, None, t.patch, t.pre))
       /\ t.old => same(JVM(FALSE, t.major, t.minor, t.patch, None, t.pre))
       /\ ~t.old /\ t.patch \in {None, Num(1, 0)} => same(JVM(TRUE, t.major, t.minor, t.update, None, t.pre))

(* The comparators are sound: each format is an order under which ranges   *)
(* mean something, two spellings of one Java release are one version, and  *)
(* a missing epoch is supplied as the strategy says.                       *)
ComparatorsSound ==
  /\ CompareAntisymmetric
  /\ CompareTransitive
  /\ JvmSpellings
  /\ EpochSupplied

=============================================================================
