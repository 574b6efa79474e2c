---------------------------- MODULE VersionOrder ----------------------------
(***************************************************************************)
(* The comparison of two versions in each format (grype/version).          *)
(*                                                                         *)
(* A version text is a sequence of tokens: numerals (z leading zeros and a *)
(* value n, so that "0", "00" and "05" differ), words (n is their rank in  *)
(* the order of strings) and the punctuation the formats look at.  Formats *)
(* whose order is that of a library compare with libCompare.               *)
(***************************************************************************)
EXTENDS Integers, Sequences, FiniteSetsExt

Num(z, n) == [k |-> "num", z |-> z, n |-> n]
Mark(c) == [k |-> c, z |-> 0, n |-> 0]
Marks == {".", "-", "_", "~", ":", "+"}

(* Words in the order of strings, their lengths and first letters.         *)
Words == <<"alpha", "b", "beta", "go", "java", "jre", "p", "pre", "r", "rc", "v">>
WordLen == <<5, 1, 4, 2, 4, 3, 1, 3, 1, 2, 1>>
Initial == <<1, 2, 2, 7, 10, 10, 16, 16, 18, 18, 22>>
RankOf(w) == CHOOSE i \in DOMAIN Words : Words[i] = w
Word(w) == [k |-> "word", z |-> 0, n |-> RankOf(w)]

Token == [k : {"num", "word"} \cup Marks, z : Nat, n : Nat]
Text == Seq(Token)

Sign(i) == IF i > 0 THEN 1 ELSE IF i < 0 THEN -1 ELSE 0

IsNum(t) == t.k = "num"
IsWord(t) == t.k = "word"
First(s, c) == {i \in DOMAIN s : s[i].k = c /\ \A j \in 1..(i - 1) : s[j].k # c}
Before(s, c) == IF First(s, c) = {} THEN s
                ELSE LET i == CHOOSE i \in First(s, c) : TRUE IN SubSeq(s, 1, i - 1)
After(s, c) == IF First(s, c) = {} THEN <<>>
               ELSE LET i == CHOOSE i \in First(s, c) : TRUE IN SubSeq(s, i + 1, Len(s))

StartsWithNum(s) == s # <<>> /\ IsNum(Head(s))
trimLeadingV(s) == IF Len(s) >= 2 /\ s[1] = Word("v") /\ IsNum(s[2]) THEN Tail(s) ELSE s

(* An order the libraries have in common: segment by segment, a tilde      *)
(* before the end of the text and the end before a word or a number.       *)
IsSegment(t) == t.k \in {"num", "word", "~"}
Weight(s, i) == IF i > Len(s) THEN <<1, 0>>
                ELSE IF s[i].k = "~" THEN <<0, 0>>
                ELSE IF IsWord(s[i]) THEN <<2, s[i].n>> ELSE <<3, s[i].n>>
libCompare(a, b) ==
  LET sa == SelectSeq(a, IsSegment)
      sb == SelectSeq(b, IsSegment)
      differ == {i \in 1..(Len(sa) + Len(sb)) : Weight(sa, i) # Weight(sb, i)}
  IN IF differ = {} THEN 0
     ELSE LET x == Weight(sa, Min(differ))
              y == Weight(sb, Min(differ))
          IN IF x[1] # y[1] THEN Sign(x[1] - y[1]) ELSE Sign(x[2] - y[2])

-----------------------------------------------------------------------------
(* rpm and pacman: [epoch:]version[-release]                               *)

NoEpoch == -1

(* Atoi accepts one numeral; anything else before the colon is an error.   *)
EpochError(s) == First(s, ":") # {} /\ ~(Len(Before(s, ":")) = 1 /\ StartsWithNum(s))
EpochOf(s) == IF First(s, ":") = {} THEN NoEpoch ELSE s[1].n
AfterEpoch(s) == IF First(s, ":") = {} THEN s ELSE After(s, ":")

newRpmVersion(s) ==
  [epoch |-> EpochOf(s), version |-> Before(AfterEpoch(s), "-"), release |-> After(AfterEpoch(s), "-")]

CompareSegment_TildeFirst(a, b) ==
  IF a.k = "~" \/ b.k = "~" THEN IF a.k # "~" THEN 1 ELSE -1
  ELSE IF IsNum(a) # IsNum(b) THEN IF IsNum(a) THEN 1 ELSE -1
  ELSE Sign(a.n - b.n)

(* One iteration: tildes first, then words, then numbers by value.         *)
CompareSegment(a, b) ==
  IF a.k = "~" \/ b.k = "~" THEN IF a.k # "~" THEN 1 ELSE IF b.k # "~" THEN -1 ELSE 0
  ELSE IF IsNum(a) # IsNum(b) THEN IF IsNum(a) THEN 1 ELSE -1
  ELSE Sign(a.n - b.n)

(* The longer of two lists that agree as far as the shorter one goes.      *)
Longer(long, n) ==
  IF long[n + 1].k = "~" THEN -1
  ELSE IF \A i \in (n + 1)..Len(long) : long[i] = Num(1, 0) THEN 0 ELSE 1

CompareSegments(sa, sb) ==
  LET common == {i \in DOMAIN sa : i \in DOMAIN sb}
      differ == {i \in common : CompareSegment(sa[i], sb[i]) # 0}
  IN IF differ # {} THEN CompareSegment(sa[Min(differ)], sb[Min(differ)])
     ELSE IF Len(sa) = Len(sb) THEN 0
     ELSE IF Len(sa) > Len(sb) THEN Longer(sa, Len(sb)) ELSE -Longer(sb, Len(sa))

compareRpmVersions(a, b) ==
  IF a = b THEN 0 ELSE CompareSegments(SelectSeq(a, IsSegment), SelectSeq(b, IsSegment))

(* Epochs count only when both are given.                                  *)
CompareRpm(v, w) ==
  LET epochs == IF NoEpoch \in {v.epoch, w.epoch} THEN 0 ELSE Sign(v.epoch - w.epoch)
      versions == compareRpmVersions(v.version, w.version)
  IN IF epochs # 0 THEN epochs
     ELSE IF versions # 0 THEN versions ELSE compareRpmVersions(v.release, w.release)

(* A strategy supplies the missing epoch of the package, the left side.    *)
RpmWithConfig(v, w, strategy) ==
  IF strategy # "" /\ v.epoch = NoEpoch /\ w.epoch # NoEpoch
  THEN CompareRpm([v EXCEPT !.epoch = IF strategy = "auto" THEN w.epoch ELSE 0], w)
  ELSE CompareRpm(v, w)

-----------------------------------------------------------------------------
(* deb: a missing epoch is 0 to the library.                               *)

newDebVersion(s) == [epoch |-> EpochOf(s), text |-> AfterEpoch(s)]
DebError(s) == EpochError(s) \/ ~StartsWithNum(AfterEpoch(s))

CompareDeb(v, w) ==
  LET e == [x \in {v, w} |-> IF x.epoch = NoEpoch THEN 0 ELSE x.epoch]
  IN IF e[v] # e[w] THEN Sign(e[v] - e[w]) ELSE libCompare(v.text, w.text)

DebWithConfig(v, w, strategy) ==
  IF strategy = "auto" /\ v.epoch = NoEpoch /\ w.epoch # NoEpoch
  THEN CompareDeb([v EXCEPT !.epoch = w.epoch], w) ELSE CompareDeb(v, w)

-----------------------------------------------------------------------------
(* gem                                                                     *)

(* cleanArchFromVersion cuts the text at the first "-<platform>".          *)
Platforms == {"java"}
ArchAt(s) == {i \in 1..(Len(s) - 1) : s[i].k = "-" /\ s[i + 1] \in {Word(p) : p \in Platforms}}
cleanArch(s) == IF ArchAt(s) = {} THEN s ELSE SubSeq(s, 1, Min(ArchAt(s)) - 1)
Processed(s) == IF cleanArch(s) = <<>> THEN <<Num(1, 0)>> ELSE cleanArch(s)

Separator(t) == t.k \in {".", "-"}

(* Each dash becomes ".pre.": dots at either end or side by side are bad.  *)
GemError(s) ==
  LET p == Processed(s)
  IN \/ \E i \in DOMAIN p : ~IsNum(p[i]) /\ ~IsWord(p[i]) /\ ~Separator(p[i])
     \/ Separator(p[1]) \/ Separator(p[Len(p)])
     \/ \E i \in 1..(Len(p) - 1) : Separator(p[i]) /\ Separator(p[i + 1])

GemSegments(s) ==
  LET p == Processed(s)
      seg(t) == IF t.k = "-" THEN Word("pre") ELSE [t EXCEPT !.z = 0]
      kept(t) == t.k # "."
      q == SelectSeq(p, kept)
  IN [i \in DOMAIN q |-> seg(q[i])]

Zero == Num(0, 0)
TrimZeros(s) == LET sig == {i \in DOMAIN s : s[i] # Zero}
                IN IF sig = {} THEN <<>> ELSE SubSeq(s, 1, Max(sig))
OrZero(s) == IF s = <<>> THEN <<Zero>> ELSE s

(* trimTrailingZeros, then trimIntermediateZeros before the first word.    *)
Canonical(s) ==
  LET t == OrZero(TrimZeros(s))
      words == {i \in DOMAIN t : IsWord(t[i])}
  IN IF words = {} THEN t
     ELSE TrimZeros(SubSeq(t, 1, Min(words) - 1)) \o SubSeq(t, Min(words), Len(t))

newGemVersion(s) == Canonical(GemSegments(s))

CompareGemSegment(l, r) ==
  IF IsNum(l) = IsNum(r) THEN Sign(l.n - r.n) ELSE IF IsNum(l) THEN 1 ELSE -1

(* compareLengths: what the longer one has beyond the other decides.       *)
Beyond(s, n) ==
  LET sig == {i \in (n + 1)..Len(s) : s[i] # Zero}
  IN IF sig = {} THEN 0 ELSE IF IsWord(s[Min(sig)]) THEN -1 ELSE 1

CompareGem(l, r) ==
  LET differ == {i \in DOMAIN l \cap DOMAIN r : CompareGemSegment(l[i], r[i]) # 0}
  IN IF differ # {} THEN CompareGemSegment(l[Min(differ)], r[Min(differ)])
     ELSE IF Len(l) >= Len(r) THEN Beyond(l, Len(r)) ELSE -Beyond(r, Len(l))
-----------------------------------------------------------------------------
(* Formats that rest on a semantic version library (external): numbers,    *)
(* then a pre-release, which comes before the release.                     *)

CoreLen(s) == Max({0} \cup {i \in DOMAIN s : \A j \in 1..i : IsNum(s[j]) <=> j % 2 = 1
                                                           /\ j % 2 = 0 => s[j].k = "."})
newLibVersion(s) ==
  LET n == IF CoreLen(s) % 2 = 0 THEN CoreLen(s) - 1 ELSE CoreLen(s)
      rest == Before(SubSeq(s, n + 1, Len(s)), "+")
      segment(t) == IsNum(t) \/ IsWord(t)
  IN [core |-> [i \in 1..((n + 1) \div 2) |-> s[2 * i - 1].n], pre |-> SelectSeq(rest, segment)]
LibError(s) == ~StartsWithNum(s) \/ (CoreLen(s) < Len(s) /\ CoreLen(s) % 2 = 0)

At(core, i) == IF i \in DOMAIN core THEN core[i] ELSE 0
PreWeight(pre, i) == IF i > Len(pre) THEN <<0, 0>>
                     ELSE IF IsNum(pre[i]) THEN <<1, pre[i].n>> ELSE <<2, pre[i].n>>
CompareCore(v, w) ==
  LET differ == {i \in 1..(Len(v) + Len(w)) : At(v, i) # At(w, i)}
  IN IF differ = {} THEN 0 ELSE Sign(At(v, Min(differ)) - At(w, Min(differ)))
CompareLib(v, w) ==
  LET differ == {i \in 1..(Len(v.pre) + Len(w.pre)) : PreWeight(v.pre, i) # PreWeight(w.pre, i)}
      x == PreWeight(v.pre, Min(differ))
      y == PreWeight(w.pre, Min(differ))
  IN IF CompareCore(v.core, w.core) # 0 THEN CompareCore(v.core, w.core)
     ELSE IF differ = {} THEN 0
     ELSE IF v.pre = <<>> THEN 1 ELSE IF w.pre = <<>> THEN -1
     ELSE IF x[1] # y[1] THEN Sign(x[1] - y[1]) ELSE Sign(x[2] - y[2])

(* semverPrereleaseNormalizer: ".alpha", ".beta" and ".rc" are pre-releases *)
Normalized(s) ==
  [i \in DOMAIN s |-> IF s[i].k = "." /\ i < Len(s) /\ s[i + 1] \in {Word("alpha"), Word("beta"), Word("rc")}
                      THEN Mark("-") ELSE s[i]]
SemanticText(s) == trimLeadingV(Normalized(s))

(* A Go version: "go" is taken off, "(devel)" is refused.                  *)
Devel == <<[k |-> "(devel)", z |-> 0, n |-> 0]>>
GoText(s) == LET t == IF s # <<>> /\ s[1] = Word("go") THEN Tail(s) ELSE s IN trimLeadingV(t)
GolangError(s) == s = Devel \/ LibError(GoText(s))
CompareGolang(v, w) == IF v = w THEN 0 ELSE CompareLib(newLibVersion(GoText(v)), newLibVersion(GoText(w)))

(* Bitnami revisions and pre-releases do not count.                        *)
CompareBitnami(v, w) == CompareCore(newLibVersion(v).core, newLibVersion(w).core)

(* stripJavaRuntimeQualifier: ".jre11" at the end does not count.          *)
stripJavaRuntime(s) ==
  LET n == Len(s)
  IN IF n > 3 /\ IsNum(s[n]) /\ s[n - 1] = Word("jre") /\ s[n - 2].k = "." THEN SubSeq(s, 1, n - 3) ELSE s

(* PEP 440: a local label of the package counts only against another one.  *)
newPep440Version(s) == [public |-> Before(s, "+"), local |-> After(s, "+")]
ComparePep440(v, w) ==
  IF libCompare(v.public, w.public) # 0 THEN libCompare(v.public, w.public)
  ELSE IF w.local = <<>> THEN 0 ELSE libCompare(v.local, w.local)

-----------------------------------------------------------------------------
(* jvm: the fields of one token, "" being the numeral without digits.      *)

None == Num(0, 0)
JVM(old, major, minor, patch, update, pre) ==
  <<[k |-> "jvm", old |-> old, major |-> major, minor |-> minor, patch |-> patch,
     update |-> update, pre |-> pre]>>

trim0s(t) == IF t = Num(1, 0) THEN t ELSE Num(0, t.n)

(* convertPreJep223Version (1.8.0_302, whose update is its patch) and      *)
(* convertNonCompliantSemver (8.0-update302).                              *)
JvmPatch(v) ==
  LET patch == trim0s(v.patch)
      update == trim0s(v.update)
  IN IF patch \in {None, Num(1, 0)} /\ update # None /\ ~v.old THEN update ELSE patch

newJvmVersion(s) ==
  LET v == s[1] IN
  [core |-> <<trim0s(v.major).n, trim0s(v.minor).n, JvmPatch(v).n>>,
   pre |-> IF v.pre = 0 THEN <<>> ELSE <<[k |-> "word", z |-> 0, n |-> v.pre]>>]
JvmError(s) == trim0s(s[1].major) = None

-----------------------------------------------------------------------------
(* portage: numbers, a letter, suffixes, a revision                        *)

Digits(n) == IF n = 0 THEN 0 ELSE IF n < 10 THEN 1 ELSE IF n < 100 THEN 2 ELSE 3
NumLen(t) == t.z + Digits(t.n)
Power10(i) == <<1, 10, 100, 1000, 10000>>[i + 1]

(* The expression is not anchored: the match starts at the first numeral.  *)
PortageError(s) == First(s, "num") = {}
From(s) == LET i == CHOOSE i \in First(s, "num") : TRUE IN SubSeq(s, i, Len(s))
Dots(s) == Max({j \in 0..Len(s) : \A i \in 1..j : 2 * i + 1 <= Len(s) /\ s[2 * i].k = "." /\ IsNum(s[2 * i + 1])})

SuffixValue == [w \in {"alpha", "beta", "pre", "rc", "p"} |->
                  CASE w = "alpha" -> -4 [] w = "beta" -> -3 [] w = "pre" -> -2 [] w = "rc" -> -1 [] w = "p" -> 0]
IsSuffixWord(t) == IsWord(t) /\ Words[t.n] \in DOMAIN SuffixValue

(* Tokens q..e are suffixes: "_", a word and possibly a numeral each.      *)
AreSuffixes(s, q, e) ==
  \A i \in q..e : \/ s[i].k = "_" /\ i + 1 <= e /\ IsSuffixWord(s[i + 1])
                  \/ IsSuffixWord(s[i]) /\ i > q /\ s[i - 1].k = "_"
                  \/ IsNum(s[i]) /\ i > q /\ IsSuffixWord(s[i - 1])

newPortageVersion(raw) ==
  LET s == From(raw)
      n == 2 * Dots(s) + 1
      hasLetter == n < Len(s) /\ IsWord(s[n + 1])
      cut == hasLetter /\ WordLen[s[n + 1].n] > 1   \* the rest of the word stops the match
      q == IF hasLetter THEN n + 2 ELSE n + 1
      e == IF cut THEN q - 1 ELSE Max({j \in (q - 1)..Len(s) : AreSuffixes(s, q, j)})
      isSuffix(i) == s[i].k = "_"
      marks == SelectSeq([i \in 1..(e - q + 1) |-> q + i - 1], isSuffix)
      number(i) == IF i + 2 <= e /\ IsNum(s[i + 2]) THEN s[i + 2].n ELSE 0
      hasRev == ~cut /\ e + 3 <= Len(s) /\ s[e + 1].k = "-" /\ s[e + 2] = Word("r") /\ IsNum(s[e + 3])
  IN [head |-> s[1].n,
      dots |-> [i \in 1..Dots(s) |-> s[2 * i + 1]],
      letter |-> IF hasLetter THEN Initial[s[n + 1].n] ELSE 0,
      suffixes |-> [i \in DOMAIN marks |-> [value |-> SuffixValue[Words[s[marks[i] + 1].n]],
                                            number |-> number(marks[i])]],
      rev |-> IF hasRev THEN s[e + 3].n ELSE 0]

(* Components are numbers, or decimals if either begins with a zero.       *)
CompareDot(a, b, i) ==
  IF i > Len(a) THEN -1 ELSE IF i > Len(b) THEN 1
  ELSE LET len == IF NumLen(a[i]) > NumLen(b[i]) THEN NumLen(a[i]) ELSE NumLen(b[i])
           value(t) == IF a[i].z = 0 /\ b[i].z = 0 THEN t.n ELSE t.n * Power10(len - NumLen(t))
       IN Sign(value(a[i]) - value(b[i]))

(* A missing suffix is "_p-1".                                             *)
Suffix(s, i) == IF i \in DOMAIN s THEN s[i] ELSE [value |-> 0, number |-> -1]

ComparePortage(v, w) ==
  LET dots == {i \in 1..Max({Len(v.dots), Len(w.dots)}) : CompareDot(v.dots, w.dots, i) # 0}
      suffixes == {i \in 1..Max({Len(v.suffixes), Len(w.suffixes)}) : Suffix(v.suffixes, i) # Suffix(w.suffixes, i)}
      a == Suffix(v.suffixes, Min(suffixes))
      b == Suffix(w.suffixes, Min(suffixes))
  IN IF v.head # w.head THEN Sign(v.head - w.head)
     ELSE IF dots # {} THEN CompareDot(v.dots, w.dots, Min(dots))
     ELSE IF v.letter # w.letter THEN Sign(v.letter - w.letter)
     ELSE IF suffixes = {} THEN Sign(v.rev - w.rev)
     ELSE IF a.value # b.value THEN Sign(a.value - b.value) ELSE Sign(a.number - b.number)
-----------------------------------------------------------------------------
(* Unknown formats: semantic versions if both look like one, otherwise     *)
(* part by part (fuzzyVersionComparison).                                  *)

IsMark(t) == t.k \in Marks
Plain(t) == IsNum(t) => t.z = 0 \/ t = Num(1, 0)

pseudoSemver(raw) ==
  LET s == Before(trimLeadingV(raw), "+")
      n == CoreLen(s)
  IN /\ n \in {1, 3, 5}
     /\ \A i \in DOMAIN s : Plain(s[i])
     /\ n < Len(s) => /\ s[n + 1] \in {Mark("-"), Word("alpha"), Word("beta"), Word("rc")}
                      /\ n + 2 <= Len(s) /\ ~IsMark(s[n + 2]) /\ ~IsMark(s[Len(s)])
                      /\ \A i \in (n + 2)..Len(s) : IsMark(s[i]) => s[i].k = "."

TokenLen(t) == IF IsNum(t) THEN NumLen(t) ELSE IF IsWord(t) THEN WordLen[t.n]
               ELSE IF t = Devel[1] THEN 7 ELSE 1
TextLen(s) == LET len(i) == TokenLen(s[i]) IN MapThenSumSet(len, DOMAIN s)

(* parseVersionParts: any mark ends a part; a leading run of digits is     *)
(* padded to the length of the other's, so that its value counts.          *)
MarkAt(s, i) == IF i = 0 THEN 0
                ELSE CHOOSE j \in DOMAIN s : IsMark(s[j]) /\ Cardinality({k \in 1..j : IsMark(s[k])}) = i
MarksIn(s) == Cardinality({i \in DOMAIN s : IsMark(s[i])})
Part(s, i) ==
  LET end == IF i = MarksIn(s) + 1 THEN Len(s) ELSE MarkAt(s, i) - 1
      p == SubSeq(s, MarkAt(s, i - 1) + 1, end)
      q == IF StartsWithNum(p) THEN Tail(p) ELSE p
  IN [lead |-> IF StartsWithNum(p) THEN p[1].n ELSE 0,
      word |-> IF q = <<>> THEN 0 ELSE q[1].n,
      patch |-> IF Len(q) > 1 THEN q[2].n ELSE -1,
      zeros |-> IF Len(q) > 1 THEN q[2].z ELSE 0]
PartsIn(s) == IF s = <<>> THEN 0 ELSE IF IsMark(s[Len(s)]) THEN MarksIn(s) ELSE MarksIn(s) + 1

(* comparePatchNumbers: by value, and equal values by their text.          *)
ComparePart(a, b) ==
  IF a.lead # b.lead THEN Sign(a.lead - b.lead)
  ELSE IF a.word # b.word THEN Sign(a.word - b.word)
  ELSE IF a.patch # b.patch THEN Sign(a.patch - b.patch)
  ELSE IF a.patch = 0 THEN Sign(a.zeros - b.zeros) ELSE Sign(b.zeros - a.zeros)

fuzzyVersionComparison(raw1, raw2) ==
  LET v == IF raw1 # <<>> /\ raw1[1] = Word("v") THEN Tail(raw1) ELSE raw1
      w == IF raw2 # <<>> /\ raw2[1] = Word("v") THEN Tail(raw2) ELSE raw2
      differ == {i \in 1..PartsIn(v) : i <= PartsIn(w) /\ ComparePart(Part(v, i), Part(w, i)) # 0}
  IN IF differ # {} THEN ComparePart(Part(v, Min(differ)), Part(w, Min(differ)))
     ELSE Sign(TextLen(v) - TextLen(w))

CompareFuzzy(v, w) ==
  IF pseudoSemver(v) /\ pseudoSemver(w)
  THEN CompareLib(newLibVersion(SemanticText(v)), newLibVersion(SemanticText(w)))
  ELSE fuzzyVersionComparison(v, w)
=============================================================================
