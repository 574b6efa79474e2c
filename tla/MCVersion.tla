------------------------------ MODULE MCVersion -----------------------------
(* Texts that differ in what each format treats specially.                 *)
EXTENDS Version

N(n) == IF n = 0 THEN Num(1, 0) ELSE Num(0, n)
D(a, b) == <<N(a), Mark("."), N(b)>>

common == {<<N(1)>>, D(1, 0), D(1, 2), <<N(1), Mark("."), Num(1, 2)>>, D(1, 10),
           <<N(1), Mark("."), Word("rc"), N(1)>>, <<N(1), Mark("-"), N(2)>>,
           <<Word("b"), Mark(":"), N(1)>>}

epochs == {<<N(0), Mark(":"), N(1)>>, <<N(1), Mark(":"), N(1)>>, <<N(2), Mark(":"), N(1), Mark("-"), N(1)>>}

segments == {<<N(1), Mark("~"), Word("rc"), N(1)>>, <<N(1), Mark("~"), Word("b")>>, <<N(1), Word("p"), N(2)>>, <<N(1), Mark("_"), N(2)>>,
             <<N(1), Mark("."), Num(2, 0)>>, <<N(1), Mark("-"), N(2), Mark("~"), Word("b")>>}

gems == {<<N(1), Mark("."), Word("b")>>, <<N(1), Mark("."), N(0), Mark("."), Word("b")>>,
         <<N(1), Mark("-"), Word("java")>>, <<N(1), Mark("."), Word("b"), Mark("."), N(0), Mark("."), N(1)>>,
         <<N(1), Mark("."), N(0), Mark("."), N(0)>>, <<Mark("."), N(1)>>}

ebuilds == {<<N(1), Word("b")>>, <<N(1), Mark("."), Num(1, 2), Word("b")>>, <<N(1), Mark("_"), Word("p")>>,
            <<N(1), Mark("_"), Word("pre"), N(2)>>, <<N(1), Mark("_"), Word("p"), N(1), Mark("-"), Word("r"), N(1)>>,
            <<N(1), Mark("-"), Word("r"), N(2)>>, <<N(1), Mark("."), Num(1, 10)>>, D(1, 3), <<N(1), Mark("."), Num(2, 0)>>}

javas == {JVM(o, mj, mi, pa, up, pr) : o \in BOOLEAN, mj \in {N(8), Num(1, 8)}, mi \in {None, N(0)},
                                      pa \in {None, N(0), Num(1, 5)}, up \in {None, N(5)}, pr \in {0, 1}}

mcTexts ==
  [f \in AllFormats |->
     CASE f \in {"rpm", "deb"} -> common \cup epochs \cup segments
       [] f = "pacman" -> {<<N(1)>>, D(1, 0)} \cup segments
       [] f = "gem" -> common \cup gems
       [] f = "portage" -> (common \cup ebuilds)
       [] f = "jvm" -> {t \in javas : (t[1].old => t[1].update = None) /\ (t[1].pre = 0 \/ t[1].minor = None)
                                       /\ (t[1].major = N(8) \/ t[1].patch = None)}
       [] f = "go" -> {<<Word("v")>> \o D(1, 2), <<Word("go")>> \o D(1, 2), D(1, 2) \o <<Mark("+"), N(1)>>, Devel, <<N(1)>>}
       [] f = "python" -> {<<N(1)>>, D(1, 0), <<N(1), Mark("+"), N(1)>>, <<N(1), Mark("+"), N(2)>>, <<Word("b")>>}
       [] f = "maven" -> common \cup {D(1, 2) \o <<Mark("."), Word("jre"), N(11)>>}
       [] f = "unknown" -> common \cup {<<N(8), Word("p"), N(9)>>, <<N(8), Word("p"), N(15)>>, <<N(8), Word("p"), Num(1, 9)>>,
                                       <<Num(2, 1)>>, <<Word("v"), N(1)>>, <<N(1), Mark(".")>>}
       [] OTHER -> common]

(* Of each format, one text that compares with all, one that may be equal, *)
(* and one that cannot be parsed where there is any.                       *)
mcFixes ==
  [f \in AllFormats |->
     mcTexts[f] \cap
       IF f = "jvm" THEN {JVM(TRUE, N(8), N(0), Num(1, 5), None, 0), JVM(FALSE, N(8), N(0), None, N(5), 0)}
       ELSE {D(1, 2), <<N(1), Mark(":"), N(1)>>, <<Word("b"), Mark(":"), N(1)>>, <<Word("b")>>, Devel, <<Mark("."), N(1)>>}]
=============================================================================
