-------------------------- MODULE RootCommandProofs -------------------------
(***************************************************************************)
(* What is proved of a run of grype: however it ends, it ends clean.  The  *)
(* invariant follows the reports from the outputs through the event queue  *)
(* and the interface to the terminal, and the files from one output to the *)
(* next.                                                                   *)
(***************************************************************************)
EXTENDS RootCommand, SequenceTheorems, FiniteSetTheorems, Induction

Goroutines == {"update", "db", "packages"}
Early == {"start", "rules", "parallel", "vex", "match"}

(* What an event may say.                                                  *)
Texts == {"done", "interrupted", "new version", "checksum"}
         \cup {d.type : d \in EOL} \cup {o.format : o \in Range(Outputs)}
Events == [kind : {"report", "notification", "update", "exit"}, body : Texts]

TypeInv ==
  /\ req \in Requests
  /\ catalog = ProvidePackages(req.in, req.config)
  /\ pc \in Early \cup {"write", "returned"}
  /\ workers \in [Goroutines -> {None, "ok", "database", "catalog"}]
  /\ workers["update"] \in {None, "ok"}
  /\ workers["db"] \in {None, "ok", "database"}
  /\ workers["packages"] \in {None, "ok", "catalog"}
  /\ workers["packages"] = "ok" => found = catalog /\ catalog.kind = "ok"
  /\ pc \in {"vex", "match", "write"} => \A w \in Goroutines : workers[w] = "ok"
  /\ store \in {"open", "closed"}
  /\ outs \in 0..Len(Outputs)
  /\ queue \in Seq(Events)
  /\ ui \in [alive : BOOLEAN, hand : Seq(Events), final : Seq(Events), closing : {None, "plain", "forced"}]
  /\ exit \in {None, 0, 1, 2}
  /\ interrupted \in BOOLEAN

(* An exit event is the last thing a run says, and only the user's comes   *)
(* before the main goroutine has returned.                                 *)
ExitLast ==
  /\ \A i \in DOMAIN queue : queue[i].kind = "exit" =>
       /\ queue[i].body \in {"done", "interrupted"}
       /\ queue[i].body = "done" => pc = "returned"
       /\ queue[i].body # "done" => interrupted
       /\ ~interrupted => i = Len(queue)

(* While the interface is torn down the event loop takes no more events:   *)
(* unless the user interrupts, none are left, and nothing is printed       *)
(* before the program of the interface has dealt with its last one.        *)
TornDown ==
  /\ ~req.opts.tty \/ ~ui.alive => ui.hand = <<>>
  /\ ~interrupted /\ ui.closing = None => ui.alive
  /\ ~interrupted /\ ui.closing # None => queue = <<>> /\ ui.closing = "plain"
  /\ ui.closing = "plain" => pc = "returned"
  /\ ~Running => /\ ui.closing # None
                 /\ ~interrupted => ui.hand = <<>> /\ exit = exitCode
                 /\ exit = 1 \/ (pc = "returned" /\ exit = exitCode)
                 /\ stdout = written(ui.final, req.opts.quiet)

StoreHeld ==
  store = "open" =>
    /\ workers["db"] = "ok"
    /\ pc \in {"parallel", "vex", "match", "write"} \/ "catalog" \in errs

Above(d) == \E m \in Range(d.matches) : AtOrAbove(m.vuln.sev, req.opts.failOn)

(* The errors of a run tell what became of it.                             *)
ErrorsTell ==
  /\ pc \in Early => errs = {} /\ doc = NoDocument
  /\ pc = "write" => doc # NoDocument /\ outs < Len(Outputs)
  /\ doc = NoDocument => outs = 0
  /\ doc = NoDocument /\ pc = "returned" => errs # {} /\ "threshold" \notin errs
  /\ doc # NoDocument =>
       /\ "threshold" \in errs <=> Above(doc)
       /\ \A i \in 1..outs : ~Good(Outputs[i]) => "write" \in errs
       /\ pc = "returned" => outs = Len(Outputs)

(* What the files hold.                                                    *)
FilesHold ==
  /\ files = [f \in Paths(req.opts) |-> files[f]]
  /\ doc = NoDocument => \A f \in Paths(req.opts) : files[f] \in {holding("nothing"), holding("earlier report")}
  /\ pc \in {"rules", "parallel", "vex", "match"} => \A f \in Paths(req.opts) : files[f] = holding("nothing")
  /\ doc # NoDocument =>
       /\ \A f \in Paths(req.opts) : files[f] # holding("earlier report")
       /\ \A i \in DOMAIN Outputs :
            LET o == Outputs[i]
            IN  o.file # None /\ Good(o) /\ ~Shared(o) =>
                  files[o.file] = IF i <= outs THEN holding(o.format) ELSE holding("nothing")

(* The members of a list in the places T, up to each of its places.        *)
UpTo(s, T) ==
  CHOOSE f : f = [n \in 0 .. Len(s) |->
                    IF n = 0 THEN <<>> ELSE IF n \in T THEN Append(f[n - 1], s[n]) ELSE f[n - 1]]

Terminal == {i \in DOMAIN Outputs : Outputs[i].file = None /\ Good(Outputs[i])}

(* The reports for the terminal: kept by the interface, in the hand of its *)
(* program, and on their way.                                              *)
NoReport(events) == \A i \in DOMAIN events : events[i].kind # "report"
Travelling == Reports(ui.final) \o (Reports(ui.hand) \o Reports(queue))

ReportsTravel ==
  /\ doc = NoDocument => NoReport(queue) /\ NoReport(ui.hand) /\ NoReport(ui.final)
  /\ doc # NoDocument /\ ~interrupted => Travelling = UpTo(Formats, Terminal)[outs]

RunInv == TypeInv /\ ExitLast /\ TornDown /\ StoreHeld /\ ErrorsTell /\ FilesHold /\ ReportsTravel

(***************************************************************************)
(* Lists and the members chosen from them.                                 *)
(***************************************************************************)
LEMMA UpToIs ==
  ASSUME NEW S, NEW s \in Seq(S), NEW T
  PROVE  /\ UpTo(s, T) \in [0..Len(s) -> Seq(S)]
         /\ UpTo(s, T)[0] = <<>>
         /\ \A n \in 1..Len(s) : UpTo(s, T)[n] = IF n \in T THEN Append(UpTo(s, T)[n - 1], s[n])
                                                 ELSE UpTo(s, T)[n - 1]
         /\ Chosen(s, T) = UpTo(s, T)[Len(s)]
<1> DEFINE m == Len(s)
           G == [p \in (1..m) \X Seq(S) |-> IF p[1] \in T THEN Append(p[2], s[p[1]]) ELSE p[2]]
           Step(f, n) == IF n = 0 THEN <<>> ELSE IF n \in T THEN Append(f[n - 1], s[n]) ELSE f[n - 1]
           U == UpTo(s, T)
<1>0. m \in Nat /\ \A i \in 1..m : s[i] \in S OBVIOUS
<1>1. ASSUME NEW n \in 1..m, NEW q \in Seq(S)
      PROVE  G[<<n, q>>] = (IF n \in T THEN Append(q, s[n]) ELSE q) /\ G[<<n, q>>] \in Seq(S)
  <2>1. G[<<n, q>>] = IF n \in T THEN Append(q, s[n]) ELSE q OBVIOUS
  <2>2. s[n] \in S BY <1>0
  <2>3. Append(q, s[n]) \in Seq(S) BY <2>2
  <2> HIDE DEF G, m
  <2>4. G[<<n, q>>] \in Seq(S) BY <2>1, <2>3, Zenon
  <2> QED BY <2>1, <2>4
<1>2. G \in [(1..m) \X Seq(S) -> Seq(S)]
  <2>1. ASSUME NEW p \in (1..m) \X Seq(S) PROVE G[p] \in Seq(S)
    <3>1. PICK n \in 1..m, q \in Seq(S) : p = <<n, q>> OBVIOUS
    <3> HIDE DEF G
    <3> QED BY <3>1, <1>1
  <2>2. G = [p \in (1..m) \X Seq(S) |-> G[p]] OBVIOUS
  <2> HIDE DEF G, m
  <2> QED BY <2>1, <2>2
<1>3. <<>> \in Seq(S) OBVIOUS
<1> HIDE DEF G, m
<1>4. PICK f : Iterates(f, m, Seq(S), <<>>, G)
  <2>1. Steps(G, m, Seq(S)) BY <1>2 DEF Steps
  <2> QED BY <2>1, <1>0, <1>3, Recursion
<1>5. ASSUME NEW n \in 0..m PROVE f[n] = Step(f, n)
  <2>1. CASE n = 0 BY <2>1, <1>4 DEF Iterates
  <2>2. CASE n # 0
    <3>1. n \in 1..m /\ n - 1 \in 0..m BY <2>2, <1>0
    <3>2. f[n - 1] \in Seq(S) BY <3>1, <1>4 DEF Iterates
    <3>3. f[n] = G[<<n, f[n - 1]>>] BY <3>1, <1>4 DEF Iterates
    <3> QED BY <3>1, <3>2, <3>3, <2>2, <1>1
  <2> QED BY <2>1, <2>2
<1>6. f = [n \in 0..m |-> Step(f, n)] BY <1>4, <1>5, Zenon DEF Iterates
<1>7. U = [n \in 0..m |-> Step(U, n)] BY <1>6, Zenon DEF UpTo, m
<1>8. Chosen(s, T) = U[m] BY DEF Chosen, UpTo, m
<1> HIDE DEF U
<1>9. U[0] = <<>>
  <2>1. 0 \in 0..m BY <1>0
  <2> QED BY <2>1, <1>7
<1>10. ASSUME NEW n \in 1..m PROVE U[n] = IF n \in T THEN Append(U[n - 1], s[n]) ELSE U[n - 1]
  <2>1. n \in 0..m /\ n # 0 BY <1>0
  <2>2. U[n] = Step(U, n) BY <2>1, <1>7, Zenon
  <2> QED BY <2>1, <2>2, Zenon
<1>11. \A n \in 0..m : n \in {k \in 0..m : U[k] \in Seq(S)}
  <2> DEFINE V == {k \in 0..m : U[k] \in Seq(S)}
  <2>1. 0 \in V
    <3>1. 0 \in 0..m /\ U[0] \in Seq(S) BY <1>0, <1>3, <1>9
    <3> QED BY <3>1
  <2>2. ASSUME NEW n \in 1..m, n - 1 \in V PROVE n \in V
    <3>1. U[n - 1] \in Seq(S) /\ s[n] \in S /\ n \in 0..m BY <2>2, <1>0
    <3>2. Append(U[n - 1], s[n]) \in Seq(S) BY <3>1
    <3>3. U[n] \in Seq(S) BY <3>1, <3>2, <1>10, Zenon
    <3> QED BY <3>1, <3>3
  <2> HIDE DEF V
  <2>3. \A n \in 0..m : n \in V BY <2>1, <2>2, <1>0, Upward
  <2> QED BY <2>3 DEF V
<1>12. U \in [0..m -> Seq(S)] BY <1>7, <1>11
<1> QED BY <1>8, <1>9, <1>10, <1>12 DEF U, m

(* Lists that agree on their first m members, and on which are chosen.     *)
LEMMA UpToSame ==
  ASSUME NEW S, NEW s \in Seq(S), NEW t \in Seq(S), NEW T, NEW V, NEW m \in Nat,
         m <= Len(s), m <= Len(t),
         \A i \in 1..m : s[i] = t[i] /\ (i \in T <=> i \in V)
  PROVE  \A n \in 0..m : UpTo(s, T)[n] = UpTo(t, V)[n]
<1> DEFINE R == {n \in 0..m : UpTo(s, T)[n] = UpTo(t, V)[n]}
<1>1. 0 \in R BY UpToIs
<1>2. ASSUME NEW n \in 1..m, n - 1 \in R PROVE n \in R
  <2>1. n \in 1..Len(s) /\ n \in 1..Len(t) OBVIOUS
  <2>2. UpTo(s, T)[n] = IF n \in T THEN Append(UpTo(s, T)[n - 1], s[n]) ELSE UpTo(s, T)[n - 1] BY <2>1, UpToIs
  <2>3. UpTo(t, V)[n] = IF n \in V THEN Append(UpTo(t, V)[n - 1], t[n]) ELSE UpTo(t, V)[n - 1] BY <2>1, UpToIs
  <2> QED BY <2>2, <2>3, <1>2
<1> HIDE DEF R
<1>3. \A n \in 0..m : n \in R BY <1>1, <1>2, Upward
<1> QED BY <1>3 DEF R

LEMMA AppendIs ==
  ASSUME NEW S, NEW s \in Seq(S), NEW e \in S
  PROVE  /\ Append(s, e) \in Seq(S) /\ Len(Append(s, e)) = Len(s) + 1 /\ Len(s) \in Nat
         /\ DOMAIN s = 1..Len(s) /\ DOMAIN Append(s, e) = 1..(Len(s) + 1)
         /\ \A i \in 1..Len(s) : Append(s, e)[i] = s[i]
         /\ Append(s, e)[Len(s) + 1] = e
OBVIOUS

LEMMA OfKindAppend ==
  ASSUME NEW S, NEW s \in Seq(S), NEW e \in S, NEW k
  PROVE  OfKind(Append(s, e), k) = IF e.kind = k THEN Append(OfKind(s, k), e) ELSE OfKind(s, k)
<1> DEFINE t == Append(s, e)
           T == {i \in DOMAIN s : s[i].kind = k}
           V == {i \in DOMAIN t : t[i].kind = k}
<1>1. /\ t \in Seq(S) /\ Len(t) = Len(s) + 1 /\ Len(s) \in Nat
      /\ DOMAIN s = 1..Len(s) /\ DOMAIN t = 1..(Len(s) + 1)
      /\ \A i \in 1..Len(s) : t[i] = s[i]
      /\ t[Len(s) + 1] = e
  BY AppendIs
<1>2. Len(s) <= Len(s) /\ Len(s) <= Len(t) BY <1>1
<1>3. \A i \in 1..Len(s) : s[i] = t[i] /\ (i \in T <=> i \in V) BY <1>1
<1>4. Len(t) \in V <=> e.kind = k
  <2>0. Len(s) + 1 \in 1..(Len(s) + 1) BY <1>1
  <2> HIDE DEF t
  <2>1. Len(t) \in DOMAIN t /\ t[Len(t)] = e BY <1>1, <2>0
  <2> QED BY <2>1
<1>5. OfKind(s, k) = Chosen(s, T) /\ OfKind(t, k) = Chosen(t, V) BY DEF OfKind
<1> HIDE DEF t, T, V
<1>6. UpTo(s, T)[Len(s)] = UpTo(t, V)[Len(s)] BY <1>1, <1>2, <1>3, UpToSame
<1>7. Chosen(s, T) = UpTo(s, T)[Len(s)] /\ Chosen(t, V) = UpTo(t, V)[Len(t)] BY <1>1, UpToIs
<1>8. Len(t) \in 1..Len(t) /\ Len(t) - 1 = Len(s) BY <1>1
<1>9. UpTo(t, V)[Len(t)] = IF Len(t) \in V THEN Append(UpTo(t, V)[Len(t) - 1], t[Len(t)])
                           ELSE UpTo(t, V)[Len(t) - 1]
  BY <1>1, <1>8, UpToIs
<1>10. t[Len(t)] = e BY <1>1
<1>11. OfKind(t, k) = IF e.kind = k THEN Append(OfKind(s, k), e) ELSE OfKind(s, k)
  BY <1>4, <1>5, <1>6, <1>7, <1>8, <1>9, <1>10
<1> QED BY <1>11 DEF t

LEMMA OfKindEmpty == ASSUME NEW k PROVE OfKind(<<>>, k) = <<>>
<1>1. <<>> \in Seq({}) /\ Len(<<>>) = 0 OBVIOUS
<1>2. ASSUME NEW T PROVE Chosen(<<>>, T) = <<>>
  <2>1. PICK z : z = <<>> OBVIOUS
  <2>2. z \in Seq({}) /\ Len(z) = 0 BY <1>1, <2>1
  <2>3. Chosen(z, T) = UpTo(z, T)[Len(z)] /\ UpTo(z, T)[0] = <<>>
    <3> DEFINE N == {}
    <3> HIDE DEF N
    <3>1. z \in Seq(N) BY <2>2 DEF N
    <3> QED BY <3>1, UpToIs
  <2> QED BY <2>1, <2>2, <2>3
<1> QED BY <1>2 DEF OfKind

(* The members of a kind are of that kind.                                 *)
LEMMA OfKindType ==
  ASSUME NEW S, NEW s \in Seq(S), NEW k
  PROVE  OfKind(s, k) \in Seq({e \in S : e.kind = k})
<1> DEFINE K == {e \in S : e.kind = k}
           T == {i \in DOMAIN s : s[i].kind = k}
           R == {n \in 0..Len(s) : UpTo(s, T)[n] \in Seq(K)}
<1>0. Len(s) \in Nat /\ DOMAIN s = 1..Len(s) OBVIOUS
<1>1. 0 \in R
  <2>1. <<>> \in Seq(K) OBVIOUS
  <2>2. 0 \in 0..Len(s) BY <1>0
  <2> HIDE DEF K, T
  <2> QED BY <2>1, <2>2, UpToIs
<1>2. ASSUME NEW n \in 1..Len(s), n - 1 \in R PROVE n \in R
  <2>1. n \in T => s[n] \in K BY <1>0
  <2>2. UpTo(s, T)[n] = IF n \in T THEN Append(UpTo(s, T)[n - 1], s[n]) ELSE UpTo(s, T)[n - 1]
    <3> HIDE DEF T
    <3> QED BY UpToIs
  <2>3. UpTo(s, T)[n - 1] \in Seq(K) BY <1>2
  <2> HIDE DEF K, T
  <2>4. UpTo(s, T)[n] \in Seq(K) BY <2>1, <2>2, <2>3
  <2> QED BY <2>4
<1> HIDE DEF R, T, K
<1>3. Len(s) \in R BY <1>0, <1>1, <1>2, Upward
<1>4. Chosen(s, T) \in Seq(K) BY <1>3, UpToIs DEF R
<1> QED BY <1>4 DEF OfKind, T, K

(* A list up to one of its places.                                         *)
LEMMA Prefix ==
  ASSUME NEW S, NEW s \in Seq(S)
  PROVE  /\ SubSeq(s, 1, 0) = <<>>
         /\ SubSeq(s, 1, Len(s)) = s
         /\ \A n \in 0..Len(s) : SubSeq(s, 1, n) \in Seq(S)
         /\ \A n \in 1..Len(s) : s[n] \in S /\ SubSeq(s, 1, n) = Append(SubSeq(s, 1, n - 1), s[n])
<1>1. SubSeq(s, 1, 0) = <<>> BY SubSeqEmpty
<1>2. SubSeq(s, 1, Len(s)) = s OBVIOUS
<1>3. ASSUME NEW n \in 0..Len(s) PROVE SubSeq(s, 1, n) \in Seq(S) OBVIOUS
<1>4. ASSUME NEW n \in 1..Len(s) PROVE SubSeq(s, 1, n) = Append(SubSeq(s, 1, n - 1), s[n])
  OBVIOUS
<1> QED BY <1>1, <1>2, <1>3, <1>4

LEMMA OfKindConcat ==
  ASSUME NEW S, NEW s \in Seq(S), NEW t \in Seq(S), NEW k
  PROVE  OfKind(s \o t, k) = OfKind(s, k) \o OfKind(t, k)
<1> DEFINE p(n) == SubSeq(t, 1, n)
           R == {n \in 0..Len(t) : OfKind(s \o p(n), k) = OfKind(s, k) \o OfKind(p(n), k)}
<1>0. Len(t) \in Nat OBVIOUS
<1>a. ASSUME NEW q \in Seq(S) PROVE OfKind(q, k) \in Seq(S)
  <2>1. OfKind(q, k) \in Seq({e \in S : e.kind = k}) BY OfKindType
  <2> QED BY <2>1
<1>1. 0 \in R
  <2>1. s \o <<>> = s /\ OfKind(s, k) \o <<>> = OfKind(s, k) BY <1>a
  <2>2. p(0) = <<>> BY Prefix
  <2>3. OfKind(s \o p(0), k) = OfKind(s, k) \o OfKind(p(0), k) BY <2>1, <2>2, OfKindEmpty
  <2> QED BY <2>3, <1>0
<1>2. ASSUME NEW n \in 1..Len(t), n - 1 \in R PROVE n \in R
  <2>1. PICK q \in Seq(S), e \in S : q = p(n - 1) /\ p(n) = Append(q, e)
    <3>1. n - 1 \in 0..Len(t) BY <1>0
    <3>2. p(n - 1) \in Seq(S) /\ t[n] \in S /\ p(n) = Append(p(n - 1), t[n]) BY <3>1, Prefix
    <3> HIDE DEF p
    <3> QED BY <3>2
  <2>2. OfKind(s \o q, k) = OfKind(s, k) \o OfKind(q, k) BY <2>1, <1>2
  <2>3. s \o Append(q, e) = Append(s \o q, e) /\ s \o q \in Seq(S) OBVIOUS
  <2>4. OfKind(Append(s \o q, e), k) = IF e.kind = k THEN Append(OfKind(s \o q, k), e) ELSE OfKind(s \o q, k)
    BY <2>3, OfKindAppend
  <2>5. OfKind(Append(q, e), k) = IF e.kind = k THEN Append(OfKind(q, k), e) ELSE OfKind(q, k)
    BY OfKindAppend
  <2>6. PICK a \in Seq(S), b \in Seq(S) : a = OfKind(s, k) /\ b = OfKind(q, k) BY <1>a
  <2>7. a \o Append(b, e) = Append(a \o b, e) OBVIOUS
  <2>8. OfKind(s \o Append(q, e), k) = OfKind(s, k) \o OfKind(Append(q, e), k)
    <3>1. CASE e.kind = k BY <3>1, <2>2, <2>3, <2>4, <2>5, <2>6, <2>7
    <3>2. CASE e.kind # k BY <3>2, <2>2, <2>3, <2>4, <2>5, <2>6
    <3> QED BY <3>1, <3>2
  <2> HIDE DEF p
  <2>9. OfKind(s \o p(n), k) = OfKind(s, k) \o OfKind(p(n), k) BY <2>1, <2>8
  <2> QED BY <2>9
<1>3. Len(t) \in R
  <2> HIDE DEF R
  <2> QED BY <1>0, <1>1, <1>2, Upward
<1>4. p(Len(t)) = t BY Prefix
<1> HIDE DEF p
<1> QED BY <1>3, <1>4

LEMMA OfKindNone ==
  ASSUME NEW S, NEW s \in Seq(S), NEW k, \A i \in DOMAIN s : s[i].kind # k
  PROVE  OfKind(s, k) = <<>>
<1> DEFINE T == {i \in DOMAIN s : s[i].kind = k}
           R == {n \in 0..Len(s) : UpTo(s, T)[n] = <<>>}
<1>0. Len(s) \in Nat /\ T = {} OBVIOUS
<1> HIDE DEF T
<1>1. 0 \in R BY <1>0, UpToIs
<1>2. ASSUME NEW n \in 1..Len(s), n - 1 \in R PROVE n \in R BY <1>0, <1>2, UpToIs
<1> HIDE DEF R
<1>3. Len(s) \in R BY <1>0, <1>1, <1>2, Upward
<1>4. Chosen(s, T) = <<>> BY <1>3, UpToIs DEF R
<1> QED BY <1>4 DEF OfKind, T

LEMMA OfKindAll ==
  ASSUME NEW S, NEW s \in Seq(S), NEW k, \A i \in DOMAIN s : s[i].kind = k
  PROVE  OfKind(s, k) = s
<1> DEFINE R == {n \in 0..Len(s) : OfKind(SubSeq(s, 1, n), k) = SubSeq(s, 1, n)}
<1>0. Len(s) \in Nat /\ DOMAIN s = 1..Len(s) OBVIOUS
<1>1. 0 \in R
  <2>1. OfKind(SubSeq(s, 1, 0), k) = SubSeq(s, 1, 0) BY Prefix, OfKindEmpty
  <2> QED BY <2>1, <1>0
<1>2. ASSUME NEW n \in 1..Len(s), n - 1 \in R PROVE n \in R
  <2>1. PICK q \in Seq(S), e \in S : q = SubSeq(s, 1, n - 1) /\ SubSeq(s, 1, n) = Append(q, e) /\ e = s[n]
    <3>1. n - 1 \in 0..Len(s) BY <1>0
    <3> QED BY <3>1, Prefix
  <2>2. OfKind(q, k) = q /\ e.kind = k BY <1>0, <1>2, <2>1
  <2>3. OfKind(Append(q, e), k) = Append(q, e) BY <2>2, OfKindAppend
  <2>4. OfKind(SubSeq(s, 1, n), k) = SubSeq(s, 1, n) BY <2>1, <2>3
  <2> QED BY <2>4
<1>3. Len(s) \in R
  <2> HIDE DEF R
  <2> QED BY <1>0, <1>1, <1>2, Upward
<1> QED BY <1>3, Prefix

(***************************************************************************)
(* Reports among the events.                                               *)
(***************************************************************************)
LEMMA BodiesIs ==
  ASSUME NEW S, NEW s \in Seq(S)
  PROVE  /\ Bodies(s) \in Seq({e.body : e \in S}) /\ Len(Bodies(s)) = Len(s)
         /\ \A i \in 1..Len(s) : Bodies(s)[i] = s[i].body
<1>1. Len(s) \in Nat /\ DOMAIN s = 1..Len(s) /\ \A i \in 1..Len(s) : s[i] \in S OBVIOUS
<1>2. Bodies(s) = [i \in 1..Len(s) |-> s[i].body] BY <1>1 DEF Bodies
<1>3. \A i \in 1..Len(s) : s[i].body \in {e.body : e \in S} BY <1>1
<1> QED BY <1>1, <1>2, <1>3

LEMMA BodiesConcat ==
  ASSUME NEW S, NEW s \in Seq(S), NEW t \in Seq(S)
  PROVE  Bodies(s \o t) = Bodies(s) \o Bodies(t)
<1> DEFINE B == {e.body : e \in S}
<1>1. /\ s \o t \in Seq(S) /\ Len(s \o t) = Len(s) + Len(t) /\ Len(s) \in Nat /\ Len(t) \in Nat
      /\ \A i \in 1..(Len(s) + Len(t)) : (s \o t)[i] = IF i <= Len(s) THEN s[i] ELSE t[i - Len(s)]
  BY ConcatProperties
<1>2. PICK a \in Seq(B), b \in Seq(B) : a = Bodies(s) /\ b = Bodies(t) BY BodiesIs
<1>3. /\ a \o b \in Seq(B) /\ Len(a \o b) = Len(a) + Len(b)
      /\ \A i \in 1..(Len(a) + Len(b)) : (a \o b)[i] = IF i <= Len(a) THEN a[i] ELSE b[i - Len(a)]
  <2> HIDE DEF B
  <2> QED BY ConcatProperties
<1>4. Len(a) = Len(s) /\ Len(b) = Len(t) BY <1>2, BodiesIs
<1>5. Bodies(s \o t) \in Seq(B) /\ Len(Bodies(s \o t)) = Len(s) + Len(t) BY <1>1, BodiesIs
<1>6. ASSUME NEW i \in 1..(Len(s) + Len(t)) PROVE Bodies(s \o t)[i] = (a \o b)[i]
  <2>1. Bodies(s \o t)[i] = (s \o t)[i].body BY <1>1, BodiesIs
  <2>2. CASE i <= Len(s)
    <3>1. i \in 1..Len(s) BY <2>2, <1>1
    <3>2. a[i] = s[i].body BY <3>1, <1>2, BodiesIs
    <3> QED BY <2>1, <2>2, <3>2, <1>1, <1>3, <1>4
  <2>3. CASE ~(i <= Len(s))
    <3>1. i - Len(s) \in 1..Len(t) BY <2>3, <1>1
    <3>2. b[i - Len(s)] = t[i - Len(s)].body BY <3>1, <1>2, BodiesIs
    <3> QED BY <2>1, <2>3, <3>2, <1>1, <1>3, <1>4
  <2> QED BY <2>2, <2>3
<1> HIDE DEF B
<1>7. Bodies(s \o t) = a \o b BY <1>1, <1>3, <1>4, <1>5, <1>6
<1> QED BY <1>2, <1>7

LEMMA BodiesEmpty == Bodies(<<>>) = <<>>
BY DEF Bodies

LEMMA BodiesOne == ASSUME NEW e PROVE Bodies(<<e>>) = <<e.body>>
<1>1. <<e>> \in Seq({e}) /\ Len(<<e>>) = 1 /\ <<e>>[1] = e OBVIOUS
<1>2. PICK s : s = <<e>> OBVIOUS
<1>3. Bodies(s) \in Seq({x.body : x \in {e}}) /\ Len(Bodies(s)) = 1 /\ Bodies(s)[1] = e.body
  <2>1. PICK S : S = {e} OBVIOUS
  <2>2. s \in Seq(S) /\ Len(s) = 1 /\ s[1] = e /\ 1 \in 1..1 BY <1>1, <1>2, <2>1
  <2>3. Bodies(s) \in Seq({x.body : x \in S}) /\ Len(Bodies(s)) = 1 /\ Bodies(s)[1] = e.body
    BY <2>2, BodiesIs
  <2> QED BY <2>1, <2>3
<1>4. Bodies(s) = <<e.body>> BY <1>3
<1> QED BY <1>2, <1>4

LEMMA OfKindSeq ==
  ASSUME NEW S, NEW s \in Seq(S), NEW k
  PROVE  OfKind(s, k) \in Seq(S) /\ \A i \in DOMAIN OfKind(s, k) : OfKind(s, k)[i].kind = k
<1> DEFINE K == {e \in S : e.kind = k}
<1>1. PICK q \in Seq(K) : q = OfKind(s, k) BY OfKindType
<1>2. q \in Seq(S) /\ \A i \in DOMAIN q : q[i] \in K OBVIOUS
<1>3. \A i \in DOMAIN q : q[i].kind = k BY <1>2
<1> QED BY <1>1, <1>2, <1>3

LEMMA ReportsSeq ==
  ASSUME NEW S, NEW s \in Seq(S)
  PROVE  Reports(s) \in Seq({e.body : e \in S})
<1>1. OfKind(s, "report") \in Seq(S) BY OfKindSeq
<1> QED BY <1>1, BodiesIs DEF Reports

LEMMA ReportsConcat ==
  ASSUME NEW S, NEW s \in Seq(S), NEW t \in Seq(S)
  PROVE  Reports(s \o t) = Reports(s) \o Reports(t)
<1>1. OfKind(s, "report") \in Seq(S) /\ OfKind(t, "report") \in Seq(S) BY OfKindSeq
<1>2. OfKind(s \o t, "report") = OfKind(s, "report") \o OfKind(t, "report") BY OfKindConcat
<1> QED BY <1>1, <1>2, BodiesConcat DEF Reports

LEMMA ReportsNone ==
  ASSUME NEW S, NEW s \in Seq(S), \A i \in DOMAIN s : s[i].kind # "report"
  PROVE  Reports(s) = <<>>
<1>1. OfKind(s, "report") = <<>> BY OfKindNone
<1> QED BY <1>1, BodiesEmpty DEF Reports

LEMMA ReportsOne ==
  ASSUME NEW e, e.kind = "report"
  PROVE  Reports(<<e>>) = <<e.body>>
<1>1. <<e>> \in Seq({e}) /\ \A i \in DOMAIN <<e>> : <<e>>[i] = e OBVIOUS
<1>2. OfKind(<<e>>, "report") = <<e>> BY <1>1, OfKindAll
<1> QED BY <1>2, BodiesOne DEF Reports

(* What is printed at the end holds the reports that were kept.            *)
LEMMA ReportsWritten ==
  ASSUME NEW S, NEW s \in Seq(S), NEW q
  PROVE  Reports(written(s, q)) = Reports(s)
<1> DEFINE r == OfKind(s, "report")
           n == OfKind(s, "notification")
           u == OfKind(s, "update")
<1>1. r \in Seq(S) /\ n \in Seq(S) /\ u \in Seq(S) BY OfKindSeq
<1>2. /\ \A i \in DOMAIN r : r[i].kind = "report"
      /\ \A i \in DOMAIN n : n[i].kind # "report"
      /\ \A i \in DOMAIN u : u[i].kind # "report"
  BY OfKindSeq
<1>3. written(s, q) = r \o IF q THEN <<>> ELSE n \o u BY DEF written
<1>4. Reports(s) = Bodies(r) BY DEF Reports
<1> HIDE DEF r, n, u
<1>5. Reports(r) = Bodies(r) BY <1>1, <1>2, OfKindAll DEF Reports
<1>6. Reports(n) = <<>> /\ Reports(u) = <<>> BY <1>1, <1>2, ReportsNone
<1>7. Reports(n \o u) = <<>>
  <2>1. <<>> \o <<>> = <<>> OBVIOUS
  <2> QED BY <2>1, <1>1, <1>6, ReportsConcat
<1>8. Reports(<<>>) = <<>> BY OfKindEmpty, BodiesEmpty DEF Reports
<1>9. Reports(r) \o <<>> = Reports(r) BY <1>1, ReportsSeq, ConcatEmptySeq
<1>10. CASE q
  <2>1. <<>> \in Seq(S) OBVIOUS
  <2>2. Reports(r \o <<>>) = Reports(r) \o Reports(<<>>) BY <2>1, <1>1, ReportsConcat
  <2> QED BY <2>2, <1>3, <1>4, <1>5, <1>8, <1>9, <1>10
<1>11. CASE ~q
  <2>1. n \o u \in Seq(S) BY <1>1
  <2>2. Reports(r \o (n \o u)) = Reports(r) \o Reports(n \o u) BY <2>1, <1>1, ReportsConcat
  <2> QED BY <2>2, <1>3, <1>4, <1>5, <1>7, <1>9, <1>11
<1> QED BY <1>10, <1>11

(***************************************************************************)
(* Sorting keeps the members of a list, and the orders of a finite set     *)
(* list its members.                                                       *)
(***************************************************************************)
LEMMA RangeOf ==
  ASSUME NEW S, NEW s \in Seq(S)
  PROVE  s \in Seq(Range(s)) /\ Range(s) \subseteq S /\ Range(s) = {s[i] : i \in 1..Len(s)}
<1>1. DOMAIN s = 1..Len(s) /\ Len(s) \in Nat /\ \A i \in 1..Len(s) : s[i] \in S OBVIOUS
<1>2. Range(s) = {s[i] : i \in 1..Len(s)} BY <1>1 DEF Range
<1>3. \A i \in 1..Len(s) : s[i] \in Range(s) BY <1>2
<1>4. s \in Seq(Range(s))
  <2> DEFINE R == Range(s)
  <2>1. \A i \in 1..Len(s) : s[i] \in R BY <1>3
  <2>2. s = [i \in 1..Len(s) |-> s[i]] BY <1>1
  <2> HIDE DEF R
  <2>3. s \in Seq(R) BY <2>1, <2>2, <1>1
  <2> QED BY <2>3 DEF R
<1> QED BY <1>1, <1>2, <1>4

LEMMA InsertAtIs ==
  ASSUME NEW S, NEW s \in Seq(S), NEW e \in S, NEW k \in 1..(Len(s) + 1)
  PROVE  InsertAt(s, k, e) \in Seq(S) /\ Range(InsertAt(s, k, e)) = Range(s) \cup {e}
<1>0. Len(s) \in Nat /\ k \in Int /\ \A i \in 1..Len(s) : s[i] \in S OBVIOUS
<1>1. PICK a \in Seq(S) : a = SubSeq(s, 1, k - 1)
  <2>1. \A i \in 1..(k - 1) : s[i] \in S BY <1>0
  <2>2. PICK j \in Int : j = k - 1 BY <1>0
  <2>3. SubSeq(s, 1, j) \in Seq(S) BY <2>1, <2>2, SubSeqProperties
  <2> QED BY <2>2, <2>3
<1>2. PICK b \in Seq(S) : b = SubSeq(s, k, Len(s))
  <2>1. \A i \in k..Len(s) : s[i] \in S BY <1>0
  <2>2. PICK j \in Int : j = Len(s) BY <1>0
  <2>3. SubSeq(s, k, j) \in Seq(S) BY <2>1, <2>2, <1>0, SubSeqProperties
  <2> QED BY <2>2, <2>3
<1>3. a \o b = s
  <2>1. 1 \in 1..(Len(s) + 1) /\ k - 1 \in (1 - 1)..Len(s) /\ Len(s) \in (k - 1)..Len(s) /\ (k - 1) + 1 = k
    BY <1>0
  <2>2. SubSeq(s, 1, k - 1) \o SubSeq(s, (k - 1) + 1, Len(s)) = SubSeq(s, 1, Len(s))
    BY <2>1, ConcatAdjacentSubSeq
  <2> QED BY <2>1, <2>2, <1>1, <1>2, Prefix
<1>4. Range(s) = Range(a) \cup Range(b)
  <2>1. Range(a \o b) = Range(a) \cup Range(b) BY RangeConcatenation
  <2> QED BY <2>1, <1>3
<1>5. <<e>> \in Seq(S) /\ Range(<<e>>) = {e}
  <2>1. PICK z : z = <<e>> OBVIOUS
  <2>2. DOMAIN z = {1} /\ z[1] = e BY <2>1
  <2>3. Range(z) = {e} BY <2>2 DEF Range
  <2> QED BY <2>1, <2>3
<1>6. a \o <<e>> \in Seq(S) /\ (a \o <<e>>) \o b \in Seq(S) BY <1>5
<1>7. Range(a \o <<e>>) = Range(a) \cup {e}
  <2>1. PICK z \in Seq(S) : z = <<e>> BY <1>5
  <2>2. Range(a \o z) = Range(a) \cup Range(z) BY RangeConcatenation
  <2> QED BY <2>1, <2>2, <1>5
<1>8. Range((a \o <<e>>) \o b) = Range(a \o <<e>>) \cup Range(b)
  <2>1. PICK z \in Seq(S) : z = a \o <<e>> BY <1>6
  <2>2. Range(z \o b) = Range(z) \cup Range(b) BY RangeConcatenation
  <2> QED BY <2>1, <2>2
<1>9. InsertAt(s, k, e) = (a \o <<e>>) \o b BY <1>1, <1>2 DEF InsertAt
<1> QED BY <1>4, <1>6, <1>7, <1>8, <1>9

LEMMA MaxIs ==
  ASSUME NEW m \in Nat, NEW D \in SUBSET (0..m), D # {}
  PROVE  Max(D) \in D /\ \A y \in D : y <= Max(D)
<1> DEFINE T == {m - x : x \in D}
<1>1. T \in SUBSET Nat /\ T # {}
  <2>1. \A x \in D : m - x \in Nat OBVIOUS
  <2> QED BY <2>1
<1>2. PICK n \in T : \A k \in T : n <= k
  <2> HIDE DEF T
  <2> QED BY <1>1, Least
<1>3. PICK x \in D : n = m - x BY <1>2
<1>4. \A y \in D : x >= y
  <2> SUFFICES ASSUME NEW y \in D PROVE x >= y OBVIOUS
  <2>1. n <= m - y BY <1>2
  <2> QED BY <2>1, <1>3
<1>5. Max(D) \in D /\ \A y \in D : Max(D) >= y BY <1>3, <1>4, Zenon DEF Max
<1> QED BY <1>5

(* The place at which an element is inserted is one of the list.           *)
LEMMA PlaceIs ==
  ASSUME NEW S, NEW d \in Seq(S), NEW K \in SUBSET DOMAIN d
  PROVE  Max({0} \cup K) + 1 \in 1..(Len(d) + 1)
<1>1. Len(d) \in Nat /\ DOMAIN d = 1..Len(d) OBVIOUS
<1>2. {0} \cup K \in SUBSET (0..Len(d)) /\ {0} \cup K # {} BY <1>1
<1>3. Max({0} \cup K) \in 0..Len(d) BY <1>1, <1>2, MaxIs
<1> QED BY <1>1, <1>3

(* A list built by inserting the members of another has its members.       *)
LEMMA InsertedRange ==
  ASSUME NEW S, NEW s \in Seq(S), NEW f, f[0] = <<>>,
         \A n \in 1..Len(s) : f[n - 1] \in Seq(S) =>
            \E k \in 1..(Len(f[n - 1]) + 1) : f[n] = InsertAt(f[n - 1], k, s[n])
  PROVE  f[Len(s)] \in Seq(S) /\ Range(f[Len(s)]) = Range(s)
<1> DEFINE First(n) == {s[i] : i \in 1..n}
           T == {n \in 0..Len(s) : f[n] \in Seq(S) /\ Range(f[n]) = First(n)}
<1>0. Len(s) \in Nat /\ \A i \in 1..Len(s) : s[i] \in S OBVIOUS
<1>1. 0 \in T
  <2>1. <<>> \in Seq(S) /\ Range(<<>>) = {} BY DEF Range
  <2>2. First(0) = {} OBVIOUS
  <2>3. 0 \in 0..Len(s) BY <1>0
  <2> HIDE DEF First
  <2>4. f[0] \in Seq(S) /\ Range(f[0]) = First(0) BY <2>1, <2>2
  <2> QED BY <2>3, <2>4
<1>2. ASSUME NEW n \in 1..Len(s), n - 1 \in T PROVE n \in T
  <2>1. f[n - 1] \in Seq(S) /\ Range(f[n - 1]) = First(n - 1) BY <1>2
  <2>2. PICK k \in 1..(Len(f[n - 1]) + 1) : f[n] = InsertAt(f[n - 1], k, s[n]) BY <2>1
  <2>3. f[n] \in Seq(S) /\ Range(f[n]) = Range(f[n - 1]) \cup {s[n]} BY <2>1, <2>2, <1>0, InsertAtIs
  <2>4. First(n) = First(n - 1) \cup {s[n]}
    <3>1. \A j : j \in 1..n <=> j \in 1..(n - 1) \/ j = n BY <1>0
    <3> QED BY <3>1
  <2> HIDE DEF First
  <2>5. n \in 0..Len(s) BY <1>0
  <2>6. f[n] \in Seq(S) /\ Range(f[n]) = First(n) BY <2>1, <2>3, <2>4
  <2> QED BY <2>5, <2>6
<1>3. First(Len(s)) = Range(s) BY RangeOf
<1> HIDE DEF T, First
<1>4. Len(s) \in T BY <1>0, <1>1, <1>2, Upward
<1> QED BY <1>3, <1>4 DEF T

LEMMA ByElementsKeeps ==
  ASSUME NEW S, NEW s \in Seq(S)
  PROVE  /\ InsertionSort(s, ByElements) \in Seq(S)
         /\ Range(InsertionSort(s, ByElements)) = Range(s)
<1> DEFINE m == Len(s)
           Place(d, x) == Max({0} \cup {k \in DOMAIN d : ~ByElements(x, d[k])}) + 1
           Step(f, n) == IF n = 0 THEN <<>> ELSE InsertAt(f[n - 1], Place(f[n - 1], s[n]), s[n])
           G == [p \in (1..m) \X Seq(S) |-> InsertAt(p[2], Place(p[2], s[p[1]]), s[p[1]])]
           F == CHOOSE f : f = [n \in 0..m |-> Step(f, n)]
<1>0. m \in Nat /\ \A i \in 1..m : s[i] \in S OBVIOUS
<1>1. InsertionSort(s, ByElements) = F[m] BY DEF InsertionSort
<1>2. ASSUME NEW d \in Seq(S), NEW x PROVE Place(d, x) \in 1..(Len(d) + 1) BY PlaceIs
<1>3. Steps(G, m, Seq(S))
  <2>1. ASSUME NEW n \in 1..m, NEW d \in Seq(S) PROVE InsertAt(d, Place(d, s[n]), s[n]) \in Seq(S)
    <3> HIDE DEF Place
    <3> QED BY <1>0, <1>2, InsertAtIs
  <2> HIDE DEF Place, m
  <2> QED BY <2>1 DEF Steps
<1>4. ASSUME NEW n \in 1..m, NEW d \in Seq(S) PROVE G[<<n, d>>] = InsertAt(d, Place(d, s[n]), s[n])
  <2> HIDE DEF Place
  <2> QED OBVIOUS
<1>5. <<>> \in Seq(S) OBVIOUS
<1> HIDE DEF Place, G, F, m
<1>6. PICK f : Iterates(f, m, Seq(S), <<>>, G) BY <1>0, <1>3, <1>5, Recursion
<1>7. ASSUME NEW n \in 0..m PROVE f[n] = Step(f, n)
  <2>1. CASE n = 0 BY <2>1, <1>6 DEF Iterates
  <2>2. CASE n # 0
    <3>1. n \in 1..m /\ n - 1 \in 0..m BY <2>2, <1>0
    <3>2. f[n - 1] \in Seq(S) /\ f[n] = G[<<n, f[n - 1]>>] BY <3>1, <1>6 DEF Iterates
    <3> QED BY <3>1, <3>2, <2>2, <1>4
  <2> QED BY <2>1, <2>2
<1>8. f = [n \in 0..m |-> Step(f, n)] BY <1>6, <1>7, Zenon DEF Iterates
<1>9. F = [n \in 0..m |-> Step(F, n)] BY <1>8, Zenon DEF F
<1>10. F[0] = <<>>
  <2>1. 0 \in 0..m BY <1>0
  <2> QED BY <2>1, <1>9, Zenon
<1>11. ASSUME NEW n \in 1..m, F[n - 1] \in Seq(S)
       PROVE  \E k \in 1..(Len(F[n - 1]) + 1) : F[n] = InsertAt(F[n - 1], k, s[n])
  <2>1. n \in 0..m /\ n # 0 BY <1>0
  <2>2. F[n] = InsertAt(F[n - 1], Place(F[n - 1], s[n]), s[n]) BY <2>1, <1>9, Zenon
  <2> QED BY <2>2, <1>2, <1>11
<1>12. F[m] \in Seq(S) /\ Range(F[m]) = Range(s) BY <1>10, <1>11, InsertedRange DEF m
<1> QED BY <1>1, <1>12 DEF m
LEMMA SortMatchesKeeps ==
  ASSUME NEW S, NEW s \in Seq(S), NEW strategy
  PROVE  /\ SortMatches(s, strategy) \in Seq(S)
         /\ Range(SortMatches(s, strategy)) = Range(s)
<1> DEFINE m == Len(s)
           Place(d, x) == Max({0} \cup {k \in DOMAIN d :
                             ~Lexicographic(matchSortStrategy(strategy, x), matchSortStrategy(strategy, d[k]))}) + 1
           Step(f, n) == IF n = 0 THEN <<>> ELSE InsertAt(f[n - 1], Place(f[n - 1], s[n]), s[n])
           G == [p \in (1..m) \X Seq(S) |-> InsertAt(p[2], Place(p[2], s[p[1]]), s[p[1]])]
           F == CHOOSE f : f = [n \in 0..m |-> Step(f, n)]
<1>0. m \in Nat /\ \A i \in 1..m : s[i] \in S OBVIOUS
<1>1. SortMatches(s, strategy) = F[m] BY DEF SortMatches, InsertionSort
<1>2. ASSUME NEW d \in Seq(S), NEW x PROVE Place(d, x) \in 1..(Len(d) + 1) BY PlaceIs
<1>3. Steps(G, m, Seq(S))
  <2>1. ASSUME NEW n \in 1..m, NEW d \in Seq(S) PROVE InsertAt(d, Place(d, s[n]), s[n]) \in Seq(S)
    <3> HIDE DEF Place
    <3> QED BY <1>0, <1>2, InsertAtIs
  <2> HIDE DEF Place, m
  <2> QED BY <2>1 DEF Steps
<1>4. ASSUME NEW n \in 1..m, NEW d \in Seq(S) PROVE G[<<n, d>>] = InsertAt(d, Place(d, s[n]), s[n])
  <2> HIDE DEF Place
  <2> QED OBVIOUS
<1>5. <<>> \in Seq(S) OBVIOUS
<1> HIDE DEF Place, G, F, m
<1>6. PICK f : Iterates(f, m, Seq(S), <<>>, G) BY <1>0, <1>3, <1>5, Recursion
<1>7. ASSUME NEW n \in 0..m PROVE f[n] = Step(f, n)
  <2>1. CASE n = 0 BY <2>1, <1>6 DEF Iterates
  <2>2. CASE n # 0
    <3>1. n \in 1..m /\ n - 1 \in 0..m BY <2>2, <1>0
    <3>2. f[n - 1] \in Seq(S) /\ f[n] = G[<<n, f[n - 1]>>] BY <3>1, <1>6 DEF Iterates
    <3> QED BY <3>1, <3>2, <2>2, <1>4
  <2> QED BY <2>1, <2>2
<1>8. f = [n \in 0..m |-> Step(f, n)] BY <1>6, <1>7, Zenon DEF Iterates
<1>9. F = [n \in 0..m |-> Step(F, n)] BY <1>8, Zenon DEF F
<1>10. F[0] = <<>>
  <2>1. 0 \in 0..m BY <1>0
  <2> QED BY <2>1, <1>9, Zenon
<1>11. ASSUME NEW n \in 1..m, F[n - 1] \in Seq(S)
       PROVE  \E k \in 1..(Len(F[n - 1]) + 1) : F[n] = InsertAt(F[n - 1], k, s[n])
  <2>1. n \in 0..m /\ n # 0 BY <1>0
  <2>2. F[n] = InsertAt(F[n - 1], Place(F[n - 1], s[n]), s[n]) BY <2>1, <1>9, Zenon
  <2> QED BY <2>2, <1>2, <1>11
<1>12. F[m] \in Seq(S) /\ Range(F[m]) = Range(s) BY <1>10, <1>11, InsertedRange DEF m
<1> QED BY <1>1, <1>12 DEF m

(* An order of a finite set lists all its members.                         *)
LEMMA OrderLists ==
  ASSUME NEW S, IsFiniteSet(S), NEW f \in SetToSeqs(S)
  PROVE  f \in Seq(S) /\ Range(f) = S
<1> DEFINE n == Cardinality(S)
<1>1. n \in Nat BY FS_CardinalityType
<1>2. f \in [1..n -> S] /\ \A i, j \in 1..n : i # j => f[i] # f[j] BY DEF SetToSeqs
<1> HIDE DEF n
<1>3. f \in Seq(S) /\ DOMAIN f = 1..n BY <1>1, <1>2
<1>4. Range(f) \subseteq S BY <1>2 DEF Range
<1>5. IsFiniteSet(Range(f)) BY <1>4, FS_Subset
<1>6. f \in Bijection(1..n, Range(f))
  <2>1. f \in [1..n -> Range(f)] BY <1>2, <1>3 DEF Range
  <2>2. \A t \in Range(f) : \E i \in 1..n : f[i] = t BY <1>3 DEF Range
  <2>3. \A i, j \in 1..n : f[i] = f[j] => i = j BY <1>2
  <2>4. f \in Injection(1..n, Range(f)) BY <2>1, <2>3 DEF Injection, IsInjective
  <2>5. f \in Surjection(1..n, Range(f)) BY <2>1, <2>2 DEF Surjection
  <2> QED BY <2>4, <2>5 DEF Bijection
<1>7. Cardinality(1..n) = n /\ IsFiniteSet(1..n) BY <1>1, FS_Interval
<1>8. Cardinality(Range(f)) = n
  <2>1. ExistsBijection(1..n, Range(f)) BY <1>6 DEF ExistsBijection
  <2> QED BY <2>1, <1>5, <1>7, FS_Bijection
<1>9. Range(f) = S BY <1>4, <1>8, FS_Subset DEF n
<1> QED BY <1>3, <1>9

LEMMA RangeFinite ==
  ASSUME NEW S, NEW s \in Seq(S)
  PROVE  IsFiniteSet(Range(s))
<1>1. Len(s) \in Nat /\ DOMAIN s = 1..Len(s) OBVIOUS
<1>2. s \in [1..Len(s) -> Range(s)]
  <2>1. \A i \in 1..Len(s) : s[i] \in Range(s) BY <1>1 DEF Range
  <2>2. s = [i \in 1..Len(s) |-> s[i]] BY <1>1
  <2> QED BY <2>1, <2>2
<1>3. \A t \in Range(s) : \E i \in 1..Len(s) : s[i] = t BY <1>1 DEF Range
<1>4. s \in Surjection(1..Len(s), Range(s)) BY <1>2, <1>3 DEF Surjection
<1>5. IsFiniteSet(1..Len(s)) BY <1>1, FS_Interval
<1> QED BY <1>4, <1>5, FS_Surjection

(* The findings of a list of packages are finitely many.                   *)
LEMMA FindMatchesIs ==
  ASSUME NEW S, NEW pkgs \in Seq(S)
  PROVE  IsFiniteSet(FindMatches(pkgs)) /\ \A m \in FindMatches(pkgs) : "sev" \in DOMAIN m.vuln
<1> DEFINE E == {e \in Range(pkgs) \X Vulns : e[2].name = e[1].name
                    /\ e[2].distro \in {None, IF e[1].distro = None THEN None ELSE e[1].distro.type}}
           found1(e) == [pkg |-> e[1], vuln |-> e[2].vuln, type |-> e[2].type]
           M == {found1(e) : e \in E}
           f == [e \in E |-> found1(e)]
<1>1. FindMatches(pkgs) = M BY DEF FindMatches
<1>2. IsFiniteSet(Range(pkgs) \X Vulns)
  BY RangeFinite, RequestsAssumption, FS_Product
<1>3. E \in SUBSET (Range(pkgs) \X Vulns) OBVIOUS
<1>4. f \in [E -> M] /\ \A t \in M : \E e \in E : f[e] = t
  <2> HIDE DEF E, found1
  <2> QED OBVIOUS
<1>5. ASSUME NEW m \in M PROVE "sev" \in DOMAIN m.vuln
  <2>1. PICK e \in E : m = found1(e) OBVIOUS
  <2>2. e[2] \in Vulns /\ m.vuln = e[2].vuln BY <2>1
  <2> HIDE DEF M, E, found1
  <2> QED BY <2>2, RequestsAssumption
<1> HIDE DEF E, M, f
<1>6. IsFiniteSet(E) BY <1>2, <1>3, FS_Subset
<1>7. f \in Surjection(E, M) BY <1>4 DEF Surjection
<1>8. IsFiniteSet(M) BY <1>6, <1>7, FS_Surjection
<1> QED BY <1>1, <1>5, <1>8

(* A document reports the severities of its findings, and no others.       *)
SameSeverities(d, M, failOn) ==
  (\E m \in Range(d.matches) : AtOrAbove(m.vuln.sev, failOn)) <=> \E m \in M : AtOrAbove(m.vuln.sev, failOn)

LEMMA DocumentIs ==
  ASSUME NEW M, IsFiniteSet(M), \A m \in M : "sev" \in DOMAIN m.vuln,
         NEW listed \in SetToSeqs(M), NEW pkgs, NEW distro, NEW ignored, NEW strategy, NEW eol,
         NEW d, d = NewDocument(pkgs, distro, listed, ignored, strategy, eol), NEW failOn
  PROVE  d # NoDocument /\ SameSeverities(d, M, failOn)
<1>1. listed \in Seq(M) /\ Range(listed) = M BY OrderLists
<1>2. PICK sorted \in Seq(M) : sorted = InsertionSort(listed, ByElements) /\ Range(sorted) = M
  BY <1>1, ByElementsKeeps
<1> DEFINE made == [i \in DOMAIN sorted |-> newMatch(sorted[i])]
           N == {newMatch(m) : m \in M}
<1>3. DOMAIN sorted = 1..Len(sorted) /\ Len(sorted) \in Nat /\ \A i \in 1..Len(sorted) : sorted[i] \in M OBVIOUS
<1>4. made \in Seq(N)
  <2>1. \A i \in 1..Len(sorted) : newMatch(sorted[i]) \in N BY <1>3
  <2>2. made = [i \in 1..Len(sorted) |-> newMatch(sorted[i])] BY <1>3
  <2> HIDE DEF N, made
  <2> QED BY <1>3, <2>1, <2>2
<1>5. Range(made) = N
  <2>1. Range(made) = {newMatch(sorted[i]) : i \in DOMAIN sorted} BY DEF Range
  <2>2. M = {sorted[i] : i \in DOMAIN sorted} BY <1>2 DEF Range
  <2> HIDE DEF made
  <2> QED BY <2>1, <2>2
<1>6. d.matches = SortMatches(made, strategy) /\ "matches" \in DOMAIN d BY <1>2 DEF NewDocument
<1>7. d # NoDocument
  <2>1. DOMAIN NoDocument = {} BY DEF NoDocument
  <2> QED BY <1>6, <2>1
<1> HIDE DEF made, N
<1>8. Range(d.matches) = N BY <1>4, <1>5, <1>6, SortMatchesKeeps
<1>9. ASSUME NEW m \in M PROVE newMatch(m).vuln.sev = m.vuln.sev
  BY DEF newMatch
<1>10. (\E m \in N : AtOrAbove(m.vuln.sev, failOn)) <=> \E m \in M : AtOrAbove(m.vuln.sev, failOn)
  BY <1>9 DEF N
<1> QED BY <1>7, <1>8, <1>10 DEF SameSeverities

(***************************************************************************)
(* What a step says.                                                       *)
(***************************************************************************)
LEMMA ConcatMembers ==
  ASSUME NEW S, NEW s \in Seq(S), NEW t \in Seq(S)
  PROVE  /\ s \o t \in Seq(S) /\ Len(s \o t) = Len(s) + Len(t) /\ Len(s) \in Nat /\ Len(t) \in Nat
         /\ \A i \in DOMAIN (s \o t) :
              \/ i \in DOMAIN s /\ (s \o t)[i] = s[i]
              \/ \E j \in DOMAIN t : i = Len(s) + j /\ (s \o t)[i] = t[j]
<1>1. /\ s \o t \in Seq(S) /\ Len(s \o t) = Len(s) + Len(t) /\ Len(s) \in Nat /\ Len(t) \in Nat
      /\ \A i \in 1..(Len(s) + Len(t)) : (s \o t)[i] = IF i <= Len(s) THEN s[i] ELSE t[i - Len(s)]
  BY ConcatProperties
<1>2. DOMAIN s = 1..Len(s) /\ DOMAIN t = 1..Len(t) /\ DOMAIN (s \o t) = 1..(Len(s) + Len(t))
  <2>1. PICK u \in Seq(S) : u = s \o t BY <1>1
  <2>2. DOMAIN u = 1..Len(u) OBVIOUS
  <2> QED BY <2>1, <2>2, <1>1
<1>3. ASSUME NEW i \in DOMAIN (s \o t)
      PROVE  \/ i \in DOMAIN s /\ (s \o t)[i] = s[i]
             \/ \E j \in DOMAIN t : i = Len(s) + j /\ (s \o t)[i] = t[j]
  <2>0. i \in 1..(Len(s) + Len(t)) BY <1>2
  <2>1. CASE i <= Len(s)
    <3>1. i \in DOMAIN s BY <2>0, <2>1, <1>1, <1>2
    <3> QED BY <3>1, <2>0, <2>1, <1>1
  <2>2. CASE ~(i <= Len(s))
    <3>1. i - Len(s) \in DOMAIN t /\ i = Len(s) + (i - Len(s)) BY <2>0, <2>2, <1>1, <1>2
    <3> QED BY <3>1, <2>0, <2>2, <1>1
  <2> QED BY <2>1, <2>2
<1> QED BY <1>1, <1>3

LEMMA OutputsAre ==
  ASSUME TypeInv
  PROVE  /\ Outputs \in Seq(Range(Outputs)) /\ Outputs # <<>>
         /\ Len(Outputs) \in Nat /\ Len(Outputs) > 0 /\ DOMAIN Outputs = 1..Len(Outputs)
         /\ \A i \in DOMAIN Outputs : /\ Outputs[i] \in Range(Outputs)
                                      /\ Outputs[i].format \notin {"earlier report", "nothing", "mixture"}
<1>1. /\ Outputs \in Seq(Range(Outputs)) /\ Outputs # <<>>
      /\ \A o \in Range(Outputs) : o.format \notin {"earlier report", "nothing", "mixture"}
  BY RequestsAssumption DEF TypeInv, Outputs
<1>2. Len(Outputs) \in Nat /\ Len(Outputs) > 0 /\ DOMAIN Outputs = 1..Len(Outputs)
  <2>1. PICK s \in Seq(Range(Outputs)) : s = Outputs BY <1>1
  <2>2. s # <<>> BY <2>1, <1>1
  <2>3. Len(s) \in Nat /\ Len(s) > 0 /\ DOMAIN s = 1..Len(s) BY <2>2
  <2> QED BY <2>1, <2>3
<1>3. \A i \in DOMAIN Outputs : Outputs[i] \in Range(Outputs) BY DEF Range
<1> QED BY <1>1, <1>2, <1>3

LEMMA FormatsAre ==
  ASSUME TypeInv
  PROVE  /\ Formats \in Seq({o.format : o \in Range(Outputs)}) /\ Len(Formats) = Len(Outputs)
         /\ \A i \in 1..Len(Outputs) : Formats[i] = Outputs[i].format
<1> DEFINE F == {o.format : o \in Range(Outputs)}
           n == Len(Outputs)
<1>1. n \in Nat /\ \A i \in 1..n : Outputs[i].format \in F BY OutputsAre
<1>2. Formats = [i \in 1..n |-> Outputs[i].format] BY OutputsAre DEF Formats
<1> HIDE DEF F, n
<1>3. Formats \in Seq(F) /\ Len(Formats) = n /\ \A i \in 1..n : Formats[i] = Outputs[i].format BY <1>1, <1>2
<1> QED BY <1>3 DEF F, n

(* A step of a goroutine that publishes es, with no report among them.     *)
Published(es) ==
  /\ es \in Seq(Events)
  /\ queue' = queue \o es
  /\ \A i \in DOMAIN es :
       es[i].kind = "exit" => es[i].body = "done" /\ pc' = "returned" /\ i = Len(es)

LEMMA PublishedLast ==
  ASSUME TypeInv, ExitLast, TornDown, Running, pc # "returned", NEW es, Published(es),
         UNCHANGED <<req, ui, exit, interrupted>>
  PROVE  queue' \in Seq(Events') /\ ExitLast' /\ TornDown'
<1>1. queue \in Seq(Events) /\ es \in Seq(Events) BY DEF TypeInv, Published
<1>2. Events' = Events BY DEF Events, Texts, Outputs
<1>3. /\ queue' \in Seq(Events) /\ Len(queue') = Len(queue) + Len(es)
      /\ \A i \in DOMAIN queue' : \/ i \in DOMAIN queue /\ queue'[i] = queue[i]
                                  \/ \E j \in DOMAIN es : i = Len(queue) + j /\ queue'[i] = es[j]
  BY <1>1, ConcatMembers DEF Published
<1>4. ASSUME NEW i \in DOMAIN queue', queue'[i].kind = "exit"
      PROVE  /\ queue'[i].body \in {"done", "interrupted"}
             /\ queue'[i].body = "done" => pc' = "returned"
             /\ queue'[i].body # "done" => interrupted'
             /\ ~interrupted' => i = Len(queue')
  <2>1. CASE i \in DOMAIN queue /\ queue'[i] = queue[i] BY <1>4, <2>1 DEF ExitLast
  <2>2. CASE \E j \in DOMAIN es : i = Len(queue) + j /\ queue'[i] = es[j]
    <3>1. PICK j \in DOMAIN es : i = Len(queue) + j /\ queue'[i] = es[j] BY <2>2
    <3>2. es[j].body = "done" /\ pc' = "returned" /\ j = Len(es) BY <3>1, <1>4 DEF Published
    <3> QED BY <3>1, <3>2, <1>3
  <2> QED BY <1>3, <2>1, <2>2
<1>5. Running' BY DEF Running
<1>6. ExitLast' BY <1>4 DEF ExitLast
<1>7. TornDown' BY <1>5 DEF TornDown
<1> QED BY <1>2, <1>3, <1>6, <1>7

(* Reports that were on their way stay on their way.                       *)
LEMMA PublishedQuiet ==
  ASSUME TypeInv, ReportsTravel, Running, NEW es, Published(es),
         \A i \in DOMAIN es : es[i].kind # "report",
         UNCHANGED <<req, ui, stdout, exit, interrupted, outs>>,
         doc' = doc \/ (doc = NoDocument /\ outs = 0)
  PROVE  ReportsTravel'
<1>1. queue \in Seq(Events) /\ es \in Seq(Events) /\ ui.final \in Seq(Events) /\ ui.hand \in Seq(Events)
  BY DEF TypeInv, Published
<1>2. \A i \in DOMAIN queue' : \/ i \in DOMAIN queue /\ queue'[i] = queue[i]
                               \/ \E j \in DOMAIN es : queue'[i] = es[j]
  BY <1>1, ConcatMembers DEF Published
<1>3. Reports(queue') = Reports(queue)
  <2>1. Reports(es) = <<>> BY <1>1, ReportsNone
  <2>2. Reports(queue') = Reports(queue) \o Reports(es) BY <1>1, ReportsConcat DEF Published
  <2>3. Reports(queue) \o <<>> = Reports(queue) BY <1>1, ReportsSeq, ConcatEmptySeq
  <2> QED BY <2>1, <2>2, <2>3
<1>4. Formats' = Formats /\ Terminal' = Terminal BY DEF Formats, Terminal, Outputs
<1>5. doc' = NoDocument => NoReport(queue') /\ NoReport(ui'.hand) /\ NoReport(ui'.final)
  BY <1>2 DEF ReportsTravel, NoDocument, NoReport
<1>6. ASSUME doc' # NoDocument, ~interrupted
      PROVE  Travelling' = UpTo(Formats, Terminal)[outs]
  <2>0. Travelling' = Travelling BY <1>3 DEF Travelling
  <2>1. CASE doc' = doc BY <2>0, <2>1, <1>6 DEF ReportsTravel
  <2>2. CASE doc = NoDocument /\ outs = 0
    <3>1. NoReport(queue) /\ NoReport(ui.hand) /\ NoReport(ui.final) BY <2>2 DEF ReportsTravel
    <3>2. Reports(queue) = <<>> /\ Reports(ui.hand) = <<>> /\ Reports(ui.final) = <<>>
      BY <1>1, <3>1, ReportsNone DEF NoReport
    <3>3. <<>> \o (<<>> \o <<>>) = <<>> OBVIOUS
    <3>4. UpTo(Formats, Terminal)[0] = <<>> BY FormatsAre, UpToIs
    <3> QED BY <2>0, <2>2, <3>2, <3>3, <3>4 DEF Travelling
  <2> QED BY <2>1, <2>2
<1> QED BY <1>4, <1>5, <1>6 DEF ReportsTravel

(***************************************************************************)
(* The initial states.                                                     *)
(***************************************************************************)
LEMMA InitRun == Init => RunInv
<1> SUFFICES ASSUME Init PROVE RunInv OBVIOUS
<1>0. None \notin {0, 1, 2, "ok", "database", "catalog"} BY RequestsAssumption
<1>b. /\ pc = "start" /\ queue = <<>> /\ ui = [alive |-> TRUE, hand |-> <<>>, final |-> <<>>, closing |-> None] /\ doc = NoDocument /\ outs = 0
      /\ exit = None /\ interrupted = FALSE
  BY Zenon DEF Init
<1>1. TypeInv
  <2>1. Outputs \in Seq(Range(Outputs)) BY RequestsAssumption DEF Init, Outputs
  <2>2. Len(Outputs) \in Nat
    <3>1. PICK s \in Seq(Range(Outputs)) : s = Outputs BY <2>1
    <3>2. Len(s) \in Nat OBVIOUS
    <3> QED BY <3>1, <3>2
  <2>3. outs \in 0..Len(Outputs) BY <2>2, <1>b
  <2>4. <<>> \in Seq(Events) OBVIOUS
  <2>5. workers = [w \in Goroutines |-> None] BY DEF Init, Goroutines
  <2>6. workers \in [Goroutines -> {None, "ok", "database", "catalog"}] BY <2>5
  <2>7. workers["update"] = None /\ workers["db"] = None /\ workers["packages"] = None
    BY <2>5 DEF Goroutines
  <2> QED BY <2>3, <2>4, <2>6, <2>7, <1>0 DEF Init, TypeInv, Early
<1>a. /\ DOMAIN queue = {} /\ DOMAIN ui.final = {} /\ ui.hand = <<>> /\ DOMAIN ui.hand = {}
      /\ Running /\ ui.alive /\ ui.closing = None
  BY <1>b DEF Running
<1>2. ExitLast BY <1>a, <1>b DEF ExitLast
<1>3. TornDown BY <1>a, <1>b, RequestsAssumption DEF TornDown
<1>4. StoreHeld BY DEF Init, StoreHeld
<1>5. ErrorsTell BY DEF Init, ErrorsTell, Early, NoDocument
<1>6. FilesHold
  <2>1. files = [f \in Paths(req.opts) |-> holding("earlier report")] BY DEF Init
  <2>2. \A f \in Paths(req.opts) : files[f] = holding("earlier report") BY <2>1
  <2>3. files = [f \in Paths(req.opts) |-> files[f]] BY <2>1
  <2> QED BY <2>2, <2>3 DEF Init, FilesHold
<1>7. ReportsTravel BY <1>a, <1>b DEF ReportsTravel, NoReport
<1> QED BY <1>1, <1>2, <1>3, <1>4, <1>5, <1>6, <1>7 DEF RunInv

(***************************************************************************)
(* The main goroutine and its workers.                                     *)
(***************************************************************************)
DoneEvent == event("exit", "done")

LEMMA OneEvent ==
  ASSUME NEW e \in Events, queue' = queue \o <<e>>,
         e.kind = "exit" => e.body = "done" /\ pc' = "returned"
  PROVE  Published(<<e>>) /\ \A i \in DOMAIN <<e>> : <<e>>[i] = e
<1>1. <<e>> \in Seq(Events) /\ Len(<<e>>) = 1 /\ \A i \in DOMAIN <<e>> : i = 1 /\ <<e>>[i] = e OBVIOUS
<1> QED BY <1>1 DEF Published

LEMMA NoEvent ==
  ASSUME TypeInv, queue' = queue
  PROVE  Published(<<>>) /\ \A i \in DOMAIN <<>> : FALSE
<1>1. queue \in Seq(Events) BY DEF TypeInv
<1>2. <<>> \in Seq(Events) /\ DOMAIN <<>> = {} /\ queue \o <<>> = queue BY <1>1
<1> QED BY <1>2 DEF Published

LEMMA EventsAre ==
  /\ DoneEvent \in Events /\ DoneEvent.kind = "exit" /\ DoneEvent.body = "done"
  /\ event("update", "new version") \in Events /\ event("update", "new version").kind = "update"
  /\ event("notification", "checksum") \in Events /\ event("notification", "checksum").kind = "notification"
  /\ event("exit", "interrupted") \in Events /\ event("exit", "interrupted").kind = "exit"
  /\ event("exit", "interrupted").body = "interrupted"
  /\ \A o \in Range(Outputs) : event("report", o.format) \in Events /\ event("report", o.format).kind = "report"
                               /\ event("report", o.format).body = o.format
  /\ \A d \in EOL : event("notification", d.type) \in Events /\ event("notification", d.type).kind = "notification"
BY DEF DoneEvent, event, Events, Texts

(* A return, and a step that says nothing.                                 *)
LEMMA ReturnKeeps ==
  ASSUME TypeInv, ExitLast, TornDown, ReportsTravel, Running, pc # "returned", pc' = "returned",
         queue' = queue \o <<DoneEvent>>,
         UNCHANGED <<req, ui, stdout, exit, interrupted, outs, doc>>
  PROVE  queue' \in Seq(Events') /\ ExitLast' /\ TornDown' /\ ReportsTravel'
<1>1. Published(<<DoneEvent>>) /\ \A i \in DOMAIN <<DoneEvent>> : <<DoneEvent>>[i] = DoneEvent
  BY EventsAre, OneEvent
<1>2. \A i \in DOMAIN <<DoneEvent>> : <<DoneEvent>>[i].kind # "report" BY <1>1, EventsAre
<1>3. PICK es : es = <<DoneEvent>> OBVIOUS
<1>4. Published(es) /\ \A i \in DOMAIN es : es[i].kind # "report" BY <1>1, <1>2, <1>3
<1> QED BY <1>4, PublishedLast, PublishedQuiet

LEMMA SilentKeeps ==
  ASSUME TypeInv, ExitLast, TornDown, ReportsTravel, Running, pc # "returned", queue' = queue,
         UNCHANGED <<req, ui, stdout, exit, interrupted, outs, doc>>
  PROVE  queue' \in Seq(Events') /\ ExitLast' /\ TornDown' /\ ReportsTravel'
<1>1. PICK es : es = <<>> OBVIOUS
<1>2. Published(es) /\ \A i \in DOMAIN es : es[i].kind # "report" BY <1>1, NoEvent
<1> QED BY <1>2, PublishedLast, PublishedQuiet

(* What a step leaves alone as long as the options, the files, the outputs *)
(* written and the document stay.                                          *)
LEMMA FilesStay ==
  ASSUME FilesHold, UNCHANGED <<req, files, doc, outs>>,
         pc' \in {"rules", "parallel", "vex", "match"} => pc \in {"rules", "parallel", "vex", "match"}
  PROVE  FilesHold'
<1>1. Outputs' = Outputs /\ Paths(req'.opts) = Paths(req.opts) BY DEF Outputs
<1>2. ASSUME NEW o PROVE Shared(o)' <=> Shared(o) BY <1>1 DEF Shared
<1> QED BY <1>1, <1>2 DEF FilesHold, Good, holding

LEMMA MakeScanResultWriterStep == RunInv /\ MakeScanResultWriter => RunInv'
<1> SUFFICES ASSUME RunInv, MakeScanResultWriter PROVE RunInv' OBVIOUS
<1> DEFINE unknown == \E o \in Range(Outputs) : o.format = "unknown"
           bad == {i \in DOMAIN Outputs : Outputs[i].file \in req.opts.badDirs}
           opened == {Outputs[i].file : i \in {i \in DOMAIN Outputs : \A b \in bad : i < b}} \ {None}
<1>1. /\ Running /\ pc = "start"
      /\ files' = IF unknown THEN files
                  ELSE [f \in DOMAIN files |-> IF f \in opened THEN holding("nothing") ELSE files[f]]
      /\ IF unknown \/ bad # {} THEN Return({"output"})
         ELSE pc' = "rules" /\ UNCHANGED <<errs, store, queue>>
      /\ UNCHANGED <<req, catalog, workers, rules, found, doc, outs, ui, stdout, exit, interrupted, explained>>
  BY DEF MakeScanResultWriter
<1>2. TypeInv /\ ExitLast /\ TornDown /\ StoreHeld /\ ErrorsTell /\ FilesHold /\ ReportsTravel BY DEF RunInv
<1>3. errs = {} /\ doc = NoDocument BY <1>1, <1>2 DEF ErrorsTell, Early
<1>4. bad = {} => opened = Paths(req.opts)
  <2>1. ASSUME bad = {} PROVE opened = {Outputs[i].file : i \in DOMAIN Outputs} \ {None} BY <2>1
  <2>2. {Outputs[i].file : i \in DOMAIN Outputs} = {o.file : o \in Range(Outputs)} BY DEF Range
  <2> QED BY <2>1, <2>2 DEF Paths, Outputs
<1> HIDE DEF unknown, bad, opened
<1>5. Outputs' = Outputs /\ Events' = Events /\ Paths(req'.opts) = Paths(req.opts)
  BY <1>1 DEF Outputs, Events, Texts
<1>6. /\ files' = [f \in Paths(req'.opts) |-> files'[f]]
      /\ \A f \in Paths(req.opts) : files'[f] \in {holding("nothing"), holding("earlier report")}
      /\ ~unknown /\ bad = {} => \A f \in Paths(req.opts) : files'[f] = holding("nothing")
  <2>1. DOMAIN files = Paths(req.opts) /\ files = [f \in Paths(req.opts) |-> files[f]] BY <1>2 DEF FilesHold
  <2>2. \A f \in Paths(req.opts) : files[f] \in {holding("nothing"), holding("earlier report")}
    BY <1>2, <1>3 DEF FilesHold
  <2>3. CASE unknown BY <2>1, <2>2, <2>3, <1>1, <1>5
  <2>4. CASE ~unknown
    <3>1. files' = [f \in Paths(req.opts) |-> IF f \in opened THEN holding("nothing") ELSE files[f]]
      BY <1>1, <2>1, <2>4
    <3> QED BY <3>1, <2>2, <1>4, <1>5
  <2> QED BY <2>3, <2>4
<1>7. CASE unknown \/ bad # {}
  <2>1. pc' = "returned" /\ errs' = {"output"} /\ store' = "closed" /\ queue' = queue \o <<DoneEvent>>
    BY <1>1, <1>3, <1>7 DEF Return, Publish, DoneEvent
  <2>2. queue' \in Seq(Events') /\ ExitLast' /\ TornDown' /\ ReportsTravel' BY <2>1, <1>1, <1>2, ReturnKeeps
  <2>3. TypeInv' BY <2>1, <2>2, <1>1, <1>2, <1>5 DEF TypeInv, Early
  <2>4. StoreHeld' BY <2>1 DEF StoreHeld
  <2>5. ErrorsTell' BY <2>1, <1>1, <1>2, <1>3 DEF ErrorsTell, Early
  <2>6. FilesHold' BY <2>1, <1>1, <1>3, <1>5, <1>6 DEF FilesHold
  <2> QED BY <2>2, <2>3, <2>4, <2>5, <2>6 DEF RunInv
<1>8. CASE ~unknown /\ bad = {}
  <2>1. pc' = "rules" /\ UNCHANGED <<errs, store, queue>> BY <1>1, <1>8
  <2>2. queue' \in Seq(Events') /\ ExitLast' /\ TornDown' /\ ReportsTravel' BY <2>1, <1>1, <1>2, SilentKeeps
  <2>3. TypeInv' BY <2>1, <2>2, <1>1, <1>2, <1>5 DEF TypeInv, Early
  <2>4. StoreHeld' BY <2>1, <1>1, <1>2, <1>3 DEF StoreHeld
  <2>5. ErrorsTell' BY <2>1, <1>1, <1>2, <1>3 DEF ErrorsTell, Early
  <2>6. FilesHold' BY <2>1, <1>1, <1>3, <1>5, <1>6, <1>8 DEF FilesHold
  <2> QED BY <2>2, <2>3, <2>4, <2>5, <2>6 DEF RunInv
<1> QED BY <1>7, <1>8

LEMMA AddIgnoreRulesStep == RunInv /\ AddIgnoreRules => RunInv'
<1> SUFFICES ASSUME RunInv, AddIgnoreRules PROVE RunInv' OBVIOUS
<1>1. /\ Running /\ pc = "rules"
      /\ \/ pc' = "parallel" /\ UNCHANGED <<errs, store, queue>>
         \/ Return({"ignore states"})
      /\ UNCHANGED <<req, catalog, workers, files, found, doc, outs, ui, stdout, exit, interrupted, explained>>
  BY DEF AddIgnoreRules
<1>2. TypeInv /\ ExitLast /\ TornDown /\ StoreHeld /\ ErrorsTell /\ FilesHold /\ ReportsTravel BY DEF RunInv
<1>3. errs = {} /\ doc = NoDocument BY <1>1, <1>2 DEF ErrorsTell, Early
<1>4. Outputs' = Outputs /\ Events' = Events BY <1>1 DEF Outputs, Events, Texts
<1>5. CASE Return({"ignore states"})
  <2>1. pc' = "returned" /\ errs' = {"ignore states"} /\ store' = "closed" /\ queue' = queue \o <<DoneEvent>>
    BY <1>3, <1>5 DEF Return, Publish, DoneEvent
  <2>2. queue' \in Seq(Events') /\ ExitLast' /\ TornDown' /\ ReportsTravel' BY <2>1, <1>1, <1>2, ReturnKeeps
  <2>3. TypeInv' BY <2>1, <2>2, <1>1, <1>2, <1>4 DEF TypeInv, Early
  <2>4. StoreHeld' BY <2>1 DEF StoreHeld
  <2>5. ErrorsTell' BY <2>1, <1>1, <1>2, <1>3 DEF ErrorsTell, Early
  <2>6. FilesHold' BY <2>1, <1>1, <1>2, FilesStay
  <2> QED BY <2>2, <2>3, <2>4, <2>5, <2>6 DEF RunInv
<1>6. CASE pc' = "parallel" /\ UNCHANGED <<errs, store, queue>>
  <2>2. queue' \in Seq(Events') /\ ExitLast' /\ TornDown' /\ ReportsTravel' BY <1>1, <1>2, <1>6, SilentKeeps
  <2>3. TypeInv' BY <2>2, <1>1, <1>2, <1>4, <1>6 DEF TypeInv, Early
  <2>4. StoreHeld' BY <1>1, <1>2, <1>3, <1>6 DEF StoreHeld
  <2>5. ErrorsTell' BY <1>1, <1>2, <1>3, <1>6 DEF ErrorsTell, Early
  <2>6. FilesHold' BY <1>1, <1>2, <1>6, FilesStay
  <2> QED BY <2>2, <2>3, <2>4, <2>5, <2>6 DEF RunInv
<1> QED BY <1>1, <1>5, <1>6

(* A goroutine that finishes while the main one waits.                     *)
LEMMA WorkerKeeps ==
  ASSUME RunInv, Running, pc = "parallel",
         UNCHANGED <<req, catalog, pc, files, doc, outs, errs, ui, stdout, exit, interrupted>>,
         NEW es, Published(es), \A i \in DOMAIN es : es[i].kind \notin {"report", "exit"},
         NEW w \in Goroutines, NEW outcome, workers[w] = None, workers' = [workers EXCEPT ![w] = outcome],
         w = "update" => outcome = "ok",
         w = "db" => outcome \in {"ok", "database"},
         w = "packages" => outcome \in {"ok", "catalog"},
         w = "packages" /\ outcome = "ok" => found' = catalog /\ catalog.kind = "ok",
         w # "packages" => found' = found,
         store' = store \/ (w = "db" /\ outcome = "ok" /\ store' = "open")
  PROVE  RunInv'
<1>1. TypeInv /\ ExitLast /\ TornDown /\ StoreHeld /\ ErrorsTell /\ FilesHold /\ ReportsTravel BY DEF RunInv
<1>2. queue' \in Seq(Events') /\ ExitLast' /\ TornDown' /\ ReportsTravel' BY <1>1, PublishedLast, PublishedQuiet
<1>3. Outputs' = Outputs /\ Events' = Events BY DEF Outputs, Events, Texts
<1>4. workers \in [Goroutines -> {None, "ok", "database", "catalog"}] BY <1>1 DEF TypeInv
<1>5. None \notin {"ok", "database", "catalog"} BY RequestsAssumption
<1>6. /\ workers' \in [Goroutines -> {None, "ok", "database", "catalog"}]
      /\ workers'[w] = outcome
      /\ \A v \in Goroutines : v # w => workers'[v] = workers[v]
  BY <1>4 DEF Goroutines
<1>7. TypeInv'
  <2>1. /\ workers'["update"] \in {None, "ok"}
        /\ workers'["db"] \in {None, "ok", "database"}
        /\ workers'["packages"] \in {None, "ok", "catalog"}
    BY <1>1, <1>6 DEF TypeInv, Goroutines
  <2>2. workers'["packages"] = "ok" => found' = catalog' /\ catalog'.kind = "ok"
    BY <1>1, <1>5, <1>6 DEF TypeInv, Goroutines
  <2> QED BY <2>1, <2>2, <1>1, <1>2, <1>3, <1>6 DEF TypeInv, Early
<1>8. StoreHeld' BY <1>1, <1>5, <1>6 DEF StoreHeld, Goroutines
<1>9. ErrorsTell' BY <1>1, <1>3 DEF ErrorsTell, Early
<1>10. FilesHold' BY <1>1, FilesStay
<1> QED BY <1>2, <1>7, <1>8, <1>9, <1>10 DEF RunInv

LEMMA checkForAppUpdateStep == RunInv /\ checkForAppUpdate => RunInv'
<1> SUFFICES ASSUME RunInv, checkForAppUpdate PROVE RunInv' OBVIOUS
<1>1. /\ Running /\ pc = "parallel" /\ workers["update"] = None
      /\ workers' = [workers EXCEPT !["update"] = "ok"]
      /\ queue' = queue \/ queue' = queue \o <<event("update", "new version")>>
      /\ UNCHANGED <<req, catalog, pc, rules, files, store, found, doc, outs, errs, ui, stdout, exit, interrupted, explained>>
  BY DEF checkForAppUpdate, Starts, Finishes, Publish
<1>2. TypeInv BY DEF RunInv
<1>3. \E es : Published(es) /\ \A i \in DOMAIN es : es[i].kind \notin {"report", "exit"}
  <2>1. CASE queue' = queue BY <2>1, <1>2, NoEvent
  <2>2. CASE queue' = queue \o <<event("update", "new version")>>
    <3>1. PICK e \in Events : e = event("update", "new version") /\ e.kind \notin {"report", "exit"} BY EventsAre
    <3>2. Published(<<e>>) /\ \A i \in DOMAIN <<e>> : <<e>>[i] = e BY <2>2, <3>1, OneEvent
    <3> QED BY <3>1, <3>2
  <2> QED BY <1>1, <2>1, <2>2
<1>4. "update" \in Goroutines BY DEF Goroutines
<1> QED BY <1>1, <1>3, <1>4, WorkerKeeps

LEMMA LoadVulnerabilityDBStep == RunInv /\ LoadVulnerabilityDB => RunInv'
<1> SUFFICES ASSUME RunInv, LoadVulnerabilityDB PROVE RunInv' OBVIOUS
<1>1. /\ Running /\ pc = "parallel" /\ workers["db"] = None
      /\ UNCHANGED <<req, catalog, pc, rules, files, found, doc, outs, errs, ui, stdout, exit, interrupted, explained>>
  BY DEF LoadVulnerabilityDB, Starts
<1>2. PICK outcome \in {"ok", "database"} :
        /\ workers' = [workers EXCEPT !["db"] = outcome]
        /\ store' = store \/ (outcome = "ok" /\ store' = "open")
  BY DEF LoadVulnerabilityDB, Finishes
<1>3. queue' = queue \/ queue' = queue \o <<event("notification", "checksum")>>
  BY DEF LoadVulnerabilityDB, Publish
<1>4. TypeInv BY DEF RunInv
<1>5. \E es : Published(es) /\ \A i \in DOMAIN es : es[i].kind \notin {"report", "exit"}
  <2>1. CASE queue' = queue BY <2>1, <1>4, NoEvent
  <2>2. CASE queue' = queue \o <<event("notification", "checksum")>>
    <3>1. PICK e \in Events : e = event("notification", "checksum") /\ e.kind \notin {"report", "exit"} BY EventsAre
    <3>2. Published(<<e>>) /\ \A i \in DOMAIN <<e>> : <<e>>[i] = e BY <2>2, <3>1, OneEvent
    <3> QED BY <3>1, <3>2
  <2> QED BY <1>3, <2>1, <2>2
<1>6. "db" \in Goroutines BY DEF Goroutines
<1> QED BY <1>1, <1>2, <1>5, <1>6, WorkerKeeps

LEMMA CatalogPackagesStep == RunInv /\ CatalogPackages => RunInv'
<1> SUFFICES ASSUME RunInv, CatalogPackages PROVE RunInv' OBVIOUS
<1>1. /\ Running /\ pc = "parallel" /\ workers["packages"] = None /\ queue' = queue /\ store' = store
      /\ UNCHANGED <<req, catalog, pc, rules, files, doc, outs, errs, ui, stdout, exit, interrupted, explained>>
  BY DEF CatalogPackages, Starts
<1>2. PICK outcome \in {"ok", "catalog"} :
        /\ workers' = [workers EXCEPT !["packages"] = outcome]
        /\ outcome = "ok" => found' = catalog /\ catalog.kind = "ok"
  BY DEF CatalogPackages, Finishes
<1>3. TypeInv BY DEF RunInv
<1>4. \E es : Published(es) /\ \A i \in DOMAIN es : es[i].kind \notin {"report", "exit"}
  BY <1>1, <1>3, NoEvent
<1>5. "packages" \in Goroutines BY DEF Goroutines
<1> QED BY <1>1, <1>2, <1>4, <1>5, WorkerKeeps

LEMMA JoinStep == RunInv /\ Join => RunInv'
<1> SUFFICES ASSUME RunInv, Join PROVE RunInv' OBVIOUS
<1> DEFINE failed == {workers[w] : w \in Done} \ {"ok"}
<1>1. /\ Running /\ pc = "parallel" /\ Done = DOMAIN workers
      /\ IF failed = {} THEN pc' = "vex" /\ UNCHANGED <<errs, queue>>
         ELSE pc' = "returned" /\ errs' = failed /\ queue' = queue \o <<DoneEvent>>
      /\ UNCHANGED <<req, catalog, workers, rules, files, store, found, doc, outs, ui, stdout, exit, interrupted, explained>>
  BY DEF Join, Publish, DoneEvent
<1>2. TypeInv /\ ExitLast /\ TornDown /\ StoreHeld /\ ErrorsTell /\ FilesHold /\ ReportsTravel BY DEF RunInv
<1>3. errs = {} /\ doc = NoDocument BY <1>1, <1>2 DEF ErrorsTell, Early
<1>4. Outputs' = Outputs /\ Events' = Events BY <1>1 DEF Outputs, Events, Texts
<1>5. DOMAIN workers = Goroutines /\ \A w \in Goroutines : workers[w] # None
  <2>1. DOMAIN workers = Goroutines BY <1>2 DEF TypeInv
  <2> QED BY <2>1, <1>1 DEF Done
<1>6. failed = {workers["update"], workers["db"], workers["packages"]} \ {"ok"}
  BY <1>1, <1>5 DEF Goroutines
<1>7. workers["update"] = "ok" /\ workers["db"] \in {"ok", "database"} /\ workers["packages"] \in {"ok", "catalog"}
  BY <1>2, <1>5 DEF TypeInv, Goroutines
<1> HIDE DEF failed
<1>8. CASE failed = {}
  <2>1. pc' = "vex" /\ UNCHANGED <<errs, queue>> BY <1>1, <1>8
  <2>2. queue' \in Seq(Events') /\ ExitLast' /\ TornDown' /\ ReportsTravel' BY <2>1, <1>1, <1>2, SilentKeeps
  <2>3. \A w \in Goroutines : workers[w] = "ok" BY <1>6, <1>7, <1>8 DEF Goroutines
  <2>4. TypeInv' BY <2>1, <2>2, <2>3, <1>1, <1>2, <1>4 DEF TypeInv, Early
  <2>5. StoreHeld' BY <2>1, <1>1, <1>2 DEF StoreHeld
  <2>6. ErrorsTell' BY <2>1, <1>1, <1>2, <1>3 DEF ErrorsTell, Early
  <2>7. FilesHold' BY <2>1, <1>1, <1>2, FilesStay
  <2> QED BY <2>2, <2>4, <2>5, <2>6, <2>7 DEF RunInv
<1>9. CASE failed # {}
  <2>1. pc' = "returned" /\ errs' = failed /\ queue' = queue \o <<DoneEvent>> BY <1>1, <1>9
  <2>2. queue' \in Seq(Events') /\ ExitLast' /\ TornDown' /\ ReportsTravel' BY <2>1, <1>1, <1>2, ReturnKeeps
  <2>4. TypeInv' BY <2>1, <2>2, <1>1, <1>2, <1>4 DEF TypeInv, Early
  <2>5. StoreHeld' BY <2>1, <1>1, <1>2, <1>6, <1>7, <1>9 DEF StoreHeld
  <2>6. ErrorsTell' BY <2>1, <1>1, <1>2, <1>3, <1>6, <1>7, <1>9 DEF ErrorsTell, Early
  <2>7. FilesHold' BY <2>1, <1>1, <1>2, FilesStay
  <2> QED BY <2>2, <2>4, <2>5, <2>6, <2>7 DEF RunInv
<1> QED BY <1>8, <1>9

LEMMA applyVexRulesStep == RunInv /\ applyVexRules => RunInv'
<1> SUFFICES ASSUME RunInv, applyVexRules PROVE RunInv' OBVIOUS
<1>1. /\ Running /\ pc = "vex"
      /\ \/ pc' = "match" /\ UNCHANGED <<errs, store, queue>>
         \/ Return({"vex"})
      /\ UNCHANGED <<req, catalog, workers, files, found, doc, outs, ui, stdout, exit, interrupted, explained>>
  BY DEF applyVexRules
<1>2. TypeInv /\ ExitLast /\ TornDown /\ StoreHeld /\ ErrorsTell /\ FilesHold /\ ReportsTravel BY DEF RunInv
<1>3. errs = {} /\ doc = NoDocument BY <1>1, <1>2 DEF ErrorsTell, Early
<1>4. Outputs' = Outputs /\ Events' = Events BY <1>1 DEF Outputs, Events, Texts
<1>5. CASE Return({"vex"})
  <2>1. pc' = "returned" /\ errs' = {"vex"} /\ store' = "closed" /\ queue' = queue \o <<DoneEvent>>
    BY <1>3, <1>5 DEF Return, Publish, DoneEvent
  <2>2. queue' \in Seq(Events') /\ ExitLast' /\ TornDown' /\ ReportsTravel' BY <2>1, <1>1, <1>2, ReturnKeeps
  <2>3. TypeInv' BY <2>1, <2>2, <1>1, <1>2, <1>4 DEF TypeInv, Early
  <2>4. StoreHeld' BY <2>1 DEF StoreHeld
  <2>5. ErrorsTell' BY <2>1, <1>1, <1>2, <1>3 DEF ErrorsTell, Early
  <2>6. FilesHold' BY <2>1, <1>1, <1>2, FilesStay
  <2> QED BY <2>2, <2>3, <2>4, <2>5, <2>6 DEF RunInv
<1>6. CASE pc' = "match" /\ UNCHANGED <<errs, store, queue>>
  <2>2. queue' \in Seq(Events') /\ ExitLast' /\ TornDown' /\ ReportsTravel' BY <1>1, <1>2, <1>6, SilentKeeps
  <2>3. TypeInv' BY <2>2, <1>1, <1>2, <1>4, <1>6 DEF TypeInv, Early
  <2>4. StoreHeld' BY <1>1, <1>2, <1>3, <1>6 DEF StoreHeld
  <2>5. ErrorsTell' BY <1>1, <1>2, <1>3, <1>6 DEF ErrorsTell, Early
  <2>6. FilesHold' BY <1>1, <1>2, <1>6, FilesStay
  <2> QED BY <2>2, <2>3, <2>4, <2>5, <2>6 DEF RunInv
<1> QED BY <1>1, <1>5, <1>6

(* The notices about distributions: no report and no exit among them.      *)
LEMMA NoticesAre ==
  ASSUME NEW eol \in SUBSET EOL, NEW ds \in SetToSeqs(eol),
         NEW es, es = [i \in DOMAIN ds |-> event("notification", ds[i].type)]
  PROVE  es \in Seq(Events) /\ \A i \in DOMAIN es : es[i].kind = "notification"
<1>1. IsFiniteSet(eol) BY RequestsAssumption, FS_Subset
<1>2. ds \in Seq(eol) BY <1>1, OrderLists
<1>3. Len(ds) \in Nat /\ DOMAIN ds = 1..Len(ds) /\ \A i \in 1..Len(ds) : ds[i] \in EOL BY <1>2
<1>4. \A i \in 1..Len(ds) : es[i] \in Events /\ es[i].kind = "notification" BY <1>3, EventsAre
<1>5. es = [i \in 1..Len(ds) |-> es[i]] BY <1>3
<1>6. es \in Seq(Events) /\ DOMAIN es = 1..Len(ds) BY <1>3, <1>4, <1>5
<1> QED BY <1>4, <1>6

LEMMA FindMatchesAndDocumentStep == RunInv /\ FindMatchesAndDocument => RunInv'
<1> SUFFICES ASSUME RunInv, FindMatchesAndDocument PROVE RunInv' OBVIOUS
<1> DEFINE all == FindMatches(found.pkgs)
           ignored == {m \in all : \E r \in rules : ignores(r, m)}
           eol == {d \in EOL : req.opts.eolAlerts /\ \E p \in Range(found.pkgs) : p.distro = d}
           above == \E m \in all \ ignored : AtOrAbove(m.vuln.sev, req.opts.failOn)
           notified(ds) == [i \in DOMAIN ds |-> event("notification", ds[i].type)]
<1>1. /\ Running /\ pc = "match"
      /\ UNCHANGED <<req, catalog, workers, rules, files, found, outs, ui, stdout, exit, interrupted, explained>>
  BY DEF FindMatchesAndDocument
<1>2. \/ Return({"matching"}) /\ UNCHANGED doc
      \/ \E notices \in SetToSeqs(eol) :
           \/ \E listed \in SetToSeqs(all \ ignored) :
                /\ doc' = NewDocument(found.pkgs, found.distro, listed, SetToSeq(ignored), req.opts.sortBy, eol)
                /\ errs' = IF above THEN {"threshold"} ELSE {}
                /\ queue' = queue \o notified(notices)
                /\ pc' = "write"
                /\ UNCHANGED store
           \/ /\ errs' = {"document"}
              /\ queue' = queue \o Append(notified(notices), DoneEvent)
              /\ pc' = "returned" /\ store' = "closed"
              /\ UNCHANGED doc
  BY DEF FindMatchesAndDocument, Publish, DoneEvent
<1>3. TypeInv /\ ExitLast /\ TornDown /\ StoreHeld /\ ErrorsTell /\ FilesHold /\ ReportsTravel BY DEF RunInv
<1>4. errs = {} /\ doc = NoDocument /\ outs = 0 BY <1>1, <1>3 DEF ErrorsTell, Early
<1>5. Outputs' = Outputs /\ Events' = Events BY <1>1 DEF Outputs, Events, Texts
<1>6. IsFiniteSet(all \ ignored) /\ \A m \in all \ ignored : "sev" \in DOMAIN m.vuln
  <2>1. workers["packages"] = "ok" BY <1>1, <1>3 DEF TypeInv, Goroutines
  <2>2. found.pkgs \in Seq(Range(found.pkgs)) BY <2>1, <1>3, RequestsAssumption DEF TypeInv
  <2>3. IsFiniteSet(all) /\ \A m \in all : "sev" \in DOMAIN m.vuln BY <2>2, FindMatchesIs
  <2> HIDE DEF all, ignored
  <2> QED BY <2>3, FS_Difference
<1>7. eol \in SUBSET EOL OBVIOUS
<1> HIDE DEF all, ignored, eol
<1>8. CASE Return({"matching"}) /\ UNCHANGED doc
  <2>1. pc' = "returned" /\ errs' = {"matching"} /\ store' = "closed" /\ queue' = queue \o <<DoneEvent>>
    BY <1>4, <1>8 DEF Return, Publish, DoneEvent
  <2>2. queue' \in Seq(Events') /\ ExitLast' /\ TornDown' /\ ReportsTravel' BY <2>1, <1>1, <1>3, <1>8, ReturnKeeps
  <2>3. TypeInv' BY <2>1, <2>2, <1>1, <1>3, <1>5 DEF TypeInv, Early
  <2>4. StoreHeld' BY <2>1 DEF StoreHeld
  <2>5. ErrorsTell' BY <2>1, <1>1, <1>3, <1>4, <1>8 DEF ErrorsTell, Early
  <2>6. FilesHold' BY <2>1, <1>1, <1>3, <1>8, FilesStay
  <2> QED BY <2>2, <2>3, <2>4, <2>5, <2>6 DEF RunInv
<1>9. ASSUME NEW notices \in SetToSeqs(eol),
             errs' = {"document"}, queue' = queue \o Append(notified(notices), DoneEvent),
             pc' = "returned", store' = "closed", UNCHANGED doc
      PROVE  RunInv'
  <2>1. PICK es \in Seq(Events) : es = notified(notices) /\ \A i \in DOMAIN es : es[i].kind = "notification"
    BY <1>7, NoticesAre
  <2>a. PICK z \in Events : z = DoneEvent BY EventsAre
  <2>b. Append(es, z) \in Seq(Events) BY AppendIs
  <2>2. PICK fs \in Seq(Events) : fs = Append(es, z) BY <2>b
  <2>3. /\ DOMAIN es = 1..Len(es) /\ Len(es) \in Nat /\ Len(fs) = Len(es) + 1 /\ DOMAIN fs = 1..(Len(es) + 1)
        /\ \A i \in 1..Len(es) : fs[i] = es[i]
        /\ fs[Len(es) + 1] = DoneEvent
    BY <2>a, <2>2, AppendIs
  <2>4. ASSUME NEW i \in DOMAIN fs
        PROVE  /\ fs[i].kind # "report"
               /\ fs[i].kind = "exit" => fs[i].body = "done" /\ i = Len(fs)
    <3>1. CASE i \in 1..Len(es)
      <4>1. fs[i].kind = "notification" BY <3>1, <2>1, <2>3
      <4> QED BY <4>1
    <3>2. CASE i = Len(es) + 1 BY <3>2, <2>3, EventsAre
    <3> QED BY <2>3, <3>1, <3>2
  <2>5. Published(fs) BY <2>1, <2>a, <2>2, <2>4, <1>9 DEF Published
  <2>6. queue' \in Seq(Events') /\ ExitLast' /\ TornDown' /\ ReportsTravel'
    BY <2>4, <2>5, <1>1, <1>3, <1>9, PublishedLast, PublishedQuiet
  <2>7. TypeInv' BY <2>6, <1>1, <1>3, <1>5, <1>9 DEF TypeInv, Early
  <2>8. StoreHeld' BY <1>9 DEF StoreHeld
  <2>9. ErrorsTell' BY <1>1, <1>3, <1>4, <1>9 DEF ErrorsTell, Early
  <2>10. FilesHold' BY <1>1, <1>3, <1>9, FilesStay
  <2> QED BY <2>6, <2>7, <2>8, <2>9, <2>10 DEF RunInv
<1>10. ASSUME NEW notices \in SetToSeqs(eol), NEW listed \in SetToSeqs(all \ ignored),
              doc' = NewDocument(found.pkgs, found.distro, listed, SetToSeq(ignored), req.opts.sortBy, eol),
              errs' = IF above THEN {"threshold"} ELSE {},
              queue' = queue \o notified(notices),
              pc' = "write", UNCHANGED store
       PROVE  RunInv'
  <2>1. PICK es \in Seq(Events) : es = notified(notices) /\ \A i \in DOMAIN es : es[i].kind = "notification"
    BY <1>7, NoticesAre
  <2>2. Published(es) /\ \A i \in DOMAIN es : es[i].kind # "report" BY <2>1, <1>10 DEF Published
  <2>3. queue' \in Seq(Events') /\ ExitLast' /\ TornDown' /\ ReportsTravel'
    BY <2>2, <1>1, <1>3, <1>4, PublishedLast, PublishedQuiet
  <2>4. doc' # NoDocument /\ (Above(doc') <=> above)
    <3>1. PICK M : M = all \ ignored OBVIOUS
    <3>2. IsFiniteSet(M) /\ (\A m \in M : "sev" \in DOMAIN m.vuln) /\ listed \in SetToSeqs(M) BY <3>1, <1>6
    <3>3. PICK d : d = doc' OBVIOUS
    <3>4. d = NewDocument(found.pkgs, found.distro, listed, SetToSeq(ignored), req.opts.sortBy, eol)
      BY <3>3, <1>10
    <3>5. d # NoDocument /\ SameSeverities(d, M, req.opts.failOn) BY <3>2, <3>4, DocumentIs
    <3> QED BY <3>1, <3>3, <3>5 DEF Above, SameSeverities
  <2>5. (Above(doc))' <=> Above(doc') BY <1>1 DEF Above
  <2>6. TypeInv' BY <2>3, <1>1, <1>3, <1>5, <1>10 DEF TypeInv, Early
  <2>7. StoreHeld' BY <1>1, <1>3, <1>4, <1>10 DEF StoreHeld
  <2>8. ErrorsTell'
    <3>1. Len(Outputs) > 0 BY <1>3, OutputsAre
    <3>2. "threshold" \in errs' <=> (Above(doc))' BY <2>4, <2>5, <1>10
    <3>3. \A i \in 1..outs' : FALSE BY <1>1, <1>4
    <3> QED BY <3>1, <3>2, <3>3, <2>4, <1>1, <1>4, <1>5, <1>10 DEF ErrorsTell, Early, NoDocument
  <2>9. FilesHold'
    <3>1. \A f \in Paths(req.opts) : files[f] = holding("nothing") BY <1>1, <1>3 DEF FilesHold
    <3>2. files = [f \in Paths(req.opts) |-> files[f]] BY <1>3 DEF FilesHold
    <3>3. holding("nothing") # holding("earlier report") BY DEF holding
    <3>4. ASSUME NEW i \in DOMAIN Outputs, Outputs[i].file # None PROVE Outputs[i].file \in Paths(req.opts)
      BY <3>4, <1>3, OutputsAre DEF Paths, Outputs
    <3>5. \A i \in DOMAIN Outputs : ~(i <= outs)
      <4>1. DOMAIN Outputs = 1..Len(Outputs) /\ Len(Outputs) \in Nat BY <1>3, OutputsAre
      <4> QED BY <4>1, <1>4
    <3> QED BY <3>1, <3>2, <3>3, <3>4, <3>5, <2>4, <1>1, <1>5, <1>10 DEF FilesHold, NoDocument
  <2> QED BY <2>3, <2>6, <2>7, <2>8, <2>9 DEF RunInv
<1> QED BY <1>2, <1>8, <1>9, <1>10

(* The output that is written next.                                        *)
LEMMA NextOutput ==
  ASSUME TypeInv, ErrorsTell, pc = "write"
  PROVE  /\ doc # NoDocument /\ outs \in Nat /\ outs < Len(Outputs) /\ Len(Outputs) \in Nat
         /\ outs + 1 \in DOMAIN Outputs /\ DOMAIN Outputs = 1..Len(Outputs)
         /\ Outputs[outs + 1] \in Range(Outputs)
<1>1. Len(Outputs) \in Nat /\ DOMAIN Outputs = 1..Len(Outputs) BY OutputsAre
<1>2. doc # NoDocument /\ outs < Len(Outputs) BY DEF ErrorsTell
<1>3. outs \in 0..Len(Outputs) BY Zenon DEF TypeInv
<1>4. outs \in Nat /\ outs + 1 \in 1..Len(Outputs) BY <1>1, <1>2, <1>3
<1>5. outs + 1 \in DOMAIN Outputs BY <1>1, <1>4
<1>6. Outputs[outs + 1] \in Range(Outputs) BY <1>5, OutputsAre
<1> QED BY <1>1, <1>2, <1>4, <1>5, <1>6

(* The files after an output has been written.                             *)
LEMMA WriteOutputFiles ==
  ASSUME RunInv, WriteOutput
  PROVE  FilesHold'
<1> DEFINE o == Outputs[outs + 1]
           fails == o.format = "broken template"
<1>1. /\ Running /\ pc = "write" /\ outs' = outs + 1
      /\ files' = IF o.file = None \/ fails THEN files ELSE [files EXCEPT ![o.file] = overwritten(@, o)]
      /\ pc' \in {"write", "returned"}
      /\ UNCHANGED <<req, doc>>
  BY DEF WriteOutput
<1>2. TypeInv /\ ErrorsTell /\ FilesHold BY DEF RunInv
<1>3. doc # NoDocument /\ outs \in Nat /\ outs < Len(Outputs) BY <1>1, <1>2, NextOutput
<1>4. outs + 1 \in DOMAIN Outputs /\ DOMAIN Outputs = 1..Len(Outputs) /\ Len(Outputs) \in Nat
  BY <1>1, <1>2, NextOutput
<1>5. Outputs' = Outputs /\ Paths(req'.opts) = Paths(req.opts) BY <1>1 DEF Outputs
<1>6. ASSUME NEW i \in DOMAIN Outputs, Outputs[i].file # None PROVE Outputs[i].file \in Paths(req.opts)
  BY <1>6, <1>2, OutputsAre DEF Paths, Outputs
<1>7. ASSUME NEW i \in DOMAIN Outputs PROVE Shared(Outputs[i])' <=> Shared(Outputs[i]) BY <1>5 DEF Shared
<1>8. /\ files = [f \in Paths(req.opts) |-> files[f]]
      /\ \A f \in Paths(req.opts) : files[f] # holding("earlier report")
      /\ \A i \in DOMAIN Outputs :
            Outputs[i].file # None /\ Good(Outputs[i]) /\ ~Shared(Outputs[i]) =>
              files[Outputs[i].file] = IF i <= outs THEN holding(Outputs[i].format) ELSE holding("nothing")
  BY <1>2, <1>3 DEF FilesHold
<1>9. o.format \notin {"earlier report", "nothing", "mixture"} BY <1>2, <1>4, OutputsAre
<1>10. ASSUME NEW old PROVE overwritten(old, o) # holding("earlier report")
  BY <1>9 DEF overwritten, holding
<1>11. overwritten(holding("nothing"), o) = holding(o.format) BY DEF overwritten
<1> HIDE DEF o
<1>12. files' = [f \in Paths(req.opts) |-> files'[f]] BY <1>1, <1>8
<1>13. ASSUME NEW f \in Paths(req.opts)
       PROVE  files'[f] = IF f = o.file /\ o.file # None /\ ~fails THEN overwritten(files[f], o) ELSE files[f]
  <2> HIDE DEF fails
  <2>1. DOMAIN files = Paths(req.opts) BY <1>8
  <2>2. CASE o.file = None \/ fails BY <2>2, <1>1
  <2>3. CASE ~(o.file = None \/ fails)
    <3>1. files' = [files EXCEPT ![o.file] = overwritten(files[o.file], o)] BY <2>3, <1>1
    <3> QED BY <3>1, <2>1, <2>3
  <2> QED BY <2>2, <2>3
<1>14. ASSUME NEW f \in Paths(req.opts) PROVE files'[f] # holding("earlier report")
  BY <1>8, <1>10, <1>13
<1>15. ASSUME NEW i \in DOMAIN Outputs, Outputs[i].file # None, Good(Outputs[i]), ~Shared(Outputs[i])
       PROVE  files'[Outputs[i].file] = IF i <= outs' THEN holding(Outputs[i].format) ELSE holding("nothing")
  <2>1. Outputs[i].file \in Paths(req.opts) BY <1>6, <1>15
  <2>2. files[Outputs[i].file] = IF i <= outs THEN holding(Outputs[i].format) ELSE holding("nothing")
    BY <1>8, <1>15
  <2>0. i \in 1..Len(Outputs) /\ Len(Outputs) \in Nat BY <1>4
  <2>c. i \in Nat BY <2>0
  <2>b. outs' = outs + 1 /\ outs \in Nat /\ i \in Nat BY <1>1, <1>3, <2>c, Zenon
  <2>a. ~(outs + 1 <= outs) /\ outs + 1 <= outs' BY <2>b
  <2>3. CASE i = outs + 1
    <3>1. Outputs[i] = o /\ ~fails BY <2>3, <1>15 DEF o, Good
    <3>2. files[o.file] = holding("nothing") BY <2>2, <2>3, <2>a, <3>1
    <3>3. files'[o.file] = overwritten(files[o.file], o) BY <2>1, <3>1, <1>13, <1>15
    <3> QED BY <2>3, <2>a, <3>1, <3>2, <3>3, <1>11
  <2>4. CASE i # outs + 1
    <3>1. Outputs[i].file # o.file BY <2>4, <1>4, <1>15 DEF o, Shared
    <3>2. files'[Outputs[i].file] = files[Outputs[i].file] BY <2>1, <3>1, <1>13
    <3>3. i <= outs' <=> i <= outs BY <2>4, <2>b
    <3> QED BY <2>2, <3>2, <3>3
  <2> QED BY <2>3, <2>4
<1>16. doc' # NoDocument BY <1>1, <1>3
<1>17. \A i \in DOMAIN Outputs :
         Outputs[i].file # None /\ Good(Outputs[i]) /\ ~Shared(Outputs[i])' =>
           files'[Outputs[i].file] = IF i <= outs' THEN holding(Outputs[i].format) ELSE holding("nothing")
  BY <1>7, <1>15
<1> QED BY <1>1, <1>5, <1>12, <1>14, <1>16, <1>17 DEF FilesHold, NoDocument, Good, holding

(* The reports after an output has been written.                           *)
LEMMA WriteOutputTravels ==
  ASSUME RunInv, WriteOutput
  PROVE  queue' \in Seq(Events') /\ ExitLast' /\ TornDown' /\ ReportsTravel'
<1> DEFINE o == Outputs[outs + 1]
           fails == o.format = "broken template"
           report == IF o.file # None \/ fails THEN <<>> ELSE <<event("report", o.format)>>
<1>1. /\ Running /\ pc = "write" /\ outs' = outs + 1
      /\ IF outs' < Len(Outputs) THEN queue' = queue \o report /\ pc' = pc
         ELSE queue' = queue \o Append(report, DoneEvent) /\ pc' = "returned"
      /\ UNCHANGED <<req, doc, ui, stdout, exit, interrupted>>
  BY DEF WriteOutput, Publish, DoneEvent
<1>2. TypeInv /\ ExitLast /\ TornDown /\ ErrorsTell /\ ReportsTravel BY DEF RunInv
<1>3. doc # NoDocument /\ outs \in Nat /\ outs < Len(Outputs) BY <1>1, <1>2, NextOutput
<1>4. outs + 1 \in DOMAIN Outputs /\ DOMAIN Outputs = 1..Len(Outputs) /\ Len(Outputs) \in Nat
  BY <1>1, <1>2, NextOutput
<1>5. o \in Range(Outputs) BY <1>1, <1>2, NextOutput
<1>6. Outputs' = Outputs /\ Formats' = Formats /\ Terminal' = Terminal BY <1>1 DEF Outputs, Formats, Terminal
<1>7. outs + 1 \in Terminal <=> ~(o.file # None \/ fails) BY <1>4 DEF Terminal, Good
<1>8. PICK z \in Events : z = DoneEvent /\ z.kind = "exit" /\ z.body = "done" BY EventsAre
<1>9. PICK r \in Seq(Events) : /\ r = report /\ \A i \in DOMAIN r : r[i].kind = "report"
                               /\ Reports(r) = IF outs + 1 \in Terminal THEN <<o.format>> ELSE <<>>
  <2>1. CASE outs + 1 \in Terminal
    <3>1. PICK e \in Events : e = event("report", o.format) /\ e.kind = "report" /\ e.body = o.format
      BY <1>5, EventsAre
    <3>a. <<e>> \in Seq(Events) OBVIOUS
    <3>2. PICK r \in Seq(Events) : r = <<e>> BY <3>a
    <3>3. \A i \in DOMAIN r : r[i] = e BY <3>2
    <3>4. Reports(r) = <<o.format>> BY <3>1, <3>2, ReportsOne
    <3>5. r = report BY <2>1, <3>1, <3>2, <1>7
    <3> QED BY <2>1, <3>1, <3>3, <3>4, <3>5
  <2>2. CASE outs + 1 \notin Terminal
    <3>a. <<>> \in Seq(Events) /\ DOMAIN <<>> = {} OBVIOUS
    <3>1. PICK r \in Seq(Events) : r = <<>> BY <3>a
    <3>2. DOMAIN r = {} /\ r = report BY <2>2, <3>a, <3>1, <1>7
    <3>3. Reports(r) = <<>> BY <3>1, <3>2, ReportsNone
    <3> QED BY <2>2, <3>2, <3>3
  <2> QED BY <2>1, <2>2
<1> HIDE DEF report, fails, o
<1>10. PICK es \in Seq(Events) : Published(es) /\ Reports(es) = Reports(r)
  <2>1. CASE outs' < Len(Outputs)
    <3>1. Published(r) BY <2>1, <1>1, <1>9 DEF Published
    <3> QED BY <3>1
  <2>2. CASE ~(outs' < Len(Outputs))
    <3>1. PICK fs \in Seq(Events) : fs = Append(r, z) BY AppendIs
    <3>2. /\ DOMAIN r = 1..Len(r) /\ Len(r) \in Nat /\ Len(fs) = Len(r) + 1 /\ DOMAIN fs = 1..(Len(r) + 1)
          /\ \A i \in 1..Len(r) : fs[i] = r[i]
          /\ fs[Len(r) + 1] = z
      BY <3>1, AppendIs
    <3>3. ASSUME NEW i \in DOMAIN fs, fs[i].kind = "exit" PROVE fs[i].body = "done" /\ i = Len(fs)
      <4>1. i \notin 1..Len(r)
        <5>1. ASSUME i \in 1..Len(r) PROVE fs[i].kind = "report" BY <5>1, <3>2, <1>9
        <5> QED BY <5>1, <3>3
      <4>2. i = Len(r) + 1 BY <4>1, <3>2
      <4> QED BY <4>2, <3>2, <1>8
    <3>4. Published(fs) BY <2>2, <3>1, <3>3, <1>1, <1>8, <1>9 DEF Published
    <3>5. Reports(fs) = Reports(r)
      <4>1. OfKind(fs, "report") = OfKind(r, "report") BY <3>1, <1>8, OfKindAppend
      <4> QED BY <4>1 DEF Reports
    <3> QED BY <3>4, <3>5
  <2> QED BY <2>1, <2>2
<1>11. queue' \in Seq(Events') /\ ExitLast' /\ TornDown' BY <1>1, <1>2, <1>10, PublishedLast
<1>12. ASSUME ~interrupted
       PROVE  Travelling' = UpTo(Formats, Terminal)[outs']
  <2>0. queue \in Seq(Events) /\ ui.final \in Seq(Events) /\ ui.hand \in Seq(Events) BY <1>2 DEF TypeInv
  <2>1. Travelling = UpTo(Formats, Terminal)[outs] BY <1>2, <1>3, <1>12 DEF ReportsTravel
  <2>2. Reports(queue') = Reports(queue) \o Reports(es) BY <2>0, <1>10, ReportsConcat DEF Published
  <2> DEFINE B == {e.body : e \in Events}
  <2>3. PICK a \in Seq(B), h \in Seq(B), q \in Seq(B), c \in Seq(B) :
          a = Reports(ui.final) /\ h = Reports(ui.hand) /\ q = Reports(queue) /\ c = Reports(es)
    BY <2>0, <1>10, ReportsSeq DEF Published
  <2> HIDE DEF B
  <2>4. Travelling' = (a \o (h \o q)) \o c /\ Travelling = a \o (h \o q)
    <3>1. h \o (q \o c) = (h \o q) \o c BY ConcatAssociative, SMTT(60)
    <3>a. h \o q \in Seq(B) OBVIOUS
    <3>2. PICK b \in Seq(B) : b = h \o q BY <3>a
    <3>3. a \o (b \o c) = (a \o b) \o c BY ConcatAssociative, SMTT(60)
    <3>4. Travelling' = a \o (h \o (q \o c)) BY <2>2, <2>3, <1>1 DEF Travelling
    <3> QED BY <2>3, <3>1, <3>2, <3>3, <3>4 DEF Travelling
  <2>a. PICK d \in Seq(B) : d = a \o (h \o q)
    <3>a. h \o q \in Seq(B) OBVIOUS
    <3>1. PICK b \in Seq(B) : b = h \o q BY <3>a
    <3>2. a \o b \in Seq(B) OBVIOUS
    <3> QED BY <3>1, <3>2
  <2>5. outs' \in 1..Len(Formats) /\ outs' - 1 = outs /\ Formats[outs'] = o.format
    BY <1>1, <1>2, <1>3, <1>4, FormatsAre DEF o
  <2>6. UpTo(Formats, Terminal)[outs'] = IF outs' \in Terminal THEN Append(UpTo(Formats, Terminal)[outs], o.format)
                                         ELSE UpTo(Formats, Terminal)[outs]
    BY <2>5, <1>2, FormatsAre, UpToIs
  <2>7. CASE outs + 1 \in Terminal
    <3>1. c = <<o.format>> BY <2>3, <2>7, <1>9, <1>10
    <3>2. o.format \in B
      <4>1. c[1] \in B BY <3>1
      <4> QED BY <3>1, <4>1
    <3>3. d \o <<o.format>> = Append(d, o.format) BY <3>2, AppendIsConcat
    <3> QED BY <2>1, <2>4, <2>a, <2>6, <2>7, <3>1, <3>3, <1>1
  <2>8. CASE outs + 1 \notin Terminal
    <3>1. c = <<>> BY <2>3, <2>8, <1>9, <1>10
    <3>2. d \o <<>> = d OBVIOUS
    <3> QED BY <2>1, <2>4, <2>a, <2>6, <2>8, <3>1, <3>2, <1>1
  <2> QED BY <2>7, <2>8
<1>13. doc' # NoDocument /\ Running' BY <1>1, <1>3 DEF Running
<1>14. ReportsTravel' BY <1>1, <1>6, <1>12, <1>13 DEF ReportsTravel, NoDocument
<1> QED BY <1>11, <1>14

LEMMA WriteOutputStep == RunInv /\ WriteOutput => RunInv'
<1> SUFFICES ASSUME RunInv, WriteOutput PROVE RunInv' OBVIOUS
<1>1. /\ Running /\ pc = "write" /\ outs' = outs + 1
      /\ errs' = IF ~Good(Outputs[outs + 1]) THEN errs \cup {"write"} ELSE errs
      /\ IF outs' < Len(Outputs) THEN UNCHANGED <<pc, store>> ELSE pc' = "returned" /\ store' = "closed"
      /\ UNCHANGED <<req, catalog, workers, rules, found, doc, ui, stdout, exit, interrupted, explained>>
  BY DEF WriteOutput, Good
<1>2. TypeInv /\ ExitLast /\ TornDown /\ StoreHeld /\ ErrorsTell /\ FilesHold /\ ReportsTravel BY DEF RunInv
<1>3. doc # NoDocument /\ outs \in Nat /\ outs < Len(Outputs) /\ Len(Outputs) \in Nat
  BY <1>1, <1>2, NextOutput
<1>4. Outputs' = Outputs /\ Events' = Events BY <1>1 DEF Outputs, Events, Texts
<1>5. queue' \in Seq(Events') /\ ExitLast' /\ TornDown' /\ ReportsTravel' BY WriteOutputTravels
<1>6. outs' \in 0..Len(Outputs) BY <1>1, <1>3
<1>7. TypeInv' BY <1>1, <1>2, <1>4, <1>5, <1>6 DEF TypeInv, Early
<1>8. StoreHeld' BY <1>1, <1>2 DEF StoreHeld
<1>9. ErrorsTell'
  <2>1. ("threshold" \in errs) <=> Above(doc) BY <1>2, <1>3 DEF ErrorsTell
  <2>2. ("threshold" \in errs') <=> (Above(doc))' BY <2>1, <1>1 DEF Above
  <2>3. ASSUME NEW i \in 1..outs', ~Good(Outputs[i]) PROVE "write" \in errs'
    <3>1. CASE i = outs + 1 BY <2>3, <3>1, <1>1
    <3>2. CASE i # outs + 1
      <4>1. i \in 1..outs BY <3>2, <1>1, <1>3
      <4>2. "write" \in errs BY <2>3, <4>1, <1>2, <1>3 DEF ErrorsTell
      <4> QED BY <4>2, <1>1
    <3> QED BY <3>1, <3>2
  <2>4. pc' = "write" => outs' < Len(Outputs) BY <1>1
  <2>5. pc' = "returned" => outs' = Len(Outputs) BY <1>1, <1>3
  <2>6. pc' \in {"write", "returned"} BY <1>1
  <2> QED BY <2>2, <2>3, <2>4, <2>5, <2>6, <1>1, <1>3, <1>4 DEF ErrorsTell, Early, NoDocument, Good
<1>10. FilesHold' BY WriteOutputFiles
<1> QED BY <1>5, <1>7, <1>8, <1>9, <1>10 DEF RunInv

(***************************************************************************)
(* The interface and the user.                                             *)
(***************************************************************************)
LEMMA FirstEvent ==
  ASSUME NEW S, NEW s \in Seq(S), s # <<>>
  PROVE  /\ Head(s) \in S /\ Tail(s) \in Seq(S) /\ s = <<Head(s)>> \o Tail(s) /\ Head(s) = s[1] /\ 1 \in DOMAIN s
         /\ Len(s) \in Nat /\ Len(Tail(s)) = Len(s) - 1
         /\ \A i \in DOMAIN Tail(s) : i + 1 \in DOMAIN s /\ Tail(s)[i] = s[i + 1] /\ i \in Nat
<1>1. /\ Head(s) \in S /\ Tail(s) \in Seq(S) /\ Len(Tail(s)) = Len(s) - 1
      /\ \A i \in 1..Len(Tail(s)) : Tail(s)[i] = s[i + 1]
  BY HeadTailProperties
<1>2. Len(s) \in Nat /\ Len(s) > 0 /\ DOMAIN s = 1..Len(s) /\ Head(s) = s[1] OBVIOUS
<1>3. DOMAIN Tail(s) = 1..(Len(s) - 1)
  <2>1. PICK t \in Seq(S) : t = Tail(s) BY <1>1
  <2>2. DOMAIN t = 1..Len(t) OBVIOUS
  <2> QED BY <2>1, <2>2, <1>1
<1>4. s = <<Head(s)>> \o Tail(s) OBVIOUS
<1>5. 1 \in DOMAIN s BY <1>2
<1>6. ASSUME NEW i \in DOMAIN Tail(s) PROVE i + 1 \in DOMAIN s /\ Tail(s)[i] = s[i + 1] /\ i \in Nat
  BY <1>1, <1>2, <1>3
<1> QED BY <1>1, <1>2, <1>4, <1>5, <1>6

(* A step of the event loop, the interface or the user leaves alone what   *)
(* the main goroutine keeps.                                               *)
LEMMA InterfaceKeeps ==
  ASSUME RunInv, UNCHANGED <<pc, main>>, queue' \in Seq(Events), interrupted' \in BOOLEAN, exit' \in {None, 0, 1, 2},
         ui' \in [alive : BOOLEAN, hand : Seq(Events), final : Seq(Events), closing : {None, "plain", "forced"}]
  PROVE  /\ TypeInv' /\ StoreHeld' /\ ErrorsTell' /\ FilesHold'
         /\ UNCHANGED <<pc, req, doc, outs>> /\ Formats' = Formats /\ Terminal' = Terminal /\ exitCode' = exitCode
<1>1. TypeInv /\ ExitLast /\ TornDown /\ StoreHeld /\ ErrorsTell /\ FilesHold /\ ReportsTravel BY DEF RunInv
<1>2. UNCHANGED <<pc, req, catalog, workers, rules, files, store, found, doc, outs, errs>> BY DEF main
<1>3. /\ Outputs' = Outputs /\ Events' = Events /\ Formats' = Formats /\ Terminal' = Terminal
      /\ exitCode' = exitCode
  BY <1>2 DEF Outputs, Events, Texts, Formats, Terminal, exitCode
<1>4. TypeInv' BY <1>1, <1>2, <1>3 DEF TypeInv, Early
<1>5. StoreHeld' BY <1>1, <1>2 DEF StoreHeld
<1>6. ErrorsTell' BY <1>1, <1>2, <1>3 DEF ErrorsTell, Early, Above
<1>7. FilesHold' BY <1>1, <1>2, FilesStay
<1> QED BY <1>2, <1>3, <1>4, <1>5, <1>6, <1>7

(* The event loop takes the first event.                                   *)
LEMMA TakesFirst ==
  ASSUME TypeInv, ExitLast, queue # <<>>, queue' = Tail(queue), UNCHANGED <<pc, interrupted>>
  PROVE  ExitLast'
<1>1. queue \in Seq(Events) BY DEF TypeInv
<1>2. /\ Len(queue) \in Nat /\ Len(queue') = Len(queue) - 1
      /\ \A i \in DOMAIN queue' : i + 1 \in DOMAIN queue /\ queue'[i] = queue[i + 1] /\ i \in Nat
  BY <1>1, FirstEvent
<1>3. ASSUME NEW i \in DOMAIN queue', queue'[i].kind = "exit"
      PROVE  /\ queue'[i].body \in {"done", "interrupted"}
             /\ queue'[i].body = "done" => pc' = "returned"
             /\ queue'[i].body # "done" => interrupted'
             /\ ~interrupted' => i = Len(queue')
  <2>1. i + 1 \in DOMAIN queue /\ queue'[i] = queue[i + 1] /\ i \in Nat BY <1>2
  <2>2. /\ queue[i + 1].body \in {"done", "interrupted"}
        /\ queue[i + 1].body = "done" => pc = "returned"
        /\ queue[i + 1].body # "done" => interrupted
        /\ ~interrupted => i + 1 = Len(queue)
    BY <1>3, <2>1 DEF ExitLast
  <2> QED BY <2>1, <2>2, <1>2
<1> QED BY <1>3 DEF ExitLast

LEMMA HandleStep == RunInv /\ Handle => RunInv'
<1> SUFFICES ASSUME RunInv, Handle PROVE RunInv' OBVIOUS
<1>1. /\ Running /\ ui.closing = None /\ queue # <<>> /\ Head(queue).kind # "exit" /\ queue' = Tail(queue)
      /\ UNCHANGED <<pc, main, stdout, exit, interrupted>>
  BY DEF Handle
<1>2. TypeInv /\ ExitLast /\ TornDown /\ ReportsTravel BY DEF RunInv
<1>3. /\ queue \in Seq(Events) /\ interrupted \in BOOLEAN /\ exit \in {None, 0, 1, 2}
      /\ ui \in [alive : BOOLEAN, hand : Seq(Events), final : Seq(Events), closing : {None, "plain", "forced"}]
  BY <1>2 DEF TypeInv
<1>4. PICK h \in Events : h = Head(queue) /\ h = queue[1] /\ 1 \in DOMAIN queue /\ queue = <<h>> \o Tail(queue)
  BY <1>1, <1>3, FirstEvent
<1>5. /\ queue' \in Seq(Events)
      /\ \A i \in DOMAIN queue' : i + 1 \in DOMAIN queue /\ queue'[i] = queue[i + 1] /\ i \in Nat
  BY <1>1, <1>3, FirstEvent
<1>6. PICK one \in Seq(Events) : one = <<h>> /\ \A i \in DOMAIN one : one[i] = h
  <2>1. <<h>> \in Seq(Events) /\ \A i \in DOMAIN <<h>> : <<h>>[i] = h OBVIOUS
  <2> QED BY <2>1
<1>7. /\ ui' \in [alive : BOOLEAN, hand : Seq(Events), final : Seq(Events), closing : {None, "plain", "forced"}]
      /\ ui'.alive = ui.alive /\ ui'.closing = None
      /\ \/ ~req.opts.tty /\ ui'.final = ui.final \o one /\ ui'.hand = ui.hand
         \/ ~req.opts.tty /\ h.kind # "report" /\ ui'.final = ui.final /\ ui'.hand = ui.hand
         \/ req.opts.tty /\ ui.alive /\ ui.hand = <<>> /\ ui'.hand = one /\ ui'.final = ui.final
         \/ req.opts.tty /\ ~ui.alive /\ ui' = ui
  <2>1. ui.final \o one \in Seq(Events) BY <1>3
  <2>2. CASE ~req.opts.tty /\ Head(queue).kind \in NoUIKeeps
    <3>1. ui' = [ui EXCEPT !.final = ui.final \o one] BY <2>2, <1>4, <1>6 DEF Handle
    <3> QED BY <2>1, <2>2, <3>1, <1>1, <1>3
  <2>3. CASE ~req.opts.tty /\ Head(queue).kind \notin NoUIKeeps
    <3>1. ui' = ui BY <2>3 DEF Handle
    <3>2. h.kind # "report" BY <2>3, <1>4 DEF NoUIKeeps
    <3> QED BY <2>3, <3>1, <3>2, <1>1, <1>3
  <2>4. CASE req.opts.tty /\ ui.alive /\ ui.hand = <<>>
    <3>1. ui' = [ui EXCEPT !.hand = one] BY <2>4, <1>4, <1>6 DEF Handle
    <3> QED BY <2>4, <3>1, <1>1, <1>3
  <2>5. CASE req.opts.tty /\ ~ui.alive
    <3>1. ui' = ui BY <2>5 DEF Handle
    <3> QED BY <2>5, <3>1, <1>1, <1>3
  <2>6. \/ ~req.opts.tty \/ (req.opts.tty /\ ui.alive /\ ui.hand = <<>>) \/ (req.opts.tty /\ ~ui.alive) BY DEF Handle
  <2> QED BY <2>2, <2>3, <2>4, <2>5, <2>6
<1>8. /\ TypeInv' /\ StoreHeld' /\ ErrorsTell' /\ FilesHold'
      /\ UNCHANGED <<pc, req, doc, outs>> /\ Formats' = Formats /\ Terminal' = Terminal
  BY <1>1, <1>3, <1>5, <1>7, InterfaceKeeps
<1>9. ExitLast' BY <1>1, <1>2, TakesFirst
<1>10. TornDown'
  <2>1. Running' BY <1>1 DEF Running
  <2>2. ~req.opts.tty \/ ~ui.alive => ui'.hand = <<>> BY <1>2, <1>7 DEF TornDown
  <2> QED BY <2>1, <2>2, <1>1, <1>2, <1>7, <1>8, RequestsAssumption DEF TornDown
<1>11. ReportsTravel'
  <2>1. ASSUME doc = NoDocument PROVE NoReport(queue') /\ NoReport(ui'.hand) /\ NoReport(ui'.final)
    <3>1. NoReport(queue) /\ NoReport(ui.hand) /\ NoReport(ui.final) BY <2>1, <1>2 DEF ReportsTravel
    <3>2. h.kind # "report" BY <3>1, <1>4 DEF NoReport
    <3>3. NoReport(one) BY <3>2, <1>6 DEF NoReport
    <3>4. NoReport(ui.final \o one)
      <4>1. PICK s \in Seq(Events) : s = ui.final BY <1>3
      <4>2. \A i \in DOMAIN (s \o one) : \/ i \in DOMAIN s /\ (s \o one)[i] = s[i]
                                         \/ \E j \in DOMAIN one : (s \o one)[i] = one[j]
        BY ConcatMembers
      <4> QED BY <4>1, <4>2, <3>1, <3>3 DEF NoReport
    <3>5. NoReport(queue') BY <3>1, <1>5 DEF NoReport
    <3> QED BY <3>1, <3>3, <3>4, <3>5, <1>7
  <2>2. ASSUME doc # NoDocument, ~interrupted PROVE Travelling' = UpTo(Formats, Terminal)[outs]
    <3> DEFINE B == {e.body : e \in Events}
    <3>1. Travelling = UpTo(Formats, Terminal)[outs] BY <2>2, <1>2 DEF ReportsTravel
    <3>2. Reports(queue) = Reports(one) \o Reports(queue') BY <1>1, <1>4, <1>5, <1>6, ReportsConcat
    <3>3. PICK a \in Seq(B), b \in Seq(B), c \in Seq(B) :
            a = Reports(ui.final) /\ b = Reports(one) /\ c = Reports(queue')
      BY <1>3, <1>5, ReportsSeq
    <3>4. ui.hand = <<>> /\ ui.alive BY <2>2, <1>1, <1>2, <1>7 DEF TornDown
    <3>5. Reports(<<>>) = <<>> BY OfKindEmpty, BodiesEmpty DEF Reports
    <3> HIDE DEF B
    <3>6. a \o (b \o c) = (a \o b) \o c BY ConcatAssociative, SMTT(60)
    <3>7. <<>> \o (b \o c) = b \o c /\ <<>> \o c = c
      <4>a. b \o c \in Seq(B) OBVIOUS
      <4>1. PICK d \in Seq(B) : d = b \o c BY <4>a
      <4>2. <<>> \o d = d /\ <<>> \o c = c BY ConcatEmptySeq
      <4> QED BY <4>1, <4>2
    <3>8. Travelling = a \o (b \o c) BY <3>2, <3>3, <3>4, <3>5, <3>7 DEF Travelling
    <3>9. CASE ui'.final = ui.final \o one /\ ui'.hand = ui.hand
      <4>1. Reports(ui'.final) = a \o b
        <5>1. PICK f \in Seq(Events) : f = ui.final BY <1>3
        <5>2. Reports(f \o one) = Reports(f) \o Reports(one) BY ReportsConcat
        <5> QED BY <5>1, <5>2, <3>3, <3>9
      <4>2. Travelling' = (a \o b) \o c BY <4>1, <3>3, <3>4, <3>5, <3>7, <3>9 DEF Travelling
      <4> QED BY <4>2, <3>1, <3>6, <3>8
    <3>10. CASE h.kind # "report" /\ ui'.final = ui.final /\ ui'.hand = ui.hand
      <4>1. b = <<>> BY <3>3, <3>10, <1>6, ReportsNone
      <4>2. Travelling' = a \o c BY <3>3, <3>4, <3>5, <3>7, <3>10 DEF Travelling
      <4> QED BY <4>1, <4>2, <3>1, <3>7, <3>8
    <3>11. CASE ui'.hand = one /\ ui'.final = ui.final
      <4>1. Travelling' = a \o (b \o c) BY <3>3, <3>11 DEF Travelling
      <4> QED BY <4>1, <3>1, <3>8
    <3> QED BY <3>4, <3>9, <3>10, <3>11, <1>7
  <2> QED BY <2>1, <2>2, <1>1, <1>8 DEF ReportsTravel, NoDocument
<1> QED BY <1>8, <1>9, <1>10, <1>11 DEF RunInv

LEMMA UpdateStep == RunInv /\ Update => RunInv'
<1> SUFFICES ASSUME RunInv, Update PROVE RunInv' OBVIOUS
<1>1. /\ Running /\ ui.hand # <<>>
      /\ ui' = [ui EXCEPT !.final = ui.final \o ui.hand, !.hand = <<>>]
      /\ UNCHANGED <<pc, main, queue, stdout, exit, interrupted>>
  BY DEF Update
<1>2. TypeInv /\ ExitLast /\ TornDown /\ ReportsTravel BY DEF RunInv
<1>3. /\ queue \in Seq(Events) /\ interrupted \in BOOLEAN /\ exit \in {None, 0, 1, 2}
      /\ ui \in [alive : BOOLEAN, hand : Seq(Events), final : Seq(Events), closing : {None, "plain", "forced"}]
  BY <1>2 DEF TypeInv
<1>4. PICK f \in Seq(Events), h \in Seq(Events) : f = ui.final /\ h = ui.hand BY <1>3
<1>5. /\ ui' \in [alive : BOOLEAN, hand : Seq(Events), final : Seq(Events), closing : {None, "plain", "forced"}]
      /\ ui'.alive = ui.alive /\ ui'.closing = ui.closing /\ ui'.final = f \o h /\ ui'.hand = <<>>
  <2>1. f \o h \in Seq(Events) /\ <<>> \in Seq(Events) OBVIOUS
  <2> QED BY <2>1, <1>1, <1>3, <1>4
<1>6. /\ TypeInv' /\ StoreHeld' /\ ErrorsTell' /\ FilesHold'
      /\ UNCHANGED <<pc, req, doc, outs>> /\ Formats' = Formats /\ Terminal' = Terminal
  BY <1>1, <1>3, <1>5, InterfaceKeeps
<1>7. ExitLast' BY <1>1, <1>2 DEF ExitLast
<1>8. TornDown'
  <2>1. Running' BY <1>1 DEF Running
  <2> QED BY <2>1, <1>1, <1>2, <1>5, <1>6 DEF TornDown
<1>9. ReportsTravel'
  <2>1. ASSUME doc = NoDocument PROVE NoReport(queue') /\ NoReport(ui'.hand) /\ NoReport(ui'.final)
    <3>1. NoReport(queue) /\ NoReport(h) /\ NoReport(f) BY <2>1, <1>2, <1>4 DEF ReportsTravel
    <3>2. \A i \in DOMAIN (f \o h) : \/ i \in DOMAIN f /\ (f \o h)[i] = f[i]
                                     \/ \E j \in DOMAIN h : (f \o h)[i] = h[j]
      BY ConcatMembers
    <3>3. NoReport(f \o h) BY <3>1, <3>2 DEF NoReport
    <3>4. NoReport(<<>>) BY DEF NoReport
    <3> QED BY <3>1, <3>3, <3>4, <1>1, <1>5
  <2>2. Travelling' = Travelling
    <3> DEFINE B == {e.body : e \in Events}
    <3>1. PICK a \in Seq(B), b \in Seq(B), c \in Seq(B) : a = Reports(f) /\ b = Reports(h) /\ c = Reports(queue)
      BY <1>3, ReportsSeq
    <3>2. Reports(<<>>) = <<>> BY OfKindEmpty, BodiesEmpty DEF Reports
    <3>3. Reports(f \o h) = a \o b BY <3>1, ReportsConcat
    <3> HIDE DEF B
    <3>4. a \o (b \o c) = (a \o b) \o c /\ <<>> \o c = c BY ConcatAssociative, ConcatEmptySeq, SMTT(60)
    <3>5. Travelling = a \o (b \o c) BY <3>1, <1>4 DEF Travelling
    <3>6. Travelling' = (a \o b) \o (<<>> \o c) BY <3>1, <3>2, <3>3, <1>1, <1>5 DEF Travelling
    <3> QED BY <3>4, <3>5, <3>6
  <2> QED BY <2>1, <2>2, <1>1, <1>2, <1>6 DEF ReportsTravel, NoDocument
<1> QED BY <1>6, <1>7, <1>8, <1>9 DEF RunInv

(* Steps that leave the events with the interface as they are.             *)
LEMMA EventsStay ==
  ASSUME ReportsTravel, UNCHANGED <<doc, outs>>, Formats' = Formats, Terminal' = Terminal,
         ui'.final = ui.final, ui'.hand = ui.hand, interrupted => interrupted', interrupted' \in BOOLEAN,
         NoReport(queue) => NoReport(queue'), ~interrupted' => Reports(queue') = Reports(queue)
  PROVE  ReportsTravel'
<1>1. ~interrupted' => Travelling' = Travelling BY DEF Travelling
<1> QED BY <1>1 DEF ReportsTravel, NoDocument

LEMMA ExitStep == RunInv /\ Exit => RunInv'
<1> SUFFICES ASSUME RunInv, Exit PROVE RunInv' OBVIOUS
<1>1. /\ Running /\ ui.closing = None /\ queue # <<>> /\ Head(queue).kind = "exit" /\ queue' = Tail(queue)
      /\ ui' = [ui EXCEPT !.closing = IF Head(queue).body = "interrupted" THEN "forced" ELSE "plain"]
      /\ UNCHANGED <<pc, main, stdout, exit, interrupted>>
  BY DEF Exit, Teardown
<1>2. TypeInv /\ ExitLast /\ TornDown /\ ReportsTravel BY DEF RunInv
<1>3. /\ queue \in Seq(Events) /\ interrupted \in BOOLEAN /\ exit \in {None, 0, 1, 2}
      /\ ui \in [alive : BOOLEAN, hand : Seq(Events), final : Seq(Events), closing : {None, "plain", "forced"}]
  BY <1>2 DEF TypeInv
<1>4. /\ queue' \in Seq(Events) /\ Head(queue) = queue[1] /\ 1 \in DOMAIN queue
      /\ Len(queue) \in Nat /\ Len(queue') = Len(queue) - 1
      /\ \A i \in DOMAIN queue' : i + 1 \in DOMAIN queue /\ queue'[i] = queue[i + 1]
  BY <1>1, <1>3, FirstEvent
<1>5. /\ queue[1].body \in {"done", "interrupted"}
      /\ queue[1].body = "done" => pc = "returned"
      /\ queue[1].body # "done" => interrupted
      /\ ~interrupted => 1 = Len(queue)
  BY <1>1, <1>2, <1>4 DEF ExitLast
<1>6. ASSUME ~interrupted
      PROVE  queue' = <<>> /\ Reports(queue') = Reports(queue)
  <2>2. Len(queue') = 0
    <3>1. Len(queue) = 1 BY ONLY <1>5, <1>6, Zenon
    <3>2. Len(queue') = Len(queue) - 1 BY ONLY <1>4, Zenon
    <3>3. PICK n \in Nat : n = Len(queue) BY ONLY <1>4, Zenon
    <3>4. PICK k : k = Len(queue') OBVIOUS
    <3>5. k = n - 1 /\ n = 1 BY ONLY <3>1, <3>2, <3>3, <3>4, Zenon
    <3>6. k = 0 BY ONLY <3>3, <3>5
    <3> QED BY ONLY <3>4, <3>6, Zenon
  <2>3. queue' = <<>>
    <3>1. PICK q \in Seq(Events) : q = queue' BY <1>4
    <3>2. Len(q) = 0 BY <3>1, <2>2
    <3>3. q = <<>> BY <3>2
    <3> QED BY <3>1, <3>3
  <2>4. \A i \in DOMAIN queue : queue[i].kind # "report"
    <3>1. DOMAIN queue = 1..1 BY <1>3, <1>5, <1>6
    <3>2. \A i \in DOMAIN queue : i = 1 BY <3>1
    <3> QED BY <3>2, <1>1, <1>4
  <2>5. DOMAIN queue' = {} BY <2>3
  <2>6. Reports(queue) = <<>> /\ Reports(queue') = <<>> BY <2>4, <2>5, <1>3, <1>4, ReportsNone
  <2> QED BY <2>3, <2>6
<1>7. /\ ui' \in [alive : BOOLEAN, hand : Seq(Events), final : Seq(Events), closing : {None, "plain", "forced"}]
      /\ ui'.alive = ui.alive /\ ui'.hand = ui.hand /\ ui'.final = ui.final
      /\ ui'.closing \in {"plain", "forced"}
      /\ ui'.closing = "forced" <=> queue[1].body = "interrupted"
  BY <1>1, <1>3, <1>4
<1>8. /\ TypeInv' /\ StoreHeld' /\ ErrorsTell' /\ FilesHold'
      /\ UNCHANGED <<pc, req, doc, outs>> /\ Formats' = Formats /\ Terminal' = Terminal
  BY <1>1, <1>3, <1>4, <1>7, InterfaceKeeps
<1>9. ExitLast' BY <1>1, <1>2, TakesFirst
<1>10. TornDown'
  <2>1. Running' BY <1>1 DEF Running
  <2>2. ui'.closing # None BY <1>7, RequestsAssumption
  <2>3. ui'.closing = "plain" => pc' = "returned" BY <1>5, <1>7, <1>8
  <2>4. ~interrupted' => queue' = <<>> /\ ui'.closing = "plain" BY <1>1, <1>5, <1>6, <1>7
  <2>5. ~req'.opts.tty \/ ~ui'.alive => ui'.hand = <<>> BY <1>2, <1>7, <1>8 DEF TornDown
  <2> QED BY <2>1, <2>2, <2>3, <2>4, <2>5 DEF TornDown
<1>11. ReportsTravel'
  <2>1. NoReport(queue) => NoReport(queue') BY <1>4 DEF NoReport
  <2>2. interrupted' \in BOOLEAN /\ (interrupted => interrupted') BY <1>1, <1>3
  <2>3. ~interrupted' => Reports(queue') = Reports(queue) BY <1>1, <1>6
  <2> QED BY <2>1, <2>2, <2>3, <1>2, <1>7, <1>8, EventsStay
<1> QED BY <1>8, <1>9, <1>10, <1>11 DEF RunInv

LEMMA QuitStep == RunInv /\ Quit => RunInv'
<1> SUFFICES ASSUME RunInv, Quit PROVE RunInv' OBVIOUS
<1>1. /\ Running /\ ui.closing # None /\ ui.hand = <<>> /\ ui' = [ui EXCEPT !.alive = FALSE]
      /\ UNCHANGED <<pc, main, queue, stdout, exit, interrupted>>
  BY DEF Quit
<1>2. TypeInv /\ ExitLast /\ TornDown /\ ReportsTravel BY DEF RunInv
<1>3. /\ queue \in Seq(Events) /\ interrupted \in BOOLEAN /\ exit \in {None, 0, 1, 2}
      /\ ui \in [alive : BOOLEAN, hand : Seq(Events), final : Seq(Events), closing : {None, "plain", "forced"}]
  BY <1>2 DEF TypeInv
<1>4. /\ ui' \in [alive : BOOLEAN, hand : Seq(Events), final : Seq(Events), closing : {None, "plain", "forced"}]
      /\ ui'.hand = ui.hand /\ ui'.final = ui.final /\ ui'.closing = ui.closing
  BY <1>1, <1>3
<1>5. /\ TypeInv' /\ StoreHeld' /\ ErrorsTell' /\ FilesHold'
      /\ UNCHANGED <<pc, req, doc, outs>> /\ Formats' = Formats /\ Terminal' = Terminal
  BY <1>1, <1>3, <1>4, InterfaceKeeps
<1>6. ExitLast' BY <1>1, <1>2 DEF ExitLast
<1>7. TornDown'
  <2>1. Running' BY <1>1 DEF Running
  <2> QED BY <2>1, <1>1, <1>2, <1>4, <1>5 DEF TornDown
<1>8. ReportsTravel' BY <1>1, <1>2, <1>3, <1>4, <1>5, EventsStay
<1> QED BY <1>5, <1>6, <1>7, <1>8 DEF RunInv

LEMMA FinishTeardownStep == RunInv /\ FinishTeardown => RunInv'
<1> SUFFICES ASSUME RunInv, FinishTeardown PROVE RunInv' OBVIOUS
<1>1. /\ Running /\ ui.closing # None
      /\ ui.closing = "plain" /\ req.opts.tty => ~ui.alive
      /\ stdout' = written(ui.final, req.opts.quiet)
      /\ exit' = IF ui.closing = "forced" THEN 1 ELSE exitCode
      /\ UNCHANGED <<pc, main, queue, ui, interrupted>>
  BY DEF FinishTeardown
<1>2. TypeInv /\ ExitLast /\ TornDown /\ ReportsTravel BY DEF RunInv
<1>3. /\ queue \in Seq(Events) /\ interrupted \in BOOLEAN
      /\ ui \in [alive : BOOLEAN, hand : Seq(Events), final : Seq(Events), closing : {None, "plain", "forced"}]
  BY <1>2 DEF TypeInv
<1>4. exit' \in {0, 1, 2} BY <1>1 DEF exitCode
<1>5. /\ TypeInv' /\ StoreHeld' /\ ErrorsTell' /\ FilesHold'
      /\ UNCHANGED <<pc, req, doc, outs>> /\ Formats' = Formats /\ Terminal' = Terminal /\ exitCode' = exitCode
  BY <1>1, <1>3, <1>4, InterfaceKeeps
<1>6. ExitLast' BY <1>1, <1>2 DEF ExitLast
<1>7. TornDown'
  <2>1. ui.closing = "plain" => ui.hand = <<>> /\ pc = "returned" BY <1>1, <1>2 DEF TornDown
  <2>2. ui.closing \in {"plain", "forced"} BY <1>1, <1>3
  <2>3. exit' = 1 \/ (pc' = "returned" /\ exit' = exitCode') BY <2>1, <2>2, <1>1, <1>5
  <2>4. ~interrupted' => ui'.hand = <<>> /\ exit' = exitCode' BY <2>1, <1>1, <1>2, <1>5 DEF TornDown
  <2>5. stdout' = written(ui'.final, req'.opts.quiet) BY <1>1, <1>5
  <2>6. ui' = ui /\ queue' = queue /\ interrupted' = interrupted BY <1>1
  <2> QED BY <2>3, <2>4, <2>5, <2>6, <1>1, <1>2, <1>5 DEF TornDown
<1>8. ReportsTravel' BY <1>1, <1>2, <1>3, <1>5, EventsStay
<1> QED BY <1>5, <1>6, <1>7, <1>8 DEF RunInv

LEMMA InterruptStep == RunInv /\ Interrupt => RunInv'
<1> SUFFICES ASSUME RunInv, Interrupt PROVE RunInv' OBVIOUS
<1>1. TypeInv /\ ExitLast /\ TornDown /\ ReportsTravel BY DEF RunInv
<1>2. Running /\ interrupted' = TRUE BY DEF Interrupt
<1>3. /\ queue \in Seq(Events) /\ exit \in {None, 0, 1, 2}
      /\ ui \in [alive : BOOLEAN, hand : Seq(Events), final : Seq(Events), closing : {None, "plain", "forced"}]
  BY <1>1 DEF TypeInv
<1>4. CASE Teardown(TRUE) /\ UNCHANGED queue
  <2>1. /\ ui' = [ui EXCEPT !.closing = "forced"] /\ UNCHANGED <<pc, main, queue, stdout, exit>>
    BY <1>4 DEF Teardown
  <2>2. /\ ui' \in [alive : BOOLEAN, hand : Seq(Events), final : Seq(Events), closing : {None, "plain", "forced"}]
        /\ ui'.alive = ui.alive /\ ui'.hand = ui.hand /\ ui'.final = ui.final /\ ui'.closing = "forced"
    BY <2>1, <1>3
  <2>3. /\ TypeInv' /\ StoreHeld' /\ ErrorsTell' /\ FilesHold'
        /\ UNCHANGED <<pc, req, doc, outs>> /\ Formats' = Formats /\ Terminal' = Terminal
    BY <2>1, <2>2, <1>2, <1>3, InterfaceKeeps
  <2>4. ExitLast' BY <2>1, <1>1, <1>2 DEF ExitLast
  <2>5. TornDown'
    <3>1. Running' BY <2>1, <1>2 DEF Running
    <3> QED BY <3>1, <2>2, <2>3, <1>1, <1>2 DEF TornDown
  <2>6. ReportsTravel' BY <2>1, <2>2, <2>3, <1>1, <1>2, EventsStay
  <2> QED BY <2>3, <2>4, <2>5, <2>6 DEF RunInv
<1>5. CASE /\ req.opts.tty /\ ui.alive /\ ui.hand = <<>>
           /\ ui' = [ui EXCEPT !.alive = FALSE]
           /\ Publish(<<event("exit", "interrupted")>>)
           /\ UNCHANGED <<pc, main, stdout, exit, explained>>
  <2>1. PICK e \in Events : e = event("exit", "interrupted") /\ e.kind = "exit" /\ e.body = "interrupted" BY EventsAre
  <2>2. queue' = queue \o <<e>> /\ UNCHANGED <<pc, main, stdout, exit>> BY <2>1, <1>5 DEF Publish
  <2>3. <<e>> \in Seq(Events) /\ \A i \in DOMAIN <<e>> : <<e>>[i] = e OBVIOUS
  <2>4. /\ queue' \in Seq(Events)
        /\ \A i \in DOMAIN queue' : \/ i \in DOMAIN queue /\ queue'[i] = queue[i]
                                    \/ queue'[i] = e
    BY <2>2, <2>3, <1>3, ConcatMembers
  <2>5. /\ ui' \in [alive : BOOLEAN, hand : Seq(Events), final : Seq(Events), closing : {None, "plain", "forced"}]
        /\ ui'.hand = ui.hand /\ ui'.final = ui.final /\ ui'.closing = ui.closing
    BY <1>3, <1>5
  <2>6. /\ TypeInv' /\ StoreHeld' /\ ErrorsTell' /\ FilesHold'
        /\ UNCHANGED <<pc, req, doc, outs>> /\ Formats' = Formats /\ Terminal' = Terminal
    BY <2>2, <2>4, <2>5, <1>2, <1>3, InterfaceKeeps
  <2>7. ExitLast'
    <3>1. ASSUME NEW i \in DOMAIN queue', queue'[i].kind = "exit"
          PROVE  /\ queue'[i].body \in {"done", "interrupted"}
                 /\ queue'[i].body = "done" => pc' = "returned"
      <4>1. CASE i \in DOMAIN queue /\ queue'[i] = queue[i] BY <3>1, <4>1, <2>6, <1>1 DEF ExitLast
      <4>2. CASE queue'[i] = e BY <4>2, <2>1
      <4> QED BY <4>1, <4>2, <2>4
    <3> QED BY <3>1, <1>2 DEF ExitLast
  <2>8. TornDown'
    <3>1. Running' BY <2>2, <1>2 DEF Running
    <3> QED BY <3>1, <2>5, <2>6, <1>1, <1>2, <1>5 DEF TornDown
  <2>9. ReportsTravel'
    <3>1. NoReport(queue) => NoReport(queue') BY <2>1, <2>4 DEF NoReport
    <3> QED BY <3>1, <2>5, <2>6, <1>1, <1>2, EventsStay
  <2> QED BY <2>6, <2>7, <2>8, <2>9 DEF RunInv
<1> QED BY <1>4, <1>5 DEF Interrupt

LEMMA QuietStep ==
  ASSUME RunInv, UNCHANGED <<pc, main, queue, ui, stdout, exit, interrupted>>
  PROVE  RunInv'
<1>1. TypeInv /\ ExitLast /\ TornDown /\ ReportsTravel BY DEF RunInv
<1>2. /\ TypeInv' /\ StoreHeld' /\ ErrorsTell' /\ FilesHold'
      /\ UNCHANGED <<pc, req, doc, outs>> /\ Formats' = Formats /\ Terminal' = Terminal /\ exitCode' = exitCode
  BY <1>1, InterfaceKeeps DEF TypeInv
<1>3. ExitLast' BY <1>1 DEF ExitLast
<1>4. TornDown' BY <1>1, <1>2 DEF TornDown, Running
<1>5. ReportsTravel' BY <1>1, <1>2, EventsStay DEF TypeInv
<1> QED BY <1>2, <1>3, <1>4, <1>5 DEF RunInv

(***************************************************************************)
(* The theorems.                                                           *)
(***************************************************************************)
(* A run keeps its books: exit events come last, the errors tell what      *)
(* became of it, the files hold what was written to them, and the reports  *)
(* for the terminal are with the interface or on their way to it           *)
(* (root.go:158-273, writer.go:125-166, ui.go:68-111).                     *)
THEOREM RunInvariant == Spec => []RunInv
<1>1. Init => RunInv BY InitRun
<1>2. RunInv /\ [Next]_vars => RunInv'
  <2> SUFFICES ASSUME RunInv, [Next]_vars PROVE RunInv' OBVIOUS
  <2>1. CASE MainStep
    BY <2>1, MakeScanResultWriterStep, AddIgnoreRulesStep, JoinStep, applyVexRulesStep,
       FindMatchesAndDocumentStep, WriteOutputStep DEF MainStep
  <2>2. CASE checkForAppUpdate BY <2>2, checkForAppUpdateStep
  <2>3. CASE LoadVulnerabilityDB BY <2>3, LoadVulnerabilityDBStep
  <2>4. CASE CatalogPackages BY <2>4, CatalogPackagesStep
  <2>5. CASE Handle BY <2>5, HandleStep
  <2>6. CASE Update BY <2>6, UpdateStep
  <2>7. CASE Exit BY <2>7, ExitStep
  <2>8. CASE Quit BY <2>8, QuitStep
  <2>9. CASE FinishTeardown BY <2>9, FinishTeardownStep
  <2>10. CASE Interrupt BY <2>10, InterruptStep
  <2>11. CASE Explain
    <3>1. UNCHANGED <<pc, main, queue, ui, stdout, exit, interrupted>> BY <2>11 DEF Explain
    <3> QED BY <3>1, QuietStep
  <2>12. CASE UNCHANGED vars BY <2>12, QuietStep DEF vars, main
  <2>13. CASE Stopped BY <2>13, QuietStep DEF Stopped, vars, main
  <2> QED BY <2>1, <2>2, <2>3, <2>4, <2>5, <2>6, <2>7, <2>8, <2>9, <2>10, <2>11, <2>12, <2>13 DEF Next
<1> QED BY <1>1, <1>2, PTL DEF Spec

LEMMA RunEndsClean == RunInv => EndsClean
<1> SUFFICES ASSUME RunInv PROVE EndsClean OBVIOUS
<1>1. TypeInv /\ ExitLast /\ TornDown /\ StoreHeld /\ ErrorsTell /\ FilesHold /\ ReportsTravel BY DEF RunInv
<1>2. queue \in Seq(Events) /\ ui.final \in Seq(Events) BY <1>1 DEF TypeInv
<1>3. exit # None => Reports(stdout) = Reports(ui.final)
  BY <1>1, <1>2, ReportsWritten DEF TornDown, Running
<1>4. ReportDelivered
  <2> SUFFICES ASSUME exit # None, ~interrupted, doc # NoDocument
               PROVE  /\ Reports(stdout) = OnTerminal
                      /\ \A o \in Range(Outputs) :
                           (o.file # None /\ Good(o) /\ ~Shared(o)) => files[o.file] = holding(o.format)
                      /\ exit = 2 <=> Above(doc)
                      /\ exit = 0 => \A o \in Range(Outputs) :
                           Good(o) /\ (o.file # None => files[o.file] # holding("earlier report"))
    BY DEF ReportDelivered, Above
  <2>1. queue = <<>> /\ ui.hand = <<>> /\ pc = "returned" /\ exit = exitCode BY <1>1 DEF TornDown, Running
  <2>2. outs = Len(Outputs) BY <2>1, <1>1 DEF ErrorsTell
  <2>3. Reports(stdout) = OnTerminal
    <3>1. Travelling = UpTo(Formats, Terminal)[Len(Outputs)] BY <2>2, <1>1 DEF ReportsTravel
    <3>2. Reports(<<>>) = <<>> BY OfKindEmpty, BodiesEmpty DEF Reports
    <3>3. Travelling = Reports(ui.final) \o (<<>> \o <<>>) BY <3>2, <2>1 DEF Travelling
    <3>4. Reports(ui.final) \o (<<>> \o <<>>) = Reports(ui.final)
      <4>1. <<>> \o <<>> = <<>> OBVIOUS
      <4> QED BY <4>1, <1>2, ReportsSeq, ConcatEmptySeq
    <3>5. OnTerminal = UpTo(Formats, Terminal)[Len(Formats)] BY <1>1, FormatsAre, UpToIs DEF OnTerminal, Terminal
    <3>6. Len(Formats) = Len(Outputs) BY <1>1, FormatsAre
    <3> QED BY <3>1, <3>3, <3>4, <3>5, <3>6, <1>3
  <2>4. ASSUME NEW o \in Range(Outputs)
        PROVE  \E i \in DOMAIN Outputs : o = Outputs[i] /\ i \in 1..outs /\ i <= outs
    <3>1. DOMAIN Outputs = 1..Len(Outputs) /\ Len(Outputs) \in Nat BY <1>1, OutputsAre
    <3>2. PICK i \in DOMAIN Outputs : o = Outputs[i] BY DEF Range
    <3> QED BY <3>1, <3>2, <2>2
  <2>5. ASSUME NEW o \in Range(Outputs), o.file # None, Good(o), ~Shared(o)
        PROVE  files[o.file] = holding(o.format)
    BY <2>4, <2>5, <1>1 DEF FilesHold
  <2>6. exit = 2 <=> Above(doc) BY <2>1, <1>1 DEF ErrorsTell, exitCode
  <2>7. ASSUME NEW o \in Range(Outputs), exit = 0
        PROVE  Good(o) /\ (o.file # None => files[o.file] # holding("earlier report"))
    <3>1. errs = {} BY <2>1, <2>7 DEF exitCode
    <3>2. Good(o) BY <2>4, <3>1, <1>1 DEF ErrorsTell
    <3>3. o.file # None => o.file \in Paths(req.opts) BY DEF Paths, Outputs
    <3> QED BY <3>2, <3>3, <1>1 DEF FilesHold
  <2> QED BY <2>3, <2>5, <2>6, <2>7
<1>5. NothingOnFailure
  <2> SUFFICES ASSUME exit # None, doc = NoDocument
               PROVE  /\ Reports(stdout) = <<>>
                      /\ \A f \in DOMAIN files : files[f] \in {holding("nothing"), holding("earlier report")}
                      /\ exit = 1
    BY DEF NothingOnFailure
  <2>1. Reports(ui.final) = <<>>
    <3>1. \A i \in DOMAIN ui.final : ui.final[i].kind # "report" BY <1>1 DEF ReportsTravel, NoReport
    <3> QED BY <3>1, <1>2, ReportsNone
  <2>2. DOMAIN files = Paths(req.opts) BY <1>1 DEF FilesHold
  <2>3. pc = "returned" => exitCode = 1 BY <1>1 DEF ErrorsTell, exitCode
  <2>4. exit = 1 BY <2>3, <1>1 DEF TornDown, Running
  <2> QED BY <2>1, <2>2, <2>4, <1>1, <1>3 DEF FilesHold
<1>6. NothingUnhandled BY <1>1 DEF NothingUnhandled, TornDown, Running
<1>7. StoreReleased BY <1>1 DEF StoreReleased, TornDown, StoreHeld, Running
<1> QED BY <1>4, <1>5, <1>6, <1>7 DEF EndsClean

(* However a run ends, with any command line and any database, it ends     *)
(* clean: every report it owes is in its file or on the terminal, in the   *)
(* order of the options and each once, a run without a document leaves no  *)
(* report and exits with 1, no event is left behind and the database is    *)
(* closed (root.go:158-273, writer.go:125-166, ui.go:68-111).              *)
THEOREM EveryRunEndsClean == Spec => []EndsClean
<1>1. RunInv => EndsClean BY RunEndsClean
<1> QED BY <1>1, RunInvariant, PTL
=============================================================================
