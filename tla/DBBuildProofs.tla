---------------------------- MODULE DBBuildProofs ---------------------------
(***************************************************************************)
(* Proofs about a database build, for all inputs, batch sizes and places   *)
(* where a buffer fills up: a stored row refers to its own, stored         *)
(* vulnerability; and a finished build has stored every supported entry    *)
(* once and with its rows in order, has lost no Go advisory in the merge,  *)
(* and has the severities of NVD on the entries held until Close and the   *)
(* end-of-life dates on their operating systems.                           *)
(***************************************************************************)
EXTENDS DBBuild, SequenceTheorems, Induction

(***************************************************************************)
(* The inductive invariant.  A row takes the ID its vulnerability has when *)
(* the row is stored, so what matters is that by then the vulnerability    *)
(* was stored: every buffered child operation, and every further row of    *)
(* the entry being written, has a vulnerability with an ID or one whose    *)
(* operation is still to be run from the parent buffer; and when children  *)
(* are run the parent buffer is empty.                                     *)
(***************************************************************************)
Keyed(e) == {"key", "vuln"} \subseteq DOMAIN e /\ e.key \in Keys

IsSeq(s) == s \in Seq(InSeq(s))

(* Every entry on its way to the buffers is an entry.                      *)
EntriesOK ==
  /\ IsSeq(todo)  /\ \A e \in InSeq(todo) : Keyed(e)
  /\ IsSeq(ghsas) /\ \A e \in InSeq(ghsas) : Keyed(e)
  /\ IsSeq(gos)   /\ \A e \in InSeq(gos) : Keyed(e)
  /\ IsSeq(queue) /\ \A e \in InSeq(queue) : Keyed(e)

(* Where the build goes on after a flush: it reaches the children only     *)
(* from the parents.                                                       *)
ControlOK ==
  /\ pc = "write" => then \in {<<"read">>, <<"close">>}
  /\ pc = "flushParents" =>
       then \in {<<"write", "read">>, <<"write", "close">>, <<"flushChildren", "finish">>,
                 <<"flushChildren", "write", "read">>, <<"flushChildren", "write", "close">>}
  /\ pc = "flushChildren" =>
       then \in {<<"write", "read">>, <<"write", "close">>, <<"finish">>}
  /\ pos \in Nat
  /\ pc \notin {"flushParents", "flushChildren", "failed"} => pos = 0
  /\ pc = "flushChildren" => parents = <<>>

(* The buffers hold operations, and the IDs given out are those of stored  *)
(* vulnerabilities.                                                        *)
BuffersOK ==
  /\ IsSeq(parents)  /\ \A i \in DOMAIN parents : parents[i].vuln => parents[i].key \in Keys
  /\ IsSeq(children) /\ \A i \in DOMAIN children : children[i].vuln => children[i].key \in Keys
  /\ next \in Nat
  /\ cur.vuln => cur.key \in Keys
  /\ IsSeq(vulns)
  /\ IsSeq(rows)

IDsOK ==
  /\ ids \in [Keys -> Nat]
  /\ \A k \in Keys : ids[k] # 0 => ids[k] \in DOMAIN vulns /\ vulns[ids[k]].key = k

(* The vulnerability with key k is stored, or its operation is buffered    *)
(* and not yet run.                                                        *)
HasParent(k) ==
  \/ ids[k] # 0
  \/ \E i \in DOMAIN parents :
       /\ pc = "flushParents" => i > pos
       /\ parents[i].vuln /\ parents[i].key = k

ParentsComing ==
  /\ \A i \in DOMAIN children : children[i].vuln => HasParent(children[i].key)
  /\ next # 0 /\ cur.vuln => HasParent(cur.key)

IInv == EntriesOK /\ ControlOK /\ BuffersOK /\ IDsOK /\ ParentsComing /\ ForeignKeys

(***************************************************************************)
(* Sequences.                                                              *)
(***************************************************************************)
LEMMA SeqOfElements ==
  ASSUME NEW S, NEW s \in Seq(S)
  PROVE  IsSeq(s)
<1>1. s \in Seq(Range(s)) BY SeqOfRange
<1> QED BY <1>1 DEF IsSeq, InSeq, Range

LEMMA NoElements == IsSeq(<<>>) /\ InSeq(<<>>) = {} /\ DOMAIN <<>> = {} /\ Len(<<>>) = 0
<1>1. <<>> \in Seq({}) OBVIOUS
<1>2. DOMAIN <<>> = {} /\ Len(<<>>) = 0 OBVIOUS
<1> QED BY <1>1, <1>2, SeqOfElements DEF InSeq

LEMMA AppendSeq ==
  ASSUME NEW s, NEW x, IsSeq(s)
  PROVE  /\ IsSeq(Append(s, x))
         /\ InSeq(Append(s, x)) = InSeq(s) \cup {x}
         /\ Len(s) \in Nat
         /\ DOMAIN s = 1..Len(s)
         /\ DOMAIN Append(s, x) = 1..(Len(s) + 1)
         /\ \A i \in DOMAIN s : Append(s, x)[i] = s[i]
         /\ Append(s, x)[Len(s) + 1] = x
<1>1. s \in Seq(InSeq(s) \cup {x}) BY DEF IsSeq, InSeq
<1>2. Append(s, x) \in Seq(InSeq(s) \cup {x}) BY <1>1
<1>3. /\ Len(s) \in Nat
      /\ DOMAIN s = 1..Len(s)
      /\ DOMAIN Append(s, x) = 1..(Len(s) + 1)
      /\ \A i \in DOMAIN s : Append(s, x)[i] = s[i]
      /\ Append(s, x)[Len(s) + 1] = x
  BY <1>1
<1>4. InSeq(Append(s, x)) = InSeq(s) \cup {x} BY <1>3 DEF InSeq
<1> QED BY <1>2, <1>3, <1>4 DEF IsSeq

LEMMA TailSeq ==
  ASSUME NEW s, IsSeq(s), s # <<>>
  PROVE  IsSeq(Tail(s)) /\ InSeq(Tail(s)) \subseteq InSeq(s) /\ Head(s) \in InSeq(s)
<1>1. /\ Len(s) \in Nat /\ Len(s) > 0 /\ DOMAIN s = 1..Len(s)
      /\ Head(s) = s[1]
      /\ DOMAIN Tail(s) = 1..(Len(s) - 1)
      /\ \A i \in 1..(Len(s) - 1) : Tail(s)[i] = s[i + 1]
      /\ Tail(s) \in Seq(InSeq(s))
  BY DEF IsSeq
<1>2. InSeq(Tail(s)) \subseteq InSeq(s) /\ Head(s) \in InSeq(s) BY <1>1 DEF InSeq
<1>3. IsSeq(Tail(s)) BY <1>1, SeqOfElements
<1> QED BY <1>2, <1>3

LEMMA Tuples ==
  /\ \A a : Head(<<a>>) = a
  /\ \A a, b : Head(<<a, b>>) = a /\ Tail(<<a, b>>) = <<b>>
  /\ \A a, b, c : Head(<<a, b, c>>) = a /\ Tail(<<a, b, c>>) = <<b, c>>
<1>1. ASSUME NEW a PROVE Head(<<a>>) = a OBVIOUS
<1>2. ASSUME NEW a, NEW b PROVE Head(<<a, b>>) = a /\ Tail(<<a, b>>) = <<b>>
  <2>1. <<a, b>> \in Seq({a, b}) /\ <<b>> \in Seq({a, b}) OBVIOUS
  <2>2. Tail(<<a, b>>) \in Seq({a, b}) /\ Len(Tail(<<a, b>>)) = 1 /\ Tail(<<a, b>>)[1] = b BY <2>1
  <2> QED BY <2>1, <2>2
<1>3. ASSUME NEW a, NEW b, NEW c PROVE Head(<<a, b, c>>) = a /\ Tail(<<a, b, c>>) = <<b, c>>
  OBVIOUS
<1> QED BY <1>1, <1>2, <1>3

LEMMA ConcatSeq ==
  ASSUME NEW s, NEW t, IsSeq(s), IsSeq(t)
  PROVE  IsSeq(s \o t) /\ InSeq(s \o t) = InSeq(s) \cup InSeq(t)
<1> DEFINE U == InSeq(s) \cup InSeq(t)
<1>1. s \in Seq(U) /\ t \in Seq(U) BY DEF IsSeq, InSeq
<1>2. /\ s \o t \in Seq(U)
      /\ Len(s) \in Nat /\ Len(t) \in Nat
      /\ DOMAIN s = 1..Len(s) /\ DOMAIN t = 1..Len(t)
      /\ DOMAIN (s \o t) = 1..(Len(s) + Len(t))
      /\ \A i \in 1..Len(s) : (s \o t)[i] = s[i]
      /\ \A i \in 1..Len(t) : (s \o t)[Len(s) + i] = t[i]
  BY <1>1
<1>3. InSeq(s \o t) \subseteq U
  BY <1>2 DEF InSeq
<1>4. U \subseteq InSeq(s \o t)
  <2>1. ASSUME NEW i \in DOMAIN s PROVE s[i] \in InSeq(s \o t) BY <1>2 DEF InSeq
  <2>2. ASSUME NEW i \in DOMAIN t PROVE t[i] \in InSeq(s \o t)
    <3>1. Len(s) + i \in DOMAIN (s \o t) BY <1>2
    <3> QED BY <3>1, <1>2 DEF InSeq
  <2> QED BY <2>1, <2>2 DEF InSeq
<1> QED BY <1>2, <1>3, <1>4 DEF IsSeq

(***************************************************************************)
(* The initial states.                                                     *)
(***************************************************************************)
LEMMA InitIInv == Init => IInv
<1> SUFFICES ASSUME Init PROVE IInv OBVIOUS
<1> USE NoElements
<1>1. EntriesOK BY BuildAssumption DEF Init, EntriesOK, IsSeq, Keyed
<1>2. ControlOK BY DEF Init, ControlOK
<1>3. BuffersOK BY DEF Init, BuffersOK, NoEntry
<1>4. IDsOK BY DEF Init, IDsOK
<1>5. ParentsComing BY DEF Init, ParentsComing
<1>6. ForeignKeys BY DEF Init, ForeignKeys
<1> QED BY <1>1, <1>2, <1>3, <1>4, <1>5, <1>6 DEF IInv

(***************************************************************************)
(* Steps that leave the buffers and the store alone.                       *)
(***************************************************************************)
LEMMA StopStep ==
  ASSUME IInv, UNCHANGED <<then, reading, writing, buffers, severityCache, fixed>>,
         pc' \in {"failed", "done"}, pc' = "done" => pc = "finish"
  PROVE  IInv'
<1> USE DEF reading, writing, buffers, store
<1>1. EntriesOK' BY DEF IInv, EntriesOK
<1>2. ControlOK' BY DEF IInv, ControlOK
<1>3. BuffersOK' BY DEF IInv, BuffersOK
<1>4. IDsOK' BY DEF IInv, IDsOK
<1>5. ParentsComing' BY DEF IInv, ParentsComing, HasParent
<1>6. ForeignKeys' BY DEF IInv, ForeignKeys
<1> QED BY <1>1, <1>2, <1>3, <1>4, <1>5, <1>6 DEF IInv

LEMMA ReadingStep ==
  ASSUME IInv, DropRecord \/ HoldEntry \/ StartEntry
  PROVE  IInv'
<1> USE DEF reading, writing, buffers, store
<1>0. pc = "read" /\ todo # <<>> /\ todo' = Tail(todo) /\ queue' = queue
      /\ UNCHANGED buffers
  BY DEF DropRecord, HoldEntry, StartEntry
<1>1. IsSeq(todo') /\ (\A e \in InSeq(todo') : Keyed(e)) /\ Keyed(Head(todo))
  BY <1>0, TailSeq DEF IInv, EntriesOK
<1>2. EntriesOK'
  <2>1. CASE DropRecord \/ StartEntry
    BY <2>1, <1>0, <1>1 DEF IInv, EntriesOK, DropRecord, StartEntry
  <2>2. CASE HoldEntry
    <3>1. /\ IsSeq(Append(gos, Head(todo))) /\ IsSeq(Append(ghsas, Head(todo)))
          /\ \A e \in InSeq(Append(gos, Head(todo))) : Keyed(e)
          /\ \A e \in InSeq(Append(ghsas, Head(todo))) : Keyed(e)
      BY <1>1, AppendSeq DEF IInv, EntriesOK
    <3> QED BY <2>2, <3>1, <1>0, <1>1 DEF IInv, EntriesOK, HoldEntry
  <2> QED BY <2>1, <2>2
<1>3. ControlOK' BY <1>0 DEF IInv, ControlOK, DropRecord, HoldEntry, StartEntry
<1>4. BuffersOK'
  <2>1. next' \in Nat /\ (cur'.vuln => cur'.key \in Keys)
    BY <1>1 DEF IInv, BuffersOK, Keyed, DropRecord, HoldEntry, StartEntry
  <2> QED BY <2>1, <1>0 DEF IInv, BuffersOK
<1>5. IDsOK' BY <1>0 DEF IInv, IDsOK
<1>6. ParentsComing'
  <2>1. pc' # "flushParents" BY <1>0 DEF DropRecord, HoldEntry, StartEntry
  <2>2. \A k : HasParent(k) => HasParent(k)' BY <2>1, <1>0 DEF HasParent
  <2>3. next' = 0 \/ UNCHANGED <<cur, next>> BY DEF DropRecord, HoldEntry, StartEntry
  <2> QED BY <2>2, <2>3, <1>0 DEF IInv, ParentsComing
<1>7. ForeignKeys' BY <1>0 DEF IInv, ForeignKeys
<1> QED BY <1>2, <1>3, <1>4, <1>5, <1>6, <1>7 DEF IInv

(* Merging Go records changes neither the key of an entry nor whether it   *)
(* has a vulnerability.                                                    *)
LEMMA ReconcileKeys ==
  ASSUME NEW hs, NEW gs, IsSeq(hs), IsSeq(gs),
         \A e \in InSeq(hs) : Keyed(e), \A e \in InSeq(gs) : Keyed(e)
  PROVE  IsSeq(reconcile(hs, gs)) /\ \A e \in InSeq(reconcile(hs, gs)) : Keyed(e)
<1> DEFINE H == [i \in DOMAIN hs |-> PatchedGHSA(hs[i], gs, hs)]
           G == [i \in DOMAIN gs |-> PrunedGO(gs[i], hs)]
<1>1. \A e : Keyed(e) => Keyed(PatchedGHSA(e, gs, hs)) BY DEF Keyed, PatchedGHSA
<1>2. \A e : Keyed(e) => Keyed(PrunedGO(e, hs)) BY DEF Keyed, PrunedGO
<1>3. DOMAIN hs = 1..Len(hs) /\ Len(hs) \in Nat /\ DOMAIN gs = 1..Len(gs) /\ Len(gs) \in Nat
  BY DEF IsSeq
<1>4. \A i \in 1..Len(hs) : H[i] \in InSeq(H) BY <1>3 DEF InSeq
<1>5. \A i \in 1..Len(gs) : G[i] \in InSeq(G) BY <1>3 DEF InSeq
<1>6. H \in Seq(InSeq(H)) BY <1>3, <1>4, SeqDef
<1>7. G \in Seq(InSeq(G)) BY <1>3, <1>5, SeqDef
<1>8. \A e \in InSeq(H) : Keyed(e) BY <1>1 DEF InSeq
<1>9. \A e \in InSeq(G) : Keyed(e) BY <1>2 DEF InSeq
<1> QED BY <1>6, <1>7, <1>8, <1>9, ConcatSeq DEF IsSeq, reconcile

LEMMA ReconcileStep ==
  ASSUME IInv, Reconcile
  PROVE  IInv'
<1> USE DEF reading, writing, buffers, store
<1>1. EntriesOK' BY ReconcileKeys, NoElements DEF IInv, EntriesOK, Reconcile
<1>2. ControlOK' BY DEF IInv, ControlOK, Reconcile
<1>3. BuffersOK' BY DEF IInv, BuffersOK, Reconcile
<1>4. IDsOK' BY DEF IInv, IDsOK, Reconcile
<1>5. ParentsComing' BY DEF IInv, ParentsComing, HasParent, Reconcile
<1>6. ForeignKeys' BY DEF IInv, ForeignKeys, Reconcile
<1> QED BY <1>1, <1>2, <1>3, <1>4, <1>5, <1>6 DEF IInv

LEMMA NextHeldStep ==
  ASSUME IInv, NextHeld
  PROVE  IInv'
<1> USE DEF reading, writing, buffers, store
<1>0. IsSeq(Tail(queue)) /\ (\A e \in InSeq(Tail(queue)) : Keyed(e)) /\ Keyed(Head(queue))
  BY TailSeq DEF IInv, EntriesOK, NextHeld
<1>1. EntriesOK' BY <1>0 DEF IInv, EntriesOK, NextHeld
<1>2. ControlOK' BY DEF IInv, ControlOK, NextHeld
<1>3. BuffersOK' BY <1>0 DEF IInv, BuffersOK, NextHeld, Keyed
<1>4. IDsOK' BY DEF IInv, IDsOK, NextHeld
<1>5. ParentsComing'
  <2>1. \A k : HasParent(k) => HasParent(k)' BY DEF HasParent, NextHeld
  <2>2. next' = 0 \/ UNCHANGED <<cur, next>> BY DEF NextHeld
  <2> QED BY <2>1, <2>2 DEF IInv, ParentsComing, NextHeld
<1>6. ForeignKeys' BY DEF IInv, ForeignKeys, NextHeld
<1> QED BY <1>1, <1>2, <1>3, <1>4, <1>5, <1>6 DEF IInv

(* EntryDone and CloseFlush only move the control.                         *)
LEMMA MoveStep ==
  ASSUME IInv, EntryDone \/ CloseFlush
  PROVE  IInv'
<1> USE DEF reading, writing, buffers, store
<1>0. UNCHANGED <<reading, writing, buffers>> BY DEF EntryDone, CloseFlush
<1>1. EntriesOK' BY <1>0 DEF IInv, EntriesOK
<1>2. pos = 0 BY DEF IInv, ControlOK, EntryDone, CloseFlush
<1>3. ControlOK' BY <1>0, <1>2 DEF IInv, ControlOK, EntryDone, CloseFlush
<1>4. BuffersOK' BY <1>0 DEF IInv, BuffersOK
<1>5. IDsOK' BY <1>0 DEF IInv, IDsOK
<1>6. ParentsComing'
  <2>0. DOMAIN parents \subseteq Nat \ {0} BY DEF IInv, BuffersOK, IsSeq
  <2>1. \A k : HasParent(k) => HasParent(k)' BY <2>0, <1>0, <1>2 DEF HasParent
  <2> QED BY <2>1, <1>0 DEF IInv, ParentsComing
<1>7. ForeignKeys' BY <1>0 DEF IInv, ForeignKeys
<1> QED BY <1>1, <1>3, <1>4, <1>5, <1>6, <1>7 DEF IInv

(***************************************************************************)
(* Steps that fill the buffers.                                            *)
(***************************************************************************)
LEMMA AddParentStep ==
  ASSUME IInv, AddParent
  PROVE  IInv'
<1> DEFINE op == [key |-> cur.key, vuln |-> cur.vuln, sev |-> Filled(cur)]
           n == Len(parents) + 1
<1> USE DEF reading, writing, store
<1>0. /\ pc = "write" /\ next' = 1 /\ parents' = Append(parents, op) /\ pos = 0
      /\ UNCHANGED <<reading, cur, children, pos, store>>
  BY DEF AddParent, IInv, ControlOK
<1>1. /\ Len(parents) \in Nat /\ DOMAIN parents = 1..Len(parents) /\ DOMAIN parents' = 1..n
      /\ \A i \in DOMAIN parents : parents'[i] = parents[i]
      /\ parents'[n] = op /\ IsSeq(parents')
  BY <1>0, AppendSeq DEF IInv, BuffersOK
<1>2. EntriesOK' BY <1>0 DEF IInv, EntriesOK
<1>3. ControlOK'
  <2>1. then \in {<<"read">>, <<"close">>} BY <1>0 DEF IInv, ControlOK
  <2>2. \/ pc' = "write" /\ then' = then
        \/ pc' = "flushParents" /\ then' \in {<<"write", "read">>, <<"write", "close">>}
    BY <2>1, <1>0 DEF AddParent
  <2> QED BY <2>1, <2>2, <1>0 DEF ControlOK
<1>4. BuffersOK'
  <2>1. \A i \in DOMAIN parents' : parents'[i].vuln => parents'[i].key \in Keys
    <3> SUFFICES ASSUME NEW i \in 1..n, parents'[i].vuln PROVE parents'[i].key \in Keys BY <1>1
    <3>1. CASE i = n BY <3>1, <1>1 DEF IInv, BuffersOK
    <3>2. CASE i \in DOMAIN parents BY <3>2, <1>1 DEF IInv, BuffersOK
    <3> QED BY <3>1, <3>2, <1>1
  <2> QED BY <2>1, <1>0, <1>1 DEF IInv, BuffersOK
<1>5. IDsOK' BY <1>0 DEF IInv, IDsOK
<1>6. ParentsComing'
  <2>1. \A k : HasParent(k) => HasParent(k)' BY <1>0, <1>1 DEF HasParent
  <2>2. cur.vuln => HasParent(cur.key)' BY <1>0, <1>1 DEF HasParent
  <2> QED BY <2>1, <2>2, <1>0 DEF IInv, ParentsComing
<1>7. ForeignKeys' BY <1>0 DEF IInv, ForeignKeys
<1> QED BY <1>2, <1>3, <1>4, <1>5, <1>6, <1>7 DEF IInv

LEMMA AddChildStep ==
  ASSUME IInv, AddChild
  PROVE  IInv'
<1> DEFINE op == [key |-> cur.key, vuln |-> cur.vuln, row |-> cur.related[next]]
           n == Len(children) + 1
<1> USE DEF reading, writing, store
<1>0. /\ pc = "write" /\ next \in Nat \ {0} /\ next' = next + 1
      /\ children' = Append(children, op) /\ pos = 0
      /\ UNCHANGED <<reading, cur, parents, pos, store>>
  BY DEF AddChild, IInv, ControlOK, BuffersOK
<1>1. /\ Len(children) \in Nat /\ DOMAIN children = 1..Len(children) /\ DOMAIN children' = 1..n
      /\ \A i \in DOMAIN children : children'[i] = children[i]
      /\ children'[n] = op /\ IsSeq(children')
  BY <1>0, AppendSeq DEF IInv, BuffersOK
<1>2. EntriesOK' BY <1>0 DEF IInv, EntriesOK
<1>3. ControlOK'
  <2>1. then \in {<<"read">>, <<"close">>} BY <1>0 DEF IInv, ControlOK
  <2>2. \/ pc' = "write" /\ then' = then
        \/ /\ pc' = "flushParents"
           /\ then' \in {<<"flushChildren", "write", "read">>, <<"flushChildren", "write", "close">>}
    BY <2>1, <1>0 DEF AddChild
  <2> QED BY <2>1, <2>2, <1>0 DEF ControlOK
<1>4. BuffersOK'
  <2>1. \A i \in DOMAIN children' : children'[i].vuln => children'[i].key \in Keys
    <3> SUFFICES ASSUME NEW i \in 1..n, children'[i].vuln PROVE children'[i].key \in Keys BY <1>1
    <3>1. CASE i = n BY <3>1, <1>1 DEF IInv, BuffersOK
    <3>2. CASE i \in DOMAIN children BY <3>2, <1>1 DEF IInv, BuffersOK
    <3> QED BY <3>1, <3>2, <1>1
  <2> QED BY <2>1, <1>0, <1>1 DEF IInv, BuffersOK
<1>5. IDsOK' BY <1>0 DEF IInv, IDsOK
<1>6. ParentsComing'
  <2>0. DOMAIN parents \subseteq Nat \ {0} BY DEF IInv, BuffersOK, IsSeq
  <2>1. \A k : HasParent(k) => HasParent(k)' BY <2>0, <1>0 DEF HasParent
  <2>2. cur.vuln => HasParent(cur.key)' BY <2>1, <1>0 DEF IInv, ParentsComing
  <2>3. ASSUME NEW i \in 1..n, (children[i].vuln)' PROVE HasParent(children[i].key)'
    <3>1. CASE i = n
      <4>1. (children[i].key)' = cur.key /\ cur.vuln BY <3>1, <2>3, <1>1
      <4> QED BY <4>1, <2>2, <1>0 DEF HasParent
    <3>2. CASE i \in DOMAIN children
      <4>1. (children[i].key)' = children[i].key /\ children[i].vuln BY <3>2, <2>3, <1>1
      <4>2. HasParent(children[i].key) BY <3>2, <4>1 DEF IInv, ParentsComing
      <4> QED BY <4>1, <4>2, <2>0, <1>0 DEF HasParent
    <3> QED BY <3>1, <3>2, <1>1
  <2> QED BY <2>2, <2>3, <1>0, <1>1 DEF ParentsComing
<1>7. ForeignKeys' BY <1>0 DEF IInv, ForeignKeys
<1> QED BY <1>2, <1>3, <1>4, <1>5, <1>6, <1>7 DEF IInv

(***************************************************************************)
(* Steps that run the buffers.                                             *)
(***************************************************************************)
LEMMA FlushParentsEndStep ==
  ASSUME IInv, FlushParentsEnd
  PROVE  IInv'
<1> USE DEF reading, writing, store
<1>0. /\ pc = "flushParents" /\ pos = Len(parents) /\ parents' = <<>> /\ pos' = 0
      /\ UNCHANGED <<reading, writing, children, store>>
  BY DEF FlushParentsEnd
<1>1. EntriesOK' BY <1>0 DEF IInv, EntriesOK
<1>2. ControlOK'
  <2>1. then \in {<<"write", "read">>, <<"write", "close">>, <<"flushChildren", "finish">>,
                  <<"flushChildren", "write", "read">>, <<"flushChildren", "write", "close">>}
    BY <1>0 DEF IInv, ControlOK
  <2>2. \/ pc' = "write" /\ then' \in {<<"read">>, <<"close">>}
        \/ pc' = "flushChildren" /\ then' \in {<<"write", "read">>, <<"write", "close">>, <<"finish">>}
    <3>1. pc' = Head(then) /\ then' = Tail(then) BY DEF FlushParentsEnd
    <3>2. CASE then = <<"write", "read">> BY <3>1, <3>2, Tuples
    <3>3. CASE then = <<"write", "close">> BY <3>1, <3>3, Tuples
    <3>4. CASE then = <<"flushChildren", "finish">> BY <3>1, <3>4, Tuples
    <3>5. CASE then = <<"flushChildren", "write", "read">> BY <3>1, <3>5, Tuples
    <3>6. CASE then = <<"flushChildren", "write", "close">> BY <3>1, <3>6, Tuples
    <3> QED BY <2>1, <3>2, <3>3, <3>4, <3>5, <3>6
  <2> QED BY <2>2, <1>0 DEF ControlOK
<1>3. BuffersOK' BY <1>0, NoElements DEF IInv, BuffersOK
<1>4. IDsOK' BY <1>0 DEF IInv, IDsOK
<1>5. ParentsComing'
  <2>0. DOMAIN parents = 1..Len(parents) /\ Len(parents) \in Nat BY DEF IInv, BuffersOK, IsSeq
  <2>1. \A k : HasParent(k) => ids[k] # 0 BY <2>0, <1>0 DEF HasParent
  <2>2. \A k : HasParent(k) => HasParent(k)' BY <2>1, <1>0 DEF HasParent
  <2> QED BY <2>2, <1>0 DEF IInv, ParentsComing
<1>6. ForeignKeys' BY <1>0 DEF IInv, ForeignKeys
<1> QED BY <1>1, <1>2, <1>3, <1>4, <1>5, <1>6 DEF IInv

LEMMA FlushChildrenEndStep ==
  ASSUME IInv, FlushChildrenEnd
  PROVE  IInv'
<1> USE DEF reading, writing, store
<1>0. /\ pc = "flushChildren" /\ children' = <<>> /\ pos' = 0 /\ parents = <<>>
      /\ UNCHANGED <<reading, writing, parents, store>>
  BY DEF FlushChildrenEnd, IInv, ControlOK
<1>1. EntriesOK' BY <1>0 DEF IInv, EntriesOK
<1>2. ControlOK'
  <2>1. then \in {<<"write", "read">>, <<"write", "close">>, <<"finish">>}
    BY <1>0 DEF IInv, ControlOK
  <2>2. \/ pc' = "write" /\ then' \in {<<"read">>, <<"close">>}
        \/ pc' = "finish"
    <3>1. pc' = Head(then) /\ then' = Tail(then) BY DEF FlushChildrenEnd
    <3>2. CASE then = <<"write", "read">> BY <3>1, <3>2, Tuples
    <3>3. CASE then = <<"write", "close">> BY <3>1, <3>3, Tuples
    <3>4. CASE then = <<"finish">> BY <3>1, <3>4, Tuples
    <3> QED BY <2>1, <3>2, <3>3, <3>4
  <2> QED BY <2>2, <1>0 DEF ControlOK
<1>3. BuffersOK' BY <1>0, NoElements DEF IInv, BuffersOK
<1>4. IDsOK' BY <1>0 DEF IInv, IDsOK
<1>5. ParentsComing'
  <2>1. \A k : HasParent(k) => HasParent(k)' BY <1>0, NoElements DEF HasParent
  <2> QED BY <2>1, <1>0, NoElements DEF IInv, ParentsComing
<1>6. ForeignKeys' BY <1>0 DEF IInv, ForeignKeys
<1> QED BY <1>1, <1>2, <1>3, <1>4, <1>5, <1>6 DEF IInv

(* A stored vulnerability stays where it is, and the one that is stored    *)
(* takes its own place.                                                    *)
LEMMA FlushParentStep ==
  ASSUME IInv, FlushParent
  PROVE  IInv'
<1> DEFINE op == parents[pos + 1]
           n == Len(vulns) + 1
<1> USE DEF reading, writing, store
<1>0. /\ pc = "flushParents" /\ pc' = pc /\ then' = then /\ pos \in Nat
      /\ pos < Len(parents) /\ pos' = pos + 1
      /\ UNCHANGED <<reading, writing, parents, children, rows>>
  BY DEF FlushParent, IInv, ControlOK
<1>1. /\ DOMAIN parents = 1..Len(parents) /\ Len(parents) \in Nat
      /\ DOMAIN vulns = 1..Len(vulns) /\ Len(vulns) \in Nat
      /\ pos + 1 \in DOMAIN parents /\ (op.vuln => op.key \in Keys)
  BY <1>0 DEF IInv, BuffersOK, IsSeq
<1>2. /\ IsSeq(vulns')
      /\ \A i \in DOMAIN vulns : i \in DOMAIN vulns' /\ vulns'[i] = vulns[i]
  <2>1. CASE op.vuln
    <3> DEFINE new == [key |-> op.key, sev |-> op.sev]
    <3>1. vulns' = Append(vulns, new) /\ IsSeq(vulns) BY <2>1 DEF FlushParent, IInv, BuffersOK
    <3> HIDE DEF new
    <3>2. /\ IsSeq(Append(vulns, new)) /\ DOMAIN Append(vulns, new) = 1..(Len(vulns) + 1)
          /\ \A i \in DOMAIN vulns : Append(vulns, new)[i] = vulns[i]
      BY <3>1, AppendSeq
    <3> QED BY <3>1, <3>2, <1>1
  <2>2. CASE ~op.vuln BY <2>2, <1>1 DEF FlushParent, IInv, BuffersOK
  <2> QED BY <2>1, <2>2
<1>3. op.vuln => /\ n \in DOMAIN vulns' /\ vulns'[n].key = op.key
                 /\ ids' = [ids EXCEPT ![op.key] = n]
  BY <1>1, AppendSeq DEF FlushParent, IInv, BuffersOK
<1>4. ~op.vuln => ids' = ids BY DEF FlushParent
<1>5. EntriesOK' BY <1>0 DEF IInv, EntriesOK
<1>6. ControlOK' BY <1>0 DEF IInv, ControlOK
<1>7. BuffersOK' BY <1>0, <1>2 DEF IInv, BuffersOK
<1>8. IDsOK'
  <2>1. CASE op.vuln
    <3>1. ids' \in [Keys -> Nat] BY <2>1, <1>1, <1>3 DEF IInv, IDsOK
    <3>2. ASSUME NEW k \in Keys, ids'[k] # 0
          PROVE  ids'[k] \in DOMAIN vulns' /\ vulns'[ids'[k]].key = k
      <4>1. CASE k = op.key
        <5>1. ids'[k] = n BY <4>1, <2>1, <1>3 DEF IInv, IDsOK
        <5> QED BY <5>1, <4>1, <2>1, <1>3
      <4>2. CASE k # op.key
        <5>1. ids'[k] = ids[k] BY <4>2, <2>1, <1>3 DEF IInv, IDsOK
        <5> QED BY <5>1, <3>2, <1>2 DEF IInv, IDsOK
      <4> QED BY <4>1, <4>2
    <3> QED BY <3>1, <3>2 DEF IDsOK
  <2>2. CASE ~op.vuln BY <2>2, <1>2, <1>4 DEF IInv, IDsOK
  <2> QED BY <2>1, <2>2
<1>9. ParentsComing'
  <2>1. ASSUME NEW k \in Keys, HasParent(k) PROVE HasParent(k)'
    <3>1. CASE ids[k] # 0
      <4>1. ids'[k] # 0 BY <3>1, <1>1, <1>3, <1>4 DEF IInv, IDsOK
      <4> QED BY <4>1 DEF HasParent
    <3>2. CASE \E i \in DOMAIN parents : i > pos /\ parents[i].vuln /\ parents[i].key = k
      <4> PICK i \in DOMAIN parents : i > pos /\ parents[i].vuln /\ parents[i].key = k BY <3>2
      <4>1. CASE i = pos + 1
        <5>1. op.vuln /\ op.key = k BY <4>1
        <5>2. ids'[k] = n BY <5>1, <1>3 DEF IInv, IDsOK
        <5>3. ids'[k] # 0 BY <5>2, <1>1
        <5> QED BY <5>3 DEF HasParent
      <4>2. CASE i # pos + 1
        <5>1. i > pos' BY <4>2, <1>0, <1>1
        <5> QED BY <5>1, <1>0 DEF HasParent
      <4> QED BY <4>1, <4>2
    <3> QED BY <3>1, <3>2, <2>1, <1>0 DEF HasParent
  <2>2. ASSUME NEW i \in DOMAIN children, children[i].vuln PROVE HasParent(children[i].key)'
    <3>1. children[i].key \in Keys /\ HasParent(children[i].key)
      BY <2>2 DEF IInv, BuffersOK, ParentsComing
    <3>2. PICK k \in Keys : k = children[i].key /\ HasParent(k) BY <3>1
    <3>3. HasParent(k)' BY <3>2, <2>1
    <3> QED BY <3>3, <3>2, <1>0 DEF HasParent
  <2>3. ASSUME next # 0, cur.vuln PROVE HasParent(cur.key)'
    <3>1. cur.key \in Keys /\ HasParent(cur.key)
      BY <2>3 DEF IInv, BuffersOK, ParentsComing
    <3>2. PICK k \in Keys : k = cur.key /\ HasParent(k) BY <3>1
    <3>3. HasParent(k)' BY <3>2, <2>1
    <3> QED BY <3>3, <3>2, <1>0 DEF HasParent
  <2> QED BY <2>2, <2>3, <1>0 DEF ParentsComing
<1>10. ForeignKeys' BY <1>0, <1>2 DEF IInv, ForeignKeys
<1> QED BY <1>5, <1>6, <1>7, <1>8, <1>9, <1>10 DEF IInv

(* No operation is left in the parent buffer when a row is stored, so its  *)
(* vulnerability has an ID.                                                *)
LEMMA FlushChildStep ==
  ASSUME IInv, FlushChild
  PROVE  IInv'
<1> DEFINE op == children[pos + 1]
           row == [key |-> op.key, vuln |-> op.vuln, row |-> op.row,
                   id |-> IF op.vuln THEN ids[op.key] ELSE 0]
           n == Len(rows) + 1
<1> USE DEF reading, writing
<1>0. /\ pc = "flushChildren" /\ pc' = pc /\ then' = then /\ pos \in Nat
      /\ pos < Len(children) /\ pos' = pos + 1 /\ parents = <<>>
      /\ UNCHANGED <<reading, writing, parents, children, ids, vulns>>
  BY DEF FlushChild, Run, IInv, ControlOK
<1>1. pos + 1 \in DOMAIN children BY <1>0 DEF IInv, BuffersOK, IsSeq
<1>2. rows' = rows \/ rows' = Append(rows, row) BY DEF FlushChild, Run
<1>3. EntriesOK' BY <1>0 DEF IInv, EntriesOK
<1>4. ControlOK' BY <1>0 DEF IInv, ControlOK
<1>5. /\ DOMAIN rows = 1..Len(rows) /\ Len(rows) \in Nat
      /\ DOMAIN Append(rows, row) = 1..n /\ IsSeq(Append(rows, row))
      /\ \A i \in DOMAIN rows : Append(rows, row)[i] = rows[i]
      /\ Append(rows, row)[n] = row
  BY AppendSeq DEF IInv, BuffersOK
<1>6. BuffersOK' BY <1>0, <1>2, <1>5 DEF IInv, BuffersOK
<1>7. IDsOK' BY <1>0 DEF IInv, IDsOK
<1>8. ParentsComing'
  <2>1. \A k : HasParent(k) => HasParent(k)' BY <1>0 DEF HasParent
  <2> QED BY <2>1, <1>0 DEF IInv, ParentsComing
<1>9. ForeignKeys'
  <2>1. CASE rows' = rows BY <2>1, <1>0 DEF IInv, ForeignKeys
  <2>2. CASE rows' = Append(rows, row)
    <3>1. op.vuln => ids[op.key] # 0 /\ op.key \in Keys
      BY <1>0, <1>1, NoElements DEF IInv, ParentsComing, HasParent, BuffersOK
    <3>2. row.vuln => row.id \in DOMAIN vulns /\ vulns[row.id].key = row.key
      BY <3>1 DEF IInv, IDsOK
    <3>3. ASSUME NEW i \in 1..n, rows'[i].vuln
          PROVE  rows'[i].id \in DOMAIN vulns /\ vulns[rows'[i].id].key = rows'[i].key
      <4>1. CASE i = n BY <4>1, <3>2, <3>3, <2>2, <1>5
      <4>2. CASE i \in DOMAIN rows BY <4>2, <3>3, <2>2, <1>5 DEF IInv, ForeignKeys
      <4> QED BY <4>1, <4>2, <1>5
    <3> QED BY <3>3, <2>2, <1>0, <1>5 DEF ForeignKeys
  <2> QED BY <2>1, <2>2, <1>2
<1> QED BY <1>3, <1>4, <1>6, <1>7, <1>8, <1>9 DEF IInv

(***************************************************************************)
(* The theorem.                                                            *)
(***************************************************************************)
(* IInv is inductive: what the writer's buffers, counters and handles hold *)
(* in every state of a build.                                              *)
THEOREM BuildInvariant == Spec => []IInv
<1>1. IInv /\ [Next]_vars => IInv'
  <2> SUFFICES ASSUME IInv, [Next]_vars PROVE IInv' OBVIOUS
  <2>1. CASE ReadFails BY <2>1, StopStep DEF ReadFails
  <2>2. CASE DropRecord \/ HoldEntry \/ StartEntry BY <2>2, ReadingStep
  <2>3. CASE AddParent BY <2>3, AddParentStep
  <2>4. CASE AddChild BY <2>4, AddChildStep
  <2>5. CASE MissingFixDate BY <2>5, StopStep DEF MissingFixDate
  <2>6. CASE EntryDone \/ CloseFlush BY <2>6, MoveStep
  <2>7. CASE FlushParent BY <2>7, FlushParentStep
  <2>8. CASE FlushParentsEnd BY <2>8, FlushParentsEndStep
  <2>9. CASE FlushChild BY <2>9, FlushChildStep
  <2>10. CASE FlushChildrenEnd BY <2>10, FlushChildrenEndStep
  <2>11. CASE StoreFails BY <2>11, StopStep DEF StoreFails
  <2>12. CASE NothingProcessed BY <2>12, StopStep DEF NothingProcessed
  <2>13. CASE Reconcile BY <2>13, ReconcileStep
  <2>14. CASE NextHeld BY <2>14, NextHeldStep
  <2>15. CASE Finish BY <2>15, StopStep DEF Finish
  <2>16. CASE UNCHANGED vars
    BY <2>16 DEF vars, IInv, EntriesOK, ControlOK, BuffersOK, IDsOK, ParentsComing, HasParent,
                 ForeignKeys
  <2> QED
    BY <2>1, <2>2, <2>3, <2>4, <2>5, <2>6, <2>7, <2>8, <2>9, <2>10, <2>11, <2>12, <2>13, <2>14,
       <2>15, <2>16 DEF Next
<1> QED BY <1>1, InitIInv, PTL DEF Spec

(* A stored row refers to its own vulnerability, and to one that is stored *)
(* already: for every input, batch size, failure and place in an entry     *)
(* where writer.writeEntryToBatch has to flush.                            *)
THEOREM ForeignKeysHold == Spec => []ForeignKeys
<1>1. IInv => ForeignKeys BY DEF IInv
<1> QED BY <1>1, BuildInvariant, PTL


-----------------------------------------------------------------------------
(***************************************************************************)
(* How far an entry has come.  Of its rows the first a were run from the   *)
(* child buffer, those up to b are in it, next to each other (row i in     *)
(* place o + i), and the rest has not been buffered.                       *)
(***************************************************************************)
UnrunP(i) == i \in DOMAIN parents /\ (pc = "flushParents" => i > pos)

UnrunC(i) == i \in DOMAIN children /\ (pc = "flushChildren" => i > pos)

(* Nothing was buffered or stored under key k.                             *)
Untouched(k) ==
  /\ \A i \in DOMAIN vulns : vulns[i].key # k
  /\ \A i \in DOMAIN rows : rows[i].key # k
  /\ \A i \in DOMAIN parents : parents[i].key # k
  /\ \A i \in DOMAIN children : children[i].key # k

(* The vulnerability of e is stored or buffered, once.                     *)
Single(e) ==
  /\ \A i \in DOMAIN vulns : vulns[i].key = e.key =>
       e.vuln /\ \A j \in DOMAIN vulns : vulns[j].key = e.key => j = i
  /\ \A i \in DOMAIN parents : UnrunP(i) /\ parents[i].key = e.key =>
       /\ parents[i].vuln = e.vuln
       /\ \A j \in DOMAIN parents : UnrunP(j) /\ parents[j].key = e.key => j = i
       /\ \A j \in DOMAIN vulns : vulns[j].key # e.key
  /\ e.vuln => \/ \E i \in DOMAIN vulns : vulns[i].key = e.key
               \/ \E i \in DOMAIN parents : UnrunP(i) /\ parents[i].key = e.key

Due(e, a) == {i \in 1..a : e.related[i].kind # "eol"}

RowsOf(k) == {i \in DOMAIN rows : rows[i].key = k}

(* The rows stored under e's key are its first a rows, in their order;     *)
(* end-of-life dates are not stored as rows.                               *)
Placed(e, a) ==
  \E f \in [Due(e, a) -> RowsOf(e.key)] :
    /\ \A i, j \in Due(e, a) : i < j => f[i] < f[j]
    /\ \A k \in RowsOf(e.key) : \E i \in Due(e, a) : k = f[i]
    /\ \A i \in Due(e, a) : rows[f[i]].row = e.related[i]

InBuffer(e, a, b, o) ==
  /\ \A i \in (a + 1)..b :
       UnrunC(o + i) /\ children[o + i].key = e.key /\ children[o + i].row = e.related[i]
  /\ \A j \in DOMAIN children : UnrunC(j) /\ children[j].key = e.key => j - o \in (a + 1)..b

Progress(e, b, o) == \E a \in 0..b : Placed(e, a) /\ InBuffer(e, a, b, o)

Begun(e, b) == Single(e) /\ \E o \in Int : Progress(e, b, o)

Complete(e) == Begun(e, Len(e.related))

(***************************************************************************)
(* Where every entry is.                                                   *)
(***************************************************************************)
Reading ==
  \/ pc = "read"
  \/ pc = "write" /\ then = <<"read">>
  \/ pc \in {"flushParents", "flushChildren"}
     /\ then \in {<<"write", "read">>, <<"flushChildren", "write", "read">>}

Writing ==
  \/ pc = "write"
  \/ /\ pc \in {"flushParents", "flushChildren"}
     /\ then \in {<<"write", "read">>, <<"flushChildren", "write", "read">>,
                  <<"write", "close">>, <<"flushChildren", "write", "close">>}

LastFlush ==
  pc \in {"flushParents", "flushChildren"} /\ then \in {<<"flushChildren", "finish">>, <<"finish">>}

Fresh(k) == Untouched(k) /\ (Writing => cur.key # k)

Taken(e) == IF Writing /\ cur.key = e.key THEN cur = e ELSE Complete(e)

Distinct(s) == \A i, j \in DOMAIN s : s[i].key = s[j].key => i = j

CurOK ==
  Writing =>
    /\ EntryOK(cur) /\ cur.supported
    /\ next \in 0..(Len(cur.related) + 1)
    /\ next = 0 => Untouched(cur.key)
    /\ next # 0 => Single(cur) /\ Progress(cur, next - 1, Len(children) - (next - 1))

(* hs and gs are the entries goMerge holds when it reconciles them, as far *)
(* as they were met.                                                       *)
Held(hs, gs) ==
  /\ IsSeq(hs) /\ IsSeq(gs) /\ Distinct(hs) /\ Distinct(gs)
  /\ \A e \in InSeq(hs) : e \in InSeq(input) /\ e.supported /\ e.kind = "ghsa"
  /\ \A e \in InSeq(gs) : e \in InSeq(input) /\ e.supported /\ e.kind = "go"

WhileReading(hs, gs) ==
  /\ ghsas = hs /\ gos = gs
  /\ \A e \in InSeq(hs) \cup InSeq(gs) : Fresh(e.key)

WhileClosing(hs, gs) ==
  /\ todo = <<>>
  /\ Distinct(queue) /\ InSeq(queue) \subseteq InSeq(reconcile(hs, gs))
  /\ \A e \in InSeq(queue) : Fresh(e.key)
  /\ \A e \in InSeq(reconcile(hs, gs)) :
       e \in InSeq(queue) \/ (IF e.supported THEN Taken(e) ELSE Fresh(e.key))
  /\ pc \in {"finish", "done"} \/ LastFlush => queue = <<>>
  /\ pc \in {"finish", "done"} => parents = <<>> /\ children = <<>>

ToRead(hs, gs) ==
  /\ Distinct(todo) /\ InSeq(todo) \subseteq InSeq(input)
  /\ \A e \in InSeq(todo) : Fresh(e.key) /\ e \notin InSeq(hs) \cup InSeq(gs)

Everywhere(hs, gs) ==
  \A e \in InSeq(input) :
    IF e.supported
    THEN e \in InSeq(todo) \/ e \in InSeq(hs) \/ e \in InSeq(gs) \/ (e.kind # "go" /\ Taken(e))
    ELSE Fresh(e.key)

Content(hs, gs) ==
  /\ Held(hs, gs)
  /\ ToRead(hs, gs)
  /\ Everywhere(hs, gs)
  /\ IF Reading THEN WhileReading(hs, gs) ELSE WhileClosing(hs, gs)

ContentInv ==
  /\ input \in Inputs
  /\ pc # "failed" => CurOK /\ \E hs, gs : Content(hs, gs)

(***************************************************************************)
(* What the steps do to the buffers and tables.  Every step leaves the     *)
(* parents or the children alone.                                          *)
(***************************************************************************)
SameParents ==
  /\ UNCHANGED <<vulns, parents>>
  /\ \A i \in DOMAIN parents : UnrunP(i)' <=> UnrunP(i)

SameChildren ==
  /\ UNCHANGED <<rows, children>>
  /\ \A i \in DOMAIN children : UnrunC(i)' <=> UnrunC(i)

LEMMA SingleStays ==
  ASSUME SameParents, NEW e, Single(e)
  PROVE  Single(e)'
BY DEF SameParents, Single, UnrunP

LEMMA ProgressStays ==
  ASSUME SameChildren, NEW e, NEW b, NEW o, Progress(e, b, o)
  PROVE  Progress(e, b, o)'
<1>1. PICK a \in 0..b : Placed(e, a) /\ InBuffer(e, a, b, o) BY DEF Progress
<1>2. Placed(e, a)'
  <2>1. rows' = rows BY DEF SameChildren
  <2> QED BY <2>1, <1>1 DEF Placed, RowsOf
<1>3. InBuffer(e, a, b, o)'
  <2>0. children' = children /\ \A i \in DOMAIN children : UnrunC(i)' <=> UnrunC(i)
    BY DEF SameChildren
  <2>1. ASSUME NEW i \in (a + 1)..b
        PROVE  (UnrunC(o + i) /\ children[o + i].key = e.key /\ children[o + i].row = e.related[i])'
    <3>1. UnrunC(o + i) /\ children[o + i].key = e.key /\ children[o + i].row = e.related[i]
      BY <1>1 DEF InBuffer
    <3>2. o + i \in DOMAIN children BY <3>1 DEF UnrunC
    <3>3. UnrunC(o + i)' BY <3>1, <3>2, <2>0 DEF UnrunC
    <3> QED BY <3>1, <3>3, <2>0
  <2>2. ASSUME NEW j \in DOMAIN children, UnrunC(j)', children[j].key = e.key
        PROVE  j - o \in (a + 1)..b
    BY <2>2, <2>0, <1>1 DEF InBuffer
  <2> QED BY <2>0, <2>1, <2>2 DEF InBuffer
<1> QED BY <1>2, <1>3 DEF Progress

(* What a parent operation under another key leaves as it is.              *)
LEMMA ParentAdded ==
  ASSUME IInv, AddParent
  PROVE  /\ SameChildren
         /\ \A e : e.key # cur.key /\ Single(e) => Single(e)'
         /\ \A k : k # cur.key /\ Untouched(k) => Untouched(k)'
         /\ Untouched(cur.key) => Single(cur)'
<1> DEFINE op == [key |-> cur.key, vuln |-> cur.vuln, sev |-> Filled(cur)]
<1>0. /\ pc = "write" /\ parents' = Append(parents, op) /\ pos = 0 /\ IsSeq(parents)
      /\ UNCHANGED <<cur, children, pos, vulns, rows>> /\ pc' \in {"write", "flushParents"}
  BY DEF AddParent, IInv, ControlOK, BuffersOK, store
<1>1. op.key = cur.key /\ op.vuln = cur.vuln OBVIOUS
<1> HIDE DEF op
<1>n. PICK n : n = Len(parents) + 1 OBVIOUS
<1>2. /\ Len(parents) \in Nat /\ DOMAIN parents = 1..Len(parents) /\ DOMAIN parents' = 1..n
      /\ \A i \in DOMAIN parents : parents'[i] = parents[i]
      /\ parents'[n] = op
  BY <1>0, <1>n, AppendSeq
<1>3. /\ \A i \in DOMAIN parents : UnrunP(i) /\ UnrunP(i)'
      /\ UnrunP(n)' /\ n \notin DOMAIN parents
      /\ \A i \in DOMAIN parents' : i \in DOMAIN parents \/ i = n
  BY <1>0, <1>n, <1>2 DEF UnrunP
<1>4. SameChildren BY <1>0 DEF SameChildren, UnrunC
<1>5. ASSUME NEW e, e.key # cur.key, Single(e) PROVE Single(e)'
  <2>1. parents'[n].key # e.key BY <1>1, <1>2, <1>5
  <2>2. \A i \in DOMAIN parents' : parents'[i].key = e.key =>
          i \in DOMAIN parents /\ parents'[i] = parents[i] /\ UnrunP(i)
    BY <2>1, <1>2, <1>3
  <2>3. \A i \in DOMAIN parents : i \in DOMAIN parents' /\ parents'[i] = parents[i] /\ UnrunP(i)'
    BY <1>n, <1>2, <1>3
  <2>4. vulns' = vulns BY <1>0
  <2> QED BY <2>2, <2>3, <2>4, <1>5 DEF Single
<1>6. ASSUME NEW k, k # cur.key, Untouched(k) PROVE Untouched(k)'
  <2> QED BY <1>0, <1>1, <1>2, <1>3, <1>6 DEF Untouched
<1>7. ASSUME Untouched(cur.key) PROVE Single(cur)'
  <2>1. \A i \in DOMAIN parents : parents'[i].key # cur.key BY <1>2, <1>7 DEF Untouched
  <2>2. \A i \in DOMAIN vulns : vulns[i].key # cur.key BY <1>7 DEF Untouched
  <2>3. n \in DOMAIN parents' /\ UnrunP(n)' BY <1>n, <1>2, <1>3
  <2> QED BY <2>1, <2>2, <2>3, <1>0, <1>1, <1>2, <1>3 DEF Single
<1> QED BY <1>4, <1>5, <1>6, <1>7

(* A row is buffered behind those of its entry.                            *)
LEMMA ChildAdded ==
  ASSUME IInv, AddChild, EntryOK(cur)
  PROVE  /\ SameParents
         /\ \A k : k # cur.key /\ Untouched(k) => Untouched(k)'
         /\ \A e, b, o : e.key # cur.key /\ Progress(e, b, o) => Progress(e, b, o)'
         /\ Progress(cur, next - 1, Len(children) - (next - 1))
              => (Progress(cur, next - 1, Len(children) - (next - 1)))'
<1> DEFINE op == [key |-> cur.key, vuln |-> cur.vuln, row |-> cur.related[next]]
<1>0. /\ pc = "write" /\ children' = Append(children, op) /\ pos = 0 /\ IsSeq(children)
      /\ next \in 1..Len(cur.related) /\ next' = next + 1 /\ IsSeq(parents)
      /\ UNCHANGED <<cur, parents, pos, vulns, rows>> /\ pc' \in {"write", "flushParents"}
  BY DEF AddChild, IInv, ControlOK, BuffersOK, store
<1>1. op.key = cur.key /\ op.row = cur.related[next] OBVIOUS
<1> HIDE DEF op
<1>n. PICK n : n = Len(children) + 1 OBVIOUS
<1>2. /\ Len(children) \in Nat /\ DOMAIN children = 1..Len(children) /\ DOMAIN children' = 1..n
      /\ \A i \in DOMAIN children : children'[i] = children[i]
      /\ children'[n] = op /\ Len(children') = n
  <2>1. Len(children') = n BY <1>0, <1>n DEF IsSeq
  <2> QED BY <2>1, <1>0, <1>n, AppendSeq
<1>3. /\ \A i \in DOMAIN children : UnrunC(i) /\ UnrunC(i)'
      /\ UnrunC(n)' /\ n \notin DOMAIN children
      /\ \A i \in DOMAIN children' : i \in DOMAIN children \/ i = n
  BY <1>0, <1>n, <1>2 DEF UnrunC
<1>4. SameParents
  <2>1. DOMAIN parents \subseteq Nat \ {0} BY <1>0 DEF IsSeq
  <2> QED BY <2>1, <1>0 DEF SameParents, UnrunP
<1>5. ASSUME NEW k, k # cur.key, Untouched(k) PROVE Untouched(k)'
  <2> QED BY <1>0, <1>1, <1>2, <1>3, <1>5 DEF Untouched
<1>6. ASSUME NEW e, NEW a PROVE Placed(e, a) => Placed(e, a)'
  BY <1>0 DEF Placed, RowsOf
<1>7. ASSUME NEW e, NEW b, NEW o, e.key # cur.key, Progress(e, b, o) PROVE Progress(e, b, o)'
  <2>1. PICK a \in 0..b : Placed(e, a) /\ InBuffer(e, a, b, o) BY <1>7 DEF Progress
  <2>2. InBuffer(e, a, b, o)'
    <3>1. ASSUME NEW i \in (a + 1)..b
          PROVE  (UnrunC(o + i) /\ children[o + i].key = e.key /\ children[o + i].row = e.related[i])'
      <4>1. UnrunC(o + i) /\ children[o + i].key = e.key /\ children[o + i].row = e.related[i]
        BY <2>1 DEF InBuffer
      <4>2. o + i \in DOMAIN children BY <4>1 DEF UnrunC
      <4> QED BY <4>1, <4>2, <1>2, <1>3
    <3>2. ASSUME NEW j \in DOMAIN children', children'[j].key = e.key
          PROVE  j - o \in (a + 1)..b
      <4>1. j \in DOMAIN children BY <3>2, <1>1, <1>2, <1>3, <1>7
      <4>2. UnrunC(j) /\ children[j].key = e.key BY <4>1, <3>2, <1>2, <1>3
      <4> QED BY <4>1, <4>2, <2>1 DEF InBuffer
    <3> QED BY <3>1, <3>2 DEF InBuffer
  <2> QED BY <2>1, <2>2, <1>6 DEF Progress
<1>8. ASSUME Progress(cur, next - 1, Len(children) - (next - 1))
      PROVE  (Progress(cur, next - 1, Len(children) - (next - 1)))'
  <2>0. next \in Nat /\ Len(cur.related) \in Nat BY <1>0 DEF EntryOK
  <2>1. PICK c, m, o : c = cur /\ m = next /\ o = Len(children) - (next - 1) OBVIOUS
  <2>2. m \in Nat \ {0} /\ o \in Int /\ o + m = n BY <2>0, <2>1, <1>0, <1>n, <1>2
  <2>3. PICK a \in 0..(m - 1) : Placed(c, a) /\ InBuffer(c, a, m - 1, o)
    BY <1>8, <2>1 DEF Progress
  <2>4. children'[n].key = c.key /\ children'[n].row = c.related[m] BY <2>1, <1>1, <1>2
  <2>5. ASSUME NEW i \in (a + 1)..m
        PROVE  (UnrunC(o + i) /\ children[o + i].key = c.key /\ children[o + i].row = c.related[i])'
    <3>1. CASE i = m BY <3>1, <2>2, <2>4, <1>3
    <3>2. CASE i # m
      <4>1. i \in (a + 1)..(m - 1) BY <3>2, <2>2, <2>3
      <4>2. UnrunC(o + i) /\ children[o + i].key = c.key /\ children[o + i].row = c.related[i]
        BY <4>1, <2>3 DEF InBuffer
      <4>3. o + i \in DOMAIN children BY <4>2 DEF UnrunC
      <4> QED BY <4>2, <4>3, <1>2, <1>3
    <3> QED BY <3>1, <3>2
  <2>6. ASSUME NEW j \in DOMAIN children', children'[j].key = c.key
        PROVE  j - o \in (a + 1)..m
    <3>1. CASE j = n BY <3>1, <2>2, <2>3
    <3>2. CASE j \in DOMAIN children
      <4>1. UnrunC(j) /\ children[j].key = c.key BY <3>2, <2>6, <1>2, <1>3
      <4>2. j - o \in (a + 1)..(m - 1) BY <3>2, <4>1, <2>3 DEF InBuffer
      <4> QED BY <4>2, <2>2, <2>3
    <3> QED BY <3>1, <3>2, <1>3
  <2>7. cur' = c /\ (next - 1)' = m /\ (Len(children) - (next - 1))' = o
    <3>1. cur' = c /\ next' = m + 1 BY <2>1, <1>0
    <3>2. Len(children)' = n BY <1>2
    <3>3. (m + 1) - 1 = m /\ n - m = o BY <2>2, <1>n, <1>2
    <3> QED BY <3>1, <3>2, <3>3
  <2>8. InBuffer(c, a, m, o)' BY <2>5, <2>6 DEF InBuffer
  <2>9. Placed(c, a)' BY <2>3, <1>6
  <2>10. a \in 0..m BY <2>2, <2>3
  <2>11. Progress(c, m, o)' BY <2>8, <2>9, <2>10 DEF Progress
  <2>12. Progress(c, m, o)' <=> (Progress(cur, next - 1, Len(children) - (next - 1)))' BY <2>7 DEF Progress, Placed, InBuffer
  <2> QED BY <2>11, <2>12
<1> QED BY <1>4, <1>5, <1>7, <1>8

(* A vulnerability leaves the buffer for the table.                        *)
LEMMA ParentRun ==
  ASSUME IInv, FlushParent
  PROVE  /\ SameChildren
         /\ \A e : Single(e) => Single(e)'
         /\ \A k : Untouched(k) => Untouched(k)'
<1>0. /\ pc = "flushParents" /\ pc' = pc /\ pos \in Nat /\ pos < Len(parents) /\ pos' = pos + 1
      /\ UNCHANGED <<parents, children, rows>> /\ IsSeq(parents) /\ IsSeq(vulns)
  BY DEF FlushParent, IInv, ControlOK, BuffersOK, writing
<1>1. PICK op, m, n : op = parents[pos + 1] /\ m = pos + 1 /\ n = Len(vulns) + 1 OBVIOUS
<1>2. /\ DOMAIN parents = 1..Len(parents) /\ Len(parents) \in Nat
      /\ DOMAIN vulns = 1..Len(vulns) /\ Len(vulns) \in Nat
      /\ m \in DOMAIN parents /\ UnrunP(m) /\ op = parents[m]
  BY <1>0, <1>1 DEF IsSeq, UnrunP
<1>3. \A i \in DOMAIN parents : UnrunP(i)' <=> UnrunP(i) /\ i # m
  BY <1>0, <1>1, <1>2 DEF UnrunP
<1>4. SameChildren BY <1>0 DEF SameChildren, UnrunC
<1>5. op.vuln => /\ DOMAIN vulns' = 1..n /\ n \notin DOMAIN vulns /\ vulns'[n].key = op.key
                 /\ \A i \in DOMAIN vulns : vulns'[i] = vulns[i]
  <2> SUFFICES ASSUME op.vuln
               PROVE  /\ DOMAIN vulns' = 1..n /\ n \notin DOMAIN vulns /\ vulns'[n].key = op.key
                      /\ \A i \in DOMAIN vulns : vulns'[i] = vulns[i]
    OBVIOUS
  <2>1. PICK v : v = [key |-> op.key, sev |-> op.sev] OBVIOUS
  <2>2. vulns' = Append(vulns, v) /\ v.key = op.key BY <2>1, <1>1 DEF FlushParent
  <2> QED BY <2>2, <1>0, <1>1, <1>2, AppendSeq
<1>6. ~op.vuln => vulns' = vulns BY <1>1 DEF FlushParent
<1>7. op.vuln => \A i \in DOMAIN vulns' : i \in DOMAIN vulns \/ i = n BY <1>1, <1>2, <1>5
<1>8. op.vuln => n \in DOMAIN vulns' /\ DOMAIN vulns \subseteq DOMAIN vulns' BY <1>1, <1>2, <1>5
<1>9. ASSUME NEW e, Single(e) PROVE Single(e)'
  <2>1. CASE e.key = op.key
    <3>1. /\ op.vuln = e.vuln /\ \A j \in DOMAIN vulns : vulns[j].key # e.key
          /\ \A j \in DOMAIN parents : UnrunP(j) /\ parents[j].key = e.key => j = m
      BY <2>1, <1>2, <1>9 DEF Single
    <3>2. \A j \in DOMAIN parents : UnrunP(j)' => parents[j].key # e.key BY <3>1, <1>3
    <3>3. CASE op.vuln
      <4>1. \A i \in DOMAIN vulns' : vulns'[i].key = e.key <=> i = n
        BY <3>1, <3>3, <2>1, <1>5, <1>7, <1>8
      <4> QED BY <4>1, <3>1, <3>2, <3>3, <1>0, <1>8 DEF Single
    <3>4. CASE ~op.vuln BY <3>1, <3>2, <3>4, <1>0, <1>6 DEF Single
    <3> QED BY <3>3, <3>4
  <2>2. CASE e.key # op.key
    <3>1. \A i \in DOMAIN parents : parents[i].key = e.key => (UnrunP(i)' <=> UnrunP(i))
      BY <2>2, <1>2, <1>3
    <3>2. \A i \in DOMAIN vulns' : vulns'[i].key = e.key => i \in DOMAIN vulns /\ vulns[i].key = e.key
      BY <2>2, <1>5, <1>6, <1>7
    <3>3. \A i \in DOMAIN vulns : i \in DOMAIN vulns' /\ vulns'[i].key = vulns[i].key
      BY <1>5, <1>6, <1>8
    <3>4. parents' = parents BY <1>0
    <3> QED BY <3>1, <3>2, <3>3, <3>4, <1>9 DEF Single
  <2> QED BY <2>1, <2>2
<1>10. ASSUME NEW k, Untouched(k) PROVE Untouched(k)'
  <2>1. op.key # k BY <1>2, <1>10 DEF Untouched
  <2>2. \A i \in DOMAIN vulns' : vulns'[i].key # k BY <2>1, <1>5, <1>6, <1>7, <1>10 DEF Untouched
  <2> QED BY <2>2, <1>0, <1>10 DEF Untouched
<1> QED BY <1>4, <1>9, <1>10

LEMMA ParentsCleared ==
  ASSUME IInv, FlushParentsEnd
  PROVE  /\ SameChildren
         /\ \A e : Single(e) => Single(e)'
         /\ \A k : Untouched(k) => Untouched(k)'
<1>0. /\ pc = "flushParents" /\ pos = Len(parents) /\ parents' = <<>> /\ pos' = 0
      /\ UNCHANGED <<children, vulns, rows>> /\ IsSeq(parents) /\ IsSeq(children)
  BY DEF FlushParentsEnd, IInv, BuffersOK, store
<1>1. \A i \in DOMAIN parents : ~UnrunP(i) BY <1>0 DEF IsSeq, UnrunP
<1>2. DOMAIN parents' = {} BY <1>0, NoElements
<1>3. SameChildren
  <2>1. DOMAIN children \subseteq Nat \ {0} BY <1>0 DEF IsSeq
  <2> QED BY <2>1, <1>0 DEF SameChildren, UnrunC
<1>4. ASSUME NEW e, Single(e) PROVE Single(e)' BY <1>0, <1>1, <1>2, <1>4 DEF Single
<1>5. ASSUME NEW k, Untouched(k) PROVE Untouched(k)' BY <1>0, <1>2, <1>5 DEF Untouched
<1> QED BY <1>3, <1>4, <1>5

(* A row is stored behind those of its entry.                              *)
LEMMA PlacedNext ==
  ASSUME IsSeq(rows), NEW row, rows' = Append(rows, row), NEW e, row.key = e.key, NEW a \in Nat,
         row.row = e.related[a + 1], e.related[a + 1].kind # "eol", Placed(e, a)
  PROVE  Placed(e, a + 1)'
<1>0. PICK n : n = Len(rows) + 1 OBVIOUS
<1>1. /\ Len(rows) \in Nat /\ DOMAIN rows = 1..Len(rows) /\ DOMAIN rows' = 1..n
      /\ \A i \in DOMAIN rows : rows'[i] = rows[i]
      /\ rows'[n] = row
  BY <1>0, AppendSeq
<1>2. PICK f \in [Due(e, a) -> RowsOf(e.key)] :
        /\ \A i, j \in Due(e, a) : i < j => f[i] < f[j]
        /\ \A k \in RowsOf(e.key) : \E i \in Due(e, a) : k = f[i]
        /\ \A i \in Due(e, a) : rows[f[i]].row = e.related[i]
  BY DEF Placed
<1>3. /\ \A i : i \in Due(e, a + 1) <=> i \in Due(e, a) \/ i = a + 1
      /\ \A i \in Due(e, a) : i \in Nat /\ i < a + 1
      /\ a + 1 \notin Due(e, a)
  BY DEF Due
<1>4. \A k : k \in RowsOf(e.key)' <=> k \in RowsOf(e.key) \/ k = n BY <1>0, <1>1 DEF RowsOf
<1>5. \A k \in RowsOf(e.key) : k \in DOMAIN rows /\ k \in Nat /\ k < n BY <1>0, <1>1 DEF RowsOf
<1>6. PICK g : g = [i \in Due(e, a + 1) |-> IF i = a + 1 THEN n ELSE f[i]] OBVIOUS
<1>7. g \in [Due(e, a + 1) -> RowsOf(e.key)'] BY <1>2, <1>3, <1>4, <1>6
<1>8. ASSUME NEW i \in Due(e, a + 1), NEW j \in Due(e, a + 1), i < j PROVE g[i] < g[j]
  <2>1. i \in Due(e, a) /\ g[i] = f[i] /\ f[i] \in RowsOf(e.key) BY <1>2, <1>3, <1>6, <1>8
  <2>2. CASE j = a + 1
    <3>1. g[j] = n BY <2>2, <1>6
    <3>2. f[i] < n BY <2>1, <1>5
    <3> QED BY <3>1, <3>2, <2>1
  <2>3. CASE j \in Due(e, a) BY <2>1, <2>3, <1>2, <1>3, <1>6, <1>8
  <2> QED BY <2>2, <2>3, <1>3
<1>9. ASSUME NEW k \in RowsOf(e.key)' PROVE \E i \in Due(e, a + 1) : k = g[i]
  <2>1. CASE k = n
    <3>1. a + 1 \in Due(e, a + 1) /\ g[a + 1] = n BY <1>3, <1>6
    <3> QED BY <3>1, <2>1
  <2>2. CASE k \in RowsOf(e.key)
    <3>1. PICK i \in Due(e, a) : k = f[i] BY <2>2, <1>2
    <3>2. i \in Due(e, a + 1) /\ g[i] = f[i] BY <1>3, <1>6
    <3> QED BY <3>1, <3>2
  <2> QED BY <2>1, <2>2, <1>4
<1>10. ASSUME NEW i \in Due(e, a + 1) PROVE rows'[g[i]].row = e.related[i]
  <2>1. CASE i = a + 1 BY <2>1, <1>1, <1>6
  <2>2. CASE i \in Due(e, a)
    <3>1. g[i] = f[i] /\ f[i] \in DOMAIN rows BY <2>2, <1>2, <1>3, <1>5, <1>6
    <3> QED BY <3>1, <2>2, <1>1, <1>2
  <2> QED BY <2>1, <2>2, <1>3
<1> QED BY <1>7, <1>8, <1>9, <1>10 DEF Placed

LEMMA PlacedOther ==
  ASSUME IsSeq(rows), NEW row, rows' = rows \/ rows' = Append(rows, row),
         NEW e, row.key # e.key \/ rows' = rows, NEW a, Placed(e, a)
  PROVE  Placed(e, a)'
<1>1. RowsOf(e.key)' = RowsOf(e.key) /\ \A k \in RowsOf(e.key) : rows'[k] = rows[k]
  <2>1. CASE rows' = rows BY <2>1 DEF RowsOf
  <2>2. CASE rows' = Append(rows, row) /\ row.key # e.key
    <3>0. PICK n : n = Len(rows) + 1 OBVIOUS
    <3>1. /\ Len(rows) \in Nat /\ DOMAIN rows = 1..Len(rows) /\ DOMAIN rows' = 1..n
          /\ \A i \in DOMAIN rows : rows'[i] = rows[i]
          /\ rows'[n] = row
      BY <2>2, <3>0, AppendSeq
    <3>2. \A i : i \in DOMAIN rows' <=> i \in DOMAIN rows \/ i = n BY <3>0, <3>1
    <3>3. n \notin DOMAIN rows BY <3>0, <3>1
    <3>4. \A i : i \in RowsOf(e.key)' <=> i \in RowsOf(e.key)
      BY <2>2, <3>1, <3>2, <3>3 DEF RowsOf
    <3>5. \A i \in RowsOf(e.key) : rows'[i] = rows[i] BY <3>1 DEF RowsOf
    <3>6. RowsOf(e.key)' = RowsOf(e.key) BY <3>4 DEF RowsOf
    <3> QED BY <3>5, <3>6
  <2> QED BY <2>1, <2>2
<1>2. PICK f \in [Due(e, a) -> RowsOf(e.key)] :
        /\ \A i, j \in Due(e, a) : i < j => f[i] < f[j]
        /\ \A k \in RowsOf(e.key) : \E i \in Due(e, a) : k = f[i]
        /\ \A i \in Due(e, a) : rows[f[i]].row = e.related[i]
  BY DEF Placed
<1>3. \A i \in Due(e, a) : rows'[f[i]].row = e.related[i] BY <1>1, <1>2
<1>4. f \in [Due(e, a) -> RowsOf(e.key)'] BY <1>1, <1>2
<1>5. \A k \in RowsOf(e.key)' : \E i \in Due(e, a) : k = f[i] BY <1>1, <1>2
<1> QED BY <1>2, <1>3, <1>4, <1>5 DEF Placed

(* The first row in the buffer that was not run is run.                    *)
LEMMA ChildRun ==
  ASSUME IInv, FlushChild
  PROVE  /\ SameParents
         /\ \A k : Untouched(k) => Untouched(k)'
         /\ \A e : \A b \in Nat, o \in Int : Progress(e, b, o) => Progress(e, b, o)'
<1>0. /\ pc = "flushChildren" /\ pc' = pc /\ pos \in Nat /\ pos < Len(children) /\ pos' = pos + 1
      /\ UNCHANGED <<parents, children, vulns>> /\ IsSeq(children) /\ IsSeq(rows)
  BY DEF FlushChild, Run, IInv, ControlOK, BuffersOK
<1>1. PICK op, m, row : /\ op = children[pos + 1] /\ m = pos + 1
                        /\ row = [key |-> op.key, vuln |-> op.vuln, row |-> op.row,
                                  id |-> IF op.vuln THEN ids[op.key] ELSE 0]
  OBVIOUS
<1>2. /\ row.key = op.key /\ row.row = op.row
      /\ IF op.row.kind = "eol" THEN rows' = rows ELSE rows' = Append(rows, row)
  BY <1>1 DEF FlushChild, Run
<1>3. /\ DOMAIN children = 1..Len(children) /\ Len(children) \in Nat
      /\ m \in DOMAIN children /\ UnrunC(m) /\ op = children[m] /\ m \in Nat
  BY <1>0, <1>1 DEF IsSeq, UnrunC
<1>4. /\ \A i \in DOMAIN children : UnrunC(i)' <=> UnrunC(i) /\ i # m
      /\ \A i \in DOMAIN children : UnrunC(i) => i >= m
  BY <1>0, <1>1, <1>3 DEF UnrunC
<1>5. SameParents BY <1>0 DEF SameParents, UnrunP
<1>6. ASSUME NEW k, Untouched(k) PROVE Untouched(k)'
  <2>1. op.key # k BY <1>3, <1>6 DEF Untouched
  <2>2. \A i \in DOMAIN rows' : rows'[i].key # k
    <3>1. CASE rows' = rows BY <3>1, <1>6 DEF Untouched
    <3>2. CASE rows' = Append(rows, row)
      <4>0. PICK n : n = Len(rows) + 1 OBVIOUS
      <4>1. /\ Len(rows) \in Nat /\ DOMAIN rows = 1..Len(rows) /\ DOMAIN rows' = 1..n
            /\ \A i \in DOMAIN rows : rows'[i] = rows[i]
            /\ rows'[n] = row
        BY <3>2, <4>0, <1>0, AppendSeq
      <4>2. \A i \in DOMAIN rows' : i \in DOMAIN rows \/ i = n BY <4>0, <4>1
      <4> QED BY <4>1, <4>2, <2>1, <1>2, <1>6 DEF Untouched
    <3> QED BY <3>1, <3>2, <1>2
  <2> QED BY <2>2, <1>0, <1>6 DEF Untouched
<1>7. ASSUME NEW e, NEW b \in Nat, NEW o \in Int, Progress(e, b, o) PROVE Progress(e, b, o)'
  <2>1. PICK a \in 0..b : Placed(e, a) /\ InBuffer(e, a, b, o) BY <1>7 DEF Progress
  <2>2. CASE op.key # e.key
    <3>1. Placed(e, a)' BY <2>1, <2>2, <1>0, <1>2, PlacedOther
    <3>2. \A i \in DOMAIN children : children[i].key = e.key => (UnrunC(i)' <=> UnrunC(i))
      BY <2>2, <1>3, <1>4
    <3>3. InBuffer(e, a, b, o)'
      <4>1. ASSUME NEW i \in (a + 1)..b
            PROVE  (UnrunC(o + i) /\ children[o + i].key = e.key /\ children[o + i].row = e.related[i])'
        <5>1. UnrunC(o + i) /\ children[o + i].key = e.key /\ children[o + i].row = e.related[i]
          BY <2>1 DEF InBuffer
        <5>2. o + i \in DOMAIN children BY <5>1 DEF UnrunC
        <5> QED BY <5>1, <5>2, <3>2, <1>0
      <4>2. ASSUME NEW j \in DOMAIN children, UnrunC(j)', children[j].key = e.key
            PROVE  j - o \in (a + 1)..b
        BY <4>2, <3>2, <2>1 DEF InBuffer
      <4> QED BY <4>1, <4>2, <1>0 DEF InBuffer
    <3> QED BY <3>1, <3>3 DEF Progress
  <2>3. CASE op.key = e.key
    <3>1. m - o \in (a + 1)..b BY <2>1, <2>3, <1>3 DEF InBuffer
    <3>2. a + 1 \in (a + 1)..b BY <3>1, <2>1, <1>3
    <3>3. UnrunC(o + (a + 1)) /\ children[o + (a + 1)].row = e.related[a + 1]
      BY <3>2, <2>1 DEF InBuffer
    <3>4. o + (a + 1) \in DOMAIN children BY <3>3 DEF UnrunC
    <3>5. m = o + (a + 1)
      <4>1. o + (a + 1) >= m BY <3>3, <3>4, <1>4
      <4> QED BY <4>1, <3>1, <2>1, <1>3
    <3>6. op.row = e.related[a + 1] BY <3>3, <3>5, <1>3
    <3>7. Placed(e, a + 1)'
      <4>1. CASE e.related[a + 1].kind = "eol"
        <5>1. Due(e, a + 1) = Due(e, a) BY <4>1, <2>1 DEF Due
        <5>2. rows' = rows BY <4>1, <3>6, <1>2
        <5>3. Placed(e, a)' BY <5>2, <2>1, <1>0, PlacedOther
        <5> QED BY <5>1, <5>3 DEF Placed
      <4>2. CASE e.related[a + 1].kind # "eol"
        <5>1. rows' = Append(rows, row) /\ row.key = e.key /\ row.row = e.related[a + 1]
          BY <4>2, <3>6, <2>3, <1>2
        <5> QED BY <5>1, <4>2, <2>1, <1>0, PlacedNext
      <4> QED BY <4>1, <4>2
    <3>8. InBuffer(e, a + 1, b, o)'
      <4>1. ASSUME NEW i \in (a + 1 + 1)..b
            PROVE  (UnrunC(o + i) /\ children[o + i].key = e.key /\ children[o + i].row = e.related[i])'
        <5>0. i \in (a + 1)..b BY <2>1
        <5>1. UnrunC(o + i) /\ children[o + i].key = e.key /\ children[o + i].row = e.related[i]
          BY <5>0, <2>1 DEF InBuffer
        <5>2. o + i \in DOMAIN children BY <5>1 DEF UnrunC
        <5>3. o + i # m BY <3>5, <2>1
        <5> QED BY <5>1, <5>2, <5>3, <1>0, <1>4
      <4>2. ASSUME NEW j \in DOMAIN children, UnrunC(j)', children[j].key = e.key
            PROVE  j - o \in (a + 1 + 1)..b
        <5>1. UnrunC(j) /\ j # m BY <4>2, <1>4
        <5>2. j - o \in (a + 1)..b BY <5>1, <4>2, <2>1 DEF InBuffer
        <5>3. j \in Nat BY <1>3
        <5> QED BY <5>1, <5>2, <5>3, <3>5, <2>1
      <4> QED BY <4>1, <4>2, <1>0 DEF InBuffer
    <3>9. a + 1 \in 0..b BY <3>2, <2>1
    <3> QED BY <3>7, <3>8, <3>9 DEF Progress
  <2> QED BY <2>2, <2>3
<1> QED BY <1>5, <1>6, <1>7

LEMMA ChildrenCleared ==
  ASSUME IInv, FlushChildrenEnd
  PROVE  /\ SameParents
         /\ \A k : Untouched(k) => Untouched(k)'
         /\ \A e : \A b \in Nat, o \in Int : Progress(e, b, o) => \A q : Progress(e, b, q)'
<1>0. /\ pc = "flushChildren" /\ children' = <<>> /\ pos = Len(children) /\ parents = <<>>
      /\ UNCHANGED <<parents, vulns, rows>> /\ IsSeq(children)
  BY DEF FlushChildrenEnd, IInv, ControlOK, BuffersOK, store
<1>1. \A i \in DOMAIN children : ~UnrunC(i) BY <1>0 DEF IsSeq, UnrunC
<1>2. DOMAIN children' = {} /\ DOMAIN parents = {} BY <1>0, NoElements
<1>3. SameParents BY <1>0, <1>2 DEF SameParents
<1>4. ASSUME NEW k, Untouched(k) PROVE Untouched(k)' BY <1>0, <1>2, <1>4 DEF Untouched
<1>5. ASSUME NEW e, NEW b \in Nat, NEW o \in Int, Progress(e, b, o), NEW q PROVE Progress(e, b, q)'
  <2>1. PICK a \in 0..b : Placed(e, a) /\ InBuffer(e, a, b, o) BY <1>5 DEF Progress
  <2>2. \A i \in (a + 1)..b : FALSE BY <2>1, <1>1 DEF InBuffer, UnrunC
  <2>3. InBuffer(e, a, b, q)' BY <2>2, <1>2 DEF InBuffer
  <2>4. Placed(e, a)' BY <2>1, <1>0 DEF Placed, RowsOf
  <2> QED BY <2>3, <2>4 DEF Progress
<1> QED BY <1>3, <1>4, <1>5

(***************************************************************************)
(* The control.                                                            *)
(***************************************************************************)
LEMMA ControlMoves ==
  ASSUME IInv, pc # "failed",
         AddParent \/ AddChild \/ FlushParent \/ FlushParentsEnd \/ FlushChild \/ FlushChildrenEnd
  PROVE  /\ (Writing' <=> Writing) /\ (Reading' <=> Reading)
         /\ UNCHANGED <<input, reading, cur>> /\ pc' # "done"
         /\ pc' = "finish" \/ LastFlush' => LastFlush
         /\ pc' = "finish" => FlushChildrenEnd
<1> USE DEF reading, writing, fixed
<1>0. ControlOK BY DEF IInv
<1>1. CASE AddParent
  <2>1. pc = "write" /\ then \in {<<"read">>, <<"close">>} BY <1>0, <1>1 DEF AddParent, ControlOK
  <2>2. \/ pc' = "write" /\ then' = then
        \/ pc' = "flushParents" /\ then' = <<"write", Head(then)>>
    BY <2>1, <1>1 DEF AddParent
  <2>3. UNCHANGED <<input, reading, cur>> BY <1>1 DEF AddParent
  <2>4. CASE then = <<"read">> BY <2>1, <2>2, <2>3, <2>4, Tuples DEF Writing, Reading, LastFlush
  <2>5. CASE then = <<"close">> BY <2>1, <2>2, <2>3, <2>5, Tuples DEF Writing, Reading, LastFlush
  <2> QED BY <2>1, <2>4, <2>5
<1>2. CASE AddChild
  <2>1. pc = "write" /\ then \in {<<"read">>, <<"close">>} BY <1>0, <1>2 DEF AddChild, ControlOK
  <2>2. \/ pc' = "write" /\ then' = then
        \/ pc' = "flushParents" /\ then' = <<"flushChildren", "write", Head(then)>>
    BY <2>1, <1>2 DEF AddChild
  <2>3. UNCHANGED <<input, reading, cur>> BY <1>2 DEF AddChild
  <2>4. CASE then = <<"read">> BY <2>1, <2>2, <2>3, <2>4, Tuples DEF Writing, Reading, LastFlush
  <2>5. CASE then = <<"close">> BY <2>1, <2>2, <2>3, <2>5, Tuples DEF Writing, Reading, LastFlush
  <2> QED BY <2>1, <2>4, <2>5
<1>3. CASE FlushParent
  <2>1. pc = "flushParents" /\ UNCHANGED <<pc, then, input, reading, cur>> BY <1>3 DEF FlushParent
  <2> QED BY <2>1 DEF Writing, Reading, LastFlush
<1>4. CASE FlushChild
  <2>1. pc = "flushChildren" /\ UNCHANGED <<pc, then, input, reading, cur>> BY <1>4 DEF FlushChild
  <2> QED BY <2>1 DEF Writing, Reading, LastFlush
<1>5. CASE FlushParentsEnd
  <2>1. pc = "flushParents" /\ pc' = Head(then) /\ then' = Tail(then) /\ UNCHANGED <<input, reading, cur>>
    BY <1>5 DEF FlushParentsEnd
  <2>2. then \in {<<"write", "read">>, <<"write", "close">>, <<"flushChildren", "finish">>,
                  <<"flushChildren", "write", "read">>, <<"flushChildren", "write", "close">>}
    BY <2>1, <1>0 DEF ControlOK
  <2>3. CASE then = <<"write", "read">> BY <2>1, <2>3, Tuples DEF Writing, Reading, LastFlush
  <2>4. CASE then = <<"write", "close">> BY <2>1, <2>4, Tuples DEF Writing, Reading, LastFlush
  <2>5. CASE then = <<"flushChildren", "finish">> BY <2>1, <2>5, Tuples DEF Writing, Reading, LastFlush
  <2>6. CASE then = <<"flushChildren", "write", "read">> BY <2>1, <2>6, Tuples DEF Writing, Reading, LastFlush
  <2>7. CASE then = <<"flushChildren", "write", "close">> BY <2>1, <2>7, Tuples DEF Writing, Reading, LastFlush
  <2> QED BY <2>2, <2>3, <2>4, <2>5, <2>6, <2>7
<1>6. CASE FlushChildrenEnd
  <2>1. pc = "flushChildren" /\ pc' = Head(then) /\ then' = Tail(then) /\ UNCHANGED <<input, reading, cur>>
    BY <1>6 DEF FlushChildrenEnd
  <2>2. then \in {<<"write", "read">>, <<"write", "close">>, <<"finish">>}
    BY <2>1, <1>0 DEF ControlOK
  <2>3. CASE then = <<"write", "read">> BY <2>1, <2>3, Tuples DEF Writing, Reading, LastFlush
  <2>4. CASE then = <<"write", "close">> BY <2>1, <2>4, Tuples DEF Writing, Reading, LastFlush
  <2>5. CASE then = <<"finish">>
    <3>1. Tail(<<"finish">>) = <<>> OBVIOUS
    <3> QED BY <3>1, <2>1, <2>5, <1>6, Tuples DEF Writing, Reading, LastFlush
  <2> QED BY <2>2, <2>3, <2>4, <2>5
<1> QED BY <1>1, <1>2, <1>3, <1>4, <1>5, <1>6

(***************************************************************************)
(* The steps that fill and run the buffers.                                *)
(***************************************************************************)
LEMMA EngineStep ==
  ASSUME IInv, pc # "failed", CurOK,
         AddParent \/ AddChild \/ FlushParent \/ FlushParentsEnd \/ FlushChild \/ FlushChildrenEnd
  PROVE  /\ CurOK'
         /\ \A k : Fresh(k) => Fresh(k)'
         /\ \A e : EntryOK(e) /\ Taken(e) => Taken(e)'
<1>0. (Writing' <=> Writing) /\ cur' = cur BY ControlMoves
<1>1. \A e : EntryOK(e) => Len(e.related) \in Nat BY DEF EntryOK
<1>2. ASSUME SameChildren PROVE \A e, b, o : Progress(e, b, o) => Progress(e, b, o)'
  BY <1>2, ProgressStays
<1>3. ASSUME SameParents PROVE \A e : Single(e) => Single(e)' BY <1>3, SingleStays
<1>4. CASE AddParent
  <2>1. pc = "write" /\ next = 0 /\ next' = 1 /\ children' = children BY <1>4 DEF AddParent
  <2>2. Writing BY <2>1 DEF Writing
  <2>3. Untouched(cur.key) /\ EntryOK(cur) /\ cur.supported BY <2>1, <2>2 DEF CurOK
  <2>4. SameChildren BY <1>4, ParentAdded
  <2>5. Single(cur)' BY <2>3, <1>4, ParentAdded
  <2>6. PICK c, n : c = cur /\ n = Len(children) OBVIOUS
  <2>7. Progress(c, 0, n)
    <3>1. RowsOf(c.key) = {} /\ Due(c, 0) = {} BY <2>3, <2>6 DEF RowsOf, Due, Untouched
    <3>2. PICK f : f = [i \in {} |-> 0] OBVIOUS
    <3>3. f \in [Due(c, 0) -> RowsOf(c.key)] BY <3>1, <3>2
    <3>4. Placed(c, 0) BY <3>1, <3>3 DEF Placed
    <3>5. InBuffer(c, 0, 0, n) BY <2>3, <2>6 DEF InBuffer, Untouched
    <3> QED BY <3>4, <3>5 DEF Progress
  <2>8. Progress(c, 0, n)' BY <2>4, <2>7, <1>2
  <2>9. n \in Nat BY <2>6 DEF IInv, BuffersOK, IsSeq
  <2>10. cur' = c /\ (next - 1)' = 0 /\ (Len(children) - (next - 1))' = n
    BY <2>1, <2>6, <2>9, <1>0
  <2>11. (Progress(cur, next - 1, Len(children) - (next - 1)))' BY <2>8, <2>10 DEF Progress, Placed, InBuffer
  <2>12. next' \in 0..(Len(cur'.related) + 1) BY <2>1, <2>3, <1>0, <1>1
  <2>13. CurOK' BY <2>1, <2>3, <2>5, <2>11, <2>12, <1>0 DEF CurOK
  <2>14. ASSUME NEW k, Fresh(k) PROVE Fresh(k)'
    <3>1. k # cur.key BY <2>14, <2>2 DEF Fresh
    <3> QED BY <3>1, <2>14, <1>0, <1>4, ParentAdded DEF Fresh
  <2>15. ASSUME NEW e, EntryOK(e), Taken(e) PROVE Taken(e)'
    <3>1. CASE cur.key = e.key BY <3>1, <2>2, <2>15, <1>0 DEF Taken
    <3>2. CASE cur.key # e.key
      <4>1. Complete(e) BY <3>2, <2>15 DEF Taken
      <4>2. Complete(e)' BY <3>2, <4>1, <2>4, <1>2, <1>4, ParentAdded DEF Complete, Begun
      <4> QED BY <3>2, <4>2, <1>0 DEF Taken
    <3> QED BY <3>1, <3>2
  <2> QED BY <2>13, <2>14, <2>15
<1>5. CASE AddChild
  <2>1. pc = "write" /\ next \in 1..Len(cur.related) /\ next' = next + 1 BY <1>5 DEF AddChild
  <2>2. Writing BY <2>1 DEF Writing
  <2>3. /\ EntryOK(cur) /\ cur.supported /\ Single(cur)
        /\ Progress(cur, next - 1, Len(children) - (next - 1))
    BY <2>1, <2>2 DEF CurOK
  <2>4. SameParents BY <2>3, <1>5, ChildAdded
  <2>5. (Progress(cur, next - 1, Len(children) - (next - 1)))' BY <2>3, <1>5, ChildAdded
  <2>6. Single(cur)'
    <3>1. PICK c : c = cur OBVIOUS
    <3>2. Single(c)' BY <3>1, <2>3, <2>4, <1>3
    <3> QED BY <3>1, <3>2, <1>0 DEF Single
  <2>7. next' \in 0..(Len(cur'.related) + 1) /\ next' # 0 BY <2>1, <2>3, <1>0, <1>1
  <2>8. CurOK' BY <2>3, <2>5, <2>6, <2>7, <1>0 DEF CurOK
  <2>9. ASSUME NEW k, Fresh(k) PROVE Fresh(k)'
    <3>1. k # cur.key BY <2>9, <2>2 DEF Fresh
    <3> QED BY <3>1, <2>3, <2>9, <1>0, <1>5, ChildAdded DEF Fresh
  <2>10. ASSUME NEW e, EntryOK(e), Taken(e) PROVE Taken(e)'
    <3>1. CASE cur.key = e.key BY <3>1, <2>2, <2>10, <1>0 DEF Taken
    <3>2. CASE cur.key # e.key
      <4>1. Complete(e) BY <3>2, <2>10 DEF Taken
      <4>2. Complete(e)' BY <3>2, <4>1, <2>3, <2>4, <1>3, <1>5, ChildAdded DEF Complete, Begun
      <4> QED BY <3>2, <4>2, <1>0 DEF Taken
    <3> QED BY <3>1, <3>2
  <2> QED BY <2>8, <2>9, <2>10
<1>6. CASE FlushParent \/ FlushParentsEnd
  <2>1. /\ SameChildren /\ (\A e : Single(e) => Single(e)') /\ (\A k : Untouched(k) => Untouched(k)')
    BY <1>6, ParentRun, ParentsCleared
  <2>2. next' = next /\ children' = children BY <2>1, <1>6 DEF SameChildren, FlushParent, FlushParentsEnd, writing
  <2>3. CurOK'
    <3> SUFFICES ASSUME Writing' PROVE CurOK' BY DEF CurOK
    <3>1. PICK c, n, o : c = cur /\ n = next - 1 /\ o = Len(children) - (next - 1) OBVIOUS
    <3>2. next # 0 => Single(c)' /\ Progress(c, n, o)' BY <3>1, <2>1, <1>0, <1>2 DEF CurOK
    <3>3. cur' = c /\ (next - 1)' = n /\ (Len(children) - (next - 1))' = o BY <3>1, <2>2, <1>0
    <3>4. next # 0 => Single(cur)' /\ (Progress(cur, next - 1, Len(children) - (next - 1)))'
      BY <3>2, <3>3 DEF Single, Progress, Placed, InBuffer
    <3>5. next = 0 => Untouched(c.key)' BY <3>1, <2>1, <1>0 DEF CurOK
    <3>6. next = 0 => Untouched(cur.key)' BY <3>3, <3>5 DEF Untouched
    <3> QED BY <3>4, <3>6, <2>2, <1>0 DEF CurOK
  <2>4. ASSUME NEW k, Fresh(k) PROVE Fresh(k)' BY <2>1, <2>4, <1>0 DEF Fresh
  <2>5. ASSUME NEW e, Complete(e) PROVE Complete(e)' BY <2>1, <2>5, <1>2 DEF Complete, Begun
  <2> QED BY <2>3, <2>4, <2>5, <1>0 DEF Taken
<1>7. CASE FlushChild \/ FlushChildrenEnd
  <2>1. /\ SameParents /\ (\A k : Untouched(k) => Untouched(k)')
        /\ \A e : \A b \in Nat, o \in Int : Progress(e, b, o) => Progress(e, b, o)'
    BY <1>7, ChildRun, ChildrenCleared
  <2>2. next' = next BY <1>7 DEF FlushChild, FlushChildrenEnd, writing
  <2>3. CurOK'
    <3> SUFFICES ASSUME Writing' PROVE CurOK' BY DEF CurOK
    <3>0. Len(children) \in Nat /\ Len(cur.related) \in Nat /\ next \in Nat
      BY <1>0, <1>1 DEF IInv, BuffersOK, IsSeq, CurOK
    <3>1. PICK c, n, o : c = cur /\ n = next - 1 /\ o = Len(children) - (next - 1) OBVIOUS
    <3>2. next # 0 => n \in Nat /\ o \in Int /\ Single(c) /\ Progress(c, n, o)
      BY <3>0, <3>1, <1>0 DEF CurOK
    <3>3. next # 0 => Single(c)' BY <3>2, <2>1, <1>3
    <3>4. cur' = c /\ (next - 1)' = n BY <3>1, <2>2, <1>0
    <3>5. next # 0 => Single(cur)' BY <3>3, <3>4 DEF Single
    <3>6. next # 0 => (Progress(cur, next - 1, Len(children) - (next - 1)))'
      <4>1. CASE FlushChild
        <5>1. children' = children BY <4>1 DEF FlushChild
        <5>2. (Len(children) - (next - 1))' = o BY <5>1, <3>1, <2>2
        <5>3. next # 0 => Progress(c, n, o)' BY <3>2, <2>1
        <5> QED BY <5>2, <5>3, <3>4 DEF Progress, Placed, InBuffer
      <4>2. CASE FlushChildrenEnd
        <5>1. PICK q : q = (Len(children) - (next - 1))' OBVIOUS
        <5>2. next # 0 => Progress(c, n, q)' BY <4>2, <3>2, ChildrenCleared
        <5>3. (Len(children) - (next - 1))' = q BY <5>1
        <5> QED BY <5>2, <5>3, <3>4 DEF Progress, Placed, InBuffer
      <4> QED BY <4>1, <4>2, <1>7
    <3>7. next = 0 => Untouched(c.key)' BY <3>1, <2>1, <1>0 DEF CurOK
    <3>8. next = 0 => Untouched(cur.key)' BY <3>4, <3>7 DEF Untouched
    <3> QED BY <3>5, <3>6, <3>8, <2>2, <1>0 DEF CurOK
  <2>4. ASSUME NEW k, Fresh(k) PROVE Fresh(k)' BY <2>1, <2>4, <1>0 DEF Fresh
  <2>5. ASSUME NEW e, EntryOK(e), Complete(e) PROVE Complete(e)'
    <3>1. Len(e.related) \in Nat BY <2>5, <1>1
    <3>2. Single(e)' BY <2>1, <2>5, <1>3 DEF Complete, Begun
    <3>3. PICK o \in Int : Progress(e, Len(e.related), o) BY <2>5 DEF Complete, Begun
    <3>4. Progress(e, Len(e.related), o)' BY <3>1, <3>3, <2>1
    <3> QED BY <3>2, <3>4 DEF Complete, Begun
  <2> QED BY <2>3, <2>4, <2>5, <1>0 DEF Taken
<1> QED BY <1>4, <1>5, <1>6, <1>7

(***************************************************************************)
(* What goMerge makes of the entries it holds.                             *)
(***************************************************************************)
Gone(r, g, hs) == r.kind = "package" /\ Covered(r, g, hs)

(* The rows left of the first n.                                           *)
Left(f, g, hs, k) ==
  f = [n \in 0..k |-> IF n = 0 THEN <<>>
                      ELSE IF Gone(g.related[n], g, hs) THEN f[n - 1]
                      ELSE Append(f[n - 1], g.related[n])]

LEMMA LeftExists ==
  ASSUME NEW g, NEW hs, NEW m \in Nat
  PROVE  \E f : Left(f, g, hs, m)
<1> DEFINE Bad == {k \in Nat : ~ \E f : Left(f, g, hs, k)}
<1> SUFFICES ASSUME Bad # {} PROVE FALSE OBVIOUS
<1>1. PICK k \in Bad : \A j \in Bad : k <= j BY Least
<1>2. k # 0
  <2>1. Left([n \in 0..0 |-> <<>>], g, hs, 0) BY DEF Left
  <2> QED BY <2>1
<1>3. PICK p : Left(p, g, hs, k - 1) BY <1>1, <1>2
<1> DEFINE Step(f, n) == IF Gone(g.related[n], g, hs) THEN f[n - 1] ELSE Append(f[n - 1], g.related[n])
           h == [n \in 0..k |-> IF n = k THEN Step(p, n) ELSE p[n]]
<1>4. ASSUME NEW n \in 0..k PROVE h[n] = IF n = 0 THEN <<>> ELSE Step(h, n)
  <2>0. k \in Nat /\ n \in Nat /\ k # 0 BY <1>1, <1>2
  <2>1. CASE n = k
    <3>1. h[k - 1] = p[k - 1] BY <2>0
    <3> QED BY <2>0, <2>1, <3>1
  <2>2. CASE n # k
    <3>1. h[n] = p[n] /\ n \in 0..(k - 1) BY <2>0, <2>2
    <3>2. p[n] = IF n = 0 THEN <<>> ELSE Step(p, n) BY <3>1, <1>3 DEF Left
    <3>3. n # 0 => h[n - 1] = p[n - 1] BY <2>0, <2>2
    <3> QED BY <3>1, <3>2, <3>3
  <2> QED BY <2>1, <2>2
<1>5. Left(h, g, hs, k) BY <1>4 DEF Left
<1> QED BY <1>5

(* The rows of a GO record that are not covered remain, and no others.     *)
LEMMA RemainingRows ==
  ASSUME NEW g, NEW hs, IsSeq(g.related)
  PROVE  /\ IsSeq(Remaining(g, hs))
         /\ \A x : x \in InSeq(Remaining(g, hs)) <=> x \in Rows(g) /\ ~Gone(x, g, hs)
<1>0. Len(g.related) \in Nat /\ DOMAIN g.related = 1..Len(g.related) BY DEF IsSeq
<1>1. PICK f : Left(f, g, hs, Len(g.related)) /\ Remaining(g, hs) = f[Len(g.related)]
  <2> DEFINE F == CHOOSE f : Left(f, g, hs, Len(g.related))
  <2>1. Left(F, g, hs, Len(g.related)) BY <1>0, LeftExists
  <2>2. Remaining(g, hs) = F[Len(g.related)] BY DEF Remaining, Left, Gone
  <2> QED BY <2>1, <2>2
<1> DEFINE Right(n) == /\ IsSeq(f[n])
                       /\ \A x : x \in InSeq(f[n]) <=> \E i \in 1..n : x = g.related[i] /\ ~Gone(x, g, hs)
           Bad == {n \in 0..Len(g.related) : ~Right(n)}
<1>2. f[0] = <<>> BY <1>0, <1>1 DEF Left
<1>3. ASSUME NEW n \in 1..Len(g.related)
      PROVE  f[n] = IF Gone(g.related[n], g, hs) THEN f[n - 1] ELSE Append(f[n - 1], g.related[n])
  <2> HIDE DEF Right, Bad
  <2>1. n \in 0..Len(g.related) /\ n # 0 BY <1>0
  <2> QED BY <2>1, <1>1 DEF Left
<1>4. Bad = {}
  <2> SUFFICES ASSUME Bad # {} PROVE FALSE OBVIOUS
  <2>0. Bad \in SUBSET Nat BY <1>0
  <2>1. PICK n \in Bad : \A k \in Bad : n <= k
    <3> HIDE DEF Bad
    <3> QED BY <2>0, Least
  <2>2. n # 0
    <3>1. Right(0) BY <1>2, NoElements
    <3> QED BY <3>1
  <2>3. n \in 1..Len(g.related) /\ n - 1 \in 0..Len(g.related) /\ n - 1 < n BY <2>1, <2>2, <1>0
  <2>4. Right(n - 1) BY <2>1, <2>3
  <2>5. \A j : j \in 1..n <=> j \in 1..(n - 1) \/ j = n BY <2>3
  <2>6. ~Right(n) BY <2>1
  <2>7. PICK q, z : q = f[n - 1] /\ z = g.related[n] OBVIOUS
  <2>8. CASE Gone(z, g, hs)
    <3>1. f[n] = q BY <2>3, <2>7, <2>8, <1>3
    <3>2. \A x : (\E i \in 1..n : x = g.related[i] /\ ~Gone(x, g, hs))
                   <=> (\E i \in 1..(n - 1) : x = g.related[i] /\ ~Gone(x, g, hs))
      BY <2>5, <2>7, <2>8
    <3>3. Right(n) BY <3>1, <3>2, <2>4, <2>7
    <3> QED BY <3>3, <2>6
  <2>9. CASE ~Gone(z, g, hs)
    <3>1. f[n] = Append(q, z) BY <2>3, <2>7, <2>9, <1>3
    <3>2. IsSeq(f[n]) /\ InSeq(f[n]) = InSeq(q) \cup {z}
      <4>1. IsSeq(q) BY <2>4, <2>7
      <4> HIDE DEF Right, Bad
      <4> QED BY <4>1, <3>1, AppendSeq
    <3>3. \A x : (\E i \in 1..n : x = g.related[i] /\ ~Gone(x, g, hs))
                   <=> (\E i \in 1..(n - 1) : x = g.related[i] /\ ~Gone(x, g, hs)) \/ x = z
      BY <2>5, <2>7, <2>9
    <3>4. Right(n) BY <3>2, <3>3, <2>4, <2>7
    <3> QED BY <3>4, <2>6
  <2> QED BY <2>8, <2>9
<1>5. Right(Len(g.related)) BY <1>0, <1>4
<1>6. \A x : x \in Rows(g) <=> \E i \in 1..Len(g.related) : x = g.related[i] BY <1>0 DEF Rows
<1> QED BY <1>1, <1>5, <1>6

LEMMA PatchedRowKeeps ==
  ASSUME NEW r, NEW h, NEW gs, NEW hs,
         {"kind", "name", "imports", "os", "fixes", "dated"} \subseteq DOMAIN r
  PROVE  LET p == PatchedRow(r, h, gs, hs) IN
         DOMAIN p = DOMAIN r /\ p.kind = r.kind /\ p.name = r.name /\ p.os = r.os
BY DEF PatchedRow

(* What is left of an entry when its rows were replaced.                   *)
SameBut(p, e) ==
  /\ DOMAIN p = DOMAIN e /\ p.key = e.key /\ p.name = e.name /\ p.vuln = e.vuln /\ p.kind = e.kind
  /\ p.rejected = e.rejected /\ p.cves = e.cves /\ p.nvd = e.nvd /\ p.sev = e.sev
  /\ p.aliases = e.aliases /\ p.published = e.published

LEMMA SameButOK ==
  ASSUME NEW e, EntryOK(e), NEW p, SameBut(p, e), p.supported \in BOOLEAN, IsSeq(p.related),
         \A q \in Rows(p) : \E r \in Rows(e) : DOMAIN q = DOMAIN r /\ q.kind = r.kind /\ q.os = r.os
  PROVE  EntryOK(p)
<1>1. {"key", "name", "supported", "vuln", "kind", "rejected", "cves", "nvd", "sev", "aliases",
       "published", "related"} \subseteq DOMAIN p
  BY DEF EntryOK, SameBut
<1>2. {p.supported, p.vuln, p.nvd} \subseteq BOOLEAN BY DEF EntryOK, SameBut
<1>3. p.related \in Seq(Rows(p)) BY DEF IsSeq, InSeq, Rows
<1>4. p.cves \in Seq(CVEs) /\ p.sev \in Nat BY DEF EntryOK, SameBut
<1>5. \A r \in Rows(p) : {"kind", "name", "imports", "os", "fixes", "dated"} \subseteq DOMAIN r
  BY DEF EntryOK
<1>6. p.kind \in {"go", "ghsa"} => p.vuln /\ ~p.nvd /\ \A r \in Rows(p) : r.kind # "eol" /\ r.os = {}
  BY DEF EntryOK, SameBut
<1>7. /\ p.kind \notin {"go", "ghsa"} => p.kind = "other"
      /\ p.nvd => p.vuln /\ p.cves # <<>>
  BY DEF EntryOK, SameBut
<1> QED BY <1>1, <1>2, <1>3, <1>4, <1>5, <1>6, <1>7 DEF EntryOK

LEMMA FunctionSeq ==
  ASSUME NEW s, NEW n \in Nat, DOMAIN s = 1..n, s = [i \in 1..n |-> s[i]]
  PROVE  IsSeq(s) /\ Len(s) = n
<1>1. \A i \in 1..n : s[i] \in InSeq(s) BY DEF InSeq
<1>2. s \in [1..n -> InSeq(s)] BY <1>1
<1>3. s \in Seq(InSeq(s)) BY <1>2
<1> QED BY <1>3 DEF IsSeq

LEMMA RelatedSeq ==
  ASSUME NEW e, EntryOK(e)
  PROVE  IsSeq(e.related) /\ Len(e.related) \in Nat /\ DOMAIN e.related = 1..Len(e.related)
<1>1. e.related \in Seq(Rows(e)) BY DEF EntryOK
<1>2. IsSeq(e.related) BY <1>1, SeqOfElements
<1> QED BY <1>1, <1>2

LEMMA PatchedIs ==
  ASSUME NEW h, NEW gs, NEW hs, EntryOK(h)
  PROVE  LET p == PatchedGHSA(h, gs, hs) IN
         /\ EntryOK(p) /\ SameBut(p, h) /\ p.supported = h.supported
         /\ DOMAIN p.related = DOMAIN h.related /\ Len(p.related) = Len(h.related)
         /\ \A i \in DOMAIN h.related :
              /\ p.related[i] = PatchedRow(h.related[i], h, gs, hs)
              /\ p.related[i].name = h.related[i].name /\ p.related[i].kind = h.related[i].kind
<1> DEFINE p == PatchedGHSA(h, gs, hs)
           s == [i \in DOMAIN h.related |-> PatchedRow(h.related[i], h, gs, hs)]
<1>0. IsSeq(h.related) /\ Len(h.related) \in Nat /\ DOMAIN h.related = 1..Len(h.related)
  BY RelatedSeq
<1>1. p = [h EXCEPT !.related = s] BY DEF PatchedGHSA
<1>2. "related" \in DOMAIN h BY DEF EntryOK
<1>3. SameBut(p, h) /\ p.supported = h.supported /\ p.related = s
  <2> HIDE DEF s
  <2> QED BY <1>1, <1>2 DEF SameBut, EntryOK
<1>4. IsSeq(s) /\ Len(s) = Len(h.related)
  <2>1. DOMAIN s = 1..Len(h.related) /\ s = [i \in 1..Len(h.related) |-> s[i]] BY <1>0
  <2> HIDE DEF s
  <2> QED BY <2>1, <1>0, FunctionSeq
<1>5. ASSUME NEW i \in DOMAIN h.related
      PROVE  /\ s[i] = PatchedRow(h.related[i], h, gs, hs) /\ h.related[i] \in Rows(h)
             /\ DOMAIN s[i] = DOMAIN h.related[i] /\ s[i].kind = h.related[i].kind
             /\ s[i].name = h.related[i].name /\ s[i].os = h.related[i].os
  <2>1. h.related[i] \in Rows(h) BY DEF Rows
  <2>2. {"kind", "name", "imports", "os", "fixes", "dated"} \subseteq DOMAIN h.related[i]
    BY <2>1 DEF EntryOK
  <2> QED BY <2>1, <2>2, PatchedRowKeeps
<1> HIDE DEF s, p
<1>6. DOMAIN s = DOMAIN h.related BY <1>0, <1>4 DEF IsSeq
<1>7. \A q \in Rows(p) : \E r \in Rows(h) : DOMAIN q = DOMAIN r /\ q.kind = r.kind /\ q.os = r.os
  BY <1>3, <1>5, <1>6 DEF Rows
<1>8. EntryOK(p)
  <2>1. p.supported \in BOOLEAN BY <1>3 DEF EntryOK
  <2>2. IsSeq(p.related) BY <1>3, <1>4
  <2> QED BY <2>1, <2>2, <1>3, <1>7, SameButOK
<1> QED BY <1>3, <1>4, <1>5, <1>6, <1>8 DEF p

LEMMA PrunedIs ==
  ASSUME NEW g, NEW hs, EntryOK(g)
  PROVE  LET p == PrunedGO(g, hs) IN
         /\ EntryOK(p) /\ SameBut(p, g)
         /\ \A r \in Packages(g) : ~Covered(r, g, hs) =>
              p.supported /\ \E q \in Rows(p) : q.kind = r.kind /\ q.name = r.name /\ q.imports = r.imports
<1> DEFINE p == PrunedGO(g, hs)
           left == Remaining(g, hs)
           s == [i \in DOMAIN left |->
                   IF left[i].kind = "package" THEN [left[i] EXCEPT !.dated = @ \/ g.published] ELSE left[i]]
           keep == g.rejected \/ g.aliases = {} \/ \E i \in DOMAIN left : left[i].kind = "package"
<1>0. IsSeq(left) /\ \A x : x \in InSeq(left) <=> x \in Rows(g) /\ ~Gone(x, g, hs)
  BY RelatedSeq, RemainingRows
<1>1. p = [g EXCEPT !.related = s, !.supported = keep] BY DEF PrunedGO
<1>2. {"related", "supported"} \subseteq DOMAIN g BY DEF EntryOK
<1>3. SameBut(p, g) /\ p.related = s /\ p.supported = keep
  <2> HIDE DEF s, keep, left
  <2> QED BY <1>1, <1>2 DEF SameBut, EntryOK
<1>4. keep \in BOOLEAN OBVIOUS
<1>5. Len(left) \in Nat /\ DOMAIN left = 1..Len(left) BY <1>0 DEF IsSeq
<1>6. IsSeq(s) /\ DOMAIN s = DOMAIN left
  <2> HIDE DEF left
  <2>1. DOMAIN s = 1..Len(left) /\ s = [i \in 1..Len(left) |-> s[i]] BY <1>5
  <2> HIDE DEF s
  <2> QED BY <2>1, <1>5, FunctionSeq
<1>7. ASSUME NEW i \in DOMAIN left
      PROVE  /\ left[i] \in Rows(g)
             /\ DOMAIN s[i] = DOMAIN left[i] /\ s[i].kind = left[i].kind /\ s[i].name = left[i].name
             /\ s[i].imports = left[i].imports /\ s[i].os = left[i].os
  <2>1. left[i] \in Rows(g)
    <3> HIDE DEF left
    <3> QED BY <1>0 DEF InSeq
  <2>2. {"kind", "name", "imports", "os", "fixes", "dated"} \subseteq DOMAIN left[i]
    BY <2>1 DEF EntryOK
  <2> HIDE DEF left
  <2> QED BY <2>1, <2>2
<1> HIDE DEF left, s, p
<1>8. \A q \in Rows(p) : \E r \in Rows(g) : DOMAIN q = DOMAIN r /\ q.kind = r.kind /\ q.os = r.os
  BY <1>3, <1>6, <1>7 DEF Rows
<1>9. EntryOK(p) BY <1>3, <1>4, <1>6, <1>8, SameButOK
<1>10. ASSUME NEW r \in Packages(g), ~Covered(r, g, hs)
       PROVE  p.supported /\ \E q \in Rows(p) : q.kind = r.kind /\ q.name = r.name /\ q.imports = r.imports
  <2>1. r \in InSeq(left) /\ r.kind = "package" BY <1>0, <1>10 DEF Packages, Gone
  <2>2. PICK i \in DOMAIN left : r = left[i] BY <2>1 DEF InSeq
  <2>3. s[i] \in Rows(p) BY <2>2, <1>3, <1>6 DEF Rows
  <2>4. p.supported BY <2>1, <2>2, <1>3
  <2> QED BY <2>2, <2>3, <2>4, <1>7
<1> QED BY <1>3, <1>9, <1>10 DEF p

LEMMA InputIs ==
  ASSUME input \in Inputs
  PROVE  /\ \A e \in InSeq(input) : EntryOK(e)
         /\ \A e, x \in InSeq(input) : e.key = x.key => e = x
         /\ IsSeq(input) /\ Distinct(input)
<1>1. \A i, j \in DOMAIN input : input[i].key = input[j].key => i = j BY FeedsAssumption
<1>2. \A e, x \in InSeq(input) : e.key = x.key => e = x BY <1>1 DEF InSeq
<1> QED BY <1>1, <1>2, BuildAssumption, FeedsAssumption DEF IsSeq, Distinct

LEMMA ReconcileIs ==
  ASSUME input \in Inputs, NEW hs, NEW gs, Held(hs, gs)
  PROVE  LET R == reconcile(hs, gs) IN
         /\ IsSeq(R) /\ Distinct(R)
         /\ \A e \in InSeq(R) :
              EntryOK(e) /\ \E x \in InSeq(hs) \cup InSeq(gs) : e.key = x.key /\ SameBut(e, x)
         /\ \A h \in InSeq(hs) : PatchedGHSA(h, gs, hs) \in InSeq(R)
         /\ \A g \in InSeq(gs) : PrunedGO(g, hs) \in InSeq(R)
<1> DEFINE H == [i \in DOMAIN hs |-> PatchedGHSA(hs[i], gs, hs)]
           G == [i \in DOMAIN gs |-> PrunedGO(gs[i], hs)]
           R == reconcile(hs, gs)
<1>0. /\ DOMAIN hs = 1..Len(hs) /\ Len(hs) \in Nat /\ DOMAIN gs = 1..Len(gs) /\ Len(gs) \in Nat
      /\ Distinct(hs) /\ Distinct(gs)
  BY DEF Held, IsSeq
<1>1. IsSeq(H) /\ Len(H) = Len(hs) /\ DOMAIN H = 1..Len(hs)
  <2>1. DOMAIN H = 1..Len(hs) /\ H = [i \in 1..Len(hs) |-> H[i]] BY <1>0
  <2> HIDE DEF H
  <2> QED BY <2>1, <1>0, FunctionSeq
<1>2. IsSeq(G) /\ Len(G) = Len(gs) /\ DOMAIN G = 1..Len(gs)
  <2>1. DOMAIN G = 1..Len(gs) /\ G = [i \in 1..Len(gs) |-> G[i]] BY <1>0
  <2> HIDE DEF G
  <2> QED BY <2>1, <1>0, FunctionSeq
<1>3. ASSUME NEW i \in DOMAIN hs
      PROVE  /\ hs[i] \in InSeq(hs) /\ hs[i] \in InSeq(input) /\ hs[i].kind = "ghsa"
             /\ H[i] = PatchedGHSA(hs[i], gs, hs) /\ EntryOK(H[i]) /\ SameBut(H[i], hs[i])
             /\ H[i].key = hs[i].key
  <2>1. hs[i] \in InSeq(hs) /\ hs[i] \in InSeq(input) /\ hs[i].kind = "ghsa" BY DEF Held, InSeq
  <2>2. H[i] = PatchedGHSA(hs[i], gs, hs) OBVIOUS
  <2>3. EntryOK(hs[i]) BY <2>1, InputIs
  <2> HIDE DEF H
  <2>4. EntryOK(H[i]) /\ SameBut(H[i], hs[i]) BY <2>2, <2>3, PatchedIs
  <2> QED BY <2>1, <2>2, <2>4 DEF SameBut
<1>4. ASSUME NEW i \in DOMAIN gs
      PROVE  /\ gs[i] \in InSeq(gs) /\ gs[i] \in InSeq(input) /\ gs[i].kind = "go"
             /\ G[i] = PrunedGO(gs[i], hs) /\ EntryOK(G[i]) /\ SameBut(G[i], gs[i])
             /\ G[i].key = gs[i].key
  <2>1. gs[i] \in InSeq(gs) /\ gs[i] \in InSeq(input) /\ gs[i].kind = "go" BY DEF Held, InSeq
  <2>2. G[i] = PrunedGO(gs[i], hs) OBVIOUS
  <2>3. EntryOK(gs[i]) BY <2>1, InputIs
  <2> HIDE DEF G
  <2>4. EntryOK(G[i]) /\ SameBut(G[i], gs[i]) BY <2>2, <2>3, PrunedIs
  <2> QED BY <2>1, <2>2, <2>4 DEF SameBut
<1>5. R = H \o G BY DEF reconcile
<1> HIDE DEF H, G, R
<1>6. IsSeq(R) /\ InSeq(R) = InSeq(H) \cup InSeq(G) BY <1>1, <1>2, <1>5, ConcatSeq
<1>7. /\ DOMAIN R = 1..(Len(hs) + Len(gs))
      /\ \A i \in DOMAIN hs : R[i] = H[i]
      /\ \A i \in DOMAIN gs : R[Len(hs) + i] = G[i]
  <2>1. H \in Seq(InSeq(H) \cup InSeq(G)) /\ G \in Seq(InSeq(H) \cup InSeq(G)) BY <1>1, <1>2 DEF IsSeq, InSeq
  <2>2. /\ DOMAIN (H \o G) = 1..(Len(H) + Len(G))
        /\ \A i \in 1..Len(H) : (H \o G)[i] = H[i]
        /\ \A i \in 1..Len(G) : (H \o G)[Len(H) + i] = G[i]
    BY <2>1
  <2> QED BY <2>2, <1>0, <1>1, <1>2, <1>5
<1>8. Distinct(R)
  <2>1. ASSUME NEW i \in DOMAIN R, NEW j \in DOMAIN R, R[i].key = R[j].key, i <= j
        PROVE  i = j
    <3>1. CASE j \in DOMAIN hs
      <4>1. i \in DOMAIN hs BY <2>1, <3>1, <1>0, <1>7
      <4>2. hs[i].key = hs[j].key BY <2>1, <4>1, <3>1, <1>3, <1>7
      <4> QED BY <4>1, <4>2, <3>1, <1>0 DEF Distinct
    <3>2. CASE i \notin DOMAIN hs
      <4>1. PICK a, b : a = i - Len(hs) /\ b = j - Len(hs) OBVIOUS
      <4>2. a \in DOMAIN gs /\ b \in DOMAIN gs /\ i = Len(hs) + a /\ j = Len(hs) + b
        BY <4>1, <2>1, <3>2, <1>0, <1>7
      <4>3. gs[a].key = gs[b].key BY <2>1, <4>2, <1>4, <1>7
      <4> QED BY <4>2, <4>3, <1>0 DEF Distinct
    <3>3. CASE i \in DOMAIN hs /\ j \notin DOMAIN hs
      <4>1. PICK b : b = j - Len(hs) OBVIOUS
      <4>2. b \in DOMAIN gs /\ j = Len(hs) + b BY <4>1, <3>3, <1>0, <1>7
      <4>3. hs[i].key = gs[b].key BY <4>2, <2>1, <3>3, <1>3, <1>4, <1>7
      <4>4. hs[i] = gs[b] BY <4>2, <4>3, <3>3, <1>3, <1>4, InputIs
      <4> QED BY <4>2, <4>4, <3>3, <1>3, <1>4
    <3> QED BY <3>1, <3>2, <3>3
  <2>2. \A i, j \in DOMAIN R : i <= j \/ j <= i BY <1>0, <1>7
  <2>3. \A i, j \in DOMAIN R : R[i].key = R[j].key => i = j BY <2>1, <2>2
  <2> QED BY <2>3 DEF Distinct
<1>9. ASSUME NEW e \in InSeq(R)
      PROVE  EntryOK(e) /\ \E x \in InSeq(hs) \cup InSeq(gs) : e.key = x.key /\ SameBut(e, x)
  <2>1. CASE e \in InSeq(H)
    <3>1. PICK i \in DOMAIN hs : e = H[i] BY <2>1, <1>0, <1>1 DEF InSeq
    <3> QED BY <3>1, <1>3
  <2>2. CASE e \in InSeq(G)
    <3>1. PICK i \in DOMAIN gs : e = G[i] BY <2>2, <1>0, <1>2 DEF InSeq
    <3> QED BY <3>1, <1>4
  <2> QED BY <2>1, <2>2, <1>6
<1>10. \A h \in InSeq(hs) : PatchedGHSA(h, gs, hs) \in InSeq(H) BY <1>0, <1>1, <1>3 DEF InSeq
<1>11. \A g \in InSeq(gs) : PrunedGO(g, hs) \in InSeq(G) BY <1>0, <1>2, <1>4 DEF InSeq
<1> QED BY <1>6, <1>8, <1>9, <1>10, <1>11 DEF R

(***************************************************************************)
(* The steps of the invariant.                                             *)
(***************************************************************************)
LEMMA SamePlaces ==
  ASSUME ContentInv, pc # "failed", UNCHANGED <<input, reading>>, CurOK', Reading' <=> Reading,
         \A k : Fresh(k) => Fresh(k)',
         \A e : EntryOK(e) /\ Taken(e) => Taken(e)',
         pc' \in {"finish", "done"} \/ LastFlush' =>
           pc \in {"finish", "done"} \/ LastFlush \/ queue = <<>>,
         pc' \in {"finish", "done"} =>
           \/ pc \in {"finish", "done"} /\ UNCHANGED <<parents, children>>
           \/ parents' = <<>> /\ children' = <<>>
  PROVE  ContentInv'
<1> USE DEF reading
<1>1. input \in Inputs /\ input' \in Inputs BY DEF ContentInv
<1>2. PICK hs, gs : Content(hs, gs) BY DEF ContentInv
<1>3. Held(hs, gs)' BY <1>2 DEF Content, Held
<1>4. ToRead(hs, gs)' BY <1>2 DEF Content, ToRead
<1>5. Everywhere(hs, gs)'
  <2>1. ASSUME NEW e \in InSeq(input), e.supported
        PROVE  e \in InSeq(todo) \/ e \in InSeq(hs) \/ e \in InSeq(gs) \/ (e.kind # "go" /\ Taken(e)')
    <3>1. e \in InSeq(todo) \/ e \in InSeq(hs) \/ e \in InSeq(gs) \/ (e.kind # "go" /\ Taken(e))
      BY <2>1, <1>2 DEF Content, Everywhere
    <3>2. EntryOK(e) BY <1>1, InputIs
    <3> QED BY <3>1, <3>2
  <2>2. ASSUME NEW e \in InSeq(input), ~e.supported PROVE Fresh(e.key)'
    BY <2>2, <1>2 DEF Content, Everywhere
  <2> QED BY <2>1, <2>2 DEF Everywhere
<1>6. CASE Reading
  <2>1. WhileReading(hs, gs)' BY <1>2, <1>6 DEF Content, WhileReading
  <2>2. Content(hs, gs)' BY <2>1, <1>3, <1>4, <1>5, <1>6 DEF Content
  <2> QED BY <2>2, <1>1 DEF ContentInv
<1>7. CASE ~Reading
  <2>1. WhileClosing(hs, gs) BY <1>2, <1>7 DEF Content
  <2>2. Held(hs, gs) BY <1>2 DEF Content
  <2>3. /\ (todo = <<>>)' /\ Distinct(queue)' /\ (InSeq(queue) \subseteq InSeq(reconcile(hs, gs)))'
        /\ \A e \in InSeq(queue)' : Fresh(e.key)'
    BY <2>1 DEF WhileClosing
  <2>4. ASSUME NEW e \in InSeq(reconcile(hs, gs)), e \notin InSeq(queue)
        PROVE  IF e.supported THEN Taken(e)' ELSE Fresh(e.key)'
    <3>1. EntryOK(e) BY <2>2, <1>1, ReconcileIs
    <3>2. IF e.supported THEN Taken(e) ELSE Fresh(e.key) BY <2>1, <2>4 DEF WhileClosing
    <3> QED BY <3>1, <3>2
  <2>5. pc' \in {"finish", "done"} \/ LastFlush' => queue' = <<>> BY <2>1 DEF WhileClosing
  <2>6. pc' \in {"finish", "done"} => parents' = <<>> /\ children' = <<>> BY <2>1 DEF WhileClosing
  <2>7. WhileClosing(hs, gs)' BY <2>3, <2>4, <2>5, <2>6 DEF WhileClosing
  <2>8. Content(hs, gs)' BY <2>7, <1>3, <1>4, <1>5, <1>7 DEF Content
  <2> QED BY <2>8, <1>1 DEF ContentInv
<1> QED BY <1>6, <1>7

LEMMA EngineContent ==
  ASSUME IInv, ContentInv, pc # "failed",
         AddParent \/ AddChild \/ FlushParent \/ FlushParentsEnd \/ FlushChild \/ FlushChildrenEnd
  PROVE  ContentInv'
<1>0. CurOK BY DEF ContentInv
<1>1. /\ (Reading' <=> Reading) /\ UNCHANGED <<input, reading, cur>> /\ pc' # "done"
      /\ pc' = "finish" \/ LastFlush' => LastFlush
      /\ pc' = "finish" => FlushChildrenEnd
  BY ControlMoves
<1>2. /\ CurOK'
      /\ \A k : Fresh(k) => Fresh(k)'
      /\ \A e : EntryOK(e) /\ Taken(e) => Taken(e)'
  BY <1>0, EngineStep
<1>3. FlushChildrenEnd => parents' = <<>> /\ children' = <<>>
  BY DEF FlushChildrenEnd, IInv, ControlOK
<1> QED BY <1>1, <1>2, <1>3, SamePlaces

(* Steps that leave the buffers and the tables alone, between flushes.     *)
LEMMA Quiet ==
  ASSUME IInv, pos = 0, UNCHANGED buffers
  PROVE  /\ \A k : Untouched(k) => Untouched(k)'
         /\ \A e : Single(e) => Single(e)'
         /\ \A e, b, o : Progress(e, b, o) => Progress(e, b, o)'
         /\ \A e : Complete(e) => Complete(e)'
<1> USE DEF buffers, store
<1>1. DOMAIN parents \subseteq Nat \ {0} /\ DOMAIN children \subseteq Nat \ {0} BY DEF IInv, BuffersOK, IsSeq
<1>2. SameParents BY <1>1 DEF SameParents, UnrunP
<1>3. SameChildren BY <1>1 DEF SameChildren, UnrunC
<1>4. \A k : Untouched(k) => Untouched(k)' BY DEF Untouched
<1>5. \A e : Single(e) => Single(e)' BY <1>2, SingleStays
<1>6. \A e, b, o : Progress(e, b, o) => Progress(e, b, o)' BY <1>3, ProgressStays
<1>7. \A e : Complete(e) => Complete(e)' BY <1>5, <1>6 DEF Complete, Begun
<1> QED BY <1>4, <1>5, <1>6, <1>7

LEMMA MoveContent ==
  ASSUME IInv, ContentInv, EntryDone \/ CloseFlush \/ Finish
  PROVE  ContentInv'
<1> USE DEF reading, writing, fixed
<1>0. pc \in {"write", "close", "finish"} /\ UNCHANGED <<input, reading, writing, buffers>>
  BY DEF EntryDone, CloseFlush, Finish
<1>1. pos = 0 BY <1>0 DEF IInv, ControlOK
<1>2. /\ \A k : Untouched(k) => Untouched(k)'
      /\ \A e : Complete(e) => Complete(e)'
  BY <1>0, <1>1, Quiet
<1>3. CurOK BY <1>0 DEF ContentInv
<1>4. UNCHANGED <<parents, children>> BY <1>0 DEF buffers
<1>5. CASE EntryDone
  <2>1. pc = "write" /\ pc' = Head(then) /\ then \in {<<"read">>, <<"close">>}
        /\ next = Len(cur.related) + 1
    BY <1>5 DEF EntryDone, IInv, ControlOK
  <2>2. Writing BY <2>1 DEF Writing
  <2>3. /\ ~Writing' /\ (Reading' <=> Reading) /\ ~LastFlush' /\ pc' \notin {"finish", "done"}
    <3>1. then' = Tail(then) BY <1>5 DEF EntryDone
    <3>2. Tail(<<"read">>) = <<>> /\ Tail(<<"close">>) = <<>> OBVIOUS
    <3>3. CASE then = <<"read">> BY <3>1, <3>2, <3>3, <2>1, Tuples DEF Writing, Reading, LastFlush
    <3>4. CASE then = <<"close">> BY <3>1, <3>2, <3>4, <2>1, Tuples DEF Writing, Reading, LastFlush
    <3> QED BY <3>3, <3>4, <2>1
  <2>4. Complete(cur)
    <3>1. EntryOK(cur) /\ Len(cur.related) \in Nat BY <2>2, <1>3, RelatedSeq DEF CurOK
    <3>2. next # 0 /\ next - 1 = Len(cur.related) BY <3>1, <2>1
    <3>3. Single(cur) /\ Progress(cur, next - 1, Len(children) - (next - 1))
      BY <3>2, <2>2, <1>3 DEF CurOK
    <3>4. Len(children) - (next - 1) \in Int BY <3>1, <3>2 DEF IInv, BuffersOK, IsSeq
    <3> QED BY <3>2, <3>3, <3>4 DEF Complete, Begun
  <2>5. CurOK' BY <2>3 DEF CurOK
  <2>6. \A k : Fresh(k) => Fresh(k)' BY <2>3, <1>2 DEF Fresh
  <2>7. \A e : Taken(e) => Taken(e)'
    <3>1. \A e : Taken(e) => Complete(e) BY <2>4 DEF Taken
    <3> QED BY <3>1, <2>3, <1>2 DEF Taken
  <2> QED BY <2>1, <2>3, <2>5, <2>6, <2>7, <1>0, SamePlaces
<1>6. CASE CloseFlush \/ Finish
  <2>1. /\ ~Writing /\ ~Writing' /\ ~Reading /\ ~Reading'
        /\ pc' \in {"finish", "done"} => pc = "finish"
        /\ LastFlush' => pc = "finish" \/ queue = <<>>
    BY <1>6, Tuples DEF CloseFlush, Finish, Writing, Reading
  <2>2. CurOK' BY <2>1 DEF CurOK
  <2>3. \A k : Fresh(k) => Fresh(k)' BY <2>1, <1>2 DEF Fresh
  <2>4. \A e : Taken(e) => Taken(e)' BY <2>1, <1>2 DEF Taken
  <2> QED BY <2>1, <2>2, <2>3, <2>4, <1>0, <1>4, SamePlaces
<1> QED BY <1>5, <1>6

LEMMA TailDistinct ==
  ASSUME NEW s, IsSeq(s), s # <<>>, Distinct(s)
  PROVE  /\ Distinct(Tail(s)) /\ IsSeq(Tail(s))
         /\ \A e \in InSeq(Tail(s)) : e.key # Head(s).key
         /\ \A e : e \in InSeq(s) <=> e = Head(s) \/ e \in InSeq(Tail(s))
<1>1. /\ Len(s) \in Nat /\ Len(s) > 0 /\ DOMAIN s = 1..Len(s)
      /\ Head(s) = s[1]
      /\ DOMAIN Tail(s) = 1..(Len(s) - 1)
      /\ \A i \in 1..(Len(s) - 1) : Tail(s)[i] = s[i + 1]
  BY DEF IsSeq
<1>2. Distinct(Tail(s))
  <2>1. ASSUME NEW i \in DOMAIN Tail(s), NEW j \in DOMAIN Tail(s), Tail(s)[i].key = Tail(s)[j].key
        PROVE  i = j
    <3>1. s[i + 1].key = s[j + 1].key /\ i + 1 \in DOMAIN s /\ j + 1 \in DOMAIN s BY <2>1, <1>1
    <3>2. i + 1 = j + 1 BY <3>1 DEF Distinct
    <3> QED BY <3>2, <1>1
  <2> QED BY <2>1 DEF Distinct
<1>3. ASSUME NEW e \in InSeq(Tail(s)) PROVE e.key # Head(s).key
  <2>1. PICK i \in 1..(Len(s) - 1) : e = s[i + 1] BY <1>1 DEF InSeq
  <2>2. i + 1 \in DOMAIN s /\ 1 \in DOMAIN s /\ i + 1 # 1 BY <1>1
  <2> QED BY <2>1, <2>2, <1>1 DEF Distinct
<1>4. ASSUME NEW e \in InSeq(s) PROVE e = Head(s) \/ e \in InSeq(Tail(s))
  <2>1. PICK i \in DOMAIN s : e = s[i] BY DEF InSeq
  <2>2. CASE i = 1 BY <2>1, <2>2, <1>1
  <2>3. CASE i # 1
    <3>1. i - 1 \in 1..(Len(s) - 1) /\ (i - 1) + 1 = i BY <2>3, <1>1
    <3>2. Tail(s)[i - 1] = e BY <3>1, <2>1, <1>1
    <3> QED BY <3>1, <3>2, <1>1 DEF InSeq
  <2> QED BY <2>2, <2>3
<1>5. \A e : e = Head(s) \/ e \in InSeq(Tail(s)) => e \in InSeq(s) BY TailSeq
<1> QED BY <1>2, <1>3, <1>4, <1>5, TailSeq

(* One more entry is held.                                                 *)
LEMMA AppendDistinct ==
  ASSUME NEW s, IsSeq(s), Distinct(s), NEW x, \A e \in InSeq(s) : e.key # x.key
  PROVE  Distinct(Append(s, x))
<1>1. PICK n : n = Len(s) + 1 OBVIOUS
<1>2. /\ Len(s) \in Nat /\ DOMAIN s = 1..Len(s) /\ DOMAIN Append(s, x) = 1..n
      /\ \A i \in DOMAIN s : Append(s, x)[i] = s[i]
      /\ Append(s, x)[n] = x
  BY <1>1, AppendSeq
<1>3. \A i : i \in 1..n <=> i \in DOMAIN s \/ i = n BY <1>1, <1>2
<1>4. \A i \in DOMAIN s : s[i].key # x.key BY DEF InSeq
<1> QED BY <1>2, <1>3, <1>4 DEF Distinct

LEMMA ReadContent ==
  ASSUME IInv, ContentInv, DropRecord \/ HoldEntry
  PROVE  ContentInv'
<1> USE DEF writing, fixed
<1>0. /\ pc = "read" /\ pc' = pc /\ todo # <<>> /\ todo' = Tail(todo) /\ IsSeq(todo)
      /\ UNCHANGED <<input, writing, buffers>>
  BY DEF DropRecord, HoldEntry, IInv, EntriesOK
<1>1. pos = 0 BY <1>0 DEF IInv, ControlOK
<1>2. /\ \A k : Untouched(k) => Untouched(k)'
      /\ \A e : Complete(e) => Complete(e)'
  BY <1>0, <1>1, Quiet
<1>3. ~Writing /\ ~Writing' /\ Reading /\ Reading' BY <1>0 DEF Writing, Reading
<1>4. \A k : Fresh(k) => Fresh(k)' BY <1>2, <1>3 DEF Fresh
<1>5. \A e : Taken(e) => Taken(e)' BY <1>2, <1>3 DEF Taken
<1>6. CurOK' BY <1>3 DEF CurOK
<1>7. input \in Inputs /\ input' \in Inputs BY <1>0 DEF ContentInv
<1>8. PICK hs, gs : Content(hs, gs) BY <1>0 DEF ContentInv
<1>9. Held(hs, gs) /\ ToRead(hs, gs) /\ Everywhere(hs, gs) /\ WhileReading(hs, gs)
  BY <1>3, <1>8 DEF Content
<1>10. PICK x : x = Head(todo) OBVIOUS
<1>11. /\ Distinct(todo') /\ \A e \in InSeq(todo') : e.key # x.key
       /\ \A e : e \in InSeq(todo) <=> e = x \/ e \in InSeq(todo')
  BY <1>0, <1>9, <1>10, TailDistinct DEF ToRead
<1>12. x \in InSeq(input) /\ Fresh(x.key) /\ x \notin InSeq(hs) \cup InSeq(gs)
  BY <1>9, <1>11 DEF ToRead
<1>13. \A e \in InSeq(hs) \cup InSeq(gs) : e \in InSeq(input) /\ e.key # x.key
  BY <1>7, <1>9, <1>12, InputIs DEF Held
<1>14. InSeq(todo') \subseteq InSeq(input) /\ \A e \in InSeq(todo') : Fresh(e.key)' /\ e # x
  BY <1>4, <1>9, <1>11 DEF ToRead
<1>15. ASSUME NEW hs2, NEW gs2, Held(hs2, gs2),
              ghsas' = hs2, gos' = gs2,
              \A e : e \in InSeq(hs2) \cup InSeq(gs2) => e = x \/ e \in InSeq(hs) \cup InSeq(gs),
              InSeq(hs) \subseteq InSeq(hs2), InSeq(gs) \subseteq InSeq(gs2),
              x.supported => x \in InSeq(hs2) \cup InSeq(gs2)
       PROVE  ContentInv'
  <2>1. Held(hs2, gs2)' BY <1>0, <1>15 DEF Held
  <2>2. ToRead(hs2, gs2)'
    <3>1. \A e \in InSeq(todo') : e \notin InSeq(hs2) \cup InSeq(gs2) BY <1>9, <1>11, <1>14, <1>15 DEF ToRead
    <3> QED BY <3>1, <1>0, <1>11, <1>14 DEF ToRead
  <2>3. Everywhere(hs2, gs2)'
    <3>1. ASSUME NEW e \in InSeq(input), e.supported
          PROVE  e \in InSeq(todo') \/ e \in InSeq(hs2) \/ e \in InSeq(gs2) \/ (e.kind # "go" /\ Taken(e)')
      <4>1. e \in InSeq(todo) \/ e \in InSeq(hs) \/ e \in InSeq(gs) \/ (e.kind # "go" /\ Taken(e))
        BY <3>1, <1>9 DEF Everywhere
      <4> QED BY <4>1, <3>1, <1>5, <1>11, <1>15
    <3>2. ASSUME NEW e \in InSeq(input), ~e.supported PROVE Fresh(e.key)'
      BY <3>2, <1>4, <1>9 DEF Everywhere
    <3> QED BY <3>1, <3>2, <1>0 DEF Everywhere
  <2>4. WhileReading(hs2, gs2)' BY <1>4, <1>9, <1>12, <1>15 DEF WhileReading
  <2>5. Content(hs2, gs2)' BY <2>1, <2>2, <2>3, <2>4, <1>3 DEF Content
  <2> QED BY <2>5, <1>6, <1>7 DEF ContentInv
<1>16. IsSeq(hs) /\ IsSeq(gs) /\ Distinct(hs) /\ Distinct(gs) /\ ghsas = hs /\ gos = gs
  BY <1>9 DEF Held, WhileReading
<1>17. CASE DropRecord
  <2>1. ~x.supported /\ UNCHANGED <<ghsas, gos>> BY <1>10, <1>17 DEF DropRecord
  <2> QED BY <2>1, <1>9, <1>15, <1>16
<1>18. CASE HoldEntry
  <2>1. x.supported /\ x.kind \in {"go", "ghsa"} BY <1>10, <1>18 DEF HoldEntry, Holds
  <2>2. CASE x.kind = "go"
    <3>1. PICK n : n = Append(gs, x) OBVIOUS
    <3>2. ghsas' = hs /\ gos' = n BY <2>2, <3>1, <1>10, <1>16, <1>18 DEF HoldEntry
    <3>3. IsSeq(n) /\ InSeq(n) = InSeq(gs) \cup {x} BY <3>1, <1>16, AppendSeq
    <3>4. Distinct(n) BY <3>1, <1>13, <1>16, AppendDistinct
    <3>5. Held(hs, n) BY <2>1, <2>2, <3>3, <3>4, <1>9, <1>12 DEF Held
    <3> QED BY <3>2, <3>3, <3>5, <1>15
  <2>3. CASE x.kind = "ghsa"
    <3>1. PICK n : n = Append(hs, x) OBVIOUS
    <3>2. ghsas' = n /\ gos' = gs BY <2>3, <3>1, <1>10, <1>16, <1>18 DEF HoldEntry
    <3>3. IsSeq(n) /\ InSeq(n) = InSeq(hs) \cup {x} BY <3>1, <1>16, AppendSeq
    <3>4. Distinct(n) BY <3>1, <1>13, <1>16, AppendDistinct
    <3>5. Held(n, gs) BY <2>1, <2>3, <3>3, <3>4, <1>9, <1>12 DEF Held
    <3> QED BY <3>2, <3>3, <3>5, <1>15
  <2> QED BY <2>1, <2>2, <2>3
<1> QED BY <1>17, <1>18

LEMMA StartContent ==
  ASSUME IInv, ContentInv, StartEntry
  PROVE  ContentInv'
<1> USE DEF writing, fixed
<1>0. /\ pc = "read" /\ todo # <<>> /\ todo' = Tail(todo) /\ IsSeq(todo)
      /\ UNCHANGED <<input, ghsas, gos, buffers>> /\ cur' = Head(todo) /\ next' = 0
      /\ pc' = "write" /\ then' = <<"read">>
      /\ Head(todo).supported /\ ~Holds(Head(todo))
  BY DEF StartEntry, IInv, EntriesOK
<1>1. pos = 0 BY <1>0 DEF IInv, ControlOK
<1>2. /\ \A k : Untouched(k) => Untouched(k)'
      /\ \A e : Complete(e) => Complete(e)'
  BY <1>0, <1>1, Quiet
<1>3. ~Writing /\ Writing' /\ Reading /\ Reading' BY <1>0 DEF Writing, Reading
<1>4. input \in Inputs /\ input' \in Inputs BY <1>0 DEF ContentInv
<1>5. PICK hs, gs : Content(hs, gs) BY <1>0 DEF ContentInv
<1>6. Held(hs, gs) /\ ToRead(hs, gs) /\ Everywhere(hs, gs) /\ WhileReading(hs, gs)
  BY <1>3, <1>5 DEF Content
<1>7. PICK x : x = Head(todo) OBVIOUS
<1>8. /\ Distinct(todo') /\ \A e \in InSeq(todo') : e.key # x.key
      /\ \A e : e \in InSeq(todo) <=> e = x \/ e \in InSeq(todo')
  BY <1>0, <1>6, <1>7, TailDistinct DEF ToRead
<1>9. x \in InSeq(input) /\ Fresh(x.key) /\ x \notin InSeq(hs) \cup InSeq(gs) /\ EntryOK(x)
  BY <1>4, <1>6, <1>8, InputIs DEF ToRead
<1>10. x.supported /\ x.kind # "go" BY <1>0, <1>7, <1>9 DEF Holds, EntryOK
<1>11. \A e \in InSeq(hs) \cup InSeq(gs) : e \in InSeq(input) /\ e.key # x.key
  BY <1>4, <1>6, <1>9, InputIs DEF Held
<1>12. \A k : k # x.key /\ Fresh(k) => Fresh(k)' BY <1>0, <1>2, <1>3, <1>7 DEF Fresh
<1>13. \A e \in InSeq(input) : e = x \/ Taken(e) => Taken(e)'
  <2>1. ASSUME NEW e \in InSeq(input), e = x \/ Taken(e) PROVE Taken(e)'
    <3>1. CASE e.key = x.key
      <4>1. e = x BY <3>1, <1>4, <1>9, InputIs
      <4> QED BY <4>1, <1>0, <1>3, <1>7 DEF Taken
    <3>2. CASE e.key # x.key
      <4>1. Complete(e) BY <2>1, <3>2, <1>3 DEF Taken
      <4> QED BY <4>1, <3>2, <1>0, <1>2, <1>3, <1>7 DEF Taken
    <3> QED BY <3>1, <3>2
  <2> QED BY <2>1
<1>14. CurOK'
  <2>1. Untouched(x.key)' BY <1>2, <1>9 DEF Fresh
  <2>2. cur' = x /\ next' = 0 BY <1>0, <1>7
  <2>3. Untouched(cur.key)' BY <2>1, <2>2 DEF Untouched
  <2>4. Len(x.related) \in Nat BY <1>9, RelatedSeq
  <2> QED BY <2>2, <2>3, <2>4, <1>9, <1>10 DEF CurOK
<1>15. Held(hs, gs)' BY <1>0, <1>6 DEF Held
<1>16. ToRead(hs, gs)' BY <1>0, <1>6, <1>8, <1>12 DEF ToRead
<1>17. Everywhere(hs, gs)'
  <2>1. ASSUME NEW e \in InSeq(input), e.supported
        PROVE  e \in InSeq(todo') \/ e \in InSeq(hs) \/ e \in InSeq(gs) \/ (e.kind # "go" /\ Taken(e)')
    <3>1. e \in InSeq(todo) \/ e \in InSeq(hs) \/ e \in InSeq(gs) \/ (e.kind # "go" /\ Taken(e))
      BY <2>1, <1>6 DEF Everywhere
    <3> QED BY <3>1, <1>8, <1>10, <1>13
  <2>2. ASSUME NEW e \in InSeq(input), ~e.supported PROVE Fresh(e.key)'
    <3>1. e.key # x.key BY <2>2, <1>4, <1>9, <1>10, InputIs
    <3> QED BY <3>1, <2>2, <1>6, <1>12 DEF Everywhere
  <2> QED BY <2>1, <2>2, <1>0 DEF Everywhere
<1>18. WhileReading(hs, gs)' BY <1>0, <1>6, <1>11, <1>12 DEF WhileReading
<1>19. Content(hs, gs)' BY <1>3, <1>15, <1>16, <1>17, <1>18 DEF Content
<1> QED BY <1>4, <1>14, <1>19 DEF ContentInv

LEMMA ReconcileContent ==
  ASSUME IInv, ContentInv, Reconcile
  PROVE  ContentInv'
<1> USE DEF writing, fixed
<1>0. /\ pc = "read" /\ todo = <<>> /\ todo' = <<>> /\ queue' = reconcile(ghsas, gos) /\ pc' = "close"
      /\ UNCHANGED <<input, buffers>>
  BY DEF Reconcile
<1>1. pos = 0 BY <1>0 DEF IInv, ControlOK
<1>2. /\ \A k : Untouched(k) => Untouched(k)'
      /\ \A e : Complete(e) => Complete(e)'
  BY <1>0, <1>1, Quiet
<1>3. ~Writing /\ ~Writing' /\ Reading /\ ~Reading' /\ ~LastFlush'
  BY <1>0 DEF Writing, Reading, LastFlush
<1>4. \A k : Fresh(k) => Fresh(k)' BY <1>2, <1>3 DEF Fresh
<1>5. \A e : Taken(e) => Taken(e)' BY <1>2, <1>3 DEF Taken
<1>6. CurOK' BY <1>3 DEF CurOK
<1>7. input \in Inputs /\ input' \in Inputs BY <1>0 DEF ContentInv
<1>8. PICK hs, gs : Content(hs, gs) BY <1>0 DEF ContentInv
<1>9. Held(hs, gs) /\ ToRead(hs, gs) /\ Everywhere(hs, gs) /\ WhileReading(hs, gs)
  BY <1>3, <1>8 DEF Content
<1>10. queue' = reconcile(hs, gs) BY <1>0, <1>9 DEF WhileReading
<1>11. /\ Distinct(reconcile(hs, gs))
       /\ \A e \in InSeq(reconcile(hs, gs)) : \E x \in InSeq(hs) \cup InSeq(gs) : e.key = x.key
  BY <1>7, <1>9, ReconcileIs
<1>12. \A e \in InSeq(reconcile(hs, gs)) : Fresh(e.key)' BY <1>4, <1>9, <1>11 DEF WhileReading
<1>13. Held(hs, gs)' BY <1>0, <1>9 DEF Held
<1>14. ToRead(hs, gs)' BY <1>0, <1>4, <1>9 DEF ToRead
<1>15. Everywhere(hs, gs)' BY <1>0, <1>4, <1>5, <1>9 DEF Everywhere
<1>16. WhileClosing(hs, gs)' BY <1>0, <1>3, <1>10, <1>11, <1>12 DEF WhileClosing
<1>17. Content(hs, gs)' BY <1>3, <1>13, <1>14, <1>15, <1>16 DEF Content
<1> QED BY <1>6, <1>7, <1>17 DEF ContentInv

LEMMA NextHeldContent ==
  ASSUME IInv, ContentInv, NextHeld
  PROVE  ContentInv'
<1> USE DEF writing, fixed
<1>0. /\ pc = "close" /\ queue # <<>> /\ queue' = Tail(queue) /\ IsSeq(queue)
      /\ UNCHANGED <<input, todo, ghsas, gos, buffers>>
      /\ IF Head(queue).supported
         THEN cur' = Head(queue) /\ next' = 0 /\ pc' = "write" /\ then' = <<"close">>
         ELSE UNCHANGED <<cur, next, pc, then>>
  BY DEF NextHeld, IInv, EntriesOK
<1>1. pos = 0 BY <1>0 DEF IInv, ControlOK
<1>2. /\ \A k : Untouched(k) => Untouched(k)'
      /\ \A e : Complete(e) => Complete(e)'
  BY <1>0, <1>1, Quiet
<1>3. ~Writing /\ ~Reading /\ ~Reading' /\ ~LastFlush' /\ pc' \notin {"finish", "done"}
  <2>1. <<"close">> # <<"read">> BY Tuples
  <2> QED BY <2>1, <1>0 DEF Writing, Reading, LastFlush
<1>4. input \in Inputs /\ input' \in Inputs BY <1>0 DEF ContentInv
<1>5. PICK hs, gs : Content(hs, gs) BY <1>0 DEF ContentInv
<1>6. Held(hs, gs) /\ ToRead(hs, gs) /\ Everywhere(hs, gs) /\ WhileClosing(hs, gs)
  BY <1>3, <1>5 DEF Content
<1>7. PICK x, R : x = Head(queue) /\ R = reconcile(hs, gs) OBVIOUS
<1>8. /\ Distinct(queue') /\ \A e \in InSeq(queue') : e.key # x.key
      /\ \A e : e \in InSeq(queue) <=> e = x \/ e \in InSeq(queue')
  BY <1>0, <1>6, <1>7, TailDistinct DEF WhileClosing
<1>9. /\ IsSeq(R) /\ Distinct(R)
      /\ \A e \in InSeq(R) : EntryOK(e) /\ \E y \in InSeq(hs) \cup InSeq(gs) : e.key = y.key
  BY <1>4, <1>6, <1>7, ReconcileIs
<1>10. \A e, y \in InSeq(R) : e.key = y.key => e = y BY <1>9 DEF Distinct, InSeq
<1>11. x \in InSeq(R) /\ Fresh(x.key) BY <1>6, <1>7, <1>8 DEF WhileClosing
<1>12. PICK y \in InSeq(hs) \cup InSeq(gs) : x.key = y.key BY <1>9, <1>11
<1>13. y \in InSeq(input) /\ y.supported BY <1>6, <1>12 DEF Held
<1>14. Writing' => x.supported /\ cur' = x /\ next' = 0
  BY <1>0, <1>3, <1>7 DEF Writing
<1>15. \A k : (k # x.key \/ ~Writing') /\ Fresh(k) => Fresh(k)' BY <1>2, <1>3, <1>14 DEF Fresh
<1>16. \A e : e.key # x.key \/ ~Writing' => (Taken(e) => Taken(e)') BY <1>2, <1>3, <1>14 DEF Taken
<1>17. CurOK'
  <2> SUFFICES ASSUME Writing' PROVE CurOK' BY DEF CurOK
  <2>1. Untouched(x.key)' BY <1>2, <1>11 DEF Fresh
  <2>2. cur' = x /\ next' = 0 BY <1>14
  <2>3. Untouched(cur.key)' BY <2>1, <2>2 DEF Untouched
  <2>4. EntryOK(x) /\ Len(x.related) \in Nat BY <1>9, <1>11, RelatedSeq
  <2> QED BY <2>2, <2>3, <2>4, <1>14 DEF CurOK
<1>18. Held(hs, gs)' BY <1>0, <1>6 DEF Held
<1>19. ToRead(hs, gs)'
  <2>1. todo = <<>> /\ InSeq(todo) = {} BY <1>6, NoElements DEF WhileClosing
  <2> QED BY <2>1, <1>0, <1>6 DEF ToRead
<1>20. Everywhere(hs, gs)'
  <2>1. ASSUME NEW e \in InSeq(input), e.supported
        PROVE  e \in InSeq(todo) \/ e \in InSeq(hs) \/ e \in InSeq(gs) \/ (e.kind # "go" /\ Taken(e)')
    <3>1. e \in InSeq(todo) \/ e \in InSeq(hs) \/ e \in InSeq(gs) \/ (e.kind # "go" /\ Taken(e))
      BY <2>1, <1>6 DEF Everywhere
    <3>2. e.key = x.key => e \in InSeq(hs) \cup InSeq(gs) BY <1>4, <1>12, <1>13, InputIs
    <3> QED BY <3>1, <3>2, <1>16
  <2>2. ASSUME NEW e \in InSeq(input), ~e.supported PROVE Fresh(e.key)'
    <3>1. e.key # x.key BY <2>2, <1>4, <1>12, <1>13, InputIs
    <3> QED BY <3>1, <2>2, <1>6, <1>15 DEF Everywhere
  <2> QED BY <2>1, <2>2, <1>0 DEF Everywhere
<1>21. ASSUME NEW e \in InSeq(R), e \notin InSeq(queue')
       PROVE  IF e.supported THEN Taken(e)' ELSE Fresh(e.key)'
  <2>1. CASE e = x
    <3>1. CASE x.supported
      <4>1. Writing' /\ cur' = x BY <3>1, <1>0, <1>7 DEF Writing
      <4> QED BY <4>1, <3>1, <2>1 DEF Taken
    <3>2. CASE ~x.supported BY <3>2, <2>1, <1>11, <1>14, <1>15
    <3> QED BY <3>1, <3>2
  <2>2. CASE e # x
    <3>1. e.key # x.key BY <2>2, <1>10, <1>11
    <3>2. e \notin InSeq(queue) BY <2>2, <1>8, <1>21
    <3>3. IF e.supported THEN Taken(e) ELSE Fresh(e.key) BY <3>2, <1>6, <1>7 DEF WhileClosing
    <3> QED BY <3>1, <3>3, <1>15, <1>16
  <2> QED BY <2>1, <2>2
<1>22. WhileClosing(hs, gs)'
  <2>1. (InSeq(queue) \subseteq InSeq(reconcile(hs, gs)))' BY <1>6, <1>8 DEF WhileClosing
  <2>2. \A e \in InSeq(queue') : Fresh(e.key)' BY <1>6, <1>8, <1>15 DEF WhileClosing
  <2>3. todo' = <<>> BY <1>0, <1>6 DEF WhileClosing
  <2> QED BY <2>1, <2>2, <2>3, <1>3, <1>7, <1>8, <1>21 DEF WhileClosing
<1>23. Content(hs, gs)' BY <1>3, <1>18, <1>19, <1>20, <1>22 DEF Content
<1> QED BY <1>4, <1>17, <1>23 DEF ContentInv

LEMMA InitContent == Init => ContentInv
<1> SUFFICES ASSUME Init PROVE ContentInv OBVIOUS
<1>0. /\ pc = "read" /\ input \in Inputs /\ todo = input /\ ghsas = <<>> /\ gos = <<>>
      /\ parents = <<>> /\ children = <<>> /\ vulns = <<>> /\ rows = <<>>
  BY DEF Init
<1>1. ~Writing /\ Reading BY <1>0 DEF Writing, Reading
<1>2. \A k : Fresh(k) BY <1>0, <1>1, NoElements DEF Fresh, Untouched
<1>3. PICK n : n = <<>> OBVIOUS
<1>4. IsSeq(n) /\ InSeq(n) = {} /\ DOMAIN n = {} BY <1>3, NoElements
<1>5. Held(n, n) BY <1>4 DEF Held, Distinct
<1>6. ToRead(n, n) BY <1>0, <1>2, <1>4, InputIs DEF ToRead
<1>7. Everywhere(n, n) BY <1>0, <1>2 DEF Everywhere
<1>8. WhileReading(n, n) BY <1>0, <1>3, <1>4 DEF WhileReading
<1>9. Content(n, n) BY <1>1, <1>5, <1>6, <1>7, <1>8 DEF Content
<1> QED BY <1>0, <1>1, <1>9 DEF ContentInv, CurOK

LEMMA StutterContent ==
  ASSUME ContentInv, UNCHANGED vars
  PROVE  ContentInv'
<1> USE DEF vars
<1>1. CASE pc = "failed" BY <1>1 DEF ContentInv
<1>2. CASE pc # "failed"
  <2>1. /\ SameParents /\ SameChildren BY DEF SameParents, SameChildren, UnrunP, UnrunC
  <2>2. /\ \A e : Single(e) => Single(e)'
        /\ \A e, b, o : Progress(e, b, o) => Progress(e, b, o)'
        /\ \A k : Untouched(k) => Untouched(k)'
    BY <2>1, SingleStays, ProgressStays DEF Untouched
  <2>3. \A e : Complete(e) => Complete(e)' BY <2>2 DEF Complete, Begun
  <2>4. (Writing' <=> Writing) /\ (Reading' <=> Reading) /\ (LastFlush' <=> LastFlush)
    BY DEF Writing, Reading, LastFlush
  <2>5. /\ \A k : Fresh(k) => Fresh(k)'
        /\ \A e : EntryOK(e) /\ Taken(e) => Taken(e)'
    BY <2>2, <2>3, <2>4 DEF Fresh, Taken
  <2>6. CurOK'
    <3>1. PICK c, n, o : c = cur /\ n = next - 1 /\ o = Len(children) - (next - 1) OBVIOUS
    <3>2. cur' = c /\ (next - 1)' = n /\ (Len(children) - (next - 1))' = o BY <3>1
    <3>3. CurOK BY <1>2 DEF ContentInv
    <3>4. Writing /\ next # 0 => Single(c)' /\ Progress(c, n, o)' BY <3>1, <3>3, <2>2 DEF CurOK
    <3>5. Writing /\ next # 0 => Single(cur)' /\ (Progress(cur, next - 1, Len(children) - (next - 1)))'
      BY <3>2, <3>4 DEF Single, Progress, Placed, InBuffer
    <3>6. Writing /\ next = 0 => Untouched(c.key)' BY <3>1, <3>3, <2>2 DEF CurOK
    <3>7. Writing /\ next = 0 => Untouched(cur.key)' BY <3>2, <3>6 DEF Untouched
    <3> QED BY <3>3, <3>5, <3>7, <2>4 DEF CurOK
  <2> QED BY <2>4, <2>5, <2>6, <1>2, SamePlaces DEF reading
<1> QED BY <1>1, <1>2

(* What a build has stored and buffered of each entry is as the invariant  *)
(* says, in every state.                                                   *)
THEOREM ContentInvariant == Spec => [](IInv /\ ContentInv)
<1>1. Init => ContentInv BY InitContent
<1>2. IInv /\ ContentInv /\ [Next]_vars => ContentInv'
  <2> SUFFICES ASSUME IInv, ContentInv, [Next]_vars PROVE ContentInv' OBVIOUS
  <2>1. CASE ReadFails \/ MissingFixDate \/ StoreFails \/ NothingProcessed
    BY <2>1 DEF ReadFails, MissingFixDate, StoreFails, NothingProcessed, ContentInv, fixed
  <2>2. CASE AddParent \/ AddChild \/ FlushParent \/ FlushParentsEnd \/ FlushChild \/ FlushChildrenEnd
    <3>1. pc # "failed"
      BY <2>2 DEF AddParent, AddChild, FlushParent, FlushParentsEnd, FlushChild, FlushChildrenEnd
    <3> QED BY <3>1, <2>2, EngineContent
  <2>3. CASE DropRecord \/ HoldEntry BY <2>3, ReadContent
  <2>4. CASE StartEntry BY <2>4, StartContent
  <2>5. CASE EntryDone \/ CloseFlush \/ Finish BY <2>5, MoveContent
  <2>6. CASE Reconcile BY <2>6, ReconcileContent
  <2>7. CASE NextHeld BY <2>7, NextHeldContent
  <2>8. CASE UNCHANGED vars BY <2>8, StutterContent
  <2> QED BY <2>1, <2>2, <2>3, <2>4, <2>5, <2>6, <2>7, <2>8 DEF Next
<1> QED BY <1>1, <1>2, BuildInvariant, PTL DEF Spec

(***************************************************************************)
(* A build that succeeded.                                                 *)
(***************************************************************************)
LEMMA CompleteStored ==
  ASSUME NEW e, EntryOK(e), Complete(e), parents = <<>>, children = <<>>
  PROVE  /\ \A i, j \in DOMAIN vulns : vulns[i].key = e.key /\ vulns[j].key = e.key => i = j
         /\ e.vuln => \E i \in DOMAIN vulns : vulns[i].key = e.key
         /\ Placed(e, Len(e.related))
<1>1. DOMAIN parents = {} /\ DOMAIN children = {} BY NoElements
<1>2. Single(e) BY DEF Complete, Begun
<1>3. Len(e.related) \in Nat BY RelatedSeq
<1>4. PICK o \in Int : Progress(e, Len(e.related), o) BY DEF Complete, Begun
<1>5. PICK a \in 0..Len(e.related) : Placed(e, a) /\ InBuffer(e, a, Len(e.related), o)
  BY <1>4 DEF Progress
<1>6. \A i \in (a + 1)..Len(e.related) : FALSE BY <1>1, <1>5 DEF InBuffer, UnrunC
<1>7. a = Len(e.related) BY <1>3, <1>6
<1> QED BY <1>1, <1>2, <1>5, <1>7 DEF Single

LEMMA DoneContent ==
  ASSUME ContentInv, pc = "done"
  PROVE  /\ input \in Inputs /\ parents = <<>> /\ children = <<>>
         /\ \E hs, gs :
              /\ Held(hs, gs)
              /\ \A e \in InSeq(input) :
                   IF e.supported THEN e \in InSeq(hs) \/ e \in InSeq(gs) \/ (e.kind # "go" /\ Complete(e))
                                  ELSE Untouched(e.key)
              /\ \A e \in InSeq(reconcile(hs, gs)) :
                   IF e.supported THEN Complete(e) ELSE Untouched(e.key)
<1>1. ~Writing /\ ~Reading BY DEF Writing, Reading
<1>2. PICK hs, gs : Content(hs, gs) BY DEF ContentInv
<1>3. Held(hs, gs) /\ Everywhere(hs, gs) /\ WhileClosing(hs, gs) BY <1>1, <1>2 DEF Content
<1>4. /\ todo = <<>> /\ queue = <<>> /\ parents = <<>> /\ children = <<>>
      /\ InSeq(todo) = {} /\ InSeq(queue) = {}
  BY <1>3, NoElements DEF WhileClosing
<1>5. \A e : Taken(e) => Complete(e) BY <1>1 DEF Taken
<1>6. \A k : Fresh(k) => Untouched(k) BY DEF Fresh
<1>7. \A e \in InSeq(input) :
        IF e.supported THEN e \in InSeq(hs) \/ e \in InSeq(gs) \/ (e.kind # "go" /\ Complete(e))
                       ELSE Untouched(e.key)
  BY <1>3, <1>4, <1>5, <1>6 DEF Everywhere
<1>8. \A e \in InSeq(reconcile(hs, gs)) : IF e.supported THEN Complete(e) ELSE Untouched(e.key)
  BY <1>3, <1>4, <1>5, <1>6 DEF WhileClosing
<1> QED BY <1>3, <1>4, <1>7, <1>8 DEF ContentInv

LEMMA DoneStoredOnce ==
  ASSUME ContentInv
  PROVE  StoredOnce
<1> SUFFICES ASSUME pc = "done" PROVE StoredOnce BY DEF StoredOnce
<1>0. input \in Inputs /\ parents = <<>> /\ children = <<>> BY DoneContent
<1>1. PICK hs, gs :
         /\ Held(hs, gs)
         /\ \A e \in InSeq(input) :
              IF e.supported THEN e \in InSeq(hs) \/ e \in InSeq(gs) \/ (e.kind # "go" /\ Complete(e))
                             ELSE Untouched(e.key)
         /\ \A e \in InSeq(reconcile(hs, gs)) :
              IF e.supported THEN Complete(e) ELSE Untouched(e.key)
  BY DoneContent
<1>2. ASSUME NEW e \in InSeq(input)
      PROVE  LET vs  == {i \in DOMAIN vulns : vulns[i].key = e.key}
                 rs  == {i \in DOMAIN rows : rows[i].key = e.key}
                 due == {i \in DOMAIN e.related : e.related[i].kind # "eol"}
             IN IF ~e.supported THEN vs = {} /\ rs = {}
                ELSE /\ \A i, j \in vs : i = j
                     /\ e.vuln /\ e.kind # "go" => vs # {}
                     /\ e.kind # "go" =>
                          \E f \in [due -> rs] :
                            /\ \A i, j \in due : i < j => f[i] < f[j]
                            /\ \A k \in rs : \E i \in due : k = f[i]
                            /\ \A i \in due : LET r == rows[f[i]].row IN
                                 IF e.kind = "other" THEN r = e.related[i] ELSE r.name = e.related[i].name
  <2> DEFINE vs  == {i \in DOMAIN vulns : vulns[i].key = e.key}
             rs  == {i \in DOMAIN rows : rows[i].key = e.key}
             due == {i \in DOMAIN e.related : e.related[i].kind # "eol"}
             Same(f, i) == LET r == rows[f[i]].row IN
                           IF e.kind = "other" THEN r = e.related[i] ELSE r.name = e.related[i].name
             InOrder == \E f \in [due -> rs] :
                            /\ \A i, j \in due : i < j => f[i] < f[j]
                            /\ \A k \in rs : \E i \in due : k = f[i]
                            /\ \A i \in due : Same(f, i)
  <2>0. EntryOK(e) /\ Len(e.related) \in Nat /\ DOMAIN e.related = 1..Len(e.related)
    BY <1>0, InputIs, RelatedSeq
  <2>1. rs = RowsOf(e.key) /\ due = Due(e, Len(e.related)) BY <2>0 DEF RowsOf, Due
  <2>2. ASSUME Untouched(e.key) PROVE vs = {} /\ rs = {} BY <2>2 DEF Untouched
  <2>3. ASSUME NEW p, EntryOK(p), Complete(p), p.key = e.key, p.vuln = e.vuln
        PROVE  /\ \A i, j \in vs : i = j
               /\ e.vuln => vs # {}
               /\ Placed(p, Len(p.related))
    BY <2>3, <1>0, CompleteStored
  <2>4. ASSUME NEW p, EntryOK(p), Complete(p), p.key = e.key, p.vuln = e.vuln,
               Len(p.related) = Len(e.related),
               \A i \in DOMAIN e.related :
                 /\ p.related[i].kind = e.related[i].kind /\ p.related[i].name = e.related[i].name
                 /\ e.kind = "other" => p.related[i] = e.related[i]
        PROVE  InOrder
    <3>1. Placed(p, Len(e.related)) BY <2>3, <2>4
    <3>2. Due(p, Len(e.related)) = Due(e, Len(e.related)) BY <2>0, <2>4 DEF Due
    <3>3. PICK f \in [Due(p, Len(e.related)) -> RowsOf(p.key)] :
            /\ \A i, j \in Due(p, Len(e.related)) : i < j => f[i] < f[j]
            /\ \A k \in RowsOf(p.key) : \E i \in Due(p, Len(e.related)) : k = f[i]
            /\ \A i \in Due(p, Len(e.related)) : rows[f[i]].row = p.related[i]
      BY <3>1 DEF Placed
    <3>4. \A i \in due : i \in DOMAIN e.related OBVIOUS
    <3>5. Due(p, Len(e.related)) = due /\ RowsOf(p.key) = rs BY <3>2, <2>1, <2>4
    <3> HIDE DEF due, rs
    <3>6. \A i \in due : Same(f, i) BY <3>3, <3>4, <3>5, <2>4
    <3> HIDE DEF Same
    <3> QED BY <3>3, <3>5, <3>6
  <2>5. CASE ~e.supported BY <2>2, <2>5, <1>1
  <2>6. CASE e.supported /\ e.kind # "go" /\ Complete(e)
    <3>1. InOrder BY <2>0, <2>4, <2>6
    <3> HIDE DEF InOrder
    <3>2. /\ \A i, j \in vs : i = j
          /\ e.vuln => vs # {}
      BY <2>0, <2>3, <2>6
    <3> QED BY <3>1, <3>2, <2>6 DEF InOrder
  <2>7. CASE e.supported /\ e \in InSeq(hs)
    <3>1. e.kind = "ghsa" BY <2>7, <1>1 DEF Held
    <3>2. PICK p : p = PatchedGHSA(e, gs, hs) OBVIOUS
    <3>3. /\ EntryOK(p) /\ SameBut(p, e) /\ p.supported = e.supported
          /\ Len(p.related) = Len(e.related)
          /\ \A i \in DOMAIN e.related :
               p.related[i].name = e.related[i].name /\ p.related[i].kind = e.related[i].kind
      BY <3>2, <2>0, PatchedIs
    <3>4. p \in InSeq(reconcile(hs, gs)) BY <3>2, <2>7, <1>0, <1>1, ReconcileIs
    <3>5. Complete(p) BY <3>3, <3>4, <2>7, <1>1
    <3>6. p.key = e.key /\ p.vuln = e.vuln BY <3>3 DEF SameBut
    <3>7. InOrder BY <3>1, <3>3, <3>5, <3>6, <2>4
    <3>8. /\ \A i, j \in vs : i = j
          /\ e.vuln => vs # {}
      BY <3>3, <3>5, <3>6, <2>3
    <3> QED BY <3>7, <3>8, <2>7 DEF InOrder
  <2>8. CASE e.supported /\ e \in InSeq(gs)
    <3>1. e.kind = "go" BY <2>8, <1>1 DEF Held
    <3>2. PICK p : p = PrunedGO(e, hs) OBVIOUS
    <3>3. EntryOK(p) /\ SameBut(p, e) BY <3>2, <2>0, PrunedIs
    <3>4. p \in InSeq(reconcile(hs, gs)) BY <3>2, <2>8, <1>0, <1>1, ReconcileIs
    <3>5. p.key = e.key /\ p.vuln = e.vuln BY <3>3 DEF SameBut
    <3>6. \A i, j \in vs : i = j
      <4>1. CASE p.supported BY <4>1, <3>3, <3>4, <3>5, <2>3, <1>1
      <4>2. CASE ~p.supported BY <4>2, <3>4, <3>5, <2>2, <1>1
      <4> QED BY <4>1, <4>2
    <3> QED BY <3>1, <3>6, <2>8
  <2> QED BY <2>5, <2>6, <2>7, <2>8, <1>1
<1> QED BY <1>2 DEF StoredOnce

(* A finished build holds every supported entry once, with its rows in     *)
(* the order the transformer gave them: for every input, batch size and    *)
(* way in which flushBatches is interleaved with writeEntryToBatch.        *)
THEOREM EntriesStoredOnce == Spec => []StoredOnce
<1>1. ContentInv => StoredOnce BY DoneStoredOnce
<1> QED BY <1>1, ContentInvariant, PTL

(* A package of a GHSA says at least what the GO packages say of it.       *)
LEMMA PatchedSays ==
  ASSUME NEW r, NEW h, NEW gs, NEW hs, NEW g \in InSeq(gs), h \in Targets(g, hs),
         NEW p \in Packages(g), r.kind = "package", r.name = p.name,
         {"kind", "name", "imports", "os", "fixes", "dated"} \subseteq DOMAIN r
  PROVE  Says(PatchedRow(r, h, gs, hs), p)
<1> DEFINE ps == Patching(r, h, gs, hs)
           paths == DOMAIN r.imports \cup UNION {ImportsFrom(r, x) : x \in ps}
           lists(i) == {x.imports[i] : x \in {y \in ps : i \in ImportsFrom(r, y)}}
                         \cup (IF i \in DOMAIN r.imports THEN {r.imports[i]} ELSE {})
<1>1. p \in ps BY DEF Patching
<1>2. ImportsFrom(r, p) = DOMAIN p.imports BY DEF ImportsFrom
<1> HIDE DEF ps
<1>3. PatchedRow(r, h, gs, hs).imports = patchGoImports(r, ps) BY DEF PatchedRow, ps
<1>4. patchGoImports(r, ps) = [i \in paths |-> mergeGoSymbols(lists(i))] BY DEF patchGoImports
<1>5. ASSUME NEW i \in DOMAIN p.imports
      PROVE  i \in paths /\ p.imports[i] \in lists(i)
  BY <1>1, <1>2
<1> HIDE DEF paths, lists
<1>6. ASSUME NEW i \in DOMAIN p.imports
      PROVE  \/ mergeGoSymbols(lists(i)) = {}
             \/ p.imports[i] # {} /\ p.imports[i] \subseteq mergeGoSymbols(lists(i))
  BY <1>5 DEF mergeGoSymbols
<1>7. PICK q : q = [i \in paths |-> mergeGoSymbols(lists(i))] OBVIOUS
<1>8. \A i \in DOMAIN p.imports : i \in DOMAIN q /\ q[i] = mergeGoSymbols(lists(i)) BY <1>5, <1>7
<1>9. PatchedRow(r, h, gs, hs).imports = q BY <1>3, <1>4, <1>7
<1> QED BY <1>6, <1>8, <1>9 DEF Says

LEMMA CompleteRow ==
  ASSUME NEW e, EntryOK(e), Complete(e), parents = <<>>, children = <<>>,
         NEW i \in DOMAIN e.related, e.related[i].kind # "eol"
  PROVE  \E s \in InSeq(rows) : s.row = e.related[i] /\ s.key = e.key
<1>1. Placed(e, Len(e.related)) BY CompleteStored
<1>2. i \in Due(e, Len(e.related)) BY RelatedSeq DEF Due
<1>3. PICK f \in [Due(e, Len(e.related)) -> RowsOf(e.key)] :
        \A k \in Due(e, Len(e.related)) : rows[f[k]].row = e.related[k]
  BY <1>1 DEF Placed
<1>4. f[i] \in RowsOf(e.key) BY <1>2, <1>3
<1> QED BY <1>2, <1>3, <1>4 DEF RowsOf, InSeq

LEMMA DoneGoKept ==
  ASSUME ContentInv
  PROVE  GoKept
<1> SUFFICES ASSUME pc = "done", NEW g \in InSeq(input), g.kind = "go", g.supported, NEW p \in Packages(g)
             PROVE  \E s \in InSeq(rows) :
                      /\ s.row.kind = "package" /\ s.row.name = p.name /\ Says(s.row, p)
                      /\ \/ s.key = g.key
                         \/ LET h == Original(s.key) IN h.name \in g.aliases /\ ~h.rejected
  BY DEF GoKept
<1>0. input \in Inputs /\ parents = <<>> /\ children = <<>> BY DoneContent
<1>1. PICK hs, gs :
         /\ Held(hs, gs)
         /\ \A e \in InSeq(input) :
              IF e.supported THEN e \in InSeq(hs) \/ e \in InSeq(gs) \/ (e.kind # "go" /\ Complete(e))
                             ELSE Untouched(e.key)
         /\ \A e \in InSeq(reconcile(hs, gs)) :
              IF e.supported THEN Complete(e) ELSE Untouched(e.key)
  BY DoneContent
<1>2. g \in InSeq(gs) BY <1>1 DEF Held
<1>3. EntryOK(g) BY <1>0, InputIs
<1>4. p.kind = "package" /\ p \in Rows(g) BY DEF Packages
<1>5. CASE Covered(p, g, hs)
  <2>1. PICK h \in Targets(g, hs) : \E r \in Packages(h) : r.name = p.name BY <1>5 DEF Covered
  <2>2. PICK r \in Packages(h) : r.name = p.name BY <2>1
  <2>3. /\ h \in InSeq(hs) /\ h \in InSeq(input) /\ h.supported
        /\ h.name \in g.aliases /\ ~h.rejected /\ EntryOK(h)
    BY <2>1, <1>0, <1>1, InputIs DEF Targets, Held
  <2>4. PICK q : q = PatchedGHSA(h, gs, hs) OBVIOUS
  <2>5. EntryOK(q) /\ SameBut(q, h) /\ q.supported = h.supported BY <2>3, <2>4, PatchedIs
  <2>6. Complete(q)
    <3>1. q \in InSeq(reconcile(hs, gs)) BY <2>3, <2>4, <1>0, <1>1, ReconcileIs
    <3> QED BY <3>1, <2>3, <2>5, <1>1
  <2>7. PICK i \in DOMAIN h.related : r = h.related[i] BY DEF Packages, Rows
  <2>8. r.kind = "package" /\ r \in Rows(h) BY DEF Packages
  <2>9. /\ i \in DOMAIN q.related /\ q.related[i] = PatchedRow(r, h, gs, hs)
        /\ q.related[i].name = r.name /\ q.related[i].kind = r.kind
    BY <2>3, <2>4, <2>7, PatchedIs
  <2>10. Says(q.related[i], p)
    <3>1. {"kind", "name", "imports", "os", "fixes", "dated"} \subseteq DOMAIN r BY <2>3, <2>8 DEF EntryOK
    <3> QED BY <3>1, <2>1, <2>2, <2>8, <2>9, <1>2, PatchedSays
  <2>11. PICK s \in InSeq(rows) : s.row = q.related[i] /\ s.key = q.key
    BY <2>5, <2>6, <2>8, <2>9, <1>0, CompleteRow
  <2>12. Original(s.key) = h
    <3>1. s.key = h.key BY <2>5, <2>11 DEF SameBut
    <3>2. \A e \in InSeq(input) : e.key = s.key <=> e = h BY <3>1, <2>3, <1>0, InputIs
    <3> QED BY <3>2, <2>3 DEF Original
  <2> QED BY <2>2, <2>3, <2>8, <2>9, <2>10, <2>11, <2>12
<1>6. CASE ~Covered(p, g, hs)
  <2>1. PICK q : q = PrunedGO(g, hs) OBVIOUS
  <2>2. EntryOK(q) /\ SameBut(q, g) BY <2>1, <1>3, PrunedIs
  <2>3. q.supported /\ \E r \in Rows(q) : r.kind = p.kind /\ r.name = p.name /\ r.imports = p.imports
    BY <2>1, <1>3, <1>6, PrunedIs
  <2>4. PICK r \in Rows(q) : r.kind = p.kind /\ r.name = p.name /\ r.imports = p.imports BY <2>3
  <2>5. Complete(q)
    <3>1. q \in InSeq(reconcile(hs, gs)) BY <2>1, <1>0, <1>1, <1>2, ReconcileIs
    <3> QED BY <3>1, <2>3, <1>1
  <2>6. PICK i \in DOMAIN q.related : r = q.related[i] BY DEF Rows
  <2>7. PICK s \in InSeq(rows) : s.row = r /\ s.key = q.key
    BY <2>2, <2>4, <2>5, <2>6, <1>0, <1>4, CompleteRow
  <2>8. Says(s.row, p)
    <3>1. s.row.imports = p.imports BY <2>4, <2>7
    <3> QED BY <3>1 DEF Says
  <2>9. s.key = g.key BY <2>2, <2>7 DEF SameBut
  <2> QED BY <2>4, <2>7, <2>8, <2>9, <1>4
<1> QED BY <1>5, <1>6

(* The merge of the Go vulnerability database loses no package of a GO     *)
(* record: govulndb_merge.go drops one only when the patched GHSA that     *)
(* covers it is stored and names at least its vulnerable symbols.          *)
THEOREM NoGoAdvisoryLost == Spec => []GoKept
<1>1. ContentInv => GoKept BY DoneGoKept
<1> QED BY <1>1, ContentInvariant, PTL

(***************************************************************************)
(* Amendments.  The entry being written is one of the input, as goMerge    *)
(* left it.                                                                *)
(***************************************************************************)
CurFrom ==
  Writing => \E x \in InSeq(input) : /\ x.supported /\ SameBut(cur, x)
                                     /\ IF Reading THEN cur = x /\ x.kind # "go"
                                                   ELSE x.kind \in {"go", "ghsa"}

(* The severity cache holds what NVD says, of every NVD record that was    *)
(* written.                                                                *)
Rated(n) == n.supported /\ n.nvd /\ n.sev # 0

CacheSound ==
  /\ severityCache \in [CVEs -> Nat]
  /\ \A c \in CVEs : severityCache[c] # 0 =>
       \E n \in InSeq(input) : Rated(n) /\ n.cves[1] = c /\ n.sev = severityCache[c]

CacheFull ==
  \A n \in InSeq(input) : Rated(n) =>
    n \in InSeq(todo) \/ (Writing /\ cur = n /\ next = 0) \/ severityCache[n.cves[1]] # 0

SeverityOf(s) ==
  /\ \E e \in InSeq(input) : e.key = s.key
  /\ \A e \in InSeq(input) :
       e.key = s.key /\ e.kind = "go" /\ NeedsSeverity(e) => s.sev \in NVDSeverities(e)

SeverityInv ==
  /\ CurFrom /\ CacheSound /\ CacheFull
  /\ \A i \in DOMAIN parents : SeverityOf(parents[i])
  /\ \A i \in DOMAIN vulns : SeverityOf(vulns[i])

(* Packages that name an operating system, to come after the first j       *)
(* buffered rows.                                                          *)
NamesOS(r, n) == r.kind = "package" /\ n \in r.os

Ran == IF pc = "flushChildren" THEN pos ELSE 0

NoneComing(j, n) ==
  /\ \A k \in DOMAIN children : k > j => ~NamesOS(children[k].row, n)
  /\ Writing => \A k \in DOMAIN cur.related : k >= next => ~NamesOS(cur.related[k], n)
  /\ \A e \in InSeq(todo) : \A r \in Rows(e) : ~NamesOS(r, n)

(* Where the end-of-life date in row i of e is, or what became of it.      *)
DateSettled(e, i) ==
  LET n == e.related[i].name IN
  \/ e \in InSeq(todo)
  \/ Writing /\ cur = e /\ i >= next
  \/ \E j \in DOMAIN children : UnrunC(j) /\ children[j].row = e.related[i]
  \/ n \in eols
  \/ n \notin oses /\ NoneComing(Ran, n)

TodoOrdered ==
  \A i, j \in DOMAIN todo : \A r \in Rows(todo[i]), q \in Rows(todo[j]) :
    r.kind = "eol" /\ NamesOS(q, r.name) => j < i

BufferOrdered ==
  \A k \in DOMAIN children : children[k].row.kind = "eol" => NoneComing(k, children[k].row.name)

CurOrdered ==
  Writing => \A r \in Rows(cur) : r.kind = "eol" =>
    /\ \A q \in Rows(cur) : ~NamesOS(q, r.name)
    /\ \A e \in InSeq(todo) : \A q \in Rows(e) : ~NamesOS(q, r.name)

AllSettled ==
  \A e \in InSeq(input) : e.supported =>
    \A i \in DOMAIN e.related : e.related[i].kind = "eol" => DateSettled(e, i)

EOLInv == TodoOrdered /\ BufferOrdered /\ CurOrdered /\ AllSettled

AmendInv == pc # "failed" => SeverityInv /\ EOLInv

(* What is still to be read or written.                                    *)
LEMMA TodoFrom ==
  ASSUME IInv, ContentInv, pc # "failed"
  PROVE  /\ input \in Inputs
         /\ \A e \in InSeq(todo) : e \in InSeq(input) /\ EntryOK(e)
         /\ IsSeq(todo) /\ Distinct(todo)
         /\ ~Reading =>
              /\ todo = <<>>
              /\ \A e \in InSeq(queue) :
                   EntryOK(e) /\ \E x \in InSeq(input) :
                                   x.supported /\ x.kind \in {"go", "ghsa"} /\ SameBut(e, x)
<1>1. PICK hs, gs : Content(hs, gs) BY DEF ContentInv
<1>2. input \in Inputs /\ Held(hs, gs) /\ ToRead(hs, gs) BY <1>1 DEF Content, ContentInv
<1>3. /\ \A e \in InSeq(todo) : e \in InSeq(input) /\ EntryOK(e)
      /\ IsSeq(todo) /\ Distinct(todo)
  BY <1>2, InputIs DEF ToRead, IInv, EntriesOK
<1>4. ASSUME ~Reading, NEW e \in InSeq(queue)
      PROVE  EntryOK(e) /\ \E x \in InSeq(input) :
                             x.supported /\ x.kind \in {"go", "ghsa"} /\ SameBut(e, x)
  <2>1. e \in InSeq(reconcile(hs, gs)) BY <1>1, <1>4 DEF Content, WhileClosing
  <2>2. EntryOK(e) /\ \E x \in InSeq(hs) \cup InSeq(gs) : e.key = x.key /\ SameBut(e, x)
    BY <2>1, <1>2, ReconcileIs
  <2> QED BY <2>2, <1>2 DEF Held
<1>5. ~Reading => todo = <<>> BY <1>1 DEF Content, WhileClosing
<1> QED BY <1>2, <1>3, <1>4, <1>5

LEMMA CurFromStep ==
  ASSUME IInv, ContentInv, CurFrom, Next
  PROVE  input' = input /\ CurFrom'
<1> USE DEF writing, fixed
<1>1. CASE AddParent \/ AddChild \/ FlushParent \/ FlushParentsEnd \/ FlushChild \/ FlushChildrenEnd
  <2>1. pc # "failed"
    BY <1>1 DEF AddParent, AddChild, FlushParent, FlushParentsEnd, FlushChild, FlushChildrenEnd
  <2>2. (Writing' <=> Writing) /\ (Reading' <=> Reading) /\ UNCHANGED <<input, cur>>
    BY <2>1, <1>1, ControlMoves
  <2> QED BY <2>2 DEF CurFrom
<1>2. CASE ReadFails \/ MissingFixDate \/ StoreFails \/ NothingProcessed \/ DropRecord \/ HoldEntry
           \/ Reconcile \/ Finish
  <2>1. input' = input /\ pc' \in {"failed", "read", "close", "done"}
    BY <1>2 DEF ReadFails, MissingFixDate, StoreFails, NothingProcessed, DropRecord, HoldEntry,
                Reconcile, Finish
  <2>2. ~Writing' BY <2>1 DEF Writing
  <2> QED BY <2>1, <2>2 DEF CurFrom
<1>3. CASE EntryDone \/ CloseFlush
  <2>1. input' = input BY <1>3 DEF EntryDone, CloseFlush
  <2>2. ~Writing'
    <3>1. CASE EntryDone
      <4>1. pc' = Head(then) /\ then \in {<<"read">>, <<"close">>} BY <3>1 DEF EntryDone, IInv, ControlOK
      <4> QED BY <4>1, Tuples DEF Writing
    <3>2. CASE CloseFlush BY <3>2, Tuples DEF CloseFlush, Writing
    <3> QED BY <3>1, <3>2, <1>3
  <2> QED BY <2>1, <2>2 DEF CurFrom
<1>4. CASE StartEntry
  <2>1. /\ pc = "read" /\ todo # <<>> /\ cur' = Head(todo) /\ input' = input
        /\ pc' = "write" /\ then' = <<"read">> /\ Head(todo).supported /\ ~Holds(Head(todo))
    BY <1>4 DEF StartEntry
  <2>2. Reading' BY <2>1 DEF Reading
  <2>3. Head(todo) \in InSeq(todo) BY <2>1, TailSeq DEF IInv, EntriesOK
  <2>4. Head(todo) \in InSeq(input) /\ EntryOK(Head(todo)) BY <2>1, <2>3, TodoFrom
  <2>5. Head(todo).kind # "go" BY <2>1, <2>4 DEF Holds, EntryOK
  <2> QED BY <2>1, <2>2, <2>4, <2>5 DEF CurFrom, SameBut
<1>5. CASE NextHeld
  <2>1. pc = "close" /\ queue # <<>> /\ input' = input BY <1>5 DEF NextHeld
  <2>2. Head(queue) \in InSeq(queue) BY <2>1, TailSeq DEF IInv, EntriesOK
  <2>3. ~Reading BY <2>1 DEF Reading
  <2>4. PICK x \in InSeq(input) : x.supported /\ x.kind \in {"go", "ghsa"} /\ SameBut(Head(queue), x)
    BY <2>1, <2>2, <2>3, TodoFrom
  <2>5. ~Reading'
    <3>1. <<"close">> # <<"read">> BY Tuples
    <3> QED BY <3>1, <2>1, <1>5 DEF NextHeld, Reading
  <2>6. CASE cur' = Head(queue) BY <2>1, <2>4, <2>5, <2>6 DEF CurFrom, SameBut
  <2>7. CASE pc' = "close" BY <2>1, <2>7 DEF CurFrom, Writing
  <2> QED BY <2>1, <2>6, <2>7, <1>5 DEF NextHeld
<1> QED BY <1>1, <1>2, <1>3, <1>4, <1>5 DEF Next

(***************************************************************************)
(* Severities.                                                             *)
(***************************************************************************)
(* When every NVD record was written, a GO record without a severity gets  *)
(* one of NVD's.                                                           *)
LEMMA FilledIs ==
  ASSUME NEW x \in InSeq(input), x.kind = "go", NeedsSeverity(x), EntryOK(x), SameBut(cur, x),
         CacheSound, \A n \in InSeq(input) : Rated(n) => severityCache[n.cves[1]] # 0
  PROVE  Filled(cur) \in NVDSeverities(x)
<1>0. x.cves \in Seq(CVEs) /\ cur.cves = x.cves /\ ~cur.nvd /\ cur.sev = x.sev /\ x.sev \in Nat
  BY DEF EntryOK, SameBut
<1>1. x.sev <= 1 /\ NVDSeverities(x) # {} BY DEF NeedsSeverity
<1>2. PICK n \in InSeq(input) : Rated(n) /\ n.cves[1] \in InSeq(x.cves)
  BY <1>1 DEF NVDSeverities, Rated
<1>3. PICK i \in DOMAIN x.cves : n.cves[1] = x.cves[i] BY <1>2 DEF InSeq
<1>4. severityCache[x.cves[i]] # 0 BY <1>2, <1>3
<1>5. PICK S : S = cached(cur) OBVIOUS
<1>6. i \in S /\ S \in SUBSET Nat /\ S \subseteq DOMAIN x.cves BY <1>0, <1>3, <1>4, <1>5 DEF cached
<1>7. PICK m \in S : \A k \in S : m <= k BY <1>6, Least
<1>8. Min(S) \in S BY <1>7 DEF Min
<1>9. PICK j, c : j = Min(S) /\ c = x.cves[j] OBVIOUS
<1>10. c \in CVEs /\ c \in InSeq(x.cves) /\ severityCache[c] # 0
  <2>1. j \in S /\ j \in DOMAIN x.cves BY <1>6, <1>8, <1>9
  <2>2. severityCache[x.cves[j]] # 0 BY <2>1, <1>0, <1>5 DEF cached
  <2> QED BY <2>1, <2>2, <1>0, <1>9 DEF InSeq
<1>11. PICK y \in InSeq(input) : Rated(y) /\ y.cves[1] = c /\ y.sev = severityCache[c]
  BY <1>10 DEF CacheSound
<1>12. severityCache[c] \in NVDSeverities(x) BY <1>10, <1>11 DEF NVDSeverities, Rated
<1>13. Filled(cur) = severityCache[c] BY <1>0, <1>1, <1>5, <1>6, <1>9 DEF Filled
<1> QED BY <1>12, <1>13

LEMMA SeveritiesStay ==
  ASSUME input' = input,
         \A i \in DOMAIN parents' : SeverityOf(parents'[i]), \A i \in DOMAIN vulns' : SeverityOf(vulns'[i])
  PROVE  /\ (\A i \in DOMAIN parents : SeverityOf(parents[i]))'
         /\ (\A i \in DOMAIN vulns : SeverityOf(vulns[i]))'
<1>1. \A e : (NeedsSeverity(e)' <=> NeedsSeverity(e)) /\ NVDSeverities(e)' = NVDSeverities(e)
  BY DEF NeedsSeverity, NVDSeverities
<1> QED BY <1>1 DEF SeverityOf

LEMMA AddParentSeverity ==
  ASSUME IInv, ContentInv, SeverityInv, AddParent
  PROVE  SeverityInv'
<1> USE DEF reading, writing, store, fixed
<1>0. /\ pc = "write" /\ next = 0 /\ next' = 1 /\ UNCHANGED <<input, todo, cur, vulns>>
      /\ IsSeq(parents)
  BY DEF AddParent, IInv, BuffersOK
<1>1. Writing BY <1>0 DEF Writing
<1>2. PICK op : op = [key |-> cur.key, vuln |-> cur.vuln, sev |-> Filled(cur)] OBVIOUS
<1>3. parents' = Append(parents, op) /\ op.key = cur.key /\ op.sev = Filled(cur)
  BY <1>2 DEF AddParent
<1>4. input \in Inputs /\ CurOK BY <1>0 DEF ContentInv
<1>5. PICK x \in InSeq(input) : /\ x.supported /\ SameBut(cur, x)
                                /\ IF Reading THEN cur = x /\ x.kind # "go"
                                              ELSE x.kind \in {"go", "ghsa"}
  BY <1>1 DEF SeverityInv, CurFrom
<1>6. EntryOK(x) /\ EntryOK(cur) /\ cur.key = x.key BY <1>1, <1>4, <1>5, InputIs DEF CurOK, SameBut
<1>7. CacheSound /\ CacheFull BY DEF SeverityInv
<1>8. SeverityOf(op)
  <2>1. ASSUME NEW e \in InSeq(input), e.key = op.key, e.kind = "go", NeedsSeverity(e)
        PROVE  op.sev \in NVDSeverities(e)
    <3>1. e = x BY <2>1, <1>3, <1>4, <1>5, <1>6, InputIs
    <3>2. ~Reading BY <2>1, <3>1, <1>5
    <3>3. todo = <<>> /\ InSeq(todo) = {} BY <3>2, <1>0, TodoFrom, NoElements
    <3>4. ~cur.nvd BY <2>1, <3>1, <1>5 DEF NeedsSeverity, SameBut
    <3>5. \A n \in InSeq(input) : Rated(n) => severityCache[n.cves[1]] # 0
      BY <3>3, <3>4, <1>7 DEF CacheFull, Rated
    <3>6. Filled(cur) \in NVDSeverities(x) BY <2>1, <3>1, <3>5, <1>5, <1>6, <1>7, FilledIs
    <3> QED BY <3>1, <3>6, <1>3
  <2> QED BY <2>1, <1>3, <1>5, <1>6 DEF SeverityOf
<1>9. \A i \in DOMAIN parents' : SeverityOf(parents'[i])
  <2>0. PICK n : n = Len(parents) + 1 OBVIOUS
  <2>1. /\ Len(parents) \in Nat /\ DOMAIN parents = 1..Len(parents) /\ DOMAIN parents' = 1..n
        /\ \A i \in DOMAIN parents : parents'[i] = parents[i]
        /\ parents'[n] = op
    BY <2>0, <1>0, <1>3, AppendSeq
  <2>2. \A i \in DOMAIN parents' : i \in DOMAIN parents \/ i = n BY <2>0, <2>1
  <2>3. \A i \in DOMAIN parents : SeverityOf(parents[i]) BY DEF SeverityInv
  <2> QED BY <2>1, <2>2, <2>3, <1>8
<1>10. \A i \in DOMAIN vulns' : SeverityOf(vulns'[i]) BY <1>0 DEF SeverityInv
<1>11. /\ (\A i \in DOMAIN parents : SeverityOf(parents[i]))'
       /\ (\A i \in DOMAIN vulns : SeverityOf(vulns[i]))'
  BY <1>0, <1>9, <1>10, SeveritiesStay
<1>12. CurFrom' BY <1>0, CurFromStep DEF SeverityInv, Next
<1>13. severityCache' = Cache(cur)
  <2>1. cur.nvd => cur.vuln BY <1>6 DEF EntryOK
  <2> QED BY <2>1 DEF AddParent, Cache
<1>14. CASE cur.nvd /\ cur.sev # 0
  <2>1. PICK c, v : c = cur.cves[1] /\ v = cur.sev OBVIOUS
  <2>2. severityCache' = [severityCache EXCEPT ![c] = v] BY <2>1, <1>13, <1>14 DEF Cache
  <2>3. c \in CVEs /\ v \in Nat /\ v # 0
    <3>1. cur.cves \in Seq(CVEs) /\ cur.cves # <<>> /\ cur.sev \in Nat BY <1>6, <1>14 DEF EntryOK
    <3>2. Len(cur.cves) \in Nat /\ Len(cur.cves) # 0 /\ DOMAIN cur.cves = 1..Len(cur.cves)
      BY <3>1
    <3> QED BY <3>1, <3>2, <2>1, <1>14
  <2>4. severityCache \in [CVEs -> Nat] BY <1>7 DEF CacheSound
  <2>5. /\ severityCache' \in [CVEs -> Nat] /\ severityCache'[c] = v
        /\ \A d \in CVEs : d # c => severityCache'[d] = severityCache[d]
    BY <2>2, <2>3, <2>4
  <2>6. Rated(x) /\ x.cves[1] = c /\ x.sev = v BY <2>1, <1>5, <1>14 DEF Rated, SameBut
  <2>7. CacheSound'
    <3>1. ASSUME NEW d \in CVEs, severityCache'[d] # 0
          PROVE  \E n \in InSeq(input) : Rated(n) /\ n.cves[1] = d /\ n.sev = severityCache'[d]
      <4>1. CASE d = c BY <4>1, <2>5, <2>6
      <4>2. CASE d # c BY <4>2, <3>1, <2>5, <1>7 DEF CacheSound
      <4> QED BY <4>1, <4>2
    <3> QED BY <3>1, <2>5, <1>0 DEF CacheSound
  <2>8. CacheFull'
    <3>1. ASSUME NEW n \in InSeq(input), Rated(n), n \notin InSeq(todo)
          PROVE  severityCache'[n.cves[1]] # 0
      <4>1. cur = n \/ severityCache[n.cves[1]] # 0 BY <3>1, <1>7 DEF CacheFull
      <4>2. CASE n.cves[1] = c BY <4>2, <2>3, <2>5
      <4>3. CASE n.cves[1] # c
        <5>1. severityCache[n.cves[1]] # 0 BY <4>1, <4>3, <2>1
        <5>2. n.cves[1] \in CVEs
          <6>1. EntryOK(n) BY <1>4, InputIs
          <6>2. n.cves \in Seq(CVEs) /\ n.cves # <<>> BY <6>1, <3>1 DEF EntryOK, Rated
          <6>3. Len(n.cves) \in Nat /\ Len(n.cves) # 0 /\ DOMAIN n.cves = 1..Len(n.cves) BY <6>2
          <6> QED BY <6>2, <6>3
        <5> QED BY <5>1, <5>2, <4>3, <2>5
      <4> QED BY <4>2, <4>3
    <3> QED BY <3>1, <1>0 DEF CacheFull
  <2> QED BY <2>7, <2>8, <1>11, <1>12 DEF SeverityInv
<1>15. CASE ~(cur.nvd /\ cur.sev # 0)
  <2>1. severityCache' = severityCache BY <1>13, <1>15 DEF Cache
  <2>2. CacheSound' BY <2>1, <1>0, <1>7 DEF CacheSound
  <2>3. \A n \in InSeq(input) : Rated(n) => cur # n BY <1>15 DEF Rated
  <2>4. CacheFull' BY <2>1, <2>3, <1>0, <1>7 DEF CacheFull
  <2> QED BY <2>2, <2>4, <1>11, <1>12 DEF SeverityInv
<1> QED BY <1>14, <1>15

LEMMA NotFailed ==
  ASSUME Next
  PROVE  pc # "failed"
BY DEF Next, ReadFails, DropRecord, HoldEntry, StartEntry, AddParent, AddChild, MissingFixDate,
       EntryDone, FlushParent, FlushParentsEnd, FlushChild, FlushChildrenEnd, StoreFails,
       NothingProcessed, Reconcile, NextHeld, CloseFlush, Finish

LEMMA SeverityStep ==
  ASSUME IInv, ContentInv, SeverityInv, Next, pc' # "failed"
  PROVE  SeverityInv'
<1> USE DEF reading, writing, buffers, store, fixed
<1>a. CASE AddParent BY <1>a, AddParentSeverity
<1>b. CASE ~AddParent
  <2>0. severityCache' = severityCache /\ input' = input /\ CurFrom'
    <3>1. severityCache' = severityCache
      BY <1>b DEF Next, ReadFails, DropRecord, HoldEntry, StartEntry, AddChild, MissingFixDate, EntryDone,
                  FlushParent, FlushParentsEnd, FlushChild, FlushChildrenEnd, StoreFails, NothingProcessed,
                  Reconcile, NextHeld, CloseFlush, Finish
    <3> QED BY <3>1, CurFromStep DEF SeverityInv
  <2>1. CacheSound' BY <2>0 DEF CacheSound, SeverityInv
  <2>2. CacheFull BY DEF SeverityInv
  <2>3. pc # "failed" BY NotFailed
  <2>4. CASE AddChild \/ FlushParent \/ FlushParentsEnd \/ FlushChild \/ FlushChildrenEnd
    <3>1. (Writing' <=> Writing) /\ UNCHANGED <<todo, cur>> BY <2>3, <2>4, ControlMoves
    <3>2. next' = next \/ next # 0
      BY <2>4 DEF AddChild, FlushParent, FlushParentsEnd, FlushChild, FlushChildrenEnd
    <3>3. CacheFull' BY <3>1, <3>2, <2>0, <2>2 DEF CacheFull
    <3>4. \A i \in DOMAIN parents' : SeverityOf(parents'[i])
      <4>1. parents' = parents \/ parents' = <<>>
        BY <2>4 DEF AddChild, FlushParent, FlushParentsEnd, FlushChild, FlushChildrenEnd
      <4> QED BY <4>1, NoElements DEF SeverityInv
    <3>5. \A i \in DOMAIN vulns' : SeverityOf(vulns'[i])
      <4>1. CASE vulns' = vulns BY <4>1 DEF SeverityInv
      <4>2. CASE vulns' # vulns
        <5>1. /\ FlushParent /\ IsSeq(vulns) /\ IsSeq(parents) /\ pos \in Nat
          BY <4>2, <2>4 DEF AddChild, FlushParentsEnd, FlushChild, Run, FlushChildrenEnd, IInv, BuffersOK,
                            ControlOK
        <5>2. PICK op, v, n : op = parents[pos + 1] /\ v = [key |-> op.key, sev |-> op.sev] /\ n = Len(vulns) + 1
          OBVIOUS
        <5>3. vulns' = Append(vulns, v) /\ v.key = op.key /\ v.sev = op.sev
          BY <4>2, <5>1, <5>2 DEF FlushParent
        <5>4. pos + 1 \in DOMAIN parents BY <5>1 DEF FlushParent, IsSeq
        <5>5. SeverityOf(op) BY <5>2, <5>4 DEF SeverityInv
        <5>6. SeverityOf(v) BY <5>3, <5>5 DEF SeverityOf
        <5>7. /\ Len(vulns) \in Nat /\ DOMAIN vulns = 1..Len(vulns) /\ DOMAIN vulns' = 1..n
              /\ \A i \in DOMAIN vulns : vulns'[i] = vulns[i]
              /\ vulns'[n] = v
          BY <5>1, <5>2, <5>3, AppendSeq
        <5>8. \A i \in DOMAIN vulns' : i \in DOMAIN vulns \/ i = n BY <5>2, <5>7
        <5>9. \A i \in DOMAIN vulns : SeverityOf(vulns[i]) BY DEF SeverityInv
        <5> QED BY <5>6, <5>7, <5>8, <5>9
      <4> QED BY <4>1, <4>2
    <3>6. /\ (\A i \in DOMAIN parents : SeverityOf(parents[i]))'
          /\ (\A i \in DOMAIN vulns : SeverityOf(vulns[i]))'
      BY <3>4, <3>5, <2>0, SeveritiesStay
    <3> QED BY <3>3, <3>6, <2>0, <2>1 DEF SeverityInv
  <2>5. CASE DropRecord \/ HoldEntry \/ StartEntry \/ EntryDone \/ Reconcile \/ NextHeld \/ CloseFlush \/ Finish
    <3>1. UNCHANGED <<parents, vulns>>
      BY <2>5 DEF DropRecord, HoldEntry, StartEntry, EntryDone, Reconcile, NextHeld, CloseFlush, Finish
    <3>2. /\ (\A i \in DOMAIN parents : SeverityOf(parents[i]))'
          /\ (\A i \in DOMAIN vulns : SeverityOf(vulns[i]))'
      BY <3>1, <2>0, SeveritiesStay DEF SeverityInv
    <3>3. CacheFull'
      <4>1. CASE DropRecord \/ HoldEntry \/ StartEntry
        <5>1. pc = "read" /\ todo # <<>> /\ todo' = Tail(todo)
          BY <4>1 DEF DropRecord, HoldEntry, StartEntry
        <5>2. ~Writing BY <5>1 DEF Writing
        <5>3. PICK x : x = Head(todo) OBVIOUS
        <5>4. \A e : e \in InSeq(todo) <=> e = x \/ e \in InSeq(todo')
          BY <5>1, <5>3, <2>3, TodoFrom, TailDistinct
        <5>5. EntryOK(x) BY <5>4, <2>3, TodoFrom
        <5>6. StartEntry => Writing' /\ cur' = x /\ next' = 0 BY <5>3 DEF StartEntry, Writing
        <5>7. DropRecord \/ HoldEntry => ~Rated(x)
          BY <5>3, <5>5 DEF DropRecord, HoldEntry, Holds, Rated, EntryOK
        <5>8. ASSUME NEW n \in InSeq(input), Rated(n)
              PROVE  n \in InSeq(todo') \/ (Writing' /\ cur' = n /\ next' = 0) \/ severityCache[n.cves[1]] # 0
          <6>1. n \in InSeq(todo) \/ severityCache[n.cves[1]] # 0 BY <5>2, <5>8, <2>2 DEF CacheFull
          <6> QED BY <6>1, <5>4, <5>6, <5>7, <5>8, <4>1
        <5> QED BY <5>8, <2>0 DEF CacheFull
      <4>2. CASE EntryDone \/ Reconcile \/ NextHeld \/ CloseFlush \/ Finish
        <5>1. todo' = todo BY <4>2 DEF EntryDone, Reconcile, NextHeld, CloseFlush, Finish
        <5>2. ~Writing \/ next # 0
          <6>1. CASE EntryDone
            <7>1. Writing BY <6>1 DEF EntryDone, Writing
            <7>2. EntryOK(cur) BY <7>1, <2>3 DEF ContentInv, CurOK
            <7>3. Len(cur.related) \in Nat BY <7>2, RelatedSeq
            <7> QED BY <7>3, <6>1 DEF EntryDone
          <6>2. CASE Reconcile \/ NextHeld \/ CloseFlush \/ Finish
            BY <6>2 DEF Reconcile, NextHeld, CloseFlush, Finish, Writing
          <6> QED BY <6>1, <6>2, <4>2
        <5> QED BY <5>1, <5>2, <2>0, <2>2 DEF CacheFull
      <4> QED BY <4>1, <4>2, <2>5
    <3> QED BY <3>2, <3>3, <2>0, <2>1 DEF SeverityInv
  <2>6. ~(ReadFails \/ MissingFixDate \/ StoreFails \/ NothingProcessed)
    BY DEF ReadFails, MissingFixDate, StoreFails, NothingProcessed
  <2> QED BY <2>4, <2>5, <2>6, <1>b DEF Next
<1> QED BY <1>a, <1>b

(***************************************************************************)
(* End-of-life dates.                                                      *)
(***************************************************************************)
(* The next entry of the queue has neither dates nor operating systems.    *)
LEMMA HeldHaveNoOS ==
  ASSUME IInv, ContentInv, NextHeld
  PROVE  /\ \A r \in Rows(Head(queue)) : r.kind # "eol" /\ r.os = {}
         /\ ~Writing
<1>1. pc = "close" /\ queue # <<>> BY DEF NextHeld
<1>2. ~Reading /\ ~Writing BY <1>1 DEF Reading, Writing
<1>3. Head(queue) \in InSeq(queue) BY <1>1, TailSeq DEF IInv, EntriesOK
<1>4. EntryOK(Head(queue)) /\ Head(queue).kind \in {"go", "ghsa"}
  BY <1>1, <1>2, <1>3, TodoFrom DEF SameBut
<1> QED BY <1>2, <1>4 DEF EntryOK

(* What the next step does to the entries still to be read.                *)
LEMMA TodoStep ==
  ASSUME IInv, ContentInv, Next
  PROVE  \/ todo' = todo
         \/ /\ DropRecord \/ HoldEntry \/ StartEntry
            /\ ~Writing /\ todo # <<>> /\ todo' = Tail(todo)
            /\ Head(todo) \in InSeq(todo) /\ EntryOK(Head(todo))
            /\ \A e : e \in InSeq(todo) <=> e = Head(todo) \/ e \in InSeq(todo')
<1>0. pc # "failed" BY NotFailed
<1>1. CASE DropRecord \/ HoldEntry \/ StartEntry
  <2>1. pc = "read" /\ todo # <<>> /\ todo' = Tail(todo) BY <1>1 DEF DropRecord, HoldEntry, StartEntry
  <2>2. ~Writing BY <2>1 DEF Writing
  <2>3. \A e : e \in InSeq(todo) <=> e = Head(todo) \/ e \in InSeq(todo')
    BY <2>1, <1>0, TodoFrom, TailDistinct
  <2>4. Head(todo) \in InSeq(todo) /\ EntryOK(Head(todo)) BY <2>3, <1>0, TodoFrom
  <2> QED BY <2>1, <2>2, <2>3, <2>4, <1>1
<1>2. CASE ~(DropRecord \/ HoldEntry \/ StartEntry)
  <2>1. todo' = todo
    BY <1>2 DEF Next, ReadFails, AddParent, AddChild, MissingFixDate, EntryDone, FlushParent,
                FlushParentsEnd, FlushChild, FlushChildrenEnd, StoreFails, NothingProcessed, Reconcile,
                NextHeld, CloseFlush, Finish, reading
  <2> QED BY <2>1
<1> QED BY <1>1, <1>2

(* What it does to the child buffer.                                       *)
LEMMA ChildrenStep ==
  ASSUME IInv, Next
  PROVE  \/ children' = children
         \/ FlushChildrenEnd /\ children' = <<>> /\ DOMAIN children' = {}
         \/ /\ AddChild /\ next \in 1..Len(cur.related)
            /\ Len(children) + 1 \notin DOMAIN children
            /\ \A i : i \in DOMAIN children' <=> i \in DOMAIN children \/ i = Len(children) + 1
            /\ \A i \in DOMAIN children : children'[i] = children[i]
            /\ children'[Len(children) + 1].row = cur.related[next]
            /\ \A i \in DOMAIN children : i < Len(children) + 1
            /\ Len(children) \in Nat
<1>1. CASE AddChild
  <2>1. PICK op, n : /\ op = [key |-> cur.key, vuln |-> cur.vuln, row |-> cur.related[next]]
                     /\ n = Len(children) + 1
    OBVIOUS
  <2>2. children' = Append(children, op) /\ op.row = cur.related[next] /\ next \in 1..Len(cur.related)
    BY <2>1, <1>1 DEF AddChild
  <2>3. /\ Len(children) \in Nat /\ DOMAIN children = 1..Len(children) /\ DOMAIN children' = 1..n
        /\ \A i \in DOMAIN children : children'[i] = children[i]
        /\ children'[n] = op
    BY <2>1, <2>2, AppendSeq DEF IInv, BuffersOK
  <2>4. /\ n \notin DOMAIN children /\ \A i \in DOMAIN children : i < n
        /\ \A i : i \in DOMAIN children' <=> i \in DOMAIN children \/ i = n
    BY <2>1, <2>3
  <2> QED BY <2>1, <2>2, <2>3, <2>4, <1>1
<1>2. CASE FlushChildrenEnd BY <1>2, NoElements DEF FlushChildrenEnd
<1>3. CASE ~(AddChild \/ FlushChildrenEnd)
  <2>1. children' = children
    BY <1>3 DEF Next, ReadFails, DropRecord, HoldEntry, StartEntry, AddParent, MissingFixDate, EntryDone,
                FlushParent, FlushParentsEnd, FlushChild, StoreFails, NothingProcessed, Reconcile,
                NextHeld, CloseFlush, Finish, buffers
  <2> QED BY <2>1
<1> QED BY <1>1, <1>2, <1>3

(* What it does to the entry being written.                                *)
LEMMA CurStep ==
  ASSUME IInv, ContentInv, Next
  PROVE  Writing' =>
           \/ Writing /\ cur' = cur /\ todo' = todo /\ (next' = next \/ next' = next + 1)
           \/ StartEntry /\ ~Writing /\ cur' = Head(todo) /\ next' = 0
           \/ NextHeld /\ ~Writing /\ cur' = Head(queue) /\ next' = 0 /\ todo' = todo
<1>0. pc # "failed" BY NotFailed
<1>1. CASE AddParent \/ AddChild \/ FlushParent \/ FlushParentsEnd \/ FlushChild \/ FlushChildrenEnd
  <2>1. (Writing' <=> Writing) /\ UNCHANGED <<todo, cur>> BY <1>0, <1>1, ControlMoves DEF reading
  <2>2. next' = next \/ next' = next + 1
    BY <1>1 DEF AddParent, AddChild, FlushParent, FlushParentsEnd, FlushChild, FlushChildrenEnd, writing
  <2> QED BY <2>1, <2>2
<1>2. CASE ReadFails \/ MissingFixDate \/ StoreFails \/ NothingProcessed \/ DropRecord \/ HoldEntry
           \/ Reconcile \/ Finish
  <2>1. pc' \in {"failed", "read", "close", "done"}
    BY <1>2 DEF ReadFails, MissingFixDate, StoreFails, NothingProcessed, DropRecord, HoldEntry,
                Reconcile, Finish
  <2> QED BY <2>1 DEF Writing
<1>3. CASE EntryDone
  <2>1. pc' = Head(then) /\ then \in {<<"read">>, <<"close">>} BY <1>3 DEF EntryDone, IInv, ControlOK
  <2> QED BY <2>1, Tuples DEF Writing
<1>4. CASE CloseFlush BY <1>4, Tuples DEF CloseFlush, Writing
<1>5. CASE StartEntry BY <1>5 DEF StartEntry, Writing
<1>6. CASE NextHeld
  <2>1. ~Writing BY <1>6, HeldHaveNoOS
  <2> QED BY <2>1, <1>6 DEF NextHeld, Writing, writing
<1> QED BY <1>1, <1>2, <1>3, <1>4, <1>5, <1>6 DEF Next

(* Where no package comes that names an operating system, none ever comes. *)
LEMMA NoneComingStays ==
  ASSUME IInv, ContentInv, Next, NEW j, NEW n, NoneComing(j, n)
  PROVE  NoneComing(j, n)'
<1>0. pc # "failed" BY NotFailed
<1>1. \A e \in InSeq(todo') : \A r \in Rows(e) : ~NamesOS(r, n)
  <2>1. InSeq(todo') \subseteq InSeq(todo) BY TodoStep
  <2> QED BY <2>1 DEF NoneComing
<1>2. ASSUME Writing', NEW k \in DOMAIN cur'.related, k >= next'
      PROVE  ~NamesOS(cur'.related[k], n)
  <2>1. CASE Writing /\ cur' = cur /\ (next' = next \/ next' = next + 1)
    <3>1. EntryOK(cur) BY <2>1, <1>0 DEF ContentInv, CurOK
    <3>2. DOMAIN cur.related \subseteq Nat /\ next \in Nat BY <3>1, RelatedSeq DEF IInv, BuffersOK
    <3>3. k >= next BY <3>2, <2>1, <1>2
    <3> QED BY <3>3, <2>1, <1>2 DEF NoneComing
  <2>2. CASE StartEntry /\ cur' = Head(todo)
    <3>1. Head(todo) \in InSeq(todo) BY <2>2, TailSeq DEF StartEntry, IInv, EntriesOK
    <3>2. cur'.related[k] \in Rows(Head(todo)) BY <2>2, <1>2 DEF Rows
    <3> QED BY <3>1, <3>2 DEF NoneComing
  <2>3. CASE NextHeld /\ cur' = Head(queue)
    <3>1. cur'.related[k] \in Rows(Head(queue)) BY <2>3, <1>2 DEF Rows
    <3> QED BY <3>1, <2>3, HeldHaveNoOS DEF NamesOS
  <2> QED BY <2>1, <2>2, <2>3, <1>2, CurStep
<1>3. ASSUME NEW k \in DOMAIN children', k > j
      PROVE  ~NamesOS(children'[k].row, n)
  <2>1. CASE children' = children BY <2>1, <1>3 DEF NoneComing
  <2>2. CASE DOMAIN children' = {} BY <2>2, <1>3
  <2>3. CASE /\ AddChild /\ next \in 1..Len(cur.related)
             /\ \A i : i \in DOMAIN children' <=> i \in DOMAIN children \/ i = Len(children) + 1
             /\ \A i \in DOMAIN children : children'[i] = children[i]
             /\ children'[Len(children) + 1].row = cur.related[next]
    <3>1. CASE k \in DOMAIN children BY <3>1, <2>3, <1>3 DEF NoneComing
    <3>2. CASE k = Len(children) + 1
      <4>1. Writing BY <2>3 DEF AddChild, Writing
      <4>2. EntryOK(cur) BY <4>1, <1>0 DEF ContentInv, CurOK
      <4>3. next \in DOMAIN cur.related /\ next >= next BY <4>2, <2>3, RelatedSeq
      <4>4. ~NamesOS(cur.related[next], n) BY <4>1, <4>3 DEF NoneComing
      <4> QED BY <4>4, <3>2, <2>3
    <3> QED BY <3>1, <3>2, <2>3, <1>3
  <2> QED BY <2>1, <2>2, <2>3, ChildrenStep
<1> QED BY <1>1, <1>2, <1>3 DEF NoneComing

LEMMA TodoOrderedStep ==
  ASSUME IInv, ContentInv, Next, TodoOrdered
  PROVE  TodoOrdered'
<1>1. CASE todo' = todo BY <1>1 DEF TodoOrdered
<1>2. CASE todo # <<>> /\ todo' = Tail(todo)
  <2>1. IsSeq(todo) BY DEF IInv, EntriesOK
  <2>2. /\ Len(todo) \in Nat /\ Len(todo) > 0 /\ DOMAIN todo = 1..Len(todo)
        /\ DOMAIN todo' = 1..(Len(todo) - 1)
        /\ \A i \in 1..(Len(todo) - 1) : todo'[i] = todo[i + 1]
    BY <2>1, <1>2 DEF IsSeq
  <2>3. ASSUME NEW i \in DOMAIN todo', NEW j \in DOMAIN todo',
               NEW r \in Rows(todo'[i]), NEW q \in Rows(todo'[j]), r.kind = "eol", NamesOS(q, r.name)
        PROVE  j < i
    <3>1. i + 1 \in DOMAIN todo /\ j + 1 \in DOMAIN todo /\ i \in Nat /\ j \in Nat
          /\ todo'[i] = todo[i + 1] /\ todo'[j] = todo[j + 1]
      BY <2>2
    <3>2. j + 1 < i + 1 BY <3>1, <2>3 DEF TodoOrdered
    <3> QED BY <3>1, <3>2
  <2> QED BY <2>3 DEF TodoOrdered
<1> QED BY <1>1, <1>2, TodoStep

LEMMA CurOrderedStep ==
  ASSUME IInv, ContentInv, Next, TodoOrdered, CurOrdered
  PROVE  CurOrdered'
<1> SUFFICES ASSUME Writing', NEW r \in Rows(cur'), r.kind = "eol"
             PROVE  /\ \A q \in Rows(cur') : ~NamesOS(q, r.name)
                    /\ \A e \in InSeq(todo') : \A q \in Rows(e) : ~NamesOS(q, r.name)
  BY DEF CurOrdered
<1>1. CASE Writing /\ cur' = cur /\ todo' = todo BY <1>1 DEF CurOrdered
<1>2. CASE StartEntry /\ cur' = Head(todo)
  <2>1. todo # <<>> /\ todo' = Tail(todo) /\ IsSeq(todo) BY <1>2 DEF StartEntry, IInv, EntriesOK
  <2>2. /\ Len(todo) \in Nat /\ Len(todo) > 0 /\ DOMAIN todo = 1..Len(todo)
        /\ Head(todo) = todo[1]
        /\ DOMAIN todo' = 1..(Len(todo) - 1)
        /\ \A i \in 1..(Len(todo) - 1) : todo'[i] = todo[i + 1]
    BY <2>1 DEF IsSeq
  <2>3. 1 \in DOMAIN todo /\ cur' = todo[1] BY <2>2, <1>2
  <2>4. \A q \in Rows(cur') : ~NamesOS(q, r.name)
    <3>1. ASSUME NEW q \in Rows(cur'), NamesOS(q, r.name) PROVE FALSE
      <4>1. 1 < 1 BY <3>1, <2>3 DEF TodoOrdered
      <4> QED BY <4>1
    <3> QED BY <3>1
  <2>5. ASSUME NEW e \in InSeq(todo'), NEW q \in Rows(e), NamesOS(q, r.name) PROVE FALSE
    <3>1. PICK i \in 1..(Len(todo) - 1) : e = todo[i + 1] BY <2>2 DEF InSeq
    <3>2. i + 1 \in DOMAIN todo /\ i \in Nat BY <2>2
    <3>3. i + 1 < 1 BY <3>1, <3>2, <2>3, <2>5 DEF TodoOrdered
    <3> QED BY <3>1, <3>2, <3>3
  <2> QED BY <2>4, <2>5
<1>3. CASE NextHeld /\ cur' = Head(queue) BY <1>3, HeldHaveNoOS
<1> QED BY <1>1, <1>2, <1>3, CurStep

LEMMA BufferOrderedStep ==
  ASSUME IInv, ContentInv, Next, BufferOrdered, CurOrdered
  PROVE  BufferOrdered'
<1>0. pc # "failed" BY NotFailed
<1>1. ASSUME NEW k \in DOMAIN children, children'[k] = children[k], children[k].row.kind = "eol"
      PROVE  (NoneComing(k, children[k].row.name))'
  <2>1. PICK n : n = children[k].row.name OBVIOUS
  <2>2. NoneComing(k, n) BY <2>1, <1>1 DEF BufferOrdered
  <2>3. NoneComing(k, n)' BY <2>2, NoneComingStays
  <2>4. (children[k].row.name)' = n BY <2>1, <1>1
  <2> QED BY <2>3, <2>4 DEF NoneComing
<1>2. CASE children' = children BY <1>1, <1>2 DEF BufferOrdered
<1>3. CASE DOMAIN children' = {} BY <1>3 DEF BufferOrdered
<1>4. CASE /\ AddChild /\ next \in 1..Len(cur.related)
           /\ Len(children) + 1 \notin DOMAIN children
           /\ \A i : i \in DOMAIN children' <=> i \in DOMAIN children \/ i = Len(children) + 1
           /\ \A i \in DOMAIN children : children'[i] = children[i]
           /\ children'[Len(children) + 1].row = cur.related[next]
           /\ \A i \in DOMAIN children : i < Len(children) + 1
           /\ Len(children) \in Nat
  <2>1. PICK m, r : m = Len(children) + 1 /\ r = cur.related[next] OBVIOUS
  <2>2. Writing BY <1>4 DEF AddChild, Writing
  <2>3. EntryOK(cur) BY <2>2, <1>0 DEF ContentInv, CurOK
  <2>4. r \in Rows(cur) BY <2>1, <2>3, <1>4, RelatedSeq DEF Rows
  <2>5. cur' = cur /\ todo' = todo BY <1>4 DEF AddChild, reading
  <2>6. ASSUME r.kind = "eol" PROVE NoneComing(m, r.name)'
    <3>1. /\ \A q \in Rows(cur) : ~NamesOS(q, r.name)
          /\ \A e \in InSeq(todo) : \A q \in Rows(e) : ~NamesOS(q, r.name)
      BY <2>2, <2>4, <2>6 DEF CurOrdered
    <3>2. \A k \in DOMAIN cur.related : ~NamesOS(cur.related[k], r.name) BY <3>1 DEF Rows
    <3>3. \A k \in DOMAIN children' : ~(k > m)
      <4>1. DOMAIN children \subseteq Int BY DEF IInv, BuffersOK, IsSeq
      <4> QED BY <4>1, <2>1, <1>4
    <3> QED BY <3>1, <3>2, <3>3, <2>5 DEF NoneComing
  <2>7. ASSUME NEW k \in DOMAIN children', children'[k].row.kind = "eol"
        PROVE  (NoneComing(k, children[k].row.name))'
    <3>1. CASE k \in DOMAIN children BY <3>1, <2>7, <1>1, <1>4
    <3>2. CASE k = m
      <4>1. (children[k].row.name)' = r.name /\ r.kind = "eol" BY <3>2, <2>1, <2>7, <1>4
      <4>2. NoneComing(k, r.name)' BY <4>1, <3>2, <2>6
      <4> QED BY <4>1, <4>2 DEF NoneComing
    <3> QED BY <3>1, <3>2, <2>1, <1>4
  <2> QED BY <2>7 DEF BufferOrdered
<1> QED BY <1>2, <1>3, <1>4, ChildrenStep

LEMMA UnrunIs ==
  ASSUME IsSeq(children), pos \in Nat
  PROVE  Ran \in Nat /\ \A j : UnrunC(j) <=> j \in DOMAIN children /\ j > Ran
<1>1. DOMAIN children \subseteq Nat \ {0} BY DEF IsSeq
<1> QED BY <1>1 DEF UnrunC, Ran

(* What the next step does to the operating systems.                       *)
LEMMA RanStep ==
  ASSUME IInv, Next, pc' # "failed"
  PROVE  \/ /\ FlushChild /\ Ran = pos /\ Ran' = pos + 1 /\ children' = children /\ pos \in Nat
            /\ pos + 1 \in DOMAIN children
         \/ FlushChildrenEnd /\ Ran = Len(children) /\ UNCHANGED <<oses, eols>>
         \/ Ran' = Ran /\ Ran = 0 /\ UNCHANGED <<oses, eols>>
<1> USE DEF buffers, store
<1>0. ControlOK /\ pos \in Nat /\ IsSeq(children) BY DEF IInv, ControlOK, BuffersOK
<1>1. CASE FlushChild
  <2>1. pc = "flushChildren" /\ pc' = pc /\ pos' = pos + 1 /\ children' = children /\ pos < Len(children)
    BY <1>1 DEF FlushChild
  <2>2. pos + 1 \in DOMAIN children BY <2>1, <1>0 DEF IsSeq
  <2> QED BY <2>1, <2>2, <1>0, <1>1 DEF Ran
<1>2. CASE FlushChildrenEnd BY <1>2 DEF FlushChildrenEnd, Ran
<1>3. CASE FlushParent BY <1>3 DEF FlushParent, Ran
<1>4. CASE FlushParentsEnd BY <1>4 DEF FlushParentsEnd, Ran
<1>5. CASE AddParent \/ AddChild
  <2>1. pc = "write" /\ pc' \in {"write", "flushParents"} /\ UNCHANGED <<oses, eols>>
    BY <1>5 DEF AddParent, AddChild
  <2> QED BY <2>1 DEF Ran
<1>6. CASE EntryDone
  <2>1. pc = "write" /\ pc' = Head(then) /\ UNCHANGED <<oses, eols>> /\ then \in {<<"read">>, <<"close">>}
    BY <1>0, <1>6 DEF EntryDone, ControlOK
  <2>2. pc' \in {"read", "close"} BY <2>1, Tuples
  <2> QED BY <2>1, <2>2 DEF Ran
<1>7. CASE DropRecord \/ HoldEntry \/ StartEntry \/ Reconcile \/ NextHeld \/ CloseFlush \/ Finish
  <2>1. /\ pc \in {"read", "close", "finish"} /\ UNCHANGED <<oses, eols>>
        /\ pc' \in {"read", "write", "close", "flushParents", "done"}
    BY <1>7 DEF DropRecord, HoldEntry, StartEntry, Reconcile, NextHeld, CloseFlush, Finish
  <2> QED BY <2>1 DEF Ran
<1>8. ~(ReadFails \/ MissingFixDate \/ StoreFails \/ NothingProcessed)
  BY DEF ReadFails, MissingFixDate, StoreFails, NothingProcessed
<1> QED BY <1>1, <1>2, <1>3, <1>4, <1>5, <1>6, <1>7, <1>8 DEF Next

LEMMA AllSettledStep ==
  ASSUME IInv, IInv', ContentInv, Next, pc' # "failed", BufferOrdered, AllSettled
  PROVE  AllSettled'
<1>0. /\ pc # "failed" /\ input \in Inputs /\ input' = input
      /\ IsSeq(children) /\ IsSeq(children') /\ pos \in Nat /\ pos' \in Nat /\ next \in Nat
  <2>1. input' = input
    BY DEF Next, ReadFails, DropRecord, HoldEntry, StartEntry, AddParent, AddChild, MissingFixDate,
           EntryDone, FlushParent, FlushParentsEnd, FlushChild, FlushChildrenEnd, StoreFails,
           NothingProcessed, Reconcile, NextHeld, CloseFlush, Finish, fixed
  <2> QED BY <2>1, NotFailed DEF IInv, ControlOK, BuffersOK, ContentInv
<1>1. Ran \in Nat /\ \A j : UnrunC(j) <=> j \in DOMAIN children /\ j > Ran BY <1>0, UnrunIs
<1>2. \A j : UnrunC(j)' <=> j \in DOMAIN children' /\ j > Ran'
  <2>1. DOMAIN children' \subseteq Nat \ {0} BY <1>0 DEF IsSeq
  <2> QED BY <2>1, <1>0 DEF UnrunC, Ran
<1> SUFFICES ASSUME NEW e \in InSeq(input), e.supported,
                    NEW i \in DOMAIN e.related, e.related[i].kind = "eol"
             PROVE  DateSettled(e, i)'
  BY <1>0 DEF AllSettled
<1>3. EntryOK(e) /\ i \in Nat \ {0} /\ i <= Len(e.related) /\ Len(e.related) \in Nat
  BY <1>0, InputIs, RelatedSeq
<1>4. e.related[i] \in Rows(e) /\ e.kind \notin {"go", "ghsa"} BY <1>3 DEF EntryOK, Rows
<1>5. PICK n : n = e.related[i].name OBVIOUS
<1>6. DateSettled(e, i) BY DEF AllSettled
<1>7. CASE e \in InSeq(todo)
  <2>1. CASE e \in InSeq(todo') BY <2>1 DEF DateSettled
  <2>2. CASE e \notin InSeq(todo')
    <3>1. (DropRecord \/ HoldEntry \/ StartEntry) /\ e = Head(todo) BY <2>2, <1>7, TodoStep
    <3>2. StartEntry BY <3>1, <1>4 DEF DropRecord, HoldEntry, Holds
    <3>3. Writing' /\ cur' = e /\ next' = 0 BY <3>1, <3>2 DEF StartEntry, Writing
    <3> QED BY <3>3, <1>3 DEF DateSettled
  <2> QED BY <2>1, <2>2
<1>8. CASE Writing /\ cur = e /\ i >= next
  <2>1. CASE AddChild
    <3>0. Writing' /\ cur' = cur BY <2>1, <1>0, <1>8, ControlMoves
    <3>1. Writing' /\ cur' = cur /\ next' = next + 1 BY <3>0, <2>1 DEF AddChild
    <3>2. CASE i # next BY <3>1, <3>2, <1>0, <1>3, <1>8 DEF DateSettled
    <3>3. CASE i = next
      <4>1. PICK m : m = Len(children) + 1 OBVIOUS
      <4>2. m \in DOMAIN children' /\ children'[m].row = cur.related[next] /\ m \in Nat \ {0}
        <5>1. children' # children
          <6>1. Len(children) \in Nat BY <1>0 DEF IsSeq
          <6>2. Len(children') = Len(children) + 1 BY <2>1, <1>0 DEF AddChild, IsSeq
          <6> QED BY <6>1, <6>2
        <5>2. ~FlushChildrenEnd BY <2>1 DEF AddChild, FlushChildrenEnd
        <5> QED BY <5>1, <5>2, <4>1, ChildrenStep
      <4>3. Ran' = 0
        <5>1. pc' # "flushChildren" BY <2>1 DEF AddChild
        <5> QED BY <5>1 DEF Ran
      <4>4. UnrunC(m)' BY <4>2, <4>3, <1>2
      <4> QED BY <4>2, <4>4, <3>3, <1>8 DEF DateSettled
    <3> QED BY <3>2, <3>3
  <2>2. CASE AddParent
    <3>0. Writing' /\ cur' = cur BY <2>2, <1>0, <1>8, ControlMoves
    <3>1. Writing' /\ cur' = cur /\ next' = 1 BY <3>0, <2>2 DEF AddParent
    <3> QED BY <3>1, <1>3, <1>8 DEF DateSettled
  <2>3. CASE FlushParent \/ FlushParentsEnd \/ FlushChild \/ FlushChildrenEnd
    <3>1. Writing' /\ cur' = cur BY <2>3, <1>0, <1>8, ControlMoves
    <3>2. next' = next BY <2>3 DEF FlushParent, FlushParentsEnd, FlushChild, FlushChildrenEnd, writing
    <3> QED BY <3>1, <3>2, <1>8 DEF DateSettled
  <2>4. ~EntryDone BY <1>3, <1>8 DEF EntryDone
  <2>5. ~(ReadFails \/ MissingFixDate \/ StoreFails \/ NothingProcessed)
    BY DEF ReadFails, MissingFixDate, StoreFails, NothingProcessed
  <2>6. ~(DropRecord \/ HoldEntry \/ StartEntry \/ Reconcile \/ NextHeld \/ CloseFlush \/ Finish)
    BY <1>8 DEF DropRecord, HoldEntry, StartEntry, Reconcile, NextHeld, CloseFlush, Finish, Writing
  <2> QED BY <2>1, <2>2, <2>3, <2>4, <2>5, <2>6 DEF Next
<1>9. CASE \E j \in DOMAIN children : UnrunC(j) /\ children[j].row = e.related[i]
  <2>1. PICK j \in DOMAIN children : UnrunC(j) /\ children[j].row = e.related[i] BY <1>9
  <2>2. j \in Nat /\ j > Ran BY <2>1, <1>0, <1>1 DEF IsSeq
  <2>3. CASE FlushChild /\ j = pos + 1
    <3>1. Ran' = j /\ pc = "flushChildren"
      <4>1. Ran' = pos + 1
        <5>1. pc = "flushChildren" /\ pc' = pc /\ pos' = pos + 1 BY <2>3 DEF FlushChild
        <5> QED BY <5>1 DEF Ran
      <4> QED BY <4>1, <2>3 DEF FlushChild
    <3>2. /\ eols' = IF n \in oses THEN eols \cup {n} ELSE eols
          /\ oses' = oses
      BY <2>1, <2>3, <1>5 DEF FlushChild, Run
    <3>3. NoneComing(j, n) BY <2>1, <1>5 DEF BufferOrdered
    <3>4. NoneComing(j, n)' BY <3>3, NoneComingStays
    <3>5. NoneComing(Ran, n)' BY <3>1, <3>4 DEF NoneComing
    <3>6. CASE n \in oses BY <3>2, <3>6, <1>5 DEF DateSettled
    <3>7. CASE n \notin oses BY <3>2, <3>5, <3>7, <1>5 DEF DateSettled
    <3> QED BY <3>6, <3>7
  <2>4. CASE ~(FlushChild /\ j = pos + 1)
    <3>1. ~FlushChildrenEnd
      <4>1. DOMAIN children = 1..Len(children) /\ Len(children) \in Nat BY <1>0 DEF IsSeq
      <4>2. FlushChildrenEnd => Ran = Len(children) BY DEF FlushChildrenEnd, Ran
      <4> QED BY <4>1, <4>2, <2>1, <2>2
    <3>2. j \in DOMAIN children' /\ children'[j] = children[j] BY <3>1, ChildrenStep
    <3>3. j > Ran'
      <4>1. Ran' = Ran \/ (FlushChild /\ Ran = pos /\ Ran' = pos + 1 /\ pos \in Nat) BY <3>1, RanStep
      <4> QED BY <4>1, <2>2, <2>4
    <3>4. UnrunC(j)' BY <3>2, <3>3, <1>2
    <3> QED BY <3>2, <3>4, <2>1 DEF DateSettled
  <2> QED BY <2>3, <2>4
<1>10. CASE n \in eols
  <2>1. n \in eols' BY <1>10, RanStep DEF FlushChild, Run
  <2> QED BY <2>1, <1>5 DEF DateSettled
<1>11. CASE n \notin oses /\ NoneComing(Ran, n)
  <2>1. PICK j : j = Ran OBVIOUS
  <2>2. NoneComing(j, n)' BY <2>1, <1>11, NoneComingStays
  <2>3. CASE FlushChild /\ Ran = pos /\ Ran' = pos + 1 /\ pos \in Nat /\ pos + 1 \in DOMAIN children
    <3>1. ~NamesOS(children[pos + 1].row, n) BY <2>3, <1>11 DEF NoneComing
    <3>2. n \notin oses' BY <3>1, <2>3, <1>11 DEF FlushChild, Run, NamesOS
    <3>3. \A k \in DOMAIN children' : k > Ran' => k > j
      <4>1. DOMAIN children' \subseteq Nat BY <1>0 DEF IsSeq
      <4> QED BY <4>1, <2>1, <2>3
    <3>4. NoneComing(Ran, n)' BY <3>3, <2>2 DEF NoneComing
    <3> QED BY <3>2, <3>4, <1>5 DEF DateSettled
  <2>4. CASE FlushChildrenEnd /\ UNCHANGED <<oses, eols>>
    <3>1. DOMAIN children' = {} BY <2>4, NoElements DEF FlushChildrenEnd
    <3>2. NoneComing(Ran, n)' BY <3>1, <2>2 DEF NoneComing
    <3> QED BY <3>2, <2>4, <1>5, <1>11 DEF DateSettled
  <2>5. CASE Ran' = Ran /\ UNCHANGED <<oses, eols>>
    <3>1. NoneComing(Ran, n)' BY <2>1, <2>2, <2>5 DEF NoneComing
    <3> QED BY <3>1, <2>5, <1>5, <1>11 DEF DateSettled
  <2> QED BY <2>3, <2>4, <2>5, RanStep
<1> QED BY <1>5, <1>6, <1>7, <1>8, <1>9, <1>10, <1>11 DEF DateSettled

LEMMA InitAmend == Init => AmendInv
<1> SUFFICES ASSUME Init PROVE SeverityInv /\ EOLInv BY DEF AmendInv
<1>0. /\ pc = "read" /\ input \in Inputs /\ todo = input
      /\ parents = <<>> /\ children = <<>> /\ vulns = <<>> /\ severityCache = [c \in CVEs |-> 0]
  BY DEF Init
<1>1. ~Writing BY <1>0 DEF Writing
<1>2. DOMAIN parents = {} /\ DOMAIN children = {} /\ DOMAIN vulns = {} BY <1>0, NoElements
<1>3. SeverityInv BY <1>0, <1>1, <1>2 DEF SeverityInv, CurFrom, CacheSound, CacheFull
<1>4. TodoOrdered
  <2>1. ASSUME NEW i \in DOMAIN input, NEW j \in DOMAIN input,
               NEW r \in Rows(input[i]), NEW q \in Rows(input[j]), r.kind = "eol", NamesOS(q, r.name)
        PROVE  j < i
    <3>1. q \in Packages(input[j]) /\ r.name \in q.os BY <2>1 DEF NamesOS, Packages
    <3> QED BY <3>1, <2>1, <1>0, FeedsAssumption
  <2> QED BY <2>1, <1>0 DEF TodoOrdered
<1>5. BufferOrdered /\ CurOrdered BY <1>1, <1>2 DEF BufferOrdered, CurOrdered
<1>6. AllSettled BY <1>0 DEF AllSettled, DateSettled
<1> QED BY <1>3, <1>4, <1>5, <1>6 DEF EOLInv

LEMMA StutterAmend ==
  ASSUME AmendInv, UNCHANGED vars
  PROVE  AmendInv'
<1> USE DEF vars
<1> SUFFICES ASSUME pc # "failed" PROVE SeverityInv' /\ EOLInv' BY DEF AmendInv
<1>1. (Writing' <=> Writing) /\ (Reading' <=> Reading) BY DEF Writing, Reading
<1>2. SeverityInv /\ EOLInv BY DEF AmendInv
<1>3. (\A i \in DOMAIN parents : SeverityOf(parents[i]))' /\ (\A i \in DOMAIN vulns : SeverityOf(vulns[i]))'
  BY <1>2, SeveritiesStay DEF SeverityInv
<1>4. CurFrom' /\ CacheSound' /\ CacheFull' BY <1>1, <1>2 DEF SeverityInv, CurFrom, CacheSound, CacheFull
<1>5. \A j, n : NoneComing(j, n) => NoneComing(j, n)' BY <1>1 DEF NoneComing
<1>6. TodoOrdered' BY <1>2 DEF EOLInv, TodoOrdered
<1>7. CurOrdered' BY <1>1, <1>2 DEF EOLInv, CurOrdered
<1>8. BufferOrdered' BY <1>1, <1>2 DEF EOLInv, BufferOrdered, NoneComing
<1>9. AllSettled' BY <1>1, <1>2 DEF EOLInv, AllSettled, DateSettled, NoneComing, Ran, UnrunC
<1> QED BY <1>3, <1>4, <1>6, <1>7, <1>8, <1>9 DEF SeverityInv, EOLInv

(* The severity cache and the order of the end-of-life dates, in every     *)
(* state of a build.                                                       *)
THEOREM AmendInvariant == Spec => []AmendInv
<1>1. IInv /\ IInv' /\ ContentInv /\ AmendInv /\ [Next]_vars => AmendInv'
  <2> SUFFICES ASSUME IInv, IInv', ContentInv, AmendInv, [Next]_vars PROVE AmendInv' OBVIOUS
  <2>1. CASE UNCHANGED vars BY <2>1, StutterAmend
  <2>2. CASE Next
    <3> SUFFICES ASSUME pc' # "failed" PROVE SeverityInv' /\ EOLInv' BY DEF AmendInv
    <3>1. SeverityInv /\ EOLInv BY <2>2, NotFailed DEF AmendInv
    <3>2. SeverityInv' BY <2>2, <3>1, SeverityStep
    <3>3. TodoOrdered /\ BufferOrdered /\ CurOrdered /\ AllSettled BY <3>1 DEF EOLInv
    <3>4. TodoOrdered' BY <2>2, <3>3, TodoOrderedStep
    <3>5. BufferOrdered' BY <2>2, <3>3, BufferOrderedStep
    <3>6. CurOrdered' BY <2>2, <3>3, CurOrderedStep
    <3>7. AllSettled' BY <2>2, <3>3, AllSettledStep
    <3> QED BY <3>2, <3>4, <3>5, <3>6, <3>7 DEF EOLInv
  <2> QED BY <2>1, <2>2
<1> QED BY <1>1, InitAmend, ContentInvariant, PTL DEF Spec

LEMMA DoneAmended ==
  ASSUME IInv, ContentInv, AmendInv
  PROVE  AmendmentsReach
<1>1. EOLApplied
  <2> SUFFICES ASSUME pc = "done", NEW e \in InSeq(input), NEW r \in Rows(e),
                      e.supported, r.kind = "eol", r.name \in oses
               PROVE  r.name \in eols
    BY DEF EOLApplied
  <2>1. ~Writing /\ ~Reading BY DEF Writing, Reading
  <2>2. todo = <<>> /\ InSeq(todo) = {} BY <2>1, TodoFrom, NoElements
  <2>3. DOMAIN children = {} BY DoneContent, NoElements
  <2>4. PICK i \in DOMAIN e.related : r = e.related[i] BY DEF Rows
  <2>5. DateSettled(e, i) BY <2>4 DEF AmendInv, EOLInv, AllSettled
  <2> QED BY <2>1, <2>2, <2>3, <2>4, <2>5 DEF DateSettled
<1>2. HeldSeverity
  <2> SUFFICES ASSUME pc = "done", NEW v \in InSeq(vulns),
                      Original(v.key).kind = "go", NeedsSeverity(Original(v.key))
               PROVE  v.sev \in NVDSeverities(Original(v.key))
    BY DEF HeldSeverity
  <2>1. SeverityOf(v) BY DEF AmendInv, SeverityInv, InSeq
  <2>2. PICK e \in InSeq(input) : e.key = v.key BY <2>1 DEF SeverityOf
  <2>3. input \in Inputs BY DEF ContentInv
  <2>4. \A x \in InSeq(input) : x.key = v.key <=> x = e BY <2>2, <2>3, InputIs
  <2>5. Original(v.key) = e BY <2>2, <2>4 DEF Original
  <2> QED BY <2>1, <2>2, <2>5 DEF SeverityOf
<1> QED BY <1>1, <1>2 DEF AmendmentsReach

(* In a finished build every operating system that a package named has its *)
(* end-of-life date, and a GO record held until Close has the severity of  *)
(* an NVD record of its CVEs if it had none: for every order of the feeds  *)
(* and every place where the writer's buffers were flushed.                *)
THEOREM AmendmentsReachTheirRows == Spec => []AmendmentsReach
<1>1. IInv /\ ContentInv /\ AmendInv => AmendmentsReach BY DoneAmended
<1> QED BY <1>1, ContentInvariant, AmendInvariant, PTL
=============================================================================
