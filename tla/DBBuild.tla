------------------------------- MODULE DBBuild ------------------------------
(***************************************************************************)
(* db.Build (grype/db/build.go) with the version 6 writer                  *)
(* (grype/db/v6/build/writer.go).  The records of the providers are read   *)
(* one after the other and written as entries: a vulnerability (or only a  *)
(* provider) and rows related to it.  Writes are functions put into two    *)
(* buffers, parents and children, that are run when one is full; the ID a  *)
(* child row refers to is read from its vulnerability when it is run.  Go  *)
(* records are held back until Close (GoVulnMerge).                        *)
(*                                                                         *)
(* Abstractions.  A severity is 0 (none), 1 (a value that is "unknown") or *)
(* more; an NVD record names its CVE in cves, other entries the CVEs that  *)
(* fillInMissingSeverity looks up, in order.  A row is of a package, of a  *)
(* CPE, an end-of-life date ("eol") or plain (KEV, EPSS, CWE).             *)
(***************************************************************************)
EXTENDS GoVulnMerge, FiniteSetsExt

CONSTANTS
  Keys,         \* identities of entries
  CVEs,         \* CVE IDs
  Inputs,       \* the possible inputs: sequences of entries, by provider
  BatchSizes    \* the batch sizes tried

(* Inputs are sequences of records with a key and a vuln field at least.   *)
ASSUME BuildAssumption ==
  /\ \A s \in Inputs : /\ s \in Seq(InSeq(s))
                       /\ \A e \in InSeq(s) : {"key", "vuln"} \subseteq DOMAIN e /\ e.key \in Keys
  /\ BatchSizes \subseteq Nat

(* What the transformers give the writer.  A record whose name makes it a  *)
(* GHSA or a GO record is a vulnerability of language packages; those of   *)
(* NVD name their CVE.                                                     *)
EntryOK(e) ==
  /\ {"key", "name", "supported", "vuln", "kind", "rejected", "cves", "nvd", "sev", "aliases",
      "published", "related"} \subseteq DOMAIN e
  /\ {e.supported, e.vuln, e.nvd} \subseteq BOOLEAN
  /\ e.related \in Seq(Rows(e)) /\ e.cves \in Seq(CVEs) /\ e.sev \in Nat
  /\ \A r \in Rows(e) : {"kind", "name", "imports", "os", "fixes", "dated"} \subseteq DOMAIN r
  /\ e.kind \in {"go", "ghsa"} =>
       e.vuln /\ ~e.nvd /\ \A r \in Rows(e) : r.kind # "eol" /\ r.os = {}
  /\ e.kind \notin {"go", "ghsa"} => e.kind = "other"
  /\ e.nvd => e.vuln /\ e.cves # <<>>

(* Every record has a key of its own, and the end-of-life dates of an      *)
(* operating system come after the packages that name it.                  *)
ASSUME FeedsAssumption ==
  \A s \in Inputs :
    /\ \A e \in InSeq(s) : EntryOK(e)
    /\ \A i, j \in DOMAIN s : s[i].key = s[j].key => i = j
    /\ \A i, j \in DOMAIN s : \A r \in Rows(s[i]), q \in Packages(s[j]) :
         r.kind = "eol" /\ r.name \in q.os => j < i

VARIABLES
  pc, then,      \* where the build is, and where it goes on after a flush
  input,         \* history: all entries of the build
  todo,          \* entries not yet read
  strict,        \* failOnMissingFixDate
  batchSize,     \* parentBatchSize and childBatchSize
  processed,     \* some record was processed
  ghsas, gos,    \* the entries goMerge holds, in order of arrival
  queue,         \* reconciled entries that Close has still to write
  cur, next,     \* the entry being written, and how far: 0 before its parent
  parents, children,  \* the buffered operations
  pos,           \* operations of the buffer being flushed that were run
  severityCache, \* [CVEs -> severity], 0 if not cached
  ids,           \* [Keys -> Nat]: VulnerabilityHandle.ID, 0 until stored
  vulns, rows,   \* the store: vulnerabilities, by ID, and rows related to them
  oses, eols     \* operating systems in the store, those with an end-of-life date

store == <<ids, vulns, rows, oses, eols>>

buffers == <<parents, children, pos, store>>

writing == <<cur, next>>

reading == <<todo, processed, ghsas, gos, queue>>

vars == <<pc, then, input, todo, strict, batchSize, processed, ghsas, gos, queue,
          cur, next, parents, children, pos, severityCache, ids, vulns, rows, oses, eols>>

fixed == <<input, strict, batchSize>>

NoEntry == [key |-> 0, vuln |-> FALSE]

Init ==
  /\ pc = "read" /\ then = <<>>
  /\ input \in Inputs /\ todo = input
  /\ strict \in BOOLEAN
  /\ batchSize \in BatchSizes \ {0}
  /\ processed = FALSE
  /\ ghsas = <<>> /\ gos = <<>> /\ queue = <<>>
  /\ cur = NoEntry /\ next = 0
  /\ parents = <<>> /\ children = <<>> /\ pos = 0
  /\ severityCache = [c \in CVEs |-> 0]
  /\ ids = [k \in Keys |-> 0]
  /\ vulns = <<>> /\ rows = <<>> /\ oses = {} /\ eols = {}

(***************************************************************************)
(* build: reading.                                                         *)
(***************************************************************************)
(* A result cannot be opened, read or processed; a read error of a results *)
(* database comes as an opener that fails.                                 *)
ReadFails ==
  /\ pc = "read" /\ todo # <<>>
  /\ pc' = "failed"
  /\ UNCHANGED <<then, reading, writing, buffers, severityCache, fixed>>

(* A record no processor supports is counted and dropped.                  *)
DropRecord ==
  /\ pc = "read" /\ todo # <<>> /\ ~Head(todo).supported
  /\ todo' = Tail(todo)
  /\ UNCHANGED <<pc, then, processed, ghsas, gos, queue, writing, buffers, severityCache, fixed>>

(* goMerge.hold: GO records and the first GHSA record of each name that    *)
(* has Go packages.                                                        *)
Holds(e) ==
  /\ e.vuln
  /\ \/ e.kind = "go"
     \/ e.kind = "ghsa" /\ \A h \in InSeq(ghsas) : h.name # e.name

HoldEntry ==
  /\ pc = "read" /\ todo # <<>> /\ Head(todo).supported /\ Holds(Head(todo))
  /\ todo' = Tail(todo)
  /\ processed' = TRUE
  /\ IF Head(todo).kind = "go"
     THEN gos' = Append(gos, Head(todo)) /\ UNCHANGED ghsas
     ELSE ghsas' = Append(ghsas, Head(todo)) /\ UNCHANGED gos
  /\ UNCHANGED <<pc, then, queue, writing, buffers, severityCache, fixed>>

StartEntry ==
  /\ pc = "read" /\ todo # <<>> /\ Head(todo).supported /\ ~Holds(Head(todo))
  /\ todo' = Tail(todo)
  /\ processed' = TRUE
  /\ cur' = Head(todo) /\ next' = 0
  /\ pc' = "write" /\ then' = <<"read">>
  /\ UNCHANGED <<ghsas, gos, queue, buffers, severityCache, fixed>>

(***************************************************************************)
(* writeEntryToBatch.                                                      *)
(***************************************************************************)
cached(e) == {i \in DOMAIN e.cves : severityCache[e.cves[i]] # 0}

(* fillInMissingSeverity: the severity of the stored vulnerability.        *)
Filled(e) ==
  IF e.nvd \/ e.sev > 1 \/ cached(e) = {} THEN e.sev ELSE severityCache[e.cves[Min(cached(e))]]

Cache(e) ==
  IF e.nvd /\ e.sev # 0 THEN [severityCache EXCEPT ![e.cves[1]] = e.sev] ELSE severityCache

(* A full buffer is flushed; children only after parents.                  *)
AddParent ==
  /\ pc = "write" /\ next = 0
  /\ next' = 1
  /\ parents' = Append(parents, [key |-> cur.key, vuln |-> cur.vuln, sev |-> Filled(cur)])
  /\ severityCache' = IF cur.vuln THEN Cache(cur) ELSE severityCache
  /\ IF Len(parents') >= batchSize
     THEN pc' = "flushParents" /\ then' = <<"write", Head(then)>>
     ELSE UNCHANGED <<pc, then>>
  /\ UNCHANGED <<reading, cur, children, pos, store, fixed>>

(* What an operation of the child buffer does when it is run: a row takes  *)
(* its vulnerability's ID then.  AddAffectedPackages creates the OS record *)
(* of the row; an end-of-life date only updates one.                       *)
Run(op) ==
  /\ IF op.row.kind = "eol"
     THEN /\ eols' = IF op.row.name \in oses THEN eols \cup {op.row.name} ELSE eols
          /\ UNCHANGED <<rows, oses>>
     ELSE /\ rows' = Append(rows, [key |-> op.key, vuln |-> op.vuln, row |-> op.row,
                                   id |-> IF op.vuln THEN ids[op.key] ELSE 0])
          /\ oses' = IF op.row.kind = "package" THEN oses \cup op.row.os ELSE oses
          /\ UNCHANGED eols
  /\ UNCHANGED <<ids, vulns>>

AddChild_EOLNow ==
  LET row == cur.related[next]
      op == [key |-> cur.key, vuln |-> cur.vuln, row |-> row]
  IN
  /\ pc = "write" /\ next \in 1..Len(cur.related)
  /\ ~(strict /\ row.kind = "package" /\ ~row.dated)
  /\ next' = next + 1
  /\ IF row.kind = "eol" THEN Run(op) /\ UNCHANGED children
                         ELSE children' = Append(children, op) /\ UNCHANGED store
  /\ IF Len(children') >= batchSize
     THEN pc' = "flushParents" /\ then' = <<"flushChildren", "write", Head(then)>>
     ELSE UNCHANGED <<pc, then>>
  /\ UNCHANGED <<reading, cur, parents, pos, severityCache, fixed>>

AddChild_ChildrenOnly ==
  LET row == cur.related[next] IN
  /\ pc = "write" /\ next \in 1..Len(cur.related)
  /\ ~(strict /\ row.kind = "package" /\ ~row.dated)
  /\ next' = next + 1
  /\ children' = Append(children, [key |-> cur.key, vuln |-> cur.vuln, row |-> row])
  /\ IF Len(children') >= batchSize
     THEN pc' = "flushChildren" /\ then' = <<"write", Head(then)>>
     ELSE UNCHANGED <<pc, then>>
  /\ UNCHANGED <<reading, cur, parents, pos, store, severityCache, fixed>>

AddChild ==
  LET row == cur.related[next] IN
  /\ pc = "write" /\ next \in 1..Len(cur.related)
  /\ ~(strict /\ row.kind = "package" /\ ~row.dated)
  /\ next' = next + 1
  /\ children' = Append(children, [key |-> cur.key, vuln |-> cur.vuln, row |-> row])
  /\ IF Len(children') >= batchSize
     THEN pc' = "flushParents" /\ then' = <<"flushChildren", "write", Head(then)>>
     ELSE UNCHANGED <<pc, then>>
  /\ UNCHANGED <<reading, cur, parents, pos, store, severityCache, fixed>>

(* ensureFixDates fails a strict build.                                    *)
MissingFixDate ==
  /\ pc = "write" /\ next \in 1..Len(cur.related)
  /\ strict /\ cur.related[next].kind = "package" /\ ~cur.related[next].dated
  /\ pc' = "failed"
  /\ UNCHANGED <<then, reading, writing, buffers, severityCache, fixed>>

EntryDone ==
  /\ pc = "write" /\ next = Len(cur.related) + 1
  /\ pc' = Head(then) /\ then' = Tail(then)
  /\ UNCHANGED <<reading, writing, buffers, severityCache, fixed>>

(***************************************************************************)
(* flushParentBatchLocked and flushChildBatchLocked.                       *)
(***************************************************************************)
(* AddVulnerabilities sets the ID of the vulnerability handle.             *)
FlushParent ==
  LET op == parents[pos + 1] IN
  /\ pc = "flushParents" /\ pos < Len(parents)
  /\ pos' = pos + 1
  /\ IF op.vuln
     THEN /\ vulns' = Append(vulns, [key |-> op.key, sev |-> op.sev])
          /\ ids' = [ids EXCEPT ![op.key] = Len(vulns) + 1]
     ELSE UNCHANGED <<vulns, ids>>
  /\ UNCHANGED <<pc, then, reading, writing, parents, children, rows, oses, eols,
                 severityCache, fixed>>

FlushParentsEnd_KeepsBuffer ==
  /\ pc = "flushParents" /\ pos = Len(parents)
  /\ pos' = 0
  /\ pc' = Head(then) /\ then' = Tail(then)
  /\ UNCHANGED <<reading, writing, parents, children, store, severityCache, fixed>>

FlushParentsEnd ==
  /\ pc = "flushParents" /\ pos = Len(parents)
  /\ parents' = <<>> /\ pos' = 0
  /\ pc' = Head(then) /\ then' = Tail(then)
  /\ UNCHANGED <<reading, writing, children, store, severityCache, fixed>>

FlushChild ==
  /\ pc = "flushChildren" /\ pos < Len(children)
  /\ pos' = pos + 1
  /\ Run(children[pos + 1])
  /\ UNCHANGED <<pc, then, reading, writing, parents, children, ids, severityCache, fixed>>

FlushChildrenEnd ==
  /\ pc = "flushChildren" /\ pos = Len(children)
  /\ children' = <<>> /\ pos' = 0
  /\ pc' = Head(then) /\ then' = Tail(then)
  /\ UNCHANGED <<reading, writing, parents, store, severityCache, fixed>>

(* The store refuses an operation: the error ends the build.               *)
StoreFails ==
  /\ \/ pc = "flushParents" /\ pos < Len(parents)
     \/ pc = "flushChildren" /\ pos < Len(children)
     \/ pc = "finish"
  /\ pc' = "failed"
  /\ UNCHANGED <<then, reading, writing, buffers, severityCache, fixed>>

(***************************************************************************)
(* The end: build reports that nothing was processed, or Close writes the  *)
(* reconciled entries, flushes both buffers and closes the store; Build    *)
(* then makes the indexes.                                                 *)
(***************************************************************************)
NothingProcessed ==
  /\ pc = "read" /\ todo = <<>> /\ ~processed
  /\ pc' = "failed"
  /\ UNCHANGED <<then, reading, writing, buffers, severityCache, fixed>>

Reconcile ==
  /\ pc = "read" /\ todo = <<>> /\ processed
  /\ queue' = reconcile(ghsas, gos)
  /\ ghsas' = <<>> /\ gos' = <<>>
  /\ pc' = "close"
  /\ UNCHANGED <<then, todo, processed, writing, buffers, severityCache, fixed>>

NextHeld ==
  /\ pc = "close" /\ queue # <<>>
  /\ queue' = Tail(queue)
  /\ IF Head(queue).supported
     THEN cur' = Head(queue) /\ next' = 0 /\ pc' = "write" /\ then' = <<"close">>
     ELSE UNCHANGED <<writing, pc, then>>
  /\ UNCHANGED <<todo, processed, ghsas, gos, buffers, severityCache, fixed>>

CloseFlush ==
  /\ pc = "close" /\ queue = <<>>
  /\ pc' = "flushParents" /\ then' = <<"flushChildren", "finish">>
  /\ UNCHANGED <<reading, writing, buffers, severityCache, fixed>>

Finish ==
  /\ pc = "finish"
  /\ pc' = "done"
  /\ UNCHANGED <<then, reading, writing, buffers, severityCache, fixed>>

Next ==
  \/ ReadFails \/ DropRecord \/ HoldEntry \/ StartEntry
  \/ AddParent \/ AddChild \/ MissingFixDate \/ EntryDone
  \/ FlushParent \/ FlushParentsEnd \/ FlushChild \/ FlushChildrenEnd \/ StoreFails
  \/ NothingProcessed \/ Reconcile \/ NextHeld \/ CloseFlush \/ Finish

Spec == Init /\ [][Next]_vars

-----------------------------------------------------------------------------
(* Foreign keys: a stored row refers to its own vulnerability, which is    *)
(* stored already, whatever the batch size and wherever in an entry the    *)
(* buffers fill up.                                                        *)
ForeignKeys ==
  \A i \in DOMAIN rows : rows[i].vuln =>
    /\ rows[i].id \in DOMAIN vulns
    /\ vulns[rows[i].id].key = rows[i].key

(* A build that succeeds has stored every supported entry exactly once,    *)
(* with its rows in order; a GO record may have been merged away.          *)
StoredOnce ==
  pc = "done" =>
    \A e \in InSeq(input) :
      LET vs  == {i \in DOMAIN vulns : vulns[i].key = e.key}
          rs  == {i \in DOMAIN rows : rows[i].key = e.key}
          due == {i \in DOMAIN e.related : e.related[i].kind # "eol"}
      IN IF ~e.supported THEN vs = {} /\ rs = {}
         ELSE /\ \A i, j \in vs : i = j
              /\ e.vuln /\ e.kind # "go" => vs # {}
              /\ e.kind # "go" =>
                   \E f \in [due -> rs] :
                     /\ \A i, j \in due : i < j => f[i] < f[j]
                     /\ \A k \in rs : \E i \in due : k = f[i]
                     /\ \A i \in due : LET r == rows[f[i]].row IN
                          IF e.kind = "other" THEN r = e.related[i] ELSE r.name = e.related[i].name

(* The providers being sorted with "eol" last, no end-of-life date of an   *)
(* operating system the database has is dropped, though it is only one of  *)
(* the buffered operations.                                                *)
EOLApplied ==
  pc = "done" =>
    \A e \in InSeq(input) : \A r \in Rows(e) :
      e.supported /\ r.kind = "eol" /\ r.name \in oses => r.name \in eols

Original(k) == CHOOSE e \in InSeq(input) : e.key = k

NVDSeverities(e) ==
  {n.sev : n \in {x \in InSeq(input) : x.supported /\ x.nvd /\ x.sev # 0 /\ x.cves[1] \in InSeq(e.cves)}}

NeedsSeverity(e) == ~e.nvd /\ e.sev <= 1 /\ NVDSeverities(e) # {}

(* Entries held until Close get the severity of an NVD record if they have *)
(* none of their own, whichever provider came first.                       *)
HeldSeverity ==
  pc = "done" =>
    \A v \in InSeq(vulns) : LET e == Original(v.key) IN
      e.kind = "go" /\ NeedsSeverity(e) => v.sev \in NVDSeverities(e)

Says(r, p) ==
  \A i \in DOMAIN p.imports :
    /\ i \in DOMAIN r.imports
    /\ \/ r.imports[i] = {}
       \/ p.imports[i] # {} /\ p.imports[i] \subseteq r.imports[i]

(* Merging loses no Go advisory: each package of a GO record is stored     *)
(* with it, or an advisory it aliases that was not withdrawn is stored for *)
(* the same module with at least the same vulnerable symbols.              *)
GoKept ==
  pc = "done" =>
    \A g \in InSeq(input) : g.kind = "go" /\ g.supported =>
      \A p \in Packages(g) :
        \E s \in InSeq(rows) :
          /\ s.row.kind = "package" /\ s.row.name = p.name /\ Says(s.row, p)
          /\ \/ s.key = g.key
             \/ LET h == Original(s.key) IN h.name \in g.aliases /\ ~h.rejected

(* What another feed amends reaches the rows it is about, whenever the     *)
(* feeds come and the buffers are flushed: end-of-life dates their         *)
(* operating systems, NVD's severities the entries held until Close.       *)
AmendmentsReach ==
  /\ EOLApplied
  /\ HeldSeverity

=============================================================================
