--------------------------- MODULE DBCuratorProofs ---------------------------
(***************************************************************************)
(* Proofs about the database curator, for any number of processes and of   *)
(* directories, any configuration, and any number of crashes.              *)
(***************************************************************************)
EXTENDS DBCurator, TLAPS

-----------------------------------------------------------------------------
(* Typing of the records the actions build *)

LEMMA IdleType == IdleProc \in Process
BY CuratorAssumption DEF IdleProc, Process, Labels, AllJobs, NoFile, DBFile

LEMMA ProcFields ==
  ASSUME NEW r \in Process
  PROVE  /\ r.pc \in Labels
         /\ r.job \in AllJobs \cup {"none"}
         /\ r.cur \in Nat /\ r.cand \in Nat /\ r.seen \in Nat
         /\ r.tmp \in Dirs \cup {NoDir}
         /\ r.victim \in Dirs \cup {NoDir}
         /\ r.names \in SUBSET FileNames
         /\ r.wdir \in Dirs \cup {NoDir}
         /\ r.sum \in DBFile
         /\ r.rdir \in Dirs \cup {NoDir}
         /\ r.snap \in DBFile
BY DEF Process

LEMMA SetPc ==
  ASSUME NEW r \in Process, NEW l \in Labels
  PROVE  [r EXCEPT !.pc = l] \in Process
BY DEF Process

LEMMA SetPcJob ==
  ASSUME NEW l \in Labels, NEW j \in AllJobs
  PROVE  [IdleProc EXCEPT !.pc = l, !.job = j] \in Process
BY CuratorAssumption DEF IdleProc, Process, Labels, AllJobs, NoFile, DBFile

LEMMA SetPcJobCand ==
  ASSUME NEW l \in Labels, NEW j \in AllJobs, NEW b \in Nat
  PROVE  [IdleProc EXCEPT !.pc = l, !.job = j, !.cand = b] \in Process
BY CuratorAssumption, ZenonT(60) DEF IdleProc, Process, Labels, AllJobs, NoFile, DBFile

LEMMA SetCur ==
  ASSUME NEW r \in Process, NEW l \in Labels, NEW b \in Nat
  PROVE  [r EXCEPT !.cur = b, !.pc = l] \in Process
BY DEF Process

LEMMA SetCand ==
  ASSUME NEW r \in Process, NEW l \in Labels, NEW b \in Nat, NEW c \in Nat
  PROVE  [r EXCEPT !.seen = b, !.cand = c, !.pc = l] \in Process
BY DEF Process

LEMMA SetTmp ==
  ASSUME NEW r \in Process, NEW l \in Labels, NEW d \in Dirs \cup {NoDir}
  PROVE  [r EXCEPT !.pc = l, !.tmp = d] \in Process
BY DEF Process

LEMMA SetWdir ==
  ASSUME NEW r \in Process, NEW l \in Labels, NEW d \in Dirs \cup {NoDir}
  PROVE  [r EXCEPT !.pc = l, !.wdir = d] \in Process
BY DEF Process

LEMMA SetSum ==
  ASSUME NEW r \in Process, NEW l \in Labels, NEW f \in DBFile
  PROVE  [r EXCEPT !.pc = l, !.sum = f] \in Process
BY DEF Process

LEMMA SetVictim ==
  ASSUME NEW r \in Process, NEW l \in Labels, NEW d \in Dirs \cup {NoDir},
         NEW N \in SUBSET FileNames
  PROVE  [r EXCEPT !.pc = l, !.victim = d, !.names = N] \in Process
BY DEF Process

LEMMA SetNames ==
  ASSUME NEW r \in Process, NEW N \in SUBSET FileNames
  PROVE  [r EXCEPT !.names = N] \in Process
BY DEF Process

LEMMA SetReader ==
  ASSUME NEW r \in Process, NEW l \in Labels, NEW d \in Dirs \cup {NoDir},
         NEW f \in DBFile
  PROVE  [r EXCEPT !.pc = l, !.rdir = d, !.snap = f] \in Process
BY DEF Process

LEMMA FileTypes ==
  /\ NoFile \in DBFile
  /\ BlankFile \in DBFile
  /\ NoMeta \in Meta
  /\ [NoMeta EXCEPT !.state = "empty"] \in Meta
  /\ EmptyDir \in Dir
BY DEF NoFile, BlankFile, DBFile, NoMeta, Meta, EmptyDir, Dir

LEMMA DirFields ==
  ASSUME NEW d \in Dir
  PROVE  /\ d.db \in DBFile /\ d.meta \in Meta /\ d.check \in Nat
         /\ d.db.built \in Nat /\ d.db.bits \in Nat
         /\ d.meta.sum \in DBFile /\ d.meta.client \in Nat
BY DEF Dir, DBFile, Meta

LEMMA SetDir ==
  ASSUME NEW d \in Dir
  PROVE  /\ \A f \in DBFile : [d EXCEPT !.db = f] \in Dir
         /\ \A m \in Meta : [d EXCEPT !.meta = m] \in Dir
         /\ \A t \in Nat : [d EXCEPT !.check = t] \in Dir
         /\ [d EXCEPT !.db.bits = @ + 1] \in Dir
         /\ \A n \in FileNames : Without(d, n) \in Dir
<1>1. \A n \in FileNames : Without(d, n) \in Dir
  BY FileTypes DEF Without, Dir, FileNames
<1>2. [d EXCEPT !.db.bits = @ + 1] \in Dir
  BY DEF Dir, DBFile
<1> QED BY <1>1, <1>2 DEF Dir

LEMMA AfterUpdateType ==
  ASSUME TypeOK, NEW p \in Procs, NEW b \in BOOLEAN
  PROVE  AfterUpdate(p, b) \in Process
BY IdleType, SetPcJob DEF AfterUpdate, StatusProc, AllJobs, Labels

LEMMA AfterPurgeType ==
  ASSUME TypeOK, NEW p \in Procs, NEW b \in BOOLEAN
  PROVE  AfterPurge(p, b) \in Process
<1>1. [proc[p] EXCEPT !.pc = IF b THEN "cleanup" ELSE "rename",
                      !.victim = NoDir, !.names = {}] \in Process
  BY SetVictim DEF TypeOK, Labels
<1> QED BY <1>1, IdleType DEF AfterPurge

LEMMA AfterHydrateErrorType ==
  ASSUME TypeOK, NEW p \in Procs
  PROVE  AfterHydrateError(p) \in Process
BY SetWdir DEF AfterHydrateError, TypeOK, Labels

-----------------------------------------------------------------------------
(* Type correctness *)

LEMMA TypeStep ==
  ASSUME TypeOK, NEW p \in Procs, Step(p),
         proc[p].pc = "fetch" => proc[p].tmp # NoDir
  PROVE  TypeOK'
<1> USE CuratorAssumption DEF TypeOK, files, env, history
<1>1. CASE StartUpdate(p)
  <2>1. PICK j \in AllJobs :
          proc' = [proc EXCEPT ![p] = [IdleProc EXCEPT !.pc = "read", !.job = j]]
    BY <1>1 DEF StartUpdate
  <2>2. [IdleProc EXCEPT !.pc = "read", !.job = j] \in Process
    BY SetPcJob DEF Labels
  <2> QED BY <1>1, <2>1, <2>2 DEF StartUpdate
<1>2. CASE ReadCurrent(p)
  BY <1>2, SetCur, DirFields DEF ReadCurrent, Readable, Labels
<1>3. CASE Throttle(p)
  BY <1>3, SetPc, AfterUpdateType DEF Throttle, Labels
<1>4. CASE CheckOK(p)
  <2>1. PICK b \in 1 .. latest :
          LET update == isSupersededBy(proc[p].cur, b)
          IN  proc' = [proc EXCEPT ![p].seen = b,
                         ![p].cand = IF update THEN b ELSE 0,
                         ![p].pc   = IF update THEN "mktemp" ELSE "stamp"]
    BY <1>4 DEF CheckOK
  <2> DEFINE c == IF isSupersededBy(proc[p].cur, b) THEN b ELSE 0
             l == IF isSupersededBy(proc[p].cur, b) THEN "mktemp" ELSE "stamp"
  <2>2. b \in Nat /\ c \in Nat /\ l \in Labels
    BY DEF Labels
  <2>3. proc' = [proc EXCEPT ![p] = [proc[p] EXCEPT !.seen = b, !.cand = c, !.pc = l]]
    BY <2>1
  <2>4. [proc[p] EXCEPT !.seen = b, !.cand = c, !.pc = l] \in Process
    <3> HIDE DEF c, l
    <3> QED BY <2>2, SetCand
  <2> QED BY <1>4, <2>3, <2>4 DEF CheckOK
<1>5. CASE CheckFail(p)
  BY <1>5, AfterUpdateType DEF CheckFail
<1>6. CASE StartImport(p)
  <2>1. PICK j \in AllJobs, b \in 1 .. latest :
          proc' = [proc EXCEPT ![p] = [IdleProc EXCEPT !.pc = "mktemp", !.job = j,
                                                       !.cand = b]]
    BY <1>6 DEF StartImport
  <2>2. b \in Nat
    OBVIOUS
  <2>3. [IdleProc EXCEPT !.pc = "mktemp", !.job = j, !.cand = b] \in Process
    BY <2>2, SetPcJobCand DEF Labels
  <2> QED BY <1>6, <2>1, <2>3 DEF StartImport
<1>7. CASE MkdirTemp(p)
  <2>1. PICK d \in Dirs :
          /\ dirs' = [dirs EXCEPT ![d] = EmptyDir]
          /\ tainted' = tainted \ {d}
          /\ proc' = [proc EXCEPT ![p].pc = "fetch", ![p].tmp = d]
    BY <1>7 DEF MkdirTemp, Unused
  <2>2. [proc[p] EXCEPT !.pc = "fetch", !.tmp = d] \in Process
    BY SetTmp DEF Labels
  <2>3. proc' \in [Procs -> Process]
    BY <2>1, <2>2
  <2>4. dirs' \in [Dirs -> Dir]
    BY <2>1, FileTypes
  <2> QED BY <1>7, <2>1, <2>3, <2>4 DEF MkdirTemp
<1>8. CASE MkdirTempFail(p)
  BY <1>8, AfterUpdateType DEF MkdirTempFail
<1>9. CASE FetchOK(p)
  BY <1>9, SetPc, SetDir, ProcFields DEF FetchOK, Labels, DBFile
<1>10. CASE FetchFail(p)
  BY <1>10, AfterUpdateType, ProcFields DEF FetchFail
<1>11. CASE HydrateOK(p)
  BY <1>11, SetPc, SetDir DEF HydrateOK, Labels, Taint, Readable, Target, InPlace
<1>12. CASE HydrateFail(p)
  <2>1. proc' \in [Procs -> Process]
    BY <1>12, AfterHydrateErrorType DEF HydrateFail
  <2>2. dirs' \in [Dirs -> Dir]
    <3>1. CASE Target(p) = NoDir
      BY <1>12, <3>1 DEF HydrateFail
    <3>2. CASE Target(p) # NoDir
      <4> DEFINE t == Target(p)
      <4>1. t \in Dirs
        BY <3>2, ProcFields DEF Target
      <4>2. PICK touched \in BOOLEAN :
              dirs' = [dirs EXCEPT ![t].db = HalfHydrated(@, touched)]
        BY <1>12, <3>2 DEF HydrateFail
      <4>3. dirs' = [dirs EXCEPT ![t] =
                       [dirs[t] EXCEPT !.db = HalfHydrated(dirs[t].db, touched)]]
        BY <4>2
      <4>4. HalfHydrated(dirs[t].db, touched) \in DBFile
        BY <4>1, DirFields, FileTypes DEF DBFile, HalfHydrated
      <4> QED BY <4>1, <4>3, <4>4, SetDir
    <3> QED BY <3>1, <3>2
  <2> QED BY <1>12, <2>1, <2>2, ProcFields DEF HydrateFail, Taint, Target
<1>13. CASE TruncateMeta(p)
  <2>1. Target(p) \in Dirs
    BY <1>13, ProcFields DEF TruncateMeta, Target
  <2>2. [proc[p] EXCEPT !.pc = "digest", !.wdir = Target(p)] \in Process
    BY <2>1, SetWdir DEF Labels
  <2>3. proc' \in [Procs -> Process]
    BY <1>13, <2>2 DEF TruncateMeta
  <2>4. dirs' \in [Dirs -> Dir]
    BY <1>13, <2>1, SetDir, FileTypes DEF TruncateMeta
  <2> QED BY <1>13, <2>1, <2>3, <2>4 DEF TruncateMeta, Taint
<1>14. CASE DigestDB(p)
  <2>1. Target(p) \in Dirs
    BY <1>14, ProcFields DEF DigestDB, Target
  <2>2. [proc[p] EXCEPT !.pc = "write", !.sum = dirs[Target(p)].db] \in Process
    BY <2>1, SetSum, DirFields DEF Labels
  <2> QED BY <1>14, <2>2 DEF DigestDB
<1>15. CASE WriteMeta(p)
  <2> DEFINE w == proc[p].wdir
             m == IF dirs[w].meta.state = "none" THEN dirs[w].meta
                  ELSE [state |-> "full", sum |-> proc[p].sum, client |-> Client[p]]
             l == IF InPlace(p) THEN "reopen" ELSE "stat"
  <2>1. [proc[p] EXCEPT !.pc = l, !.wdir = NoDir] \in Process
    BY SetWdir DEF Labels
  <2>2. proc' \in [Procs -> Process]
    BY <1>15, <2>1 DEF WriteMeta
  <2>3. w \in Dirs => m \in Meta
    BY DirFields, ProcFields DEF Meta
  <2>4. dirs' = [dirs EXCEPT ![w] = [dirs[w] EXCEPT !.meta = m]]
    BY <1>15 DEF WriteMeta
  <2>5. dirs' \in [Dirs -> Dir]
    BY <2>3, <2>4, SetDir
  <2> QED BY <1>15, <2>2, <2>5 DEF WriteMeta
<1>16. CASE MetaFail(p)
  BY <1>16, AfterHydrateErrorType DEF MetaFail
<1>17. CASE StatDB(p)
  BY <1>17, SetPc DEF StatDB, Labels
<1>18. CASE StartDelete(p)
  BY <1>18, SetPcJob DEF StartDelete, AllJobs, Labels
<1>19. CASE PurgeOpen(p)
  BY <1>19, AfterPurgeType, SetVictim DEF PurgeOpen, Labels, Listing, FileNames
<1>20. CASE Unlink(p)
  <2>1. PICK n \in proc[p].names :
          /\ dirs' = [dirs EXCEPT ![proc[p].victim] = Without(dirs[proc[p].victim], n)]
          /\ proc' = [proc EXCEPT ![p] = [proc[p] EXCEPT !.names = proc[p].names \ {n}]]
    BY <1>20 DEF Unlink
  <2>2. n \in FileNames /\ proc[p].names \ {n} \in SUBSET FileNames
    BY ProcFields
  <2>3. proc' \in [Procs -> Process]
    BY <2>1, <2>2, SetNames
  <2>4. dirs' \in [Dirs -> Dir]
    BY <2>1, <2>2, SetDir
  <2> QED BY <1>20, <2>3, <2>4 DEF Unlink
<1>21. CASE Rmdir(p)
  BY <1>21, AfterPurgeType DEF Rmdir
<1>22. CASE RenameOK(p)
  BY <1>22, SetTmp, IdleType, ProcFields DEF RenameOK, Labels
<1>23. CASE RenameFail(p)
  BY <1>23, SetPc DEF RenameFail, Labels
<1>24. CASE Cleanup(p)
  BY <1>24, AfterUpdateType, FileTypes DEF Cleanup
<1>25. CASE Stamp(p)
  <2>1. proc' \in [Procs -> Process]
    BY <1>25, AfterUpdateType DEF Stamp
  <2>2. dirs' = [dirs EXCEPT ![dbPath] = [dirs[dbPath] EXCEPT !.check = now]]
    BY <1>25 DEF Stamp
  <2>3. dirs' \in [Dirs -> Dir]
    <3>1. dbPath \in Dirs /\ dirs[dbPath] \in Dir /\ now \in Nat
      BY <1>25 DEF Stamp, TypeOK
    <3>2. [dirs[dbPath] EXCEPT !.check = now] \in Dir
      BY <3>1, SetDir
    <3> QED BY <2>2, <3>1, <3>2 DEF TypeOK
  <2>4. stamped' \in Nat
    BY <1>25, ProcFields DEF Stamp
  <2> QED BY <1>25, <2>1, <2>3, <2>4 DEF Stamp
<1>26. CASE StartScan(p)
  BY <1>26, SetPcJob DEF StartScan, StatusProc, AllJobs, Labels
<1>27. CASE StatusAge(p)
  BY <1>27, SetPc, IdleType DEF StatusAge, Labels
<1>28. CASE StatusVerify(p)
  BY <1>28, SetPc, IdleType DEF StatusVerify, Labels
<1>29. CASE OpenReader(p)
  BY <1>29, SetReader, IdleType, DirFields DEF OpenReader, Readable, Labels
<1>30. CASE Decide(p)
  BY <1>30, SetReader, SetPc, IdleType, FileTypes DEF Decide, Labels
<1>31. CASE Reopen(p)
  BY <1>31, SetReader, IdleType, DirFields DEF Reopen, Readable, Labels
<1>32. CASE CloseReader(p)
  BY <1>32, IdleType DEF CloseReader
<1>33. CASE Crash(p)
  BY <1>33, IdleType, ProcFields DEF Crash
<1>34. CASE StampFail(p)
  <2>1. proc' \in [Procs -> Process]
    BY <1>34, AfterUpdateType DEF StampFail
  <2>2. CASE dirs' = dirs
    BY <1>34, <2>1, <2>2 DEF StampFail
  <2>3. CASE dbPath # NoDir /\ dirs' = [dirs EXCEPT ![dbPath].check = 0]
    <3>1. dirs' = [dirs EXCEPT ![dbPath] = [dirs[dbPath] EXCEPT !.check = 0]]
      BY <2>3
    <3>2. dirs' \in [Dirs -> Dir]
      <4>1. dbPath \in Dirs /\ dirs[dbPath] \in Dir
        BY <2>3 DEF TypeOK
      <4>2. [dirs[dbPath] EXCEPT !.check = 0] \in Dir
        BY <4>1, SetDir
      <4> QED BY <3>1, <4>1, <4>2 DEF TypeOK
    <3> QED BY <1>34, <2>1, <3>2 DEF StampFail
  <2> QED BY <1>34, <2>2, <2>3 DEF StampFail
<1> QED BY <1>1, <1>2, <1>3, <1>4, <1>5, <1>6, <1>7, <1>8, <1>9, <1>10, <1>11, <1>12, <1>13, <1>14, <1>15, <1>16, <1>17, <1>18, <1>19, <1>20, <1>21, <1>22, <1>23, <1>24, <1>25, <1>26, <1>27, <1>28, <1>29, <1>30, <1>31, <1>32, <1>33, <1>34 DEF Step

-----------------------------------------------------------------------------
(* The inductive invariant *)

LEMMA OwnTempFacts ==
  ASSUME NEW p \in Procs, NEW q \in Procs, OwnTemp(p), proc[p].tmp # NoDir
  PROVE  /\ proc[p].tmp # dbPath
         /\ proc[p].tmp \notin orphans
         /\ q # p => proc[q].tmp # proc[p].tmp
         /\ proc[q].victim # proc[p].tmp
         /\ proc[q].rdir # proc[p].tmp
BY DEF OwnTemp

\* What a step of p leaves alone stays well-formed for the other processes.
LEMMA OthersOK ==
  ASSUME IInv, NEW p \in Procs,
         \A q \in Procs : q # p => proc'[q] = proc[q],
         \A q \in Procs : (q # p /\ proc[q].tmp # NoDir)
            => /\ dirs'[proc[q].tmp] = dirs[proc[q].tmp]
               /\ proc[q].tmp \notin tainted',
         \A q \in Procs : (q # p /\ proc[q].wdir \in tainted)
            => proc[q].wdir \in tainted',
         ControlOK(proc[p])', BuildOK(proc[p])'
  PROVE  (\A q \in Procs : ControlOK(proc[q]) /\ BuildOK(proc[q]))'
<1> SUFFICES ASSUME NEW q \in Procs, q # p
             PROVE  ControlOK(proc[q])' /\ BuildOK(proc[q])'
  OBVIOUS
<1>1. proc'[q] = proc[q]
  OBVIOUS
<1>2. ControlOK(proc[q]) /\ BuildOK(proc[q])
  BY DEF IInv
<1>3. ControlOK(proc[q])'
  BY <1>1, <1>2 DEF ControlOK
<1>4. BuildOK(proc[q])'
  BY <1>1, <1>2 DEF BuildOK, HydratedIn
<1> QED BY <1>3, <1>4

\* A step that writes to no file: only p's locals change, the installed
\* directory may disappear, p's temp directory may be abandoned.
LEMMA QuietStep ==
  ASSUME IInv, TypeOK', NEW p \in Procs,
         \A q \in Procs : q # p => proc'[q] = proc[q],
         UNCHANGED <<dirs, tainted>>,
         dbPath' \in {dbPath, NoDir},
         \/ orphans' = orphans
         \/ orphans' = orphans \cup ({proc[p].tmp} \ {NoDir}) /\ proc'[p].tmp = NoDir,
         ControlOK(proc[p])', BuildOK(proc[p])',
         proc'[p].tmp \in {proc[p].tmp, NoDir},
         proc'[p].wdir \in {proc[p].wdir, NoDir},
         proc'[p].victim \in {proc[p].victim, NoDir, dbPath},
         \/ proc'[p].rdir = proc[p].rdir /\ proc'[p].snap = proc[p].snap
         \/ proc'[p].rdir = NoDir
         \/ Readable(dbPath) /\ proc'[p].rdir = dbPath /\ proc'[p].snap = dirs[dbPath].db
  PROVE  IInv'
<1>1. (\A q \in Procs : ControlOK(proc[q]) /\ BuildOK(proc[q]))'
  <2>1. \A q \in Procs : BuildOK(proc[q])
    BY DEF IInv
  <2> QED BY <2>1, OthersOK DEF BuildOK
<1>2. WritersApart'
  BY DEF IInv, WritersApart
<1>3. TempPrivate'
  <2> SUFFICES ASSUME NEW q \in Procs PROVE OwnTemp(q)'
    BY DEF TempPrivate
  <2>1. OwnTemp(q)
    BY DEF IInv, TempPrivate
  <2>2. proc'[q].tmp \in {proc[q].tmp, NoDir}
    OBVIOUS
  <2>3. proc'[q].tmp # NoDir => proc'[q].tmp # dbPath' /\ proc'[q].tmp \notin orphans'
    BY <2>1, <2>2 DEF OwnTemp
  <2> QED BY <2>1, <2>2, <2>3 DEF OwnTemp
<1>4. ChecksumSound'
  BY DEF IInv, ChecksumSound
<1>5. ReaderStable'
  <2> SUFFICES ASSUME NEW q \in Procs PROVE ReaderOK(proc[q])'
    BY DEF ReaderStable
  <2>1. CASE proc'[q].rdir = proc[q].rdir /\ proc'[q].snap = proc[q].snap
    BY <2>1 DEF IInv, ReaderStable, ReaderOK
  <2>2. CASE /\ Readable(dbPath) /\ proc'[q].rdir = dbPath
             /\ proc'[q].snap = dirs[dbPath].db
    BY <2>2 DEF IInv, ChecksumSound, Readable, NoFile, ReaderOK
  <2>3. CASE proc'[q].rdir = NoDir
    BY <2>3 DEF ReaderOK
  <2> QED BY <2>1, <2>2, <2>3
<1> QED BY <1>1, <1>2, <1>3, <1>4, <1>5 DEF IInv

\* A step in which p writes to its own temp directory only.
LEMMA TempStep ==
  ASSUME IInv, TypeOK', NEW p \in Procs,
         \A q \in Procs : q # p => proc'[q] = proc[q],
         proc[p].tmp # NoDir,
         \A d \in Dirs : d # proc[p].tmp => dirs'[d] = dirs[d],
         UNCHANGED <<dbPath, orphans, tainted>>,
         ControlOK(proc[p])', BuildOK(proc[p])',
         proc'[p].tmp \in {proc[p].tmp, NoDir},
         proc'[p].wdir \in {proc[p].wdir, proc[p].tmp, NoDir},
         proc'[p].victim \in {proc[p].victim, NoDir},
         \/ proc'[p].rdir = proc[p].rdir /\ proc'[p].snap = proc[p].snap
         \/ proc'[p].rdir = NoDir
  PROVE  IInv'
<1>1. \A q \in Procs : /\ proc[q].tmp \in Dirs \cup {NoDir}
                       /\ proc[q].rdir \in Dirs \cup {NoDir}
  BY ProcFields DEF IInv, TypeOK
<1>2. \A q \in Procs : OwnTemp(q) /\ BuildOK(proc[q])
  BY DEF IInv, TempPrivate
<1>3. (\A q \in Procs : ControlOK(proc[q]) /\ BuildOK(proc[q]))'
  BY <1>1, <1>2, OthersOK DEF BuildOK, OwnTemp
<1>4. WritersApart'
  BY <1>2 DEF IInv, WritersApart, OwnTemp
<1>5. TempPrivate'
  <2> SUFFICES ASSUME NEW q \in Procs PROVE OwnTemp(q)'
    BY DEF TempPrivate
  <2> QED BY <1>2 DEF OwnTemp
<1>6. ChecksumSound'
  <2>1. dbPath # NoDir => dirs'[dbPath] = dirs[dbPath]
    <3>1. proc[p].tmp # dbPath
      BY <1>2 DEF OwnTemp
    <3>2. dbPath # NoDir => dbPath \in Dirs
      BY DEF IInv, TypeOK
    <3> QED BY <3>1, <3>2
  <2> QED BY <2>1 DEF IInv, ChecksumSound
<1>7. ReaderStable'
  <2> SUFFICES ASSUME NEW q \in Procs PROVE ReaderOK(proc[q])'
    BY DEF ReaderStable
  <2>1. ReaderOK(proc[q])
    BY DEF IInv, ReaderStable
  <2>2. proc[q].rdir # NoDir => dirs'[proc[q].rdir] = dirs[proc[q].rdir]
    <3>1. proc[q].rdir # proc[p].tmp
      BY <1>2, OwnTempFacts
    <3> QED BY <1>1, <3>1
  <2>3. \/ proc'[q].rdir = proc[q].rdir /\ proc'[q].snap = proc[q].snap
        \/ proc'[q].rdir = NoDir
    OBVIOUS
  <2> QED BY <2>1, <2>2, <2>3 DEF ReaderOK
<1> QED BY <1>3, <1>4, <1>5, <1>6, <1>7 DEF IInv

\* A step that touches one directory that is nobody's temp directory: it only
\* unlinks files or writes the timestamp there, or the directory is tainted.
LEMMA SharedStep ==
  ASSUME IInv, TypeOK', NEW d \in Dirs,
         \A q \in Procs : proc[q].tmp # d,
         \A e \in Dirs : e # d => dirs'[e] = dirs[e],
         tainted' \in {tainted, tainted \cup {d}},
         UNCHANGED <<dbPath, orphans>>,
         \/ d \in tainted'
         \/ /\ dirs'[d].db \in {dirs[d].db, NoFile}
            /\ dirs'[d].meta \in {dirs[d].meta, NoMeta},
         (\A q \in Procs : ControlOK(proc[q]) /\ BuildOK(proc[q]))',
         \A q \in Procs :
           /\ proc'[q].tmp \in {proc[q].tmp, NoDir}
           /\ proc'[q].wdir \in {proc[q].wdir, d, NoDir}
           /\ proc'[q].victim \in {proc[q].victim, NoDir}
           /\ \/ proc'[q].rdir = proc[q].rdir /\ proc'[q].snap = proc[q].snap
              \/ proc'[q].rdir = NoDir
  PROVE  IInv'
<1>1. \A q \in Procs : proc[q].rdir \in Dirs \cup {NoDir}
  BY ProcFields DEF IInv, TypeOK
<1>2. WritersApart'
  BY DEF IInv, WritersApart
<1>3. TempPrivate'
  <2> SUFFICES ASSUME NEW q \in Procs PROVE OwnTemp(q)'
    BY DEF TempPrivate
  <2>1. OwnTemp(q)
    BY DEF IInv, TempPrivate
  <2> QED BY <2>1 DEF OwnTemp
<1>4. ChecksumSound'
  <2>1. CASE dbPath # d
    BY <2>1 DEF IInv, TypeOK, ChecksumSound
  <2>2. CASE dbPath = d
    BY <2>2 DEF IInv, ChecksumSound, NoMeta
  <2> QED BY <2>1, <2>2
<1>5. ReaderStable'
  <2> SUFFICES ASSUME NEW q \in Procs PROVE ReaderOK(proc[q])'
    BY DEF ReaderStable
  <2>1. ReaderOK(proc[q])
    BY DEF IInv, ReaderStable
  <2>2. CASE proc[q].rdir = d
    BY <2>1, <2>2 DEF ReaderOK
  <2>3. CASE proc[q].rdir # d
    BY <1>1, <2>1, <2>3 DEF ReaderOK
  <2> QED BY <2>2, <2>3
<1> QED BY <1>2, <1>3, <1>4, <1>5 DEF IInv

-----------------------------------------------------------------------------
(* Every step keeps the inductive invariant *)

\* p drops everything it holds: it returns, or starts something new.
LEMMA ResetStep ==
  ASSUME IInv, TypeOK', NEW p \in Procs,
         \A q \in Procs : q # p => proc'[q] = proc[q],
         UNCHANGED <<dirs, tainted, dbPath>>,
         \/ orphans' = orphans
         \/ orphans' = orphans \cup ({proc[p].tmp} \ {NoDir}),
         proc'[p].tmp = NoDir, proc'[p].wdir = NoDir,
         proc'[p].victim = NoDir, proc'[p].rdir = NoDir,
         \/ proc'[p].pc \in {"idle", "status", "read"}
         \/ proc'[p].pc = "purge" /\ proc'[p].job = "delete"
         \/ proc'[p].pc = "mktemp" /\ proc'[p].cand # 0
  PROVE  IInv'
<1>1. ControlOK(proc[p])'
  BY DEF ControlOK
<1>2. BuildOK(proc[p])'
  BY DEF BuildOK
<1> QED BY <1>1, <1>2, QuietStep

\* hydrate works in a directory of the cache.
LEMMA TargetType ==
  ASSUME TypeOK, NEW p \in Procs, Target(p) # NoDir
  PROVE  Target(p) \in Dirs
BY ProcFields DEF TypeOK, Target

\* A step in which Reader rehydrates the directory d in place.
LEMMA InPlaceStep ==
  ASSUME IInv, TypeOK', NEW p \in Procs, NEW d \in Dirs,
         \A q \in Procs : q # p => proc'[q] = proc[q],
         \A q \in Procs : proc[q].tmp # d,
         \A e \in Dirs : e # d => dirs'[e] = dirs[e],
         d \in tainted',
         tainted' \in {tainted, tainted \cup {d}},
         UNCHANGED <<dbPath, orphans>>,
         ControlOK(proc[p])',
         proc[p].tmp = NoDir, proc'[p].tmp = NoDir,
         proc'[p].wdir \in {proc[p].wdir, d, NoDir},
         proc'[p].victim = proc[p].victim,
         proc'[p].rdir = proc[p].rdir, proc'[p].snap = proc[p].snap
  PROVE  IInv'
<1>1. \A q \in Procs : BuildOK(proc[q]) /\ proc[q].tmp \in Dirs \cup {NoDir}
  BY ProcFields DEF IInv, TypeOK
<1>2. BuildOK(proc[p])'
  BY DEF BuildOK
<1>3. \A q \in Procs : (q # p /\ proc[q].tmp # NoDir)
         => /\ dirs'[proc[q].tmp] = dirs[proc[q].tmp]
            /\ proc[q].tmp \notin tainted'
  BY <1>1 DEF BuildOK
<1>4. (\A q \in Procs : ControlOK(proc[q]) /\ BuildOK(proc[q]))'
  BY <1>2, <1>3, OthersOK
<1> QED BY <1>4, SharedStep

LEMMA InvStep ==
  ASSUME IInv, NEW p \in Procs, Step(p)
  PROVE  IInv'
<1> USE CuratorAssumption DEF files, env, history
<1>a. TypeOK
  BY DEF IInv
<1>b. ControlOK(proc[p]) /\ BuildOK(proc[p])
  BY DEF IInv
<1>c. TypeOK'
  BY <1>a, <1>b, TypeStep DEF ControlOK
<1>d. proc \in [Procs -> Process] /\ proc[p] \in Process
  BY <1>a DEF TypeOK
<1>1. CASE StartUpdate(p)
  <2>1. PICK j \in AllJobs :
          proc' = [proc EXCEPT ![p] = [IdleProc EXCEPT !.pc = "read", !.job = j]]
    BY <1>1 DEF StartUpdate
  <2>2. /\ proc'[p] = [IdleProc EXCEPT !.pc = "read", !.job = j]
        /\ \A q \in Procs : q # p => proc'[q] = proc[q]
    BY <1>d, <2>1
  <2>3. /\ proc'[p].tmp = NoDir /\ proc'[p].wdir = NoDir
        /\ proc'[p].victim = NoDir /\ proc'[p].rdir = NoDir
        /\ proc'[p].pc = "read"
    BY <2>2 DEF IdleProc
  <2> QED BY <1>1, <1>c, <2>2, <2>3, ResetStep DEF StartUpdate
<1>2. CASE StartImport(p)
  <2>1. PICK j \in AllJobs, b \in 1 .. latest :
          proc' = [proc EXCEPT ![p] = [IdleProc EXCEPT !.pc = "mktemp", !.job = j,
                                                       !.cand = b]]
    BY <1>2 DEF StartImport
  <2>2. /\ proc'[p] = [IdleProc EXCEPT !.pc = "mktemp", !.job = j, !.cand = b]
        /\ \A q \in Procs : q # p => proc'[q] = proc[q]
    BY <1>d, <2>1
  <2>3. b # 0
    BY <1>a DEF TypeOK
  <2>4. /\ proc'[p].tmp = NoDir /\ proc'[p].wdir = NoDir
        /\ proc'[p].victim = NoDir /\ proc'[p].rdir = NoDir
        /\ proc'[p].pc = "mktemp" /\ proc'[p].cand # 0
    BY <2>2, <2>3 DEF IdleProc
  <2> QED BY <1>2, <1>c, <2>2, <2>4, ResetStep DEF StartImport
<1>3. CASE CheckFail(p)
  <2>1. proc' = [proc EXCEPT ![p] = AfterUpdate(p, TRUE)]
    BY <1>3 DEF CheckFail
  <2>2. /\ proc'[p] = AfterUpdate(p, TRUE)
        /\ \A q \in Procs : q # p => proc'[q] = proc[q]
    BY <1>d, <2>1
  <2>3. /\ proc'[p].tmp = NoDir /\ proc'[p].wdir = NoDir
        /\ proc'[p].victim = NoDir /\ proc'[p].rdir = NoDir
        /\ proc'[p].pc \in {"idle", "status"}
    BY <2>2 DEF AfterUpdate, StatusProc, IdleProc
  <2> QED BY <1>3, <1>c, <2>2, <2>3, ResetStep DEF CheckFail
<1>4. CASE MkdirTempFail(p)
  <2>1. proc' = [proc EXCEPT ![p] = AfterUpdate(p, TRUE)]
    BY <1>4 DEF MkdirTempFail
  <2>2. /\ proc'[p] = AfterUpdate(p, TRUE)
        /\ \A q \in Procs : q # p => proc'[q] = proc[q]
    BY <1>d, <2>1
  <2>3. /\ proc'[p].tmp = NoDir /\ proc'[p].wdir = NoDir
        /\ proc'[p].victim = NoDir /\ proc'[p].rdir = NoDir
        /\ proc'[p].pc \in {"idle", "status"}
    BY <2>2 DEF AfterUpdate, StatusProc, IdleProc
  <2> QED BY <1>4, <1>c, <2>2, <2>3, ResetStep DEF MkdirTempFail
<1>5. CASE StartDelete(p)
  <2>1. proc' = [proc EXCEPT ![p] = [IdleProc EXCEPT !.pc = "purge", !.job = "delete"]]
    BY <1>5 DEF StartDelete
  <2>2. /\ proc'[p] = [IdleProc EXCEPT !.pc = "purge", !.job = "delete"]
        /\ \A q \in Procs : q # p => proc'[q] = proc[q]
    BY <1>d, <2>1
  <2>3. /\ proc'[p].tmp = NoDir /\ proc'[p].wdir = NoDir
        /\ proc'[p].victim = NoDir /\ proc'[p].rdir = NoDir
        /\ proc'[p].pc = "purge" /\ proc'[p].job = "delete"
    BY <2>2 DEF IdleProc
  <2> QED BY <1>5, <1>c, <2>2, <2>3, ResetStep DEF StartDelete
<1>6. CASE StartScan(p)
  <2>1. proc' = [proc EXCEPT ![p] = StatusProc("scan")]
    BY <1>6 DEF StartScan
  <2>2. /\ proc'[p] = StatusProc("scan")
        /\ \A q \in Procs : q # p => proc'[q] = proc[q]
    BY <1>d, <2>1
  <2>3. /\ proc'[p].tmp = NoDir /\ proc'[p].wdir = NoDir
        /\ proc'[p].victim = NoDir /\ proc'[p].rdir = NoDir
        /\ proc'[p].pc = "status"
    BY <2>2 DEF StatusProc, IdleProc
  <2> QED BY <1>6, <1>c, <2>2, <2>3, ResetStep DEF StartScan
<1>7. CASE CloseReader(p)
  <2>1. proc' = [proc EXCEPT ![p] = IdleProc]
    BY <1>7 DEF CloseReader
  <2>2. /\ proc'[p] = IdleProc
        /\ \A q \in Procs : q # p => proc'[q] = proc[q]
    BY <1>d, <2>1
  <2>3. /\ proc'[p].tmp = NoDir /\ proc'[p].wdir = NoDir
        /\ proc'[p].victim = NoDir /\ proc'[p].rdir = NoDir
        /\ proc'[p].pc = "idle"
    BY <2>2 DEF IdleProc
  <2> QED BY <1>7, <1>c, <2>2, <2>3, ResetStep DEF CloseReader
<1>8. CASE Crash(p)
  <2>1. proc' = [proc EXCEPT ![p] = IdleProc]
    BY <1>8 DEF Crash
  <2>2. /\ proc'[p] = IdleProc
        /\ \A q \in Procs : q # p => proc'[q] = proc[q]
    BY <1>d, <2>1
  <2>3. /\ proc'[p].tmp = NoDir /\ proc'[p].wdir = NoDir
        /\ proc'[p].victim = NoDir /\ proc'[p].rdir = NoDir
        /\ proc'[p].pc = "idle"
    BY <2>2 DEF IdleProc
  <2> QED BY <1>8, <1>c, <2>2, <2>3, ResetStep DEF Crash
<1>9. CASE ReadCurrent(p)
  <2>1. proc' = [proc EXCEPT ![p] = [proc[p] EXCEPT
            !.cur = IF Readable(dbPath) /\ AgeOK(dirs[dbPath].db.built)
                      THEN dirs[dbPath].db.built ELSE 0,
            !.pc  = IF Readable(dbPath) /\ AgeOK(dirs[dbPath].db.built)
                      THEN "throttle" ELSE "check"]]
    BY <1>9, <1>d DEF ReadCurrent
  <2>2. /\ proc'[p] = [proc[p] EXCEPT
            !.cur = IF Readable(dbPath) /\ AgeOK(dirs[dbPath].db.built)
                      THEN dirs[dbPath].db.built ELSE 0,
            !.pc  = IF Readable(dbPath) /\ AgeOK(dirs[dbPath].db.built)
                      THEN "throttle" ELSE "check"]
        /\ \A q \in Procs : q # p => proc'[q] = proc[q]
    BY <1>d, <2>1
  <2>3. /\ proc'[p].tmp = proc[p].tmp /\ proc'[p].wdir = proc[p].wdir
        /\ proc'[p].victim = proc[p].victim
        /\ proc'[p].rdir = proc[p].rdir /\ proc'[p].snap = proc[p].snap
        /\ proc'[p].pc \in {"throttle", "check"}
    BY <1>9, <1>d, <2>2 DEF ReadCurrent, Process
  <2>4. /\ UNCHANGED <<dirs, dbPath, orphans, tainted>>
        /\ proc[p].pc \in {"read"}
    BY <1>9 DEF ReadCurrent
  <2>5. ControlOK(proc[p])'
    BY <1>b, <2>3, <2>4 DEF ControlOK
  <2>6. BuildOK(proc[p])'
    BY <1>b, <2>3, <2>4 DEF BuildOK, HydratedIn
  <2> QED BY <1>c, <2>2, <2>3, <2>4, <2>5, <2>6, QuietStep
<1>10. CASE Throttle(p)
  <2>1. proc' = [proc EXCEPT ![p] = IF isUpdateCheckAllowed THEN [proc[p] EXCEPT !.pc = "check"]
                ELSE AfterUpdate(p, FALSE)]
    BY <1>10, <1>d DEF Throttle
  <2>2. /\ proc'[p] = IF isUpdateCheckAllowed THEN [proc[p] EXCEPT !.pc = "check"]
                ELSE AfterUpdate(p, FALSE)
        /\ \A q \in Procs : q # p => proc'[q] = proc[q]
    BY <1>d, <2>1
  <2>3. /\ proc'[p].tmp \in {proc[p].tmp, NoDir}
        /\ proc'[p].wdir = NoDir \/ (proc'[p].wdir = proc[p].wdir /\ proc'[p].tmp = proc[p].tmp)
        /\ proc'[p].victim \in {proc[p].victim, NoDir}
        /\ (proc'[p].rdir = proc[p].rdir /\ proc'[p].snap = proc[p].snap) \/ proc'[p].rdir = NoDir
        /\ proc'[p].pc \in {"check", "idle", "status"}
        /\ proc'[p].pc = "status" => proc'[p].tmp = NoDir
    BY <1>10, <1>d, <2>2 DEF Throttle, Process, AfterUpdate, StatusProc, IdleProc
  <2>4. /\ UNCHANGED <<dirs, dbPath, orphans, tainted>>
        /\ proc[p].pc \in {"throttle"}
    BY <1>10 DEF Throttle
  <2>5. ControlOK(proc[p])'
    BY <1>b, <2>3, <2>4 DEF ControlOK
  <2>6. BuildOK(proc[p])'
    BY <1>b, <2>3, <2>4 DEF BuildOK, HydratedIn
  <2> QED BY <1>c, <2>2, <2>3, <2>4, <2>5, <2>6, QuietStep
<1>11. CASE StatusAge(p)
  <2>1. proc' = [proc EXCEPT ![p] = IF Readable(dbPath) /\ AgeOK(dirs[dbPath].db.built)
                THEN [proc[p] EXCEPT !.pc = "verify"] ELSE IdleProc]
    BY <1>11, <1>d DEF StatusAge
  <2>2. /\ proc'[p] = IF Readable(dbPath) /\ AgeOK(dirs[dbPath].db.built)
                THEN [proc[p] EXCEPT !.pc = "verify"] ELSE IdleProc
        /\ \A q \in Procs : q # p => proc'[q] = proc[q]
    BY <1>d, <2>1
  <2>3. /\ proc'[p].tmp \in {proc[p].tmp, NoDir}
        /\ proc'[p].wdir = NoDir \/ (proc'[p].wdir = proc[p].wdir /\ proc'[p].tmp = proc[p].tmp)
        /\ proc'[p].victim \in {proc[p].victim, NoDir}
        /\ (proc'[p].rdir = proc[p].rdir /\ proc'[p].snap = proc[p].snap) \/ proc'[p].rdir = NoDir
        /\ proc'[p].pc \in {"verify", "idle"}
    BY <1>11, <1>d, <2>2 DEF StatusAge, Process, IdleProc
  <2>4. /\ UNCHANGED <<dirs, dbPath, orphans, tainted>>
        /\ proc[p].pc \in {"status"}
    BY <1>11 DEF StatusAge
  <2>5. ControlOK(proc[p])'
    BY <1>b, <2>3, <2>4 DEF ControlOK
  <2>6. BuildOK(proc[p])'
    BY <1>b, <2>3, <2>4 DEF BuildOK, HydratedIn
  <2> QED BY <1>c, <2>2, <2>3, <2>4, <2>5, <2>6, QuietStep
<1>12. CASE StatusVerify(p)
  <2>1. proc' = [proc EXCEPT ![p] = IF ValidateChecksum => IntegrityOK(dbPath)
                THEN [proc[p] EXCEPT !.pc = "open"] ELSE IdleProc]
    BY <1>12, <1>d DEF StatusVerify
  <2>2. /\ proc'[p] = IF ValidateChecksum => IntegrityOK(dbPath)
                THEN [proc[p] EXCEPT !.pc = "open"] ELSE IdleProc
        /\ \A q \in Procs : q # p => proc'[q] = proc[q]
    BY <1>d, <2>1
  <2>3. /\ proc'[p].tmp \in {proc[p].tmp, NoDir}
        /\ proc'[p].wdir = NoDir \/ (proc'[p].wdir = proc[p].wdir /\ proc'[p].tmp = proc[p].tmp)
        /\ proc'[p].victim \in {proc[p].victim, NoDir}
        /\ (proc'[p].rdir = proc[p].rdir /\ proc'[p].snap = proc[p].snap) \/ proc'[p].rdir = NoDir
        /\ proc'[p].pc \in {"open", "idle"}
    BY <1>12, <1>d, <2>2 DEF StatusVerify, Process, IdleProc
  <2>4. /\ UNCHANGED <<dirs, dbPath, orphans, tainted>>
        /\ proc[p].pc \in {"verify"}
    BY <1>12 DEF StatusVerify
  <2>5. ControlOK(proc[p])'
    BY <1>b, <2>3, <2>4 DEF ControlOK
  <2>6. BuildOK(proc[p])'
    BY <1>b, <2>3, <2>4 DEF BuildOK, HydratedIn
  <2> QED BY <1>c, <2>2, <2>3, <2>4, <2>5, <2>6, QuietStep
<1>13. CASE OpenReader(p)
  <2>1. proc' = [proc EXCEPT ![p] = IF Readable(dbPath)
                THEN [proc[p] EXCEPT !.pc = "decide", !.rdir = dbPath,
                                     !.snap = dirs[dbPath].db]
                ELSE IdleProc]
    BY <1>13, <1>d DEF OpenReader
  <2>2. /\ proc'[p] = IF Readable(dbPath)
                THEN [proc[p] EXCEPT !.pc = "decide", !.rdir = dbPath,
                                     !.snap = dirs[dbPath].db]
                ELSE IdleProc
        /\ \A q \in Procs : q # p => proc'[q] = proc[q]
    BY <1>d, <2>1
  <2>3. /\ proc'[p].tmp \in {proc[p].tmp, NoDir}
        /\ proc'[p].wdir = NoDir \/ (proc'[p].wdir = proc[p].wdir /\ proc'[p].tmp = proc[p].tmp)
        /\ proc'[p].victim \in {proc[p].victim, NoDir}
        /\ \/ proc'[p].rdir = NoDir
           \/ Readable(dbPath) /\ proc'[p].rdir = dbPath /\ proc'[p].snap = dirs[dbPath].db
        /\ proc'[p].pc \in {"decide", "idle"}
    BY <1>13, <1>d, <2>2 DEF OpenReader, Process, IdleProc
  <2>4. /\ UNCHANGED <<dirs, dbPath, orphans, tainted>>
        /\ proc[p].pc \in {"open"}
    BY <1>13 DEF OpenReader
  <2>5. ControlOK(proc[p])'
    BY <1>b, <2>3, <2>4 DEF ControlOK
  <2>6. BuildOK(proc[p])'
    BY <1>b, <2>3, <2>4 DEF BuildOK, HydratedIn
  <2> QED BY <1>c, <2>2, <2>3, <2>4, <2>5, <2>6, QuietStep
<1>14. CASE Reopen(p)
  <2>1. proc' = [proc EXCEPT ![p] = IF Readable(dbPath)
                THEN [proc[p] EXCEPT !.pc = "loaded", !.rdir = dbPath,
                                     !.snap = dirs[dbPath].db]
                ELSE IdleProc]
    BY <1>14, <1>d DEF Reopen
  <2>2. /\ proc'[p] = IF Readable(dbPath)
                THEN [proc[p] EXCEPT !.pc = "loaded", !.rdir = dbPath,
                                     !.snap = dirs[dbPath].db]
                ELSE IdleProc
        /\ \A q \in Procs : q # p => proc'[q] = proc[q]
    BY <1>d, <2>1
  <2>3. /\ proc'[p].tmp \in {proc[p].tmp, NoDir}
        /\ proc'[p].wdir = NoDir \/ (proc'[p].wdir = proc[p].wdir /\ proc'[p].tmp = proc[p].tmp)
        /\ proc'[p].victim \in {proc[p].victim, NoDir}
        /\ \/ proc'[p].rdir = NoDir
           \/ Readable(dbPath) /\ proc'[p].rdir = dbPath /\ proc'[p].snap = dirs[dbPath].db
        /\ proc'[p].pc \in {"loaded", "idle"}
    BY <1>14, <1>d, <2>2 DEF Reopen, Process, IdleProc
  <2>4. /\ UNCHANGED <<dirs, dbPath, orphans, tainted>>
        /\ proc[p].pc \in {"reopen"}
    BY <1>14 DEF Reopen
  <2>5. ControlOK(proc[p])'
    BY <1>b, <2>3, <2>4 DEF ControlOK
  <2>6. BuildOK(proc[p])'
    BY <1>b, <2>3, <2>4 DEF BuildOK, HydratedIn
  <2> QED BY <1>c, <2>2, <2>3, <2>4, <2>5, <2>6, QuietStep
<1>15. CASE StatDB(p)
  <2>1. proc' = [proc EXCEPT ![p] = [proc[p] EXCEPT !.pc = IF dbPath = NoDir THEN "rename" ELSE "purge"]]
    BY <1>15, <1>d DEF StatDB
  <2>2. /\ proc'[p] = [proc[p] EXCEPT !.pc = IF dbPath = NoDir THEN "rename" ELSE "purge"]
        /\ \A q \in Procs : q # p => proc'[q] = proc[q]
    BY <1>d, <2>1
  <2>3. /\ proc'[p].tmp = proc[p].tmp /\ proc'[p].wdir = proc[p].wdir
        /\ proc'[p].victim = proc[p].victim
        /\ proc'[p].rdir = proc[p].rdir /\ proc'[p].snap = proc[p].snap
        /\ proc'[p].pc \in {"rename", "purge"}
        /\ proc'[p].job = proc[p].job
    BY <1>15, <1>d, <2>2 DEF StatDB, Process
  <2>4. /\ UNCHANGED <<dirs, dbPath, orphans, tainted>>
        /\ proc[p].pc \in {"stat"}
    BY <1>15 DEF StatDB
  <2>5. ControlOK(proc[p])'
    BY <1>b, <2>3, <2>4 DEF ControlOK
  <2>6. BuildOK(proc[p])'
    BY <1>b, <2>3, <2>4 DEF BuildOK, HydratedIn
  <2> QED BY <1>c, <2>2, <2>3, <2>4, <2>5, <2>6, QuietStep
<1>16. CASE RenameFail(p)
  <2>1. proc' = [proc EXCEPT ![p] = [proc[p] EXCEPT !.pc = "cleanup"]]
    BY <1>16, <1>d DEF RenameFail
  <2>2. /\ proc'[p] = [proc[p] EXCEPT !.pc = "cleanup"]
        /\ \A q \in Procs : q # p => proc'[q] = proc[q]
    BY <1>d, <2>1
  <2>3. /\ proc'[p].tmp = proc[p].tmp /\ proc'[p].wdir = proc[p].wdir
        /\ proc'[p].victim = proc[p].victim
        /\ proc'[p].rdir = proc[p].rdir /\ proc'[p].snap = proc[p].snap
        /\ proc'[p].pc = "cleanup"
    BY <1>16, <1>d, <2>2 DEF RenameFail, Process
  <2>4. /\ UNCHANGED <<dirs, dbPath, orphans, tainted>>
        /\ proc[p].pc \in {"rename"}
    BY <1>16 DEF RenameFail
  <2>5. ControlOK(proc[p])'
    BY <1>b, <2>3, <2>4 DEF ControlOK
  <2>6. BuildOK(proc[p])'
    BY <1>b, <2>3, <2>4 DEF BuildOK, HydratedIn
  <2> QED BY <1>c, <2>2, <2>3, <2>4, <2>5, <2>6, QuietStep
<1>17. CASE DigestDB(p)
  <2>1. proc' = [proc EXCEPT ![p] = [proc[p] EXCEPT !.pc = "write", !.sum = dirs[Target(p)].db]]
    BY <1>17, <1>d DEF DigestDB
  <2>2. /\ proc'[p] = [proc[p] EXCEPT !.pc = "write", !.sum = dirs[Target(p)].db]
        /\ \A q \in Procs : q # p => proc'[q] = proc[q]
    BY <1>d, <2>1
  <2>3. /\ proc'[p].tmp = proc[p].tmp /\ proc'[p].wdir = proc[p].wdir
        /\ proc'[p].victim = proc[p].victim
        /\ proc'[p].rdir = proc[p].rdir /\ proc'[p].snap = proc[p].snap
        /\ proc'[p].pc = "write" /\ proc'[p].sum = dirs[Target(p)].db
    BY <1>17, <1>d, <2>2 DEF DigestDB, Process
  <2>4. /\ UNCHANGED <<dirs, dbPath, orphans, tainted>>
        /\ proc[p].pc \in {"digest"}
    BY <1>17 DEF DigestDB
  <2>5. ControlOK(proc[p])'
    BY <1>b, <2>3, <2>4 DEF ControlOK, Target, InPlace
  <2>6. BuildOK(proc[p])'
    BY <1>b, <2>3, <2>4 DEF BuildOK, HydratedIn, Target, InPlace
  <2> QED BY <1>c, <2>2, <2>3, <2>4, <2>5, <2>6, QuietStep
<1>18. CASE MetaFail(p)
  <2>1. proc' = [proc EXCEPT ![p] = AfterHydrateError(p)]
    BY <1>18, <1>d DEF MetaFail
  <2>2. /\ proc'[p] = AfterHydrateError(p)
        /\ \A q \in Procs : q # p => proc'[q] = proc[q]
    BY <1>d, <2>1
  <2>3. /\ proc'[p].tmp = proc[p].tmp /\ proc'[p].wdir = NoDir
        /\ proc'[p].victim = proc[p].victim
        /\ proc'[p].rdir = proc[p].rdir /\ proc'[p].snap = proc[p].snap
        /\ proc'[p].pc = IF proc[p].tmp = NoDir THEN "reopen" ELSE "cleanup"
    BY <1>18, <1>d, <2>2 DEF MetaFail, Process, AfterHydrateError, InPlace
  <2>4. /\ UNCHANGED <<dirs, dbPath, orphans, tainted>>
        /\ proc[p].pc \in {"truncate", "digest", "write"}
    BY <1>18 DEF MetaFail
  <2>5. ControlOK(proc[p])'
    BY <1>b, <2>3, <2>4 DEF ControlOK
  <2>6. BuildOK(proc[p])'
    BY <1>b, <2>3, <2>4 DEF BuildOK, HydratedIn
  <2> QED BY <1>c, <2>2, <2>3, <2>4, <2>5, <2>6, QuietStep
<1>19. CASE Decide(p)
  <2>1. proc' = [proc EXCEPT ![p] = IF ~HasImportMetadata(dbPath) THEN IdleProc
              ELSE IF isRehydrationNeeded(dirs[dbPath].meta.client, Client[p])
                THEN [proc[p] EXCEPT !.pc = "hydrate", !.rdir = NoDir, !.snap = NoFile]
                ELSE [proc[p] EXCEPT !.pc = "loaded"]]
    BY <1>19, <1>d DEF Decide
  <2>2. /\ proc'[p] = IF ~HasImportMetadata(dbPath) THEN IdleProc
              ELSE IF isRehydrationNeeded(dirs[dbPath].meta.client, Client[p])
                THEN [proc[p] EXCEPT !.pc = "hydrate", !.rdir = NoDir, !.snap = NoFile]
                ELSE [proc[p] EXCEPT !.pc = "loaded"]
        /\ \A q \in Procs : q # p => proc'[q] = proc[q]
    BY <1>d, <2>1
  <2>3. /\ proc'[p].tmp \in {proc[p].tmp, NoDir}
        /\ proc'[p].pc = "hydrate" => proc'[p].tmp = proc[p].tmp
        /\ proc'[p].wdir = NoDir \/ (proc'[p].wdir = proc[p].wdir /\ proc'[p].tmp = proc[p].tmp)
        /\ proc'[p].victim \in {proc[p].victim, NoDir}
        /\ (proc'[p].rdir = proc[p].rdir /\ proc'[p].snap = proc[p].snap) \/ proc'[p].rdir = NoDir
        /\ proc'[p].pc \in {"idle", "hydrate", "loaded"}
    BY <1>19, <1>d, <2>2 DEF Decide, Process, IdleProc
  <2>4. /\ UNCHANGED <<dirs, dbPath, orphans, tainted>>
        /\ proc[p].pc \in {"decide"}
    BY <1>19 DEF Decide
  <2>5. ControlOK(proc[p])'
    BY <1>b, <2>3, <2>4 DEF ControlOK
  <2>6. BuildOK(proc[p])'
    BY <1>b, <2>3, <2>4 DEF BuildOK, ControlOK
  <2> QED BY <1>c, <2>2, <2>3, <2>4, <2>5, <2>6, QuietStep
<1>20. CASE CheckOK(p)
  <2>1. PICK b \in 1 .. latest :
          LET update == isSupersededBy(proc[p].cur, b)
          IN  proc' = [proc EXCEPT ![p].seen = b,
                         ![p].cand = IF update THEN b ELSE 0,
                         ![p].pc   = IF update THEN "mktemp" ELSE "stamp"]
    BY <1>20 DEF CheckOK
  <2>2. b # 0
    BY <1>a DEF TypeOK
  <2>3. \A q \in Procs : q # p => proc'[q] = proc[q]
    BY <1>d, <2>1
  <2>4. /\ proc'[p].tmp = proc[p].tmp /\ proc'[p].wdir = proc[p].wdir
        /\ proc'[p].victim = proc[p].victim
        /\ proc'[p].rdir = proc[p].rdir /\ proc'[p].snap = proc[p].snap
        /\ proc'[p].pc \in {"mktemp", "stamp"}
        /\ proc'[p].pc = "mktemp" => proc'[p].cand # 0
    BY <1>d, <2>1, <2>2 DEF Process
  <2>5. UNCHANGED <<dirs, dbPath, orphans, tainted>> /\ proc[p].pc = "check"
    BY <1>20 DEF CheckOK
  <2>6. ControlOK(proc[p])'
    BY <1>b, <2>4, <2>5 DEF ControlOK
  <2>7. BuildOK(proc[p])'
    BY <1>b, <2>4, <2>5 DEF BuildOK
  <2> QED BY <1>c, <2>3, <2>4, <2>5, <2>6, <2>7, QuietStep
<1>21. CASE FetchFail(p)
  <2>1. proc' = [proc EXCEPT ![p] = AfterUpdate(p, TRUE)]
    BY <1>21 DEF FetchFail
  <2>2. /\ proc'[p] = AfterUpdate(p, TRUE)
        /\ \A q \in Procs : q # p => proc'[q] = proc[q]
    BY <1>d, <2>1
  <2>3. /\ proc'[p].tmp = NoDir /\ proc'[p].wdir = NoDir
        /\ proc'[p].victim = NoDir /\ proc'[p].rdir = NoDir
        /\ proc'[p].pc \in {"idle", "status"}
    BY <2>2 DEF AfterUpdate, StatusProc, IdleProc
  <2>4. /\ UNCHANGED <<dirs, dbPath, tainted>>
        /\ orphans' \in {orphans, orphans \cup {proc[p].tmp}}
        /\ proc[p].tmp # NoDir
    BY <1>21, <1>b DEF FetchFail, ControlOK
  <2> QED BY <1>c, <2>2, <2>3, <2>4, ResetStep
<1>22. CASE PurgeOpen(p)
  <2> DEFINE r == IF dbPath = NoDir THEN AfterPurge(p, FALSE)
                  ELSE [proc[p] EXCEPT !.pc = "unlink", !.victim = dbPath,
                                       !.names = Listing(dirs[dbPath])]
  <2>1. proc' = [proc EXCEPT ![p] = r]
    BY <1>22, <1>d DEF PurgeOpen
  <2>2. proc'[p] = r /\ \A q \in Procs : q # p => proc'[q] = proc[q]
    BY <1>d, <2>1
  <2>3. /\ proc[p].pc = "purge"
        /\ UNCHANGED <<dirs, dbPath, orphans, tainted>>
    BY <1>22 DEF PurgeOpen
  <2>4. /\ \/ proc'[p].pc = "idle" /\ proc'[p].tmp = NoDir /\ proc'[p].wdir = NoDir
           \/ /\ proc'[p].tmp = proc[p].tmp /\ proc'[p].wdir = proc[p].wdir
              /\ proc'[p].job = proc[p].job
              /\ \/ proc'[p].pc = "unlink"
                 \/ proc'[p].pc = "rename" /\ proc[p].job # "delete"
        /\ proc'[p].victim \in {dbPath, NoDir}
        /\ \/ proc'[p].rdir = NoDir
           \/ proc'[p].rdir = proc[p].rdir /\ proc'[p].snap = proc[p].snap
    BY <1>d, <2>2 DEF AfterPurge, IdleProc, Process
  <2>5. ControlOK(proc[p])'
    BY <1>b, <2>3, <2>4 DEF ControlOK
  <2>6. BuildOK(proc[p])'
    BY <1>b, <2>3, <2>4 DEF BuildOK, HydratedIn
  <2>7. /\ proc'[p].tmp \in {proc[p].tmp, NoDir}
        /\ proc'[p].wdir \in {proc[p].wdir, NoDir}
    BY <2>4
  <2> QED BY <1>c, <2>2, <2>3, <2>4, <2>5, <2>6, <2>7, QuietStep
<1>23. CASE Rmdir(p)
  <2>1. PICK failed \in BOOLEAN :
          /\ dbPath' = IF failed THEN dbPath ELSE NoDir
          /\ proc' = [proc EXCEPT ![p] = AfterPurge(p, failed)]
    BY <1>23 DEF Rmdir
  <2>2. /\ proc'[p] = AfterPurge(p, failed)
        /\ \A q \in Procs : q # p => proc'[q] = proc[q]
    BY <1>d, <2>1
  <2>3. /\ proc[p].pc = "unlink"
        /\ UNCHANGED <<dirs, orphans, tainted>>
        /\ dbPath' \in {dbPath, NoDir}
    BY <1>23, <2>1 DEF Rmdir
  <2>4. /\ \/ proc'[p].pc = "idle" /\ proc'[p].tmp = NoDir /\ proc'[p].wdir = NoDir
           \/ /\ proc'[p].tmp = proc[p].tmp /\ proc'[p].wdir = proc[p].wdir
              /\ proc'[p].pc \in {"rename", "cleanup"} /\ proc[p].job # "delete"
        /\ proc'[p].victim = NoDir
        /\ \/ proc'[p].rdir = NoDir
           \/ proc'[p].rdir = proc[p].rdir /\ proc'[p].snap = proc[p].snap
    BY <1>d, <2>2 DEF AfterPurge, IdleProc, Process
  <2>5. ControlOK(proc[p])'
    BY <1>b, <2>3, <2>4 DEF ControlOK
  <2>6. BuildOK(proc[p])'
    BY <1>b, <2>3, <2>4 DEF BuildOK, HydratedIn
  <2>7. /\ proc'[p].tmp \in {proc[p].tmp, NoDir}
        /\ proc'[p].wdir \in {proc[p].wdir, NoDir}
    BY <2>4
  <2> QED BY <1>c, <2>2, <2>3, <2>4, <2>5, <2>6, <2>7, QuietStep
<1>24. CASE MkdirTemp(p)
  <2>1. PICK d \in Unused :
          /\ dirs' = [dirs EXCEPT ![d] = EmptyDir]
          /\ tainted' = tainted \ {d}
          /\ proc' = [proc EXCEPT ![p] = [proc[p] EXCEPT !.pc = "fetch", !.tmp = d]]
    BY <1>24, ZenonT(60) DEF MkdirTemp
  <2>2. /\ d \in Dirs /\ d # dbPath /\ d \notin orphans /\ d # NoDir
        /\ \A q \in Procs : /\ proc[q].tmp # d /\ proc[q].victim # d
                            /\ proc[q].wdir # d /\ proc[q].rdir # d
    BY DEF Unused
  <2>3. /\ proc'[p] = [proc[p] EXCEPT !.pc = "fetch", !.tmp = d]
        /\ \A q \in Procs : q # p => proc'[q] = proc[q]
    BY <1>d, <2>1
  <2>4. /\ proc'[p].pc = "fetch" /\ proc'[p].tmp = d
        /\ proc'[p].cand = proc[p].cand
        /\ proc'[p].wdir = proc[p].wdir /\ proc'[p].victim = proc[p].victim
        /\ proc'[p].rdir = proc[p].rdir /\ proc'[p].snap = proc[p].snap
    BY <1>d, <2>3 DEF Process
  <2>5. /\ proc[p].pc = "mktemp"
        /\ UNCHANGED <<dbPath, orphans>>
        /\ \A e \in Dirs : e # d => dirs'[e] = dirs[e]
    BY <1>24, <1>a, <2>1 DEF MkdirTemp, TypeOK
  <2>6. \A q \in Procs : /\ proc[q].tmp \in Dirs \cup {NoDir}
                         /\ proc[q].rdir \in Dirs \cup {NoDir}
    BY <1>a, ProcFields DEF TypeOK
  <2>7. \A q \in Procs : OwnTemp(q) /\ BuildOK(proc[q]) /\ ReaderOK(proc[q])
    BY DEF IInv, TempPrivate, ReaderStable
  <2>8. (\A q \in Procs : ControlOK(proc[q]) /\ BuildOK(proc[q]))'
    <3>1. ControlOK(proc[p])'
      BY <1>b, <2>2, <2>4, <2>5 DEF ControlOK
    <3>2. BuildOK(proc[p])'
      BY <2>1, <2>4 DEF BuildOK
    <3>3. \A q \in Procs : (q # p /\ proc[q].tmp # NoDir)
             => /\ dirs'[proc[q].tmp] = dirs[proc[q].tmp]
                /\ proc[q].tmp \notin tainted'
      BY <2>1, <2>2, <2>5, <2>6, <2>7 DEF BuildOK
    <3>4. \A q \in Procs : (q # p /\ proc[q].wdir \in tainted)
             => proc[q].wdir \in tainted'
      BY <2>1, <2>2
    <3> QED BY <2>3, <3>1, <3>2, <3>3, <3>4, OthersOK
  <2>9. \A q \in Procs : /\ proc'[q].tmp = IF q = p THEN d ELSE proc[q].tmp
                         /\ proc'[q].wdir = proc[q].wdir
                         /\ proc'[q].victim = proc[q].victim
                         /\ proc'[q].rdir = proc[q].rdir
                         /\ proc'[q].snap = proc[q].snap
    BY <2>3, <2>4
  <2>10a. WritersApart'
    <3>1. WritersApart
      BY DEF IInv
    <3> QED BY <2>2, <2>9, <3>1 DEF WritersApart
  <2>10. TempPrivate'
    <3> SUFFICES ASSUME NEW q \in Procs PROVE OwnTemp(q)'
      BY DEF TempPrivate
    <3>1. CASE q = p
      BY <2>2, <2>5, <2>9, <3>1 DEF OwnTemp
    <3>2. CASE q # p
      <4>1. OwnTemp(q)
        BY <2>7
      <4> QED BY <2>2, <2>5, <2>9, <3>2, <4>1 DEF OwnTemp
    <3> QED BY <3>1, <3>2
  <2>11. ChecksumSound'
    BY <1>a, <2>1, <2>2, <2>5 DEF IInv, ChecksumSound, TypeOK
  <2>12. ReaderStable'
    <3> SUFFICES ASSUME NEW q \in Procs PROVE ReaderOK(proc[q])'
      BY DEF ReaderStable
    <3>1. proc'[q].rdir = proc[q].rdir /\ proc'[q].snap = proc[q].snap
      BY <2>9
    <3> QED BY <2>1, <2>2, <2>5, <2>6, <2>7, <3>1 DEF ReaderOK
  <2> QED BY <1>c, <2>8, <2>10a, <2>10, <2>11, <2>12 DEF IInv
<1>25. CASE FetchOK(p)
  <2> DEFINE t == proc[p].tmp
             f == [built |-> proc[p].cand, bits |-> 0]
  <2>1. /\ proc' = [proc EXCEPT ![p] = [proc[p] EXCEPT !.pc = "hydrate"]]
        /\ dirs' = [dirs EXCEPT ![t] = [dirs[t] EXCEPT !.db = f]]
        /\ UNCHANGED <<dbPath, orphans, tainted>>
        /\ proc[p].pc = "fetch"
    BY <1>25 DEF FetchOK
  <2>2. /\ proc'[p] = [proc[p] EXCEPT !.pc = "hydrate"]
        /\ \A q \in Procs : q # p => proc'[q] = proc[q]
    BY <1>d, <2>1
  <2>3. /\ proc'[p].pc = "hydrate" /\ proc'[p].tmp = t
        /\ proc'[p].wdir = proc[p].wdir /\ proc'[p].victim = proc[p].victim
        /\ proc'[p].rdir = proc[p].rdir /\ proc'[p].snap = proc[p].snap
    BY <1>d, <2>2 DEF Process
  <2>4. t \in Dirs /\ t # NoDir /\ proc[p].cand # 0
    BY <1>b, <1>d, <2>1, ProcFields DEF ControlOK
  <2>5. /\ dirs'[t].db.built # 0
        /\ \A e \in Dirs : e # t => dirs'[e] = dirs[e]
    <3>1. dirs'[t] = [dirs[t] EXCEPT !.db = f]
      BY <1>a, <2>1, <2>4 DEF TypeOK
    <3>2. dirs[t] \in Dir
      BY <1>a, <2>4 DEF TypeOK
    <3> QED BY <1>a, <2>1, <2>4, <3>1, <3>2 DEF TypeOK, Dir
  <2>6. ControlOK(proc[p])'
    BY <1>b, <2>1, <2>3 DEF ControlOK
  <2>7. BuildOK(proc[p])'
    BY <1>b, <2>1, <2>3, <2>5 DEF BuildOK
  <2> HIDE DEF t, f
  <2> QED BY <1>c, <2>1, <2>2, <2>3, <2>4, <2>5, <2>6, <2>7, TempStep DEF t
<1>26. CASE Cleanup(p)
  <2>1. /\ proc' = [proc EXCEPT ![p] = AfterUpdate(p, TRUE)]
        /\ dirs' = [dirs EXCEPT ![proc[p].tmp] = EmptyDir]
        /\ UNCHANGED <<dbPath, orphans, tainted>>
        /\ proc[p].pc = "cleanup"
    BY <1>26 DEF Cleanup
  <2>2. /\ proc'[p] = AfterUpdate(p, TRUE)
        /\ \A q \in Procs : q # p => proc'[q] = proc[q]
    BY <1>d, <2>1
  <2>3. /\ proc'[p].tmp = NoDir /\ proc'[p].wdir = NoDir
        /\ proc'[p].victim = NoDir /\ proc'[p].rdir = NoDir
        /\ proc'[p].pc \in {"idle", "status"}
    BY <2>2 DEF AfterUpdate, StatusProc, IdleProc
  <2>4. /\ proc[p].tmp # NoDir
        /\ \A e \in Dirs : e # proc[p].tmp => dirs'[e] = dirs[e]
    BY <1>a, <1>b, <2>1 DEF ControlOK, TypeOK
  <2>5. ControlOK(proc[p])'
    BY <2>3 DEF ControlOK
  <2>6. BuildOK(proc[p])'
    BY <2>3 DEF BuildOK
  <2> QED BY <1>c, <2>1, <2>2, <2>3, <2>4, <2>5, <2>6, TempStep
<1>27. CASE HydrateOK(p)
  <2> DEFINE t == Target(p)
  <2>1. /\ proc' = [proc EXCEPT ![p] = [proc[p] EXCEPT !.pc = "truncate"]]
        /\ dirs' = [dirs EXCEPT ![t] = [dirs[t] EXCEPT !.db.bits = @ + 1]]
        /\ tainted' = IF proc[p].tmp = NoDir THEN tainted \cup ({t} \ {NoDir}) ELSE tainted
        /\ UNCHANGED <<dbPath, orphans>>
        /\ proc[p].pc = "hydrate"
        /\ t # NoDir /\ dirs[t].db.built # 0
    BY <1>27 DEF HydrateOK, Taint, InPlace, Readable
  <2>2. /\ proc'[p] = [proc[p] EXCEPT !.pc = "truncate"]
        /\ \A q \in Procs : q # p => proc'[q] = proc[q]
    BY <1>d, <2>1
  <2>3. /\ proc'[p].pc = "truncate" /\ proc'[p].tmp = proc[p].tmp
        /\ proc'[p].wdir = proc[p].wdir /\ proc'[p].victim = proc[p].victim
        /\ proc'[p].rdir = proc[p].rdir /\ proc'[p].snap = proc[p].snap
    BY <1>d, <2>2 DEF Process
  <2>4. t \in Dirs
    BY <1>a, <2>1, TargetType
  <2>5. /\ dirs'[t].db.built # 0 /\ dirs'[t].db.bits > 0
        /\ \A e \in Dirs : e # t => dirs'[e] = dirs[e]
    <3>1. dirs'[t] = [dirs[t] EXCEPT !.db.bits = @ + 1]
      BY <1>a, <2>1, <2>4 DEF TypeOK
    <3>2. dirs[t] \in Dir
      BY <1>a, <2>4 DEF TypeOK
    <3> QED BY <1>a, <2>1, <2>4, <3>1, <3>2 DEF TypeOK, Dir, DBFile
  <2>6. ControlOK(proc[p])'
    BY <1>b, <2>1, <2>3 DEF ControlOK
  <2>7. CASE proc[p].tmp = NoDir
    <3>1. t = dbPath
      BY <2>7 DEF Target, InPlace
    <3>2. \A q \in Procs : proc[q].tmp # t
      BY <2>1, <3>1 DEF IInv, TempPrivate, OwnTemp
    <3>3. t \in tainted' /\ tainted' = tainted \cup {t}
      BY <2>1, <2>7
    <3> HIDE DEF t
    <3> QED BY <1>c, <2>1, <2>2, <2>3, <2>4, <2>5, <2>6, <2>7, <3>2, <3>3, InPlaceStep
  <2>8. CASE proc[p].tmp # NoDir
    <3>1. t = proc[p].tmp /\ tainted' = tainted
      BY <2>1, <2>8 DEF Target, InPlace
    <3>2. BuildOK(proc[p])'
      BY <1>b, <2>1, <2>3, <2>5, <3>1 DEF BuildOK, HydratedIn
    <3> HIDE DEF t
    <3> QED BY <1>c, <2>1, <2>2, <2>3, <2>5, <2>6, <2>8, <3>1, <3>2, TempStep
  <2> QED BY <2>7, <2>8
<1>28. CASE HydrateFail(p)
  <2> DEFINE t == Target(p)
  <2>1. /\ proc' = [proc EXCEPT ![p] = AfterHydrateError(p)]
        /\ tainted' = IF proc[p].tmp = NoDir THEN tainted \cup ({t} \ {NoDir}) ELSE tainted
        /\ UNCHANGED <<dbPath, orphans>>
        /\ proc[p].pc = "hydrate"
    BY <1>28 DEF HydrateFail, Taint, InPlace
  <2>2. /\ proc'[p] = AfterHydrateError(p)
        /\ \A q \in Procs : q # p => proc'[q] = proc[q]
    BY <1>d, <2>1
  <2>3. /\ proc'[p].pc = IF proc[p].tmp = NoDir THEN "reopen" ELSE "cleanup"
        /\ proc'[p].tmp = proc[p].tmp
        /\ proc'[p].wdir = NoDir /\ proc'[p].victim = proc[p].victim
        /\ proc'[p].rdir = proc[p].rdir /\ proc'[p].snap = proc[p].snap
    BY <1>d, <2>2 DEF Process, AfterHydrateError, InPlace
  <2>4. ControlOK(proc[p])'
    BY <1>b, <2>1, <2>3 DEF ControlOK
  <2>5. BuildOK(proc[p])'
    BY <1>b, <2>1, <2>3 DEF BuildOK
  <2>6. CASE t = NoDir
    <3>1. dirs' = dirs /\ tainted' = tainted
      BY <1>28, <2>1, <2>6 DEF HydrateFail
    <3> HIDE DEF t
    <3> QED BY <1>c, <2>1, <2>2, <2>3, <2>4, <2>5, <3>1, QuietStep
  <2>7. CASE t # NoDir
    <3>1. t \in Dirs
      BY <1>a, <2>7, TargetType
    <3>2. \A e \in Dirs : e # t => dirs'[e] = dirs[e]
      <4>1. PICK touched \in BOOLEAN :
              dirs' = [dirs EXCEPT ![t].db = HalfHydrated(@, touched)]
        BY <1>28, <2>7 DEF HydrateFail
      <4> QED BY <1>a, <4>1 DEF TypeOK
    <3>3. CASE proc[p].tmp = NoDir
      <4>1. t = dbPath
        BY <3>3 DEF Target, InPlace
      <4>2. \A q \in Procs : proc[q].tmp # t
        BY <2>7, <4>1 DEF IInv, TempPrivate, OwnTemp
      <4>3. t \in tainted' /\ tainted' = tainted \cup {t}
        BY <2>1, <2>7, <3>3
      <4> HIDE DEF t
      <4> QED BY <1>c, <2>1, <2>2, <2>3, <2>4, <3>1, <3>2, <3>3, <4>2, <4>3, InPlaceStep
    <3>4. CASE proc[p].tmp # NoDir
      <4>1. t = proc[p].tmp /\ tainted' = tainted
        BY <2>1, <3>4 DEF Target, InPlace
      <4> HIDE DEF t
      <4> QED BY <1>c, <2>1, <2>2, <2>3, <2>4, <2>5, <3>2, <3>4, <4>1, TempStep
    <3> QED BY <3>3, <3>4
  <2> QED BY <2>6, <2>7
<1>29. CASE TruncateMeta(p)
  <2> DEFINE t == Target(p)
             m == [NoMeta EXCEPT !.state = "empty"]
  <2>1. /\ proc' = [proc EXCEPT ![p] = [proc[p] EXCEPT !.pc = "digest", !.wdir = t]]
        /\ dirs' = [dirs EXCEPT ![t] = [dirs[t] EXCEPT !.meta = m]]
        /\ tainted' = IF proc[p].tmp = NoDir THEN tainted \cup ({t} \ {NoDir}) ELSE tainted
        /\ UNCHANGED <<dbPath, orphans>>
        /\ proc[p].pc = "truncate"
        /\ t # NoDir
    BY <1>29 DEF TruncateMeta, Taint, InPlace
  <2>2. /\ proc'[p] = [proc[p] EXCEPT !.pc = "digest", !.wdir = t]
        /\ \A q \in Procs : q # p => proc'[q] = proc[q]
    BY <1>d, <2>1
  <2>3. /\ proc'[p].pc = "digest" /\ proc'[p].tmp = proc[p].tmp
        /\ proc'[p].wdir = t /\ proc'[p].victim = proc[p].victim
        /\ proc'[p].rdir = proc[p].rdir /\ proc'[p].snap = proc[p].snap
    BY <1>d, <2>2 DEF Process
  <2>4. t \in Dirs
    BY <1>a, <2>1, TargetType
  <2>5. /\ dirs'[t].db = dirs[t].db /\ dirs'[t].meta.state = "empty"
        /\ \A e \in Dirs : e # t => dirs'[e] = dirs[e]
    <3>1. dirs'[t] = [dirs[t] EXCEPT !.meta = m]
      BY <1>a, <2>1, <2>4 DEF TypeOK
    <3>2. dirs[t] \in Dir
      BY <1>a, <2>4 DEF TypeOK
    <3> QED BY <1>a, <2>1, <2>4, <3>1, <3>2 DEF TypeOK, Dir, NoMeta
  <2>6. ControlOK(proc[p])'
    <3>1. proc[p].tmp = NoDir => t \in tainted'
      BY <2>1
    <3>2. proc[p].tmp # NoDir => t = proc[p].tmp
      BY DEF Target, InPlace
    <3> QED BY <1>b, <2>1, <2>3, <3>1, <3>2 DEF ControlOK
  <2>7. CASE proc[p].tmp = NoDir
    <3>1. t = dbPath
      BY <2>7 DEF Target, InPlace
    <3>2. \A q \in Procs : proc[q].tmp # t
      BY <2>1, <3>1 DEF IInv, TempPrivate, OwnTemp
    <3>3. t \in tainted' /\ tainted' = tainted \cup {t}
      BY <2>1, <2>7
    <3> HIDE DEF t
    <3> QED BY <1>c, <2>1, <2>2, <2>3, <2>4, <2>5, <2>6, <2>7, <3>2, <3>3, InPlaceStep
  <2>8. CASE proc[p].tmp # NoDir
    <3>1. t = proc[p].tmp /\ tainted' = tainted
      BY <2>1, <2>8 DEF Target, InPlace
    <3>2. BuildOK(proc[p])'
      BY <1>b, <2>1, <2>3, <2>5, <3>1 DEF BuildOK, HydratedIn
    <3> HIDE DEF t
    <3> QED BY <1>c, <2>1, <2>2, <2>3, <2>5, <2>6, <2>8, <3>1, <3>2, TempStep
  <2> QED BY <2>7, <2>8
<1>30. CASE WriteMeta(p)
  <2> DEFINE w == proc[p].wdir
             m == [state |-> "full", sum |-> proc[p].sum, client |-> Client[p]]
  <2>1. /\ proc' = [proc EXCEPT ![p] = [proc[p] EXCEPT
                      !.pc = IF InPlace(p) THEN "reopen" ELSE "stat", !.wdir = NoDir]]
        /\ dirs' = [dirs EXCEPT ![w] = [dirs[w] EXCEPT !.meta =
                      IF dirs[w].meta.state = "none" THEN dirs[w].meta ELSE m]]
        /\ UNCHANGED <<dbPath, orphans, tainted>>
        /\ proc[p].pc = "write"
    BY <1>30 DEF WriteMeta
  <2>2. /\ proc'[p] = [proc[p] EXCEPT
                      !.pc = IF InPlace(p) THEN "reopen" ELSE "stat", !.wdir = NoDir]
        /\ \A q \in Procs : q # p => proc'[q] = proc[q]
    BY <1>d, <2>1
  <2>3. /\ proc'[p].pc = IF proc[p].tmp = NoDir THEN "reopen" ELSE "stat"
        /\ proc'[p].tmp = proc[p].tmp
        /\ proc'[p].wdir = NoDir /\ proc'[p].victim = proc[p].victim
        /\ proc'[p].rdir = proc[p].rdir /\ proc'[p].snap = proc[p].snap
    BY <1>d, <2>2 DEF Process, InPlace
  <2>4. w # NoDir /\ w \in Dirs
    BY <1>b, <1>d, <2>1, ProcFields DEF ControlOK
  <2>5. /\ dirs'[w].db = dirs[w].db
        /\ dirs[w].meta.state = "empty" => /\ dirs'[w].meta.state = "full"
                                           /\ dirs'[w].meta.sum = proc[p].sum
        /\ \A e \in Dirs : e # w => dirs'[e] = dirs[e]
    <3>1. dirs'[w] = [dirs[w] EXCEPT !.meta =
                        IF dirs[w].meta.state = "none" THEN dirs[w].meta ELSE m]
      BY <1>a, <2>1, <2>4 DEF TypeOK
    <3>2. dirs[w] \in Dir
      BY <1>a, <2>4 DEF TypeOK
    <3> QED BY <1>a, <2>1, <2>4, <3>1, <3>2 DEF TypeOK, Dir
  <2>6. ControlOK(proc[p])'
    BY <1>b, <2>1, <2>3 DEF ControlOK
  <2>7. CASE proc[p].tmp = NoDir
    <3>1. w \in tainted
      BY <1>b, <2>4, <2>7 DEF ControlOK
    <3>2. \A q \in Procs : proc[q].tmp # w
      BY <2>4, <3>1 DEF IInv, BuildOK
    <3> HIDE DEF w
    <3> QED BY <1>c, <2>1, <2>2, <2>3, <2>4, <2>5, <2>6, <2>7, <3>1, <3>2, InPlaceStep
  <2>8. CASE proc[p].tmp # NoDir
    <3>1. w = proc[p].tmp
      BY <1>b, <2>4, <2>8 DEF ControlOK
    <3>2. BuildOK(proc[p])'
      BY <1>b, <2>1, <2>3, <2>5, <3>1 DEF BuildOK, HydratedIn
    <3> HIDE DEF w
    <3> QED BY <1>c, <2>1, <2>2, <2>3, <2>5, <2>6, <2>8, <3>1, <3>2, TempStep
  <2> QED BY <2>7, <2>8
<1>31. CASE Unlink(p)
  <2> DEFINE v == proc[p].victim
  <2>1. PICK n \in proc[p].names :
          /\ dirs' = [dirs EXCEPT ![v] = Without(dirs[v], n)]
          /\ proc' = [proc EXCEPT ![p] = [proc[p] EXCEPT !.names = proc[p].names \ {n}]]
    BY <1>31 DEF Unlink
  <2>2. /\ proc'[p] = [proc[p] EXCEPT !.names = proc[p].names \ {n}]
        /\ \A q \in Procs : q # p => proc'[q] = proc[q]
    BY <1>d, <2>1
  <2>3. /\ proc[p].pc = "unlink"
        /\ UNCHANGED <<dbPath, orphans, tainted>>
    BY <1>31 DEF Unlink
  <2>4. /\ proc'[p].pc = proc[p].pc /\ proc'[p].job = proc[p].job
        /\ proc'[p].tmp = proc[p].tmp
        /\ proc'[p].wdir = proc[p].wdir /\ proc'[p].victim = proc[p].victim
        /\ proc'[p].rdir = proc[p].rdir /\ proc'[p].snap = proc[p].snap
    BY <1>d, <2>2 DEF Process
  <2>5. v \in Dirs \cup {NoDir} /\ \A q \in Procs : proc[q].tmp \in Dirs \cup {NoDir}
    BY <1>a, <1>d, ProcFields DEF TypeOK
  <2>6. ControlOK(proc[p])'
    BY <1>b, <2>3, <2>4 DEF ControlOK
  <2>7. CASE v = NoDir
    <3>1. dirs' = dirs
      BY <1>a, <2>1, <2>7 DEF TypeOK
    <3>2. BuildOK(proc[p])'
      BY <1>b, <2>3, <2>4, <3>1 DEF BuildOK, HydratedIn
    <3> HIDE DEF v
    <3> QED BY <1>c, <2>2, <2>3, <2>4, <2>6, <3>1, <3>2, QuietStep
  <2>8. CASE v # NoDir
    <3>1. /\ \A e \in Dirs : e # v => dirs'[e] = dirs[e]
          /\ dirs'[v] = Without(dirs[v], n)
      BY <1>a, <2>1, <2>5, <2>8 DEF TypeOK
    <3>2. /\ dirs'[v].db \in {dirs[v].db, NoFile}
          /\ dirs'[v].meta \in {dirs[v].meta, NoMeta}
      BY <3>1 DEF Without
    <3>3. \A q \in Procs : OwnTemp(q) /\ BuildOK(proc[q])
      BY DEF IInv, TempPrivate
    <3>4. \A q \in Procs : proc[q].tmp # v
      BY <2>8, <3>3, OwnTempFacts
    <3>5. \A q \in Procs : proc[q].tmp # NoDir => dirs'[proc[q].tmp] = dirs[proc[q].tmp]
      BY <2>5, <3>1, <3>4
    <3>6. BuildOK(proc[p])'
      BY <1>b, <2>3, <2>4, <3>5 DEF BuildOK, HydratedIn
    <3>7. \A q \in Procs : (q # p /\ proc[q].tmp # NoDir)
             => /\ dirs'[proc[q].tmp] = dirs[proc[q].tmp]
                /\ proc[q].tmp \notin tainted'
      BY <2>3, <3>3, <3>5 DEF BuildOK
    <3>8. (\A q \in Procs : ControlOK(proc[q]) /\ BuildOK(proc[q]))'
      BY <2>2, <2>3, <2>6, <3>6, <3>7, OthersOK
    <3>9. \A q \in Procs :
            /\ proc'[q].tmp = proc[q].tmp /\ proc'[q].wdir = proc[q].wdir
            /\ proc'[q].victim = proc[q].victim
            /\ proc'[q].rdir = proc[q].rdir /\ proc'[q].snap = proc[q].snap
      BY <2>2, <2>4
    <3>10. v \in Dirs
      BY <2>5, <2>8
    <3> HIDE DEF v
    <3> QED BY <1>c, <2>3, <3>1, <3>2, <3>4, <3>8, <3>9, <3>10, SharedStep
  <2> QED BY <2>7, <2>8
<1>32. CASE RenameOK(p)
  <2> DEFINE t == proc[p].tmp
             r == IF proc[p].job \in {"update", "load"}
                    THEN [proc[p] EXCEPT !.pc = "stamp", !.tmp = NoDir] ELSE IdleProc
  <2>1. /\ proc' = [proc EXCEPT ![p] = r]
        /\ dbPath' = t
        /\ UNCHANGED <<dirs, orphans, tainted>>
        /\ proc[p].pc = "rename"
    BY <1>32 DEF RenameOK
  <2>2. proc'[p] = r /\ \A q \in Procs : q # p => proc'[q] = proc[q]
    BY <1>d, <2>1
  <2>3. /\ proc'[p].pc \in {"stamp", "idle"} /\ proc'[p].tmp = NoDir
        /\ proc'[p].wdir \in {proc[p].wdir, NoDir}
        /\ proc'[p].victim \in {proc[p].victim, NoDir}
        /\ \/ proc'[p].rdir = proc[p].rdir /\ proc'[p].snap = proc[p].snap
           \/ proc'[p].rdir = NoDir
    BY <1>d, <2>2 DEF Process, IdleProc
  <2> HIDE DEF r
  <2>4. /\ t # NoDir /\ t \notin tainted /\ HydratedIn(t)
        /\ dirs[t].meta.state = "full" /\ dirs[t].meta.sum = dirs[t].db
    BY <1>b, <2>1 DEF ControlOK, BuildOK
  <2>5. \A q \in Procs : OwnTemp(q) /\ BuildOK(proc[q]) /\ ReaderOK(proc[q])
    BY DEF IInv, TempPrivate, ReaderStable
  <2>6. (\A q \in Procs : ControlOK(proc[q]) /\ BuildOK(proc[q]))'
    <3>1. ControlOK(proc[p])'
      BY <1>b, <2>1, <2>3 DEF ControlOK
    <3>2. BuildOK(proc[p])'
      BY <2>3 DEF BuildOK
    <3> QED BY <2>1, <2>2, <2>5, <3>1, <3>2, OthersOK DEF BuildOK
  <2>7. \A q \in Procs :
          /\ proc'[q].tmp = IF q = p THEN NoDir ELSE proc[q].tmp
          /\ proc'[q].wdir \in {proc[q].wdir, NoDir}
          /\ proc'[q].victim \in {proc[q].victim, NoDir}
          /\ \/ proc'[q].rdir = proc[q].rdir /\ proc'[q].snap = proc[q].snap
             \/ proc'[q].rdir = NoDir
    BY <2>2, <2>3
  <2>8. WritersApart'
    <3>1. WritersApart
      BY DEF IInv
    <3> QED BY <2>7, <3>1 DEF WritersApart
  <2>9. TempPrivate'
    <3> SUFFICES ASSUME NEW q \in Procs PROVE OwnTemp(q)'
      BY DEF TempPrivate
    <3>1. CASE q = p
      BY <2>7, <3>1 DEF OwnTemp
    <3>2. CASE q # p
      <4>1. OwnTemp(q)
        BY <2>5
      <4> QED BY <2>1, <2>7, <3>2, <4>1 DEF OwnTemp
    <3> QED BY <3>1, <3>2
  <2>10. ChecksumSound'
    BY <2>1, <2>4 DEF ChecksumSound, HydratedIn
  <2>11. ReaderStable'
    <3> SUFFICES ASSUME NEW q \in Procs PROVE ReaderOK(proc[q])'
      BY DEF ReaderStable
    <3>1. ReaderOK(proc[q])
      BY <2>5
    <3>2. \/ proc'[q].rdir = proc[q].rdir /\ proc'[q].snap = proc[q].snap
          \/ proc'[q].rdir = NoDir
      BY <2>7
    <3> QED BY <2>1, <3>1, <3>2 DEF ReaderOK
  <2> QED BY <1>c, <2>6, <2>8, <2>9, <2>10, <2>11 DEF IInv
<1>33. CASE Stamp(p) \/ StampFail(p)
  <2>1. /\ proc' = [proc EXCEPT ![p] = AfterUpdate(p, FALSE)]
        /\ UNCHANGED <<dbPath, orphans, tainted>>
    BY <1>33 DEF Stamp, StampFail
  <2>2. /\ proc'[p] = AfterUpdate(p, FALSE)
        /\ \A q \in Procs : q # p => proc'[q] = proc[q]
    BY <1>d, <2>1
  <2>3. /\ proc'[p].tmp = NoDir /\ proc'[p].wdir = NoDir
        /\ proc'[p].victim = NoDir /\ proc'[p].rdir = NoDir
        /\ proc'[p].pc \in {"idle", "status"}
    BY <2>2 DEF AfterUpdate, StatusProc, IdleProc
  <2>4. CASE dirs' = dirs
    BY <1>33, <1>c, <2>1, <2>2, <2>3, <2>4, ResetStep DEF Stamp, StampFail
  <2>5. CASE dbPath # NoDir /\ dirs' # dirs
    <3>1. dbPath \in Dirs
      BY <1>a, <2>5 DEF TypeOK
    <3>2. /\ \A e \in Dirs : e # dbPath => dirs'[e] = dirs[e]
          /\ dirs'[dbPath].db = dirs[dbPath].db
          /\ dirs'[dbPath].meta = dirs[dbPath].meta
      <4>1. PICK c \in {now, 0} :
              dirs' = [dirs EXCEPT ![dbPath] = [dirs[dbPath] EXCEPT !.check = c]]
        BY <1>33, <2>5 DEF Stamp, StampFail
      <4>2. dirs \in [Dirs -> Dir] /\ dirs[dbPath] \in Dir
        BY <1>a, <3>1 DEF TypeOK
      <4>3. dirs'[dbPath] = [dirs[dbPath] EXCEPT !.check = c]
        BY <3>1, <4>1, <4>2
      <4> QED BY <4>1, <4>2, <4>3 DEF Dir
    <3>3. \A q \in Procs : OwnTemp(q) /\ BuildOK(proc[q])
      BY DEF IInv, TempPrivate
    <3>4. \A q \in Procs : proc[q].tmp # dbPath
      BY <2>5, <3>3, OwnTempFacts
    <3>5. \A q \in Procs : proc[q].tmp \in Dirs \cup {NoDir}
      BY <1>a, ProcFields DEF TypeOK
    <3>6. \A q \in Procs : (q # p /\ proc[q].tmp # NoDir)
             => /\ dirs'[proc[q].tmp] = dirs[proc[q].tmp]
                /\ proc[q].tmp \notin tainted'
      BY <2>1, <3>2, <3>3, <3>4, <3>5 DEF BuildOK
    <3>7. ControlOK(proc[p])'
      BY <2>3 DEF ControlOK
    <3>8. BuildOK(proc[p])'
      BY <2>3 DEF BuildOK
    <3>9. (\A q \in Procs : ControlOK(proc[q]) /\ BuildOK(proc[q]))'
      BY <2>1, <2>2, <3>6, <3>7, <3>8, OthersOK
    <3>10. \A q \in Procs :
            /\ proc'[q].tmp \in {proc[q].tmp, NoDir}
            /\ proc'[q].wdir \in {proc[q].wdir, NoDir}
            /\ proc'[q].victim \in {proc[q].victim, NoDir}
            /\ \/ proc'[q].rdir = proc[q].rdir /\ proc'[q].snap = proc[q].snap
               \/ proc'[q].rdir = NoDir
      BY <2>2, <2>3
    <3> QED BY <1>c, <2>1, <3>1, <3>2, <3>4, <3>9, <3>10, SharedStep
  <2> QED BY <1>33, <2>4, <2>5 DEF Stamp, StampFail
<1> QED BY <1>1, <1>2, <1>3, <1>4, <1>5, <1>6, <1>7, <1>8, <1>9, <1>10, <1>11,
           <1>12, <1>13, <1>14, <1>15, <1>16, <1>17, <1>18, <1>19, <1>20, <1>21,
           <1>22, <1>23, <1>24, <1>25, <1>26, <1>27, <1>28, <1>29, <1>30, <1>31,
           <1>32, <1>33 DEF Step

\* Damage to the installed file from outside.
LEMMA InvCorrupt ==
  ASSUME IInv, Corrupt
  PROVE  IInv'
<1> USE CuratorAssumption
<1>1. /\ dbPath \in Dirs /\ dbPath # NoDir
      /\ dirs' = [dirs EXCEPT ![dbPath] = [dirs[dbPath] EXCEPT !.db.bits = @ + 1]]
      /\ tainted' = tainted \cup {dbPath}
      /\ UNCHANGED <<dbPath, orphans, proc, now, latest, crashes, stamped>>
      /\ damage' = damage + 1
  BY DEF IInv, TypeOK, Corrupt, Readable
<1>2. TypeOK'
  BY <1>1, SetDir DEF IInv, TypeOK
<1>3. \A e \in Dirs : e # dbPath => dirs'[e] = dirs[e]
  BY <1>1 DEF IInv, TypeOK
<1>4. \A q \in Procs : OwnTemp(q) /\ ControlOK(proc[q]) /\ BuildOK(proc[q])
  BY DEF IInv, TempPrivate
<1>5. \A q \in Procs : proc[q].tmp # dbPath
  BY <1>1, <1>4, OwnTempFacts
<1>6. \A q \in Procs : proc[q].tmp \in Dirs \cup {NoDir}
  BY ProcFields DEF IInv, TypeOK
<1>7. ASSUME NEW q \in Procs PROVE ControlOK(proc[q])' /\ BuildOK(proc[q])'
  <2>1. ControlOK(proc[q])'
    BY <1>1, <1>4 DEF ControlOK
  <2>2. proc[q].tmp # NoDir => dirs'[proc[q].tmp] = dirs[proc[q].tmp]
    BY <1>3, <1>5, <1>6
  <2>3. BuildOK(proc[q])'
    BY <1>1, <1>4, <1>5, <2>2 DEF BuildOK, HydratedIn
  <2> QED BY <2>1, <2>3
<1> QED BY <1>1, <1>2, <1>3, <1>5, <1>7, SharedStep

LEMMA InvUnchanged ==
  ASSUME IInv, TypeOK', UNCHANGED <<files, proc, tainted>>
  PROVE  IInv'
<1> USE DEF files
<1>1. (\A p \in Procs : ControlOK(proc[p]) /\ BuildOK(proc[p]))'
  BY DEF IInv, ControlOK, BuildOK, HydratedIn
<1>2. WritersApart' /\ TempPrivate'
  BY DEF IInv, WritersApart, TempPrivate, OwnTemp
<1>3. ChecksumSound' /\ ReaderStable'
  BY DEF IInv, ChecksumSound, ReaderStable, ReaderOK
<1> QED BY <1>1, <1>2, <1>3 DEF IInv

\* The invariant that carries the other theorems: what each control state
\* of update, activate, hydrate, replaceDB, Delete and Reader may rely on.
THEOREM Invariant == Spec => []IInv
<1>1. Init => IInv
  <2> SUFFICES ASSUME Init PROVE IInv
    OBVIOUS
  <2>1. TypeOK
    BY CuratorAssumption, IdleType, FileTypes DEF Init, TypeOK
  <2>2. \A p \in Procs : /\ proc[p].pc = "idle" /\ proc[p].tmp = NoDir
                         /\ proc[p].wdir = NoDir /\ proc[p].rdir = NoDir
    BY DEF Init, IdleProc
  <2>3. \A p \in Procs : ControlOK(proc[p]) /\ BuildOK(proc[p])
    BY <2>2 DEF ControlOK, BuildOK
  <2>4. WritersApart /\ TempPrivate
    BY <2>2 DEF WritersApart, TempPrivate, OwnTemp
  <2>5. ChecksumSound /\ ReaderStable
    BY <2>2 DEF Init, ChecksumSound, ReaderStable, ReaderOK
  <2> QED BY <2>1, <2>3, <2>4, <2>5 DEF IInv
<1>2. IInv /\ [Next]_vars => IInv'
  <2> SUFFICES ASSUME IInv, [Next]_vars PROVE IInv'
    OBVIOUS
  <2>1. CASE \E p \in Procs : Step(p)
    BY <2>1, InvStep
  <2>2. CASE Corrupt
    BY <2>2, InvCorrupt
  <2>3. CASE Tick
    <3>1. TypeOK'
      BY <2>3 DEF Tick, IInv, TypeOK, files, history
    <3> QED BY <2>3, <3>1, InvUnchanged DEF Tick, history
  <2>4. CASE Publish
    <3>1. TypeOK'
      BY <2>4 DEF Publish, IInv, TypeOK, files, history
    <3> QED BY <2>4, <3>1, InvUnchanged DEF Publish, history
  <2>5. CASE UNCHANGED vars
    <3>1. TypeOK'
      BY <2>5 DEF vars, files, env, history, IInv, TypeOK
    <3> QED BY <2>5, <3>1, InvUnchanged DEF vars, history
  <2> QED BY <2>1, <2>2, <2>3, <2>4, <2>5 DEF Next
<1> QED BY <1>1, <1>2, PTL DEF Spec

\* Whatever Update, Import, Delete and Reader do, every variable of the
\* curator keeps its type.
THEOREM TypeCorrect == Spec => []TypeOK
<1>1. IInv => TypeOK
  BY DEF IInv
<1> QED BY <1>1, Invariant, PTL

\* For any number of processes and crashes, DBDirectoryPath() never pairs a
\* database with another one's import.json, nor holds one not hydrated: replaceDB
\* moves a directory in only after hydrate has sealed it.
THEOREM ChecksumCorrect == Spec => []ChecksumSound
<1>1. IInv => ChecksumSound
  BY DEF IInv
<1> QED BY <1>1, Invariant, PTL

\* For any number of processes, Update, Import and Delete never write to a file
\* that a Reader has open with immutable=1.
THEOREM ReaderCorrect == Spec => []ReaderStable
<1>1. IInv => ReaderStable
  BY DEF IInv
<1> QED BY <1>1, Invariant, PTL

\* For any number of processes, the temp directory of an Update or an Import is
\* out of reach of every other process's replaceDB, Delete and cleanup.
THEOREM TempCorrect == Spec => []TempPrivate
<1>1. IInv => TempPrivate
  BY DEF IInv
<1> QED BY <1>1, Invariant, PTL

-----------------------------------------------------------------------------
(***************************************************************************)
(* What the cache directory offers: for any number of processes it         *)
(* implements the abstract machine ServedDB, and for a process working     *)
(* alone updates move forward and the timestamp of the last check vouches  *)
(* for the database beside it.                                             *)
(***************************************************************************)

(* What a step does to the files *)

\* What a step of p may do to the directory d: rewrite import.json, empty a
\* directory that is not installed, fill its temp directory, hydrate, unlink
\* one file, write the timestamp or truncate it.
FileEffect(p, d) ==
  LET old == dirs[d]
      new == dirs'[d]
  IN  \/ new.db = old.db /\ new.check = old.check
      \/ /\ proc[p].pc \in {"mktemp", "cleanup"} /\ d # dbPath
         /\ new.db = NoFile /\ new.check = 0
      \/ /\ proc[p].pc = "fetch" /\ d = proc[p].tmp /\ d # dbPath
         /\ new.db = [built |-> proc[p].cand, bits |-> 0] /\ new.check = old.check
      \/ /\ proc[p].pc = "hydrate" /\ d = Target(p)
         /\ new.db.built = old.db.built /\ new.db.bits > 0
         /\ new.meta = old.meta /\ new.check = old.check
      \/ /\ proc[p].pc = "unlink" /\ d = proc[p].victim
         /\ \/ new.db = NoFile /\ new.check = old.check
            \/ new.db = old.db /\ new.check = 0
         /\ new.meta = old.meta
      \/ /\ proc[p].pc = "stamp" /\ d = dbPath
         /\ new.db = old.db /\ new.meta = old.meta
         /\ stamped' = proc[p].seen \/ (new.check = 0 /\ stamped' = stamped)

\* The path of the installed database is freed, or a sealed temp directory is
\* renamed to it.
PathEffect(p) ==
  \/ dbPath' \in {dbPath, NoDir}
  \/ /\ proc[p].pc = "rename" /\ dbPath = NoDir /\ dbPath' = proc[p].tmp
     /\ UNCHANGED dirs

LEMMA Effects ==
  ASSUME IInv, NEW p \in Procs, Step(p)
  PROVE  /\ \A d \in Dirs : FileEffect(p, d)
         /\ PathEffect(p)
         /\ stamped' \in {stamped, proc[p].seen}
         /\ stamped' # stamped => proc[p].pc = "stamp"
         /\ latest' = latest
<1> USE CuratorAssumption DEF files, env, history
<1>a. TypeOK /\ ControlOK(proc[p]) /\ BuildOK(proc[p]) /\ OwnTemp(p)
  BY DEF IInv, TempPrivate
<1>b. dirs \in [Dirs -> Dir] /\ proc[p] \in Process
  BY <1>a DEF TypeOK
<1>c. proc[p].tmp # NoDir => proc[p].tmp \in Dirs /\ proc[p].tmp # dbPath
  BY <1>a, <1>b, ProcFields DEF OwnTemp
<1>1. CASE \/ StartUpdate(p) \/ ReadCurrent(p) \/ Throttle(p) \/ CheckOK(p)
           \/ CheckFail(p) \/ StartImport(p) \/ MkdirTempFail(p) \/ DigestDB(p)
           \/ MetaFail(p) \/ StatDB(p) \/ StartDelete(p) \/ PurgeOpen(p)
           \/ RenameFail(p)
  BY <1>1 DEF StartUpdate, ReadCurrent, Throttle, CheckOK, CheckFail, StartImport,
     MkdirTempFail, DigestDB, MetaFail, StatDB, StartDelete, PurgeOpen, RenameFail,
     FileEffect, PathEffect
<1>2. CASE \/ StartScan(p) \/ StatusAge(p) \/ StatusVerify(p) \/ OpenReader(p)
           \/ Decide(p) \/ Reopen(p) \/ CloseReader(p) \/ Crash(p) \/ FetchFail(p)
  BY <1>2 DEF StartScan, StatusAge, StatusVerify, OpenReader, Decide, Reopen,
     CloseReader, Crash, FetchFail, FileEffect, PathEffect
<1>3. CASE MkdirTemp(p)
  <2>1. PICK e \in Unused : dirs' = [dirs EXCEPT ![e] = EmptyDir]
    BY <1>3 DEF MkdirTemp
  <2>2. e \in Dirs /\ e # dbPath
    BY DEF Unused
  <2>3. \A d \in Dirs : FileEffect(p, d)
    BY <1>3, <1>b, <2>1, <2>2 DEF MkdirTemp, FileEffect, EmptyDir
  <2> QED BY <1>3, <2>3 DEF MkdirTemp, PathEffect
<1>4. CASE FetchOK(p)
  <2> DEFINE t == proc[p].tmp
             f == [built |-> proc[p].cand, bits |-> 0]
  <2>1. t \in Dirs /\ t # dbPath /\ proc[p].pc = "fetch"
    BY <1>4, <1>a, <1>c DEF FetchOK, ControlOK
  <2>2. dirs' = [dirs EXCEPT ![t] = [dirs[t] EXCEPT !.db = f]]
    BY <1>4 DEF FetchOK
  <2>3. \A d \in Dirs : FileEffect(p, d)
    BY <1>b, <2>1, <2>2 DEF FileEffect, Dir
  <2> QED BY <1>4, <2>3 DEF FetchOK, PathEffect
<1>5. CASE HydrateOK(p)
  <2> DEFINE t == Target(p)
             g == [dirs[t].db EXCEPT !.bits = @ + 1]
  <2>1. t \in Dirs /\ proc[p].pc = "hydrate"
    BY <1>5, <1>a, TargetType DEF HydrateOK, Readable
  <2>2. dirs' = [dirs EXCEPT ![t] = [dirs[t] EXCEPT !.db = g]]
    BY <1>5 DEF HydrateOK
  <2>3. g.built = dirs[t].db.built /\ g.bits > 0
    BY <1>b, <2>1 DEF Dir, DBFile
  <2>4. \A d \in Dirs : FileEffect(p, d)
    <3> HIDE DEF g
    <3> QED BY <1>b, <2>1, <2>2, <2>3 DEF FileEffect, Dir
  <2> QED BY <1>5, <2>4 DEF HydrateOK, PathEffect
<1>6. CASE HydrateFail(p)
  <2> DEFINE t == Target(p)
  <2>1. CASE t = NoDir
    BY <1>6, <2>1 DEF HydrateFail, FileEffect, PathEffect
  <2>2. CASE t # NoDir
    <3>1. t \in Dirs /\ proc[p].pc = "hydrate"
      BY <1>6, <1>a, <2>2, TargetType DEF HydrateFail
    <3>2. PICK touched \in BOOLEAN :
            dirs' = [dirs EXCEPT ![t].db = HalfHydrated(@, touched)]
      BY <1>6, <2>2 DEF HydrateFail
    <3> DEFINE g == HalfHydrated(dirs[t].db, touched)
    <3>3. dirs' = [dirs EXCEPT ![t] = [dirs[t] EXCEPT !.db = g]]
      BY <3>2
    <3>4. g = dirs[t].db \/ (g.built = dirs[t].db.built /\ g.bits > 0)
      BY <1>b, <3>1 DEF Dir, DBFile, HalfHydrated, NoFile, BlankFile
    <3>5. \A d \in Dirs : FileEffect(p, d)
      <4> HIDE DEF g
      <4> QED BY <1>b, <3>1, <3>3, <3>4 DEF FileEffect, Dir
    <3> QED BY <1>6, <3>5 DEF HydrateFail, PathEffect
  <2> QED BY <2>1, <2>2
<1>7. CASE TruncateMeta(p)
  <2> DEFINE t == Target(p)
             m == [NoMeta EXCEPT !.state = "empty"]
  <2>1. dirs' = [dirs EXCEPT ![t] = [dirs[t] EXCEPT !.meta = m]]
    BY <1>7 DEF TruncateMeta
  <2>2. \A d \in Dirs : FileEffect(p, d)
    <3> HIDE DEF m
    <3> QED BY <1>b, <2>1 DEF FileEffect, Dir
  <2> QED BY <1>7, <2>2 DEF TruncateMeta, PathEffect
<1>8. CASE WriteMeta(p)
  <2> DEFINE w == proc[p].wdir
             m == IF dirs[w].meta.state = "none" THEN dirs[w].meta
                  ELSE [state |-> "full", sum |-> proc[p].sum, client |-> Client[p]]
  <2>1. dirs' = [dirs EXCEPT ![w] = [dirs[w] EXCEPT !.meta = m]]
    BY <1>8 DEF WriteMeta
  <2>2. \A d \in Dirs : FileEffect(p, d)
    <3> HIDE DEF m
    <3> QED BY <1>b, <2>1 DEF FileEffect, Dir
  <2> QED BY <1>8, <2>2 DEF WriteMeta, PathEffect
<1>9. CASE Unlink(p)
  <2> DEFINE v == proc[p].victim
  <2>1. PICK n \in proc[p].names : dirs' = [dirs EXCEPT ![v] = Without(dirs[v], n)]
    BY <1>9 DEF Unlink
  <2>2. n \in FileNames /\ proc[p].pc = "unlink"
    BY <1>9, <1>b, ProcFields DEF Unlink
  <2>3. \A d \in Dirs : FileEffect(p, d)
    BY <1>b, <2>1, <2>2 DEF FileEffect, Without, FileNames
  <2> QED BY <1>9, <2>3 DEF Unlink, PathEffect
<1>10. CASE Rmdir(p)
  BY <1>10 DEF Rmdir, FileEffect, PathEffect
<1>11. CASE RenameOK(p)
  BY <1>11 DEF RenameOK, FileEffect, PathEffect
<1>12. CASE Cleanup(p)
  <2> DEFINE t == proc[p].tmp
  <2>1. t \in Dirs /\ t # dbPath
    BY <1>12, <1>a, <1>c DEF Cleanup, ControlOK
  <2>2. \A d \in Dirs : FileEffect(p, d)
    BY <1>12, <1>b, <2>1 DEF Cleanup, FileEffect, EmptyDir
  <2> QED BY <1>12, <2>2 DEF Cleanup, PathEffect
<1>13. CASE Stamp(p)
  <2>1. dirs' = [dirs EXCEPT ![dbPath] = [dirs[dbPath] EXCEPT !.check = now]]
    BY <1>13 DEF Stamp
  <2>2. \A d \in Dirs : FileEffect(p, d)
    BY <1>13, <1>b, <2>1 DEF Stamp, FileEffect, Dir
  <2> QED BY <1>13, <2>2 DEF Stamp, PathEffect
<1>14. CASE StampFail(p)
  <2>1. CASE dirs' = dirs
    BY <1>14, <2>1 DEF StampFail, FileEffect, PathEffect
  <2>2. CASE dbPath # NoDir /\ dirs' = [dirs EXCEPT ![dbPath].check = 0]
    <3>1. dirs' = [dirs EXCEPT ![dbPath] = [dirs[dbPath] EXCEPT !.check = 0]]
      BY <2>2
    <3>2. \A d \in Dirs : FileEffect(p, d)
      BY <1>14, <1>b, <2>2, <3>1 DEF StampFail, FileEffect, Dir
    <3> QED BY <1>14, <3>2 DEF StampFail, PathEffect
  <2> QED BY <1>14, <2>1, <2>2 DEF StampFail
<1> QED BY <1>1, <1>2, <1>3, <1>4, <1>5, <1>6, <1>7, <1>8, <1>9, <1>10, <1>11,
           <1>12, <1>13, <1>14 DEF Step
-----------------------------------------------------------------------------
(* The refinement of ServedDB *)

\* Only builds that the listing has offered are ever downloaded or imported,
\* and no database is installed before it was hydrated.
OnlyPublished ==
  /\ \A d \in Dirs : dirs[d].db.built <= latest
  /\ \A p \in Procs : proc[p].cand <= latest
  /\ Readable(dbPath) => dirs[dbPath].db.bits > 0

\* The candidate of a process comes from a listing, from an import, or is reset.
LEMMA Candidates ==
  ASSUME IInv, OnlyPublished, NEW p \in Procs, Step(p)
  PROVE  \A q \in Procs : proc'[q].cand <= latest
<1> USE CuratorAssumption
<1>a. proc \in [Procs -> Process] /\ proc[p] \in Process /\ latest \in Nat
  BY DEF IInv, TypeOK
<1>b. \A q \in Procs : proc[q].cand <= latest
  BY DEF OnlyPublished
<1> SUFFICES /\ proc'[p].cand \in {proc[p].cand, 0} \cup (1 .. latest)
             /\ \A q \in Procs : q # p => proc'[q].cand = proc[q].cand
  BY <1>a, <1>b
<1>1. CASE StartUpdate(p)
  BY <1>1, <1>a DEF StartUpdate, IdleProc, Process
<1>2. CASE ReadCurrent(p)
  BY <1>2, <1>a DEF ReadCurrent, Process
<1>3. CASE Throttle(p)
  BY <1>3, <1>a DEF Throttle, AfterUpdate, StatusProc, IdleProc, Process
<1>4. CASE CheckOK(p)
  BY <1>4, <1>a DEF CheckOK, Process
<1>5. CASE CheckFail(p)
  BY <1>5, <1>a DEF CheckFail, AfterUpdate, StatusProc, IdleProc, Process
<1>6. CASE StartImport(p)
  BY <1>6, <1>a DEF StartImport, IdleProc, Process
<1>7. CASE MkdirTemp(p)
  BY <1>7, <1>a DEF MkdirTemp, Process
<1>8. CASE MkdirTempFail(p)
  BY <1>8, <1>a DEF MkdirTempFail, AfterUpdate, StatusProc, IdleProc, Process
<1>9. CASE FetchOK(p)
  BY <1>9, <1>a DEF FetchOK, Process
<1>10. CASE FetchFail(p)
  BY <1>10, <1>a DEF FetchFail, AfterUpdate, StatusProc, IdleProc, Process
<1>11. CASE HydrateOK(p)
  BY <1>11, <1>a DEF HydrateOK, Process
<1>12. CASE HydrateFail(p)
  BY <1>12, <1>a DEF HydrateFail, AfterHydrateError, Process
<1>13. CASE TruncateMeta(p)
  BY <1>13, <1>a DEF TruncateMeta, Process
<1>14. CASE DigestDB(p)
  BY <1>14, <1>a DEF DigestDB, Process
<1>15. CASE WriteMeta(p)
  BY <1>15, <1>a DEF WriteMeta, Process
<1>16. CASE MetaFail(p)
  BY <1>16, <1>a DEF MetaFail, AfterHydrateError, Process
<1>17. CASE StatDB(p)
  BY <1>17, <1>a DEF StatDB, Process
<1>18. CASE StartDelete(p)
  BY <1>18, <1>a DEF StartDelete, IdleProc, Process
<1>19. CASE PurgeOpen(p)
  BY <1>19, <1>a DEF PurgeOpen, AfterPurge, IdleProc, Process
<1>20. CASE Unlink(p)
  BY <1>20, <1>a DEF Unlink, Process
<1>21. CASE Rmdir(p)
  BY <1>21, <1>a DEF Rmdir, AfterPurge, IdleProc, Process
<1>22. CASE RenameOK(p)
  BY <1>22, <1>a DEF RenameOK, IdleProc, Process
<1>23. CASE RenameFail(p)
  BY <1>23, <1>a DEF RenameFail, Process
<1>24. CASE Cleanup(p)
  BY <1>24, <1>a DEF Cleanup, AfterUpdate, StatusProc, IdleProc, Process
<1>25. CASE Stamp(p)
  BY <1>25, <1>a DEF Stamp, AfterUpdate, StatusProc, IdleProc, Process
<1>26. CASE StartScan(p)
  BY <1>26, <1>a DEF StartScan, StatusProc, IdleProc, Process
<1>27. CASE StatusAge(p)
  BY <1>27, <1>a DEF StatusAge, IdleProc, Process
<1>28. CASE StatusVerify(p)
  BY <1>28, <1>a DEF StatusVerify, IdleProc, Process
<1>29. CASE OpenReader(p)
  BY <1>29, <1>a DEF OpenReader, IdleProc, Process
<1>30. CASE Decide(p)
  BY <1>30, <1>a DEF Decide, IdleProc, Process
<1>31. CASE Reopen(p)
  BY <1>31, <1>a DEF Reopen, IdleProc, Process
<1>32. CASE CloseReader(p)
  BY <1>32, <1>a DEF CloseReader, IdleProc, Process
<1>33. CASE Crash(p)
  BY <1>33, <1>a DEF Crash, IdleProc, Process
<1>34. CASE StampFail(p)
  BY <1>34, <1>a DEF StampFail, AfterUpdate, StatusProc, IdleProc, Process
<1> QED BY <1>1, <1>2, <1>3, <1>4, <1>5, <1>6, <1>7, <1>8, <1>9, <1>10, <1>11,
           <1>12, <1>13, <1>14, <1>15, <1>16, <1>17, <1>18, <1>19, <1>20,
           <1>21, <1>22, <1>23, <1>24, <1>25, <1>26, <1>27, <1>28, <1>29,
           <1>30, <1>31, <1>32, <1>33, <1>34 DEF Step

LEMMA PublishedStep ==
  ASSUME IInv, OnlyPublished, NEW p \in Procs, Step(p)
  PROVE  OnlyPublished'
<1> USE CuratorAssumption
<1>a. TypeOK /\ TypeOK' /\ ControlOK(proc[p]) /\ BuildOK(proc[p])
  BY InvStep DEF IInv
<1>b. /\ latest' = latest /\ latest \in Nat
      /\ \A d \in Dirs : FileEffect(p, d)
      /\ PathEffect(p)
  BY <1>a, Effects DEF TypeOK
<1>c. \A d \in Dirs : dirs[d] \in Dir /\ dirs'[d] \in Dir
  BY <1>a DEF TypeOK
<1>1. \A d \in Dirs : dirs'[d].db.built <= latest
  <2> TAKE d \in Dirs
  <2>1. dirs[d].db.built <= latest /\ proc[p].cand <= latest
    BY DEF OnlyPublished
  <2>2. dirs'[d].db.built \in {dirs[d].db.built, 0, proc[p].cand}
    BY <1>b DEF FileEffect, NoFile
  <2> QED BY <1>b, <2>1, <2>2
<1>2. Readable(dbPath)' => dirs'[dbPath'].db.bits > 0
  <2> SUFFICES ASSUME Readable(dbPath)' PROVE dirs'[dbPath'].db.bits > 0
    OBVIOUS
  <2> DEFINE d == dbPath'
  <2>1. d \in Dirs /\ d # NoDir /\ dirs'[d].db.built # 0
    BY <1>a DEF TypeOK, Readable
  <2>2. CASE dbPath = dbPath'
    <3>1. FileEffect(p, dbPath)
      BY <1>b, <2>1, <2>2
    <3>2. \/ dirs'[d].db = dirs[d].db
          \/ dirs'[d].db = NoFile
          \/ dirs'[d].db.bits > 0
      BY <2>2, <3>1 DEF FileEffect
    <3> QED BY <2>1, <2>2, <3>2 DEF OnlyPublished, Readable, NoFile
  <2>3. CASE dbPath # dbPath'
    <3>1. proc[p].pc = "rename" /\ d = proc[p].tmp /\ UNCHANGED dirs
      BY <1>b, <2>1, <2>3 DEF PathEffect
    <3> QED BY <1>a, <2>1, <3>1 DEF BuildOK, HydratedIn
  <2> QED BY <2>2, <2>3
<1> QED BY <1>1, <1>2, <1>b, Candidates DEF OnlyPublished

\* Damage, the clock and new builds in the listing keep it too.
LEMMA PublishedEnv ==
  ASSUME IInv, OnlyPublished, Corrupt \/ Tick \/ Publish
  PROVE  OnlyPublished'
<1> USE CuratorAssumption DEF files, history
<1>a. TypeOK /\ dirs \in [Dirs -> Dir] /\ now \in Nat /\ latest \in Nat
  BY DEF IInv, TypeOK
<1>b. \A d \in Dirs : dirs[d].db.built \in Nat /\ dirs[d].db.bits \in Nat
  BY <1>a, DirFields
<1>c. \A q \in Procs : proc[q].cand \in Nat
  BY <1>a, ProcFields DEF TypeOK
<1>1. CASE Corrupt
  <2>1. /\ dbPath \in Dirs
        /\ dirs' = [dirs EXCEPT ![dbPath] = [dirs[dbPath] EXCEPT !.db.bits = @ + 1]]
        /\ UNCHANGED <<dbPath, proc, latest>>
    BY <1>1, <1>a DEF Corrupt, Readable, TypeOK
  <2>2. /\ dirs'[dbPath].db.built = dirs[dbPath].db.built
        /\ dirs'[dbPath].db.bits = dirs[dbPath].db.bits + 1
        /\ \A d \in Dirs : d # dbPath => dirs'[d] = dirs[d]
    BY <1>a, <2>1 DEF Dir, DBFile
  <2> QED BY <1>b, <2>1, <2>2 DEF OnlyPublished, Readable
<1>2. CASE Tick
  BY <1>2 DEF Tick, OnlyPublished, Readable
<1>3. CASE Publish
  <2>1. latest' > latest /\ latest' \in Nat /\ UNCHANGED <<dirs, dbPath, proc>>
    BY <1>3, <1>a DEF Publish
  <2> QED BY <1>a, <1>b, <1>c, <2>1 DEF OnlyPublished, Readable
<1> QED BY <1>1, <1>2, <1>3

\* What the cache serves, as the refinement mapping of DBCurator states it.
servedBy == IF IntegrityOK(dbPath) THEN dirs[dbPath].db ELSE NoFile

\* A step that, at the installed path, changes the file or its metadata but not
\* both, or removes or fills the path, is a step of the abstract machine.
LEMMA ServedStep ==
  ASSUME TypeOK, TypeOK', OnlyPublished', UNCHANGED latest,
         \/ dbPath = NoDir
         \/ dbPath' = NoDir
         \/ /\ dbPath' = dbPath
            /\ \/ dirs'[dbPath].db = dirs[dbPath].db
               \/ dirs'[dbPath].meta = dirs[dbPath].meta
  PROVE  [Served!Next]_<<servedBy, latest>>
<1> USE CuratorAssumption
<1>a. /\ dbPath # NoDir => dbPath \in Dirs /\ dirs[dbPath] \in Dir
      /\ dbPath' # NoDir => dbPath' \in Dirs /\ dirs'[dbPath'] \in Dir
      /\ latest \in Nat
  BY DEF TypeOK
<1>b. servedBy # NoFile => IntegrityOK(dbPath) /\ servedBy = dirs[dbPath].db
  BY DEF servedBy
<1>c. servedBy' # NoFile => IntegrityOK(dbPath)' /\ servedBy' = dirs'[dbPath'].db
  BY DEF servedBy
<1>1. CASE servedBy' = servedBy
  BY <1>1
<1>2. CASE servedBy # NoFile /\ servedBy' = NoFile
  <2>1. Served!Withdraw
    BY <1>2 DEF Served!Withdraw, Served!None, servedBy, NoFile
  <2> QED BY <2>1 DEF Served!Next
<1>3. CASE servedBy = NoFile /\ servedBy' # NoFile
  <2>1. IntegrityOK(dbPath)' /\ servedBy' = dirs'[dbPath'].db
    BY <1>3, <1>c
  <2>2. /\ dbPath' # NoDir /\ dirs'[dbPath'].db \in DBFile
        /\ dirs'[dbPath'].db.built # 0
    BY <1>a, <2>1, DirFields DEF IntegrityOK, Readable
  <2>3. servedBy'.built \in 1 .. latest /\ servedBy'.bits > 0
    BY <1>a, <2>1, <2>2 DEF OnlyPublished, Readable, DBFile
  <2>4. servedBy' = [built |-> servedBy'.built, bits |-> servedBy'.bits]
    BY <2>1, <2>2 DEF DBFile
  <2>5. Served!Install
    BY <1>3, <2>3, <2>4 DEF Served!Install, Served!None, servedBy, NoFile
  <2> QED BY <2>5 DEF Served!Next
<1>4. CASE servedBy # NoFile /\ servedBy' # NoFile /\ servedBy' # servedBy
  BY <1>b, <1>c, <1>4 DEF IntegrityOK, Readable, HasImportMetadata
<1> QED BY <1>1, <1>2, <1>3, <1>4

\* However many processes update, import, delete, rehydrate, crash, and whatever
\* damage is done to the installed file, what validateIntegrity accepts changes
\* only as ServedDB allows: a published and hydrated build appears whole, and it
\* is withdrawn before another one appears.
THEOREM CacheImplementsServedDB == Spec => ImplementsServedDB
<1> USE CuratorAssumption
<1>1. Init => OnlyPublished /\ Served!Init
  BY DEF Init, OnlyPublished, Served!Init, Served!None, EmptyDir, NoFile, IdleProc,
         IntegrityOK, Readable
<1>2. IInv /\ OnlyPublished /\ [Next]_vars => OnlyPublished'
  <2> SUFFICES ASSUME IInv, OnlyPublished, [Next]_vars PROVE OnlyPublished'
    OBVIOUS
  <2>1. CASE UNCHANGED vars
    BY <2>1 DEF vars, files, env, OnlyPublished, Readable
  <2> QED BY <2>1, PublishedStep, PublishedEnv DEF Next
<1>3. IInv /\ IInv' /\ OnlyPublished /\ OnlyPublished' /\ [Next]_vars
        => [Served!Next]_<<servedBy, latest>>
  <2> SUFFICES ASSUME IInv, IInv', OnlyPublished, OnlyPublished', [Next]_vars
               PROVE  [Served!Next]_<<servedBy, latest>>
    OBVIOUS
  <2>a. TypeOK /\ TypeOK'
    BY DEF IInv
  <2>1. ASSUME NEW p \in Procs, Step(p) PROVE [Served!Next]_<<servedBy, latest>>
    <3>1. /\ \A d \in Dirs : FileEffect(p, d)
          /\ PathEffect(p) /\ latest' = latest
      BY <2>1, Effects
    <3>2. (dbPath' = dbPath /\ dbPath # NoDir) =>
            \/ dirs'[dbPath].db = dirs[dbPath].db
            \/ dirs'[dbPath].meta = dirs[dbPath].meta
      BY <2>a, <3>1 DEF FileEffect, TypeOK
    <3> QED BY <2>a, <3>1, <3>2, ServedStep DEF PathEffect
  <2>2. CASE Corrupt
    <3>1. /\ dbPath \in Dirs /\ UNCHANGED <<dbPath, latest>>
          /\ dirs' = [dirs EXCEPT ![dbPath] = [dirs[dbPath] EXCEPT !.db.bits = @ + 1]]
      BY <2>2, <2>a DEF Corrupt, Readable, TypeOK
    <3>2. dirs'[dbPath].meta = dirs[dbPath].meta
      BY <2>a, <3>1 DEF TypeOK, Dir
    <3> QED BY <2>a, <3>1, <3>2, ServedStep
  <2>3. CASE Tick
    BY <2>3 DEF Tick, files, servedBy, IntegrityOK, Readable, HasImportMetadata
  <2>4. CASE Publish
    <3>1. servedBy' = servedBy
      BY <2>4 DEF Publish, files, servedBy, IntegrityOK, Readable, HasImportMetadata
    <3>2. latest' > latest
      BY <2>4, <2>a DEF Publish, TypeOK
    <3> QED BY <3>1, <3>2 DEF Served!Next, Served!Publish, servedBy
  <2>5. CASE UNCHANGED vars
    BY <2>5 DEF vars, files, env, servedBy, IntegrityOK, Readable, HasImportMetadata
  <2> QED BY <2>1, <2>2, <2>3, <2>4, <2>5 DEF Next
<1> QED BY <1>1, <1>2, <1>3, Invariant, PTL DEF Spec, ImplementsServedDB, Served!Spec, servedBy

-----------------------------------------------------------------------------
(* A process working alone *)

\* One grype process uses the cache at a time.
OneProcess == \A p, q \in Procs : p = q

\* What a lone Update relies on: the build it read is still the one installed
\* when it compares it with the listing; from there on its candidate is no older
\* than either; its temp directory holds that candidate, and no timestamp.
UpdateOK(r) ==
  /\ r.pc \in {"read", "throttle", "check", "mktemp", "stamp"} => r.tmp = NoDir
  /\ (r.pc \in {"throttle", "check"} /\ r.cur # 0 /\ Readable(dbPath))
       => dirs[dbPath].db.built = r.cur
  /\ (r.pc = "stamp" /\ Readable(dbPath))
       => dirs[dbPath].db.built >= r.cur /\ dirs[dbPath].db.built >= r.seen
  /\ (r.pc = "mktemp" \/ r.tmp # NoDir) => r.cand >= r.cur /\ r.cand >= r.seen
  /\ r.tmp # NoDir => dirs[r.tmp].check = 0
  /\ (r.tmp # NoDir /\ r.pc \notin {"fetch", "cleanup"})
       => dirs[r.tmp].db.built = r.cand

AloneInv == (\A p \in Procs : UpdateOK(proc[p])) /\ StampCoversDB

\* The moves of one process between the control states of Update and Import:
\* from old to new, its locals before and after the step.
Move(old, new) ==
  LET same == new.cur = old.cur /\ new.cand = old.cand /\ new.seen = old.seen
      held == new.tmp = old.tmp
  IN  \/ /\ new.tmp = NoDir
         /\ new.pc \notin {"read", "throttle", "check", "mktemp", "stamp"}
      \/ new.pc = "read" /\ new.tmp = NoDir
      \/ /\ new.pc = "mktemp" /\ new.tmp = NoDir
         /\ new.cur = 0 /\ new.seen = 0
      \/ /\ old.pc = "read" /\ new.pc \in {"throttle", "check"} /\ held
         /\ new.cur # 0 => Readable(dbPath) /\ new.cur = dirs[dbPath].db.built
         /\ UNCHANGED <<dirs, dbPath>>
      \/ /\ old.pc = "throttle" /\ new.pc = "check" /\ same /\ held
         /\ UNCHANGED <<dirs, dbPath>>
      \/ /\ old.pc = "check" /\ new.pc = "mktemp" /\ held
         /\ new.cand = new.seen /\ new.cand >= new.cur
      \/ /\ old.pc = "check" /\ new.pc = "stamp" /\ held
         /\ new.cur = old.cur /\ new.cur # 0 /\ new.seen <= new.cur
         /\ UNCHANGED <<dirs, dbPath>>
      \/ /\ old.pc = "mktemp" /\ new.pc = "fetch" /\ same
         /\ dirs'[new.tmp].check = 0
      \/ /\ old.pc = "fetch" /\ new.pc = "hydrate" /\ same /\ held
         /\ dirs'[new.tmp].db.built = new.cand
      \/ /\ same /\ held
         /\ new.pc \notin {"read", "throttle", "check", "mktemp", "stamp", "fetch"}
         /\ old.pc \notin {"fetch", "cleanup"} \/ new.pc = "cleanup"
      \/ /\ old.pc = "rename" /\ new.pc = "stamp" /\ same /\ new.tmp = NoDir
         /\ dbPath' = old.tmp /\ UNCHANGED dirs

LEMMA Moves ==
  ASSUME IInv, NEW p \in Procs, Step(p)
  PROVE  Move(proc[p], proc'[p])
<1> USE CuratorAssumption DEF files, env, history
<1>a. /\ proc \in [Procs -> Process] /\ proc[p] \in Process
      /\ dirs \in [Dirs -> Dir] /\ latest \in Nat
      /\ ControlOK(proc[p])
  BY DEF IInv, TypeOK
<1>b. proc[p].tmp \in Dirs \cup {NoDir} /\ proc[p].cur \in Nat
  BY <1>a, ProcFields
<1>1. CASE StartUpdate(p)
  BY <1>1, <1>a, <1>b DEF StartUpdate, IdleProc, Process, Move
<1>2. CASE ReadCurrent(p)
  BY <1>2, <1>a, <1>b DEF ReadCurrent, Process, Move
<1>3. CASE Throttle(p)
  BY <1>3, <1>a, <1>b DEF Throttle, AfterUpdate, StatusProc, IdleProc, Process, Move
<1>4. CASE CheckOK(p)
  BY <1>4, <1>a, <1>b DEF CheckOK, isSupersededBy, Process, Move
<1>5. CASE CheckFail(p)
  BY <1>5, <1>a, <1>b DEF CheckFail, AfterUpdate, StatusProc, IdleProc, Process, Move
<1>6. CASE StartImport(p)
  BY <1>6, <1>a, <1>b DEF StartImport, IdleProc, Process, Move
<1>7. CASE MkdirTemp(p)
  BY <1>7, <1>a, <1>b DEF MkdirTemp, Unused, EmptyDir, Process, Move
<1>8. CASE MkdirTempFail(p)
  BY <1>8, <1>a, <1>b DEF MkdirTempFail, AfterUpdate, StatusProc, IdleProc, Process, Move
<1>9. CASE FetchOK(p)
  BY <1>9, <1>a, <1>b DEF FetchOK, Dir, ControlOK, Process, Move
<1>10. CASE FetchFail(p)
  BY <1>10, <1>a, <1>b DEF FetchFail, AfterUpdate, StatusProc, IdleProc, Process, Move
<1>11. CASE HydrateOK(p)
  BY <1>11, <1>a, <1>b DEF HydrateOK, Process, Move
<1>12. CASE HydrateFail(p)
  BY <1>12, <1>a, <1>b DEF HydrateFail, AfterHydrateError, Process, Move
<1>13. CASE TruncateMeta(p)
  BY <1>13, <1>a, <1>b DEF TruncateMeta, Process, Move
<1>14. CASE DigestDB(p)
  BY <1>14, <1>a, <1>b DEF DigestDB, Process, Move
<1>15. CASE WriteMeta(p)
  BY <1>15, <1>a, <1>b DEF WriteMeta, Process, Move
<1>16. CASE MetaFail(p)
  BY <1>16, <1>a, <1>b DEF MetaFail, AfterHydrateError, Process, Move
<1>17. CASE StatDB(p)
  BY <1>17, <1>a, <1>b DEF StatDB, Process, Move
<1>18. CASE StartDelete(p)
  BY <1>18, <1>a, <1>b DEF StartDelete, IdleProc, Process, Move
<1>19. CASE PurgeOpen(p)
  BY <1>19, <1>a, <1>b DEF PurgeOpen, AfterPurge, IdleProc, Process, Move
<1>20. CASE Unlink(p)
  BY <1>20, <1>a, <1>b DEF Unlink, Process, Move
<1>21. CASE Rmdir(p)
  BY <1>21, <1>a, <1>b DEF Rmdir, AfterPurge, IdleProc, Process, Move
<1>22. CASE RenameOK(p)
  BY <1>22, <1>a, <1>b DEF RenameOK, IdleProc, Process, Move
<1>23. CASE RenameFail(p)
  BY <1>23, <1>a, <1>b DEF RenameFail, Process, Move
<1>24. CASE Cleanup(p)
  BY <1>24, <1>a, <1>b DEF Cleanup, AfterUpdate, StatusProc, IdleProc, Process, Move
<1>25. CASE Stamp(p)
  BY <1>25, <1>a, <1>b DEF Stamp, AfterUpdate, StatusProc, IdleProc, Process, Move
<1>26. CASE StartScan(p)
  BY <1>26, <1>a, <1>b DEF StartScan, StatusProc, IdleProc, Process, Move
<1>27. CASE StatusAge(p)
  BY <1>27, <1>a, <1>b DEF StatusAge, IdleProc, Process, Move
<1>28. CASE StatusVerify(p)
  BY <1>28, <1>a, <1>b DEF StatusVerify, IdleProc, Process, Move
<1>29. CASE OpenReader(p)
  BY <1>29, <1>a, <1>b DEF OpenReader, IdleProc, Process, Move
<1>30. CASE Decide(p)
  BY <1>30, <1>a, <1>b DEF Decide, IdleProc, Process, Move
<1>31. CASE Reopen(p)
  BY <1>31, <1>a, <1>b DEF Reopen, IdleProc, Process, Move
<1>32. CASE CloseReader(p)
  BY <1>32, <1>a, <1>b DEF CloseReader, IdleProc, Process, Move
<1>33. CASE Crash(p)
  BY <1>33, <1>a, <1>b DEF Crash, IdleProc, Process, Move
<1>34. CASE StampFail(p)
  BY <1>34, <1>a, <1>b DEF StampFail, AfterUpdate, StatusProc, IdleProc, Process, Move
<1> QED BY <1>1, <1>2, <1>3, <1>4, <1>5, <1>6, <1>7, <1>8, <1>9, <1>10, <1>11,
           <1>12, <1>13, <1>14, <1>15, <1>16, <1>17, <1>18, <1>19, <1>20,
           <1>21, <1>22, <1>23, <1>24, <1>25, <1>26, <1>27, <1>28, <1>29,
           <1>30, <1>31, <1>32, <1>33, <1>34 DEF Step

LEMMA AloneStep ==
  ASSUME OneProcess, IInv, AloneInv, NEW p \in Procs, Step(p)
  PROVE  AloneInv'
<1> USE CuratorAssumption
<1> DEFINE r == proc[p]
           n == proc'[p]
<1>a. TypeOK /\ TypeOK' /\ ControlOK(r) /\ BuildOK(r) /\ OwnTemp(p) /\ UpdateOK(r)
  BY InvStep DEF IInv, TempPrivate, AloneInv
<1>b. /\ \A d \in Dirs : FileEffect(p, d)
      /\ PathEffect(p)
      /\ stamped' \in {stamped, r.seen}
      /\ stamped' # stamped => r.pc = "stamp"
      /\ Move(r, n)
  BY Effects, Moves
<1>c. \A d \in Dirs : /\ dirs[d].db.built \in Nat /\ dirs'[d].db.built \in Nat
                      /\ dirs[d].db.bits \in Nat
  BY <1>a, DirFields DEF TypeOK
<1>d. /\ r.tmp # NoDir => r.tmp \in Dirs /\ r.tmp # dbPath /\ r.victim # r.tmp
      /\ r.pc = "rename" => r.tmp # NoDir
      /\ n.tmp \in Dirs \cup {NoDir}
  BY <1>a, ProcFields DEF TypeOK, OwnTemp, ControlOK
<1>e. /\ r.cur \in Nat /\ r.cand \in Nat /\ r.seen \in Nat
      /\ n.cur \in Nat /\ n.cand \in Nat /\ n.seen \in Nat
  BY <1>a, ProcFields DEF TypeOK
<1>1. UpdateOK(proc[p])'
  <2>1. n.tmp = r.tmp /\ n.tmp # NoDir => dirs'[n.tmp].check = 0
    BY <1>a, <1>b, <1>d DEF UpdateOK, FileEffect
  <2>2. (r.tmp # NoDir /\ r.pc \notin {"fetch", "cleanup"})
          => dirs'[r.tmp].db.built = r.cand
    BY <1>a, <1>b, <1>d DEF FileEffect, UpdateOK
  <2>3. CASE n.tmp = NoDir /\ n.pc \notin {"throttle", "check", "mktemp", "stamp"}
    BY <2>3 DEF UpdateOK
  <2>4. CASE n.pc = "mktemp"
    BY <1>a, <1>b, <1>e, <2>4 DEF Move, UpdateOK
  <2>5. CASE n.pc \in {"throttle", "check"}
    BY <1>a, <1>b, <1>e, <2>5 DEF Move, UpdateOK, Readable
  <2>6. CASE n.pc = "stamp"
    <3>1. CASE r.pc = "check"
      BY <1>a, <1>b, <1>e, <2>6, <3>1 DEF Move, UpdateOK, Readable
    <3>2. CASE r.pc = "rename"
      BY <1>a, <1>b, <1>d, <1>e, <2>2, <2>6, <3>2 DEF Move, UpdateOK, Readable
    <3> QED BY <1>b, <2>6, <3>1, <3>2 DEF Move
  <2>7. CASE n.tmp # NoDir /\ n.pc \notin {"read", "throttle", "check", "mktemp", "stamp"}
    BY <1>a, <1>b, <1>e, <2>1, <2>2, <2>7 DEF Move, UpdateOK
  <2>8. n.pc = "read" => n.tmp = NoDir
    BY <1>b DEF Move
  <2> QED BY <2>3, <2>4, <2>5, <2>6, <2>7, <2>8
<1>2. StampCoversDB'
  <2> SUFFICES ASSUME dbPath' # NoDir, dirs'[dbPath'].check # 0, Readable(dbPath)'
               PROVE  dirs'[dbPath'].db.built >= stamped'
    BY DEF StampCoversDB
  <2>1. dbPath' \in Dirs /\ dirs'[dbPath'].db.built # 0 /\ stamped \in Nat
    BY <1>a DEF TypeOK, Readable
  <2>2. CASE dbPath' # dbPath
    <3>1. r.pc = "rename" /\ dbPath' = r.tmp /\ UNCHANGED dirs
      BY <1>b, <2>2 DEF PathEffect
    <3> QED BY <1>a, <1>d, <3>1 DEF UpdateOK
  <2>3. CASE dbPath' = dbPath
    <3>1. FileEffect(p, dbPath)
      BY <1>b, <2>1, <2>3
    <3>2. CASE r.pc = "stamp"
      <4>1. dirs'[dbPath].db = dirs[dbPath].db
        BY <2>1, <2>3, <3>1, <3>2 DEF FileEffect, NoFile
      <4>2. \/ dirs'[dbPath].check \in {dirs[dbPath].check, 0} /\ stamped' = stamped
            \/ stamped' = r.seen
        BY <1>b, <3>1, <3>2, <2>3 DEF FileEffect
      <4>3. Readable(dbPath) /\ dirs[dbPath].db.built >= r.seen
        BY <1>a, <2>1, <2>3, <3>2, <4>1 DEF UpdateOK, Readable
      <4> QED BY <2>1, <2>3, <4>1, <4>2, <4>3 DEF AloneInv, StampCoversDB
    <3>3. CASE r.pc # "stamp"
      <4>1. stamped' = stamped
        BY <1>b, <3>3
      <4>2. /\ dirs'[dbPath].db.built \in {dirs[dbPath].db.built, 0}
            /\ dirs'[dbPath].check \in {dirs[dbPath].check, 0}
        BY <2>3, <3>1, <3>3 DEF FileEffect, NoFile
      <4> QED BY <2>1, <2>3, <4>1, <4>2 DEF AloneInv, StampCoversDB, Readable
    <3> QED BY <3>2, <3>3
  <2> QED BY <2>2, <2>3
<1> QED
  <2>1. \A q \in Procs : q = p
    BY DEF OneProcess
  <2> QED BY <1>1, <1>2, <2>1 DEF AloneInv

LEMMA AloneEnv ==
  ASSUME IInv, AloneInv, Corrupt \/ Tick \/ Publish \/ UNCHANGED vars
  PROVE  AloneInv'
<1> USE CuratorAssumption DEF vars, files, env, history
<1>1. CASE Corrupt
  <2>1. /\ dbPath \in Dirs
        /\ dirs' = [dirs EXCEPT ![dbPath] = [dirs[dbPath] EXCEPT !.db.bits = @ + 1]]
        /\ UNCHANGED <<dbPath, proc, stamped>>
        /\ dirs \in [Dirs -> Dir]
    BY <1>1 DEF Corrupt, Readable, IInv, TypeOK
  <2>2. \A d \in Dirs : /\ dirs'[d].db.built = dirs[d].db.built
                        /\ dirs'[d].check = dirs[d].check
    BY <2>1 DEF Dir, DBFile
  <2>3. \A p \in Procs : proc[p].tmp \in Dirs \cup {NoDir}
    BY ProcFields DEF IInv, TypeOK
  <2>4. ASSUME NEW p \in Procs PROVE UpdateOK(proc[p])'
    <3>1. UpdateOK(proc[p])
      BY DEF AloneInv
    <3> QED BY <2>1, <2>2, <2>3, <3>1 DEF UpdateOK, Readable
  <2>5. StampCoversDB'
    BY <2>1, <2>2 DEF AloneInv, StampCoversDB, Readable
  <2> QED BY <2>4, <2>5 DEF AloneInv
<1>2. CASE Tick \/ Publish \/ UNCHANGED vars
  <2>1. UNCHANGED <<dirs, dbPath, proc, stamped>>
    BY <1>2 DEF Tick, Publish
  <2> QED BY <2>1 DEF AloneInv, UpdateOK, StampCoversDB, Readable
<1> QED BY <1>1, <1>2

\* The invariant of a lone process, whatever is crashed, imported or deleted
\* between its updates.
THEOREM AloneInvariant ==
  ASSUME OneProcess
  PROVE  Spec => []AloneInv
<1>1. Init => AloneInv
  BY DEF Init, AloneInv, UpdateOK, StampCoversDB, IdleProc
<1>2. IInv /\ AloneInv /\ [Next]_vars => AloneInv'
  BY AloneStep, AloneEnv DEF Next
<1> QED BY <1>1, <1>2, Invariant, PTL DEF Spec

\* A process working alone never replaces a database it accepted as current by
\* an older build, whatever the listing's lag, the damage and the crashes.
THEOREM NeverDowngrades ==
  ASSUME OneProcess
  PROVE  Spec => []UpdateNeverDowngrades
<1>1. AloneInv => UpdateNeverDowngrades
  BY DEF AloneInv, UpdateOK, UpdateNeverDowngrades
<1> QED BY <1>1, AloneInvariant, PTL

\* For a process working alone, the timestamp that suppresses update checks
\* always stands beside a build at least as new as the listing offered then.
THEOREM StampCorrect ==
  ASSUME OneProcess
  PROVE  Spec => []StampCoversDB
<1>1. AloneInv => StampCoversDB
  BY DEF AloneInv
<1> QED BY <1>1, AloneInvariant, PTL
=============================================================================
