------------------------------ MODULE DBCurator ------------------------------
(***************************************************************************)
(* The curator of the installed vulnerability database (v6): any number of *)
(* grype processes share one cache directory and, without any lock, check  *)
(* for a newer database, download it, hydrate it, swap it in, import one   *)
(* by hand, delete it, and open it for a scan.                             *)
(*                                                                         *)
(* Every file-system call that another process can observe is a step of    *)
(* its own.  A directory is an inode: os.RemoveAll lists and unlinks the   *)
(* entries of the directory it opened, while Rename, Stat and the readers  *)
(* resolve the path of the installed database when they are called.        *)
(*                                                                         *)
(* Times and builds are positive numbers of one clock; 0 stands for "no    *)
(* build", "no timestamp".  The digest of a database file is its content.  *)
(***************************************************************************)
EXTENDS Integers, FiniteSets

CONSTANTS
  Procs,                   \* grype processes sharing the cache directory
  Dirs,                    \* directory inodes
  NoDir,                   \* "no directory"
  Client,                  \* Client[p]: schema version compiled into p's binary
  DBVersion,               \* schema version of the published databases
  ValidateAge,             \* Config.ValidateAge
  ValidateChecksum,        \* Config.ValidateChecksum
  RequireUpdateCheck,      \* distribution Config.RequireUpdateCheck
  MaxAllowedBuiltAge,      \* Config.MaxAllowedBuiltAge
  UpdateCheckMaxFrequency, \* Config.UpdateCheckMaxFrequency, 0 means no limit
  ListingLag,              \* how far behind the newest build a listing may be
  MaxTime,                 \* bound: last instant of the clock
  MaxCrashes,              \* bound: processes killed in the middle of an operation
  MaxDamage,               \* bound: corruptions of the installed file from outside
  Jobs                     \* the commands the processes issue

AllJobs == {"update", "load", "scan", "import", "importURL", "delete"}

ASSUME CuratorAssumption ==
  /\ NoDir \notin Dirs
  /\ Client \in [Procs -> Nat]
  /\ DBVersion \in Nat
  /\ ValidateAge \in BOOLEAN
  /\ ValidateChecksum \in BOOLEAN
  /\ RequireUpdateCheck \in BOOLEAN
  /\ MaxAllowedBuiltAge \in Nat
  /\ UpdateCheckMaxFrequency \in Nat
  /\ ListingLag \in Nat
  /\ MaxTime \in Nat \ {0}
  /\ MaxCrashes \in Nat
  /\ MaxDamage \in Nat
  /\ Jobs \subseteq AllJobs

VARIABLES
  now,      \* the wall clock
  latest,   \* the build the distribution listing offers
  dirs,     \* dirs[d]: the files in directory d
  dbPath,   \* the directory at DBDirectoryPath(), or NoDir
  orphans,  \* temp directories under DBRootDir that no process owns any more
  proc,     \* proc[p]: control state and local variables of process p
  crashes,  \* processes killed so far
  damage,   \* corruptions so far
  tainted,  \* history: directories rehydrated in place or corrupted
  stamped   \* history: the listing's build behind the last check timestamp

files   == <<dirs, dbPath, orphans>>
env     == <<now, latest, crashes, damage>>
history == <<tainted, stamped>>
vars    == <<files, proc, env, history>>

-----------------------------------------------------------------------------
(* Files and directories *)

DBFile == [built : Nat, bits : Nat]

\* bits counts the writes to the file: 0 is the file as distributed.
NoFile    == [built |-> 0, bits |-> 0]
BlankFile == [built |-> 0, bits |-> 1]  \* what SQLite creates when the file is missing

Meta   == [state : {"none", "empty", "full"}, sum : DBFile, client : Nat]
NoMeta == [state |-> "none", sum |-> NoFile, client |-> 0]

FileNames == {"db", "meta", "check"}
Dir       == [db : DBFile, meta : Meta, check : Nat]
EmptyDir  == [db |-> NoFile, meta |-> NoMeta, check |-> 0]

\* The names RemoveAll reads from a directory.
Listing(d) == {n \in FileNames :
                 \/ n = "db"    /\ d.db # NoFile
                 \/ n = "meta"  /\ d.meta # NoMeta
                 \/ n = "check" /\ d.check # 0}

\* A directory after one of its files is unlinked.
Without(d, n) == [db    |-> IF n = "db" THEN NoFile ELSE d.db,
                  meta  |-> IF n = "meta" THEN NoMeta ELSE d.meta,
                  check |-> IF n = "check" THEN 0 ELSE d.check]

\* ReadDescription succeeds: the file exists and is a database of this model.
Readable(d) == d # NoDir /\ dirs[d].db.built # 0

\* ReadImportMetadata succeeds.
HasImportMetadata(d) == d # NoDir /\ dirs[d].meta.state = "full"

\* validateIntegrity: the recorded digest is the digest of the file.
IntegrityOK(d) == /\ Readable(d)
                  /\ HasImportMetadata(d)
                  /\ dirs[d].meta.sum = dirs[d].db

\* validateAge
AgeOK(built) == ValidateAge => now - built <= MaxAllowedBuiltAge

\* isUpdateCheckAllowed and durationSinceUpdateCheck
isUpdateCheckAllowed ==
  \/ UpdateCheckMaxFrequency = 0
  \/ dbPath = NoDir
  \/ dirs[dbPath].check = 0
  \/ now - dirs[dbPath].check > UpdateCheckMaxFrequency

\* Mutants: any other build counts as an update; one build behind is close
\* enough; a missing database is left alone.
isSupersededBy_AnyOther(current, candidate) == candidate # current
isSupersededBy_Tolerant(current, candidate) == current = 0 \/ candidate > current + 1
isSupersededBy_NotFirst(current, candidate) == current # 0 /\ candidate > current

\* isSupersededBy: 0 is a nil current description.
isSupersededBy(current, candidate) == current = 0 \/ candidate > current

\* isRehydrationNeeded, on the client version recorded at import.
isRehydrationNeeded(recorded, client) == recorded <= DBVersion /\ recorded < client

-----------------------------------------------------------------------------
(* Processes *)

Labels == {"idle", "read", "throttle", "check", "mktemp", "fetch", "hydrate",
           "truncate", "digest", "write", "stat", "purge", "unlink", "rename",
           "cleanup", "stamp", "status", "verify", "open", "decide", "reopen",
           "loaded"}

Process == [pc     : Labels,
            job    : AllJobs \cup {"none"},
            cur    : Nat,                     \* current.Built, 0 for nil
            cand   : Nat,                     \* build being installed
            seen   : Nat,                     \* history: what the listing offered
            tmp    : Dirs \cup {NoDir},       \* own temp directory
            victim : Dirs \cup {NoDir},       \* directory RemoveAll has open
            names  : SUBSET FileNames,        \* its entries still to unlink
            wdir   : Dirs \cup {NoDir},       \* where import.json is open for writing
            sum    : DBFile,                  \* digest computed
            rdir   : Dirs \cup {NoDir},       \* where the reader's file is open
            snap   : DBFile]                  \* its content when it was opened

IdleProc == [pc |-> "idle", job |-> "none", cur |-> 0, cand |-> 0, seen |-> 0,
             tmp |-> NoDir, victim |-> NoDir, names |-> {}, wdir |-> NoDir,
             sum |-> NoFile, rdir |-> NoDir, snap |-> NoFile]

StatusProc(j) == [IdleProc EXCEPT !.pc = "status", !.job = j]

\* Where LoadVulnerabilityDB continues when Update has returned; a bare
\* command (db update, db import) ends.
AfterUpdate(p, failed) ==
  IF proc[p].job = "load" /\ ~(failed /\ RequireUpdateCheck)
    THEN StatusProc("load")
    ELSE IdleProc

\* hydrate works on the temp directory, or in place when Reader rehydrates.
InPlace(p) == proc[p].tmp = NoDir
Target(p)  == IF InPlace(p) THEN dbPath ELSE proc[p].tmp

\* hydrate returned an error: activate's callers clean up, Reader only logs.
AfterHydrateError(p) ==
  IF InPlace(p) THEN [proc[p] EXCEPT !.pc = "reopen", !.wdir = NoDir]
                ELSE [proc[p] EXCEPT !.pc = "cleanup", !.wdir = NoDir]

\* A path that MkdirTemp can return: no directory anybody refers to.
Unused == {d \in Dirs :
             /\ d # dbPath
             /\ d \notin orphans
             /\ \A p \in Procs : d \notin {proc[p].tmp, proc[p].victim,
                                           proc[p].wdir, proc[p].rdir}}

Init == /\ now = 1
        /\ latest = 1
        /\ dirs = [d \in Dirs |-> EmptyDir]
        /\ dbPath = NoDir
        /\ orphans = {}
        /\ proc = [p \in Procs |-> IdleProc]
        /\ crashes = 0
        /\ damage = 0
        /\ tainted = {}
        /\ stamped = 0

-----------------------------------------------------------------------------
(* Update: deciding whether to look for a new database *)

StartUpdate(p) ==
  /\ proc[p].pc = "idle"
  /\ \E j \in Jobs \cap {"update", "load"} :
       proc' = [proc EXCEPT ![p] = [IdleProc EXCEPT !.pc = "read", !.job = j]]
  /\ UNCHANGED <<files, env, history>>

\* ReadDescription, then validateAge: an unreadable or too old database counts
\* as none, and the frequency limit is not consulted for it.
ReadCurrent(p) ==
  /\ proc[p].pc = "read"
  /\ LET usable == Readable(dbPath) /\ AgeOK(dirs[dbPath].db.built)
     IN  proc' = [proc EXCEPT
                    ![p].cur = IF usable THEN dirs[dbPath].db.built ELSE 0,
                    ![p].pc  = IF usable THEN "throttle" ELSE "check"]
  /\ UNCHANGED <<files, env, history>>

Throttle(p) ==
  /\ proc[p].pc = "throttle"
  /\ proc' = [proc EXCEPT ![p] = IF isUpdateCheckAllowed
                                   THEN [@ EXCEPT !.pc = "check"]
                                   ELSE AfterUpdate(p, FALSE)]
  /\ UNCHANGED <<files, env, history>>

\* IsUpdateAvailable got a listing, possibly one that is behind.
CheckOK(p) ==
  /\ proc[p].pc = "check"
  /\ \E b \in 1 .. latest :
       LET update == isSupersededBy(proc[p].cur, b)
       IN  /\ b >= latest - ListingLag
           /\ proc' = [proc EXCEPT ![p].seen = b,
                                   ![p].cand = IF update THEN b ELSE 0,
                                   ![p].pc   = IF update THEN "mktemp" ELSE "stamp"]
  /\ UNCHANGED <<files, env, history>>

\* The listing could not be fetched: no candidate, and no timestamp either.
CheckFail(p) ==
  /\ proc[p].pc = "check"
  /\ proc' = [proc EXCEPT ![p] = AfterUpdate(p, TRUE)]
  /\ UNCHANGED <<files, env, history>>

-----------------------------------------------------------------------------
(* Import, Download: filling a temp directory *)

StartImport(p) ==
  /\ proc[p].pc = "idle"
  /\ \E j \in Jobs \cap {"import", "importURL"}, b \in 1 .. latest :
       proc' = [proc EXCEPT ![p] = [IdleProc EXCEPT !.pc = "mktemp", !.job = j,
                                                    !.cand = b]]
  /\ UNCHANGED <<files, env, history>>

\* Mutant: a name that another process may be using too.
MkdirTemp_Shared(p) ==
  /\ proc[p].pc = "mktemp"
  /\ \E d \in Dirs \ ({dbPath} \cup orphans) :
       /\ dirs' = [dirs EXCEPT ![d] = EmptyDir]
       /\ tainted' = tainted \ {d}
       /\ proc' = [proc EXCEPT ![p].pc = "fetch", ![p].tmp = d]
  /\ UNCHANGED <<dbPath, orphans, env, stamped>>

MkdirTemp(p) ==
  /\ proc[p].pc = "mktemp"
  /\ \E d \in Unused :
       /\ dirs' = [dirs EXCEPT ![d] = EmptyDir]
       /\ tainted' = tainted \ {d}
       /\ proc' = [proc EXCEPT ![p].pc = "fetch", ![p].tmp = d]
  /\ UNCHANGED <<dbPath, orphans, env, stamped>>

\* No temp directory can be created (or the bound on directories is reached).
MkdirTempFail(p) ==
  /\ proc[p].pc = "mktemp"
  /\ proc' = [proc EXCEPT ![p] = AfterUpdate(p, TRUE)]
  /\ UNCHANGED <<files, env, history>>

\* Mutant: download straight into the installed directory when there is one.
FetchOK_InPlace(p) ==
  /\ proc[p].pc = "fetch"
  /\ dirs' = [dirs EXCEPT ![IF dbPath # NoDir THEN dbPath ELSE proc[p].tmp].db =
                              [built |-> proc[p].cand, bits |-> 0]]
  /\ proc' = [proc EXCEPT ![p].pc = "hydrate"]
  /\ UNCHANGED <<dbPath, orphans, env, history>>

\* GetToDir, CopyFile or unarchive delivered the database.
FetchOK(p) ==
  /\ proc[p].pc = "fetch"
  /\ dirs' = [dirs EXCEPT ![proc[p].tmp].db = [built |-> proc[p].cand, bits |-> 0]]
  /\ proc' = [proc EXCEPT ![p].pc = "hydrate"]
  /\ UNCHANGED <<dbPath, orphans, env, history>>

\* Download removes its directory; a failed copy or unarchive leaves it.
FetchFail(p) ==
  /\ proc[p].pc = "fetch"
  /\ orphans' = IF proc[p].job = "import" THEN orphans \cup {proc[p].tmp} ELSE orphans
  /\ proc' = [proc EXCEPT ![p] = AfterUpdate(p, TRUE)]
  /\ UNCHANGED <<dirs, dbPath, env, history>>

-----------------------------------------------------------------------------
(* hydrate: migrate the database, then record its digest in import.json *)

\* In-place work is recorded in the history variable tainted.
Taint(p, d) == tainted' = IF InPlace(p) THEN tainted \cup ({d} \ {NoDir}) ELSE tainted

HydrateOK(p) ==
  /\ proc[p].pc = "hydrate"
  /\ Readable(Target(p))
  /\ dirs' = [dirs EXCEPT ![Target(p)].db.bits = @ + 1]
  /\ proc' = [proc EXCEPT ![p].pc = "truncate"]
  /\ Taint(p, Target(p))
  /\ UNCHANGED <<dbPath, orphans, env, stamped>>

\* A failed migration: SQLite creates a missing file before the model check
\* fails, and a migration that stops half way may have written to the file.
HalfHydrated(f, touched) ==
  IF f = NoFile THEN BlankFile
  ELSE IF touched /\ f.built # 0 THEN [f EXCEPT !.bits = @ + 1]
  ELSE f

HydrateFail(p) ==
  /\ proc[p].pc = "hydrate"
  /\ IF Target(p) = NoDir
       THEN dirs' = dirs
       ELSE \E touched \in BOOLEAN :
              dirs' = [dirs EXCEPT ![Target(p)].db = HalfHydrated(@, touched)]
  /\ proc' = [proc EXCEPT ![p] = AfterHydrateError(p)]
  /\ Taint(p, Target(p))
  /\ UNCHANGED <<dbPath, orphans, env, stamped>>

\* WriteImportMetadata opens import.json with O_TRUNC before it hashes the file ...
TruncateMeta(p) ==
  /\ proc[p].pc = "truncate"
  /\ Target(p) # NoDir
  /\ dirs' = [dirs EXCEPT ![Target(p)].meta = [NoMeta EXCEPT !.state = "empty"]]
  /\ proc' = [proc EXCEPT ![p].pc = "digest", ![p].wdir = Target(p)]
  /\ Taint(p, Target(p))
  /\ UNCHANGED <<dbPath, orphans, env, stamped>>

\* Mutant: the digest of the file as distributed is recorded.
DigestDB_BeforeHydration(p) ==
  /\ proc[p].pc = "digest"
  /\ Target(p) # NoDir
  /\ dirs[Target(p)].db # NoFile
  /\ proc' = [proc EXCEPT ![p].pc = "write",
                          ![p].sum = [dirs[Target(p)].db EXCEPT !.bits = 0]]
  /\ UNCHANGED <<files, env, history>>

\* ... hashes whatever database is at the path by then ...
DigestDB(p) ==
  /\ proc[p].pc = "digest"
  /\ Target(p) # NoDir
  /\ dirs[Target(p)].db # NoFile
  /\ proc' = [proc EXCEPT ![p].pc = "write", ![p].sum = dirs[Target(p)].db]
  /\ UNCHANGED <<files, env, history>>

\* ... and writes to the file it opened, unlinked meanwhile or not.
WriteMeta(p) ==
  /\ proc[p].pc = "write"
  /\ dirs' = [dirs EXCEPT ![proc[p].wdir].meta =
                IF @.state = "none" THEN @
                ELSE [state |-> "full", sum |-> proc[p].sum, client |-> Client[p]]]
  /\ proc' = [proc EXCEPT ![p].pc = IF InPlace(p) THEN "reopen" ELSE "stat",
                          ![p].wdir = NoDir]
  /\ UNCHANGED <<dbPath, orphans, env, history>>

\* Opening, hashing or writing failed.
MetaFail(p) ==
  /\ proc[p].pc \in {"truncate", "digest", "write"}
  /\ proc' = [proc EXCEPT ![p] = AfterHydrateError(p)]
  /\ UNCHANGED <<files, env, history>>

-----------------------------------------------------------------------------
(* replaceDB and Delete *)

\* Stat: skip the purge when nothing is installed.
StatDB(p) ==
  /\ proc[p].pc = "stat"
  /\ proc' = [proc EXCEPT ![p].pc = IF dbPath = NoDir THEN "rename" ELSE "purge"]
  /\ UNCHANGED <<files, env, history>>

StartDelete(p) ==
  /\ proc[p].pc = "idle"
  /\ "delete" \in Jobs
  /\ proc' = [proc EXCEPT ![p] = [IdleProc EXCEPT !.pc = "purge", !.job = "delete"]]
  /\ UNCHANGED <<files, env, history>>

AfterPurge(p, failed) ==
  IF proc[p].job = "delete" THEN IdleProc
  ELSE [proc[p] EXCEPT !.pc = IF failed THEN "cleanup" ELSE "rename",
                       !.victim = NoDir, !.names = {}]

\* RemoveAll opens the directory at the path and reads its entries once.
PurgeOpen(p) ==
  /\ proc[p].pc = "purge"
  /\ proc' = [proc EXCEPT ![p] = IF dbPath = NoDir
                                   THEN AfterPurge(p, FALSE)
                                   ELSE [@ EXCEPT !.pc = "unlink", !.victim = dbPath,
                                                  !.names = Listing(dirs[dbPath])]]
  /\ UNCHANGED <<files, env, history>>

\* Entries go one at a time, in the order the file system listed them.
Unlink(p) ==
  /\ proc[p].pc = "unlink"
  /\ \E n \in proc[p].names :
       /\ dirs' = [dirs EXCEPT ![proc[p].victim] = Without(@, n)]
       /\ proc' = [proc EXCEPT ![p].names = @ \ {n}]
  /\ UNCHANGED <<dbPath, orphans, env, history>>

\* The directory itself is removed by path, and only if it is empty.
Rmdir(p) ==
  /\ proc[p].pc = "unlink"
  /\ proc[p].names = {}
  /\ LET failed == dbPath # NoDir /\ dirs[dbPath] # EmptyDir
     IN  /\ dbPath' = IF failed THEN dbPath ELSE NoDir
         /\ proc' = [proc EXCEPT ![p] = AfterPurge(p, failed)]
  /\ UNCHANGED <<dirs, orphans, env, history>>

\* Mutant: a rename that replaces what is at the path.
RenameOK_Replaces(p) ==
  /\ proc[p].pc = "rename"
  /\ dbPath' = proc[p].tmp
  /\ proc' = [proc EXCEPT ![p] = IF proc[p].job \in {"update", "load"}
                                   THEN [@ EXCEPT !.pc = "stamp", !.tmp = NoDir]
                                   ELSE IdleProc]
  /\ UNCHANGED <<dirs, orphans, env, history>>

\* Rename does not replace a directory: it succeeds only if none is at the path
\* again.
RenameOK(p) ==
  /\ proc[p].pc = "rename"
  /\ dbPath = NoDir
  /\ dbPath' = proc[p].tmp
  /\ proc' = [proc EXCEPT ![p] = IF proc[p].job \in {"update", "load"}
                                   THEN [@ EXCEPT !.pc = "stamp", !.tmp = NoDir]
                                   ELSE IdleProc]
  /\ UNCHANGED <<dirs, orphans, env, history>>

\* MkdirAll of the parent, or Rename, failed, with a directory at the path or not.
RenameFail(p) ==
  /\ proc[p].pc = "rename"
  /\ proc' = [proc EXCEPT ![p].pc = "cleanup"]
  /\ UNCHANGED <<files, env, history>>

\* activate failed: update and Import both remove the temp directory.
Cleanup(p) ==
  /\ proc[p].pc = "cleanup"
  /\ dirs' = [dirs EXCEPT ![proc[p].tmp] = EmptyDir]
  /\ proc' = [proc EXCEPT ![p] = AfterUpdate(p, TRUE)]
  /\ UNCHANGED <<dbPath, orphans, env, history>>

\* Mutant: the timestamp is set back so that the next check is allowed at once.
Stamp_Backdated(p) ==
  /\ proc[p].pc = "stamp"
  /\ dbPath # NoDir
  /\ dirs' = [dirs EXCEPT ![dbPath].check = now - UpdateCheckMaxFrequency - 1]
  /\ stamped' = proc[p].seen
  /\ proc' = [proc EXCEPT ![p] = AfterUpdate(p, FALSE)]
  /\ UNCHANGED <<dbPath, orphans, env, tainted>>

\* setLastSuccessfulUpdateCheck writes into the directory at the path.
Stamp(p) ==
  /\ proc[p].pc = "stamp"
  /\ dbPath # NoDir
  /\ dirs' = [dirs EXCEPT ![dbPath].check = now]
  /\ stamped' = proc[p].seen
  /\ proc' = [proc EXCEPT ![p] = AfterUpdate(p, FALSE)]
  /\ UNCHANGED <<dbPath, orphans, env, tainted>>

\* The file could not be opened, as when there is no directory, or it was
\* truncated and not written: an empty one does not count as a timestamp. The
\* update has succeeded all the same.
StampFail(p) ==
  /\ proc[p].pc = "stamp"
  /\ \/ UNCHANGED dirs
     \/ dbPath # NoDir /\ dirs' = [dirs EXCEPT ![dbPath].check = 0]
  /\ proc' = [proc EXCEPT ![p] = AfterUpdate(p, FALSE)]
  /\ UNCHANGED <<dbPath, orphans, env, history>>

-----------------------------------------------------------------------------
(* LoadVulnerabilityDB: Status, then Reader *)

\* LoadVulnerabilityDB without an update (auto-update switched off).
StartScan(p) ==
  /\ proc[p].pc = "idle"
  /\ "scan" \in Jobs
  /\ proc' = [proc EXCEPT ![p] = StatusProc("scan")]
  /\ UNCHANGED <<files, env, history>>

\* Status, first half: read the description, check the age.
StatusAge(p) ==
  /\ proc[p].pc = "status"
  /\ proc' = [proc EXCEPT ![p] =
                IF Readable(dbPath) /\ AgeOK(dirs[dbPath].db.built)
                  THEN [@ EXCEPT !.pc = "verify"] ELSE IdleProc]
  /\ UNCHANGED <<files, env, history>>

\* Status, second half: compare the digest, fatal if ValidateChecksum.
StatusVerify(p) ==
  /\ proc[p].pc = "verify"
  /\ proc' = [proc EXCEPT ![p] = IF ValidateChecksum => IntegrityOK(dbPath)
                                   THEN [@ EXCEPT !.pc = "open"] ELSE IdleProc]
  /\ UNCHANGED <<files, env, history>>

\* Reader: of its own Status call only "does not exist" stops it.
OpenReader(p) ==
  /\ proc[p].pc = "open"
  /\ proc' = [proc EXCEPT ![p] = IF Readable(dbPath)
                                   THEN [@ EXCEPT !.pc = "decide", !.rdir = dbPath,
                                                  !.snap = dirs[dbPath].db]
                                   ELSE IdleProc]
  /\ UNCHANGED <<files, env, history>>

\* isRehydrationNeeded: without import metadata Reader fails; if an older
\* client hydrated the database, close it and rehydrate in place.
Decide(p) ==
  /\ proc[p].pc = "decide"
  /\ proc' = [proc EXCEPT ![p] =
                IF ~HasImportMetadata(dbPath) THEN IdleProc
                ELSE IF isRehydrationNeeded(dirs[dbPath].meta.client, Client[p])
                  THEN [@ EXCEPT !.pc = "hydrate", !.rdir = NoDir, !.snap = NoFile]
                  ELSE [@ EXCEPT !.pc = "loaded"]]
  /\ UNCHANGED <<files, env, history>>

\* Open again after the rehydration, whether or not it succeeded.
Reopen(p) ==
  /\ proc[p].pc = "reopen"
  /\ proc' = [proc EXCEPT ![p] = IF Readable(dbPath)
                                   THEN [@ EXCEPT !.pc = "loaded", !.rdir = dbPath,
                                                  !.snap = dirs[dbPath].db]
                                   ELSE IdleProc]
  /\ UNCHANGED <<files, env, history>>

CloseReader(p) ==
  /\ proc[p].pc = "loaded"
  /\ proc' = [proc EXCEPT ![p] = IdleProc]
  /\ UNCHANGED <<files, env, history>>

-----------------------------------------------------------------------------
(* The environment *)

\* A process is killed; its temp directory stays behind.
Crash(p) ==
  /\ proc[p].pc # "idle"
  /\ crashes < MaxCrashes
  /\ crashes' = crashes + 1
  /\ orphans' = orphans \cup ({proc[p].tmp} \ {NoDir})
  /\ proc' = [proc EXCEPT ![p] = IdleProc]
  /\ UNCHANGED <<dirs, dbPath, now, latest, damage, history>>

\* The installed file is damaged from outside but can still be opened.
Corrupt ==
  /\ damage < MaxDamage
  /\ Readable(dbPath)
  /\ damage' = damage + 1
  /\ dirs' = [dirs EXCEPT ![dbPath].db.bits = @ + 1]
  /\ tainted' = tainted \cup {dbPath}
  /\ UNCHANGED <<dbPath, orphans, proc, now, latest, crashes, stamped>>

Tick ==
  /\ now < MaxTime
  /\ now' = now + 1
  /\ UNCHANGED <<files, proc, latest, crashes, damage, history>>

\* A new build appears in the distribution listing.
Publish ==
  /\ latest < now
  /\ latest' = now
  /\ UNCHANGED <<files, proc, now, crashes, damage, history>>

Step(p) ==
  \/ StartUpdate(p) \/ ReadCurrent(p) \/ Throttle(p) \/ CheckOK(p) \/ CheckFail(p)
  \/ StartImport(p) \/ MkdirTemp(p) \/ MkdirTempFail(p) \/ FetchOK(p) \/ FetchFail(p)
  \/ HydrateOK(p) \/ HydrateFail(p) \/ TruncateMeta(p) \/ DigestDB(p)
  \/ WriteMeta(p) \/ MetaFail(p)
  \/ StatDB(p) \/ StartDelete(p) \/ PurgeOpen(p) \/ Unlink(p) \/ Rmdir(p)
  \/ RenameOK(p) \/ RenameFail(p) \/ Cleanup(p) \/ Stamp(p) \/ StampFail(p)
  \/ StartScan(p) \/ StatusAge(p) \/ StatusVerify(p) \/ OpenReader(p)
  \/ Decide(p) \/ Reopen(p) \/ CloseReader(p)
  \/ Crash(p)

Next == \/ \E p \in Procs : Step(p)
        \/ Corrupt
        \/ Tick
        \/ Publish

Spec == Init /\ [][Next]_vars

-----------------------------------------------------------------------------
(* Properties *)

\* The values every variable of the curator's state ranges over.
TypeOK ==
  /\ now \in Nat \ {0}
  /\ latest \in Nat \ {0}
  /\ dirs \in [Dirs -> Dir]
  /\ dbPath \in Dirs \cup {NoDir}
  /\ orphans \in SUBSET Dirs
  /\ proc \in [Procs -> Process]
  /\ crashes \in Nat
  /\ damage \in Nat
  /\ tainted \in SUBSET Dirs
  /\ stamped \in Nat

\* However Update, Import and Delete of several processes interleave, and
\* wherever a process is killed, the directory at DBDirectoryPath() never
\* pairs a database file with the import.json of another one, nor holds a
\* database that was not hydrated: only rehydration in place and damage from
\* outside can make validateIntegrity find a wrong digest.
ChecksumSound ==
  (dbPath # NoDir /\ dbPath \notin tainted)
    => LET d == dirs[dbPath]
       IN  /\ d.db # NoFile => d.db.built # 0 /\ d.db.bits > 0
           /\ d.meta.state # "empty"
           /\ (d.db # NoFile /\ d.meta.state = "full") => d.meta.sum = d.db

\* The file p's reader has open is the one it opened, or unlinked since.
ReaderOK(r) ==
  (r.rdir # NoDir /\ r.rdir \notin tainted)
    => /\ dirs[r.rdir].db \in {r.snap, NoFile}
       /\ r.snap.built # 0
       /\ r.snap.bits > 0

\* Readers open the file with immutable=1.  Update, Import and Delete of other
\* processes never write to a file a reader has open: it is the file it opened
\* until it is unlinked, and it was hydrated.  (Rehydration and outside damage
\* are the exceptions recorded in tainted.)
ReaderStable == \A p \in Procs : ReaderOK(proc[p])

\* p's temp directory is nobody else's, nor installed, nor given up.
OwnTemp(p) ==
  proc[p].tmp # NoDir =>
    /\ proc[p].tmp # dbPath
    /\ proc[p].tmp \notin orphans
    /\ \A q \in Procs : /\ q # p => proc[q].tmp # proc[p].tmp
                        /\ proc[q].victim # proc[p].tmp
                        /\ proc[q].rdir # proc[p].tmp

\* No temp directory is shared, installed, or given up while it is in use: the
\* unlocked cleanup of one process cannot reach a database another is building
\* or has installed.
TempPrivate == \A p \in Procs : OwnTemp(p)

\* The inductive invariant behind the three: which directory each control
\* state works in ...
ControlOK(r) ==
  /\ r.pc \in {"fetch", "stat", "rename", "cleanup"} => r.tmp # NoDir
  /\ r.pc \in {"purge", "unlink"} => r.tmp # NoDir \/ r.job = "delete"
  /\ r.pc \in {"status", "verify", "open", "decide"} => r.tmp = NoDir
  /\ r.pc \in {"mktemp", "fetch"} => r.cand # 0
  /\ r.pc \in {"digest", "write"} => r.wdir # NoDir
  /\ r.wdir # NoDir =>
       /\ r.pc \in {"digest", "write"}
       /\ IF r.tmp = NoDir THEN r.wdir \in tainted ELSE r.wdir = r.tmp

\* ... how far the database in a temp directory has come ...
HydratedIn(d) == dirs[d].db.built # 0 /\ dirs[d].db.bits > 0

BuildOK(r) ==
  r.tmp # NoDir =>
    /\ r.tmp \notin tainted
    /\ r.pc = "hydrate" => dirs[r.tmp].db.built # 0
    /\ r.pc \in {"truncate", "digest", "write"} => HydratedIn(r.tmp)
    /\ r.pc \in {"digest", "write"} => dirs[r.tmp].meta.state = "empty"
    /\ r.pc = "write" => r.sum = dirs[r.tmp].db
    /\ r.pc \in {"stat", "purge", "unlink", "rename"} =>
         /\ HydratedIn(r.tmp)
         /\ dirs[r.tmp].meta.state = "full"
         /\ dirs[r.tmp].meta.sum = dirs[r.tmp].db

\* ... and that nobody else has import.json of that directory open.
WritersApart == \A p, q \in Procs :
                  (p # q /\ proc[p].tmp # NoDir) => proc[q].wdir # proc[p].tmp

IInv == /\ TypeOK
        /\ \A p \in Procs : ControlOK(proc[p]) /\ BuildOK(proc[p])
        /\ WritersApart
        /\ TempPrivate
        /\ ChecksumSound
        /\ ReaderStable

\* A process working alone never replaces a database it accepted as current by
\* an older build: when Update is about to record its successful check, the
\* installed build is at least the one it found at the start.
UpdateNeverDowngrades ==
  \A p \in Procs :
    (proc[p].pc = "stamp" /\ Readable(dbPath))
      => dirs[dbPath].db.built >= proc[p].cur

\* The timestamp that suppresses further checks vouches for the database next
\* to it: the build is at least what the listing offered at that check.  It
\* holds for a process working alone because the timestamp lives in the
\* directory that Import, Update and Delete remove as a whole.
StampCoversDB ==
  (dbPath # NoDir /\ dirs[dbPath].check # 0 /\ Readable(dbPath))
    => dirs[dbPath].db.built >= stamped

\* What the cache promises, as an abstract machine: the database that passes
\* validateIntegrity appears whole, is a published and hydrated build, and is
\* taken away before another one appears.
Served == INSTANCE ServedDB WITH
            served <- IF IntegrityOK(dbPath) THEN dirs[dbPath].db ELSE NoFile,
            offered <- latest
ImplementsServedDB == Served!Spec

-----------------------------------------------------------------------------
(* Liveness: users keep running grype and the network is not down for ever. *)

Work(p) ==
  \/ ReadCurrent(p) \/ Throttle(p) \/ StatDB(p) \/ PurgeOpen(p)
  \/ Unlink(p) \/ Rmdir(p) \/ RenameOK(p) \/ RenameFail(p) \/ Cleanup(p)
  \/ Stamp(p) \/ StampFail(p) \/ StatusAge(p) \/ StatusVerify(p) \/ OpenReader(p) \/ Decide(p) \/ Reopen(p)
  \/ CloseReader(p)

Fairness ==
  \A p \in Procs :
    /\ WF_vars(Work(p))
    /\ SF_vars(StartUpdate(p))
    /\ SF_vars(CheckOK(p))
    /\ SF_vars(MkdirTemp(p))
    /\ SF_vars(FetchOK(p))
    /\ SF_vars(HydrateOK(p))
    /\ SF_vars(TruncateMeta(p))
    /\ SF_vars(DigestDB(p))
    /\ SF_vars(WriteMeta(p))
    /\ SF_vars(RenameOK(p))

LiveSpec == Spec /\ Fairness

\* replaceDB deletes the old database before it moves the new one in, and a
\* crash or a failed rename in between leaves nothing: a readable database is
\* nevertheless always installed again by a later run.
Recovery == []<>Readable(dbPath)

\* Comment in Update: "even if we are not allowed to check for an update, we
\* should still attempt to update the DB if it is invalid": an Update that
\* neither asks the listing nor fails leaves a database that Status accepts.
InvalidIsUpdated ==
  \A p \in Procs :
    (proc[p].pc = "throttle" /\ ~isUpdateCheckAllowed) => IntegrityOK(dbPath)

=============================================================================
