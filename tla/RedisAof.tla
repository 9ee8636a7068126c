------------------------------ MODULE RedisAof ------------------------------
(***************************************************************************)
(* The append-only file of the WASI port of Redis 7.4.11: aof.c, with the  *)
(* parts of server.c, bio.c and config.c that drive it.                    *)
(*                                                                         *)
(* The port has one thread and no fork(), so what interleaves is the file  *)
(* system: the process may be killed, or the machine may lose power,       *)
(* between any two operations on files.  Every such operation is a step;   *)
(* `pc' says which one the server does next and `cont' where a shared      *)
(* routine (flush, persist, unlink) returns to.  Between commands the      *)
(* server is in its event loop, pc = "idle".                               *)
(***************************************************************************)
EXTENDS AofFormat

CONSTANTS
    Db,             \* database numbers a client may SELECT (0 is the default)
    AofFsync,       \* appendfsync: "always", "everysec" or "no"
    Admin,          \* the administration requests that may be issued
    MayFail,        \* the file operations that may fail
    FreedName,      \* what a read of a freed file name may yield
    MaxWrites,      \* bound: writes executed in a behaviour
    MaxAdmin,       \* bound: administration requests in a behaviour
    MaxCrashes,     \* bound: kills and power losses in a behaviour
    MaxFaults       \* bound: failing file operations in a behaviour

AdminRequest == {"yes", "multi_yes", "no", "bgrewriteaof",
                 "multi_bgrewriteaof", "auto", "shutdown", "restart_no"}
FileOperation == {"open", "rewrite", "rename", "manifest", "dirfsync",
                  "write", "short_write", "ftruncate", "fsync", "power"}

ASSUME DbAssumption == Db \subseteq Nat /\ 0 \in Db
ASSUME ConfigAssumption ==
    /\ AofFsync \in {"always", "everysec", "no"}
    /\ Admin \subseteq AdminRequest
    /\ MayFail \subseteq FileOperation
    /\ FreedName \subseteq {"intact", "garbage"} /\ FreedName # {}
ASSUME BoundAssumption ==
    {MaxWrites, MaxAdmin, MaxCrashes, MaxFaults} \subseteq Nat

VARIABLES
    server,         \* the scalars of struct redisServer, see ServerState
    aof_manifest,   \* server.aof_manifest
    temp_am,        \* the copy startAppendOnly and openNewIncrAof edit
    dataset,        \* the databases
    uncounted,      \* writes of the dataset master_repl_offset does not count
    pc, cont,
    unlinking,      \* the files the server is unlinking one by one
    disk,           \* file name -> [data, synced]
    disk_manifest,  \* the manifest file; a missing one loads as an empty one
    logged,         \* observed: the writes the append-only file stands for
    promised,       \* observed: how many of them were reported durable
    bounds          \* how much of each bound is used

memory == <<aof_manifest, temp_am, dataset, uncounted>>
control == <<pc, cont, unlinking>>
fs == <<disk, disk_manifest>>
observed == <<logged, promised>>
vars == <<server, memory, control, fs, observed, bounds>>

NoFd == [file |-> NoFile, append |-> FALSE, gap |-> 0]

ServerState ==
    [aof_state : {"OFF", "ON", "WAIT_REWRITE"},
     \* gap: how far the offset of aof_fd is past the end of its file
     aof_fd : [file : File \cup {NoFile, Unlinked}, append : BOOLEAN, gap : Nat],
     aof_buf : Seq(Token),
     aof_selected_db : Db \cup {-1},
     aof_rewrite_scheduled : BOOLEAN,
     aof_last_write_status : {"OK", "ERR"},
     aof_bio_fsync_status : {"OK", "ERR"},
     aof_last_incr_size : Nat,
     aof_last_incr_fsync_offset : Nat,
     fsynced_reploff : Nat \cup {-1},
     fsynced_reploff_pending : Nat]

\* initServerConfig and initServer
FreshServer ==
    [aof_state |-> "OFF", aof_fd |-> NoFd, aof_buf |-> <<>>,
     aof_selected_db |-> -1, aof_rewrite_scheduled |-> FALSE,
     aof_last_write_status |-> "OK", aof_bio_fsync_status |-> "OK",
     aof_last_incr_size |-> 0, aof_last_incr_fsync_offset |-> 0,
     fsynced_reploff |-> -1, fsynced_reploff_pending |-> 0]

-----------------------------------------------------------------------------
(* Control and the environment.                                            *)

Goto(label) == pc' = label /\ UNCHANGED <<cont, unlinking>>
Call(label, k) == pc' = label /\ cont' = k /\ UNCHANGED unlinking
UnlinkThen(files, k) == pc' = "unlink" /\ unlinking' = files /\ cont' = k

\* A file operation of the given kind fails.
Fault(op) ==
    /\ op \in MayFail
    /\ bounds.faults < MaxFaults
    /\ bounds' = [bounds EXCEPT !.faults = @ + 1]

\* An administration request is issued.
Request(r) ==
    /\ r \in Admin
    /\ bounds.admin < MaxAdmin
    /\ bounds' = [bounds EXCEPT !.admin = @ + 1]

Without(f) == [g \in DOMAIN disk \ {f} |-> disk[g]]
With(d, f, c) == [g \in DOMAIN d \cup {f} |-> IF g = f THEN c ELSE d[g]]
Renamed(f, t) == [g \in (DOMAIN disk \ {f}) \cup {t} |->
                    IF g = t THEN disk[f] ELSE disk[g]]

\* write(aof_fd): a descriptor opened without O_APPEND writes at its own
\* offset, which a ftruncate leaves `gap' tokens past the end of the file.
WriteFd(toks) ==
    [disk EXCEPT ![server.aof_fd.file].data =
        @ \o [i \in 1 .. server.aof_fd.gap |-> Hole] \o toks]

FsyncFd(d) ==
    IF server.aof_fd.file \in DOMAIN d
    THEN [d EXCEPT ![server.aof_fd.file] = Synced(@)] ELSE d

\* Mutant of MasterReplOffset: counted from one write too late.
MasterReplOffsetLate == Len(dataset) - uncounted - 1

\* server.master_repl_offset grows by one for each write that propagateNow
\* passes on, that is, not while loading and not while the AOF is off.
MasterReplOffset == Len(dataset) - uncounted

\* Every use of a manifest whose names were freed may see anything.
ReadNames(m) == IF m.names = "freed"
                THEN {IF r = "intact" THEN "ok" ELSE "garbled" : r \in FreedName}
                ELSE {m.names}
ManifestDup(m) == {[m EXCEPT !.names = names] : names \in ReadNames(m)}

-----------------------------------------------------------------------------
(* Commands and the event loop.                                            *)

\* writeCommandsDeniedByDiskError, AOF part (the port runs with `save ""')
Denied ==
    /\ server.aof_state # "OFF"
    /\ \/ server.aof_last_write_status = "ERR"
       \/ server.aof_bio_fsync_status = "ERR"

\* propagateNow and feedAppendOnlyFile: in state AOF_WAIT_REWRITE (there is no
\* AOF child) only aof_selected_db changes.
Feed(w) ==
    [server EXCEPT
        !.aof_selected_db = IF server.aof_state = "OFF" THEN @ ELSE w.db,
        !.aof_buf = IF server.aof_state = "ON"
                    THEN @ \o Entry(w, server.aof_selected_db) ELSE @]

\* A client executes a write command in database d.
Execute(d) ==
    /\ pc = "idle"
    /\ bounds.writes < MaxWrites
    /\ ~Denied
    /\ LET w == [id |-> bounds.writes + 1, db |-> d]
       IN  /\ dataset' = Append(dataset, w)
           /\ server' = Feed(w)
           /\ logged' = IF server.aof_state = "ON" THEN Append(logged, w)
                        ELSE logged
    /\ uncounted' = IF server.aof_state = "OFF" THEN uncounted + 1 ELSE uncounted
    /\ bounds' = [bounds EXCEPT !.writes = @ + 1]
    /\ UNCHANGED <<aof_manifest, temp_am, control, fs, promised>>

\* beforeSleep flushes the buffer, then publishes fsynced_reploff and sends
\* the pending replies (Reply).
BeforeSleep ==
    /\ pc = "idle"
    /\ IF server.aof_state = "OFF" THEN Goto("reply") ELSE Call("flush", "reply")
    /\ UNCHANGED <<server, memory, fs, observed, bounds>>

\* What clients have been told is durable: the writes of this process replied
\* to under appendfsync always, the ones WAITAOF counts otherwise.
Reported(reploff) ==
    CASE AofFsync = "always" /\ MasterReplOffset > 0 -> Len(logged)
      [] AofFsync # "always" /\ reploff > 0 -> uncounted + reploff
      [] OTHER -> 0

Reply ==
    /\ pc = "reply"
    /\ IF server.aof_state = "ON"
       THEN LET reploff == IF server.fsynced_reploff = -1 THEN -1
                           ELSE server.fsynced_reploff_pending
            IN  /\ server' = [server EXCEPT !.fsynced_reploff = reploff]
                /\ promised' = IF Reported(reploff) > promised
                               THEN Reported(reploff) ELSE promised
       ELSE UNCHANGED <<server, promised>>
    /\ Goto("idle")
    /\ UNCHANGED <<memory, fs, logged, bounds>>

\* serverCron retries the flush after a write error.
CronFlush ==
    /\ pc = "idle"
    /\ server.aof_state # "OFF"
    /\ server.aof_last_write_status = "ERR"
    /\ Call("flush", "idle")
    /\ UNCHANGED <<server, memory, fs, observed, bounds>>

-----------------------------------------------------------------------------
(* flushAppendOnlyFile.  No bio thread exists, so no fsync is ever in      *)
(* progress and `force' makes no difference.  `due' says that a second has *)
(* passed since aof_last_fsync.                                            *)

\* Mutant of NeedFsync: `always' is forgotten.
NeedFsyncEverysecOnly(due) == AofFsync = "everysec" /\ due

NeedFsync(due) == AofFsync = "always" \/ (AofFsync = "everysec" /\ due)

\* Mutants of FlushEmpty: whatever was written counts as synced; nothing is
\* synced while there is nothing to write.
FlushEmptyAssumesSynced(due) ==
    /\ pc = "flush"
    /\ server.aof_buf = <<>>
    /\ server' = [server EXCEPT !.fsynced_reploff_pending = MasterReplOffset]
    /\ Goto(cont)
    /\ UNCHANGED <<memory, fs, observed, bounds>>
FlushEmptyNoFsync(due) ==
    /\ pc = "flush"
    /\ server.aof_buf = <<>>
    /\ Goto(cont)
    /\ UNCHANGED <<server, memory, fs, observed, bounds>>

FlushEmpty(due) ==
    /\ pc = "flush"
    /\ server.aof_buf = <<>>
    /\ IF server.aof_last_incr_fsync_offset = server.aof_last_incr_size
       THEN /\ server' = [server EXCEPT !.fsynced_reploff_pending = MasterReplOffset]
            /\ Goto(cont)
       ELSE /\ Goto(IF NeedFsync(due) THEN "fsync" ELSE cont)
            /\ UNCHANGED server
    /\ UNCHANGED <<memory, fs, observed, bounds>>

\* Mutant of FlushWrite: the error status is not cleared.
FlushWriteKeepsError(due) ==
    /\ pc = "flush"
    /\ server.aof_buf # <<>>
    /\ disk' = WriteFd(server.aof_buf)
    /\ server' = [server EXCEPT !.aof_fd.gap = 0,
                                !.aof_last_incr_size = @ + Len(server.aof_buf),
                                !.aof_buf = <<>>]
    /\ Goto(IF NeedFsync(due) THEN "fsync" ELSE cont)
    /\ UNCHANGED <<memory, disk_manifest, observed, bounds>>

FlushWrite(due) ==
    /\ pc = "flush"
    /\ server.aof_buf # <<>>
    /\ disk' = WriteFd(server.aof_buf)
    /\ server' = [server EXCEPT !.aof_fd.gap = 0,
                                !.aof_last_incr_size = @ + Len(server.aof_buf),
                                !.aof_buf = <<>>,
                                !.aof_last_write_status = "OK"]
    /\ Goto(IF NeedFsync(due) THEN "fsync" ELSE cont)
    /\ UNCHANGED <<memory, disk_manifest, observed, bounds>>

\* After a write error the server exits (always) or keeps the buffer.
WriteError(s) ==
    IF AofFsync = "always" THEN Goto("exit") /\ server' = s
    ELSE Goto(cont) /\ server' = [s EXCEPT !.aof_last_write_status = "ERR"]

FlushError ==
    /\ pc = "flush"
    /\ server.aof_buf # <<>>
    /\ Fault("write")
    /\ WriteError(server)
    /\ UNCHANGED <<memory, fs, observed>>

\* Mutant of FlushShort: what could not be removed from the file is written
\* again.
FlushShortKeepsBuffer(k) ==
    /\ pc = "flush"
    /\ Fault("short_write")
    /\ disk' = WriteFd(SubSeq(server.aof_buf, 1, k))
    /\ WriteError([server EXCEPT !.aof_last_incr_size = @ + k])
    /\ UNCHANGED <<memory, disk_manifest, observed>>

\* A short write of k tokens is undone by ftruncate to aof_last_incr_size or,
\* when that fails too, kept and trimmed from the buffer.
FlushShort(k) ==
    /\ pc = "flush"
    /\ Fault("short_write")
    /\ LET short == WriteFd(SubSeq(server.aof_buf, 1, k))
           file == server.aof_fd.file
           past == Len(short[file].data) - server.aof_last_incr_size
       IN  \/ /\ disk' = [short EXCEPT ![file] = CutAt(@, server.aof_last_incr_size)]
              /\ WriteError([server EXCEPT !.aof_fd.gap =
                                IF server.aof_fd.append THEN 0 ELSE past])
           \/ /\ "ftruncate" \in MayFail
              /\ disk' = short
              /\ WriteError([server EXCEPT !.aof_fd.gap = 0,
                                           !.aof_last_incr_size = @ + k,
                                           !.aof_buf = SubSeq(@, k + 1, Len(@))])
    /\ UNCHANGED <<memory, disk_manifest, observed>>

\* try_fsync: in place under `always', as a bio job run inline otherwise.
FlushFsync ==
    /\ pc = "fsync"
    /\ disk' = FsyncFd(disk)
    /\ server' = [server EXCEPT
                    !.aof_last_incr_fsync_offset = server.aof_last_incr_size,
                    !.fsynced_reploff_pending = MasterReplOffset,
                    !.aof_bio_fsync_status =
                        IF AofFsync = "always" THEN @ ELSE "OK"]
    /\ Goto(cont)
    /\ UNCHANGED <<memory, disk_manifest, observed, bounds>>

FlushFsyncError ==
    /\ pc = "fsync"
    /\ Fault("fsync")
    /\ IF AofFsync = "always" THEN Goto("exit") /\ UNCHANGED server
       ELSE /\ Goto(cont)
            /\ server' = [server EXCEPT
                    !.aof_last_incr_fsync_offset = server.aof_last_incr_size,
                    !.aof_bio_fsync_status = "ERR"]
    /\ UNCHANGED <<memory, fs, observed>>

-----------------------------------------------------------------------------
(* openNewIncrAofForAppend, the part both callers share: the descriptor is *)
(* replaced and the old file, if any, is synced and closed by a bio job    *)
(* run inline (aof_background_fsync_and_close).                            *)

\* The fsync of the old file succeeds, or there is one and it fails.
CloseOutcome(synced) ==
    \/ synced /\ UNCHANGED bounds
    \/ ~synced /\ server.aof_fd.file # NoFile /\ Fault("fsync")

\* Mutant of CloseOld: the old file is closed without the fsync.
CloseOldKeepsCache(synced) == disk

CloseOld(synced) == IF synced THEN FsyncFd(disk) ELSE disk

SwapFd(file, synced) ==
    LET swapped == [server EXCEPT
                       !.aof_fd = [file |-> file, append |-> FALSE, gap |-> 0],
                       !.aof_last_incr_size = 0,
                       !.aof_last_incr_fsync_offset = 0]
    IN  IF server.aof_fd.file = NoFile THEN swapped
        ELSE IF synced
        THEN [swapped EXCEPT !.aof_bio_fsync_status = "OK",
                             !.fsynced_reploff_pending = MasterReplOffset]
        ELSE [swapped EXCEPT !.aof_bio_fsync_status = "ERR"]

-----------------------------------------------------------------------------
(* startAppendOnly (CONFIG SET appendonly yes), with the synchronous       *)
(* rewrite the port does in place of fork().                               *)

StartAppendOnly ==
    /\ pc = "idle"
    /\ server.aof_state = "OFF"
    /\ Request("yes")
    /\ server' = [server EXCEPT !.aof_state = "WAIT_REWRITE",
                                !.aof_selected_db = -1]
    /\ Goto("start_open")
    /\ UNCHANGED <<memory, fs, observed>>

\* Inside MULTI/EXEC the rewrite is only scheduled.
StartAppendOnlyInExec ==
    /\ pc = "idle"
    /\ server.aof_state = "OFF"
    /\ Request("multi_yes")
    /\ server' = [server EXCEPT !.aof_state = "WAIT_REWRITE",
                                !.aof_rewrite_scheduled = TRUE,
                                !.aof_bio_fsync_status = "OK",
                                !.aof_last_write_status = "OK"]
    /\ UNCHANGED <<memory, control, fs, observed>>

\* openNewIncrAofForAppend in state AOF_WAIT_REWRITE
StartOpen ==
    /\ pc = "start_open"
    /\ \E synced \in BOOLEAN :
            /\ CloseOutcome(synced)
            /\ server' = SwapFd(TempIncr, synced)
            /\ disk' = With(CloseOld(synced), TempIncr, EmptyFile)
    /\ Goto("start_rewrite")
    /\ UNCHANGED <<memory, disk_manifest, observed>>

\* Mutant of StartOpenError: the state is not rolled back.
StartOpenErrorStuck ==
    /\ pc = "start_open"
    /\ Fault("open")
    /\ Goto("idle")
    /\ UNCHANGED <<server, memory, fs, observed>>

StartOpenError ==
    /\ pc = "start_open"
    /\ Fault("open")
    /\ server' = [server EXCEPT !.aof_state = "OFF"]
    /\ Goto("idle")
    /\ UNCHANGED <<memory, fs, observed>>

\* rewriteAppendOnlyFile(tmpfile) writes, fsyncs and renames its own file;
\* then a copy of the manifest is given a new BASE name.
StartRewrite ==
    /\ pc = "start_rewrite"
    /\ disk' = With(disk, TempBase, BaseFile(dataset))
    /\ \E m \in ManifestDup(aof_manifest) : temp_am' = NewBase(m)
    /\ Goto("start_rename_base")
    /\ UNCHANGED <<server, aof_manifest, dataset, uncounted, disk_manifest, observed,
                   bounds>>

StartRenameBase ==
    /\ pc = "start_rename_base"
    /\ disk' = Renamed(TempBase, Base(temp_am.base))
    /\ temp_am' = NewIncr(temp_am)
    /\ Goto("start_rename_incr")
    /\ UNCHANGED <<server, aof_manifest, dataset, uncounted, disk_manifest, observed,
                   bounds>>

StartRenameIncr ==
    /\ pc = "start_rename_incr"
    /\ LET new == Incr(temp_am.incr_seq)
       IN  /\ disk' = Renamed(TempIncr, new)
           /\ server' = [server EXCEPT !.aof_fd.file = new]
    /\ temp_am' = MarkRewritten(temp_am, server.aof_fd.file # NoFile)
    /\ Call("persist", "start")
    /\ UNCHANGED <<aof_manifest, dataset, uncounted, disk_manifest, observed, bounds>>

\* What each failing step of the rewrite leaves to be unlinked.
StartLeftovers ==
    {TempIncr}
    \cup (IF pc \in {"start_rename_incr", "start_undo"}
          THEN {Base(temp_am.base)} ELSE {})
    \cup (IF pc = "start_undo" THEN {Incr(temp_am.incr_seq)} ELSE {})

StartError ==
    /\ \/ pc = "start_rewrite" /\ Fault("rewrite")
       \/ pc \in {"start_rename_base", "start_rename_incr"} /\ Fault("rename")
       \/ pc = "start_undo" /\ UNCHANGED bounds
    /\ UnlinkThen(StartLeftovers, "start_failed")
    /\ server' = [server EXCEPT !.aof_state = "OFF"]
    /\ UNCHANGED <<memory, fs, observed>>

\* aofDelHistoryFiles unlinks the history files it can still name.
Removable(m) == IF m.names = "garbled" THEN {} ELSE m.hist

\* aofManifestFreeAndUpdate, after which the strings naming the new BASE and
\* INCR files, owned by the manifest, are freed; then aofDelHistoryFiles.
StartAdopt ==
    /\ pc = "start_adopt"
    /\ aof_manifest' = [temp_am EXCEPT !.names = "freed"]
    /\ IF temp_am.hist = {} THEN Goto("start_done")
       ELSE UnlinkThen(Removable(temp_am), "del_start")
    /\ UNCHANGED <<server, temp_am, dataset, uncounted, fs, observed, bounds>>

StartDone ==
    /\ pc = "start_done"
    /\ server' = [server EXCEPT
                    !.aof_state = "ON",
                    !.fsynced_reploff = server.fsynced_reploff_pending,
                    !.aof_buf = <<>>,
                    !.aof_bio_fsync_status = "OK",
                    !.aof_last_write_status = "OK"]
    /\ Goto("idle")
    /\ UNCHANGED <<memory, fs, observed, bounds>>

-----------------------------------------------------------------------------
(* persistAofManifest and writeAofManifestFile: a temporary file, fsync,   *)
(* rename (the step that takes effect), fsync of the directory.            *)

PersistTarget == IF cont \in {"start", "rw"} THEN temp_am ELSE aof_manifest

AfterPersist == [start |-> "start_adopt", rw |-> "rw_swap", boot |-> "del_boot",
                 del_start |-> "start_done", del_boot |-> "idle"]
\* Mutant of AfterPersistError: errors are ignored.
AfterPersistErrorIgnored == AfterPersist

AfterPersistError == [start |-> "start_undo", rw |-> "idle", boot |-> "exit",
                      del_start |-> "start_done", del_boot |-> "idle"]

PersistClean ==
    /\ pc = "persist"
    /\ ~PersistTarget.dirty
    /\ Goto(AfterPersist[cont])
    /\ UNCHANGED <<server, memory, fs, observed, bounds>>

\* When a start commits, the dataset becomes what the log stands for.
PersistRename ==
    /\ pc = "persist"
    /\ PersistTarget.dirty
    /\ disk_manifest' \in ManifestDup(PersistTarget)
    /\ IF cont = "start" THEN logged' = dataset /\ promised' = Len(dataset)
       ELSE UNCHANGED observed
    /\ Goto("dirfsync")
    /\ UNCHANGED <<server, memory, disk, bounds>>

PersistSynced ==
    /\ pc = "dirfsync"
    /\ IF cont \in {"start", "rw"}
       THEN temp_am' = [temp_am EXCEPT !.dirty = FALSE] /\ UNCHANGED aof_manifest
       ELSE aof_manifest' = [aof_manifest EXCEPT !.dirty = FALSE] /\ UNCHANGED temp_am
    /\ Goto(AfterPersist[cont])
    /\ UNCHANGED <<server, dataset, uncounted, fs, observed, bounds>>

PersistError ==
    /\ \/ pc = "persist" /\ PersistTarget.dirty /\ Fault("manifest")
       \/ pc = "dirfsync" /\ Fault("dirfsync")
    /\ Goto(AfterPersistError[cont])
    /\ UNCHANGED <<server, memory, fs, observed>>

-----------------------------------------------------------------------------
(* aofDelHistoryFiles, aofDelTempIncrAofFile and the clean-up of a failed  *)
(* start: bg_unlink of one file after the other.                           *)

UnlinkOne(f) ==
    /\ pc = "unlink"
    /\ disk' = Without(f)
    /\ server' = IF server.aof_fd.file = f
                 THEN [server EXCEPT !.aof_fd.file = Unlinked] ELSE server
    /\ unlinking' = unlinking \ {f}
    /\ UNCHANGED <<memory, pc, cont, disk_manifest, observed, bounds>>

\* The history list is empty: persist the manifest without it.
UnlinkDone ==
    /\ pc = "unlink"
    /\ unlinking = {}
    /\ IF cont = "start_failed" THEN Goto("idle") /\ UNCHANGED aof_manifest
       ELSE /\ aof_manifest' = [aof_manifest EXCEPT !.hist = {}, !.dirty = TRUE]
            /\ Goto("persist")
    /\ UNCHANGED <<server, temp_am, dataset, uncounted, fs, observed, bounds>>

-----------------------------------------------------------------------------
(* rewriteAppendOnlyFileBackground: BGREWRITEAOF, the automatic rewrite    *)
(* and the scheduled one.  redisFork always fails, but only after the INCR *)
(* file has been switched.                                                 *)

RewriteBackground ==
    /\ pc = "idle"
    /\ server' = [server EXCEPT !.aof_selected_db = -1]
    /\ Call("flush", "rw_open")
    /\ UNCHANGED <<memory, fs, observed>>

BgRewriteAof ==
    /\ \/ Request("bgrewriteaof")
       \/ server.aof_state = "ON" /\ Request("auto")
    /\ RewriteBackground

BgRewriteAofInExec ==
    /\ pc = "idle"
    /\ Request("multi_bgrewriteaof")
    /\ server' = [server EXCEPT !.aof_rewrite_scheduled = TRUE]
    /\ UNCHANGED <<memory, control, fs, observed>>

\* serverCron starts the scheduled rewrite: aofRewriteLimited never holds it
\* back, since nothing counts a failing redisFork.  While the AOF is on every
\* try adds an INCR file, so those tries count against MaxAdmin.
CronRewrite ==
    /\ server.aof_rewrite_scheduled
    /\ IF server.aof_state = "ON"
       THEN /\ bounds.admin < MaxAdmin
            /\ bounds' = [bounds EXCEPT !.admin = @ + 1]
       ELSE UNCHANGED bounds
    /\ RewriteBackground

\* AOF_OFF: nothing to open.
RewriteOff ==
    /\ pc = "rw_open"
    /\ server.aof_state = "OFF"
    /\ Goto("idle")
    /\ UNCHANGED <<server, memory, fs, observed, bounds>>

\* AOF_WAIT_REWRITE: a temporary INCR file.
RewriteWait ==
    /\ pc = "rw_open"
    /\ server.aof_state = "WAIT_REWRITE"
    /\ \E synced \in BOOLEAN :
            /\ CloseOutcome(synced)
            /\ server' = [SwapFd(TempIncr, synced) EXCEPT
                            !.fsynced_reploff_pending = MasterReplOffset,
                            !.fsynced_reploff = 0]
            /\ disk' = With(CloseOld(synced), TempIncr, EmptyFile)
    /\ Goto("idle")
    /\ UNCHANGED <<memory, disk_manifest, observed>>

\* AOF_ON: a copy of the manifest gets a new INCR file, created empty.
RewriteOpen ==
    /\ pc = "rw_open"
    /\ server.aof_state = "ON"
    /\ \E m \in ManifestDup(aof_manifest) : temp_am' = NewIncr(m)
    /\ disk' = With(disk, Incr(aof_manifest.incr_seq + 1), EmptyFile)
    /\ Call("persist", "rw")
    /\ UNCHANGED <<server, aof_manifest, dataset, uncounted, disk_manifest, observed,
                   bounds>>

RewriteOpenError ==
    /\ pc = "rw_open"
    /\ server.aof_state # "OFF"
    /\ Fault("open")
    /\ Goto("idle")
    /\ UNCHANGED <<server, memory, fs, observed>>

RewriteSwap ==
    /\ pc = "rw_swap"
    /\ \E synced \in BOOLEAN :
            /\ CloseOutcome(synced)
            /\ server' = SwapFd(Incr(temp_am.incr_seq), synced)
            /\ disk' = CloseOld(synced)
    /\ aof_manifest' = temp_am
    /\ Goto("idle")
    /\ UNCHANGED <<temp_am, dataset, uncounted, disk_manifest, observed>>

-----------------------------------------------------------------------------
(* stopAppendOnly (CONFIG SET appendonly no) and SHUTDOWN.                 *)

StopAppendOnly ==
    /\ pc = "idle"
    /\ server.aof_state # "OFF"
    /\ Request("no")
    /\ Call("flush", "stop")
    /\ UNCHANGED <<server, memory, fs, observed>>

\* The final fsync may fail; that is only logged.
FinalFsync ==
    \/ disk' = FsyncFd(disk) /\ UNCHANGED bounds
    \/ Fault("fsync") /\ UNCHANGED disk

StopClose ==
    /\ pc = "stop"
    /\ FinalFsync
    /\ server' = [FreshServer EXCEPT
                    !.aof_last_write_status = server.aof_last_write_status,
                    !.aof_bio_fsync_status = server.aof_bio_fsync_status]
    /\ Goto("idle")
    /\ UNCHANGED <<memory, disk_manifest, observed>>

Shutdown ==
    /\ pc = "idle"
    /\ Request("shutdown")
    /\ IF server.aof_state = "OFF" THEN Goto("exit") ELSE Call("flush", "shutdown")
    /\ UNCHANGED <<server, memory, fs, observed>>

ShutdownFsync ==
    /\ pc = "shutdown"
    /\ FinalFsync
    /\ Goto("exit")
    /\ UNCHANGED <<server, memory, disk_manifest, observed>>

-----------------------------------------------------------------------------
(* Crashes.                                                                *)

\* What a power loss may leave of the files: each keeps what was fsynced and
\* any part of the rest.  Directory operations are taken to be ordered.
Survivors ==
    LET dirty == {f \in DOMAIN disk : disk[f].synced < Len(disk[f].data)}
        longest == Max({0} \cup {Len(disk[f].data) : f \in dirty})
    IN  {[f \in DOMAIN disk |->
             IF f \in dirty THEN Synced(CutAt(disk[f], kept[f])) ELSE disk[f]]
         : kept \in {k \in [dirty -> 0 .. longest] :
             \A f \in dirty : k[f] \in disk[f].synced .. Len(disk[f].data)}}

Stop ==
    /\ pc # "down"
    /\ IF pc = "exit" THEN UNCHANGED bounds
       ELSE /\ bounds.crashes < MaxCrashes
            /\ bounds' = [bounds EXCEPT !.crashes = @ + 1]
    /\ pc' = "down"
    /\ cont' = "idle"
    /\ unlinking' = {}
    /\ server' = FreshServer
    /\ aof_manifest' = EmptyManifest
    /\ temp_am' = EmptyManifest
    /\ dataset' = <<>>
    /\ uncounted' = 0
    /\ logged' = Recovered(disk_manifest, disk')
    /\ UNCHANGED <<disk_manifest, promised>>

\* exit(1) or a kill: the page cache survives.
Kill == disk' = disk /\ Stop

PowerLoss == "power" \in MayFail /\ disk' \in Survivors \ {disk} /\ Stop

-----------------------------------------------------------------------------
(* Server start: aofLoadManifestFromDisk, loadDataFromDisk,                *)
(* aofOpenIfNeededOnServerStart, aofDelHistoryFiles.                       *)

Booted(state, reploff) ==
    /\ uncounted' = Len(dataset')
    /\ aof_manifest' = LoadManifest(disk_manifest)
    /\ server' = [FreshServer EXCEPT !.aof_state = state,
                                     !.fsynced_reploff = reploff]
    /\ UNCHANGED <<temp_am, disk_manifest, observed>>

StartServer ==
    /\ pc = "down"
    /\ LET r == LoadAppendOnlyFiles(disk_manifest, disk)
       IN  /\ r.ret # "FAILED"
           /\ dataset' = r.ds
           /\ disk' = AfterLoad(disk, r)
    /\ Booted("ON", 0)
    /\ Goto("boot_base")
    /\ UNCHANGED bounds

\* The loader gives up and exits, after cutting a truncated file.
StartServerFatal ==
    /\ pc = "down"
    /\ LET r == LoadAppendOnlyFiles(disk_manifest, disk)
       IN  /\ r.ret = "FAILED"
           /\ disk' = AfterLoad(disk, r)
    /\ UNCHANGED <<server, memory, control, disk_manifest, observed, bounds>>

\* With appendonly no only the manifest is read.
StartServerOff ==
    /\ pc = "down"
    /\ Request("restart_no")
    /\ disk_manifest.names # "garbled"
    /\ dataset' = <<>>
    /\ Booted("OFF", -1)
    /\ Goto("del_boot")
    /\ UNCHANGED disk

\* A BASE file is forced when the manifest is empty.
BootBase ==
    /\ pc = "boot_base"
    /\ IF Live(aof_manifest) = {}
       THEN /\ aof_manifest' = NewBase(aof_manifest)
            /\ disk' = With(disk, Base(aof_manifest.base_seq + 1), BaseFile(dataset))
       ELSE UNCHANGED <<aof_manifest, disk>>
    /\ Goto("boot_open")
    /\ UNCHANGED <<server, temp_am, dataset, uncounted, disk_manifest, observed, bounds>>

\* getLastIncrAofName and open(O_WRONLY|O_APPEND|O_CREAT): no O_TRUNC.
BootOpen ==
    /\ pc = "boot_open"
    /\ aof_manifest' = IF aof_manifest.incr = {} THEN NewIncr(aof_manifest)
                       ELSE aof_manifest
    /\ LET f == Incr(LastIncr(aof_manifest'))
       IN  /\ disk' = IF f \in DOMAIN disk THEN disk ELSE With(disk, f, EmptyFile)
           /\ server' = [server EXCEPT
                    !.aof_fd = [file |-> f, append |-> TRUE, gap |-> 0],
                    !.aof_last_incr_size = Len(disk'[f].data),
                    !.aof_last_incr_fsync_offset = Len(disk'[f].data)]
    /\ Call("persist", "boot")
    /\ UNCHANGED <<temp_am, dataset, uncounted, disk_manifest, observed, bounds>>

BootError ==
    /\ \/ pc = "boot_base" /\ Live(aof_manifest) = {} /\ Fault("rewrite")
       \/ pc = "boot_open" /\ Fault("open")
    /\ Goto("exit")
    /\ UNCHANGED <<server, memory, fs, observed>>

BootDelHistory ==
    /\ pc = "del_boot"
    /\ IF aof_manifest.hist = {} THEN Goto("idle")
       ELSE UnlinkThen(Removable(aof_manifest), "del_boot")
    /\ UNCHANGED <<server, memory, fs, observed, bounds>>

-----------------------------------------------------------------------------

Init ==
    /\ server = FreshServer
    /\ aof_manifest = EmptyManifest /\ temp_am = EmptyManifest
    /\ dataset = <<>> /\ uncounted = 0
    /\ pc = "down" /\ cont = "idle" /\ unlinking = {}
    /\ disk = <<>> /\ disk_manifest = EmptyManifest
    /\ logged = <<>> /\ promised = 0
    /\ bounds = [writes |-> 0, admin |-> 0, crashes |-> 0, faults |-> 0]

Flush ==
    \/ \E due \in BOOLEAN : FlushEmpty(due) \/ FlushWrite(due)
    \/ FlushError
    \/ \E k \in 1 .. Len(server.aof_buf) - 1 : FlushShort(k)
    \/ FlushFsync \/ FlushFsyncError

\* The steps of startAppendOnly once it has been called.
Start ==
    \/ StartOpen \/ StartOpenError
    \/ StartRewrite \/ StartRenameBase \/ StartRenameIncr \/ StartError
    \/ StartAdopt \/ StartDone

Persist == PersistClean \/ PersistRename \/ PersistSynced \/ PersistError

Unlink == UnlinkDone \/ \E f \in unlinking : UnlinkOne(f)

Rewrite == RewriteOff \/ RewriteWait \/ RewriteOpen \/ RewriteOpenError \/ RewriteSwap

Boot == BootBase \/ BootOpen \/ BootError \/ BootDelHistory

\* A step of a function the server is executing.
Running ==
    Flush \/ Reply \/ Start \/ Persist \/ Unlink \/ Rewrite \/ StopClose
        \/ ShutdownFsync \/ Boot

Command ==
    \/ \E d \in Db : Execute(d)
    \/ StartAppendOnly \/ StartAppendOnlyInExec \/ StopAppendOnly
    \/ BgRewriteAof \/ BgRewriteAofInExec
    \/ Shutdown

EventLoop == BeforeSleep \/ CronFlush \/ CronRewrite

Environment == Kill \/ PowerLoss \/ StartServer \/ StartServerFatal \/ StartServerOff

Next == Running \/ Command \/ EventLoop \/ Environment

Spec == Init /\ [][Next]_vars

\* The server keeps running; its event loop calls beforeSleep on every turn
\* and serverCron hz times a second; the clock advances.
DueFlush == FlushEmpty(TRUE) \/ FlushWrite(TRUE)
Fairness ==
    /\ WF_vars(Running)
    /\ SF_vars(BeforeSleep) /\ SF_vars(CronFlush) /\ SF_vars(CronRewrite)
    /\ SF_vars(DueFlush)
    /\ WF_vars(pc = "exit" /\ Kill) /\ WF_vars(StartServer)

FairSpec == Spec /\ Fairness

-----------------------------------------------------------------------------
(* Properties.                                                             *)

Label == {"down", "exit", "idle", "reply", "flush", "fsync", "persist", "dirfsync",
          "unlink", "start_open", "start_rewrite", "start_rename_base",
          "start_rename_incr", "start_undo", "start_adopt", "start_done",
          "rw_open", "rw_swap", "stop", "shutdown", "boot_base", "boot_open",
          "del_boot"}
Continuation == {"idle", "reply", "rw_open", "stop", "shutdown", "start", "rw",
                 "boot", "start_failed", "del_start", "del_boot"}

\* Every variable has its type: struct redisServer, the manifests, the files.
TypeOK ==
    /\ server \in ServerState
    /\ aof_manifest \in Manifest /\ temp_am \in Manifest /\ disk_manifest \in Manifest
    /\ dataset \in Image /\ logged \in Image
    /\ uncounted \in 0 .. Len(dataset) /\ promised \in Nat
    /\ pc \in Label /\ cont \in Continuation
    /\ unlinking \in SUBSET File
    /\ DOMAIN disk \subseteq File
    /\ \A f \in DOMAIN disk : /\ disk[f].data \in Seq(Token)
                              /\ disk[f].synced \in 0 .. Len(disk[f].data)
    /\ bounds \in [writes : 0 .. MaxWrites, admin : 0 .. MaxAdmin,
                   crashes : 0 .. MaxCrashes, faults : 0 .. MaxFaults]

\* Every file the manifest on disk names exists, at every step of every
\* operation: a process killed there finds all the files it has to load
\* (loadAppendOnlyFiles exits if one is missing).
LiveFilesExist == Live(disk_manifest) \subseteq DOMAIN disk

\* No file about to be unlinked (aofDelHistoryFiles, the clean-up of a failed
\* start) is one that either manifest loads from, or the one the server is
\* appending to.
NoLiveFileUnlinked ==
    /\ unlinking \cap (Live(disk_manifest) \cup Live(aof_manifest)) = {}
    /\ server.aof_state = "ON" => server.aof_fd.file \notin unlinking

\* Whenever commands run with the AOF on, aof_fd is open on the last INCR file
\* and the manifest in memory and the one on disk agree which file that is.
OnWritesLastIncr ==
    pc = "idle" /\ server.aof_state = "ON" =>
        /\ server.aof_fd.file = Incr(LastIncr(aof_manifest))
        /\ Live(aof_manifest) = Live(disk_manifest)

\* An INCR file that no manifest lists is empty, so that opening it again under
\* the same name (aofOpenIfNeededOnServerStart has no O_TRUNC) resurrects
\* nothing.
OrphanIncrEmpty ==
    \A f \in DOMAIN disk :
        f[1] = "incr"
            /\ f \notin Live(disk_manifest) \cup disk_manifest.hist
            => disk[f].data = <<>>

\* Between commands with the AOF on, the files with the buffer appended load
\* back as exactly the dataset: nothing executed was dropped, doubled, split
\* over two files or logged in the wrong database.
LogCompletesDataset ==
    pc = "idle" /\ server.aof_state = "ON" =>
        Recovered(disk_manifest, WriteFd(server.aof_buf)) = dataset

\* The append-only file as a durable log: see DurableLog.
Promises == INSTANCE DurableLog
    WITH Write <- [id : 1 .. MaxWrites, db : Db], db <- dataset, log <- logged,
         on <- server.aof_state = "ON", up <- pc # "down"

\* Every step is a step of DurableLog: what was reported durable survives any
\* crash, a crash loses at most a suffix, and a restart finds what was left.
KeepsItsPromises == Promises!Spec

\* A failed write does not refuse commands for ever (MISCONF): flushAppendOnlyFile
\* keeps the buffer and "will try again on the next call", from beforeSleep or
\* serverCron, and clears the status once the disk takes the write.
DeniedByWrite == server.aof_state # "OFF" /\ server.aof_last_write_status = "ERR"
WriteErrorEnds == DeniedByWrite ~> ~DeniedByWrite

\* Under everysec nothing stays in the page cache for ever, even if no write
\* follows (the empty-buffer branch of flushAppendOnlyFile).
InPageCache(f) == f \in DOMAIN disk /\ disk[f].synced < Len(disk[f].data)
PageCacheFlushed ==
    \A n \in 1 .. MaxAdmin + 2 : InPageCache(Incr(n)) ~> ~InPageCache(Incr(n))

\* A power loss in a switch of INCR files may leave a truncated file that is not the
\* last one; loadAppendOnlyFiles cuts it and then refuses to start, so that the next
\* start accepts the files.  What a stopped server leaves, cut that way if need be,
\* is a beginning of the log that holds every write whose durability was reported:
\* the accepted start finds no later file behind the gap.
RefusalIsRepaired ==
    [][pc # "down" /\ pc' = "down" /\ logged # Lost =>
           LET left == AfterLoad(disk', LoadAppendOnlyFiles(disk_manifest, disk'))
           IN  Recovered(disk_manifest, left) \in
                   {s \in Prefixes(logged) : Len(s) >= promised}]_vars

\* CONFIG SET appendonly yes reaches AOF_ON or AOF_OFF.
EnableCompletes ==
    server.aof_state = "WAIT_REWRITE" ~> server.aof_state # "WAIT_REWRITE"
=============================================================================
