--------------------------- MODULE RedisAofProofs ---------------------------
(***************************************************************************)
(* The append-only file never names a missing file, never unlinks a file   *)
(* it needs and always appends to the file a restart would open, for all   *)
(* values of the constants for which the fsync of the directory does not   *)
(* fail ("dirfsync" \notin MayFail): any number of writes, requests,       *)
(* crashes and other faults, any databases, any fsync policy, and whatever *)
(* is read from a freed file name.  These three invariants speak of the    *)
(* names of files, not of what is in them, so their proof never looks into *)
(* the loader.                                                             *)
(*                                                                         *)
(* Then what the loader makes of the files: facts about LoadFile and       *)
(* LoadAppendOnlyFiles for files of any length and any number of them, by  *)
(* induction over the tokens and the files (FoldFacts), when files and a   *)
(* buffer load as a given dataset, and TypeOK under the same condition.    *)
(***************************************************************************)
EXTENDS RedisAof, SequenceTheorems, TLAPS

-----------------------------------------------------------------------------
(* The names of files.                                                     *)

\* A manifest as the code keeps it: the BASE and the last INCR file carry the
\* current sequence numbers, and no history file is one it loads from or one
\* whose number is still to be given out.
WellFormed(m) ==
    /\ m \in Manifest
    /\ m.base = m.base_seq
    /\ m.incr \subseteq 1 .. m.incr_seq
    /\ m.incr = {} => m.incr_seq = 0
    /\ m.incr # {} => m.incr_seq \in m.incr
    /\ m.hist \subseteq {Base(n) : n \in 1 .. m.base}
                            \cup {Incr(n) : n \in 1 .. m.incr_seq}
    /\ m.hist \cap Live(m) = {}

At(label, k) == pc = label /\ cont = k
Persisting(k) == At("persist", k) \/ At("dirfsync", k)

\* Where the event loop and flushAppendOnlyFile are, with no manifest at work.
QuietLabel == {"idle", "reply", "flush", "fsync", "rw_open", "stop", "shutdown"}
FlushReturn == {"reply", "idle", "rw_open", "stop", "shutdown"}

\* The shape of struct redisServer and where shared routines return to.
Shape ==
    /\ DOMAIN server = DOMAIN FreshServer
    /\ DOMAIN server.aof_fd = DOMAIN NoFd
    /\ pc \in {"flush", "fsync"} => cont \in FlushReturn
    /\ pc \in {"persist", "dirfsync"} =>
            cont \in {"start", "rw", "boot", "del_start", "del_boot"}
    /\ pc = "unlink" => cont \in {"start_failed", "del_start", "del_boot"}
    /\ pc # "unlink" => unlinking = {}

Manifests ==
    /\ WellFormed(aof_manifest)
    /\ WellFormed(temp_am)
    /\ WellFormed(disk_manifest)

\* Where a copy of the manifest has been renamed into place but not adopted.
Committed == \/ At("dirfsync", "start")
             \/ At("dirfsync", "rw")
             \/ pc \in {"start_adopt", "rw_swap"}

\* Memory and disk name the same files, except at the ends of a process and
\* between the two updates of a change.
Agreement ==
    /\ pc \notin {"down", "exit", "boot_open"} /\ ~At("persist", "boot") /\ ~Committed
            => Live(aof_manifest) = Live(disk_manifest)
    /\ Committed => Live(temp_am) = Live(disk_manifest)

\* What is about to become the manifest names existing files only.
Prepared ==
    /\ pc = "boot_open" \/ At("persist", "boot")
            => /\ Live(aof_manifest) \subseteq DOMAIN disk
               /\ aof_manifest.dirty \/ Live(aof_manifest) = Live(disk_manifest)
    /\ At("persist", "start") \/ At("persist", "rw")
            => /\ Live(temp_am) \subseteq DOMAIN disk
               /\ temp_am.dirty
    /\ pc = "start_rename_incr" => Base(temp_am.base) \in DOMAIN disk

\* How far the copy edited by startAppendOnly has got.
Starting ==
    /\ pc \in {"start_rewrite", "start_rename_base", "start_rename_incr"}
            => server.aof_fd.file # NoFile
    /\ pc \in {"start_rename_base", "start_rename_incr", "start_undo"} \/ At("persist", "start")
            => temp_am.base = aof_manifest.base + 1
    /\ pc = "start_rename_base" => /\ temp_am.incr = aof_manifest.incr
                                   /\ temp_am.incr_seq = aof_manifest.incr_seq
    /\ pc \in {"start_rename_incr", "start_undo"} \/ At("persist", "start")
            => temp_am.incr_seq = aof_manifest.incr_seq + 1
    /\ pc \in {"start_open", "start_rewrite", "start_rename_base", "start_rename_incr",
               "start_undo", "start_adopt"}
            \/ Persisting("start") \/ At("unlink", "start_failed")
            => server.aof_state # "ON"

\* The file the server appends to.
Appending ==
    /\ (server.aof_state = "ON" /\ pc \notin {"boot_base", "boot_open", "exit", "down"})
            \/ Persisting("del_start") \/ At("unlink", "del_start") \/ pc = "start_done"
            => /\ aof_manifest.incr # {}
               /\ server.aof_fd.file = Incr(aof_manifest.incr_seq)
    /\ Persisting("start") \/ pc = "start_adopt"
            => /\ temp_am.incr # {}
               /\ server.aof_fd.file = Incr(temp_am.incr_seq)
    /\ Persisting("rw") \/ pc = "rw_swap" => temp_am.incr # {}
    /\ Persisting("rw") \/ Persisting("boot") \/ pc \in {"rw_swap", "boot_base", "boot_open"}
            => server.aof_state = "ON"

Inv ==
    /\ Shape
    /\ Manifests
    /\ Agreement
    /\ Prepared
    /\ Starting
    /\ Appending
    /\ LiveFilesExist
    /\ unlinking \cap (Live(disk_manifest) \cup Live(aof_manifest)) = {}

-----------------------------------------------------------------------------
(* The operations on manifests.                                            *)

\* The last INCR file is the one with the highest number: getLastIncrAofName
\* returns the file getNewIncrAofName created last.
LEMMA LastIncrIsSeq ==
    ASSUME NEW m, WellFormed(m), m.incr # {}
    PROVE  LastIncr(m) = m.incr_seq
<1> DEFINE n == LastIncr(m)
<1>1. m.incr \subseteq Nat /\ m.incr_seq \in m.incr /\ \A k \in m.incr : k <= m.incr_seq
    BY DEF WellFormed, Manifest
<1>2. n \in m.incr /\ \A k \in m.incr : k <= n
    BY <1>1 DEF LastIncr
<1> QED
    BY <1>1, <1>2

\* Membership in the set of live files, by kind of file.
LEMMA LiveMembers ==
    ASSUME NEW m
    PROVE  /\ \A n : Base(n) \in Live(m) <=> n = m.base /\ n # 0
           /\ \A n : Incr(n) \in Live(m) <=> n \in m.incr
           /\ TempBase \notin Live(m) /\ TempIncr \notin Live(m)
    BY DEF Live, Base, Incr, TempBase, TempIncr

\* Copying a manifest, clearing its dirty flag or forgetting its names keeps it
\* well formed and leaves the files it loads from the same.
LEMMA SameFiles ==
    ASSUME NEW m, WellFormed(m), NEW d \in BOOLEAN, NEW s \in {"ok", "freed", "garbled"}
    PROVE  /\ WellFormed([m EXCEPT !.dirty = d]) /\ Live([m EXCEPT !.dirty = d]) = Live(m)
           /\ WellFormed([m EXCEPT !.names = s]) /\ Live([m EXCEPT !.names = s]) = Live(m)
    BY DEF WellFormed, Live, Manifest

\* aofManifestDup copies the list of files, whatever it reads of their names.
LEMMA DupFiles ==
    ASSUME NEW m, WellFormed(m), NEW d \in ManifestDup(m)
    PROVE  /\ WellFormed(d) /\ Live(d) = Live(m)
           /\ d.base = m.base /\ d.incr = m.incr /\ d.incr_seq = m.incr_seq
<1>1. PICK s \in {"ok", "freed", "garbled"} : d = [m EXCEPT !.names = s]
    BY DEF ManifestDup, ReadNames, WellFormed, Manifest
<1>2. WellFormed(d) /\ Live(d) = Live(m)
    BY <1>1, SameFiles
<1>3. d.base = m.base /\ d.incr = m.incr /\ d.incr_seq = m.incr_seq
    BY <1>1 DEF WellFormed, Manifest
<1> QED
    BY <1>2, <1>3

\* aofDelHistoryFiles empties the history list.
LEMMA ForgetHistory ==
    ASSUME NEW m, WellFormed(m)
    PROVE  LET f == [m EXCEPT !.hist = {}, !.dirty = TRUE]
           IN  /\ WellFormed(f) /\ Live(f) = Live(m)
               /\ f.incr = m.incr /\ f.incr_seq = m.incr_seq
    BY DEF WellFormed, Live, Manifest

\* getNewBaseFileNameAndMarkPreAsHistory adds one name, never used before, and
\* moves the previous BASE file to the history.
LEMMA NewBaseFiles ==
    ASSUME NEW m, WellFormed(m)
    PROVE  /\ WellFormed(NewBase(m))
           /\ NewBase(m).base = m.base + 1 /\ NewBase(m).dirty
           /\ NewBase(m).incr = m.incr /\ NewBase(m).incr_seq = m.incr_seq
           /\ Live(NewBase(m)) \subseteq Live(m) \cup {Base(m.base + 1)}
<1> DEFINE b == NewBase(m)
<1>a. {Base(n) : n \in {m.base} \ {0}} \subseteq File
    BY DEF WellFormed, Manifest, File, Base
<1>b. b \in Manifest
  <2>1. m \in Manifest /\ m.base_seq + 1 \in Nat
    BY DEF WellFormed, Manifest
  <2>2. m.hist \cup {Base(n) : n \in {m.base} \ {0}} \in SUBSET File
    BY <1>a, <2>1 DEF Manifest
  <2> QED
    BY <2>1, <2>2 DEF Manifest, NewBase
<1>1. /\ b \in Manifest /\ b.base = m.base + 1 /\ b.base_seq = m.base + 1 /\ b.dirty
      /\ b.incr = m.incr /\ b.incr_seq = m.incr_seq
      /\ b.hist = m.hist \cup {Base(n) : n \in {m.base} \ {0}}
    BY <1>b DEF WellFormed, Manifest, NewBase
<1>2. b.hist \cap Live(b) = {}
    BY <1>1, LiveMembers DEF WellFormed, Manifest, Live, Base, Incr
<1>3. b.hist \subseteq {Base(n) : n \in 1 .. b.base} \cup {Incr(n) : n \in 1 .. b.incr_seq}
    BY <1>1 DEF WellFormed, Manifest
<1> QED
    BY <1>1, <1>2, <1>3 DEF WellFormed, Live

\* getNewIncrAofName adds one name, never used before.
LEMMA NewIncrFiles ==
    ASSUME NEW m, WellFormed(m)
    PROVE  /\ WellFormed(NewIncr(m))
           /\ NewIncr(m).base = m.base /\ NewIncr(m).dirty
           /\ NewIncr(m).incr = m.incr \cup {m.incr_seq + 1}
           /\ NewIncr(m).incr_seq = m.incr_seq + 1
           /\ Live(NewIncr(m)) = Live(m) \cup {Incr(m.incr_seq + 1)}
<1> DEFINE i == NewIncr(m)
<1>a. i \in Manifest
  <2>1. m \in Manifest /\ m.incr_seq + 1 \in Nat
    BY DEF WellFormed, Manifest
  <2>2. m.incr \cup {m.incr_seq + 1} \in SUBSET Nat
    BY <2>1 DEF Manifest
  <2> QED
    BY <2>1, <2>2 DEF Manifest, NewIncr
<1>1. /\ i \in Manifest /\ i.base = m.base /\ i.base_seq = m.base /\ i.dirty
      /\ i.incr = m.incr \cup {m.incr_seq + 1} /\ i.incr_seq = m.incr_seq + 1
      /\ i.hist = m.hist
    BY <1>a DEF WellFormed, Manifest, NewIncr
<1>2. Live(i) = Live(m) \cup {Incr(m.incr_seq + 1)}
    BY <1>1 DEF Live
<1>3. Incr(m.incr_seq + 1) \notin m.hist
    BY DEF WellFormed, Manifest, Base, Incr
<1>4. i.hist \cap Live(i) = {}
    BY <1>1, <1>2, <1>3 DEF WellFormed
<1>5. i.hist \subseteq {Base(n) : n \in 1 .. i.base} \cup {Incr(n) : n \in 1 .. i.incr_seq}
    BY <1>1 DEF WellFormed, Manifest
<1>6. i.incr \subseteq 1 .. i.incr_seq
    BY <1>1 DEF WellFormed, Manifest
<1> QED
    BY <1>1, <1>2, <1>4, <1>5, <1>6 DEF WellFormed

\* markRewrittenIncrAofAsHistory keeps the BASE file and the INCR file in use.
LEMMA MarkRewrittenFiles ==
    ASSUME NEW m, WellFormed(m), m.incr # {}
    PROVE  LET r == MarkRewritten(m, TRUE)
           IN  /\ WellFormed(r) /\ r.dirty
               /\ r.base = m.base /\ r.incr = {m.incr_seq} /\ r.incr_seq = m.incr_seq
               /\ Live(r) \subseteq {Base(m.base), Incr(m.incr_seq)}
<1> DEFINE r == MarkRewritten(m, TRUE)
<1>a. LastIncr(m) = m.incr_seq
    BY LastIncrIsSeq
<1>b. {Incr(n) : n \in m.incr \ {m.incr_seq}} \subseteq File
    BY DEF WellFormed, Manifest, File, Incr
<1>c. r = [m EXCEPT !.hist = m.hist \cup {Incr(n) : n \in m.incr \ {m.incr_seq}},
                    !.incr = {m.incr_seq}, !.dirty = TRUE]
    BY <1>a DEF MarkRewritten, WellFormed, Manifest
<1>d. r \in Manifest
  <2>1. m \in Manifest /\ {m.incr_seq} \in SUBSET Nat
    BY DEF WellFormed, Manifest
  <2>2. m.hist \cup {Incr(n) : n \in m.incr \ {m.incr_seq}} \in SUBSET File
    BY <1>b, <2>1 DEF Manifest
  <2> QED
    BY <1>c, <2>1, <2>2 DEF Manifest
<1>1. /\ r \in Manifest /\ r.base = m.base /\ r.base_seq = m.base /\ r.dirty
      /\ r.incr = {m.incr_seq} /\ r.incr_seq = m.incr_seq
      /\ r.hist = m.hist \cup {Incr(n) : n \in m.incr \ {m.incr_seq}}
    BY <1>c, <1>d DEF WellFormed, Manifest
<1>2. /\ Live(r) \subseteq Live(m)
      /\ Live(r) \subseteq {Base(m.base), Incr(m.incr_seq)}
    BY <1>1 DEF Live, WellFormed
<1>3. r.hist \cap Live(r) = {}
  <2>1. m.hist \cap Live(r) = {}
    BY <1>2 DEF WellFormed
  <2>2. \A n \in m.incr \ {m.incr_seq} : Incr(n) \notin Live(r)
    BY <1>1, LiveMembers
  <2> QED
    BY <1>1, <2>1, <2>2
<1>4. r.hist \subseteq {Base(n) : n \in 1 .. r.base} \cup {Incr(n) : n \in 1 .. r.incr_seq}
    BY <1>1 DEF WellFormed, Manifest
<1>5. r.incr \subseteq 1 .. r.incr_seq /\ r.incr_seq \in r.incr
    BY <1>1 DEF WellFormed, Manifest
<1> QED
    BY <1>1, <1>2, <1>3, <1>4, <1>5 DEF WellFormed

\* aofLoadManifestFromFile recovers the sequence numbers from the names, so that
\* a restart numbers files as the stopped process would have.
LEMMA LoadManifestFiles ==
    ASSUME NEW m, WellFormed(m)
    PROVE  WellFormed(LoadManifest(m)) /\ Live(LoadManifest(m)) = Live(m)
<1>1. LoadManifest(m) = [m EXCEPT !.dirty = FALSE]
    BY LastIncrIsSeq DEF LoadManifest, WellFormed, Manifest
<1> QED
    BY <1>1, SameFiles

\* aofManifestCreate: nothing to load.
LEMMA EmptyManifestFiles == WellFormed(EmptyManifest) /\ Live(EmptyManifest) = {}
    BY DEF WellFormed, EmptyManifest, Live, Manifest

-----------------------------------------------------------------------------
(* The event loop and flushAppendOnlyFile.                                 *)

\* A step that touches no manifest, removes no file and neither turns the AOF
\* on nor redirects it keeps the invariant.
LEMMA QuietStep ==
    ASSUME Inv, pc \in QuietLabel,
           UNCHANGED <<aof_manifest, temp_am, disk_manifest, unlinking>>,
           DOMAIN disk \subseteq DOMAIN disk',
           DOMAIN server' = DOMAIN FreshServer,
           DOMAIN server'.aof_fd = DOMAIN NoFd,
           server'.aof_state = "ON" => /\ server.aof_state = "ON"
                                       /\ server'.aof_fd.file = server.aof_fd.file,
           pc' \in QuietLabel \cup {"exit"},
           pc' \in {"flush", "fsync"} => cont' \in FlushReturn
    PROVE  Inv'
<1>1. Shape' /\ Manifests'
    BY DEF Inv, Shape, Manifests, QuietLabel
<1>2. Agreement'
    BY DEF Inv, Agreement, Committed, At, QuietLabel
<1>3. Prepared' /\ Starting'
    BY DEF Prepared, Starting, At, Persisting, QuietLabel
<1>4. Appending'
    BY DEF Inv, Appending, At, Persisting, QuietLabel
<1>5. LiveFilesExist' /\ (unlinking \cap (Live(disk_manifest) \cup Live(aof_manifest)) = {})'
    BY DEF Inv, LiveFilesExist
<1> QED
    BY <1>1, <1>2, <1>3, <1>4, <1>5 DEF Inv

\* flushAppendOnlyFile
LEMMA FlushKeepsInv ==
    ASSUME Inv, Flush
    PROVE  Inv'
<1> USE DEF QuietLabel, FlushReturn
<1>1. /\ DOMAIN server = DOMAIN FreshServer /\ DOMAIN server.aof_fd = DOMAIN NoFd
      /\ pc \in {"flush", "fsync"} => cont \in FlushReturn
    BY DEF Inv, Shape
<1>2. ASSUME NEW due \in BOOLEAN, FlushEmpty(due) PROVE Inv'
    BY <1>1, <1>2, QuietStep DEF FlushEmpty, Goto, memory, fs, FreshServer
<1>3. ASSUME NEW due \in BOOLEAN, FlushWrite(due) PROVE Inv'
    BY <1>1, <1>3, QuietStep DEF FlushWrite, WriteFd, Goto, memory, FreshServer, NoFd
<1>4. ASSUME FlushError PROVE Inv'
    BY <1>1, <1>4, QuietStep DEF FlushError, WriteError, Goto, memory, fs, FreshServer
<1>5. ASSUME NEW k, FlushShort(k) PROVE Inv'
  <2>1. DOMAIN disk' = DOMAIN disk
    BY <1>5 DEF FlushShort, WriteFd
  <2>2. PICK s : /\ WriteError(s)
                 /\ \/ \E g : s = [server EXCEPT !.aof_fd.gap = g]
                    \/ \E g, n, t : s = [server EXCEPT !.aof_fd.gap = g,
                                                       !.aof_last_incr_size = n,
                                                       !.aof_buf = t]
    BY <1>5 DEF FlushShort
  <2>3. /\ DOMAIN s = DOMAIN FreshServer /\ DOMAIN s.aof_fd = DOMAIN NoFd
        /\ s.aof_state = server.aof_state /\ s.aof_fd.file = server.aof_fd.file
    <3>1. ASSUME NEW g, s = [server EXCEPT !.aof_fd.gap = g] PROVE <2>3!:
      BY <1>1, <3>1 DEF FreshServer, NoFd
    <3>2. ASSUME NEW g, NEW n, NEW t,
                 s = [server EXCEPT !.aof_fd.gap = g, !.aof_last_incr_size = n,
                                    !.aof_buf = t]
          PROVE  <2>3!:
      BY <1>1, <3>2 DEF FreshServer, NoFd
    <3> QED
      BY <2>2, <3>1, <3>2
  <2> QED
    BY <1>1, <1>5, <2>1, <2>2, <2>3, QuietStep
        DEF FlushShort, WriteError, Goto, memory, FreshServer
<1>6. ASSUME FlushFsync PROVE Inv'
    BY <1>1, <1>6, QuietStep DEF FlushFsync, FsyncFd, Goto, memory, FreshServer
<1>7. ASSUME FlushFsyncError PROVE Inv'
    BY <1>1, <1>7, QuietStep DEF FlushFsyncError, Goto, memory, fs, FreshServer
<1> QED
    BY <1>2, <1>3, <1>4, <1>5, <1>6, <1>7 DEF Flush

\* Commands, beforeSleep, serverCron, and the ends of stopAppendOnly and
\* finishShutdown.
LEMMA IdleKeepsInv ==
    ASSUME Inv, Command \/ EventLoop \/ Reply \/ StopClose \/ ShutdownFsync
    PROVE  Inv'
<1> USE DEF QuietLabel, FlushReturn
<1>1. DOMAIN server = DOMAIN FreshServer /\ DOMAIN server.aof_fd = DOMAIN NoFd
    BY DEF Inv, Shape
<1>2. ASSUME NEW d \in Db, Execute(d) PROVE Inv'
    BY <1>1, <1>2, QuietStep DEF Execute, Feed, control, fs, FreshServer
<1>3. ASSUME StartAppendOnly PROVE Inv'
  <2>1. /\ pc = "idle" /\ pc' = "start_open" /\ UNCHANGED <<cont, unlinking>>
        /\ UNCHANGED <<aof_manifest, temp_am, disk, disk_manifest>>
        /\ DOMAIN server' = DOMAIN server /\ server'.aof_fd = server.aof_fd
        /\ server'.aof_state = "WAIT_REWRITE"
    BY <1>1, <1>3 DEF StartAppendOnly, Goto, memory, fs, FreshServer
  <2> QED
    BY <1>1, <2>1 DEF Inv, Shape, Manifests, Agreement, Committed, Prepared, Starting,
                      Appending, LiveFilesExist, At, Persisting
<1>4. ASSUME StartAppendOnlyInExec PROVE Inv'
    BY <1>1, <1>4, QuietStep DEF StartAppendOnlyInExec, memory, control, fs, FreshServer
<1>5. ASSUME StopAppendOnly \/ Shutdown \/ BeforeSleep \/ CronFlush PROVE Inv'
    BY <1>1, <1>5, QuietStep
        DEF StopAppendOnly, Shutdown, BeforeSleep, CronFlush, Call, Goto, memory, fs
<1>6. ASSUME RewriteBackground PROVE Inv'
    BY <1>1, <1>6, QuietStep DEF RewriteBackground, Call, memory, fs, FreshServer
<1>7. ASSUME BgRewriteAofInExec PROVE Inv'
    BY <1>1, <1>7, QuietStep DEF BgRewriteAofInExec, memory, control, fs, FreshServer
<1>8. ASSUME Reply PROVE Inv'
    BY <1>1, <1>8, QuietStep DEF Reply, Goto, memory, fs, FreshServer
<1>9. ASSUME StopClose PROVE Inv'
    BY <1>9, QuietStep DEF StopClose, FinalFsync, FsyncFd, Goto, memory, fs, FreshServer
<1>10. ASSUME ShutdownFsync PROVE Inv'
    BY <1>1, <1>10, QuietStep DEF ShutdownFsync, FinalFsync, FsyncFd, Goto, memory, fs
<1> QED
    BY <1>2, <1>3, <1>4, <1>5, <1>6, <1>7, <1>8, <1>9, <1>10
        DEF Command, EventLoop, BgRewriteAof, CronRewrite

-----------------------------------------------------------------------------
(* openNewIncrAofForAppend.                                                *)

\* Replacing the descriptor changes the file appended to and nothing else that
\* the invariant speaks of.
LEMMA SwapFdFields ==
    ASSUME NEW file, NEW synced \in BOOLEAN,
           DOMAIN server = DOMAIN FreshServer
    PROVE  LET s == SwapFd(file, synced)
           IN  /\ DOMAIN s = DOMAIN FreshServer
               /\ DOMAIN s.aof_fd = DOMAIN NoFd
               /\ s.aof_fd.file = file
               /\ s.aof_state = server.aof_state
    BY DEF SwapFd, FreshServer, NoFd

\* The fsync of the old file neither creates nor removes a file.
LEMMA CloseOldFiles ==
    ASSUME NEW synced \in BOOLEAN
    PROVE  DOMAIN CloseOld(synced) = DOMAIN disk
    BY DEF CloseOld, FsyncFd

\* rewriteAppendOnlyFileBackground
LEMMA RewriteKeepsInv ==
    ASSUME Inv, Rewrite
    PROVE  Inv'
<1> USE DEF QuietLabel, FlushReturn
<1>1. DOMAIN server = DOMAIN FreshServer /\ DOMAIN server.aof_fd = DOMAIN NoFd
    BY DEF Inv, Shape
<1>2. ASSUME RewriteOff \/ RewriteOpenError PROVE Inv'
    BY <1>1, <1>2, QuietStep DEF RewriteOff, RewriteOpenError, Goto, memory, fs
<1>3. ASSUME RewriteWait PROVE Inv'
  <2>1. PICK synced \in BOOLEAN :
            /\ server' = [SwapFd(TempIncr, synced) EXCEPT
                            !.fsynced_reploff_pending = MasterReplOffset,
                            !.fsynced_reploff = 0]
            /\ disk' = With(CloseOld(synced), TempIncr, EmptyFile)
    BY <1>3 DEF RewriteWait
  <2>2. /\ DOMAIN server' = DOMAIN FreshServer /\ DOMAIN server'.aof_fd = DOMAIN NoFd
        /\ server'.aof_state = server.aof_state
    BY <1>1, <2>1, SwapFdFields DEF FreshServer
  <2>3. DOMAIN disk \subseteq DOMAIN disk'
    BY <2>1, CloseOldFiles DEF With
  <2> QED
    BY <1>3, <2>2, <2>3, QuietStep DEF RewriteWait, Goto, memory
<1>4. ASSUME RewriteOpen PROVE Inv'
  <2>1. PICK m \in ManifestDup(aof_manifest) : temp_am' = NewIncr(m)
    BY <1>4 DEF RewriteOpen
  <2>2. WellFormed(aof_manifest) /\ Live(aof_manifest) = Live(disk_manifest)
    BY <1>4 DEF RewriteOpen, Inv, Manifests, Agreement, Committed, At
  <2>3. WellFormed(m) /\ Live(m) = Live(aof_manifest) /\ m.incr_seq = aof_manifest.incr_seq
    BY <2>2, DupFiles
  <2>4. /\ WellFormed(temp_am') /\ temp_am'.dirty /\ temp_am'.incr # {}
        /\ Live(temp_am') = Live(aof_manifest) \cup {Incr(aof_manifest.incr_seq + 1)}
    BY <2>1, <2>3, NewIncrFiles
  <2>5. DOMAIN disk' = DOMAIN disk \cup {Incr(aof_manifest.incr_seq + 1)}
    BY <1>4 DEF RewriteOpen, With
  <2>6. /\ pc = "rw_open" /\ pc' = "persist" /\ cont' = "rw" /\ UNCHANGED unlinking
        /\ UNCHANGED <<server, aof_manifest, disk_manifest>> /\ server.aof_state = "ON"
    BY <1>4 DEF RewriteOpen, Call
  <2> QED
    BY <2>2, <2>4, <2>5, <2>6
        DEF Inv, Shape, Manifests, Agreement, Committed, Prepared, Starting,
            Appending, LiveFilesExist, At, Persisting
<1>5. ASSUME RewriteSwap PROVE Inv'
  <2>1. PICK synced \in BOOLEAN :
            /\ server' = SwapFd(Incr(temp_am.incr_seq), synced)
            /\ disk' = CloseOld(synced)
    BY <1>5 DEF RewriteSwap
  <2>2. /\ DOMAIN server' = DOMAIN FreshServer /\ DOMAIN server'.aof_fd = DOMAIN NoFd
        /\ server'.aof_state = server.aof_state
        /\ server'.aof_fd.file = Incr(temp_am.incr_seq)
    BY <1>1, <2>1, SwapFdFields
  <2>3. DOMAIN disk' = DOMAIN disk
    BY <2>1, CloseOldFiles
  <2>4. /\ pc = "rw_swap" /\ pc' = "idle" /\ UNCHANGED <<cont, unlinking>>
        /\ aof_manifest' = temp_am /\ UNCHANGED <<temp_am, disk_manifest>>
    BY <1>5 DEF RewriteSwap, Goto
  <2> QED
    BY <2>2, <2>3, <2>4
        DEF Inv, Shape, Manifests, Agreement, Committed, Prepared, Starting,
            Appending, LiveFilesExist, At, Persisting
<1> QED
    BY <1>2, <1>3, <1>4, <1>5 DEF Rewrite

-----------------------------------------------------------------------------
(* startAppendOnly.                                                        *)

\* Every step of startAppendOnly, its error paths included.
LEMMA StartKeepsInv ==
    ASSUME Inv, Start
    PROVE  Inv'
<1>1. DOMAIN server = DOMAIN FreshServer /\ DOMAIN server.aof_fd = DOMAIN NoFd
    BY DEF Inv, Shape
<1>2. WellFormed(aof_manifest) /\ WellFormed(temp_am) /\ WellFormed(disk_manifest)
    BY DEF Inv, Manifests
<1>3. /\ aof_manifest \in Manifest /\ temp_am \in Manifest
      /\ aof_manifest.base \in Nat /\ aof_manifest.incr_seq \in Nat
    BY <1>2 DEF WellFormed, Manifest
<1>4. ASSUME StartOpen PROVE Inv'
  <2>1. PICK synced \in BOOLEAN :
            /\ server' = SwapFd(TempIncr, synced)
            /\ disk' = With(CloseOld(synced), TempIncr, EmptyFile)
    BY <1>4 DEF StartOpen
  <2>2. /\ DOMAIN server' = DOMAIN FreshServer /\ DOMAIN server'.aof_fd = DOMAIN NoFd
        /\ server'.aof_state = server.aof_state /\ server'.aof_fd.file # NoFile
    BY <1>1, <2>1, SwapFdFields DEF TempIncr, NoFile
  <2>3. DOMAIN disk \subseteq DOMAIN disk'
    BY <2>1, CloseOldFiles DEF With
  <2>4. /\ pc = "start_open" /\ pc' = "start_rewrite" /\ UNCHANGED <<cont, unlinking>>
        /\ UNCHANGED <<aof_manifest, temp_am, disk_manifest>>
    BY <1>4 DEF StartOpen, Goto, memory
  <2> QED
    BY <2>2, <2>3, <2>4
        DEF Inv, Shape, Manifests, Agreement, Committed, Prepared, Starting,
            Appending, LiveFilesExist, At, Persisting
<1>5. ASSUME StartOpenError PROVE Inv'
  <2>1. /\ pc = "start_open" /\ pc' = "idle" /\ UNCHANGED <<cont, unlinking>>
        /\ UNCHANGED <<aof_manifest, temp_am, disk, disk_manifest>>
        /\ DOMAIN server' = DOMAIN server /\ server'.aof_fd = server.aof_fd
        /\ server'.aof_state = "OFF"
    BY <1>1, <1>5 DEF StartOpenError, Goto, memory, fs, FreshServer
  <2> QED
    BY <1>1, <2>1
        DEF Inv, Shape, Manifests, Agreement, Committed, Prepared, Starting,
            Appending, LiveFilesExist, At, Persisting
<1>6. ASSUME StartRewrite PROVE Inv'
  <2>1. PICK m \in ManifestDup(aof_manifest) : temp_am' = NewBase(m)
    BY <1>6 DEF StartRewrite
  <2>2. /\ WellFormed(temp_am') /\ temp_am'.base = aof_manifest.base + 1
        /\ temp_am'.incr = aof_manifest.incr /\ temp_am'.incr_seq = aof_manifest.incr_seq
    BY <1>2, <2>1, DupFiles, NewBaseFiles
  <2>3. DOMAIN disk \subseteq DOMAIN disk'
    BY <1>6 DEF StartRewrite, With
  <2>4. /\ pc = "start_rewrite" /\ pc' = "start_rename_base" /\ UNCHANGED <<cont, unlinking>>
        /\ UNCHANGED <<server, aof_manifest, disk_manifest>>
    BY <1>6 DEF StartRewrite, Goto
  <2> QED
    BY <2>2, <2>3, <2>4
        DEF Inv, Shape, Manifests, Agreement, Committed, Prepared, Starting,
            Appending, LiveFilesExist, At, Persisting
<1>7. ASSUME StartRenameBase PROVE Inv'
  <2>1. /\ pc = "start_rename_base" /\ pc' = "start_rename_incr"
        /\ UNCHANGED <<cont, unlinking, server, aof_manifest, disk_manifest>>
        /\ temp_am' = NewIncr(temp_am)
        /\ DOMAIN disk' = (DOMAIN disk \ {TempBase}) \cup {Base(temp_am.base)}
    BY <1>7 DEF StartRenameBase, Goto, Renamed
  <2>2. /\ WellFormed(temp_am') /\ temp_am'.base = temp_am.base
        /\ temp_am'.incr_seq = temp_am.incr_seq + 1
    BY <1>2, <2>1, NewIncrFiles
  <2>3. LiveFilesExist'
    BY <2>1, LiveMembers DEF Inv, LiveFilesExist
  <2> QED
    BY <2>1, <2>2, <2>3
        DEF Inv, Shape, Manifests, Agreement, Committed, Prepared, Starting,
            Appending, At, Persisting
<1>8. ASSUME StartRenameIncr PROVE Inv'
  <2>1. /\ pc = "start_rename_incr" /\ pc' = "persist" /\ cont' = "start"
        /\ UNCHANGED <<unlinking, aof_manifest, disk_manifest>>
        /\ DOMAIN disk' = (DOMAIN disk \ {TempIncr}) \cup {Incr(temp_am.incr_seq)}
        /\ server.aof_fd.file # NoFile
        /\ temp_am.incr_seq = aof_manifest.incr_seq + 1
    BY <1>8 DEF StartRenameIncr, Call, Renamed, Inv, Starting
  <2>2. temp_am.incr # {}
    BY <1>2, <1>3, <2>1 DEF WellFormed
  <2>3. temp_am' = MarkRewritten(temp_am, TRUE)
    BY <1>8, <2>1 DEF StartRenameIncr
  <2>4. /\ WellFormed(temp_am') /\ temp_am'.dirty /\ temp_am'.base = temp_am.base
        /\ temp_am'.incr # {} /\ temp_am'.incr_seq = temp_am.incr_seq
        /\ Live(temp_am') \subseteq {Base(temp_am.base), Incr(temp_am.incr_seq)}
    BY <1>2, <2>2, <2>3, MarkRewrittenFiles
  <2>5. /\ DOMAIN server' = DOMAIN FreshServer /\ DOMAIN server'.aof_fd = DOMAIN NoFd
        /\ server'.aof_state = server.aof_state
        /\ server'.aof_fd.file = Incr(temp_am.incr_seq)
    BY <1>1, <1>8 DEF StartRenameIncr, FreshServer, NoFd
  <2>6. LiveFilesExist'
    BY <2>1, LiveMembers DEF Inv, LiveFilesExist
  <2>7. Base(temp_am.base) \in DOMAIN disk'
    BY <2>1 DEF Inv, Prepared, Base, TempIncr
  <2> QED
    BY <2>1, <2>4, <2>5, <2>6, <2>7
        DEF Inv, Shape, Manifests, Agreement, Committed, Prepared, Starting,
            Appending, At, Persisting
<1>9. ASSUME StartError PROVE Inv'
  <2>1. /\ pc \in {"start_rewrite", "start_rename_base", "start_rename_incr", "start_undo"}
        /\ pc' = "unlink" /\ cont' = "start_failed" /\ unlinking' = StartLeftovers
        /\ UNCHANGED <<aof_manifest, temp_am, disk, disk_manifest>>
        /\ DOMAIN server' = DOMAIN server /\ server'.aof_fd = server.aof_fd
        /\ server'.aof_state = "OFF"
    BY <1>1, <1>9 DEF StartError, UnlinkThen, memory, fs, FreshServer
  <2>2. Live(aof_manifest) = Live(disk_manifest)
    BY <2>1 DEF Inv, Agreement, Committed, At
  <2>3. StartLeftovers \cap Live(aof_manifest) = {}
    <3>1. TempIncr \notin Live(aof_manifest)
      BY LiveMembers
    <3>2. Base(aof_manifest.base + 1) \notin Live(aof_manifest)
      BY <1>3, LiveMembers
    <3>3. Incr(aof_manifest.incr_seq + 1) \notin Live(aof_manifest)
      BY <1>2, <1>3, LiveMembers DEF WellFormed
    <3>4. StartLeftovers \subseteq {TempIncr, Base(aof_manifest.base + 1),
                                    Incr(aof_manifest.incr_seq + 1)}
      BY <2>1 DEF StartLeftovers, Inv, Starting
    <3> QED
      BY <3>1, <3>2, <3>3, <3>4
  <2> QED
    BY <1>1, <2>1, <2>2, <2>3
        DEF Inv, Shape, Manifests, Agreement, Committed, Prepared, Starting,
            Appending, LiveFilesExist, At, Persisting
<1>10. ASSUME StartAdopt PROVE Inv'
  <2>1. /\ pc = "start_adopt" /\ UNCHANGED <<server, temp_am, disk, disk_manifest>>
        /\ aof_manifest' = [temp_am EXCEPT !.names = "freed"]
    BY <1>10 DEF StartAdopt, fs
  <2>2. /\ WellFormed(aof_manifest') /\ Live(aof_manifest') = Live(disk_manifest)
        /\ Live(temp_am) = Live(disk_manifest)
    BY <1>2, <2>1, SameFiles DEF Inv, Agreement, Committed
  <2>3. aof_manifest'.incr = temp_am.incr /\ aof_manifest'.incr_seq = temp_am.incr_seq
    BY <1>3, <2>1 DEF Manifest
  <2>4. unlinking = {}
    BY <2>1 DEF Inv, Shape
  <2>5. \/ pc' = "start_done" /\ UNCHANGED <<cont, unlinking>>
        \/ pc' = "unlink" /\ cont' = "del_start" /\ unlinking' \subseteq temp_am.hist
    BY <1>10 DEF StartAdopt, Goto, UnlinkThen, Removable
  <2>6. unlinking' \cap Live(disk_manifest) = {}
    BY <1>2, <2>2, <2>4, <2>5 DEF WellFormed
  <2> QED
    BY <1>1, <2>1, <2>2, <2>3, <2>4, <2>5, <2>6
        DEF Inv, Shape, Manifests, Agreement, Committed, Prepared, Starting,
            Appending, LiveFilesExist, At, Persisting
<1>11. ASSUME StartDone PROVE Inv'
  <2>1. /\ pc = "start_done" /\ pc' = "idle" /\ UNCHANGED <<cont, unlinking>>
        /\ UNCHANGED <<aof_manifest, temp_am, disk, disk_manifest>>
        /\ DOMAIN server' = DOMAIN server /\ server'.aof_fd = server.aof_fd
    BY <1>1, <1>11 DEF StartDone, Goto, memory, fs, FreshServer
  <2> QED
    BY <1>1, <2>1
        DEF Inv, Shape, Manifests, Agreement, Committed, Prepared, Starting,
            Appending, LiveFilesExist, At, Persisting
<1> QED
    BY <1>4, <1>5, <1>6, <1>7, <1>8, <1>9, <1>10, <1>11 DEF Start

-----------------------------------------------------------------------------
(* persistAofManifest and the clean-up of files.                           *)

\* The one place where a failing fsync of the directory matters: it is reported
\* after the rename has taken effect, and the callers roll back.
LEMMA PersistKeepsInv ==
    ASSUME Inv, Persist, "dirfsync" \notin MayFail
    PROVE  Inv'
<1>1. /\ WellFormed(aof_manifest) /\ WellFormed(temp_am) /\ WellFormed(disk_manifest)
      /\ cont \in {"start", "rw", "boot", "del_start", "del_boot"}
    BY DEF Inv, Manifests, Shape, Persist, PersistClean, PersistRename, PersistSynced,
           PersistError
<1>2. aof_manifest \in Manifest /\ temp_am \in Manifest
    BY <1>1 DEF WellFormed
<1>3. ASSUME PersistClean PROVE Inv'
  <2>1. /\ pc = "persist" /\ ~PersistTarget.dirty
        /\ pc' = AfterPersist[cont] /\ UNCHANGED <<cont, unlinking>>
        /\ UNCHANGED <<server, aof_manifest, temp_am, disk, disk_manifest>>
    BY <1>3 DEF PersistClean, Goto, memory, fs
  <2>2. cont \notin {"start", "rw"}
    BY <2>1 DEF PersistTarget, Inv, Prepared, At
  <2>3. /\ cont = "boot" => pc' = "del_boot"
        /\ cont = "del_start" => pc' = "start_done"
        /\ cont = "del_boot" => pc' = "idle"
    BY <2>1 DEF AfterPersist
  <2>4. Live(aof_manifest) = Live(disk_manifest)
    BY <1>1, <2>1, <2>2 DEF PersistTarget, Inv, Prepared, Agreement, Committed, At
  <2> QED
    BY <1>1, <2>1, <2>2, <2>3, <2>4
        DEF Inv, Shape, Manifests, Agreement, Committed, Prepared, Starting,
            Appending, LiveFilesExist, At, Persisting
<1>4. ASSUME PersistRename PROVE Inv'
  <2>1. /\ pc = "persist" /\ pc' = "dirfsync" /\ UNCHANGED <<cont, unlinking>>
        /\ UNCHANGED <<server, aof_manifest, temp_am, disk>>
    BY <1>4 DEF PersistRename, Goto, memory
  <2>2. WellFormed(disk_manifest') /\ Live(disk_manifest') = Live(PersistTarget)
    BY <1>1, <1>4, DupFiles DEF PersistRename, PersistTarget
  <2>3. LiveFilesExist'
    BY <1>1, <2>1, <2>2
        DEF PersistTarget, LiveFilesExist, Inv, Prepared, Agreement, Committed, At
  <2>4. unlinking = {}
    BY <2>1 DEF Inv, Shape
  <2> QED
    BY <1>1, <2>1, <2>2, <2>3, <2>4
        DEF PersistTarget, Inv, Shape, Manifests, Agreement, Committed, Prepared, Starting,
            Appending, At, Persisting
<1>5. ASSUME PersistSynced PROVE Inv'
  <2>1. /\ pc = "dirfsync" /\ pc' = AfterPersist[cont] /\ UNCHANGED <<cont, unlinking>>
        /\ UNCHANGED <<server, disk, disk_manifest>>
    BY <1>5 DEF PersistSynced, Goto, fs
  <2>2. /\ WellFormed(aof_manifest') /\ Live(aof_manifest') = Live(aof_manifest)
        /\ WellFormed(temp_am') /\ Live(temp_am') = Live(temp_am)
    BY <1>1, <1>5, SameFiles DEF PersistSynced
  <2>3. /\ aof_manifest'.incr = aof_manifest.incr
        /\ aof_manifest'.incr_seq = aof_manifest.incr_seq
        /\ temp_am'.incr = temp_am.incr /\ temp_am'.incr_seq = temp_am.incr_seq
    BY <1>2, <1>5 DEF PersistSynced, Manifest
  <2>4. /\ cont = "start" => pc' = "start_adopt"
        /\ cont = "rw" => pc' = "rw_swap"
        /\ cont = "boot" => pc' = "del_boot"
        /\ cont = "del_start" => pc' = "start_done"
        /\ cont = "del_boot" => pc' = "idle"
    BY <2>1 DEF AfterPersist
  <2> QED
    BY <1>1, <2>1, <2>2, <2>3, <2>4
        DEF Inv, Shape, Manifests, Agreement, Committed, Prepared, Starting,
            Appending, LiveFilesExist, At, Persisting
<1>6. ASSUME PersistError PROVE Inv'
  <2>1. /\ pc = "persist" /\ pc' = AfterPersistError[cont] /\ UNCHANGED <<cont, unlinking>>
        /\ UNCHANGED <<server, aof_manifest, temp_am, disk, disk_manifest>>
    BY <1>6 DEF PersistError, Fault, Goto, memory, fs
  <2>2. /\ cont = "start" => pc' = "start_undo"
        /\ cont = "rw" => pc' = "idle"
        /\ cont = "boot" => pc' = "exit"
        /\ cont = "del_start" => pc' = "start_done"
        /\ cont = "del_boot" => pc' = "idle"
    BY <2>1 DEF AfterPersistError
  <2> QED
    BY <1>1, <2>1, <2>2
        DEF Inv, Shape, Manifests, Agreement, Committed, Prepared, Starting,
            Appending, LiveFilesExist, At, Persisting
<1> QED
    BY <1>3, <1>4, <1>5, <1>6 DEF Persist

\* bg_unlink of one file after the other, and the emptied history list.
LEMMA UnlinkKeepsInv ==
    ASSUME Inv, Unlink
    PROVE  Inv'
<1>1. DOMAIN server = DOMAIN FreshServer /\ DOMAIN server.aof_fd = DOMAIN NoFd
    BY DEF Inv, Shape
<1>2. WellFormed(aof_manifest) /\ WellFormed(temp_am) /\ WellFormed(disk_manifest)
    BY DEF Inv, Manifests
<1>3. ASSUME UnlinkDone PROVE Inv'
  <2>1. /\ pc = "unlink" /\ unlinking = {} /\ UNCHANGED <<cont, unlinking>>
        /\ UNCHANGED <<server, temp_am, disk, disk_manifest>>
        /\ cont \in {"start_failed", "del_start", "del_boot"}
    BY <1>3 DEF UnlinkDone, Goto, fs, Inv, Shape
  <2>2. CASE cont = "start_failed"
    <3>1. pc' = "idle" /\ UNCHANGED aof_manifest
      BY <1>3, <2>2 DEF UnlinkDone, Goto
    <3> QED
      BY <2>1, <2>2, <3>1
          DEF Inv, Shape, Manifests, Agreement, Committed, Prepared, Starting,
              Appending, LiveFilesExist, At, Persisting
  <2>3. CASE cont # "start_failed"
    <3>1. /\ pc' = "persist"
          /\ aof_manifest' = [aof_manifest EXCEPT !.hist = {}, !.dirty = TRUE]
      BY <1>3, <2>3 DEF UnlinkDone, Goto
    <3>2. /\ WellFormed(aof_manifest') /\ Live(aof_manifest') = Live(aof_manifest)
          /\ aof_manifest'.incr = aof_manifest.incr
          /\ aof_manifest'.incr_seq = aof_manifest.incr_seq
      BY <1>2, <3>1, ForgetHistory
    <3> QED
      BY <2>1, <2>3, <3>1, <3>2
          DEF Inv, Shape, Manifests, Agreement, Committed, Prepared, Starting,
              Appending, LiveFilesExist, At, Persisting
  <2> QED
    BY <2>2, <2>3
<1>4. ASSUME NEW f \in unlinking, UnlinkOne(f) PROVE Inv'
  <2>1. /\ pc = "unlink" /\ UNCHANGED <<pc, cont, aof_manifest, temp_am, disk_manifest>>
        /\ unlinking' = unlinking \ {f} /\ DOMAIN disk' = DOMAIN disk \ {f}
        /\ cont \in {"start_failed", "del_start", "del_boot"}
    BY <1>4 DEF UnlinkOne, Without, memory, Inv, Shape
  <2>2. /\ DOMAIN server' = DOMAIN FreshServer /\ DOMAIN server'.aof_fd = DOMAIN NoFd
        /\ server'.aof_state = server.aof_state
        /\ server'.aof_fd.file = server.aof_fd.file \/ server.aof_fd.file = f
    BY <1>1, <1>4 DEF UnlinkOne, FreshServer, NoFd
  <2>3. f \notin Live(disk_manifest) \cup Live(aof_manifest)
    BY DEF Inv
  <2>4. aof_manifest.incr # {} => Incr(aof_manifest.incr_seq) \in Live(aof_manifest)
    BY <1>2, LiveMembers DEF WellFormed
  <2>5. LiveFilesExist'
    BY <2>1, <2>3 DEF Inv, LiveFilesExist
  <2>6. Appending'
    BY <2>1, <2>2, <2>3, <2>4 DEF Inv, Appending, At, Persisting
  <2> QED
    BY <2>1, <2>2, <2>5, <2>6
        DEF Inv, Shape, Manifests, Agreement, Committed, Prepared, Starting, At, Persisting
<1> QED
    BY <1>3, <1>4 DEF Unlink

-----------------------------------------------------------------------------
(* Server start and crashes.                                               *)

\* aofOpenIfNeededOnServerStart and the clean-up that follows it.
LEMMA BootKeepsInv ==
    ASSUME Inv, Boot
    PROVE  Inv'
<1>1. DOMAIN server = DOMAIN FreshServer /\ DOMAIN server.aof_fd = DOMAIN NoFd
    BY DEF Inv, Shape
<1>2. WellFormed(aof_manifest) /\ WellFormed(temp_am) /\ WellFormed(disk_manifest)
    BY DEF Inv, Manifests
<1>3. ASSUME BootBase PROVE Inv'
  <2>1. /\ pc = "boot_base" /\ pc' = "boot_open" /\ UNCHANGED <<cont, unlinking>>
        /\ UNCHANGED <<server, temp_am, disk_manifest>>
    BY <1>3 DEF BootBase, Goto
  <2>2. Live(aof_manifest) = Live(disk_manifest)
    BY <2>1 DEF Inv, Agreement, Committed, At
  <2>3. /\ WellFormed(aof_manifest') /\ Live(aof_manifest') \subseteq DOMAIN disk'
        /\ aof_manifest'.dirty \/ Live(aof_manifest') = Live(disk_manifest)
        /\ DOMAIN disk \subseteq DOMAIN disk'
    <3>1. CASE Live(aof_manifest) = {}
      <4>1. /\ aof_manifest' = NewBase(aof_manifest)
            /\ DOMAIN disk' = DOMAIN disk \cup {Base(aof_manifest.base + 1)}
        BY <1>2, <1>3, <3>1 DEF BootBase, With, WellFormed
      <4>2. /\ WellFormed(aof_manifest') /\ aof_manifest'.dirty
            /\ Live(aof_manifest') \subseteq
                    Live(aof_manifest) \cup {Base(aof_manifest.base + 1)}
        BY <1>2, <4>1, NewBaseFiles
      <4> QED
        BY <3>1, <4>1, <4>2
    <3>2. CASE Live(aof_manifest) # {}
      BY <1>2, <1>3, <2>2, <3>2 DEF BootBase, Inv, LiveFilesExist
    <3> QED
      BY <3>1, <3>2
  <2>4. unlinking = {}
    BY <2>1 DEF Inv, Shape
  <2> QED
    BY <2>1, <2>3, <2>4
        DEF Inv, Shape, Manifests, Agreement, Committed, Prepared, Starting,
            Appending, LiveFilesExist, At, Persisting
<1>4. ASSUME BootOpen PROVE Inv'
  <2>1. /\ pc = "boot_open" /\ pc' = "persist" /\ cont' = "boot" /\ UNCHANGED unlinking
        /\ UNCHANGED <<temp_am, disk_manifest>>
    BY <1>4 DEF BootOpen, Call
  <2>2. /\ WellFormed(aof_manifest') /\ aof_manifest'.incr # {}
        /\ aof_manifest'.dirty \/ Live(aof_manifest') = Live(disk_manifest)
        /\ Live(aof_manifest') \subseteq
                Live(aof_manifest) \cup {Incr(aof_manifest'.incr_seq)}
    <3>1. CASE aof_manifest.incr = {}
      BY <1>2, <1>4, <3>1, NewIncrFiles DEF BootOpen
    <3>2. CASE aof_manifest.incr # {}
      BY <1>2, <1>4, <2>1, <3>2 DEF BootOpen, Inv, Prepared
    <3> QED
      BY <3>1, <3>2
  <2>3. LastIncr(aof_manifest') = aof_manifest'.incr_seq
    BY <2>2, LastIncrIsSeq
  <2>4. /\ DOMAIN server' = DOMAIN FreshServer /\ DOMAIN server'.aof_fd = DOMAIN NoFd
        /\ server'.aof_state = server.aof_state
        /\ server'.aof_fd.file = Incr(aof_manifest'.incr_seq)
    BY <1>1, <1>4, <2>3 DEF BootOpen, FreshServer, NoFd
  <2>5. DOMAIN disk' = DOMAIN disk \cup {Incr(aof_manifest'.incr_seq)}
    BY <1>4, <2>3 DEF BootOpen, With
  <2>6. unlinking = {}
    BY <2>1 DEF Inv, Shape
  <2> QED
    BY <2>1, <2>2, <2>4, <2>5, <2>6
        DEF Inv, Shape, Manifests, Agreement, Committed, Prepared, Starting,
            Appending, LiveFilesExist, At, Persisting
<1>5. ASSUME BootError PROVE Inv'
  <2>1. /\ pc \in {"boot_base", "boot_open"} /\ pc' = "exit" /\ UNCHANGED <<cont, unlinking>>
        /\ UNCHANGED <<server, aof_manifest, temp_am, disk, disk_manifest>>
    BY <1>5 DEF BootError, Goto, memory, fs
  <2> QED
    BY <2>1
        DEF Inv, Shape, Manifests, Agreement, Committed, Prepared, Starting,
            Appending, LiveFilesExist, At, Persisting
<1>6. ASSUME BootDelHistory PROVE Inv'
  <2>1. /\ pc = "del_boot"
        /\ UNCHANGED <<server, aof_manifest, temp_am, disk, disk_manifest>>
        /\ \/ pc' = "idle" /\ UNCHANGED <<cont, unlinking>>
           \/ pc' = "unlink" /\ cont' = "del_boot" /\ unlinking' \subseteq aof_manifest.hist
    BY <1>6 DEF BootDelHistory, Goto, UnlinkThen, Removable, memory, fs
  <2>2. Live(aof_manifest) = Live(disk_manifest) /\ unlinking = {}
    BY <2>1 DEF Inv, Agreement, Committed, At, Shape
  <2>3. unlinking' \cap Live(aof_manifest) = {}
    BY <1>2, <2>1, <2>2 DEF WellFormed
  <2> QED
    BY <2>1, <2>2, <2>3
        DEF Inv, Shape, Manifests, Agreement, Committed, Prepared, Starting,
            Appending, LiveFilesExist, At, Persisting
<1> QED
    BY <1>3, <1>4, <1>5, <1>6 DEF Boot

\* A crash at any step, and the restart after it, whatever the loader says.
LEMMA EnvironmentKeepsInv ==
    ASSUME Inv, Environment
    PROVE  Inv'
<1>1. WellFormed(aof_manifest) /\ WellFormed(temp_am) /\ WellFormed(disk_manifest)
    BY DEF Inv, Manifests
<1>2. ASSUME Stop, DOMAIN disk' = DOMAIN disk PROVE Inv'
  <2>1. /\ pc' = "down" /\ unlinking' = {} /\ server' = FreshServer
        /\ aof_manifest' = EmptyManifest /\ temp_am' = EmptyManifest
        /\ UNCHANGED disk_manifest
    BY <1>2 DEF Stop
  <2> QED
    BY <1>1, <1>2, <2>1, EmptyManifestFiles
        DEF Inv, Shape, Manifests, Agreement, Committed, Prepared, Starting,
            Appending, LiveFilesExist, At, Persisting, FreshServer, NoFd
<1>3. ASSUME Kill PROVE Inv'
    BY <1>2, <1>3 DEF Kill
<1>4. ASSUME PowerLoss PROVE Inv'
  <2>1. DOMAIN disk' = DOMAIN disk
    BY <1>4 DEF PowerLoss, Survivors
  <2> QED
    BY <1>2, <1>4, <2>1 DEF PowerLoss
<1>5. ASSUME StartServer \/ StartServerOff PROVE Inv'
  <2>1. /\ pc = "down" /\ pc' \in {"boot_base", "del_boot"} /\ UNCHANGED <<cont, unlinking>>
        /\ aof_manifest' = LoadManifest(disk_manifest)
        /\ UNCHANGED <<temp_am, disk_manifest>>
        /\ DOMAIN disk' = DOMAIN disk
    BY <1>5 DEF StartServer, StartServerOff, Booted, Goto, AfterLoad
  <2>2. /\ DOMAIN server' = DOMAIN FreshServer /\ DOMAIN server'.aof_fd = DOMAIN NoFd
        /\ pc' = "boot_base" => server'.aof_state = "ON"
        /\ pc' = "del_boot" => server'.aof_state # "ON"
    BY <1>5 DEF StartServer, StartServerOff, Booted, Goto, FreshServer, NoFd
  <2>3. WellFormed(aof_manifest') /\ Live(aof_manifest') = Live(disk_manifest)
    BY <1>1, <2>1, LoadManifestFiles
  <2>4. unlinking = {}
    BY <2>1 DEF Inv, Shape
  <2> QED
    BY <1>1, <2>1, <2>2, <2>3, <2>4
        DEF Inv, Shape, Manifests, Agreement, Committed, Prepared, Starting,
            Appending, LiveFilesExist, At, Persisting
<1>6. ASSUME StartServerFatal PROVE Inv'
  <2>1. /\ pc = "down" /\ UNCHANGED <<pc, cont, unlinking>>
        /\ UNCHANGED <<server, aof_manifest, temp_am, disk_manifest>>
        /\ DOMAIN disk' = DOMAIN disk
    BY <1>6 DEF StartServerFatal, control, memory, AfterLoad
  <2> QED
    BY <2>1
        DEF Inv, Shape, Manifests, Agreement, Committed, Prepared, Starting,
            Appending, LiveFilesExist, At, Persisting
<1> QED
    BY <1>3, <1>4, <1>5, <1>6 DEF Environment

-----------------------------------------------------------------------------
(* The theorems.                                                           *)

\* An empty directory and no server.
LEMMA InitInv ==
    ASSUME Init
    PROVE  Inv
    BY EmptyManifestFiles
        DEF Init, Inv, Shape, Manifests, Agreement, Committed, Prepared, Starting,
            Appending, LiveFilesExist, At, Persisting, FreshServer, NoFd

\* Every step keeps Inv, by the lemmas above.
LEMMA NextInv ==
    ASSUME Inv, [Next]_vars, "dirfsync" \notin MayFail
    PROVE  Inv'
<1>1. CASE UNCHANGED vars
    BY <1>1 DEF vars, memory, control, fs, Inv, Shape, Manifests, Agreement, Committed,
                Prepared, Starting, Appending, LiveFilesExist, At, Persisting
<1>2. CASE Next
    BY <1>2, FlushKeepsInv, IdleKeepsInv, RewriteKeepsInv, StartKeepsInv,
       PersistKeepsInv, UnlinkKeepsInv, BootKeepsInv, EnvironmentKeepsInv
        DEF Next, Running
<1> QED
    BY <1>1, <1>2

\* Inv implies the three invariants of the runs.
LEMMA InvImplies ==
    ASSUME Inv
    PROVE  LiveFilesExist /\ NoLiveFileUnlinked /\ OnWritesLastIncr
<1>1. WellFormed(aof_manifest)
    BY DEF Inv, Manifests
<1>2. aof_manifest.incr # {} => /\ LastIncr(aof_manifest) = aof_manifest.incr_seq
                                /\ Incr(aof_manifest.incr_seq) \in Live(aof_manifest)
    BY <1>1, LastIncrIsSeq, LiveMembers DEF WellFormed
<1>3. NoLiveFileUnlinked
  <2>1. CASE pc = "unlink"
    BY <1>2, <2>1 DEF NoLiveFileUnlinked, Inv, Appending
  <2>2. CASE pc # "unlink"
    BY <2>2 DEF NoLiveFileUnlinked, Inv, Shape
  <2> QED
    BY <2>1, <2>2
<1>4. OnWritesLastIncr
    BY <1>2 DEF OnWritesLastIncr, Inv, Appending, Agreement, Committed, At
<1> QED
    BY <1>3, <1>4 DEF Inv

\* Inv, the strengthening that makes the three invariants below inductive, holds
\* in every state, whatever fails except the fsync of the directory.
THEOREM InvHolds ==
    ASSUME "dirfsync" \notin MayFail
    PROVE  Spec => []Inv
    BY InitInv, NextInv, PTL DEF Spec

\* Every file the manifest on disk names exists, at whatever step of loading,
\* switching, rewriting, persisting or unlinking the process is killed.
THEOREM LiveFilesAlwaysExist ==
    ASSUME "dirfsync" \notin MayFail
    PROVE  Spec => []LiveFilesExist
    BY InvHolds, InvImplies, PTL

\* aofDelHistoryFiles and the clean-up of a failed startAppendOnly never unlink
\* a file that a manifest loads from or that is being appended to.
THEOREM NeededFilesStay ==
    ASSUME "dirfsync" \notin MayFail
    PROVE  Spec => []NoLiveFileUnlinked
    BY InvHolds, InvImplies, PTL

\* When commands run with the AOF on, they are appended to the last INCR file
\* of the manifest on disk, the one a restart would load last.
THEOREM AppendsGoToLastIncr ==
    ASSUME "dirfsync" \notin MayFail
    PROVE  Spec => []OnWritesLastIncr
    BY InvHolds, InvImplies, PTL

-----------------------------------------------------------------------------
(* Reading one file.                                                       *)

\* The facts about folds, for the tokens of a file and for the files.
ReadStep(e, st, tok) == LoadToken(st, tok)
Tokens == INSTANCE FoldFacts WITH Op <- ReadStep
FileStep(e, acc, f) == LoadNext(e[1], e[2], acc, f)
Files == INSTANCE FoldFacts WITH Op <- FileStep

\* The state of the fake client: at the start of a file, and in general.
Opened(ds) == [ds |-> ds, db |-> 0, open |-> 0, ok |-> TRUE, pos |-> 0, valid |-> 0]
Client == [ds : Image, db : Nat, open : Nat, ok : BOOLEAN, pos : Nat, valid : Nat]

Go(st, toks) == Tokens!Fold(0, st, toks)
Read(ds, toks) == Go(Opened(ds), toks)

\* LoadFile in these terms.
LEMMA LoadFileReads ==
    ASSUME NEW ds, NEW toks
    PROVE  LET st == Read(ds, toks)
           IN LoadFile(ds, toks) =
                 [ds |-> st.ds, valid |-> st.valid,
                  ret |-> IF ~st.ok THEN "FAILED"
                          ELSE IF st.open = 0 THEN "OK"
                          ELSE IF AofLoadTruncated THEN "TRUNCATED" ELSE "FAILED"]
<1>1. FoldLeft(LoadToken, Opened(ds), toks) = Read(ds, toks)
  BY Zenon DEF Read, Go, Tokens!Fold, ReadStep, Tokens!FoldLeft, FoldLeft,
       Tokens!MapThenFoldSet, MapThenFoldSet, Tokens!Max, Max
<1> QED BY <1>1 DEF LoadFile, Opened

\* One token keeps the state a state.
LEMMA LoadTokenType ==
    ASSUME NEW st \in Client, NEW tok \in Token
    PROVE  /\ LoadToken(st, tok) \in Client
           /\ LoadToken(st, tok).pos = st.pos + 1
           /\ LoadToken(st, tok).valid \in {st.valid, st.pos + 1}
           /\ LoadToken(st, tok).ok => st.ok
<1> DEFINE s == [st EXCEPT !.pos = st.pos + 1]
<1>1. s \in Client /\ s.pos = st.pos + 1 /\ s.ok = st.ok /\ s.valid = st.valid
  BY DEF Client
<1>2. tok.arg \in Nat /\ tok.image \in Image
  BY DEF Token
<1> DEFINE r == LoadToken(st, tok)
<1>3. \/ LoadToken(st, tok) = s /\ ~st.ok
      \/ st.ok /\ LoadToken(st, tok) = [s EXCEPT !.ds = tok.image]
      \/ st.ok /\ LoadToken(st, tok) = [s EXCEPT !.db = tok.arg, !.valid = s.pos]
      \/ st.ok /\ LoadToken(st, tok) = [s EXCEPT !.open = tok.arg]
      \/ st.ok /\ LoadToken(st, tok) = [s EXCEPT !.ds = Append(s.ds, [id |-> tok.arg, db |-> st.db]),
                                       !.open = 0, !.valid = s.pos]
      \/ st.ok /\ LoadToken(st, tok) = [s EXCEPT !.ok = FALSE]
  BY DEF LoadToken, Client
<1>4. Append(s.ds, [id |-> tok.arg, db |-> st.db]) \in Image
  <2>1. [id |-> tok.arg, db |-> st.db] \in [id : Nat, db : Nat]
    BY <1>2 DEF Client
  <2>2. s.ds \in Seq([id : Nat, db : Nat])
    BY <1>1 DEF Client, Image
  <2> QED BY <2>1, <2>2, AppendProperties DEF Image
<1> HIDE DEF s
<1>5. CASE r = s
  BY <1>1, <1>5
<1>6. CASE st.ok /\ r = [s EXCEPT !.ds = tok.image]
  BY <1>1, <1>2, <1>6 DEF Client
<1>7. CASE st.ok /\ r = [s EXCEPT !.db = tok.arg, !.valid = s.pos]
  BY <1>1, <1>2, <1>7 DEF Client
<1>8. CASE st.ok /\ r = [s EXCEPT !.open = tok.arg]
  BY <1>1, <1>2, <1>8 DEF Client
<1>9. CASE st.ok /\ r = [s EXCEPT !.ds = Append(s.ds, [id |-> tok.arg, db |-> st.db]),
                                !.open = 0, !.valid = s.pos]
  <2>1. PICK d \in Image : d = Append(s.ds, [id |-> tok.arg, db |-> st.db])
    BY <1>4
  <2>2. r = [s EXCEPT !.ds = d, !.open = 0, !.valid = s.pos]
    BY <1>9, <2>1
  <2>3. r = [ds |-> d, db |-> s.db, open |-> 0, ok |-> s.ok, pos |-> s.pos, valid |-> s.pos]
    BY <1>1, <2>2 DEF Client
  <2> HIDE DEF r
  <2>4. r \in Client /\ r.pos = s.pos /\ r.valid = s.pos
    BY <1>1, <2>3 DEF Client
  <2> QED BY <1>1, <1>9, <2>4 DEF r
<1>10. CASE st.ok /\ r = [s EXCEPT !.ok = FALSE]
  BY <1>1, <1>10 DEF Client
<1> QED BY <1>3, <1>5, <1>6, <1>7, <1>8, <1>9, <1>10

\* The facts about folds in the terms used here.
LEMMA GoFacts ==
    /\ \A st : Go(st, <<>>) = st
    /\ \A st : \A s \in Seq(Token), x \in Token : Go(st, Append(s, x)) = LoadToken(Go(st, s), x)
    /\ \A st : \A s, t \in Seq(Token) : Go(st, s \o t) = Go(Go(st, s), t)
<1>1. \A st : Go(st, <<>>) = st
  BY Tokens!FoldEmpty DEF Go
<1>2. \A st : \A s \in Seq(Token), x \in Token : Go(st, Append(s, x)) = LoadToken(Go(st, s), x)
  BY Tokens!FoldAppend DEF Go, ReadStep
<1>3. \A st : \A s, t \in Seq(Token) : Go(st, s \o t) = Go(Go(st, s), t)
  BY Tokens!FoldConcat DEF Go
<1> QED BY <1>1, <1>2, <1>3

\* A sequence that is not empty is its front and its last element.
Splits(t, u, x, k) ==
    /\ t = Append(u, x) /\ Len(u) = k /\ x = t[k + 1] /\ \A i \in 1 .. k : u[i] = t[i]

\* A sequence that is not empty has a last element.
LEMMA LastToken ==
    ASSUME NEW X, NEW k \in Nat, NEW t \in Seq(X), Len(t) = k + 1
    PROVE  \E u \in Seq(X), x \in X : Splits(t, u, x, k)
<1> DEFINE u == [i \in 1 .. k |-> t[i]]
<1>1. u \in Seq(X) /\ Len(u) = k /\ t[k + 1] \in X /\ \A i \in 1 .. k : u[i] = t[i]
  OBVIOUS
<1>2. t = Append(u, t[k + 1])
  OBVIOUS
<1> HIDE DEF u
<1>3. Splits(t, u, t[k + 1], k)
  BY <1>1, <1>2 DEF Splits
<1> QED BY <1>1, <1>3

\* The fake client after the tokens of a file: it has counted them, and what it
\* calls valid is not beyond them.
LEMMA ReadType ==
    ASSUME NEW ds \in Image
    PROVE  \A toks \in Seq(Token) :
              /\ Read(ds, toks) \in Client
              /\ Read(ds, toks).pos = Len(toks)
              /\ Read(ds, toks).valid \in 0 .. Len(toks)
<1> DEFINE P(t) == /\ Read(ds, t) \in Client /\ Read(ds, t).pos = Len(t)
                   /\ Read(ds, t).valid \in 0 .. Len(t)
           S == {k \in Nat : \A t \in Seq(Token) : Len(t) = k => P(t)}
<1>1. 0 \in S
  <2>1. \A t \in Seq(Token) : Len(t) = 0 => t = <<>>
    OBVIOUS
  <2>2. Read(ds, <<>>) = Opened(ds) /\ Len(<<>>) = 0
    BY GoFacts DEF Read
  <2>a. /\ Opened(ds) \in Client /\ Opened(ds).pos = 0 /\ Opened(ds).valid = 0
    BY DEF Opened, Client
  <2>3. P(<<>>)
    BY <2>2, <2>a
  <2> HIDE DEF P
  <2> QED BY <2>1, <2>3
<1>2. ASSUME NEW k \in Nat, k \in S
      PROVE  k + 1 \in S
  <2> SUFFICES ASSUME NEW t \in Seq(Token), Len(t) = k + 1 PROVE P(t)
    OBVIOUS
  <2>a. PICK u \in Seq(Token), x \in Token : Splits(t, u, x, k)
    <3> HIDE DEF P, S
    <3> QED BY LastToken
  <2>1. t = Append(u, x) /\ Len(u) = k
    BY <2>a DEF Splits
  <2>2. P(u)
    BY <1>2, <2>1
  <2>3. Read(ds, t) = LoadToken(Read(ds, u), x)
    BY <2>1, GoFacts DEF Read
  <2>4. /\ LoadToken(Read(ds, u), x) \in Client
        /\ LoadToken(Read(ds, u), x).pos = Read(ds, u).pos + 1
        /\ LoadToken(Read(ds, u), x).valid \in {Read(ds, u).valid, Read(ds, u).pos + 1}
    BY <2>2, LoadTokenType
  <2> QED BY <2>1, <2>2, <2>3, <2>4
<1> HIDE DEF S
<1>3. \A k \in Nat : k \in S
  BY <1>1, <1>2, Tokens!NatSet
<1>4. \A t \in Seq(Token) : Len(t) \in S
  BY <1>3
<1> QED BY <1>4 DEF S

NoSnap(toks) == \A i \in 1 .. Len(toks) : toks[i].kind # "snap"

\* A command token that is accepted.
LEMMA LoadTokenOk ==
    ASSUME NEW st \in Client, NEW tok \in Token, tok.kind # "snap", LoadToken(st, tok).ok
    PROVE  LET r == LoadToken(st, tok)
           IN /\ st.ok
              /\ \/ r.valid = st.pos + 1 /\ r.open = 0
                 \/ r.valid = st.valid /\ r.ds = st.ds
<1> DEFINE s == [st EXCEPT !.pos = st.pos + 1]
           r == LoadToken(st, tok)
<1>1. s \in Client /\ s.pos = st.pos + 1 /\ s.ok = st.ok /\ s.valid = st.valid
      /\ s.open = st.open /\ s.ds = st.ds
  BY DEF Client
<1>2. st.ok
  BY LoadTokenType
<1>3. \/ st.open = 0 /\ r = [s EXCEPT !.db = tok.arg, !.valid = s.pos]
      \/ r = [s EXCEPT !.open = tok.arg]
      \/ r = [s EXCEPT !.ds = Append(s.ds, [id |-> tok.arg, db |-> st.db]),
                       !.open = 0, !.valid = s.pos]
      \/ r = [s EXCEPT !.ok = FALSE]
  BY <1>2 DEF LoadToken, Client
<1> DEFINE Goal == \/ r.valid = st.pos + 1 /\ r.open = 0
                   \/ r.valid = st.valid /\ r.ds = st.ds
<1> HIDE DEF s
<1>4. ASSUME st.open = 0, r = [s EXCEPT !.db = tok.arg, !.valid = s.pos] PROVE Goal
  <2> HIDE DEF r
  <2>1. r.valid = s.pos /\ r.open = s.open
    BY <1>1, <1>4 DEF Client
  <2> QED BY <1>1, <1>4, <2>1
<1>5. ASSUME r = [s EXCEPT !.open = tok.arg] PROVE Goal
  <2> HIDE DEF r
  <2>1. r.valid = s.valid /\ r.ds = s.ds
    BY <1>1, <1>5 DEF Client
  <2> QED BY <1>1, <2>1
<1>6. ASSUME NEW d, r = [s EXCEPT !.ds = d, !.open = 0, !.valid = s.pos] PROVE Goal
  <2> HIDE DEF r
  <2>1. r.valid = s.pos /\ r.open = 0
    BY <1>1, <1>6 DEF Client
  <2> QED BY <1>1, <2>1
<1>7. ASSUME r = [s EXCEPT !.ok = FALSE] PROVE FALSE
  <2> HIDE DEF r
  <2>1. ~r.ok
    BY <1>1, <1>7 DEF Client
  <2> QED BY <2>1 DEF r
<1> HIDE DEF r, Goal
<1>8. Goal
  BY <1>3, <1>4, <1>5, <1>6, <1>7
<1> QED BY <1>2, <1>8 DEF r, Goal

\* Cutting a file where the loader says that it is valid leaves a file that loads
\* without complaint as the same dataset.
Sound(ds, t) ==
    LET st == Read(ds, t)
        p == Read(ds, SubSeq(t, 1, st.valid))
    IN NoSnap(t) /\ st.ok => p.ok /\ p.open = 0 /\ p.ds = st.ds

\* Cut where the loader says (valid_up_to), a file that was read without an error
\* is read without an error, and ends between two commands.
LEMMA ValidPrefix ==
    ASSUME NEW ds \in Image
    PROVE  \A t \in Seq(Token) : Sound(ds, t)
<1> DEFINE S == {k \in Nat : \A t \in Seq(Token) : Len(t) = k => Sound(ds, t)}
<1>1. 0 \in S
  <2>1. \A t \in Seq(Token) : Len(t) = 0 => t = <<>>
    OBVIOUS
  <2>2. Read(ds, <<>>) = Opened(ds)
    BY GoFacts DEF Read
  <2>3. Opened(ds).valid = 0 /\ Opened(ds).ok /\ Opened(ds).open = 0
    BY DEF Opened
  <2>4. SubSeq(<<>>, 1, 0) = <<>>
    OBVIOUS
  <2>5. Sound(ds, <<>>)
    BY <2>2, <2>3, <2>4 DEF Sound
  <2> QED BY <2>1, <2>5
<1>2. ASSUME NEW k \in Nat, k \in S
      PROVE  k + 1 \in S
  <2> SUFFICES ASSUME NEW t \in Seq(Token), Len(t) = k + 1, NoSnap(t), Read(ds, t).ok
               PROVE  LET p == Read(ds, SubSeq(t, 1, Read(ds, t).valid))
                      IN p.ok /\ p.open = 0 /\ p.ds = Read(ds, t).ds
    BY DEF Sound
  <2>1. PICK u \in Seq(Token), x \in Token : Splits(t, u, x, k)
    <3> HIDE DEF S
    <3> QED BY LastToken
  <2>2. /\ t = Append(u, x) /\ Len(u) = k /\ Len(u) \in Nat /\ x = t[k + 1]
        /\ \A i \in 1 .. k : u[i] = t[i]
    BY <2>1 DEF Splits
  <2>3. x.kind # "snap" /\ NoSnap(u)
    BY <2>2 DEF NoSnap
  <2>4. PICK st, r : st = Read(ds, u) /\ r = Read(ds, t)
    OBVIOUS
  <2>5. r = LoadToken(st, x)
    BY <2>2, <2>4, GoFacts DEF Read
  <2>6. st \in Client /\ st.pos = k /\ st.valid \in 0 .. k /\ r \in Client
    BY <2>2, <2>4, ReadType
  <2>7. /\ st.ok
        /\ \/ r.valid = st.pos + 1 /\ r.open = 0
           \/ r.valid = st.valid /\ r.ds = st.ds
    BY <2>3, <2>4, <2>5, <2>6, LoadTokenOk
  <2>8. CASE r.valid = st.pos + 1 /\ r.open = 0
    <3>1. SubSeq(t, 1, r.valid) = t
      BY <2>6, <2>8
    <3> QED BY <2>4, <2>8, <3>1
  <2>9. CASE r.valid = st.valid /\ r.ds = st.ds
    <3>1. SubSeq(t, 1, r.valid) = SubSeq(u, 1, st.valid)
      BY <2>2, <2>6, <2>9
    <3>2. Sound(ds, u)
      BY <1>2, <2>2
    <3> QED BY <2>3, <2>4, <2>7, <2>9, <3>1, <3>2 DEF Sound
  <2> QED BY <2>7, <2>8, <2>9
<1> HIDE DEF S
<1>3. \A k \in Nat : k \in S
  BY <1>1, <1>2, Tokens!NatSet
<1>4. \A t \in Seq(Token) : Len(t) \in S
  BY <1>3
<1> QED BY <1>4 DEF S

-----------------------------------------------------------------------------
(* Reading the files of a manifest.                                        *)

\* The files a disk may hold, with their types.
ContentOK(c) == c \in [data : Seq(Token), synced : Nat] /\ c.synced <= Len(c.data)
DiskOK(d) == DOMAIN d \subseteq File /\ \A f \in DOMAIN d : ContentOK(d[f])

Listed == {Base(n) : n \in Nat} \cup {Incr(n) : n \in Nat}

\* The order in which the files are read is a sequence of file names.
LEMMA LoadOrderFiles ==
    ASSUME NEW m, WellFormed(m)
    PROVE  LoadOrder(m) \in Seq(Listed)
<1>1. m.base \in Nat /\ (IF m.incr = {} THEN 0 ELSE LastIncr(m)) \in Nat
  BY LastIncrIsSeq DEF WellFormed, Manifest
<1>2. PICK k \in Nat : k = IF m.incr = {} THEN 0 ELSE LastIncr(m)
  BY <1>1
<1>3. <<Base(m.base)>> \in Seq(Listed)
  BY <1>1 DEF Listed
<1>4. [n \in 1 .. k |-> Incr(n)] \in Seq(Listed)
  BY DEF Listed
<1>5. PICK t \in Seq(Listed) : t = [n \in 1 .. k |-> Incr(n)]
  BY <1>4
<1> QED BY <1>2, <1>3, <1>5, ConcatProperties DEF LoadOrder

\* LoadAppendOnlyFiles as a fold.
LEMMA LoadsAsFold ==
    ASSUME NEW m, NEW d, m.names # "garbled", Live(m) \subseteq DOMAIN d
    PROVE  LoadAppendOnlyFiles(m, d)
              = Files!Fold(<<Live(m), d>>, NothingLoaded, LoadOrder(m))
<1>1. <<Live(m), d>>[1] = Live(m) /\ <<Live(m), d>>[2] = d
  OBVIOUS
<1>2. LoadAppendOnlyFiles(m, d)
        = FoldLeft(LAMBDA acc, f : LoadNext(Live(m), d, acc, f), NothingLoaded, LoadOrder(m))
  BY DEF LoadAppendOnlyFiles
<1> QED BY <1>1, <1>2, Zenon DEF FileStep, Files!Fold, Files!FoldLeft, FoldLeft,
         Files!MapThenFoldSet, MapThenFoldSet, Files!Max, Max

\* What has been loaded so far; a file that was cut was cut within its length.
Progress(live, d) ==
    {acc \in [ds : Image, ret : {"OK", "TRUNCATED", "FAILED"},
              cut : [file : File \cup {NoFile}, at : Nat]] :
        acc.cut.file # NoFile => /\ acc.cut.file \in live
                                 /\ acc.cut.at \in 0 .. Len(d[acc.cut.file].data)}

\* loadSingleAppendOnlyFile returns a dataset, and a length within the file.
LEMMA LoadFileType ==
    ASSUME NEW ds \in Image, NEW toks \in Seq(Token)
    PROVE  /\ LoadFile(ds, toks).ds \in Image
           /\ LoadFile(ds, toks).ret \in {"OK", "TRUNCATED", "FAILED"}
           /\ LoadFile(ds, toks).valid \in 0 .. Len(toks)
<1>1. PICK st : st = Read(ds, toks)
  OBVIOUS
<1>2. st \in Client /\ st.valid \in 0 .. Len(toks)
  BY <1>1, ReadType
<1>3. LoadFile(ds, toks) =
                 [ds |-> st.ds, valid |-> st.valid,
                  ret |-> IF ~st.ok THEN "FAILED"
                          ELSE IF st.open = 0 THEN "OK"
                          ELSE IF AofLoadTruncated THEN "TRUNCATED" ELSE "FAILED"]
  BY <1>1, LoadFileReads
<1> QED BY <1>2, <1>3 DEF Client

\* The progress after one more file is progress.
LEMMA LoadNextType ==
    ASSUME NEW live, NEW d, DiskOK(d), live \subseteq DOMAIN d,
           NEW acc \in Progress(live, d), NEW f
    PROVE  LoadNext(live, d, acc, f) \in Progress(live, d)
<1>1. CASE f \notin live
  BY <1>1 DEF LoadNext
<1>2. CASE f \in live /\ acc.ret # "OK"
  <2>1. LoadNext(live, d, acc, f) = [acc EXCEPT !.ret = "FAILED"]
    BY <1>2 DEF LoadNext
  <2> QED BY <2>1 DEF Progress
<1>3. CASE f \in live /\ acc.ret = "OK"
  <2>1. f \in File /\ d[f].data \in Seq(Token) /\ acc.ds \in Image
    BY <1>3 DEF DiskOK, ContentOK, Progress
  <2>2. PICK r : r = LoadFile(acc.ds, d[f].data)
    OBVIOUS
  <2>3. /\ r.ds \in Image /\ r.ret \in {"OK", "TRUNCATED", "FAILED"}
        /\ r.valid \in 0 .. Len(d[f].data)
    BY <2>1, <2>2, LoadFileType
  <2>4. LoadNext(live, d, acc, f) =
           [ds |-> r.ds, ret |-> r.ret,
            cut |-> IF r.ret = "TRUNCATED" THEN [file |-> f, at |-> r.valid] ELSE acc.cut]
    BY <1>3, <2>2 DEF LoadNext
  <2>5. Len(d[f].data) \in Nat
    BY <2>1
  <2>6. r.valid \in Nat
    BY <2>3, <2>5
  <2> QED BY <1>3, <2>1, <2>3, <2>4, <2>6 DEF Progress
<1> QED BY <1>1, <1>2, <1>3

\* Whatever the files hold, the loader returns a dataset, and cuts at most one of
\* the files of the manifest, within its length.
LEMMA LoadType ==
    ASSUME NEW m, WellFormed(m), NEW d, DiskOK(d), Live(m) \subseteq DOMAIN d
    PROVE  LoadAppendOnlyFiles(m, d) \in Progress(Live(m), d)
<1>1. NothingLoaded \in Progress(Live(m), d)
  BY EmptySeq DEF NothingLoaded, Progress, Image
<1>2. CASE m.names = "garbled"
  <2>1. LoadAppendOnlyFiles(m, d) = [NothingLoaded EXCEPT !.ret = "FAILED"]
    BY <1>2 DEF LoadAppendOnlyFiles
  <2> QED BY <1>1, <2>1 DEF Progress
<1>3. CASE m.names # "garbled"
  <2>1. LoadAppendOnlyFiles(m, d)
              = Files!Fold(<<Live(m), d>>, NothingLoaded, LoadOrder(m))
    BY <1>3, LoadsAsFold
  <2>2. \A b \in Progress(Live(m), d), x \in Listed :
            FileStep(<<Live(m), d>>, b, x) \in Progress(Live(m), d)
    BY LoadNextType DEF FileStep
  <2>3. LoadOrder(m) \in Seq(Listed)
    BY LoadOrderFiles
  <2>4. PICK e, P, o : e = <<Live(m), d>> /\ P = Progress(Live(m), d) /\ o = LoadOrder(m)
    OBVIOUS
  <2>5. Files!Fold(e, NothingLoaded, o) \in P
    BY <1>1, <2>2, <2>3, <2>4, Files!FoldType
  <2> QED BY <2>1, <2>4, <2>5
<1> QED BY <1>2, <1>3

\* truncate(2) within the length of a file.
LEMMA CutAtType ==
    ASSUME NEW c, ContentOK(c), NEW n \in 0 .. Len(c.data)
    PROVE  /\ ContentOK(CutAt(c, n)) /\ Len(CutAt(c, n).data) = n
           /\ CutAt(c, n).data = SubSeq(c.data, 1, n)
           /\ c.data = <<>> => CutAt(c, n).data = <<>>
<1>a. c.data \in Seq(Token) /\ c.synced \in Nat /\ n \in Nat
  BY DEF ContentOK
<1>1. SubSeq(c.data, 1, n) \in Seq(Token) /\ Len(SubSeq(c.data, 1, n)) = n
  BY <1>a
<1>2. PICK t \in Seq(Token) : t = SubSeq(c.data, 1, n)
  BY <1>1
<1>3. PICK k \in Nat : k = (IF c.synced < n THEN c.synced ELSE n) /\ k <= n
  BY <1>a
<1>4. CutAt(c, n) = [data |-> t, synced |-> k]
  BY <1>2, <1>3 DEF CutAt
<1>5. ContentOK(CutAt(c, n))
  BY <1>1, <1>2, <1>3, <1>4 DEF ContentOK
<1>6. c.data = <<>> => t = <<>>
  <2>1. ASSUME c.data = <<>> PROVE t = <<>>
    <3>1. n = 0
      BY <2>1
    <3> QED BY <1>1, <1>2, <3>1
  <2> QED BY <2>1
<1> QED BY <1>1, <1>2, <1>4, <1>5, <1>6

\* Cutting a file where the loader cut it keeps the types.
LEMMA AfterLoadType ==
    ASSUME NEW live, NEW d, DiskOK(d), live \subseteq DOMAIN d, NEW r \in Progress(live, d)
    PROVE  /\ DiskOK(AfterLoad(d, r)) /\ DOMAIN AfterLoad(d, r) = DOMAIN d
           /\ \A f \in DOMAIN d : d[f].data = <<>> => AfterLoad(d, r)[f].data = <<>>
<1>1. CASE r.cut.file = NoFile
  BY <1>1 DEF AfterLoad
<1>2. CASE r.cut.file # NoFile
  <2>1. PICK f, n : f = r.cut.file /\ n = r.cut.at
    OBVIOUS
  <2>2. f \in DOMAIN d /\ n \in 0 .. Len(d[f].data)
    BY <1>2, <2>1 DEF Progress
  <2>3. AfterLoad(d, r) = [d EXCEPT ![f] = CutAt(d[f], n)]
    BY <1>2, <2>1 DEF AfterLoad
  <2>4. PICK c : c = CutAt(d[f], n)
    OBVIOUS
  <2>5. ContentOK(c) /\ (d[f].data = <<>> => c.data = <<>>)
    BY <2>2, <2>4, CutAtType DEF DiskOK
  <2> QED BY <2>2, <2>3, <2>4, <2>5 DEF DiskOK
<1> QED BY <1>1, <1>2

-----------------------------------------------------------------------------
(* The files of a manifest one after the other.                            *)

\* The BASE file b and the first n INCR files, in the order of loading, and what
\* has been loaded after them.
Order(b, n) == <<Base(b)>> \o [i \in 1 .. n |-> Incr(i)]
Loaded(live, d, b, n) == Files!Fold(<<live, d>>, NothingLoaded, Order(b, n))

\* The files load, without a complaint, as ds.
Whole(m, d, ds) ==
    /\ Loaded(Live(m), d, m.base, m.incr_seq).ret = "OK"
    /\ Loaded(Live(m), d, m.base, m.incr_seq).ds = ds

\* Read after ds0, the tokens complete the dataset ds and leave the fake client
\* in the database sel, if that is one.
Reads(ds0, toks, ds, sel) ==
    LET st == Read(ds0, toks)
    IN st.ok /\ st.open = 0 /\ st.ds = ds /\ (sel # -1 => st.db = sel)

\* The files before the last one load without a complaint, and the last one with
\* buf appended completes the dataset.
Ends(m, d, buf, ds, sel) ==
    LET acc == Loaded(Live(m), d, m.base, m.incr_seq - 1)
    IN /\ m.incr # {}
       /\ acc.ret = "OK"
       /\ Reads(acc.ds, d[Incr(m.incr_seq)].data \o buf, ds, sel)

\* Snapshots are what BASE files are, and nothing else has any.
PlainFile(f, c) ==
    IF f[1] \in {"base", "temp_base"}
    THEN c.synced = 1 /\ c.data = <<Snap(c.data[1].image)>>
    ELSE NoSnap(c.data)
Plain(d) == \A f \in DOMAIN d : PlainFile(f, d[f])

-----------------------------------------------------------------------------
(* Loading file by file.                                                   *)

Early(b, n) == {Base(b)} \cup {Incr(i) : i \in 1 .. n}

\* The order of loading as a sequence that grows by one INCR file.
LEMMA OrderFacts ==
    ASSUME NEW b \in Nat, NEW n \in Nat
    PROVE  /\ Order(b, n) \in Seq(Early(b, n)) /\ Order(b, n) \in Seq(Listed)
           /\ Order(b, n + 1) = Append(Order(b, n), Incr(n + 1))
           /\ Order(b, 0) = Append(<<>>, Base(b))
<1>1. PICK t : t = [i \in 1 .. n |-> Incr(i)]
  OBVIOUS
<1>2. t \in Seq(Early(b, n)) /\ t \in Seq(Listed) /\ Len(t) = n
  BY <1>1 DEF Early, Listed
<1>3. <<Base(b)>> \in Seq(Early(b, n)) /\ <<Base(b)>> \in Seq(Listed)
  BY DEF Early, Listed
<1>4. Order(b, n) \in Seq(Early(b, n)) /\ Order(b, n) \in Seq(Listed)
  BY <1>1, <1>2, <1>3, ConcatProperties DEF Order
<1>5. Order(b, n + 1) = Append(Order(b, n), Incr(n + 1))
  <2>1. PICK u : u = [i \in 1 .. (n + 1) |-> Incr(i)]
    OBVIOUS
  <2>2. u \in Seq(Listed) /\ Len(u) = n + 1 /\ u = Append(t, Incr(n + 1))
    BY <1>1, <2>1 DEF Listed
  <2>3. PICK x, y : x = Base(b) /\ y = Incr(n + 1) /\ x \in Listed /\ y \in Listed
    BY DEF Listed
  <2>4. <<x>> \o Append(t, y) = Append(<<x>> \o t, y)
    BY <1>2, <2>3
  <2> QED BY <1>1, <2>1, <2>2, <2>3, <2>4 DEF Order
<1>6. Order(b, 0) = Append(<<>>, Base(b))
  <2>1. [i \in 1 .. 0 |-> Incr(i)] = <<>>
    OBVIOUS
  <2> QED BY <2>1 DEF Order
<1> QED BY <1>4, <1>5, <1>6

\* LoadOrder in these terms.
LEMMA LoadOrderIs ==
    ASSUME NEW m, WellFormed(m)
    PROVE  m.base \in Nat /\ m.incr_seq \in Nat /\ LoadOrder(m) = Order(m.base, m.incr_seq)
<1>1. m.base \in Nat /\ m.incr_seq \in Nat
  BY DEF WellFormed, Manifest
<1>2. (IF m.incr = {} THEN 0 ELSE LastIncr(m)) = m.incr_seq
  BY LastIncrIsSeq DEF WellFormed
<1> QED BY <1>1, <1>2 DEF LoadOrder, Order

\* One INCR file more.
LEMMA LoadedNext ==
    ASSUME NEW live, NEW d, NEW b \in Nat, NEW n \in Nat
    PROVE  /\ Loaded(live, d, b, n + 1) = LoadNext(live, d, Loaded(live, d, b, n), Incr(n + 1))
           /\ Loaded(live, d, b, 0) = LoadNext(live, d, NothingLoaded, Base(b))
<1>1. PICK e, s, x, y : e = <<live, d>> /\ s = Order(b, n) /\ x = Incr(n + 1) /\ y = Base(b)
  OBVIOUS
<1>2. s \in Seq(Listed) /\ x \in Listed /\ y \in Listed
  BY <1>1, OrderFacts DEF Listed
<1>3. Files!Fold(e, NothingLoaded, Append(s, x)) = FileStep(e, Files!Fold(e, NothingLoaded, s), x)
  BY <1>2, Files!FoldAppend
<1>4. PICK z \in Seq(Listed) : z = <<>>
  BY EmptySeq
<1>5. Files!Fold(e, NothingLoaded, Append(z, y)) = FileStep(e, Files!Fold(e, NothingLoaded, z), y)
  BY <1>2, Files!FoldAppend
<1>6. Files!Fold(e, NothingLoaded, z) = NothingLoaded
  BY <1>4, Files!FoldEmpty
<1>7. e[1] = live /\ e[2] = d
  BY <1>1
<1>8. Loaded(live, d, b, n + 1) = FileStep(e, Loaded(live, d, b, n), x)
  BY <1>1, <1>3, OrderFacts DEF Loaded
<1>9. Loaded(live, d, b, 0) = FileStep(e, NothingLoaded, y)
  BY <1>1, <1>4, <1>5, <1>6, OrderFacts DEF Loaded
<1> QED BY <1>1, <1>7, <1>8, <1>9 DEF FileStep

\* Disks that agree on the live files.
Alike(live, d, w, b, n) ==
    \A f \in Early(b, n) : f \in live => d[f].data = w[f].data

\* Only the live files matter, and of them only the data.
LEMMA LoadedSame ==
    ASSUME NEW live, NEW liv2, NEW d, NEW w, NEW b \in Nat, NEW n \in Nat,
           \A f \in Early(b, n) : f \in live <=> f \in liv2,
           Alike(live, d, w, b, n)
    PROVE  Loaded(live, d, b, n) = Loaded(liv2, w, b, n)
<1>1. PICK e, u, s : e = <<live, d>> /\ u = <<liv2, w>> /\ s = Order(b, n)
  OBVIOUS
<1>2. s \in Seq(Early(b, n))
  BY <1>1, OrderFacts
<1>3. \A acc : \A f \in Early(b, n) : LoadNext(live, d, acc, f) = LoadNext(liv2, w, acc, f)
  BY DEF LoadNext, Alike
<1>4. e[1] = live /\ e[2] = d /\ u[1] = liv2 /\ u[2] = w
  BY <1>1
<1>5. \A acc : \A f \in Early(b, n) : FileStep(e, acc, f) = FileStep(u, acc, f)
  BY <1>3, <1>4 DEF FileStep
<1>6. Files!Fold(e, NothingLoaded, s) = Files!Fold(u, NothingLoaded, s)
  BY <1>2, <1>5, Files!FoldSame
<1> QED BY <1>1, <1>6 DEF Loaded

\* A loader that has not complained has cut nothing.
Cuts(live, d) == {acc \in Progress(live, d) : acc.ret = "OK" => acc.cut.file = NoFile}

\* The types of what has been loaded; a file was cut only if the last one loaded
\* was truncated.
LEMMA LoadedType ==
    ASSUME NEW live, NEW d, DiskOK(d), live \subseteq DOMAIN d, NEW b \in Nat, NEW n \in Nat
    PROVE  Loaded(live, d, b, n) \in Cuts(live, d)
<1>1. NothingLoaded \in Cuts(live, d)
  BY EmptySeq DEF NothingLoaded, Progress, Image, Cuts
<1>2. ASSUME NEW acc \in Cuts(live, d), NEW f
      PROVE  LoadNext(live, d, acc, f) \in Cuts(live, d)
  <2>1. LoadNext(live, d, acc, f) \in Progress(live, d)
    BY LoadNextType DEF Cuts
  <2>2. CASE f \notin live
    BY <2>2 DEF LoadNext
  <2>3. CASE f \in live /\ acc.ret # "OK"
    <3>1. LoadNext(live, d, acc, f) = [acc EXCEPT !.ret = "FAILED"]
      BY <2>3 DEF LoadNext
    <3>2. LoadNext(live, d, acc, f).ret = "FAILED"
      BY <3>1 DEF Cuts, Progress
    <3> QED BY <2>1, <3>2 DEF Cuts
  <2>4. CASE f \in live /\ acc.ret = "OK"
    <3>1. PICK r : r = LoadFile(acc.ds, d[f].data)
      OBVIOUS
    <3>2. LoadNext(live, d, acc, f) =
           [ds |-> r.ds, ret |-> r.ret,
            cut |-> IF r.ret = "TRUNCATED" THEN [file |-> f, at |-> r.valid] ELSE acc.cut]
      BY <2>4, <3>1 DEF LoadNext
    <3>3. acc.cut.file = NoFile
      BY <2>4 DEF Cuts
    <3> QED BY <2>1, <3>2, <3>3 DEF Cuts
  <2> QED BY <2>2, <2>3, <2>4
<1>3. PICK e, P, s : e = <<live, d>> /\ P = Cuts(live, d) /\ s = Order(b, n)
  OBVIOUS
<1>4. e[1] = live /\ e[2] = d
  BY <1>3
<1>5. \A acc \in P, f \in Listed : FileStep(e, acc, f) \in P
  BY <1>2, <1>3, <1>4 DEF FileStep
<1>6. s \in Seq(Listed)
  BY <1>3, OrderFacts
<1>7. Files!Fold(e, NothingLoaded, s) \in P
  BY <1>1, <1>3, <1>5, <1>6, Files!FoldType
<1> QED BY <1>3, <1>7 DEF Loaded

\* Files that are not live are passed over.
LEMMA LoadedSkips ==
    ASSUME NEW live, NEW d, NEW b \in Nat, NEW n \in Nat, \A i \in 1 .. n : Incr(i) \notin live
    PROVE  Loaded(live, d, b, n) = Loaded(live, d, b, 0)
<1> DEFINE S == {k \in Nat : k <= n => Loaded(live, d, b, k) = Loaded(live, d, b, 0)}
<1>1. 0 \in S
  OBVIOUS
<1>2. ASSUME NEW k \in Nat, k \in S PROVE k + 1 \in S
  <2> SUFFICES ASSUME k + 1 <= n PROVE Loaded(live, d, b, k + 1) = Loaded(live, d, b, 0)
    OBVIOUS
  <2>1. Loaded(live, d, b, k) = Loaded(live, d, b, 0) /\ Incr(k + 1) \notin live
    BY <1>2
  <2>2. Loaded(live, d, b, k + 1) = LoadNext(live, d, Loaded(live, d, b, k), Incr(k + 1))
    BY LoadedNext
  <2> QED BY <2>1, <2>2 DEF LoadNext
<1> HIDE DEF S
<1>3. n \in S
  BY <1>1, <1>2, Tokens!NatSet
<1> QED BY <1>3 DEF S

\* What the loader returns when it has read the file f to the state st.
Returns(r, st, f) ==
    /\ r.ds = st.ds
    /\ r.ret = "OK" <=> st.ok /\ st.open = 0
    /\ r.ret = "TRUNCATED" => st.ok /\ r.cut = [file |-> f, at |-> st.valid]
    /\ r.ret \in {"OK", "TRUNCATED", "FAILED"}

\* One live file after files that loaded without a complaint.
LEMMA LoadNextReads ==
    ASSUME NEW live, NEW d, NEW acc, acc.ret = "OK", NEW f \in live,
           NEW st, st = Read(acc.ds, d[f].data), NEW r, r = LoadNext(live, d, acc, f)
    PROVE  Returns(r, st, f)
<1>1. PICK x : x = LoadFile(acc.ds, d[f].data)
  OBVIOUS
<1>2. x = [ds |-> st.ds, valid |-> st.valid,
           ret |-> IF ~st.ok THEN "FAILED" ELSE IF st.open = 0 THEN "OK"
                   ELSE IF AofLoadTruncated THEN "TRUNCATED" ELSE "FAILED"]
  BY <1>1, LoadFileReads
<1>3. r = [ds |-> x.ds, ret |-> x.ret,
           cut |-> IF x.ret = "TRUNCATED" THEN [file |-> f, at |-> x.valid] ELSE acc.cut]
  BY <1>1 DEF LoadNext
<1>4. /\ r.ds = x.ds /\ r.ret = x.ret
      /\ x.ret = "TRUNCATED" => r.cut = [file |-> f, at |-> x.valid]
  BY <1>3
<1>5. /\ x.ds = st.ds /\ x.valid = st.valid
      /\ x.ret = IF ~st.ok THEN "FAILED" ELSE IF st.open = 0 THEN "OK"
                   ELSE IF AofLoadTruncated THEN "TRUNCATED" ELSE "FAILED"
  BY <1>2
<1>6. /\ x.ret = "OK" <=> st.ok /\ st.open = 0
      /\ x.ret = "TRUNCATED" => st.ok
      /\ x.ret \in {"OK", "TRUNCATED", "FAILED"}
  BY <1>5
<1> QED BY <1>4, <1>5, <1>6 DEF Returns

\* What a client reads at the start of a file.
LEMMA ReadsNothing ==
    ASSUME NEW ds
    PROVE  Reads(ds, <<>>, ds, -1)
<1>1. Read(ds, <<>>) = Opened(ds)
  BY GoFacts DEF Read
<1> QED BY <1>1 DEF Reads, Opened

\* A snapshot replaces whatever was there.
LEMMA ReadsSnap ==
    ASSUME NEW ds \in Image, NEW ds0
    PROVE  Reads(ds0, <<Snap(ds)>>, ds, -1)
<1>1. PICK x \in Token : x = Snap(ds)
  BY DEF Snap, Token
<1>2. PICK z \in Seq(Token) : z = <<>>
  BY EmptySeq
<1>3. Read(ds0, Append(z, x)) = LoadToken(Read(ds0, z), x)
  BY GoFacts DEF Read
<1>4. Read(ds0, z) = Opened(ds0)
  BY <1>2, GoFacts DEF Read
<1>5. LoadToken(Opened(ds0), x) = [[Opened(ds0) EXCEPT !.pos = 1] EXCEPT !.ds = ds]
  BY <1>1 DEF LoadToken, Opened, Snap
<1>6. Append(z, x) = <<x>>
  BY <1>2
<1> QED BY <1>1, <1>3, <1>4, <1>5, <1>6 DEF Reads, Opened

\* Two or three elements more.
LEMMA ThreeMore ==
    ASSUME NEW X, NEW s \in X, NEW h \in X, NEW t \in X, NEW q \in Seq(X)
    PROVE  /\ q \o (<<s>> \o <<h, t>>) = Append(Append(Append(q, s), h), t)
           /\ q \o (<<>> \o <<h, t>>) = Append(Append(q, h), t)
<1>a. <<s>> \in Seq(X) /\ <<h>> \in Seq(X) /\ <<t>> \in Seq(X)
  OBVIOUS
<1>b. <<h, t>> = Append(<<h>>, t)
  OBVIOUS
<1>c. <<h, t>> = <<h>> \o <<t>>
  BY <1>a, <1>b, AppendIsConcat
<1>1. PICK a, b, c : /\ a = <<s>> /\ b = <<h>> /\ c = <<t>>
                     /\ a \in Seq(X) /\ b \in Seq(X) /\ c \in Seq(X)
  BY <1>a
<1>2. <<h, t>> = b \o c
  BY <1>1, <1>c
<1>3. \A u \in Seq(X) :
         Append(u, s) = u \o a /\ Append(u, h) = u \o b /\ Append(u, t) = u \o c
  BY <1>1, AppendIsConcat
<1>4. /\ b \o c \in Seq(X) /\ q \o a \in Seq(X) /\ q \o b \in Seq(X)
      /\ (q \o a) \o b \in Seq(X)
  BY <1>1, ConcatProperties
<1>5. <<>> \o (b \o c) = b \o c
  BY <1>4, ConcatEmptySeq
<1>6. q \o (b \o c) = (q \o b) \o c
  BY <1>1, ConcatAssociative
<1>7. q \o (a \o (b \o c)) = (q \o a) \o (b \o c)
  <2>1. PICK y \in Seq(X) : y = b \o c
    BY <1>4
  <2>2. q \o (a \o y) = (q \o a) \o y
    BY <1>1, ConcatAssociative
  <2> QED BY <2>1, <2>2
<1>8. (q \o a) \o (b \o c) = ((q \o a) \o b) \o c
  BY <1>1, <1>4, ConcatAssociative
<1>9. Append(Append(q, h), t) = (q \o b) \o c
  BY <1>3, <1>4
<1>10. Append(Append(Append(q, s), h), t) = ((q \o a) \o b) \o c
  BY <1>3, <1>4
<1>11. q \o (<<s>> \o <<h, t>>) = Append(Append(Append(q, s), h), t)
  BY <1>1, <1>2, <1>7, <1>8, <1>10
<1> QED BY <1>1, <1>2, <1>5, <1>6, <1>9, <1>11

\* A command appended by feedAppendOnlyFile is read back as executed, in its
\* database.
LEMMA EntryReads ==
    ASSUME NEW ds0 \in Image, NEW toks \in Seq(Token), NEW ds, NEW sel \in Nat \cup {-1},
           Reads(ds0, toks, ds, sel), NEW i \in Nat \ {0}, NEW b \in Nat, NEW w,
           w = [id |-> i, db |-> b]
    PROVE  Reads(ds0, toks \o Entry(w, sel), Append(ds, w), b)
<1>1. PICK st : st = Read(ds0, toks)
  OBVIOUS
<1>2. st \in Client /\ st.ok /\ st.open = 0 /\ st.ds = ds /\ (sel # -1 => st.db = sel)
  BY <1>1, ReadType DEF Reads
<1>3. PICK s, h, t \in Token : s = Sel(b) /\ h = CmdHead(i) /\ t = CmdTail(i)
  BY EmptySeq DEF Sel, CmdHead, CmdTail, Token, Image
<1>4. /\ s.kind = "sel" /\ s.arg = b /\ h.kind = "head" /\ h.arg = i
      /\ t.kind = "tail" /\ t.arg = i
  BY <1>3 DEF Sel, CmdHead, CmdTail
<1>5. PICK a \in Client : /\ a.ok /\ a.open = 0 /\ a.ds = ds /\ a.db = b
                          /\ a = IF b = sel THEN st ELSE LoadToken(st, s)
  <2>1. CASE b = sel
    BY <1>2, <2>1
  <2>2. CASE b # sel
    <3>1. LoadToken(st, s) = [[st EXCEPT !.pos = st.pos + 1] EXCEPT !.db = b, !.valid = st.pos + 1]
      BY <1>2, <1>4 DEF LoadToken, Client
    <3>2. PICK a : a = LoadToken(st, s)
      OBVIOUS
    <3>3. a = [ds |-> ds, db |-> b, open |-> 0, ok |-> TRUE, pos |-> st.pos + 1, valid |-> st.pos + 1]
      BY <1>2, <3>1, <3>2 DEF Client
    <3>4. a \in Client
      BY <1>2, <3>3 DEF Client
    <3> QED BY <2>2, <3>2, <3>3, <3>4
  <2> QED BY <2>1, <2>2
<1>6. PICK c \in Client : c.ok /\ c.open = i /\ c.ds = ds /\ c.db = b /\ c = LoadToken(a, h)
  <2>1. LoadToken(a, h) = [[a EXCEPT !.pos = a.pos + 1] EXCEPT !.open = i]
    BY <1>4, <1>5 DEF LoadToken, Client
  <2>2. PICK c : c = LoadToken(a, h)
    OBVIOUS
  <2>3. c = [ds |-> ds, db |-> b, open |-> i, ok |-> TRUE, pos |-> a.pos + 1, valid |-> a.valid]
    BY <1>5, <2>1, <2>2 DEF Client
  <2>4. c \in Client
    BY <1>5, <2>3 DEF Client
  <2> QED BY <2>2, <2>3, <2>4
<1>7. PICK e : e.ok /\ e.open = 0 /\ e.ds = Append(ds, w) /\ e.db = b /\ e = LoadToken(c, t)
  <2>1. PICK n : n = Append(ds, w)
    OBVIOUS
  <2>2. LoadToken(c, t) = [[c EXCEPT !.pos = c.pos + 1] EXCEPT !.ds = n, !.open = 0, !.valid = c.pos + 1]
    BY <1>4, <1>6, <2>1 DEF LoadToken, Client
  <2> QED BY <1>6, <2>1, <2>2 DEF Client
<1>8. PICK u \in Seq(Token) : u = (IF b = sel THEN toks ELSE Append(toks, s)) /\ Read(ds0, u) = a
  <2>1. Append(toks, s) \in Seq(Token) /\ Read(ds0, Append(toks, s)) = LoadToken(st, s)
    BY <1>1, GoFacts DEF Read
  <2> QED BY <1>1, <1>5, <2>1
<1>9. Read(ds0, Append(u, h)) = c /\ Append(u, h) \in Seq(Token)
  <2>1. Read(ds0, Append(u, h)) = LoadToken(Read(ds0, u), h)
    BY GoFacts DEF Read
  <2>2. Append(u, h) \in Seq(Token)
    BY AppendProperties
  <2> QED BY <1>6, <1>8, <2>1, <2>2
<1>10. Read(ds0, Append(Append(u, h), t)) = e
  <2>1. PICK v \in Seq(Token) : v = Append(u, h)
    BY <1>9
  <2>2. Read(ds0, Append(v, t)) = LoadToken(Read(ds0, v), t)
    BY GoFacts DEF Read
  <2> QED BY <1>7, <1>9, <2>1, <2>2
<1>11. toks \o Entry(w, sel) = Append(Append(u, h), t)
  <2>1. w.db = b /\ w.id = i
    OBVIOUS
  <2>2. Entry(w, sel) = (IF b = sel THEN <<>> ELSE <<s>>) \o <<h, t>>
    BY <1>3, <2>1 DEF Entry
  <2> QED BY <1>8, <2>2, ThreeMore
<1> QED BY <1>7, <1>10, <1>11 DEF Reads

-----------------------------------------------------------------------------
(* Complete files.                                                         *)

\* The last INCR file is not among the ones loaded before it.
LEMMA LastIsLate ==
    ASSUME NEW m, WellFormed(m), m.incr # {}
    PROVE  /\ m.incr_seq - 1 \in Nat /\ m.base \in Nat /\ m.incr_seq \in Nat
           /\ Incr(m.incr_seq) \in Live(m)
           /\ Incr(m.incr_seq) \notin Early(m.base, m.incr_seq - 1)
<1>1. m.incr_seq \in Nat /\ m.incr_seq \in m.incr /\ m.incr_seq \in 1 .. m.incr_seq /\ m.base \in Nat
  BY DEF WellFormed, Manifest
<1>2. Incr(m.incr_seq) \notin Early(m.base, m.incr_seq - 1)
  BY <1>1 DEF Early, Base, Incr
<1> QED BY <1>1, <1>2, LiveMembers

\* Manifests that agree on the files are complete together, and tokens may move
\* from the buffer to the last file.
LEMMA EndsMove ==
    ASSUME NEW m, WellFormed(m), NEW k, WellFormed(k), k.base = m.base, k.incr = m.incr,
           NEW d, NEW w, NEW x, NEW y,
           \A f \in Live(m) : f # Incr(m.incr_seq) => w[f].data = d[f].data,
           w[Incr(m.incr_seq)].data \o y = d[Incr(m.incr_seq)].data \o x,
           NEW ds, NEW sel, NEW se2 \in {sel, -1}, Ends(m, d, x, ds, sel)
    PROVE  Ends(k, w, y, ds, se2)
<1>1. m.incr # {}
  BY DEF Ends
<1>2. k.incr_seq = m.incr_seq /\ Live(k) = Live(m)
  <2>1. LastIncr(k) = LastIncr(m)
    BY DEF LastIncr
  <2>2. LastIncr(k) = k.incr_seq /\ LastIncr(m) = m.incr_seq
    BY <1>1, LastIncrIsSeq
  <2> QED BY <2>1, <2>2 DEF Live
<1>3. PICK n \in Nat : n = m.incr_seq - 1
  BY <1>1, LastIsLate
<1>4. m.base \in Nat /\ Incr(m.incr_seq) \notin Early(m.base, n)
  BY <1>1, <1>3, LastIsLate
<1>5. Alike(Live(m), d, w, m.base, n)
  BY <1>4 DEF Alike
<1>6. Loaded(Live(m), d, m.base, n) = Loaded(Live(m), w, m.base, n)
  BY <1>4, <1>5, LoadedSame
<1> QED BY <1>1, <1>2, <1>3, <1>6 DEF Ends, Reads

\* The same for files without a buffer.
LEMMA WholeSame ==
    ASSUME NEW m, WellFormed(m), NEW k, WellFormed(k), Live(k) = Live(m),
           k.base = m.base, k.incr_seq = m.incr_seq, NEW d, NEW w,
           \A f \in Live(m) : w[f].data = d[f].data,
           NEW ds, Whole(m, d, ds)
    PROVE  Whole(k, w, ds)
<1>1. m.base \in Nat /\ m.incr_seq \in Nat
  BY DEF WellFormed, Manifest
<1>2. Alike(Live(m), d, w, m.base, m.incr_seq)
  BY DEF Alike
<1>3. Loaded(Live(m), d, m.base, m.incr_seq) = Loaded(Live(k), w, m.base, m.incr_seq)
  BY <1>1, <1>2, LoadedSame
<1> QED BY <1>3 DEF Whole

\* Files that are complete without the buffer load as the dataset.
LEMMA EndsWhole ==
    ASSUME NEW m, WellFormed(m), NEW d, DiskOK(d), Live(m) \subseteq DOMAIN d,
           NEW ds, NEW sel, Ends(m, d, <<>>, ds, sel)
    PROVE  Whole(m, d, ds)
<1>1. m.incr # {}
  BY DEF Ends
<1>2. PICK n, f : n \in Nat /\ n = m.incr_seq - 1 /\ f = Incr(m.incr_seq)
  BY <1>1, LastIsLate
<1>3. n + 1 = m.incr_seq /\ f \in Live(m) /\ m.base \in Nat
  BY <1>1, <1>2, LastIsLate
<1>4. PICK acc : acc = Loaded(Live(m), d, m.base, n)
  OBVIOUS
<1>5. d[f].data \in Seq(Token)
  BY <1>3 DEF DiskOK, ContentOK
<1>6. d[f].data \o <<>> = d[f].data
  BY <1>5, ConcatEmptySeq
<1>7. acc.ret = "OK" /\ Reads(acc.ds, d[f].data, ds, sel)
  BY <1>2, <1>4, <1>6 DEF Ends
<1>8. Loaded(Live(m), d, m.base, n + 1) = LoadNext(Live(m), d, acc, f)
  <2>1. f = Incr(n + 1)
    BY <1>2, <1>3
  <2>2. n \in Nat
    BY <1>2
  <2>3. Loaded(Live(m), d, m.base, n + 1)
          = LoadNext(Live(m), d, Loaded(Live(m), d, m.base, n), Incr(n + 1))
    BY <1>3, <2>2, LoadedNext
  <2> QED BY <1>4, <2>1, <2>3
<1>9. LoadNext(Live(m), d, acc, f).ret = "OK" /\ LoadNext(Live(m), d, acc, f).ds = ds
  <2>1. PICK st, r : st = Read(acc.ds, d[f].data) /\ r = LoadNext(Live(m), d, acc, f)
    OBVIOUS
  <2>2. st.ok /\ st.open = 0 /\ st.ds = ds
    BY <1>7, <2>1 DEF Reads
  <2>3. Returns(r, st, f)
    BY <1>3, <1>7, <2>1, LoadNextReads
  <2> QED BY <2>1, <2>2, <2>3 DEF Returns
<1> QED BY <1>3, <1>8, <1>9 DEF Whole

\* And the other way round, with nothing known about the database.
LEMMA WholeEnds ==
    ASSUME NEW m, WellFormed(m), NEW d, DiskOK(d), Live(m) \subseteq DOMAIN d,
           NEW ds, Whole(m, d, ds), m.incr # {}
    PROVE  Ends(m, d, <<>>, ds, -1)
<1>2. PICK n, f : n \in Nat /\ n = m.incr_seq - 1 /\ f = Incr(m.incr_seq)
  BY LastIsLate
<1>3. n + 1 = m.incr_seq /\ f \in Live(m) /\ m.base \in Nat
  BY <1>2, LastIsLate
<1>4. PICK acc : acc = Loaded(Live(m), d, m.base, n)
  OBVIOUS
<1>5. d[f].data \in Seq(Token)
  BY <1>3 DEF DiskOK, ContentOK
<1>6. d[f].data \o <<>> = d[f].data
  BY <1>5, ConcatEmptySeq
<1>7. PICK r : r = LoadNext(Live(m), d, acc, f)
  OBVIOUS
<1>8. Loaded(Live(m), d, m.base, n + 1) = r
  <2>1. f = Incr(n + 1)
    BY <1>2, <1>3
  <2>2. n \in Nat
    BY <1>2
  <2>3. Loaded(Live(m), d, m.base, n + 1)
          = LoadNext(Live(m), d, Loaded(Live(m), d, m.base, n), Incr(n + 1))
    BY <1>3, <2>2, LoadedNext
  <2> QED BY <1>4, <1>7, <2>1, <2>3
<1>9. r.ret = "OK" /\ r.ds = ds
  BY <1>3, <1>8 DEF Whole
<1>10. acc.ret = "OK"
  <2>1. ASSUME acc.ret # "OK" PROVE FALSE
    <3>1. r = [acc EXCEPT !.ret = "FAILED"]
      BY <1>3, <1>7, <2>1 DEF LoadNext
    <3>2. acc \in Cuts(Live(m), d)
      BY <1>2, <1>3, <1>4, LoadedType
    <3>3. r.ret = "FAILED"
      BY <3>1, <3>2 DEF Cuts, Progress
    <3> QED BY <1>9, <3>3
  <2> QED BY <2>1
<1>11. Reads(acc.ds, d[f].data, ds, -1)
  <2>1. PICK st : st = Read(acc.ds, d[f].data)
    OBVIOUS
  <2>2. r.ds = st.ds /\ (r.ret = "OK" <=> st.ok /\ st.open = 0)
    <3>1. Returns(r, st, f)
      BY <1>3, <1>7, <1>10, <2>1, LoadNextReads
    <3> QED BY <3>1 DEF Returns
  <2>3. st.ok /\ st.open = 0
    BY <1>9, <2>2
  <2> QED BY <1>9, <2>1, <2>2, <2>3 DEF Reads
<1> QED BY <1>2, <1>4, <1>6, <1>10, <1>11 DEF Ends

\* A new INCR file, empty, after complete files.
LEMMA EmptyEnds ==
    ASSUME NEW m, WellFormed(m), NEW d, NEW ds, Whole(m, d, ds),
           NEW k, WellFormed(k), k.base = m.base, k.incr_seq = m.incr_seq + 1,
           k.incr = m.incr \cup {k.incr_seq}, NEW w,
           \A f \in Live(m) : w[f].data = d[f].data, w[Incr(k.incr_seq)].data = <<>>
    PROVE  Ends(k, w, <<>>, ds, -1)
<1>1. m.base \in Nat /\ m.incr_seq \in Nat /\ k.incr # {} /\ k.incr_seq - 1 = m.incr_seq
      /\ m.incr \subseteq Nat
  BY DEF WellFormed, Manifest
<1>2. Incr(k.incr_seq) \notin Early(m.base, m.incr_seq)
  BY <1>1 DEF Early, Base, Incr
<1>3. \A f : f \in Live(k) <=> f \in Live(m) \/ f = Incr(k.incr_seq)
  BY DEF Live
<1>4. \A f \in Early(m.base, m.incr_seq) : f \in Live(m) <=> f \in Live(k)
  BY <1>2, <1>3
<1>5. Alike(Live(m), d, w, m.base, m.incr_seq)
  BY DEF Alike
<1>6. Loaded(Live(m), d, m.base, m.incr_seq) = Loaded(Live(k), w, m.base, m.incr_seq)
  BY <1>1, <1>4, <1>5, LoadedSame
<1>7. <<>> \o <<>> = <<>>
  OBVIOUS
<1> QED BY <1>1, <1>6, <1>7, ReadsNothing DEF Ends, Whole

\* A new BASE file holds the dataset it was written from.
LEMMA SnapLoads ==
    ASSUME NEW live, NEW d, NEW b \in Nat, Base(b) \in live, NEW ds \in Image,
           d[Base(b)].data = <<Snap(ds)>>
    PROVE  Loaded(live, d, b, 0).ret = "OK" /\ Loaded(live, d, b, 0).ds = ds
<1>1. Loaded(live, d, b, 0) = LoadNext(live, d, NothingLoaded, Base(b))
  BY LoadedNext
<1>2. NothingLoaded.ret = "OK"
  BY DEF NothingLoaded
<1>3. Reads(NothingLoaded.ds, d[Base(b)].data, ds, -1)
  BY ReadsSnap
<1>4. PICK z : z = NothingLoaded
  OBVIOUS
<1>5. PICK st, r : st = Read(z.ds, d[Base(b)].data) /\ r = LoadNext(live, d, z, Base(b))
  OBVIOUS
<1>6. st.ok /\ st.open = 0 /\ st.ds = ds
  BY <1>3, <1>4, <1>5 DEF Reads
<1>7. r.ds = st.ds /\ (r.ret = "OK" <=> st.ok /\ st.open = 0)
  <2>1. Returns(r, st, Base(b))
    BY <1>2, <1>4, <1>5, LoadNextReads
  <2> QED BY <2>1 DEF Returns
<1> QED BY <1>1, <1>4, <1>5, <1>6, <1>7

\* What startAppendOnly commits: a BASE file with the dataset and an empty INCR
\* file.
LEMMA SnapEnds ==
    ASSUME NEW m, WellFormed(m), m.base # 0, m.incr = {m.incr_seq}, NEW d, NEW ds \in Image,
           d[Base(m.base)].data = <<Snap(ds)>>, d[Incr(m.incr_seq)].data = <<>>
    PROVE  Ends(m, d, <<>>, ds, -1)
<1>1. PICK n \in Nat, b \in Nat : n = m.incr_seq - 1 /\ b = m.base
  BY LastIsLate
<1>2. Base(b) \in Live(m) /\ \A i \in 1 .. n : Incr(i) \notin Live(m)
  BY <1>1, LiveMembers
<1>3. Loaded(Live(m), d, b, n) = Loaded(Live(m), d, b, 0)
  BY <1>2, LoadedSkips
<1>4. Loaded(Live(m), d, b, n).ret = "OK" /\ Loaded(Live(m), d, b, n).ds = ds
  BY <1>1, <1>2, <1>3, SnapLoads
<1>5. <<>> \o <<>> = <<>>
  OBVIOUS
<1> QED BY <1>1, <1>4, <1>5, ReadsNothing DEF Ends

\* Whole files are what a restart recovers.
LEMMA WholeRecovers ==
    ASSUME NEW m, WellFormed(m), NEW d, Live(m) \subseteq DOMAIN d, m.names # "garbled",
           NEW ds, Whole(m, d, ds)
    PROVE  Recovered(m, d) = ds
<1>1. LoadAppendOnlyFiles(m, d) = Loaded(Live(m), d, m.base, m.incr_seq)
  BY LoadsAsFold, LoadOrderIs DEF Loaded
<1> QED BY <1>1 DEF Whole, Recovered

\* Manifests that name the same files agree on their numbers.
LEMMA SameNumbers ==
    ASSUME NEW m, WellFormed(m), NEW k, WellFormed(k), Live(k) = Live(m)
    PROVE  k.base = m.base /\ k.incr = m.incr /\ k.incr_seq = m.incr_seq
<1>1. k.incr = m.incr
  BY LiveMembers
<1>2. k.base = m.base
  <2>1. m.base # 0 => k.base = m.base
    BY LiveMembers
  <2>2. k.base # 0 => k.base = m.base
    BY LiveMembers
  <2> QED BY <2>1, <2>2
<1>3. k.incr_seq = m.incr_seq
  <2>1. CASE m.incr = {}
    BY <1>1, <2>1 DEF WellFormed
  <2>2. CASE m.incr # {}
    <3>1. LastIncr(k) = LastIncr(m)
      BY <1>1 DEF LastIncr
    <3> QED BY <1>1, <2>2, <3>1, LastIncrIsSeq
  <2> QED BY <2>1, <2>2
<1> QED BY <1>1, <1>2, <1>3

-----------------------------------------------------------------------------
(* A start leaves complete files behind.                                   *)

\* loadAppendOnlyFiles, if it returns, has cut the last INCR file at most, and
\* the files now load without a complaint as what it returned.
LEMMA LoadWhole ==
    ASSUME NEW m, WellFormed(m), NEW d, DiskOK(d), Plain(d), Live(m) \subseteq DOMAIN d,
           m.names # "garbled", NEW r, r = LoadAppendOnlyFiles(m, d), r.ret # "FAILED",
           NEW w, w = AfterLoad(d, r)
    PROVE  Whole(m, w, r.ds)
<1>1. PICK b \in Nat, n \in Nat : b = m.base /\ n = m.incr_seq
  BY LoadOrderIs
<1>2. r = Loaded(Live(m), d, b, n)
  BY <1>1, LoadsAsFold, LoadOrderIs DEF Loaded
<1>3. r \in Cuts(Live(m), d)
  BY <1>2, LoadedType
<1>4. CASE r.ret = "OK"
  <2>1. w = d
    BY <1>3, <1>4 DEF Cuts, AfterLoad
  <2> QED BY <1>1, <1>2, <1>4, <2>1 DEF Whole
<1>5. CASE r.ret = "TRUNCATED"
  <2>1. n # 0
    <3>1. SUFFICES ASSUME n = 0 PROVE FALSE
      OBVIOUS
    <3>2. r = LoadNext(Live(m), d, NothingLoaded, Base(b))
      BY <1>2, <3>1, LoadedNext
    <3>3. Base(b) \in Live(m)
      <4>1. ASSUME Base(b) \notin Live(m) PROVE FALSE
        <5>1. r = NothingLoaded
          BY <3>2, <4>1 DEF LoadNext
        <5> QED BY <1>5, <5>1 DEF NothingLoaded
      <4> QED BY <4>1
    <3>4. PICK c : c = d[Base(b)]
      OBVIOUS
    <3>5. c.data = <<Snap(c.data[1].image)>> /\ c.data \in Seq(Token) /\ Base(b)[1] = "base"
      BY <3>3, <3>4 DEF Plain, PlainFile, Base, DiskOK, ContentOK
    <3>6. PICK ds : ds = c.data[1].image
      OBVIOUS
    <3>7. Len(c.data) = 1
      <4>1. PICK x : x = Snap(c.data[1].image)
        OBVIOUS
      <4>2. c.data = <<x>>
        BY <3>5, <4>1
      <4> QED BY <4>2
    <3>8. c.data[1] \in Token
      BY <3>5, <3>7
    <3>9. ds \in Image
      BY <3>6, <3>8 DEF Token
    <3>10. d[Base(b)].data = <<Snap(ds)>>
      BY <3>4, <3>5, <3>6
    <3>11. Loaded(Live(m), d, b, 0).ret = "OK"
      BY <3>3, <3>9, <3>10, SnapLoads
    <3> QED BY <1>2, <1>5, <3>1, <3>11
  <2>2. m.incr # {}
    BY <1>1, <2>1 DEF WellFormed
  <2>3. PICK k \in Nat : k = n - 1 /\ n = k + 1
    BY <2>1
  <2>4. PICK f : f = Incr(k + 1)
    OBVIOUS
  <2>5. f \in Live(m) /\ f \notin Early(b, k)
    BY <1>1, <2>2, <2>3, <2>4, LastIsLate
  <2>6. PICK acc : acc = Loaded(Live(m), d, b, k)
    OBVIOUS
  <2>7. r = LoadNext(Live(m), d, acc, f)
    <3>1. Loaded(Live(m), d, b, k + 1) = LoadNext(Live(m), d, Loaded(Live(m), d, b, k), Incr(k + 1))
      BY LoadedNext
    <3> QED BY <1>2, <2>3, <2>4, <2>6, <3>1
  <2>8. acc \in Cuts(Live(m), d)
    BY <2>6, LoadedType
  <2>9. acc.ret = "OK"
    <3>1. ASSUME acc.ret # "OK" PROVE FALSE
      <4>1. r = [acc EXCEPT !.ret = "FAILED"]
        BY <2>5, <2>7, <3>1 DEF LoadNext
      <4>2. r.ret = "FAILED"
        BY <2>8, <4>1 DEF Cuts, Progress
      <4> QED BY <4>2
    <3> QED BY <3>1
  <2>10. PICK c, st : c = d[f] /\ st = Read(acc.ds, d[f].data)
    OBVIOUS
  <2>11. Returns(r, st, f)
    BY <2>5, <2>7, <2>9, <2>10, LoadNextReads
  <2>12. r.ds = st.ds /\ st.ok /\ r.cut = [file |-> f, at |-> st.valid]
    BY <1>5, <2>11 DEF Returns
  <2>13. ContentOK(c) /\ NoSnap(c.data) /\ c.data \in Seq(Token) /\ acc.ds \in Image
    BY <2>4, <2>5, <2>8, <2>10 DEF Plain, PlainFile, Incr, DiskOK, ContentOK, Cuts, Progress
  <2>14. st.valid \in 0 .. Len(c.data)
    BY <2>10, <2>13, ReadType
  <2>15. PICK p : p = CutAt(c, st.valid)
    OBVIOUS
  <2>16. p.data = SubSeq(c.data, 1, st.valid)
    BY <2>13, <2>14, <2>15, CutAtType
  <2>17. w = [d EXCEPT ![f] = p]
    <3>1. r.cut.file = f /\ r.cut.at = st.valid
      BY <2>12
    <3>2. f # NoFile
      BY <2>4 DEF Incr, NoFile
    <3> QED BY <2>10, <2>15, <3>1, <3>2 DEF AfterLoad
  <2>18. w[f] = p /\ \A g \in DOMAIN d : g # f => w[g] = d[g]
    BY <2>5, <2>17
  <2>19. Alike(Live(m), d, w, b, k)
    BY <2>5, <2>18 DEF Alike
  <2>20. Loaded(Live(m), w, b, k) = acc
    BY <2>6, <2>19, LoadedSame
  <2>21. PICK s2, x : s2 = Read(acc.ds, w[f].data) /\ x = LoadNext(Live(m), w, acc, f)
    OBVIOUS
  <2>22. s2.ok /\ s2.open = 0 /\ s2.ds = st.ds
    <3>1. Sound(acc.ds, c.data)
      BY <2>13, ValidPrefix
    <3> QED BY <2>10, <2>12, <2>13, <2>16, <2>18, <2>21, <3>1 DEF Sound
  <2>23. Returns(x, s2, f)
    BY <2>5, <2>9, <2>21, LoadNextReads
  <2>24. Loaded(Live(m), w, b, n) = x
    <3>1. Loaded(Live(m), w, b, k + 1) = LoadNext(Live(m), w, Loaded(Live(m), w, b, k), Incr(k + 1))
      BY LoadedNext
    <3> QED BY <2>3, <2>4, <2>20, <2>21, <3>1
  <2> QED BY <1>1, <2>12, <2>22, <2>23, <2>24 DEF Returns, Whole
<1> QED BY <1>3, <1>4, <1>5 DEF Cuts, Progress

-----------------------------------------------------------------------------
(* What the types rest on.                                                 *)

\* The descriptor is never one of a BASE file, and the file it is open on is at
\* least as long as flushAppendOnlyFile thinks (aof_last_incr_size).
Descriptor ==
    /\ server.aof_fd.file \in {Incr(n) : n \in Nat} \cup {TempIncr, NoFile, Unlinked}
    /\ server.aof_fd.file \in DOMAIN disk =>
            server.aof_last_incr_size <= Len(disk[server.aof_fd.file].data)

\* There is nothing to write unless the AOF is on.
Buffered == server.aof_state # "ON" => server.aof_buf = <<>>

\* The temporary files of startAppendOnly.
Temporary ==
    /\ pc \in {"start_rewrite", "start_rename_base", "start_rename_incr"}
            => /\ server.aof_fd.file = TempIncr
               /\ TempIncr \in DOMAIN disk /\ disk[TempIncr].data = <<>>
    /\ pc = "start_rename_base" => TempBase \in DOMAIN disk

\* No server, no descriptor.
Down == pc = "down" => server = FreshServer

TypeInv ==
    /\ Inv
    /\ TypeOK /\ DiskOK(disk)
    /\ Descriptor /\ Buffered /\ Temporary /\ Down

ControlType == pc \in Label /\ cont \in Continuation /\ unlinking \in SUBSET File
BoundType == bounds \in [writes : 0 .. MaxWrites, admin : 0 .. MaxAdmin,
                         crashes : 0 .. MaxCrashes, faults : 0 .. MaxFaults]
DataType ==
    /\ dataset \in Image /\ logged \in Image
    /\ uncounted \in 0 .. Len(dataset) /\ promised \in Nat

\* TypeOK by its parts.
LEMMA TypeParts ==
    /\ Inv /\ server \in ServerState /\ DataType /\ ControlType /\ DiskOK(disk) /\ BoundType
         => TypeOK
    /\ TypeOK => server \in ServerState /\ DataType /\ ControlType /\ BoundType
<1>1. DiskOK(disk) => /\ DOMAIN disk \subseteq File
                      /\ \A f \in DOMAIN disk : /\ disk[f].data \in Seq(Token)
                                                /\ disk[f].synced \in 0 .. Len(disk[f].data)
  BY DEF DiskOK, ContentOK
<1> QED BY <1>1 DEF TypeOK, DataType, ControlType, BoundType, Inv, Manifests, WellFormed

\* Every step goes to a label, and unlinks files.
LEMMA ControlStep ==
    ASSUME Inv, ControlType, Next, "dirfsync" \notin MayFail
    PROVE  ControlType'
<1> USE DEF ControlType
<1>1. /\ pc \in {"flush", "fsync"} => cont \in FlushReturn
      /\ pc \in {"persist", "dirfsync"} =>
            cont \in {"start", "rw", "boot", "del_start", "del_boot"}
  BY DEF Inv, Shape
<1>2. CASE Flush
  BY <1>1, <1>2 DEF Flush, FlushEmpty, FlushWrite, FlushError, FlushShort, FlushFsync,
       FlushFsyncError, WriteError, Goto, Label, Continuation, FlushReturn
<1>3. CASE Command \/ EventLoop \/ Reply \/ StopClose \/ ShutdownFsync
  BY <1>3 DEF Command, EventLoop, Reply, StopClose, ShutdownFsync, Execute,
       StartAppendOnly, StartAppendOnlyInExec, StopAppendOnly, BgRewriteAof,
       BgRewriteAofInExec, Shutdown, BeforeSleep, CronFlush, CronRewrite,
       RewriteBackground, Goto, Call, control, Label, Continuation
<1>4. CASE Rewrite
  BY <1>4 DEF Rewrite, RewriteOff, RewriteWait, RewriteOpen, RewriteOpenError, RewriteSwap,
       Goto, Call, Label, Continuation
<1>5. CASE Start
  <2>1. CASE StartError
    <3>1. temp_am.base \in Nat /\ temp_am.incr_seq \in Nat
      BY DEF Inv, Manifests, WellFormed, Manifest
    <3>2. StartLeftovers \in SUBSET File
      BY <3>1 DEF StartLeftovers, File, Base, Incr, TempIncr
    <3> QED BY <2>1, <3>2 DEF StartError, UnlinkThen, Label, Continuation
  <2>2. CASE StartAdopt
    <3>1. temp_am.hist \in SUBSET File
      BY DEF Inv, Manifests, WellFormed, Manifest
    <3> QED BY <2>2, <3>1 DEF StartAdopt, Removable, UnlinkThen, Goto, Label, Continuation
  <2> QED BY <1>5, <2>1, <2>2 DEF Start, StartOpen, StartOpenError, StartRewrite,
         StartRenameBase, StartRenameIncr, StartDone, Goto, Call, Label, Continuation
<1>6. CASE Persist
  <2>1. AfterPersist[cont] \in Label /\ AfterPersistError[cont] \in Label
    BY <1>1, <1>6 DEF Persist, PersistClean, PersistRename, PersistSynced, PersistError,
         AfterPersist, AfterPersistError, Label
  <2> QED BY <1>6, <2>1 DEF Persist, PersistClean, PersistRename, PersistSynced,
         PersistError, Goto, Label
<1>7. CASE Unlink
  BY <1>7 DEF Unlink, UnlinkDone, UnlinkOne, Goto, Label
<1>8. CASE Boot
  <2>1. aof_manifest.hist \in SUBSET File
    BY DEF Inv, Manifests, WellFormed, Manifest
  <2> QED BY <1>8, <2>1 DEF Boot, BootBase, BootOpen, BootError, BootDelHistory, Removable,
         UnlinkThen, Goto, Call, Label, Continuation
<1>9. CASE Environment
  BY <1>9 DEF Environment, Kill, PowerLoss, Stop, StartServer, StartServerFatal,
       StartServerOff, control, Goto, Label, Continuation
<1> QED BY <1>2, <1>3, <1>4, <1>5, <1>6, <1>7, <1>8, <1>9 DEF Next, Running

\* The bounds are counted up to their limits.
LEMMA BoundStep ==
    ASSUME BoundType, Next
    PROVE  BoundType'
<1> USE DEF BoundType
<1>1. \A op : Fault(op) => BoundType'
  BY BoundAssumption DEF Fault
<1>2. \A r : Request(r) => BoundType'
  BY BoundAssumption DEF Request
<1>3. bounds' = bounds => BoundType'
  OBVIOUS
<1> HIDE DEF BoundType
<1>4. CASE Flush
  BY <1>1, <1>3, <1>4 DEF Flush, FlushEmpty, FlushWrite, FlushError, FlushShort,
       FlushFsync, FlushFsyncError
<1>5. CASE Command \/ EventLoop \/ Reply \/ StopClose \/ ShutdownFsync
  <2>1. CASE \E d \in Db : Execute(d)
    <3>1. bounds.writes < MaxWrites /\ bounds' = [bounds EXCEPT !.writes = bounds.writes + 1]
      BY <2>1 DEF Execute
    <3> QED BY <3>1, BoundAssumption DEF BoundType
  <2>2. CASE CronRewrite
    BY <2>2, BoundAssumption DEF CronRewrite, BoundType
  <2> QED BY <1>1, <1>2, <1>3, <1>5, <2>1, <2>2
       DEF Command, EventLoop, Reply, StopClose, ShutdownFsync, FinalFsync,
       StartAppendOnly, StartAppendOnlyInExec, StopAppendOnly, BgRewriteAof,
       BgRewriteAofInExec, Shutdown, BeforeSleep, CronFlush
<1>6. CASE Rewrite
  BY <1>1, <1>3, <1>6 DEF Rewrite, RewriteOff, RewriteWait, RewriteOpen, RewriteOpenError,
       RewriteSwap, CloseOutcome
<1>7. CASE Start
  BY <1>1, <1>3, <1>7 DEF Start, StartOpen, StartOpenError, StartRewrite,
         StartRenameBase, StartRenameIncr, StartError, StartAdopt, StartDone, CloseOutcome
<1>8. CASE Persist \/ Unlink
  BY <1>1, <1>3, <1>8 DEF Persist, PersistClean, PersistRename, PersistSynced,
         PersistError, Unlink, UnlinkDone, UnlinkOne
<1>9. CASE Boot
  BY <1>1, <1>3, <1>9 DEF Boot, BootBase, BootOpen, BootError, BootDelHistory
<1>10. CASE Environment
  <2>1. Stop => BoundType'
    BY BoundAssumption DEF Stop, BoundType
  <2> QED BY <1>2, <1>3, <1>10, <2>1 DEF Environment, Kill, PowerLoss, StartServer,
       StartServerFatal, StartServerOff
<1> QED BY <1>4, <1>5, <1>6, <1>7, <1>8, <1>9, <1>10 DEF Next, Running

-----------------------------------------------------------------------------
(* The files.                                                              *)

\* The contents a file is created with.
LEMMA NewFileType ==
    /\ ContentOK(EmptyFile) /\ EmptyFile.data = <<>>
    /\ \A ds \in Image : ContentOK(BaseFile(ds)) /\ BaseFile(ds).data = <<Snap(ds)>>
<1>1. ContentOK(EmptyFile) /\ EmptyFile.data = <<>>
  BY EmptySeq DEF ContentOK, EmptyFile
<1>2. ASSUME NEW ds \in Image PROVE ContentOK(BaseFile(ds)) /\ BaseFile(ds).data = <<Snap(ds)>>
  <2>1. Snap(ds) \in Token
    BY DEF Snap, Token
  <2>2. PICK x \in Token : x = Snap(ds)
    BY <2>1
  <2>3. <<x>> \in Seq(Token) /\ Len(<<x>>) = 1
    OBVIOUS
  <2> QED BY <2>2, <2>3 DEF ContentOK, BaseFile
<1> QED BY <1>1, <1>2

\* fsync(2)
LEMMA SyncedType ==
    ASSUME NEW c, ContentOK(c)
    PROVE  ContentOK(Synced(c)) /\ Synced(c).data = c.data
  BY DEF ContentOK, Synced

Holes(n) == [i \in 1 .. n |-> Hole]

\* write(2) at the end of the file, or beyond it.
LEMMA WriteFdType ==
    ASSUME DiskOK(disk), server \in ServerState, NEW toks \in Seq(Token)
    PROVE  LET f == server.aof_fd.file
           IN /\ DiskOK(WriteFd(toks)) /\ DOMAIN WriteFd(toks) = DOMAIN disk
              /\ \A g \in DOMAIN disk : g # f => WriteFd(toks)[g] = disk[g]
              /\ f \in DOMAIN disk =>
                    /\ WriteFd(toks)[f].data
                          = (disk[f].data \o Holes(server.aof_fd.gap)) \o toks
                    /\ Len(WriteFd(toks)[f].data)
                          = Len(disk[f].data) + server.aof_fd.gap + Len(toks)
                    /\ disk[f].data \in Seq(Token)
<1>1. PICK f, gap : f = server.aof_fd.file /\ gap = server.aof_fd.gap /\ gap \in Nat
  BY DEF ServerState
<1>2. PICK h : h = Holes(gap)
  OBVIOUS
<1>3. h \in Seq(Token) /\ Len(h) = gap
  <2>1. Hole \in Token
    BY EmptySeq DEF Hole, Token, Image
  <2> QED BY <1>1, <1>2, <2>1 DEF Holes
<1>4. WriteFd(toks) = [disk EXCEPT ![f].data = (disk[f].data \o h) \o toks]
  BY <1>1, <1>2 DEF WriteFd, Holes
<1>5. CASE f \notin DOMAIN disk
  BY <1>1, <1>4, <1>5 DEF DiskOK
<1>6. CASE f \in DOMAIN disk
  <2>1. PICK c : c = disk[f]
    OBVIOUS
  <2>2. c \in [data : Seq(Token), synced : Nat] /\ c.synced <= Len(c.data)
    BY <1>6, <2>1 DEF DiskOK, ContentOK
  <2>3. /\ (c.data \o h) \o toks \in Seq(Token)
        /\ Len((c.data \o h) \o toks) = Len(c.data) + gap + Len(toks)
    <3>1. PICK d \in Seq(Token) : d = c.data
      BY <2>2
    <3>2. d \o h \in Seq(Token) /\ Len(d \o h) = Len(d) + gap
      BY <1>3, ConcatProperties
    <3>3. (d \o h) \o toks \in Seq(Token) /\ Len((d \o h) \o toks) = Len(d \o h) + Len(toks)
      BY <3>2, ConcatProperties
    <3> QED BY <3>1, <3>2, <3>3
  <2>4. PICK t \in Seq(Token) : t = (c.data \o h) \o toks
    BY <2>3
  <2>5. ContentOK([c EXCEPT !.data = t]) /\ [c EXCEPT !.data = t].data = t
    <3>1. c.synced <= Len(t)
      BY <1>1, <1>3, <2>2, <2>3, <2>4
    <3> QED BY <2>2, <3>1 DEF ContentOK
  <2>6. WriteFd(toks) = [disk EXCEPT ![f] = [c EXCEPT !.data = t]]
    BY <1>4, <1>6, <2>1, <2>4
  <2>7. PICK n : n = [c EXCEPT !.data = t]
    OBVIOUS
  <2>8. /\ DiskOK(WriteFd(toks)) /\ DOMAIN WriteFd(toks) = DOMAIN disk
        /\ WriteFd(toks)[f] = n
        /\ \A g \in DOMAIN disk : g # f => WriteFd(toks)[g] = disk[g]
    BY <1>6, <2>5, <2>6, <2>7 DEF DiskOK
  <2> QED BY <1>1, <1>2, <2>1, <2>2, <2>3, <2>4, <2>5, <2>7, <2>8
<1> QED BY <1>5, <1>6

\* fsync(aof_fd) changes the data of no file.
LEMMA FsyncFdType ==
    ASSUME NEW d, DiskOK(d)
    PROVE  /\ DiskOK(FsyncFd(d)) /\ DOMAIN FsyncFd(d) = DOMAIN d
           /\ \A g \in DOMAIN d : FsyncFd(d)[g].data = d[g].data
<1>1. PICK f : f = server.aof_fd.file
  OBVIOUS
<1>2. CASE f \in DOMAIN d
  <2>1. FsyncFd(d) = [d EXCEPT ![f] = Synced(d[f])]
    BY <1>1, <1>2 DEF FsyncFd
  <2>2. ContentOK(Synced(d[f])) /\ Synced(d[f]).data = d[f].data
    BY <1>2, SyncedType DEF DiskOK
  <2> QED BY <1>2, <2>1, <2>2 DEF DiskOK
<1>3. CASE f \notin DOMAIN d
  BY <1>1, <1>3 DEF FsyncFd
<1> QED BY <1>2, <1>3

\* bioCreateCloseAofJob: closing the old descriptor keeps the files well typed.
LEMMA CloseOldType ==
    ASSUME DiskOK(disk), NEW synced \in BOOLEAN
    PROVE  /\ DiskOK(CloseOld(synced)) /\ DOMAIN CloseOld(synced) = DOMAIN disk
           /\ \A g \in DOMAIN disk : CloseOld(synced)[g].data = disk[g].data
  BY FsyncFdType DEF CloseOld

\* open(O_CREAT|O_TRUNC), rename(2), unlink(2)
Adds(w, d, f, c) ==
    /\ DOMAIN w = DOMAIN d \cup {f} /\ w[f] = c
    /\ \A g \in DOMAIN d : g # f => w[g] = d[g]

\* open with O_CREAT and O_TRUNC.
LEMMA WithType ==
    ASSUME NEW d, DiskOK(d), NEW f \in File, NEW c, ContentOK(c), NEW w, w = With(d, f, c)
    PROVE  DiskOK(w) /\ Adds(w, d, f, c)
  BY DEF With, DiskOK, Adds

\* rename.
LEMMA RenamedType ==
    ASSUME DiskOK(disk), NEW f \in DOMAIN disk, NEW t \in File
    PROVE  /\ DiskOK(Renamed(f, t)) /\ DOMAIN Renamed(f, t) = (DOMAIN disk \ {f}) \cup {t}
           /\ Renamed(f, t)[t] = disk[f]
           /\ \A g \in DOMAIN disk \ {f} : g # t => Renamed(f, t)[g] = disk[g]
  BY DEF Renamed, DiskOK

\* unlink.
LEMMA WithoutType ==
    ASSUME DiskOK(disk), NEW f
    PROVE  /\ DiskOK(Without(f)) /\ DOMAIN Without(f) = DOMAIN disk \ {f}
           /\ \A g \in DOMAIN disk \ {f} : Without(f)[g] = disk[g]
  BY DEF Without, DiskOK

\* A power loss cuts each file somewhere.
LEMMA SurvivorsType ==
    ASSUME DiskOK(disk), NEW d \in Survivors
    PROVE  /\ DiskOK(d) /\ DOMAIN d = DOMAIN disk
           /\ \A g \in DOMAIN disk :
                 \E n \in 0 .. Len(disk[g].data) : d[g].data = SubSeq(disk[g].data, 1, n)
<1> DEFINE dirty == {f \in DOMAIN disk : disk[f].synced < Len(disk[f].data)}
<1>1. PICK kept : /\ \A f \in dirty : kept[f] \in disk[f].synced .. Len(disk[f].data)
                  /\ d = [f \in DOMAIN disk |->
                            IF f \in dirty THEN Synced(CutAt(disk[f], kept[f])) ELSE disk[f]]
  BY DEF Survivors
<1>2. ASSUME NEW g \in DOMAIN disk
      PROVE  /\ ContentOK(d[g])
             /\ \E n \in 0 .. Len(disk[g].data) : d[g].data = SubSeq(disk[g].data, 1, n)
  <2>1. ContentOK(disk[g])
    BY DEF DiskOK
  <2>2. CASE g \in dirty
    <3>1. PICK n : n = kept[g]
      OBVIOUS
    <3>2. n \in 0 .. Len(disk[g].data)
      BY <1>1, <2>1, <2>2, <3>1 DEF ContentOK
    <3>3. d[g] = Synced(CutAt(disk[g], n))
      BY <1>1, <2>2, <3>1
    <3>4. ContentOK(CutAt(disk[g], n)) /\ CutAt(disk[g], n).data = SubSeq(disk[g].data, 1, n)
      BY <2>1, <3>2, CutAtType
    <3>5. ContentOK(d[g]) /\ d[g].data = CutAt(disk[g], n).data
      BY <3>3, <3>4, SyncedType
    <3> QED BY <3>2, <3>4, <3>5
  <2>3. CASE g \notin dirty
    <3>1. d[g] = disk[g]
      BY <1>1, <2>3
    <3>2. /\ Len(disk[g].data) \in 0 .. Len(disk[g].data)
          /\ SubSeq(disk[g].data, 1, Len(disk[g].data)) = disk[g].data
      BY <2>1 DEF ContentOK
    <3> QED BY <2>1, <3>1, <3>2
  <2> QED BY <2>2, <2>3
<1>3. DOMAIN d = DOMAIN disk
  BY <1>1
<1> QED BY <1>2, <1>3 DEF DiskOK

\* flushAppendOnlyFile writes to the last INCR file of both manifests.
LEMMA WritesLive ==
    ASSUME TypeInv, pc = "flush", server.aof_buf # <<>>
    PROVE  /\ server.aof_state = "ON"
           /\ server.aof_fd.file = Incr(aof_manifest.incr_seq)
           /\ aof_manifest.incr # {}
           /\ server.aof_fd.file \in Live(aof_manifest)
           /\ Live(aof_manifest) = Live(disk_manifest)
           /\ server.aof_fd.file \in DOMAIN disk
<1>1. server.aof_state = "ON"
  BY DEF TypeInv, Buffered
<1>2. aof_manifest.incr # {} /\ server.aof_fd.file = Incr(aof_manifest.incr_seq)
  BY <1>1 DEF TypeInv, Inv, Appending
<1>3. Live(aof_manifest) = Live(disk_manifest)
  BY DEF TypeInv, Inv, Agreement, Committed, At
<1>4. server.aof_fd.file \in Live(aof_manifest)
  BY <1>2, LiveMembers DEF TypeInv, Inv, Manifests, WellFormed
<1> QED BY <1>1, <1>2, <1>3, <1>4 DEF TypeInv, Inv, LiveFilesExist

\* SwapFd as a record.
LEMMA SwapFdType ==
    ASSUME server \in ServerState, MasterReplOffset \in Nat,
           NEW f \in File, NEW synced \in BOOLEAN
    PROVE  LET s == SwapFd(f, synced)
           IN /\ s \in ServerState
              /\ s.aof_fd = [file |-> f, append |-> FALSE, gap |-> 0]
              /\ s.aof_last_incr_size = 0
              /\ s.aof_buf = server.aof_buf /\ s.aof_state = server.aof_state
              /\ s.aof_selected_db = server.aof_selected_db
<1>1. PICK fd : fd = [file |-> f, append |-> FALSE, gap |-> 0]
  OBVIOUS
<1>2. fd \in [file : File \cup {NoFile, Unlinked}, append : BOOLEAN, gap : Nat]
  BY <1>1
<1>3. PICK w : w = [server EXCEPT !.aof_fd = fd, !.aof_last_incr_size = 0,
                                  !.aof_last_incr_fsync_offset = 0]
  OBVIOUS
<1>4. /\ w \in ServerState /\ w.aof_fd = fd /\ w.aof_last_incr_size = 0
      /\ w.aof_buf = server.aof_buf /\ w.aof_state = server.aof_state
      /\ w.aof_selected_db = server.aof_selected_db
  BY <1>2, <1>3 DEF ServerState
<1>5. \/ SwapFd(f, synced) = w
      \/ SwapFd(f, synced) = [w EXCEPT !.aof_bio_fsync_status = "OK",
                             !.fsynced_reploff_pending = MasterReplOffset]
      \/ SwapFd(f, synced) = [w EXCEPT !.aof_bio_fsync_status = "ERR"]
  BY <1>1, <1>3 DEF SwapFd
<1>6. PICK s : s = SwapFd(f, synced)
  OBVIOUS
<1>7. /\ s \in ServerState /\ s.aof_fd = fd /\ s.aof_last_incr_size = 0
      /\ s.aof_buf = w.aof_buf /\ s.aof_state = w.aof_state
      /\ s.aof_selected_db = w.aof_selected_db
  <2>1. CASE s = w
    BY <1>4, <2>1
  <2>2. CASE s = [w EXCEPT !.aof_bio_fsync_status = "OK",
                           !.fsynced_reploff_pending = MasterReplOffset]
    BY <1>4, <2>2 DEF ServerState
  <2>3. CASE s = [w EXCEPT !.aof_bio_fsync_status = "ERR"]
    BY <1>4, <2>3 DEF ServerState
  <2> QED BY <1>5, <1>6, <2>1, <2>2, <2>3
<1> QED BY <1>1, <1>4, <1>6, <1>7

\* feedAppendOnlyFile makes tokens.
LEMMA EntryType ==
    ASSUME NEW w, w.db \in Nat, w.id \in Nat, NEW sel
    PROVE  Entry(w, sel) \in Seq(Token)
<1>1. CmdHead(w.id) \in Token /\ CmdTail(w.id) \in Token /\ Sel(w.db) \in Token
  BY EmptySeq DEF CmdHead, CmdTail, Sel, Token, Image
<1>2. PICK h \in Token, t \in Token, x \in Token :
          h = CmdHead(w.id) /\ t = CmdTail(w.id) /\ x = Sel(w.db)
  BY <1>1
<1>3. <<h, t>> \in Seq(Token) /\ <<x>> \in Seq(Token) /\ <<>> \in Seq(Token)
  OBVIOUS
<1>4. <<x>> \o <<h, t>> \in Seq(Token) /\ <<>> \o <<h, t>> \in Seq(Token)
  BY <1>3
<1> QED BY <1>2, <1>4 DEF Entry

\* aofOpenIfNeededOnServerStart opens an INCR file, the last of the manifest.
LEMMA BootIncr ==
    ASSUME Inv, BootOpen
    PROVE  /\ WellFormed(aof_manifest') /\ aof_manifest'.incr # {}
           /\ LastIncr(aof_manifest') = aof_manifest'.incr_seq
           /\ aof_manifest'.incr_seq \in Nat
           /\ Incr(LastIncr(aof_manifest')) \in File
<1>1. WellFormed(aof_manifest)
  BY DEF Inv, Manifests
<1>2. WellFormed(aof_manifest') /\ aof_manifest'.incr # {}
  BY <1>1, NewIncrFiles DEF BootOpen
<1>3. LastIncr(aof_manifest') = aof_manifest'.incr_seq
  BY <1>2, LastIncrIsSeq
<1>4. aof_manifest'.incr_seq \in Nat
  BY <1>2 DEF WellFormed, Manifest
<1> QED BY <1>2, <1>3, <1>4 DEF File, Incr

\* struct redisServer keeps its types.
LEMMA ServerStep ==
    ASSUME TypeInv, Next
    PROVE  server' \in ServerState
<1>1. /\ server \in ServerState /\ MasterReplOffset \in Nat /\ DiskOK(disk)
      /\ Len(server.aof_buf) \in Nat /\ server.aof_buf \in Seq(Token)
  BY TypeParts DEF TypeInv, DataType, MasterReplOffset, Image, ServerState
<1>2. FreshServer \in ServerState
  BY EmptySeq DEF FreshServer, NoFd, ServerState
<1>3. CASE Flush
  <2>1. ASSUME NEW due \in BOOLEAN, FlushEmpty(due) PROVE server' \in ServerState
    BY <1>1, <2>1 DEF FlushEmpty, ServerState
  <2>2. ASSUME NEW due \in BOOLEAN, FlushWrite(due) PROVE server' \in ServerState
    <3>1. PICK n, b, fd : /\ n = server.aof_last_incr_size + Len(server.aof_buf) /\ b = <<>>
                          /\ fd = [server.aof_fd EXCEPT !.gap = 0]
      OBVIOUS
    <3>2. server' = [server EXCEPT !.aof_fd = fd, !.aof_last_incr_size = n, !.aof_buf = b,
                                   !.aof_last_write_status = "OK"]
      BY <2>2, <3>1 DEF FlushWrite
    <3>3. n \in Nat /\ b \in Seq(Token)
          /\ fd \in [file : File \cup {NoFile, Unlinked}, append : BOOLEAN, gap : Nat]
      BY <1>1, <3>1, EmptySeq DEF ServerState
    <3> QED BY <1>1, <3>2, <3>3 DEF ServerState
  <2>a. ASSUME NEW s \in ServerState, WriteError(s) PROVE server' \in ServerState
    BY <2>a DEF WriteError, ServerState
  <2>3. CASE FlushError
    BY <1>1, <2>3, <2>a DEF FlushError
  <2>4. ASSUME NEW k \in 1 .. Len(server.aof_buf) - 1, FlushShort(k)
        PROVE  server' \in ServerState
    <3>1. PICK f, toks : f = server.aof_fd.file /\ toks = SubSeq(server.aof_buf, 1, k)
      OBVIOUS
    <3>2. toks \in Seq(Token) /\ Len(toks) = k
      BY <1>1, <3>1
    <3>3. pc = "flush" /\ server.aof_buf # <<>>
      BY <1>1, <2>4 DEF FlushShort
    <3>4. f \in DOMAIN disk /\ server.aof_last_incr_size <= Len(disk[f].data)
      BY <3>1, <3>3, WritesLive DEF TypeInv, Descriptor
    <3>5. PICK past : past = Len(WriteFd(toks)[f].data) - server.aof_last_incr_size
      OBVIOUS
    <3>6. past \in Nat
      <4>1. /\ Len(WriteFd(toks)[f].data) = Len(disk[f].data) + server.aof_fd.gap + Len(toks)
            /\ disk[f].data \in Seq(Token)
        BY <1>1, <3>1, <3>2, <3>4, WriteFdType
      <4>2. server.aof_fd.gap \in Nat /\ server.aof_last_incr_size \in Nat
        BY <1>1 DEF ServerState
      <4> QED BY <3>2, <3>4, <3>5, <4>1, <4>2
    <3>7. PICK g \in Nat : g = IF server.aof_fd.append THEN 0 ELSE past
      BY <3>6
    <3>8. \/ WriteError([server EXCEPT !.aof_fd = [server.aof_fd EXCEPT !.gap = g]])
          \/ WriteError([server EXCEPT !.aof_fd = [server.aof_fd EXCEPT !.gap = 0],
                                  !.aof_last_incr_size = server.aof_last_incr_size + k,
                                  !.aof_buf = SubSeq(server.aof_buf, k + 1, Len(server.aof_buf))])
      BY <2>4, <3>1, <3>5, <3>7 DEF FlushShort
    <3>9. [server EXCEPT !.aof_fd = [server.aof_fd EXCEPT !.gap = g]] \in ServerState
      BY <1>1 DEF ServerState
    <3>10. [server EXCEPT !.aof_fd = [server.aof_fd EXCEPT !.gap = 0],
                                  !.aof_last_incr_size = server.aof_last_incr_size + k,
                                  !.aof_buf = SubSeq(server.aof_buf, k + 1, Len(server.aof_buf))]
              \in ServerState
      <4>a. SubSeq(server.aof_buf, k + 1, Len(server.aof_buf)) \in Seq(Token)
        BY <1>1, SubSeqProperties
      <4>1. PICK b \in Seq(Token) : b = SubSeq(server.aof_buf, k + 1, Len(server.aof_buf))
        BY <4>a
      <4>2. PICK n \in Nat : n = server.aof_last_incr_size + k
        BY <1>1 DEF ServerState
      <4>3. [server EXCEPT !.aof_fd = [server.aof_fd EXCEPT !.gap = 0],
                           !.aof_last_incr_size = n, !.aof_buf = b] \in ServerState
        BY <1>1 DEF ServerState
      <4> QED BY <4>1, <4>2, <4>3
    <3> QED BY <2>a, <3>8, <3>9, <3>10
  <2>5. CASE FlushFsync
    BY <1>1, <2>5 DEF FlushFsync, ServerState
  <2>6. CASE FlushFsyncError
    BY ZenonT(60), <1>1, <2>6 DEF FlushFsyncError, ServerState
  <2> QED BY <1>3, <2>1, <2>2, <2>3, <2>4, <2>5, <2>6 DEF Flush
<1>4. CASE Command \/ EventLoop
  <2>1. ASSUME NEW d \in Db, Execute(d) PROVE server' \in ServerState
    <3>1. PICK w : w = [id |-> bounds.writes + 1, db |-> d] /\ server' = Feed(w)
      BY <2>1 DEF Execute
    <3>2. w.db \in Db /\ w.db \in Nat /\ w.id \in Nat
      <4>1. bounds.writes \in Nat
        BY TypeParts, BoundAssumption DEF TypeInv, BoundType
      <4> QED BY <3>1, <4>1, DbAssumption
    <3>3. PICK e \in Seq(Token) : e = Entry(w, server.aof_selected_db)
      BY <3>2, EntryType
    <3>a. server.aof_buf \o e \in Seq(Token)
      BY <1>1, ConcatProperties
    <3>4. PICK b \in Seq(Token) :
             b = IF server.aof_state = "ON" THEN server.aof_buf \o e ELSE server.aof_buf
      BY <1>1, <3>a
    <3>5. server' = [server EXCEPT
             !.aof_selected_db = IF server.aof_state = "OFF" THEN server.aof_selected_db ELSE w.db,
             !.aof_buf = b]
      BY <3>1, <3>3, <3>4 DEF Feed
    <3> QED BY <1>1, <3>2, <3>5 DEF ServerState
  <2>2. CASE StartAppendOnly \/ StartAppendOnlyInExec
    BY ZenonT(60), <1>1, <2>2 DEF StartAppendOnly, StartAppendOnlyInExec, ServerState
  <2>3. CASE RewriteBackground \/ BgRewriteAofInExec
    BY ZenonT(60), <1>1, <2>3 DEF RewriteBackground, BgRewriteAofInExec, ServerState
  <2>4. CASE StopAppendOnly \/ Shutdown \/ BeforeSleep \/ CronFlush
    BY <1>1, <2>4 DEF StopAppendOnly, Shutdown, BeforeSleep, CronFlush
  <2> QED BY <1>4, <2>1, <2>2, <2>3, <2>4
         DEF Command, EventLoop, BgRewriteAof, CronRewrite
<1>5. CASE Reply \/ StopClose \/ ShutdownFsync
  <2>1. CASE Reply
    BY SMTT(30), <1>1, <2>1 DEF Reply, ServerState
  <2>2. CASE StopClose
    <3>1. server' = [FreshServer EXCEPT
                    !.aof_last_write_status = server.aof_last_write_status,
                    !.aof_bio_fsync_status = server.aof_bio_fsync_status]
      BY <2>2 DEF StopClose
    <3> QED BY <1>1, <1>2, <3>1 DEF ServerState
  <2>3. CASE ShutdownFsync
    BY <1>1, <2>3 DEF ShutdownFsync
  <2> QED BY <1>5, <2>1, <2>2, <2>3
<1>6. TempIncr \in File /\ Incr(temp_am.incr_seq) \in File
  BY DEF TempIncr, File, Incr, TypeInv, Inv, Manifests, WellFormed, Manifest
<1>7. CASE Start
  <2>1. CASE StartOpen
    BY <1>1, <1>6, <2>1, SwapFdType DEF StartOpen
  <2>2. CASE StartRenameIncr
    <3>1. server' = [server EXCEPT !.aof_fd = [server.aof_fd EXCEPT !.file = Incr(temp_am.incr_seq)]]
      BY <2>2 DEF StartRenameIncr
    <3> QED BY <1>1, <1>6, <3>1 DEF ServerState
  <2>3. CASE StartDone
    BY <1>1, <2>3, EmptySeq DEF StartDone, ServerState
  <2>4. CASE StartOpenError \/ StartError
    BY <1>1, <2>4 DEF StartOpenError, StartError, ServerState
  <2>5. CASE StartRewrite \/ StartRenameBase \/ StartAdopt
    BY <1>1, <2>5 DEF StartRewrite, StartRenameBase, StartAdopt
  <2> QED BY <1>7, <2>1, <2>2, <2>3, <2>4, <2>5 DEF Start
<1>8. CASE Persist
  BY <1>1, <1>8 DEF Persist, PersistClean, PersistRename, PersistSynced, PersistError
<1>9. CASE Unlink
  <2>1. ASSUME NEW f, UnlinkOne(f) PROVE server' \in ServerState
    <3>1. server' = server
          \/ server' = [server EXCEPT !.aof_fd = [server.aof_fd EXCEPT !.file = Unlinked]]
      BY <2>1 DEF UnlinkOne
    <3> QED BY <1>1, <3>1 DEF ServerState
  <2> QED BY <1>1, <1>9, <2>1 DEF Unlink, UnlinkDone
<1>10. CASE Rewrite
  <2>1. CASE RewriteWait
    <3>1. PICK synced \in BOOLEAN :
             server' = [SwapFd(TempIncr, synced) EXCEPT
                            !.fsynced_reploff_pending = MasterReplOffset,
                            !.fsynced_reploff = 0]
      BY <2>1 DEF RewriteWait
    <3>2. PICK s \in ServerState : s = SwapFd(TempIncr, synced)
      BY <1>1, <1>6, SwapFdType
    <3> QED BY <1>1, <3>1, <3>2 DEF ServerState
  <2>2. CASE RewriteSwap
    BY <1>1, <1>6, <2>2, SwapFdType DEF RewriteSwap
  <2> QED BY <1>1, <1>10, <2>1, <2>2 DEF Rewrite, RewriteOff, RewriteOpen, RewriteOpenError
<1>11. CASE Boot
  <2>1. CASE BootOpen
    <3>1. PICK f, n : /\ f = Incr(LastIncr(aof_manifest')) /\ n = Len(disk'[f].data)
                      /\ disk' = (IF f \in DOMAIN disk THEN disk ELSE With(disk, f, EmptyFile))
                      /\ server' = [server EXCEPT
                              !.aof_fd = [file |-> f, append |-> TRUE, gap |-> 0],
                              !.aof_last_incr_size = n,
                              !.aof_last_incr_fsync_offset = n]
      BY <2>1 DEF BootOpen
    <3>2. f \in File
      BY <2>1, <3>1, BootIncr DEF TypeInv
    <3>3. n \in Nat
      BY <1>1, <3>1, <3>2, WithType, NewFileType DEF DiskOK, ContentOK
    <3> QED BY ZenonT(60), <1>1, <3>1, <3>2, <3>3 DEF ServerState
  <2> QED BY <1>1, <1>11, <2>1 DEF Boot, BootBase, BootError, BootDelHistory
<1>12. CASE Environment
  <2>1. \A state \in {"OFF", "ON", "WAIT_REWRITE"}, reploff \in Nat \cup {-1} :
            Booted(state, reploff) => server' \in ServerState
    <3> SUFFICES ASSUME NEW state \in {"OFF", "ON", "WAIT_REWRITE"}, NEW reploff \in Nat \cup {-1},
                        Booted(state, reploff)
                 PROVE  server' \in ServerState
      OBVIOUS
    <3>1. PICK s \in ServerState : s = FreshServer
      BY <1>2
    <3>2. server' = [s EXCEPT !.aof_state = state, !.fsynced_reploff = reploff]
      BY <3>1 DEF Booted
    <3> QED BY <3>2 DEF ServerState
  <2> QED BY <1>1, <1>2, <1>12, <2>1
       DEF Environment, Kill, PowerLoss, Stop, StartServer, StartServerFatal, StartServerOff
<1> QED BY <1>3, <1>4, <1>5, <1>7, <1>8, <1>9, <1>10, <1>11, <1>12 DEF Next, Running

-----------------------------------------------------------------------------
(* Descriptor, Buffered, Temporary and Down.                               *)

FilesOK == DiskOK(disk) /\ Descriptor /\ Buffered /\ Temporary /\ Down

WindowLabel == {"start_rewrite", "start_rename_base", "start_rename_incr", "down"}

\* A step outside the windows that shortens no file and does not touch the
\* descriptor.
LEMMA QuietFiles ==
    ASSUME TypeInv, pc' \notin WindowLabel, DiskOK(disk'),
           \A f \in DOMAIN disk' : f[1] # "base" /\ f # TempBase =>
                f \in DOMAIN disk /\ disk'[f].data = disk[f].data,
           server'.aof_fd.file = server.aof_fd.file,
           server'.aof_last_incr_size = server.aof_last_incr_size,
           server'.aof_state # "ON" => server'.aof_buf = <<>>
    PROVE  FilesOK'
<1>1. \A n : Incr(n)[1] # "base" /\ Incr(n) # TempBase
  BY DEF Incr, TempBase
<1>2. /\ TempIncr[1] # "base" /\ TempIncr # TempBase
      /\ NoFile \notin File /\ Unlinked \notin File
  BY DEF TempIncr, TempBase, NoFile, Unlinked, File
<1>3. Descriptor'
  BY <1>1, <1>2 DEF TypeInv, Descriptor, DiskOK
<1> QED BY <1>3 DEF FilesOK, Buffered, Temporary, Down, WindowLabel

\* The part of struct redisServer the invariant speaks of does not change.
SameFd ==
    /\ server'.aof_fd.file = server.aof_fd.file
    /\ server'.aof_last_incr_size = server.aof_last_incr_size
    /\ server'.aof_state = server.aof_state /\ server'.aof_buf = server.aof_buf

\* Steps that leave descriptor, file sizes and buffer alone.
LEMMA QuietServer ==
    ASSUME TypeInv, pc' \notin WindowLabel, DiskOK(disk'),
           \A f \in DOMAIN disk' : f[1] # "base" /\ f # TempBase =>
                f \in DOMAIN disk /\ disk'[f].data = disk[f].data,
           SameFd
    PROVE  FilesOK'
  BY QuietFiles DEF TypeInv, Buffered, SameFd

\* flushAppendOnlyFile
LEMMA FlushFiles ==
    ASSUME TypeInv, Flush
    PROVE  FilesOK'
<1>1. /\ server \in ServerState /\ DiskOK(disk)
      /\ Len(server.aof_buf) \in Nat /\ server.aof_buf \in Seq(Token)
      /\ server.aof_last_incr_size \in Nat /\ server.aof_fd.gap \in Nat
  BY TypeParts DEF TypeInv, ServerState
<1>2. pc' \notin WindowLabel
  <2>1. pc \in {"flush", "fsync"} => cont \in FlushReturn
    BY DEF TypeInv, Inv, Shape
  <2> QED BY <2>1 DEF Flush, FlushEmpty, FlushWrite, FlushError, FlushShort, FlushFsync,
       FlushFsyncError, WriteError, Goto, FlushReturn, WindowLabel
<1>3. ASSUME NEW due \in BOOLEAN, FlushEmpty(due) PROVE FilesOK'
  <2>1. SameFd
    BY <1>1, <1>3 DEF FlushEmpty, ServerState, SameFd
  <2> QED BY <1>1, <1>2, <1>3, <2>1, QuietServer DEF FlushEmpty, fs
<1>a. ASSUME NEW s, WriteError(s), s \in ServerState
      PROVE  /\ server'.aof_fd = s.aof_fd /\ server'.aof_last_incr_size = s.aof_last_incr_size
             /\ server'.aof_state = s.aof_state /\ server'.aof_buf = s.aof_buf
  BY <1>a DEF WriteError, ServerState
<1>4. CASE FlushError
  <2>1. SameFd
    BY <1>1, <1>4, <1>a DEF FlushError, SameFd
  <2> QED BY <1>1, <1>2, <1>4, <2>1, QuietServer DEF FlushError, fs
<1>5. CASE FlushFsync \/ FlushFsyncError
  <2>1. SameFd
    BY <1>1, <1>5 DEF FlushFsync, FlushFsyncError, ServerState, SameFd
  <2>2. disk' = FsyncFd(disk) \/ disk' = disk
    BY <1>5 DEF FlushFsync, FlushFsyncError, fs
  <2>3. DiskOK(disk') /\ DOMAIN disk' = DOMAIN disk /\ \A f \in DOMAIN disk : disk'[f].data = disk[f].data
    BY <1>1, <2>2, FsyncFdType
  <2> QED BY <1>2, <2>1, <2>3, QuietServer
\* What is left to show of a write to the file f.
<1>b. ASSUME pc = "flush", server.aof_buf # <<>>, NEW f, f = server.aof_fd.file,
             DiskOK(disk'), DOMAIN disk' = DOMAIN disk,
             server'.aof_fd.file = f, server'.aof_state = server.aof_state,
             server'.aof_last_incr_size <= Len(disk'[f].data)
      PROVE  FilesOK'
  <2>1. server.aof_state = "ON"
    BY <1>b, WritesLive
  <2>2. Descriptor' /\ Buffered' /\ Temporary' /\ Down'
    BY <1>2, <1>b, <2>1 DEF TypeInv, Descriptor, Buffered, Temporary, Down, WindowLabel
  <2> QED BY <1>b, <2>2 DEF FilesOK
<1>6. ASSUME NEW due \in BOOLEAN, FlushWrite(due) PROVE FilesOK'
  <2>1. PICK f : f = server.aof_fd.file
    OBVIOUS
  <2>2. pc = "flush" /\ server.aof_buf # <<>> /\ disk' = WriteFd(server.aof_buf)
    BY <1>6 DEF FlushWrite
  <2>3. f \in DOMAIN disk /\ server.aof_last_incr_size <= Len(disk[f].data)
    BY <2>1, <2>2, WritesLive DEF TypeInv, Descriptor
  <2>4. /\ DiskOK(disk') /\ DOMAIN disk' = DOMAIN disk /\ disk[f].data \in Seq(Token)
        /\ Len(disk'[f].data) = Len(disk[f].data) + server.aof_fd.gap + Len(server.aof_buf)
    BY <1>1, <2>1, <2>2, <2>3, WriteFdType
  <2>5. /\ server'.aof_fd.file = f /\ server'.aof_state = server.aof_state
        /\ server'.aof_last_incr_size = server.aof_last_incr_size + Len(server.aof_buf)
    BY <1>1, <1>6, <2>1 DEF FlushWrite, ServerState
  <2>6. server'.aof_last_incr_size <= Len(disk'[f].data)
    BY <1>1, <2>3, <2>4, <2>5
  <2> QED BY <1>b, <2>1, <2>2, <2>4, <2>5, <2>6
<1>7. ASSUME NEW k \in 1 .. Len(server.aof_buf) - 1, FlushShort(k) PROVE FilesOK'
  <2>1. PICK f, toks, short : /\ f = server.aof_fd.file /\ toks = SubSeq(server.aof_buf, 1, k)
                              /\ short = WriteFd(toks)
    OBVIOUS
  <2>2. pc = "flush" /\ server.aof_buf # <<>> /\ toks \in Seq(Token) /\ Len(toks) = k
    BY <1>1, <1>7, <2>1 DEF FlushShort
  <2>3. f \in DOMAIN disk /\ server.aof_last_incr_size <= Len(disk[f].data)
    BY <2>1, <2>2, WritesLive DEF TypeInv, Descriptor
  <2>4. /\ DiskOK(short) /\ DOMAIN short = DOMAIN disk /\ disk[f].data \in Seq(Token)
        /\ Len(short[f].data) = Len(disk[f].data) + server.aof_fd.gap + k
    BY <1>1, <2>1, <2>2, <2>3, WriteFdType
  <2>5. server.aof_last_incr_size \in 0 .. Len(short[f].data)
        /\ server.aof_last_incr_size + k <= Len(short[f].data)
    BY <1>1, <2>3, <2>4
  <2>6. PICK g : g = IF server.aof_fd.append THEN 0
                     ELSE Len(short[f].data) - server.aof_last_incr_size
    OBVIOUS
  <2>7. g \in Nat
    BY <1>1, <2>4, <2>5, <2>6
  <2>8. CASE /\ disk' = [short EXCEPT ![f] = CutAt(short[f], server.aof_last_incr_size)]
             /\ WriteError([server EXCEPT !.aof_fd = [server.aof_fd EXCEPT !.gap = g]])
    <3>1. PICK c : c = CutAt(short[f], server.aof_last_incr_size)
      OBVIOUS
    <3>2. ContentOK(c) /\ Len(c.data) = server.aof_last_incr_size
      BY <2>3, <2>4, <2>5, <3>1, CutAtType DEF DiskOK
    <3>3. DiskOK(disk') /\ DOMAIN disk' = DOMAIN disk /\ disk'[f] = c
      BY <2>3, <2>4, <2>8, <3>1, <3>2 DEF DiskOK
    <3>4. PICK s : s = [server EXCEPT !.aof_fd = [server.aof_fd EXCEPT !.gap = g]]
      OBVIOUS
    <3>5. /\ s \in ServerState /\ s.aof_fd.file = f /\ s.aof_state = server.aof_state
          /\ s.aof_last_incr_size = server.aof_last_incr_size
      BY <1>1, <2>1, <2>7, <3>4 DEF ServerState
    <3>6. WriteError(s)
      BY <2>8, <3>4
    <3>7. /\ server'.aof_fd.file = f /\ server'.aof_state = server.aof_state
          /\ server'.aof_last_incr_size <= Len(disk'[f].data)
      BY <1>1, <1>a, <3>2, <3>3, <3>5, <3>6
    <3> QED BY <1>b, <2>1, <2>2, <3>3, <3>7
  <2>9. ASSUME NEW b, b = SubSeq(server.aof_buf, k + 1, Len(server.aof_buf)),
               disk' = short,
               WriteError([server EXCEPT !.aof_fd = [server.aof_fd EXCEPT !.gap = 0],
                               !.aof_last_incr_size = server.aof_last_incr_size + k,
                               !.aof_buf = b])
        PROVE  FilesOK'
    <3>1. b \in Seq(Token)
      BY <1>1, <2>9, SubSeqProperties
    <3>2. PICK s : s = [server EXCEPT !.aof_fd = [server.aof_fd EXCEPT !.gap = 0],
                               !.aof_last_incr_size = server.aof_last_incr_size + k,
                               !.aof_buf = b]
      OBVIOUS
    <3>3. server.aof_last_incr_size + k \in Nat
      BY <1>1
    <3>4. /\ s \in ServerState /\ s.aof_fd.file = f /\ s.aof_state = server.aof_state
          /\ s.aof_last_incr_size = server.aof_last_incr_size + k
      BY <1>1, <2>1, <3>1, <3>2, <3>3 DEF ServerState
    <3>5. WriteError(s)
      BY <2>9, <3>2
    <3>6. /\ server'.aof_fd.file = f /\ server'.aof_state = server.aof_state
          /\ server'.aof_last_incr_size <= Len(disk'[f].data)
      BY <1>1, <1>a, <2>5, <2>9, <3>4, <3>5
    <3> QED BY <1>b, <2>1, <2>2, <2>4, <2>9, <3>6
  <2>10. \/ <2>8!1
         \/ \E b : /\ b = SubSeq(server.aof_buf, k + 1, Len(server.aof_buf))
                   /\ disk' = short
                   /\ WriteError([server EXCEPT !.aof_fd = [server.aof_fd EXCEPT !.gap = 0],
                               !.aof_last_incr_size = server.aof_last_incr_size + k,
                               !.aof_buf = b])
    BY <1>7, <2>1, <2>6 DEF FlushShort
  <2> QED BY <2>8, <2>9, <2>10
<1> QED BY <1>3, <1>4, <1>5, <1>6, <1>7 DEF Flush

\* Commands, the event loop and the ends of stopAppendOnly and finishShutdown.
LEMMA IdleFiles ==
    ASSUME TypeInv, Command \/ EventLoop \/ Reply \/ StopClose \/ ShutdownFsync
    PROVE  FilesOK'
<1>1. server \in ServerState /\ DiskOK(disk) /\ server.aof_buf \in Seq(Token)
  BY TypeParts DEF TypeInv, ServerState
<1>2. pc' \notin WindowLabel
  <2>1. pc = "idle" => "idle" \notin WindowLabel
    BY DEF WindowLabel
  <2> QED BY DEF Command, EventLoop, Reply, StopClose, ShutdownFsync, Execute,
       StartAppendOnly, StartAppendOnlyInExec, StopAppendOnly, BgRewriteAof,
       BgRewriteAofInExec, Shutdown, BeforeSleep, CronFlush, CronRewrite,
       RewriteBackground, Goto, Call, control, WindowLabel
<1>3. ASSUME NEW d \in Db, Execute(d) PROVE FilesOK'
  <2>1. PICK w : server' = Feed(w)
    BY <1>3 DEF Execute
  <2>2. /\ server'.aof_fd = server.aof_fd /\ server'.aof_state = server.aof_state
        /\ server'.aof_last_incr_size = server.aof_last_incr_size
        /\ server.aof_state # "ON" => server'.aof_buf = server.aof_buf
    BY <1>1, <2>1 DEF Feed, ServerState
  <2>3. disk' = disk
    BY <1>3 DEF Execute, fs
  <2>4. server'.aof_state # "ON" => server'.aof_buf = <<>>
    BY <2>2 DEF TypeInv, Buffered
  <2> QED BY <1>1, <1>2, <2>2, <2>3, <2>4, QuietFiles
<1>4. CASE StartAppendOnly \/ StartAppendOnlyInExec
  <2>1. /\ server'.aof_fd = server.aof_fd /\ server.aof_state = "OFF"
        /\ server'.aof_last_incr_size = server.aof_last_incr_size
        /\ server'.aof_buf = server.aof_buf
    BY <1>1, <1>4 DEF StartAppendOnly, StartAppendOnlyInExec, ServerState
  <2>2. disk' = disk
    BY <1>4 DEF StartAppendOnly, StartAppendOnlyInExec, fs
  <2>3. server'.aof_buf = <<>>
    BY <2>1 DEF TypeInv, Buffered
  <2> QED BY <1>1, <1>2, <2>1, <2>2, <2>3, QuietFiles
<1>5. CASE RewriteBackground \/ BgRewriteAofInExec \/ Reply
  <2>1. SameFd
    BY <1>1, <1>5 DEF RewriteBackground, BgRewriteAofInExec, Reply, ServerState, SameFd
  <2>2. disk' = disk
    BY <1>5 DEF RewriteBackground, BgRewriteAofInExec, Reply, fs
  <2> QED BY <1>1, <1>2, <2>1, <2>2, QuietServer
<1>6. CASE StopAppendOnly \/ Shutdown \/ BeforeSleep \/ CronFlush
  <2>1. SameFd /\ disk' = disk
    BY <1>6 DEF StopAppendOnly, Shutdown, BeforeSleep, CronFlush, fs, SameFd
  <2> QED BY <1>1, <1>2, <2>1, QuietServer
<1>7. FinalFsync =>
         DiskOK(disk') /\ DOMAIN disk' = DOMAIN disk /\ \A f \in DOMAIN disk : disk'[f].data = disk[f].data
  BY <1>1, FsyncFdType DEF FinalFsync
<1>8. CASE ShutdownFsync
  <2>1. SameFd /\ FinalFsync
    BY <1>8 DEF ShutdownFsync, SameFd
  <2> QED BY <1>1, <1>2, <1>7, <2>1, QuietServer
<1>9. CASE StopClose
  <2>1. FinalFsync /\ server' = [FreshServer EXCEPT
                    !.aof_last_write_status = server.aof_last_write_status,
                    !.aof_bio_fsync_status = server.aof_bio_fsync_status]
    BY <1>9 DEF StopClose
  <2>2. server'.aof_fd.file = NoFile /\ server'.aof_buf = <<>>
    BY <2>1 DEF FreshServer, NoFd
  <2>3. NoFile \notin DOMAIN disk'
    BY <1>7, <2>1 DEF DiskOK, NoFile, File, TempBase, TempIncr
  <2> QED BY <1>2, <1>7, <2>1, <2>2, <2>3
         DEF FilesOK, Descriptor, Buffered, Temporary, Down, WindowLabel
<1> QED BY <1>3, <1>4, <1>5, <1>6, <1>8, <1>9
       DEF Command, EventLoop, BgRewriteAof, CronRewrite

\* The first writes after a switch of the descriptor.
LEMMA SwapFiles ==
    ASSUME TypeInv, NEW f, f \in {Incr(n) : n \in Nat} \cup {TempIncr},
           NEW s, s \in ServerState,
           s.aof_fd = [file |-> f, append |-> FALSE, gap |-> 0], s.aof_last_incr_size = 0,
           s.aof_buf = server.aof_buf, s.aof_state = server.aof_state,
           server' = s, DiskOK(disk')
    PROVE  Descriptor' /\ Buffered'
<1>1. server'.aof_fd.file = f /\ server'.aof_last_incr_size = 0
  OBVIOUS
<1>2. f \in DOMAIN disk' => 0 <= Len(disk'[f].data)
  BY DEF DiskOK, ContentOK
<1> QED BY <1>1, <1>2 DEF TypeInv, Descriptor, Buffered

\* rewriteAppendOnlyFileBackground
LEMMA RewriteFiles ==
    ASSUME TypeInv, Rewrite
    PROVE  FilesOK'
<1>1. server \in ServerState /\ DiskOK(disk) /\ MasterReplOffset \in Nat
  BY TypeParts DEF TypeInv, ServerState, DataType, MasterReplOffset, Image
<1>2. pc' \notin WindowLabel
  BY DEF Rewrite, RewriteOff, RewriteWait, RewriteOpen, RewriteOpenError, RewriteSwap,
       Goto, Call, WindowLabel
<1>3. /\ aof_manifest.incr_seq \in Nat /\ temp_am.incr_seq \in Nat
      /\ Incr(temp_am.incr_seq) \in File /\ Incr(aof_manifest.incr_seq + 1) \in File
      /\ TempIncr \in File
  BY DEF TypeInv, Inv, Manifests, WellFormed, Manifest, File, Incr, TempIncr
<1>4. CASE RewriteOff \/ RewriteOpenError
  <2>1. SameFd /\ disk' = disk
    BY <1>4 DEF RewriteOff, RewriteOpenError, SameFd, fs
  <2> QED BY <1>1, <1>2, <2>1, QuietServer
<1>5. CASE RewriteWait
  <2>1. PICK synced \in BOOLEAN :
            /\ server' = [SwapFd(TempIncr, synced) EXCEPT
                            !.fsynced_reploff_pending = MasterReplOffset,
                            !.fsynced_reploff = 0]
            /\ disk' = With(CloseOld(synced), TempIncr, EmptyFile)
    BY <1>5 DEF RewriteWait
  <2>2. DiskOK(disk')
    BY <1>1, <1>3, <2>1, CloseOldType, WithType, NewFileType
  <2>3. PICK s : s = SwapFd(TempIncr, synced)
    OBVIOUS
  <2>4. /\ s \in ServerState /\ s.aof_fd = [file |-> TempIncr, append |-> FALSE, gap |-> 0]
        /\ s.aof_last_incr_size = 0
        /\ s.aof_buf = server.aof_buf /\ s.aof_state = server.aof_state
    BY <1>1, <1>3, <2>3, SwapFdType
  <2>5. PICK u : u = [s EXCEPT !.fsynced_reploff_pending = MasterReplOffset,
                               !.fsynced_reploff = 0]
    OBVIOUS
  <2>6. /\ u \in ServerState /\ u.aof_fd = s.aof_fd /\ u.aof_last_incr_size = 0
        /\ u.aof_buf = s.aof_buf /\ u.aof_state = s.aof_state
    BY <1>1, <2>4, <2>5 DEF ServerState
  <2>7. Descriptor' /\ Buffered'
    BY <2>1, <2>2, <2>3, <2>4, <2>5, <2>6, SwapFiles
  <2> QED BY <1>2, <2>2, <2>7 DEF FilesOK, Temporary, Down, WindowLabel
<1>6. CASE RewriteSwap
  <2>1. PICK synced \in BOOLEAN :
            /\ server' = SwapFd(Incr(temp_am.incr_seq), synced)
            /\ disk' = CloseOld(synced)
    BY <1>6 DEF RewriteSwap
  <2>2. DiskOK(disk')
    BY <1>1, <2>1, CloseOldType
  <2>3. PICK s, f : s = SwapFd(f, synced) /\ f = Incr(temp_am.incr_seq)
    OBVIOUS
  <2>4. /\ s \in ServerState /\ s.aof_fd = [file |-> f, append |-> FALSE, gap |-> 0]
        /\ s.aof_last_incr_size = 0
        /\ s.aof_buf = server.aof_buf /\ s.aof_state = server.aof_state
    BY <1>1, <1>3, <2>3, SwapFdType
  <2>5. Descriptor' /\ Buffered'
    BY <1>3, <2>1, <2>2, <2>3, <2>4, SwapFiles
  <2> QED BY <1>2, <2>2, <2>5 DEF FilesOK, Temporary, Down, WindowLabel
<1>7. CASE RewriteOpen
  <2>1. PICK f : f = Incr(aof_manifest.incr_seq + 1)
    OBVIOUS
  <2>2. /\ disk' = With(disk, f, EmptyFile) /\ server' = server /\ server.aof_state = "ON"
        /\ pc = "rw_open"
    BY <1>7, <2>1 DEF RewriteOpen
  <2>3. server.aof_fd.file = Incr(aof_manifest.incr_seq)
    BY <2>2 DEF TypeInv, Inv, Appending
  <2>4. server.aof_fd.file # f
    BY <1>3, <2>1, <2>3 DEF Incr
  <2>5. /\ DiskOK(disk') /\ DOMAIN disk' = DOMAIN disk \cup {f}
        /\ \A g \in DOMAIN disk : g # f => disk'[g] = disk[g]
    <3>1. f \in File /\ ContentOK(EmptyFile)
      BY <1>3, <2>1, NewFileType
    <3>2. DiskOK(disk') /\ Adds(disk', disk, f, EmptyFile)
      BY <1>1, <2>2, <3>1, WithType
    <3> QED BY <3>2 DEF Adds
  <2>6. Descriptor' /\ Buffered'
    BY <2>2, <2>4, <2>5 DEF TypeInv, Descriptor, Buffered
  <2> QED BY <1>2, <2>5, <2>6 DEF FilesOK, Temporary, Down, WindowLabel
<1> QED BY <1>4, <1>5, <1>6, <1>7 DEF Rewrite

\* startAppendOnly
LEMMA StartFiles ==
    ASSUME TypeInv, Start
    PROVE  FilesOK'
<1>1. /\ server \in ServerState /\ DiskOK(disk) /\ MasterReplOffset \in Nat
      /\ dataset \in Image
  BY TypeParts DEF TypeInv, ServerState, DataType, MasterReplOffset, Image
<1>2. /\ temp_am.incr_seq \in Nat /\ temp_am.base \in Nat
      /\ Incr(temp_am.incr_seq) \in File /\ Base(temp_am.base) \in File
      /\ TempIncr \in File /\ TempBase \in File
  BY DEF TypeInv, Inv, Manifests, WellFormed, Manifest, File, Incr, Base, TempIncr, TempBase
<1>3. /\ TempIncr # TempBase /\ TempIncr # Base(temp_am.base) /\ TempIncr # Incr(temp_am.incr_seq)
      /\ TempBase # Base(temp_am.base) /\ TempIncr[1] # "base"
  BY DEF Incr, Base, TempIncr, TempBase
<1>4. CASE StartOpen
  <2>1. PICK synced \in BOOLEAN :
            /\ server' = SwapFd(TempIncr, synced)
            /\ disk' = With(CloseOld(synced), TempIncr, EmptyFile)
    BY <1>4 DEF StartOpen
  <2>a. DiskOK(CloseOld(synced)) /\ ContentOK(EmptyFile) /\ EmptyFile.data = <<>>
    BY <1>1, CloseOldType, NewFileType
  <2>2. /\ DiskOK(disk') /\ TempIncr \in DOMAIN disk' /\ disk'[TempIncr].data = <<>>
    <3>1. DiskOK(disk') /\ Adds(disk', CloseOld(synced), TempIncr, EmptyFile)
      BY <1>2, <2>1, <2>a, WithType
    <3> QED BY <2>a, <3>1 DEF Adds
  <2>3. PICK s : s = SwapFd(TempIncr, synced)
    OBVIOUS
  <2>4. /\ s \in ServerState /\ s.aof_fd = [file |-> TempIncr, append |-> FALSE, gap |-> 0]
        /\ s.aof_last_incr_size = 0
        /\ s.aof_buf = server.aof_buf /\ s.aof_state = server.aof_state
    BY <1>1, <1>2, <2>3, SwapFdType
  <2>5. Descriptor' /\ Buffered'
    BY <2>1, <2>2, <2>3, <2>4, SwapFiles
  <2>6. pc' = "start_rewrite" /\ server'.aof_fd.file = TempIncr
    BY <1>4, <2>1, <2>3, <2>4 DEF StartOpen, Goto
  <2> QED BY <2>2, <2>5, <2>6 DEF FilesOK, Temporary, Down
<1>5. CASE StartOpenError \/ StartError
  <2>1. /\ server'.aof_fd = server.aof_fd /\ server'.aof_last_incr_size = server.aof_last_incr_size
        /\ server'.aof_buf = server.aof_buf /\ disk' = disk
    BY <1>1, <1>5 DEF StartOpenError, StartError, ServerState, fs
  <2>2. server.aof_state # "ON"
    BY <1>5 DEF StartOpenError, StartError, TypeInv, Inv, Starting
  <2>3. pc' \notin WindowLabel
    BY <1>5 DEF StartOpenError, StartError, Goto, UnlinkThen, WindowLabel
  <2>4. server'.aof_buf = <<>>
    BY <2>1, <2>2 DEF TypeInv, Buffered
  <2> QED BY <1>1, <2>1, <2>3, <2>4, QuietFiles
<1>6. CASE StartRewrite
  <2>1. /\ pc = "start_rewrite" /\ pc' = "start_rename_base" /\ server' = server
        /\ disk' = With(disk, TempBase, BaseFile(dataset))
    BY <1>6 DEF StartRewrite, Goto
  <2>2. PICK c : c = BaseFile(dataset) /\ ContentOK(c)
    BY <1>1, NewFileType
  <2>3. /\ DiskOK(disk') /\ DOMAIN disk' = DOMAIN disk \cup {TempBase}
        /\ \A g \in DOMAIN disk : g # TempBase => disk'[g] = disk[g]
    <3>1. DiskOK(disk') /\ Adds(disk', disk, TempBase, c)
      BY <1>1, <1>2, <2>1, <2>2, WithType
    <3> QED BY <3>1 DEF Adds
  <2>4. server.aof_fd.file = TempIncr /\ TempIncr \in DOMAIN disk /\ disk[TempIncr].data = <<>>
    BY <2>1 DEF TypeInv, Temporary
  <2>5. Temporary' /\ Down'
    BY <1>3, <2>1, <2>3, <2>4 DEF Temporary, Down
  <2>6. Descriptor' /\ Buffered'
    BY <1>3, <2>1, <2>3, <2>4 DEF TypeInv, Descriptor, Buffered
  <2> QED BY <2>3, <2>5, <2>6 DEF FilesOK
<1>7. CASE StartRenameBase
  <2>1. PICK t : t = Base(temp_am.base)
    OBVIOUS
  <2>2. /\ pc = "start_rename_base" /\ pc' = "start_rename_incr" /\ server' = server
        /\ disk' = Renamed(TempBase, t)
    BY <1>7, <2>1 DEF StartRenameBase, Goto
  <2>3. /\ server.aof_fd.file = TempIncr /\ TempIncr \in DOMAIN disk /\ disk[TempIncr].data = <<>>
        /\ TempBase \in DOMAIN disk
    BY <2>2 DEF TypeInv, Temporary
  <2>4. t \in File /\ t # TempIncr
    BY <1>2, <1>3, <2>1
  <2>5. /\ DiskOK(disk') /\ DOMAIN disk' = (DOMAIN disk \ {TempBase}) \cup {t}
        /\ \A g \in DOMAIN disk \ {TempBase} : g # t => disk'[g] = disk[g]
    BY ZenonT(60), <1>1, <2>2, <2>3, <2>4, RenamedType
  <2>6. TempIncr \in DOMAIN disk' /\ disk'[TempIncr] = disk[TempIncr]
    BY <1>3, <2>3, <2>4, <2>5
  <2>7. Temporary' /\ Down'
    BY <2>2, <2>3, <2>6 DEF Temporary, Down
  <2>8. Descriptor' /\ Buffered'
    BY <2>2, <2>3, <2>6 DEF TypeInv, Descriptor, Buffered
  <2> QED BY <2>5, <2>7, <2>8 DEF FilesOK
<1>8. CASE StartRenameIncr
  <2>1. PICK t : t = Incr(temp_am.incr_seq)
    OBVIOUS
  <2>2. /\ pc = "start_rename_incr" /\ pc' = "persist" /\ disk' = Renamed(TempIncr, t)
        /\ server' = [server EXCEPT !.aof_fd = [server.aof_fd EXCEPT !.file = t]]
    BY <1>8, <2>1 DEF StartRenameIncr, Call
  <2>3. server.aof_fd.file = TempIncr /\ TempIncr \in DOMAIN disk
    BY <2>2 DEF TypeInv, Temporary
  <2>4. t \in File
    BY <1>2, <2>1
  <2>5. DiskOK(disk') /\ disk'[t] = disk[TempIncr]
    BY <1>1, <2>2, <2>3, <2>4, RenamedType
  <2>6. /\ server'.aof_fd.file = t /\ server'.aof_last_incr_size = server.aof_last_incr_size
        /\ server'.aof_buf = server.aof_buf /\ server'.aof_state = server.aof_state
    BY <1>1, <2>2 DEF ServerState
  <2>7. server.aof_last_incr_size <= Len(disk[TempIncr].data)
    BY <2>3 DEF TypeInv, Descriptor
  <2>8. Descriptor' /\ Buffered'
    BY <1>2, <2>1, <2>5, <2>6, <2>7 DEF TypeInv, Descriptor, Buffered
  <2> QED BY <2>2, <2>5, <2>8 DEF FilesOK, Temporary, Down
<1>9. CASE StartAdopt
  <2>1. SameFd /\ disk' = disk /\ pc' \notin WindowLabel
    BY <1>9 DEF StartAdopt, SameFd, fs, Goto, UnlinkThen, WindowLabel
  <2> QED BY <1>1, <2>1, QuietServer
<1>10. CASE StartDone
  <2>1. /\ server'.aof_fd = server.aof_fd /\ server'.aof_last_incr_size = server.aof_last_incr_size
        /\ server'.aof_buf = <<>> /\ disk' = disk /\ pc' \notin WindowLabel
    BY <1>1, <1>10 DEF StartDone, ServerState, fs, Goto, WindowLabel
  <2> QED BY <1>1, <2>1, QuietFiles
<1> QED BY <1>4, <1>5, <1>6, <1>7, <1>8, <1>9, <1>10 DEF Start

\* persistAofManifest, and bg_unlink of one file after the other.
LEMMA CleanupFiles ==
    ASSUME TypeInv, Persist \/ Unlink
    PROVE  FilesOK'
<1>1. server \in ServerState /\ DiskOK(disk)
  BY TypeParts DEF TypeInv
<1>2. CASE Persist \/ UnlinkDone
  <2>1. cont \in {"start", "rw", "boot", "del_start", "del_boot"} =>
            AfterPersist[cont] \notin WindowLabel /\ AfterPersistError[cont] \notin WindowLabel
    BY DEF AfterPersist, AfterPersistError, WindowLabel
  <2>2. pc' \notin WindowLabel
    BY <1>2, <2>1 DEF Persist, PersistClean, PersistRename, PersistSynced, PersistError,
         UnlinkDone, Goto, TypeInv, Inv, Shape, WindowLabel
  <2>3. SameFd /\ disk' = disk
    BY <1>2 DEF Persist, PersistClean, PersistRename, PersistSynced, PersistError,
         UnlinkDone, fs, SameFd
  <2> QED BY <1>1, <2>2, <2>3, QuietServer
<1>3. ASSUME NEW f \in unlinking, UnlinkOne(f) PROVE FilesOK'
  <2>1. pc' = "unlink" /\ disk' = Without(f)
    BY <1>3 DEF UnlinkOne
  <2>2. /\ DiskOK(disk') /\ DOMAIN disk' = DOMAIN disk \ {f}
        /\ \A g \in DOMAIN disk \ {f} : disk'[g] = disk[g]
    BY <1>1, <2>1, WithoutType
  <2>3. Temporary' /\ Down'
    BY <2>1 DEF Temporary, Down
  <2>4. CASE server.aof_fd.file = f
    <3>1. server' = [server EXCEPT !.aof_fd = [server.aof_fd EXCEPT !.file = Unlinked]]
      BY <1>3, <2>4 DEF UnlinkOne
    <3>2. /\ server'.aof_fd.file = Unlinked /\ server'.aof_state = server.aof_state
          /\ server'.aof_buf = server.aof_buf
      BY <1>1, <3>1 DEF ServerState
    <3>3. Unlinked \notin DOMAIN disk'
      BY <2>2 DEF DiskOK, Unlinked, File, TempBase, TempIncr
    <3>4. Descriptor' /\ Buffered'
      BY <3>2, <3>3 DEF TypeInv, Descriptor, Buffered
    <3> QED BY <2>2, <2>3, <3>4 DEF FilesOK
  <2>5. CASE server.aof_fd.file # f
    <3>1. server' = server
      BY <1>3, <2>5 DEF UnlinkOne
    <3>2. Descriptor' /\ Buffered'
      BY <2>2, <3>1 DEF TypeInv, Descriptor, Buffered
    <3> QED BY <2>2, <2>3, <3>2 DEF FilesOK
  <2> QED BY <2>4, <2>5
<1> QED BY <1>2, <1>3 DEF Unlink

\* aofOpenIfNeededOnServerStart
LEMMA BootFiles ==
    ASSUME TypeInv, Boot
    PROVE  FilesOK'
<1>1. server \in ServerState /\ DiskOK(disk) /\ dataset \in Image
  BY TypeParts DEF TypeInv, DataType
<1>2. pc' \notin WindowLabel
  BY DEF Boot, BootBase, BootOpen, BootError, BootDelHistory, Goto, Call, UnlinkThen, WindowLabel
<1>3. CASE BootError \/ BootDelHistory
  <2>1. SameFd /\ disk' = disk
    BY <1>3 DEF BootError, BootDelHistory, fs, SameFd
  <2> QED BY <1>1, <1>2, <2>1, QuietServer
<1>4. CASE BootBase
  <2>1. PICK f : f = Base(aof_manifest.base_seq + 1)
    OBVIOUS
  <2>2. f \in File /\ f[1] = "base"
    BY <2>1 DEF TypeInv, Inv, Manifests, WellFormed, Manifest, File, Base
  <2>3. SameFd /\ (disk' = disk \/ disk' = With(disk, f, BaseFile(dataset)))
    BY <1>4, <2>1 DEF BootBase, SameFd
  <2>4. PICK c : c = BaseFile(dataset) /\ ContentOK(c)
    BY <1>1, NewFileType
  <2>5. CASE disk' = disk
    BY <1>1, <1>2, <2>3, <2>5, QuietServer
  <2>6. CASE disk' = With(disk, f, c)
    <3>1. /\ DiskOK(disk') /\ DOMAIN disk' = DOMAIN disk \cup {f}
          /\ \A g \in DOMAIN disk : g # f => disk'[g] = disk[g]
      <4>1. DiskOK(disk') /\ Adds(disk', disk, f, c)
        BY <1>1, <2>2, <2>4, <2>6, WithType
      <4> QED BY <4>1 DEF Adds
    <3> QED BY <1>2, <2>2, <2>3, <3>1, QuietServer
  <2> QED BY <2>3, <2>4, <2>5, <2>6
<1>5. CASE BootOpen
  <2>1. PICK f, n : /\ f = Incr(LastIncr(aof_manifest')) /\ n = Len(disk'[f].data)
                    /\ disk' = (IF f \in DOMAIN disk THEN disk ELSE With(disk, f, EmptyFile))
                    /\ server' = [server EXCEPT
                            !.aof_fd = [file |-> f, append |-> TRUE, gap |-> 0],
                            !.aof_last_incr_size = n,
                            !.aof_last_incr_fsync_offset = n]
    BY <1>5 DEF BootOpen
  <2>2. f \in {Incr(k) : k \in Nat} /\ f \in File
    BY <1>5, <2>1, BootIncr DEF TypeInv
  <2>3. DiskOK(disk') /\ f \in DOMAIN disk'
    <3>1. CASE f \in DOMAIN disk
      BY <1>1, <2>1, <3>1
    <3>2. CASE f \notin DOMAIN disk
      <4>1. disk' = With(disk, f, EmptyFile) /\ ContentOK(EmptyFile)
        BY <2>1, <3>2, NewFileType
      <4>2. DiskOK(disk') /\ Adds(disk', disk, f, EmptyFile)
        BY <1>1, <2>2, <4>1, WithType
      <4> QED BY <4>2 DEF Adds
    <3> QED BY <3>1, <3>2
  <2>4. /\ server'.aof_fd.file = f /\ server'.aof_last_incr_size = n
        /\ server'.aof_buf = server.aof_buf /\ server'.aof_state = server.aof_state
    BY <1>1, <2>1 DEF ServerState
  <2>5. n <= n
    BY <2>1, <2>3 DEF DiskOK, ContentOK
  <2>6. Descriptor' /\ Buffered'
    BY <2>1, <2>2, <2>4, <2>5 DEF TypeInv, Descriptor, Buffered
  <2> QED BY <1>2, <2>3, <2>6 DEF FilesOK, Temporary, Down, WindowLabel
<1> QED BY <1>3, <1>4, <1>5 DEF Boot

\* Crashes and the start of the server.
LEMMA EnvironmentFiles ==
    ASSUME TypeInv, Environment
    PROVE  FilesOK'
<1>1. server \in ServerState /\ DiskOK(disk) /\ WellFormed(disk_manifest)
      /\ Live(disk_manifest) \subseteq DOMAIN disk
  BY TypeParts DEF TypeInv, Inv, Manifests, LiveFilesExist
<1>2. /\ FreshServer.aof_fd.file = NoFile /\ FreshServer.aof_buf = <<>>
      /\ NoFile \notin File
  BY DEF FreshServer, NoFd, NoFile, File, TempBase, TempIncr
<1>3. ASSUME DiskOK(disk'), server'.aof_fd.file = NoFile, server'.aof_buf = <<>>,
             pc' = "down" => server' = FreshServer,
             pc' \in {"down", "boot_base", "del_boot"}
      PROVE  FilesOK'
  BY <1>2, <1>3 DEF FilesOK, DiskOK, Descriptor, Buffered, Temporary, Down
<1>4. CASE Kill \/ PowerLoss
  <2>1. DiskOK(disk')
    BY <1>1, <1>4, SurvivorsType DEF Kill, PowerLoss
  <2>2. server' = FreshServer /\ pc' = "down"
    BY <1>4 DEF Kill, PowerLoss, Stop
  <2> QED BY <1>2, <1>3, <2>1, <2>2
<1>5. PICK r : r = LoadAppendOnlyFiles(disk_manifest, disk)
  OBVIOUS
<1>6. DiskOK(AfterLoad(disk, r))
  BY <1>1, <1>5, LoadType, AfterLoadType
<1>7. CASE StartServer \/ StartServerOff
  <2>1. disk' = AfterLoad(disk, r) \/ disk' = disk
    BY <1>5, <1>7 DEF StartServer, StartServerOff
  <2>2. server'.aof_fd.file = NoFile /\ server'.aof_buf = <<>>
    <3>1. PICK a, b : server' = [FreshServer EXCEPT !.aof_state = a, !.fsynced_reploff = b]
      BY <1>7, Zenon DEF StartServer, StartServerOff, Booted
    <3> QED BY <3>1 DEF FreshServer, NoFd
  <2>3. pc' \in {"boot_base", "del_boot"}
    BY <1>7 DEF StartServer, StartServerOff, Goto
  <2> QED BY <1>1, <1>3, <1>6, <2>1, <2>2, <2>3
<1>8. CASE StartServerFatal
  <2>1. disk' = AfterLoad(disk, r) /\ server' = server /\ pc = "down" /\ pc' = "down"
    BY <1>5, <1>8 DEF StartServerFatal, control
  <2>2. server' = FreshServer
    BY <2>1 DEF TypeInv, Down
  <2> QED BY <1>2, <1>3, <1>6, <2>1, <2>2
<1> QED BY <1>4, <1>7, <1>8 DEF Environment

-----------------------------------------------------------------------------
(* The datasets.                                                           *)

\* What a restart would find is a dataset, whatever the files hold.
LEMMA RecoveredType ==
    ASSUME NEW m, WellFormed(m), NEW d, DiskOK(d), Live(m) \subseteq DOMAIN d
    PROVE  Recovered(m, d) \in Image
<1>1. LoadAppendOnlyFiles(m, d).ds \in Image
  BY LoadType DEF Progress
<1>2. Lost \in Image
  <2>1. PICK w \in [id : Nat, db : Nat] : w = [id |-> 0, db |-> 0]
    OBVIOUS
  <2>2. <<w>> \in Seq([id : Nat, db : Nat])
    OBVIOUS
  <2> QED BY <2>1, <2>2 DEF Lost, Image
<1> QED BY <1>1, <1>2 DEF Recovered

\* The datasets and what counts their writes.
LEMMA DataStep ==
    ASSUME TypeInv, Next
    PROVE  DataType'
<1>1. /\ dataset \in Image /\ logged \in Image /\ Len(dataset) \in Nat /\ Len(logged) \in Nat
      /\ uncounted \in 0 .. Len(dataset) /\ promised \in Nat
      /\ server \in ServerState /\ DiskOK(disk) /\ WellFormed(disk_manifest)
      /\ Live(disk_manifest) \subseteq DOMAIN disk
  BY TypeParts DEF TypeInv, DataType, Image, Inv, Manifests, LiveFilesExist
<1>2. UNCHANGED <<dataset, uncounted, observed>> => DataType'
  BY <1>1 DEF DataType, observed
<1>3. CASE Flush \/ Start \/ Unlink \/ Rewrite \/ StopClose \/ ShutdownFsync \/ Boot
  <2>1. CASE Flush
    BY <1>2, <2>1 DEF Flush, FlushEmpty, FlushWrite, FlushError, FlushShort, FlushFsync,
         FlushFsyncError, memory
  <2>2. CASE Start
    BY <1>2, <2>2 DEF Start, StartOpen, StartOpenError, StartRewrite, StartRenameBase,
         StartRenameIncr, StartError, StartAdopt, StartDone, memory
  <2>3. CASE Unlink \/ Rewrite
    BY <1>2, <2>3 DEF Unlink, UnlinkOne, UnlinkDone, Rewrite, RewriteOff, RewriteWait,
         RewriteOpen, RewriteOpenError, RewriteSwap, memory
  <2>4. CASE StopClose \/ ShutdownFsync \/ Boot
    BY <1>2, <2>4 DEF StopClose, ShutdownFsync, Boot, BootBase, BootOpen, BootError,
         BootDelHistory, memory
  <2> QED BY <1>3, <2>1, <2>2, <2>3, <2>4
<1>4. CASE Reply
  <2>1. PICK n : n = Reported(IF server.fsynced_reploff = -1 THEN -1
                              ELSE server.fsynced_reploff_pending)
    OBVIOUS
  <2>2. promised' \in {promised, n} /\ (promised' = n => promised' = promised \/ n > promised)
        /\ UNCHANGED <<dataset, uncounted, logged>>
    BY <1>4, <2>1 DEF Reply, memory
  <2>3. n \in Nat
    <3>1. server.fsynced_reploff_pending \in Nat
      BY <1>1 DEF ServerState
    <3>2. uncounted \in Nat
      BY <1>1
    <3> QED BY <1>1, <2>1, <3>1, <3>2 DEF Reported
  <2> QED BY <1>1, <2>2, <2>3 DEF DataType
<1>5. CASE Persist
  <2>1. CASE PersistRename
    BY <1>1, <1>2, <2>1 DEF PersistRename, DataType, memory
  <2> QED BY <1>2, <1>5, <2>1 DEF Persist, PersistClean, PersistSynced, PersistError, memory
<1>6. CASE Command \/ EventLoop
  <2>1. ASSUME NEW d \in Db, Execute(d) PROVE DataType'
    <3>1. bounds.writes \in Nat
      BY TypeParts, BoundAssumption DEF TypeInv, BoundType
    <3>2. PICK w \in [id : Nat, db : Nat] : w = [id |-> bounds.writes + 1, db |-> d]
      <4>1. bounds.writes + 1 \in Nat /\ d \in Nat
        BY <3>1, DbAssumption
      <4> QED BY <4>1
    <3>3. /\ dataset' = Append(dataset, w)
          /\ logged' \in {logged, Append(logged, w)}
          /\ uncounted' \in {uncounted, uncounted + 1}
          /\ promised' = promised
      BY <2>1, <3>2 DEF Execute
    <3>4. /\ Append(dataset, w) \in Seq([id : Nat, db : Nat])
          /\ Append(logged, w) \in Seq([id : Nat, db : Nat])
          /\ Len(Append(dataset, w)) = Len(dataset) + 1
      BY <1>1 DEF Image
    <3>5. uncounted' \in 0 .. Len(dataset')
      BY <1>1, <3>3, <3>4
    <3> QED BY <1>1, <3>3, <3>4, <3>5 DEF DataType, Image
  <2> QED BY <1>2, <1>6, <2>1 DEF Command, EventLoop, StartAppendOnly, StartAppendOnlyInExec,
         StopAppendOnly, BgRewriteAof, BgRewriteAofInExec, Shutdown, BeforeSleep,
         CronFlush, CronRewrite, RewriteBackground, memory
<1>7. CASE Environment
  <2>1. CASE Kill \/ PowerLoss
    <3>1. DiskOK(disk') /\ DOMAIN disk' = DOMAIN disk
      BY <1>1, <2>1, SurvivorsType DEF Kill, PowerLoss
    <3>2. Recovered(disk_manifest, disk') \in Image
      BY <1>1, <3>1, RecoveredType
    <3>3. /\ dataset' = <<>> /\ uncounted' = 0 /\ promised' = promised
          /\ logged' = Recovered(disk_manifest, disk')
      BY <2>1 DEF Kill, PowerLoss, Stop
    <3>4. <<>> \in Image /\ 0 \in 0 .. Len(<<>>)
      BY EmptySeq DEF Image
    <3> QED BY <1>1, <3>2, <3>3, <3>4 DEF DataType
  <2>2. CASE StartServer \/ StartServerOff
    <3>1. LoadAppendOnlyFiles(disk_manifest, disk).ds \in Image
      BY <1>1, LoadType DEF Progress
    <3>2. <<>> \in Image
      BY EmptySeq DEF Image
    <3>3. dataset' \in Image /\ uncounted' = Len(dataset') /\ UNCHANGED <<logged, promised>>
      BY <2>2, <3>1, <3>2 DEF StartServer, StartServerOff, Booted, observed
    <3>4. Len(dataset') \in 0 .. Len(dataset')
      BY <3>3 DEF Image
    <3> QED BY <1>1, <3>3, <3>4 DEF DataType
  <2>3. CASE StartServerFatal
    BY <1>2, <2>3 DEF StartServerFatal, memory
  <2> QED BY <1>7, <2>1, <2>2, <2>3 DEF Environment
<1> QED BY <1>3, <1>4, <1>5, <1>6, <1>7 DEF Next, Running

-----------------------------------------------------------------------------
(* The type invariant.                                                     *)

\* The first state.
LEMMA InitTypeInv ==
    ASSUME Init
    PROVE  TypeInv
<1>1. Inv
  BY InitInv
<1>2. server \in ServerState
  BY EmptySeq DEF Init, FreshServer, NoFd, ServerState
<1>3. DOMAIN disk = {}
  BY DEF Init
<1>4. FilesOK
  BY <1>3 DEF Init, FilesOK, DiskOK, Descriptor, Buffered, Temporary, Down, FreshServer, NoFd
<1>5. DataType
  <2>1. <<>> \in Image /\ 0 \in 0 .. Len(<<>>)
    BY EmptySeq DEF Image
  <2> QED BY <2>1 DEF Init, DataType
<1>6. ControlType
  BY DEF Init, ControlType, Label, Continuation
<1>7. BoundType
  BY BoundAssumption DEF Init, BoundType
<1> QED BY <1>1, <1>2, <1>4, <1>5, <1>6, <1>7, TypeParts DEF TypeInv, FilesOK

\* Every step keeps TypeInv.
LEMMA NextTypeInv ==
    ASSUME TypeInv, [Next]_vars, "dirfsync" \notin MayFail
    PROVE  TypeInv'
<1>1. CASE UNCHANGED vars
  BY <1>1 DEF vars, memory, control, fs, observed, TypeInv, Inv, Shape, Manifests, Agreement,
       Committed, Prepared, Starting, Appending, LiveFilesExist, At, Persisting, TypeOK,
       Descriptor, Buffered, Temporary, Down
<1>2. CASE Next
  <2>1. Inv'
    BY <1>2, NextInv DEF TypeInv
  <2>2. server' \in ServerState /\ DataType' /\ ControlType' /\ BoundType'
    BY <1>2, ServerStep, DataStep, ControlStep, BoundStep, TypeParts DEF TypeInv
  <2>3. FilesOK'
    BY <1>2, FlushFiles, IdleFiles, RewriteFiles, StartFiles, CleanupFiles, BootFiles,
       EnvironmentFiles DEF Next, Running
  <2>4. (DiskOK(disk))'
    BY <2>3 DEF FilesOK
  <2>5. TypeOK'
    <3>1. /\ DOMAIN disk' \subseteq File
          /\ \A f \in DOMAIN disk' : /\ disk'[f].data \in Seq(Token)
                                     /\ disk'[f].synced \in 0 .. Len(disk'[f].data)
      BY <2>4 DEF DiskOK, ContentOK
    <3> QED BY <2>1, <2>2, <3>1
         DEF TypeOK, DataType, ControlType, BoundType, Inv, Manifests, WellFormed
  <2> QED BY <2>1, <2>3, <2>4, <2>5 DEF TypeInv, FilesOK
<1> QED BY <1>1, <1>2

\* TypeInv, the strengthening that makes TypeOK inductive, holds in every state.
THEOREM TypeInvHolds ==
    ASSUME "dirfsync" \notin MayFail
    PROVE  Spec => []TypeInv
  BY InitTypeInv, NextTypeInv, PTL DEF Spec

\* struct redisServer, the manifests, the files and the datasets keep their
\* types: no offset becomes negative, however short the writes are and wherever
\* the files are cut.
THEOREM TypesKept ==
    ASSUME "dirfsync" \notin MayFail
    PROVE  Spec => []TypeOK
<1>1. TypeInv => TypeOK
  BY DEF TypeInv
<1> QED BY <1>1, TypeInvHolds, PTL
=============================================================================
