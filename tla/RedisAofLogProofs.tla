-------------------------- MODULE RedisAofLogProofs --------------------------
(***************************************************************************)
(* What the files of the append-only file hold, for all values of the      *)
(* constants for which the fsync of the directory does not fail and a read *)
(* of a freed file name yields the name: files that no manifest lists are  *)
(* empty, and, if also no write error meets a change of files (WritesSafe),*)
(* files and buffer together hold the dataset.                             *)
(***************************************************************************)
EXTENDS RedisAofProofs

-----------------------------------------------------------------------------
(* INCR files that hold something are listed.                              *)

\* The INCR files that hold something, and the manifests that list them all.
Filled(d) == {f \in DOMAIN d : f[1] = "incr" /\ d[f].data # <<>>}
Lists(m, S) == S \subseteq Live(m) \cup m.hist

\* No manifest has names copied from freed memory.
Named == /\ aof_manifest.names # "garbled"
         /\ temp_am.names # "garbled"
         /\ disk_manifest.names # "garbled"

\* Where the copy of the manifest stands for what the disk is about to hold.
Editing == \/ pc \in {"start_rename_base", "start_rename_incr", "start_adopt", "rw_swap"}
           \/ Persisting("start") \/ Persisting("rw")

\* aofDelHistoryFiles empties the history only after it unlinked the files.
Deleting == At("unlink", "del_start") \/ At("unlink", "del_boot")

Covered ==
    /\ Lists(disk_manifest, Filled(disk))
    /\ pc # "down" => Lists(aof_manifest, Filled(disk))
    /\ Editing => Lists(temp_am, Filled(disk))
    /\ Deleting => aof_manifest.hist \cap DOMAIN disk \subseteq unlinking

CoverInv == TypeInv /\ Named /\ Covered

\* Copies and changes of a manifest keep its names readable and its INCR files
\* listed.
LEMMA DupLists ==
    ASSUME NEW m, WellFormed(m), m.names # "garbled", "garbage" \notin FreedName,
           NEW d \in ManifestDup(m)
    PROVE  /\ d.names # "garbled" /\ Live(d) = Live(m) /\ d.hist = m.hist /\ WellFormed(d)
           /\ d.base = m.base /\ d.incr = m.incr /\ d.incr_seq = m.incr_seq
<1>1. PICK s \in {"ok", "freed"} : d = [m EXCEPT !.names = s]
  <2>1. \A r \in FreedName : r = "intact"
    BY ConfigAssumption
  <2> QED BY <2>1 DEF ManifestDup, ReadNames, WellFormed, Manifest
<1>2. d.names = s /\ d.hist = m.hist
  BY <1>1 DEF WellFormed, Manifest
<1> QED BY <1>2, DupFiles

\* getNewBaseFileNameAndMarkPreAsHistory
LEMMA NewBaseLists ==
    ASSUME NEW m, WellFormed(m)
    PROVE  /\ NewBase(m).names = m.names
           /\ \A S : (\A f \in S : f[1] = "incr") /\ Lists(m, S) => Lists(NewBase(m), S)
<1>1. /\ NewBase(m).names = m.names /\ NewBase(m).incr = m.incr
      /\ m.hist \subseteq NewBase(m).hist
  BY DEF NewBase, WellFormed, Manifest
<1>2. \A f \in Live(m) : f[1] = "incr" => f \in Live(NewBase(m))
  BY <1>1 DEF Live, Base
<1> QED BY <1>1, <1>2 DEF Lists

\* getNewIncrAofName
LEMMA NewIncrLists ==
    ASSUME NEW m, WellFormed(m)
    PROVE  NewIncr(m).names = m.names /\ \A S : Lists(m, S) => Lists(NewIncr(m), S)
<1>1. NewIncr(m).names = m.names /\ m.hist = NewIncr(m).hist
  BY DEF NewIncr, WellFormed, Manifest
<1>2. Live(m) \subseteq Live(NewIncr(m))
  BY NewIncrFiles
<1> QED BY <1>1, <1>2 DEF Lists

\* markRewrittenIncrAofAsHistory: what leaves the list enters the history.
LEMMA MarkRewrittenLists ==
    ASSUME NEW m, WellFormed(m), m.incr # {}
    PROVE  LET r == MarkRewritten(m, TRUE)
           IN  r.names = m.names /\ \A S : Lists(m, S) => Lists(r, S)
<1>1. LastIncr(m) = m.incr_seq
  BY LastIncrIsSeq
<1>2. PICK r : r = [m EXCEPT !.hist = m.hist \cup {Incr(n) : n \in m.incr \ {m.incr_seq}},
                             !.incr = {m.incr_seq}, !.dirty = TRUE]
  OBVIOUS
<1>3. MarkRewritten(m, TRUE) = r
  BY <1>1, <1>2 DEF MarkRewritten, WellFormed, Manifest
<1>4. /\ r.names = m.names /\ r.base = m.base /\ r.incr = {m.incr_seq}
      /\ r.hist = m.hist \cup {Incr(n) : n \in m.incr \ {m.incr_seq}}
  BY <1>2 DEF WellFormed, Manifest
<1>5. Live(m) \cup m.hist \subseteq Live(r) \cup r.hist
  BY <1>4 DEF Live, WellFormed
<1> QED BY <1>3, <1>4, <1>5 DEF Lists

\* aofLoadManifestFromFile
LEMMA LoadManifestLists ==
    ASSUME NEW m, WellFormed(m)
    PROVE  /\ LoadManifest(m).names = m.names /\ LoadManifest(m).hist = m.hist
           /\ Live(LoadManifest(m)) = Live(m)
  BY LoadManifestFiles DEF LoadManifest, WellFormed, Manifest

\* A step that fills no file and touches no manifest.
LEMMA QuietCovered ==
    ASSUME CoverInv, UNCHANGED <<aof_manifest, temp_am, disk_manifest>>,
           Filled(disk') \subseteq Filled(disk), pc # "down" \/ pc' = "down",
           Editing' => Editing, ~Deleting'
    PROVE  Named' /\ Covered'
  BY DEF CoverInv, Named, Covered, Lists

\* flushAppendOnlyFile fills only the last INCR file.
LEMMA FlushCovered ==
    ASSUME CoverInv, Flush
    PROVE  Named' /\ Covered'
<1>1. /\ server \in ServerState /\ DiskOK(disk) /\ TypeInv
      /\ server.aof_buf \in Seq(Token) /\ Len(server.aof_buf) \in Nat
      /\ server.aof_last_incr_size \in Nat
  BY TypeParts DEF CoverInv, TypeInv, ServerState
<1>2. /\ pc' \notin {"down", "unlink", "persist", "dirfsync", "start_rename_base",
                     "start_rename_incr", "start_adopt", "rw_swap"}
      /\ pc # "down" /\ UNCHANGED <<aof_manifest, temp_am, disk_manifest>>
  <2>1. pc \in {"flush", "fsync"} => cont \in FlushReturn
    BY DEF CoverInv, TypeInv, Inv, Shape
  <2> QED BY <2>1 DEF Flush, FlushEmpty, FlushWrite, FlushError, FlushShort, FlushFsync,
       FlushFsyncError, WriteError, Goto, FlushReturn, memory, fs
<1>3. ~Editing' /\ ~Deleting'
  BY <1>2 DEF Editing, Deleting, At, Persisting
<1>4. ASSUME Filled(disk') \subseteq Filled(disk) PROVE Named' /\ Covered'
  BY <1>2, <1>3, <1>4, QuietCovered
<1>5. ASSUME pc = "flush", server.aof_buf # <<>>, NEW f, f = server.aof_fd.file,
             Filled(disk') \subseteq Filled(disk) \cup {f}
      PROVE  Named' /\ Covered'
  <2>1. f \in Live(aof_manifest) /\ f \in Live(disk_manifest)
    BY <1>1, <1>5, WritesLive
  <2> QED BY <1>2, <1>3, <1>5, <2>1 DEF CoverInv, Named, Covered, Lists
<1>6. ASSUME NEW due \in BOOLEAN, FlushEmpty(due) PROVE Named' /\ Covered'
  BY <1>4, <1>6 DEF FlushEmpty, fs
<1>7. CASE FlushError \/ FlushFsyncError
  BY <1>4, <1>7 DEF FlushError, FlushFsyncError, fs
<1>8. CASE FlushFsync
  <2>1. DOMAIN disk' = DOMAIN disk /\ \A f \in DOMAIN disk : disk'[f].data = disk[f].data
    BY <1>1, <1>8, FsyncFdType DEF FlushFsync
  <2> QED BY <1>4, <2>1 DEF Filled
<1>9. ASSUME NEW toks \in Seq(Token)
      PROVE  LET d == WriteFd(toks)
             IN /\ DOMAIN d = DOMAIN disk
                /\ \A g \in DOMAIN disk : g # server.aof_fd.file => d[g] = disk[g]
  BY <1>1, WriteFdType
<1>10. ASSUME NEW due \in BOOLEAN, FlushWrite(due) PROVE Named' /\ Covered'
  <2>1. pc = "flush" /\ server.aof_buf # <<>> /\ disk' = WriteFd(server.aof_buf)
    BY <1>10 DEF FlushWrite
  <2>2. DOMAIN disk' = DOMAIN disk /\ \A g \in DOMAIN disk : g # server.aof_fd.file => disk'[g] = disk[g]
    BY <1>1, <1>9, <2>1
  <2> QED BY <1>5, <2>1, <2>2 DEF Filled
<1>11. ASSUME NEW k \in 1 .. Len(server.aof_buf) - 1, FlushShort(k) PROVE Named' /\ Covered'
  <2>1. PICK toks, short, f : /\ toks = SubSeq(server.aof_buf, 1, k) /\ short = WriteFd(toks)
                              /\ f = server.aof_fd.file
    OBVIOUS
  <2>2. pc = "flush" /\ server.aof_buf # <<>> /\ toks \in Seq(Token)
    BY <1>1, <1>11, <2>1 DEF FlushShort
  <2>3. DOMAIN short = DOMAIN disk /\ \A g \in DOMAIN disk : g # f => short[g] = disk[g]
    BY <1>9, <2>1, <2>2
  <2>4. disk' = short \/ disk' = [short EXCEPT ![f] = CutAt(short[f], server.aof_last_incr_size)]
    BY <1>11, <2>1 DEF FlushShort
  <2>5. DOMAIN disk' = DOMAIN disk /\ \A g \in DOMAIN disk : g # f => disk'[g] = disk[g]
    BY <2>3, <2>4
  <2> QED BY <1>5, <2>1, <2>2, <2>5 DEF Filled
<1> QED BY <1>6, <1>7, <1>8, <1>10, <1>11 DEF Flush

\* Commands, the event loop and the ends of stopAppendOnly and finishShutdown.
LEMMA IdleCovered ==
    ASSUME CoverInv, Command \/ EventLoop \/ Reply \/ StopClose \/ ShutdownFsync
    PROVE  Named' /\ Covered'
<1>1. DiskOK(disk)
  BY DEF CoverInv, TypeInv
<1>2. /\ pc' \notin {"down", "unlink", "persist", "dirfsync", "start_rename_base",
                     "start_rename_incr", "start_adopt", "rw_swap"}
      /\ pc # "down" /\ UNCHANGED <<aof_manifest, temp_am, disk_manifest>>
  BY DEF Command, EventLoop, Reply, StopClose, ShutdownFsync, Execute,
       StartAppendOnly, StartAppendOnlyInExec, StopAppendOnly, BgRewriteAof,
       BgRewriteAofInExec, Shutdown, BeforeSleep, CronFlush, CronRewrite,
       RewriteBackground, Goto, Call, control, memory, fs
<1>3. disk' = disk \/ disk' = FsyncFd(disk)
  BY DEF Command, EventLoop, Reply, StopClose, ShutdownFsync, Execute, FinalFsync,
       StartAppendOnly, StartAppendOnlyInExec, StopAppendOnly, BgRewriteAof,
       BgRewriteAofInExec, Shutdown, BeforeSleep, CronFlush, CronRewrite,
       RewriteBackground, fs
<1>4. DOMAIN disk' = DOMAIN disk /\ \A f \in DOMAIN disk : disk'[f].data = disk[f].data
  BY <1>1, <1>3, FsyncFdType
<1>5. Filled(disk') \subseteq Filled(disk) /\ ~Editing' /\ ~Deleting'
  BY <1>2, <1>4 DEF Filled, Editing, Deleting, At, Persisting
<1> QED BY <1>2, <1>5, QuietCovered

\* A file created empty, or a file of another kind, fills nothing.
LEMMA AddsFilled ==
    ASSUME NEW d, NEW f, NEW c, NEW w, Adds(w, d, f, c), f[1] = "incr" => c.data = <<>>
    PROVE  Filled(w) \subseteq Filled(d)
  BY DEF Adds, Filled

\* rewriteAppendOnlyFileBackground
LEMMA RewriteCovered ==
    ASSUME CoverInv, Rewrite, "garbage" \notin FreedName
    PROVE  Named' /\ Covered'
<1>1. DiskOK(disk) /\ WellFormed(aof_manifest)
  BY DEF CoverInv, TypeInv, Inv, Manifests
<1>2. /\ aof_manifest.incr_seq \in Nat
      /\ Incr(aof_manifest.incr_seq + 1) \in File /\ TempIncr \in File
      /\ TempIncr[1] # "incr"
  BY <1>1 DEF WellFormed, Manifest, File, Incr, TempIncr
<1>3. CASE RewriteOff \/ RewriteOpenError
  BY <1>3, QuietCovered
     DEF RewriteOff, RewriteOpenError, memory, fs, Goto, Editing, Deleting, At, Persisting
<1>4. CASE RewriteWait
  <2>1. PICK synced \in BOOLEAN : disk' = With(CloseOld(synced), TempIncr, EmptyFile)
    BY <1>4 DEF RewriteWait
  <2>2. PICK d : /\ d = CloseOld(synced) /\ DiskOK(d) /\ DOMAIN d = DOMAIN disk
                 /\ \A g \in DOMAIN disk : d[g].data = disk[g].data
    BY <1>1, CloseOldType
  <2>3. Adds(disk', d, TempIncr, EmptyFile)
    BY <1>2, <2>1, <2>2, WithType, NewFileType
  <2>4. Filled(disk') \subseteq Filled(d) /\ Filled(d) \subseteq Filled(disk)
    BY <1>2, <2>2, <2>3, AddsFilled DEF Filled
  <2> QED BY <1>4, <2>4, QuietCovered
       DEF RewriteWait, memory, Goto, Editing, Deleting, At, Persisting
<1>5. CASE RewriteOpen
  <2>1. PICK f : f = Incr(aof_manifest.incr_seq + 1)
    OBVIOUS
  <2>2. /\ disk' = With(disk, f, EmptyFile) /\ pc = "rw_open" /\ pc' = "persist" /\ cont' = "rw"
        /\ UNCHANGED <<aof_manifest, disk_manifest>>
    BY <1>5, <2>1 DEF RewriteOpen, Call
  <2>3. PICK m \in ManifestDup(aof_manifest) : temp_am' = NewIncr(m)
    BY <1>5 DEF RewriteOpen
  <2>4. Adds(disk', disk, f, EmptyFile) /\ EmptyFile.data = <<>>
    BY <1>1, <1>2, <2>1, <2>2, WithType, NewFileType
  <2>5. Filled(disk') \subseteq Filled(disk)
    BY <2>4, AddsFilled
  <2>6. m.names # "garbled" /\ Live(m) = Live(aof_manifest) /\ m.hist = aof_manifest.hist /\ WellFormed(m)
    BY <1>1, DupLists DEF CoverInv, Named
  <2>7. Lists(aof_manifest, Filled(disk)) /\ Lists(disk_manifest, Filled(disk))
    BY <2>2 DEF CoverInv, Covered
  <2>8. /\ Lists(m, Filled(disk')) /\ Lists(aof_manifest, Filled(disk'))
        /\ Lists(disk_manifest, Filled(disk'))
    BY <2>5, <2>6, <2>7 DEF Lists
  <2>9. temp_am'.names # "garbled" /\ Lists(temp_am', Filled(disk'))
    BY <2>3, <2>6, <2>8, NewIncrLists
  <2>10. ~Deleting'
    BY <2>2 DEF Deleting, At
  <2> QED BY <2>2, <2>8, <2>9, <2>10 DEF CoverInv, Named, Covered
<1>6. CASE RewriteSwap
  <2>1. PICK synced \in BOOLEAN : disk' = CloseOld(synced)
    BY <1>6 DEF RewriteSwap
  <2>2. Filled(disk') = Filled(disk)
    BY <1>1, <2>1, CloseOldType DEF Filled
  <2>3. /\ pc = "rw_swap" /\ pc' = "idle" /\ aof_manifest' = temp_am
        /\ UNCHANGED <<temp_am, disk_manifest>>
    BY <1>6 DEF RewriteSwap, Goto
  <2>4. ~Editing' /\ ~Deleting' /\ Editing
    BY <2>3 DEF Editing, Deleting, At, Persisting
  <2> QED BY <2>2, <2>3, <2>4 DEF CoverInv, Named, Covered
<1> QED BY <1>3, <1>4, <1>5, <1>6 DEF Rewrite

\* startAppendOnly
LEMMA StartCovered ==
    ASSUME CoverInv, Start, "garbage" \notin FreedName
    PROVE  Named' /\ Covered'
<1>1. /\ DiskOK(disk) /\ WellFormed(aof_manifest) /\ WellFormed(temp_am) /\ dataset \in Image
      /\ Lists(disk_manifest, Filled(disk))
  BY DEF CoverInv, TypeInv, Inv, Manifests, Covered, TypeOK
<1>2. /\ temp_am.incr_seq \in Nat /\ temp_am.base \in Nat
      /\ Incr(temp_am.incr_seq) \in File /\ Base(temp_am.base) \in File
      /\ TempIncr \in File /\ TempBase \in File
      /\ TempIncr[1] # "incr" /\ TempBase[1] # "incr" /\ Base(temp_am.base)[1] # "incr"
  BY <1>1 DEF WellFormed, Manifest, File, Incr, Base, TempIncr, TempBase
<1>3. CASE StartOpen
  <2>1. PICK synced \in BOOLEAN : disk' = With(CloseOld(synced), TempIncr, EmptyFile)
    BY <1>3 DEF StartOpen
  <2>2. PICK d : /\ d = CloseOld(synced) /\ DiskOK(d) /\ DOMAIN d = DOMAIN disk
                 /\ \A g \in DOMAIN disk : d[g].data = disk[g].data
    BY <1>1, CloseOldType
  <2>3. Adds(disk', d, TempIncr, EmptyFile)
    BY <1>2, <2>1, <2>2, WithType, NewFileType
  <2>4. Filled(disk') \subseteq Filled(d) /\ Filled(d) \subseteq Filled(disk)
    BY <1>2, <2>2, <2>3, AddsFilled DEF Filled
  <2> QED BY <1>3, <2>4, QuietCovered
       DEF StartOpen, memory, Goto, Editing, Deleting, At, Persisting
<1>4. CASE StartOpenError \/ StartDone
  BY <1>4, QuietCovered
     DEF StartOpenError, StartDone, memory, fs, Goto, Editing, Deleting, At, Persisting
<1>5. CASE StartError
  <2>1. pc' = "unlink" /\ cont' = "start_failed"
        /\ UNCHANGED <<aof_manifest, temp_am, disk, disk_manifest>> /\ pc # "down"
    BY <1>5 DEF StartError, UnlinkThen, memory, fs
  <2>2. ~Editing' /\ ~Deleting'
    BY <2>1 DEF Editing, Deleting, At, Persisting
  <2> QED BY <2>1, <2>2, QuietCovered
<1>6. CASE StartRewrite
  <2>1. /\ pc = "start_rewrite" /\ pc' = "start_rename_base"
        /\ disk' = With(disk, TempBase, BaseFile(dataset))
        /\ UNCHANGED <<aof_manifest, disk_manifest>>
    BY <1>6 DEF StartRewrite, Goto
  <2>2. PICK m \in ManifestDup(aof_manifest) : temp_am' = NewBase(m)
    BY <1>6 DEF StartRewrite
  <2>3. PICK c : c = BaseFile(dataset) /\ ContentOK(c)
    BY <1>1, NewFileType
  <2>4. Adds(disk', disk, TempBase, c)
    BY <1>1, <1>2, <2>1, <2>3, WithType
  <2>5. Filled(disk') \subseteq Filled(disk)
    BY <1>2, <2>4, AddsFilled
  <2>6. m.names # "garbled" /\ Live(m) = Live(aof_manifest) /\ m.hist = aof_manifest.hist /\ WellFormed(m)
    BY <1>1, DupLists DEF CoverInv, Named
  <2>7. Lists(aof_manifest, Filled(disk))
    BY <2>1 DEF CoverInv, Covered
  <2>8. /\ Lists(m, Filled(disk')) /\ Lists(aof_manifest, Filled(disk'))
        /\ Lists(disk_manifest, Filled(disk'))
    BY <1>1, <2>5, <2>6, <2>7 DEF Lists
  <2>9. \A f \in Filled(disk') : f[1] = "incr"
    BY DEF Filled
  <2>10. temp_am'.names # "garbled" /\ Lists(temp_am', Filled(disk'))
    BY <2>2, <2>6, <2>8, <2>9, NewBaseLists
  <2>11. ~Deleting'
    BY <2>1 DEF Deleting, At
  <2> QED BY <2>1, <2>8, <2>10, <2>11 DEF CoverInv, Named, Covered
<1>a. Editing => Lists(temp_am, Filled(disk))
  BY DEF CoverInv, Covered
<1>b. pc # "down" => Lists(aof_manifest, Filled(disk))
  BY DEF CoverInv, Covered
<1>7. CASE StartRenameBase
  <2>1. PICK t : t = Base(temp_am.base)
    OBVIOUS
  <2>2. /\ pc = "start_rename_base" /\ pc' = "start_rename_incr"
        /\ disk' = Renamed(TempBase, t) /\ temp_am' = NewIncr(temp_am)
        /\ UNCHANGED <<aof_manifest, disk_manifest>>
    BY <1>7, <2>1 DEF StartRenameBase, Goto
  <2>3. TempBase \in DOMAIN disk /\ t \in File
    BY <1>2, <2>1, <2>2 DEF CoverInv, TypeInv, Temporary
  <2>4. /\ DOMAIN disk' = (DOMAIN disk \ {TempBase}) \cup {t}
        /\ \A g \in DOMAIN disk \ {TempBase} : g # t => disk'[g] = disk[g]
    BY <1>1, <2>2, <2>3, RenamedType
  <2>5. Filled(disk') \subseteq Filled(disk)
    BY <1>2, <2>1, <2>4 DEF Filled
  <2>6. /\ Lists(temp_am, Filled(disk')) /\ Lists(aof_manifest, Filled(disk'))
        /\ Lists(disk_manifest, Filled(disk'))
    BY <1>1, <1>a, <1>b, <2>2, <2>5 DEF Lists, Editing
  <2>7. temp_am'.names # "garbled" /\ Lists(temp_am', Filled(disk'))
    BY <1>1, <2>2, <2>6, NewIncrLists DEF CoverInv, Named
  <2>8. ~Deleting'
    BY <2>2 DEF Deleting, At
  <2> QED BY <2>2, <2>6, <2>7, <2>8 DEF CoverInv, Named, Covered
<1>8. CASE StartRenameIncr
  <2>1. PICK t : t = Incr(temp_am.incr_seq)
    OBVIOUS
  <2>2. /\ pc = "start_rename_incr" /\ pc' = "persist" /\ cont' = "start"
        /\ disk' = Renamed(TempIncr, t)
        /\ temp_am' = MarkRewritten(temp_am, server.aof_fd.file # NoFile)
        /\ UNCHANGED <<aof_manifest, disk_manifest>>
    BY <1>8, <2>1 DEF StartRenameIncr, Call
  <2>3. /\ TempIncr \in DOMAIN disk /\ t \in File /\ disk[TempIncr].data = <<>>
        /\ server.aof_fd.file # NoFile
    BY <1>2, <2>1, <2>2 DEF CoverInv, TypeInv, Temporary, TempIncr, NoFile
  <2>4. /\ DOMAIN disk' = (DOMAIN disk \ {TempIncr}) \cup {t} /\ disk'[t] = disk[TempIncr]
        /\ \A g \in DOMAIN disk \ {TempIncr} : g # t => disk'[g] = disk[g]
    BY <1>1, <2>2, <2>3, RenamedType
  <2>5. Filled(disk') \subseteq Filled(disk)
    BY <2>3, <2>4 DEF Filled
  <2>6. /\ Lists(temp_am, Filled(disk')) /\ Lists(aof_manifest, Filled(disk'))
        /\ Lists(disk_manifest, Filled(disk'))
    BY <1>1, <1>a, <1>b, <2>2, <2>5 DEF Lists, Editing
  <2>7. temp_am.incr # {}
    <3>1. temp_am.incr_seq = aof_manifest.incr_seq + 1 /\ aof_manifest.incr_seq \in Nat
      BY <1>1, <2>2 DEF CoverInv, TypeInv, Inv, Starting, WellFormed, Manifest
    <3> QED BY <1>1, <3>1 DEF WellFormed
  <2>8. temp_am' = MarkRewritten(temp_am, TRUE)
    BY <2>2, <2>3
  <2>9. temp_am'.names # "garbled" /\ Lists(temp_am', Filled(disk'))
    BY <1>1, <2>6, <2>7, <2>8, MarkRewrittenLists DEF CoverInv, Named
  <2>10. ~Deleting'
    BY <2>2 DEF Deleting, At
  <2> QED BY <2>2, <2>6, <2>9, <2>10 DEF CoverInv, Named, Covered
<1>9. CASE StartAdopt
  <2>1. /\ pc = "start_adopt" /\ aof_manifest' = [temp_am EXCEPT !.names = "freed"]
        /\ UNCHANGED <<temp_am, disk, disk_manifest>>
    BY <1>9 DEF StartAdopt, fs
  <2>2. /\ aof_manifest'.names = "freed" /\ Live(aof_manifest') = Live(temp_am)
        /\ aof_manifest'.hist = temp_am.hist
    BY <1>1, <2>1, SameFiles DEF WellFormed, Manifest
  <2>3. \/ pc' = "start_done"
        \/ pc' = "unlink" /\ cont' = "del_start" /\ unlinking' = temp_am.hist
    BY <1>9 DEF StartAdopt, Goto, UnlinkThen, Removable, CoverInv, Named
  <2>4. Lists(temp_am, Filled(disk))
    BY <1>a, <2>1 DEF Editing
  <2>5. ~Editing'
    BY <2>3 DEF Editing, At, Persisting
  <2>6. Deleting' => unlinking' = temp_am.hist
    BY <2>3 DEF Deleting, At
  <2> QED BY <1>1, <2>1, <2>2, <2>4, <2>5, <2>6 DEF CoverInv, Named, Covered, Lists
<1> QED BY <1>3, <1>4, <1>5, <1>6, <1>7, <1>8, <1>9 DEF Start

\* A manifest that is no longer dirty lists the same files.
LEMMA CleanFiles ==
    ASSUME NEW m, WellFormed(m), NEW n \in {m, [m EXCEPT !.dirty = FALSE]}
    PROVE  Live(n) = Live(m) /\ n.hist = m.hist /\ n.names = m.names
<1>1. CASE n = m
  BY <1>1
<1>2. CASE n = [m EXCEPT !.dirty = FALSE]
  <2>1. Live(n) = Live(m)
    BY <1>2, SameFiles
  <2>2. n.hist = m.hist /\ n.names = m.names
    BY <1>2 DEF WellFormed, Manifest
  <2> QED BY <2>1, <2>2
<1> QED BY <1>1, <1>2

\* persistAofManifest
LEMMA PersistCovered ==
    ASSUME CoverInv, Persist, "garbage" \notin FreedName, "dirfsync" \notin MayFail
    PROVE  Named' /\ Covered'
<1>1. /\ WellFormed(aof_manifest) /\ WellFormed(temp_am)
      /\ cont \in {"start", "rw", "boot", "del_start", "del_boot"}
      /\ pc # "down" /\ disk' = disk
  BY DEF CoverInv, TypeInv, Inv, Manifests, Shape, Persist, PersistClean, PersistRename,
         PersistSynced, PersistError, fs
<1>2. /\ Lists(aof_manifest, Filled(disk)) /\ Lists(disk_manifest, Filled(disk))
      /\ Editing => Lists(temp_am, Filled(disk))
  BY <1>1 DEF CoverInv, Covered
<1>3. /\ AfterPersist["start"] = "start_adopt" /\ AfterPersist["rw"] = "rw_swap"
      /\ AfterPersist["boot"] = "del_boot" /\ AfterPersist["del_start"] = "start_done"
      /\ AfterPersist["del_boot"] = "idle"
  BY DEF AfterPersist
<1>4. CASE PersistClean
  <2>1. /\ pc = "persist" /\ pc' = AfterPersist[cont] /\ cont' = cont
        /\ UNCHANGED <<aof_manifest, temp_am, disk_manifest>>
    BY <1>4 DEF PersistClean, Goto, memory, fs
  <2>2. (Editing' => Editing) /\ ~Deleting'
    BY <1>1, <1>3, <2>1 DEF Editing, Deleting, At, Persisting
  <2> QED BY <1>1, <2>1, <2>2, QuietCovered
<1>5. CASE PersistRename
  <2>1. /\ pc = "persist" /\ pc' = "dirfsync" /\ cont' = cont
        /\ disk_manifest' \in ManifestDup(PersistTarget)
        /\ UNCHANGED <<aof_manifest, temp_am>>
    BY <1>5 DEF PersistRename, Goto, memory
  <2>2. PICK m : m = PersistTarget
    OBVIOUS
  <2>3. WellFormed(m) /\ m.names # "garbled" /\ Lists(m, Filled(disk))
    BY <1>1, <1>2, <2>1, <2>2 DEF PersistTarget, CoverInv, Named, Editing, At, Persisting
  <2>4. /\ disk_manifest'.names # "garbled" /\ Live(disk_manifest') = Live(m)
        /\ disk_manifest'.hist = m.hist
    BY <2>1, <2>2, <2>3, DupLists
  <2>5. (Editing' => Editing) /\ ~Deleting'
    BY <1>1, <2>1 DEF Editing, Deleting, At, Persisting
  <2> QED BY <1>1, <1>2, <2>1, <2>3, <2>4, <2>5 DEF CoverInv, Named, Covered, Lists
<1>6. CASE PersistSynced
  <2>1. /\ pc = "dirfsync" /\ pc' = AfterPersist[cont] /\ cont' = cont
        /\ UNCHANGED disk_manifest
        /\ aof_manifest' \in {aof_manifest, [aof_manifest EXCEPT !.dirty = FALSE]}
        /\ temp_am' \in {temp_am, [temp_am EXCEPT !.dirty = FALSE]}
    BY <1>6 DEF PersistSynced, Goto, fs
  <2>2. /\ Live(aof_manifest') = Live(aof_manifest) /\ Live(temp_am') = Live(temp_am)
        /\ aof_manifest'.hist = aof_manifest.hist /\ temp_am'.hist = temp_am.hist
        /\ aof_manifest'.names = aof_manifest.names /\ temp_am'.names = temp_am.names
    BY <1>1, <2>1, CleanFiles
  <2>3. (Editing' => Editing) /\ ~Deleting'
    BY <1>1, <1>3, <2>1 DEF Editing, Deleting, At, Persisting
  <2> QED BY <1>1, <1>2, <2>1, <2>2, <2>3 DEF CoverInv, Named, Covered, Lists
<1>7. CASE PersistError
  <2>1. /\ pc = "persist" /\ pc' = AfterPersistError[cont] /\ cont' = cont
        /\ UNCHANGED <<aof_manifest, temp_am, disk_manifest>>
    BY <1>7 DEF PersistError, Fault, Goto, memory, fs
  <2>2. ~Editing' /\ ~Deleting'
    BY <1>1, <2>1 DEF AfterPersistError, Editing, Deleting, At, Persisting
  <2> QED BY <1>1, <2>1, <2>2, QuietCovered
<1> QED BY <1>4, <1>5, <1>6, <1>7 DEF Persist

\* bg_unlink of one file after the other, and the emptied history list.
LEMMA UnlinkCovered ==
    ASSUME CoverInv, Unlink
    PROVE  Named' /\ Covered'
<1>1. /\ WellFormed(aof_manifest) /\ DiskOK(disk)
      /\ Lists(aof_manifest, Filled(disk)) /\ Lists(disk_manifest, Filled(disk))
      /\ pc = "unlink" /\ cont \in {"start_failed", "del_start", "del_boot"}
  BY DEF CoverInv, TypeInv, Inv, Manifests, Shape, Covered, Unlink, UnlinkDone, UnlinkOne
<1>2. CASE UnlinkDone
  <2>1. UNCHANGED <<temp_am, disk, disk_manifest, cont>> /\ unlinking = {}
    BY <1>2 DEF UnlinkDone, Goto, fs
  <2>2. CASE cont = "start_failed"
    <3>1. pc' = "idle" /\ UNCHANGED aof_manifest
      BY <1>2, <2>2 DEF UnlinkDone, Goto
    <3>2. ~Editing' /\ ~Deleting'
      BY <3>1 DEF Editing, Deleting, At, Persisting
    <3> QED BY <1>1, <2>1, <3>1, <3>2, QuietCovered
  <2>3. CASE cont # "start_failed"
    <3>1. pc' = "persist" /\ aof_manifest' = [aof_manifest EXCEPT !.hist = {}, !.dirty = TRUE]
      BY <1>2, <2>3 DEF UnlinkDone, Goto
    <3>2. /\ Live(aof_manifest') = Live(aof_manifest) /\ aof_manifest'.hist = {}
          /\ aof_manifest'.names = aof_manifest.names
      BY <1>1, <3>1, ForgetHistory DEF WellFormed, Manifest
    <3>3. aof_manifest.hist \cap DOMAIN disk = {}
      BY <1>1, <2>1, <2>3 DEF CoverInv, Covered, Deleting, At
    <3>4. Lists(aof_manifest', Filled(disk))
      BY <1>1, <3>2, <3>3 DEF Lists, Filled
    <3>5. ~Editing' /\ ~Deleting'
      BY <1>1, <2>1, <2>3, <3>1 DEF Editing, Deleting, At, Persisting
    <3> QED BY <1>1, <2>1, <3>2, <3>4, <3>5 DEF CoverInv, Named, Covered
  <2> QED BY <2>2, <2>3
<1>3. ASSUME NEW f \in unlinking, UnlinkOne(f) PROVE Named' /\ Covered'
  <2>1. /\ UNCHANGED <<pc, cont, aof_manifest, temp_am, disk_manifest>>
        /\ unlinking' = unlinking \ {f} /\ disk' = Without(f)
    BY <1>3 DEF UnlinkOne, memory
  <2>2. /\ DOMAIN disk' = DOMAIN disk \ {f}
        /\ \A g \in DOMAIN disk \ {f} : disk'[g] = disk[g]
    BY <1>1, <2>1, WithoutType
  <2>3. Filled(disk') \subseteq Filled(disk)
    BY <2>2 DEF Filled
  <2>4. ~Editing' /\ (Deleting' => Deleting)
    BY <1>1, <2>1 DEF Editing, Deleting, At, Persisting
  <2> QED BY <1>1, <2>1, <2>2, <2>3, <2>4 DEF CoverInv, Named, Covered, Lists
<1> QED BY <1>2, <1>3 DEF Unlink

\* aofOpenIfNeededOnServerStart opens a listed file, or one that holds nothing.
LEMMA BootCovered ==
    ASSUME CoverInv, Boot
    PROVE  Named' /\ Covered'
<1>1. /\ WellFormed(aof_manifest) /\ DiskOK(disk) /\ pc # "down" /\ dataset \in Image
      /\ UNCHANGED <<temp_am, disk_manifest>>
      /\ Lists(aof_manifest, Filled(disk)) /\ Lists(disk_manifest, Filled(disk))
  BY DEF CoverInv, TypeInv, TypeOK, Inv, Manifests, Covered, Boot, BootBase, BootOpen,
         BootError, BootDelHistory, memory, fs
<1>2. CASE BootBase
  <2>1. PICK f, c : f = Base(aof_manifest.base_seq + 1) /\ c = BaseFile(dataset)
    OBVIOUS
  <2>2. f \in File /\ f[1] # "incr" /\ ContentOK(c)
    BY <1>1, <2>1, NewFileType DEF WellFormed, Manifest, File, Base
  <2>3. /\ pc' = "boot_open"
        /\ \/ aof_manifest' = aof_manifest /\ disk' = disk
           \/ aof_manifest' = NewBase(aof_manifest) /\ disk' = With(disk, f, c)
    BY <1>2, <2>1 DEF BootBase, Goto
  <2>4. Filled(disk') \subseteq Filled(disk)
    <3>1. CASE disk' = With(disk, f, c)
      <4>1. Adds(disk', disk, f, c)
        BY <1>1, <2>2, <3>1, WithType
      <4> QED BY <2>2, <4>1, AddsFilled
    <3> QED BY <2>3, <3>1
  <2>5. Lists(aof_manifest, Filled(disk')) /\ Lists(disk_manifest, Filled(disk'))
    BY <1>1, <2>4 DEF Lists
  <2>6. \A g \in Filled(disk') : g[1] = "incr"
    BY DEF Filled
  <2>7. aof_manifest'.names = aof_manifest.names /\ Lists(aof_manifest', Filled(disk'))
    BY <1>1, <2>3, <2>5, <2>6, NewBaseLists
  <2>8. ~Editing' /\ ~Deleting'
    BY <2>3 DEF Editing, Deleting, At, Persisting
  <2> QED BY <1>1, <2>5, <2>7, <2>8 DEF CoverInv, Named, Covered
<1>3. CASE BootOpen
  <2>1. PICK f : /\ f = Incr(LastIncr(aof_manifest'))
                 /\ disk' = IF f \in DOMAIN disk THEN disk ELSE With(disk, f, EmptyFile)
    BY <1>3 DEF BootOpen
  <2>2. f \in File
    BY <1>3, <2>1, BootIncr DEF CoverInv, TypeInv
  <2>3. Filled(disk') \subseteq Filled(disk)
    <3>1. CASE f \in DOMAIN disk
      BY <2>1, <3>1
    <3>2. CASE f \notin DOMAIN disk
      <4>1. disk' = With(disk, f, EmptyFile) /\ ContentOK(EmptyFile) /\ EmptyFile.data = <<>>
        BY <2>1, <3>2, NewFileType
      <4>2. Adds(disk', disk, f, EmptyFile)
        BY <1>1, <2>2, <4>1, WithType
      <4> QED BY <4>1, <4>2, AddsFilled
    <3> QED BY <3>1, <3>2
  <2>4. /\ aof_manifest' \in {aof_manifest, NewIncr(aof_manifest)}
        /\ pc' = "persist" /\ cont' = "boot"
    BY <1>3 DEF BootOpen, Call
  <2>5. Lists(aof_manifest, Filled(disk')) /\ Lists(disk_manifest, Filled(disk'))
    BY <1>1, <2>3 DEF Lists
  <2>6. aof_manifest'.names = aof_manifest.names /\ Lists(aof_manifest', Filled(disk'))
    BY <1>1, <2>4, <2>5, NewIncrLists
  <2>7. ~Editing' /\ ~Deleting'
    BY <2>4 DEF Editing, Deleting, At, Persisting
  <2> QED BY <1>1, <2>5, <2>6, <2>7 DEF CoverInv, Named, Covered
<1>4. CASE BootError
  BY <1>1, <1>4, QuietCovered
     DEF BootError, memory, fs, Goto, Editing, Deleting, At, Persisting
<1>5. CASE BootDelHistory
  <2>1. /\ UNCHANGED <<aof_manifest, disk>>
        /\ \/ pc' = "idle"
           \/ pc' = "unlink" /\ unlinking' = aof_manifest.hist
    BY <1>5 DEF BootDelHistory, Goto, UnlinkThen, Removable, memory, fs, CoverInv, Named
  <2>2. ~Editing' /\ (Deleting' => unlinking' = aof_manifest.hist)
    BY <2>1 DEF Editing, Deleting, At, Persisting
  <2> QED BY <1>1, <2>1, <2>2 DEF CoverInv, Named, Covered
<1> QED BY <1>2, <1>3, <1>4, <1>5 DEF Boot

\* Crashes and the start of the server only shorten files.
LEMMA EnvironmentCovered ==
    ASSUME CoverInv, Environment
    PROVE  Named' /\ Covered'
<1>1. /\ DiskOK(disk) /\ WellFormed(disk_manifest) /\ Live(disk_manifest) \subseteq DOMAIN disk
      /\ Lists(disk_manifest, Filled(disk)) /\ disk_manifest.names # "garbled"
  BY DEF CoverInv, TypeInv, Inv, Manifests, LiveFilesExist, Covered, Named
<1>2. CASE Kill \/ PowerLoss
  <2>1. Filled(disk') \subseteq Filled(disk)
    <3>1. CASE Kill
      BY <3>1 DEF Kill
    <3>2. CASE PowerLoss
      <4>1. PICK d \in Survivors : disk' = d
        BY <3>2 DEF PowerLoss
      <4>2. /\ DOMAIN d = DOMAIN disk /\ DiskOK(d)
            /\ \A g \in DOMAIN disk :
                 \E n \in 0 .. Len(disk[g].data) : d[g].data = SubSeq(disk[g].data, 1, n)
        BY <1>1, SurvivorsType
      <4>3. ASSUME NEW g \in DOMAIN disk, disk[g].data = <<>> PROVE d[g].data = <<>>
        <5>1. PICK n \in 0 .. Len(disk[g].data) : d[g].data = SubSeq(disk[g].data, 1, n)
          BY <4>2
        <5>2. n = 0 /\ SubSeq(<<>>, 1, 0) = <<>>
          BY <4>3
        <5> QED BY <4>3, <5>1, <5>2
      <4> QED BY <4>1, <4>2, <4>3 DEF Filled
    <3> QED BY <1>2, <3>1, <3>2
  <2>2. /\ pc' = "down" /\ aof_manifest' = EmptyManifest /\ temp_am' = EmptyManifest
        /\ UNCHANGED disk_manifest
    BY <1>2 DEF Kill, PowerLoss, Stop
  <2>3. EmptyManifest.names = "ok"
    BY DEF EmptyManifest
  <2>4. ~Editing' /\ ~Deleting'
    BY <2>2 DEF Editing, Deleting, At, Persisting
  <2> QED BY <1>1, <2>1, <2>2, <2>3, <2>4 DEF Named, Covered, Lists
<1>3. PICK r : r = LoadAppendOnlyFiles(disk_manifest, disk)
  OBVIOUS
<1>4. /\ DOMAIN AfterLoad(disk, r) = DOMAIN disk
      /\ \A f \in DOMAIN disk : disk[f].data = <<>> => AfterLoad(disk, r)[f].data = <<>>
  BY <1>1, <1>3, LoadType, AfterLoadType
<1>5. Filled(AfterLoad(disk, r)) \subseteq Filled(disk)
  BY <1>4 DEF Filled
<1>6. CASE StartServer \/ StartServerOff
  <2>1. disk' = AfterLoad(disk, r) \/ disk' = disk
    BY <1>3, <1>6 DEF StartServer, StartServerOff
  <2>2. /\ aof_manifest' = LoadManifest(disk_manifest) /\ UNCHANGED <<temp_am, disk_manifest>>
        /\ pc' \in {"boot_base", "del_boot"}
    BY <1>6 DEF StartServer, StartServerOff, Booted, Goto
  <2>3. /\ Live(aof_manifest') = Live(disk_manifest) /\ aof_manifest'.hist = disk_manifest.hist
        /\ aof_manifest'.names # "garbled"
    BY <1>1, <2>2, LoadManifestLists
  <2>4. ~Editing' /\ ~Deleting'
    BY <2>2 DEF Editing, Deleting, At, Persisting
  <2> QED BY <1>1, <1>5, <2>1, <2>2, <2>3, <2>4 DEF CoverInv, Named, Covered, Lists
<1>7. CASE StartServerFatal
  <2>1. disk' = AfterLoad(disk, r)
        /\ UNCHANGED <<aof_manifest, temp_am, disk_manifest, pc, cont, unlinking>> /\ pc = "down"
    BY <1>3, <1>7 DEF StartServerFatal, memory, control
  <2>2. ~Editing' /\ ~Deleting'
    BY <2>1 DEF Editing, Deleting, At, Persisting
  <2> QED BY <1>1, <1>5, <2>1, <2>2, QuietCovered
<1> QED BY <1>2, <1>6, <1>7 DEF Environment

\* The first state, and every step.
LEMMA InitCoverInv ==
    ASSUME Init
    PROVE  CoverInv
<1>1. TypeInv
  BY InitTypeInv
<1>2. Named /\ Covered
  BY DEF Init, Named, Covered, Lists, Filled, Editing, Deleting, At, Persisting, EmptyManifest
<1> QED BY <1>1, <1>2 DEF CoverInv

\* CoverInv is inductive.
LEMMA NextCoverInv ==
    ASSUME CoverInv, [Next]_vars, "garbage" \notin FreedName, "dirfsync" \notin MayFail
    PROVE  CoverInv'
<1>1. TypeInv'
  BY NextTypeInv DEF CoverInv
<1>2. CASE UNCHANGED vars
  BY <1>1, <1>2 DEF vars, memory, control, fs, CoverInv, Named, Covered, Editing,
       Deleting, At, Persisting
<1>3. CASE Next
  BY <1>1, <1>3, FlushCovered, IdleCovered, RewriteCovered, StartCovered, PersistCovered,
     UnlinkCovered, BootCovered, EnvironmentCovered DEF Next, Running, CoverInv
<1> QED BY <1>2, <1>3

\* The strengthening that makes OrphanIncrEmpty inductive.
THEOREM CoverInvHolds ==
    ASSUME "garbage" \notin FreedName, "dirfsync" \notin MayFail
    PROVE  Spec => []CoverInv
  BY InitCoverInv, NextCoverInv, PTL DEF Spec

\* An INCR file that the manifest on disk does not list holds nothing, so that a
\* restart that opens it again under the same name, without O_TRUNC, resurrects
\* no command.
THEOREM OrphansAreEmpty ==
    ASSUME "garbage" \notin FreedName, "dirfsync" \notin MayFail
    PROVE  Spec => []OrphanIncrEmpty
<1>1. CoverInv => OrphanIncrEmpty
  BY DEF CoverInv, Covered, Lists, Filled, OrphanIncrEmpty
<1> QED BY <1>1, CoverInvHolds, PTL

-----------------------------------------------------------------------------
(* The files and the buffer hold the dataset: the invariant.               *)

\* Nothing ever switches to another INCR file.
Fixed == Admin \cap {"yes", "multi_yes", "bgrewriteaof", "multi_bgrewriteaof", "auto"} = {}

\* A write error is fatal, or does not happen, or meets a descriptor with O_APPEND.
WritesSafe ==
    \/ AofFsync = "always"
    \/ {"write", "short_write"} \cap MayFail = {}
    \/ Fixed

\* Where the server has a file to append to (see Appending).
Ready ==
    \/ server.aof_state = "ON" /\ pc \notin {"boot_base", "boot_open", "exit", "down"}
    \/ Persisting("del_start") \/ At("unlink", "del_start") \/ pc = "start_done"

\* Where startAppendOnly has committed the new manifest or is about to.
Enabling == Persisting("start") \/ pc = "start_adopt"

\* Where openNewIncrAofForAppend has a new file.
Switching == Persisting("rw") \/ pc = "rw_swap"

\* What has been loaded at server start is the dataset.
Booting ==
    pc \in {"boot_base", "boot_open"} =>
        /\ Whole(aof_manifest, disk, dataset)
        /\ server.aof_selected_db = -1 /\ server.aof_buf = <<>>

\* The files with aof_buf appended load as the dataset, and a reader of both is
\* in the database that aof_selected_db says; the next write leaves no hole.
Complete ==
    Ready => /\ Ends(aof_manifest, disk, server.aof_buf, dataset, server.aof_selected_db)
             /\ server.aof_last_incr_size = Len(disk[server.aof_fd.file].data)
             /\ server.aof_fd.gap = 0

\* startAppendOnly.
InStart ==
    \/ pc \in {"start_open", "start_rewrite", "start_rename_base", "start_rename_incr",
               "start_adopt", "start_done"}
    \/ Persisting("start") \/ Persisting("del_start") \/ At("unlink", "del_start")

\* startAppendOnly takes a snapshot of the dataset, which nothing changes until
\* the manifest that lists it is adopted.
Rewritten ==
    /\ InStart => server.aof_selected_db = -1 /\ server.aof_buf = <<>>
    /\ pc = "start_rename_base" => disk[TempBase].data = <<Snap(dataset)>>
    /\ pc = "start_rename_incr" => disk[Base(temp_am.base)].data = <<Snap(dataset)>>
    /\ pc \in {"start_rewrite", "start_rename_base", "start_rename_incr"} \/ Enabling
            => server.aof_last_incr_size = 0 /\ server.aof_fd.gap = 0
    /\ Enabling => /\ Ends(temp_am, disk, <<>>, dataset, -1)
                   /\ disk[server.aof_fd.file].data = <<>>

\* A rewrite in the background resets the database, flushes, and opens a new file.
Switched ==
    /\ pc = "fsync" => server.aof_buf = <<>>
    /\ pc \in {"flush", "fsync"} /\ cont = "rw_open" => server.aof_selected_db = -1
    /\ pc = "rw_open" \/ Switching => server.aof_selected_db = -1 /\ server.aof_buf = <<>>
    /\ Switching => /\ temp_am.base = aof_manifest.base
                    /\ temp_am.incr_seq = aof_manifest.incr_seq + 1
                    /\ temp_am.incr = aof_manifest.incr \cup {temp_am.incr_seq}
                    /\ disk[Incr(temp_am.incr_seq)].data = <<>>

\* A descriptor of server start, with O_APPEND, stays the one in use when nothing
\* switches files.
Steady ==
    Fixed => /\ ~server.aof_rewrite_scheduled
             /\ ~InStart /\ ~Switching /\ pc # "rw_open"
             /\ pc \in {"flush", "fsync"} => cont # "rw_open"
             /\ Ready => server.aof_fd.append

\* Snapshots are in BASE files only.
PlainBuffer == Plain(disk) /\ NoSnap(server.aof_buf)

LogRest == Booting /\ Complete /\ Rewritten /\ Switched

\* The inductive invariant.
LogInv == CoverInv /\ PlainBuffer /\ LogRest /\ Steady

-----------------------------------------------------------------------------
(* Snapshots stay in BASE files.                                           *)

\* Concatenation and prefixes.
LEMMA NoSnapParts ==
    ASSUME NEW a \in Seq(Token), NEW b \in Seq(Token)
    PROVE  /\ NoSnap(a) /\ NoSnap(b) => NoSnap(a \o b)
           /\ \A i \in 1 .. Len(a) + 1, j \in 0 .. Len(a) : NoSnap(a) => NoSnap(SubSeq(a, i, j))
<1>1. NoSnap(a) /\ NoSnap(b) => NoSnap(a \o b)
  BY ConcatProperties DEF NoSnap
<1>2. ASSUME NEW i \in 1 .. Len(a) + 1, NEW j \in 0 .. Len(a), NoSnap(a)
      PROVE  NoSnap(SubSeq(a, i, j))
  <2>1. i \in Int /\ j \in Int /\ \A k \in i .. j : a[k] \in Token
    OBVIOUS
  <2>2. PICK s : s = SubSeq(a, i, j)
    OBVIOUS
  <2>3. /\ Len(s) = IF i <= j THEN j - i + 1 ELSE 0
        /\ \A k \in 1 .. j - i + 1 : s[k] = a[i + k - 1]
    BY <2>1, <2>2, SubSeqProperties
  <2>4. \A k \in 1 .. Len(s) : s[k] = a[i + k - 1] /\ i + k - 1 \in 1 .. Len(a)
    BY <2>3
  <2> QED BY <1>2, <2>2, <2>4 DEF NoSnap
<1> QED BY <1>1, <1>2

\* The tokens of a command, of a hole, and none.
LEMMA NoSnapEntry ==
    /\ NoSnap(<<>>)
    /\ \A i, b \in Nat : \A sel : NoSnap(Entry([id |-> i, db |-> b], sel))
    /\ \A n \in Nat : NoSnap(Holes(n))
<1>1. NoSnap(<<>>)
  BY DEF NoSnap
<1>2. ASSUME NEW i \in Nat, NEW b \in Nat, NEW sel
      PROVE  NoSnap(Entry([id |-> i, db |-> b], sel))
  <2>1. PICK s, h, t \in Token : s = Sel(b) /\ h = CmdHead(i) /\ t = CmdTail(i)
    BY EmptySeq DEF Sel, CmdHead, CmdTail, Token, Image
  <2>2. s.kind # "snap" /\ h.kind # "snap" /\ t.kind # "snap"
    BY <2>1 DEF Sel, CmdHead, CmdTail
  <2>a. PICK y, z, u : /\ y \in Seq(Token) /\ z \in Seq(Token) /\ u \in Seq(Token)
                       /\ y = <<>> /\ z = <<s>> /\ u = <<h, t>>
    <3>1. <<>> \in Seq(Token)
      BY EmptySeq
    <3>2. <<s>> \in Seq(Token) /\ <<h, t>> \in Seq(Token)
      OBVIOUS
    <3> QED BY <3>1, <3>2
  <2>b. NoSnap(y) /\ NoSnap(z) /\ NoSnap(u)
    BY <2>2, <2>a DEF NoSnap
  <2>3. PICK e : e = Entry([id |-> i, db |-> b], sel)
    OBVIOUS
  <2>4. e = y \o u \/ e = z \o u
    BY <2>1, <2>3, <2>a DEF Entry
  <2> QED BY <2>3, <2>4, <2>a, <2>b, NoSnapParts
<1>3. \A n \in Nat : NoSnap(Holes(n))
  BY DEF NoSnap, Holes, Hole
<1> QED BY <1>1, <1>2, <1>3

\* The contents a file is created with.
LEMMA PlainNew ==
    /\ \A f : f[1] \notin {"base", "temp_base"} => PlainFile(f, EmptyFile)
    /\ \A f, ds : f[1] \in {"base", "temp_base"} => PlainFile(f, BaseFile(ds))
    /\ TempBase[1] = "temp_base" /\ TempIncr[1] = "temp_incr"
    /\ \A n : Base(n)[1] = "base" /\ Incr(n)[1] = "incr"
<1>1. EmptyFile.data = <<>>
  BY DEF EmptyFile
<1>2. ASSUME NEW f, f[1] \in {"base", "temp_base"}, NEW ds PROVE PlainFile(f, BaseFile(ds))
  <2>1. PICK c, x : c = BaseFile(ds) /\ x = Snap(ds)
    OBVIOUS
  <2>2. c.synced = 1 /\ c.data = <<x>>
    BY <2>1 DEF BaseFile
  <2>3. c.data[1] = x /\ x.image = ds
    BY <2>1, <2>2 DEF Snap
  <2> QED BY <1>2, <2>1, <2>2, <2>3 DEF PlainFile
<1>3. \A f : f[1] \notin {"base", "temp_base"} => PlainFile(f, EmptyFile)
  BY <1>1, NoSnapEntry DEF PlainFile
<1> QED BY <1>2, <1>3 DEF TempBase, TempIncr, Base, Incr

\* A file of no kind that holds snapshots changes.
LEMMA PlainChange ==
    ASSUME NEW d, Plain(d), NEW w, NEW f,
           DOMAIN w \subseteq DOMAIN d \cup {f},
           \A g \in DOMAIN w : g # f => w[g] = d[g],
           f \in DOMAIN w => PlainFile(f, w[f])
    PROVE  Plain(w)
  BY DEF Plain

\* The descriptor is not one of a BASE file.
LEMMA FdPlain ==
    ASSUME Descriptor
    PROVE  server.aof_fd.file[1] \notin {"base", "temp_base"}
  BY DEF Descriptor, Incr, TempIncr, NoFile, Unlinked

\* fsync(aof_fd)
LEMMA FsyncPlain ==
    ASSUME Descriptor, DiskOK(disk), Plain(disk)
    PROVE  Plain(FsyncFd(disk)) /\ \A synced \in BOOLEAN : Plain(CloseOld(synced))
<1>1. PICK f, w : f = server.aof_fd.file /\ w = FsyncFd(disk)
  OBVIOUS
<1>2. f[1] \notin {"base", "temp_base"}
  BY <1>1, FdPlain
<1>3. DOMAIN w = DOMAIN disk /\ \A g \in DOMAIN disk : w[g].data = disk[g].data
  BY <1>1, FsyncFdType
<1>4. \A g \in DOMAIN disk : g # f => w[g] = disk[g]
  BY <1>1 DEF FsyncFd
<1>5. f \in DOMAIN w => PlainFile(f, w[f])
  BY <1>2, <1>3 DEF Plain, PlainFile
<1>6. Plain(w)
  BY <1>3, <1>4, <1>5, PlainChange
<1> QED BY <1>1, <1>6 DEF CloseOld

\* A shorter file of commands.
LEMMA CutPlain ==
    ASSUME NEW f, f[1] \notin {"base", "temp_base"}, NEW c, ContentOK(c), NoSnap(c.data),
           NEW n \in 0 .. Len(c.data)
    PROVE  PlainFile(f, CutAt(c, n)) /\ PlainFile(f, Synced(CutAt(c, n)))
<1>1. PICK p : p = CutAt(c, n)
  OBVIOUS
<1>2. p.data = SubSeq(c.data, 1, n) /\ ContentOK(p)
  BY <1>1, CutAtType
<1>3. c.data \in Seq(Token) /\ Len(c.data) \in Nat
  BY DEF ContentOK
<1>4. NoSnap(SubSeq(c.data, 1, n))
  <2>1. PICK a \in Seq(Token) : a = c.data
    BY <1>3
  <2>2. 1 \in 1 .. Len(a) + 1 /\ n \in 0 .. Len(a)
    BY <1>3, <2>1
  <2> QED BY <2>1, <2>2, NoSnapParts
<1>5. Synced(p).data = p.data
  BY <1>2, SyncedType
<1> QED BY <1>1, <1>2, <1>4, <1>5 DEF PlainFile

\* write(aof_fd)
LEMMA WritePlain ==
    ASSUME Descriptor, DiskOK(disk), server \in ServerState, Plain(disk),
           NEW toks \in Seq(Token), NoSnap(toks)
    PROVE  Plain(WriteFd(toks))
<1>1. PICK f, w, g0 : f = server.aof_fd.file /\ w = WriteFd(toks) /\ g0 = server.aof_fd.gap
  OBVIOUS
<1>2. f[1] \notin {"base", "temp_base"} /\ g0 \in Nat
  BY <1>1, FdPlain DEF ServerState
<1>3. DOMAIN w = DOMAIN disk /\ \A g \in DOMAIN disk : g # f => w[g] = disk[g]
  BY <1>1, WriteFdType
<1>4. ASSUME f \in DOMAIN w PROVE PlainFile(f, w[f])
  <2>1. w[f].data = (disk[f].data \o Holes(g0)) \o toks /\ disk[f].data \in Seq(Token)
    BY <1>1, <1>3, <1>4, WriteFdType
  <2>2. PICK a, h : a = disk[f].data /\ h = Holes(g0)
    OBVIOUS
  <2>3. a \in Seq(Token) /\ h \in Seq(Token)
    <3>1. Hole \in Token
      BY EmptySeq DEF Hole, Token, Image
    <3> QED BY <1>2, <2>1, <2>2, <3>1 DEF Holes
  <2>4. NoSnap(a) /\ NoSnap(h)
    BY <1>2, <1>3, <1>4, <2>2, NoSnapEntry DEF Plain, PlainFile
  <2>5. PICK b \in Seq(Token) : b = a \o h /\ NoSnap(b)
    BY <2>3, <2>4, NoSnapParts, ConcatProperties
  <2>6. NoSnap(b \o toks)
    BY <2>5, NoSnapParts
  <2> QED BY <1>2, <2>1, <2>2, <2>5, <2>6 DEF PlainFile
<1>5. Plain(w)
  BY <1>3, <1>4, PlainChange
<1> QED BY <1>1, <1>5

\* What may have been loaded when no BASE file has been cut.
CutsIncr(live, d) == {acc \in Progress(live, d) : acc.cut.file[1] # "base"}

\* loadAppendOnlyFiles never cuts a BASE file.
LEMMA LoadCutsIncr ==
    ASSUME NEW m, WellFormed(m), NEW d, DiskOK(d), Plain(d), Live(m) \subseteq DOMAIN d,
           m.names # "garbled"
    PROVE  LoadAppendOnlyFiles(m, d) \in CutsIncr(Live(m), d)
<1>1. PICK live, b, n : /\ live = Live(m) /\ b = m.base /\ n = m.incr_seq /\ b \in Nat /\ n \in Nat
                        /\ LoadAppendOnlyFiles(m, d) = Loaded(live, d, b, n)
  BY LoadsAsFold, LoadOrderIs DEF Loaded
<1>2. NothingLoaded \in CutsIncr(live, d)
  BY EmptySeq DEF NothingLoaded, Progress, Image, CutsIncr, NoFile
<1>3. ASSUME NEW acc \in CutsIncr(live, d), NEW f \in Listed
      PROVE  LoadNext(live, d, acc, f) \in CutsIncr(live, d)
  <2>1. PICK x : x = LoadNext(live, d, acc, f) /\ x \in Progress(live, d)
    BY <1>1, LoadNextType DEF CutsIncr
  <2>2. CASE f \notin live
    BY <2>1, <2>2 DEF LoadNext
  <2>3. CASE f \in live /\ acc.ret # "OK"
    <3>1. x = [acc EXCEPT !.ret = "FAILED"]
      BY <2>1, <2>3 DEF LoadNext
    <3>2. x.cut = acc.cut
      BY <3>1 DEF CutsIncr, Progress
    <3> QED BY <2>1, <3>2 DEF CutsIncr
  <2>4. CASE f \in live /\ acc.ret = "OK"
    <3>1. PICK r, st : r = LoadFile(acc.ds, d[f].data) /\ st = Read(acc.ds, d[f].data)
      OBVIOUS
    <3>2. x = [ds |-> r.ds, ret |-> r.ret,
               cut |-> IF r.ret = "TRUNCATED" THEN [file |-> f, at |-> r.valid] ELSE acc.cut]
      BY <2>1, <2>4, <3>1 DEF LoadNext
    <3>3. CASE f[1] # "base"
      <4>1. x.cut.file = f \/ x.cut = acc.cut
        BY <3>2
      <4> QED BY <2>1, <3>3, <4>1 DEF CutsIncr
    <3>4. CASE f[1] = "base"
      <4>1. PICK c : c = d[f]
        OBVIOUS
      <4>2. c.data = <<Snap(c.data[1].image)>> /\ c.data \in Seq(Token)
        BY <1>1, <2>4, <3>4, <4>1 DEF Plain, PlainFile, DiskOK, ContentOK
      <4>3. PICK y, ds : y = c.data[1] /\ ds = c.data[1].image
        OBVIOUS
      <4>4. y \in Token
        <5>1. PICK z : z = Snap(c.data[1].image)
          OBVIOUS
        <5>2. c.data = <<z>>
          BY <4>2, <5>1
        <5> QED BY <4>2, <4>3, <5>2
      <4>5. ds \in Image
        BY <4>3, <4>4 DEF Token
      <4>6. Reads(acc.ds, d[f].data, ds, -1)
        BY <4>1, <4>2, <4>3, <4>5, ReadsSnap
      <4>7. st.ok /\ st.open = 0
        BY <3>1, <4>6 DEF Reads
      <4>8. Returns(x, st, f)
        BY <2>1, <2>4, <3>1, LoadNextReads
      <4>9. x.ret = "OK"
        BY <4>7, <4>8 DEF Returns
      <4>10. x.cut = acc.cut
        BY <3>2, <4>9
      <4> QED BY <2>1, <4>10 DEF CutsIncr
    <3> QED BY <3>3, <3>4
  <2> QED BY <2>1, <2>2, <2>3, <2>4
<1>4. PICK e, P, s : e = <<live, d>> /\ P = CutsIncr(live, d) /\ s = Order(b, n)
  OBVIOUS
<1>5. e[1] = live /\ e[2] = d
  BY <1>4
<1>6. \A acc \in P, f \in Listed : FileStep(e, acc, f) \in P
  BY <1>3, <1>4, <1>5 DEF FileStep
<1>7. s \in Seq(Listed)
  BY <1>1, <1>4, OrderFacts
<1>8. Files!Fold(e, NothingLoaded, s) \in P
  BY <1>2, <1>4, <1>6, <1>7, Files!FoldType
<1> QED BY <1>1, <1>4, <1>8 DEF Loaded

\* loadAppendOnlyFiles, whether or not it returns.
LEMMA AfterLoadPlain ==
    ASSUME NEW m, WellFormed(m), NEW d, DiskOK(d), Plain(d), Live(m) \subseteq DOMAIN d,
           m.names # "garbled", NEW w, w = AfterLoad(d, LoadAppendOnlyFiles(m, d))
    PROVE  Plain(w)
<1>1. PICK r \in CutsIncr(Live(m), d) : r = LoadAppendOnlyFiles(m, d)
  BY LoadCutsIncr
<1>2. CASE r.cut.file = NoFile
  BY <1>1, <1>2 DEF AfterLoad
<1>3. CASE r.cut.file # NoFile
  <2>1. PICK f, n : f = r.cut.file /\ n = r.cut.at
    OBVIOUS
  <2>2. f \in Live(m) /\ f \in DOMAIN d /\ n \in 0 .. Len(d[f].data) /\ f[1] # "base"
    BY <1>3, <2>1 DEF CutsIncr, Progress
  <2>3. f[1] \notin {"base", "temp_base"}
    BY <2>2 DEF Live, Base, Incr
  <2>4. w = [d EXCEPT ![f] = CutAt(d[f], n)]
    BY <1>1, <1>3, <2>1 DEF AfterLoad
  <2>5. ContentOK(d[f]) /\ NoSnap(d[f].data)
    BY <2>2, <2>3 DEF DiskOK, Plain, PlainFile
  <2>6. PlainFile(f, CutAt(d[f], n))
    BY <2>2, <2>3, <2>5, CutPlain
  <2>7. DOMAIN w = DOMAIN d /\ w[f] = CutAt(d[f], n) /\ \A g \in DOMAIN d : g # f => w[g] = d[g]
    BY <2>2, <2>4
  <2> QED BY <2>6, <2>7, PlainChange
<1> QED BY <1>2, <1>3

\* A power loss leaves BASE files alone: they are synced before they are renamed.
LEMMA SurvivorsPlain ==
    ASSUME DiskOK(disk), Plain(disk), NEW d \in Survivors
    PROVE  Plain(d)
<1>1. DOMAIN d = DOMAIN disk
  BY SurvivorsType
<1>2. ASSUME NEW g \in DOMAIN disk PROVE PlainFile(g, d[g])
  <2>1. ContentOK(disk[g]) /\ PlainFile(g, disk[g])
    BY DEF DiskOK, Plain
  <2>2. CASE g[1] \in {"base", "temp_base"}
    <3>1. disk[g].synced = 1 /\ disk[g].data = <<Snap(disk[g].data[1].image)>>
      BY <2>1, <2>2 DEF PlainFile
    <3>2. PICK x : x = Snap(disk[g].data[1].image)
      OBVIOUS
    <3>3. disk[g].data = <<x>>
      BY <3>1, <3>2
    <3>4. ~(disk[g].synced < Len(disk[g].data))
      BY <3>1, <3>3
    <3>5. d[g] = disk[g]
      BY <3>4 DEF Survivors
    <3> QED BY <2>1, <3>5
  <2>3. CASE g[1] \notin {"base", "temp_base"}
    <3>1. PICK n \in 0 .. Len(disk[g].data) : d[g].data = SubSeq(disk[g].data, 1, n)
      BY SurvivorsType
    <3>2. NoSnap(disk[g].data)
      BY <2>1, <2>3 DEF PlainFile
    <3>3. PICK p : p = CutAt(disk[g], n) /\ PlainFile(g, p)
      BY <2>1, <2>3, <3>2, CutPlain
    <3>4. p.data = d[g].data
      BY <2>1, <3>1, <3>3, CutAtType
    <3> QED BY <2>3, <3>3, <3>4 DEF PlainFile
  <2> QED BY <2>2, <2>3
<1> QED BY <1>1, <1>2 DEF Plain

\* A file created or overwritten.
LEMMA WithPlain ==
    ASSUME NEW d, DiskOK(d), Plain(d), NEW f \in File, NEW c, ContentOK(c), PlainFile(f, c),
           NEW w, w = With(d, f, c)
    PROVE  Plain(w)
<1>1. Adds(w, d, f, c)
  BY WithType
<1> QED BY <1>1, PlainChange DEF Adds

\* A file renamed.
LEMMA RenamedPlain ==
    ASSUME DiskOK(disk), Plain(disk), NEW f \in DOMAIN disk, NEW t \in File,
           (f[1] \in {"base", "temp_base"}) <=> (t[1] \in {"base", "temp_base"})
    PROVE  Plain(Renamed(f, t))
<1>1. PICK w : w = Renamed(f, t)
  OBVIOUS
<1>2. /\ DOMAIN w = (DOMAIN disk \ {f}) \cup {t} /\ w[t] = disk[f]
      /\ \A g \in DOMAIN disk \ {f} : g # t => w[g] = disk[g]
  BY <1>1, RenamedType
<1>3. PlainFile(t, w[t])
  BY <1>2 DEF Plain, PlainFile
<1>4. Plain(w)
  BY <1>2, <1>3, PlainChange
<1> QED BY <1>1, <1>4

\* flushAppendOnlyFile
LEMMA FlushPlain ==
    ASSUME CoverInv, PlainBuffer, Flush
    PROVE  PlainBuffer'
<1>1. /\ server \in ServerState /\ DiskOK(disk) /\ TypeInv /\ Descriptor
      /\ server.aof_buf \in Seq(Token) /\ Len(server.aof_buf) \in Nat
      /\ server.aof_last_incr_size \in Nat /\ Plain(disk) /\ NoSnap(server.aof_buf)
  BY TypeParts DEF CoverInv, TypeInv, ServerState, PlainBuffer
<1>2. NoSnap(<<>>)
  BY NoSnapEntry
<1>3. CASE \E due \in BOOLEAN : FlushEmpty(due)
  <2>1. disk' = disk /\ server'.aof_buf = server.aof_buf
    BY <1>1, <1>3 DEF FlushEmpty, fs, ServerState
  <2> QED BY <1>1, <2>1 DEF PlainBuffer
<1>4. CASE \E due \in BOOLEAN : FlushWrite(due)
  <2>1. disk' = WriteFd(server.aof_buf) /\ server'.aof_buf = <<>>
    BY <1>1, <1>4 DEF FlushWrite, ServerState
  <2> QED BY <1>1, <1>2, <2>1, WritePlain DEF PlainBuffer
<1>5. CASE FlushError \/ FlushFsyncError
  <2>1. disk' = disk /\ server'.aof_buf = server.aof_buf
    BY <1>1, <1>5 DEF FlushError, FlushFsyncError, WriteError, fs, ServerState
  <2> QED BY <1>1, <2>1 DEF PlainBuffer
<1>6. CASE FlushFsync
  <2>1. disk' = FsyncFd(disk) /\ server'.aof_buf = server.aof_buf
    BY <1>1, <1>6 DEF FlushFsync, ServerState
  <2> QED BY <1>1, <2>1, FsyncPlain DEF PlainBuffer
<1>7. ASSUME NEW k \in 1 .. Len(server.aof_buf) - 1, FlushShort(k) PROVE PlainBuffer'
  <2>1. PICK toks, short, f, n : /\ toks = SubSeq(server.aof_buf, 1, k) /\ short = WriteFd(toks)
                                 /\ f = server.aof_fd.file /\ n = server.aof_last_incr_size
    OBVIOUS
  <2>2. pc = "flush" /\ server.aof_buf # <<>> /\ toks \in Seq(Token)
    BY <1>1, <1>7, <2>1 DEF FlushShort
  <2>3. NoSnap(toks)
    BY <1>1, <2>1, NoSnapParts
  <2>4. Plain(short)
    BY <1>1, <2>1, <2>2, <2>3, WritePlain
  <2>5. /\ DOMAIN short = DOMAIN disk /\ f \in DOMAIN disk /\ ContentOK(short[f])
        /\ Len(short[f].data) = Len(disk[f].data) + server.aof_fd.gap + Len(toks)
        /\ n <= Len(disk[f].data)
    BY <1>1, <2>1, <2>2, WriteFdType, WritesLive DEF Descriptor, DiskOK
  <2>6. n \in 0 .. Len(short[f].data) /\ f[1] \notin {"base", "temp_base"}
    <3>1. Len(disk[f].data) \in Nat /\ server.aof_fd.gap \in Nat /\ Len(toks) \in Nat
      BY <1>1, <2>2, <2>5 DEF ServerState, DiskOK, ContentOK
    <3>2. f[1] \notin {"base", "temp_base"}
      BY <1>1, <2>1, FdPlain
    <3> QED BY SMTT(30), <1>1, <2>1, <2>5, <3>1, <3>2
  <2>7. PlainFile(f, CutAt(short[f], n))
    <3>1. NoSnap(short[f].data)
      BY <2>4, <2>5, <2>6 DEF Plain, PlainFile
    <3> QED BY <2>5, <2>6, <3>1, CutPlain
  <2>8. \/ disk' = short
        \/ disk' = [short EXCEPT ![f] = CutAt(short[f], n)]
    BY <1>7, <2>1 DEF FlushShort
  <2>9. Plain(disk')
    <3>1. CASE disk' = short
      BY <2>4, <3>1
    <3>2. CASE disk' = [short EXCEPT ![f] = CutAt(short[f], n)]
      <4>1. /\ DOMAIN disk' = DOMAIN short /\ disk'[f] = CutAt(short[f], n)
            /\ \A g \in DOMAIN short : g # f => disk'[g] = short[g]
        BY <2>5, <3>2
      <4> QED BY <2>4, <2>7, <4>1, PlainChange
    <3> QED BY <2>8, <3>1, <3>2
  <2>10. server'.aof_buf = server.aof_buf \/ server'.aof_buf = SubSeq(server.aof_buf, k + 1, Len(server.aof_buf))
    BY <1>1, <1>7 DEF FlushShort, WriteError, ServerState
  <2>11. NoSnap(SubSeq(server.aof_buf, k + 1, Len(server.aof_buf)))
    <3>1. k + 1 \in 1 .. Len(server.aof_buf) + 1 /\ Len(server.aof_buf) \in 0 .. Len(server.aof_buf)
      BY <1>1
    <3> QED BY <1>1, <3>1, NoSnapParts
  <2> QED BY <1>1, <2>9, <2>10, <2>11 DEF PlainBuffer
<1> QED BY <1>3, <1>4, <1>5, <1>6, <1>7 DEF Flush

\* Commands append commands to the buffer.
LEMMA IdlePlain ==
    ASSUME CoverInv, PlainBuffer, Command \/ EventLoop \/ Reply \/ StopClose \/ ShutdownFsync
    PROVE  PlainBuffer'
<1>1. /\ server \in ServerState /\ DiskOK(disk) /\ Descriptor /\ server.aof_buf \in Seq(Token)
      /\ Plain(disk) /\ NoSnap(server.aof_buf) /\ bounds.writes \in Nat /\ NoSnap(<<>>)
  BY TypeParts, BoundAssumption, NoSnapEntry DEF CoverInv, TypeInv, ServerState, PlainBuffer, BoundType
<1>2. disk' = disk \/ disk' = FsyncFd(disk)
  BY DEF Command, EventLoop, Reply, StopClose, ShutdownFsync, Execute, FinalFsync,
       StartAppendOnly, StartAppendOnlyInExec, StopAppendOnly, BgRewriteAof,
       BgRewriteAofInExec, Shutdown, BeforeSleep, CronFlush, CronRewrite,
       RewriteBackground, fs
<1>3. Plain(disk')
  BY <1>1, <1>2, FsyncPlain
<1>4. ASSUME NEW d \in Db, Execute(d) PROVE NoSnap(server'.aof_buf)
  <2>1. PICK w, e : w = [id |-> bounds.writes + 1, db |-> d] /\ e = Entry(w, server.aof_selected_db)
    OBVIOUS
  <2>2. server'.aof_buf = server.aof_buf \/ server'.aof_buf = server.aof_buf \o e
    BY <1>1, <1>4, <2>1 DEF Execute, Feed, ServerState
  <2>3. d \in Nat /\ bounds.writes + 1 \in Nat
    BY <1>1, DbAssumption
  <2>4. NoSnap(e)
    BY <2>1, <2>3, NoSnapEntry
  <2>5. e \in Seq(Token)
    BY <2>1, <2>3, EntryType
  <2> QED BY <1>1, <2>2, <2>4, <2>5, NoSnapParts
<1>5. CASE StopClose
  <2>1. server'.aof_buf = <<>>
    BY <1>5 DEF StopClose, FreshServer
  <2> QED BY <1>1, <1>3, <2>1 DEF PlainBuffer
<1>6. CASE EventLoop \/ Reply \/ ShutdownFsync \/ StartAppendOnly \/ StartAppendOnlyInExec
            \/ StopAppendOnly \/ BgRewriteAof \/ BgRewriteAofInExec \/ Shutdown
  <2>1. server'.aof_buf = server.aof_buf
    BY <1>1, <1>6 DEF EventLoop, Reply, ShutdownFsync,
       StartAppendOnly, StartAppendOnlyInExec, StopAppendOnly, BgRewriteAof,
       BgRewriteAofInExec, Shutdown, BeforeSleep, CronFlush, CronRewrite,
       RewriteBackground, ServerState
  <2> QED BY <1>1, <1>3, <2>1 DEF PlainBuffer
<1> QED BY <1>3, <1>4, <1>5, <1>6 DEF Command, PlainBuffer

\* rewriteAppendOnlyFileBackground
LEMMA RewritePlain ==
    ASSUME CoverInv, PlainBuffer, Rewrite
    PROVE  PlainBuffer'
<1>1. /\ server \in ServerState /\ DiskOK(disk) /\ Descriptor /\ MasterReplOffset \in Nat
      /\ Plain(disk) /\ NoSnap(server.aof_buf) /\ WellFormed(aof_manifest) /\ WellFormed(temp_am)
  BY TypeParts DEF CoverInv, TypeInv, PlainBuffer, Inv, Manifests, DataType, MasterReplOffset, Image
<1>2. /\ Incr(aof_manifest.incr_seq + 1) \in File /\ TempIncr \in File
      /\ Incr(temp_am.incr_seq) \in File
      /\ ContentOK(EmptyFile) /\ PlainFile(TempIncr, EmptyFile)
      /\ PlainFile(Incr(aof_manifest.incr_seq + 1), EmptyFile)
  <2>1. aof_manifest.incr_seq \in Nat /\ temp_am.incr_seq \in Nat
    BY <1>1 DEF WellFormed, Manifest
  <2> QED BY <2>1, NewFileType, PlainNew DEF File, Incr, TempIncr
<1>3. CASE RewriteOff \/ RewriteOpenError
  BY <1>1, <1>3 DEF RewriteOff, RewriteOpenError, fs, PlainBuffer
<1>4. CASE RewriteWait
  <2>1. PICK synced \in BOOLEAN : /\ disk' = With(CloseOld(synced), TempIncr, EmptyFile)
                                  /\ server' = [SwapFd(TempIncr, synced) EXCEPT
                                        !.fsynced_reploff_pending = MasterReplOffset,
                                        !.fsynced_reploff = 0]
    BY <1>4 DEF RewriteWait
  <2>2. PICK d, s : /\ d = CloseOld(synced) /\ DiskOK(d) /\ Plain(d)
                    /\ s = SwapFd(TempIncr, synced) /\ s \in ServerState
                    /\ s.aof_buf = server.aof_buf
    BY <1>1, <1>2, CloseOldType, FsyncPlain, SwapFdType
  <2>3. Plain(disk')
    BY <1>2, <2>1, <2>2, WithPlain
  <2>4. server'.aof_buf = server.aof_buf
    BY <2>1, <2>2 DEF ServerState
  <2> QED BY <1>1, <2>3, <2>4 DEF PlainBuffer
<1>5. CASE RewriteOpen
  <2>1. disk' = With(disk, Incr(aof_manifest.incr_seq + 1), EmptyFile) /\ server' = server
    BY <1>5 DEF RewriteOpen
  <2>2. Plain(disk')
    BY <1>1, <1>2, <2>1, WithPlain
  <2> QED BY <1>1, <2>1, <2>2 DEF PlainBuffer
<1>6. CASE RewriteSwap
  <2>1. PICK synced \in BOOLEAN : /\ disk' = CloseOld(synced)
                                  /\ server' = SwapFd(Incr(temp_am.incr_seq), synced)
    BY <1>6 DEF RewriteSwap
  <2>2. server'.aof_buf = server.aof_buf
    BY <1>1, <1>2, <2>1, SwapFdType
  <2> QED BY <1>1, <2>1, <2>2, FsyncPlain DEF PlainBuffer
<1> QED BY <1>3, <1>4, <1>5, <1>6 DEF Rewrite

\* startAppendOnly
LEMMA StartPlain ==
    ASSUME CoverInv, PlainBuffer, Start
    PROVE  PlainBuffer'
<1>1. /\ server \in ServerState /\ DiskOK(disk) /\ Descriptor /\ MasterReplOffset \in Nat
      /\ Plain(disk) /\ NoSnap(server.aof_buf) /\ WellFormed(temp_am) /\ dataset \in Image
      /\ NoSnap(<<>>) /\ Temporary
  BY TypeParts, NoSnapEntry
     DEF CoverInv, TypeInv, PlainBuffer, Inv, Manifests, DataType, MasterReplOffset, Image
<1>2. /\ Incr(temp_am.incr_seq) \in File /\ Base(temp_am.base) \in File
      /\ TempIncr \in File /\ TempBase \in File
      /\ ContentOK(EmptyFile) /\ PlainFile(TempIncr, EmptyFile)
      /\ ContentOK(BaseFile(dataset)) /\ PlainFile(TempBase, BaseFile(dataset))
  <2>1. temp_am.incr_seq \in Nat /\ temp_am.base \in Nat
    BY <1>1 DEF WellFormed, Manifest
  <2> QED BY <1>1, <2>1, NewFileType, PlainNew DEF File, Incr, Base, TempIncr, TempBase
<1>3. CASE StartOpen
  <2>1. PICK synced \in BOOLEAN : /\ disk' = With(CloseOld(synced), TempIncr, EmptyFile)
                                  /\ server' = SwapFd(TempIncr, synced)
    BY <1>3 DEF StartOpen
  <2>2. PICK d : d = CloseOld(synced) /\ DiskOK(d) /\ Plain(d)
    BY <1>1, CloseOldType, FsyncPlain
  <2>3. Plain(disk')
    BY <1>2, <2>1, <2>2, WithPlain
  <2>4. server'.aof_buf = server.aof_buf
    BY <1>1, <1>2, <2>1, SwapFdType
  <2> QED BY <1>1, <2>3, <2>4 DEF PlainBuffer
<1>4. CASE StartOpenError \/ StartDone \/ StartError \/ StartAdopt
  <2>1. disk' = disk /\ server'.aof_buf \in {server.aof_buf, <<>>}
    BY <1>1, <1>4 DEF StartOpenError, StartDone, StartError, StartAdopt, fs, ServerState
  <2> QED BY <1>1, <2>1 DEF PlainBuffer
<1>5. CASE StartRewrite
  <2>1. disk' = With(disk, TempBase, BaseFile(dataset)) /\ server' = server
    BY <1>5 DEF StartRewrite
  <2>2. Plain(disk')
    BY <1>1, <1>2, <2>1, WithPlain
  <2> QED BY <1>1, <2>1, <2>2 DEF PlainBuffer
<1>6. CASE StartRenameBase
  <2>1. /\ disk' = Renamed(TempBase, Base(temp_am.base)) /\ server' = server
        /\ TempBase \in DOMAIN disk
    BY <1>1, <1>6 DEF StartRenameBase, Temporary
  <2>2. Plain(disk')
    BY <1>1, <1>2, <2>1, PlainNew, RenamedPlain
  <2> QED BY <1>1, <2>1, <2>2 DEF PlainBuffer
<1>7. CASE StartRenameIncr
  <2>1. /\ disk' = Renamed(TempIncr, Incr(temp_am.incr_seq))
        /\ server'.aof_buf = server.aof_buf /\ TempIncr \in DOMAIN disk
    BY <1>1, <1>7 DEF StartRenameIncr, Temporary, ServerState
  <2>2. Plain(disk')
    BY <1>1, <1>2, <2>1, PlainNew, RenamedPlain
  <2> QED BY <1>1, <2>1, <2>2 DEF PlainBuffer
<1> QED BY <1>3, <1>4, <1>5, <1>6, <1>7 DEF Start

\* Every step.
LEMMA PlainStep ==
    ASSUME CoverInv, PlainBuffer, [Next]_vars
    PROVE  PlainBuffer'
<1>1. /\ server \in ServerState /\ DiskOK(disk) /\ Plain(disk) /\ NoSnap(server.aof_buf)
      /\ WellFormed(aof_manifest) /\ WellFormed(disk_manifest) /\ dataset \in Image
      /\ Live(disk_manifest) \subseteq DOMAIN disk /\ disk_manifest.names # "garbled" /\ Inv
  BY TypeParts DEF CoverInv, TypeInv, PlainBuffer, Inv, Manifests, DataType, LiveFilesExist, Named
<1>2. CASE UNCHANGED vars
  BY <1>1, <1>2 DEF vars, fs, PlainBuffer
<1>3. CASE Persist
  BY <1>1, <1>3 DEF Persist, PersistClean, PersistRename, PersistSynced, PersistError, fs, PlainBuffer
<1>4. CASE Unlink
  <2>1. server'.aof_buf = server.aof_buf
    BY <1>1, <1>4 DEF Unlink, UnlinkDone, UnlinkOne, ServerState
  <2>2. disk' = disk \/ \E f : disk' = Without(f)
    BY <1>4 DEF Unlink, UnlinkDone, UnlinkOne, fs
  <2>3. Plain(disk')
    <3>1. ASSUME NEW f, disk' = Without(f) PROVE Plain(disk')
      <4>1. /\ DOMAIN disk' = DOMAIN disk \ {f}
            /\ \A g \in DOMAIN disk \ {f} : disk'[g] = disk[g]
        BY <1>1, <3>1, WithoutType
      <4> QED BY <1>1, <4>1 DEF Plain
    <3> QED BY <1>1, <2>2, <3>1
  <2> QED BY <1>1, <2>1, <2>3 DEF PlainBuffer
<1>5. CASE Boot
  <2>1. server'.aof_buf = server.aof_buf
    BY <1>1, <1>5 DEF Boot, BootBase, BootOpen, BootError, BootDelHistory, ServerState
  <2>2. Plain(disk')
    <3>1. CASE BootError \/ BootDelHistory
      BY <1>1, <3>1 DEF BootError, BootDelHistory, fs
    <3>2. CASE BootBase
      <4>1. PICK f, c : f = Base(aof_manifest.base_seq + 1) /\ c = BaseFile(dataset)
        OBVIOUS
      <4>2. f \in File /\ ContentOK(c) /\ PlainFile(f, c)
        BY <1>1, <4>1, NewFileType, PlainNew DEF WellFormed, Manifest, File, Base
      <4>3. disk' = disk \/ disk' = With(disk, f, c)
        BY <3>2, <4>1 DEF BootBase
      <4> QED BY <1>1, <4>2, <4>3, WithPlain
    <3>3. CASE BootOpen
      <4>1. PICK f : /\ f = Incr(LastIncr(aof_manifest'))
                     /\ disk' = IF f \in DOMAIN disk THEN disk ELSE With(disk, f, EmptyFile)
        BY <3>3 DEF BootOpen
      <4>2. f \in File /\ ContentOK(EmptyFile) /\ PlainFile(f, EmptyFile)
        BY <1>1, <3>3, <4>1, BootIncr, NewFileType, PlainNew
      <4> QED BY <1>1, <4>1, <4>2, WithPlain
    <3> QED BY <1>5, <3>1, <3>2, <3>3 DEF Boot
  <2> QED BY <1>1, <2>1, <2>2 DEF PlainBuffer
<1>6. CASE Environment
  <2>1. NoSnap(server'.aof_buf)
    <3>1. \/ server' = server \/ server' = FreshServer
          \/ server' = [FreshServer EXCEPT !.aof_state = "ON", !.fsynced_reploff = 0]
          \/ server' = [FreshServer EXCEPT !.aof_state = "OFF", !.fsynced_reploff = -1]
      BY <1>6 DEF Environment, Kill, PowerLoss, Stop, StartServer, StartServerFatal,
           StartServerOff, Booted
    <3>3. /\ FreshServer.aof_buf = <<>>
          /\ \A x, y : [FreshServer EXCEPT !.aof_state = x, !.fsynced_reploff = y].aof_buf = <<>>
      BY DEF FreshServer
    <3>2. server' = server \/ server'.aof_buf = <<>>
      BY <3>1, <3>3
    <3> QED BY <1>1, <3>2, NoSnapEntry
  <2>2. \/ disk' = disk \/ disk' \in Survivors
        \/ disk' = AfterLoad(disk, LoadAppendOnlyFiles(disk_manifest, disk))
    BY <1>6 DEF Environment, Kill, PowerLoss, StartServer, StartServerFatal, StartServerOff
  <2>3. Plain(disk')
    BY <1>1, <2>2, SurvivorsPlain, AfterLoadPlain
  <2> QED BY <1>1, <2>1, <2>3 DEF PlainBuffer
<1> QED BY <1>2, <1>3, <1>4, <1>5, <1>6, FlushPlain, IdlePlain, RewritePlain, StartPlain
       DEF Next, Running

-----------------------------------------------------------------------------
(* Where no request switches the INCR file.                                *)

\* The control part of Steady.
Calm ==
    /\ ~server.aof_rewrite_scheduled
    /\ ~InStart /\ ~Switching /\ pc # "rw_open"
    /\ pc \in {"flush", "fsync"} => cont # "rw_open"

\* The two outcomes of a short write.
ShortUndone(short, f, n) ==
    /\ disk' = [short EXCEPT ![f] = CutAt(short[f], n)]
    /\ server'.aof_buf = server.aof_buf
    /\ server'.aof_last_incr_size = server.aof_last_incr_size
    /\ server'.aof_fd.gap = IF server.aof_fd.append THEN 0 ELSE Len(short[f].data) - n
ShortKept(short, k) ==
    /\ disk' = short
    /\ server'.aof_buf = SubSeq(server.aof_buf, k + 1, Len(server.aof_buf))
    /\ server'.aof_last_incr_size = server.aof_last_incr_size + k
    /\ server'.aof_fd.gap = 0
ShortControl ==
    /\ cont' = cont /\ (pc' = "exit" \/ (AofFsync # "always" /\ pc' = cont))
    /\ pc = "flush" /\ "short_write" \in MayFail
ShortSame ==
    /\ server'.aof_state = server.aof_state
    /\ server'.aof_selected_db = server.aof_selected_db
    /\ server'.aof_rewrite_scheduled = server.aof_rewrite_scheduled
    /\ server'.aof_fd.append = server.aof_fd.append
    /\ server'.aof_fd.file = server.aof_fd.file
    /\ server'.aof_last_incr_fsync_offset = server.aof_last_incr_fsync_offset
    /\ server'.fsynced_reploff_pending = server.fsynced_reploff_pending

\* A short write is undone, or is kept and leaves the buffer.
LEMMA FlushShortFields ==
    ASSUME server \in ServerState, NEW k \in Nat, FlushShort(k), NEW short, NEW f, NEW n,
           short = WriteFd(SubSeq(server.aof_buf, 1, k)), f = server.aof_fd.file,
           n = server.aof_last_incr_size
    PROVE  /\ ShortControl /\ ShortSame
           /\ ShortUndone(short, f, n) \/ ShortKept(short, k)
<1>1. PICK past, u, v, g, b :
         /\ past = Len(short[f].data) - n
         /\ g = (IF server.aof_fd.append THEN 0 ELSE past)
         /\ b = SubSeq(server.aof_buf, k + 1, Len(server.aof_buf))
         /\ u = [server EXCEPT !.aof_fd.gap = g]
         /\ v = [server EXCEPT !.aof_fd.gap = 0, !.aof_last_incr_size = n + k, !.aof_buf = b]
  BY ZenonT(60)
<1>2. \/ disk' = [short EXCEPT ![f] = CutAt(short[f], n)] /\ WriteError(u)
      \/ disk' = short /\ WriteError(v)
  BY <1>1 DEF FlushShort
<1>3. ShortControl
  BY <1>2 DEF FlushShort, WriteError, Goto, ShortControl, Fault
<1>4. ASSUME NEW s, WriteError(s) PROVE server' = s \/ server' = [s EXCEPT !.aof_last_write_status = "ERR"]
  BY <1>4 DEF WriteError
<1>5. ASSUME disk' = [short EXCEPT ![f] = CutAt(short[f], n)], WriteError(u)
      PROVE  ShortSame /\ ShortUndone(short, f, n)
  <2>1. server' = u \/ server' = [u EXCEPT !.aof_last_write_status = "ERR"]
    BY <1>4, <1>5
  <2>2. /\ u.aof_buf = server.aof_buf /\ u.aof_last_incr_size = server.aof_last_incr_size
        /\ u.aof_state = server.aof_state /\ u.aof_selected_db = server.aof_selected_db
        /\ u.aof_rewrite_scheduled = server.aof_rewrite_scheduled
        /\ u.aof_last_incr_fsync_offset = server.aof_last_incr_fsync_offset
        /\ u.fsynced_reploff_pending = server.fsynced_reploff_pending
        /\ u.aof_fd = [server.aof_fd EXCEPT !.gap = g] /\ DOMAIN u = DOMAIN server
    BY <1>1 DEF ServerState
  <2>3. /\ u.aof_fd.gap = g /\ u.aof_fd.append = server.aof_fd.append
        /\ u.aof_fd.file = server.aof_fd.file
    BY <2>2 DEF ServerState
  <2>4. /\ server'.aof_buf = u.aof_buf /\ server'.aof_last_incr_size = u.aof_last_incr_size
        /\ server'.aof_state = u.aof_state /\ server'.aof_selected_db = u.aof_selected_db
        /\ server'.aof_rewrite_scheduled = u.aof_rewrite_scheduled /\ server'.aof_fd = u.aof_fd
        /\ server'.aof_last_incr_fsync_offset = u.aof_last_incr_fsync_offset
        /\ server'.fsynced_reploff_pending = u.fsynced_reploff_pending
    BY <2>1, <2>2 DEF ServerState
  <2> QED BY <1>1, <1>5, <2>2, <2>3, <2>4 DEF ShortSame, ShortUndone
<1>6. ASSUME disk' = short, WriteError(v)
      PROVE  ShortSame /\ ShortKept(short, k)
  <2>1. server' = v \/ server' = [v EXCEPT !.aof_last_write_status = "ERR"]
    BY <1>4, <1>6
  <2>2. /\ v.aof_buf = b /\ v.aof_last_incr_size = n + k
        /\ v.aof_state = server.aof_state /\ v.aof_selected_db = server.aof_selected_db
        /\ v.aof_rewrite_scheduled = server.aof_rewrite_scheduled
        /\ v.aof_last_incr_fsync_offset = server.aof_last_incr_fsync_offset
        /\ v.fsynced_reploff_pending = server.fsynced_reploff_pending
        /\ v.aof_fd = [server.aof_fd EXCEPT !.gap = 0] /\ DOMAIN v = DOMAIN server
    BY <1>1 DEF ServerState
  <2>3. /\ v.aof_fd.gap = 0 /\ v.aof_fd.append = server.aof_fd.append
        /\ v.aof_fd.file = server.aof_fd.file
    BY <2>2 DEF ServerState
  <2>4. /\ server'.aof_buf = v.aof_buf /\ server'.aof_last_incr_size = v.aof_last_incr_size
        /\ server'.aof_state = v.aof_state /\ server'.aof_selected_db = v.aof_selected_db
        /\ server'.aof_rewrite_scheduled = v.aof_rewrite_scheduled /\ server'.aof_fd = v.aof_fd
        /\ server'.aof_last_incr_fsync_offset = v.aof_last_incr_fsync_offset
        /\ server'.fsynced_reploff_pending = v.fsynced_reploff_pending
    BY <2>1, <2>2 DEF ServerState
  <2> QED BY <1>1, <1>6, <2>2, <2>3, <2>4 DEF ShortSame, ShortKept
<1> QED BY <1>2, <1>3, <1>5, <1>6

\* What BootOpen leaves in struct redisServer.
LEMMA BootOpenFields ==
    ASSUME server \in ServerState, BootOpen, NEW f, f = Incr(LastIncr(aof_manifest'))
    PROVE  /\ server'.aof_fd = [file |-> f, append |-> TRUE, gap |-> 0]
           /\ server'.aof_last_incr_size = Len(disk'[f].data)
           /\ server'.aof_last_incr_fsync_offset = Len(disk'[f].data)
           /\ server'.fsynced_reploff_pending = server.fsynced_reploff_pending
           /\ server'.aof_buf = server.aof_buf /\ server'.aof_state = server.aof_state
           /\ server'.aof_selected_db = server.aof_selected_db
           /\ server'.aof_rewrite_scheduled = server.aof_rewrite_scheduled
           /\ pc = "boot_open" /\ pc' = "persist" /\ cont' = "boot"
<1>1. PICK fd, z : fd = [file |-> f, append |-> TRUE, gap |-> 0] /\ z = Len(disk'[f].data)
  OBVIOUS
<1>2. server' = [server EXCEPT !.aof_fd = fd, !.aof_last_incr_size = z,
                               !.aof_last_incr_fsync_offset = z]
  BY <1>1 DEF BootOpen
<1> QED BY <1>1, <1>2 DEF ServerState, BootOpen, Call

\* The step keeps the descriptor.
Holds == server'.aof_fd.append = server.aof_fd.append /\ (Ready' => Ready)

\* Every step but the opening of the file at server start keeps the descriptor,
\* and nothing switches files.
LEMMA CalmStep ==
    ASSUME CoverInv, Calm, Fixed, Next, "dirfsync" \notin MayFail
    PROVE  Calm' /\ (Ready' => server'.aof_fd.append \/ Holds)
<1>1. /\ server \in ServerState
      /\ pc \in {"flush", "fsync"} => cont \in FlushReturn
      /\ pc \in {"persist", "dirfsync"} => cont \in {"start", "rw", "boot", "del_start", "del_boot"}
      /\ pc = "unlink" => cont \in {"start_failed", "del_start", "del_boot"}
  BY TypeParts DEF CoverInv, TypeInv, Inv, Shape
<1>2. \A r \in {"yes", "multi_yes", "bgrewriteaof", "multi_bgrewriteaof", "auto"} : ~Request(r)
  BY DEF Fixed, Request
<1>3. /\ ~server.aof_rewrite_scheduled
      /\ pc \notin {"start_open", "start_rewrite", "start_rename_base", "start_rename_incr",
                    "start_adopt", "start_done", "rw_open", "rw_swap"}
      /\ pc \in {"persist", "dirfsync"} => cont \in {"boot", "del_boot"}
      /\ pc = "unlink" => cont \in {"start_failed", "del_boot"}
      /\ pc \in {"flush", "fsync"} => cont # "rw_open"
  BY <1>1 DEF Calm, InStart, Switching, At, Persisting
<1>4. CASE Flush
  <2>1. /\ cont' = cont /\ pc \in {"flush", "fsync"}
        /\ pc' \in {"fsync", "exit", cont}
    BY <1>4 DEF Flush, FlushEmpty, FlushWrite, FlushError, FlushShort, FlushFsync,
         FlushFsyncError, WriteError, Goto
  <2>2. /\ server'.aof_rewrite_scheduled = server.aof_rewrite_scheduled
        /\ server'.aof_fd.append = server.aof_fd.append /\ server'.aof_state = server.aof_state
    <3>1. CASE \E due \in BOOLEAN : FlushEmpty(due)
      BY <1>1, <3>1 DEF FlushEmpty, ServerState
    <3>2. CASE \E due \in BOOLEAN : FlushWrite(due)
      BY <1>1, <3>2 DEF FlushWrite, ServerState
    <3>3. CASE FlushError
      BY <1>1, <3>3 DEF FlushError, WriteError, ServerState
    <3>4. CASE \E k \in 1 .. Len(server.aof_buf) - 1 : FlushShort(k)
      <4>1. PICK k \in 1 .. Len(server.aof_buf) - 1 : FlushShort(k)
        BY <3>4
      <4>2. k \in Nat
        OBVIOUS
      <4> QED BY <1>1, <4>1, <4>2, FlushShortFields DEF ShortSame
    <3>5. CASE FlushFsync \/ FlushFsyncError
      BY <1>1, <3>5 DEF FlushFsync, FlushFsyncError, ServerState
    <3> QED BY <1>4, <3>1, <3>2, <3>3, <3>4, <3>5 DEF Flush
  <2>3. pc' \in {"fsync", "exit", "reply", "idle", "stop", "shutdown"}
    BY <1>1, <1>3, <2>1 DEF FlushReturn
  <2> QED BY <1>3, <2>1, <2>2, <2>3 DEF Calm, Holds, Ready, InStart, Switching, At, Persisting
<1>5. CASE Command \/ EventLoop \/ Reply \/ StopClose \/ ShutdownFsync
  <2>1. /\ \/ pc' \in {"idle", "reply", "exit"}
           \/ pc' = "flush" /\ cont' \in {"reply", "idle", "stop", "shutdown"}
        /\ pc \in {"idle", "reply", "stop", "shutdown"}
    BY <1>2, <1>3, <1>5 DEF Command, EventLoop, Reply, StopClose, ShutdownFsync, Execute,
       StartAppendOnly, StartAppendOnlyInExec, StopAppendOnly, BgRewriteAof,
       BgRewriteAofInExec, Shutdown, BeforeSleep, CronFlush, CronRewrite,
       RewriteBackground, Goto, Call, control
  <2>2. /\ ~server'.aof_rewrite_scheduled
        /\ \/ server'.aof_fd.append = server.aof_fd.append /\ server'.aof_state = server.aof_state
           \/ server'.aof_state = "OFF"
    <3>1. CASE StopClose
      BY <3>1 DEF StopClose, FreshServer
    <3>2. CASE \E d \in Db : Execute(d)
      BY <1>1, <1>3, <3>2 DEF Execute, Feed, ServerState
    <3>3. CASE Reply
      BY <1>1, <1>3, <3>3 DEF Reply, ServerState
    <3>4. CASE EventLoop \/ ShutdownFsync \/ StopAppendOnly \/ Shutdown
      BY <1>3, <3>4 DEF EventLoop, ShutdownFsync, StopAppendOnly, Shutdown, BeforeSleep,
         CronFlush, CronRewrite
    <3> QED BY <1>2, <1>5, <3>1, <3>2, <3>3, <3>4
         DEF Command, StartAppendOnly, StartAppendOnlyInExec, BgRewriteAof, BgRewriteAofInExec
  <2> QED BY <2>1, <2>2 DEF Calm, Holds, Ready, InStart, Switching, At, Persisting
<1>6. CASE Rewrite
  BY <1>3, <1>6 DEF Rewrite, RewriteOff, RewriteWait, RewriteOpen, RewriteOpenError, RewriteSwap
<1>7. CASE Start
  <2>1. StartError
    BY <1>3, <1>7 DEF Start, StartOpen, StartOpenError, StartRewrite, StartRenameBase,
         StartRenameIncr, StartAdopt, StartDone
  <2>2. /\ pc' = "unlink" /\ cont' = "start_failed" /\ server'.aof_state = "OFF"
        /\ ~server'.aof_rewrite_scheduled
    BY <1>1, <1>3, <2>1 DEF StartError, UnlinkThen, ServerState
  <2> QED BY <2>2 DEF Calm, Holds, Ready, InStart, Switching, At, Persisting
<1>8. CASE Persist
  <2>1. /\ server' = server /\ cont' = cont /\ pc \in {"persist", "dirfsync"}
        /\ pc' \in {"dirfsync", AfterPersist[cont], AfterPersistError[cont]}
    BY <1>8 DEF Persist, PersistClean, PersistRename, PersistSynced, PersistError, Goto
  <2>2. pc' \in {"dirfsync", "del_boot", "idle", "exit"}
    BY <1>3, <2>1 DEF AfterPersist, AfterPersistError
  <2> QED BY <1>3, <2>1, <2>2 DEF Calm, Holds, Ready, InStart, Switching, At, Persisting
<1>9. CASE Unlink
  <2>1. /\ server'.aof_rewrite_scheduled = server.aof_rewrite_scheduled
        /\ server'.aof_fd.append = server.aof_fd.append /\ server'.aof_state = server.aof_state
    BY <1>1, <1>9 DEF Unlink, UnlinkDone, UnlinkOne, ServerState
  <2>2. pc = "unlink" /\ cont' = cont /\ pc' \in {"unlink", "idle", "persist"}
        /\ (pc' = "persist" => cont # "start_failed")
    BY <1>9 DEF Unlink, UnlinkDone, UnlinkOne, Goto
  <2> QED BY <1>3, <2>1, <2>2 DEF Calm, Holds, Ready, InStart, Switching, At, Persisting
<1>10. CASE Boot
  <2>1. CASE BootOpen
    <3>1. PICK f : f = Incr(LastIncr(aof_manifest'))
      OBVIOUS
    <3>2. /\ server'.aof_fd = [file |-> f, append |-> TRUE, gap |-> 0]
          /\ server'.aof_rewrite_scheduled = server.aof_rewrite_scheduled
          /\ pc' = "persist" /\ cont' = "boot"
      BY <1>1, <2>1, <3>1, BootOpenFields
    <3>3. server'.aof_fd.append
      BY <3>2
    <3> QED BY <1>3, <3>2, <3>3 DEF Calm, Holds, Ready, InStart, Switching, At, Persisting
  <2>2. CASE BootBase \/ BootError \/ BootDelHistory
    <3>1. /\ server' = server
          /\ \/ pc' \in {"boot_open", "exit"}
             \/ pc = "del_boot" /\ (pc' = "idle" \/ (pc' = "unlink" /\ cont' = "del_boot"))
      BY <2>2 DEF BootBase, BootError, BootDelHistory, Goto, UnlinkThen
    <3> QED BY <1>3, <3>1 DEF Calm, Holds, Ready, InStart, Switching, At, Persisting
  <2> QED BY <1>10, <2>1, <2>2 DEF Boot
<1>11. CASE Environment
  <2>1. \/ pc' = "down" /\ server' \in {server, FreshServer}
        \/ pc' = "boot_base"
             /\ server' = [FreshServer EXCEPT !.aof_state = "ON", !.fsynced_reploff = 0]
        \/ pc' = "del_boot"
             /\ server' = [FreshServer EXCEPT !.aof_state = "OFF", !.fsynced_reploff = -1]
    BY <1>11 DEF Environment, Kill, PowerLoss, Stop, StartServer, StartServerFatal,
         StartServerOff, Booted, Goto, control
  <2>2. /\ ~FreshServer.aof_rewrite_scheduled
        /\ \A x, y : ~[FreshServer EXCEPT !.aof_state = x, !.fsynced_reploff = y].aof_rewrite_scheduled
        /\ \A x, y : [FreshServer EXCEPT !.aof_state = x, !.fsynced_reploff = y].aof_state = x
    BY DEF FreshServer
  <2>3. /\ ~server'.aof_rewrite_scheduled
        /\ pc' = "del_boot" => server'.aof_state = "OFF"
        /\ pc' \in {"down", "boot_base", "del_boot"}
    BY <1>3, <2>1, <2>2
  <2> QED BY <2>3 DEF Calm, Holds, Ready, InStart, Switching, At, Persisting
<1> QED BY <1>4, <1>5, <1>6, <1>7, <1>8, <1>9, <1>10, <1>11 DEF Next, Running

\* Steady in terms of Calm.
LEMMA SteadyStep ==
    ASSUME CoverInv, Steady, [Next]_vars, "dirfsync" \notin MayFail
    PROVE  Steady'
<1>1. Steady <=> (Fixed => Calm /\ (Ready => server.aof_fd.append))
  BY DEF Steady, Calm
<1>2. Steady' <=> (Fixed => Calm' /\ (Ready' => server'.aof_fd.append))
  BY DEF Steady, Calm, Fixed
<1>3. CASE UNCHANGED vars
  BY <1>1, <1>2, <1>3 DEF vars, control, Calm, Ready, InStart, Switching, At, Persisting
<1>4. CASE Next
  BY <1>1, <1>2, <1>4, CalmStep DEF Holds
<1> QED BY <1>3, <1>4

-----------------------------------------------------------------------------
(* The files and the buffer complete the dataset.                          *)

\* What Ready says of the descriptor.
LEMMA ReadyFile ==
    ASSUME CoverInv, Switched, Ready
    PROVE  /\ aof_manifest.incr # {} /\ WellFormed(aof_manifest)
           /\ server.aof_fd.file = Incr(aof_manifest.incr_seq)
           /\ Incr(aof_manifest.incr_seq) \in Live(aof_manifest)
           /\ Live(aof_manifest) \subseteq DOMAIN disk
<1>1. /\ WellFormed(aof_manifest) /\ WellFormed(temp_am) /\ Live(disk_manifest) \subseteq DOMAIN disk
      /\ aof_manifest.incr # {} /\ server.aof_fd.file = Incr(aof_manifest.incr_seq)
  BY DEF CoverInv, TypeInv, Inv, Manifests, LiveFilesExist, Appending, Ready
<1>2. Incr(aof_manifest.incr_seq) \in Live(aof_manifest)
  BY <1>1, LastIsLate
<1>3. /\ pc \notin {"down", "exit", "boot_open", "start_adopt"} /\ ~At("dirfsync", "start")
      /\ Agreement /\ Prepared
  BY DEF CoverInv, TypeInv, Inv, Starting, Ready, At, Persisting
<1>4. CASE ~Committed
  BY <1>1, <1>2, <1>3, <1>4 DEF Agreement, Prepared
<1>5. CASE Committed
  <2>1. Switching /\ Live(temp_am) = Live(disk_manifest)
    BY <1>3, <1>5 DEF Committed, Agreement, Switching, At, Persisting
  <2>2. temp_am.base = aof_manifest.base /\ aof_manifest.incr \subseteq temp_am.incr
    BY <2>1 DEF Switched
  <2>3. Live(aof_manifest) \subseteq Live(temp_am)
    BY <2>2 DEF Live
  <2> QED BY <1>1, <1>2, <2>1, <2>3
<1> QED BY <1>4, <1>5

\* The step may move tokens from the buffer to the last file, and forget the
\* database.
Moves(last) ==
    /\ aof_manifest'.base = aof_manifest.base /\ aof_manifest'.incr = aof_manifest.incr
    /\ dataset' = dataset
    /\ server'.aof_selected_db \in {server.aof_selected_db, -1}
    /\ \A f \in Live(aof_manifest) : f # last => disk'[f].data = disk[f].data
    /\ disk'[last].data \o server'.aof_buf = disk[last].data \o server.aof_buf
    /\ server'.aof_last_incr_size = Len(disk'[last].data)
    /\ server'.aof_fd.gap = 0

\* Such a step leaves the files and the buffer complete.
LEMMA MovesComplete ==
    ASSUME CoverInv, Switched, Complete, CoverInv', Ready => Moves(Incr(aof_manifest.incr_seq)),
           Ready' => Ready
    PROVE  Complete'
<1> SUFFICES ASSUME Ready' PROVE
           /\ Ends(aof_manifest', disk', server'.aof_buf, dataset', server'.aof_selected_db)
           /\ server'.aof_last_incr_size = Len(disk'[server'.aof_fd.file].data)
           /\ server'.aof_fd.gap = 0
  BY DEF Complete
<1>1. PICK m, k, last : m = aof_manifest /\ k = aof_manifest' /\ last = Incr(aof_manifest.incr_seq)
  OBVIOUS
<1>2. WellFormed(m) /\ m.incr # {} /\ Moves(last) /\ Ready
  BY <1>1, ReadyFile
<1>3. WellFormed(k) /\ k.incr # {} /\ server'.aof_fd.file = Incr(k.incr_seq)
  BY <1>1 DEF CoverInv, TypeInv, Inv, Manifests, Appending, Ready
<1>4. k.base = m.base /\ k.incr = m.incr
  BY <1>1, <1>2 DEF Moves
<1>5. k.incr_seq = m.incr_seq
  <2>1. LastIncr(k) = LastIncr(m)
    BY <1>4 DEF LastIncr
  <2> QED BY <1>2, <1>3, <2>1, LastIncrIsSeq
<1>6. Ends(m, disk, server.aof_buf, dataset, server.aof_selected_db)
  BY <1>1, <1>2 DEF Complete
<1>7. Ends(k, disk', server'.aof_buf, dataset, server'.aof_selected_db)
  <2>1. /\ \A f \in Live(m) : f # Incr(m.incr_seq) => disk'[f].data = disk[f].data
        /\ disk'[Incr(m.incr_seq)].data \o server'.aof_buf
              = disk[Incr(m.incr_seq)].data \o server.aof_buf
        /\ server'.aof_selected_db \in {server.aof_selected_db, -1}
    BY <1>1, <1>2 DEF Moves
  <2>2. PICK d, w, x, y, se, se2, ds :
           /\ d = disk /\ w = disk' /\ x = server.aof_buf /\ y = server'.aof_buf /\ ds = dataset
           /\ se = server.aof_selected_db /\ se2 = server'.aof_selected_db
    OBVIOUS
  <2>3. /\ \A f \in Live(m) : f # Incr(m.incr_seq) => w[f].data = d[f].data
        /\ w[Incr(m.incr_seq)].data \o y = d[Incr(m.incr_seq)].data \o x
        /\ se2 \in {se, -1} /\ Ends(m, d, x, ds, se)
    BY <1>6, <2>1, <2>2
  <2>4. Ends(k, w, y, ds, se2)
    BY <1>2, <1>3, <1>4, <2>3, EndsMove
  <2> QED BY <2>2, <2>4
<1>8. server'.aof_fd.file = last
  BY <1>1, <1>3, <1>5
<1> QED BY <1>1, <1>2, <1>7, <1>8 DEF Moves

\* Nothing of this changes.
Keeps ==
    /\ aof_manifest'.base = aof_manifest.base /\ aof_manifest'.incr = aof_manifest.incr
    /\ dataset' = dataset
    /\ server'.aof_selected_db \in {server.aof_selected_db, -1}
    /\ \A f \in Live(aof_manifest) : disk'[f].data = disk[f].data
    /\ server'.aof_buf = server.aof_buf
    /\ server'.aof_last_incr_size = server.aof_last_incr_size
    /\ server'.aof_fd.gap = server.aof_fd.gap

\* Such a step keeps the files and the buffer complete.
LEMMA KeepsComplete ==
    ASSUME CoverInv, Switched, Complete, CoverInv', Ready => Keeps, Ready' => Ready
    PROVE  Complete'
<1>1. ASSUME Ready PROVE Moves(Incr(aof_manifest.incr_seq))
  <2>1. PICK last : last = Incr(aof_manifest.incr_seq)
    OBVIOUS
  <2>2. last \in Live(aof_manifest) /\ server.aof_fd.file = last
    BY <1>1, <2>1, ReadyFile
  <2>3. /\ server.aof_last_incr_size = Len(disk[last].data) /\ server.aof_fd.gap = 0
    BY <1>1, <2>2 DEF Complete
  <2> QED BY <1>1, <2>1, <2>2, <2>3 DEF Keeps, Moves
<1> QED BY <1>1, MovesComplete

\* Where the parts other than Complete say nothing.
LEMMA Elsewhere ==
    ASSUME ~InStart', ~Switching', pc' \notin {"fsync", "rw_open", "boot_base", "boot_open"},
           pc' = "flush" /\ cont' = "rw_open" => server'.aof_selected_db = -1
    PROVE  Booting' /\ Rewritten' /\ Switched'
<1>1. ~Enabling'
  BY DEF Enabling, InStart
<1>2. pc' \notin {"start_rewrite", "start_rename_base", "start_rename_incr"}
  BY DEF InStart
<1> QED BY <1>1, <1>2 DEF Booting, Rewritten, Switched

\* write(aof_fd) with no hole.
LEMMA WritesEnd ==
    ASSUME server \in ServerState, DiskOK(disk), server.aof_fd.gap = 0,
           NEW f \in DOMAIN disk, f = server.aof_fd.file, NEW toks \in Seq(Token)
    PROVE  WriteFd(toks)[f].data = disk[f].data \o toks
<1>1. /\ WriteFd(toks)[f].data = (disk[f].data \o Holes(0)) \o toks
      /\ disk[f].data \in Seq(Token)
  BY WriteFdType
<1>2. Holes(0) = <<>>
  BY DEF Holes
<1>3. disk[f].data \o <<>> = disk[f].data
  BY <1>1, ConcatEmptySeq
<1> QED BY <1>1, <1>2, <1>3

\* flushAppendOnlyFile: what leaves the buffer is in the file.
LEMMA FlushRest ==
    ASSUME CoverInv, LogRest, Steady, WritesSafe, CoverInv', Flush
    PROVE  LogRest'
<1>1. /\ server \in ServerState /\ DiskOK(disk) /\ TypeInv
      /\ server.aof_buf \in Seq(Token) /\ Len(server.aof_buf) \in Nat
      /\ server.aof_last_incr_size \in Nat /\ Switched /\ Complete
      /\ pc \in {"flush", "fsync"} => cont \in FlushReturn
  BY TypeParts DEF CoverInv, TypeInv, ServerState, LogRest, Inv, Shape
<1>2. /\ cont' = cont /\ pc \in {"flush", "fsync"} /\ cont \in FlushReturn
      /\ pc' \in {"fsync", "exit", cont} /\ UNCHANGED <<aof_manifest, temp_am, dataset>>
  BY <1>1 DEF Flush, FlushEmpty, FlushWrite, FlushError, FlushShort, FlushFsync,
       FlushFsyncError, WriteError, Goto, memory
<1>3. ASSUME server'.aof_selected_db = server.aof_selected_db,
             server'.aof_buf = <<>> \/ pc' \notin {"fsync", "rw_open"}
      PROVE  Booting' /\ Rewritten' /\ Switched'
  <2>1. /\ ~InStart' /\ ~Switching' /\ ~Enabling' /\ pc' \notin {"boot_base", "boot_open"}
        /\ pc' \notin {"start_rewrite", "start_rename_base", "start_rename_incr"}
    BY <1>2 DEF InStart, Switching, Enabling, At, Persisting, FlushReturn
  <2>2. cont = "rw_open" => server'.aof_selected_db = -1
    BY <1>1, <1>2, <1>3 DEF Switched
  <2> QED BY <1>2, <1>3, <2>1, <2>2 DEF Booting, Rewritten, Switched
<1>4. ASSUME server'.aof_state = server.aof_state PROVE Ready' => Ready
  BY <1>2, <1>4 DEF Ready, At, Persisting, FlushReturn
<1>5. CASE \E due \in BOOLEAN : FlushEmpty(due)
  <2>1. /\ server'.aof_selected_db = server.aof_selected_db /\ server'.aof_buf = <<>>
        /\ server.aof_buf = <<>> /\ server'.aof_state = server.aof_state
        /\ server'.aof_last_incr_size = server.aof_last_incr_size
        /\ server'.aof_fd = server.aof_fd /\ disk' = disk
    BY <1>1, <1>5 DEF FlushEmpty, ServerState, fs
  <2>2. Keeps
    BY <1>2, <2>1 DEF Keeps
  <2> QED BY <1>1, <1>3, <1>4, <2>1, <2>2, KeepsComplete DEF LogRest
<1>6. CASE FlushFsync \/ FlushFsyncError
  <2>1. /\ server'.aof_selected_db = server.aof_selected_db /\ pc = "fsync"
        /\ server'.aof_buf = server.aof_buf /\ server'.aof_state = server.aof_state
        /\ server'.aof_last_incr_size = server.aof_last_incr_size
        /\ server'.aof_fd = server.aof_fd /\ disk' \in {disk, FsyncFd(disk)}
    BY <1>1, <1>6 DEF FlushFsync, FlushFsyncError, ServerState, fs
  <2>2. server.aof_buf = <<>>
    BY <1>1, <2>1 DEF Switched
  <2>3. Ready => Keeps
    BY <1>1, <1>2, <2>1, ReadyFile, FsyncFdType DEF Keeps
  <2> QED BY <1>1, <1>3, <1>4, <2>1, <2>2, <2>3, KeepsComplete DEF LogRest
<1>7. ASSUME {"write", "short_write"} \cap MayFail # {} PROVE AofFsync = "always" \/ cont # "rw_open"
  BY <1>2, <1>7 DEF WritesSafe, Steady
<1>8. CASE FlushError
  <2>1. /\ server'.aof_selected_db = server.aof_selected_db
        /\ server'.aof_buf = server.aof_buf /\ server'.aof_state = server.aof_state
        /\ server'.aof_last_incr_size = server.aof_last_incr_size
        /\ server'.aof_fd = server.aof_fd /\ disk' = disk
    BY <1>1, <1>8 DEF FlushError, WriteError, ServerState, fs
  <2>2. pc' = "exit" \/ (AofFsync # "always" /\ pc' = cont /\ "write" \in MayFail)
    BY <1>8 DEF FlushError, WriteError, Goto, Fault
  <2>3. pc' \notin {"fsync", "rw_open"}
    BY <1>2, <1>7, <2>2 DEF FlushReturn
  <2>4. Keeps
    BY <1>2, <2>1 DEF Keeps
  <2> QED BY <1>1, <1>3, <1>4, <2>1, <2>3, <2>4, KeepsComplete DEF LogRest
<1>9. ASSUME pc = "flush", server.aof_buf # <<>>, NEW last, last = Incr(aof_manifest.incr_seq)
      PROVE  /\ Ready /\ server.aof_fd.gap = 0 /\ last \in DOMAIN disk /\ server.aof_fd.file = last
             /\ server.aof_last_incr_size = Len(disk[last].data)
             /\ disk[last].data \in Seq(Token) /\ ContentOK(disk[last])
             /\ Live(aof_manifest) \subseteq DOMAIN disk
  <2>1. server.aof_state = "ON"
    BY <1>1, <1>9, WritesLive
  <2>2. Ready
    BY <1>9, <2>1 DEF Ready
  <2>3. /\ server.aof_fd.gap = 0 /\ server.aof_last_incr_size = Len(disk[server.aof_fd.file].data)
    BY <1>1, <2>2 DEF Complete
  <2> QED BY <1>1, <1>9, <2>2, <2>3, ReadyFile DEF DiskOK, ContentOK
<1>10. ASSUME NEW due \in BOOLEAN, FlushWrite(due) PROVE LogRest'
  <2>1. PICK last, buf : last = Incr(aof_manifest.incr_seq) /\ buf = server.aof_buf
    OBVIOUS
  <2>2. /\ pc = "flush" /\ buf # <<>> /\ disk' = WriteFd(buf) /\ server'.aof_fd.gap = 0
        /\ server'.aof_last_incr_size = server.aof_last_incr_size + Len(buf)
        /\ server'.aof_buf = <<>> /\ server'.aof_selected_db = server.aof_selected_db
        /\ server'.aof_state = server.aof_state
    BY <1>1, <1>10, <2>1 DEF FlushWrite, ServerState
  <2>3. /\ Ready /\ server.aof_fd.gap = 0 /\ last \in DOMAIN disk /\ server.aof_fd.file = last
        /\ server.aof_last_incr_size = Len(disk[last].data) /\ disk[last].data \in Seq(Token)
        /\ Live(aof_manifest) \subseteq DOMAIN disk
    BY <1>9, <2>1, <2>2
  <2>4. disk'[last].data = disk[last].data \o buf
    BY <1>1, <2>1, <2>2, <2>3, WritesEnd
  <2>5. \A g \in DOMAIN disk : g # last => disk'[g] = disk[g]
    BY <1>1, <2>1, <2>2, <2>3, WriteFdType
  <2>6. /\ disk[last].data \o buf \in Seq(Token)
        /\ Len(disk[last].data \o buf) = Len(disk[last].data) + Len(buf)
    BY <1>1, <2>1, <2>3, ConcatProperties
  <2>7. (disk[last].data \o buf) \o <<>> = disk[last].data \o buf
    BY <2>6, ConcatEmptySeq
  <2>8. Moves(last)
    BY <1>2, <2>1, <2>2, <2>3, <2>4, <2>5, <2>6, <2>7 DEF Moves
  <2>9. Complete'
    BY <1>1, <1>4, <2>1, <2>2, <2>8, MovesComplete
  <2> QED BY <1>3, <2>2, <2>9 DEF LogRest
<1>11. ASSUME NEW k \in 1 .. Len(server.aof_buf) - 1, FlushShort(k) PROVE LogRest'
  <2>1. PICK last, buf, toks, short, n :
            /\ last = Incr(aof_manifest.incr_seq) /\ buf = server.aof_buf
            /\ toks = SubSeq(buf, 1, k) /\ short = WriteFd(toks) /\ n = server.aof_last_incr_size
    OBVIOUS
  <2>2. /\ pc = "flush" /\ buf # <<>> /\ k \in Nat /\ buf \in Seq(Token) /\ Len(buf) \in Nat
        /\ k \in 1 .. Len(buf) - 1
    BY <1>1, <1>11, <2>1 DEF FlushShort
  <2>3. /\ Ready /\ server.aof_fd.gap = 0 /\ last \in DOMAIN disk /\ server.aof_fd.file = last
        /\ n = Len(disk[last].data) /\ disk[last].data \in Seq(Token)
        /\ Live(aof_manifest) \subseteq DOMAIN disk
    BY <1>9, <2>1, <2>2
  <2>4. /\ ShortControl /\ ShortSame
        /\ ShortUndone(short, last, n) \/ ShortKept(short, k)
    BY <1>1, <1>11, <2>1, <2>2, <2>3, FlushShortFields
  <2>5. pc' \notin {"fsync", "rw_open"}
    BY <1>2, <1>7, <2>4 DEF ShortControl, FlushReturn
  <2>6. PICK rest : /\ rest = SubSeq(buf, k + 1, Len(buf)) /\ buf = toks \o rest
                    /\ toks \in Seq(Token) /\ rest \in Seq(Token) /\ Len(toks) = k
    <3>1. toks \in Seq(Token) /\ Len(toks) = k
      BY <2>1, <2>2
    <3>2. SubSeq(buf, k + 1, Len(buf)) \in Seq(Token)
      BY <2>2
    <3>3. buf = SubSeq(buf, 1, k) \o SubSeq(buf, k + 1, Len(buf))
      BY <2>2
    <3> QED BY <2>1, <3>1, <3>2, <3>3
  <2>7. short[last].data = disk[last].data \o toks
    BY <1>1, <2>1, <2>3, <2>6, WritesEnd
  <2>8. DOMAIN short = DOMAIN disk /\ DiskOK(short) /\ \A g \in DOMAIN disk : g # last => short[g] = disk[g]
    BY <1>1, <2>1, <2>3, <2>6, WriteFdType
  <2>9. PICK a : a = disk[last].data
    OBVIOUS
  <2>10. a \o toks \in Seq(Token) /\ Len(a \o toks) = n + k /\ n \in Nat
    BY <1>1, <2>1, <2>3, <2>6, <2>9, ConcatProperties
  <2>11. CASE ShortKept(short, k)
    <3>1. (a \o toks) \o rest = a \o buf
      <4>1. a \in Seq(Token) /\ toks \in Seq(Token) /\ rest \in Seq(Token)
        BY <2>3, <2>6, <2>9
      <4>2. a \o (toks \o rest) = (a \o toks) \o rest
        BY SMTT(30), <4>1, ConcatAssociative
      <4> QED BY <2>6, <4>2
    <3>2. /\ disk' = short /\ server'.aof_buf = rest /\ server'.aof_last_incr_size = n + k
          /\ server'.aof_fd.gap = 0
      BY <2>1, <2>6, <2>11 DEF ShortKept
    <3>3. Moves(last)
      BY <1>2, <2>1, <2>3, <2>4, <2>7, <2>8, <2>9, <2>10, <3>1, <3>2 DEF Moves, ShortSame
    <3>4. Complete'
      BY <1>1, <1>4, <2>1, <2>4, <3>3, MovesComplete DEF ShortSame
    <3> QED BY <1>3, <2>4, <2>5, <3>4 DEF LogRest, ShortSame
  <2>12. CASE ShortUndone(short, last, n)
    <3>1. PICK c : c = CutAt(short[last], n)
      OBVIOUS
    <3>2. c.data = SubSeq(a \o toks, 1, n)
      <4>1. ContentOK(short[last]) /\ n \in 0 .. Len(short[last].data)
        BY <2>3, <2>7, <2>8, <2>9, <2>10, <2>2 DEF DiskOK
      <4> QED BY <2>7, <2>9, <3>1, <4>1, CutAtType
    <3>3. SubSeq(a \o toks, 1, n) = a
      BY <2>3, <2>6, <2>9, <2>10
    <3>4. /\ disk' = [short EXCEPT ![last] = c] /\ server'.aof_buf = buf
          /\ server'.aof_last_incr_size = n
      BY <2>1, <2>12, <3>1 DEF ShortUndone
    <3>5. disk'[last].data = a /\ \A g \in DOMAIN disk : g # last => disk'[g] = disk[g]
      BY <2>3, <2>8, <3>2, <3>3, <3>4
    <3>6. CASE pc' = "exit"
      <4>1. ~Ready'
        BY <3>6 DEF Ready, At, Persisting
      <4> QED BY <1>3, <2>4, <2>5, <4>1 DEF LogRest, ShortSame, Complete
    <3>7. CASE pc' # "exit"
      <4>1. AofFsync # "always" /\ "short_write" \in MayFail
        BY <2>4, <3>7 DEF ShortControl
      <4>2. server.aof_fd.append
        BY <2>3, <4>1 DEF WritesSafe, Steady
      <4>3. server'.aof_fd.gap = 0
        BY <2>12, <4>2 DEF ShortUndone
      <4>4. Moves(last)
        BY <1>2, <2>1, <2>3, <2>4, <2>9, <3>4, <3>5, <4>3 DEF Moves, ShortSame
      <4>5. Complete'
        BY <1>1, <1>4, <2>1, <2>4, <4>4, MovesComplete DEF ShortSame
      <4> QED BY <1>3, <2>4, <2>5, <4>5 DEF LogRest, ShortSame
    <3> QED BY <3>6, <3>7
  <2> QED BY <2>4, <2>11, <2>12
<1> QED BY <1>5, <1>6, <1>8, <1>10, <1>11 DEF Flush

\* Commands: a write goes to the dataset and to the buffer.
LEMMA IdleRest ==
    ASSUME CoverInv, LogRest, CoverInv',
           Command \/ EventLoop \/ Reply \/ StopClose \/ ShutdownFsync
    PROVE  LogRest'
<1>1. /\ server \in ServerState /\ DiskOK(disk) /\ Switched /\ Complete /\ Rewritten /\ Buffered
      /\ server.aof_buf \in Seq(Token) /\ bounds.writes \in Nat /\ dataset \in Image
  BY TypeParts, BoundAssumption
     DEF CoverInv, TypeInv, LogRest, ServerState, BoundType, DataType
<1>2. /\ pc \in {"idle", "reply", "stop", "shutdown"}
      /\ pc' \in {"idle", "reply", "flush", "exit", "start_open"}
      /\ pc' = "flush" /\ cont' = "rw_open" => server'.aof_selected_db = -1
      /\ UNCHANGED <<aof_manifest, temp_am>>
  <2>1. [server EXCEPT !.aof_selected_db = -1].aof_selected_db = -1
    BY <1>1 DEF ServerState
  <2> QED BY <2>1 DEF Command, EventLoop, Reply, StopClose, ShutdownFsync, Execute,
       StartAppendOnly, StartAppendOnlyInExec, StopAppendOnly, BgRewriteAof,
       BgRewriteAofInExec, Shutdown, BeforeSleep, CronFlush, CronRewrite,
       RewriteBackground, Goto, Call, control, memory
<1>3. ~Switching' /\ ~Enabling' /\ (InStart' => pc' = "start_open")
  BY <1>2 DEF Switching, Enabling, InStart, At, Persisting
<1>4. ASSUME pc' # "start_open" PROVE Booting' /\ Rewritten' /\ Switched'
  BY <1>2, <1>3, <1>4, Elsewhere
<1>5. CASE StartAppendOnly
  <2>1. /\ server' = [server EXCEPT !.aof_state = "WAIT_REWRITE", !.aof_selected_db = -1]
        /\ server.aof_state = "OFF" /\ pc' = "start_open"
    BY <1>5 DEF StartAppendOnly, Goto
  <2>2. /\ server'.aof_state = "WAIT_REWRITE" /\ server'.aof_selected_db = -1
        /\ server'.aof_buf = server.aof_buf
    BY <1>1, <2>1 DEF ServerState
  <2>3. server'.aof_buf = <<>>
    BY <1>1, <2>1, <2>2 DEF Buffered
  <2>4. ~Ready'
    BY <2>1, <2>2 DEF Ready, At, Persisting
  <2> QED BY <1>2, <1>3, <2>1, <2>2, <2>3, <2>4 DEF LogRest, Booting, Complete, Rewritten, Switched
<1>6. ASSUME server'.aof_state # "ON", pc' # "start_open" PROVE LogRest'
  <2>1. ~Ready'
    BY <1>2, <1>6 DEF Ready, At, Persisting
  <2> QED BY <1>4, <1>6, <2>1 DEF LogRest, Complete
<1>7. CASE StartAppendOnlyInExec
  <2>1. server'.aof_state = "WAIT_REWRITE" /\ pc' = pc
    BY <1>1, <1>7 DEF StartAppendOnlyInExec, ServerState, control
  <2> QED BY <1>2, <1>6, <2>1
<1>8. CASE StopClose
  <2>1. server'.aof_state = "OFF" /\ pc' = "idle"
    BY <1>8 DEF StopClose, FreshServer, Goto
  <2> QED BY <1>6, <2>1
<1>9. CASE ShutdownFsync
  <2>1. pc' = "exit"
    BY <1>9 DEF ShutdownFsync, Goto
  <2>2. ~Ready'
    BY <2>1 DEF Ready, At, Persisting
  <2> QED BY <1>4, <2>1, <2>2 DEF LogRest, Complete
<1>10. CASE EventLoop \/ Reply \/ StopAppendOnly \/ BgRewriteAof \/ BgRewriteAofInExec \/ Shutdown
  <2>1. /\ disk' = disk /\ dataset' = dataset /\ server'.aof_fd = server.aof_fd
        /\ server'.aof_selected_db \in {server.aof_selected_db, -1}
        /\ server'.aof_buf = server.aof_buf /\ server'.aof_state = server.aof_state
        /\ server'.aof_last_incr_size = server.aof_last_incr_size
        /\ pc' # "start_open"
    <3>1. CASE Reply
      BY <1>1, <3>1 DEF Reply, Goto, ServerState, memory, fs
    <3>2. CASE EventLoop \/ StopAppendOnly \/ BgRewriteAof \/ BgRewriteAofInExec \/ Shutdown
      BY <1>1, <3>2 DEF EventLoop, StopAppendOnly, BgRewriteAof,
         BgRewriteAofInExec, Shutdown, BeforeSleep, CronFlush, CronRewrite,
         RewriteBackground, Goto, Call, control, memory, fs, ServerState
    <3> QED BY <1>10, <3>1, <3>2
  <2>2. Keeps /\ (Ready' => Ready)
    BY <1>2, <2>1 DEF Keeps, Ready, At, Persisting
  <2> QED BY <1>1, <1>4, <2>1, <2>2, KeepsComplete DEF LogRest
<1>11. ASSUME NEW d \in Db, Execute(d) PROVE LogRest'
  <2>1. PICK w, e, i : /\ i = bounds.writes + 1 /\ w = [id |-> i, db |-> d]
                       /\ e = Entry(w, server.aof_selected_db)
    OBVIOUS
  <2>2. /\ pc' = "idle" /\ disk' = disk /\ dataset' = Append(dataset, w) /\ server' = Feed(w)
        /\ pc = "idle"
    BY <1>11, <2>1 DEF Execute, control, fs
  <2>3. CASE server.aof_state # "ON"
    <3>1. server'.aof_state = server.aof_state
      BY <1>1, <2>2 DEF Feed, ServerState
    <3> QED BY <1>6, <2>2, <2>3, <3>1
  <2>4. CASE server.aof_state = "ON"
    <3>1. /\ server'.aof_buf = server.aof_buf \o e /\ server'.aof_selected_db = d
          /\ server'.aof_fd = server.aof_fd
          /\ server'.aof_last_incr_size = server.aof_last_incr_size
      <4>1. PICK nb : nb = server.aof_buf \o e
        OBVIOUS
      <4>2. server' = [server EXCEPT !.aof_selected_db = d, !.aof_buf = nb]
        BY <2>1, <2>2, <2>4, <4>1 DEF Feed
      <4> QED BY <1>1, <4>1, <4>2 DEF ServerState
    <3>2. Ready
      BY <2>2, <2>4 DEF Ready
    <3>3. PICK m, last, acc, buf, t :
             /\ m = aof_manifest /\ last = Incr(m.incr_seq) /\ buf = server.aof_buf
             /\ acc = Loaded(Live(m), disk, m.base, m.incr_seq - 1)
             /\ t = disk[last].data
      OBVIOUS
    <3>4. /\ m.incr # {} /\ WellFormed(m) /\ last \in DOMAIN disk /\ t \in Seq(Token)
          /\ Live(m) \subseteq DOMAIN disk
      BY <1>1, <3>2, <3>3, ReadyFile DEF DiskOK, ContentOK
    <3>5. acc.ret = "OK" /\ Reads(acc.ds, t \o buf, dataset, server.aof_selected_db)
      BY <1>1, <3>2, <3>3 DEF Complete, Ends
    <3>6. acc.ds \in Image
      <4>1. m.base \in Nat /\ m.incr_seq - 1 \in Nat
        BY <3>4, LastIsLate
      <4>2. acc \in Cuts(Live(m), disk)
        BY <1>1, <3>3, <3>4, <4>1, LoadedType
      <4> QED BY <4>2 DEF Cuts, Progress
    <3>7. PICK se, b, tb : /\ se = server.aof_selected_db /\ b = d /\ tb = t \o buf
                           /\ se \in Nat \cup {-1} /\ b \in Nat /\ tb \in Seq(Token)
                           /\ i \in Nat \ {0}
      <4>1. server.aof_selected_db \in Nat \cup {-1} /\ d \in Nat
        BY <1>1, DbAssumption DEF ServerState
      <4>2. t \o buf \in Seq(Token)
        BY <1>1, <3>3, <3>4, ConcatProperties
      <4>3. i \in Nat \ {0}
        BY <1>1, <2>1
      <4> QED BY <4>1, <4>2, <4>3
    <3>8. Reads(acc.ds, tb \o Entry(w, se), Append(dataset, w), b)
      BY <2>1, <3>5, <3>6, <3>7, EntryReads
    <3>9. tb \o e = t \o (buf \o e)
      <4>1. e \in Seq(Token)
        BY <2>1, <3>7, EntryType
      <4>2. t \in Seq(Token) /\ buf \in Seq(Token)
        BY <1>1, <3>3, <3>4
      <4>3. t \o (buf \o e) = (t \o buf) \o e
        BY <4>1, <4>2, ConcatAssociative
      <4> QED BY <3>7, <4>3
    <3>10. Reads(acc.ds, t \o (buf \o e), Append(dataset, w), d)
      BY <2>1, <3>7, <3>8, <3>9
    <3>11. Ends(m, disk, buf \o e, Append(dataset, w), d)
      BY <3>3, <3>4, <3>5, <3>10 DEF Ends
    <3>12. Complete'
      BY <1>1, <1>2, <2>2, <3>1, <3>2, <3>3, <3>11 DEF Complete
    <3> QED BY <1>4, <2>2, <3>12 DEF LogRest
  <2> QED BY <2>3, <2>4
<1> QED BY <1>5, <1>7, <1>8, <1>9, <1>10, <1>11 DEF Command

\* rewriteAppendOnlyFileBackground: the switch to a new INCR file happens with an
\* empty buffer, and the next command selects its database again.
LEMMA RewriteRest ==
    ASSUME CoverInv, LogRest, CoverInv', Rewrite, "garbage" \notin FreedName
    PROVE  LogRest'
<1>1. /\ server \in ServerState /\ DiskOK(disk) /\ Switched /\ Complete /\ MasterReplOffset \in Nat
      /\ WellFormed(aof_manifest) /\ WellFormed(temp_am) /\ aof_manifest.names # "garbled"
  BY TypeParts DEF CoverInv, TypeInv, LogRest, Inv, Manifests, DataType, MasterReplOffset, Image, Named
<1>2. aof_manifest.incr_seq \in Nat /\ temp_am.incr_seq \in Nat
  BY <1>1 DEF WellFormed, Manifest
<1>3. ASSUME pc' = "idle" PROVE Booting' /\ Rewritten' /\ Switched'
  <2>1. ~InStart' /\ ~Switching'
    BY <1>3 DEF InStart, Switching, At, Persisting
  <2> QED BY <1>3, <2>1, Elsewhere
<1>4. CASE RewriteOff
  <2>1. pc' = "idle" /\ server'.aof_state = "OFF"
    BY <1>4 DEF RewriteOff, Goto
  <2>2. ~Ready'
    BY <2>1 DEF Ready, At, Persisting
  <2> QED BY <1>3, <2>1, <2>2 DEF LogRest, Complete
<1>5. CASE RewriteOpenError
  <2>1. /\ pc = "rw_open" /\ pc' = "idle" /\ server' = server /\ disk' = disk
        /\ UNCHANGED <<aof_manifest, dataset>>
    BY <1>5 DEF RewriteOpenError, Goto, memory, fs
  <2>2. Keeps /\ (Ready' => Ready)
    BY <2>1 DEF Keeps, Ready, At, Persisting
  <2> QED BY <1>1, <1>3, <2>1, <2>2, KeepsComplete DEF LogRest
<1>6. CASE RewriteWait
  <2>1. PICK synced \in BOOLEAN :
            server' = [SwapFd(TempIncr, synced) EXCEPT
                            !.fsynced_reploff_pending = MasterReplOffset, !.fsynced_reploff = 0]
    BY <1>6 DEF RewriteWait
  <2>2. TempIncr \in File
    BY DEF File
  <2>3. PICK s : s = SwapFd(TempIncr, synced) /\ s \in ServerState /\ s.aof_state = server.aof_state
    BY <1>1, <2>2, SwapFdType
  <2>4. server'.aof_state = server.aof_state
    BY <2>1, <2>3 DEF ServerState
  <2>5. pc' = "idle" /\ server.aof_state = "WAIT_REWRITE"
    BY <1>6 DEF RewriteWait, Goto
  <2>6. ~Ready'
    BY <2>4, <2>5 DEF Ready, At, Persisting
  <2> QED BY <1>3, <2>5, <2>6 DEF LogRest, Complete
<1>7. CASE RewriteOpen
  <2>1. PICK f : f = Incr(aof_manifest.incr_seq + 1)
    OBVIOUS
  <2>2. /\ disk' = With(disk, f, EmptyFile) /\ pc = "rw_open" /\ pc' = "persist" /\ cont' = "rw"
        /\ server' = server /\ UNCHANGED <<aof_manifest, dataset>> /\ server.aof_state = "ON"
    BY <1>7, <2>1 DEF RewriteOpen, Call
  <2>3. PICK m \in ManifestDup(aof_manifest) : temp_am' = NewIncr(m)
    BY <1>7 DEF RewriteOpen
  <2>4. /\ WellFormed(m) /\ m.base = aof_manifest.base /\ m.incr = aof_manifest.incr
        /\ m.incr_seq = aof_manifest.incr_seq
    BY <1>1, DupLists
  <2>5. /\ temp_am'.base = m.base /\ temp_am'.incr_seq = m.incr_seq + 1
        /\ temp_am'.incr = m.incr \cup {m.incr_seq + 1}
    BY <2>3, <2>4 DEF NewIncr, WellFormed, Manifest
  <2>6. f \in File /\ ContentOK(EmptyFile) /\ EmptyFile.data = <<>>
    BY <1>2, <2>1, NewFileType DEF File, Incr
  <2>7. Adds(disk', disk, f, EmptyFile)
    BY <1>1, <2>2, <2>6, WithType
  <2>8. Ready /\ Live(aof_manifest) \subseteq DOMAIN disk
    BY <1>1, <2>2, ReadyFile DEF Ready
  <2>9. f \notin Live(aof_manifest)
    <3>1. aof_manifest.incr_seq + 1 \notin aof_manifest.incr
      BY <1>1, <1>2 DEF WellFormed
    <3> QED BY <2>1, <3>1, LiveMembers
  <2>10. Keeps
    BY <2>2, <2>7, <2>8, <2>9 DEF Keeps, Adds
  <2>11. Complete'
    BY <1>1, <2>8, <2>10, KeepsComplete
  <2>12. server.aof_selected_db = -1 /\ server.aof_buf = <<>>
    BY <1>1, <2>2 DEF Switched
  <2>13. /\ ~InStart' /\ ~Enabling' /\ pc' \notin {"boot_base", "boot_open"}
         /\ disk'[Incr(temp_am'.incr_seq)].data = <<>>
    BY <2>1, <2>2, <2>4, <2>5, <2>6, <2>7 DEF InStart, Enabling, At, Persisting, Adds
  <2>14. Booting' /\ Rewritten'
    BY <2>2, <2>13 DEF Booting, Rewritten
  <2>15. Switched'
    BY <2>2, <2>4, <2>5, <2>12, <2>13 DEF Switched
  <2> QED BY <2>11, <2>14, <2>15 DEF LogRest
<1>8. CASE RewriteSwap
  <2>1. PICK synced \in BOOLEAN : /\ disk' = CloseOld(synced)
                                  /\ server' = SwapFd(Incr(temp_am.incr_seq), synced)
    BY <1>8 DEF RewriteSwap
  <2>2. /\ pc = "rw_swap" /\ pc' = "idle" /\ aof_manifest' = temp_am
        /\ dataset' = dataset
    BY <1>8 DEF RewriteSwap, Goto
  <2>3. PICK m, k, f, s, fd :
            /\ m = aof_manifest /\ k = temp_am /\ f = Incr(temp_am.incr_seq)
            /\ s = server' /\ fd = [file |-> f, append |-> FALSE, gap |-> 0]
    OBVIOUS
  <2>4. /\ s.aof_fd = fd /\ s.aof_last_incr_size = 0 /\ s.aof_buf = server.aof_buf
        /\ s.aof_selected_db = server.aof_selected_db
    <3>1. f \in File
      BY <1>2, <2>3 DEF File, Incr
    <3> QED BY <1>1, <2>1, <2>3, <3>1, SwapFdType
  <2>5. fd.file = f /\ fd.gap = 0
    BY <2>3
  <2>6. Ready
    <3>1. server.aof_state = "ON"
      BY <2>2 DEF CoverInv, TypeInv, Inv, Appending
    <3> QED BY <2>2, <3>1 DEF Ready
  <2>7. /\ server.aof_selected_db = -1 /\ server.aof_buf = <<>>
        /\ k.base = m.base /\ k.incr_seq = m.incr_seq + 1 /\ k.incr = m.incr \cup {k.incr_seq}
        /\ disk[f].data = <<>>
    BY <1>1, <2>2, <2>3 DEF Switched, Switching
  <2>8. Live(m) \subseteq DOMAIN disk /\ WellFormed(m) /\ WellFormed(k)
    BY <1>1, <2>3, <2>6, ReadyFile
  <2>9. Ends(m, disk, <<>>, dataset, -1)
    BY <1>1, <2>3, <2>6, <2>7 DEF Complete
  <2>10. Whole(m, disk, dataset)
    BY <1>1, <2>8, <2>9, EndsWhole
  <2>11. \A g \in DOMAIN disk : disk'[g].data = disk[g].data
    BY <1>1, <2>1, CloseOldType
  <2>12. f \in DOMAIN disk
    <3>1. Live(temp_am) \subseteq DOMAIN disk /\ temp_am.incr # {}
      BY <2>2 DEF CoverInv, TypeInv, Inv, Agreement, Committed, LiveFilesExist, Appending
    <3> QED BY <1>1, <2>3, <3>1, LastIsLate
  <2>13. PICK w, ds : w = disk' /\ ds = dataset
    OBVIOUS
  <2>14. (\A g \in Live(m) : w[g].data = disk[g].data) /\ w[Incr(k.incr_seq)].data = <<>>
    BY <2>3, <2>7, <2>8, <2>11, <2>12, <2>13
  <2>15. Ends(k, w, <<>>, ds, -1)
    BY <2>7, <2>8, <2>10, <2>13, <2>14, EmptyEnds
  <2>16. Len(<<>>) = 0
    OBVIOUS
  <2>17. Complete'
    BY <2>2, <2>3, <2>4, <2>5, <2>7, <2>13, <2>14, <2>15, <2>16 DEF Complete
  <2> QED BY <1>3, <2>2, <2>17 DEF LogRest
<1> QED BY <1>4, <1>5, <1>6, <1>7, <1>8 DEF Rewrite

\* persistAofManifest
LEMMA PersistRest ==
    ASSUME CoverInv, LogRest, CoverInv', Persist, "dirfsync" \notin MayFail
    PROVE  LogRest'
<1>1. /\ WellFormed(aof_manifest) /\ WellFormed(temp_am) /\ Switched /\ Complete /\ Rewritten
      /\ cont \in {"start", "rw", "boot", "del_start", "del_boot"}
      /\ WellFormed(temp_am')
  BY DEF CoverInv, TypeInv, LogRest, Inv, Manifests, Shape, Persist, PersistClean, PersistRename,
         PersistSynced, PersistError
<1>2. /\ server' = server /\ disk' = disk /\ dataset' = dataset /\ cont' = cont
      /\ pc \in {"persist", "dirfsync"}
      /\ pc' \in {"dirfsync", AfterPersist[cont], AfterPersistError[cont]}
      /\ aof_manifest' \in {aof_manifest, [aof_manifest EXCEPT !.dirty = FALSE]}
      /\ temp_am' \in {temp_am, [temp_am EXCEPT !.dirty = FALSE]}
  BY <1>1 DEF Persist, PersistClean, PersistRename, PersistSynced, PersistError, Goto, memory, fs
<1>3. /\ aof_manifest'.base = aof_manifest.base /\ aof_manifest'.incr = aof_manifest.incr
      /\ aof_manifest'.incr_seq = aof_manifest.incr_seq
      /\ temp_am'.base = temp_am.base /\ temp_am'.incr = temp_am.incr
      /\ temp_am'.incr_seq = temp_am.incr_seq
  BY <1>1, <1>2 DEF WellFormed, Manifest
<1>4. /\ pc' = "start_adopt" => cont = "start"
      /\ pc' = "rw_swap" => cont = "rw"
      /\ pc' = "start_done" => cont = "del_start"
      /\ pc' \in {"dirfsync", "start_adopt", "rw_swap", "del_boot", "start_done", "idle",
                  "start_undo", "exit"}
  BY <1>1, <1>2 DEF AfterPersist, AfterPersistError
<1>5. Keeps /\ (Ready' => Ready) /\ (Enabling' => Enabling) /\ (InStart' => InStart)
      /\ (Switching' => Switching)
  BY <1>1, <1>2, <1>3, <1>4 DEF Keeps, Ready, Enabling, InStart, Switching, At, Persisting
<1>6. Complete'
  BY <1>1, <1>5, KeepsComplete
<1>7. Switched'
  BY <1>1, <1>2, <1>3, <1>4, <1>5 DEF Switched
<1>8. ASSUME Enabling PROVE Ends(temp_am', disk', <<>>, dataset', -1)
  <2>1. PICK k : k = temp_am'
    OBVIOUS
  <2>2. Ends(temp_am, disk, <<>>, dataset, -1)
    BY <1>1, <1>8 DEF Rewritten
  <2>3. Ends(k, disk, <<>>, dataset, -1)
    BY <1>1, <1>3, <2>1, <2>2, EndsMove
  <2> QED BY <1>2, <2>1, <2>3
<1>9. Rewritten'
  BY <1>1, <1>2, <1>4, <1>5, <1>8 DEF Rewritten
<1> QED BY <1>4, <1>6, <1>7, <1>9 DEF LogRest, Booting

\* bg_unlink removes no file that is loaded or appended to.
LEMMA UnlinkRest ==
    ASSUME CoverInv, LogRest, CoverInv', Unlink
    PROVE  LogRest'
<1>1. /\ WellFormed(aof_manifest) /\ DiskOK(disk) /\ Switched /\ Complete /\ Rewritten
      /\ server \in ServerState
      /\ pc = "unlink" /\ cont \in {"start_failed", "del_start", "del_boot"}
      /\ unlinking \cap Live(aof_manifest) = {}
  BY TypeParts DEF CoverInv, TypeInv, LogRest, Inv, Manifests, Shape, Unlink, UnlinkDone, UnlinkOne
<1>2. /\ cont' = cont /\ dataset' = dataset
      /\ pc' \in {"unlink", "idle", "persist"}
      /\ (pc' = "persist" => cont # "start_failed")
      /\ server'.aof_selected_db = server.aof_selected_db /\ server'.aof_buf = server.aof_buf
      /\ server'.aof_last_incr_size = server.aof_last_incr_size
      /\ server'.aof_fd.gap = server.aof_fd.gap /\ server'.aof_state = server.aof_state
  BY <1>1 DEF Unlink, UnlinkDone, UnlinkOne, Goto, memory, ServerState
<1>3. aof_manifest'.base = aof_manifest.base /\ aof_manifest'.incr = aof_manifest.incr
  BY <1>1 DEF Unlink, UnlinkDone, UnlinkOne, memory, WellFormed, Manifest
<1>4. ASSUME Ready PROVE \A f \in Live(aof_manifest) : disk'[f].data = disk[f].data
  <2>1. Live(aof_manifest) \subseteq DOMAIN disk
    BY <1>1, <1>4, ReadyFile
  <2>2. CASE UnlinkDone
    BY <2>2 DEF UnlinkDone, fs
  <2>3. ASSUME NEW g \in unlinking, UnlinkOne(g)
        PROVE  \A f \in Live(aof_manifest) : disk'[f].data = disk[f].data
    <3>1. \A f \in DOMAIN disk \ {g} : disk'[f] = disk[f]
      BY <1>1, <2>3, WithoutType DEF UnlinkOne
    <3> QED BY <1>1, <2>1, <3>1
  <2> QED BY <2>2, <2>3 DEF Unlink
<1>5. /\ Ready' => Ready
      /\ ~Enabling' /\ (InStart' => InStart) /\ ~Switching'
  BY <1>1, <1>2 DEF Ready, Enabling, InStart, Switching, At, Persisting
<1>6. Complete'
  BY <1>1, <1>2, <1>3, <1>4, <1>5, KeepsComplete DEF Keeps
<1>7. Booting' /\ Switched' /\ Rewritten'
  BY <1>1, <1>2, <1>5 DEF Booting, Switched, Rewritten
<1> QED BY <1>6, <1>7 DEF LogRest

\* startAppendOnly commits a snapshot of the dataset and an empty INCR file.
LEMMA StartRest ==
    ASSUME CoverInv, LogRest, CoverInv', Start, "garbage" \notin FreedName
    PROVE  LogRest'
<1>1. /\ server \in ServerState /\ DiskOK(disk) /\ Switched /\ Complete /\ Rewritten
      /\ MasterReplOffset \in Nat /\ dataset \in Image /\ TypeInv /\ Inv /\ Temporary
      /\ WellFormed(aof_manifest) /\ WellFormed(temp_am) /\ WellFormed(temp_am')
      /\ TempIncr \in File /\ TempBase \in File
  BY TypeParts DEF CoverInv, TypeInv, LogRest, Inv, Manifests, DataType, MasterReplOffset, Image, File
<1>2. ASSUME server'.aof_state # "ON",
             pc' \in {"start_open", "start_rewrite", "start_rename_base", "start_rename_incr", "idle"}
                \/ Persisting("start")' \/ At("unlink", "start_failed")'
      PROVE  Complete' /\ Booting' /\ Switched'
  <2>1. ~Ready' /\ ~Switching' /\ pc' \notin {"fsync", "flush", "rw_open", "boot_base", "boot_open"}
    BY <1>2 DEF Ready, Switching, At, Persisting
  <2> QED BY <2>1 DEF Complete, Booting, Switched
<1>3. CASE StartOpen
  <2>1. PICK synced \in BOOLEAN : server' = SwapFd(TempIncr, synced)
    BY <1>3 DEF StartOpen
  <2>2. PICK s, fd : /\ s = server' /\ fd = [file |-> TempIncr, append |-> FALSE, gap |-> 0]
                     /\ s.aof_fd = fd /\ s.aof_last_incr_size = 0 /\ s.aof_buf = server.aof_buf
                     /\ s.aof_selected_db = server.aof_selected_db /\ s.aof_state = server.aof_state
    BY <1>1, <2>1, SwapFdType
  <2>3. fd.gap = 0
    BY <2>2
  <2>4. pc = "start_open" /\ pc' = "start_rewrite"
    BY <1>3 DEF StartOpen, Goto
  <2>5. server.aof_selected_db = -1 /\ server.aof_buf = <<>> /\ server.aof_state # "ON"
    BY <1>1, <2>4 DEF Rewritten, InStart, Inv, Starting
  <2>6. ~Enabling'
    BY <2>4 DEF Enabling, At, Persisting
  <2>7. Rewritten'
    BY <2>2, <2>3, <2>4, <2>5, <2>6 DEF Rewritten
  <2> QED BY <1>2, <2>2, <2>4, <2>5, <2>7 DEF LogRest
<1>4. CASE StartOpenError \/ StartError
  <2>1. server'.aof_state = "OFF" /\ (pc' = "idle" \/ At("unlink", "start_failed")')
    BY <1>1, <1>4 DEF StartOpenError, StartError, Goto, UnlinkThen, At, ServerState
  <2>2. ~InStart' /\ ~Enabling'
    BY <2>1 DEF InStart, Enabling, At, Persisting
  <2>3. pc' \notin {"start_rewrite", "start_rename_base", "start_rename_incr"}
    BY <2>1 DEF At
  <2>4. Rewritten'
    BY <2>2, <2>3 DEF Rewritten
  <2> QED BY <1>2, <2>1, <2>4 DEF LogRest
<1>5. CASE StartRewrite
  <2>1. /\ pc = "start_rewrite" /\ pc' = "start_rename_base"
        /\ disk' = With(disk, TempBase, BaseFile(dataset)) /\ server' = server /\ dataset' = dataset
    BY <1>5 DEF StartRewrite, Goto
  <2>2. PICK c : c = BaseFile(dataset) /\ ContentOK(c) /\ c.data = <<Snap(dataset)>>
    BY <1>1, NewFileType
  <2>3. Adds(disk', disk, TempBase, c)
    BY <1>1, <2>1, <2>2, WithType
  <2>4. disk'[TempBase].data = <<Snap(dataset)>>
    BY <2>2, <2>3 DEF Adds
  <2>5. /\ server.aof_selected_db = -1 /\ server.aof_buf = <<>> /\ server.aof_state # "ON"
        /\ server.aof_last_incr_size = 0 /\ server.aof_fd.gap = 0
    BY <1>1, <2>1 DEF Rewritten, InStart, Inv, Starting
  <2>6. ~Enabling'
    BY <2>1 DEF Enabling, At, Persisting
  <2>7. Rewritten'
    BY <2>1, <2>4, <2>5, <2>6 DEF Rewritten
  <2> QED BY <1>2, <2>1, <2>5, <2>7 DEF LogRest
<1>6. CASE StartRenameBase
  <2>1. PICK t : t = Base(temp_am.base)
    OBVIOUS
  <2>2. /\ pc = "start_rename_base" /\ pc' = "start_rename_incr"
        /\ disk' = Renamed(TempBase, t) /\ server' = server /\ dataset' = dataset
        /\ temp_am' = NewIncr(temp_am)
    BY <1>6, <2>1 DEF StartRenameBase, Goto
  <2>3. temp_am'.base = temp_am.base /\ temp_am.base \in Nat
    BY <1>1, <2>2 DEF NewIncr, WellFormed, Manifest
  <2>4. TempBase \in DOMAIN disk /\ t \in File
    BY <1>1, <2>1, <2>2, <2>3 DEF Temporary, File, Base
  <2>5. disk'[t] = disk[TempBase]
    BY <1>1, <2>2, <2>4, RenamedType
  <2>6. /\ server.aof_selected_db = -1 /\ server.aof_buf = <<>> /\ server.aof_state # "ON"
        /\ server.aof_last_incr_size = 0 /\ server.aof_fd.gap = 0
        /\ disk[TempBase].data = <<Snap(dataset)>>
    BY <1>1, <2>2 DEF Rewritten, InStart, Inv, Starting
  <2>7. ~Enabling'
    BY <2>2 DEF Enabling, At, Persisting
  <2>8. Rewritten'
    BY <2>1, <2>2, <2>3, <2>5, <2>6, <2>7 DEF Rewritten
  <2> QED BY <1>2, <2>2, <2>6, <2>8 DEF LogRest
<1>7. CASE StartRenameIncr
  <2>1. PICK t, k : t = Incr(temp_am.incr_seq) /\ k = temp_am'
    OBVIOUS
  <2>2. /\ pc = "start_rename_incr" /\ pc' = "persist" /\ cont' = "start"
        /\ disk' = Renamed(TempIncr, t) /\ dataset' = dataset
        /\ k = MarkRewritten(temp_am, server.aof_fd.file # NoFile)
        /\ server' = [server EXCEPT !.aof_fd.file = t]
    BY <1>7, <2>1 DEF StartRenameIncr, Call
  <2>3. /\ TempIncr \in DOMAIN disk /\ disk[TempIncr].data = <<>>
        /\ server.aof_fd.file # NoFile
    BY <1>1, <2>2 DEF Temporary, TempIncr, NoFile
  <2>4. /\ temp_am.base = aof_manifest.base + 1 /\ temp_am.incr_seq = aof_manifest.incr_seq + 1
        /\ aof_manifest.base \in Nat /\ aof_manifest.incr_seq \in Nat
        /\ temp_am.incr_seq \in Nat /\ temp_am.base \in Nat
    BY <1>1, <2>2 DEF Inv, Starting, WellFormed, Manifest
  <2>5. temp_am.incr # {} /\ temp_am.base # 0
    BY <1>1, <2>4 DEF WellFormed
  <2>6. k.base = temp_am.base /\ k.incr = {temp_am.incr_seq} /\ k.incr_seq = temp_am.incr_seq
    <3>1. LastIncr(temp_am) = temp_am.incr_seq
      BY <1>1, <2>5, LastIncrIsSeq
    <3>2. PICK h, n : /\ n = {temp_am.incr_seq}
                      /\ h = temp_am.hist \cup {Incr(i) : i \in temp_am.incr \ n}
      OBVIOUS
    <3>3. k = [temp_am EXCEPT !.hist = h, !.incr = n, !.dirty = TRUE]
      BY <2>2, <2>3, <2>5, <3>1, <3>2 DEF MarkRewritten
    <3> QED BY <1>1, <3>2, <3>3 DEF WellFormed, Manifest
  <2>7. t \in File
    BY <2>1, <2>4 DEF File, Incr
  <2>8. /\ disk'[t] = disk[TempIncr]
        /\ \A g \in DOMAIN disk \ {TempIncr} : g # t => disk'[g] = disk[g]
    BY <1>1, <2>2, <2>3, <2>7, RenamedType
  <2>9. disk'[Base(k.base)].data = <<Snap(dataset)>>
    <3>1. PICK b : b = Base(temp_am.base)
      OBVIOUS
    <3>3. b[1] = "base" /\ t[1] = "incr" /\ TempIncr[1] = "temp_incr"
      BY <2>1, <3>1 DEF Base, Incr, TempIncr
    <3>4. b # TempIncr /\ b # t
      BY <3>3
    <3>2. b \in DOMAIN disk /\ disk[b].data = <<Snap(dataset)>>
      BY <1>1, <2>2, <3>1 DEF Inv, Prepared, Rewritten
    <3> QED BY <2>6, <2>8, <3>1, <3>4, <3>2
  <2>10. disk'[t].data = <<>> /\ disk'[Incr(k.incr_seq)].data = <<>>
    BY <2>1, <2>3, <2>6, <2>8
  <2>11. PICK w : w = disk'
    OBVIOUS
  <2>12. Ends(k, w, <<>>, dataset, -1)
    BY <1>1, <2>1, <2>5, <2>6, <2>9, <2>10, <2>11, SnapEnds
  <2>13. /\ server.aof_selected_db = -1 /\ server.aof_buf = <<>> /\ server.aof_state # "ON"
         /\ server.aof_last_incr_size = 0 /\ server.aof_fd.gap = 0
    BY <1>1, <2>2 DEF Rewritten, InStart, Inv, Starting
  <2>14. /\ server'.aof_selected_db = -1 /\ server'.aof_buf = <<>> /\ server'.aof_state # "ON"
         /\ server'.aof_last_incr_size = 0 /\ server'.aof_fd.gap = 0 /\ server'.aof_fd.file = t
    BY <1>1, <2>2, <2>13 DEF ServerState
  <2>15. Rewritten'
    BY <2>1, <2>2, <2>10, <2>11, <2>12, <2>14 DEF Rewritten
  <2>16. Persisting("start")'
    BY <2>2 DEF Persisting, At
  <2> QED BY <1>2, <2>14, <2>15, <2>16 DEF LogRest
<1>8. CASE StartAdopt
  <2>1. /\ pc = "start_adopt" /\ aof_manifest' = [temp_am EXCEPT !.names = "freed"]
        /\ UNCHANGED <<server, temp_am, disk, dataset>>
        /\ pc' = "start_done" \/ At("unlink", "del_start")'
    BY <1>8 DEF StartAdopt, Goto, UnlinkThen, At, fs
  <2>2. PICK k : k = aof_manifest'
    OBVIOUS
  <2>3. /\ WellFormed(k) /\ k.base = temp_am.base /\ k.incr = temp_am.incr
        /\ k.incr_seq = temp_am.incr_seq
    BY <1>1, <2>1, <2>2 DEF CoverInv, TypeInv, Inv, Manifests, WellFormed, Manifest
  <2>4. /\ Ends(temp_am, disk, <<>>, dataset, -1) /\ disk[server.aof_fd.file].data = <<>>
        /\ server.aof_last_incr_size = 0 /\ server.aof_fd.gap = 0
        /\ server.aof_selected_db = -1 /\ server.aof_buf = <<>>
    BY <1>1, <2>1 DEF Rewritten, Enabling, InStart
  <2>5. Ends(k, disk, <<>>, dataset, -1)
    BY <1>1, <2>3, <2>4, EndsMove
  <2>6. Len(<<>>) = 0
    OBVIOUS
  <2>7. Complete'
    BY <2>1, <2>2, <2>4, <2>5, <2>6 DEF Complete
  <2>8. /\ ~Enabling' /\ ~Switching'
        /\ pc' \notin {"start_rewrite", "start_rename_base", "start_rename_incr", "boot_base",
                       "boot_open", "flush", "fsync", "rw_open"}
    BY <2>1 DEF Enabling, Switching, At, Persisting
  <2>9. Booting' /\ Rewritten' /\ Switched'
    BY <2>1, <2>4, <2>8 DEF Booting, Rewritten, Switched
  <2> QED BY <2>7, <2>9 DEF LogRest
<1>9. CASE StartDone
  <2>1. /\ pc = "start_done" /\ pc' = "idle" /\ UNCHANGED <<aof_manifest, disk, dataset>>
    BY <1>9 DEF StartDone, Goto, memory, fs
  <2>2. server.aof_selected_db = -1 /\ server.aof_buf = <<>> /\ Ready
    BY <1>1, <2>1 DEF Rewritten, InStart, Ready
  <2>3. /\ server'.aof_buf = <<>> /\ server'.aof_fd = server.aof_fd
        /\ server'.aof_selected_db = server.aof_selected_db
        /\ server'.aof_last_incr_size = server.aof_last_incr_size
    BY <1>1, <1>9 DEF StartDone, ServerState
  <2>4. Keeps
    BY <2>1, <2>2, <2>3 DEF Keeps
  <2>5. Complete'
    BY <1>1, <2>2, <2>4, KeepsComplete
  <2>6. ~InStart' /\ ~Switching'
    BY <2>1 DEF InStart, Switching, At, Persisting
  <2> QED BY <2>1, <2>5, <2>6, Elsewhere DEF LogRest
<1> QED BY <1>3, <1>4, <1>5, <1>6, <1>7, <1>8, <1>9 DEF Start

\* aofOpenIfNeededOnServerStart: the file that is opened without O_TRUNC is the
\* last one that was loaded, or holds nothing.
LEMMA BootRest ==
    ASSUME CoverInv, LogRest, CoverInv', Boot
    PROVE  LogRest'
<1>1. /\ server \in ServerState /\ DiskOK(disk) /\ Switched /\ Complete /\ Booting
      /\ dataset \in Image /\ Inv
      /\ WellFormed(aof_manifest) /\ WellFormed(aof_manifest')
  BY TypeParts DEF CoverInv, TypeInv, LogRest, Inv, Manifests, DataType
<1>2. PICK m, k, w : m = aof_manifest /\ k = aof_manifest' /\ w = disk'
  OBVIOUS
<1>3. WellFormed(m) /\ WellFormed(k)
  BY <1>1, <1>2
<1>4. CASE BootBase
  <2>1. PICK f, c : f = Base(m.base_seq + 1) /\ c = BaseFile(dataset)
    OBVIOUS
  <2>2. /\ pc = "boot_base" /\ pc' = "boot_open" /\ UNCHANGED <<server, dataset>>
        /\ \/ k = m /\ w = disk
           \/ Live(m) = {} /\ k = NewBase(m) /\ w = With(disk, f, c)
    BY <1>2, <1>4, <2>1 DEF BootBase, Goto
  <2>3. /\ Whole(m, disk, dataset) /\ server.aof_selected_db = -1 /\ server.aof_buf = <<>>
    BY <1>1, <1>2, <2>2 DEF Booting
  <2>4. ASSUME Live(m) = {}, k = NewBase(m), w = With(disk, f, c) PROVE Whole(k, w, dataset)
    <3>1. m.incr = {}
      <4>1. \A n \in m.incr : Incr(n) \in Live(m)
        BY LiveMembers
      <4> QED BY <2>4, <4>1
    <3>2. m.incr_seq = 0 /\ m.base \in Nat /\ m.base_seq = m.base
      BY <1>3, <3>1 DEF WellFormed, Manifest
    <3>3. k.base = m.base + 1 /\ k.incr_seq = 0
      BY <1>3, <2>4, <3>2, NewBaseFiles
    <3>4. f \in File /\ f = Base(k.base) /\ k.base \in Nat /\ k.base # 0
      BY <2>1, <3>2, <3>3 DEF File, Base
    <3>5. ContentOK(c) /\ c.data = <<Snap(dataset)>>
      BY <1>1, <2>1, NewFileType
    <3>6. Adds(w, disk, f, c)
      BY <1>1, <2>4, <3>4, <3>5, WithType
    <3>7. w[Base(k.base)].data = <<Snap(dataset)>>
      BY <3>4, <3>5, <3>6 DEF Adds
    <3>8. Base(k.base) \in Live(k)
      BY <3>4, LiveMembers
    <3>9. Loaded(Live(k), w, k.base, 0).ret = "OK" /\ Loaded(Live(k), w, k.base, 0).ds = dataset
      BY <1>1, <3>4, <3>7, <3>8, SnapLoads
    <3> QED BY <3>3, <3>9 DEF Whole
  <2>5. Whole(k, w, dataset)
    BY <2>2, <2>3, <2>4
  <2>6. Booting'
    BY <1>2, <2>2, <2>3, <2>5 DEF Booting
  <2>7. ~Ready' /\ ~InStart' /\ ~Enabling' /\ ~Switching'
    BY <2>2 DEF Ready, InStart, Enabling, Switching, At, Persisting
  <2> QED BY <2>2, <2>6, <2>7 DEF LogRest, Complete, Rewritten, Switched
<1>5. CASE BootOpen
  <2>1. PICK f : f = Incr(LastIncr(aof_manifest'))
    OBVIOUS
  <2>2. f = Incr(k.incr_seq) /\ k.incr # {} /\ f \in File
    BY <1>1, <1>2, <1>5, <2>1, BootIncr
  <2>3. /\ dataset' = dataset /\ w = (IF f \in DOMAIN disk THEN disk ELSE With(disk, f, EmptyFile))
        /\ k = (IF m.incr = {} THEN NewIncr(m) ELSE m)
    BY <1>2, <1>5, <2>1 DEF BootOpen
  <2>4. /\ server'.aof_fd = [file |-> f, append |-> TRUE, gap |-> 0]
        /\ server'.aof_last_incr_size = Len(w[f].data)
        /\ server'.aof_buf = server.aof_buf
        /\ server'.aof_selected_db = server.aof_selected_db
        /\ pc = "boot_open" /\ pc' = "persist" /\ cont' = "boot"
    BY <1>1, <1>2, <1>5, <2>1, BootOpenFields
  <2>5. server'.aof_fd.file = f /\ server'.aof_fd.gap = 0
    BY <2>4
  <2>6. /\ Whole(m, disk, dataset) /\ server.aof_selected_db = -1 /\ server.aof_buf = <<>>
        /\ Live(m) \subseteq DOMAIN disk /\ Lists(m, Filled(disk))
    BY <1>1, <1>2, <2>4 DEF Booting, Inv, Prepared, CoverInv, Covered
  <2>7. Ends(k, w, <<>>, dataset, -1)
    <3>1. CASE m.incr # {}
      <4>1. k = m /\ Incr(m.incr_seq) \in Live(m)
        BY <1>3, <2>3, <3>1, LastIsLate
      <4>2. w = disk
        BY <2>2, <2>3, <2>6, <4>1
      <4> QED BY <1>1, <1>3, <2>6, <3>1, <4>1, <4>2, WholeEnds
    <3>2. CASE m.incr = {}
      <4>1. /\ k.base = m.base /\ k.incr = m.incr \cup {m.incr_seq + 1}
            /\ k.incr_seq = m.incr_seq + 1
        BY <1>3, <2>3, <3>2, NewIncrFiles
      <4>2. f \notin Live(m)
        BY <2>2, <3>2, LiveMembers
      <4>3. f \notin m.hist
        <5>1. m.incr_seq = 0 /\ m.hist \subseteq {Base(n) : n \in 1 .. m.base}
          BY <1>3, <3>2 DEF WellFormed
        <5>2. f[1] = "incr" /\ \A n : Base(n)[1] = "base"
          BY <2>2, PlainNew
        <5> QED BY <5>1, <5>2
      <4>4. f \in DOMAIN disk => disk[f].data = <<>>
        <5>1. f[1] = "incr"
          BY <2>2, PlainNew
        <5> QED BY <2>6, <4>2, <4>3, <5>1 DEF Lists, Filled
      <4>5. w[f].data = <<>> /\ \A g \in Live(m) : w[g].data = disk[g].data
        <5>1. CASE f \in DOMAIN disk
          BY <2>3, <4>4, <5>1
        <5>2. CASE f \notin DOMAIN disk
          <6>1. w = With(disk, f, EmptyFile) /\ ContentOK(EmptyFile) /\ EmptyFile.data = <<>>
            BY <2>3, <5>2, NewFileType
          <6>2. Adds(w, disk, f, EmptyFile)
            BY <1>1, <2>2, <6>1, WithType
          <6> QED BY <2>6, <4>2, <6>1, <6>2 DEF Adds
        <5> QED BY <5>1, <5>2
      <4>6. k.incr = m.incr \cup {k.incr_seq} /\ w[Incr(k.incr_seq)].data = <<>>
        BY <2>2, <4>1, <4>5
      <4> QED BY <1>3, <2>6, <4>1, <4>5, <4>6, EmptyEnds
    <3> QED BY <3>1, <3>2
  <2>8. Complete'
    BY <1>2, <2>3, <2>4, <2>5, <2>6, <2>7 DEF Complete
  <2>9. ~InStart' /\ ~Switching' /\ pc' = "persist"
    BY <2>4 DEF InStart, Switching, At, Persisting
  <2> QED BY <2>8, <2>9, Elsewhere DEF LogRest
<1>6. CASE BootError
  <2>1. pc' = "exit"
    BY <1>6 DEF BootError, Goto
  <2>2. ~Ready' /\ ~InStart' /\ ~Switching'
    BY <2>1, <1>6 DEF BootError, Ready, InStart, Switching, At, Persisting, Goto
  <2> QED BY <2>1, <2>2, Elsewhere DEF LogRest, Complete
<1>7. CASE BootDelHistory
  <2>1. /\ pc = "del_boot" /\ (pc' = "idle" \/ At("unlink", "del_boot")')
        /\ UNCHANGED <<server, aof_manifest, dataset, disk>>
    BY <1>7 DEF BootDelHistory, Goto, UnlinkThen, At, memory, fs
  <2>2. Ready' => Ready
    BY <2>1 DEF Ready, At, Persisting
  <2>3. Keeps
    BY <2>1 DEF Keeps
  <2>4. Complete'
    BY <1>1, <2>2, <2>3, KeepsComplete
  <2>5. ~InStart' /\ ~Switching' /\ pc' \in {"idle", "unlink"}
    BY <2>1 DEF InStart, Switching, At, Persisting
  <2> QED BY <2>4, <2>5, Elsewhere DEF LogRest
<1> QED BY <1>4, <1>5, <1>6, <1>7 DEF Boot

\* A server that starts loads the dataset from the files, cut or not.
LEMMA EnvironmentRest ==
    ASSUME CoverInv, PlainBuffer, LogRest, CoverInv', Environment
    PROVE  LogRest'
<1>1. /\ DiskOK(disk) /\ WellFormed(disk_manifest) /\ Live(disk_manifest) \subseteq DOMAIN disk
      /\ disk_manifest.names # "garbled" /\ Plain(disk)
  BY DEF CoverInv, TypeInv, Inv, Manifests, LiveFilesExist, Named, PlainBuffer
<1>2. CASE pc' = "down"
  <2>1. ~Ready' /\ ~InStart' /\ ~Switching'
    BY <1>2 DEF Ready, InStart, Switching, At, Persisting
  <2> QED BY <1>2, <2>1, Elsewhere DEF LogRest, Complete
<1>3. CASE Kill \/ PowerLoss \/ StartServerFatal
  BY <1>2, <1>3 DEF Kill, PowerLoss, Stop, StartServerFatal, control
<1>4. CASE StartServerOff
  <2>1. pc' = "del_boot" /\ server' = [FreshServer EXCEPT !.aof_state = "OFF", !.fsynced_reploff = -1]
    BY <1>4 DEF StartServerOff, Booted, Goto
  <2>2. server'.aof_state = "OFF"
    BY <2>1 DEF FreshServer
  <2>3. ~Ready' /\ ~InStart' /\ ~Switching'
    BY <2>1, <2>2 DEF Ready, InStart, Switching, At, Persisting
  <2> QED BY <2>1, <2>3, Elsewhere DEF LogRest, Complete
<1>5. CASE StartServer
  <2>1. PICK m, k, r, w : /\ m = disk_manifest /\ k = aof_manifest' /\ w = disk'
                          /\ r = LoadAppendOnlyFiles(m, disk)
    OBVIOUS
  <2>2. /\ r.ret # "FAILED" /\ dataset' = r.ds /\ w = AfterLoad(disk, r)
        /\ k = LoadManifest(m) /\ pc' = "boot_base"
        /\ server' = [FreshServer EXCEPT !.aof_state = "ON", !.fsynced_reploff = 0]
    BY <1>5, <2>1 DEF StartServer, Booted, Goto
  <2>3. server'.aof_selected_db = -1 /\ server'.aof_buf = <<>>
    BY <2>2 DEF FreshServer
  <2>4. Whole(m, w, r.ds)
    BY <1>1, <2>1, <2>2, LoadWhole
  <2>5. /\ WellFormed(m) /\ WellFormed(k) /\ Live(k) = Live(m)
    BY <1>1, <2>1, <2>2, LoadManifestFiles
  <2>6. k.base = m.base /\ k.incr_seq = m.incr_seq
    BY <2>5, SameNumbers
  <2>7. Whole(k, w, r.ds)
    BY <2>4, <2>5, <2>6, WholeSame
  <2>8. Booting'
    BY <2>1, <2>2, <2>3, <2>7 DEF Booting
  <2>9. ~Ready' /\ ~InStart' /\ ~Enabling' /\ ~Switching'
    BY <2>2 DEF Ready, InStart, Enabling, Switching, At, Persisting
  <2> QED BY <2>2, <2>8, <2>9 DEF LogRest, Complete, Rewritten, Switched
<1> QED BY <1>3, <1>4, <1>5 DEF Environment

\* The first state.
LEMMA InitLogInv ==
    ASSUME Init
    PROVE  LogInv
<1>1. CoverInv /\ pc = "down" /\ disk = <<>> /\ server = FreshServer
  BY InitCoverInv DEF Init
<1>2. FreshServer.aof_buf = <<>> /\ ~FreshServer.aof_rewrite_scheduled
  BY DEF FreshServer
<1>3. PlainBuffer
  BY <1>1, <1>2, NoSnapEntry DEF PlainBuffer, Plain
<1>4. ~Ready /\ ~InStart /\ ~Enabling /\ ~Switching
  BY <1>1 DEF Ready, InStart, Enabling, Switching, At, Persisting
<1>5. LogRest /\ Steady
  BY <1>1, <1>2, <1>4 DEF LogRest, Booting, Complete, Rewritten, Switched, Steady
<1> QED BY <1>1, <1>3, <1>5 DEF LogInv

\* LogInv is inductive.
LEMMA NextLogInv ==
    ASSUME LogInv, [Next]_vars, "garbage" \notin FreedName, "dirfsync" \notin MayFail, WritesSafe
    PROVE  LogInv'
<1>1. CoverInv /\ PlainBuffer /\ LogRest /\ Steady
  BY DEF LogInv
<1>2. CoverInv' /\ PlainBuffer' /\ Steady'
  BY <1>1, NextCoverInv, PlainStep, SteadyStep
<1>3. CASE UNCHANGED vars
  <2>1. UNCHANGED <<server, aof_manifest, temp_am, disk, dataset, pc, cont>>
    BY <1>3 DEF vars, memory, control, fs
  <2>2. LogRest'
    BY <1>1, <2>1 DEF LogRest, Booting, Complete, Rewritten, Switched, Ready, InStart, Enabling,
         Switching, At, Persisting
  <2> QED BY <1>2, <2>2 DEF LogInv
<1>4. CASE Next
  <2>1. LogRest'
    BY <1>1, <1>2, <1>4, FlushRest, IdleRest, RewriteRest, StartRest, PersistRest, UnlinkRest,
       BootRest, EnvironmentRest DEF Next, Running
  <2> QED BY <1>2, <2>1 DEF LogInv
<1> QED BY <1>3, <1>4

\* With the AOF on and no call in progress, the files and the buffer load as the
\* dataset.
LEMMA CompleteRecovers ==
    ASSUME LogInv
    PROVE  LogCompletesDataset
<1> SUFFICES ASSUME pc = "idle", server.aof_state = "ON"
             PROVE  Recovered(disk_manifest, WriteFd(server.aof_buf)) = dataset
  BY DEF LogCompletesDataset
<1>1. /\ CoverInv /\ Switched /\ Complete /\ server \in ServerState /\ DiskOK(disk) /\ Agreement
      /\ WellFormed(aof_manifest) /\ WellFormed(disk_manifest) /\ disk_manifest.names # "garbled"
      /\ server.aof_buf \in Seq(Token)
  BY TypeParts DEF LogInv, CoverInv, TypeInv, LogRest, Inv, Manifests, Named, ServerState
<1>2. PICK m, k, x, w : /\ m = aof_manifest /\ k = disk_manifest /\ x = server.aof_buf
                        /\ w = WriteFd(server.aof_buf)
  OBVIOUS
<1>3. Ready /\ Live(k) = Live(m)
  BY <1>1, <1>2 DEF Ready, Agreement, Committed, At
<1>4. PICK f : f = server.aof_fd.file
  OBVIOUS
<1>5. /\ f = Incr(m.incr_seq) /\ f \in Live(m) /\ Live(m) \subseteq DOMAIN disk
  BY <1>1, <1>2, <1>3, <1>4, ReadyFile
<1>6. /\ server.aof_fd.gap = 0
      /\ Ends(m, disk, x, dataset, server.aof_selected_db)
  BY <1>1, <1>2, <1>3 DEF Complete
<1>7. /\ DiskOK(w) /\ DOMAIN w = DOMAIN disk /\ \A g \in DOMAIN disk : g # f => w[g] = disk[g]
  BY <1>1, <1>2, <1>4, WriteFdType
<1>8. w[f].data = disk[f].data \o x /\ w[f].data \in Seq(Token)
  BY <1>1, <1>2, <1>4, <1>5, <1>6, <1>7, WritesEnd DEF DiskOK, ContentOK
<1>9. w[f].data \o <<>> = disk[f].data \o x
  BY <1>8, ConcatEmptySeq
<1>10. k.base = m.base /\ k.incr = m.incr
  BY <1>1, <1>2, <1>3, SameNumbers
<1>11. PICK se : se = server.aof_selected_db
  OBVIOUS
<1>12. /\ \A g \in Live(m) : g # Incr(m.incr_seq) => w[g].data = disk[g].data
       /\ w[Incr(m.incr_seq)].data \o <<>> = disk[Incr(m.incr_seq)].data \o x
       /\ Ends(m, disk, x, dataset, se) /\ WellFormed(m) /\ WellFormed(k)
  BY <1>1, <1>2, <1>5, <1>6, <1>7, <1>9, <1>11
<1>13. Ends(k, w, <<>>, dataset, se)
  BY <1>10, <1>12, EndsMove
<1>14. Live(k) \subseteq DOMAIN w
  BY <1>3, <1>5, <1>7
<1>15. Whole(k, w, dataset)
  BY <1>7, <1>12, <1>13, <1>14, EndsWhole
<1>16. Recovered(k, w) = dataset
  BY <1>1, <1>2, <1>12, <1>14, <1>15, WholeRecovers
<1> QED BY <1>2, <1>16

\* The strengthening that makes LogCompletesDataset inductive.
THEOREM LogInvHolds ==
    ASSUME "garbage" \notin FreedName, "dirfsync" \notin MayFail, WritesSafe
    PROVE  Spec => []LogInv
  BY InitLogInv, NextLogInv, PTL DEF Spec

\* While the AOF is on and no call is in progress, a restart that found on disk
\* what the next flush is about to write would load exactly the dataset in
\* memory: no command is lost, repeated or applied to another database on its
\* way through aof_buf, the files and the manifests.
THEOREM LogIsComplete ==
    ASSUME "garbage" \notin FreedName, "dirfsync" \notin MayFail, WritesSafe
    PROVE  Spec => []LogCompletesDataset
  BY LogInvHolds, CompleteRecovers, PTL
=============================================================================
