----------------------------- MODULE AofFormat ------------------------------
(***************************************************************************)
(* The files of the Redis append-only file and how they are read back:     *)
(* names, tokens, the manifest and its operations, and the loader of       *)
(* wasip2-redis/redis-7.4.11/src/aof.c.                                    *)
(*                                                                         *)
(* A dataset is the sequence of the writes that built it.  A file holds a  *)
(* sequence of tokens: a SELECT, the two halves of a command (so that a    *)
(* write can be cut in the middle of one), the snapshot of a BASE file, or *)
(* the zero bytes of a hole.                                               *)
(***************************************************************************)
EXTENDS Integers, Sequences, FiniteSets, SequencesExt

CONSTANT AofLoadTruncated       \* aof-load-truncated

ASSUME LoadTruncatedAssumption == AofLoadTruncated \in BOOLEAN

Base(n) == <<"base", n>>
Incr(n) == <<"incr", n>>
TempBase == <<"temp_base", 0>>  \* temp-rewriteaof-sync.aof
TempIncr == <<"temp_incr", 0>>  \* temp-appendonly.aof.incr
File == ({"base", "incr"} \X Nat) \cup {TempBase, TempIncr}

NoFile == <<"none", 0>>         \* a descriptor of -1
Unlinked == <<"unlinked", 0>>   \* an open file whose name is gone

Image == Seq([id : Nat, db : Nat])
Token == [kind : {"sel", "head", "tail", "hole", "snap"}, arg : Nat, image : Image]

Sel(d) == [kind |-> "sel", arg |-> d, image |-> <<>>]
CmdHead(i) == [kind |-> "head", arg |-> i, image |-> <<>>]
CmdTail(i) == [kind |-> "tail", arg |-> i, image |-> <<>>]
Hole == [kind |-> "hole", arg |-> 0, image |-> <<>>]
Snap(ds) == [kind |-> "snap", arg |-> 0, image |-> ds]

\* Mutant of Entry: a command is logged without its SELECT.
EntryWithoutSelect(w, selected) == <<CmdHead(w.id), CmdTail(w.id)>>

\* feedAppendOnlyFile: SELECT when the database changes, then the command.
Entry(w, selected) ==
    (IF w.db = selected THEN <<>> ELSE <<Sel(w.db)>>)
        \o <<CmdHead(w.id), CmdTail(w.id)>>

-----------------------------------------------------------------------------
(* Manifests.  The INCR list is kept as the set of its sequence numbers:   *)
(* the list order is the numeric order, which the loader insists on.       *)
(* `names' is "freed" when the strings naming the BASE and the last INCR   *)
(* file have been freed, "garbled" when they were copied from freed memory.*)

Manifest == [base : Nat, incr : SUBSET Nat, hist : SUBSET File,
             base_seq : Nat, incr_seq : Nat, dirty : BOOLEAN,
             names : {"ok", "freed", "garbled"}]

\* aofManifestCreate; base = 0 means that there is no BASE file.
EmptyManifest == [base |-> 0, incr |-> {}, hist |-> {}, base_seq |-> 0,
                  incr_seq |-> 0, dirty |-> FALSE, names |-> "ok"]

\* The files that make up the dataset.
Live(m) == {Base(b) : b \in {m.base} \ {0}} \cup {Incr(n) : n \in m.incr}

LastIncr(m) == CHOOSE n \in m.incr : \A k \in m.incr : k <= n

\* The order in which files are loaded, whether or not they are live.
LoadOrder(m) ==
    <<Base(m.base)>> \o [n \in 1 .. (IF m.incr = {} THEN 0 ELSE LastIncr(m)) |-> Incr(n)]

\* Mutant of NewBase: the sequence number is not advanced.
NewBaseSameSeq(m) ==
    [m EXCEPT !.hist = @ \cup {Base(b) : b \in {m.base} \ {0}},
              !.base = m.base_seq + 1, !.dirty = TRUE]

\* getNewBaseFileNameAndMarkPreAsHistory
NewBase(m) ==
    [m EXCEPT !.hist = @ \cup {Base(b) : b \in {m.base} \ {0}},
              !.base_seq = @ + 1,
              !.base = m.base_seq + 1,
              !.dirty = TRUE]

\* getNewIncrAofName
NewIncr(m) ==
    [m EXCEPT !.incr_seq = @ + 1,
              !.incr = @ \cup {m.incr_seq + 1},
              !.dirty = TRUE]

\* Mutants of MarkRewritten: the file being written is marked too; the marked
\* files are dropped from the manifest without entering the history.
MarkRewrittenAll(m, writing) ==
    [m EXCEPT !.hist = @ \cup {Incr(n) : n \in m.incr}, !.dirty = TRUE]
MarkRewrittenForgets(m, writing) ==
    [m EXCEPT !.incr = {LastIncr(m)}, !.dirty = TRUE]

\* markRewrittenIncrAofAsHistory: all but the one being written, if any.
MarkRewritten(m, writing) ==
    LET keep == IF writing THEN {LastIncr(m)} ELSE {}
    IN  IF m.incr = {} THEN m
        ELSE [m EXCEPT !.hist = @ \cup {Incr(n) : n \in m.incr \ keep},
                       !.incr = keep,
                       !.dirty = TRUE]

\* aofLoadManifestFromFile: the sequence counters come from the entries.
LoadManifest(m) ==
    [m EXCEPT !.base_seq = m.base,
              !.incr_seq = IF m.incr = {} THEN 0 ELSE LastIncr(m),
              !.dirty = FALSE]

-----------------------------------------------------------------------------
(* File contents.                                                          *)

EmptyFile == [data |-> <<>>, synced |-> 0]
BaseFile(ds) == [data |-> <<Snap(ds)>>, synced |-> 1]
Synced(c) == [c EXCEPT !.synced = Len(c.data)]

\* truncate(2): what is kept stays synced as far as it was.
CutAt(c, n) == [data |-> SubSeq(c.data, 1, n),
                synced |-> IF c.synced < n THEN c.synced ELSE n]

-----------------------------------------------------------------------------
(* Loading.                                                                *)

\* One token read by the fake client, which starts every file in database 0.
LoadToken(st, tok) ==
    LET s == [st EXCEPT !.pos = @ + 1]
    IN  CASE ~st.ok -> s
          [] st.ok /\ tok.kind = "snap" ->
                [s EXCEPT !.ds = tok.image]
          [] st.ok /\ tok.kind = "sel" /\ st.open = 0 ->
                [s EXCEPT !.db = tok.arg, !.valid = s.pos]
          [] st.ok /\ tok.kind = "head" /\ st.open = 0 ->
                [s EXCEPT !.open = tok.arg]
          [] st.ok /\ tok.kind = "tail" /\ st.open = tok.arg ->
                [s EXCEPT !.ds = Append(@, [id |-> tok.arg, db |-> st.db]),
                          !.open = 0, !.valid = s.pos]
          [] OTHER -> [s EXCEPT !.ok = FALSE]

\* loadSingleAppendOnlyFile
LoadFile(ds, toks) ==
    LET st == FoldLeft(LoadToken,
                       [ds |-> ds, db |-> 0, open |-> 0, ok |-> TRUE,
                        pos |-> 0, valid |-> 0],
                       toks)
    IN  [ds |-> st.ds, valid |-> st.valid,
         ret |-> IF ~st.ok THEN "FAILED"
                 ELSE IF st.open = 0 THEN "OK"
                 ELSE IF AofLoadTruncated THEN "TRUNCATED" ELSE "FAILED"]

\* A live file, after the ones loaded before it.  A truncated file must be the
\* last one, but has been cut on disk (`cut') by the time that is found out.
LoadNext(live, disk, acc, f) ==
    LET r == LoadFile(acc.ds, disk[f].data)
    IN  IF f \notin live THEN acc
        ELSE IF acc.ret # "OK" THEN [acc EXCEPT !.ret = "FAILED"]
        ELSE [ds |-> r.ds, ret |-> r.ret,
              cut |-> IF r.ret = "TRUNCATED" THEN [file |-> f, at |-> r.valid] ELSE acc.cut]

\* loadAppendOnlyFiles: the files of a manifest in order.
NothingLoaded == [ds |-> <<>>, ret |-> "OK", cut |-> [file |-> NoFile, at |-> 0]]
LoadAppendOnlyFiles(m, disk) ==
    IF m.names = "garbled" \/ ~(Live(m) \subseteq DOMAIN disk)
    THEN [NothingLoaded EXCEPT !.ret = "FAILED"]
    ELSE FoldLeft(LAMBDA acc, f : LoadNext(Live(m), disk, acc, f), NothingLoaded, LoadOrder(m))

\* The disk after a load, whether or not it succeeded.
AfterLoad(disk, r) ==
    IF r.cut.file = NoFile THEN disk
    ELSE [disk EXCEPT ![r.cut.file] = CutAt(@, r.cut.at)]

\* The dataset a restart with appendonly yes would find.
Lost == <<[id |-> 0, db |-> 0]>>
Recovered(m, disk) ==
    LET r == LoadAppendOnlyFiles(m, disk)
    IN  IF r.ret = "FAILED" THEN Lost ELSE r.ds
=============================================================================
