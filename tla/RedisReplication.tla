-------------------------- MODULE RedisReplication --------------------------
(***************************************************************************)
(* Redis replication: histories named by replication IDs, partial and full *)
(* resynchronisation, promotion and demotion, planned failover, restarts   *)
(* from the RDB file (replication.c, parts of networking.c, rdb.c and      *)
(* server.c).                                                              *)
(*                                                                         *)
(* A dataset is the sequence of the writes that built it, each with its    *)
(* database.  The replication stream is a sequence of commands, and an     *)
(* offset counts commands instead of bytes: the code only moves offsets    *)
(* past whole commands (commandProcessed).  A connection belongs to the    *)
(* replica that opened it and appears in the model when the peer accepts   *)
(* its PSYNC: until then the replica's state, and so what it asks for,     *)
(* cannot change without ending the attempt, and an attempt that fails is  *)
(* repeated.  conn[r].q is what the peer has written and r                 *)
(* has not read, conn[r].out the part of the peer's output buffer held     *)
(* back until the RDB file has been sent.  When the peer closes, r may     *)
(* still read any part of q; a replica that closes loses it.               *)
(***************************************************************************)
EXTENDS Integers, Sequences, FiniteSets, SequencesExt

CONSTANTS
    Server,       \* the instances
    NoServer,     \* masterhost = NULL
    ReplicaOfConf,\* [Server -> Server \cup {NoServer}], the replicaof directives
    Dbs,          \* the databases, 0 .. dbnum - 1
    BacklogSize,  \* repl-backlog-size, in commands
    ForkOutcome,  \* what redisFork may do; {FALSE} in the WASI build
    MaxWrites,    \* bound on write commands and PINGs
    MaxAdmin,     \* bound on REPLICAOF and FAILOVER commands
    MaxFaults,    \* bound on lost links, failed children or loads, given-up FAILOVERs
    MaxRestarts,  \* bound on crashes
    MaxSaves      \* bound on RDB files written for persistence

ASSUME ReplAssumption ==
    /\ IsFiniteSet(Server) /\ NoServer \notin Server
    /\ ReplicaOfConf \in [Server -> Server \cup {NoServer}]
    /\ \A n \in Server : ReplicaOfConf[n] # n
    /\ 0 \in Dbs /\ Dbs \subseteq Nat
    /\ BacklogSize \in Nat \ {0}
    /\ ForkOutcome \subseteq BOOLEAN
    /\ {MaxWrites, MaxAdmin, MaxFaults, MaxRestarts, MaxSaves} \subseteq Nat

VARIABLES
    node,    \* the replication state of each instance
    conn,    \* the connection each instance has to its master
    rdb,     \* dump.rdb of each instance
    ids,     \* replication IDs drawn so far: IDs are 1, 2, ...
    used     \* how much of each bound has been used

vars == <<node, conn, rdb, ids, used>>

-----------------------------------------------------------------------------
(* Commands of the stream, messages, snapshots                             *)

Select(d) == [op |-> "select", arg |-> d]
Command(w) == [op |-> "write", arg |-> w]
Ping == [op |-> "ping", arg |-> 0]
IsCommand(x) == x.op \in {"select", "write", "ping"}

NoId == 0           \* replid2 after clearReplicationId2, and the "?" of PSYNC
NoDb == -1          \* slaveseldb = -1, repl-stream-db absent
Nothing == [present |-> FALSE]

\* What a master client keeps about the stream: replid, reploff and the
\* selected database.
Client(id, off, db) == [present |-> TRUE, id |-> id, off |-> off, db |-> db]

\* An RDB file with its auxiliary fields repl-id, repl-offset, repl-stream-db.
Snapshot(data, id, off, db) ==
    [present |-> TRUE, data |-> data, id |-> id, off |-> off, db |-> db]

NoConn == [to |-> NoServer, open |-> FALSE, st |-> "none", q |-> <<>>, out |-> <<>>]

\* createReplicationBacklog: the first byte is the next one to be generated.
NewBacklog(off) == [present |-> TRUE, first |-> off + 1, buf |-> <<>>]

\* The slaves list of m.
Slaves(m) == {r \in Server : conn[r].to = m /\ conn[r].open}

-----------------------------------------------------------------------------
(* Replication IDs                                                         *)

\* shiftReplicationId with the new random ID id.
ShiftReplicationId(s, id) ==
    [s EXCEPT !.replid2 = s.replid, !.second = s.off + 1, !.replid = id]

\* Mutant of NewHistory: the ID is kept although its history ends here.
NewHistoryKeepsId(s, id) == [s EXCEPT !.replid2 = NoId, !.second = -1]

\* changeReplicationId and clearReplicationId2.
NewHistory(s, id) == [s EXCEPT !.replid = id, !.replid2 = NoId, !.second = -1]

(* The master client of a replica                                          *)

\* freeClient on the master: replicationCacheMaster and
\* replicationHandleMasterDisconnection.
CacheMaster(s) ==
    [s EXCEPT !.cached = IF s.master.present THEN s.master ELSE @,
              !.master = Nothing]

\* replicationCacheMasterUsingMyself.
CacheMasterUsingMyself(s) == [s EXCEPT !.cached = Client(s.replid, s.off, 0)]

\* replicationSetMaster.  The handshake with an earlier master is cancelled.
SetMaster(s, h) ==
    LET t == CacheMaster(s)
        u == IF s.masterhost = NoServer THEN CacheMasterUsingMyself(t) ELSE t
    IN [u EXCEPT !.masterhost = h, !.rstate = "connect", !.sync = Nothing]

\* Mutant of UnsetMaster: the cached master is kept.
UnsetMasterKeepsCached(s, id) ==
    [ShiftReplicationId(s, id) EXCEPT
        !.masterhost = NoServer, !.master = Nothing,
        !.rstate = "none", !.sync = Nothing, !.seldb = NoDb]

\* replicationUnsetMaster, without disconnectSlaves.
UnsetMaster(s, id) ==
    [ShiftReplicationId(s, id) EXCEPT
        !.masterhost = NoServer, !.master = Nothing, !.cached = Nothing,
        !.rstate = "none", !.sync = Nothing, !.seldb = NoDb]

-----------------------------------------------------------------------------
(* Feeding the stream                                                      *)

\* A command sequence reaches the slaves of m that are waiting for the end of
\* the BGSAVE or online (canFeedReplicaReplBuffer).
FeedSlaves(c, m, cmds) ==
    [r \in Server |->
        IF c[r].to = m /\ c[r].open /\ c[r].st = "online"
        THEN [c[r] EXCEPT !.q = @ \o cmds]
        ELSE IF c[r].to = m /\ c[r].open /\ c[r].st = "wait_end"
        THEN [c[r] EXCEPT !.out = @ \o cmds]
        ELSE c[r]]

\* feedReplicationBuffer: the offset and the backlog grow; the backlog is
\* trimmed to no less than BacklogSize, how far depends on blocks and on the
\* replicas that still refer to them: keep commands stay.
FeedBuffer(s, cmds, keep) ==
    LET b == s.backlog.buf \o cmds
        cut == Len(b) - keep
    IN [s EXCEPT !.off = @ + Len(cmds),
                 !.backlog = [present |-> TRUE, first |-> @.first + cut,
                              buf |-> SubSeq(b, cut + 1, Len(b))]]

\* What incrementalTrimReplicationBacklog may leave of n commands.
Kept(n) == (IF n < BacklogSize THEN n ELSE BacklogSize) .. n

\* Mutant of DisconnectSlaves: connected replicas are not told.
DisconnectNobody(c, m) == c

\* disconnectSlaves, or the end of the process: what has been written stays to
\* be read.
DisconnectSlaves(c, m) ==
    [r \in Server |-> IF c[r].to = m THEN [c[r] EXCEPT !.open = FALSE, !.out = <<>>] ELSE c[r]]

-----------------------------------------------------------------------------
(* Starting an instance                                                    *)

\* rdbPopulateSaveInfo: the database selected in the stream, or NoDb when
\* there is nothing a PSYNC could refer to.
StreamDb(s) ==
    IF s.masterhost = NoServer /\ s.backlog.present
    THEN IF s.seldb = NoDb THEN 0 ELSE s.seldb
    ELSE IF s.master.present THEN s.master.db
    ELSE IF s.cached.present THEN s.cached.db
    ELSE NoDb

SnapshotOf(s) == Snapshot(s.data, s.replid, s.off, StreamDb(s))

Fresh(id, h) ==
    [data |-> <<>>, replid |-> id, replid2 |-> NoId, second |-> -1, off |-> 0,
     backlog |-> Nothing, seldb |-> NoDb, masterhost |-> h,
     rstate |-> IF h = NoServer THEN "none" ELSE "connect",
     master |-> Nothing, cached |-> Nothing, sync |-> Nothing,
     child |-> Nothing, failover |-> "none", target |-> NoServer]

\* loadDataFromDisk.  A master keeps the history of the file as its second
\* one; dels are the deletions of keys found expired, which it feeds to its
\* backlog while it loads (RDBFLAGS_FEED_REPL).
BootMaster(s, file, dels) ==
    IF file.db = NoDb
    THEN [s EXCEPT !.data = file.data \o dels.data, !.off = Len(dels.cmds), !.seldb = dels.db]
    ELSE [s EXCEPT !.data = file.data \o dels.data,
                   !.replid2 = file.id, !.second = file.off + 1,
                   !.off = file.off + Len(dels.cmds), !.seldb = dels.db,
                   !.backlog = [NewBacklog(file.off) EXCEPT !.buf = dels.cmds]]

\* A replica makes a cached master from it.
BootReplica(s, file) ==
    IF file.db = NoDb
    THEN [s EXCEPT !.data = file.data]
    ELSE [s EXCEPT !.data = file.data, !.replid = file.id, !.off = file.off,
                   !.cached = Client(file.id, file.off, file.db)]

NoDels == [data |-> <<>>, cmds |-> <<>>, db |-> NoDb]
Dels(w, d) == [data |-> << <<w, d>> >>, cmds |-> <<Select(d), Command(w)>>, db |-> d]

Init ==
    /\ node = LET id == CHOOSE f \in Injection(Server, 1 .. Cardinality(Server)) : TRUE
              IN [n \in Server |-> Fresh(id[n], ReplicaOfConf[n])]
    /\ conn = [n \in Server |-> NoConn]
    /\ rdb = [n \in Server |-> Nothing]
    /\ ids = Cardinality(Server)
    /\ used = [write |-> 0, admin |-> 0, fault |-> 0,
               restart |-> 0, save |-> 0]

Use(what, max) == /\ used[what] < max
                  /\ used' = [used EXCEPT ![what] = @ + 1]

-----------------------------------------------------------------------------
(* Commands                                                                *)

\* A client's write at a master, propagated by replicationFeedSlaves.  Without
\* a backlog nothing is fed and the offset stays (AOF off).  Clients are
\* paused during a FAILOVER.
Write(m, d) ==
    /\ node[m].masterhost = NoServer
    /\ node[m].failover = "none"
    /\ Use("write", MaxWrites)
    /\ LET w == used.write + 1
           s == [node[m] EXCEPT !.data = Append(@, <<w, d>>)]
           cmds == (IF s.seldb = d THEN <<>> ELSE <<Select(d)>>) \o <<Command(w)>>
       IN IF s.backlog.present
          THEN \E keep \in Kept(Len(s.backlog.buf) + Len(cmds)) :
                  /\ node' = [node EXCEPT ![m] = [FeedBuffer(s, cmds, keep) EXCEPT !.seldb = d]]
                  /\ conn' = FeedSlaves(conn, m, cmds)
          ELSE node' = [node EXCEPT ![m] = s] /\ UNCHANGED conn
    /\ UNCHANGED <<rdb, ids>>

\* replicationCron feeds a PING.  Only a FAILOVER with a TIMEOUT holds it back while
\* clients are paused; one without a TIMEOUT does not.
PingSlaves(m) ==
    /\ node[m].masterhost = NoServer
    /\ Slaves(m) # {}
    /\ Use("write", MaxWrites)
    /\ \E keep \in Kept(Len(node[m].backlog.buf) + 1) :
          node' = [node EXCEPT ![m] = FeedBuffer(@, <<Ping>>, keep)]
    /\ conn' = FeedSlaves(conn, m, <<Ping>>)
    /\ UNCHANGED <<rdb, ids>>

\* REPLICAOF host port
ReplicaOf(n, h) ==
    /\ h # n /\ node[n].masterhost # h
    /\ node[n].failover = "none"
    /\ Use("admin", MaxAdmin)
    /\ node' = [node EXCEPT ![n] = SetMaster(@, h)]
    /\ conn' = [conn EXCEPT ![n] = NoConn]
    /\ UNCHANGED <<rdb, ids>>

\* REPLICAOF NO ONE
ReplicaOfNoOne(n) ==
    /\ node[n].masterhost # NoServer
    /\ node[n].failover = "none"
    /\ Use("admin", MaxAdmin)
    /\ ids' = ids + 1
    /\ node' = [node EXCEPT ![n] = UnsetMaster(@, ids + 1)]
    /\ conn' = [DisconnectSlaves(conn, n) EXCEPT ![n] = NoConn]
    /\ UNCHANGED rdb

\* SAVE, or a BGSAVE of a save point.
Save(n) ==
    /\ Use("save", MaxSaves)
    /\ rdb' = [rdb EXCEPT ![n] = SnapshotOf(node[n])]
    /\ UNCHANGED <<node, conn, ids>>

\* The process dies and starts again, in the role its configuration gives it:
\* the one it had last (CONFIG REWRITE) or master.
Restart(n) ==
    /\ Use("restart", MaxRestarts)
    /\ ids' = ids + 1
    /\ LET file == IF rdb[n].present THEN rdb[n] ELSE Snapshot(<<>>, NoId, 0, NoDb)
       IN \/ /\ \/ node' = [node EXCEPT ![n] = BootMaster(Fresh(ids + 1, NoServer), file, NoDels)]
                \/ \E d \in Dbs : node' = [node EXCEPT ![n] =
                      BootMaster(Fresh(ids + 1, NoServer), file, Dels(MaxWrites + ids, d))]
          \/ /\ node[n].masterhost # NoServer
             /\ node' = [node EXCEPT ![n] = BootReplica(Fresh(ids + 1, node[n].masterhost), file)]
    /\ conn' = [DisconnectSlaves(conn, n) EXCEPT ![n] = NoConn]
    /\ UNCHANGED rdb

-----------------------------------------------------------------------------
(* The replica's side of the handshake                                     *)

\* What r asks for: the writing half of slaveTryPartialResynchronization.
Request(s) ==
    [id |-> IF s.cached.present THEN s.cached.id ELSE NoId,
     off |-> IF s.cached.present THEN s.cached.off + 1 ELSE -1,
     failover |-> s.failover = "progress"]

\* The read handler of r takes the next message: the head of q.
Receives(r, op) == conn[r].q # <<>> /\ Head(conn[r].q).op = op

\* +FULLRESYNC: clearFailoverState ends a FAILOVER, the bulk transfer begins.
ReceiveFullResync(r) ==
    /\ Receives(r, "fullresync")
    /\ node' = [node EXCEPT ![r].rstate = "transfer",
                            ![r].sync = Head(conn[r].q),
                            ![r].failover = "none", ![r].target = NoServer]
    /\ conn' = [conn EXCEPT ![r].q = Tail(@)]
    /\ UNCHANGED <<rdb, ids, used>>

\* readSyncBulkPayload at the end of the file: replicationAttachToNewMaster,
\* the file replaces dump.rdb, the dataset is replaced, and the replica takes
\* over the ID and the offset announced with +FULLRESYNC.
ReceiveRdb(r) ==
    /\ Receives(r, "rdb")
    /\ LET file == Head(conn[r].q).file
           s == node[r]
       IN /\ node' = [node EXCEPT ![r] =
                [s EXCEPT !.data = file.data, !.cached = Nothing, !.child = Nothing,
                          !.master = Client(s.sync.id, s.sync.off, file.db),
                          !.rstate = "connected", !.replid = s.sync.id, !.off = s.sync.off,
                          !.replid2 = NoId, !.second = -1, !.sync = Nothing,
                          !.backlog = NewBacklog(s.sync.off)]]
          /\ rdb' = [rdb EXCEPT ![r] = file]
    /\ conn' = [DisconnectSlaves(conn, r) EXCEPT ![r].q = Tail(@)]
    /\ UNCHANGED <<ids, used>>

\* The dataset has been emptied when the file cannot be synced or renamed, which
\* leaves dump.rdb as it was, or cannot be loaded.  The ID and the offset stay.
LoadFails(r) ==
    /\ Receives(r, "rdb")
    /\ Use("fault", MaxFaults)
    /\ node' = [node EXCEPT ![r] =
          [@ EXCEPT !.data = <<>>, !.cached = Nothing, !.child = Nothing,
                    !.backlog = Nothing, !.sync = Nothing, !.rstate = "connect"]]
    /\ rdb' = rdb \/ rdb' = [rdb EXCEPT ![r] = Head(conn[r].q).file]
    /\ conn' = [DisconnectSlaves(conn, r) EXCEPT ![r] = NoConn]
    /\ UNCHANGED ids

\* Mutant of Resume: the new ID is not taken over.
ResumeKeepsId(s, id) ==
    [s EXCEPT !.master = s.cached, !.cached = Nothing,
              !.rstate = "connected", !.failover = "none", !.target = NoServer,
              !.backlog = IF @.present THEN @ ELSE NewBacklog(s.off)]

\* +CONTINUE, and replicationResurrectCachedMaster.
Resume(s, id) ==
    LET changed == id # s.cached.id
        t == IF changed
             THEN [s EXCEPT !.replid2 = s.cached.id, !.second = s.off + 1, !.replid = id]
             ELSE s
    IN [t EXCEPT !.master = [s.cached EXCEPT !.id = id], !.cached = Nothing,
                 !.rstate = "connected", !.failover = "none", !.target = NoServer,
                 !.backlog = IF @.present THEN @ ELSE NewBacklog(s.off)]

ReceiveContinue(r) ==
    /\ Receives(r, "continue")
    /\ LET id == Head(conn[r].q).id
       IN /\ node' = [node EXCEPT ![r] = Resume(@, id)]
          /\ conn' = [(IF id # node[r].cached.id THEN DisconnectSlaves(conn, r) ELSE conn)
                        EXCEPT ![r].q = Tail(@)]
    /\ UNCHANGED <<rdb, ids, used>>

\* abortFailover: in progress, the instance becomes a master again if it is none
\* (the early return of replicationUnsetMaster).
StepsUp(s) == s.failover = "progress" /\ s.masterhost # NoServer
Aborted(s, id) ==
    [(IF StepsUp(s) THEN UnsetMaster(s, id) ELSE s)
        EXCEPT !.failover = "none", !.target = NoServer]

\* A command of the stream: it is executed, the offsets move, and
\* replicationFeedStreamFromMasterStream passes it on.
Execute(s, cmd) ==
    [s EXCEPT !.data = IF cmd.op = "write" THEN Append(@, <<cmd.arg, s.master.db>>) ELSE @,
              !.master.db = IF cmd.op = "select" THEN cmd.arg ELSE @,
              !.master.off = @ + 1]

ReceiveCommand(r) ==
    /\ conn[r].q # <<>> /\ IsCommand(Head(conn[r].q))
    /\ LET cmd == Head(conn[r].q)
       IN /\ \E keep \in Kept(Len(node[r].backlog.buf) + 1) :
                node' = [node EXCEPT ![r] = FeedBuffer(Execute(@, cmd), <<cmd>>, keep)]
          /\ conn' = [FeedSlaves(conn, r, <<cmd>>) EXCEPT ![r].q = Tail(@)]
    /\ UNCHANGED <<rdb, ids, used>>

\* The connection ends: the peer closed it, and what was still in its output
\* buffer is lost, or it breaks.  A connected replica caches its master; a
\* handshake or a transfer is cancelled, and a FAILOVER that waited for the
\* reply is aborted.
LinkDown(r) ==
    /\ conn[r].to # NoServer
    /\ \/ ~conn[r].open /\ UNCHANGED used
       \/ conn[r].open /\ Use("fault", MaxFaults)
    /\ IF node[r].failover = "progress"
       THEN /\ ids' = ids + 1
            /\ node' = [node EXCEPT ![r] = Aborted(@, ids + 1)]
            /\ conn' = [DisconnectSlaves(conn, r) EXCEPT ![r] = NoConn]
       ELSE /\ node' = [node EXCEPT ![r] =
                          [CacheMaster(@) EXCEPT !.rstate = "connect", !.sync = Nothing]]
            /\ conn' = [conn EXCEPT ![r] = NoConn]
            /\ UNCHANGED ids
    /\ UNCHANGED rdb

-----------------------------------------------------------------------------
(* The master's side                                                       *)

\* Mutant of KnowsHistory: the second ID is accepted at every offset.
KnowsHistoryForEver(s, req) == req.id \in {s.replid, s.replid2}

\* masterTryPartialResynchronization: is the history known, and is the data
\* still there?
KnowsHistory(s, req) ==
    \/ req.id = s.replid
    \/ req.id = s.replid2 /\ req.off <= s.second

CanContinue(s, req) ==
    /\ req.id # NoId
    /\ KnowsHistory(s, req)
    /\ s.backlog.present
    /\ req.off >= s.backlog.first
    /\ req.off <= s.backlog.first + Len(s.backlog.buf)

\* Mutant of Promotes: the replication ID is not compared.
PromotesAnyHistory(s, req) == req.failover /\ s.masterhost # NoServer

\* The first part of syncCommand: PSYNC ... FAILOVER promotes a replica that
\* shares the sender's history.
Promotes(s, req) == req.failover /\ s.masterhost # NoServer /\ req.id = s.replid
RefusesFailover(s, req) == req.failover /\ ~Promotes(s, req)

\* Mutant of Unavailable: replicas serve no replicas.
UnavailableReplica(s) == s.failover # "none" \/ s.masterhost # NoServer

\* A failing over instance and a replica without its master answer later.
Unavailable(s) ==
    \/ s.failover # "none"
    \/ s.masterhost # NoServer /\ s.rstate # "connected"

\* A refused PSYNC is tried again later; a refused PSYNC FAILOVER, or one that
\* cannot be sent, aborts the FAILOVER.
PsyncFailoverFails(m, r) ==
    /\ node[r].rstate = "connect" /\ node[r].masterhost = m
    /\ node[r].failover = "progress"
    /\ \/ RefusesFailover(node[m], Request(node[r])) /\ UNCHANGED used
       \/ Use("fault", MaxFaults)
    /\ ids' = ids + 1
    /\ node' = [node EXCEPT ![r] = Aborted(@, ids + 1)]
    /\ conn' = DisconnectSlaves(conn, r)
    /\ UNCHANGED rdb

\* replicationSetupSlaveForFullResync for the BGSAVE that produces the file.
FullResync(file) == <<[op |-> "fullresync", id |-> file.id, off |-> file.off]>>

\* The state of m, and the connections, after a PSYNC FAILOVER was accepted.
AfterPromotion(m, req) ==
    IF Promotes(node[m], req)
    THEN UnsetMaster(node[m], ids + 1)
    ELSE node[m]
ConnAfterPromotion(m, req) ==
    IF Promotes(node[m], req)
    THEN [DisconnectSlaves(conn, m) EXCEPT ![m] = NoConn]
    ELSE conn

PsyncAccepted(m, r) ==
    LET req == Request(node[r])
    IN /\ node[r].rstate = "connect" /\ node[r].masterhost = m
       /\ ~RefusesFailover(node[m], req)
       /\ Promotes(node[m], req) \/ ~Unavailable(node[m])

\* Partial resynchronisation: +CONTINUE and the backlog from the offset on.
PsyncContinue(m, r) ==
    /\ PsyncAccepted(m, r)
    /\ LET req == Request(node[r])
           s == AfterPromotion(m, req)
           missing == SubSeq(s.backlog.buf, req.off - s.backlog.first + 1, Len(s.backlog.buf))
       IN /\ CanContinue(s, req)
          /\ node' = [node EXCEPT ![m] = s, ![r].rstate = "receive_psync"]
          /\ conn' = [ConnAfterPromotion(m, req) EXCEPT ![r] =
                        [to |-> m, open |-> TRUE, st |-> "online", out |-> <<>>,
                         q |-> <<[op |-> "continue", id |-> s.replid]>> \o missing]]
          /\ ids' = IF Promotes(node[m], req) THEN ids + 1 ELSE ids
    /\ UNCHANGED <<rdb, used>>

\* Mutant of CopyOutput: the second slave starts with an empty buffer.
CopyNothing(k) == <<>>

\* copyReplicaOutputBuffer: the differences collected since the fork.
CopyOutput(k) == k.out

\* Full resynchronisation: the slave waits for a BGSAVE; without a backlog a
\* new history starts.  A slave may join a BGSAVE under way if another one is
\* collecting differences for it.
PsyncFull(m, r) ==
    /\ PsyncAccepted(m, r)
    /\ LET req == Request(node[r])
           s == AfterPromotion(m, req)
           t == IF s.backlog.present THEN s
                ELSE [NewHistory(s, ids + 2) EXCEPT !.backlog = NewBacklog(s.off)]
           c == ConnAfterPromotion(m, req)
           donors == {x \in Server : c[x].to = m /\ c[x].open /\ c[x].st = "wait_end"}
       IN /\ ~CanContinue(s, req)
          /\ \/ /\ ~t.child.present \/ donors = {}
                /\ node' = [node EXCEPT ![m] = t, ![r].rstate = "receive_psync"]
                /\ conn' = [c EXCEPT ![r] = [NoConn EXCEPT !.to = m, !.open = TRUE,
                                                          !.st = "wait_start"]]
             \/ /\ t.child.present
                /\ node' = [node EXCEPT ![m] = [t EXCEPT !.seldb = NoDb],
                                        ![r].rstate = "receive_psync"]
                /\ \E x \in donors :
                      conn' = [c EXCEPT ![r] = [to |-> m, open |-> TRUE, st |-> "wait_end",
                                                q |-> FullResync(t.child), out |-> CopyOutput(c[x])]]
          /\ ids' = IF s.backlog.present /\ ~Promotes(node[m], req) THEN ids ELSE ids + 2
    /\ UNCHANGED <<rdb, used>>

Waiting(m, st) == {r \in Slaves(m) : conn[r].st = st}

\* startBgsaveForReplication, from syncCommand or replicationStartPendingFork.
StartBgsave(m) ==
    /\ Waiting(m, "wait_start") # {}
    /\ ~node[m].child.present
    /\ TRUE \in ForkOutcome
    /\ StreamDb(node[m]) # NoDb
    /\ node' = [node EXCEPT ![m].child = SnapshotOf(node[m]), ![m].seldb = NoDb]
    /\ conn' = [r \in Server |->
                  IF r \in Waiting(m, "wait_start")
                  THEN [conn[r] EXCEPT !.st = "wait_end", !.q = FullResync(SnapshotOf(node[m]))]
                  ELSE conn[r]]
    /\ UNCHANGED <<rdb, ids, used>>

\* The fork fails: every waiting replica gets an error, its connection is
\* closed, and it tries again.
StartBgsaveFails(m) ==
    /\ Waiting(m, "wait_start") # {}
    /\ ~node[m].child.present
    /\ FALSE \in ForkOutcome \/ StreamDb(node[m]) = NoDb
    /\ Use("fault", MaxFaults)
    /\ conn' = [r \in Server |->
                  IF r \in Waiting(m, "wait_start")
                  THEN [conn[r] EXCEPT !.open = FALSE]
                  ELSE conn[r]]
    /\ UNCHANGED <<node, rdb, ids>>

\* updateSlavesWaitingBgsave after the child ended well: the file, then what
\* was collected, goes to every waiting slave.
BgsaveDone(m) ==
    /\ node[m].child.present
    /\ node' = [node EXCEPT ![m].child = Nothing]
    /\ rdb' = [rdb EXCEPT ![m] = node[m].child]
    /\ conn' = [r \in Server |->
                  IF r \in Waiting(m, "wait_end")
                  THEN [conn[r] EXCEPT !.st = "online", !.out = <<>>,
                          !.q = @ \o <<[op |-> "rdb", file |-> node[m].child]>> \o conn[r].out]
                  ELSE conn[r]]
    /\ UNCHANGED <<ids, used>>

\* It failed or was killed.
BgsaveFails(m) ==
    /\ node[m].child.present
    /\ Use("fault", MaxFaults)
    /\ node' = [node EXCEPT ![m].child = Nothing]
    /\ conn' = [r \in Server |-> IF r \in Waiting(m, "wait_end")
                                 THEN [conn[r] EXCEPT !.open = FALSE] ELSE conn[r]]
    /\ UNCHANGED <<rdb, ids>>

\* replicationCron frees the backlog of a master without slaves.
FreeBacklog(m) ==
    /\ node[m].masterhost = NoServer
    /\ node[m].backlog.present
    /\ Slaves(m) = {}
    /\ Use("fault", MaxFaults)
    /\ ids' = ids + 1
    /\ node' = [node EXCEPT ![m] = [NewHistory(@, ids + 1) EXCEPT !.backlog = Nothing]]
    /\ UNCHANGED <<conn, rdb>>

-----------------------------------------------------------------------------
(* FAILOVER                                                                *)

\* FAILOVER [TO t]; NoServer stands for any replica.
Failover(m, t) ==
    /\ node[m].masterhost = NoServer
    /\ node[m].failover = "none"
    /\ Slaves(m) # {}
    /\ t = NoServer \/ t \in Waiting(m, "online")
    /\ Use("admin", MaxAdmin)
    /\ node' = [node EXCEPT ![m].failover = "wait", ![m].target = t]
    /\ UNCHANGED <<conn, rdb, ids>>

\* repl_ack_off = master_repl_offset.  repl_ack_off is 0 until the first
\* REPLCONF ACK; from then on it is an offset r had reached on this
\* connection, so that it can only be the master's when r has applied all.
CaughtUp(m, r) ==
    \/ node[m].off = 0
    \/ node[r].rstate = "connected" /\ node[r].master.off = node[m].off

\* updateFailoverStatus: a slave has caught up, become its replica.
FailoverStart(m) ==
    /\ node[m].failover = "wait"
    /\ \E r \in Slaves(m) :
          /\ node[m].target \in {r, NoServer}
          /\ CaughtUp(m, r)
          /\ node' = [node EXCEPT ![m] = [SetMaster(@, r) EXCEPT
                                            !.failover = "progress", !.target = r]]
    /\ UNCHANGED <<conn, rdb, ids, used>>

\* FAILOVER ABORT, or the timeout.
FailoverAbort(m) ==
    /\ node[m].failover # "none"
    /\ Use("fault", MaxFaults)
    /\ ids' = IF StepsUp(node[m]) THEN ids + 1 ELSE ids
    /\ node' = [node EXCEPT ![m] = Aborted(@, ids + 1)]
    /\ conn' = IF StepsUp(node[m])
               THEN [DisconnectSlaves(conn, m) EXCEPT ![m] = NoConn] ELSE conn
    /\ UNCHANGED rdb

-----------------------------------------------------------------------------
Replica(r) ==
    \/ ReceiveFullResync(r) \/ ReceiveRdb(r) \/ LoadFails(r)
    \/ ReceiveContinue(r) \/ ReceiveCommand(r) \/ LinkDown(r)

Next ==
    \E n \in Server :
        \/ \E d \in Dbs : Write(n, d)
        \/ PingSlaves(n)
        \/ \E h \in Server : ReplicaOf(n, h)
        \/ ReplicaOfNoOne(n)
        \/ Save(n)
        \/ Restart(n)
        \/ Replica(n)
        \/ \E r \in Server : PsyncFailoverFails(n, r) \/ PsyncContinue(n, r) \/ PsyncFull(n, r)
        \/ StartBgsave(n) \/ StartBgsaveFails(n) \/ BgsaveDone(n) \/ BgsaveFails(n)
        \/ FreeBacklog(n)
        \/ \E t \in Server \cup {NoServer} : Failover(n, t)
        \/ FailoverStart(n)
        \/ FailoverAbort(n)

Spec == Init /\ [][Next]_vars

\* The event loop reads what has arrived and notices closed connections,
\* replicationCron repeats the handshake and starts pending BGSAVEs, and
\* children end.  Nothing is promised about administrators and faults.
Reads(r) ==
    \/ ReceiveFullResync(r) \/ ReceiveRdb(r) \/ ReceiveContinue(r) \/ ReceiveCommand(r)
IsAnswered(r) == \E m \in Server : PsyncContinue(m, r) \/ PsyncFull(m, r)
Saves(m) == StartBgsave(m) \/ BgsaveDone(m)

FairSpec ==
    /\ Spec
    /\ \A n \in Server :
          /\ WF_vars(Reads(n)) /\ WF_vars(~conn[n].open /\ LinkDown(n))
          /\ WF_vars(IsAnswered(n)) /\ WF_vars(Saves(n))

-----------------------------------------------------------------------------
(* Properties                                                              *)

\* The record of a server has its type: offsets are natural numbers, IDs have
\* been drawn, a replica has a master's address and only a replica has a
\* master client or a cached one, never both (the assertion at the start of
\* replicationCacheMaster), and a backlog ends at master_repl_offset.
TypeOK ==
    \A n \in Server :
        LET s == node[n]
        IN /\ s.off \in Nat /\ s.replid \in 1 .. ids /\ s.replid2 \in 0 .. ids
           /\ s.seldb \in Dbs \cup {NoDb}
           /\ s.masterhost \in (Server \ {n}) \cup {NoServer}
           /\ s.rstate \in {"none", "connect", "receive_psync", "transfer", "connected"}
           /\ (s.rstate = "none") = (s.masterhost = NoServer)
           /\ s.master.present => s.rstate = "connected" /\ ~s.cached.present
           /\ s.rstate = "connected" => s.master.present
           /\ s.cached.present => s.masterhost # NoServer
           /\ s.backlog.present => s.off = s.backlog.first + Len(s.backlog.buf) - 1
           /\ (conn[n].to = s.masterhost /\ s.masterhost # NoServer) = (s.rstate \notin {"none", "connect"})

\* A dataset and a selected database after the commands of a stream.  The
\* messages that are no commands change neither.
Replayed(acc, c) ==
    [data |-> IF c.op = "write" THEN Append(acc.data, <<c.arg, acc.db>>) ELSE acc.data,
     db |-> IF c.op = "select" THEN c.arg ELSE acc.db]
Replay(data, db, cmds) == FoldLeft(Replayed, [data |-> data, db |-> db], cmds).data

Stream(r) == conn[r].q \o conn[r].out

\* The snapshot a full resynchronisation of r starts from, once there is one.
Snapshots(r) == {x \in Range(conn[r].q) : x.op = "rdb"}

\* The dataset r has once it has read everything its master has for it.
Settled(r) ==
    LET s == node[r]
        m == node[conn[r].to]
    IN IF s.rstate = "connected" THEN Replay(s.data, s.master.db, Stream(r))
       ELSE IF \E x \in Range(conn[r].q) : x.op = "continue"
       THEN Replay(s.data, s.cached.db, Stream(r))
       ELSE IF conn[r].st = "wait_end" THEN Replay(m.child.data, m.child.db, Stream(r))
       ELSE LET file == (CHOOSE x \in Snapshots(r) : TRUE).file
            IN Replay(file.data, file.db, Stream(r))

Attached(r) == conn[r].open /\ conn[r].st \in {"wait_end", "online"}

\* A replica that its master has accepted, by PSYNC from the backlog or with an
\* RDB file and the differences collected since, holds its master's dataset,
\* database by database, once it has read what is on its way; so do replicas
\* of replicas, after promotions, restarts from RDB files and lost links.
NoDivergence ==
    \A r \in Server : Attached(r) => Settled(r) = node[conn[r].to].data

\* A replica connected to a live master has its master's replication ID, and
\* its offset is behind by what is on its way, which is commands only.  What it
\* would offer in a later PSYNC is what it has applied.
OffsetsAgree ==
    \A r \in Server :
        LET s == node[r]
        IN /\ s.rstate = "connected" =>
                /\ s.master.off = s.off /\ s.master.id = s.replid
                /\ conn[r].open => /\ s.replid = node[conn[r].to].replid
                                   /\ s.off + Len(conn[r].q) + Len(conn[r].out) = node[conn[r].to].off
           /\ s.cached.present => s.cached.off = s.off /\ s.cached.id = s.replid

\* A server vouches for its history as long as it keeps a backlog, a master or
\* a cached master (a failed load drops all three with the dataset).
Vouches(n) == node[n].backlog.present \/ node[n].master.present \/ node[n].cached.present

\* Two servers that vouch for the same replication ID have the same history as
\* far as both have come; the second ID of a server is that history up to the
\* offset it was left at (replid2, second_replid_offset), as long as the server
\* has a backlog, without which masterTryPartialResynchronization honours none.
SameIdSameHistory ==
    \A a, b \in Server :
        Vouches(a) /\ Vouches(b) /\ node[a].off <= node[b].off =>
            /\ node[a].replid = node[b].replid => IsPrefix(node[a].data, node[b].data)
            /\ node[a].replid = node[b].replid2 /\ node[a].off < node[b].second
                 => ~node[b].backlog.present \/ IsPrefix(node[a].data, node[b].data)

\* Every server gets its data from the one master, directly or through another.
Rooted ==
    \E m \in Server :
        /\ node[m].masterhost = NoServer /\ node[m].failover = "none"
        /\ \A r \in Server \ {m} :
              LET h == node[r].masterhost
              IN h # NoServer /\ (h = m \/ node[h].masterhost = m)

\* Once roles settle and faults stop, every replica ends up with the master's
\* dataset, whatever handshake, transfer or BGSAVE was interrupted before.
Converges ==
    <>[]Rooted => <>[](\A a, b \in Server : node[a].data = node[b].data)

\* The target of r's FAILOVER becomes master at r's request.
TakesOver(r) ==
    LET m == node[r].masterhost
    IN /\ m # NoServer /\ node[r].failover = "progress" /\ node[r].rstate = "connect"
       /\ node'[r].rstate = "receive_psync"
       /\ node[m].masterhost # NoServer /\ node'[m].masterhost = NoServer

\* Only the replication ID is compared when PSYNC ... FAILOVER arrives, so writes are
\* lost if the target has fallen behind since it was chosen: it was restarted from
\* an older RDB file, sent to a master that lags, or its load failed.  This is the
\* only way: a target with the ID, a dataset it vouches for and at least the
\* offset of the master that steps down has every write of it.
FailoverLosesOnlyByOffset ==
    [][\A r \in Server :
          LET m == node[r].masterhost
          IN TakesOver(r) /\ Vouches(m) /\ node[r].off <= node[m].off
                 => IsPrefix(node[r].data, node[m].data)]_vars
=============================================================================
