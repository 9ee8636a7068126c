# Verification of the WASI ports of Redis, Nginx and SQLite

TLA+ models of the parts of this repository that carry its own logic: the
append-only file (AOF) of the Redis port, which had to be reworked because WASI
has neither `fork()` nor threads, the cache of ahead-of-time compiled
components used by the benchmark, and the two protocols by which the Redis it
builds keeps several copies of a dataset: replication and cluster failover.  The
modules are checked by TLC on small instances, and the central results are proved with TLAPS for all instances.

Paths below are relative to the repository; `aof.c` is
`wasip2-redis/redis-7.4.11/src/aof.c`, and likewise the other C files.

## 1. Inventory

| Part | State | Operations | What is hard |
|---|---|---|---|
| **Redis AOF** (`aof.c`, parts of `server.c`, `config.c`, `replication.c`) | manifest in memory and on disk, BASE/INCR/history/temporary files, `aof_buf`, `aof_fd`, fsync offsets, error statuses, `aof_state` | feed, flush, fsync, enable, disable, rewrite, persist the manifest, delete history, load, open at start | a kill or a power loss between any two file operations; errors in the middle of multi-step changes; retries; what a client has been told is durable |
| **Redis bio jobs** (`bio.c`) | job queues | fsync, close, lazy free | run inline in this build, so their results are seen before the caller goes on |
| **Redis snapshots** (`rdb.c`, `server.c`) | `dump.rdb`, `lastbgsave_status` | SAVE, BGSAVE, save points | BGSAVE always fails without `fork()`; the server then refuses writes |
| **Redis sockets, event loop** (`socket.c`, `ae*.c`) | output buffers, file events | read, write, `connSocketWritev` | partial writes where `writev` is missing |
| **Redis replication** (`replication.c`, parts of `networking.c`, `rdb.c`, `server.c`) | replication IDs and offsets, backlog, master client or cached master, slaves with their states, BGSAVE child, FAILOVER state | feed, PSYNC, full resynchronisation, REPLICAOF, FAILOVER, restart from the RDB file | histories that fork: promotions, lost links and restarts let two instances with the same ID and offset hold different data |
| **Redis Cluster failover** (`cluster_legacy.c`) | per node: currentEpoch, lastVoteEpoch, and for every other node role, config epoch and slots; `nodes.conf` | ping and pong, UPDATE, vote request and ACK, win, takeover, collision | every node acts on its own stale view; votes must survive a kill; claims meet in any order |
| **Redis Sentinel, commands, types, modules** | databases | – | taken over unchanged, not modelled |
| **Nginx on WASI** (`wasip2-nginx`) | connections, chains of buffers | `ngx_writev` and `ngx_readv_file` replacements, select events, client-close detection | partial I/O in loops; level-triggered events; one process, no master |
| **SQLite** (`wasip2-sqlite`) | – | stubs in `shell-shims.c` | the library itself is downloaded at build time |
| **AOT cache** (`benchmark/wasmtime-llvm-aot.py`) | one folder per identity: lock, `app.cwasm`, `manifest.json`, temporary directories | hash, lock, validate, compile, rename, write manifest | concurrent scripts, kills, torn files, an input that changes |
| **Benchmark scripts** (`benchmark/build.sh`, `run.sh`, `Makefile`, `setup.sh`) | installed files, `runtime/APPS.sha256` | stage, install, certify, run | a mixed set after a kill or two builds at once |

How they interact: a command calls `propagateNow` and `feedAppendOnlyFile`;
`beforeSleep` calls `flushAppendOnlyFile` before replies leave; `serverCron`
retries flushes and starts scheduled rewrites; CONFIG SET calls
`startAppendOnly`/`stopAppendOnly`; a restart meets only the files.  `build.sh`
installs components; `run.sh` checks their checksums, asks the AOT cache for
artifacts and runs the servers.

What makes each part correct:

- AOF: whatever was reported durable (a reply under `appendfsync always`, a
  WAITAOF answer, the `+OK` of enabling) survives every crash; the files always
  load; they stand for exactly the dataset; refusals after a failed write end when
  the disk works; a start that refuses the files leaves a log without a gap.
- AOT cache: an entry that is reused belongs to the input that selects it;
  an artifact in use is not replaced; nobody waits for ever.
- Replication: two instances that name their data by the same ID have the same
  data up to the smaller offset, so that an accepted PSYNC never diverges; once
  things calm down every replica has its master's dataset.
- Cluster: a vote that was saved is not given again; a winner has the votes it
  counts on; a replica owns nothing; after one failover, gossip does not come to
  rest while views differ.
- Planned: the save-point/MISCONF cycle ends; every byte of a chain is written
  once and in order; a benchmark never runs a mixed set.

The full list of hazards, each at its line, is in `PROJECT.json`.

## 2. Modules

| Module | Role |
|---|---|
| `DurableLog` | abstract specification: a dataset, a log, a promised prefix, crashes and restarts |
| `AofFormat` | file names, tokens, manifests and their operations, the loader; pure operators |
| `RedisAof` | the AOF as a state machine; refines `DurableLog` |
| `MCRedisAof` | the root module of its runs |
| `RedisAofProofs` | inductive invariant and theorems about the names of files in `RedisAof`; lemmas about the loader of `AofFormat`, for files of any length; `TypeOK` of `RedisAof` |
| `FoldFacts` | what `FoldLeft` computes, by induction over the length of a sequence |
| `RedisAofLogProofs` | theorems about the contents of files in `RedisAof`: orphans are empty, the log is complete |
| `RedisAofPromiseProofs` | `RedisAof` implements `DurableLog`: what every crash leaves of the log, and the step-by-step refinement |
| `RedisReplication` | replication between instances as a state machine |
| `MCRedisReplication` | the root module of its runs |
| `RedisReplicationProofs` | inductive invariant and theorems about states, connections and offsets in `RedisReplication` |
| `RedisHistoryProofs` | theorems about the data in `RedisReplication`: an ID is one history, replicas do not diverge |
| `RedisClusterFailover` | failover in a cluster as a state machine |
| `MCRedisClusterFailover` | the root module of its runs |
| `RedisClusterFailoverProofs` | inductive invariant and theorems about `RedisClusterFailover` |
| `AotCache` | the AOT cache as a state machine |
| `MCAotCache` | the root module of its runs |
| `AotCacheProofs` | inductive invariant and theorems about `AotCache` |

A definition whose comment says "Mutant of X" is a faulty variant of X and is
used by no specification; it documents an error that the named property detects.

### AofFormat and RedisAof

*Data.*  A dataset is the sequence of the writes that built it, each with its
database.  A file is a sequence of tokens (`SELECT`, two halves per command, a
snapshot, a hole) with the number of tokens that have been fsynced; the page
cache is what lies beyond.  Two halves are enough to cut a write inside a
command.  A manifest is a record of the BASE number, the set of INCR numbers and
the history; the order of INCR files in the manifest is that of their numbers,
which `aofLoadManifestFromFile` insists on.

*Control.*  The server has one thread.  What interleaves is the file system, so
each file operation is an action; `pc` says which comes next and `cont` where
`flushAppendOnlyFile`, `persistAofManifest` and the unlinking loops return to.

| Code | Actions |
|---|---|
| command execution, `propagateNow`, `feedAppendOnlyFile` | `Execute` (`Feed`, `Entry`), guarded by `Denied` (`writeCommandsDeniedByDiskError`) |
| `beforeSleep`, `serverCron` | `BeforeSleep`, `Reply`, `CronFlush`, `CronRewrite` |
| `flushAppendOnlyFile` | `FlushEmpty`, `FlushWrite`, `FlushError`, `FlushShort`, `FlushFsync`, `FlushFsyncError` |
| `startAppendOnly` (WASI branch) | `StartAppendOnly`, `StartAppendOnlyInExec`, `StartOpen` … `StartDone`, `StartError` |
| `persistAofManifest`, `writeAofManifestFile` | `PersistClean`, `PersistRename`, `PersistSynced`, `PersistError` |
| `aofDelHistoryFiles`, `aofDelTempIncrAofFile`, clean-ups | `UnlinkOne`, `UnlinkDone` |
| `rewriteAppendOnlyFileBackground`, `openNewIncrAofForAppend` | `BgRewriteAof`, `BgRewriteAofInExec`, `RewriteOff`, `RewriteWait`, `RewriteOpen`, `RewriteOpenError`, `RewriteSwap` |
| `stopAppendOnly`, `finishShutdown` | `StopAppendOnly`, `StopClose`, `Shutdown`, `ShutdownFsync` |
| `loadDataFromDisk`, `aofOpenIfNeededOnServerStart` | `StartServer`, `StartServerFatal`, `StartServerOff`, `BootBase`, `BootOpen`, `BootError`, `BootDelHistory` |
| a kill, an `exit(1)`, a power loss | `Kill`, `PowerLoss` |

`logged` and `promised` observe what the log stands for and what clients have
been told; no guard reads them.  `uncounted` is the difference between the
length of the dataset and `master_repl_offset`.

Two pieces of undefined or platform behaviour are choices.  The strings freed by
`startAppendOnly` while the manifest still owns them read back as `intact` or
`garbage` (constant `FreedName`).  A power loss keeps of each file what was
fsynced and any prefix of the rest.  Directory operations are taken to reach the
disk in order; losing the last one is the same as crashing just before it.

### AotCache

One action per step of the script; `identity` is the input hashed at the start,
`input` the bytes there now, `lock` the `flock` per folder.  Two compilations of
one input may differ, so an artifact is a pair of its input and a number.
`manifest.write_text` is two steps, since it empties the file first.  `Edit`
stands for `build.sh` installing another component (or `setup.sh` another
runtime); the constant `EditWhileRunning` says whether that may happen while a
script is between hashing and finishing.

### RedisReplication

*Data.*  A dataset is again the sequence of its writes with their databases.
The stream is a sequence of commands (`SELECT`, a write, `PING`), and offsets
count commands: the code moves them only past whole commands
(`commandProcessed`).  A replication ID is a number drawn anew each time the
code draws a random one.

*Control.*  `node[n]` is the replication state of an instance, `conn[r]` the
connection of replica `r` to its master with what is on its way (`q`) and what
the master holds back until the RDB file has been sent (`out`).  A connection
appears when the master accepts the PSYNC.

| Code | Actions |
|---|---|
| `replicationFeedSlaves`, `feedReplicationBuffer` | `Write`, `PingSlaves` |
| `replicaofCommand`, `replicationSetMaster`, `replicationUnsetMaster` | `ReplicaOf`, `ReplicaOfNoOne` |
| `masterTryPartialResynchronization`, `syncCommand` | `PsyncContinue`, `PsyncFull` |
| `startBgsaveForReplication`, `updateSlavesWaitingBgsave` | `StartBgsave`, `StartBgsaveFails`, `BgsaveDone`, `BgsaveFails` |
| `slaveTryPartialResynchronization`, `readSyncBulkPayload` | `ReceiveFullResync`, `ReceiveContinue`, `ReceiveRdb`, `LoadFails` |
| `commandProcessed`, `replicationFeedStreamFromMasterStream` | `ReceiveCommand` |
| `freeClient`, `replicationCacheMaster`, `cancelReplicationHandshake` | `LinkDown` |
| `replicationCron` | `FreeBacklog`, `PingSlaves`, repeated handshakes |
| `failoverCommand`, `updateFailoverStatus`, `abortFailover` | `Failover`, `FailoverStart`, `FailoverAbort`, `PsyncFailoverFails` |
| `rdbSave`, `loadDataFromDisk` | `Save`, `Restart` |

Simplifications.  Full resynchronisation goes through a file on disk and the
AOF is off.  A connection closed by the replica is closed for the master at the
same moment; the reverse is not assumed.  Sending the file and being online are
one state.  Trimming leaves any number of commands from `BacklogSize` up, as it
depends on block sizes and on replicas that still read.  `repl_ack_off` is
replaced by what it can be (`CaughtUp`).  `ForkOutcome` is `{FALSE}` in the WASI
build, where a full resynchronisation cannot succeed; the runs allow both
outcomes, so that the code around it is checked too.  `PingSlaves` may or may not
happen during a FAILOVER: the PING is left out only if a TIMEOUT was given
(`replication.c:3772`).  `LoadFails` stands for all failures after the transfer: those of
`fsync` and `rename` keep the old `dump.rdb`, that of the load does not.
`LinkDown` of a replica always caches its master; a protocol error, after which `freeClient` does
not (`networking.c:1637`), is left out.  The RDB child that `freeClient` kills when its
last slave is gone (`networking.c:1706`) is one that fails (`BgsaveFails`).

### RedisClusterFailover

`mem[n]` is what node `n` believes: its epochs, the role and config epoch of
every node, the owner of every slot, its vote and its election.  `conf[n]` is
its `nodes.conf` and `todo` the nodes with `CLUSTER_TODO_SAVE_CONFIG` set.  A handler
changes `mem` and sets the flag (`Become`); `BeforeSleep` saves.  Three callers save at once with
`clusterSaveConfigOrDie`: a win and a takeover (`BecomeSaved`) and the resolution of a collision
(in `Process`).  What was not saved is lost when a node is killed.

Not everything that leaves a node has been saved.  The write barrier orders the events of
one descriptor only (`socket.c:286`), while a vote request comes in on one link and its
acknowledgement goes out on another: if a message is already queued there, its
write handler is installed (`cluster_legacy.c:3468`) and sends the acknowledgement in the same round of
the event loop, before `clusterBeforeSleep`.  A request for votes made from
`clusterBeforeSleep` itself sets the flag after it was read.  Both may therefore
leave first.  A PING is made by `clusterCron`, after the last save, and a PONG answers on
the descriptor it was asked on, behind its barrier: both leave after the save (`x \notin todo` in `Gossip`).

The file is not the view: the line of a replica has the config epoch of its
master (`Saved`, `cluster_legacy.c:5353`), and `clusterLoadConfig` gives
every replica the epoch 0 (`Loaded`, `cluster_legacy.c:576`).

| Code | Definitions |
|---|---|
| `clusterBuildMessageHdr`, `clusterSendPing`, `clusterSendUpdate` | `Header`, `Gossip`, `DelayPing`, `Update` |
| `clusterProcessPacket`: epochs, role switch, slots, collision | `Learn`, `SwitchRole`, `Claims`, `Deprecates`, `HandleCollision` (`Process`) |
| `clusterUpdateSlotsConfigWith` | `UpdateSlots` |
| UPDATE, AUTH_REQUEST, AUTH_ACK | `ReceiveUpdate`, `GrantVote`, `DenyVote`, `ReceiveAck` |
| `clusterHandleSlaveFailover` | `RequestVotes`, `HasQuorum`, `Win` |
| CLUSTER FAILOVER TAKEOVER | `Takeover` |
| `clusterSaveConfig`, `clusterLoadConfig` | `Saved`, `ToSave`, `Flagged`, `Loaded`, `Booted`, `Restart` |
| `clusterDoBeforeSleep`, `clusterBeforeSleep`, `clusterSaveConfigOrDie` | `Become`, `BeforeSleep`, `BecomeSaved` |

Simplifications.  Failure detection and the flags of a manual failover are a
free choice, so every election the code can start is in the model.  One slot
stands for a shard's slots; shards exchange neither slots nor nodes.  A ping is
received at once or delayed and overtaken, as pings and pongs use two links.
No message of an election arrives after the node's next election has begun:
`RequestVotes` is both the set-up of an election and its request, and relies on the retry
time of four node timeouts.  The votes of an election stay counted until the next one is set up,
which is the only place where the code resets them (`cluster_legacy.c:4288`).
A quorum may be noticed at any time, at once or later, as the master has to be failing
(`cluster_legacy.c:4242`) and the election not too old (`cluster_legacy.c:4342`).  The rule that a
master votes once per failed master in two node timeouts is part of the choice in
`DenyVote`.  `votes` and `won` record who voted and who won, with the quorum the winner
counted on, and `kept` what a node had voted at its last `clusterBeforeSleep`; nothing but
the properties depends on them.  A node that can no longer be killed within the bounds saves at once
(`Mortal`): nothing reads its file any more.

## 3. Runs

### Passing

| Run | Instance | Shows |
|---|---|---|
| `aof_always_power` | `always`; enable, disable, shutdown, restart without AOF; every fault but the directory fsync; power losses | no acknowledged write is lost, no file is missing, orphan files are empty |
| `aof_everysec_append` | `everysec`; write errors, short writes, failing `ftruncate`, power losses | WAITAOF counts only what is on disk; retries neither drop nor double |
| `aof_everysec_rewrite` | `everysec`; all ways to start a rewrite, also inside MULTI; kills; other faults | the same through every switch of files; `TypeOK` |
| `aof_live` | fairness; write errors and failing starts | refusals because of a failed write end, the page cache is flushed, enabling comes to an end |
| `aof_refused` | `everysec`, `aof-load-truncated yes`; all ways to start a rewrite, faults in a switch of files, a power loss | when the power fails in a switch of files and the next start cuts a file and refuses, the start after it finds a beginning of the log with every write that was reported durable, and nothing behind a gap |
| `aot_shared` | 2 processes, 2 inputs, 4 scripts, 2 kills or power losses, 2 changes of the input between scripts | entries bound to their input, artifacts in use stay, waits end |
| `repl_restart` | 2 instances; one write or PING, one REPLICAOF or FAILOVER, one fault, one RDB file, one restart in either role (also with expired keys) | an accepted PSYNC never diverges; offsets agree; one ID names one history; a FAILOVER loses writes only to a target that has fallen behind; at most one of master client and cached master (`TypeOK`) |
| `repl_three` | a master, a replica and a replica of it, fairness; one write or PING, one REPLICAOF or FAILOVER, one lost connection, failed fork, failed child or failed load | the same through chains and shared BGSAVEs; replicas converge after each of these, at any point of a handshake or transfer |
| `cluster_failover` | master `a`, replicas `r`, `q`; two elections with one win and a restart, or with two wins; an election and two restarts; an election, a takeover and the win of old votes; two takeovers and a restart; one failover and a delayed message; `a` or `r` is restarted, at any point between a vote and its save | a vote that was saved is not given again, winners with a quorum of votes, no slots on replicas, agreement when gossip rests (for the `Repairable` scenarios), no config epoch above currentEpoch (`TypeOK`) |

### Disagreements between comments and code

| Run | Shows |
|---|---|
| `aof_freed_names` | enabling the AOF frees names the manifest owns and then writes the manifest from them (`aof.c:1060`) |
| `aof_enable_in_exec` | enabling the AOF inside MULTI never completes (`aof.c:967`) |
| `aot_edited` | a component installed while a script waits or compiles is cached under the hash of the old one (`wasmtime-llvm-aot.py:18`, `run.sh:91`) |

The passing runs exclude the conditions that these isolate (`FreedName` is
`{"intact"}`, the input changes between scripts).
They also keep apart combinations of events under which the code goes wrong.
Each comes out when one constant is changed:

| Change | Fails | Why |
|---|---|---|
| `AofEverysecRewrite.cfg`, `MayFail = {"short_write"}` | `LogCompletesDataset` | a short write undone by `ftruncate` leaves a hole at the retry, for files opened without `O_APPEND` (`aof.c:1262`, `aof.c:790`), although the comment at `aof.c:1270` says there is no longer partial data |
| `AofEverysecRewrite.cfg`, `MayFail = {"dirfsync"}` | `NoLiveFileUnlinked`, `OnWritesLastIncr` | a failing directory fsync is reported after the manifest has changed; the "rollback" (`aof.c:763`) leaves memory and disk apart (`aof.c:561`) |
| `AofEverysecRewrite.cfg`, `MayFail = {"write"}` | `LogCompletesDataset` | BGREWRITEAOF after a failed write moves the buffer to a new file without its SELECT (`aof.c:2551`) |
| `AofEverysecRewrite.cfg`, `MayFail = {"power"}` | `KeepsItsPromises` | a power loss between the new manifest and the fsync of the old INCR file leaves a log that does not load (`aof.c:800`) |
| `AofEverysecAppend.cfg`, `MayFail = {"fsync", "power"}` | `KeepsItsPromises` | after a failed fsync WAITAOF reports unsynced writes (`aof.c:1350`, `aof.c:1152`) |
| `AofLive.cfg`, `MaxCrashes = 1` | `PageCacheFlushed` | a killed process's page cache is taken as synced by the next one (`aof.c:742`) |
| `AofLive.cfg`, `MayFail` with `"fsync"` | `Denied ~> ~Denied`, which `WriteErrorEnds` states for failed writes only | a failed background fsync denies writes, but everything is marked as synced (`aof.c:1350`), so that no fsync follows without a write (`aof.c:1152`), and no write is accepted |
| `AofRefused.cfg`, `MaxCrashes = 2` | `RefusalIsRepaired` | a kill between the new manifest and the fsync of the old INCR file; the restarted server writes to the new file; a power loss cuts the old one.  The first start cuts it to a whole command and refuses (`aof.c:1694`), the second one accepts a log with its middle missing |
| `ReplRestart.cfg`, `FailoverLosesOnlyByOffset` without its conditions on the target (`Vouches`, the offset) | the property | the target of a FAILOVER, restarted from its RDB file meanwhile, has the right ID and an old offset; only the ID is compared (`replication.c:931`) |
| `ClusterFailover.cfg`, `Scenarios = {Upto(2, 2, 0, 1, 0)}` | that no two elements of `won` have the same epoch | `a` votes for `r`, its acknowledgement leaves, `a` is killed before `clusterBeforeSleep`, and votes for `q` in the same epoch; both win, although the comment at `cluster_legacy.c:1732` says "It is not possible that different slaves get the same config epoch during a failover election, because the slaves need to get voted by a majority".  The collision is resolved later (`HandleCollision`) |
| `ClusterFailover.cfg` with a third replica `p` of `a`, `Scenarios = {Upto(3, 3, 0, 0, 0)}` | the same | without a restart: `r` wins epoch 2 with `a`'s vote; `a`, not told yet, gives epoch 3 to `q`, and `r` gives it to `p` |
| `ClusterFailover.cfg`, `Scenarios` with an election and a takeover | that a node that wins gets an epoch greater than it had | a node that won an election, was replaced, and fails over again in time counts the old votes (`cluster_legacy.c:4362`) and becomes master with the epoch it had, although the comment at `cluster_legacy.c:4172` leaves a new epoch to the caller |
| `ClusterFailover.cfg`, `StableAgrees` without `Repairable` | `StableAgrees` | with a failover, a restart and a delayed message: a header called stale still makes its sender a replica, which keeps its slots (`cluster_legacy.c:3005`), and a restarted node knows no epochs of replicas (`cluster_legacy.c:576`); with two elections, or one and a takeover: a role switch lowers a config epoch that the receiver knows better (`cluster_legacy.c:3020`), and old votes are used again |

### Bounds

`MaxWrites = 3` with two databases gives a command before, in and after a switch
of files and a change of database across it.  `MaxAdmin = 2` gives disable then
enable, two rewrites, or an enable after a restart without the AOF, so that
BASE and INCR files of three generations coexist.  `MaxCrashes = 2` gives a
crash during the recovery from a crash.  `MaxFaults = 1` (2 for writes) gives an
error in every position and a failing retry.  For the cache, four scripts on two
processes give a waiter, a holder that dies, and a later script that reuses what
is left.  For replication, one event of every kind, in every order and at every
point of a handshake or transfer, is where histories fork and meet again; the
write and its SELECT, the PING and the deletions at a restart move the offsets
of a backlog of two commands far enough to be trimmed.  Three instances, in one database and
with a backlog that is not trimmed, begin as a chain and give, with one REPLICAOF or
FAILOVER, a second replica of one BGSAVE, a master with two replicas and two
replicas that change their master, with one failure in any of them.  With both replicas on the one master
at the start (`ReplicaOfConf <- OneMaster`) the properties hold too, in twice as many states.  `aof_refused` has one crash,
as a second one breaks its property (see above).  For the cluster, `Scenarios` lists which
numbers of elections, wins, takeovers,
restarts and delayed messages may come together: two elections are what two
replicas need to compete, two takeovers what a collision needs, and a restart
between two votes is where the voter could forget the first.  The master is the
only voter, so that restarting it tries the whole quorum; larger quorums are left to the
proofs.  Gossip is
unbounded.  The proofs remove these bounds for the properties they cover.
Behaviours stop when the bounds are used up and the server is down for good only
in the AOT cache, whose scripts end; its runs do not check deadlock.  Nor do those
of `RedisReplication` and `RedisClusterFailover`: instances at rest send only
pings, which are bounded or change nothing.  In `RedisAof` the event loop never
stops, and deadlock is checked.

### Fairness

`RedisAof`: a function that has been entered goes on (`WF` of `Running`); the
event loop comes back to `beforeSleep` on every turn and `serverCron` runs `hz`
times a second, which other events can interleave with but not starve (`SF`);
the clock advances, so a flush made infinitely often is infinitely often made
after a second has passed (`SF` of `DueFlush`); a process that has called
`exit` ends, and the supervisor restarts it.  No fairness is assumed of clients,
administration requests, faults or crashes; faults are finite in number, which
is what "once the disk works" means.  `AotCache`: each script goes on when it
can; each takes the lock once, so weak fairness of the lock is enough.
`RedisReplication`: an instance reads what has arrived and notices a closed
connection (event loop), a master answers a PSYNC, which `replicationCron`
repeats every second, starts a pending BGSAVE (`replicationStartPendingFork`),
and a child ends; each stays possible until it is done, so weak fairness is
enough.  Nothing is assumed of clients, administrators and faults.
`Converges` speaks of roles that have settled: from then on one instance is
master and the others reach it, directly or through one another.

## 4. Refinement

`KeepsItsPromises` is `DurableLog!Spec` with the dataset as `db`, `logged` as
`log`, `aof_state = AOF_ON` as `on` and "the process runs" as `up`.  At a crash
`logged` becomes what `LoadAppendOnlyFiles` recovers from the files as they are
at that moment, so the refinement compares, at every crash in every run, the
real loader on the real files with the abstract log: at most a suffix may be
missing, and nothing that was promised.  Section 5 (`RedisAofPromiseProofs`) proves it
for any number of writes, requests, faults and crashes.

## 5. Proofs

### RedisAofProofs

For every value of the constants with `"dirfsync" \notin MayFail`, that is for
any number of writes, requests, crashes and other faults, any databases, every
fsync policy, and whatever is read from freed names:

- `LiveFilesAlwaysExist`: `Spec => []LiveFilesExist`
- `NeededFilesStay`: `Spec => []NoLiveFileUnlinked`
- `AppendsGoToLastIncr`: `Spec => []OnWritesLastIncr`

The hypothesis is needed: with `MayFail = {"dirfsync"}` TLC finds a counterexample.

The argument.  None of the three is inductive: that no file is missing when a
manifest is renamed into place depends on how far the copy being edited has got.
`Inv` adds: every manifest is well formed (`WellFormed`: the current BASE and the
last INCR file carry the current numbers, INCR numbers lie below the counter, and
no history file is live); memory and disk name the same files except in listed
windows (`Agreement`); in those windows the manifest about to be renamed names
existing files and is dirty (`Prepared`); the copy's numbers are exactly one
above those of the manifest, so that the clean-up of a failed start removes only
new names (`Starting`); and `aof_fd` is on the last INCR file from the moment the
manifest is committed (`Appending`).  Lemmas about the manifest operations
(`NewBaseFiles`, `NewIncrFiles`, `MarkRewrittenFiles`, `LoadManifestFiles`, …)
are used by one lemma per routine; `QuietStep` handles the twenty actions that
touch no manifest.  The invariants speak of names of files and not of their
contents, so the proof never looks into the loader.

### FoldFacts

The loader is a fold over the tokens of a file inside a fold over files, so
whatever is to be proved of contents needs an induction over data.  The
library's induction theorems take a formula as parameter and cannot be applied
by the provers; but an induction over a *set* of numbers can (`NatSet`, from the
well-foundedness of `<`).  `FoldFacts` uses it to prove, for an operator `Op`
that is a constant of the module, that a fold over an empty, a longer and a
concatenated sequence is what one expects (`FoldEmpty`, `FoldAppend`,
`FoldConcat`), that it keeps the type its steps keep (`FoldType`), and that it
depends on nothing but its steps (`FoldSame`).  `RedisHistoryProofs` instantiates
it with the commands of a stream, and `RedisAofProofs` with the tokens of a
file (`LoadToken`) and with files (`LoadNext`).

### RedisAofProofs: the loader and the types

The second part of the module is about the loader: the type of everything it
returns (`LoadType`), and that what the loader calls valid can be cut
off and read again (`ValidPrefix`).  Then the two formulas the
log is described with: `Whole(m, d, ds)`, the files of the manifest `m` load as `ds`
without a complaint, and `Ends(m, d, buf, ds, sel)`, they do so with `buf` appended
to the last of them, and leave the reader in the database `sel`.  A command appended
with a SELECT when the database differs extends `ds` by that command (`EntryReads`);
tokens may move from `buf` to the file (`EndsMove`); an empty INCR file or a
snapshot of `ds` with an empty INCR file changes nothing (`EmptyEnds`, `SnapEnds`); and
files that were cut where the loader says load as what it had read (`LoadWhole`).

- `TypesKept`: `"dirfsync" \notin MayFail` implies `Spec => []TypeOK`.

`TypeInv` (`TypeInvHolds`) is `Inv` with the facts that the types rest on: every
file is a sequence of tokens of which at most all are synced (`DiskOK`); the
descriptor is never one of a BASE file and its file is at least as long as
`aof_last_incr_size` (`Descriptor`), so that the `ftruncate` after a short write
cuts off only what was just written; nothing is buffered unless the AOF is on (`Buffered`); and
where the temporary files of `startAppendOnly` are (`Temporary`).  `dataset` is a
sequence of writes although it comes out of the loader: that is `LoadType`.

### RedisAofLogProofs

- `OrphansAreEmpty`: with `"dirfsync" \notin MayFail` and
  `"garbage" \notin FreedName`, `Spec => []OrphanIncrEmpty`.

The second hypothesis is needed as well: a manifest that is written with garbled names
lists nothing, and all INCR files become orphans.  `OrphanIncrEmpty` speaks of the manifest on disk only, but
which manifest that will be is decided by memory: `CoverInv` (`CoverInvHolds`)
says that every INCR file that holds something is listed, as live or as history,
by the manifest on disk, by the one in memory, and by its edited copy from the
point where that copy may become either (`Covered`).  History is what makes it
true: `markRewrittenIncrAofAsHistory` moves a file from one list to the other, and
`aofDelHistoryFiles` forgets the history only when the files are unlinked
(`Deleting`).

- `LogIsComplete`: with these hypotheses and `WritesSafe`,
  `Spec => []LogCompletesDataset`.

`WritesSafe` says that the fsync policy is `always` (a write error ends the server),
or writes do not fail, or no request switches the INCR file, so that the descriptor is
the one of server start, with `O_APPEND`.  The three runs that check the property
meet one of the three each.  Outside of it the property is false: under `everysec`
a failed write that meets a file opened by CONFIG SET or BGREWRITEAOF leaves a hole
or a command without its SELECT (the table above, `aof.c:1262` and `aof.c:2551`).

`LogCompletesDataset` says something at `idle` only.  `LogInv` (`LogInvHolds`) follows
the log through the calls: the files with `aof_buf` appended load as the dataset, the
reader ends in the database `aof_selected_db` says, and the next write leaves no hole
(`Complete`); at server start what was loaded is the dataset, before the file is opened
(`Booting`); `startAppendOnly` works on a snapshot of the dataset that nothing changes
until it is adopted (`Rewritten`); a background rewrite resets the database before
it flushes and opens a new file with the buffer empty (`Switched`); where nothing
switches files the descriptor keeps `O_APPEND` (`Steady`); and snapshots are in
BASE files only, which are whole and synced before they get their names
(`PlainBuffer`), so that neither the loader nor a power loss ever cuts one.
That the file opened at server start without `O_TRUNC` holds nothing the loader has not
read is where `CoverInv` is used.

### RedisAofPromiseProofs

- `PromisesAreKept`: `Hypotheses` implies `Spec => KeepsItsPromises`, the refinement
  of `DurableLog`.

`Hypotheses` is what the three passing runs that check the refinement have in common,
and each part of it is needed.  Outside of it TLC finds, with three writes, two
requests and one fault:

| Hypothesis | Without it |
|---|---|
| `"garbage" \notin FreedName` | run `aof_freed_names` |
| `"dirfsync" \notin MayFail` | the clean-up of a CONFIG SET that failed after the rename (`aof.c:561`) unlinks what the manifest on disk names |
| `WritesSafe` | a hole, or a command in the wrong database, after a retried write |
| `PowerSafe`, about rewrites | the new manifest is durable before the old INCR file is (`aof.c:800`): a cut file that is not the last one is refused, also under `always`, if the unsynced end of the file was left by a killed process (`aof.c:742`) |
| `PowerSafe`, about `fsync` | WAITAOF reports writes whose fsync failed (`aof.c:1350`) |
| `AofLoadTruncated` | half a command at the end, left by a short write or a power loss, makes every start refuse |

`PowerSafe` says that the machine does not lose power, or that no request adds an INCR
file to the ones in use and, unless the policy is `always` (where a failing fsync ends the
server), fsync does not fail.  Kills are never excluded.

The argument.  The refinement is hard at one step only, the crash, and there it depends on
everything the files went through before.  So the invariant quantifies over crashes:
`Remains(m, d, w)` says that the disk `w` is what a crash may leave of the files of the manifest
`m` on `d` (every live file cut, but not below what was synced), and `Firm` that each such `w` loads,
as a beginning of the log that is at least as long as everything owed.  What is
owed (`Owes`) is more than what was promised: it includes what the next reply or WAITAOF may
report, that is the offset of the last fsync, or under `always` the whole log once the event
loop is at the replies.  `PromiseInv` (`PromiseInvHolds`) adds to `LogInv`

- `Kept`: the files are firm with respect to `logged`, and while the server is down
  `logged` is what they load as;
- `Told`: the log is the dataset while the AOF is on and from the moment `startAppendOnly`
  has renamed the manifest, when the dataset counts as promised;
- `Books` and `Flushed`: the offsets do not run ahead of the dataset, and where
  `aof_last_incr_fsync_offset` has reached `aof_last_incr_size` with nothing buffered, the
  file really is synced (what a failed fsync breaks);
- `Alone` and `Started`: without rewrites there is one INCR file, so that only the
  file read last can be cut; and a booting server persists a manifest only for a new, empty file.

Three facts about the loader carry the proof, all by induction over tokens or
files (`FoldFacts`): what is read from a beginning of a file is a beginning of what is read from all
of it, for files without snapshots (`Reaches`); the loader sees the data of live files and nothing
else (`LoadSame`); and appending to the file read last, or syncing it, leaves or raises what is
certain.  Then each action is one lemma that ends in `Rest'`: it touches no live
file, or appends, or syncs, or commits another manifest (`CommitStart`, `CommitSwitch`,
`CommitBoot`, `CommitHistory`), or crashes (`CrashLeaves`).

Of the steps, `Execute` is `Execute` of `DurableLog`, `Reply` is `Promise` when it reports more,
`PersistRename` in `startAppendOnly` is `Snapshot`, `StartDone` is `TurnOn`, `StopClose` is `TurnOff`,
`Kill` and `PowerLoss` are `Crash`, `StartServer` and `StartServerOff` are `Restart` (`SeenSteps`);
all others are not seen (`Unseen`).  `StartServerFatal` is shown to be impossible: under
`Hypotheses` no crash leaves files that the server refuses.

Before the proof TLC checked the conjuncts of the invariant, with `Remains` restricted to the
`Survivors` of the model, on seven instances that between them have every policy, every
request and every fault that `Hypotheses` allows.

### AotCacheProofs

- `ArtifactInUseStays`: `Spec => []InUseUnchanged`, for any processes, inputs,
  kills and power losses, even if the input changes while scripts run.
- `CacheIsBound`: `~EditWhileRunning` implies `Spec => []CacheBound`; the run
  `aot_edited` shows that the hypothesis is needed.

The inductive invariant says that a process inside the `with` block holds the
lock of its folder, that an artifact in use is valid, and that nobody fills a
folder whose artifact is in use (a script starts filling only after it has found
the entry invalid, under the lock).

### RedisClusterFailoverProofs

For any finite set of nodes, any shards and initial roles, and any number of
elections, takeovers, restarts of any sets of nodes and delayed messages:

- `TypesCorrect`: `Spec => []TypeOK`
- `VotesAreSingle`: `Spec => OneVotePerEpoch`
- `WinnersWereVoted`: `Spec => []WinnersHaveVotes`
- `ReplicasOwnNothing`: `Spec => []ReplicaOwnsNothing`

The argument.  `Inv` (`Invariance`) says of each view that no epoch in it exceeds
its currentEpoch and that a replica owns nothing (`ViewOK`); of `nodes.conf` that it
can be loaded, that it holds every vote the node had given at its last
`clusterBeforeSleep`, and, unless the node has its flag set, that it has the node's
votes, roles and slots (`FileOK`), so that a restart forgets at most what was not saved;
of a message that its epochs are known to its sender (`MsgOK`); of an acknowledgement on
its way that it is of a vote that was given and the only one of its voter to the candidate
(`AcksOK`); and of a node in an election that it has counted at most the votes for it whose
acknowledgement is no longer on its way (`ElectionOK`).  The operators on views have one lemma
each, which says that the view stays well formed and that nothing but `Learn`, a vote, an
acknowledgement or a new election touches currentEpoch, vote and count (`Evolves`); `CalmStep`
then covers every action that is not part of an election.  A voter that is killed
may vote twice, but only for two candidates or for a candidate's new election, so that no
candidate counts it twice.
`Greatest` gives `Max` its meaning for bounded sets of numbers, from the least-number
principle.

### RedisReplicationProofs

For any finite set of instances, any initial topology, any databases, backlog
size and outcomes of `fork()`, and any number of writes, commands of
administrators, faults, RDB files and restarts:

- `TypesCorrect`: `Spec => []TypeOK`
- `OffsetsAgreement`: `Spec => []OffsetsAgree`

The argument.  Neither is inductive: the offset at which a replica becomes
connected is the one its master announced when the BGSAVE started, perhaps for
another slave, plus the differences collected since.  `Inv` (`Invariance`) says of an
instance that its master client or cached master exists when it should and names
the history the instance has, and that its backlog ends at its offset (`NodeOK`);
and of a connection that it is in one of the seven phases of a synchronisation
(`LinkOK`): `Queued`, `Announced`, `AwaitsFile`, `FileAhead`, `ReadsFile`,
`ContinueAhead`, `Streams`.  In each of them the offset announced, plus the commands
on their way, ends where the master is (`Ends`), and while a slave waits for a
BGSAVE its differences start where the child did (`Collects`), which is what lets
a later slave take over the buffer of an earlier one.  An action changes one
instance and what its slaves are sent: `OneNode`, `OneNodeKept`, `OneNodeClosed`,
`OneNodeFed` and `SlavesStep` reduce its step to that instance, its own connection,
and its slaves', so that each action has one lemma about the phases it ends and
begins.

### RedisHistoryProofs

Under the same conditions, so also for any number of promotions, demotions, failed
loads, freed backlogs and restarts with old RDB files:

- `HistoryInvariance`: `Spec => []OneHistory`
- `SameHistory`: `Spec => []SameIdSameHistory`
- `ReplicasHoldMasterData`: `Spec => []NoDivergence`
- `FailoverLosesNothingElse`: `Spec => FailoverLosesOnlyByOffset`

The argument.  Both properties compare what two instances hold now, but why they
agree lies in the past: in who wrote which command under which ID.  No variable
records that, so the invariant asks for it: `OneHistory` says that there *is* an
assignment `h` of histories to IDs (`Tale`), a history being a command, a dataset
and a selected database for every offset up to its end, each following from the one
before by its command (`HistOK`), such that

- an instance that keeps a backlog, a master client or a cached one has the dataset of
  its ID's history at its offset, and its backlog is a piece of that history (`Agrees`);
- the second ID's history agrees with the first up to `second_replid_offset`, as long as
  there is a backlog (`Continues`);
- a master is the only one to extend its ID's history, which ends where the master
  is, in the database `slaveseldb` says (`Rules`); an ID for which it has no backlog yet
  is known to nobody else (`MayKnow`), because writes then change the dataset and not the offset;
- RDB files that name an ID, and BGSAVE children, hold the dataset of its history at
  their offset (`Tells`), and the messages on a connection, in each of the phases
  of `LinkOK`, are the piece of the history that the replica lacks (`Brings`).

A reader may have another database selected than the writer only where the
next command is a SELECT: that is what `NoDb` in a history means (`Fits`), and what makes
`slaveseldb = -1` at a fork and a promotion necessary.  Each step maps `h` to the histories after
it: they stay, one grows by a command (`Grown`), the next write is announced to
be preceded by a SELECT (`Loosened`), a promotion copies one up to the offset of the promoted
replica under a new ID (`Copied`), or one starts (`Started`).  Everything said of a
history stays true of a later state of it (`StaysTrue`, `StillCarries`, `StillContinues`), so
that an action has to be looked at only where it acts (`Moves`, `TaleKept`,
`TaleClosed`, `TaleFed`, `TaleSlaves`).  `SameIdSameHistory` follows because
the datasets of a history are prefixes of each other (`DataGrows`), `NoDivergence` because
replaying a piece of a history from a dataset of it gives the later dataset (`Replays`, an
induction with `FoldFacts`).  For the FAILOVER it remains to see that the only steps that
change two instances are the answers to a PSYNC, and that one that promotes has compared the
IDs (`TakeoverSharesId`).

The proof attempt corrected a property.  `SameIdSameHistory` used to ask the second
ID of every server to be honoured data, with a backlog or not; that is false after a load that failed and
a REPLICAOF NO ONE, which leave a second ID above an empty dataset.  It is harmless:
`masterTryPartialResynchronization` honours no ID without a backlog, and the next slave
makes `syncCommand` clear it.  The property now says so; three servers and
25 steps are needed to see the difference.

### Only model-checked

Liveness (`WriteErrorEnds`, `PageCacheFlushed`, `EnableCompletes`, `EveryWaitEnds`,
`Converges`): the prover handles neither fairness nor ENABLED.  `StableAgrees` holds only for
the `Repairable` numbers of failovers and `RefusalIsRepaired` only for one crash (see the table
above), so there is nothing to prove for all of them.

## 6. Not modelled

- Transactions in the log (MULTI/EXEC and `valid_before_multi`), the upgrade
  from a single pre-7.0 file (`aofUpgradePrepare`), timestamp annotations, sizes
  that only feed INFO, a `truncate` that fails in the loader.
- `backgroundRewriteDoneHandler`: no child exists in this build.
- Damage from the freed names other than a wrong name (a double free).
- Replication: diskless transfer and loading, RDB-only and version 1 replicas,
  MULTI in the stream, FAILOVER FORCE, WAIT, replicas with the AOF on.
- Cluster: failure detection, the pause and offset handshake of a manual
  failover, slot migration, joining and forgetting nodes, replica migration.
- Snapshots, sockets, Nginx, the build scripts: see the plan.  Redis commands,
  modules and Sentinel, Nginx's core and SQLite are third-party code taken over.

## 7. Plan

1. Done: `AofFormat`, `DurableLog`, `RedisAof` with runs, refinement and the
   proofs about names and contents of files and of the refinement; `AotCache` with runs and proofs;
   `RedisReplication` and `RedisClusterFailover` with runs and proofs.
2. `BenchSet`: the installation order of `build.sh` (`APPS.sha256` last) against
   the checksum test of `run.sh` and the AOT cache, composed with `AotCache`; a
   set that passes the test comes from one build, with kills and two builds.
3. `RedisSave`: BGSAVE without `fork()`, SAVE, save points, MISCONF and the
   rewrite limiter of `serverCron`, with a clock; which refusals end.
4. `WritevChain`: `connSocketWritev`, `ngx_writev_chain` and the file variants
   against an abstract byte stream: every byte once and in order under partial
   writes and EAGAIN.
5. Nginx: client-close detection by reading under select.
6. Transactions in the AOF: `LoadToken` with MULTI/EXEC; `aofUpgradePrepare`.
7. Proofs: the safety part of `BenchSet`.
