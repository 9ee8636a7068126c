------------------------- MODULE RedisHistoryProofs -------------------------
(***************************************************************************)
(* What a replication ID stands for: one history of commands and datasets, *)
(* on which everything that names the ID agrees: datasets, backlogs,       *)
(* second IDs, RDB files, running children and the streams on their way.   *)
(* No variable of the model holds these histories; the invariant says that *)
(* there are some, and every step extends them.  From it:                  *)
(* SameIdSameHistory, NoDivergence and FailoverLosesOnlyByOffset, for any  *)
(* instances and databases and any number of writes, commands of           *)
(* administrators, faults and restarts.                                    *)
(***************************************************************************)
EXTENDS RedisReplicationProofs

-----------------------------------------------------------------------------
(* The history behind a replication ID: after each offset, up to top, the  *)
(* command that led there, the dataset and the database the stream has     *)
(* selected, NoDb when the next write is preceded by a SELECT.  The owner  *)
(* is the instance that drew the ID; no other instance has ever seen an    *)
(* "own" one.                                                              *)

Commands == [Nat -> Cmd]
Datasets == [Nat -> Data]
Databases == [Nat -> Int]
History ==
    [cmd : Commands, data : Datasets, db : Databases, top : Int,
     owner : Server \cup {NoServer}, scope : {"own", "shared"}]

\* The command after the offset o takes the history from o to o + 1.
Leads(H, o) ==
    /\ H.cmd[o + 1].op = "write" =>
          /\ H.db[o] # NoDb
          /\ H.data[o + 1] = Append(H.data[o], <<H.cmd[o + 1].arg, H.db[o]>>)
    /\ H.cmd[o + 1].op # "write" => H.data[o + 1] = H.data[o]
    /\ \/ H.db[o + 1] = NoDb
       \/ H.db[o + 1] = IF H.cmd[o + 1].op = "select" THEN H.cmd[o + 1].arg ELSE H.db[o]

HistOK(H) ==
    /\ H \in History /\ H.top >= -1
    /\ \A o \in Nat : o < H.top => Leads(H, o)

\* A later state of the same history.
Later(H, K) ==
    /\ K.owner = H.owner /\ K.scope = H.scope /\ H.top <= K.top
    /\ \A o \in Nat : o <= H.top =>
          /\ K.cmd[o] = H.cmd[o] /\ K.data[o] = H.data[o]
          /\ K.db[o] = H.db[o] \/ (o = H.top /\ K.db[o] = NoDb)

\* One command more.
Grown(H, c) ==
    LET t == H.top
    IN [H EXCEPT !.top = t + 1, !.cmd = [H.cmd EXCEPT ![t + 1] = c],
                 !.data = [H.data EXCEPT ![t + 1] =
                     IF c.op = "write" THEN Append(H.data[t], <<c.arg, H.db[t]>>) ELSE H.data[t]],
                 !.db = [H.db EXCEPT ![t + 1] = IF c.op = "select" THEN c.arg ELSE H.db[t]]]

\* The next write will be preceded by a SELECT.
Loosened(H) == [H EXCEPT !.db = [H.db EXCEPT ![H.top] = NoDb]]

\* The history that the instance n continues from the offset o on.
Copied(H, o, n) ==
    [H EXCEPT !.db = [H.db EXCEPT ![o] = NoDb], !.top = o, !.owner = n, !.scope = "shared"]

\* The history that starts with a dataset at the offset o.
Started(data, o, d, n, scope) ==
    [cmd |-> [k \in Nat |-> Ping], data |-> [k \in Nat |-> data], db |-> [k \in Nat |-> d],
     top |-> o, owner |-> n, scope |-> scope]

\* A history stays as it is.
LEMMA LaterSame == ASSUME NEW H, HistOK(H) PROVE Later(H, H)
BY DEF Later, HistOK, History

\* Later is transitive.
LEMMA LaterTwice ==
    ASSUME NEW H, NEW K, NEW L, HistOK(H), HistOK(K), HistOK(L), Later(H, K), Later(K, L)
    PROVE  Later(H, L)
<1>1. H.top \in Int /\ K.top \in Int /\ L.top \in Int
  BY DEF HistOK, History
<1> QED BY <1>1 DEF Later

\* A command extends the history.
LEMMA GrownOK ==
    ASSUME NEW H, HistOK(H), H.top >= 0, NEW c \in Cmd,
           c.op = "write" => H.db[H.top] # NoDb
    PROVE  LET K == Grown(H, c)
           IN /\ HistOK(K) /\ Later(H, K) /\ K.top = H.top + 1 /\ K.cmd[K.top] = c
              /\ K.data[K.top] = IF c.op = "write" THEN Append(H.data[H.top], <<c.arg, H.db[H.top]>>)
                                 ELSE H.data[H.top]
              /\ K.db[K.top] = IF c.op = "select" THEN c.arg ELSE H.db[H.top]
<1>1. PICK t : t = H.top
  OBVIOUS
<1>2. PICK x, d : /\ x = IF c.op = "write" THEN Append(H.data[t], <<c.arg, H.db[t]>>) ELSE H.data[t]
                  /\ d = IF c.op = "select" THEN c.arg ELSE H.db[t]
  OBVIOUS
<1>3. PICK C, D, B : /\ C = [H.cmd EXCEPT ![t + 1] = c] /\ D = [H.data EXCEPT ![t + 1] = x]
                     /\ B = [H.db EXCEPT ![t + 1] = d]
  OBVIOUS
<1>4. PICK K : K = Grown(H, c)
  OBVIOUS
<1>5. /\ H \in History /\ t \in Nat /\ H.cmd \in [Nat -> Cmd] /\ H.data \in [Nat -> Data]
      /\ H.db \in [Nat -> Int] /\ c.arg \in Nat /\ c.arg \in Int
  BY <1>1 DEF HistOK, History, Cmd, Commands, Datasets, Databases
<1>6. x \in Data /\ d \in Int
  <2>1. <<c.arg, H.db[t]>> \in Nat \X Int /\ H.data[t] \in Data /\ H.db[t] \in Int
    BY <1>5
  <2> QED BY <1>2, <1>5, <2>1 DEF Data
<1>7. /\ C \in Commands /\ D \in Datasets /\ B \in Databases
      /\ C[t + 1] = c /\ D[t + 1] = x /\ B[t + 1] = d
      /\ \A o \in Nat : o # t + 1 => C[o] = H.cmd[o] /\ D[o] = H.data[o] /\ B[o] = H.db[o]
  BY <1>3, <1>5, <1>6 DEF Commands, Datasets, Databases
<1>8. PICK u : u = t + 1
  OBVIOUS
<1>13. K = [H EXCEPT !.top = u, !.cmd = C, !.data = D, !.db = B] /\ u \in Int
  BY <1>1, <1>2, <1>3, <1>4, <1>5, <1>8 DEF Grown
<1>9. /\ K \in History /\ K.top = t + 1 /\ K.cmd = C /\ K.data = D /\ K.db = B
      /\ K.owner = H.owner /\ K.scope = H.scope
  <2>1. /\ K \in History /\ K.top = u /\ K.cmd = C /\ K.data = D /\ K.db = B
        /\ K.owner = H.owner /\ K.scope = H.scope
    BY <1>5, <1>7, <1>13 DEF History
  <2> QED BY <1>8, <2>1
<1>10. ASSUME NEW o \in Nat, o < K.top
       PROVE  Leads(K, o)
  <2>1. CASE o = t
    <3>1. t # t + 1 /\ K.data[t] = H.data[t] /\ K.db[t] = H.db[t]
      BY <1>5, <1>7, <1>9
    <3>2. K.cmd[t + 1] = c /\ K.data[t + 1] = x /\ K.db[t + 1] = d
      BY <1>7, <1>9
    <3> QED BY <1>1, <1>2, <2>1, <3>1, <3>2 DEF Leads
  <2>2. CASE o # t
    <3>1. o < t /\ o # t + 1 /\ o + 1 # t + 1 /\ o + 1 \in Nat
      BY <1>5, <1>9, <1>10, <2>2
    <3>2. Leads(H, o)
      BY <1>1, <3>1 DEF HistOK
    <3> QED BY <1>7, <1>9, <3>1, <3>2 DEF Leads
  <2> QED BY <2>1, <2>2
<1>11. HistOK(K)
  BY <1>5, <1>9, <1>10 DEF HistOK
<1>12. Later(H, K)
  BY <1>1, <1>5, <1>7, <1>9 DEF Later
<1> QED BY <1>1, <1>2, <1>4, <1>7, <1>9, <1>11, <1>12

\* Announcing a SELECT asks less of the readers at the end of the history.
LEMMA LoosenedOK ==
    ASSUME NEW H, HistOK(H), H.top >= 0
    PROVE  LET K == Loosened(H)
           IN /\ HistOK(K) /\ Later(H, K) /\ K.top = H.top /\ K.db[K.top] = NoDb
<1>1. PICK t, B, K : t = H.top /\ B = [H.db EXCEPT ![t] = NoDb] /\ K = Loosened(H)
  OBVIOUS
<1>2. /\ H \in History /\ t \in Nat /\ H.db \in [Nat -> Int] /\ NoDb \in Int
  BY <1>1 DEF HistOK, History, NoDb, Databases
<1>3. /\ B \in Databases /\ B[t] = NoDb /\ \A o \in Nat : o # t => B[o] = H.db[o]
  BY <1>1, <1>2 DEF Databases
<1>4. K = [H EXCEPT !.db = B]
  BY <1>1 DEF Loosened
<1>5. /\ K \in History /\ K.top = t /\ K.cmd = H.cmd /\ K.data = H.data /\ K.db = B
      /\ K.owner = H.owner /\ K.scope = H.scope
  BY <1>1, <1>2, <1>3, <1>4 DEF History
<1>6. ASSUME NEW o \in Nat, o < K.top
      PROVE  Leads(K, o)
  <2>1. Leads(H, o) /\ o # t /\ o + 1 \in Nat
    BY <1>1, <1>2, <1>5, <1>6 DEF HistOK
  <2> QED BY <1>3, <1>5, <2>1 DEF Leads
<1>7. HistOK(K)
  BY <1>2, <1>5, <1>6 DEF HistOK
<1>8. Later(H, K)
  BY <1>1, <1>2, <1>3, <1>5 DEF Later
<1> QED BY <1>1, <1>3, <1>5, <1>7, <1>8

\* A history continued under another ID.
LEMMA CopiedOK ==
    ASSUME NEW H, HistOK(H), NEW o \in Nat, o <= H.top, NEW n \in Server
    PROVE  LET K == Copied(H, o, n)
           IN /\ HistOK(K) /\ K.top = o /\ K.db[o] = NoDb /\ K.owner = n /\ K.scope = "shared"
              /\ K.cmd = H.cmd /\ K.data = H.data
              /\ \A p \in Nat : p # o => K.db[p] = H.db[p]
<1>1. PICK B, K : B = [H.db EXCEPT ![o] = NoDb] /\ K = Copied(H, o, n)
  OBVIOUS
<1>2. /\ H \in History /\ H.db \in [Nat -> Int] /\ NoDb \in Int
  BY <1>1 DEF HistOK, History, NoDb, Databases
<1>3. /\ B \in Databases /\ B[o] = NoDb /\ \A p \in Nat : p # o => B[p] = H.db[p]
  BY <1>1, <1>2 DEF Databases
<1>4. K = [H EXCEPT !.db = B, !.top = o, !.owner = n, !.scope = "shared"]
  BY <1>1 DEF Copied
<1>5. /\ K \in History /\ K.top = o /\ K.cmd = H.cmd /\ K.data = H.data /\ K.db = B
      /\ K.owner = n /\ K.scope = "shared"
  <2>1. o \in Int /\ "shared" \in {"own", "shared"}
    OBVIOUS
  <2> QED BY <1>2, <1>3, <1>4, <2>1 DEF History
<1>6. ASSUME NEW p \in Nat, p < K.top
      PROVE  Leads(K, p)
  <2>1. Leads(H, p) /\ p # o /\ p + 1 \in Nat
    <3>1. H.top \in Int
      BY <1>2 DEF History
    <3> QED BY <1>5, <1>6, <3>1 DEF HistOK
  <2> QED BY <1>3, <1>5, <2>1 DEF Leads
<1>7. HistOK(K)
  BY <1>5, <1>6 DEF HistOK
<1> QED BY <1>1, <1>3, <1>5, <1>7

\* A history that starts.
LEMMA StartedOK ==
    ASSUME NEW x \in Data, NEW o \in Int, o >= -1, NEW d \in Int, NEW n \in Server \cup {NoServer},
           NEW scope \in {"own", "shared"}
    PROVE  LET K == Started(x, o, d, n, scope)
           IN /\ HistOK(K) /\ K.top = o /\ K.owner = n /\ K.scope = scope
              /\ \A p \in Nat : K.db[p] = d /\ K.data[p] = x
<1>1. PICK C, D, B, K : /\ C = [k \in Nat |-> Ping] /\ D = [k \in Nat |-> x]
                        /\ B = [k \in Nat |-> d] /\ K = Started(x, o, d, n, scope)
  OBVIOUS
<1>2. Ping \in Cmd /\ Ping.op = "ping"
  BY DEF Ping, Cmd
<1>3. /\ C \in Commands /\ D \in Datasets /\ B \in Databases
      /\ \A p \in Nat : C[p] = Ping /\ D[p] = x /\ B[p] = d
  BY <1>1, <1>2 DEF Commands, Datasets, Databases
<1>4. K = [cmd |-> C, data |-> D, db |-> B, top |-> o, owner |-> n, scope |-> scope]
  BY <1>1 DEF Started
<1>5. /\ K \in History /\ K.top = o /\ K.cmd = C /\ K.data = D /\ K.db = B
      /\ K.owner = n /\ K.scope = scope
  BY <1>3, <1>4 DEF History
<1>6. ASSUME NEW p \in Nat
      PROVE  Leads(K, p)
  <2>1. p + 1 \in Nat
    OBVIOUS
  <2> QED BY <1>2, <1>3, <1>5, <2>1 DEF Leads
<1>7. HistOK(K)
  BY <1>5, <1>6 DEF HistOK
<1> QED BY <1>1, <1>3, <1>5, <1>7

-----------------------------------------------------------------------------
(* What the instances say about the histories.  h gives each ID its        *)
(* history.                                                                *)

Histories == [Nat -> History]
Recorded(h) == h \in Histories /\ \A x \in Nat : HistOK(h[x])

\* A reader at the offset o of H may have the database d selected.
Fits(H, o, d) == H.db[o] = NoDb \/ H.db[o] = d

\* The dataset at the offset o of H.
Reaches(H, o, data) == o <= H.top /\ data = H.data[o]

\* From its element k on, q is what follows the offset o of H.
Carries(H, o, q, k) ==
    /\ o + (Len(q) + 1 - k) <= H.top
    /\ \A j \in k .. Len(q) : q[j] = H.cmd[o + (j + 1 - k)]

\* A reader of the history x at an offset up to o can go on with y.
Continues(h, x, y, o) ==
    x # y =>
        /\ o <= h[x].top /\ o <= h[y].top
        /\ \A p \in Nat : p <= o =>
              /\ h[y].cmd[p] = h[x].cmd[p] /\ h[y].data[p] = h[x].data[p]
              /\ h[y].db[p] = NoDb \/ (p < h[x].top /\ h[y].db[p] = h[x].db[p])

\* The instance n may know the ID x.
MayKnow(h, n, x) == h[x].scope = "own" => h[x].owner = n

\* What an RDB file says, if it says anything about replication.
Tells(h, f) == Reaches(h[f.id], f.off, f.data) /\ Fits(h[f.id], f.off, f.db)
FileTells(h, n, f) == f # Nothing /\ f.db # NoDb => Tells(h, f) /\ MayKnow(h, n, f.id)
SentTells(h, f) == f.db # NoDb /\ Tells(h, f) /\ h[f.id].scope = "shared"

\* What the instance n in state s vouches for.
Agrees(h, n, s) ==
    /\ s.backlog # Nothing \/ s.master # Nothing \/ s.cached # Nothing =>
          Reaches(h[s.replid], s.off, s.data) /\ MayKnow(h, n, s.replid)
    /\ s.master # Nothing => Fits(h[s.replid], s.off, s.master.db)
    /\ s.cached # Nothing => Fits(h[s.replid], s.off, s.cached.db)
    /\ s.backlog # Nothing =>
          /\ h[s.replid].scope = "shared"
          /\ Carries(h[s.replid], s.backlog.first - 1, s.backlog.buf, 1)
          /\ s.replid2 # NoId => /\ MayKnow(h, n, s.replid2)
                                 /\ Continues(h, s.replid2, s.replid, s.second - 1)
    /\ s.cached # Nothing /\ s.backlog = Nothing /\ s.replid2 # NoId => h[s.replid].scope = "own"
    /\ s.child # Nothing => SentTells(h, s.child)

\* A master is alone in writing its history, and no one has seen one for which
\* it keeps no backlog.
Rules(h, n, s) ==
    s.masterhost = NoServer =>
        /\ h[s.replid].owner = n
        /\ s.backlog = Nothing => h[s.replid].scope = "own" /\ h[s.replid].top = -1
        /\ s.backlog # Nothing => /\ h[s.replid].top = s.off
                                  /\ h[s.replid].db[s.off] = s.seldb

\* What is on its way to a replica in state s on the connection c to an
\* instance in state m.
FileFirst(h, q, k, full) ==
    /\ q[k].file.id = full.id /\ q[k].file.off = full.off
    /\ SentTells(h, q[k].file) /\ Carries(h[full.id], full.off, q, k + 1)
Brings(h, s, c, m) ==
    /\ s.rstate = "connected" => Carries(h[s.replid], s.off, c.q, 1)
    /\ s.rstate = "receive_psync" /\ c.st = "online" /\ c.q[1].op = "continue" =>
          /\ h[s.replid].scope = "shared" /\ h[c.q[1].id].scope = "shared"
          /\ Continues(h, s.replid, c.q[1].id, s.off)
          /\ Carries(h[c.q[1].id], s.off, c.q, 2)
    /\ s.rstate = "receive_psync" /\ c.st = "online" /\ c.q[1].op = "fullresync" =>
          FileFirst(h, c.q, 2, c.q[1])
    /\ s.rstate = "transfer" /\ c.st = "online" => FileFirst(h, c.q, 1, s.sync)
    /\ c.open /\ c.st = "wait_end" => Carries(h[m.child.id], m.child.off, c.out, 1)

\* Everything that names an ID agrees with its history.
Told(h, nd, cn) ==
    /\ Recorded(h)
    /\ \A n \in Server : /\ Agrees(h, n, nd[n]) /\ Rules(h, n, nd[n])
                         /\ Brings(h, nd[n], cn[n], nd[cn[n].to])
Stored(h, fs) == \A n \in Server : FileTells(h, n, fs[n])

\* From h to g only the histories of the instance p have grown, and new ones
\* have been drawn.
Evolves(h, g, i, p) ==
    \A x \in 1 .. i : Later(h[x], g[x]) /\ (h[x].owner # p => g[x] = h[x])

\* What is said of a history remains true of it later.
LEMMA StaysTrue ==
    ASSUME NEW H, NEW K, HistOK(H), HistOK(K), Later(H, K), NEW o \in Nat, NEW d
    PROVE  /\ \A x : Reaches(H, o, x) => Reaches(K, o, x)
           /\ o <= H.top /\ Fits(H, o, d) => Fits(K, o, d)
<1>1. H.top \in Int /\ K.top \in Int /\ H.top <= K.top
  BY DEF HistOK, History, Later
<1> QED BY <1>1 DEF Later, Reaches, Fits

\* So does what a stream carries.
LEMMA StillCarries ==
    ASSUME NEW H, NEW K, HistOK(H), HistOK(K), Later(H, K), NEW o \in Int, o >= -1, NEW q, Len(q) \in Nat,
           NEW k \in Nat, k >= 1, Carries(H, o, q, k)
    PROVE  Carries(K, o, q, k)
<1>1. H.top \in Int /\ K.top \in Int /\ H.top <= K.top
  BY DEF HistOK, History, Later
<1>2. PICK l : l = Len(q)
  OBVIOUS
<1>3. l \in Nat /\ o + (l + 1 - k) <= H.top
  BY <1>2 DEF Carries
<1>4. o + (l + 1 - k) <= K.top
  BY <1>1, <1>3
<1>5. ASSUME NEW j \in k .. l
      PROVE  q[j] = K.cmd[o + (j + 1 - k)]
  <2>1. o + (j + 1 - k) \in Nat /\ o + (j + 1 - k) <= H.top
    BY <1>1, <1>3
  <2>2. q[j] = H.cmd[o + (j + 1 - k)]
    BY <1>2 DEF Carries
  <2> QED BY <2>1, <2>2 DEF Later
<1> QED BY <1>2, <1>4, <1>5 DEF Carries

\* So does the relation of two histories.
LEMMA StillContinues ==
    ASSUME NEW h, NEW g, Recorded(h), Recorded(g), NEW i, NEW p, Evolves(h, g, i, p),
           NEW x \in 1 .. i, NEW y \in 1 .. i, NEW o \in Int, Continues(h, x, y, o)
    PROVE  Continues(g, x, y, o)
<1>1. Later(h[x], g[x]) /\ Later(h[y], g[y])
  BY DEF Evolves
<1>2. SUFFICES ASSUME x # y PROVE /\ o <= g[x].top /\ o <= g[y].top
          /\ \A z \in Nat : z <= o =>
              /\ g[y].cmd[z] = g[x].cmd[z] /\ g[y].data[z] = g[x].data[z]
              /\ g[y].db[z] = NoDb \/ (z < g[x].top /\ g[y].db[z] = g[x].db[z])
  BY DEF Continues
<1>3. /\ h[x].top \in Int /\ g[x].top \in Int /\ h[y].top \in Int /\ g[y].top \in Int
      /\ h[x].top <= g[x].top /\ h[y].top <= g[y].top
  <2>1. x \in Nat /\ y \in Nat
    OBVIOUS
  <2> QED BY <1>1, <2>1 DEF Recorded, HistOK, History, Later
<1>4. o <= h[x].top /\ o <= h[y].top
  BY <1>2 DEF Continues
<1>5. ASSUME NEW z \in Nat, z <= o
      PROVE  /\ g[y].cmd[z] = g[x].cmd[z] /\ g[y].data[z] = g[x].data[z]
             /\ g[y].db[z] = NoDb \/ (z < g[x].top /\ g[y].db[z] = g[x].db[z])
  <2>1. z <= h[x].top /\ z <= h[y].top
    BY <1>3, <1>4, <1>5
  <2>2. /\ h[y].cmd[z] = h[x].cmd[z] /\ h[y].data[z] = h[x].data[z]
        /\ h[y].db[z] = NoDb \/ (z < h[x].top /\ h[y].db[z] = h[x].db[z])
    BY <1>2, <1>5 DEF Continues
  <2>3. /\ g[x].cmd[z] = h[x].cmd[z] /\ g[x].data[z] = h[x].data[z]
        /\ g[y].cmd[z] = h[y].cmd[z] /\ g[y].data[z] = h[y].data[z]
        /\ g[y].db[z] = h[y].db[z] \/ g[y].db[z] = NoDb
        /\ z < h[x].top => g[x].db[z] = h[x].db[z]
    BY <1>1, <1>3, <2>1 DEF Later
  <2> QED BY <1>3, <2>2, <2>3
<1> QED BY <1>3, <1>4, <1>5

\* What the histories of drawn IDs are.
LEMMA Drawn ==
    ASSUME NEW h, NEW g, Recorded(h), Recorded(g), NEW i \in Nat, NEW p, Evolves(h, g, i, p),
           NEW x \in 1 .. i
    PROVE  /\ HistOK(h[x]) /\ HistOK(g[x]) /\ Later(h[x], g[x])
           /\ g[x].scope = h[x].scope /\ g[x].owner = h[x].owner
           /\ \A n : MayKnow(h, n, x) => MayKnow(g, n, x)
<1>1. x \in Nat /\ HistOK(h[x]) /\ HistOK(g[x]) /\ Later(h[x], g[x])
  BY DEF Recorded, Evolves
<1> QED BY <1>1 DEF Later, MayKnow

\* A file remains right.
LEMMA FileStays ==
    ASSUME NEW h, NEW g, Recorded(h), Recorded(g), NEW i \in Nat, NEW p, Evolves(h, g, i, p),
           NEW f \in File(i)
    PROVE  /\ Tells(h, f) => Tells(g, f)
           /\ SentTells(h, f) => SentTells(g, f)
           /\ \A n : FileTells(h, n, f) => FileTells(g, n, f)
<1>1. f.id \in 1 .. i /\ f.off \in Nat
  BY DEF File
<1>2. PICK x, o : x = f.id /\ o = f.off
  OBVIOUS
<1>3. /\ HistOK(h[x]) /\ HistOK(g[x]) /\ Later(h[x], g[x]) /\ g[x].scope = h[x].scope
      /\ \A n : MayKnow(h, n, x) => MayKnow(g, n, x)
  BY <1>1, <1>2, Drawn
<1>4. Tells(h, f) => Tells(g, f)
  <2>1. SUFFICES ASSUME Tells(h, f) PROVE Tells(g, f)
    OBVIOUS
  <2>2. Reaches(h[x], o, f.data) /\ Fits(h[x], o, f.db) /\ o <= h[x].top
    BY <1>2, <2>1 DEF Tells, Reaches
  <2>3. Reaches(g[x], o, f.data) /\ Fits(g[x], o, f.db)
    BY <1>1, <1>2, <1>3, <2>2, StaysTrue
  <2> QED BY <1>2, <2>3 DEF Tells
<1> QED BY <1>2, <1>3, <1>4 DEF SentTells, FileTells

\* What an instance vouches for remains right.
LEMMA AgreesStays ==
    ASSUME NEW h, NEW g, Recorded(h), Recorded(g), NEW i \in Nat, NEW p, Evolves(h, g, i, p),
           NEW n, NEW s, NodeBase(n, s, i), NEW k, Agrees(h, k, s)
    PROVE  Agrees(g, k, s)
<1>1. PICK x, o : x = s.replid /\ o = s.off
  OBVIOUS
<1>2. /\ x \in 1 .. i /\ o \in Nat /\ s.replid2 \in 0 .. i /\ s.second \in Int
      /\ s.child # Nothing => s.child \in File(i)
      /\ s.backlog # Nothing => s.backlog \in Backlog
  BY <1>1 DEF NodeBase, State, Maybe
<1>3. /\ HistOK(h[x]) /\ HistOK(g[x]) /\ Later(h[x], g[x]) /\ g[x].scope = h[x].scope
      /\ MayKnow(h, k, x) => MayKnow(g, k, x)
  BY <1>2, Drawn
<1>4. \A d : /\ Reaches(h[x], o, d) => Reaches(g[x], o, d)
             /\ o <= h[x].top /\ Fits(h[x], o, d) => Fits(g[x], o, d)
  BY <1>2, <1>3, StaysTrue
<1>5. ASSUME s.backlog # Nothing
      PROVE  Carries(g[x], s.backlog.first - 1, s.backlog.buf, 1)
  <2>1. PICK b, q : b = s.backlog.first /\ q = s.backlog.buf
    OBVIOUS
  <2>2. b \in Nat /\ q \in Seq(Cmd)
    BY <1>2, <1>5, <2>1 DEF Backlog
  <2>3. b - 1 \in Int /\ b - 1 >= -1 /\ Len(q) \in Nat
    BY <2>2
  <2>4. Carries(h[x], b - 1, q, 1)
    BY <1>1, <1>5, <2>1 DEF Agrees
  <2>5. Carries(g[x], b - 1, q, 1)
    BY <1>3, <2>3, <2>4, StillCarries
  <2> QED BY <2>1, <2>5
<1>6. ASSUME s.backlog # Nothing, s.replid2 # NoId
      PROVE  MayKnow(g, k, s.replid2) /\ Continues(g, s.replid2, x, s.second - 1)
  <2>1. s.replid2 \in 1 .. i /\ s.second - 1 \in Int
    BY <1>2, <1>6 DEF NoId
  <2>2. MayKnow(h, k, s.replid2) /\ Continues(h, s.replid2, x, s.second - 1)
    BY <1>1, <1>6 DEF Agrees
  <2>3. Continues(g, s.replid2, x, s.second - 1)
    BY <1>2, <2>1, <2>2, StillContinues
  <2>4. MayKnow(g, k, s.replid2)
    BY <2>1, <2>2, Drawn
  <2> QED BY <2>3, <2>4
<1>7. s.child # Nothing => SentTells(g, s.child)
  BY <1>2, FileStays DEF Agrees
<1>8. s.backlog # Nothing \/ s.master # Nothing \/ s.cached # Nothing =>
          /\ Reaches(h[x], o, s.data) /\ MayKnow(h, k, x) /\ o <= h[x].top
  BY <1>1 DEF Agrees, Reaches
<1> QED BY <1>1, <1>3, <1>4, <1>5, <1>6, <1>7, <1>8 DEF Agrees

\* The other masters still rule their histories.
LEMMA RulesStays ==
    ASSUME NEW h, NEW g, NEW i \in Nat, NEW p, Evolves(h, g, i, p),
           NEW n, n # p, NEW s, NodeBase(n, s, i), Rules(h, n, s)
    PROVE  Rules(g, n, s)
<1>1. s.replid \in 1 .. i
  BY DEF NodeBase, State
<1> QED BY <1>1 DEF Evolves, Rules

\* What is on its way remains right.
LEMMA BringsStays ==
    ASSUME NEW h, NEW g, Recorded(h), Recorded(g), NEW i \in Nat, NEW p, Evolves(h, g, i, p),
           NEW s \in State(i), NEW c, NEW m, ConnOK(s, c, m, i),
           c.open => m \in State(i), Brings(h, s, c, m)
    PROVE  Brings(g, s, c, m)
<1>1. /\ c \in Conn(i) /\ c.q \in Seq(Msg(i)) /\ Len(c.q) \in Nat /\ c.out \in Seq(Cmd) /\ Len(c.out) \in Nat
      /\ s.off \in Nat /\ s.replid \in 1 .. i /\ s.off \in Int /\ s.off >= -1
  BY DEF ConnOK, Conn, State
<1>2. ASSUME NEW x \in 1 .. i, NEW o \in Nat, NEW q, Len(q) \in Nat, NEW k \in Nat, k >= 1,
             Carries(h[x], o, q, k)
      PROVE  Carries(g[x], o, q, k)
  <2>1. HistOK(h[x]) /\ HistOK(g[x]) /\ Later(h[x], g[x])
    BY Drawn
  <2>2. o \in Int /\ o >= -1
    OBVIOUS
  <2> QED BY <1>2, <2>1, <2>2, StillCarries
<1>3. s.rstate = "connected" => Carries(g[s.replid], s.off, c.q, 1)
  BY <1>1, <1>2 DEF Brings
<1>4. ASSUME s.rstate = "receive_psync", c.st = "online", c.q[1].op = "continue"
      PROVE  /\ g[s.replid].scope = "shared" /\ g[c.q[1].id].scope = "shared"
             /\ Continues(g, s.replid, c.q[1].id, s.off)
             /\ Carries(g[c.q[1].id], s.off, c.q, 2)
  <2>1. c.q[1] \in ContinueMsg(i)
    BY <1>1, <1>4 DEF ConnOK, Attempts, LinkOK, Queued, Announced, FileAhead, ContinueAhead, AwaitsFile,
       ReadsFile, Streams, FullMsg
  <2>2. PICK y : y = c.q[1].id
    OBVIOUS
  <2>3. y \in 1 .. i
    BY <2>1, <2>2 DEF ContinueMsg
  <2>4. /\ h[s.replid].scope = "shared" /\ h[y].scope = "shared"
        /\ Continues(h, s.replid, y, s.off) /\ Carries(h[y], s.off, c.q, 2)
    BY <1>4, <2>2 DEF Brings
  <2>5. g[s.replid].scope = "shared" /\ g[y].scope = "shared"
    BY <1>1, <2>3, <2>4, Drawn
  <2>6. Continues(g, s.replid, y, s.off)
    BY <1>1, <2>3, <2>4, StillContinues
  <2>7. Carries(g[y], s.off, c.q, 2)
    BY <1>1, <1>2, <2>3, <2>4
  <2> QED BY <2>2, <2>5, <2>6, <2>7
<1>5. ASSUME NEW k \in 1 .. 2, k <= Len(c.q), c.q[k] \in RdbMsg(i), NEW full \in FullMsg(i), FileFirst(h, c.q, k, full)
      PROVE  FileFirst(g, c.q, k, full)
  <2>1. full.id \in 1 .. i /\ full.off \in Nat /\ c.q[k].file \in File(i) /\ k + 1 \in Nat /\ k + 1 >= 1
    BY <1>5 DEF FullMsg, RdbMsg
  <2>2. SentTells(g, c.q[k].file)
    BY <1>5, <2>1, FileStays DEF FileFirst
  <2>3. Carries(g[full.id], full.off, c.q, k + 1)
    BY <1>1, <1>2, <1>5, <2>1 DEF FileFirst
  <2> QED BY <1>5, <2>2, <2>3 DEF FileFirst
<1>6. ASSUME s.rstate = "receive_psync", c.st = "online", c.q[1].op = "fullresync"
      PROVE  FileFirst(g, c.q, 2, c.q[1])
  <2>1. c.q[1] \in FullMsg(i) /\ c.q[2] \in RdbMsg(i) /\ 2 <= Len(c.q)
    BY <1>1, <1>6 DEF ConnOK, Attempts, LinkOK, Queued, Announced, FileAhead, ContinueAhead, AwaitsFile,
       ReadsFile, Streams, ContinueMsg
  <2>2. FileFirst(h, c.q, 2, c.q[1])
    BY <1>6 DEF Brings
  <2> QED BY <1>5, <2>1, <2>2
<1>7. ASSUME s.rstate = "transfer", c.st = "online"
      PROVE  FileFirst(g, c.q, 1, s.sync)
  <2>1. c.q[1] \in RdbMsg(i) /\ 1 <= Len(c.q) /\ s.sync # Nothing
    BY <1>1, <1>7 DEF ConnOK, Attempts, LinkOK, Queued, Announced, FileAhead, ContinueAhead, AwaitsFile,
       ReadsFile, Streams
  <2>2. s.sync \in FullMsg(i)
    BY <2>1 DEF State, Maybe
  <2>3. FileFirst(h, c.q, 1, s.sync)
    BY <1>7 DEF Brings
  <2> QED BY <1>5, <2>1, <2>2, <2>3
<1>8. ASSUME c.open, c.st = "wait_end"
      PROVE  Carries(g[m.child.id], m.child.off, c.out, 1)
  <2>1. m.child # Nothing /\ m.child \in Maybe(File(i))
    BY <1>1, <1>8 DEF ConnOK, Attempts, LinkOK, Queued, Announced, FileAhead, ContinueAhead, AwaitsFile,
       ReadsFile, Streams, Collects, State, Idle
  <2>2. m.child.id \in 1 .. i /\ m.child.off \in Nat
    BY <2>1 DEF Maybe, File
  <2>3. Carries(h[m.child.id], m.child.off, c.out, 1)
    BY <1>8 DEF Brings
  <2> QED BY <1>1, <1>2, <2>2, <2>3
<1> QED BY <1>3, <1>4, <1>6, <1>7, <1>8 DEF Brings

\* Of its master a replica needs the child only, as long as the connection is open.
LEMMA BringsChild ==
    ASSUME NEW h, NEW s, NEW c, NEW m, NEW w, c.open => w.child = m.child, Brings(h, s, c, m)
    PROVE  Brings(h, s, c, w)
BY DEF Brings

\* A closed connection still brings what was written to it.
LEMMA BringsClosed ==
    ASSUME NEW h, NEW i, NEW s, NEW c \in Conn(i), NEW m, NEW w, Brings(h, s, c, m)
    PROVE  Brings(h, s, Closed(c), w)
<1>1. PICK d, e, f : d = Closed(c) /\ e = <<>> /\ f = FALSE
  OBVIOUS
<1>2. d = [c EXCEPT !.open = f, !.out = e]
  BY <1>1 DEF Closed
<1>3. d.st = c.st /\ d.q = c.q /\ d.open = f
  BY <1>2 DEF Conn
<1>4. ~d.open
  BY <1>1, <1>3
<1> QED BY <1>1, <1>3, <1>4 DEF Brings

\* One instance p changes with its histories, the connections to it and its own.
LEMMA ToldOne ==
    ASSUME NEW nd, NEW cn, NEW i, Good(nd, cn, i), NEW h, NEW g, Told(h, nd, cn), Recorded(g),
           NEW p \in Server, Evolves(h, g, i, p), NEW t, Agrees(g, p, t), Rules(g, p, t),
           NEW cd, cd[p].to # p, Brings(g, t, cd[p], nd[cd[p].to]), cd[p].open => cd[p].to \in Server,
           \A r \in Server \ {p} :
               IF cn[r].to = p THEN cd[r].to = p /\ Brings(g, nd[r], cd[r], t)
               ELSE cd[r] = cn[r]
    PROVE  Told(g, [nd EXCEPT ![p] = t], cd)
<1>1. PICK ne : ne = [nd EXCEPT ![p] = t]
  OBVIOUS
<1>2. /\ i \in Nat /\ nd \in [Server -> State(i)] /\ \A n \in Server : NodeOK(n, nd[n], i)
      /\ \A r \in Server : ConnOK(nd[r], cn[r], nd[cn[r].to], i)
      /\ Recorded(h)
  BY DEF Good, Told
<1>3. ne[p] = t /\ \A n \in Server \ {p} : ne[n] = nd[n]
  BY <1>1, <1>2
<1>4. ASSUME NEW n \in Server \ {p}
      PROVE  Agrees(g, n, ne[n]) /\ Rules(g, n, ne[n])
  <2>1. NodeBase(n, nd[n], i) /\ Agrees(h, n, nd[n]) /\ Rules(h, n, nd[n])
    BY <1>2 DEF NodeOK, Told
  <2>2. Agrees(g, n, nd[n])
    BY <1>2, <2>1, AgreesStays
  <2>3. Rules(g, n, nd[n])
    BY <1>2, <2>1, RulesStays
  <2> QED BY <1>3, <2>2, <2>3
<1>5. ASSUME NEW r \in Server \ {p}
      PROVE  Brings(g, ne[r], cd[r], ne[cd[r].to])
  <2>1. CASE cn[r].to = p
    BY <1>3, <2>1
  <2>2. CASE cn[r].to # p
    <3>1. cd[r] = cn[r] /\ ConnOK(nd[r], cn[r], nd[cn[r].to], i) /\ nd[r] \in State(i)
      BY <1>2, <2>2
    <3>2. cn[r].open => cn[r].to \in Server
      BY Reached
    <3>3. cn[r].open => nd[cn[r].to] \in State(i)
      BY <1>2, <3>2
    <3>4. Brings(h, nd[r], cn[r], nd[cn[r].to])
      BY DEF Told
    <3>5. Brings(g, nd[r], cn[r], nd[cn[r].to])
      BY <1>2, <3>1, <3>3, <3>4, BringsStays
    <3>6. cn[r].open => ne[cn[r].to] = nd[cn[r].to]
      BY <1>3, <2>2, <3>2
    <3>7. Brings(g, nd[r], cn[r], ne[cn[r].to])
      BY <3>5, <3>6, BringsChild
    <3> QED BY <1>3, <3>1, <3>7
  <2> QED BY <2>1, <2>2
<1>6. Brings(g, ne[p], cd[p], ne[cd[p].to])
  <2>1. cd[p].open => ne[cd[p].to] = nd[cd[p].to]
    BY <1>3
  <2> QED BY <1>3, <2>1, BringsChild
<1> QED BY <1>1, <1>3, <1>4, <1>5, <1>6 DEF Told

\* The slaves of p keep their connections.
LEMMA ToldKept ==
    ASSUME NEW nd, NEW cn, NEW i, Good(nd, cn, i), NEW h, NEW g, Told(h, nd, cn), Recorded(g),
           NEW p \in Server, Evolves(h, g, i, p), NEW t, Agrees(g, p, t), Rules(g, p, t),
           NEW c, c.to # p, Brings(g, t, c, nd[c.to]), c.open => c.to \in Server,
           \A r \in Server : cn[r].to = p /\ cn[r].open => t.child = nd[p].child
    PROVE  Told(g, [nd EXCEPT ![p] = t], [cn EXCEPT ![p] = c])
<1>1. PICK cd : cd = [cn EXCEPT ![p] = c]
  OBVIOUS
<1>2. /\ i \in Nat /\ nd \in [Server -> State(i)] /\ cn \in [Server -> Conn(i)]
      /\ \A r \in Server : ConnOK(nd[r], cn[r], nd[cn[r].to], i)
      /\ Recorded(h)
  BY DEF Good, Told
<1>3. cd[p] = c /\ \A r \in Server \ {p} : cd[r] = cn[r]
  BY <1>1, <1>2
<1>4. ASSUME NEW r \in Server \ {p}, cn[r].to = p
      PROVE  Brings(g, nd[r], cn[r], t)
  <2>1. /\ ConnOK(nd[r], cn[r], nd[p], i) /\ nd[r] \in State(i) /\ nd[p] \in State(i)
        /\ Brings(h, nd[r], cn[r], nd[p])
    BY <1>2, <1>4 DEF Told
  <2>2. Brings(g, nd[r], cn[r], nd[p])
    BY <1>2, <2>1, BringsStays
  <2> QED BY <1>4, <2>2, BringsChild
<1>5. Told(g, [nd EXCEPT ![p] = t], cd)
  BY <1>3, <1>4, ToldOne
<1> QED BY <1>1, <1>5

\* The slaves of p are disconnected.
LEMMA ToldClosed ==
    ASSUME NEW nd, NEW cn, NEW i, Good(nd, cn, i), NEW h, NEW g, Told(h, nd, cn), Recorded(g),
           NEW p \in Server, Evolves(h, g, i, p), NEW t, Agrees(g, p, t), Rules(g, p, t),
           NEW c, c.to # p, Brings(g, t, c, nd[c.to]), c.open => c.to \in Server
    PROVE  Told(g, [nd EXCEPT ![p] = t], [DisconnectSlaves(cn, p) EXCEPT ![p] = c])
<1>1. PICK cd : cd = [DisconnectSlaves(cn, p) EXCEPT ![p] = c]
  OBVIOUS
<1>2. /\ i \in Nat /\ nd \in [Server -> State(i)] /\ cn \in [Server -> Conn(i)]
      /\ \A r \in Server : ConnOK(nd[r], cn[r], nd[cn[r].to], i)
      /\ Recorded(h)
  BY DEF Good, Told
<1>3. /\ cd[p] = c
      /\ \A r \in Server \ {p} : cd[r] = IF cn[r].to = p THEN Closed(cn[r]) ELSE cn[r]
  BY <1>1 DEF DisconnectSlaves, Closed
<1>4. ASSUME NEW r \in Server \ {p}, cn[r].to = p
      PROVE  cd[r].to = p /\ Brings(g, nd[r], cd[r], t)
  <2>1. /\ ConnOK(nd[r], cn[r], nd[p], i) /\ nd[r] \in State(i) /\ nd[p] \in State(i)
        /\ Brings(h, nd[r], cn[r], nd[p]) /\ cn[r] \in Conn(i)
    BY <1>2, <1>4 DEF Told
  <2>2. Brings(g, nd[r], cn[r], nd[p])
    BY <1>2, <2>1, BringsStays
  <2>3. Brings(g, nd[r], Closed(cn[r]), t)
    BY <2>1, <2>2, BringsClosed
  <2>4. Closed(cn[r]).to = p
    BY <1>4, <2>1 DEF Closed, Conn
  <2> QED BY <1>3, <1>4, <2>3, <2>4
<1>5. Told(g, [nd EXCEPT ![p] = t], cd)
  BY <1>3, <1>4, ToldOne
<1> QED BY <1>1, <1>5

\* Streams that follow one another.
LEMMA CarriesJoined ==
    ASSUME NEW H, HistOK(H), NEW o \in Int, NEW k \in Nat, k >= 1, NEW S, NEW q \in Seq(S), NEW x \in Seq(S),
           k <= Len(q) + 1, Carries(H, o, q, k), Carries(H, o + (Len(q) + 1 - k), x, 1)
    PROVE  Carries(H, o, q \o x, k)
<1>1. PICK a, b, z : a = Len(q) /\ b = Len(x) /\ z = q \o x
  OBVIOUS
<1>2. /\ a \in Nat /\ b \in Nat /\ Len(z) = a + b /\ H.top \in Int
      /\ \A j \in 1 .. a : z[j] = q[j]
      /\ \A j \in a + 1 .. a + b : z[j] = x[j - a]
  BY <1>1 DEF HistOK, History
<1>3. (o + (a + 1 - k)) + (b + 1 - 1) <= H.top
  BY <1>1 DEF Carries
<1>4. o + ((a + b) + 1 - k) <= H.top
  BY <1>2, <1>3
<1>5. ASSUME NEW j \in k .. a + b
      PROVE  z[j] = H.cmd[o + (j + 1 - k)]
  <2>1. CASE j <= a
    <3>1. j \in k .. a /\ j \in 1 .. a
      BY <1>2, <2>1
    <3> QED BY <1>1, <1>2, <3>1 DEF Carries
  <2>2. CASE j > a
    <3>1. j - a \in 1 .. b /\ j \in a + 1 .. a + b
      BY <1>2, <2>2
    <3>2. x[j - a] = H.cmd[(o + (a + 1 - k)) + ((j - a) + 1 - 1)]
      BY <1>1, <3>1 DEF Carries
    <3>3. (o + (a + 1 - k)) + ((j - a) + 1 - 1) = o + (j + 1 - k)
      BY <1>2
    <3> QED BY <1>2, <3>1, <3>2, <3>3
  <2> QED BY <1>2, <2>1, <2>2
<1>6. Carries(H, o, z, k)
  BY <1>2, <1>4, <1>5 DEF Carries
<1> QED BY <1>1, <1>6

\* What a fed connection brings.
LEMMA BringsFed ==
    ASSUME NEW h, Recorded(h), NEW i \in Nat, NEW s \in State(i), NEW c, NEW m \in State(i), NEW w,
           ConnOK(s, c, m, i), c.open, Brings(h, s, c, m), NEW cmds \in Seq(Cmd),
           Carries(h[m.replid], m.off, cmds, 1), w.child = m.child
    PROVE  Brings(h, s, FedConn(c, cmds), w)
<1>1. /\ c \in Conn(i) /\ c.q \in Seq(Msg(i)) /\ c.out \in Seq(Cmd) /\ Cmd \subseteq Msg(i)
      /\ s.off \in Nat /\ m.off \in Nat /\ m.replid \in 1 .. i
  BY DEF ConnOK, Conn, Msg, State
<1>2. /\ Attempts(s) /\ LinkOK(s, c, m, i)
  BY DEF ConnOK, Idle
<1>3. PICK M, e : M = h[m.replid] /\ e = m.off
  OBVIOUS
<1>4. HistOK(M) /\ Carries(M, e, cmds, 1) /\ e \in Nat
  <2>1. m.replid \in Nat
    BY <1>1
  <2> QED BY <1>1, <1>3, <2>1 DEF Recorded
<1>5. CASE c.st = "online"
  <2>1. PICK q, p, d : q = c.q /\ p = q \o cmds /\ d = FedConn(c, cmds)
    OBVIOUS
  <2>2. /\ q \in Seq(Msg(i)) /\ cmds \in Seq(Msg(i)) /\ Len(q) \in Nat
        /\ \A k \in 1 .. Len(q) : p[k] = q[k]
    BY <1>1, <2>1
  <2>3. d = [c EXCEPT !.q = p]
    BY <1>5, <2>1 DEF FedConn
  <2>4. d.q = p /\ d.st = "online" /\ d.open = c.open
    BY <1>1, <1>5, <2>3 DEF Conn
  <2>5. c.out = <<>> /\ Pending(c) = Len(q)
    <3>1. c.out = <<>>
      BY <1>2, <1>5 DEF LinkOK, Queued, Announced, FileAhead, ContinueAhead, AwaitsFile, ReadsFile, Streams
    <3>2. Len(c.out) = 0
      BY <3>1
    <3> QED BY <2>1, <2>2, <3>1, <3>2 DEF Pending
  <2>6. ASSUME NEW o \in Nat, NEW k \in 1 .. 3, k <= Len(q) + 1, o + Len(q) = e + (k - 1),
               Carries(M, o, q, k)
        PROVE  Carries(M, o, p, k)
    <3>1. o \in Int /\ k \in Nat /\ k >= 1 /\ o + (Len(q) + 1 - k) = e
      BY <1>4, <2>2, <2>6
    <3>2. Carries(M, o, q \o cmds, k)
      BY <1>4, <2>2, <2>6, <3>1, CarriesJoined
    <3> QED BY <2>1, <3>2
  <2>7. CASE s.rstate = "connected"
    <3>1. Streams(s, c, m)
      BY <1>2, <1>5, <2>7 DEF LinkOK, Queued, Announced, FileAhead, ContinueAhead, AwaitsFile, ReadsFile
    <3>2. s.off + Len(q) = e /\ M = h[s.replid]
      BY <1>3, <2>5, <3>1, <1>1, <2>2 DEF Streams, Ends
    <3>3. Carries(M, s.off, q, 1)
      BY <2>1, <2>7, <3>2 DEF Brings
    <3>5. 1 \in 1 .. 3 /\ 1 <= Len(q) + 1 /\ s.off + Len(q) = e + (1 - 1)
      BY <1>4, <2>2, <3>2
    <3>4. Carries(M, s.off, p, 1)
      BY <1>1, <2>6, <3>3, <3>5
    <3> QED BY <2>1, <2>4, <2>7, <3>2, <3>4 DEF Brings
  <2>8. CASE s.rstate = "transfer"
    <3>1. ReadsFile(s, c, m, i)
      BY <1>2, <1>5, <2>8 DEF LinkOK, Queued, Announced, FileAhead, ContinueAhead, AwaitsFile, Streams
    <3>2. PICK o : o = s.sync.off
      OBVIOUS
    <3>3. o + Len(q) = e + 1 /\ M = h[s.sync.id] /\ Len(q) >= 1 /\ p[1] = q[1] /\ o \in Nat
      <4>1. s.sync \in FullMsg(i)
        BY <3>1 DEF ReadsFile, State, Maybe
      <4> QED BY <1>3, <2>1, <2>2, <2>5, <3>1, <3>2, <4>1 DEF ReadsFile, Ends, FullMsg
    <3>4. FileFirst(h, q, 1, s.sync)
      BY <1>5, <2>1, <2>8 DEF Brings
    <3>5. Carries(M, o, q, 2)
      BY <3>2, <3>3, <3>4 DEF FileFirst
    <3>6. Carries(M, o, p, 2)
      BY <1>4, <2>2, <2>6, <3>3, <3>5
    <3>7. FileFirst(h, p, 1, s.sync)
      BY <3>2, <3>3, <3>4, <3>6 DEF FileFirst
    <3> QED BY <2>1, <2>4, <2>8, <3>7 DEF Brings
  <2>9. CASE s.rstate = "receive_psync" /\ FileAhead(s, c, m, i)
    <3>1. PICK full : full = q[1]
      OBVIOUS
    <3>2. PICK o : o = full.off
      OBVIOUS
    <3>3. /\ o + Len(q) = e + 2 /\ M = h[full.id] /\ Len(q) >= 2 /\ p[1] = full /\ p[2] = q[2]
          /\ o \in Nat /\ full.op = "fullresync"
      BY <1>3, <2>1, <2>2, <2>5, <2>9, <3>1, <3>2 DEF FileAhead, Ends, FullMsg
    <3>4. FileFirst(h, q, 2, full)
      BY <1>5, <2>1, <2>9, <3>1, <3>3 DEF Brings
    <3>5. Carries(M, o, q, 3)
      BY <3>2, <3>3, <3>4 DEF FileFirst
    <3>6. Carries(M, o, p, 3)
      BY <1>4, <2>2, <2>6, <3>3, <3>5
    <3>7. FileFirst(h, p, 2, full)
      BY <3>2, <3>3, <3>4, <3>6 DEF FileFirst
    <3> QED BY <2>1, <2>4, <2>9, <3>3, <3>7 DEF Brings
  <2>10. CASE s.rstate = "receive_psync" /\ ContinueAhead(s, c, m, i)
    <3>1. /\ s.off + Len(q) = e + 1 /\ M = h[q[1].id] /\ Len(q) >= 1 /\ p[1] = q[1]
          /\ q[1].op = "continue"
      BY <1>3, <2>1, <2>2, <2>5, <2>10 DEF ContinueAhead, Ends, ContinueMsg
    <3>2. /\ h[s.replid].scope = "shared" /\ h[q[1].id].scope = "shared"
          /\ Continues(h, s.replid, q[1].id, s.off) /\ Carries(M, s.off, q, 2)
      BY <1>5, <2>1, <2>10, <3>1 DEF Brings
    <3>3. Carries(M, s.off, p, 2)
      BY <1>1, <1>4, <2>2, <2>6, <3>1, <3>2
    <3> QED BY <2>1, <2>4, <2>10, <3>1, <3>2, <3>3 DEF Brings
  <2> QED BY <1>2, <1>5, <2>7, <2>8, <2>9, <2>10 DEF LinkOK, Queued, Announced, AwaitsFile, FileAhead,
             ContinueAhead, ReadsFile, Streams
<1>6. CASE c.st = "wait_end"
  <2>1. PICK q, p, d : q = c.out /\ p = q \o cmds /\ d = FedConn(c, cmds)
    OBVIOUS
  <2>2. d = [c EXCEPT !.out = p]
    BY <1>6, <2>1 DEF FedConn
  <2>3. d.q = c.q /\ d.st = "wait_end" /\ d.out = p
    BY <1>1, <1>6, <2>2 DEF Conn
  <2>4. PICK f : f = m.child
    OBVIOUS
  <2>5. /\ M = h[f.id] /\ f.off + Len(q) = e /\ f.off \in Nat /\ Len(q) \in Nat /\ s.rstate # "connected"
    <3>1. f \in File(i) /\ f # Nothing
      BY <1>2, <1>6, <2>4 DEF LinkOK, Queued, Announced, FileAhead, ContinueAhead, AwaitsFile,
         ReadsFile, Streams, Collects, State, Maybe
    <3>2. f.off \in Nat /\ Len(q) \in Nat
      BY <1>1, <2>1, <3>1 DEF File
    <3>3. CASE Announced(s, c, m, i)
      <4>1. m.replid = f.id /\ f.off + (1 + Len(q)) = m.off + 1
        BY <2>1, <2>4, <3>3 DEF Announced, Ends, Collects, Pending
      <4>2. f.off + Len(q) = m.off
        <5>1. PICK x, y, z : x = f.off /\ y = Len(q) /\ z = m.off
          OBVIOUS
        <5>2. x \in Nat /\ y \in Nat /\ z \in Nat /\ x + (1 + y) = z + 1
          BY <1>1, <3>2, <4>1, <5>1
        <5>3. x + y = z
          BY <5>2
        <5> QED BY <5>1, <5>3
      <4> QED BY <1>3, <3>2, <3>3, <4>1, <4>2 DEF Announced
    <3>4. CASE AwaitsFile(s, c, m)
      <4>1. Len(c.q) = 0
        BY <3>4 DEF AwaitsFile
      <4>2. m.replid = f.id /\ f.off + (0 + Len(q)) = m.off + 0
        BY <2>1, <2>4, <3>4, <4>1 DEF AwaitsFile, Ends, Collects, Pending
      <4> QED BY <1>1, <1>3, <3>2, <3>4, <4>2 DEF AwaitsFile
    <3> QED BY <1>2, <1>6, <3>3, <3>4 DEF LinkOK, Queued, FileAhead, ContinueAhead, ReadsFile, Streams
  <2>6. Carries(M, f.off, q, 1)
    BY <1>6, <2>1, <2>4, <2>5 DEF Brings
  <2>7. Carries(M, f.off, p, 1)
    <3>1. q \in Seq(Cmd) /\ f.off \in Int /\ 1 <= Len(q) + 1 /\ f.off + (Len(q) + 1 - 1) = e
      BY <1>1, <1>4, <2>1, <2>5
    <3>2. Carries(M, f.off, q \o cmds, 1)
      BY <1>4, <2>6, <3>1, CarriesJoined
    <3> QED BY <2>1, <3>2
  <2>8. Brings(h, s, d, w)
    BY <2>3, <2>4, <2>5, <2>7 DEF Brings
  <2> QED BY <2>1, <2>8
<1>7. CASE c.st \notin {"online", "wait_end"}
  <2>1. FedConn(c, cmds) = c
    BY <1>7 DEF FedConn
  <2> QED BY <2>1, BringsChild
<1> QED BY <1>5, <1>6, <1>7

\* The slaves of p are fed.
LEMMA ToldFed ==
    ASSUME NEW nd, NEW cn, NEW i, Good(nd, cn, i), NEW h, NEW g, Told(h, nd, cn), Recorded(g),
           NEW p \in Server, Evolves(h, g, i, p), NEW t, Agrees(g, p, t), Rules(g, p, t),
           NEW c, c.to # p, Brings(g, t, c, nd[c.to]), c.open => c.to \in Server,
           NEW cmds \in Seq(Cmd), Carries(g[nd[p].replid], nd[p].off, cmds, 1),
           t.child = nd[p].child
    PROVE  Told(g, [nd EXCEPT ![p] = t], [FeedSlaves(cn, p, cmds) EXCEPT ![p] = c])
<1>1. PICK cd : cd = [FeedSlaves(cn, p, cmds) EXCEPT ![p] = c]
  OBVIOUS
<1>2. /\ i \in Nat /\ nd \in [Server -> State(i)] /\ cn \in [Server -> Conn(i)]
      /\ \A r \in Server : ConnOK(nd[r], cn[r], nd[cn[r].to], i)
      /\ Recorded(h)
  BY DEF Good, Told
<1>3. /\ cd[p] = c
      /\ \A r \in Server \ {p} :
            cd[r] = IF cn[r].to = p /\ cn[r].open THEN FedConn(cn[r], cmds) ELSE cn[r]
  BY <1>1 DEF FeedSlaves, FedConn
<1>4. ASSUME NEW r \in Server \ {p}, cn[r].to = p
      PROVE  cd[r].to = p /\ Brings(g, nd[r], cd[r], t)
  <2>1. /\ ConnOK(nd[r], cn[r], nd[p], i) /\ nd[r] \in State(i) /\ nd[p] \in State(i)
        /\ Brings(h, nd[r], cn[r], nd[p]) /\ cn[r] \in Conn(i)
    BY <1>2, <1>4 DEF Told
  <2>2. Brings(g, nd[r], cn[r], nd[p])
    BY <1>2, <2>1, BringsStays
  <2>3. CASE cn[r].open
    <3>1. Brings(g, nd[r], FedConn(cn[r], cmds), t)
      BY <1>2, <2>1, <2>2, <2>3, BringsFed
    <3>2. FedConn(cn[r], cmds).to = p
      BY <1>4, <2>1 DEF FedConn, Conn
    <3> QED BY <1>3, <1>4, <2>3, <3>1, <3>2
  <2>4. CASE ~cn[r].open
    <3>1. Brings(g, nd[r], cn[r], t)
      BY <2>2, <2>4, BringsChild
    <3> QED BY <1>3, <1>4, <2>4, <3>1
  <2> QED BY <2>3, <2>4
<1>5. \A r \in Server \ {p} : cn[r].to # p => cd[r] = cn[r]
  BY <1>3
<1>6. Told(g, [nd EXCEPT ![p] = t], cd)
  BY <1>3, <1>4, <1>5, ToldOne
<1> QED BY <1>1, <1>6

-----------------------------------------------------------------------------
(* How the histories change with the state of an instance                  *)

Changed(h, g, i, p, x, K) ==
    /\ Recorded(g) /\ Evolves(h, g, i, p) /\ g[x] = K
    /\ \A y \in Nat : y # x => g[y] = h[y]

\* One history is replaced: that of a new ID, or a later state of one of p's.
LEMMA Change ==
    ASSUME NEW h, Recorded(h), NEW i \in Nat, NEW p, NEW x \in Nat, NEW K, HistOK(K),
           x > i \/ (h[x].owner = p /\ Later(h[x], K))
    PROVE  \E g : Changed(h, g, i, p, x, K)
<1>1. PICK g : g = [h EXCEPT ![x] = K]
  OBVIOUS
<1>2. h \in [Nat -> History] /\ K \in History /\ \A y \in Nat : HistOK(h[y])
  BY DEF Recorded, Histories, HistOK
<1>3. g \in [Nat -> History] /\ g[x] = K /\ \A y \in Nat : y # x => g[y] = h[y]
  BY <1>1, <1>2
<1>4. Recorded(g)
  BY <1>2, <1>3 DEF Recorded, Histories
<1>5. ASSUME NEW y \in 1 .. i
      PROVE  Later(h[y], g[y]) /\ (h[y].owner # p => g[y] = h[y])
  <2>1. y \in Nat /\ y <= i
    OBVIOUS
  <2>2. CASE y = x
    BY <1>3, <2>1, <2>2
  <2>3. CASE y # x
    BY <1>2, <1>3, <2>1, <2>3, LaterSame
  <2> QED BY <2>2, <2>3
<1> QED BY <1>3, <1>4, <1>5 DEF Evolves, Changed

\* Nothing changes.
LEMMA NoChange ==
    ASSUME NEW h, Recorded(h), NEW i \in Nat, NEW p
    PROVE  Evolves(h, h, i, p)
<1>1. \A x \in 1 .. i : HistOK(h[x])
  BY DEF Recorded
<1> QED BY <1>1, LaterSame DEF Evolves

\* The histories after a step of p that leaves it in state t.
Moves(h, g, i, p, t) ==
    Recorded(g) /\ Evolves(h, g, i, p) /\ Agrees(g, p, t) /\ Rules(g, p, t)

\* The histories do not depend on the rest of the state.
SameTale(s, t) ==
    /\ t.replid = s.replid /\ t.replid2 = s.replid2 /\ t.second = s.second /\ t.off = s.off
    /\ t.data = s.data /\ t.backlog = s.backlog /\ t.seldb = s.seldb /\ t.child = s.child
    /\ t.masterhost = s.masterhost /\ t.master = s.master /\ t.cached = s.cached

\* Such a change leaves everything as it is.
LEMMA TaleStays ==
    ASSUME NEW h, NEW n, NEW s, NEW t, SameTale(s, t)
    PROVE  /\ Agrees(h, n, s) => Agrees(h, n, t)
           /\ Rules(h, n, s) => Rules(h, n, t)
BY DEF SameTale, Agrees, Rules

\* replicationUnsetMaster: the new ID continues the history.
LEMMA Shifts ==
    ASSUME NEW h, Recorded(h), NEW i \in Nat, NEW n \in Server, NEW s, NodeBase(n, s, i),
           Agrees(h, n, s), NEW id \in Nat, id > i
    PROVE  \E g : Moves(h, g, i, n, UnsetMaster(s, id))
<1>1. PICK t, k, e : t = UnsetMaster(s, id) /\ k = s.off + 1 /\ e = Nothing
  OBVIOUS
<1>2. /\ s \in State(i) /\ s.off \in Nat /\ s.replid \in 1 .. i /\ s.replid \in Nat
      /\ s.child # Nothing => s.child \in File(i)
  BY DEF NodeBase, State, Maybe
<1>3. t = [s EXCEPT !.replid2 = s.replid, !.second = k, !.replid = id, !.masterhost = NoServer,
                    !.master = e, !.cached = e, !.rstate = "none", !.sync = e, !.seldb = NoDb]
  BY <1>1, <1>2 DEF UnsetMaster, ShiftReplicationId, State
<1>4. /\ t.replid = id /\ t.replid2 = s.replid /\ t.second = k /\ t.off = s.off /\ t.data = s.data
      /\ t.backlog = s.backlog /\ t.seldb = NoDb /\ t.child = s.child
      /\ t.masterhost = NoServer /\ t.master = Nothing /\ t.cached = Nothing
  BY <1>1, <1>2, <1>3 DEF State
<1>5. ASSUME NEW K, HistOK(K)
      PROVE  \E g : /\ Recorded(g) /\ Evolves(h, g, i, n) /\ g[id] = K
                    /\ g[s.replid] = h[s.replid]
                    /\ t.child # Nothing => SentTells(g, t.child)
  <2>1. PICK g : Changed(h, g, i, n, id, K)
    BY <1>5, Change
  <2>2. /\ Recorded(g) /\ Evolves(h, g, i, n) /\ g[id] = K
        /\ \A y \in Nat : y # id => g[y] = h[y]
    BY <2>1 DEF Changed
  <2>3. s.replid # id
    BY <1>2
  <2>4. t.child # Nothing => SentTells(g, t.child)
    BY <1>2, <1>4, <2>2, FileStays DEF Agrees
  <2> QED BY <1>2, <2>2, <2>3, <2>4
<1>6. CASE s.backlog = Nothing
  <2>1. PICK K : K = Started(<<>>, -1, NoDb, n, "own")
    OBVIOUS
  <2>2. HistOK(K) /\ K.top = -1 /\ K.owner = n /\ K.scope = "own"
    <3>1. PICK e1, x1 : e1 = -1 /\ x1 = <<>>
      OBVIOUS
    <3>2. x1 \in Data /\ e1 \in Int /\ e1 >= -1 /\ NoDb \in Int /\ "own" \in {"own", "shared"}
      BY <3>1 DEF Data, NoDb
    <3>3. K = Started(x1, e1, NoDb, n, "own")
      BY <2>1, <3>1
    <3>4. HistOK(K) /\ K.top = e1 /\ K.owner = n /\ K.scope = "own"
      BY <3>2, <3>3, StartedOK
    <3> QED BY <3>1, <3>4
  <2>4. PICK g : /\ Recorded(g) /\ Evolves(h, g, i, n) /\ g[id] = K
                 /\ t.child # Nothing => SentTells(g, t.child)
    BY <1>5, <2>2
  <2>5. Agrees(g, n, t) /\ Rules(g, n, t)
    BY <1>4, <1>6, <2>2, <2>4 DEF Agrees, Rules
  <2> QED BY <1>1, <2>4, <2>5 DEF Moves
<1>7. CASE s.backlog # Nothing
  <2>1. PICK H, o, K : H = h[s.replid] /\ o = s.off /\ K = Copied(H, o, n)
    OBVIOUS
  <2>2. /\ HistOK(H) /\ o \in Nat /\ o <= H.top /\ s.data = H.data[o] /\ H.top \in Int
        /\ MayKnow(h, n, s.replid)
    BY <1>2, <1>7, <2>1 DEF Recorded, Agrees, Reaches, HistOK, History
  <2>3. /\ HistOK(K) /\ K.top = o /\ K.db[o] = NoDb /\ K.owner = n /\ K.scope = "shared"
        /\ K.cmd = H.cmd /\ K.data = H.data
        /\ \A p \in Nat : p # o => K.db[p] = H.db[p]
    BY <2>1, <2>2, CopiedOK
  <2>5. PICK g : /\ Recorded(g) /\ Evolves(h, g, i, n) /\ g[id] = K /\ g[s.replid] = H
                 /\ t.child # Nothing => SentTells(g, t.child)
    BY <1>5, <2>1, <2>3
  <2>6. Reaches(g[id], t.off, t.data) /\ MayKnow(g, n, id) /\ MayKnow(g, n, s.replid)
    BY <1>4, <2>1, <2>2, <2>3, <2>5 DEF Reaches, MayKnow
  <2>7. Carries(g[id], t.backlog.first - 1, t.backlog.buf, 1)
    <3>1. PICK b, q : b = s.backlog.first /\ q = s.backlog.buf
      OBVIOUS
    <3>2. b \in Nat /\ q \in Seq(Cmd) /\ o = b + Len(q) - 1
      <4>1. s.backlog \in Backlog
        BY <1>2, <1>7 DEF State, Maybe
      <4> QED BY <1>7, <2>1, <3>1, <4>1 DEF Backlog, NodeBase
    <3>3. Carries(H, b - 1, q, 1)
      BY <1>7, <2>1, <3>1 DEF Agrees
    <3>4. (b - 1) + (Len(q) + 1 - 1) <= K.top
      <4>1. Len(q) \in Nat
        BY <3>2
      <4> QED BY <2>2, <2>3, <3>2, <4>1
    <3>5. Carries(K, b - 1, q, 1)
      BY <2>3, <3>3, <3>4 DEF Carries
    <3> QED BY <1>4, <2>5, <3>1, <3>5
  <2>8. Continues(g, s.replid, id, t.second - 1)
    <3>1. t.second - 1 = o
      BY <1>1, <1>4, <2>1, <2>2
    <3>2. o <= H.top /\ o <= K.top
      BY <2>2, <2>3
    <3>3. ASSUME NEW p \in Nat, p <= o
          PROVE  K.db[p] = NoDb \/ (p < H.top /\ K.db[p] = H.db[p])
      BY <2>2, <2>3, <3>3
    <3> QED BY <2>3, <2>5, <3>1, <3>2, <3>3 DEF Continues
  <2>9. Agrees(g, n, t)
    BY <1>4, <2>3, <2>5, <2>6, <2>7, <2>8 DEF Agrees
  <2>10. Rules(g, n, t)
    BY <1>4, <1>7, <2>1, <2>3, <2>5 DEF Rules
  <2> QED BY <1>1, <2>5, <2>9, <2>10 DEF Moves
<1> QED BY <1>6, <1>7

\* replicationSetMaster: a master's history ends, and what it has of it is cached.
LEMMA Demotes ==
    ASSUME NEW h, Recorded(h), NEW i \in Nat, NEW n \in Server, NEW s, NodeBase(n, s, i),
           Agrees(h, n, s), Rules(h, n, s), NEW r \in Server
    PROVE  \E g : Moves(h, g, i, n, SetMaster(s, r))
<1>1. PICK t, e, k : /\ t = SetMaster(s, r) /\ e = Nothing
                     /\ k = IF s.masterhost = NoServer THEN Client(s.replid, s.off, 0)
                            ELSE IF s.master.present THEN s.master ELSE s.cached
  OBVIOUS
<1>2. /\ s \in State(i) /\ s.off \in Nat /\ s.replid \in 1 .. i /\ s.replid \in Nat /\ s.data \in Data
      /\ s.child # Nothing => s.child \in File(i)
      /\ s.rstate = "none" <=> s.masterhost = NoServer
  BY DEF NodeBase, State, Maybe
<1>3. t = [s EXCEPT !.cached = k, !.master = e, !.masterhost = r, !.rstate = "connect", !.sync = e]
  <2>1. CASE s.masterhost = NoServer
    BY <1>1, <1>2, <2>1 DEF SetMaster, CacheMaster, CacheMasterUsingMyself, State
  <2>2. CASE s.masterhost # NoServer
    BY <1>1, <1>2, <2>2 DEF SetMaster, CacheMaster, CacheMasterUsingMyself, State
  <2> QED BY <2>1, <2>2
<1>4. /\ t.replid = s.replid /\ t.replid2 = s.replid2 /\ t.second = s.second /\ t.off = s.off
      /\ t.data = s.data /\ t.backlog = s.backlog /\ t.child = s.child
      /\ t.masterhost = r /\ t.master = Nothing /\ t.cached = k
  BY <1>1, <1>2, <1>3 DEF State
<1>5. \A g : Rules(g, n, t)
  BY <1>4, ReplAssumption DEF Rules
<1>6. CASE s.masterhost # NoServer
  <2>1. (k = s.master /\ s.master # Nothing) \/ (k = s.cached /\ s.master = Nothing)
    BY <1>1, <1>2, <1>6, PresentFields
  <2>2. s.master # Nothing => s.backlog # Nothing
    BY DEF NodeBase
  <2>3. Agrees(h, n, t)
    BY <1>4, <2>1, <2>2 DEF Agrees
  <2>4. Evolves(h, h, i, n)
    BY NoChange
  <2> QED BY <1>1, <1>5, <2>3, <2>4 DEF Moves
<1>7. CASE s.masterhost = NoServer
  <2>1. PICK H, o : H = h[s.replid] /\ o = s.off
    OBVIOUS
  <2>2. HistOK(H) /\ o \in Nat /\ H.owner = n
    BY <1>2, <1>7, <2>1 DEF Recorded, Rules
  <2>3. ASSUME NEW K, HistOK(K), Later(H, K), K.db[o] = NoDb, Reaches(K, o, s.data),
               s.backlog = Nothing => K.scope = "own"
        PROVE  \E g : Moves(h, g, i, n, t)
    <3>1. PICK g : Changed(h, g, i, n, s.replid, K)
      BY <1>2, <2>1, <2>2, <2>3, Change
    <3>2. Recorded(g) /\ Evolves(h, g, i, n) /\ g[s.replid] = K
      BY <3>1 DEF Changed
    <3>3. K.owner = n
      BY <2>2, <2>3 DEF Later
    <3>4. CASE s.backlog = Nothing
      <4>1. t.child # Nothing => SentTells(g, t.child)
        BY <1>2, <1>4, <3>2, FileStays DEF Agrees
      <4> QED BY <1>4, <1>5, <2>1, <2>3, <3>2, <3>3, <3>4, <4>1 DEF Agrees, Moves, Fits, MayKnow
    <3>5. CASE s.backlog # Nothing
      <4>1. Agrees(g, n, s)
        BY <3>2, AgreesStays
      <4>2. Agrees(g, n, t)
        BY <1>4, <2>1, <2>3, <3>2, <3>5, <4>1 DEF Agrees, Fits
      <4> QED BY <1>5, <3>2, <4>2 DEF Moves
    <3> QED BY <3>4, <3>5
  <2>4. CASE s.backlog = Nothing
    <3>1. PICK K : K = Started(s.data, o, NoDb, n, "own")
      OBVIOUS
    <3>2. /\ HistOK(K) /\ K.top = o /\ K.owner = n /\ K.scope = "own"
          /\ \A p \in Nat : K.db[p] = NoDb /\ K.data[p] = s.data
      <4>1. o \in Int /\ o >= -1 /\ NoDb \in Int /\ "own" \in {"own", "shared"}
        BY <2>2 DEF NoDb
      <4> QED BY <1>2, <3>1, <4>1, StartedOK
    <3>3. H.top = -1 /\ H.scope = "own"
      BY <1>7, <2>1, <2>4 DEF Rules
    <3>4. Later(H, K)
      BY <2>2, <3>2, <3>3 DEF Later
    <3>5. Reaches(K, o, s.data)
      BY <2>2, <3>2 DEF Reaches
    <3>6. \E g : Moves(h, g, i, n, t)
      BY <2>2, <2>3, <3>2, <3>4, <3>5
    <3> QED BY <1>1, <3>6
  <2>5. CASE s.backlog # Nothing
    <3>1. PICK K : K = Loosened(H)
      OBVIOUS
    <3>2. H.top = o /\ H.top >= 0
      BY <1>7, <2>1, <2>2, <2>5 DEF Rules
    <3>3. HistOK(K) /\ Later(H, K) /\ K.top = H.top /\ K.db[K.top] = NoDb
      BY <2>2, <3>1, <3>2, LoosenedOK
    <3>4. Reaches(H, o, s.data)
      BY <2>1, <2>5 DEF Agrees
    <3>5. Reaches(K, o, s.data)
      BY <2>2, <3>3, <3>4, StaysTrue
    <3>6. \E g : Moves(h, g, i, n, t)
      BY <2>3, <2>5, <3>2, <3>3, <3>5
    <3> QED BY <1>1, <3>6
  <2> QED BY <2>4, <2>5
<1> QED BY <1>6, <1>7

\* The link of a replica goes down.
LEMMA Caches ==
    ASSUME NEW h, Recorded(h), NEW i \in Nat, NEW n \in Server, NEW s, NodeBase(n, s, i),
           Agrees(h, n, s), s.masterhost # NoServer
    PROVE  LET t == [CacheMaster(s) EXCEPT !.rstate = "connect", !.sync = Nothing]
           IN Moves(h, h, i, n, t) /\ t.child = s.child
<1>1. PICK t, e, k : /\ t = [CacheMaster(s) EXCEPT !.rstate = "connect", !.sync = Nothing] /\ e = Nothing
                     /\ k = IF s.master.present THEN s.master ELSE s.cached
  OBVIOUS
<1>2. s \in State(i) /\ s.rstate # "none"
  BY DEF NodeBase
<1>3. t = [s EXCEPT !.cached = k, !.master = e, !.rstate = "connect", !.sync = e]
  BY <1>1, <1>2 DEF CacheMaster, State
<1>4. /\ t.replid = s.replid /\ t.replid2 = s.replid2 /\ t.second = s.second /\ t.off = s.off
      /\ t.data = s.data /\ t.backlog = s.backlog /\ t.child = s.child
      /\ t.masterhost = s.masterhost /\ t.master = Nothing /\ t.cached = k
  BY <1>1, <1>2, <1>3 DEF State
<1>5. (k = s.master /\ s.master # Nothing) \/ (k = s.cached /\ s.master = Nothing)
  BY <1>1, <1>2, PresentFields
<1>6. s.master # Nothing => s.backlog # Nothing
  BY DEF NodeBase
<1>7. Agrees(h, n, t) /\ Rules(h, n, t)
  BY <1>4, <1>5, <1>6 DEF Agrees, Rules
<1>8. Evolves(h, h, i, n)
  BY NoChange
<1> QED BY <1>1, <1>4, <1>7, <1>8 DEF Moves

\* abortFailover.
LEMMA Aborts ==
    ASSUME NEW h, Recorded(h), NEW i \in Nat, NEW n \in Server, NEW s, NodeBase(n, s, i),
           Agrees(h, n, s), Rules(h, n, s), NEW id \in Nat, id > i
    PROVE  /\ \E g : Moves(h, g, i, n, Aborted(s, id))
           /\ ~StepsUp(s) => Moves(h, h, i, n, Aborted(s, id)) /\ SameTale(s, Aborted(s, id))
<1>1. PICK t : t = Aborted(s, id)
  OBVIOUS
<1>2. CASE StepsUp(s)
  <2>1. PICK u : u = UnsetMaster(s, id)
    OBVIOUS
  <2>2. PICK g : Moves(h, g, i, n, u)
    BY <2>1, Shifts
  <2>3. id \in 1 .. id /\ i <= id
    OBVIOUS
  <2>4. NodeBase(n, u, id)
    BY <2>1, <2>3, UnsetMasterOK
  <2>5. t = [u EXCEPT !.failover = "none", !.target = NoServer]
    BY <1>1, <1>2, <2>1 DEF Aborted
  <2>6. SameTale(u, t)
    BY <2>4, <2>5 DEF SameTale, NodeBase, State
  <2>7. Moves(h, g, i, n, t)
    BY <2>2, <2>6, TaleStays DEF Moves
  <2> QED BY <1>1, <1>2, <2>7
<1>3. CASE ~StepsUp(s)
  <2>1. t = [s EXCEPT !.failover = "none", !.target = NoServer]
    BY <1>1, <1>3 DEF Aborted
  <2>2. SameTale(s, t)
    BY <2>1 DEF SameTale, NodeBase, State
  <2>3. Moves(h, h, i, n, t)
    BY <2>2, TaleStays, NoChange DEF Moves
  <2> QED BY <1>1, <2>2, <2>3
<1> QED BY <1>2, <1>3

\* The end of a stream follows what comes before it.
LEMMA CarriesTail ==
    ASSUME NEW H, HistOK(H), NEW o \in Int, NEW q \in Seq(Cmd), NEW cut \in Nat, cut <= Len(q),
           Carries(H, o, q, 1)
    PROVE  LET z == SubSeq(q, cut + 1, Len(q))
           IN Carries(H, o + cut, z, 1) /\ z \in Seq(Cmd) /\ Len(z) = Len(q) - cut
<1>1. PICK l, a, z : l = Len(q) /\ a = cut + 1 /\ z = SubSeq(q, a, l)
  OBVIOUS
<1>2. l \in Nat /\ a \in Int /\ l \in Int /\ a \in Nat /\ H.top \in Int /\ cut <= l
  BY <1>1 DEF HistOK, History
<1>3. \A j \in a .. l : q[j] \in Cmd
  BY <1>1, <1>2
<1>4. /\ z \in Seq(Cmd) /\ Len(z) = IF a <= l THEN l - a + 1 ELSE 0
      /\ \A j \in 1 .. l - a + 1 : z[j] = q[a + j - 1]
  BY <1>1, <1>2, <1>3, SubSeqProperties
<1>5. Len(z) = l - cut
  BY <1>1, <1>2, <1>4
<1>6. o + (l + 1 - 1) <= H.top /\ \A j \in 1 .. l : q[j] = H.cmd[o + (j + 1 - 1)]
  BY <1>1 DEF Carries
<1>7. (o + cut) + (Len(z) + 1 - 1) <= H.top
  <2>1. PICK e : e = Len(z)
    OBVIOUS
  <2> QED BY <1>2, <1>5, <1>6, <2>1
<1>8. ASSUME NEW j \in 1 .. Len(z)
      PROVE  z[j] = H.cmd[(o + cut) + (j + 1 - 1)]
  <2>1. j \in 1 .. l - a + 1 /\ a + j - 1 = cut + j /\ cut + j \in 1 .. l
    BY <1>1, <1>2, <1>5
  <2>2. z[j] = q[cut + j]
    BY <1>4, <2>1
  <2>3. q[cut + j] = H.cmd[o + ((cut + j) + 1 - 1)]
    BY <1>6, <2>1
  <2>4. o + ((cut + j) + 1 - 1) = (o + cut) + (j + 1 - 1)
    BY <1>2
  <2> QED BY <2>2, <2>3, <2>4
<1>9. Carries(H, o + cut, z, 1)
  BY <1>7, <1>8 DEF Carries
<1> QED BY <1>1, <1>4, <1>5, <1>9

\* The trimmed backlog holds the end of the stream.
LEMMA TrimmedCarries ==
    ASSUME NEW b \in Backlog, NEW cmds \in Seq(Cmd), NEW keep \in Kept(Len(b.buf) + Len(cmds)),
           NEW off \in Nat, off = b.first + Len(b.buf) - 1, NEW H, HistOK(H),
           Carries(H, b.first - 1, b.buf, 1), Carries(H, off, cmds, 1)
    PROVE  LET t == Trimmed(b, cmds, keep)
           IN Carries(H, t.first - 1, t.buf, 1)
<1>1. PICK r, f, q, l : r = b.buf /\ f = b.first /\ q = r \o cmds /\ l = Len(q)
  OBVIOUS
<1>2. r \in Seq(Cmd) /\ f \in Nat /\ off = f + Len(r) - 1
  BY <1>1 DEF Backlog
<1>3. /\ q \in Seq(Cmd) /\ l = Len(r) + Len(cmds) /\ Len(r) \in Nat /\ Len(cmds) \in Nat
      /\ l \in Nat
  BY <1>1, <1>2
<1>4. Carries(H, f - 1, q, 1)
  <2>1. f - 1 \in Int /\ (f - 1) + (Len(r) + 1 - 1) = off /\ 1 <= Len(r) + 1
    BY <1>2, <1>3
  <2>2. Carries(H, f - 1, r, 1)
    BY <1>1
  <2>3. Carries(H, f - 1, r \o cmds, 1)
    BY <1>2, <2>1, <2>2, CarriesJoined
  <2> QED BY <1>1, <2>3
<1>5. keep \in 0 .. l
  BY <1>1, <1>3, ReplAssumption DEF Kept
<1>6. PICK cut, z : cut = l - keep /\ z = SubSeq(q, cut + 1, l)
  OBVIOUS
<1>7. cut \in Nat /\ cut <= Len(q) /\ f - 1 \in Int
  BY <1>1, <1>2, <1>3, <1>5, <1>6
<1>8. Carries(H, (f - 1) + cut, z, 1)
  <2>1. PICK o : o = f - 1
    OBVIOUS
  <2>2. o \in Int /\ Carries(H, o, q, 1)
    BY <1>4, <1>7, <2>1
  <2>3. Carries(H, o + cut, SubSeq(q, cut + 1, Len(q)), 1)
    BY <1>3, <1>7, <2>2, CarriesTail
  <2> QED BY <1>1, <1>6, <2>1, <2>3
<1>9. PICK g : g = f + cut
  OBVIOUS
<1>10. Trimmed(b, cmds, keep) = [present |-> TRUE, first |-> g, buf |-> z]
  BY <1>1, <1>6, <1>9 DEF Trimmed
<1>11. (f - 1) + cut = g - 1
  BY <1>2, <1>7, <1>9
<1>14. Carries(H, g - 1, z, 1)
  BY <1>8, <1>11
<1> QED BY <1>10, <1>14

\* The histories after such a step, with x standing for K.
Extends(h, g, i, p, t, x, K) == Moves(h, g, i, p, t) /\ g[x] = K

\* A master adds commands to its history.
LEMMA Feeds ==
    ASSUME NEW h, Recorded(h), NEW i \in Nat, NEW n \in Server, NEW s, NodeBase(n, s, i),
           Agrees(h, n, s), Rules(h, n, s), s.masterhost = NoServer, s.backlog # Nothing,
           NEW cmds \in Seq(Cmd), NEW keep \in Kept(Len(s.backlog.buf) + Len(cmds)),
           NEW K, HistOK(K), Later(h[s.replid], K), K.top = s.off + Len(cmds),
           Carries(K, s.off, cmds, 1), NEW x, x = K.data[K.top], NEW d, d = K.db[K.top]
    PROVE  \E g : Extends(h, g, i, n, Fed(s, x, cmds, keep, d), s.replid, K)
<1>1. PICK t, b, off : /\ t = Fed(s, x, cmds, keep, d) /\ b = Trimmed(s.backlog, cmds, keep)
                       /\ off = s.off + Len(cmds)
  OBVIOUS
<1>2. /\ s \in State(i) /\ s.off \in Nat /\ s.backlog \in Backlog /\ s.replid \in Nat /\ s.replid \in 1 .. i
      /\ s.off = s.backlog.first + Len(s.backlog.buf) - 1
      /\ s.master = Nothing /\ s.cached = Nothing
      /\ s.child # Nothing => s.child \in File(i)
  BY PresentFields DEF NodeBase, State, Maybe
<1>3. t = [s EXCEPT !.data = x, !.off = off, !.backlog = b, !.seldb = d]
  BY <1>1 DEF Fed
<1>4. /\ t.replid = s.replid /\ t.replid2 = s.replid2 /\ t.second = s.second /\ t.off = off
      /\ t.data = x /\ t.backlog = b /\ t.seldb = d /\ t.child = s.child
      /\ t.masterhost = NoServer /\ t.master = Nothing /\ t.cached = Nothing
  BY <1>2, <1>3 DEF State
<1>5. b \in Backlog /\ b # Nothing
  <2>1. b \in Backlog
    BY <1>1, <1>2, TrimmedOK, Zenon
  <2> QED BY <2>1, Present
<1>6. PICK g : Changed(h, g, i, n, s.replid, K)
  <2>1. h[s.replid].owner = n
    BY DEF Rules
  <2> QED BY <1>2, <2>1, Change
<1>7. Recorded(g) /\ Evolves(h, g, i, n) /\ g[s.replid] = K
  BY <1>6 DEF Changed
<1>8. Agrees(g, n, s)
  BY <1>7, AgreesStays
<1>9. K.scope = "shared" /\ MayKnow(g, n, s.replid) /\ K.owner = n
  BY <1>2, <1>7, <1>8, Drawn DEF Agrees, Rules
<1>10. Carries(K, b.first - 1, b.buf, 1)
  <2>1. Carries(K, s.backlog.first - 1, s.backlog.buf, 1)
    BY <1>7, <1>8 DEF Agrees
  <2> QED BY <1>1, <1>2, <2>1, TrimmedCarries
<1>11. Reaches(K, off, x)
  <2>1. off \in Int /\ off <= off
    BY <1>1, <1>2
  <2> QED BY <1>1, <2>1 DEF Reaches
<1>12. Agrees(g, n, t)
  BY <1>4, <1>5, <1>7, <1>8, <1>9, <1>10, <1>11 DEF Agrees
<1>13. Rules(g, n, t)
  <2>1. K.top = t.off /\ K.db[t.off] = t.seldb
    BY <1>1, <1>4
  <2> QED BY <1>4, <1>5, <1>7, <1>9, <2>1 DEF Rules
<1> QED BY <1>1, <1>7, <1>12, <1>13 DEF Moves, Extends

\* A replica executes the command that comes next.
LEMMA Executes ==
    ASSUME NEW h, Recorded(h), NEW i \in Nat, NEW n \in Server, NEW s, NodeBase(n, s, i),
           Agrees(h, n, s), s.rstate = "connected", NEW cmd \in Cmd,
           NEW keep \in Kept(Len(s.backlog.buf) + 1), s.off + 1 <= h[s.replid].top,
           cmd = h[s.replid].cmd[s.off + 1]
    PROVE  Moves(h, h, i, n, FeedBuffer(Execute(s, cmd), <<cmd>>, keep))
<1>1. PICK t, b, off, H, d : /\ t = FeedBuffer(Execute(s, cmd), <<cmd>>, keep) /\ H = h[s.replid]
                             /\ b = Trimmed(s.backlog, <<cmd>>, keep) /\ off = s.off + 1
                             /\ d = IF cmd.op = "select" THEN cmd.arg ELSE s.master.db
  OBVIOUS
<1>2. /\ s \in State(i) /\ s.off \in Nat /\ s.backlog \in Backlog /\ s.backlog # Nothing
      /\ s.off = s.backlog.first + Len(s.backlog.buf) - 1 /\ s.replid \in Nat
      /\ s.cached = Nothing /\ s.master # Nothing /\ s.masterhost # NoServer
      /\ s.master \in ClientState
  <2>1. s \in State(i)
    BY DEF NodeBase
  <2> QED BY <2>1, PresentFields DEF NodeBase, State
<1>3. <<cmd>> \in Seq(Cmd) /\ Len(<<cmd>>) = 1
  OBVIOUS
<1>4. PICK x, k : /\ x = IF cmd.op = "write" THEN Append(s.data, <<cmd.arg, s.master.db>>) ELSE s.data
                  /\ k = [s.master EXCEPT !.db = d, !.off = s.master.off + 1]
  OBVIOUS
<1>5. t = [s EXCEPT !.data = x, !.master = k, !.off = off, !.backlog = b]
  BY <1>1, <1>2, <1>3, <1>4, FeedBufferFields DEF Execute, State
<1>6. /\ t.replid = s.replid /\ t.replid2 = s.replid2 /\ t.second = s.second /\ t.off = off
      /\ t.data = x /\ t.backlog = b /\ t.child = s.child
      /\ t.masterhost = s.masterhost /\ t.master = k /\ t.cached = Nothing
  BY <1>2, <1>5 DEF State
<1>7. k.db = d
  <2>1. PICK m : m = s.master
    OBVIOUS
  <2>2. m \in ClientState /\ k = [m EXCEPT !.db = d, !.off = m.off + 1]
    BY <1>2, <1>4, <2>1
  <2> QED BY <2>2 DEF ClientState
<1>8. HistOK(H) /\ Leads(H, s.off) /\ s.off <= H.top /\ H.top \in Int
  <2>1. HistOK(H) /\ H.top \in Int
    BY <1>1, <1>2 DEF Recorded, HistOK, History
  <2>2. s.off < H.top
    <3>1. PICK e, y : e = s.off /\ y = H.top
      OBVIOUS
    <3>2. e \in Nat /\ y \in Int /\ e + 1 <= y
      BY <1>1, <1>2, <2>1, <3>1
    <3> QED BY <3>1, <3>2
  <2> QED BY <1>2, <2>1, <2>2 DEF HistOK
<1>9. /\ Reaches(H, s.off, s.data) /\ Fits(H, s.off, s.master.db) /\ H.scope = "shared"
      /\ Carries(H, s.backlog.first - 1, s.backlog.buf, 1)
  BY <1>1, <1>2 DEF Agrees
<1>10. Reaches(H, off, x) /\ Fits(H, off, d)
  <2>1. H.cmd[s.off + 1] = cmd
    BY <1>1
  <2> QED BY <1>1, <1>4, <1>8, <1>9, <2>1 DEF Reaches, Fits, Leads
<1>11. Carries(H, b.first - 1, b.buf, 1)
  <2>1. Carries(H, s.off, <<cmd>>, 1)
    <3>1. s.off + (Len(<<cmd>>) + 1 - 1) <= H.top
      <4>1. PICK e, y, z : e = s.off /\ y = H.top /\ z = Len(<<cmd>>)
        OBVIOUS
      <4>2. e \in Nat /\ y \in Int /\ e + 1 <= y /\ z = 1
        BY <1>1, <1>2, <1>3, <1>8, <4>1
      <4>3. e + (z + 1 - 1) <= y
        BY <4>2
      <4> QED BY <4>1, <4>3
    <3>2. \A j \in 1 .. Len(<<cmd>>) : j = 1 /\ <<cmd>>[j] = cmd
      BY <1>3
    <3>3. s.off + (1 + 1 - 1) = s.off + 1
      BY <1>2
    <3>4. \A j \in 1 .. Len(<<cmd>>) : <<cmd>>[j] = H.cmd[s.off + (j + 1 - 1)]
      BY <1>1, <3>2, <3>3
    <3> QED BY <3>1, <3>4 DEF Carries
  <2>2. keep \in Kept(Len(s.backlog.buf) + Len(<<cmd>>))
    BY <1>3
  <2> QED BY <1>1, <1>2, <1>3, <1>8, <1>9, <2>1, <2>2, TrimmedCarries
<1>12. b # Nothing
  <2>1. keep \in Kept(Len(s.backlog.buf) + Len(<<cmd>>))
    BY <1>3
  <2>2. b \in Backlog
    BY <1>1, <1>2, <1>3, <2>1, TrimmedOK, Zenon
  <2> QED BY <2>2, Present
<1>13. Agrees(h, n, t)
  BY <1>1, <1>2, <1>6, <1>7, <1>9, <1>10, <1>11, <1>12 DEF Agrees, MayKnow
<1>14. Rules(h, n, t)
  BY <1>2, <1>6 DEF Rules
<1>15. Evolves(h, h, i, n)
  BY NoChange
<1> QED BY <1>1, <1>13, <1>14, <1>15 DEF Moves

-----------------------------------------------------------------------------
(* What the operations do to the histories                                 *)

\* A stream that both histories share.
LEMMA CarriesAlong ==
    ASSUME NEW h, NEW x, NEW y, NEW o \in Int, Continues(h, x, y, o), NEW a \in Int, a >= -1,
           NEW q, Len(q) \in Nat, a + Len(q) <= o, Carries(h[x], a, q, 1), h[y].top \in Int
    PROVE  Carries(h[y], a, q, 1)
<1>1. CASE x = y
  BY <1>1
<1>2. CASE x # y
  <2>1. PICK l : l = Len(q)
    OBVIOUS
  <2>2. /\ o <= h[y].top /\ \A p \in Nat : p <= o => h[y].cmd[p] = h[x].cmd[p]
    BY <1>2 DEF Continues
  <2>3. a + (l + 1 - 1) <= h[y].top
    BY <2>1, <2>2
  <2>4. ASSUME NEW j \in 1 .. l
        PROVE  q[j] = h[y].cmd[a + (j + 1 - 1)]
    <3>1. a + (j + 1 - 1) \in Nat /\ a + (j + 1 - 1) <= o
      BY <2>1
    <3>2. q[j] = h[x].cmd[a + (j + 1 - 1)]
      BY <2>1 DEF Carries
    <3> QED BY <2>2, <3>1, <3>2
  <2> QED BY <2>1, <2>3, <2>4 DEF Carries
<1> QED BY <1>1, <1>2

\* A backlog without commands.
LEMMA CarriesNothing ==
    ASSUME NEW H, HistOK(H), NEW o \in Nat, o <= H.top
    PROVE  LET b == NewBacklog(o) IN Carries(H, b.first - 1, b.buf, 1)
<1>1. PICK b, f, q : b = NewBacklog(o) /\ f = o + 1 /\ q = <<>>
  OBVIOUS
<1>2. b.first = f /\ b.buf = q /\ Len(q) = 0 /\ f - 1 = o /\ H.top \in Int
  BY <1>1 DEF NewBacklog, HistOK, History
<1>3. Carries(H, o, q, 1)
  BY <1>2 DEF Carries
<1> QED BY <1>1, <1>2, <1>3

\* +CONTINUE: the replica goes on with the history of its master.
LEMMA Resumes ==
    ASSUME NEW h, Recorded(h), NEW i \in Nat, NEW n \in Server, NEW s, NodeOK(n, s, i),
           Agrees(h, n, s), s.rstate = "receive_psync", s.cached # Nothing, NEW id \in 1 .. i,
           h[s.replid].scope = "shared", h[id].scope = "shared", Continues(h, s.replid, id, s.off)
    PROVE  Moves(h, h, i, n, Resume(s, id))
<1>1. PICK t, e, k, b, sec :
          /\ t = Resume(s, id) /\ e = Nothing /\ k = [s.cached EXCEPT !.id = id]
          /\ b = IF s.backlog.present THEN s.backlog ELSE NewBacklog(s.off)
          /\ sec = s.off + 1
  OBVIOUS
<1>2. /\ s \in State(i) /\ s.cached \in ClientState /\ s.masterhost # NoServer
      /\ s.cached.id = s.replid /\ s.off \in Nat /\ s.replid \in 1 .. i
  <2>1. s \in State(i)
    BY DEF NodeBase, NodeOK
  <2>2. s.off \in Nat /\ s.replid \in 1 .. i
    BY <2>1 DEF State
  <2> QED BY <2>1, <2>2, PresentFields DEF NodeBase, NodeOK
<1>3. k.db = s.cached.db /\ k # Nothing
  <2>1. id \in Nat
    OBVIOUS
  <2>2. k \in ClientState /\ k.db = s.cached.db
    BY <1>1, <1>2, <2>1 DEF ClientState
  <2> QED BY <2>2, Present
<1>4. /\ b = IF s.backlog # Nothing THEN s.backlog ELSE NewBacklog(s.off)
      /\ b # Nothing
  BY <1>1, <1>2, PresentFields, NewBacklogOK
<1>5. /\ t.replid = id /\ t.off = s.off /\ t.data = s.data /\ t.backlog = b /\ t.child = s.child
      /\ t.masterhost = s.masterhost /\ t.master = k /\ t.cached = Nothing
      /\ IF id # s.replid THEN t.replid2 = s.replid /\ t.second = sec
         ELSE t.replid2 = s.replid2 /\ t.second = s.second
  <2>1. CASE id # s.cached.id
    <3>1. t = [s EXCEPT !.replid2 = s.replid, !.second = sec, !.replid = id, !.master = k,
                        !.cached = e, !.rstate = "connected", !.failover = "none",
                        !.target = NoServer, !.backlog = b]
      BY <1>1, <1>2, <2>1 DEF Resume, State
    <3> QED BY <1>1, <1>2, <2>1, <3>1 DEF State
  <2>2. CASE id = s.cached.id
    <3>1. t = [s EXCEPT !.master = k, !.cached = e, !.rstate = "connected", !.failover = "none",
                        !.target = NoServer, !.backlog = b]
      BY <1>1, <1>2, <2>2 DEF Resume, State
    <3> QED BY <1>1, <1>2, <2>2, <3>1 DEF State
  <2> QED BY <2>1, <2>2
<1>6. PICK H, K, o : H = h[s.replid] /\ K = h[id] /\ o = s.off
  OBVIOUS
<1>7. HistOK(H) /\ HistOK(K) /\ o \in Nat /\ H.top \in Int /\ K.top \in Int
  <2>1. s.replid \in Nat /\ id \in Nat
    BY <1>2
  <2> QED BY <1>2, <1>6, <2>1 DEF Recorded, HistOK, History
<1>8. Reaches(H, o, s.data) /\ Fits(H, o, s.cached.db)
  BY <1>6 DEF Agrees
<1>9. Reaches(K, o, s.data) /\ Fits(K, o, s.cached.db)
  BY <1>6, <1>7, <1>8 DEF Continues, Reaches, Fits
<1>10. Carries(K, b.first - 1, b.buf, 1)
  <2>1. CASE s.backlog = Nothing
    <3>1. o <= K.top
      BY <1>9 DEF Reaches
    <3> QED BY <1>4, <1>6, <1>7, <2>1, <3>1, CarriesNothing
  <2>2. CASE s.backlog # Nothing
    <3>1. PICK a, q : a = s.backlog.first - 1 /\ q = s.backlog.buf
      OBVIOUS
    <3>2. a \in Int /\ a >= -1 /\ Len(q) \in Nat /\ a + Len(q) <= o
      <4>1. s.backlog \in Backlog /\ s.off = s.backlog.first + Len(s.backlog.buf) - 1
        BY <1>2, <2>2, PresentFields DEF NodeOK, NodeBase
      <4>2. PICK f, l : f = s.backlog.first /\ l = Len(q)
        OBVIOUS
      <4>3. f \in Nat /\ l \in Nat /\ o = f + l - 1 /\ a = f - 1
        <5>1. s.backlog.first \in Nat /\ q \in Seq(Cmd)
          BY <3>1, <4>1 DEF Backlog
        <5>2. l \in Nat
          BY <4>2, <5>1
        <5> QED BY <1>6, <3>1, <4>1, <4>2, <5>1, <5>2
      <4> QED BY <4>2, <4>3
    <3>3. Carries(H, a, q, 1)
      BY <1>6, <2>2, <3>1 DEF Agrees
    <3>4. Carries(K, a, q, 1)
      BY <1>6, <1>7, <3>2, <3>3, CarriesAlong
    <3> QED BY <1>4, <2>2, <3>1, <3>4
  <2> QED BY <2>1, <2>2
<1>11. t.replid2 # NoId => MayKnow(h, n, t.replid2) /\ Continues(h, t.replid2, id, t.second - 1)
  <2>1. CASE id # s.replid
    <3>1. sec - 1 = s.off
      BY <1>1, <1>2
    <3> QED BY <1>5, <2>1, <3>1 DEF MayKnow
  <2>2. CASE id = s.replid
    <3>1. t.replid2 # NoId => s.backlog # Nothing
      BY <1>5, <2>2 DEF Agrees
    <3> QED BY <1>5, <2>2, <3>1 DEF Agrees
  <2> QED BY <2>1, <2>2
<1>12. Agrees(h, n, t)
  BY <1>3, <1>4, <1>5, <1>6, <1>9, <1>10, <1>11 DEF Agrees, MayKnow
<1>13. Rules(h, n, t)
  BY <1>2, <1>5 DEF Rules
<1>14. Evolves(h, h, i, n)
  BY NoChange
<1> QED BY <1>1, <1>12, <1>13, <1>14 DEF Moves

\* +FULLRESYNC changes nothing yet.
LEMMA TransfersTale ==
    ASSUME NEW h, Recorded(h), NEW i \in Nat, NEW n \in Server, NEW s, NodeOK(n, s, i),
           Agrees(h, n, s), Rules(h, n, s), NEW msg
    PROVE  Moves(h, h, i, n, Transferring(s, msg))
<1>1. PICK t : t = Transferring(s, msg)
  OBVIOUS
<1>2. SameTale(s, t)
  BY <1>1 DEF SameTale, Transferring, NodeOK, NodeBase, State
<1>3. Agrees(h, n, t) /\ Rules(h, n, t)
  BY <1>2, TaleStays
<1> QED BY <1>1, <1>3, NoChange DEF Moves

\* The RDB file was loaded: the replica has the history it announced.
LEMMA Loads ==
    ASSUME NEW h, Recorded(h), NEW i \in Nat, NEW n \in Server, NEW s, NodeOK(n, s, i),
           s.rstate = "transfer", s.sync # Nothing, NEW file \in File(i),
           SentTells(h, file), file.id = s.sync.id, file.off = s.sync.off
    PROVE  Moves(h, h, i, n, Loaded(s, file))
<1>1. PICK t, e, k, b, id, off, sec :
          /\ t = Loaded(s, file) /\ e = Nothing /\ k = Client(s.sync.id, s.sync.off, file.db)
          /\ id = s.sync.id /\ off = s.sync.off /\ b = NewBacklog(s.sync.off) /\ sec = -1
  OBVIOUS
<1>2. /\ s \in State(i) /\ s.masterhost # NoServer
  BY DEF NodeBase, NodeOK
<1>3. id \in 1 .. i /\ off \in Nat /\ id \in Nat
  BY <1>1 DEF File
<1>4. k.db = file.db
  BY <1>1 DEF Client
<1>5. b # Nothing
  BY <1>1, <1>3, NewBacklogOK
<1>6. t = [s EXCEPT !.data = file.data, !.cached = e, !.child = e, !.master = k,
                    !.rstate = "connected", !.replid = id, !.off = off, !.replid2 = NoId,
                    !.second = sec, !.sync = e, !.backlog = b]
  BY <1>1 DEF Loaded
<1>7. /\ t.off = off /\ t.backlog = b /\ t.replid = id /\ t.replid2 = NoId /\ t.data = file.data
      /\ t.masterhost = s.masterhost /\ t.master = k /\ t.cached = Nothing /\ t.child = Nothing
  BY <1>1, <1>2, <1>6 DEF State
<1>8. PICK H : H = h[id]
  OBVIOUS
<1>9. HistOK(H) /\ Reaches(H, off, file.data) /\ Fits(H, off, file.db) /\ H.scope = "shared"
  BY <1>1, <1>3, <1>8 DEF Recorded, SentTells, Tells
<1>10. Carries(H, b.first - 1, b.buf, 1)
  BY <1>1, <1>3, <1>9, CarriesNothing DEF Reaches
<1>11. Agrees(h, n, t)
  BY <1>4, <1>5, <1>7, <1>8, <1>9, <1>10 DEF Agrees, MayKnow
<1>12. Rules(h, n, t)
  BY <1>2, <1>7 DEF Rules
<1> QED BY <1>1, <1>11, <1>12, NoChange DEF Moves

\* It could not be loaded: the replica vouches for nothing.
LEMMA DoesNotLoad ==
    ASSUME NEW h, Recorded(h), NEW i \in Nat, NEW n \in Server, NEW s, NodeOK(n, s, i),
           s.rstate = "transfer"
    PROVE  Moves(h, h, i, n, NotLoaded(s))
<1>1. PICK t, e, x : t = NotLoaded(s) /\ e = Nothing /\ x = <<>>
  OBVIOUS
<1>2. /\ s \in State(i) /\ s.masterhost # NoServer /\ s.master = Nothing
  BY DEF NodeBase, NodeOK
<1>3. t = [s EXCEPT !.data = x, !.cached = e, !.child = e, !.backlog = e, !.sync = e,
                    !.rstate = "connect"]
  BY <1>1 DEF NotLoaded
<1>4. /\ t.backlog = Nothing /\ t.masterhost # NoServer /\ t.master = Nothing
      /\ t.cached = Nothing /\ t.child = Nothing
  BY <1>1, <1>2, <1>3 DEF State
<1>5. Agrees(h, n, t) /\ Rules(h, n, t)
  BY <1>4 DEF Agrees, Rules
<1> QED BY <1>1, <1>5, NoChange DEF Moves

\* What happened to the histories in two steps of p.
LEMMA EvolvesTwice ==
    ASSUME NEW h, NEW g, NEW k, Recorded(h), Recorded(g), Recorded(k), NEW i \in Nat, NEW j \in Nat,
           i <= j, NEW p, Evolves(h, g, i, p), Evolves(g, k, j, p)
    PROVE  Evolves(h, k, i, p)
<1>1. SUFFICES ASSUME NEW x \in 1 .. i
               PROVE  Later(h[x], k[x]) /\ (h[x].owner # p => k[x] = h[x])
  BY DEF Evolves
<1>2. x \in 1 .. j /\ x \in Nat
  OBVIOUS
<1>3. /\ Later(h[x], g[x]) /\ (h[x].owner # p => g[x] = h[x])
      /\ Later(g[x], k[x]) /\ (g[x].owner # p => k[x] = g[x])
  BY <1>1, <1>2 DEF Evolves
<1>4. HistOK(h[x]) /\ HistOK(g[x]) /\ HistOK(k[x])
  BY <1>2 DEF Recorded
<1>5. Later(h[x], k[x])
  BY <1>3, <1>4, LaterTwice
<1> QED BY <1>3, <1>5

\* A master starts a new history.
LEMMA Starts ==
    ASSUME NEW h, Recorded(h), NEW i \in Nat, NEW n \in Server, NEW s, NodeBase(n, s, i),
           Agrees(h, n, s), s.masterhost = NoServer, NEW id \in Nat, id > i,
           NEW b \in {Nothing, NewBacklog(s.off)}
    PROVE  \E g : Moves(h, g, i, n, NewStart(s, id, b))
<1>1. PICK t, e : t = NewStart(s, id, b) /\ e = -1
  OBVIOUS
<1>2. /\ s \in State(i) /\ s.off \in Nat /\ s.data \in Data /\ s.seldb \in Dbs \cup {NoDb}
      /\ s.master = Nothing /\ s.cached = Nothing
      /\ s.child # Nothing => s.child \in File(i)
  BY DEF NodeBase, State, Maybe
<1>3. t = [s EXCEPT !.replid = id, !.replid2 = NoId, !.second = e, !.backlog = b]
  BY <1>1, <1>2 DEF NewStart, NewHistory, State
<1>4. /\ t.replid = id /\ t.replid2 = NoId /\ t.off = s.off /\ t.data = s.data /\ t.backlog = b
      /\ t.seldb = s.seldb /\ t.child = s.child /\ t.masterhost = NoServer
      /\ t.master = Nothing /\ t.cached = Nothing
  BY <1>2, <1>3 DEF State
<1>5. ASSUME NEW K, HistOK(K)
      PROVE  \E g : /\ Recorded(g) /\ Evolves(h, g, i, n) /\ g[id] = K
                    /\ t.child # Nothing => SentTells(g, t.child)
  <2>1. PICK g : Changed(h, g, i, n, id, K)
    BY <1>5, Change
  <2>2. Recorded(g) /\ Evolves(h, g, i, n) /\ g[id] = K
    BY <2>1 DEF Changed
  <2>3. t.child # Nothing => SentTells(g, t.child)
    BY <1>2, <1>4, <2>2, FileStays DEF Agrees
  <2> QED BY <2>2, <2>3
<1>6. NoDb \in Int /\ s.seldb \in Int
  <2>1. Dbs \subseteq Nat /\ NoDb \in Int
    BY ReplAssumption DEF NoDb
  <2>2. PICK z : z = s.seldb
    OBVIOUS
  <2>3. z \in Int
    <3>1. z \in Dbs \/ z = NoDb
      BY <1>2, <2>2
    <3>2. z \in Nat \/ z = NoDb
      BY <2>1, <3>1
    <3> QED BY <2>1, <3>2
  <2> QED BY <2>1, <2>2, <2>3
<1>7. CASE b = Nothing
  <2>1. PICK K, x : x = <<>> /\ K = Started(x, e, NoDb, n, "own")
    OBVIOUS
  <2>2. x \in Data /\ e \in Int /\ e >= -1 /\ "own" \in {"own", "shared"}
    BY <1>1, <2>1 DEF Data
  <2>6. n \in Server \cup {NoServer} /\ K = Started(x, e, NoDb, n, "own") /\ NoDb \in Int
    BY <1>6, <2>1
  <2>3. HistOK(K) /\ K.top = e /\ K.owner = n /\ K.scope = "own"
    BY <2>2, <2>6, StartedOK
  <2>4. PICK g : /\ Recorded(g) /\ Evolves(h, g, i, n) /\ g[id] = K
                 /\ t.child # Nothing => SentTells(g, t.child)
    BY <1>5, <2>3
  <2>5. Agrees(g, n, t) /\ Rules(g, n, t)
    BY <1>1, <1>4, <1>7, <2>3, <2>4 DEF Agrees, Rules
  <2> QED BY <1>1, <2>4, <2>5 DEF Moves
<1>8. CASE b = NewBacklog(s.off)
  <2>1. PICK K, o : o = s.off /\ K = Started(s.data, o, s.seldb, n, "shared")
    OBVIOUS
  <2>2. o \in Int /\ o >= -1 /\ o \in Nat /\ "shared" \in {"own", "shared"}
    BY <1>2, <2>1
  <2>3. /\ HistOK(K) /\ K.top = o /\ K.owner = n /\ K.scope = "shared"
        /\ K.db[o] = s.seldb /\ K.data[o] = s.data
    BY <1>2, <1>6, <2>1, <2>2, StartedOK
  <2>4. PICK g : /\ Recorded(g) /\ Evolves(h, g, i, n) /\ g[id] = K
                 /\ t.child # Nothing => SentTells(g, t.child)
    BY <1>5, <2>3
  <2>5. b # Nothing
    BY <1>2, <1>8, NewBacklogOK
  <2>6. o <= K.top
    BY <2>2, <2>3
  <2>7. Carries(K, b.first - 1, b.buf, 1)
    BY <1>8, <2>1, <2>2, <2>3, <2>6, CarriesNothing
  <2>8. Reaches(K, o, s.data)
    BY <2>3, <2>6 DEF Reaches
  <2>9. Agrees(g, n, t)
    BY <1>4, <2>1, <2>3, <2>4, <2>5, <2>7, <2>8 DEF Agrees, MayKnow
  <2>10. Rules(g, n, t)
    BY <1>4, <2>1, <2>3, <2>4, <2>5 DEF Rules
  <2> QED BY <1>1, <2>4, <2>9, <2>10 DEF Moves
<1> QED BY <1>7, <1>8

\* The next write of an instance will be preceded by a SELECT.
LEMMA Loosens ==
    ASSUME NEW h, Recorded(h), NEW i \in Nat, NEW n \in Server, NEW s, NodeBase(n, s, i),
           Agrees(h, n, s), Rules(h, n, s), s.backlog # Nothing
    PROVE  \E g : Moves(h, g, i, n, [s EXCEPT !.seldb = NoDb])
<1>1. PICK t : t = [s EXCEPT !.seldb = NoDb]
  OBVIOUS
<1>2. s \in State(i) /\ s.off \in Nat /\ s.replid \in 1 .. i /\ s.replid \in Nat
  BY DEF NodeBase, State
<1>3. /\ t.replid = s.replid /\ t.replid2 = s.replid2 /\ t.second = s.second /\ t.off = s.off
      /\ t.data = s.data /\ t.backlog = s.backlog /\ t.seldb = NoDb /\ t.child = s.child
      /\ t.masterhost = s.masterhost /\ t.master = s.master /\ t.cached = s.cached
  BY <1>1, <1>2 DEF State
<1>4. \A g : Agrees(g, n, s) => Agrees(g, n, t)
  BY <1>3 DEF Agrees
<1>5. CASE s.masterhost # NoServer
  <2>1. Agrees(h, n, t) /\ Rules(h, n, t)
    BY <1>3, <1>4, <1>5 DEF Rules
  <2> QED BY <1>1, <2>1, NoChange DEF Moves
<1>6. CASE s.masterhost = NoServer
  <2>1. PICK H, K : H = h[s.replid] /\ K = Loosened(H)
    OBVIOUS
  <2>2. HistOK(H) /\ H.owner = n /\ H.top = s.off /\ H.top >= 0
    BY <1>2, <1>6, <2>1 DEF Recorded, Rules
  <2>3. HistOK(K) /\ Later(H, K) /\ K.top = H.top /\ K.db[K.top] = NoDb
    BY <2>1, <2>2, LoosenedOK
  <2>4. PICK g : Changed(h, g, i, n, s.replid, K)
    BY <1>2, <2>1, <2>2, <2>3, Change
  <2>5. Recorded(g) /\ Evolves(h, g, i, n) /\ g[s.replid] = K
    BY <2>4 DEF Changed
  <2>6. Agrees(g, n, t)
    BY <1>4, <2>5, AgreesStays
  <2>7. K.owner = n
    BY <2>2, <2>3 DEF Later
  <2>8. Rules(g, n, t)
    BY <1>3, <2>2, <2>3, <2>5, <2>7 DEF Rules
  <2> QED BY <1>1, <2>5, <2>6, <2>8 DEF Moves
<1> QED BY <1>5, <1>6

\* The RDB file an instance writes tells what the instance vouches for.
LEMMA SnapshotTells ==
    ASSUME NEW h, Recorded(h), NEW i \in Nat, NEW n \in Server, NEW s, NodeBase(n, s, i),
           Agrees(h, n, s), Rules(h, n, s)
    PROVE  LET f == SnapshotOf(s)
           IN /\ FileTells(h, n, f)
              /\ s.backlog # Nothing /\ StreamDb(s) # NoDb => SentTells(h, f)
<1>1. PICK f, d : f = SnapshotOf(s) /\ d = StreamDb(s)
  OBVIOUS
<1>2. f.data = s.data /\ f.id = s.replid /\ f.off = s.off /\ f.db = d
  BY <1>1 DEF SnapshotOf, Snapshot
<1>3. s \in State(i)
  BY DEF NodeBase
<1>4. d # NoDb => /\ s.backlog # Nothing \/ s.master # Nothing \/ s.cached # Nothing
                  /\ Fits(h[s.replid], s.off, d)
  <2>1. CASE s.masterhost = NoServer /\ s.backlog # Nothing
    <3>1. d = IF s.seldb = NoDb THEN 0 ELSE s.seldb
      BY <1>1, <1>3, <2>1, PresentFields DEF StreamDb
    <3>2. h[s.replid].db[s.off] = s.seldb
      BY <2>1 DEF Rules
    <3> QED BY <2>1, <3>1, <3>2 DEF Fits
  <2>2. CASE ~(s.masterhost = NoServer /\ s.backlog # Nothing)
    <3>1. d = IF s.master # Nothing THEN s.master.db ELSE IF s.cached # Nothing THEN s.cached.db ELSE NoDb
      BY <1>1, <1>3, <2>2, PresentFields DEF StreamDb
    <3> QED BY <3>1 DEF Agrees
  <2> QED BY <2>1, <2>2
<1>5. d # NoDb => Tells(h, f) /\ MayKnow(h, n, f.id)
  BY <1>2, <1>4 DEF Tells, Agrees
<1>6. s.backlog # Nothing => h[f.id].scope = "shared"
  BY <1>2 DEF Agrees
<1> QED BY <1>1, <1>2, <1>5, <1>6 DEF FileTells, SentTells

\* A child that saves, or none, changes nothing else.
LEMMA ChildTale ==
    ASSUME NEW h, NEW g, NEW i \in Nat, NEW n \in Server, NEW s, s \in State(i), Moves(h, g, i, n, s),
           NEW f, f # Nothing => SentTells(g, f)
    PROVE  Moves(h, g, i, n, [s EXCEPT !.child = f])
<1>1. PICK t : t = [s EXCEPT !.child = f]
  OBVIOUS
<1>2. /\ t.replid = s.replid /\ t.replid2 = s.replid2 /\ t.second = s.second /\ t.off = s.off
      /\ t.data = s.data /\ t.backlog = s.backlog /\ t.seldb = s.seldb /\ t.child = f
      /\ t.masterhost = s.masterhost /\ t.master = s.master /\ t.cached = s.cached
  BY <1>1 DEF State
<1>3. Agrees(g, n, t) /\ Rules(g, n, t)
  BY <1>2 DEF Agrees, Rules, Moves
<1> QED BY <1>1, <1>3 DEF Moves

\* A write without a backlog adds nothing to a history.
LEMMA WritesAlone ==
    ASSUME NEW h, Recorded(h), NEW i \in Nat, NEW n \in Server, NEW s, NodeBase(n, s, i),
           Agrees(h, n, s), Rules(h, n, s), s.masterhost = NoServer, s.backlog = Nothing, NEW x
    PROVE  Moves(h, h, i, n, [s EXCEPT !.data = x])
<1>1. PICK t : t = [s EXCEPT !.data = x]
  OBVIOUS
<1>2. s \in State(i) /\ s.master = Nothing /\ s.cached = Nothing
  BY DEF NodeBase
<1>3. /\ t.replid = s.replid /\ t.off = s.off /\ t.backlog = s.backlog /\ t.seldb = s.seldb
      /\ t.child = s.child /\ t.masterhost = s.masterhost /\ t.master = s.master /\ t.cached = s.cached
  BY <1>1, <1>2 DEF State
<1>4. Agrees(h, n, t) /\ Rules(h, n, t)
  BY <1>2, <1>3 DEF Agrees, Rules
<1> QED BY <1>1, <1>4, NoChange DEF Moves

\* The command that leads to the end of a history.
LEMMA CarriesGrown ==
    ASSUME NEW H, HistOK(H), H.top >= 0, NEW K, HistOK(K), K.top = H.top + 1,
           NEW c \in Cmd, K.cmd[K.top] = c
    PROVE  Carries(K, H.top, <<c>>, 1)
<1>1. PICK t, q : t = H.top /\ q = <<c>>
  OBVIOUS
<1>2. t \in Nat /\ K.top = t + 1 /\ Len(q) = 1 /\ q[1] = c
  BY <1>1 DEF HistOK, History
<1>3. t + (Len(q) + 1 - 1) <= K.top
  BY <1>2
<1>4. \A j \in 1 .. Len(q) : q[j] = K.cmd[t + (j + 1 - 1)]
  <2>1. \A j \in 1 .. Len(q) : j = 1 /\ t + (j + 1 - 1) = K.top
    BY <1>2
  <2> QED BY <1>2, <2>1
<1>5. Carries(K, t, q, 1)
  BY <1>3, <1>4 DEF Carries
<1> QED BY <1>1, <1>5

\* What a write feeds, with a SELECT when the stream has another database
\* selected, takes the history to the dataset with the write.
Fedback(H, K, cmds, data, w, d) ==
    /\ HistOK(K) /\ Later(H, K) /\ K.top = H.top + Len(cmds) /\ Carries(K, H.top, cmds, 1)
    /\ K.data[K.top] = Append(data, <<w, d>>) /\ K.db[K.top] = d

\* Such a history exists.
LEMMA FeedsWrite ==
    ASSUME NEW H, HistOK(H), H.top >= 0, NEW w \in Nat, NEW d \in Nat
    PROVE  LET cmds == (IF H.db[H.top] = d THEN <<>> ELSE <<Select(d)>>) \o <<Command(w)>>
           IN cmds \in Seq(Cmd) /\ \E K : Fedback(H, K, cmds, H.data[H.top], w, d)
<1>1. PICK c, e, t : c = Command(w) /\ e = Select(d) /\ t = H.top
  OBVIOUS
<1>2. /\ c \in Cmd /\ c.op = "write" /\ c.arg = w /\ e \in Cmd /\ e.op = "select" /\ e.arg = d
      /\ d # NoDb /\ t \in Nat
  <2>1. c \in Cmd /\ c.op = "write" /\ c.arg = w /\ e \in Cmd /\ e.op = "select" /\ e.arg = d
    BY <1>1 DEF Command, Select, Cmd
  <2>2. d # NoDb /\ t \in Nat
    BY <1>1 DEF NoDb, HistOK, History
  <2> QED BY <2>1, <2>2
<1>3. PICK q : q = (IF H.db[H.top] = d THEN <<>> ELSE <<Select(d)>>) \o <<Command(w)>>
  OBVIOUS
<1>4. /\ <<c>> \in Seq(Cmd) /\ Len(<<c>>) = 1 /\ <<e>> \in Seq(Cmd) /\ Len(<<e>>) = 1
      /\ <<>> \in Seq(Cmd)
  BY <1>2
<1>5. CASE H.db[H.top] = d
  <2>1. q = <<c>>
    <3>1. q = <<>> \o <<c>>
      BY <1>1, <1>3, <1>5
    <3> QED BY <1>4, <3>1
  <2>2. PICK K : K = Grown(H, c)
    OBVIOUS
  <2>3. /\ HistOK(K) /\ Later(H, K) /\ K.top = H.top + 1 /\ K.cmd[K.top] = c
        /\ K.data[K.top] = IF c.op = "write" THEN Append(H.data[H.top], <<c.arg, H.db[H.top]>>)
                           ELSE H.data[H.top]
        /\ K.db[K.top] = IF c.op = "select" THEN c.arg ELSE H.db[H.top]
    BY <1>2, <1>5, <2>2, GrownOK
  <2>4. K.data[K.top] = Append(H.data[H.top], <<w, d>>) /\ K.db[K.top] = d
    BY <1>2, <1>5, <2>3
  <2>5. Carries(K, H.top, <<c>>, 1)
    BY <1>2, <2>3, CarriesGrown
  <2>6. K.top = H.top + Len(q)
    BY <1>4, <2>1, <2>3
  <2>7. Fedback(H, K, q, H.data[H.top], w, d)
    BY <2>1, <2>3, <2>4, <2>5, <2>6 DEF Fedback
  <2> QED BY <1>3, <1>4, <2>1, <2>7
<1>6. CASE H.db[H.top] # d
  <2>1. q = <<e>> \o <<c>>
    BY <1>1, <1>3, <1>6
  <2>2. q \in Seq(Cmd) /\ Len(q) = 2
    BY <1>4, <2>1
  <2>3. PICK G, K : G = Grown(H, e) /\ K = Grown(G, c)
    OBVIOUS
  <2>4. /\ HistOK(G) /\ Later(H, G) /\ G.top = H.top + 1 /\ G.cmd[G.top] = e
        /\ G.data[G.top] = IF e.op = "write" THEN Append(H.data[H.top], <<e.arg, H.db[H.top]>>)
                           ELSE H.data[H.top]
        /\ G.db[G.top] = IF e.op = "select" THEN e.arg ELSE H.db[H.top]
    BY <1>2, <2>3, GrownOK
  <2>5. G.data[G.top] = H.data[H.top] /\ G.db[G.top] = d /\ G.top >= 0 /\ G.top = t + 1
    BY <1>1, <1>2, <2>4
  <2>6. /\ HistOK(K) /\ Later(G, K) /\ K.top = G.top + 1 /\ K.cmd[K.top] = c
        /\ K.data[K.top] = IF c.op = "write" THEN Append(G.data[G.top], <<c.arg, G.db[G.top]>>)
                           ELSE G.data[G.top]
        /\ K.db[K.top] = IF c.op = "select" THEN c.arg ELSE G.db[G.top]
    BY <1>2, <2>3, <2>4, <2>5, GrownOK
  <2>7. K.data[K.top] = Append(H.data[H.top], <<w, d>>) /\ K.db[K.top] = d /\ K.top = t + 2
    <3>1. K.data[K.top] = Append(H.data[H.top], <<w, d>>) /\ K.db[K.top] = d
      BY <1>2, <2>5, <2>6
    <3>2. K.top = (t + 1) + 1 /\ (t + 1) + 1 = t + 2
      BY <1>2, <2>5, <2>6
    <3> QED BY <3>1, <3>2
  <2>8. Later(H, K)
    BY <2>4, <2>6, LaterTwice
  <2>9. Carries(K, t, <<e>>, 1)
    <3>1. Carries(G, t, <<e>>, 1)
      BY <1>1, <1>2, <2>4, CarriesGrown
    <3>2. t \in Int /\ t >= -1 /\ Len(<<e>>) \in Nat /\ 1 \in Nat /\ 1 >= 1
      BY <1>2, <1>4
    <3>3. PICK z : z = <<e>>
      OBVIOUS
    <3> QED BY <2>4, <2>6, <3>1, <3>2, <3>3, StillCarries
  <2>10. Carries(K, t + 1, <<c>>, 1)
    BY <1>2, <2>4, <2>5, <2>6, CarriesGrown
  <2>11. Carries(K, t, <<e>> \o <<c>>, 1)
    <3>1. PICK x, y : x = <<e>> /\ y = <<c>>
      OBVIOUS
    <3>2. /\ x \in Seq(Cmd) /\ y \in Seq(Cmd) /\ t \in Int /\ 1 <= Len(x) + 1
          /\ t + (Len(x) + 1 - 1) = t + 1
      BY <1>2, <1>4, <3>1
    <3>3. Carries(K, t, x, 1) /\ Carries(K, t + (Len(x) + 1 - 1), y, 1)
      BY <2>9, <2>10, <3>1, <3>2
    <3>4. Carries(K, t, x \o y, 1)
      BY <2>6, <3>2, <3>3, CarriesJoined
    <3> QED BY <3>1, <3>4
  <2>12. Fedback(H, K, q, H.data[H.top], w, d)
    BY <1>1, <2>1, <2>2, <2>6, <2>7, <2>8, <2>11 DEF Fedback
  <2> QED BY <1>3, <2>2, <2>12
<1> QED BY <1>5, <1>6

\* A process that finds no file, or one without a stream, has a history of its own.
LEMMA BootsAlone ==
    ASSUME NEW h, Recorded(h), NEW i \in Nat, NEW n \in Server, NEW id \in Nat, id > i, NEW t,
           t.replid = id, t.backlog = Nothing, t.master = Nothing, t.cached = Nothing, t.child = Nothing
    PROVE  \E g : Moves(h, g, i, n, t)
<1>1. PICK K, x, e : x = <<>> /\ e = -1 /\ K = Started(x, e, NoDb, n, "own")
  OBVIOUS
<1>2. x \in Data /\ e \in Int /\ e >= -1 /\ "own" \in {"own", "shared"} /\ NoDb \in Int
  BY <1>1 DEF Data, NoDb
<1>3. n \in Server \cup {NoServer} /\ K = Started(x, e, NoDb, n, "own")
  BY <1>1
<1>4. HistOK(K) /\ K.top = e /\ K.owner = n /\ K.scope = "own"
  BY <1>2, <1>3, StartedOK
<1>5. PICK g : Changed(h, g, i, n, id, K)
  BY <1>4, Change
<1>6. Recorded(g) /\ Evolves(h, g, i, n) /\ g[id] = K
  BY <1>5 DEF Changed
<1>7. Agrees(g, n, t) /\ Rules(g, n, t)
  BY <1>1, <1>4, <1>6 DEF Agrees, Rules
<1> QED BY <1>6, <1>7 DEF Moves

\* A master that continues the history of the file under a new ID: K is that
\* history, with what the master has deleted.
LEMMA BootsMaster ==
    ASSUME NEW h, Recorded(h), NEW i \in Nat, NEW n \in Server, NEW id \in Nat, id > i,
           NEW x \in 1 .. i, NEW o \in Nat, o <= h[x].top, MayKnow(h, n, x),
           NEW K, HistOK(K), Later(Copied(h[x], o, n), K), NEW t,
           t.replid = id, t.replid2 = x, t.second = o + 1, t.off = K.top, t.data = K.data[K.top],
           t.seldb = K.db[K.top], t.backlog # Nothing, Carries(K, t.backlog.first - 1, t.backlog.buf, 1),
           t.master = Nothing, t.cached = Nothing, t.child = Nothing
    PROVE  \E g : Moves(h, g, i, n, t)
<1>1. PICK H, C : H = h[x] /\ C = Copied(H, o, n)
  OBVIOUS
<1>2. x \in Nat /\ HistOK(H) /\ H.top \in Int /\ K.top \in Int
  BY <1>1 DEF Recorded, HistOK, History
<1>3. /\ HistOK(C) /\ C.top = o /\ C.db[o] = NoDb /\ C.owner = n /\ C.scope = "shared"
      /\ C.cmd = H.cmd /\ C.data = H.data
      /\ \A p \in Nat : p # o => C.db[p] = H.db[p]
  BY <1>1, <1>2, CopiedOK
<1>4. /\ K.owner = n /\ K.scope = "shared" /\ o <= K.top
      /\ \A p \in Nat : p <= o =>
            /\ K.cmd[p] = H.cmd[p] /\ K.data[p] = H.data[p]
            /\ K.db[p] = C.db[p] \/ K.db[p] = NoDb
  BY <1>1, <1>3 DEF Later
<1>5. PICK g : Changed(h, g, i, n, id, K)
  BY Change
<1>6. Recorded(g) /\ Evolves(h, g, i, n) /\ g[id] = K /\ g[x] = H
  <2>1. x # id
    OBVIOUS
  <2> QED BY <1>1, <1>2, <1>5, <2>1 DEF Changed
<1>7. Continues(g, x, id, o)
  <2>1. ASSUME NEW p \in Nat, p <= o
        PROVE  K.db[p] = NoDb \/ (p < H.top /\ K.db[p] = H.db[p])
    <3>1. CASE p = o
      BY <1>3, <1>4, <3>1
    <3>2. CASE p # o
      <4>1. p < H.top
        BY <1>1, <1>2, <2>1, <3>2
      <4> QED BY <1>3, <1>4, <2>1, <3>2, <4>1
    <3> QED BY <3>1, <3>2
  <2> QED BY <1>1, <1>4, <1>6, <2>1 DEF Continues
<1>8. (o + 1) - 1 = o /\ K.top <= K.top
  BY <1>2
<1>9. MayKnow(g, n, x) /\ MayKnow(g, n, id) /\ Reaches(K, K.top, K.data[K.top])
  BY <1>1, <1>4, <1>6, <1>8 DEF MayKnow, Reaches
<1>10. Continues(g, t.replid2, t.replid, t.second - 1)
  BY <1>7, <1>8
<1>11. Agrees(g, n, t)
  BY <1>4, <1>6, <1>9, <1>10 DEF Agrees
<1>12. Rules(g, n, t)
  BY <1>4, <1>6 DEF Rules
<1> QED BY <1>6, <1>11, <1>12 DEF Moves

\* Two commands.
LEMMA PairIs ==
    ASSUME NEW a, NEW b
    PROVE  <<a>> \o <<b>> = <<a, b>>
<1>1. PICK S, x, y, z, u : S = {a, b} /\ x = <<a>> /\ y = <<b>> /\ z = <<a, b>> /\ u = x \o y
  OBVIOUS
<1>2. /\ x \in Seq(S) /\ y \in Seq(S) /\ z \in Seq(S) /\ Len(x) = 1 /\ Len(y) = 1 /\ Len(z) = 2
      /\ x[1] = a /\ y[1] = b /\ z[1] = a /\ z[2] = b
  BY <1>1
<1>3. u \in Seq(S) /\ Len(u) = 2 /\ u[1] = x[1] /\ u[2] = y[1]
  BY <1>1, <1>2
<1>4. \A i \in 1 .. Len(u) : i = 1 \/ i = 2
  BY <1>3
<1>5. u = z
  BY <1>2, <1>3, <1>4, SeqEqual
<1> QED BY <1>1, <1>5

\* loadDataFromDisk of a master.
LEMMA BootMasterTale ==
    ASSUME NEW h, Recorded(h), NEW i \in Nat, NEW n \in Server, NEW id \in Nat, id > i,
           NEW file \in BootFile(i), file.db # NoDb => Tells(h, file) /\ MayKnow(h, n, file.id),
           NEW w \in Nat, NEW d \in Nat, NEW dels \in {NoDels, Dels(w, d)}
    PROVE  \E g : Moves(h, g, i, n, BootMaster(Fresh(id, NoServer), file, dels))
<1>1. PICK s, t : s = Fresh(id, NoServer) /\ t = BootMaster(s, file, dels)
  OBVIOUS
<1>2. /\ s.backlog = Nothing /\ s.master = Nothing /\ s.cached = Nothing /\ s.child = Nothing
      /\ s.replid = id
  BY <1>1 DEF Fresh
<1>3. PICK j : j = id
  OBVIOUS
<1>4. s \in State(j)
  <2>1. j \in Nat /\ id \in 1 .. j /\ NoServer # n
    BY <1>3, ReplAssumption
  <2> QED BY <1>1, <2>1, FreshOK DEF NodeOK, NodeBase
<1>5. CASE file.db = NoDb
  <2>1. PICK x, l : x = file.data \o dels.data /\ l = Len(dels.cmds)
    OBVIOUS
  <2>2. t = [s EXCEPT !.data = x, !.off = l, !.seldb = dels.db]
    BY <1>1, <1>5, <2>1 DEF BootMaster
  <2>3. /\ t.replid = id /\ t.backlog = Nothing /\ t.master = Nothing /\ t.cached = Nothing
        /\ t.child = Nothing
    BY <1>2, <1>4, <2>2 DEF State
  <2> QED BY <1>1, <2>3, BootsAlone
<1>6. CASE file.db # NoDb
  <2>1. PICK x, l, b, off, sec, o, y :
            /\ x = file.data \o dels.data /\ l = Len(dels.cmds)
            /\ b = [NewBacklog(file.off) EXCEPT !.buf = dels.cmds]
            /\ off = file.off + l /\ sec = file.off + 1 /\ o = file.off /\ y = file.id
    OBVIOUS
  <2>2. t = [s EXCEPT !.data = x, !.replid2 = y, !.second = sec, !.off = off,
                      !.seldb = dels.db, !.backlog = b]
    BY <1>1, <1>6, <2>1 DEF BootMaster
  <2>3. /\ t.replid = id /\ t.replid2 = y /\ t.second = sec /\ t.off = off /\ t.data = x
        /\ t.seldb = dels.db /\ t.backlog = b
        /\ t.master = Nothing /\ t.cached = Nothing /\ t.child = Nothing
    BY <1>2, <1>4, <2>2 DEF State
  <2>4. /\ y \in 1 .. i /\ o \in Nat /\ file.data \in Data
        /\ o <= h[y].top /\ file.data = h[y].data[o] /\ MayKnow(h, n, y)
    BY <1>6, <2>1 DEF BootFile, Tells, Reaches
  <2>5. b.first = sec /\ b.buf = dels.cmds /\ b # Nothing /\ b.first - 1 = o
    <3>1. b = [present |-> TRUE, first |-> sec, buf |-> dels.cmds]
      BY <2>1 DEF NewBacklog
    <3>2. b.first = sec /\ b.buf = dels.cmds /\ b.present = TRUE
      BY <3>1
    <3>3. b # Nothing
      BY <3>2 DEF Nothing
    <3>4. sec - 1 = o
      BY <2>1, <2>4
    <3> QED BY <3>2, <3>3, <3>4
  <2>6. PICK H, C : H = h[y] /\ C = Copied(H, o, n)
    OBVIOUS
  <2>7. /\ HistOK(C) /\ C.top = o /\ C.db[o] = NoDb /\ C.data = H.data
    <3>1. HistOK(H)
      BY <2>4, <2>6 DEF Recorded
    <3> QED BY <2>4, <2>6, <3>1, CopiedOK
  <2>8. CASE dels = NoDels
    <3>1. dels.data = <<>> /\ dels.cmds = <<>> /\ dels.db = NoDb
      BY <2>8 DEF NoDels
    <3>2. l = 0 /\ x = file.data /\ off = o
      <4>1. l = 0
        BY <2>1, <3>1
      <4>2. file.data \in Seq(Nat \X Int) /\ x = file.data \o <<>>
        BY <2>1, <2>4, <3>1 DEF Data
      <4>3. PICK z : z = file.data
        OBVIOUS
      <4>4. z \o <<>> = z
        BY <4>2, <4>3
      <4>5. off = o
        BY <2>1, <2>4, <4>1
      <4> QED BY <4>1, <4>2, <4>3, <4>4, <4>5
    <3>3. Later(C, C)
      BY <2>7, LaterSame
    <3>4. Carries(C, b.first - 1, b.buf, 1)
      <4>1. PICK q : q = <<>>
        OBVIOUS
      <4>2. Len(q) = 0 /\ b.buf = q /\ o + (0 + 1 - 1) <= C.top /\ b.first - 1 = o
        BY <2>4, <2>5, <2>7, <3>1, <4>1
      <4> QED BY <4>2 DEF Carries
    <3>5. t.second = o + 1 /\ t.off = C.top /\ t.data = C.data[C.top] /\ t.seldb = C.db[C.top]
      BY <2>1, <2>3, <2>4, <2>6, <2>7, <3>1, <3>2
    <3> QED BY <1>1, <2>3, <2>4, <2>5, <2>6, <2>7, <3>3, <3>4, <3>5, BootsMaster
  <2>9. CASE dels = Dels(w, d)
    <3>1. /\ dels.data = << <<w, d>> >> /\ dels.cmds = <<Select(d), Command(w)>> /\ dels.db = d
      BY <2>9 DEF Dels
    <3>2. d # NoDb /\ C.top >= 0
      BY <2>4, <2>7 DEF NoDb
    <3>3. PICK q : q = (IF C.db[C.top] = d THEN <<>> ELSE <<Select(d)>>) \o <<Command(w)>>
      OBVIOUS
    <3>4. q \in Seq(Cmd) /\ \E K : Fedback(C, K, q, C.data[C.top], w, d)
      BY <2>7, <3>2, <3>3, FeedsWrite
    <3>5. q = dels.cmds
      <4>1. q = <<Select(d)>> \o <<Command(w)>>
        BY <2>7, <3>2, <3>3
      <4>2. PICK a, e : a = Select(d) /\ e = Command(w)
        OBVIOUS
      <4>3. <<a>> \o <<e>> = <<a, e>>
        BY PairIs
      <4> QED BY <3>1, <4>1, <4>2, <4>3
    <3>6. PICK K : Fedback(C, K, q, C.data[C.top], w, d)
      BY <3>4
    <3>7. /\ HistOK(K) /\ Later(C, K) /\ K.top = o + l /\ Carries(K, o, q, 1)
          /\ K.data[K.top] = Append(file.data, <<w, d>>) /\ K.db[K.top] = d
      BY <2>1, <2>4, <2>6, <2>7, <3>5, <3>6 DEF Fedback
    <3>8. x = Append(file.data, <<w, d>>)
      <4>1. PICK e, z : e = <<w, d>> /\ z = file.data
        OBVIOUS
      <4>2. z \in Seq(Nat \X Int) /\ e \in Nat \X Int
        BY <2>4, <4>1 DEF Data
      <4>3. z \o <<e>> = Append(z, e)
        BY <4>2
      <4> QED BY <2>1, <3>1, <4>1, <4>3
    <3>9. /\ t.second = o + 1 /\ t.off = K.top /\ t.data = K.data[K.top] /\ t.seldb = K.db[K.top]
          /\ Carries(K, t.backlog.first - 1, t.backlog.buf, 1) /\ t.backlog # Nothing
      BY <2>1, <2>3, <2>5, <3>1, <3>5, <3>7, <3>8
    <3> QED BY <1>1, <2>3, <2>4, <2>6, <3>7, <3>9, BootsMaster
  <2> QED BY <2>8, <2>9
<1> QED BY <1>5, <1>6

\* loadDataFromDisk of a replica.
LEMMA BootReplicaTale ==
    ASSUME NEW h, Recorded(h), NEW i \in Nat, NEW n \in Server, NEW id \in Nat, id > i,
           NEW file \in BootFile(i), file.db # NoDb => Tells(h, file) /\ MayKnow(h, n, file.id),
           NEW r \in Server, r # n
    PROVE  \E g : Moves(h, g, i, n, BootReplica(Fresh(id, r), file))
<1>1. PICK s, t : s = Fresh(id, r) /\ t = BootReplica(s, file)
  OBVIOUS
<1>2. /\ s.backlog = Nothing /\ s.master = Nothing /\ s.cached = Nothing /\ s.child = Nothing
      /\ s.replid = id /\ s.replid2 = NoId /\ s.masterhost = r
  BY <1>1 DEF Fresh
<1>3. PICK j : j = id
  OBVIOUS
<1>4. s \in State(j)
  <2>1. j \in Nat /\ id \in 1 .. j
    BY <1>3
  <2> QED BY <1>1, <2>1, FreshOK DEF NodeOK, NodeBase
<1>5. CASE file.db = NoDb
  <2>1. t = [s EXCEPT !.data = file.data]
    BY <1>1, <1>5 DEF BootReplica
  <2>2. /\ t.replid = id /\ t.backlog = Nothing /\ t.master = Nothing /\ t.cached = Nothing
        /\ t.child = Nothing
    BY <1>2, <1>4, <2>1 DEF State
  <2> QED BY <1>1, <2>2, BootsAlone
<1>6. CASE file.db # NoDb
  <2>1. PICK k : k = Client(file.id, file.off, file.db)
    OBVIOUS
  <2>2. t = [s EXCEPT !.data = file.data, !.replid = file.id, !.off = file.off, !.cached = k]
    BY <1>1, <1>6, <2>1 DEF BootReplica
  <2>3. /\ t.replid = file.id /\ t.replid2 = NoId /\ t.off = file.off /\ t.data = file.data
        /\ t.backlog = Nothing /\ t.master = Nothing /\ t.cached = k /\ t.child = Nothing
        /\ t.masterhost # NoServer
    BY <1>2, <1>4, <2>2, ReplAssumption DEF State
  <2>4. k.db = file.db
    BY <2>1 DEF Client
  <2>5. Agrees(h, n, t) /\ Rules(h, n, t)
    BY <1>6, <2>3, <2>4 DEF Agrees, Rules, Tells
  <2> QED BY <1>1, <2>5, NoChange DEF Moves
<1> QED BY <1>5, <1>6

-----------------------------------------------------------------------------
(* The steps of the system                                                 *)

\* Instances, connections and files agree with the histories h.
Tale(h, nd, cn, fs) == Told(h, nd, cn) /\ Stored(h, fs)

\* What the files say remains true.
LEMMA StoredStays ==
    ASSUME NEW h, NEW g, Recorded(h), Recorded(g), NEW i \in Nat, NEW p, Evolves(h, g, i, p),
           NEW fs \in [Server -> Maybe(File(i))], Stored(h, fs)
    PROVE  Stored(g, fs)
<1>1. ASSUME NEW n \in Server
      PROVE  FileTells(g, n, fs[n])
  <2>1. FileTells(h, n, fs[n]) /\ (fs[n] \in File(i) \/ fs[n] = Nothing)
    BY DEF Stored, Maybe
  <2>2. CASE fs[n] \in File(i)
    BY <2>1, <2>2, FileStays
  <2>3. CASE fs[n] = Nothing
    BY <2>3 DEF FileTells
  <2> QED BY <2>1, <2>2, <2>3
<1> QED BY <1>1 DEF Stored

\* A file is replaced.
LEMMA StoredPut ==
    ASSUME NEW h, NEW S, NEW fs \in [Server -> S], Stored(h, fs), NEW n \in Server, NEW f, FileTells(h, n, f)
    PROVE  Stored(h, [fs EXCEPT ![n] = f])
BY DEF Stored

\* Nothing is on its way to an instance that is not connecting.
LEMMA BringsIdle ==
    ASSUME NEW h, NEW t, ~Attempts(t), NEW c, ~c.open, NEW m
    PROVE  Brings(h, t, c, m)
BY DEF Brings, Attempts

\* A step of p that its slaves do not notice.
LEMMA TaleKept ==
    ASSUME NEW nd, NEW cn, NEW i, Good(nd, cn, i), NEW fs \in [Server -> Maybe(File(i))],
           NEW h, NEW g, Tale(h, nd, cn, fs), NEW p \in Server, NEW t, Moves(h, g, i, p, t),
           NEW c, c.to # p, Brings(g, t, c, nd[c.to]), c.open => c.to \in Server,
           \A r \in Server : cn[r].to = p /\ cn[r].open => t.child = nd[p].child
    PROVE  Tale(g, [nd EXCEPT ![p] = t], [cn EXCEPT ![p] = c], fs)
<1>1. /\ Told(h, nd, cn) /\ Stored(h, fs) /\ Recorded(g) /\ Evolves(h, g, i, p) /\ Agrees(g, p, t)
      /\ Rules(g, p, t) /\ i \in Nat /\ Recorded(h)
  BY DEF Tale, Moves, Good, Told
<1>2. Stored(g, fs)
  BY <1>1, StoredStays
<1>3. Told(g, [nd EXCEPT ![p] = t], [cn EXCEPT ![p] = c])
  BY <1>1, ToldKept
<1> QED BY <1>2, <1>3 DEF Tale

\* A step of p that disconnects its slaves.
LEMMA TaleClosed ==
    ASSUME NEW nd, NEW cn, NEW i, Good(nd, cn, i), NEW fs \in [Server -> Maybe(File(i))],
           NEW h, NEW g, Tale(h, nd, cn, fs), NEW p \in Server, NEW t, Moves(h, g, i, p, t),
           NEW c, c.to # p, Brings(g, t, c, nd[c.to]), c.open => c.to \in Server
    PROVE  Tale(g, [nd EXCEPT ![p] = t], [DisconnectSlaves(cn, p) EXCEPT ![p] = c], fs)
<1>1. /\ Told(h, nd, cn) /\ Stored(h, fs) /\ Recorded(g) /\ Evolves(h, g, i, p) /\ Agrees(g, p, t)
      /\ Rules(g, p, t) /\ i \in Nat /\ Recorded(h)
  BY DEF Tale, Moves, Good, Told
<1>2. Stored(g, fs)
  BY <1>1, StoredStays
<1>3. Told(g, [nd EXCEPT ![p] = t], [DisconnectSlaves(cn, p) EXCEPT ![p] = c])
  BY <1>1, ToldClosed
<1> QED BY <1>2, <1>3 DEF Tale

\* A step of p that feeds commands to its slaves.
LEMMA TaleFed ==
    ASSUME NEW nd, NEW cn, NEW i, Good(nd, cn, i), NEW fs \in [Server -> Maybe(File(i))],
           NEW h, NEW g, Tale(h, nd, cn, fs), NEW p \in Server, NEW t, Moves(h, g, i, p, t),
           NEW c, c.to # p, Brings(g, t, c, nd[c.to]), c.open => c.to \in Server,
           NEW cmds \in Seq(Cmd), Carries(g[nd[p].replid], nd[p].off, cmds, 1),
           t.child = nd[p].child
    PROVE  Tale(g, [nd EXCEPT ![p] = t], [FeedSlaves(cn, p, cmds) EXCEPT ![p] = c], fs)
<1>1. /\ Told(h, nd, cn) /\ Stored(h, fs) /\ Recorded(g) /\ Evolves(h, g, i, p) /\ Agrees(g, p, t)
      /\ Rules(g, p, t) /\ i \in Nat /\ Recorded(h)
  BY DEF Tale, Moves, Good, Told
<1>2. Stored(g, fs)
  BY <1>1, StoredStays
<1>3. Told(g, [nd EXCEPT ![p] = t], [FeedSlaves(cn, p, cmds) EXCEPT ![p] = c])
  BY <1>1, ToldFed
<1> QED BY <1>2, <1>3 DEF Tale

\* What is known of an instance when the invariant holds.
LEMMA ToldOf ==
    ASSUME Inv, NEW h, Tale(h, node, conn, rdb), NEW n \in Server
    PROVE  /\ Recorded(h) /\ Agrees(h, n, node[n]) /\ Rules(h, n, node[n])
           /\ Brings(h, node[n], conn[n], node[conn[n].to])
           /\ Told(h, node, conn) /\ Stored(h, rdb) /\ FileTells(h, n, rdb[n])
BY DEF Tale, Told, Stored

\* The connection of an instance that has none.
LEMMA NoConnIs == NoConn.to = NoServer /\ ~NoConn.open /\ \A n \in Server : NoConn.to # n
BY ReplAssumption DEF NoConn

\* REPLICAOF keeps the histories.
LEMMA ReplicaOfTale ==
    ASSUME Inv, NEW h, Tale(h, node, conn, rdb), NEW n \in Server, NEW a \in Server, ReplicaOf(n, a)
    PROVE  \E g : Tale(g, node', conn', rdb')
<1>1. PICK s, t : s = node[n] /\ t = SetMaster(s, a)
  OBVIOUS
<1>2. /\ ids \in Nat /\ NodeBase(n, s, ids) /\ Good(node, conn, ids)
      /\ rdb \in [Server -> Maybe(File(ids))]
  BY <1>1, Known DEF Inv, NodeOK
<1>3. Recorded(h) /\ Agrees(h, n, s) /\ Rules(h, n, s)
  BY <1>1, ToldOf
<1>4. /\ a # n /\ node' = [node EXCEPT ![n] = t] /\ conn' = [conn EXCEPT ![n] = NoConn] /\ rdb' = rdb
  BY <1>1 DEF ReplicaOf
<1>5. SameForSlaves(s, t) /\ t.rstate = "connect"
  <2>1. a # n
    BY <1>4
  <2>2. NodeBase(n, t, ids) /\ SameForSlaves(s, t) /\ t.rstate = "connect" /\ t.failover = s.failover
    BY <1>1, <1>2, <2>1, SetMasterOK
  <2> QED BY <2>2
<1>6. PICK g : Moves(h, g, ids, n, t)
  BY <1>1, <1>2, <1>3, Demotes
<1>7. Brings(g, t, NoConn, node[NoConn.to])
  BY <1>5, NoConnIs, BringsIdle DEF Attempts
<1>8. t.child = node[n].child
  BY <1>1, <1>5 DEF SameForSlaves
<1>9. Tale(g, node', conn', rdb')
  BY <1>2, <1>4, <1>6, <1>7, <1>8, NoConnIs, TaleKept
<1> QED BY <1>9

\* REPLICAOF NO ONE keeps the histories.
LEMMA ReplicaOfNoOneTale ==
    ASSUME Inv, NEW h, Tale(h, node, conn, rdb), NEW n \in Server, ReplicaOfNoOne(n)
    PROVE  \E g : Tale(g, node', conn', rdb')
<1>1. PICK s, j, t : s = node[n] /\ j = ids + 1 /\ t = UnsetMaster(s, j)
  OBVIOUS
<1>2. /\ ids \in Nat /\ NodeBase(n, s, ids) /\ Good(node, conn, ids)
      /\ rdb \in [Server -> Maybe(File(ids))]
  BY <1>1, Known DEF Inv, NodeOK
<1>3. Recorded(h) /\ Agrees(h, n, s)
  BY <1>1, ToldOf
<1>4. /\ node' = [node EXCEPT ![n] = t] /\ rdb' = rdb
      /\ conn' = [DisconnectSlaves(conn, n) EXCEPT ![n] = NoConn]
  BY <1>1 DEF ReplicaOfNoOne
<1>5. j \in Nat /\ j > ids /\ ids <= j /\ j \in 1 .. j
  BY <1>1, <1>2
<1>6. t.rstate = "none"
  BY <1>1, <1>2, <1>5, UnsetMasterOK
<1>7. PICK g : Moves(h, g, ids, n, t)
  BY <1>1, <1>2, <1>3, <1>5, Shifts
<1>8. Brings(g, t, NoConn, node[NoConn.to])
  BY <1>6, NoConnIs, BringsIdle DEF Attempts
<1>9. Tale(g, node', conn', rdb')
  BY <1>2, <1>4, <1>7, <1>8, NoConnIs, TaleClosed
<1> QED BY <1>9

\* An RDB file for persistence keeps the histories.
LEMMA SaveTale ==
    ASSUME Inv, NEW h, Tale(h, node, conn, rdb), NEW n \in Server, Save(n)
    PROVE  \E g : Tale(g, node', conn', rdb')
<1>1. PICK f : f = SnapshotOf(node[n])
  OBVIOUS
<1>2. ids \in Nat /\ NodeBase(n, node[n], ids) /\ rdb \in [Server -> Maybe(File(ids))]
  BY Known DEF Inv, NodeOK
<1>3. FileTells(h, n, f)
  BY <1>1, <1>2, ToldOf, SnapshotTells
<1>4. node' = node /\ conn' = conn /\ rdb' = [rdb EXCEPT ![n] = f]
  BY <1>1 DEF Save
<1>5. Stored(h, rdb')
  BY <1>2, <1>3, <1>4, ToldOf, StoredPut
<1> QED BY <1>4, <1>5, ToldOf DEF Tale

\* The connection of a master.
LEMMA MasterConn ==
    ASSUME Inv, NEW m \in Server, ~Attempts(node[m])
    PROVE  ~conn[m].open /\ conn[m].to # m
<1>1. ConnOK(node[m], conn[m], node[conn[m].to], ids) /\ conn[m].to # m
  BY Known
<1> QED BY <1>1 DEF ConnOK, Idle

\* A write keeps the histories.
LEMMA WriteTale ==
    ASSUME Inv, NEW h, Tale(h, node, conn, rdb), NEW m \in Server, NEW d \in Dbs, Write(m, d)
    PROVE  \E g : Tale(g, node', conn', rdb')
<1>1. PICK n : n = node[m]
  OBVIOUS
<1>2. /\ ids \in Nat /\ n \in State(ids) /\ NodeBase(m, n, ids) /\ Good(node, conn, ids)
      /\ conn[m].to # m /\ n.masterhost = NoServer /\ rdb \in [Server -> Maybe(File(ids))]
      /\ conn \in [Server -> Conn(ids)] /\ rdb' = rdb /\ used \in [Counters -> Nat]
  BY <1>1, Known DEF Inv, Write, Good, NodeOK
<1>3. Recorded(h) /\ Agrees(h, m, n) /\ Rules(h, m, n)
  BY <1>1, ToldOf
<1>4. PICK w, x, s : w = used.write + 1 /\ x = Append(n.data, <<w, d>>) /\ s = [n EXCEPT !.data = x]
  OBVIOUS
<1>5. PICK cmds : cmds = (IF n.seldb = d THEN <<>> ELSE <<Select(d)>>) \o <<Command(w)>>
  OBVIOUS
<1>6. w \in Nat /\ d \in Nat
  <2>1. used.write \in Nat /\ Dbs \subseteq Nat
    BY <1>2, ReplAssumption DEF Counters
  <2> QED BY <1>4, <2>1
<1>7. n.rstate = "none" /\ ~Attempts(n) /\ ~conn[m].open
  <2>1. n.rstate = "none"
    BY <1>2 DEF NodeBase
  <2> QED BY <1>1, <2>1, MasterConn DEF Attempts
<1>8. s.backlog = n.backlog /\ s.seldb = n.seldb /\ s.rstate = n.rstate /\ s.child = n.child
  BY <1>2, <1>4 DEF State
<1>9. CASE n.backlog # Nothing
  <2>1. PICK keep \in Kept(Len(n.backlog.buf) + Len(cmds)) :
            /\ node' = [node EXCEPT ![m] = [FeedBuffer(s, cmds, keep) EXCEPT !.seldb = d]]
            /\ conn' = FeedSlaves(conn, m, cmds)
    <3>1. s.backlog.present
      BY <1>2, <1>8, <1>9, PresentFields
    <3>2. cmds = (IF s.seldb = d THEN <<>> ELSE <<Select(d)>>) \o <<Command(w)>>
      BY <1>5, <1>8
    <3>3. \E keep \in Kept(Len(s.backlog.buf) + Len(cmds)) :
              /\ node' = [node EXCEPT ![m] = [FeedBuffer(s, cmds, keep) EXCEPT !.seldb = d]]
              /\ conn' = FeedSlaves(conn, m, cmds)
      BY <1>1, <1>4, <3>1, <3>2 DEF Write
    <3> QED BY <1>8, <3>3
  <2>2. PICK H, t : H = h[n.replid] /\ t = Fed(n, x, cmds, keep, d)
    OBVIOUS
  <2>3. /\ HistOK(H) /\ H.top = n.off /\ H.db[H.top] = n.seldb /\ n.data = H.data[H.top] /\ H.top >= 0
    <3>1. n.replid \in Nat /\ n.off \in Nat
      BY <1>2 DEF State
    <3>2. HistOK(H)
      BY <1>3, <2>2, <3>1 DEF Recorded
    <3> QED BY <1>2, <1>3, <1>9, <2>2, <3>1, <3>2 DEF Rules, Agrees, Reaches
  <2>4. cmds \in Seq(Cmd) /\ \E K : Fedback(H, K, cmds, H.data[H.top], w, d)
    BY <1>5, <1>6, <2>3, FeedsWrite
  <2>5. PICK K : Fedback(H, K, cmds, n.data, w, d)
    BY <2>3, <2>4
  <2>6. /\ HistOK(K) /\ Later(h[n.replid], K) /\ K.top = n.off + Len(cmds) /\ Carries(K, n.off, cmds, 1)
        /\ K.data[K.top] = x /\ K.db[K.top] = d
    BY <1>4, <2>2, <2>3, <2>5 DEF Fedback
  <2>7. PICK g : Extends(h, g, ids, m, Fed(n, x, cmds, keep, d), n.replid, K)
    BY <1>2, <1>3, <1>9, <2>1, <2>4, <2>6, Feeds
  <2>8. Moves(h, g, ids, m, t) /\ Carries(g[node[m].replid], node[m].off, cmds, 1)
    BY <1>1, <2>2, <2>6, <2>7 DEF Extends
  <2>9. node' = [node EXCEPT ![m] = t]
    <3>1. [FeedBuffer(s, cmds, keep) EXCEPT !.seldb = d] = t
      BY <1>2, <1>4, <2>2, FeedBufferFields DEF Fed, State
    <3> QED BY <2>1, <3>1
  <2>10. t.rstate = n.rstate /\ t.child = node[m].child
    BY <1>1, <1>2, <2>2 DEF Fed, State
  <2>11. Brings(g, t, conn[m], node[conn[m].to])
    BY <1>7, <2>10, BringsIdle DEF Attempts
  <2>12. conn' = [FeedSlaves(conn, m, cmds) EXCEPT ![m] = conn[m]]
    BY <1>2, <2>1, OwnConn
  <2>13. Tale(g, node', conn', rdb')
    BY <1>2, <1>7, <2>4, <2>8, <2>9, <2>10, <2>11, <2>12, TaleFed
  <2> QED BY <2>13
<1>10. CASE n.backlog = Nothing
  <2>1. node' = [node EXCEPT ![m] = s] /\ conn' = conn
    <3>1. ~s.backlog.present
      BY <1>2, <1>8, <1>10, PresentFields
    <3> QED BY <1>1, <1>4, <3>1 DEF Write
  <2>2. Moves(h, h, ids, m, s)
    BY <1>2, <1>3, <1>4, <1>10, WritesAlone
  <2>3. Brings(h, s, conn[m], node[conn[m].to])
    BY <1>7, <1>8, BringsIdle DEF Attempts
  <2>4. conn' = [conn EXCEPT ![m] = conn[m]]
    BY <1>2, <2>1, OwnConn
  <2>5. s.child = node[m].child
    BY <1>1, <1>8
  <2>6. Tale(h, node', conn', rdb')
    <3>1. node' = [node EXCEPT ![m] = s]
      BY <2>1
    <3> QED BY <1>2, <1>7, <2>2, <2>3, <2>4, <2>5, <3>1, TaleKept
  <2> QED BY <2>6
<1> QED BY <1>9, <1>10

\* A PING keeps the histories.
LEMMA PingSlavesTale ==
    ASSUME Inv, NEW h, Tale(h, node, conn, rdb), NEW m \in Server, PingSlaves(m)
    PROVE  \E g : Tale(g, node', conn', rdb')
<1>1. PICK n, c, cmds : n = node[m] /\ c = Ping /\ cmds = <<c>>
  OBVIOUS
<1>2. /\ ids \in Nat /\ n \in State(ids) /\ NodeBase(m, n, ids) /\ Good(node, conn, ids)
      /\ conn[m].to # m /\ n.masterhost = NoServer /\ rdb \in [Server -> Maybe(File(ids))]
      /\ conn \in [Server -> Conn(ids)] /\ rdb' = rdb
  BY <1>1, Known DEF Inv, PingSlaves, Good, NodeOK
<1>3. Recorded(h) /\ Agrees(h, m, n) /\ Rules(h, m, n)
  BY <1>1, ToldOf
<1>4. c \in Cmd /\ c.op = "ping" /\ cmds \in Seq(Cmd) /\ Len(cmds) = 1
  <2>1. c \in Cmd /\ c.op = "ping"
    BY <1>1 DEF Ping, Cmd
  <2> QED BY <1>1, <2>1
<1>5. n.backlog # Nothing
  <2>1. PICK r \in Server : conn[r].to = m /\ conn[r].open
    BY DEF PingSlaves, Slaves
  <2> QED BY <1>1, <1>2, <2>1, Reached
<1>6. PICK keep \in Kept(Len(n.backlog.buf) + 1) :
          node' = [node EXCEPT ![m] = FeedBuffer(n, cmds, keep)]
  BY <1>1 DEF PingSlaves
<1>7. PICK H, t, K : H = h[n.replid] /\ t = FeedBuffer(n, cmds, keep) /\ K = Grown(H, c)
  OBVIOUS
<1>8. t = Fed(n, n.data, cmds, keep, n.seldb)
  BY <1>2, <1>7, FeedBufferFields DEF Fed, State
<1>9. /\ HistOK(H) /\ H.top = n.off /\ H.db[H.top] = n.seldb /\ n.data = H.data[H.top] /\ H.top >= 0
  <2>1. n.replid \in Nat /\ n.off \in Nat
    BY <1>2 DEF State
  <2>2. HistOK(H)
    BY <1>3, <1>7, <2>1 DEF Recorded
  <2> QED BY <1>2, <1>3, <1>5, <1>7, <2>1, <2>2 DEF Rules, Agrees, Reaches
<1>10. /\ HistOK(K) /\ Later(H, K) /\ K.top = H.top + 1 /\ K.cmd[K.top] = c
       /\ K.data[K.top] = n.data /\ K.db[K.top] = n.seldb
  <2>1. c.op # "write" /\ c.op # "select"
    BY <1>4
  <2> QED BY <1>4, <1>7, <1>9, <2>1, GrownOK
<1>11. Carries(K, n.off, cmds, 1) /\ K.top = n.off + Len(cmds)
  BY <1>1, <1>4, <1>9, <1>10, CarriesGrown
<1>12. PICK g : Extends(h, g, ids, m, Fed(n, n.data, cmds, keep, n.seldb), n.replid, K)
  <2>1. keep \in Kept(Len(n.backlog.buf) + Len(cmds))
    BY <1>4, <1>6
  <2>2. Later(h[n.replid], K) /\ cmds \in Seq(Cmd)
    BY <1>4, <1>7, <1>10
  <2> QED BY <1>2, <1>3, <1>5, <1>10, <1>11, <2>1, <2>2, Feeds
<1>13. Moves(h, g, ids, m, t) /\ Carries(g[node[m].replid], node[m].off, cmds, 1)
  BY <1>1, <1>8, <1>11, <1>12 DEF Extends
<1>14. t.rstate = "none" /\ t.child = node[m].child
  BY <1>1, <1>2, <1>8 DEF Fed, State, NodeBase
<1>15. ~conn[m].open
  <2>1. ~Attempts(node[m])
    BY <1>1, <1>2 DEF NodeBase, Attempts
  <2> QED BY <2>1, MasterConn
<1>16. Brings(g, t, conn[m], node[conn[m].to])
  BY <1>14, <1>15, BringsIdle DEF Attempts
<1>17. conn' = [FeedSlaves(conn, m, cmds) EXCEPT ![m] = conn[m]]
  <2>1. conn' = FeedSlaves(conn, m, cmds)
    BY <1>1 DEF PingSlaves
  <2> QED BY <1>2, <2>1, OwnConn
<1>18. Tale(g, node', conn', rdb')
  <2>1. node' = [node EXCEPT ![m] = t] /\ cmds \in Seq(Cmd)
    BY <1>4, <1>6, <1>7
  <2> QED BY <1>2, <1>13, <1>14, <1>15, <1>16, <1>17, <2>1, TaleFed
<1> QED BY <1>18

\* A restart from the RDB file keeps the histories.
LEMMA RestartTale ==
    ASSUME Inv, NEW h, Tale(h, node, conn, rdb), NEW n \in Server, Restart(n)
    PROVE  \E g : Tale(g, node', conn', rdb')
<1>1. PICK j, file : /\ j = ids + 1
                     /\ file = IF rdb[n].present THEN rdb[n] ELSE Snapshot(<<>>, NoId, 0, NoDb)
  OBVIOUS
<1>2. /\ ids \in Nat /\ NodeBase(n, node[n], ids) /\ Good(node, conn, ids)
      /\ rdb \in [Server -> Maybe(File(ids))]
  BY Known DEF Inv, NodeOK
<1>3. Recorded(h) /\ FileTells(h, n, rdb[n])
  BY ToldOf
<1>4. j \in Nat /\ ids <= j /\ j \in 1 .. j /\ j > ids
  BY <1>1, <1>2
<1>5. file \in BootFile(ids) /\ (file.db # NoDb => Tells(h, file) /\ MayKnow(h, n, file.id))
  <2>1. CASE rdb[n] # Nothing
    <3>1. rdb[n] \in File(ids)
      BY <1>2, <2>1 DEF Maybe
    <3>2. rdb[n].present
      BY <1>2, <3>1, Present
    <3>3. file = rdb[n]
      BY <1>1, <3>2
    <3>4. 1 .. ids \subseteq 0 .. ids
      BY <1>2
    <3>5. file \in BootFile(ids)
      BY <3>1, <3>3, <3>4 DEF File, BootFile
    <3> QED BY <1>3, <2>1, <3>3, <3>5 DEF FileTells
  <2>2. CASE rdb[n] = Nothing
    <3>1. PICK e : e = <<>>
      OBVIOUS
    <3>2. <<>> \in Data /\ NoId \in 0 .. ids /\ NoDb \in Int
      BY <1>2 DEF Data, NoId, NoDb
    <3>3. file = [present |-> TRUE, data |-> e, id |-> NoId, off |-> 0, db |-> NoDb]
      BY <1>1, <2>2, <3>1 DEF Nothing, Snapshot
    <3>4. e \in Data
      BY <3>1, <3>2, Zenon
    <3> QED BY <3>2, <3>3, <3>4 DEF BootFile
  <2> QED BY <2>1, <2>2
<1>6. file \in BootFile(j)
  <2>1. 1 .. ids \subseteq 1 .. j /\ 0 .. ids \subseteq 0 .. j
    BY <1>2, <1>4, MoreIds
  <2> QED BY <1>5, <2>1 DEF BootFile
<1>7. PICK t, g : node' = [node EXCEPT ![n] = t] /\ Moves(h, g, ids, n, t) /\ ~Attempts(t)
  <2>1. ASSUME NEW w \in Nat, NEW d \in Nat, d \in Dbs, NEW dels, dels \in {NoDels, Dels(w, d)},
               node' = [node EXCEPT ![n] = BootMaster(Fresh(j, NoServer), file, dels)]
        PROVE  \E t, g : node' = [node EXCEPT ![n] = t] /\ Moves(h, g, ids, n, t) /\ ~Attempts(t)
    <3>1. PICK t : t = BootMaster(Fresh(j, NoServer), file, dels)
      OBVIOUS
    <3>2. PICK g : Moves(h, g, ids, n, t)
      BY <1>2, <1>3, <1>4, <1>5, <2>1, <3>1, BootMasterTale
    <3>3. dels \in Deletions
      <4>1. PICK e : e = <<>>
        OBVIOUS
      <4>2. <<>> \in Data /\ <<>> \in Seq(Cmd)
        BY DEF Data
      <4>3. e \in Data /\ e \in Seq(Cmd)
        BY <4>1, <4>2, Zenon
      <4>4. NoDels = [data |-> e, cmds |-> e, db |-> NoDb]
        BY <4>1 DEF NoDels
      <4>5. NoDels \in Deletions
        BY <4>3, <4>4 DEF Deletions
      <4>6. <<w, d>> \in Nat \X Int /\ Select(d) \in Cmd /\ Command(w) \in Cmd
        BY DEF Select, Command, Cmd
      <4>7. << <<w, d>> >> \in Data /\ <<Select(d), Command(w)>> \in Seq(Cmd)
        BY <4>6 DEF Data
      <4>8. PICK x, c : x = << <<w, d>> >> /\ c = <<Select(d), Command(w)>>
        OBVIOUS
      <4>9. Dels(w, d) = [data |-> x, cmds |-> c, db |-> d]
        BY <4>8 DEF Dels
      <4>10. x \in Data /\ c \in Seq(Cmd)
        BY <4>7, <4>8, Zenon
      <4>11. Dels(w, d) \in Deletions
        BY <2>1, <4>9, <4>10 DEF Deletions
      <4> QED BY <2>1, <4>5, <4>11
    <3>4. ~Attempts(t)
      BY <1>4, <1>6, <3>1, <3>3, BootMasterOK
    <3> QED BY <2>1, <3>1, <3>2, <3>4
  <2>2. CASE node' = [node EXCEPT ![n] = BootMaster(Fresh(j, NoServer), file, NoDels)]
    <3>1. PICK w \in Nat, d \in Nat : d = 0
      OBVIOUS
    <3>2. d \in Dbs
      BY <3>1, ReplAssumption
    <3> QED BY <2>1, <2>2, <3>2
  <2>3. ASSUME NEW d \in Dbs,
               node' = [node EXCEPT ![n] =
                           BootMaster(Fresh(j, NoServer), file, Dels(MaxWrites + ids, d))]
        PROVE  \E t, g : node' = [node EXCEPT ![n] = t] /\ Moves(h, g, ids, n, t) /\ ~Attempts(t)
    <3>1. PICK w, dels : w = MaxWrites + ids /\ dels = Dels(w, d)
      OBVIOUS
    <3>2. w \in Nat /\ d \in Nat
      BY <1>2, <3>1, ReplAssumption
    <3>3. node' = [node EXCEPT ![n] = BootMaster(Fresh(j, NoServer), file, dels)]
      BY <2>3, <3>1
    <3> QED BY <2>1, <3>1, <3>2, <3>3
  <2>4. CASE /\ node[n].masterhost # NoServer
             /\ node' = [node EXCEPT ![n] = BootReplica(Fresh(j, node[n].masterhost), file)]
    <3>1. PICK a : a = node[n].masterhost
      OBVIOUS
    <3>2. a \in Server /\ a # n
      BY <1>2, <2>4, <3>1 DEF NodeBase, State
    <3>3. PICK t : t = BootReplica(Fresh(j, a), file)
      OBVIOUS
    <3>4. ~Attempts(t)
      BY <1>4, <1>6, <3>2, <3>3, BootReplicaOK
    <3>5. PICK g : Moves(h, g, ids, n, t)
      BY <1>2, <1>3, <1>4, <1>5, <3>2, <3>3, BootReplicaTale
    <3> QED BY <2>4, <3>1, <3>3, <3>4, <3>5
  <2> QED BY <1>1, <2>2, <2>3, <2>4 DEF Restart
<1>8. conn' = [DisconnectSlaves(conn, n) EXCEPT ![n] = NoConn] /\ rdb' = rdb
  BY DEF Restart
<1>9. Brings(g, t, NoConn, node[NoConn.to])
  BY <1>7, NoConnIs, BringsIdle
<1>10. Tale(g, node', conn', rdb')
  <2>1. node' = [node EXCEPT ![n] = t] /\ Moves(h, g, ids, n, t)
    BY <1>7
  <2> QED BY <1>2, <1>8, <1>9, <2>1, NoConnIs, TaleClosed
<1> QED BY <1>10

\* What is left of a stream after its first message.
LEMMA CarriesRead ==
    ASSUME NEW H, HistOK(H), NEW o \in Int, NEW S, NEW q \in Seq(S), q # <<>>
    PROVE  /\ \A k \in Nat : k >= 2 /\ Carries(H, o, q, k) => Carries(H, o, Tail(q), k - 1)
           /\ Carries(H, o, q, 1) => /\ Carries(H, o + 1, Tail(q), 1)
                                     /\ Head(q) = H.cmd[o + 1] /\ o + 1 <= H.top
<1>1. PICK p : p = Tail(q)
  OBVIOUS
<1>2. /\ Len(q) \in Nat /\ Len(q) >= 1 /\ Len(p) = Len(q) - 1 /\ H.top \in Int
      /\ \A j \in 1 .. Len(p) : p[j] = q[j + 1]
      /\ Head(q) = q[1]
  BY <1>1 DEF HistOK, History
<1>3. ASSUME NEW k \in Nat, k >= 2, Carries(H, o, q, k)
      PROVE  Carries(H, o, p, k - 1)
  <2>1. o + (Len(p) + 1 - (k - 1)) <= H.top
    BY <1>2, <1>3 DEF Carries
  <2>2. ASSUME NEW j \in (k - 1) .. Len(p)
        PROVE  p[j] = H.cmd[o + (j + 1 - (k - 1))]
    <3>1. j \in Int /\ j \in 1 .. Len(p) /\ (j + 1) \in k .. Len(q)
      BY <1>2, <1>3
    <3>2. p[j] = q[j + 1] /\ q[j + 1] = H.cmd[o + ((j + 1) + 1 - k)]
      BY <1>2, <1>3, <3>1 DEF Carries
    <3>3. (j + 1) + 1 - k = j + 1 - (k - 1)
      BY <3>1
    <3> QED BY <3>2, <3>3
  <2> QED BY <2>1, <2>2 DEF Carries
<1>4. ASSUME Carries(H, o, q, 1)
      PROVE  Carries(H, o + 1, p, 1) /\ Head(q) = H.cmd[o + 1] /\ o + 1 <= H.top
  <2>1. (o + 1) + (Len(p) + 1 - 1) <= H.top /\ o + 1 <= H.top
    BY <1>2, <1>4 DEF Carries
  <2>2. ASSUME NEW j \in 1 .. Len(p)
        PROVE  p[j] = H.cmd[(o + 1) + (j + 1 - 1)]
    <3>1. j \in Int /\ (j + 1) \in 1 .. Len(q)
      BY <1>2
    <3>2. p[j] = q[j + 1] /\ q[j + 1] = H.cmd[o + ((j + 1) + 1 - 1)]
      BY <1>2, <1>4, <3>1 DEF Carries
    <3>3. o + ((j + 1) + 1 - 1) = (o + 1) + (j + 1 - 1)
      BY <3>1
    <3> QED BY <3>2, <3>3
  <2>3. q[1] = H.cmd[o + 1]
    <3>1. 1 \in 1 .. Len(q)
      BY <1>2
    <3>2. q[1] = H.cmd[o + (1 + 1 - 1)]
      BY <1>4, <3>1 DEF Carries
    <3>3. o + (1 + 1 - 1) = o + 1
      OBVIOUS
    <3> QED BY <3>2, <3>3
  <2> QED BY <1>2, <2>1, <2>2, <2>3 DEF Carries
<1> QED BY <1>1, <1>3, <1>4

\* What is on its way to a connected replica.
LEMMA BringsStream ==
    ASSUME NEW h, NEW t, t.rstate = "connected", NEW c, c.st = "online",
           Carries(h[t.replid], t.off, c.q, 1), NEW m
    PROVE  Brings(h, t, c, m)
BY DEF Brings

\* Reading +FULLRESYNC keeps the histories.
LEMMA ReceiveFullResyncTale ==
    ASSUME Inv, NEW h, Tale(h, node, conn, rdb), NEW r \in Server, ReceiveFullResync(r)
    PROVE  \E g : Tale(g, node', conn', rdb')
<1>1. PICK s, c, m, msg : s = node[r] /\ c = conn[r] /\ m = node[conn[r].to] /\ msg = Head(conn[r].q)
  OBVIOUS
<1>2. /\ ids \in Nat /\ NodeOK(r, s, ids) /\ Good(node, conn, ids)
      /\ ConnOK(s, c, m, ids) /\ c \in Conn(ids) /\ rdb \in [Server -> Maybe(File(ids))]
      /\ c.to # r
  BY <1>1, Known DEF Inv
<1>3. Recorded(h) /\ Agrees(h, r, s) /\ Rules(h, r, s) /\ Brings(h, s, c, m)
  BY <1>1, ToldOf
<1>4. c.q # <<>> /\ msg.op = "fullresync" /\ msg = Head(c.q)
  BY <1>1 DEF ReceiveFullResync, Receives
<1>5. PICK t, d, q : t = Transferring(s, msg) /\ d = Read(c) /\ q = c.q
  OBVIOUS
<1>6. /\ d.to = c.to /\ d.open = c.open /\ d.st = c.st /\ d.q = Tail(q) /\ d.out = c.out
      /\ q \in Seq(Msg(ids)) /\ q # <<>> /\ msg = q[1]
  <2>1. d.to = c.to /\ d.open = c.open /\ d.st = c.st /\ d.q = Tail(q) /\ d.out = c.out
    BY <1>2, <1>4, <1>5, ReadOK
  <2>2. c.q \in Seq(Msg(ids))
    BY <1>2 DEF Conn
  <2>3. Head(c.q) = c.q[1]
    BY <1>4, <2>2, Tails
  <2> QED BY <1>4, <1>5, <2>1, <2>2, <2>3
<1>7. Announced(s, c, m, ids) \/ FileAhead(s, c, m, ids)
  BY <1>2, <1>4, HeadPhase
<1>8. /\ s.rstate = "receive_psync" /\ msg \in FullMsg(ids)
      /\ (c.st = "online" => Len(q) >= 2)
  BY <1>5, <1>6, <1>7 DEF Announced, FileAhead
<1>9. SameForSlaves(s, t) /\ t.rstate = "transfer" /\ t.sync = msg
  BY <1>2, <1>5, <1>8, TransferOK
<1>10. Moves(h, h, ids, r, t)
  BY <1>2, <1>3, <1>5, TransfersTale
<1>11. ASSUME c.st = "online"
       PROVE  FileFirst(h, d.q, 1, t.sync)
  <2>1. FileFirst(h, q, 2, msg)
    BY <1>3, <1>4, <1>5, <1>6, <1>8, <1>11 DEF Brings
  <2>2. Tail(q)[1] = q[2]
    BY <1>6, <1>8, <1>11, Tails
  <2>3. HistOK(h[msg.id]) /\ msg.off \in Int
    BY <1>2, <1>3, <1>8 DEF Recorded, FullMsg
  <2>4. Carries(h[msg.id], msg.off, q, 2 + 1)
    BY <2>1 DEF FileFirst
  <2>5. Carries(h[msg.id], msg.off, Tail(q), (2 + 1) - 1)
    <3>1. PICK k \in Nat : k = 2 + 1 /\ k >= 2
      OBVIOUS
    <3>2. Carries(h[msg.id], msg.off, Tail(q), k - 1)
      BY <1>6, <2>3, <2>4, <3>1, CarriesRead
    <3> QED BY <3>1, <3>2
  <2>6. (2 + 1) - 1 = 1 + 1
    OBVIOUS
  <2>7. Carries(h[msg.id], msg.off, Tail(q), 1 + 1)
    BY <2>5, <2>6
  <2> QED BY <1>6, <1>9, <2>1, <2>2, <2>7 DEF FileFirst
<1>12. Brings(h, t, d, m)
  BY <1>3, <1>6, <1>9, <1>11 DEF Brings
<1>13. node' = [node EXCEPT ![r] = t] /\ conn' = [conn EXCEPT ![r] = d] /\ rdb' = rdb
  BY <1>1, <1>5 DEF ReceiveFullResync, Transferring, Read
<1>14. Brings(h, t, d, node[d.to]) /\ d.to # r /\ (d.open => d.to \in Server) /\ t.child = node[r].child
  <2>1. c.open => c.to \in Server
    BY <1>1, <1>2, Reached
  <2> QED BY <1>1, <1>2, <1>6, <1>9, <1>12, <2>1 DEF SameForSlaves
<1>15. Tale(h, node', conn', rdb')
  BY <1>2, <1>10, <1>13, <1>14, TaleKept
<1> QED BY <1>15

\* A file replaces the one on disk.
LEMMA TalePut ==
    ASSUME NEW h, NEW nd, NEW cn, NEW S, NEW fs \in [Server -> S], Tale(h, nd, cn, fs),
           NEW n \in Server, NEW f, FileTells(h, n, f)
    PROVE  Tale(h, nd, cn, [fs EXCEPT ![n] = f])
BY StoredPut DEF Tale

\* A file that was sent can be kept by everybody.
LEMMA SentIsFile ==
    ASSUME NEW h, NEW f, SentTells(h, f), NEW n
    PROVE  FileTells(h, n, f)
BY DEF SentTells, FileTells, MayKnow

\* The file at the head of a replica's connection.
LEMMA FileAtHead ==
    ASSUME Inv, NEW h, Tale(h, node, conn, rdb), NEW r \in Server, Receives(r, "rdb"),
           NEW s, s = node[r], NEW c, c = conn[r], NEW file, file = Head(conn[r].q).file
    PROVE  /\ s.rstate = "transfer" /\ s.sync # Nothing /\ file \in File(ids) /\ c.st = "online"
           /\ SentTells(h, file) /\ file.id = s.sync.id /\ file.off = s.sync.off
           /\ Carries(h[s.sync.id], s.sync.off, Tail(c.q), 1)
<1>1. PICK m, msg, q : m = node[conn[r].to] /\ msg = Head(c.q) /\ q = c.q
  OBVIOUS
<1>2. /\ ids \in Nat /\ ConnOK(s, c, m, ids) /\ c \in Conn(ids) /\ s \in State(ids)
  BY <1>1, Known
<1>3. Recorded(h) /\ Brings(h, s, c, m)
  BY <1>1, ToldOf
<1>4. q # <<>> /\ msg.op = "rdb" /\ file = msg.file
  BY <1>1 DEF Receives
<1>5. ReadsFile(s, c, m, ids)
  BY <1>1, <1>2, <1>4, HeadPhase
<1>6. q \in Seq(Msg(ids)) /\ msg = q[1]
  <2>1. q \in Seq(Msg(ids))
    BY <1>1, <1>2 DEF Conn
  <2> QED BY <1>1, <1>4, <2>1, Tails
<1>7. s.rstate = "transfer" /\ s.sync # Nothing /\ file \in File(ids) /\ c.st = "online"
  <2>1. msg \in RdbMsg(ids)
    BY <1>1, <1>5, <1>6 DEF ReadsFile
  <2> QED BY <1>4, <1>5, <2>1 DEF ReadsFile, RdbMsg
<1>8. FileFirst(h, q, 1, s.sync)
  BY <1>1, <1>3, <1>7 DEF Brings
<1>9. SentTells(h, file) /\ file.id = s.sync.id /\ file.off = s.sync.off /\ Carries(h[s.sync.id], s.sync.off, q, 1 + 1)
  BY <1>4, <1>6, <1>8 DEF FileFirst
<1>10. Carries(h[s.sync.id], s.sync.off, Tail(q), 1)
  <2>1. s.sync \in FullMsg(ids)
    BY <1>2, <1>7, PresentFields
  <2>2. HistOK(h[s.sync.id]) /\ s.sync.off \in Int
    BY <1>2, <1>3, <2>1 DEF Recorded, FullMsg
  <2>3. PICK k \in Nat : k = 1 + 1 /\ k >= 2 /\ k - 1 = 1
    OBVIOUS
  <2>4. Carries(h[s.sync.id], s.sync.off, Tail(q), k - 1)
    BY <1>4, <1>6, <1>9, <2>2, <2>3, CarriesRead
  <2> QED BY <2>3, <2>4
<1> QED BY <1>1, <1>7, <1>9, <1>10

\* Loading the file keeps the histories.
LEMMA ReceiveRdbTale ==
    ASSUME Inv, NEW h, Tale(h, node, conn, rdb), NEW r \in Server, ReceiveRdb(r)
    PROVE  \E g : Tale(g, node', conn', rdb')
<1>1. PICK s, c, file : s = node[r] /\ c = conn[r] /\ file = Head(conn[r].q).file
  OBVIOUS
<1>2. /\ ids \in Nat /\ NodeOK(r, s, ids) /\ Good(node, conn, ids) /\ c \in Conn(ids)
      /\ rdb \in [Server -> Maybe(File(ids))] /\ conn \in [Server -> Conn(ids)] /\ c.to # r
      /\ conn[r].to # r
  BY <1>1, Known DEF Inv, Good
<1>3. Recorded(h)
  BY ToldOf
<1>4. Receives(r, "rdb")
  BY DEF ReceiveRdb
<1>5. /\ s.rstate = "transfer" /\ s.sync # Nothing /\ file \in File(ids) /\ c.st = "online"
      /\ SentTells(h, file) /\ file.id = s.sync.id /\ file.off = s.sync.off
      /\ Carries(h[s.sync.id], s.sync.off, Tail(c.q), 1)
  BY <1>1, <1>4, FileAtHead
<1>6. PICK t, d : t = Loaded(s, file) /\ d = Read(c)
  OBVIOUS
<1>7. t.rstate = "connected" /\ t.replid = s.sync.id /\ t.off = s.sync.off
  BY <1>2, <1>5, <1>6, LoadedOK
<1>8. Moves(h, h, ids, r, t)
  BY <1>2, <1>3, <1>5, <1>6, Loads
<1>9. d.to = c.to /\ d.open = c.open /\ d.st = c.st /\ d.q = Tail(c.q)
  <2>1. c.q # <<>>
    BY <1>1, <1>4 DEF Receives
  <2> QED BY <1>2, <1>6, <2>1, ReadOK
<1>10. Brings(h, t, d, node[d.to])
  BY <1>5, <1>7, <1>9, BringsStream
<1>11. /\ node' = [node EXCEPT ![r] = t] /\ rdb' = [rdb EXCEPT ![r] = file]
       /\ conn' = [DisconnectSlaves(conn, r) EXCEPT ![r] = d]
  <2>1. /\ node' = [node EXCEPT ![r] = t] /\ rdb' = [rdb EXCEPT ![r] = file]
        /\ conn' = [DisconnectSlaves(conn, r) EXCEPT ![r].q = Tail(@)]
    BY <1>1, <1>6 DEF ReceiveRdb, Loaded
  <2>2. DisconnectSlaves(conn, r)[r] = c
    BY <1>1, <1>2, OwnConn
  <2> QED BY <1>6, <2>1, <2>2 DEF Read
<1>12. d.to # r /\ (d.open => d.to \in Server)
  BY <1>1, <1>2, <1>9, Reached
<1>13. Tale(h, node', conn', rdb)
  <2>1. node' = [node EXCEPT ![r] = t] /\ conn' = [DisconnectSlaves(conn, r) EXCEPT ![r] = d]
    BY <1>11
  <2> QED BY <1>2, <1>8, <1>10, <1>12, <2>1, TaleClosed
<1>14. FileTells(h, r, file)
  BY <1>5, SentIsFile
<1>15. Tale(h, node', conn', rdb')
  BY <1>2, <1>11, <1>13, <1>14, TalePut
<1> QED BY <1>15

\* A load that fails keeps the histories.
LEMMA LoadFailsTale ==
    ASSUME Inv, NEW h, Tale(h, node, conn, rdb), NEW r \in Server, LoadFails(r)
    PROVE  \E g : Tale(g, node', conn', rdb')
<1>1. PICK s, c, file : s = node[r] /\ c = conn[r] /\ file = Head(conn[r].q).file
  OBVIOUS
<1>2. /\ ids \in Nat /\ NodeOK(r, s, ids) /\ Good(node, conn, ids)
      /\ rdb \in [Server -> Maybe(File(ids))]
  BY <1>1, Known DEF Inv, Good
<1>3. Recorded(h)
  BY ToldOf
<1>4. Receives(r, "rdb")
  BY DEF LoadFails
<1>5. s.rstate = "transfer" /\ SentTells(h, file)
  BY <1>1, <1>4, FileAtHead
<1>6. PICK t : t = NotLoaded(s)
  OBVIOUS
<1>7. t.rstate = "connect"
  BY <1>2, <1>5, <1>6, NotLoadedOK
<1>8. Moves(h, h, ids, r, t)
  BY <1>2, <1>3, <1>5, <1>6, DoesNotLoad
<1>9. Brings(h, t, NoConn, node[NoConn.to])
  BY <1>7, NoConnIs, BringsIdle DEF Attempts
<1>10. /\ node' = [node EXCEPT ![r] = t] /\ (rdb' = rdb \/ rdb' = [rdb EXCEPT ![r] = file])
       /\ conn' = [DisconnectSlaves(conn, r) EXCEPT ![r] = NoConn]
  BY <1>1, <1>6 DEF LoadFails, NotLoaded
<1>11. Tale(h, node', conn', rdb)
  <2>1. node' = [node EXCEPT ![r] = t] /\ conn' = [DisconnectSlaves(conn, r) EXCEPT ![r] = NoConn]
    BY <1>10
  <2> QED BY <1>2, <1>8, <1>9, <2>1, NoConnIs, TaleClosed
<1>12. FileTells(h, r, file)
  BY <1>5, SentIsFile
<1>13. Tale(h, node', conn', rdb')
  <2>1. CASE rdb' = rdb
    BY <1>11, <2>1
  <2>2. CASE rdb' = [rdb EXCEPT ![r] = file]
    BY <1>2, <1>11, <1>12, <2>2, TalePut
  <2> QED BY <1>10, <2>1, <2>2
<1> QED BY <1>13

\* Reading +CONTINUE keeps the histories.
LEMMA ReceiveContinueTale ==
    ASSUME Inv, NEW h, Tale(h, node, conn, rdb), NEW r \in Server, ReceiveContinue(r)
    PROVE  \E g : Tale(g, node', conn', rdb')
<1>1. PICK s, c, m, msg : s = node[r] /\ c = conn[r] /\ m = node[conn[r].to] /\ msg = Head(conn[r].q)
  OBVIOUS
<1>2. /\ ids \in Nat /\ NodeOK(r, s, ids) /\ Good(node, conn, ids)
      /\ ConnOK(s, c, m, ids) /\ c \in Conn(ids) /\ rdb \in [Server -> Maybe(File(ids))]
      /\ conn \in [Server -> Conn(ids)] /\ conn[r].to # r /\ s \in State(ids)
  BY <1>1, Known DEF Inv, Good
<1>3. Recorded(h) /\ Agrees(h, r, s) /\ Brings(h, s, c, m)
  BY <1>1, ToldOf
<1>4. c.q # <<>> /\ msg.op = "continue" /\ msg = Head(c.q)
  BY <1>1 DEF ReceiveContinue, Receives
<1>5. ContinueAhead(s, c, m, ids)
  BY <1>2, <1>4, HeadPhase
<1>6. PICK id, t, d, q : id = msg.id /\ t = Resume(s, id) /\ d = Read(c) /\ q = c.q
  OBVIOUS
<1>7. q \in Seq(Msg(ids)) /\ msg = q[1] /\ q # <<>>
  <2>1. q \in Seq(Msg(ids))
    BY <1>2, <1>6 DEF Conn
  <2> QED BY <1>4, <1>6, <2>1, Tails
<1>8. s.rstate = "receive_psync" /\ s.cached # Nothing /\ id \in 1 .. ids /\ c.st = "online" /\ s.off \in Nat
  <2>1. msg \in ContinueMsg(ids)
    BY <1>5, <1>6, <1>7 DEF ContinueAhead
  <2>2. s.off \in Nat
    BY <1>2 DEF State
  <2> QED BY <1>5, <1>6, <2>1, <2>2 DEF ContinueAhead, ContinueMsg
<1>9. /\ h[s.replid].scope = "shared" /\ h[id].scope = "shared" /\ Continues(h, s.replid, id, s.off)
      /\ Carries(h[id], s.off, q, 2)
  BY <1>3, <1>4, <1>6, <1>7, <1>8 DEF Brings
<1>10. Moves(h, h, ids, r, t)
  BY <1>2, <1>3, <1>6, <1>8, <1>9, Resumes
<1>11. t.rstate = "connected" /\ t.replid = id /\ t.off = s.off /\ t.child = s.child
  BY <1>2, <1>6, <1>8, ResumeOK
<1>12. Carries(h[id], s.off, Tail(q), 1)
  <2>1. HistOK(h[id]) /\ s.off \in Int
    BY <1>2, <1>3, <1>8 DEF Recorded
  <2>2. PICK k \in Nat : k = 2 /\ k >= 2 /\ k - 1 = 1
    OBVIOUS
  <2>3. Carries(h[id], s.off, Tail(q), k - 1)
    BY <1>7, <1>9, <2>1, <2>2, CarriesRead
  <2> QED BY <2>2, <2>3
<1>13. d.to = c.to /\ d.open = c.open /\ d.st = c.st /\ d.q = Tail(c.q)
  BY <1>2, <1>4, <1>6, ReadOK
<1>14. Brings(h, t, d, node[d.to])
  BY <1>6, <1>8, <1>11, <1>12, <1>13, BringsStream
<1>15. d.to # r /\ (d.open => d.to \in Server) /\ t.child = node[r].child
  BY <1>1, <1>2, <1>11, <1>13, Reached
<1>16. /\ node' = [node EXCEPT ![r] = t] /\ rdb' = rdb
       /\ conn' = [(IF id # s.cached.id THEN DisconnectSlaves(conn, r) ELSE conn)
                     EXCEPT ![r].q = Tail(@)]
  BY <1>1, <1>6 DEF ReceiveContinue
<1>17. node' = [node EXCEPT ![r] = t]
  BY <1>16
<1>18. CASE id # s.cached.id
  <2>1. conn' = [DisconnectSlaves(conn, r) EXCEPT ![r] = d]
    <3>1. DisconnectSlaves(conn, r)[r] = c
      BY <1>1, <1>2, OwnConn
    <3> QED BY <1>6, <1>16, <1>18, <3>1 DEF Read
  <2>2. Tale(h, node', conn', rdb)
    BY <1>2, <1>10, <1>14, <1>15, <1>17, <2>1, TaleClosed
  <2> QED BY <1>16, <2>2
<1>19. CASE id = s.cached.id
  <2>1. conn' = [conn EXCEPT ![r] = d]
    BY <1>1, <1>6, <1>16, <1>19 DEF Read
  <2>2. Tale(h, node', conn', rdb)
    BY <1>2, <1>10, <1>14, <1>15, <1>17, <2>1, TaleKept
  <2> QED BY <1>16, <2>2
<1> QED BY <1>18, <1>19

\* Executing a command of the stream keeps the histories.
LEMMA ReceiveCommandTale ==
    ASSUME Inv, NEW h, Tale(h, node, conn, rdb), NEW r \in Server, ReceiveCommand(r)
    PROVE  \E g : Tale(g, node', conn', rdb')
<1>1. PICK s, c, m, cmd : s = node[r] /\ c = conn[r] /\ m = node[conn[r].to] /\ cmd = Head(conn[r].q)
  OBVIOUS
<1>2. /\ ids \in Nat /\ NodeOK(r, s, ids) /\ NodeBase(r, s, ids) /\ Good(node, conn, ids)
      /\ ConnOK(s, c, m, ids) /\ c \in Conn(ids) /\ rdb \in [Server -> Maybe(File(ids))]
      /\ conn \in [Server -> Conn(ids)] /\ conn[r].to # r /\ s \in State(ids)
  BY <1>1, Known DEF Inv, Good, NodeOK
<1>3. Recorded(h) /\ Agrees(h, r, s) /\ Brings(h, s, c, m)
  BY <1>1, ToldOf
<1>4. c.q # <<>> /\ IsCommand(cmd) /\ cmd = Head(c.q)
  BY <1>1 DEF ReceiveCommand
<1>5. Streams(s, c, m) /\ cmd \in Cmd
  BY <1>2, <1>4, HeadPhase
<1>6. s.rstate = "connected" /\ c.st = "online" /\ s.off \in Int /\ c.q \in Seq(Msg(ids)) /\ HistOK(h[s.replid])
  BY <1>2, <1>3, <1>5 DEF Streams, State, Conn, Recorded
<1>7. PICK keep \in Kept(Len(s.backlog.buf) + 1) :
          node' = [node EXCEPT ![r] = FeedBuffer(Execute(s, cmd), <<cmd>>, keep)]
  BY <1>1 DEF ReceiveCommand
<1>8. PICK t, cmds, d : t = FeedBuffer(Execute(s, cmd), <<cmd>>, keep) /\ cmds = <<cmd>> /\ d = Read(c)
  OBVIOUS
<1>9. Carries(h[s.replid], s.off, c.q, 1)
  BY <1>3, <1>6 DEF Brings
<1>10. /\ Carries(h[s.replid], s.off + 1, Tail(c.q), 1) /\ cmd = h[s.replid].cmd[s.off + 1]
       /\ s.off + 1 <= h[s.replid].top
  BY <1>4, <1>6, <1>9, CarriesRead
<1>11. Moves(h, h, ids, r, t)
  BY <1>2, <1>3, <1>5, <1>6, <1>7, <1>8, <1>10, Executes
<1>12. t.rstate = "connected" /\ t.replid = s.replid /\ t.off = s.off + 1 /\ t.child = s.child
  BY <1>2, <1>5, <1>6, <1>7, <1>8, ExecuteOK
<1>13. d.to = c.to /\ d.open = c.open /\ d.st = c.st /\ d.q = Tail(c.q)
  BY <1>2, <1>4, <1>8, ReadOK
<1>14. Brings(h, t, d, node[d.to])
  BY <1>6, <1>10, <1>12, <1>13, BringsStream
<1>15. d.to # r /\ (d.open => d.to \in Server) /\ t.child = node[r].child
  BY <1>1, <1>2, <1>12, <1>13, Reached
<1>16. cmds \in Seq(Cmd) /\ Carries(h[node[r].replid], node[r].off, cmds, 1)
  <2>1. cmds \in Seq(Cmd) /\ Len(cmds) = 1 /\ cmds[1] = cmd
    BY <1>5, <1>8
  <2>2. \A j \in 1 .. Len(cmds) : j = 1
    BY <2>1
  <2>3. s.off + (1 + 1 - 1) = s.off + 1
    BY <1>6
  <2>4. \A j \in 1 .. Len(cmds) : cmds[j] = h[s.replid].cmd[s.off + (j + 1 - 1)]
    BY <1>10, <2>1, <2>2, <2>3
  <2>5. s.off + (Len(cmds) + 1 - 1) <= h[s.replid].top
    BY <1>10, <2>1, <2>3
  <2> QED BY <1>1, <2>1, <2>4, <2>5 DEF Carries
<1>17. conn' = [FeedSlaves(conn, r, cmds) EXCEPT ![r] = d] /\ rdb' = rdb
  <2>1. conn' = [FeedSlaves(conn, r, cmds) EXCEPT ![r].q = Tail(@)] /\ rdb' = rdb
    BY <1>1, <1>8 DEF ReceiveCommand
  <2>2. FeedSlaves(conn, r, cmds)[r] = c
    BY <1>1, <1>2, OwnConn
  <2> QED BY <1>8, <2>1, <2>2 DEF Read
<1>18. Tale(h, node', conn', rdb')
  <2>1. node' = [node EXCEPT ![r] = t]
    BY <1>7, <1>8
  <2> QED BY <1>2, <1>11, <1>14, <1>15, <1>16, <1>17, <2>1, TaleFed
<1> QED BY <1>18

\* A lost link keeps the histories.
LEMMA LinkDownTale ==
    ASSUME Inv, NEW h, Tale(h, node, conn, rdb), NEW r \in Server, LinkDown(r)
    PROVE  \E g : Tale(g, node', conn', rdb')
<1>1. PICK s, j : s = node[r] /\ j = ids + 1
  OBVIOUS
<1>2. /\ ids \in Nat /\ NodeOK(r, s, ids) /\ NodeBase(r, s, ids) /\ Good(node, conn, ids)
      /\ rdb \in [Server -> Maybe(File(ids))] /\ ConnOK(s, conn[r], node[conn[r].to], ids)
  BY <1>1, Known DEF Inv, NodeOK
<1>3. Recorded(h) /\ Agrees(h, r, s) /\ Rules(h, r, s)
  BY <1>1, ToldOf
<1>4. Attempts(s) /\ rdb' = rdb /\ s.masterhost # NoServer
  <2>1. Attempts(s) /\ rdb' = rdb
    BY <1>1, <1>2 DEF LinkDown, ConnOK, Idle
  <2> QED BY <1>2, <2>1 DEF Attempts, NodeBase
<1>5. j \in Nat /\ ids <= j /\ j > ids
  BY <1>1, <1>2
<1>6. CASE s.failover = "progress"
  <2>1. PICK t : t = Aborted(s, j)
    OBVIOUS
  <2>2. /\ node' = [node EXCEPT ![r] = t]
        /\ conn' = [DisconnectSlaves(conn, r) EXCEPT ![r] = NoConn]
    BY <1>1, <1>6, <2>1 DEF LinkDown
  <2>3. t.rstate = "none"
    <3>1. StepsUp(s)
      BY <1>4, <1>6 DEF StepsUp
    <3> QED BY <1>1, <1>2, <1>5, <2>1, <3>1, AbortedOK
  <2>4. PICK g : Moves(h, g, ids, r, t)
    BY <1>2, <1>3, <1>5, <2>1, Aborts
  <2>5. Brings(g, t, NoConn, node[NoConn.to])
    BY <2>3, NoConnIs, BringsIdle DEF Attempts
  <2>6. Tale(g, node', conn', rdb')
    BY <1>2, <1>4, <2>2, <2>4, <2>5, NoConnIs, TaleClosed
  <2> QED BY <2>6
<1>7. CASE s.failover # "progress"
  <2>1. PICK t : t = [CacheMaster(s) EXCEPT !.rstate = "connect", !.sync = Nothing]
    OBVIOUS
  <2>2. node' = [node EXCEPT ![r] = t] /\ conn' = [conn EXCEPT ![r] = NoConn]
    BY <1>1, <1>7, <2>1 DEF LinkDown
  <2>3. SameForSlaves(s, t) /\ t.rstate = "connect"
    BY <1>2, <1>4, <2>1, CacheMasterOK
  <2>4. Moves(h, h, ids, r, t)
    BY <1>2, <1>3, <1>4, <2>1, Caches
  <2>5. Brings(h, t, NoConn, node[NoConn.to])
    BY <2>3, NoConnIs, BringsIdle DEF Attempts
  <2>6. t.child = node[r].child
    BY <1>1, <2>3 DEF SameForSlaves
  <2>7. Tale(h, node', conn', rdb')
    BY <1>2, <1>4, <2>2, <2>4, <2>5, <2>6, NoConnIs, TaleKept
  <2> QED BY <2>7
<1> QED BY <1>6, <1>7

\* A refused PSYNC FAILOVER keeps the histories.
LEMMA PsyncFailoverFailsTale ==
    ASSUME Inv, NEW h, Tale(h, node, conn, rdb), NEW m \in Server, NEW r \in Server,
           PsyncFailoverFails(m, r)
    PROVE  \E g : Tale(g, node', conn', rdb')
<1>1. PICK s, j, t : s = node[r] /\ j = ids + 1 /\ t = Aborted(s, j)
  OBVIOUS
<1>2. /\ ids \in Nat /\ NodeOK(r, s, ids) /\ NodeBase(r, s, ids) /\ Good(node, conn, ids)
      /\ rdb \in [Server -> Maybe(File(ids))] /\ conn[r].to # r /\ conn \in [Server -> Conn(ids)]
  BY <1>1, Known DEF Inv, NodeOK, Good
<1>3. Recorded(h) /\ Agrees(h, r, s) /\ Rules(h, r, s)
  BY <1>1, ToldOf
<1>4. /\ node' = [node EXCEPT ![r] = t] /\ rdb' = rdb /\ conn' = DisconnectSlaves(conn, r)
      /\ s.rstate = "connect" /\ s.masterhost = m /\ s.failover = "progress"
  BY <1>1 DEF PsyncFailoverFails
<1>5. j \in Nat /\ ids <= j /\ j > ids
  BY <1>1, <1>2
<1>6. t.rstate = "none"
  <2>1. StepsUp(s)
    BY <1>4, ReplAssumption DEF StepsUp
  <2> QED BY <1>1, <1>2, <1>5, <2>1, AbortedOK
<1>7. PICK g : Moves(h, g, ids, r, t)
  BY <1>1, <1>2, <1>3, <1>5, Aborts
<1>8. ~conn[r].open
  BY <1>1, <1>4, MasterConn DEF Attempts
<1>9. Brings(g, t, conn[r], node[conn[r].to])
  BY <1>6, <1>8, BringsIdle DEF Attempts
<1>10. conn' = [DisconnectSlaves(conn, r) EXCEPT ![r] = conn[r]]
  BY <1>2, <1>4, OwnConn
<1>11. Tale(g, node', conn', rdb')
  <2>1. node' = [node EXCEPT ![r] = t] /\ rdb' = rdb
    BY <1>4
  <2> QED BY <1>2, <1>7, <1>8, <1>9, <1>10, <2>1, TaleClosed
<1> QED BY <1>11

\* Freeing the backlog keeps the histories.
LEMMA FreeBacklogTale ==
    ASSUME Inv, NEW h, Tale(h, node, conn, rdb), NEW m \in Server, FreeBacklog(m)
    PROVE  \E g : Tale(g, node', conn', rdb')
<1>1. PICK s, j, e, t : s = node[m] /\ j = ids + 1 /\ e = Nothing /\ t = NewStart(s, j, e)
  OBVIOUS
<1>2. /\ ids \in Nat /\ NodeOK(m, s, ids) /\ NodeBase(m, s, ids) /\ Good(node, conn, ids)
      /\ rdb \in [Server -> Maybe(File(ids))] /\ conn[m].to # m /\ conn \in [Server -> Conn(ids)]
  BY <1>1, Known DEF Inv, NodeOK, Good
<1>3. Recorded(h) /\ Agrees(h, m, s)
  BY <1>1, ToldOf
<1>4. /\ node' = [node EXCEPT ![m] = t] /\ rdb' = rdb /\ conn' = conn
      /\ s.masterhost = NoServer
      /\ \A r \in Server : ~(conn[r].to = m /\ conn[r].open)
  BY <1>1 DEF FreeBacklog, Slaves, NewStart
<1>5. j \in Nat /\ ids <= j /\ j \in 1 .. j /\ j > ids
  BY <1>1, <1>2
<1>6. t.rstate = "none"
  <2>1. e \in {Nothing, NewBacklog(s.off)}
    BY <1>1
  <2> QED BY <1>1, <1>2, <1>4, <1>5, <2>1, NewHistoryOK
<1>7. PICK g : Moves(h, g, ids, m, t)
  <2>1. e \in {Nothing, NewBacklog(s.off)} /\ s.masterhost = NoServer
    BY <1>1, <1>4
  <2> QED BY <1>1, <1>2, <1>3, <1>5, <2>1, Starts
<1>8. ~conn[m].open
  <2>1. ~Attempts(node[m])
    BY <1>1, <1>2, <1>4 DEF NodeBase, Attempts
  <2> QED BY <2>1, MasterConn
<1>9. Brings(g, t, conn[m], node[conn[m].to])
  BY <1>6, <1>8, BringsIdle DEF Attempts
<1>10. conn' = [conn EXCEPT ![m] = conn[m]]
  BY <1>2, <1>4, OwnConn
<1>11. Tale(g, node', conn', rdb')
  <2>1. /\ node' = [node EXCEPT ![m] = t] /\ rdb' = rdb
        /\ \A r \in Server : ~(conn[r].to = m /\ conn[r].open)
    BY <1>4
  <2> QED BY <1>2, <1>7, <1>8, <1>9, <1>10, <2>1, TaleKept
<1> QED BY <1>11

\* A FAILOVER has no part in the histories.
LEMMA TargetTale ==
    ASSUME NEW i, NEW s \in State(i), NEW f, NEW x, NEW t, t = Targeting(s, f, x)
    PROVE  SameTale(s, t) /\ t.rstate = s.rstate
BY DEF SameTale, Targeting, State

\* A state with the same histories.
LEMMA MovesSame ==
    ASSUME NEW h, NEW g, NEW i, NEW p, NEW s, NEW t, SameTale(s, t), Moves(h, g, i, p, s)
    PROVE  Moves(h, g, i, p, t)
BY TaleStays DEF Moves

\* An instance whose histories stay.
LEMMA MovesNot ==
    ASSUME NEW h, Recorded(h), NEW i \in Nat, NEW p, NEW s, Agrees(h, p, s), Rules(h, p, s)
    PROVE  Moves(h, h, i, p, s)
BY NoChange DEF Moves

\* The start of a FAILOVER keeps the histories.
LEMMA FailoverTale ==
    ASSUME Inv, NEW h, Tale(h, node, conn, rdb), NEW m \in Server, NEW a \in Server \cup {NoServer},
           Failover(m, a)
    PROVE  \E g : Tale(g, node', conn', rdb')
<1>1. PICK s, f, t : s = node[m] /\ f = "wait" /\ t = Targeting(s, f, a)
  OBVIOUS
<1>2. /\ ids \in Nat /\ s \in State(ids) /\ NodeBase(m, s, ids) /\ Good(node, conn, ids)
      /\ rdb \in [Server -> Maybe(File(ids))] /\ conn[m].to # m /\ conn \in [Server -> Conn(ids)]
  BY <1>1, Known DEF Inv, NodeOK, Good
<1>3. Recorded(h) /\ Agrees(h, m, s) /\ Rules(h, m, s)
  BY <1>1, ToldOf
<1>4. /\ node' = [node EXCEPT ![m] = t] /\ rdb' = rdb /\ conn' = conn /\ s.masterhost = NoServer
  BY <1>1 DEF Failover, Targeting
<1>5. SameTale(s, t) /\ t.rstate = s.rstate /\ s.rstate = "none"
  <2>1. SameTale(s, t) /\ t.rstate = s.rstate
    BY <1>1, <1>2, TargetTale
  <2> QED BY <1>2, <1>4, <2>1 DEF NodeBase
<1>6. Moves(h, h, ids, m, t)
  BY <1>2, <1>3, <1>5, MovesSame, MovesNot
<1>7. ~conn[m].open
  BY <1>1, <1>5, MasterConn DEF Attempts
<1>8. Brings(h, t, conn[m], node[conn[m].to])
  BY <1>5, <1>7, BringsIdle DEF Attempts
<1>9. conn' = [conn EXCEPT ![m] = conn[m]]
  BY <1>2, <1>4, OwnConn
<1>10. t.child = node[m].child
  BY <1>1, <1>5 DEF SameTale
<1>11. Tale(h, node', conn', rdb')
  <2>1. node' = [node EXCEPT ![m] = t] /\ rdb' = rdb
    BY <1>4
  <2> QED BY <1>2, <1>6, <1>7, <1>8, <1>9, <1>10, <2>1, TaleKept
<1> QED BY <1>11

\* The demotion of a FAILOVER's master keeps the histories.
LEMMA FailoverStartTale ==
    ASSUME Inv, NEW h, Tale(h, node, conn, rdb), NEW m \in Server, FailoverStart(m)
    PROVE  \E g : Tale(g, node', conn', rdb')
<1>1. PICK s : s = node[m]
  OBVIOUS
<1>2. /\ ids \in Nat /\ NodeOK(m, s, ids) /\ NodeBase(m, s, ids) /\ Good(node, conn, ids)
      /\ rdb \in [Server -> Maybe(File(ids))] /\ conn[m].to # m /\ conn \in [Server -> Conn(ids)]
  BY <1>1, Known DEF Inv, NodeOK, Good
<1>3. Recorded(h) /\ Agrees(h, m, s) /\ Rules(h, m, s)
  BY <1>1, ToldOf
<1>4. rdb' = rdb /\ conn' = conn /\ s.rstate = "none"
  BY <1>1, <1>2 DEF FailoverStart, NodeOK
<1>5. PICK r \in Server : /\ conn[r].to = m
                          /\ node' = [node EXCEPT ![m] = [SetMaster(s, r) EXCEPT
                                            !.failover = "progress", !.target = r]]
  BY <1>1 DEF FailoverStart, Slaves
<1>6. r # m
  BY <1>2, <1>5
<1>7. PICK u, f, t : u = SetMaster(s, r) /\ f = "progress" /\ t = Targeting(u, f, r)
  OBVIOUS
<1>8. NodeBase(m, u, ids) /\ SameForSlaves(s, u) /\ u.rstate = "connect" /\ u.failover = s.failover
  BY <1>2, <1>6, <1>7, SetMasterOK
<1>9. SameTale(u, t) /\ t.rstate = u.rstate
  BY <1>7, <1>8, TargetTale DEF NodeBase
<1>10. PICK g : Moves(h, g, ids, m, u)
  BY <1>2, <1>3, <1>7, Demotes
<1>11. Moves(h, g, ids, m, t)
  BY <1>9, <1>10, MovesSame
<1>12. ~conn[m].open
  BY <1>1, <1>4, MasterConn DEF Attempts
<1>13. Brings(g, t, conn[m], node[conn[m].to])
  BY <1>8, <1>9, <1>12, BringsIdle DEF Attempts
<1>14. conn' = [conn EXCEPT ![m] = conn[m]]
  BY <1>2, <1>4, OwnConn
<1>15. t.child = node[m].child
  BY <1>1, <1>8, <1>9 DEF SameTale, SameForSlaves
<1>16. node' = [node EXCEPT ![m] = t]
  BY <1>5, <1>7 DEF Targeting
<1>17. Tale(g, node', conn', rdb)
  BY <1>2, <1>11, <1>12, <1>13, <1>14, <1>15, <1>16, TaleKept
<1> QED BY <1>4, <1>17

\* Giving up a FAILOVER keeps the histories.
LEMMA FailoverAbortTale ==
    ASSUME Inv, NEW h, Tale(h, node, conn, rdb), NEW m \in Server, FailoverAbort(m)
    PROVE  \E g : Tale(g, node', conn', rdb')
<1>1. PICK s, j, t : s = node[m] /\ j = ids + 1 /\ t = Aborted(s, j)
  OBVIOUS
<1>2. /\ ids \in Nat /\ NodeOK(m, s, ids) /\ NodeBase(m, s, ids) /\ Good(node, conn, ids)
      /\ rdb \in [Server -> Maybe(File(ids))] /\ conn[m].to # m /\ conn \in [Server -> Conn(ids)]
  BY <1>1, Known DEF Inv, NodeOK, Good
<1>3. Recorded(h) /\ Agrees(h, m, s) /\ Rules(h, m, s)
  BY <1>1, ToldOf
<1>4. /\ node' = [node EXCEPT ![m] = t] /\ rdb' = rdb /\ s.failover # "none"
      /\ conn' = IF StepsUp(s) THEN [DisconnectSlaves(conn, m) EXCEPT ![m] = NoConn] ELSE conn
  BY <1>1 DEF FailoverAbort
<1>5. j \in Nat /\ ids <= j /\ j > ids
  BY <1>1, <1>2
<1>6. node' = [node EXCEPT ![m] = t] /\ rdb' = rdb
  BY <1>4
<1>7. CASE StepsUp(s)
  <2>1. conn' = [DisconnectSlaves(conn, m) EXCEPT ![m] = NoConn]
    BY <1>4, <1>7
  <2>2. t.rstate = "none"
    BY <1>1, <1>2, <1>5, <1>7, AbortedOK
  <2>3. PICK g : Moves(h, g, ids, m, t)
    BY <1>1, <1>2, <1>3, <1>5, Aborts
  <2>4. Brings(g, t, NoConn, node[NoConn.to])
    BY <2>2, NoConnIs, BringsIdle DEF Attempts
  <2>5. Tale(g, node', conn', rdb')
    BY <1>2, <1>6, <2>1, <2>3, <2>4, NoConnIs, TaleClosed
  <2> QED BY <2>5
<1>8. CASE ~StepsUp(s)
  <2>1. conn' = [conn EXCEPT ![m] = conn[m]]
    <3>1. conn' = conn
      BY <1>4, <1>8
    <3> QED BY <1>2, <3>1, OwnConn
  <2>2. s.rstate = "none"
    <3>1. s.failover \in {"none", "wait", "progress"}
      BY <1>2 DEF NodeBase, State
    <3> QED BY <1>2, <1>4, <1>8, <3>1 DEF StepsUp, NodeOK, NodeBase
  <2>3. Moves(h, h, ids, m, t) /\ SameTale(s, t)
    BY <1>1, <1>2, <1>3, <1>5, <1>8, Aborts
  <2>4. t.rstate = s.rstate
    <3>1. s \in State(ids)
      BY <1>2 DEF NodeBase
    <3> QED BY <1>1, <1>8, <3>1 DEF Aborted, State
  <2>5. ~conn[m].open
    BY <1>1, <2>2, MasterConn DEF Attempts
  <2>6. Brings(h, t, conn[m], node[conn[m].to])
    BY <2>2, <2>4, <2>5, BringsIdle DEF Attempts
  <2>7. t.child = node[m].child
    BY <1>1, <2>3 DEF SameTale
  <2>8. Tale(h, node', conn', rdb')
    BY <1>2, <1>6, <2>1, <2>3, <2>5, <2>6, <2>7, TaleKept
  <2> QED BY <2>8
<1> QED BY <1>7, <1>8

-----------------------------------------------------------------------------
(* The steps of a BGSAVE for replicas                                      *)

\* The connections of the slaves of p change, and p's child.
LEMMA TaleSlaves ==
    ASSUME NEW nd, NEW cn, NEW i, Good(nd, cn, i), NEW fs \in [Server -> Maybe(File(i))],
           NEW h, NEW g, Tale(h, nd, cn, fs), NEW p \in Server, NEW t, Moves(h, g, i, p, t),
           SameReplica(nd[p], t), NEW cd,
           \A r \in Server : cn[r].to = p => cd[r].to = p /\ Brings(g, nd[r], cd[r], t),
           \A r \in Server : cn[r].to # p => cd[r] = cn[r]
    PROVE  Tale(g, [nd EXCEPT ![p] = t], cd, fs)
<1>1. /\ Told(h, nd, cn) /\ Stored(h, fs) /\ Recorded(g) /\ Evolves(h, g, i, p) /\ Agrees(g, p, t)
      /\ Rules(g, p, t) /\ i \in Nat /\ Recorded(h)
  BY DEF Tale, Moves, Good, Told
<1>2. Stored(g, fs)
  BY <1>1, StoredStays
<1>3. PICK s, c, m : s = nd[p] /\ c = cn[p] /\ m = nd[cn[p].to]
  OBVIOUS
<1>4. s \in State(i) /\ ConnOK(s, c, m, i) /\ Brings(h, s, c, m) /\ c.to # p
  BY <1>1, <1>3, Reached DEF Good, Told
<1>5. c.open => c.to \in Server /\ m \in State(i)
  BY <1>3, Reached DEF Good
<1>6. Brings(g, s, c, m)
  BY <1>1, <1>4, <1>5, BringsStays
<1>7. Brings(g, t, c, m)
  BY <1>3, <1>6 DEF Brings, SameReplica
<1>8. cd[p] = c
  BY <1>3, <1>4
<1>9. \A r \in Server \ {p} :
          IF cn[r].to = p THEN cd[r].to = p /\ Brings(g, nd[r], cd[r], t) ELSE cd[r] = cn[r]
  OBVIOUS
<1>10. cd[p].to # p /\ Brings(g, t, cd[p], nd[cd[p].to]) /\ (cd[p].open => cd[p].to \in Server)
  BY <1>3, <1>4, <1>5, <1>7, <1>8
<1>11. Told(g, [nd EXCEPT ![p] = t], cd)
  BY <1>1, <1>9, <1>10, ToldOne
<1> QED BY <1>2, <1>11 DEF Tale

\* A closed connection still brings what is on its way.
LEMMA BringsDropped ==
    ASSUME NEW h, NEW i, NEW s, NEW c \in Conn(i), NEW m, NEW w, Brings(h, s, c, m)
    PROVE  Brings(h, s, Dropped(c), w) /\ Dropped(c).to = c.to
<1>1. PICK d, f : d = Dropped(c) /\ f = FALSE
  OBVIOUS
<1>2. d = [c EXCEPT !.open = f]
  BY <1>1 DEF Dropped
<1>3. d.to = c.to /\ d.open = f /\ d.st = c.st /\ d.q = c.q
  BY <1>2 DEF Conn
<1>4. ~d.open
  BY <1>1, <1>3
<1>5. Brings(h, s, d, w)
  BY <1>3, <1>4 DEF Brings
<1> QED BY <1>1, <1>3, <1>5

\* Only a slave that waits for the end of a BGSAVE needs the child.
LEMMA BringsLeft ==
    ASSUME NEW h, NEW s, NEW c, NEW m, NEW w, c.open => c.st # "wait_end", Brings(h, s, c, m)
    PROVE  Brings(h, s, c, w)
BY DEF Brings

\* A slave of p has its part in the histories.
LEMMA SlaveOf ==
    ASSUME Inv, NEW h, Tale(h, node, conn, rdb), NEW g, NEW m \in Server, NEW t, Moves(h, g, ids, m, t),
           NEW r \in Server, conn[r].to = m
    PROVE  /\ Brings(g, node[r], conn[r], node[m]) /\ ConnOK(node[r], conn[r], node[m], ids)
           /\ node[r] \in State(ids) /\ conn[r] \in Conn(ids)
<1>1. PICK s, c, n : s = node[r] /\ c = conn[r] /\ n = node[m]
  OBVIOUS
<1>2. /\ ids \in Nat /\ s \in State(ids) /\ c \in Conn(ids) /\ ConnOK(s, c, n, ids) /\ n \in State(ids)
      /\ Recorded(h) /\ Brings(h, s, c, n)
  BY <1>1, Known, ToldOf
<1>3. Recorded(g) /\ Evolves(h, g, ids, m)
  BY DEF Moves
<1>4. Brings(g, s, c, n)
  BY <1>2, <1>3, BringsStays
<1> QED BY <1>1, <1>2, <1>4

\* A fork that fails keeps the histories.
LEMMA StartBgsaveFailsTale ==
    ASSUME Inv, NEW h, Tale(h, node, conn, rdb), NEW m \in Server, StartBgsaveFails(m)
    PROVE  \E g : Tale(g, node', conn', rdb')
<1>1. PICK s : s = node[m]
  OBVIOUS
<1>2. /\ ids \in Nat /\ Good(node, conn, ids) /\ rdb \in [Server -> Maybe(File(ids))]
      /\ node \in [Server -> State(ids)]
  BY <1>1, Known DEF Inv, Good
<1>3. Moves(h, h, ids, m, s)
  BY <1>1, <1>2, ToldOf, MovesNot
<1> DEFINE F(r) == IF conn[r].to = m /\ conn[r].open /\ conn[r].st = "wait_start"
                   THEN Dropped(conn[r]) ELSE conn[r]
<1>4. node' = node /\ rdb' = rdb /\ conn' = [r \in Server |-> F(r)]
  BY DEF StartBgsaveFails, Waiting, Slaves, Dropped
<1>5. ASSUME NEW r \in Server, conn[r].to = m
      PROVE  F(r).to = m /\ Brings(h, node[r], F(r), s)
  <2>1. Brings(h, node[r], conn[r], s) /\ conn[r] \in Conn(ids)
    BY <1>1, <1>3, <1>5, SlaveOf
  <2> QED BY <1>5, <2>1, BringsDropped
<1>6. \A r \in Server : conn[r].to # m => F(r) = conn[r]
  OBVIOUS
<1> HIDE DEF F
<1>7. PICK cd : cd = conn' /\ \A r \in Server : cd[r] = F(r)
  BY <1>4
<1>8. Tale(h, [node EXCEPT ![m] = s], cd, rdb)
  <2>1. SameReplica(node[m], s)
    BY <1>1 DEF SameReplica
  <2>2. /\ \A r \in Server : conn[r].to = m => cd[r].to = m /\ Brings(h, node[r], cd[r], s)
        /\ \A r \in Server : conn[r].to # m => cd[r] = conn[r]
    BY <1>5, <1>6, <1>7
  <2> QED BY <1>2, <1>3, <2>1, <2>2, TaleSlaves
<1>9. [node EXCEPT ![m] = s] = node
  BY <1>1, <1>2
<1> QED BY <1>4, <1>7, <1>8, <1>9

\* The state without the child.
LEMMA ChildEnds ==
    ASSUME Inv, NEW h, Tale(h, node, conn, rdb), NEW m \in Server, NEW s, s = node[m], NEW t,
           t = [s EXCEPT !.child = Nothing]
    PROVE  Moves(h, h, ids, m, t) /\ SameReplica(s, t)
<1>1. PICK e : e = Nothing
  OBVIOUS
<1>2. ids \in Nat /\ s \in State(ids) /\ t = [s EXCEPT !.child = e]
  BY <1>1, Known
<1>3. Moves(h, h, ids, m, s)
  BY <1>2, ToldOf, MovesNot
<1>4. e # Nothing => SentTells(h, e)
  BY <1>1
<1>5. Moves(h, h, ids, m, t)
  BY <1>2, <1>3, <1>4, ChildTale
<1>6. SameReplica(s, t)
  BY <1>2 DEF SameReplica, State
<1> QED BY <1>5, <1>6

\* A child that fails keeps the histories.
LEMMA BgsaveFailsTale ==
    ASSUME Inv, NEW h, Tale(h, node, conn, rdb), NEW m \in Server, BgsaveFails(m)
    PROVE  \E g : Tale(g, node', conn', rdb')
<1>1. PICK s, t : s = node[m] /\ t = [s EXCEPT !.child = Nothing]
  OBVIOUS
<1>2. /\ ids \in Nat /\ Good(node, conn, ids) /\ rdb \in [Server -> Maybe(File(ids))]
  BY <1>1, Known DEF Inv, Good
<1>3. Moves(h, h, ids, m, t) /\ SameReplica(s, t)
  BY <1>1, ChildEnds
<1> DEFINE F(r) == IF conn[r].to = m /\ conn[r].open /\ conn[r].st = "wait_end"
                   THEN Dropped(conn[r]) ELSE conn[r]
<1>4. rdb' = rdb /\ conn' = [r \in Server |-> F(r)] /\ node' = [node EXCEPT ![m] = t]
  BY <1>1 DEF BgsaveFails, Waiting, Slaves, Dropped
<1>5. ASSUME NEW r \in Server, conn[r].to = m
      PROVE  F(r).to = m /\ Brings(h, node[r], F(r), t)
  <2>1. Brings(h, node[r], conn[r], s) /\ conn[r] \in Conn(ids)
    BY <1>1, <1>3, <1>5, SlaveOf
  <2>2. CASE conn[r].open /\ conn[r].st = "wait_end"
    BY <1>5, <2>1, <2>2, BringsDropped
  <2>3. CASE ~(conn[r].open /\ conn[r].st = "wait_end")
    <3>1. Brings(h, node[r], conn[r], t)
      BY <2>1, <2>3, BringsLeft
    <3> QED BY <1>5, <2>3, <3>1
  <2> QED BY <2>2, <2>3
<1>6. \A r \in Server : conn[r].to # m => F(r) = conn[r]
  OBVIOUS
<1> HIDE DEF F
<1>7. PICK cd : cd = conn' /\ \A r \in Server : cd[r] = F(r)
  BY <1>4
<1>8. Tale(h, [node EXCEPT ![m] = t], cd, rdb)
  <2>1. SameReplica(node[m], t)
    BY <1>1, <1>3
  <2>2. /\ \A r \in Server : conn[r].to = m => cd[r].to = m /\ Brings(h, node[r], cd[r], t)
        /\ \A r \in Server : conn[r].to # m => cd[r] = conn[r]
    BY <1>5, <1>6, <1>7
  <2> QED BY <1>2, <1>3, <2>1, <2>2, TaleSlaves
<1> QED BY <1>4, <1>7, <1>8

\* What is collected from the fork on starts with the child.
LEMMA AnnounceTale ==
    ASSUME NEW h, Recorded(h), NEW i \in Nat, NEW s, NEW c, NEW m, NEW w, NEW f \in File(i), ConnOK(s, c, m, i),
           c.open, c.st = "wait_start", w.child = f, SentTells(h, f)
    PROVE  Brings(h, s, Announce(c, f), w)
<1>1. PICK d, q : d = Announce(c, f) /\ q = FullResync(f)
  OBVIOUS
<1>2. c \in Conn(i) /\ c.out = <<>> /\ s.rstate = "receive_psync"
  BY OpenPhase DEF Queued
<1>3. d.st = "wait_end" /\ d.out = <<>>
  <2>1. d = [c EXCEPT !.st = "wait_end", !.q = q]
    BY <1>1 DEF Announce
  <2> QED BY <1>2, <2>1 DEF Conn
<1>4. f.off \in Nat /\ f.off <= h[f.id].top /\ h[f.id].top \in Int
  BY DEF File, SentTells, Tells, Reaches, Recorded, HistOK, History
<1>5. Len(d.out) = 0
  BY <1>3
<1>6. Carries(h[f.id], f.off, d.out, 1)
  <2>1. f.off + (Len(d.out) + 1 - 1) <= h[f.id].top
    BY <1>4, <1>5
  <2>2. 1 .. Len(d.out) = {}
    BY <1>5
  <2> QED BY <2>1, <2>2 DEF Carries
<1>7. Brings(h, s, d, w)
  BY <1>2, <1>3, <1>6 DEF Brings
<1> QED BY <1>1, <1>7

\* A fork keeps the histories.
LEMMA StartBgsaveTale ==
    ASSUME Inv, NEW h, Tale(h, node, conn, rdb), NEW m \in Server, StartBgsave(m)
    PROVE  \E g : Tale(g, node', conn', rdb')
<1>1. PICK s, f, u, t : s = node[m] /\ f = SnapshotOf(s) /\ u = [s EXCEPT !.seldb = NoDb] /\ t = [u EXCEPT !.child = f]
  OBVIOUS
<1>2. /\ ids \in Nat /\ NodeOK(m, s, ids) /\ NodeBase(m, s, ids) /\ Good(node, conn, ids) /\ s \in State(ids)
      /\ rdb \in [Server -> Maybe(File(ids))]
  BY <1>1, Known DEF Inv, NodeOK
<1>3. Recorded(h) /\ Agrees(h, m, s) /\ Rules(h, m, s)
  BY <1>1, ToldOf
<1>4. f \in File(ids)
  BY <1>1, <1>2, SnapshotOK
<1>5. s.child = Nothing /\ s.backlog # Nothing
  <2>1. PICK r \in Server : conn[r].to = m /\ conn[r].open
    BY DEF StartBgsave, Waiting, Slaves
  <2>2. s.backlog # Nothing
    BY <1>1, <1>2, <2>1, Reached
  <2>3. ~s.child.present
    BY <1>1 DEF StartBgsave
  <2> QED BY <1>2, <2>2, <2>3, PresentFields
<1>6. SentTells(h, f)
  <2>1. StreamDb(s) # NoDb
    BY <1>1 DEF StartBgsave
  <2> QED BY <1>1, <1>2, <1>3, <1>5, <2>1, SnapshotTells
<1>7. PICK g : Moves(h, g, ids, m, u)
  BY <1>1, <1>2, <1>3, <1>5, Loosens
<1>8. SentTells(g, f) /\ Recorded(g)
  BY <1>2, <1>3, <1>4, <1>6, <1>7, FileStays DEF Moves
<1>9. Moves(h, g, ids, m, t)
  <2>1. u \in State(ids)
    BY <1>1, <1>2 DEF State
  <2> QED BY <1>1, <1>2, <1>7, <1>8, <2>1, ChildTale
<1>10. SameReplica(s, t) /\ t.child = f
  <2>1. t = Forked(s, f, NoDb)
    BY <1>1, <1>2 DEF Forked, State
  <2> QED BY <1>2, <2>1 DEF Forked, SameReplica, State
<1> DEFINE F(r) == IF conn[r].to = m /\ conn[r].open /\ conn[r].st = "wait_start"
                   THEN Announce(conn[r], f) ELSE conn[r]
<1>11. rdb' = rdb /\ conn' = [r \in Server |-> F(r)]
  BY <1>1 DEF StartBgsave, Waiting, Slaves, Announce
<1>12. node' = [node EXCEPT ![m] = t]
  <2>1. t = [s EXCEPT !.child = f, !.seldb = NoDb]
    BY <1>1, <1>2 DEF State
  <2> QED BY <1>1, <2>1 DEF StartBgsave
<1>13. ASSUME NEW r \in Server, conn[r].to = m
       PROVE  F(r).to = m /\ Brings(g, node[r], F(r), t)
  <2>1. /\ Brings(g, node[r], conn[r], s) /\ ConnOK(node[r], conn[r], s, ids)
        /\ conn[r] \in Conn(ids)
    BY <1>1, <1>9, <1>13, SlaveOf
  <2>2. CASE conn[r].open /\ conn[r].st = "wait_start"
    <3>1. Brings(g, node[r], Announce(conn[r], f), t)
      BY <1>2, <1>4, <1>8, <1>10, <2>1, <2>2, AnnounceTale
    <3>2. PICK q : q = FullResync(f)
      OBVIOUS
    <3>3. Announce(conn[r], f).to = m
      <4>1. Announce(conn[r], f) = [conn[r] EXCEPT !.st = "wait_end", !.q = q]
        BY <3>2 DEF Announce
      <4> QED BY <1>13, <2>1, <4>1 DEF Conn
    <3> QED BY <1>13, <2>2, <3>1, <3>3
  <2>3. CASE ~(conn[r].open /\ conn[r].st = "wait_start")
    <3>1. conn[r].open => conn[r].st # "wait_end"
      BY <1>5, <2>1, OpenPhase
    <3>2. Brings(g, node[r], conn[r], t)
      BY <2>1, <3>1, BringsLeft
    <3> QED BY <1>13, <2>3, <3>2
  <2> QED BY <2>2, <2>3
<1>14. \A r \in Server : conn[r].to # m => F(r) = conn[r]
  OBVIOUS
<1> HIDE DEF F
<1>15. PICK cd : cd = conn' /\ \A r \in Server : cd[r] = F(r)
  BY <1>11
<1>16. Tale(g, [node EXCEPT ![m] = t], cd, rdb)
  <2>1. SameReplica(node[m], t)
    BY <1>1, <1>10
  <2>2. /\ \A r \in Server : conn[r].to = m => cd[r].to = m /\ Brings(g, node[r], cd[r], t)
        /\ \A r \in Server : conn[r].to # m => cd[r] = conn[r]
    BY <1>13, <1>14, <1>15
  <2> QED BY <1>2, <1>9, <2>1, <2>2, TaleSlaves
<1> QED BY <1>11, <1>12, <1>15, <1>16

\* A sequence that follows others.
LEMMA CarriesBehind ==
    ASSUME NEW H, HistOK(H), NEW o \in Int, NEW S, NEW z \in Seq(S), NEW x \in Seq(S), Carries(H, o, x, 1),
           NEW k, k = Len(z) + 1
    PROVE  Carries(H, o, z \o x, k)
<1>1. PICK p : p = z \o x
  OBVIOUS
<1>2. /\ Len(z) \in Nat /\ Len(x) \in Nat /\ Len(p) = Len(z) + Len(x) /\ H.top \in Int
      /\ \A j \in 1 .. Len(p) : j > Len(z) => p[j] = x[j - Len(z)]
  BY <1>1 DEF HistOK, History
<1>3. o + (Len(p) + 1 - k) <= H.top
  <2>1. o + (Len(x) + 1 - 1) <= H.top
    BY DEF Carries
  <2> QED BY <1>2, <2>1
<1>4. ASSUME NEW j \in k .. Len(p)
      PROVE  p[j] = H.cmd[o + (j + 1 - k)]
  <2>1. PICK l : l = j - Len(z)
    OBVIOUS
  <2>2. l \in 1 .. Len(x) /\ j \in 1 .. Len(p) /\ j > Len(z) /\ l + 1 - 1 = j + 1 - k
    BY <1>2, <2>1
  <2>3. p[j] = x[l] /\ x[l] = H.cmd[o + (l + 1 - 1)]
    BY <1>2, <2>1, <2>2 DEF Carries
  <2> QED BY <2>2, <2>3
<1> QED BY <1>1, <1>3, <1>4 DEF Carries

\* The file, and what was collected since the fork, is on its way.
LEMMA DeliveredTale ==
    ASSUME NEW h, Recorded(h), NEW i \in Nat, NEW s \in State(i), NEW c, NEW m, NEW w, NEW f \in File(i),
           ConnOK(s, c, m, i), c.open, c.st = "wait_end", m.child = f, SentTells(h, f),
           Brings(h, s, c, m)
    PROVE  Brings(h, s, Delivered(c, f), w)
<1>1. PICK d, q, x, p, e, out : /\ d = Delivered(c, f) /\ q = c.q /\ x = [op |-> "rdb", file |-> f]
                                /\ p = c.q \o <<[op |-> "rdb", file |-> f]>> \o c.out /\ e = <<>>
                                /\ out = c.out
  OBVIOUS
<1>2. c \in Conn(i) /\ (Announced(s, c, m, i) \/ AwaitsFile(s, c, m))
  BY OpenPhase
<1>3. q \in Seq(Msg(i)) /\ out \in Seq(Cmd) /\ x \in RdbMsg(i) /\ p = Joined(q, x, out) /\ x.file = f
  BY <1>1, <1>2 DEF Conn, RdbMsg, Joined
<1>4. /\ p \in Seq(Msg(i)) /\ Len(q) \in Nat
      /\ \A j \in 1 .. Len(q) : p[j] = q[j]
      /\ p[Len(q) + 1] = x
  BY SMTT(30), <1>3, Delivers
<1>5. d.st = "online" /\ d.q = p
  <2>1. d = [c EXCEPT !.st = "online", !.out = e, !.q = p]
    BY <1>1 DEF Delivered
  <2> QED BY <1>2, <2>1 DEF Conn
<1>6. HistOK(h[f.id]) /\ f.off \in Int
  BY DEF Recorded, File
<1>7. Carries(h[f.id], f.off, out, 1)
  BY <1>1 DEF Brings
<1>8. Carries(h[f.id], f.off, p, Len(q) + 2)
  <2>1. PICK y, z, k : y = <<x>> /\ z = q \o y /\ p = z \o out /\ k = Len(z) + 1
    BY <1>3 DEF Joined
  <2>2. x \in Msg(i) /\ Cmd \subseteq Msg(i)
    BY <1>3 DEF Msg
  <2>3. y \in Seq(Msg(i)) /\ Len(y) = 1
    BY <2>1, <2>2
  <2>4. z \in Seq(Msg(i)) /\ Len(z) = Len(q) + 1
    BY <1>3, <2>1, <2>3
  <2>5. out \in Seq(Msg(i))
    BY <1>3, <2>2
  <2>6. Carries(h[f.id], f.off, p, k)
    BY <1>6, <1>7, <2>1, <2>4, <2>5, CarriesBehind
  <2>7. k = Len(q) + 2
    BY <1>4, <2>1, <2>4
  <2> QED BY <2>6, <2>7
<1>9. CASE Announced(s, c, m, i)
  <2>1. /\ Len(q) = 1 /\ q[1] \in FullMsg(i) /\ s.rstate = "receive_psync"
        /\ f.id = q[1].id /\ f.off = q[1].off
    BY <1>1, <1>9 DEF Announced, Collects
  <2>2. p[1] = q[1] /\ p[2] = x /\ Carries(h[f.id], f.off, p, 3) /\ p[1].op = "fullresync"
    BY <1>4, <1>8, <2>1 DEF FullMsg
  <2>3. FileFirst(h, p, 2, p[1])
    <3>1. 2 + 1 = 3
      OBVIOUS
    <3> QED BY <1>3, <2>1, <2>2, <3>1 DEF FileFirst
  <2>4. Brings(h, s, d, w)
    BY <1>5, <2>1, <2>2, <2>3 DEF Brings
  <2> QED BY <1>1, <2>4
<1>10. CASE AwaitsFile(s, c, m)
  <2>1. Len(q) = 0 /\ s.rstate = "transfer" /\ f.id = s.sync.id /\ f.off = s.sync.off
    BY <1>1, <1>10 DEF AwaitsFile, Collects
  <2>2. p[1] = x /\ Carries(h[f.id], f.off, p, 2)
    BY <1>4, <1>8, <2>1
  <2>3. FileFirst(h, p, 1, s.sync)
    <3>1. 1 + 1 = 2
      OBVIOUS
    <3> QED BY <1>3, <2>1, <2>2, <3>1 DEF FileFirst
  <2>4. Brings(h, s, d, w)
    BY <1>5, <2>1, <2>3 DEF Brings
  <2> QED BY <1>1, <2>4
<1> QED BY <1>2, <1>9, <1>10

\* A child that ends well keeps the histories.
LEMMA BgsaveDoneTale ==
    ASSUME Inv, NEW h, Tale(h, node, conn, rdb), NEW m \in Server, BgsaveDone(m)
    PROVE  \E g : Tale(g, node', conn', rdb')
<1>1. PICK s, f, t : s = node[m] /\ f = s.child /\ t = [s EXCEPT !.child = Nothing]
  OBVIOUS
<1>2. /\ ids \in Nat /\ Good(node, conn, ids) /\ s \in State(ids)
      /\ rdb \in [Server -> Maybe(File(ids))]
  BY <1>1, Known DEF Inv, Good
<1>3. Moves(h, h, ids, m, t) /\ SameReplica(s, t)
  BY <1>1, ChildEnds
<1>4. Recorded(h) /\ Agrees(h, m, s)
  BY <1>1, ToldOf
<1>5. f \in File(ids) /\ SentTells(h, f)
  <2>1. s.child.present
    BY <1>1 DEF BgsaveDone
  <2> QED BY <1>1, <1>2, <1>4, <2>1, PresentFields DEF Agrees
<1> DEFINE F(r) == IF conn[r].to = m /\ conn[r].open /\ conn[r].st = "wait_end"
                   THEN Delivered(conn[r], f) ELSE conn[r]
<1>6. /\ rdb' = [rdb EXCEPT ![m] = f] /\ conn' = [r \in Server |-> F(r)]
      /\ node' = [node EXCEPT ![m] = t]
  BY <1>1 DEF BgsaveDone, Waiting, Slaves, Delivered
<1>7. ASSUME NEW r \in Server, conn[r].to = m
      PROVE  F(r).to = m /\ Brings(h, node[r], F(r), t)
  <2>1. /\ Brings(h, node[r], conn[r], s) /\ ConnOK(node[r], conn[r], s, ids)
        /\ conn[r] \in Conn(ids) /\ node[r] \in State(ids)
    BY <1>1, <1>3, <1>7, SlaveOf
  <2>2. CASE conn[r].open /\ conn[r].st = "wait_end"
    <3>1. PICK n, c : n = node[r] /\ c = conn[r]
      OBVIOUS
    <3>2. n \in State(ids) /\ ConnOK(n, c, s, ids) /\ c.open /\ c.st = "wait_end" /\ Brings(h, n, c, s) /\ s.child = f
      BY <1>1, <2>1, <2>2, <3>1
    <3>3. Brings(h, n, Delivered(c, f), t)
      BY <1>2, <1>4, <1>5, <3>2, DeliveredTale
    <3>4. Delivered(c, f).to = c.to
      <4>1. PICK e, q : e = <<>> /\ q = c.q \o <<[op |-> "rdb", file |-> f]>> \o c.out
        OBVIOUS
      <4>2. Delivered(c, f) = [c EXCEPT !.st = "online", !.out = e, !.q = q]
        BY <4>1 DEF Delivered
      <4> QED BY <2>1, <3>1, <4>2 DEF Conn
    <3> QED BY <1>7, <2>2, <3>1, <3>3, <3>4
  <2>3. CASE ~(conn[r].open /\ conn[r].st = "wait_end")
    <3>1. Brings(h, node[r], conn[r], t)
      BY <2>1, <2>3, BringsLeft
    <3> QED BY <1>7, <2>3, <3>1
  <2> QED BY <2>2, <2>3
<1>8. \A r \in Server : conn[r].to # m => F(r) = conn[r]
  OBVIOUS
<1> HIDE DEF F
<1>9. PICK cd : cd = conn' /\ \A r \in Server : cd[r] = F(r)
  BY <1>6
<1>10. Tale(h, [node EXCEPT ![m] = t], cd, rdb)
  <2>1. SameReplica(node[m], t)
    BY <1>1, <1>3
  <2>2. /\ \A r \in Server : conn[r].to = m => cd[r].to = m /\ Brings(h, node[r], cd[r], t)
        /\ \A r \in Server : conn[r].to # m => cd[r] = conn[r]
    BY <1>7, <1>8, <1>9
  <2> QED BY <1>2, <1>3, <2>1, <2>2, TaleSlaves
<1>11. Tale(h, node', conn', rdb)
  BY <1>6, <1>9, <1>10
<1>12. FileTells(h, m, f)
  BY <1>5, SentIsFile
<1>13. Tale(h, node', conn', rdb')
  <2>1. rdb' = [rdb EXCEPT ![m] = f]
    BY <1>6
  <2> QED BY <1>2, <1>11, <1>12, <2>1, TalePut
<1> QED BY <1>13

\* A replica whose PSYNC was accepted keeps its part in the histories.
LEMMA AcceptTale ==
    ASSUME NEW nd, NEW cn, NEW i, Good(nd, cn, i), NEW fs \in [Server -> Maybe(File(i))],
           NEW h, Tale(h, nd, cn, fs), NEW r \in Server, NEW c, c.to # r, c.open => c.to \in Server,
           NEW t, t = Accepted(nd[r]), Brings(h, t, c, nd[c.to])
    PROVE  Tale(h, [nd EXCEPT ![r] = t], [cn EXCEPT ![r] = c], fs)
<1>1. PICK s : s = nd[r]
  OBVIOUS
<1>2. i \in Nat /\ s \in State(i) /\ Recorded(h) /\ Agrees(h, r, s) /\ Rules(h, r, s)
  BY <1>1 DEF Good, Tale, Told
<1>3. SameTale(s, t)
  BY <1>1, <1>2 DEF SameTale, Accepted, State
<1>4. Moves(h, h, i, r, s)
  BY <1>2, MovesNot
<1>5. Moves(h, h, i, r, t)
  BY <1>3, <1>4, MovesSame
<1>6. t.child = nd[r].child
  BY <1>1, <1>3 DEF SameTale
<1> QED BY <1>5, <1>6, TaleKept

\* The histories after a PSYNC FAILOVER may have promoted m.
LEMMA PromotionTale ==
    ASSUME Inv, NEW h, Tale(h, node, conn, rdb), NEW m \in Server, NEW req,
           NEW s, s = AfterPromotion(m, req), NEW cn, cn = ConnAfterPromotion(m, req),
           NEW nd, nd = [node EXCEPT ![m] = s]
    PROVE  \E g : Tale(g, nd, cn, rdb)
<1>1. PICK n, j : n = node[m] /\ j = ids + 1
  OBVIOUS
<1>2. /\ ids \in Nat /\ NodeBase(m, n, ids) /\ Good(node, conn, ids) /\ node \in [Server -> State(ids)]
      /\ rdb \in [Server -> Maybe(File(ids))]
  BY <1>1, Known DEF Inv, NodeOK, Good
<1>3. Recorded(h) /\ Agrees(h, m, n)
  BY <1>1, ToldOf
<1>4. j \in Nat /\ j > ids /\ ids <= j /\ j \in 1 .. j
  BY <1>1, <1>2
<1>5. CASE Promotes(n, req)
  <2>1. s = UnsetMaster(n, j) /\ cn = [DisconnectSlaves(conn, m) EXCEPT ![m] = NoConn]
    BY <1>1, <1>5 DEF AfterPromotion, ConnAfterPromotion
  <2>2. s.rstate = "none"
    BY <1>2, <1>4, <2>1, UnsetMasterOK
  <2>3. PICK g : Moves(h, g, ids, m, s)
    BY <1>2, <1>3, <1>4, <2>1, Shifts
  <2>4. Brings(g, s, NoConn, node[NoConn.to])
    BY <2>2, NoConnIs, BringsIdle DEF Attempts
  <2>5. Tale(g, [node EXCEPT ![m] = s], [DisconnectSlaves(conn, m) EXCEPT ![m] = NoConn], rdb)
    BY <1>2, <2>3, <2>4, NoConnIs, TaleClosed
  <2> QED BY <2>1, <2>5
<1>6. CASE ~Promotes(n, req)
  <2>1. s = n /\ cn = conn
    BY <1>1, <1>6 DEF AfterPromotion, ConnAfterPromotion
  <2>2. nd = node
    BY <1>1, <1>2, <2>1
  <2> QED BY <2>1, <2>2
<1> QED BY <1>5, <1>6

\* A reader of x that can go on with y up to an offset can up to an earlier one.
LEMMA ContinuesBefore ==
    ASSUME NEW h, NEW x \in Nat, NEW y \in Nat, Recorded(h), NEW o \in Int, NEW p \in Int, p <= o, Continues(h, x, y, o)
    PROVE  Continues(h, x, y, p)
<1>1. h[x].top \in Int /\ h[y].top \in Int
  BY DEF Recorded, HistOK, History
<1>2. SUFFICES ASSUME x # y PROVE Continues(h, x, y, p)
  BY DEF Continues
<1>3. o <= h[x].top /\ o <= h[y].top
  BY <1>2 DEF Continues
<1>4. p <= h[x].top /\ p <= h[y].top
  BY <1>1, <1>3
<1>5. \A z \in Nat : z <= p => z <= o
  OBVIOUS
<1> QED BY <1>2, <1>4, <1>5 DEF Continues

\* The commands b follow the offset o of the history y, which goes on with x.
Finds(h, x, y, o, b) ==
    /\ h[x].scope = "shared" /\ h[y].scope = "shared" /\ Continues(h, x, y, o)
    /\ Carries(h[y], o, b, 1) /\ b \in Seq(Cmd)

\* The master, in state s, has the commands b that the replica, in state n, asks for.
Misses(s, n, b) ==
    /\ n.cached # Nothing /\ s.backlog # Nothing
    /\ n.off + 1 >= s.backlog.first /\ n.off + 1 <= s.backlog.first + Len(s.backlog.buf)
    /\ n.replid = s.replid \/ (n.replid = s.replid2 /\ n.off + 1 <= s.second)
    /\ b = SubSeq(s.backlog.buf, n.off + 1 - s.backlog.first + 1, Len(s.backlog.buf))

\* What the master, in state s, sends after +CONTINUE is what the replica, in
\* state n, has not seen of the history it goes on with.
LEMMA MissingTale ==
    ASSUME NEW h, Recorded(h), NEW i \in Nat, NEW m \in Server, NEW r \in Server, r # m,
           NEW s, NodeBase(m, s, i), Agrees(h, m, s), NEW n, NodeBase(r, n, i), Agrees(h, r, n),
           NEW b, Misses(s, n, b)
    PROVE  Finds(h, n.replid, s.replid, n.off, b)
<1>0. PICK o : /\ o = n.off + 1 /\ n.cached # Nothing /\ s.backlog # Nothing
               /\ o >= s.backlog.first /\ o <= s.backlog.first + Len(s.backlog.buf)
               /\ n.replid = s.replid \/ (n.replid = s.replid2 /\ o <= s.second)
               /\ b = SubSeq(s.backlog.buf, n.off + 1 - s.backlog.first + 1, Len(s.backlog.buf))
  BY DEF Misses
<1>1. PICK x, y, z, u, f, q, sec : /\ x = n.replid /\ y = s.replid /\ z = s.replid2 /\ u = n.off
                                   /\ f = s.backlog.first /\ q = s.backlog.buf /\ sec = s.second
  OBVIOUS
<1>2. /\ x \in 1 .. i /\ y \in 1 .. i /\ z \in 0 .. i /\ u \in Nat /\ sec \in Int
      /\ f \in Nat /\ q \in Seq(Cmd)
  <2>1. s \in State(i) /\ n \in State(i) /\ s.backlog \in Backlog
    BY <1>0, PresentFields DEF NodeBase
  <2> QED BY <1>1, <2>1 DEF State, Backlog
<1>3. /\ h[y].scope = "shared" /\ Carries(h[y], f - 1, q, 1)
      /\ z # NoId => MayKnow(h, m, z) /\ Continues(h, z, y, sec - 1)
      /\ MayKnow(h, r, x)
  BY <1>0, <1>1 DEF Agrees
<1>4. x \in Nat /\ y \in Nat /\ x # NoId
  BY <1>2 DEF NoId
<1>6. h[x].scope = "shared" /\ Continues(h, x, y, u)
  <2>1. CASE x = y
    BY <1>3, <2>1 DEF Continues
  <2>2. CASE x # y
    <3>1. x = z /\ o <= sec
      BY <1>0, <1>1, <2>2
    <3>2. MayKnow(h, m, x) /\ Continues(h, x, y, sec - 1)
      BY <1>3, <1>4, <3>1
    <3>3. PICK k \in Int : k = sec - 1
      BY <1>2
    <3>4. u <= k /\ u \in Int /\ k \in Int
      BY <1>0, <1>1, <1>2, <3>1, <3>3
    <3>5. Continues(h, x, y, u)
      BY <1>4, <3>2, <3>3, <3>4, ContinuesBefore
    <3>6. h[x].scope \in {"own", "shared"}
      BY <1>4 DEF Recorded, HistOK, History
    <3> QED BY <1>3, <3>2, <3>5, <3>6 DEF MayKnow
  <2> QED BY <2>1, <2>2
<1>7. Carries(h[y], u, b, 1) /\ b \in Seq(Cmd)
  <2>1. PICK cut, e, H : cut = o - f /\ e = f - 1 /\ H = h[y]
    OBVIOUS
  <2>2. /\ cut \in Nat /\ cut <= Len(q) /\ e \in Int /\ e + cut = u
        /\ b = SubSeq(q, cut + 1, Len(q))
    <3>1. PICK l \in Nat : l = Len(q)
      BY <1>2
    <3>2. o >= f /\ o <= f + l /\ o = u + 1
      BY <1>0, <1>1, <3>1
    <3>3. cut \in Nat /\ cut <= l /\ e \in Int /\ e + cut = u
      BY <1>2, <2>1, <3>2
    <3>4. b = SubSeq(q, o - f + 1, Len(q))
      <4>1. b = SubSeq(q, u + 1 - f + 1, Len(q))
        BY <1>0, <1>1
      <4>2. u + 1 - f + 1 = o - f + 1
        BY <1>2, <3>2
      <4> QED BY <4>1, <4>2
    <3> QED BY <2>1, <3>1, <3>3, <3>4
  <2>3. HistOK(H) /\ Carries(H, e, q, 1)
    BY <1>3, <1>4, <2>1 DEF Recorded
  <2>4. Carries(H, e + cut, SubSeq(q, cut + 1, Len(q)), 1) /\ SubSeq(q, cut + 1, Len(q)) \in Seq(Cmd)
    BY <1>2, <2>2, <2>3, CarriesTail
  <2> QED BY <2>1, <2>2, <2>4
<1> QED BY <1>1, <1>3, <1>6, <1>7 DEF Finds

\* +CONTINUE and the commands after it.
LEMMA ContinuedTale ==
    ASSUME NEW h, Recorded(h), NEW t, t.rstate = "receive_psync", t.off \in Nat, NEW y \in Nat,
           NEW b, Finds(h, t.replid, y, t.off, b), NEW m, NEW w
    PROVE  Brings(h, t, Continued(m, y, b), w) /\ Continued(m, y, b).to = m
<1> PICK c, H : c = Continued(m, y, b) /\ H = h[y]
  OBVIOUS
<1>0. HistOK(H) /\ b \in Seq(Cmd) /\ Carries(H, t.off, b, 1)
  BY DEF Recorded, Finds
<1>1. PICK x : x = [op |-> "continue", id |-> y]
  OBVIOUS
<1>2. PICK z : z = <<x>>
  OBVIOUS
<1>3. PICK S : S = Cmd \cup {x}
  OBVIOUS
<1>4. PICK q : q = z \o b
  OBVIOUS
<1>5. x.op = "continue" /\ x.id = y /\ z \in Seq(S) /\ b \in Seq(S) /\ Len(z) = 1 /\ z[1] = x
  BY <1>0, <1>1, <1>2, <1>3
<1>6. q[1] = x
  <2>1. S \subseteq S /\ 1 \in 1 .. Len(z)
    BY <1>5
  <2>2. \A j \in 1 .. Len(z) : (z \o b)[j] = z[j]
    <3>1. z \in Seq(S) /\ b \in Seq(S)
      BY <1>5
    <3> QED BY <2>1, <3>1, Appended
  <2> QED BY <1>4, <1>5, <2>1, <2>2
<1>7. Carries(H, t.off, q, 2)
  <2>1. PICK o \in Int : o = t.off
    OBVIOUS
  <2>2. PICK k : k = 2
    OBVIOUS
  <2>3. k = Len(z) + 1 /\ Carries(H, o, b, 1)
    BY <1>0, <1>5, <2>1, <2>2
  <2>4. Carries(H, o, z \o b, k)
    BY <1>0, <1>5, <2>3, CarriesBehind
  <2> QED BY <1>4, <2>1, <2>2, <2>4
<1>8. c.to = m /\ c.st = "online" /\ c.q = q
  BY <1>1, <1>2, <1>4 DEF Continued
<1> QED BY <1>5, <1>6, <1>7, <1>8 DEF Brings, Finds

\* A partial resynchronisation keeps the histories.
LEMMA PsyncContinueTale ==
    ASSUME Inv, NEW h, Tale(h, node, conn, rdb), NEW m \in Server, NEW r \in Server, PsyncContinue(m, r)
    PROVE  \E g : Tale(g, node', conn', rdb')
<1>1. PICK n, req : n = node[r] /\ req = Request(node[r])
  OBVIOUS
<1>2. PICK s, cn, j, nd :
          /\ s = AfterPromotion(m, req) /\ cn = ConnAfterPromotion(m, req)
          /\ j = (IF Promotes(node[m], req) THEN ids + 1 ELSE ids) /\ nd = [node EXCEPT ![m] = s]
  OBVIOUS
<1>3. /\ ids \in Nat /\ NodeOK(r, n, ids) /\ node \in [Server -> State(ids)]
      /\ rdb \in [Server -> Maybe(File(ids))]
  BY <1>1, Known DEF Inv, Good
<1>4. PsyncAccepted(m, r) /\ n.rstate = "connect" /\ n.masterhost = m
  BY <1>1 DEF PsyncContinue, PsyncAccepted
<1>5. /\ j \in Nat /\ Good(nd, cn, j) /\ NodeOK(m, s, j) /\ r # m
  BY <1>1, <1>2, <1>4, PromotionOK
<1>6. ids <= j
  BY <1>2, <1>3
<1>7. PICK b, c : /\ b = SubSeq(s.backlog.buf, req.off - s.backlog.first + 1, Len(s.backlog.buf))
                  /\ c = Continued(m, s.replid, b)
  OBVIOUS
<1>8. /\ CanContinue(s, req) /\ rdb' = rdb
      /\ node' = [node EXCEPT ![m] = s, ![r].rstate = "receive_psync"]
      /\ conn' = [cn EXCEPT ![r] = c]
  BY <1>1, <1>2, <1>7 DEF PsyncContinue, Continued
<1>9. nd[r] = n /\ nd[m] = s /\ s \in State(j)
  BY <1>1, <1>2, <1>3, <1>5 DEF NodeOK, NodeBase
<1>10. PICK t : t = Accepted(n)
  OBVIOUS
<1>11. node' = [nd EXCEPT ![r] = t]
  BY <1>1, <1>2, <1>3, <1>5, <1>8, <1>10 DEF Accepted
<1>12. PICK g : Tale(g, nd, cn, rdb)
  BY <1>2, PromotionTale
<1>13. /\ Recorded(g) /\ Agrees(g, m, s) /\ Agrees(g, r, n)
  BY <1>9, <1>12 DEF Tale, Told
<1>14. NodeBase(m, s, j) /\ NodeBase(r, n, j)
  BY <1>5, <1>9 DEF NodeOK, Good
<1>15. s.backlog # Nothing /\ s.backlog.first \in Nat
  BY <1>5, <1>8, <1>9, PresentFields DEF CanContinue, Backlog
<1>16. n.cached # Nothing /\ req.off = n.off + 1 /\ n.off \in Nat /\ req.id = n.replid
  <2>1. n \in State(ids)
    BY <1>3 DEF NodeOK, NodeBase
  <2>2. n.cached.present
    BY <1>1, <1>8 DEF CanContinue, Request
  <2>3. n.cached # Nothing /\ n.cached.off = n.off /\ n.cached.id = n.replid
    BY <1>3, <2>1, <2>2, PresentFields DEF NodeOK, NodeBase
  <2>4. req.off = n.off + 1 /\ req.id = n.replid
    BY <1>1, <2>2, <2>3 DEF Request
  <2> QED BY <2>1, <2>3, <2>4 DEF State
<1>17. Finds(g, n.replid, s.replid, n.off, b)
  <2>1. Misses(s, n, b)
    <3>1. b = SubSeq(s.backlog.buf, n.off + 1 - s.backlog.first + 1, Len(s.backlog.buf))
      <4>1. PICK k, l : k = req.off - s.backlog.first + 1 /\ l = n.off + 1 - s.backlog.first + 1
        OBVIOUS
      <4>2. k = l
        BY <1>15, <1>16, <4>1
      <4> QED BY <1>7, <4>1, <4>2
    <3>2. /\ n.off + 1 >= s.backlog.first /\ n.off + 1 <= s.backlog.first + Len(s.backlog.buf)
          /\ n.replid = s.replid \/ (n.replid = s.replid2 /\ n.off + 1 <= s.second)
      BY <1>8, <1>16 DEF CanContinue, KnowsHistory
    <3> QED BY <1>15, <1>16, <3>1, <3>2 DEF Misses
  <2> QED BY <1>5, <1>13, <1>14, <2>1, MissingTale
<1>18. t.rstate = "receive_psync" /\ t.off = n.off /\ t.replid = n.replid
  <2>1. n \in State(ids)
    BY <1>3 DEF NodeOK, NodeBase
  <2> QED BY <1>10, <2>1 DEF Accepted, State
<1>19. Brings(g, t, c, nd[c.to]) /\ c.to = m
  <2>1. PICK w, y : w = nd[c.to] /\ y = s.replid
    OBVIOUS
  <2>2. y \in Nat /\ c = Continued(m, y, b) /\ Finds(g, t.replid, y, t.off, b) /\ t.off \in Nat
    BY <1>7, <1>9, <1>16, <1>17, <1>18, <2>1 DEF State
  <2>3. Brings(g, t, c, w) /\ c.to = m
    BY <1>13, <1>18, <2>2, ContinuedTale
  <2> QED BY <2>1, <2>3
<1>20. Tale(g, [nd EXCEPT ![r] = t], [cn EXCEPT ![r] = c], rdb)
  <2>1. rdb \in [Server -> Maybe(File(j))]
    BY <1>3, <1>5, <1>6, FilesStay
  <2>2. t = Accepted(nd[r]) /\ c.to # r /\ (c.open => c.to \in Server)
    BY <1>5, <1>9, <1>10, <1>19
  <2> QED BY <1>5, <1>12, <1>19, <2>1, <2>2, AcceptTale
<1> QED BY <1>8, <1>11, <1>20

\* A master without a backlog starts a new history for a full resynchronisation.
LEMMA ServesTale ==
    ASSUME NEW nd, NEW cn, NEW i, Good(nd, cn, i), NEW fs \in [Server -> Maybe(File(i))],
           NEW h, Tale(h, nd, cn, fs), NEW m \in Server,
           nd[m].rstate = "none" \/ nd[m].rstate = "connected", NEW id \in Nat,
           nd[m].backlog = Nothing => id > i, NEW t, t = Serving(nd[m], id)
    PROVE  \E g : Tale(g, [nd EXCEPT ![m] = t], cn, fs)
<1>1. PICK s : s = nd[m]
  OBVIOUS
<1>2. /\ i \in Nat /\ NodeOK(m, s, i) /\ cn \in [Server -> Conn(i)] /\ cn[m].to # m
      /\ ConnOK(s, cn[m], nd[cn[m].to], i) /\ nd \in [Server -> State(i)]
      /\ Recorded(h) /\ Agrees(h, m, s)
  BY <1>1, Reached DEF Good, Tale, Told
<1>3. CASE s.backlog # Nothing
  <2>1. [nd EXCEPT ![m] = t] = nd
    BY <1>1, <1>2, <1>3 DEF Serving
  <2> QED BY <2>1
<1>4. CASE s.backlog = Nothing
  <2>1. PICK b : b = NewBacklog(s.off)
    OBVIOUS
  <2>2. t = NewStart(s, id, b) /\ id > i
    BY <1>1, <1>4, <2>1 DEF Serving
  <2>3. s.rstate = "none" /\ s.masterhost = NoServer /\ NodeBase(m, s, i)
    BY <1>1, <1>2, <1>4 DEF NodeOK, NodeBase
  <2>4. PICK g : Moves(h, g, i, m, t)
    <3>1. b \in {Nothing, NewBacklog(s.off)}
      BY <2>1
    <3>2. \E g : Moves(h, g, i, m, NewStart(s, id, b))
      BY <1>2, <2>2, <2>3, <3>1, Starts
    <3> QED BY <2>2, <3>2
  <2>5. t.rstate = "none"
    BY <1>2, <2>2, <2>3 DEF NewStart, NewHistory, NodeBase, State
  <2>6. ~cn[m].open
    BY <1>2, <2>3 DEF ConnOK, Idle, Attempts
  <2>7. Brings(g, t, cn[m], nd[cn[m].to])
    BY <2>5, <2>6, BringsIdle DEF Attempts
  <2>8. \A r \in Server : ~(cn[r].to = m /\ cn[r].open)
    BY <1>1, <1>4, Reached
  <2>9. Tale(g, [nd EXCEPT ![m] = t], [cn EXCEPT ![m] = cn[m]], fs)
    BY <1>2, <2>4, <2>6, <2>7, <2>8, TaleKept
  <2>10. cn = [cn EXCEPT ![m] = cn[m]]
    BY <1>2, OwnConn
  <2> QED BY <2>9, <2>10
<1> QED BY <1>3, <1>4

\* The stream of m will go on with a SELECT.
LEMMA LoosenTale ==
    ASSUME NEW nd, NEW cn, NEW i, Good(nd, cn, i), NEW fs \in [Server -> Maybe(File(i))],
           NEW h, Tale(h, nd, cn, fs), NEW m \in Server, nd[m].backlog # Nothing,
           NEW w, w = [nd[m] EXCEPT !.seldb = NoDb]
    PROVE  \E g : Tale(g, [nd EXCEPT ![m] = w], cn, fs)
<1>1. PICK t : t = nd[m]
  OBVIOUS
<1>2. /\ i \in Nat /\ NodeBase(m, t, i) /\ t \in State(i) /\ Recorded(h) /\ Agrees(h, m, t) /\ Rules(h, m, t)
      /\ nd \in [Server -> State(i)] /\ cn \in [Server -> Conn(i)]
  BY <1>1 DEF Good, Tale, Told, NodeOK
<1>3. PICK g : Moves(h, g, i, m, w)
  <2>1. \E g : Moves(h, g, i, m, [t EXCEPT !.seldb = NoDb])
    BY <1>1, <1>2, Loosens
  <2> QED BY <1>1, <2>1
<1>4. SameReplica(t, w) /\ w.child = t.child
  BY <1>1, <1>2 DEF SameReplica, State
<1>5. ASSUME NEW r \in Server, cn[r].to = m
      PROVE  cn[r].to = m /\ Brings(g, nd[r], cn[r], w)
  <2>1. PICK s, c : s = nd[r] /\ c = cn[r]
    OBVIOUS
  <2>2. ConnOK(s, c, t, i) /\ Brings(h, s, c, t) /\ s \in State(i)
    BY <1>1, <1>2, <1>5, <2>1 DEF Good, Tale, Told
  <2>3. Recorded(g) /\ Evolves(h, g, i, m)
    BY <1>3 DEF Moves
  <2>4. Brings(g, s, c, t)
    BY <1>2, <2>2, <2>3, BringsStays
  <2>5. Brings(g, s, c, w)
    BY <1>4, <2>4, BringsChild
  <2> QED BY <1>5, <2>1, <2>5
<1>6. Tale(g, [nd EXCEPT ![m] = w], cn, fs)
  <2>1. \A r \in Server : cn[r].to = m => cn[r].to = m /\ Brings(g, nd[r], cn[r], w)
    BY <1>5
  <2>2. SameReplica(nd[m], w)
    BY <1>1, <1>4
  <2> QED BY <1>3, <2>1, <2>2, TaleSlaves
<1> QED BY <1>6

\* A slave queued for the next BGSAVE is promised nothing yet.
LEMMA WaitsTale ==
    ASSUME NEW h, NEW t, t.rstate = "receive_psync", NEW m, NEW w
    PROVE  Brings(h, t, Waits(m), w) /\ Waits(m).to = m
<1>1. Waits(m).st = "wait_start" /\ Waits(m).to = m
  BY DEF Waits, NoConn
<1> QED BY <1>1 DEF Brings

\* A full resynchronisation that is promised keeps the histories.
LEMMA PsyncFullTale ==
    ASSUME Inv, NEW h, Tale(h, node, conn, rdb), NEW m \in Server, NEW r \in Server, PsyncFull(m, r)
    PROVE  \E g : Tale(g, node', conn', rdb')
<1>1. PICK n, req : n = node[r] /\ req = Request(node[r])
  OBVIOUS
<1>2. PICK s, cn, i, nd :
          /\ s = AfterPromotion(m, req) /\ cn = ConnAfterPromotion(m, req)
          /\ i = (IF Promotes(node[m], req) THEN ids + 1 ELSE ids) /\ nd = [node EXCEPT ![m] = s]
  OBVIOUS
<1>3. /\ ids \in Nat /\ NodeOK(r, n, ids) /\ node \in [Server -> State(ids)]
      /\ rdb \in [Server -> Maybe(File(ids))]
  BY <1>1, Known DEF Inv, Good
<1>4. PsyncAccepted(m, r) /\ n.rstate = "connect" /\ n.masterhost = m
  BY <1>1 DEF PsyncFull, PsyncAccepted
<1>5. /\ i \in Nat /\ Good(nd, cn, i) /\ NodeOK(m, s, i) /\ r # m
      /\ s.rstate = "none" \/ s.rstate = "connected"
  BY <1>1, <1>2, <1>4, PromotionOK
<1>6. nd[r] = n /\ nd[m] = s /\ s \in State(i)
  BY <1>1, <1>2, <1>3, <1>5 DEF NodeOK, NodeBase
<1>7. s.backlog.present <=> s.backlog # Nothing
  BY <1>5, <1>6, PresentFields
<1>8. PICK j, t, id : /\ j = i + 2 /\ id = ids + 2
                      /\ t = IF s.backlog.present THEN s ELSE NewStart(s, ids + 2, NewBacklog(s.off))
  OBVIOUS
<1>9. j \in Nat /\ ids <= i /\ i <= j /\ id \in Nat /\ id > i /\ id \in 1 .. j
  BY <1>2, <1>3, <1>8
<1>10. PICK ne : ne = [nd EXCEPT ![m] = t]
  OBVIOUS
<1>11. t = Serving(nd[m], id) /\ (nd[m].rstate = "none" \/ nd[m].rstate = "connected")
  BY <1>5, <1>6, <1>7, <1>8 DEF Serving
<1>12. Good(ne, cn, j) /\ NodeOK(m, t, j) /\ t.backlog # Nothing
  BY <1>5, <1>9, <1>10, <1>11, ServesFull
<1>13. rdb \in [Server -> Maybe(File(i))] /\ rdb \in [Server -> Maybe(File(j))]
  <2>1. ids <= j
    BY <1>3, <1>5, <1>9
  <2> QED BY <1>3, <1>5, <1>9, <2>1, FilesStay
<1>14. PICK k : Tale(k, nd, cn, rdb)
  BY <1>2, PromotionTale
<1>15. PICK g : Tale(g, ne, cn, rdb)
  BY <1>5, <1>9, <1>10, <1>11, <1>13, <1>14, ServesTale
<1>16. ne = [node EXCEPT ![m] = t] /\ ne[m] = t /\ ne[r] = n /\ ne \in [Server -> State(j)]
  <2>1. ne = [node EXCEPT ![m] = t]
    BY <1>2, <1>10
  <2> QED BY <1>1, <1>3, <1>5, <1>12, <2>1 DEF Good
<1>17. t \in State(j) /\ (t.child.present <=> t.child # Nothing)
  <2>1. t \in State(j)
    BY <1>12 DEF NodeOK, NodeBase
  <2> QED BY <1>9, <2>1, PresentFields
<1>18. PICK u : u = Accepted(n)
  OBVIOUS
<1>19. u.rstate = "receive_psync" /\ rdb' = rdb
  BY <1>3, <1>4, <1>18, AcceptedOK DEF PsyncFull
<1>20. \/ /\ node' = [node EXCEPT ![m] = t, ![r].rstate = "receive_psync"]
          /\ conn' = [cn EXCEPT ![r] = Waits(m)]
       \/ /\ t.child.present
          /\ node' = [node EXCEPT ![m] = [t EXCEPT !.seldb = NoDb], ![r].rstate = "receive_psync"]
          /\ \E x \in Server :
                /\ cn[x].to = m /\ cn[x].open /\ cn[x].st = "wait_end"
                /\ conn' = [cn EXCEPT ![r] = Joins(m, t.child, cn[x].out)]
  BY ZenonT(60), <1>1, <1>2, <1>8 DEF PsyncFull, NewStart, Waits, Joins, CopyOutput
<1>21. CASE /\ node' = [node EXCEPT ![m] = t, ![r].rstate = "receive_psync"]
            /\ conn' = [cn EXCEPT ![r] = Waits(m)]
  <2>1. node' = [ne EXCEPT ![r] = u]
    BY <1>1, <1>3, <1>5, <1>16, <1>18, <1>21 DEF Accepted
  <2>2. PICK c : c = Waits(m)
    OBVIOUS
  <2>3. Brings(g, u, c, ne[c.to]) /\ c.to = m
    BY <1>19, <2>2, WaitsTale
  <2>4. u = Accepted(ne[r]) /\ c.to # r /\ (c.open => c.to \in Server)
    BY <1>5, <1>16, <1>18, <2>3
  <2>5. Tale(g, [ne EXCEPT ![r] = u], [cn EXCEPT ![r] = c], rdb)
    BY <1>12, <1>13, <1>15, <2>3, <2>4, AcceptTale
  <2>6. conn' = [cn EXCEPT ![r] = c]
    BY <1>21, <2>2
  <2> QED BY <1>19, <2>1, <2>5, <2>6
<1>22. CASE /\ t.child.present
            /\ node' = [node EXCEPT ![m] = [t EXCEPT !.seldb = NoDb], ![r].rstate = "receive_psync"]
            /\ \E x \in Server :
                  /\ cn[x].to = m /\ cn[x].open /\ cn[x].st = "wait_end"
                  /\ conn' = [cn EXCEPT ![r] = Joins(m, t.child, cn[x].out)]
  <2>1. PICK f, d, w : f = t.child /\ d = NoDb /\ w = [t EXCEPT !.seldb = NoDb]
    OBVIOUS
  <2>2. w = Forked(t, f, d)
    BY <1>17, <2>1 DEF Forked, State
  <2>3. NodeOK(m, w, j) /\ SameReplica(t, w) /\ w.backlog = t.backlog /\ w.child = f
    <3>1. f \in Maybe(File(j)) /\ d \in Dbs \cup {NoDb}
      BY <1>17, <2>1 DEF State
    <3>2. NodeOK(m, t, j) /\ j \in Nat
      BY <1>9, <1>12
    <3>3. /\ NodeOK(m, Forked(t, f, d), j) /\ SameReplica(t, Forked(t, f, d))
          /\ Forked(t, f, d).backlog = t.backlog /\ Forked(t, f, d).child = f
      BY <3>1, <3>2, ForkedOK
    <3> QED BY <2>2, <3>3
  <2>4. cn \in [Server -> Conn(j)] /\ \A x \in Server : ConnOK(ne[x], cn[x], ne[cn[x].to], j)
    BY <1>12 DEF Good
  <2>5. ASSUME NEW x \in Server, cn[x].to = m
        PROVE  cn[x].to = m /\ ConnOK(ne[x], cn[x], w, j)
    <3>1. ConnOK(ne[x], cn[x], t, j)
      BY <1>16, <2>4, <2>5
    <3>2. w.replid = t.replid /\ w.off = t.off /\ w.backlog = t.backlog /\ w.child = t.child
      BY <2>1, <2>3 DEF SameReplica
    <3>3. ConnOK(ne[x], cn[x], w, j)
      BY <3>1, <3>2, LinkKept
    <3> QED BY <2>5, <3>3
  <2>6. PICK nf : nf = [ne EXCEPT ![m] = w]
    OBVIOUS
  <2>7. Good(nf, cn, j)
    <3>1. SameReplica(ne[m], w)
      BY <1>16, <2>3
    <3>2. \A x \in Server : cn[x].to = m => cn[x].to = m /\ ConnOK(ne[x], cn[x], w, j)
      BY <2>5
    <3> QED BY <1>12, <2>3, <2>4, <2>6, <3>1, <3>2, SlavesStep
  <2>8. PICK l : Tale(l, nf, cn, rdb)
    <3>1. w = [ne[m] EXCEPT !.seldb = NoDb] /\ ne[m].backlog # Nothing
      BY <1>12, <1>16, <2>1
    <3> QED BY <1>12, <1>13, <1>15, <2>6, <3>1, LoosenTale
  <2>9. nf[m] = w /\ nf[r] = n /\ nf = [node EXCEPT ![m] = w]
    BY <1>5, <1>16, <2>6
  <2>10. PICK x \in Server :
            /\ cn[x].to = m /\ cn[x].open /\ cn[x].st = "wait_end"
            /\ conn' = [cn EXCEPT ![r] = Joins(m, f, cn[x].out)]
    BY <1>22, <2>1
  <2>11. PICK out, c : out = cn[x].out /\ c = Joins(m, f, cn[x].out)
    OBVIOUS
  <2>12. Carries(l[f.id], f.off, out, 1)
    <3>1. Brings(l, nf[x], cn[x], w)
      BY <2>8, <2>9, <2>10 DEF Tale, Told
    <3> QED BY <2>3, <2>10, <2>11, <3>1 DEF Brings
  <2>13. Brings(l, u, c, nf[c.to]) /\ c.to = m
    <3>1. c = Joins(m, f, out) /\ w.child = f
      BY <2>3, <2>11
    <3>2. u.rstate = "receive_psync"
      BY <1>19
    <3>3. c.st = "wait_end" /\ c.to = m /\ c.out = out
      BY <3>1 DEF Joins
    <3>4. Brings(l, u, c, w)
      BY <2>12, <3>1, <3>2, <3>3 DEF Brings
    <3> QED BY <2>9, <3>3, <3>4
  <2>14. u = Accepted(nf[r]) /\ c.to # r /\ (c.open => c.to \in Server)
    BY <1>5, <1>18, <2>9, <2>13
  <2>15. Tale(l, [nf EXCEPT ![r] = u], [cn EXCEPT ![r] = c], rdb)
    BY <1>13, <2>7, <2>8, <2>13, <2>14, AcceptTale
  <2>16. node' = [nf EXCEPT ![r] = u]
    BY <1>1, <1>3, <1>5, <1>18, <1>22, <2>1, <2>9 DEF Accepted
  <2>17. conn' = [cn EXCEPT ![r] = c]
    BY <2>10, <2>11
  <2> QED BY <1>19, <2>15, <2>16, <2>17
<1> QED BY <1>20, <1>21, <1>22

-----------------------------------------------------------------------------
(* The invariant                                                           *)

\* Every ID stands for one history.
OneHistory == \E h : Tale(h, node, conn, rdb)

\* Nothing has happened at the start, and each instance has an ID of its own.
LEMMA InitTale == Init => OneHistory
<1> SUFFICES ASSUME Init PROVE OneHistory
  OBVIOUS
<1>1. PICK k, id : /\ k = Cardinality(Server)
                   /\ id = CHOOSE f \in Injection(Server, 1 .. Cardinality(Server)) : TRUE
  OBVIOUS
<1>2. /\ node = [n \in Server |-> Fresh(id[n], ReplicaOfConf[n])]
      /\ conn = [n \in Server |-> NoConn] /\ rdb = [n \in Server |-> Nothing]
  BY <1>1 DEF Init
<1>3. k \in Nat /\ ExistsBijection(Server, 1 .. k)
  BY <1>1, ReplAssumption, FS_CardinalityType, Fun_ExistsBijSymmetric
<1>4. id \in [Server -> 1 .. k] /\ \A a, b \in Server : id[a] = id[b] => a = b
  <2>1. Injection(Server, 1 .. k) # {}
    BY <1>3 DEF ExistsBijection, Bijection
  <2>2. id \in Injection(Server, 1 .. k)
    BY <1>1, <2>1
  <2> QED BY <2>2 DEF Injection, IsInjective
<1> DEFINE Owner(x) == IF \E n \in Server : id[n] = x THEN CHOOSE n \in Server : id[n] = x ELSE NoServer
<1>5. /\ \A x : Owner(x) \in Server \cup {NoServer}
      /\ \A n \in Server : Owner(id[n]) = n
  BY <1>4
<1> HIDE DEF Owner
<1>6. PICK e, o, d, sc : e = <<>> /\ o = -1 /\ d = NoDb /\ sc = "own"
  OBVIOUS
<1>7. e \in Data /\ o \in Int /\ o >= -1 /\ d \in Int /\ sc \in {"own", "shared"}
  <2>1. <<>> \in Data /\ -1 \in Int /\ -1 >= -1
    BY DEF Data
  <2> QED BY <1>6, <2>1 DEF NoDb
<1>8. ASSUME NEW x \in Nat
      PROVE  LET K == Started(e, o, d, Owner(x), sc)
             IN HistOK(K) /\ K.top = o /\ K.owner = Owner(x) /\ K.scope = sc
  BY <1>5, <1>7, StartedOK
<1>9. PICK h : h = [x \in Nat |-> Started(e, o, d, Owner(x), sc)]
  OBVIOUS
<1>10. \A x \in Nat : HistOK(h[x]) /\ h[x].top = o /\ h[x].owner = Owner(x) /\ h[x].scope = sc
  <2>1. \A x \in Nat : h[x] = Started(e, o, d, Owner(x), sc)
    BY <1>9
  <2> QED BY <1>8, <2>1
<1>11. Recorded(h)
  <2>1. \A x \in Nat : h[x] \in History
    BY <1>10 DEF HistOK
  <2>2. h = [x \in Nat |-> h[x]]
    BY <1>9
  <2>3. h \in Histories
    BY <2>1, <2>2 DEF Histories
  <2> QED BY <1>10, <2>3 DEF Recorded
<1>12. ASSUME NEW n \in Server
       PROVE  /\ Agrees(h, n, node[n]) /\ Rules(h, n, node[n])
              /\ Brings(h, node[n], conn[n], node[conn[n].to])
              /\ FileTells(h, n, rdb[n])
  <2>1. PICK s, x : s = node[n] /\ x = id[n]
    OBVIOUS
  <2>2. s = Fresh(x, ReplicaOfConf[n]) /\ x \in 1 .. k
    BY <1>2, <1>4, <2>1
  <2>3. /\ s.replid = x /\ s.backlog = Nothing /\ s.master = Nothing /\ s.cached = Nothing
        /\ s.child = Nothing /\ (s.rstate = "none" \/ s.rstate = "connect")
    BY <2>2 DEF Fresh
  <2>4. Agrees(h, n, s)
    BY <2>3 DEF Agrees
  <2>5. h[x].owner = n /\ h[x].scope = "own" /\ h[x].top = -1
    <3>1. x \in Nat /\ Owner(x) = n
      BY <1>3, <1>5, <2>1, <2>2
    <3> QED BY <1>6, <1>10, <3>1
  <2>6. Rules(h, n, s)
    BY <2>3, <2>5 DEF Rules
  <2>7. Brings(h, s, conn[n], node[conn[n].to])
    <3>1. conn[n] = NoConn
      BY <1>2
    <3>2. ~Attempts(s) /\ ~conn[n].open
      BY <2>3, <3>1, NoConnIs DEF Attempts
    <3> QED BY <3>2, BringsIdle
  <2>8. FileTells(h, n, rdb[n])
    BY <1>2 DEF FileTells
  <2> QED BY <2>1, <2>4, <2>6, <2>7, <2>8
<1>13. Tale(h, node, conn, rdb)
  BY <1>11, <1>12 DEF Tale, Told, Stored
<1> QED BY <1>13 DEF OneHistory

\* Every step keeps the histories, and adds to them.
LEMMA NextTale == Inv /\ OneHistory /\ [Next]_vars => OneHistory'
<1> SUFFICES ASSUME Inv, OneHistory, [Next]_vars PROVE \E g : Tale(g, node', conn', rdb')
  BY DEF OneHistory
<1>0. PICK h : Tale(h, node, conn, rdb)
  BY DEF OneHistory
<1> DEFINE P == \E g : Tale(g, node', conn', rdb')
<1>1. ASSUME UNCHANGED vars PROVE P
  BY <1>0, <1>1 DEF vars
<1>2. ASSUME NEW n \in Server, NEW d \in Dbs, Write(n, d) PROVE P
  BY <1>0, <1>2, WriteTale
<1>3. ASSUME NEW n \in Server, PingSlaves(n) PROVE P
  BY <1>0, <1>3, PingSlavesTale
<1>4. ASSUME NEW n \in Server, NEW a \in Server, ReplicaOf(n, a) PROVE P
  BY <1>0, <1>4, ReplicaOfTale
<1>5. ASSUME NEW n \in Server, ReplicaOfNoOne(n) PROVE P
  BY <1>0, <1>5, ReplicaOfNoOneTale
<1>6. ASSUME NEW n \in Server, Save(n) PROVE P
  BY <1>0, <1>6, SaveTale
<1>7. ASSUME NEW n \in Server, Restart(n) PROVE P
  BY <1>0, <1>7, RestartTale
<1>8. ASSUME NEW n \in Server, Replica(n) PROVE P
  BY <1>0, <1>8, ReceiveFullResyncTale, ReceiveRdbTale, LoadFailsTale, ReceiveContinueTale,
     ReceiveCommandTale, LinkDownTale DEF Replica
<1>9. ASSUME NEW n \in Server, NEW r \in Server, PsyncFailoverFails(n, r) PROVE P
  BY <1>0, <1>9, PsyncFailoverFailsTale
<1>10. ASSUME NEW n \in Server, NEW r \in Server, PsyncContinue(n, r) PROVE P
  BY <1>0, <1>10, PsyncContinueTale
<1>11. ASSUME NEW n \in Server, NEW r \in Server, PsyncFull(n, r) PROVE P
  BY <1>0, <1>11, PsyncFullTale
<1>12. ASSUME NEW n \in Server, StartBgsave(n) PROVE P
  BY <1>0, <1>12, StartBgsaveTale
<1>13. ASSUME NEW n \in Server, StartBgsaveFails(n) PROVE P
  BY <1>0, <1>13, StartBgsaveFailsTale
<1>14. ASSUME NEW n \in Server, BgsaveDone(n) PROVE P
  BY <1>0, <1>14, BgsaveDoneTale
<1>15. ASSUME NEW n \in Server, BgsaveFails(n) PROVE P
  BY <1>0, <1>15, BgsaveFailsTale
<1>16. ASSUME NEW n \in Server, FreeBacklog(n) PROVE P
  BY <1>0, <1>16, FreeBacklogTale
<1>17. ASSUME NEW n \in Server, NEW a \in Server \cup {NoServer}, Failover(n, a) PROVE P
  BY <1>0, <1>17, FailoverTale
<1>18. ASSUME NEW n \in Server, FailoverStart(n) PROVE P
  BY <1>0, <1>18, FailoverStartTale
<1>19. ASSUME NEW n \in Server, FailoverAbort(n) PROVE P
  BY <1>0, <1>19, FailoverAbortTale
<1> HIDE DEF P
<1>20. P
  BY <1>1, <1>2, <1>3, <1>4, <1>5, <1>6, <1>7, <1>8, <1>9, <1>10, <1>11, <1>12, <1>13, <1>14,
     <1>15, <1>16, <1>17, <1>18, <1>19 DEF Next
<1> QED BY <1>20 DEF P

\* A replication ID never stands for two histories: there is one assignment of
\* histories to IDs with which every dataset, backlog, second ID, RDB file,
\* running child and stream on its way agrees, in every state that the servers
\* can reach by writes, promotions, demotions, partial and full
\* resynchronisations, FAILOVERs, faults and restarts.
THEOREM HistoryInvariance == Spec => []OneHistory
BY InitTale, NextTale, Invariance, PTL DEF Spec

-----------------------------------------------------------------------------
(* What the histories say about datasets and streams                       *)

\* The facts about folds, for the commands of a stream.
StreamStep(e, acc, c) == Replayed(acc, c)
Cmds == INSTANCE FoldFacts WITH Op <- StreamStep

\* Replay in these terms.
LEMMA ReplayFolds ==
    ASSUME NEW data, NEW d, NEW q
    PROVE  Replay(data, d, q) = Cmds!Fold(0, [data |-> data, db |-> d], q).data
<1>1. FoldLeft(Replayed, [data |-> data, db |-> d], q) = Cmds!Fold(0, [data |-> data, db |-> d], q)
  BY Zenon DEF Cmds!Fold, StreamStep, Cmds!FoldLeft, FoldLeft,
       Cmds!MapThenFoldSet, MapThenFoldSet, Cmds!Max, Max
<1> QED BY <1>1 DEF Replay

\* A sequence begins with itself, and goes on beginning with it.
LEMMA PrefixGrows ==
    ASSUME NEW S, NEW s \in Seq(S), NEW t \in Seq(S), NEW x \in S
    PROVE  IsPrefix(s, s) /\ (IsPrefix(s, t) => IsPrefix(s, Append(t, x)))
<1>1. IsPrefix(s, s)
  BY DEF IsPrefix
<1>2. ASSUME IsPrefix(s, t) PROVE IsPrefix(s, Append(t, x))
  <2>1. PICK a, b, u : a = Len(s) /\ b = Len(t) /\ u = Append(t, x)
    OBVIOUS
  <2>2. a \in Nat /\ b \in Nat /\ a <= b /\ SubSeq(s, 1, a) = SubSeq(t, 1, a)
    BY <1>2, <2>1 DEF IsPrefix
  <2>3. u \in Seq(S) /\ Len(u) = b + 1 /\ \A j \in 1 .. b : u[j] = t[j]
    BY <2>1
  <2>4. SubSeq(t, 1, a) = SubSeq(u, 1, a)
    BY <2>1, <2>2, <2>3
  <2>5. a <= Len(u)
    BY <2>2, <2>3
  <2> QED BY <2>1, <2>2, <2>4, <2>5 DEF IsPrefix
<1> QED BY <1>1, <1>2

\* A dataset of a history begins with every earlier one.
LEMMA DataGrows ==
    ASSUME NEW H, HistOK(H), NEW o \in Nat, NEW p \in Nat, o <= p, p <= H.top
    PROVE  IsPrefix(H.data[o], H.data[p])
<1>1. PICK t : t = H.top
  OBVIOUS
<1>2. t \in Int /\ H.data \in [Nat -> Data] /\ H.cmd \in [Nat -> Cmd] /\ H.db \in [Nat -> Int]
  BY <1>1 DEF HistOK, History, Commands, Datasets, Databases
<1> DEFINE T == {k \in Nat : o + k <= t => IsPrefix(H.data[o], H.data[o + k])}
<1>3. 0 \in T
  <2>1. IsPrefix(H.data[o], H.data[o])
    <3>1. H.data[o] \in Seq(Nat \X Int)
      BY <1>2 DEF Data
    <3> QED BY <3>1 DEF IsPrefix
  <2> QED BY <2>1
<1>4. ASSUME NEW k \in Nat, k \in T
      PROVE  k + 1 \in T
  <2> SUFFICES ASSUME o + (k + 1) <= t PROVE IsPrefix(H.data[o], H.data[o + (k + 1)])
    OBVIOUS
  <2>1. PICK z \in Nat : z = o + k
    OBVIOUS
  <2>2. z < t /\ z + 1 = o + (k + 1) /\ z + 1 \in Nat
    BY <1>2, <2>1
  <2>3. IsPrefix(H.data[o], H.data[z]) /\ Leads(H, z)
    BY <1>1, <1>2, <1>4, <2>1, <2>2 DEF HistOK
  <2>4. PICK a, b, e : a = H.data[o] /\ b = H.data[z] /\ e = <<H.cmd[z + 1].arg, H.db[z]>>
    OBVIOUS
  <2>5. a \in Seq(Nat \X Int) /\ b \in Seq(Nat \X Int) /\ e \in Nat \X Int
    <3>1. H.cmd[z + 1] \in Cmd /\ H.db[z] \in Int /\ a \in Data /\ b \in Data
      BY <1>2, <2>2, <2>4
    <3>2. H.cmd[z + 1].arg \in Nat
      BY <3>1 DEF Cmd
    <3> QED BY <2>4, <3>1, <3>2 DEF Data
  <2>6. IsPrefix(a, Append(b, e))
    BY <2>3, <2>4, <2>5, PrefixGrows
  <2>7. H.data[z + 1] = Append(b, e) \/ H.data[z + 1] = b
    BY <2>3, <2>4 DEF Leads
  <2>8. IsPrefix(a, H.data[z + 1])
    BY <2>3, <2>4, <2>6, <2>7
  <2> QED BY <2>2, <2>4, <2>8
<1> HIDE DEF T
<1>5. \A k \in Nat : k \in T
  BY <1>3, <1>4, Cmds!NatSet
<1>6. PICK k \in Nat : p = o + k
  <2>1. p - o \in Nat /\ p = o + (p - o)
    OBVIOUS
  <2> QED BY <2>1
<1>7. k \in T
  BY <1>5
<1> QED BY <1>1, <1>6, <1>7 DEF T

\* What vouches for an ID has a dataset of its history.
LEMMA VouchedData ==
    ASSUME Inv, NEW h, Tale(h, node, conn, rdb), NEW n \in Server, Vouches(n), NEW s, s = node[n]
    PROVE  /\ s.replid \in Nat /\ s.replid # NoId /\ s.off \in Nat /\ HistOK(h[s.replid])
           /\ s.off <= h[s.replid].top /\ s.data = h[s.replid].data[s.off]
<1>1. ids \in Nat /\ s \in State(ids) /\ Recorded(h) /\ Agrees(h, n, s)
  BY Known, ToldOf
<1>2. s.replid \in 1 .. ids /\ s.off \in Nat
  BY <1>1 DEF State
<1>3. s.replid \in Nat /\ s.replid # NoId
  BY <1>1, <1>2 DEF NoId
<1>4. s.backlog # Nothing \/ s.master # Nothing \/ s.cached # Nothing
  BY <1>1, PresentFields DEF Vouches
<1> QED BY <1>1, <1>2, <1>3, <1>4 DEF Agrees, Reaches, Recorded

\* Two servers that vouch for the same replication ID have the same history as far
\* as both have come, and the second ID of a server with a backlog is that history
\* up to the offset it was left at: through any number of promotions, demotions,
\* failed loads, freed backlogs and restarts of any number of servers.
THEOREM SameHistory == Spec => []SameIdSameHistory
<1>1. Inv /\ OneHistory => SameIdSameHistory
  <2> SUFFICES ASSUME Inv, OneHistory, NEW a \in Server, NEW b \in Server, Vouches(a), Vouches(b),
                      node[a].off <= node[b].off
               PROVE  /\ node[a].replid = node[b].replid => IsPrefix(node[a].data, node[b].data)
                      /\ node[a].replid = node[b].replid2 /\ node[a].off < node[b].second
                           => ~node[b].backlog.present \/ IsPrefix(node[a].data, node[b].data)
    BY DEF SameIdSameHistory
  <2>1. PICK h : Tale(h, node, conn, rdb)
    BY DEF OneHistory
  <2>2. PICK s, t, x, y, o, p : /\ s = node[a] /\ t = node[b] /\ x = node[a].replid /\ y = node[b].replid
                                /\ o = node[a].off /\ p = node[b].off
    OBVIOUS
  <2>3. /\ x \in Nat /\ x # NoId /\ o \in Nat /\ HistOK(h[x]) /\ o <= h[x].top
        /\ s.data = h[x].data[o]
    BY <2>1, <2>2, VouchedData
  <2>4. /\ y \in Nat /\ p \in Nat /\ HistOK(h[y]) /\ p <= h[y].top /\ t.data = h[y].data[p]
    BY <2>1, <2>2, VouchedData
  <2>5. o <= p
    BY <2>2
  <2>6. IsPrefix(h[y].data[o], t.data)
    BY <2>3, <2>4, <2>5, DataGrows
  <2>7. x = y => IsPrefix(s.data, t.data)
    BY <2>3, <2>6
  <2>8. ASSUME x = t.replid2, o < t.second, t.backlog.present
        PROVE  IsPrefix(s.data, t.data)
    <3>1. ids \in Nat /\ t \in State(ids) /\ Agrees(h, b, t) /\ t.second \in Int
      BY <2>1, <2>2, Known, ToldOf DEF State
    <3>2. t.backlog # Nothing
      BY <2>8, <3>1, PresentFields
    <3>3. Continues(h, x, y, t.second - 1)
      BY <2>2, <2>3, <2>8, <3>1, <3>2 DEF Agrees
    <3>4. o <= t.second - 1
      BY <2>3, <2>8, <3>1
    <3>5. h[y].data[o] = s.data
      BY <2>3, <3>3, <3>4 DEF Continues
    <3> QED BY <2>6, <3>5
  <2> QED BY <2>2, <2>7, <2>8
<1> QED BY <1>1, Invariance, HistoryInvariance, PTL

\* One message of a stream, for a reader at the offset o of H: a command of H
\* takes it to the next dataset, anything else leaves it where it is.
LEMMA ReadsOne ==
    ASSUME NEW H, NEW o, Leads(H, o), NEW acc, acc.data = H.data[o], Fits(H, o, acc.db),
           NEW c, c = H.cmd[o + 1]
    PROVE  LET t == Replayed(acc, c) IN t.data = H.data[o + 1] /\ Fits(H, o + 1, t.db)
<1>1. PICK t : t = Replayed(acc, c)
  OBVIOUS
<1>2. /\ t.data = IF c.op = "write" THEN Append(acc.data, <<c.arg, acc.db>>) ELSE acc.data
      /\ t.db = IF c.op = "select" THEN c.arg ELSE acc.db
  BY <1>1 DEF Replayed
<1>3. c.op = "write" => acc.db = H.db[o]
  BY DEF Leads, Fits
<1>4. t.data = H.data[o + 1]
  BY <1>2, <1>3 DEF Leads
<1>5. Fits(H, o + 1, t.db)
  BY <1>2 DEF Leads, Fits
<1> QED BY <1>1, <1>4, <1>5

\* Where a reader of a stream, whose commands begin with its element k, is after
\* n messages.
Place(o, k, n) == IF n < k THEN o ELSE o + (n + 1 - k)

\* The messages before k are no commands of the stream.
Skips(q, k) ==
    /\ k >= 1 /\ k <= Len(q) + 1
    /\ \A j \in 1 .. Len(q) : j < k => q[j].op # "write" /\ q[j].op # "select"

\* The dataset a stream ends with.
LEMMA Replays ==
    ASSUME NEW H, HistOK(H), NEW o \in Nat, NEW d, Fits(H, o, d), NEW S, NEW q \in Seq(S),
           NEW k \in Nat, Skips(q, k), Carries(H, o, q, k)
    PROVE  Replay(H.data[o], d, q) = H.data[o + (Len(q) + 1 - k)]
<1>1. PICK l, a : l = Len(q) /\ a = [data |-> H.data[o], db |-> d]
  OBVIOUS
<1>2. l \in Nat /\ H.top \in Int /\ o + (l + 1 - k) <= H.top /\ k <= l + 1
  BY <1>1 DEF HistOK, History, Carries, Skips
<1>3. a.data = H.data[o] /\ a.db = d
  BY <1>1
<1> DEFINE F(n) == Cmds!Fold(0, a, SubSeq(q, 1, n))
           At(n) == F(n).data = H.data[Place(o, k, n)] /\ Fits(H, Place(o, k, n), F(n).db)
           T == {n \in Nat : n <= l => At(n)}
<1> HIDE DEF F
<1>4. 0 \in T
  <2>1. SubSeq(q, 1, 0) = <<>>
    OBVIOUS
  <2>2. F(0) = a
    BY <2>1, Cmds!FoldEmpty DEF F
  <2>3. Place(o, k, 0) = o
    BY DEF Place, Skips
  <2> QED BY <1>3, <2>2, <2>3
<1>5. ASSUME NEW n \in Nat, n \in T
      PROVE  n + 1 \in T
  <2> SUFFICES ASSUME n + 1 <= l PROVE At(n + 1)
    OBVIOUS
  <2>1. PICK u, v, x : u = SubSeq(q, 1, n) /\ v = SubSeq(q, 1, n + 1) /\ x = q[n + 1]
    OBVIOUS
  <2>2. n + 1 \in 1 .. l /\ n <= l
    BY <1>2
  <2>3. u \in Seq(S) /\ x \in S /\ v = Append(u, x)
    BY <1>1, <2>1, <2>2
  <2>4. F(n + 1) = Replayed(F(n), x)
    <3>1. Cmds!Fold(0, a, Append(u, x)) = StreamStep(0, Cmds!Fold(0, a, u), x)
      BY <2>3, Cmds!FoldAppend
    <3> QED BY <2>1, <2>3, <3>1 DEF F, StreamStep
  <2>5. PICK f, p : f = F(n) /\ p = Place(o, k, n)
    OBVIOUS
  <2>6. f.data = H.data[p] /\ Fits(H, p, f.db)
    BY <1>5, <2>2, <2>5
  <2>7. CASE n + 1 < k
    <3>1. Place(o, k, n + 1) = p
      BY <2>5, <2>7 DEF Place
    <3>2. x.op # "write" /\ x.op # "select"
      BY <1>1, <2>1, <2>2, <2>7 DEF Skips
    <3>3. Replayed(f, x).data = f.data /\ Replayed(f, x).db = f.db
      BY <3>2 DEF Replayed
    <3> QED BY <2>4, <2>5, <2>6, <3>1, <3>3
  <2>8. CASE ~(n + 1 < k)
    <3>1. Place(o, k, n + 1) = p + 1 /\ p = o + (n + 1 - k) /\ p \in Nat /\ p < H.top
      <4>1. p = o + (n + 1 - k)
        BY <1>2, <2>2, <2>5, <2>8 DEF Place
      <4>2. Place(o, k, n + 1) = o + (n + 1 + 1 - k)
        BY <2>8 DEF Place
      <4>3. p \in Nat /\ p + 1 = o + (n + 1 + 1 - k) /\ p < H.top
        BY <1>2, <2>2, <2>8, <4>1
      <4> QED BY <4>1, <4>2, <4>3
    <3>2. Leads(H, p)
      BY <3>1 DEF HistOK
    <3>3. x = H.cmd[p + 1]
      <4>1. PICK j : j = n + 1
        OBVIOUS
      <4>2. j \in k .. l /\ o + (j + 1 - k) = p + 1
        BY <1>2, <2>2, <2>8, <3>1, <4>1
      <4>3. q[j] = H.cmd[o + (j + 1 - k)]
        BY <1>1, <4>2 DEF Carries
      <4> QED BY <2>1, <4>1, <4>2, <4>3
    <3>4. Replayed(f, x).data = H.data[p + 1] /\ Fits(H, p + 1, Replayed(f, x).db)
      BY <2>6, <3>2, <3>3, ReadsOne
    <3> QED BY <2>4, <2>5, <3>1, <3>4
  <2> QED BY <2>7, <2>8
<1>6. T = {n \in Nat : n <= l => At(n)}
  OBVIOUS
<1> HIDE DEF T
<1>7. \A n \in Nat : n \in T
  BY <1>4, <1>5, Cmds!NatSet
<1>8. At(l)
  <2>1. l \in T /\ l <= l
    BY <1>2, <1>7
  <2> QED BY <1>6, <2>1
<1>9. SubSeq(q, 1, l) = q
  BY <1>1
<1>10. F(l) = Cmds!Fold(0, a, q)
  BY <1>9 DEF F
<1>11. Place(o, k, l) = o + (l + 1 - k)
  BY <1>2 DEF Place
<1>12. Cmds!Fold(0, a, q).data = H.data[o + (l + 1 - k)]
  BY <1>8, <1>10, <1>11
<1> QED BY <1>1, <1>12, ReplayFolds

\* What is on its way on c, from the message k on, is for a reader with the
\* dataset data at the offset o of the history x.
Serves(h, c, x, o, k, data, d) ==
    /\ data = h[x].data[o] /\ Fits(h[x], o, d) /\ Carries(h[x], o, c.q \o c.out, k)
    /\ Skips(c.q, k)

\* Such a reader comes to where the master is.
LEMMA Arrives ==
    ASSUME NEW h, Recorded(h), NEW i \in Nat, NEW c \in Conn(i), c.open, NEW m, m.off \in Nat,
           Reaches(h[m.replid], m.off, m.data), NEW x \in Nat, NEW o \in Nat, NEW k \in Nat,
           NEW l, l = k - 1, Ends(c, m, x, o, l), NEW data, NEW d, Serves(h, c, x, o, k, data, d)
    PROVE  Replay(data, d, c.q \o c.out) = m.data
<1>1. PICK z, q, u : z = c.q \o c.out /\ q = c.q /\ u = c.out
  OBVIOUS
<1>2. q \in Seq(Msg(i)) /\ u \in Seq(Msg(i))
  <2>1. c.q \in Seq(Msg(i)) /\ c.out \in Seq(Cmd) /\ Cmd \subseteq Msg(i)
    BY DEF Conn, Msg
  <2> QED BY <1>1, <2>1
<1>3. /\ z \in Seq(Msg(i)) /\ Len(z) = Len(q) + Len(u) /\ Len(q) \in Nat /\ Len(u) \in Nat
      /\ \A j \in 1 .. Len(q) : z[j] = q[j]
  <2>1. Len(q) \in Nat /\ Len(u) \in Nat
    BY <1>2
  <2>2. q \o u \in Seq(Msg(i)) /\ Len(q \o u) = Len(q) + Len(u)
    BY <1>2
  <2>3. ASSUME NEW j \in 1 .. Len(q)
        PROVE  (q \o u)[j] = q[j]
    BY <1>2, <2>1
  <2> QED BY <1>1, <2>1, <2>2, <2>3
<1>4. HistOK(h[x]) /\ data = h[x].data[o] /\ Fits(h[x], o, d) /\ Carries(h[x], o, z, k) /\ k <= Len(q) + 1
  BY <1>1 DEF Recorded, Serves, Skips
<1>5. k <= Len(z) + 1
  BY <1>3, <1>4
<1>6. \A j \in 1 .. Len(z) : j < k => z[j].op # "write" /\ z[j].op # "select"
  <2> SUFFICES ASSUME NEW j \in 1 .. Len(z), j < k
               PROVE  z[j].op # "write" /\ z[j].op # "select"
    OBVIOUS
  <2>1. j \in 1 .. Len(q)
    BY <1>3, <1>4
  <2> QED BY <1>1, <1>3, <2>1 DEF Serves, Skips
<1>7. Replay(h[x].data[o], d, z) = h[x].data[o + (Len(z) + 1 - k)]
  <2>1. PICK H : H = h[x]
    OBVIOUS
  <2>2. HistOK(H) /\ Fits(H, o, d) /\ Carries(H, o, z, k)
    BY <1>4, <2>1
  <2>4. Skips(z, k)
    BY <1>5, <1>6 DEF Serves, Skips
  <2>5. PICK S : z \in Seq(S)
    BY <1>3
  <2>3. Replay(H.data[o], d, z) = H.data[o + (Len(z) + 1 - k)]
    BY <2>2, <2>4, <2>5, Replays
  <2> QED BY <2>1, <2>3
<1>8. m.replid = x /\ o + (Len(z) + 1 - k) = m.off
  <2>1. m.replid = x /\ o + (Len(q) + Len(u)) = m.off + l
    BY <1>1 DEF Ends, Pending
  <2>2. PICK a, b, e : a = Len(q) /\ b = Len(u) /\ e = m.off
    OBVIOUS
  <2>3. a \in Nat /\ b \in Nat /\ e \in Nat /\ o + (a + b) = e + (k - 1)
    BY <1>3, <2>1, <2>2
  <2>4. o + ((a + b) + 1 - k) = e
    BY <2>3
  <2> QED BY <1>3, <2>1, <2>2, <2>4
<1> QED BY <1>1, <1>4, <1>7, <1>8 DEF Reaches

\* The dataset of a replica that reads the stream.
LEMMA StreamSettles ==
    ASSUME Inv, NEW h, Tale(h, node, conn, rdb), NEW r \in Server, NEW s, s = node[r], NEW c, c = conn[r],
           NEW m, m = node[conn[r].to], Streams(s, c, m)
    PROVE  \E x, o \in Nat : /\ Ends(c, m, x, o, 0) /\ Serves(h, c, x, o, 1, s.data, s.master.db)
<1>1. /\ ids \in Nat /\ s \in State(ids) /\ c \in Conn(ids) /\ NodeOK(r, s, ids)
  BY Known
<1>2. Agrees(h, r, s) /\ Brings(h, s, c, m)
  BY ToldOf
<1>3. PICK x, o : x = s.replid /\ o = s.off
  OBVIOUS
<1>4. x \in Nat /\ o \in Nat
  BY <1>1, <1>3 DEF State
<1>5. s.rstate = "connected" /\ c.out = <<>> /\ Ends(c, m, x, o, 0)
  BY <1>3 DEF Streams
<1>6. s.master # Nothing
  BY <1>1, <1>5 DEF NodeOK, NodeBase
<1>7. s.data = h[x].data[o] /\ Fits(h[x], o, s.master.db)
  BY <1>2, <1>3, <1>6 DEF Agrees, Reaches
<1>8. Carries(h[x], o, c.q, 1)
  BY <1>2, <1>3, <1>5 DEF Brings
<1>9. c.q \o c.out = c.q /\ Len(c.q) \in Nat
  <2>1. c.q \in Seq(Msg(ids))
    BY <1>1 DEF Conn
  <2> QED BY <1>5, <2>1
<1>10. Serves(h, c, x, o, 1, s.data, s.master.db)
  BY <1>7, <1>8, <1>9 DEF Serves, Skips
<1> QED BY <1>4, <1>5, <1>10

\* The dataset of a replica that is told to continue.
LEMMA ContinueSettles ==
    ASSUME Inv, NEW h, Tale(h, node, conn, rdb), NEW r \in Server, NEW s, s = node[r], NEW c, c = conn[r],
           NEW m, m = node[conn[r].to], ContinueAhead(s, c, m, ids)
    PROVE  \E x, o \in Nat : /\ Ends(c, m, x, o, 1) /\ Serves(h, c, x, o, 2, s.data, s.cached.db)
<1>1. /\ ids \in Nat /\ s \in State(ids) /\ c \in Conn(ids) /\ NodeOK(r, s, ids)
  BY Known
<1>2. Agrees(h, r, s) /\ Brings(h, s, c, m) /\ Recorded(h)
  BY ToldOf
<1>3. PICK x, y, o, q : x = c.q[1].id /\ y = s.replid /\ o = s.off /\ q = c.q
  OBVIOUS
<1>4. /\ s.rstate = "receive_psync" /\ c.st = "online" /\ c.out = <<>> /\ Len(q) >= 1 /\ q[1] \in ContinueMsg(ids)
      /\ s.cached # Nothing /\ Ends(c, m, x, o, 1)
  BY <1>3 DEF ContinueAhead
<1>5. x \in Nat /\ y \in Nat /\ o \in Nat /\ q[1].op = "continue"
  <2>1. x \in 1 .. ids /\ q[1].op = "continue"
    BY <1>3, <1>4 DEF ContinueMsg
  <2>2. y \in 1 .. ids /\ o \in Nat
    BY <1>1, <1>3 DEF State
  <2> QED BY <1>1, <2>1, <2>2
<1>6. s.data = h[y].data[o] /\ Fits(h[y], o, s.cached.db)
  BY <1>2, <1>3, <1>4 DEF Agrees, Reaches
<1>7. Continues(h, y, x, o) /\ Carries(h[x], o, q, 2)
  BY <1>2, <1>3, <1>4, <1>5 DEF Brings
<1>8. s.data = h[x].data[o] /\ Fits(h[x], o, s.cached.db)
  <2>1. CASE x = y
    BY <1>6, <2>1
  <2>2. CASE x # y
    <3>1. o <= o
      BY <1>5
    <3>2. h[x].data[o] = h[y].data[o] /\ (h[x].db[o] = NoDb \/ h[x].db[o] = h[y].db[o])
      BY <1>5, <1>7, <2>2, <3>1 DEF Continues
    <3> QED BY <1>6, <3>2 DEF Fits
  <2> QED BY <2>1, <2>2
<1>9. q \o c.out = q /\ Len(q) \in Nat
  <2>1. q \in Seq(Msg(ids))
    BY <1>1, <1>3 DEF Conn
  <2> QED BY <1>4, <2>1
<1>10. \A j \in 1 .. Len(q) : j < 2 => q[j].op # "write" /\ q[j].op # "select"
  <2>1. \A j \in 1 .. Len(q) : j < 2 => j = 1
    BY <1>9
  <2> QED BY <1>5, <2>1
<1>11. 2 <= Len(q) + 1
  BY <1>4, <1>9
<1>12. Serves(h, c, x, o, 2, s.data, s.cached.db)
  <2>1. Skips(q, 2)
    BY <1>9, <1>10, <1>11 DEF Skips
  <2> QED BY <1>3, <1>7, <1>8, <1>9, <2>1 DEF Serves
<1> QED BY <1>4, <1>5, <1>12

\* A replica that waits for a BGSAVE: the dataset of the child and what was
\* collected since the fork.
LEMMA ChildSettles ==
    ASSUME Inv, NEW h, Tale(h, node, conn, rdb), NEW r \in Server, NEW s, s = node[r], NEW c, c = conn[r],
           NEW m, m = node[conn[r].to], c.open, Announced(s, c, m, ids) \/ AwaitsFile(s, c, m)
    PROVE  \E x, o, k \in Nat : /\ k >= 1 /\ Ends(c, m, x, o, k - 1)
                                /\ Serves(h, c, x, o, k, m.child.data, m.child.db)
<1>1. PICK full : /\ s.rstate = "receive_psync" \/ s.rstate = "transfer"
                  /\ c.st = "wait_end" /\ Collects(c, m, full) /\ full \in FullMsg(ids)
                  /\ Ends(c, m, full.id, full.off, Len(c.q))
                  /\ c.q = <<>> \/ (Len(c.q) = 1 /\ c.q[1] = full)
  <2>1. CASE Announced(s, c, m, ids)
    BY <2>1 DEF Announced
  <2>2. CASE AwaitsFile(s, c, m)
    <3>1. s.sync \in FullMsg(ids)
      BY <2>2, Known, PresentFields DEF AwaitsFile
    <3>2. Len(c.q) = 0
      BY <2>2 DEF AwaitsFile
    <3> QED BY <2>2, <3>1, <3>2 DEF AwaitsFile
  <2> QED BY <2>1, <2>2
<1>2. /\ ids \in Nat /\ c \in Conn(ids) /\ Brings(h, s, c, m) /\ Recorded(h)
      /\ Attempts(s)
  BY <1>1, Known, ToldOf DEF Attempts
<1>3. conn[r].to \in Server
  BY <1>2, Known
<1>4. PICK f, x, o, q, k : /\ f = m.child /\ x = full.id /\ o = full.off /\ q = c.q /\ k = Len(c.q) + 1
  OBVIOUS
<1>5. m \in State(ids) /\ Agrees(h, conn[r].to, m)
  BY <1>3, Known, ToldOf
<1>6. f # Nothing /\ f.id = x /\ f.off = o /\ SentTells(h, f)
  <2>1. f # Nothing /\ f.id = x /\ f.off = o
    BY <1>1, <1>4 DEF Collects
  <2> QED BY <1>4, <1>5, <2>1 DEF Agrees
<1>7. x \in Nat /\ o \in Nat
  <2>1. x \in 1 .. ids /\ o \in Nat
    BY <1>1, <1>4 DEF FullMsg
  <2> QED BY <1>2, <2>1
<1>8. f.data = h[x].data[o] /\ Fits(h[x], o, f.db)
  BY <1>6 DEF SentTells, Tells, Reaches
<1>9. Carries(h[x], o, c.out, 1)
  BY <1>1, <1>2, <1>4, <1>6 DEF Brings
<1>10. c.q \in Seq(Msg(ids)) /\ c.out \in Seq(Msg(ids)) /\ Len(c.q) \in Nat
  <2>1. c.q \in Seq(Msg(ids)) /\ c.out \in Seq(Cmd) /\ Cmd \subseteq Msg(ids)
    BY <1>2 DEF Conn, Msg
  <2> QED BY <2>1
<1>11. Carries(h[x], o, c.q \o c.out, k)
  <2>1. HistOK(h[x]) /\ o \in Int
    BY <1>2, <1>7 DEF Recorded
  <2> QED BY <1>4, <1>9, <1>10, <2>1, CarriesBehind
<1>12. Skips(c.q, k)
  <2>1. k >= 1 /\ k <= Len(c.q) + 1
    BY <1>4, <1>10
  <2>2. \A j \in 1 .. Len(c.q) : c.q[j].op = "fullresync"
    <3>1. CASE c.q = <<>>
      BY <3>1
    <3>2. CASE Len(c.q) = 1 /\ c.q[1] = full
      <4>1. full.op = "fullresync"
        BY <1>1 DEF FullMsg
      <4>2. \A j \in 1 .. Len(c.q) : j = 1
        BY <3>2
      <4> QED BY <3>2, <4>1, <4>2
    <3> QED BY <1>1, <3>1, <3>2
  <2> QED BY <2>1, <2>2 DEF Skips
<1>13. Serves(h, c, x, o, k, f.data, f.db)
  BY <1>8, <1>11, <1>12 DEF Serves
<1>14. k \in Nat /\ k >= 1 /\ k - 1 = Len(c.q)
  BY <1>4, <1>10
<1> QED BY <1>1, <1>4, <1>7, <1>13, <1>14

\* A replica whose RDB file is on its way, followed by the commands since.
LEMMA FileSettles ==
    ASSUME Inv, NEW h, Tale(h, node, conn, rdb), NEW r \in Server, NEW s, s = node[r], NEW c, c = conn[r],
           NEW m, m = node[conn[r].to], FileAhead(s, c, m, ids) \/ ReadsFile(s, c, m, ids),
           NEW msg \in Range(c.q), msg.op = "rdb"
    PROVE  \E x, o, k \in Nat : /\ k >= 1 /\ Ends(c, m, x, o, k - 1)
                                /\ Serves(h, c, x, o, k, msg.file.data, msg.file.db)
<1>1. /\ ids \in Nat /\ c \in Conn(ids) /\ s \in State(ids) /\ Brings(h, s, c, m) /\ Recorded(h)
  BY Known, ToldOf
<1>2. PICK q : q = c.q
  OBVIOUS
<1>3. q \in Seq(Msg(ids)) /\ Len(q) \in Nat
  <2>1. q \in Seq(Msg(ids))
    BY <1>1, <1>2 DEF Conn
  <2> QED BY <2>1
<1>4. PICK p, full : /\ p \in Nat /\ p >= 1 /\ p <= Len(q) /\ full \in FullMsg(ids) /\ q[p] \in RdbMsg(ids)
                     /\ CommandsFrom(q, p + 1) /\ c.out = <<>>
                     /\ \A j \in 1 .. Len(q) : j < p => q[j] = full
                     /\ FileFirst(h, q, p, full) /\ Ends(c, m, full.id, full.off, p)
  <2>1. CASE FileAhead(s, c, m, ids)
    <3>1. /\ s.rstate = "receive_psync" /\ c.st = "online" /\ c.out = <<>> /\ Len(q) >= 2
          /\ q[1] \in FullMsg(ids) /\ q[2] \in RdbMsg(ids) /\ CommandsFrom(q, 3)
          /\ Ends(c, m, q[1].id, q[1].off, 2)
      BY <1>2, <2>1 DEF FileAhead
    <3>2. q[1].op = "fullresync"
      BY <3>1 DEF FullMsg
    <3>3. FileFirst(h, q, 2, q[1])
      BY <1>1, <1>2, <3>1, <3>2 DEF Brings
    <3>4. 2 \in Nat /\ 2 >= 1 /\ 2 + 1 = 3 /\ \A j \in 1 .. Len(q) : j < 2 => j = 1
      BY <1>3
    <3> QED BY <3>1, <3>3, <3>4
  <2>2. CASE ReadsFile(s, c, m, ids)
    <3>1. /\ s.rstate = "transfer" /\ c.st = "online" /\ c.out = <<>> /\ Len(q) >= 1
          /\ q[1] \in RdbMsg(ids) /\ CommandsFrom(q, 2) /\ s.sync # Nothing
          /\ Ends(c, m, s.sync.id, s.sync.off, 1)
      BY <1>2, <2>2 DEF ReadsFile
    <3>2. s.sync \in FullMsg(ids)
      BY <1>1, <3>1, PresentFields
    <3>3. FileFirst(h, q, 1, s.sync)
      BY <1>1, <1>2, <3>1 DEF Brings
    <3>4. 1 \in Nat /\ 1 >= 1 /\ 1 + 1 = 2 /\ \A j \in 1 .. Len(q) : ~(j < 1)
      BY <1>3
    <3> QED BY <3>1, <3>2, <3>3, <3>4
  <2> QED BY <2>1, <2>2
<1>5. msg = q[p]
  <2>1. PICK j \in 1 .. Len(q) : msg = q[j]
    BY <1>2, <1>3 DEF Range
  <2>2. CASE j < p
    <3>1. msg.op = "fullresync"
      BY <1>4, <2>1, <2>2 DEF FullMsg
    <3> QED BY <3>1
  <2>3. CASE j > p
    <3>1. j \in (p + 1) .. Len(q)
      BY <1>3, <1>4, <2>3
    <3>2. msg \in Cmd
      BY <1>4, <2>1, <3>1 DEF CommandsFrom
    <3> QED BY <3>2 DEF Cmd
  <2>4. CASE j = p
    BY <2>1, <2>4
  <2> QED BY <1>4, <2>2, <2>3, <2>4
<1>6. PICK f, x, o, k : f = msg.file /\ x = full.id /\ o = full.off /\ k = p + 1
  OBVIOUS
<1>7. SentTells(h, f) /\ f.id = x /\ f.off = o /\ Carries(h[x], o, q, k)
  <2>1. FileFirst(h, q, p, full)
    BY <1>4
  <2>2. /\ q[p].file.id = full.id /\ q[p].file.off = full.off /\ SentTells(h, q[p].file)
        /\ Carries(h[full.id], full.off, q, p + 1)
    BY <2>1 DEF FileFirst
  <2> QED BY <1>5, <1>6, <2>2
<1>8. x \in Nat /\ o \in Nat
  <2>1. x \in 1 .. ids /\ o \in Nat
    BY <1>4, <1>6 DEF FullMsg
  <2> QED BY <1>1, <2>1
<1>9. f.data = h[x].data[o] /\ Fits(h[x], o, f.db)
  BY <1>7 DEF SentTells, Tells, Reaches
<1>10. Skips(q, k)
  <2>1. k >= 1 /\ k <= Len(q) + 1
    BY <1>3, <1>4, <1>6
  <2>2. full.op = "fullresync" /\ q[p].op = "rdb"
    BY <1>4 DEF FullMsg, RdbMsg
  <2>3. \A j \in 1 .. Len(q) : j < k => j < p \/ j = p
    BY <1>3, <1>4, <1>6
  <2>4. \A j \in 1 .. Len(q) : j < k => q[j] = full \/ q[j] = q[p]
    BY <1>4, <2>3
  <2> QED BY <2>1, <2>2, <2>4 DEF Skips
<1>11. q \o c.out = q
  BY <1>3, <1>4
<1>12. Serves(h, c, x, o, k, f.data, f.db)
  BY <1>2, <1>7, <1>9, <1>10, <1>11 DEF Serves
<1>13. k \in Nat /\ k >= 1 /\ k - 1 = p
  BY <1>4, <1>6
<1>14. Ends(c, m, x, o, k - 1)
  BY <1>4, <1>6, <1>13
<1> QED BY <1>6, <1>8, <1>12, <1>13, <1>14

\* Which messages are on their way in the phases of a full resynchronisation.
LEMMA FullPhases ==
    ASSUME NEW i \in Nat, NEW s, NEW c \in Conn(i), NEW m
    PROVE  /\ \/ Announced(s, c, m, i) \/ AwaitsFile(s, c, m) \/ FileAhead(s, c, m, i) \/ ReadsFile(s, c, m, i)
              => \A y \in Range(c.q) : y.op # "continue"
           /\ FileAhead(s, c, m, i) \/ ReadsFile(s, c, m, i)
              => \E y \in Range(c.q) : y.op = "rdb"
           /\ ContinueAhead(s, c, m, i) => \E y \in Range(c.q) : y.op = "continue"
<1>1. PICK q : q = c.q
  OBVIOUS
<1>2. q \in Seq(Msg(i)) /\ Len(q) \in Nat
  <2>1. q \in Seq(Msg(i))
    BY <1>1 DEF Conn
  <2> QED BY <2>1
<1>3. \A x \in FullMsg(i) \cup RdbMsg(i) \cup Cmd : x.op # "continue"
  BY DEF FullMsg, RdbMsg, Cmd
<1>4. \A j \in 1 .. Len(q) : q[j] \in Range(q)
  BY <1>2 DEF Range
<1>5. ASSUME NEW y \in Range(q), NEW k \in Nat, CommandsFrom(q, k),
             \A j \in 1 .. Len(q) : j < k => q[j] \in FullMsg(i) \cup RdbMsg(i)
      PROVE  y.op # "continue"
  <2>1. PICK j \in 1 .. Len(q) : y = q[j]
    BY <1>2 DEF Range
  <2>2. j < k \/ j \in k .. Len(q)
    BY <1>2
  <2> QED BY <1>3, <1>5, <2>1, <2>2 DEF CommandsFrom
<1>6. Announced(s, c, m, i) => \A y \in Range(q) : y.op # "continue"
  <2> SUFFICES ASSUME Announced(s, c, m, i), NEW y \in Range(q) PROVE y.op # "continue"
    OBVIOUS
  <2>1. Len(q) = 1 /\ q[1] \in FullMsg(i)
    BY <1>1 DEF Announced
  <2>2. 2 \in Nat /\ CommandsFrom(q, 2) /\ \A j \in 1 .. Len(q) : j < 2 => q[j] \in FullMsg(i)
    BY <2>1 DEF CommandsFrom
  <2> QED BY <1>5, <2>2
<1>7. AwaitsFile(s, c, m) => \A y \in Range(q) : y.op # "continue"
  BY <1>1 DEF AwaitsFile, Range
<1>8. FileAhead(s, c, m, i) => \A y \in Range(q) : y.op # "continue"
  <2> SUFFICES ASSUME FileAhead(s, c, m, i), NEW y \in Range(q) PROVE y.op # "continue"
    OBVIOUS
  <2>1. q[1] \in FullMsg(i) /\ q[2] \in RdbMsg(i) /\ CommandsFrom(q, 3)
    BY <1>1 DEF FileAhead
  <2>2. 3 \in Nat /\ \A j \in 1 .. Len(q) : j < 3 => j = 1 \/ j = 2
    BY <1>2
  <2> QED BY <1>5, <2>1, <2>2
<1>9. ReadsFile(s, c, m, i) => \A y \in Range(q) : y.op # "continue"
  <2> SUFFICES ASSUME ReadsFile(s, c, m, i), NEW y \in Range(q) PROVE y.op # "continue"
    OBVIOUS
  <2>1. q[1] \in RdbMsg(i) /\ CommandsFrom(q, 2)
    BY <1>1 DEF ReadsFile
  <2>2. 2 \in Nat /\ \A j \in 1 .. Len(q) : j < 2 => j = 1
    BY <1>2
  <2> QED BY <1>5, <2>1, <2>2
<1>10. FileAhead(s, c, m, i) \/ ReadsFile(s, c, m, i) => \E y \in Range(q) : y.op = "rdb"
  <2>1. \A x \in RdbMsg(i) : x.op = "rdb"
    BY DEF RdbMsg
  <2>2. FileAhead(s, c, m, i) => q[2] \in RdbMsg(i) /\ 2 \in 1 .. Len(q)
    BY <1>1, <1>2 DEF FileAhead
  <2>3. ReadsFile(s, c, m, i) => q[1] \in RdbMsg(i) /\ 1 \in 1 .. Len(q)
    BY <1>1, <1>2 DEF ReadsFile
  <2> QED BY <1>4, <2>1, <2>2, <2>3
<1>11. ContinueAhead(s, c, m, i) => \E y \in Range(q) : y.op = "continue"
  <2>1. ContinueAhead(s, c, m, i) => q[1] \in ContinueMsg(i) /\ 1 \in 1 .. Len(q)
    BY <1>1, <1>2 DEF ContinueAhead
  <2>2. \A x \in ContinueMsg(i) : x.op = "continue"
    BY DEF ContinueMsg
  <2> QED BY <1>4, <2>1, <2>2
<1> QED BY <1>1, <1>6, <1>7, <1>8, <1>9, <1>10, <1>11

\* A replica that its master has accepted, from the backlog or with an RDB file
\* and the differences collected since, holds its master's dataset once it has
\* read what is on its way, whatever promotions, restarts, failed loads and lost
\* links came before.
THEOREM ReplicasHoldMasterData == Spec => []NoDivergence
<1>1. Inv /\ OneHistory => NoDivergence
  <2> SUFFICES ASSUME Inv, OneHistory, NEW r \in Server, Attached(r)
               PROVE  Settled(r) = node[conn[r].to].data
    BY DEF NoDivergence
  <2>1. PICK h : Tale(h, node, conn, rdb)
    BY DEF OneHistory
  <2>2. PICK s, c, m : s = node[r] /\ c = conn[r] /\ m = node[conn[r].to]
    OBVIOUS
  <2>3. /\ ids \in Nat /\ s \in State(ids) /\ c \in Conn(ids) /\ ConnOK(s, c, m, ids)
        /\ Good(node, conn, ids)
    BY <2>2, Known
  <2>4. c.open /\ c.st \in {"wait_end", "online"}
    BY <2>2 DEF Attached
  <2>5. conn[r].to \in Server
    BY <2>2, <2>3, <2>4, Reached
  <2>6. m \in State(ids) /\ Agrees(h, conn[r].to, m) /\ Recorded(h) /\ m.off \in Nat
    BY <2>1, <2>2, <2>5, Known, ToldOf DEF State
  <2>7. /\ \/ Announced(s, c, m, ids) \/ FileAhead(s, c, m, ids) \/ ContinueAhead(s, c, m, ids)
           \/ AwaitsFile(s, c, m) \/ ReadsFile(s, c, m, ids) \/ Streams(s, c, m)
        /\ Attempts(s)
    BY <2>3, <2>4 DEF ConnOK, Idle, LinkOK, Queued
  <2>8. ASSUME NEW x \in Nat, NEW o \in Nat, NEW k \in Nat, k >= 1, NEW l, l = k - 1, Ends(c, m, x, o, l),
               NEW data, NEW d, Serves(h, c, x, o, k, data, d)
        PROVE  Replay(data, d, c.q \o c.out) = m.data
    <3>1. m.backlog # Nothing
      BY <2>4, <2>8 DEF Ends
    <3>2. Reaches(h[m.replid], m.off, m.data)
      BY <2>6, <3>1 DEF Agrees
    <3> QED BY <2>3, <2>4, <2>6, <2>8, <3>2, Arrives
  <2>9. PICK z, w : z = c.q \o c.out /\ w = (CHOOSE y \in Snapshots(r) : TRUE)
    OBVIOUS
  <2>10. Settled(r) = IF s.rstate = "connected" THEN Replay(s.data, s.master.db, z)
                      ELSE IF \E y \in Range(c.q) : y.op = "continue" THEN Replay(s.data, s.cached.db, z)
                      ELSE IF c.st = "wait_end" THEN Replay(m.child.data, m.child.db, z)
                      ELSE Replay(w.file.data, w.file.db, z)
    BY <2>2, <2>9 DEF Settled, Stream
  <2>11. CASE Streams(s, c, m)
    <3>1. PICK x, o \in Nat : Ends(c, m, x, o, 0) /\ Serves(h, c, x, o, 1, s.data, s.master.db)
      BY <2>1, <2>2, <2>11, StreamSettles
    <3>2. Replay(s.data, s.master.db, z) = m.data
      <4>1. 1 \in Nat /\ 1 >= 1 /\ 0 = 1 - 1
        OBVIOUS
      <4> QED BY <2>8, <2>9, <3>1, <4>1
    <3> QED BY <2>2, <2>10, <2>11, <3>2 DEF Streams
  <2>12. CASE ContinueAhead(s, c, m, ids)
    <3>1. PICK x, o \in Nat : Ends(c, m, x, o, 1) /\ Serves(h, c, x, o, 2, s.data, s.cached.db)
      BY <2>1, <2>2, <2>12, ContinueSettles
    <3>2. Replay(s.data, s.cached.db, z) = m.data
      <4>1. 2 \in Nat /\ 2 >= 1 /\ 1 = 2 - 1
        OBVIOUS
      <4> QED BY <2>8, <2>9, <3>1, <4>1
    <3>3. s.rstate # "connected" /\ \E y \in Range(c.q) : y.op = "continue"
      BY <2>3, <2>12, FullPhases DEF ContinueAhead
    <3> QED BY <2>2, <2>10, <3>2, <3>3
  <2>13. CASE Announced(s, c, m, ids) \/ AwaitsFile(s, c, m)
    <3>1. PICK x, o, k \in Nat : /\ k >= 1 /\ Ends(c, m, x, o, k - 1)
                                 /\ Serves(h, c, x, o, k, m.child.data, m.child.db)
      BY <2>1, <2>2, <2>4, <2>13, ChildSettles
    <3>2. Replay(m.child.data, m.child.db, z) = m.data
      BY <2>8, <2>9, <3>1
    <3>3. s.rstate # "connected" /\ c.st = "wait_end"
      BY <2>13 DEF Announced, AwaitsFile
    <3>4. ~\E y \in Range(c.q) : y.op = "continue"
      BY <2>3, <2>13, FullPhases
    <3> QED BY <2>2, <2>10, <3>2, <3>3, <3>4
  <2>14. CASE FileAhead(s, c, m, ids) \/ ReadsFile(s, c, m, ids)
    <3>1. w \in Range(c.q) /\ w.op = "rdb"
      <4>1. \E y \in Range(c.q) : y.op = "rdb"
        BY <2>3, <2>14, FullPhases
      <4>2. \E y : y \in Snapshots(r)
        BY <2>2, <4>1 DEF Snapshots
      <4>3. w \in Snapshots(r)
        BY <2>9, <4>2
      <4> QED BY <2>2, <4>3 DEF Snapshots
    <3>2. PICK x, o, k \in Nat : /\ k >= 1 /\ Ends(c, m, x, o, k - 1)
                                 /\ Serves(h, c, x, o, k, w.file.data, w.file.db)
      BY <2>1, <2>2, <2>14, <3>1, FileSettles
    <3>3. Replay(w.file.data, w.file.db, z) = m.data
      BY <2>8, <2>9, <3>2
    <3>4. s.rstate # "connected" /\ c.st = "online"
      BY <2>14 DEF FileAhead, ReadsFile
    <3>5. ~\E y \in Range(c.q) : y.op = "continue"
      BY <2>3, <2>14, FullPhases
    <3> QED BY <2>2, <2>10, <3>3, <3>4, <3>5
  <2> QED BY <2>7, <2>11, <2>12, <2>13, <2>14
<1> QED BY <1>1, Invariance, HistoryInvariance, PTL

-----------------------------------------------------------------------------
(* What a FAILOVER may lose                                               *)

\* A step that changes one instance only promotes no target: the instance that
\* asks and the one that is promoted both change.
LEMMA OneChangeIsNoTakeover ==
    ASSUME Inv, NEW n, \A k \in Server : k # n => node'[k] = node[k], NEW r \in Server, TakesOver(r)
    PROVE  FALSE
<1>1. PICK m : m = node[r].masterhost
  OBVIOUS
<1>2. m \in Server /\ m # r
  <2>1. NodeOK(r, node[r], ids) /\ node[r] \in State(ids) /\ m # NoServer
    BY <1>1, Known DEF TakesOver
  <2> QED BY <1>1, <2>1 DEF NodeOK, NodeBase, State
<1>3. CASE n = r
  <2>1. node'[m] = node[m]
    BY <1>2, <1>3
  <2> QED BY <1>1, <2>1 DEF TakesOver
<1>4. CASE n # r
  <2>1. node'[r] = node[r]
    BY <1>4
  <2> QED BY <2>1 DEF TakesOver
<1> QED BY <1>3, <1>4

\* A promotion in an accepted PSYNC: the target has the ID of the cached master
\* of the one that steps down.
LEMMA PromotionSharesId ==
    ASSUME Inv, NEW n \in Server, NEW q \in Server, PsyncAccepted(n, q), NEW r \in Server, TakesOver(r),
           NEW x, node' = [node EXCEPT ![n] = x, ![q].rstate = "receive_psync"],
           \A k \in Server : k # n /\ k # q => node'[k] = node[k]
    PROVE  LET m == node[r].masterhost
           IN m \in Server /\ node[r].cached # Nothing /\ node[r].replid = node[m].replid
<1>1. PICK m, s : m = node[r].masterhost /\ s = node[r]
  OBVIOUS
<1>2. m \in Server /\ m # r /\ ids \in Nat /\ s \in State(ids) /\ NodeOK(r, s, ids)
  <2>1. NodeOK(r, node[r], ids) /\ node[r] \in State(ids) /\ m # NoServer /\ ids \in Nat
    BY <1>1, Known DEF TakesOver
  <2> QED BY <1>1, <2>1 DEF NodeOK, NodeBase, State
<1>3. node'[m] # node[m] /\ node'[r] # node[r]
  BY <1>1 DEF TakesOver
<1>4. {m, r} = {n, q}
  BY <1>2, <1>3
<1>5. n # r
  <2> SUFFICES ASSUME n = r PROVE FALSE
    OBVIOUS
  <2>1. q = m /\ node[q].masterhost = r
    BY <1>2, <1>4 DEF PsyncAccepted
  <2>2. node[r].failover = "progress" /\ node[r].rstate = "connect"
    BY DEF TakesOver
  <2>3. Promotes(node[r], Request(node[q])) \/ ~Unavailable(node[r])
    BY DEF PsyncAccepted
  <2>4. Unavailable(node[r])
    BY <2>2 DEF Unavailable
  <2>5. node'[q].masterhost = node[q].masterhost
    <3>1. node \in [Server -> State(ids)] /\ node[q] \in State(ids)
      BY Known DEF Inv, Good
    <3>2. q # n
      BY <1>2, <2>1
    <3>3. node'[q] = [node[q] EXCEPT !.rstate = "receive_psync"]
      BY <3>1, <3>2
    <3> QED BY <3>1, <3>3 DEF State
  <2>6. r # NoServer
    BY ReplAssumption
  <2> QED BY <1>1, <2>1, <2>5, <2>6 DEF TakesOver
<1>6. n = m /\ q = r
  BY <1>2, <1>4, <1>5
<1>7. s.failover = "progress"
  BY <1>1 DEF TakesOver
<1>8. PICK req : req = Request(s)
  OBVIOUS
<1>9. req.failover /\ req.id = IF s.cached.present THEN s.cached.id ELSE NoId
  BY <1>7, <1>8 DEF Request
<1>10. ~RefusesFailover(node[m], req)
  BY <1>1, <1>6, <1>8 DEF PsyncAccepted
<1>11. req.id = node[m].replid
  BY <1>9, <1>10 DEF RefusesFailover, Promotes
<1>12. node[m].replid # NoId
  <2>1. node[m] \in State(ids)
    BY <1>2, Known
  <2>2. node[m].replid \in 1 .. ids
    BY <2>1 DEF State
  <2> QED BY <1>2, <2>2 DEF NoId
<1>13. s.cached.present
  BY <1>9, <1>11, <1>12
<1>14. s.cached # Nothing
  BY <1>2, <1>13, PresentFields
<1>15. s.cached.id = s.replid
  BY <1>2, <1>14 DEF NodeOK, NodeBase
<1> QED BY <1>1, <1>2, <1>9, <1>11, <1>13, <1>14, <1>15

\* The same for every step.
LEMMA TakeoverSharesId ==
    ASSUME Inv, [Next]_vars, NEW r \in Server, TakesOver(r)
    PROVE  LET m == node[r].masterhost
           IN m \in Server /\ node[r].cached # Nothing /\ node[r].replid = node[m].replid
<1> DEFINE P == LET m == node[r].masterhost
                IN m \in Server /\ node[r].cached # Nothing /\ node[r].replid = node[m].replid
<1>0. node \in [Server -> State(ids)]
  BY DEF Inv, Good
<1>1. ASSUME NEW n, \A k \in Server : k # n => node'[k] = node[k] PROVE P
  BY <1>1, OneChangeIsNoTakeover
<1>2. ASSUME NEW n \in Server, NEW q \in Server, PsyncAccepted(n, q), NEW x,
             node' = [node EXCEPT ![n] = x, ![q].rstate = "receive_psync"]
      PROVE  P
  <2>1. \A k \in Server : k # n /\ k # q => node'[k] = node[k]
    BY <1>0, <1>2
  <2> QED BY <1>2, <2>1, PromotionSharesId
<1> HIDE DEF P
<1>3. ASSUME UNCHANGED node PROVE P
  BY <1>1, <1>3
<1>4. ASSUME NEW n \in Server, NEW d \in Dbs, Write(n, d) PROVE P
  <2>1. \A k \in Server : k # n => node'[k] = node[k]
    BY <1>0, <1>4 DEF Write
  <2> QED BY <1>1, <2>1
<1>5. ASSUME NEW n \in Server, PingSlaves(n) PROVE P
  BY <1>0, <1>1, <1>5 DEF PingSlaves
<1>6. ASSUME NEW n \in Server, NEW a, ReplicaOf(n, a) PROVE P
  BY <1>0, <1>1, <1>6 DEF ReplicaOf
<1>7. ASSUME NEW n \in Server, ReplicaOfNoOne(n) PROVE P
  BY <1>0, <1>1, <1>7 DEF ReplicaOfNoOne
<1>8. ASSUME NEW n \in Server, Save(n) PROVE P
  BY <1>3, <1>8 DEF Save
<1>9. ASSUME NEW n \in Server, Restart(n) PROVE P
  <2>1. \A k \in Server : k # n => node'[k] = node[k]
    BY <1>0, <1>9 DEF Restart
  <2> QED BY <1>1, <2>1
<1>10. ASSUME NEW n \in Server, Replica(n) PROVE P
  <2>1. \A k \in Server : k # n => node'[k] = node[k]
    <3>1. ASSUME ReceiveFullResync(n) PROVE \A k \in Server : k # n => node'[k] = node[k]
      BY <1>0, <3>1 DEF ReceiveFullResync
    <3>2. ASSUME ReceiveRdb(n) PROVE \A k \in Server : k # n => node'[k] = node[k]
      BY <1>0, <3>2 DEF ReceiveRdb
    <3>3. ASSUME LoadFails(n) PROVE \A k \in Server : k # n => node'[k] = node[k]
      BY <1>0, <3>3 DEF LoadFails
    <3>4. ASSUME ReceiveContinue(n) PROVE \A k \in Server : k # n => node'[k] = node[k]
      BY <1>0, <3>4 DEF ReceiveContinue
    <3>5. ASSUME ReceiveCommand(n) PROVE \A k \in Server : k # n => node'[k] = node[k]
      BY <1>0, <3>5 DEF ReceiveCommand
    <3>6. ASSUME LinkDown(n) PROVE \A k \in Server : k # n => node'[k] = node[k]
      BY <1>0, <3>6 DEF LinkDown
    <3> QED BY <1>10, <3>1, <3>2, <3>3, <3>4, <3>5, <3>6 DEF Replica
  <2> QED BY <1>1, <2>1
<1>11. ASSUME NEW n \in Server, NEW q \in Server, PsyncFailoverFails(n, q) PROVE P
  BY <1>0, <1>1, <1>11 DEF PsyncFailoverFails
<1>12. ASSUME NEW n \in Server, NEW q \in Server, PsyncContinue(n, q) PROVE P
  <2>1. PsyncAccepted(n, q) /\ \E x : node' = [node EXCEPT ![n] = x, ![q].rstate = "receive_psync"]
    BY <1>12 DEF PsyncContinue
  <2> QED BY <1>2, <2>1
<1>13. ASSUME NEW n \in Server, NEW q \in Server, PsyncFull(n, q) PROVE P
  <2>1. PsyncAccepted(n, q) /\ \E x : node' = [node EXCEPT ![n] = x, ![q].rstate = "receive_psync"]
    BY <1>13 DEF PsyncFull
  <2> QED BY <1>2, <2>1
<1>14. ASSUME NEW n \in Server, StartBgsave(n) PROVE P
  BY <1>0, <1>1, <1>14 DEF StartBgsave
<1>15. ASSUME NEW n \in Server, StartBgsaveFails(n) PROVE P
  BY <1>3, <1>15 DEF StartBgsaveFails
<1>16. ASSUME NEW n \in Server, BgsaveDone(n) PROVE P
  BY <1>0, <1>1, <1>16 DEF BgsaveDone
<1>17. ASSUME NEW n \in Server, BgsaveFails(n) PROVE P
  BY <1>0, <1>1, <1>17 DEF BgsaveFails
<1>18. ASSUME NEW n \in Server, FreeBacklog(n) PROVE P
  BY <1>0, <1>1, <1>18 DEF FreeBacklog
<1>19. ASSUME NEW n \in Server, NEW a, Failover(n, a) PROVE P
  BY <1>0, <1>1, <1>19 DEF Failover
<1>20. ASSUME NEW n \in Server, FailoverStart(n) PROVE P
  BY <1>0, <1>1, <1>20 DEF FailoverStart
<1>21. ASSUME NEW n \in Server, FailoverAbort(n) PROVE P
  BY <1>0, <1>1, <1>21 DEF FailoverAbort
<1>22. UNCHANGED vars => UNCHANGED node
  BY DEF vars
<1>23. P
  BY <1>3, <1>4, <1>5, <1>6, <1>7, <1>8, <1>9, <1>10, <1>11, <1>12, <1>13, <1>14, <1>15, <1>16,
     <1>17, <1>18, <1>19, <1>20, <1>21, <1>22 DEF Next
<1> QED BY <1>23 DEF P

\* Only a target that has fallen behind, or vouches for nothing, loses writes in a
\* FAILOVER, whatever was restarted or reconfigured while it was under way.
THEOREM FailoverLosesNothingElse == Spec => FailoverLosesOnlyByOffset
<1> DEFINE A == \A r \in Server :
                   LET m == node[r].masterhost
                   IN TakesOver(r) /\ Vouches(m) /\ node[r].off <= node[m].off
                          => IsPrefix(node[r].data, node[m].data)
<1>1. Inv /\ SameIdSameHistory /\ [Next]_vars => [A]_vars
  <2> SUFFICES ASSUME Inv, SameIdSameHistory, [Next]_vars, NEW r \in Server, NEW m, m = node[r].masterhost,
                      TakesOver(r), Vouches(m), node[r].off <= node[m].off
               PROVE  IsPrefix(node[r].data, node[m].data)
    OBVIOUS
  <2>1. m \in Server /\ node[r].cached # Nothing /\ node[r].replid = node[m].replid
    BY TakeoverSharesId
  <2>2. Vouches(r)
    BY <2>1, Known, PresentFields DEF Vouches
  <2> QED BY <2>1, <2>2 DEF SameIdSameHistory
<1> HIDE DEF A
<1>2. FailoverLosesOnlyByOffset <=> [][A]_vars
  BY DEF FailoverLosesOnlyByOffset, A
<1> QED BY <1>1, <1>2, Invariance, SameHistory, PTL DEF Spec
=============================================================================
