----------------------- MODULE RedisReplicationProofs -----------------------
(***************************************************************************)
(* Proofs about RedisReplication, for any instances and databases and any  *)
(* number of writes, commands of administrators, faults and restarts.      *)
(***************************************************************************)
EXTENDS RedisReplication, FiniteSetTheorems, FunctionTheorems, SequenceTheorems, TLAPS

-----------------------------------------------------------------------------
(* The inductive invariant.  i is the number of replication IDs drawn.     *)

Data == Seq(Nat \X Int)
Cmd == [op : {"select", "write", "ping"}, arg : Nat]
File(i) == [present : {TRUE}, data : Data, id : 1 .. i, off : Nat, db : Int]
FullMsg(i) == [op : {"fullresync"}, id : 1 .. i, off : Nat]
ContinueMsg(i) == [op : {"continue"}, id : 1 .. i]
RdbMsg(i) == [op : {"rdb"}, file : File(i)]
Msg(i) == Cmd \cup FullMsg(i) \cup ContinueMsg(i) \cup RdbMsg(i)

ClientState == [present : {TRUE}, id : Nat, off : Nat, db : Int]
Backlog == [present : {TRUE}, first : Nat, buf : Seq(Cmd)]
Maybe(S) == S \cup {Nothing}

State(i) ==
    [data : Data, replid : 1 .. i, replid2 : 0 .. i, second : Int, off : Nat,
     backlog : Maybe(Backlog), seldb : Dbs \cup {NoDb},
     masterhost : Server \cup {NoServer},
     rstate : {"none", "connect", "receive_psync", "transfer", "connected"},
     master : Maybe(ClientState), cached : Maybe(ClientState), sync : Maybe(FullMsg(i)),
     child : Maybe(File(i)), failover : {"none", "wait", "progress"},
     target : Server \cup {NoServer}]

Conn(i) ==
    [to : Server \cup {NoServer}, open : BOOLEAN,
     st : {"none", "wait_start", "wait_end", "online"}, q : Seq(Msg(i)), out : Seq(Cmd)]

\* The state s of the instance n: master client and cached master exist when
\* they should and name the history the instance has, and the backlog ends where
\* the instance is.
NodeBase(n, s, i) ==
    /\ s \in State(i)
    /\ s.masterhost # n
    /\ s.rstate = "none" <=> s.masterhost = NoServer
    /\ s.rstate = "connected" => /\ s.master # Nothing /\ s.cached = Nothing
                                 /\ s.backlog # Nothing
    /\ s.rstate # "connected" => s.master = Nothing
    /\ s.rstate = "none" => s.cached = Nothing
    /\ s.master # Nothing => s.master.off = s.off /\ s.master.id = s.replid
    /\ s.cached # Nothing => s.cached.off = s.off /\ s.cached.id = s.replid
    /\ s.backlog # Nothing => s.off = s.backlog.first + Len(s.backlog.buf) - 1
NodeOK(n, s, i) ==
    /\ NodeBase(n, s, i)
    /\ s.failover = "wait" => s.rstate = "none"

Pending(c) == Len(c.q) + Len(c.out)
CommandsFrom(q, k) == \A j \in k .. Len(q) : q[j] \in Cmd

\* The slave with the connection c takes over the history id at the offset off
\* once it has read the k messages before the commands; if the connection is open,
\* the commands end where the master, in state m, is.
Ends(c, m, id, off, k) ==
    c.open => /\ m.backlog # Nothing /\ m.replid = id
              /\ off + Pending(c) = m.off + k

\* While a slave waits for a BGSAVE its differences start where the child did.
Collects(c, m, full) ==
    c.open => m.child # Nothing /\ m.child.id = full.id /\ m.child.off = full.off

\* What is on its way on the connection c of a replica in state s: the phases
\* of a synchronisation.
Queued(s, c, m) ==
    /\ s.rstate = "receive_psync" /\ c.st = "wait_start" /\ c.q = <<>> /\ c.out = <<>>
    /\ c.open => m.backlog # Nothing
Announced(s, c, m, i) ==
    /\ s.rstate = "receive_psync" /\ c.st = "wait_end" /\ Len(c.q) = 1
    /\ c.q[1] \in FullMsg(i) /\ Ends(c, m, c.q[1].id, c.q[1].off, 1)
    /\ Collects(c, m, c.q[1])
FileAhead(s, c, m, i) ==
    /\ s.rstate = "receive_psync" /\ c.st = "online" /\ c.out = <<>> /\ Len(c.q) >= 2
    /\ c.q[1] \in FullMsg(i) /\ c.q[2] \in RdbMsg(i) /\ CommandsFrom(c.q, 3)
    /\ Ends(c, m, c.q[1].id, c.q[1].off, 2)
ContinueAhead(s, c, m, i) ==
    /\ s.rstate = "receive_psync" /\ c.st = "online" /\ c.out = <<>> /\ Len(c.q) >= 1
    /\ c.q[1] \in ContinueMsg(i) /\ CommandsFrom(c.q, 2)
    /\ s.cached # Nothing /\ Ends(c, m, c.q[1].id, s.off, 1)
AwaitsFile(s, c, m) ==
    /\ s.rstate = "transfer" /\ c.st = "wait_end" /\ c.q = <<>> /\ s.sync # Nothing
    /\ Ends(c, m, s.sync.id, s.sync.off, 0) /\ Collects(c, m, s.sync)
ReadsFile(s, c, m, i) ==
    /\ s.rstate = "transfer" /\ c.st = "online" /\ c.out = <<>> /\ Len(c.q) >= 1
    /\ c.q[1] \in RdbMsg(i) /\ CommandsFrom(c.q, 2) /\ s.sync # Nothing
    /\ Ends(c, m, s.sync.id, s.sync.off, 1)
Streams(s, c, m) ==
    /\ s.rstate = "connected" /\ c.st = "online" /\ c.out = <<>> /\ CommandsFrom(c.q, 1)
    /\ Ends(c, m, s.replid, s.off, 0)

LinkOK(s, c, m, i) ==
    \/ Queued(s, c, m) \/ Announced(s, c, m, i) \/ FileAhead(s, c, m, i)
    \/ ContinueAhead(s, c, m, i) \/ AwaitsFile(s, c, m) \/ ReadsFile(s, c, m, i)
    \/ Streams(s, c, m)

Idle(c) == c.to = NoServer /\ c.open = FALSE /\ c.q = <<>>
Attempts(s) == s.rstate \notin {"none", "connect"}

ConnOK(s, c, m, i) ==
    /\ c \in Conn(i)
    /\ ~Attempts(s) => Idle(c)
    /\ Attempts(s) => c.to = s.masterhost /\ LinkOK(s, c, m, i)

\* The states nd of the instances and their connections cn.
Good(nd, cn, i) ==
    /\ i \in Nat
    /\ nd \in [Server -> State(i)] /\ \A n \in Server : NodeOK(n, nd[n], i)
    /\ cn \in [Server -> Conn(i)]
    /\ \A r \in Server : ConnOK(nd[r], cn[r], nd[cn[r].to], i)

Counters == {"write", "admin", "fault", "restart", "save"}

Inv ==
    /\ Good(node, conn, ids)
    /\ rdb \in [Server -> Maybe(File(ids))]
    /\ used \in [Counters -> Nat]

-----------------------------------------------------------------------------
(* Types                                                                   *)

\* A record is there or it is Nothing.
LEMMA Present ==
    ASSUME NEW i \in Nat
    PROVE  /\ Nothing.present = FALSE
           /\ \A x \in ClientState \cup Backlog \cup File(i) : x.present = TRUE /\ x # Nothing
<1>1. Nothing.present = FALSE
  BY DEF Nothing
<1>2. \A x \in ClientState \cup Backlog \cup File(i) : x.present = TRUE
  BY DEF ClientState, Backlog, File
<1> QED BY <1>1, <1>2

\* The same for the fields of an instance.
LEMMA PresentFields ==
    ASSUME NEW i \in Nat, NEW s \in State(i)
    PROVE  /\ s.master.present <=> s.master # Nothing
           /\ s.cached.present <=> s.cached # Nothing
           /\ s.backlog.present <=> s.backlog # Nothing
           /\ s.child.present <=> s.child # Nothing
           /\ s.master # Nothing => s.master \in ClientState
           /\ s.cached # Nothing => s.cached \in ClientState
           /\ s.backlog # Nothing => s.backlog \in Backlog
           /\ s.child # Nothing => s.child \in File(i)
           /\ s.sync # Nothing => s.sync \in FullMsg(i)
<1>1. /\ s.master \in Maybe(ClientState) /\ s.cached \in Maybe(ClientState)
      /\ s.backlog \in Maybe(Backlog) /\ s.child \in Maybe(File(i)) /\ s.sync \in Maybe(FullMsg(i))
  BY DEF State
<1> QED BY <1>1, Present DEF Maybe

\* More IDs are drawn.
LEMMA MoreIds ==
    ASSUME NEW i \in Nat, NEW j \in Nat, i <= j
    PROVE  /\ 1 .. i \subseteq 1 .. j /\ 0 .. i \subseteq 0 .. j
           /\ File(i) \subseteq File(j) /\ FullMsg(i) \subseteq FullMsg(j)
           /\ ContinueMsg(i) \subseteq ContinueMsg(j) /\ RdbMsg(i) \subseteq RdbMsg(j)
           /\ Msg(i) \subseteq Msg(j) /\ State(i) \subseteq State(j) /\ Conn(i) \subseteq Conn(j)
<1>1. 1 .. i \subseteq 1 .. j /\ 0 .. i \subseteq 0 .. j
  OBVIOUS
<1>2. File(i) \subseteq File(j) /\ FullMsg(i) \subseteq FullMsg(j)
      /\ ContinueMsg(i) \subseteq ContinueMsg(j)
  BY <1>1 DEF File, FullMsg, ContinueMsg
<1>3. RdbMsg(i) \subseteq RdbMsg(j)
  BY <1>2 DEF RdbMsg
<1>4. Msg(i) \subseteq Msg(j)
  BY <1>2, <1>3 DEF Msg
<1>5. State(i) \subseteq State(j)
  BY <1>1, <1>2 DEF State, Maybe
<1>6. Seq(Msg(i)) \subseteq Seq(Msg(j))
  BY <1>4
<1>7. Conn(i) \subseteq Conn(j)
  BY <1>6 DEF Conn
<1> QED BY <1>1, <1>2, <1>3, <1>4, <1>5, <1>7

\* A state in order stays so when more IDs are drawn.
LEMMA NodeMoreIds ==
    ASSUME NEW n, NEW s, NEW i \in Nat, NEW j \in Nat, i <= j, NodeOK(n, s, i)
    PROVE  NodeOK(n, s, j)
<1>1. s \in State(j)
  BY MoreIds DEF NodeOK, NodeBase
<1> QED BY <1>1 DEF NodeOK, NodeBase

-----------------------------------------------------------------------------
(* A connection when the master's side changes                             *)

\* What the slaves of an instance rely on.
SameForSlaves(m, w) ==
    /\ w.replid = m.replid /\ w.off = m.off /\ w.child = m.child
    /\ m.backlog # Nothing => w.backlog # Nothing

\* A connection is as good as before when its slave's view of the master is.
LEMMA LinkStays ==
    ASSUME NEW s, NEW c, NEW m, NEW w, NEW i \in Nat, NEW j \in Nat, i <= j,
           ConnOK(s, c, m, i), c.open => SameForSlaves(m, w)
    PROVE  ConnOK(s, c, w, j)
<1>1. c \in Conn(j)
  BY MoreIds DEF ConnOK
<1>2. \A id, off, k : Ends(c, m, id, off, k) => Ends(c, w, id, off, k)
  BY DEF Ends, SameForSlaves
<1>3. \A f : Collects(c, m, f) => Collects(c, w, f)
  BY DEF Collects, SameForSlaves
<1>4. c.open /\ m.backlog # Nothing => w.backlog # Nothing
  BY DEF SameForSlaves
<1>5. FullMsg(i) \subseteq FullMsg(j) /\ ContinueMsg(i) \subseteq ContinueMsg(j)
      /\ RdbMsg(i) \subseteq RdbMsg(j)
  BY MoreIds
<1>6. LinkOK(s, c, m, i) => LinkOK(s, c, w, j)
  BY <1>2, <1>3, <1>4, <1>5 DEF LinkOK, Queued, Announced, FileAhead, ContinueAhead, AwaitsFile, ReadsFile, Streams
<1> QED BY <1>1, <1>6 DEF ConnOK

Closed(c) == [c EXCEPT !.open = FALSE, !.out = <<>>]

\* disconnectSlaves closes a connection and what was written stays to be read.
LEMMA LinkCloses ==
    ASSUME NEW s, NEW c, NEW m, NEW w, NEW i \in Nat, NEW j \in Nat, i <= j, ConnOK(s, c, m, i)
    PROVE  ConnOK(s, Closed(c), w, j) /\ Closed(c).open = FALSE /\ Closed(c).to = c.to
<1> DEFINE e == <<>>
           f == FALSE
           d == [c EXCEPT !.open = f, !.out = e]
<1>1. c \in Conn(j)
  BY MoreIds DEF ConnOK
<1>2. e \in Seq(Cmd) /\ f \in BOOLEAN /\ f = FALSE
  OBVIOUS
<1> HIDE DEF e, f
<1>3. /\ d.to = c.to /\ d.open = f /\ d.st = c.st /\ d.q = c.q /\ d.out = e
      /\ d \in Conn(j)
  BY <1>1, <1>2 DEF Conn
<1> HIDE DEF d
<1>4. \A id, off, k : Ends(d, w, id, off, k)
  BY <1>2, <1>3 DEF Ends
<1>5. \A x : Collects(d, w, x)
  BY <1>2, <1>3 DEF Collects
<1>6. FullMsg(i) \subseteq FullMsg(j) /\ ContinueMsg(i) \subseteq ContinueMsg(j)
      /\ RdbMsg(i) \subseteq RdbMsg(j)
  BY MoreIds
<1>7. d.out = <<>> /\ ~d.open
  BY <1>2, <1>3 DEF e
<1>8. LinkOK(s, c, m, i) => LinkOK(s, d, w, j)
  BY <1>3, <1>4, <1>5, <1>6, <1>7 DEF LinkOK, Queued, Announced, FileAhead, ContinueAhead, AwaitsFile, ReadsFile, Streams
<1>9. ConnOK(s, d, w, j)
  BY <1>2, <1>3, <1>8 DEF ConnOK, Idle
<1>10. d = Closed(c)
  BY DEF d, e, f, Closed
<1> QED BY <1>2, <1>3, <1>9, <1>10

\* Commands appended to a sequence.
LEMMA Appended ==
    ASSUME NEW S, NEW T, NEW q \in Seq(S), NEW x \in Seq(T), T \subseteq S
    PROVE  /\ q \o x \in Seq(S) /\ Len(q \o x) = Len(q) + Len(x)
           /\ Len(q) \in Nat /\ Len(x) \in Nat
           /\ \A j \in 1 .. Len(q) : (q \o x)[j] = q[j]
           /\ \A k \in 1 .. Len(q) + 1 :
                 (\A j \in k .. Len(q) : q[j] \in T) => \A j \in k .. Len(q \o x) : (q \o x)[j] \in T
<1>1. x \in Seq(S) /\ Len(q) \in Nat /\ Len(x) \in Nat
  OBVIOUS
<1>2. q \o x \in Seq(S) /\ Len(q \o x) = Len(q) + Len(x)
  BY <1>1
<1>3. \A j \in 1 .. Len(q) : (q \o x)[j] = q[j]
  BY <1>1
<1>4. ASSUME NEW k \in 1 .. Len(q) + 1, \A j \in k .. Len(q) : q[j] \in T,
             NEW j \in k .. Len(q \o x)
      PROVE  (q \o x)[j] \in T
  <2>1. CASE j <= Len(q)
    BY <1>1, <1>2, <1>3, <1>4, <2>1
  <2>2. CASE j > Len(q)
    <3>1. (q \o x)[j] = x[j - Len(q)] /\ j - Len(q) \in 1 .. Len(x)
      BY <1>1, <1>2, <2>2
    <3> QED BY <3>1
  <2> QED BY <1>1, <1>2, <2>1, <2>2
<1> QED BY <1>1, <1>2, <1>3, <1>4

\* The stream of a connection grows by x commands, and so does the offset of
\* the master.
LEMMA EndsGrow ==
    ASSUME NEW c, NEW d, NEW m, NEW w, NEW x \in Nat, NEW off \in Nat, NEW k \in Nat, NEW id,
           c.open, Ends(c, m, id, off, k), Pending(c) \in Nat, Pending(d) = Pending(c) + x,
           m.off \in Nat, w.off = m.off + x, w.replid = m.replid, w.backlog # Nothing
    PROVE  Ends(d, w, id, off, k)
<1>1. off + Pending(c) = m.off + k /\ m.replid = id
  BY DEF Ends
<1>2. off + (Pending(c) + x) = (m.off + x) + k
  <2> DEFINE a == Pending(c)
             b == m.off
  <2>1. a \in Nat /\ b \in Nat /\ off + a = b + k
    BY <1>1
  <2> HIDE DEF a, b
  <2>2. off + (a + x) = (b + x) + k
    BY <2>1
  <2> QED BY <2>2 DEF a, b
<1> QED BY <1>1, <1>2 DEF Ends

\* Commands for a slave that collects differences or is online.
FedConn(c, cmds) ==
    IF c.st = "online" THEN [c EXCEPT !.q = @ \o cmds]
    ELSE IF c.st = "wait_end" THEN [c EXCEPT !.out = @ \o cmds]
    ELSE c

\* A connection that is fed stays level with the master.
LEMMA LinkFed ==
    ASSUME NEW i \in Nat, NEW s \in State(i), NEW c, NEW m, NEW w, ConnOK(s, c, m, i), c.open,
           NEW cmds \in Seq(Cmd), m.off \in Nat,
           w.replid = m.replid, w.off = m.off + Len(cmds), w.child = m.child,
           w.backlog # Nothing
    PROVE  ConnOK(s, FedConn(c, cmds), w, i) /\ FedConn(c, cmds).to = c.to
<1>1. /\ c \in Conn(i) /\ c.q \in Seq(Msg(i)) /\ c.out \in Seq(Cmd) /\ Cmd \subseteq Msg(i)
      /\ s.off \in Nat
      /\ s.sync # Nothing => s.sync.off \in Nat
  BY PresentFields DEF ConnOK, Conn, Msg, State, FullMsg
<1>2. /\ Attempts(s) /\ c.to = s.masterhost /\ LinkOK(s, c, m, i)
  BY DEF ConnOK, Idle
<1>3. \A x \in FullMsg(i) : x.off \in Nat
  BY DEF FullMsg
<1>4. CASE c.st = "online"
  <2> DEFINE p == c.q \o cmds
             d == [c EXCEPT !.q = p]
  <2>1. /\ p \in Seq(Msg(i)) /\ Len(p) = Len(c.q) + Len(cmds) /\ Len(c.q) \in Nat /\ Len(cmds) \in Nat
        /\ \A k \in 1 .. Len(c.q) : p[k] = c.q[k]
        /\ \A k \in 1 .. Len(c.q) + 1 : CommandsFrom(c.q, k) => CommandsFrom(p, k)
    BY <1>1, Appended DEF CommandsFrom
  <2>2. /\ d.to = c.to /\ d.open = c.open /\ d.st = c.st /\ d.q = p /\ d.out = c.out
        /\ d \in Conn(i)
    <3> HIDE DEF p
    <3> QED BY <1>1, <2>1 DEF Conn
  <2>3. FedConn(c, cmds) = d
    BY <1>4 DEF FedConn
  <2> HIDE DEF d, p
  <2>4. /\ Len(c.q) >= 1 => p[1] = c.q[1] /\ Len(p) >= 1
        /\ Len(c.q) >= 2 => p[2] = c.q[2] /\ Len(p) >= 2
        /\ CommandsFrom(c.q, 1) => CommandsFrom(p, 1)
        /\ Len(c.q) >= 1 /\ CommandsFrom(c.q, 2) => CommandsFrom(p, 2)
        /\ Len(c.q) >= 2 /\ CommandsFrom(c.q, 3) => CommandsFrom(p, 3)
        /\ Len(c.out) \in Nat
    BY <1>1, <2>1
  <2>5. Pending(c) \in Nat /\ Pending(d) = Pending(c) + Len(cmds)
    <3> DEFINE a == Len(c.q)
               b == Len(c.out)
               x == Len(cmds)
    <3>1. a \in Nat /\ b \in Nat /\ x \in Nat /\ Pending(c) = a + b /\ Pending(d) = (a + x) + b
      BY <2>1, <2>2, <2>4 DEF Pending
    <3> HIDE DEF a, b, x
    <3>2. a + b \in Nat /\ (a + x) + b = (a + b) + x
      BY <3>1
    <3> QED BY <3>1, <3>2 DEF x
  <2>6. ASSUME NEW off \in Nat, NEW k \in Nat, NEW id, Ends(c, m, id, off, k)
        PROVE  Ends(d, w, id, off, k)
    BY <2>1, <2>5, <2>6, EndsGrow, Zenon
  <2> SUFFICES LinkOK(s, d, w, i)
    BY <1>2, <2>2, <2>3 DEF ConnOK
  <2>7. CASE FileAhead(s, c, m, i)
    <3>1. Ends(d, w, c.q[1].id, c.q[1].off, 2)
      BY <1>3, <2>6, <2>7 DEF FileAhead
    <3> QED BY <2>2, <2>4, <2>7, <3>1 DEF FileAhead, LinkOK
  <2>8. CASE ContinueAhead(s, c, m, i)
    <3>1. Ends(d, w, c.q[1].id, s.off, 1)
      BY <1>1, <2>6, <2>8 DEF ContinueAhead
    <3> QED BY <2>2, <2>4, <2>8, <3>1 DEF ContinueAhead, LinkOK
  <2>9. CASE ReadsFile(s, c, m, i)
    <3>1. Ends(d, w, s.sync.id, s.sync.off, 1)
      BY <1>1, <2>6, <2>9 DEF ReadsFile
    <3> QED BY <2>2, <2>4, <2>9, <3>1 DEF ReadsFile, LinkOK
  <2>10. CASE Streams(s, c, m)
    BY <1>1, <1>3, <2>2, <2>4, <2>6, <2>10 DEF Streams, LinkOK
  <2> QED BY <1>2, <1>4, <2>7, <2>8, <2>9, <2>10 DEF LinkOK, Queued, Announced, AwaitsFile
<1>5. CASE c.st = "wait_end"
  <2> DEFINE p == c.out \o cmds
             d == [c EXCEPT !.out = p]
  <2>1. /\ p \in Seq(Cmd) /\ Len(p) = Len(c.out) + Len(cmds) /\ Len(c.out) \in Nat
        /\ Len(cmds) \in Nat /\ Len(c.q) \in Nat
    BY <1>1
  <2>2. /\ d.to = c.to /\ d.open = c.open /\ d.st = c.st /\ d.q = c.q /\ d.out = p
        /\ d \in Conn(i)
    <3> HIDE DEF p
    <3> QED BY <1>1, <2>1 DEF Conn
  <2>3. FedConn(c, cmds) = d
    BY <1>5 DEF FedConn
  <2> HIDE DEF d, p
  <2>4. Pending(c) \in Nat /\ Pending(d) = Pending(c) + Len(cmds)
    <3> DEFINE a == Len(c.q)
               b == Len(c.out)
               x == Len(cmds)
    <3>1. a \in Nat /\ b \in Nat /\ x \in Nat /\ Pending(c) = a + b /\ Pending(d) = a + (b + x)
      BY <2>1, <2>2 DEF Pending
    <3> HIDE DEF a, b, x
    <3>2. a + b \in Nat /\ a + (b + x) = (a + b) + x
      BY <3>1
    <3> QED BY <3>1, <3>2 DEF x
  <2>5. ASSUME NEW off \in Nat, NEW k \in Nat, NEW id, Ends(c, m, id, off, k)
        PROVE  Ends(d, w, id, off, k)
    BY <2>1, <2>4, <2>5, EndsGrow, Zenon
  <2>6. \A x : Collects(c, m, x) => Collects(d, w, x)
    BY <2>2 DEF Collects
  <2> SUFFICES LinkOK(s, d, w, i)
    BY <1>2, <2>2, <2>3 DEF ConnOK
  <2>7. CASE Announced(s, c, m, i)
    <3>1. Ends(d, w, c.q[1].id, c.q[1].off, 1)
      BY <1>3, <2>5, <2>7 DEF Announced
    <3> QED BY <2>2, <2>6, <2>7, <3>1 DEF Announced, LinkOK
  <2>8. CASE AwaitsFile(s, c, m)
    BY <1>1, <2>2, <2>5, <2>6, <2>8 DEF AwaitsFile, LinkOK
  <2> QED
    BY <1>2, <1>5, <2>7, <2>8 DEF LinkOK, Queued, FileAhead, ContinueAhead, ReadsFile, Streams
<1>6. CASE c.st \notin {"online", "wait_end"}
  <2>1. LinkOK(s, c, w, i)
    BY <1>2, <1>6 DEF LinkOK, Queued, Announced, FileAhead, ContinueAhead, AwaitsFile, ReadsFile, Streams
  <2> QED BY <1>1, <1>2, <1>6, <2>1 DEF ConnOK, FedConn
<1> QED BY <1>4, <1>5, <1>6

-----------------------------------------------------------------------------
(* One instance changes                                                    *)

\* A connection leads to another instance or nowhere, and an open one to an
\* instance with a backlog.
LEMMA Reached ==
    ASSUME NEW nd, NEW cn, NEW i, Good(nd, cn, i), NEW r \in Server
    PROVE  /\ cn[r].to # r
           /\ cn[r].to \notin Server => ~Attempts(nd[r]) /\ Idle(cn[r])
           /\ cn[r].open => cn[r].to \in Server /\ nd[cn[r].to].backlog # Nothing
<1>1. ConnOK(nd[r], cn[r], nd[cn[r].to], i) /\ NodeOK(r, nd[r], i) /\ nd[r] \in State(i)
  BY DEF Good
<1>2. /\ nd[r].masterhost # r /\ nd[r].masterhost \in Server \cup {NoServer}
      /\ nd[r].masterhost = NoServer => ~Attempts(nd[r])
  BY <1>1 DEF NodeOK, NodeBase, State, Attempts
<1>3. NoServer # r /\ NoServer \notin Server
  BY ReplAssumption
<1>4. cn[r].to # r
  BY <1>1, <1>2, <1>3 DEF ConnOK, Idle
<1>5. cn[r].to \notin Server => ~Attempts(nd[r]) /\ Idle(cn[r])
  BY <1>1, <1>2, <1>3 DEF ConnOK
<1>6. cn[r].open => nd[cn[r].to].backlog # Nothing /\ Attempts(nd[r])
  BY <1>1 DEF ConnOK, Idle, LinkOK, Queued, Announced, FileAhead, ContinueAhead,
              AwaitsFile, ReadsFile, Streams, Ends
<1> QED BY <1>4, <1>5, <1>6

\* One instance p changes with the connections to it and its own.
LEMMA OneNode ==
    ASSUME NEW nd, NEW cn, NEW i, NEW j \in Nat, i <= j, Good(nd, cn, i),
           NEW p \in Server, NEW t, NodeOK(p, t, j),
           NEW cd, cd \in [Server -> Conn(j)], ConnOK(t, cd[p], nd[cd[p].to], j),
           \A r \in Server \ {p} :
               IF cn[r].to = p THEN cd[r].to = p /\ ConnOK(nd[r], cd[r], t, j)
               ELSE cd[r] = cn[r]
    PROVE  Good([nd EXCEPT ![p] = t], cd, j)
<1> DEFINE ne == [nd EXCEPT ![p] = t]
<1>1. /\ i \in Nat /\ nd \in [Server -> State(i)] /\ \A n \in Server : NodeOK(n, nd[n], i)
      /\ \A r \in Server : ConnOK(nd[r], cn[r], nd[cn[r].to], i)
      /\ NoServer \notin Server
  BY ReplAssumption DEF Good
<1>2. State(i) \subseteq State(j)
  BY <1>1, MoreIds
<1>3. t \in State(j)
  BY DEF NodeOK, NodeBase
<1>4. /\ ne \in [Server -> State(j)] /\ ne[p] = t
      /\ \A n \in Server \ {p} : ne[n] = nd[n]
  BY <1>1, <1>2, <1>3
<1> HIDE DEF ne
<1>5. ASSUME NEW n \in Server
      PROVE  NodeOK(n, ne[n], j)
  BY <1>1, <1>4, NodeMoreIds
<1>6. ASSUME NEW r \in Server
      PROVE  ConnOK(ne[r], cd[r], ne[cd[r].to], j)
  <2>1. CASE r = p
    <3>1. ConnOK(t, cd[p], nd[cd[p].to], j)
      OBVIOUS
    <3>2. (cd[p].to \in Server /\ cd[p].to # p) \/ ~Attempts(t)
      <4>1. t.masterhost # p /\ t.masterhost \in Server \cup {NoServer}
            /\ (t.masterhost = NoServer => ~Attempts(t))
        BY <1>3 DEF NodeOK, NodeBase, State, Attempts
      <4> QED BY <3>1, <4>1 DEF ConnOK
    <3>3. CASE ~Attempts(t)
      BY <1>4, <2>1, <3>1, <3>3 DEF ConnOK
    <3>4. CASE cd[p].to \in Server /\ cd[p].to # p
      BY <1>4, <2>1, <3>1, <3>4
    <3> QED BY <3>2, <3>3, <3>4
  <2>2. CASE r # p /\ cn[r].to = p
    BY <1>4, <2>2
  <2>3. CASE r # p /\ cn[r].to # p
    <3>1. cd[r] = cn[r] /\ ne[r] = nd[r] /\ ConnOK(nd[r], cn[r], nd[cn[r].to], i)
      BY <1>1, <1>4, <2>3
    <3>2. ConnOK(nd[r], cn[r], nd[cn[r].to], j)
      BY <1>1, <3>1, LinkStays DEF SameForSlaves
    <3>3. CASE cn[r].to \in Server
      BY <1>4, <2>3, <3>1, <3>2, <3>3
    <3>4. CASE cn[r].to \notin Server
      <4>1. ~Attempts(nd[r])
        BY <3>4, Reached
      <4> QED BY <3>1, <3>2, <4>1 DEF ConnOK
    <3> QED BY <3>3, <3>4
  <2> QED BY <2>1, <2>2, <2>3
<1>7. Good(ne, cd, j)
  BY <1>4, <1>5, <1>6 DEF Good
<1> QED BY <1>7 DEF ne

\* The slaves of p keep what they rely on; p's own connection becomes c.
LEMMA OneNodeKept ==
    ASSUME NEW nd, NEW cn, NEW i, NEW j \in Nat, i <= j, Good(nd, cn, i),
           NEW p \in Server, NEW t, NodeOK(p, t, j), NEW c, ConnOK(t, c, nd[c.to], j),
           \A r \in Server : cn[r].to = p /\ cn[r].open => SameForSlaves(nd[p], t)
    PROVE  Good([nd EXCEPT ![p] = t], [cn EXCEPT ![p] = c], j)
<1> DEFINE cd == [cn EXCEPT ![p] = c]
<1>1. /\ i \in Nat /\ cn \in [Server -> Conn(i)]
      /\ \A r \in Server : ConnOK(nd[r], cn[r], nd[cn[r].to], i)
  BY DEF Good
<1>2. c \in Conn(j) /\ Conn(i) \subseteq Conn(j)
  BY <1>1, MoreIds DEF ConnOK
<1>3. /\ cd \in [Server -> Conn(j)] /\ cd[p] = c /\ \A r \in Server \ {p} : cd[r] = cn[r]
  BY <1>1, <1>2
<1> HIDE DEF cd
<1>4. ASSUME NEW r \in Server \ {p}, cn[r].to = p
      PROVE  cd[r].to = p /\ ConnOK(nd[r], cd[r], t, j)
  <2>1. ConnOK(nd[r], cn[r], nd[p], i) /\ (cn[r].open => SameForSlaves(nd[p], t))
    BY <1>1, <1>4
  <2>2. ConnOK(nd[r], cn[r], t, j)
    BY <1>1, <2>1, LinkStays
  <2> QED BY <1>3, <1>4, <2>2
<1>5. Good([nd EXCEPT ![p] = t], cd, j)
  BY <1>3, <1>4, OneNode
<1> QED BY <1>5 DEF cd

\* The slaves of p are disconnected.
LEMMA OneNodeClosed ==
    ASSUME NEW nd, NEW cn, NEW i, NEW j \in Nat, i <= j, Good(nd, cn, i),
           NEW p \in Server, NEW t, NodeOK(p, t, j), NEW c, ConnOK(t, c, nd[c.to], j)
    PROVE  Good([nd EXCEPT ![p] = t], [DisconnectSlaves(cn, p) EXCEPT ![p] = c], j)
<1> DEFINE cd == [DisconnectSlaves(cn, p) EXCEPT ![p] = c]
<1>1. /\ i \in Nat /\ cn \in [Server -> Conn(i)]
      /\ \A r \in Server : ConnOK(nd[r], cn[r], nd[cn[r].to], i)
  BY DEF Good
<1>2. c \in Conn(j) /\ Conn(i) \subseteq Conn(j)
  BY <1>1, MoreIds DEF ConnOK
<1> DEFINE F(r) == IF cn[r].to = p THEN Closed(cn[r]) ELSE cn[r]
<1>3. ASSUME NEW r \in Server, cn[r].to = p
      PROVE  Closed(cn[r]).to = p /\ ConnOK(nd[r], Closed(cn[r]), t, j)
  BY <1>1, <1>3, LinkCloses
<1>4. \A r \in Server : F(r) \in Conn(j)
  BY <1>1, <1>2, <1>3 DEF ConnOK
<1>5. DisconnectSlaves(cn, p) = [r \in Server |-> F(r)]
  BY DEF DisconnectSlaves, Closed
<1> HIDE DEF F
<1>6. /\ cd \in [Server -> Conn(j)] /\ cd[p] = c /\ \A r \in Server \ {p} : cd[r] = F(r)
  BY <1>2, <1>4, <1>5
<1> HIDE DEF cd
<1>7. Good([nd EXCEPT ![p] = t], cd, j)
  BY <1>3, <1>6, OneNode DEF F
<1> QED BY <1>7 DEF cd

\* The slaves of p are fed.
LEMMA OneNodeFed ==
    ASSUME NEW nd, NEW cn, NEW i, Good(nd, cn, i),
           NEW p \in Server, NEW t, NodeOK(p, t, i), NEW c, ConnOK(t, c, nd[c.to], i),
           NEW cmds \in Seq(Cmd),
           t.replid = nd[p].replid, t.off = nd[p].off + Len(cmds), t.child = nd[p].child,
           t.backlog # Nothing
    PROVE  Good([nd EXCEPT ![p] = t], [FeedSlaves(cn, p, cmds) EXCEPT ![p] = c], i)
<1> DEFINE cd == [FeedSlaves(cn, p, cmds) EXCEPT ![p] = c]
<1>1. /\ i \in Nat /\ i <= i /\ cn \in [Server -> Conn(i)] /\ nd \in [Server -> State(i)]
      /\ \A r \in Server : ConnOK(nd[r], cn[r], nd[cn[r].to], i)
  BY DEF Good
<1>2. c \in Conn(i) /\ nd[p].off \in Nat
  BY <1>1 DEF ConnOK, State
<1> DEFINE F(r) == IF cn[r].to = p /\ cn[r].open THEN FedConn(cn[r], cmds) ELSE cn[r]
<1>3. ASSUME NEW r \in Server, cn[r].to = p
      PROVE  F(r).to = p /\ ConnOK(nd[r], F(r), t, i)
  <2>1. ConnOK(nd[r], cn[r], nd[p], i) /\ nd[r] \in State(i)
    BY <1>1, <1>3
  <2>2. CASE cn[r].open
    BY <1>1, <1>2, <1>3, <2>1, <2>2, LinkFed
  <2>3. CASE ~cn[r].open
    <3>1. ConnOK(nd[r], cn[r], t, i)
      BY <1>1, <2>1, <2>3, LinkStays
    <3> QED BY <1>3, <2>3, <3>1
  <2> QED BY <2>2, <2>3
<1>4. \A r \in Server : F(r) \in Conn(i)
  BY <1>1, <1>3 DEF ConnOK
<1>5. FeedSlaves(cn, p, cmds) = [r \in Server |-> F(r)]
  BY DEF FeedSlaves, FedConn
<1> HIDE DEF F
<1>6. /\ cd \in [Server -> Conn(i)] /\ cd[p] = c /\ \A r \in Server \ {p} : cd[r] = F(r)
  BY <1>2, <1>4, <1>5
<1> HIDE DEF cd
<1>7. Good([nd EXCEPT ![p] = t], cd, i)
  <2>1. \A r \in Server : cn[r].to # p => F(r) = cn[r]
    BY DEF F
  <2>2. \A r \in Server \ {p} :
            IF cn[r].to = p THEN cd[r].to = p /\ ConnOK(nd[r], cd[r], t, i) ELSE cd[r] = cn[r]
    BY <1>3, <1>6, <2>1
  <2> QED BY <1>1, <1>6, <2>2, OneNode
<1> QED BY <1>7 DEF cd

-----------------------------------------------------------------------------
(* The operations on the state of an instance                              *)

\* The state of a FAILOVER concerns nothing else.
Targeting(s, f, g) == [s EXCEPT !.failover = f, !.target = g]

\* Setting it leaves the rest in order.
LEMMA Retarget ==
    ASSUME NEW n, NEW i \in Nat, NEW s, NodeBase(n, s, i),
           NEW f \in {"none", "wait", "progress"}, NEW g \in Server \cup {NoServer}
    PROVE  LET t == Targeting(s, f, g)
           IN NodeBase(n, t, i) /\ SameForSlaves(s, t) /\ t.rstate = s.rstate /\ t.failover = f
<1> DEFINE t == Targeting(s, f, g)
<1>1. s \in State(i)
  BY DEF NodeBase
<1>2. t \in State(i)
  BY <1>1 DEF State, Targeting
<1>3. /\ t.replid = s.replid /\ t.off = s.off /\ t.child = s.child /\ t.backlog = s.backlog
      /\ t.rstate = s.rstate /\ t.masterhost = s.masterhost /\ t.master = s.master
      /\ t.cached = s.cached /\ t.failover = f
  BY <1>1 DEF State, Targeting
<1> HIDE DEF t
<1>4. NodeBase(n, t, i) /\ SameForSlaves(s, t) /\ t.rstate = s.rstate /\ t.failover = f
  BY <1>2, <1>3 DEF NodeBase, SameForSlaves
<1> QED BY <1>4 DEF t

\* replicationSetMaster: the history is kept in a cached master.
LEMMA SetMasterOK ==
    ASSUME NEW n, NEW i \in Nat, NEW s, NodeBase(n, s, i), NEW h \in Server, h # n
    PROVE  LET t == SetMaster(s, h)
           IN /\ NodeBase(n, t, i) /\ SameForSlaves(s, t)
              /\ t.rstate = "connect" /\ t.failover = s.failover
<1> DEFINE k == IF s.masterhost = NoServer THEN Client(s.replid, s.off, 0)
                ELSE IF s.master.present THEN s.master ELSE s.cached
           e == Nothing
           t == SetMaster(s, h)
<1>1. /\ s \in State(i) /\ s.replid \in Nat /\ s.off \in Nat
      /\ s.master \in Maybe(ClientState) /\ s.cached \in Maybe(ClientState)
      /\ s.rstate = "none" <=> s.masterhost = NoServer
  BY DEF NodeBase, State
<1>2. k \in Maybe(ClientState) /\ (k # Nothing => k.off = s.off /\ k.id = s.replid)
  <2>1. CASE s.masterhost = NoServer
    BY <1>1, <2>1 DEF Client, ClientState, Maybe
  <2>2. CASE s.masterhost # NoServer
    BY <1>1, <2>2, PresentFields DEF NodeBase
  <2> QED BY <2>1, <2>2
<1>3. e \in Maybe(ClientState) /\ e \in Maybe(FullMsg(i)) /\ e = Nothing
  BY DEF Maybe
<1>4. t = [s EXCEPT !.cached = k, !.master = e, !.masterhost = h, !.rstate = "connect", !.sync = e]
  <2>1. CASE s.masterhost = NoServer
    BY <1>1, <2>1 DEF SetMaster, CacheMaster, CacheMasterUsingMyself, State
  <2>2. CASE s.masterhost # NoServer
    BY <1>1, <2>2 DEF SetMaster, CacheMaster, CacheMasterUsingMyself, State
  <2> QED BY <2>1, <2>2
<1> HIDE DEF k, e, t
<1>5. t \in State(i)
  BY <1>1, <1>2, <1>3, <1>4 DEF State
<1>6. /\ t.replid = s.replid /\ t.off = s.off /\ t.child = s.child /\ t.backlog = s.backlog
      /\ t.rstate = "connect" /\ t.masterhost = h /\ t.master = e
      /\ t.cached = k /\ t.failover = s.failover
  BY <1>1, <1>4 DEF State
<1>7. NodeBase(n, t, i) /\ SameForSlaves(s, t)
  BY <1>2, <1>3, <1>5, <1>6, ReplAssumption DEF NodeBase, SameForSlaves
<1> QED BY <1>6, <1>7 DEF t

\* replicationUnsetMaster: a new ID, the backlog stays.
LEMMA UnsetMasterOK ==
    ASSUME NEW n \in Server, NEW i \in Nat, NEW j \in Nat, i <= j, NEW s, NodeBase(n, s, i),
           NEW id \in 1 .. j
    PROVE  LET t == UnsetMaster(s, id)
           IN /\ NodeBase(n, t, j) /\ t.rstate = "none" /\ t.failover = s.failover
              /\ t.masterhost = NoServer /\ t.backlog = s.backlog
<1> DEFINE e == Nothing
           t == UnsetMaster(s, id)
<1>1. s \in State(j) /\ s.off \in Nat /\ s.replid \in 0 .. j /\ s.off + 1 \in Int /\ NoDb = -1
  <2>1. s \in State(j)
    BY MoreIds DEF NodeBase
  <2> QED BY <2>1 DEF State, NoDb
<1>2. e \in Maybe(ClientState) /\ e \in Maybe(FullMsg(j)) /\ e = Nothing
  BY DEF Maybe
<1> DEFINE k == s.off + 1
<1>3. t = [s EXCEPT !.replid2 = s.replid, !.second = k, !.replid = id, !.masterhost = NoServer,
                    !.master = e, !.cached = e, !.rstate = "none", !.sync = e, !.seldb = NoDb]
  BY <1>1 DEF UnsetMaster, ShiftReplicationId, State
<1>4. k \in Int
  BY <1>1
<1> HIDE DEF e, t, k
<1>5. t \in State(j)
  BY ZenonT(60), <1>1, <1>2, <1>3, <1>4 DEF State
<1>6. /\ t.off = s.off /\ t.backlog = s.backlog
      /\ t.rstate = "none" /\ t.masterhost = NoServer /\ t.master = e
      /\ t.cached = e /\ t.failover = s.failover
  BY <1>1, <1>3 DEF State
<1>7. NodeBase(n, t, j)
  BY <1>2, <1>5, <1>6, ReplAssumption DEF NodeBase
<1> QED BY <1>6, <1>7 DEF t

\* abortFailover: the instance is a master again, or only forgets the target.
LEMMA AbortedOK ==
    ASSUME NEW n \in Server, NEW i \in Nat, NEW j \in Nat, i <= j, NEW s, NodeBase(n, s, i),
           StepsUp(s) => j = i + 1
    PROVE  LET t == Aborted(s, i + 1)
           IN /\ NodeOK(n, t, j)
              /\ StepsUp(s) => t.rstate = "none"
              /\ ~StepsUp(s) => SameForSlaves(s, t) /\ t.rstate = s.rstate
<1>1. CASE StepsUp(s)
  <2>1. PICK u : u = UnsetMaster(s, i + 1)
    OBVIOUS
  <2>2. NodeBase(n, u, j) /\ u.rstate = "none"
    BY <1>1, <2>1, UnsetMasterOK
  <2>3. Aborted(s, i + 1) = Targeting(u, "none", NoServer)
    BY <1>1, <2>1 DEF Aborted, Targeting
  <2>4. PICK t : t = Targeting(u, "none", NoServer)
    OBVIOUS
  <2>5. NodeBase(n, t, j)
    BY <2>2, <2>4, Retarget
  <2>6. t.rstate = "none" /\ t.failover = "none"
    BY <2>2, <2>4 DEF NodeBase, State, Targeting
  <2> QED BY <1>1, <2>3, <2>4, <2>5, <2>6 DEF NodeOK
<1>2. CASE ~StepsUp(s)
  <2>1. NodeBase(n, s, j)
    BY MoreIds DEF NodeBase
  <2>2. Aborted(s, i + 1) = Targeting(s, "none", NoServer)
    BY <1>2 DEF Aborted, Targeting
  <2> QED BY <1>2, <2>1, <2>2, Retarget DEF NodeOK
<1> QED BY <1>1, <1>2

\* A backlog that starts at the next byte, or none.
LEMMA NewBacklogOK ==
    ASSUME NEW off \in Nat
    PROVE  /\ NewBacklog(off) \in Backlog /\ NewBacklog(off) # Nothing
           /\ off = NewBacklog(off).first + Len(NewBacklog(off).buf) - 1
<1>1. NewBacklog(off) \in Backlog
  <2> DEFINE e == <<>>
             f == off + 1
  <2>1. e \in Seq(Cmd) /\ f \in Nat
    OBVIOUS
  <2>2. NewBacklog(off) = [present |-> TRUE, first |-> f, buf |-> e]
    BY DEF NewBacklog
  <2> HIDE DEF e, f
  <2> QED BY <2>1, <2>2 DEF Backlog
<1>2. NewBacklog(off).first = off + 1 /\ Len(NewBacklog(off).buf) = 0
  BY DEF NewBacklog
<1>3. NewBacklog(off) # Nothing
  BY <1>1, 0 \in Nat, Present
<1> DEFINE f == NewBacklog(off).first
           k == Len(NewBacklog(off).buf)
<1>4. f = off + 1 /\ k = 0
  BY <1>2
<1> HIDE DEF f, k
<1>5. off = f + k - 1
  BY <1>4
<1> QED BY <1>1, <1>3, <1>5 DEF f, k

\* A master starts a new history, with an empty backlog or none.
NewStart(s, id, b) == [NewHistory(s, id) EXCEPT !.backlog = b]

\* The new history begins where the old one ended.
LEMMA NewHistoryOK ==
    ASSUME NEW n \in Server, NEW i \in Nat, NEW j \in Nat, i <= j, NEW s, NodeOK(n, s, i),
           NEW id \in 1 .. j, s.masterhost = NoServer, NEW b \in {Nothing, NewBacklog(s.off)}
    PROVE  LET t == NewStart(s, id, b)
           IN /\ NodeOK(n, t, j) /\ t.rstate = "none" /\ t.backlog = b
              /\ t.off = s.off /\ t.child = s.child /\ t.replid = id
<1> DEFINE t == NewStart(s, id, b)
           e == -1
<1>1. s \in State(j) /\ s.off \in Nat /\ NoId = 0 /\ 0 \in 0 .. j /\ e \in Int
  <2>1. s \in State(j)
    BY MoreIds DEF NodeBase, NodeOK
  <2> QED BY <2>1 DEF State, NoId
<1>2. b \in Maybe(Backlog) /\ (b # Nothing => s.off = b.first + Len(b.buf) - 1)
  BY <1>1, NewBacklogOK DEF Maybe
<1>3. t = [s EXCEPT !.replid = id, !.replid2 = NoId, !.second = e, !.backlog = b]
  BY <1>1 DEF NewStart, NewHistory, State
<1>4. s.rstate = "none" /\ s.master = Nothing /\ s.cached = Nothing
  BY DEF NodeBase, NodeOK
<1> HIDE DEF t, e
<1>5. t \in State(j)
  BY <1>1, <1>2, <1>3 DEF State
<1>6. /\ t.off = s.off /\ t.backlog = b /\ t.child = s.child /\ t.replid = id
      /\ t.rstate = "none" /\ t.masterhost = NoServer /\ t.master = Nothing
      /\ t.cached = Nothing /\ t.failover = s.failover
  BY <1>1, <1>3, <1>4 DEF State
<1>7. NodeOK(n, t, j)
  BY <1>2, <1>5, <1>6, ReplAssumption DEF NodeBase, NodeOK
<1> QED BY <1>6, <1>7 DEF t

\* The link of a replica goes down.
LEMMA CacheMasterOK ==
    ASSUME NEW n \in Server, NEW i \in Nat, NEW s, NodeOK(n, s, i), Attempts(s)
    PROVE  LET t == [CacheMaster(s) EXCEPT !.rstate = "connect", !.sync = Nothing]
           IN NodeOK(n, t, i) /\ SameForSlaves(s, t) /\ t.rstate = "connect"
<1> DEFINE k == IF s.master.present THEN s.master ELSE s.cached
           e == Nothing
           t == [CacheMaster(s) EXCEPT !.rstate = "connect", !.sync = Nothing]
<1>1. /\ s \in State(i) /\ s.master \in Maybe(ClientState) /\ s.cached \in Maybe(ClientState)
      /\ s.rstate # "none" /\ s.masterhost # NoServer /\ s.masterhost # n
  BY DEF NodeBase, NodeOK, State, Attempts
<1>2. k \in Maybe(ClientState) /\ (k # Nothing => k.off = s.off /\ k.id = s.replid)
  BY <1>1, PresentFields DEF NodeBase, NodeOK
<1>3. e \in Maybe(ClientState) /\ e \in Maybe(FullMsg(i)) /\ e = Nothing
  BY DEF Maybe
<1>4. t = [s EXCEPT !.cached = k, !.master = e, !.rstate = "connect", !.sync = e]
  BY <1>1 DEF CacheMaster, State
<1> HIDE DEF k, e, t
<1>5. t \in State(i)
  BY <1>1, <1>2, <1>3, <1>4 DEF State
<1>6. /\ t.replid = s.replid /\ t.off = s.off /\ t.child = s.child /\ t.backlog = s.backlog
      /\ t.rstate = "connect" /\ t.masterhost = s.masterhost /\ t.master = e
      /\ t.cached = k /\ t.failover = s.failover
  BY <1>1, <1>4 DEF State
<1>7. NodeOK(n, t, i) /\ SameForSlaves(s, t)
  BY <1>1, <1>2, <1>3, <1>5, <1>6 DEF NodeBase, NodeOK, SameForSlaves
<1> QED BY <1>6, <1>7 DEF t

\* The backlog b after commands were appended and all but keep trimmed.
Trimmed(b, cmds, keep) ==
    LET q == b.buf \o cmds
        cut == Len(q) - keep
    IN [present |-> TRUE, first |-> b.first + cut, buf |-> SubSeq(q, cut + 1, Len(q))]

\* A trimmed backlog ends where the untrimmed one does.
LEMMA TrimmedOK ==
    ASSUME NEW b \in Backlog, NEW cmds \in Seq(Cmd), NEW keep \in Kept(Len(b.buf) + Len(cmds)),
           NEW off \in Nat, off = b.first + Len(b.buf) - 1
    PROVE  LET t == Trimmed(b, cmds, keep)
           IN t \in Backlog /\ off + Len(cmds) = t.first + Len(t.buf) - 1
<1>1. PICK r, f : r = b.buf /\ f = b.first
  OBVIOUS
<1>2. r \in Seq(Cmd) /\ f \in Nat
  BY <1>1 DEF Backlog
<1>3. PICK q : q = r \o cmds
  OBVIOUS
<1>4. /\ q \in Seq(Cmd) /\ Len(q) = Len(r) + Len(cmds) /\ Len(r) \in Nat /\ Len(cmds) \in Nat
      /\ Len(q) \in Nat
  BY <1>2, <1>3
<1>5. keep \in 0 .. Len(q)
  BY <1>1, <1>4, ReplAssumption DEF Kept
<1>6. PICK cut : cut = Len(q) - keep
  OBVIOUS
<1>7. cut \in Nat /\ cut <= Len(q) /\ cut + 1 \in Nat
  BY <1>4, <1>5, <1>6
<1>8. PICK z : z = SubSeq(q, cut + 1, Len(q))
  OBVIOUS
<1>9. z \in Seq(Cmd) /\ Len(z) = keep
  <2>1. \A k \in cut + 1 .. Len(q) : k \in 1 .. Len(q)
    BY <1>4, <1>7
  <2>2. Len(z) = IF cut + 1 <= Len(q) THEN Len(q) - (cut + 1) + 1 ELSE 0
    BY <1>4, <1>7, <1>8
  <2>3. Len(z) = keep
    BY <1>4, <1>5, <1>6, <1>7, <2>2
  <2>4. z \in Seq(Cmd)
    BY <1>4, <1>7, <1>8, <2>1
  <2> QED BY <2>3, <2>4
<1>10. PICK g : g = f + cut
  OBVIOUS
<1>11. g \in Nat
  BY <1>2, <1>7, <1>10
<1>12. Trimmed(b, cmds, keep) = [present |-> TRUE, first |-> g, buf |-> z]
  BY <1>1, <1>3, <1>6, <1>8, <1>10 DEF Trimmed
<1>13. Trimmed(b, cmds, keep) \in Backlog
  BY <1>9, <1>11, <1>12 DEF Backlog
<1>14. off + Len(cmds) = g + Len(z) - 1
  <2>1. PICK a, x, l, k : a = Len(r) /\ x = Len(cmds) /\ l = Len(q) /\ k = Len(z)
    OBVIOUS
  <2>2. /\ a \in Nat /\ x \in Nat /\ l = a + x /\ cut = l - keep /\ k = keep /\ g = f + cut
        /\ off = f + a - 1 /\ keep \in Nat
    BY <1>1, <1>4, <1>5, <1>6, <1>9, <1>10, <2>1
  <2>3. off + x = g + k - 1
    BY SMTT(30), <1>2, <2>2
  <2> QED BY <2>1, <2>3
<1> QED BY <1>12, <1>13, <1>14

\* feedReplicationBuffer changes the offset and the backlog.
LEMMA FeedBufferFields ==
    ASSUME NEW s, NEW cmds, NEW keep
    PROVE  FeedBuffer(s, cmds, keep) =
               [s EXCEPT !.off = s.off + Len(cmds), !.backlog = Trimmed(s.backlog, cmds, keep)]
BY DEF FeedBuffer, Trimmed

\* A master feeds commands to its backlog.
Fed(s, x, cmds, keep, d) ==
    [s EXCEPT !.data = x, !.off = s.off + Len(cmds), !.backlog = Trimmed(s.backlog, cmds, keep),
              !.seldb = d]

\* The backlog of the master still ends at its offset.
LEMMA FedOK ==
    ASSUME NEW n \in Server, NEW i \in Nat, NEW s, NodeOK(n, s, i), s.masterhost = NoServer,
           s.backlog # Nothing, NEW x \in Data, NEW cmds \in Seq(Cmd),
           NEW keep \in Kept(Len(s.backlog.buf) + Len(cmds)), NEW d \in Dbs \cup {NoDb}
    PROVE  LET t == Fed(s, x, cmds, keep, d)
           IN /\ NodeOK(n, t, i) /\ t.rstate = "none"
              /\ t.replid = s.replid /\ t.off = s.off + Len(cmds) /\ t.child = s.child
              /\ t.backlog # Nothing
<1>1. PICK t, b, off : /\ t = Fed(s, x, cmds, keep, d) /\ b = Trimmed(s.backlog, cmds, keep)
                       /\ off = s.off + Len(cmds)
  OBVIOUS
<1>2. /\ s \in State(i) /\ s.off \in Nat /\ s.backlog \in Backlog
      /\ s.off = s.backlog.first + Len(s.backlog.buf) - 1
      /\ s.rstate = "none" /\ s.master = Nothing /\ s.cached = Nothing
  <2>1. s \in State(i)
    BY DEF NodeBase, NodeOK
  <2> QED BY <2>1, PresentFields DEF NodeBase, NodeOK, State
<1>3. b \in Backlog /\ off = b.first + Len(b.buf) - 1
  BY <1>1, <1>2, TrimmedOK, Zenon
<1>4. b # Nothing /\ b \in Maybe(Backlog) /\ off \in Nat
  <2>1. s.off \in Nat /\ Len(cmds) \in Nat
    BY <1>2
  <2>2. off \in Nat
    BY <1>1, <2>1
  <2>3. b \in Backlog
    BY <1>3
  <2> QED BY <2>2, <2>3, Present DEF Maybe
<1>5. t = [s EXCEPT !.data = x, !.off = off, !.backlog = b, !.seldb = d]
  BY <1>1 DEF Fed
<1>6. t \in State(i)
  BY <1>2, <1>4, <1>5 DEF State
<1>7. /\ t.off = off /\ t.backlog = b /\ t.child = s.child /\ t.replid = s.replid
      /\ t.rstate = "none" /\ t.masterhost = NoServer /\ t.master = Nothing
      /\ t.cached = Nothing /\ t.failover = s.failover
  BY <1>2, <1>5 DEF State
<1>8. NodeOK(n, t, i)
  BY <1>3, <1>4, <1>6, <1>7, ReplAssumption DEF NodeBase, NodeOK
<1> QED BY <1>1, <1>4, <1>7, <1>8

\* A replica executes a command and passes it on.
LEMMA ExecuteOK ==
    ASSUME NEW n \in Server, NEW i \in Nat, NEW s, NodeOK(n, s, i), s.rstate = "connected",
           NEW cmd \in Cmd, NEW keep \in Kept(Len(s.backlog.buf) + 1)
    PROVE  LET t == FeedBuffer(Execute(s, cmd), <<cmd>>, keep)
           IN /\ NodeOK(n, t, i) /\ t.rstate = "connected" /\ t.masterhost = s.masterhost
              /\ t.replid = s.replid /\ t.off = s.off + 1 /\ t.child = s.child
              /\ t.backlog # Nothing
<1>1. PICK t, b, off : /\ t = FeedBuffer(Execute(s, cmd), <<cmd>>, keep)
                       /\ b = Trimmed(s.backlog, <<cmd>>, keep) /\ off = s.off + 1
  OBVIOUS
<1>2. /\ s \in State(i) /\ s.off \in Nat /\ s.backlog \in Backlog /\ s.data \in Data
      /\ s.off = s.backlog.first + Len(s.backlog.buf) - 1
      /\ s.cached = Nothing /\ s.masterhost # n /\ s.masterhost # NoServer
      /\ s.master \in ClientState /\ s.master.off = s.off /\ s.master.id = s.replid
      /\ s.master # Nothing
  <2>1. s \in State(i)
    BY DEF NodeBase, NodeOK
  <2> QED BY <2>1, PresentFields DEF NodeBase, NodeOK, State
<1>3. <<cmd>> \in Seq(Cmd) /\ Len(<<cmd>>) = 1
  OBVIOUS
<1>4. b \in Backlog /\ off = b.first + Len(b.buf) - 1
  <2>1. keep \in Kept(Len(s.backlog.buf) + Len(<<cmd>>)) /\ off = s.off + Len(<<cmd>>)
    BY <1>1, <1>3
  <2> QED BY <1>1, <1>2, <1>3, <2>1, TrimmedOK, Zenon
<1>5. b # Nothing /\ b \in Maybe(Backlog) /\ off \in Nat
  <2>1. s.off \in Nat
    BY <1>2
  <2>2. off \in Nat
    BY <1>1, <2>1
  <2>3. b \in Backlog
    BY <1>4
  <2> QED BY <2>2, <2>3, Present DEF Maybe
<1>6. PICK x, k : /\ x = IF cmd.op = "write" THEN Append(s.data, <<cmd.arg, s.master.db>>) ELSE s.data
                  /\ k = [s.master EXCEPT !.db = IF cmd.op = "select" THEN cmd.arg ELSE s.master.db,
                                          !.off = s.master.off + 1]
  OBVIOUS
<1>7. x \in Data
  <2>1. <<cmd.arg, s.master.db>> \in Nat \X Int
    BY <1>2 DEF Cmd, ClientState
  <2> QED BY <1>2, <1>6, <2>1 DEF Data
<1>8. k \in ClientState /\ k.off = off /\ k.id = s.replid
  <2>1. cmd.arg \in Int /\ s.master.db \in Int
    <3>1. cmd.arg \in Nat
      BY DEF Cmd
    <3>2. cmd.arg \in Int
      BY <3>1
    <3>3. s.master \in ClientState
      BY <1>2
    <3>4. s.master.db \in Int
      BY <3>3 DEF ClientState
    <3> QED BY <3>2, <3>4
  <2>2. s.master.off + 1 = off
    <3>1. s.master.off = s.off
      BY <1>2
    <3> QED BY <1>1, <3>1
  <2> QED BY <1>2, <1>5, <1>6, <2>1, <2>2 DEF ClientState
<1>9. k # Nothing /\ k \in Maybe(ClientState)
  BY <1>8, Present DEF Maybe
<1>10. t = [s EXCEPT !.data = x, !.master = k, !.off = off, !.backlog = b]
  BY <1>1, <1>2, <1>3, <1>6, FeedBufferFields DEF Execute, State
<1>11. t \in State(i)
  BY <1>2, <1>5, <1>7, <1>9, <1>10 DEF State
<1>12. /\ t.off = off /\ t.backlog = b /\ t.child = s.child /\ t.replid = s.replid
       /\ t.rstate = "connected" /\ t.masterhost = s.masterhost /\ t.master = k
       /\ t.cached = Nothing /\ t.failover = s.failover
  BY <1>2, <1>10 DEF State
<1>13. NodeOK(n, t, i)
  BY <1>2, <1>4, <1>5, <1>8, <1>9, <1>11, <1>12 DEF NodeBase, NodeOK
<1> QED BY <1>1, <1>5, <1>12, <1>13

\* +CONTINUE
LEMMA ResumeOK ==
    ASSUME NEW n \in Server, NEW i \in Nat, NEW s, NodeOK(n, s, i), s.rstate = "receive_psync",
           s.cached # Nothing, NEW id \in 1 .. i
    PROVE  LET t == Resume(s, id)
           IN /\ NodeOK(n, t, i) /\ t.rstate = "connected" /\ t.masterhost = s.masterhost
              /\ t.replid = id /\ t.off = s.off /\ t.child = s.child /\ t.backlog # Nothing
<1>1. PICK t, e, k, b, sec :
          /\ t = Resume(s, id) /\ e = Nothing /\ k = [s.cached EXCEPT !.id = id]
          /\ b = IF s.backlog.present THEN s.backlog ELSE NewBacklog(s.off)
          /\ sec = s.off + 1
  OBVIOUS
<1>2. /\ s \in State(i) /\ s.cached \in ClientState /\ s.cached.off = s.off
      /\ s.cached.id = s.replid /\ s.masterhost # n /\ s.masterhost # NoServer
  <2>1. s \in State(i)
    BY DEF NodeBase, NodeOK
  <2> QED BY <2>1, PresentFields DEF NodeBase, NodeOK
<1>3. s.off \in Nat /\ s.replid \in 1 .. i
  BY <1>2 DEF State
<1>4. sec \in Int /\ s.replid \in 0 .. i /\ id \in Nat
  BY <1>1, <1>3
<1>5. k \in ClientState /\ k.off = s.off /\ k.id = id
  BY <1>1, <1>2, <1>4 DEF ClientState
<1>6. k \in Maybe(ClientState) /\ k # Nothing /\ e \in Maybe(ClientState)
  BY <1>1, <1>5, Present DEF Maybe
<1>7. b \in Backlog /\ s.off = b.first + Len(b.buf) - 1
  <2>1. CASE s.backlog # Nothing
    <3>1. b = s.backlog
      BY <1>1, <1>2, <2>1, PresentFields
    <3> QED BY <1>2, <2>1, <3>1, PresentFields DEF NodeBase, NodeOK
  <2>2. CASE s.backlog = Nothing
    <3>1. b = NewBacklog(s.off)
      BY <1>1, <1>2, <2>2, PresentFields
    <3> QED BY <1>3, <3>1, NewBacklogOK
  <2> QED BY <2>1, <2>2
<1>8. b \in Maybe(Backlog) /\ b # Nothing
  BY <1>7, Present DEF Maybe
<1>9. /\ t \in State(i)
      /\ t.off = s.off /\ t.backlog = b /\ t.child = s.child /\ t.replid = id
      /\ t.rstate = "connected" /\ t.masterhost = s.masterhost /\ t.master = k
      /\ t.cached = e /\ t.failover = "none"
  <2>1. CASE id # s.cached.id
    <3>1. t = [s EXCEPT !.replid2 = s.replid, !.second = sec, !.replid = id, !.master = k,
                        !.cached = e, !.rstate = "connected", !.failover = "none",
                        !.target = NoServer, !.backlog = b]
      BY <1>1, <1>2, <2>1 DEF Resume, State
    <3> QED BY <1>2, <1>4, <1>6, <1>8, <3>1 DEF State
  <2>2. CASE id = s.cached.id
    <3>1. t = [s EXCEPT !.master = k, !.cached = e, !.rstate = "connected", !.failover = "none",
                        !.target = NoServer, !.backlog = b]
      BY <1>1, <1>2, <2>2 DEF Resume, State
    <3> QED BY <1>2, <1>4, <1>6, <1>8, <2>2, <3>1 DEF State
  <2> QED BY <2>1, <2>2
<1>10. NodeOK(n, t, i)
  BY <1>1, <1>2, <1>5, <1>6, <1>7, <1>8, <1>9 DEF NodeBase, NodeOK
<1> QED BY <1>1, <1>8, <1>9, <1>10

\* +FULLRESYNC
Transferring(s, msg) ==
    [s EXCEPT !.rstate = "transfer", !.sync = msg, !.failover = "none", !.target = NoServer]

\* +FULLRESYNC: the announced ID and offset are kept for the end of the file.
LEMMA TransferOK ==
    ASSUME NEW n \in Server, NEW i \in Nat, NEW s, NodeOK(n, s, i), s.rstate = "receive_psync",
           NEW msg \in FullMsg(i)
    PROVE  LET t == Transferring(s, msg)
           IN /\ NodeOK(n, t, i) /\ SameForSlaves(s, t) /\ t.rstate = "transfer"
              /\ t.masterhost = s.masterhost /\ t.sync = msg
<1>1. PICK t : t = Transferring(s, msg)
  OBVIOUS
<1>2. s \in State(i) /\ msg \in Maybe(FullMsg(i))
  BY DEF NodeBase, NodeOK, Maybe
<1>3. t \in State(i)
  BY <1>1, <1>2 DEF State, Transferring
<1>4. /\ t.off = s.off /\ t.backlog = s.backlog /\ t.child = s.child /\ t.replid = s.replid
      /\ t.rstate = "transfer" /\ t.masterhost = s.masterhost /\ t.master = s.master
      /\ t.cached = s.cached /\ t.failover = "none" /\ t.sync = msg
  BY <1>1, <1>2 DEF State, Transferring
<1>5. NodeOK(n, t, i) /\ SameForSlaves(s, t)
  BY <1>2, <1>3, <1>4 DEF NodeBase, NodeOK, SameForSlaves
<1> QED BY <1>1, <1>4, <1>5

\* The RDB file was loaded, or could not be.
Loaded(s, file) ==
    [s EXCEPT !.data = file.data, !.cached = Nothing, !.child = Nothing,
              !.master = Client(s.sync.id, s.sync.off, file.db),
              !.rstate = "connected", !.replid = s.sync.id, !.off = s.sync.off,
              !.replid2 = NoId, !.second = -1, !.sync = Nothing,
              !.backlog = NewBacklog(s.sync.off)]
NotLoaded(s) ==
    [s EXCEPT !.data = <<>>, !.cached = Nothing, !.child = Nothing,
              !.backlog = Nothing, !.sync = Nothing, !.rstate = "connect"]

\* The replica has the announced history.
LEMMA LoadedOK ==
    ASSUME NEW n \in Server, NEW i \in Nat, NEW s, NodeOK(n, s, i), s.rstate = "transfer",
           s.sync # Nothing, NEW file \in File(i)
    PROVE  LET t == Loaded(s, file)
           IN /\ NodeOK(n, t, i) /\ t.rstate = "connected" /\ t.masterhost = s.masterhost
              /\ t.replid = s.sync.id /\ t.off = s.sync.off
<1>1. PICK t, e, k, b, id, off, sec :
          /\ t = Loaded(s, file) /\ e = Nothing /\ k = Client(s.sync.id, s.sync.off, file.db)
          /\ id = s.sync.id /\ off = s.sync.off /\ b = NewBacklog(s.sync.off) /\ sec = -1
  OBVIOUS
<1>2. /\ s \in State(i) /\ s.sync \in FullMsg(i) /\ s.masterhost # n /\ s.masterhost # NoServer
  <2>1. s \in State(i)
    BY DEF NodeBase, NodeOK
  <2> QED BY <2>1, PresentFields DEF NodeBase, NodeOK
<1>3. id \in 1 .. i /\ off \in Nat /\ file.db \in Int /\ file.data \in Data
  BY <1>1, <1>2 DEF FullMsg, File
<1>4. sec \in Int /\ NoId \in 0 .. i /\ id \in Nat
  BY <1>1, <1>3 DEF NoId
<1>5. k \in ClientState /\ k.off = off /\ k.id = id
  BY <1>1, <1>3, <1>4 DEF ClientState, Client
<1>6. b \in Backlog /\ off = b.first + Len(b.buf) - 1
  BY <1>1, <1>3, NewBacklogOK
<1>7. /\ b \in Maybe(Backlog) /\ b # Nothing /\ k \in Maybe(ClientState) /\ k # Nothing
      /\ e \in Maybe(ClientState) /\ e \in Maybe(FullMsg(i)) /\ e \in Maybe(File(i))
  BY <1>1, <1>5, <1>6, Present DEF Maybe
<1>8. t = [s EXCEPT !.data = file.data, !.cached = e, !.child = e, !.master = k,
                    !.rstate = "connected", !.replid = id, !.off = off, !.replid2 = NoId,
                    !.second = sec, !.sync = e, !.backlog = b]
  BY <1>1 DEF Loaded
<1>9. t \in State(i)
  BY <1>2, <1>3, <1>4, <1>7, <1>8 DEF State
<1>10. /\ t.off = off /\ t.backlog = b /\ t.replid = id
       /\ t.rstate = "connected" /\ t.masterhost = s.masterhost /\ t.master = k
       /\ t.cached = e /\ t.failover = s.failover
  BY <1>2, <1>8 DEF State
<1>11. NodeOK(n, t, i)
  BY <1>1, <1>2, <1>5, <1>6, <1>7, <1>9, <1>10 DEF NodeBase, NodeOK
<1> QED BY <1>1, <1>10, <1>11

\* A failed load leaves a replica without a cached master.
LEMMA NotLoadedOK ==
    ASSUME NEW n \in Server, NEW i \in Nat, NEW s, NodeOK(n, s, i), s.rstate = "transfer"
    PROVE  NodeOK(n, NotLoaded(s), i) /\ NotLoaded(s).rstate = "connect"
<1>1. PICK t, e, x : t = NotLoaded(s) /\ e = Nothing /\ x = <<>>
  OBVIOUS
<1>2. /\ s \in State(i) /\ s.masterhost # n /\ s.masterhost # NoServer /\ s.master = Nothing
  BY DEF NodeBase, NodeOK
<1>3. /\ e \in Maybe(ClientState) /\ e \in Maybe(FullMsg(i)) /\ e \in Maybe(File(i))
      /\ e \in Maybe(Backlog) /\ x \in Data
  BY <1>1 DEF Maybe, Data
<1>4. t = [s EXCEPT !.data = x, !.cached = e, !.child = e, !.backlog = e, !.sync = e,
                    !.rstate = "connect"]
  BY <1>1 DEF NotLoaded
<1>5. t \in State(i)
  BY <1>2, <1>3, <1>4 DEF State
<1>6. /\ t.off = s.off /\ t.backlog = e /\ t.replid = s.replid
      /\ t.rstate = "connect" /\ t.masterhost = s.masterhost /\ t.master = Nothing
      /\ t.cached = e /\ t.failover = s.failover
  BY <1>2, <1>4 DEF State
<1>7. NodeOK(n, t, i)
  BY <1>1, <1>2, <1>5, <1>6 DEF NodeBase, NodeOK
<1> QED BY <1>1, <1>6, <1>7

\* An RDB file describes the instance that writes it.
LEMMA SnapshotOK ==
    ASSUME NEW n, NEW i \in Nat, NEW s, NodeOK(n, s, i)
    PROVE  LET f == SnapshotOf(s)
           IN f \in File(i) /\ f # Nothing /\ f.id = s.replid /\ f.off = s.off
<1>1. s \in State(i)
  BY DEF NodeBase, NodeOK
<1>2. PICK f, db : f = SnapshotOf(s) /\ db = StreamDb(s)
  OBVIOUS
<1>3. db \in Int
  <2>1. s.seldb \in Dbs \cup {NoDb} /\ Dbs \subseteq Nat /\ NoDb = -1
    BY <1>1, ReplAssumption DEF State, NoDb
  <2>2. s.seldb \in Int /\ NoDb \in Int /\ 0 \in Int
    <3>1. PICK z : z = s.seldb
      OBVIOUS
    <3>2. z \in Dbs \/ z = -1
      BY <2>1, <3>1
    <3>3. z \in Nat \/ z = -1
      BY <2>1, <3>2
    <3>4. z \in Int
      BY <3>3
    <3> QED BY <2>1, <3>1, <3>4
  <2>3. s.master.present => s.master.db \in Int
    BY <1>1, PresentFields DEF ClientState
  <2>4. s.cached.present => s.cached.db \in Int
    BY <1>1, PresentFields DEF ClientState
  <2> QED BY <1>2, <2>2, <2>3, <2>4 DEF StreamDb
<1>4. f = [present |-> TRUE, data |-> s.data, id |-> s.replid, off |-> s.off, db |-> db]
  BY <1>2 DEF SnapshotOf, Snapshot
<1>5. s.data \in Data /\ s.replid \in 1 .. i /\ s.off \in Nat
  BY <1>1 DEF State
<1>6. f \in File(i)
  BY <1>3, <1>4, <1>5 DEF File
<1>7. f # Nothing
  BY <1>6, Present
<1> QED BY <1>2, <1>4, <1>6, <1>7

\* A process starts in order.
LEMMA FreshOK ==
    ASSUME NEW n \in Server, NEW i \in Nat, NEW id \in 1 .. i,
           NEW h \in Server \cup {NoServer}, h # n
    PROVE  LET s == Fresh(id, h)
           IN /\ NodeOK(n, s, i) /\ ~Attempts(s) /\ s.rstate = (IF h = NoServer THEN "none" ELSE "connect")
              /\ s.masterhost = h /\ s.backlog = Nothing /\ s.cached = Nothing /\ s.master = Nothing
              /\ s.failover = "none"
<1>1. PICK s, e, x, sec, st : /\ s = Fresh(id, h) /\ e = Nothing /\ x = <<>> /\ sec = -1
                              /\ st = IF h = NoServer THEN "none" ELSE "connect"
  OBVIOUS
<1>2. /\ e \in Maybe(ClientState) /\ e \in Maybe(FullMsg(i)) /\ e \in Maybe(File(i))
      /\ e \in Maybe(Backlog) /\ x \in Data /\ sec \in Int /\ NoId \in 0 .. i
      /\ NoDb \in Dbs \cup {NoDb} /\ 0 \in Nat
      /\ st \in {"none", "connect", "receive_psync", "transfer", "connected"}
  BY <1>1 DEF Maybe, Data, NoId
<1>3. s = [data |-> x, replid |-> id, replid2 |-> NoId, second |-> sec, off |-> 0,
           backlog |-> e, seldb |-> NoDb, masterhost |-> h, rstate |-> st,
           master |-> e, cached |-> e, sync |-> e, child |-> e, failover |-> "none",
           target |-> NoServer]
  BY <1>1 DEF Fresh
<1>4. s \in State(i)
  BY <1>2, <1>3 DEF State
<1>5. /\ s.masterhost = h /\ s.rstate = st /\ s.master = e /\ s.cached = e /\ s.backlog = e
      /\ s.failover = "none"
  BY <1>3
<1>6. NodeOK(n, s, i) /\ ~Attempts(s)
  BY <1>1, <1>4, <1>5 DEF NodeBase, NodeOK, Attempts
<1> QED BY <1>1, <1>5, <1>6

\* What loadDataFromDisk may find, and delete: without repl-stream-db the other
\* auxiliary fields do not count.
BootFile(i) == {f \in [present : {TRUE}, data : Data, id : 0 .. i, off : Nat, db : Int] :
                    f.db = NoDb \/ f.id \in 1 .. i}
Deletions == [data : Data, cmds : Seq(Cmd), db : Dbs \cup {NoDb}]

\* A master started from an RDB file is in order.
LEMMA BootMasterOK ==
    ASSUME NEW n \in Server, NEW i \in Nat, NEW id \in 1 .. i, NEW file \in BootFile(i),
           NEW dels \in Deletions
    PROVE  LET t == BootMaster(Fresh(id, NoServer), file, dels)
           IN NodeOK(n, t, i) /\ ~Attempts(t)
<1>1. PICK s, t, x, l, b, off, sec :
          /\ s = Fresh(id, NoServer) /\ t = BootMaster(s, file, dels)
          /\ x = file.data \o dels.data /\ l = Len(dels.cmds)
          /\ b = [NewBacklog(file.off) EXCEPT !.buf = dels.cmds]
          /\ off = file.off + l /\ sec = file.off + 1
  OBVIOUS
<1>2. /\ NodeOK(n, s, i) /\ s.rstate = "none" /\ s.masterhost = NoServer /\ s.backlog = Nothing
      /\ s.cached = Nothing /\ s.master = Nothing /\ s.failover = "none"
  BY <1>1, FreshOK, ReplAssumption
<1>3. s \in State(i)
  BY <1>2 DEF NodeBase, NodeOK
<1>4. /\ file.data \in Data /\ file.off \in Nat /\ file.id \in 0 .. i
      /\ dels.data \in Data /\ dels.cmds \in Seq(Cmd) /\ dels.db \in Dbs \cup {NoDb}
  BY DEF BootFile, Deletions
<1>5. x \in Data /\ l \in Nat
  BY <1>1, <1>4 DEF Data
<1>6. off \in Nat /\ sec \in Int
  BY <1>1, <1>4, <1>5
<1>7. b \in Backlog /\ off = b.first + Len(b.buf) - 1
  <2>1. b = [present |-> TRUE, first |-> sec, buf |-> dels.cmds]
    BY <1>1 DEF NewBacklog
  <2>2. sec \in Nat
    BY <1>1, <1>4
  <2>3. b.first = sec /\ b.buf = dels.cmds /\ b \in Backlog
    BY <1>4, <2>1, <2>2 DEF Backlog
  <2>4. off = sec + l - 1
    <3>1. PICK z : z = file.off
      OBVIOUS
    <3>2. z \in Nat /\ off = z + l /\ sec = z + 1
      BY <1>1, <1>4, <3>1
    <3> QED BY <1>5, <3>2
  <2> QED BY <1>1, <2>3, <2>4
<1>8. b \in Maybe(Backlog) /\ b # Nothing
  BY <1>7, Present DEF Maybe
<1>9. CASE file.db = NoDb
  <2>1. t = [s EXCEPT !.data = x, !.off = l, !.seldb = dels.db]
    BY <1>1, <1>9 DEF BootMaster
  <2>2. t \in State(i)
    BY <1>3, <1>4, <1>5, <2>1 DEF State
  <2>3. /\ t.backlog = Nothing /\ t.rstate = "none" /\ t.masterhost = NoServer
        /\ t.master = Nothing /\ t.cached = Nothing /\ t.failover = "none"
    BY <1>2, <1>3, <2>1 DEF State
  <2>4. NodeOK(n, t, i) /\ ~Attempts(t)
    BY <2>2, <2>3, ReplAssumption DEF NodeBase, NodeOK, Attempts
  <2> QED BY <1>1, <2>4
<1>10. CASE file.db # NoDb
  <2>1. t = [s EXCEPT !.data = x, !.replid2 = file.id, !.second = sec, !.off = off,
                      !.seldb = dels.db, !.backlog = b]
    BY <1>1, <1>10 DEF BootMaster
  <2>2. t \in State(i)
    BY <1>3, <1>4, <1>5, <1>6, <1>8, <2>1 DEF State
  <2>3. /\ t.backlog = b /\ t.off = off /\ t.rstate = "none" /\ t.masterhost = NoServer
        /\ t.master = Nothing /\ t.cached = Nothing /\ t.failover = "none"
    BY <1>2, <1>3, <2>1 DEF State
  <2>4. NodeOK(n, t, i) /\ ~Attempts(t)
    BY <1>7, <2>2, <2>3, ReplAssumption DEF NodeBase, NodeOK, Attempts
  <2> QED BY <1>1, <2>4
<1> QED BY <1>9, <1>10

\* So is a replica started from one.
LEMMA BootReplicaOK ==
    ASSUME NEW n \in Server, NEW i \in Nat, NEW id \in 1 .. i, NEW file \in BootFile(i),
           NEW h \in Server, h # n
    PROVE  LET t == BootReplica(Fresh(id, h), file)
           IN NodeOK(n, t, i) /\ ~Attempts(t)
<1>1. PICK s, t, k : /\ s = Fresh(id, h) /\ t = BootReplica(s, file)
                     /\ k = Client(file.id, file.off, file.db)
  OBVIOUS
<1>2. /\ NodeOK(n, s, i) /\ s.rstate = "connect" /\ s.masterhost = h /\ s.backlog = Nothing
      /\ s.cached = Nothing /\ s.master = Nothing /\ s.failover = "none"
  BY <1>1, FreshOK, ReplAssumption
<1>3. s \in State(i)
  BY <1>2 DEF NodeBase, NodeOK
<1>4. file.data \in Data /\ file.off \in Nat /\ file.id \in 0 .. i /\ file.db \in Int
  BY DEF BootFile
<1>5. k \in ClientState /\ k.off = file.off /\ k.id = file.id
  <2>1. file.id \in Nat
    BY <1>4
  <2> QED BY <1>1, <1>4, <2>1 DEF Client, ClientState
<1>6. k \in Maybe(ClientState) /\ k # Nothing
  BY <1>5, Present DEF Maybe
<1>7. CASE file.db = NoDb
  <2>1. t = [s EXCEPT !.data = file.data]
    BY <1>1, <1>7 DEF BootReplica
  <2>2. t \in State(i)
    BY <1>3, <1>4, <2>1 DEF State
  <2>3. /\ t.backlog = Nothing /\ t.rstate = "connect" /\ t.masterhost = h
        /\ t.master = Nothing /\ t.cached = Nothing /\ t.failover = "none"
    BY <1>2, <1>3, <2>1 DEF State
  <2>4. NodeOK(n, t, i) /\ ~Attempts(t)
    BY <2>2, <2>3, ReplAssumption DEF NodeBase, NodeOK, Attempts
  <2> QED BY <1>1, <2>4
<1>8. CASE file.db # NoDb
  <2>1. t = [s EXCEPT !.data = file.data, !.replid = file.id, !.off = file.off, !.cached = k]
    BY <1>1, <1>8 DEF BootReplica
  <2>2. file.id \in 1 .. i
    BY <1>8 DEF BootFile
  <2>3. t \in State(i)
    BY <1>3, <1>4, <1>6, <2>1, <2>2 DEF State
  <2>4. /\ t.backlog = Nothing /\ t.rstate = "connect" /\ t.masterhost = h
        /\ t.off = file.off /\ t.replid = file.id
        /\ t.master = Nothing /\ t.cached = k /\ t.failover = "none"
    BY <1>2, <1>3, <2>1 DEF State
  <2>5. NodeOK(n, t, i) /\ ~Attempts(t)
    BY <1>5, <2>3, <2>4, ReplAssumption DEF NodeBase, NodeOK, Attempts
  <2> QED BY <1>1, <2>5
<1> QED BY <1>7, <1>8

-----------------------------------------------------------------------------
(* A replica reads                                                         *)

\* What is left of a queue when its head is read.
LEMMA Tails ==
    ASSUME NEW S, NEW q \in Seq(S), q # <<>>
    PROVE  /\ Head(q) = q[1] /\ Head(q) \in S /\ Tail(q) \in Seq(S)
           /\ Len(q) \in Nat /\ Len(q) >= 1 /\ Len(Tail(q)) = Len(q) - 1
           /\ Len(q) = 1 => Tail(q) = <<>>
           /\ Len(q) >= 2 => Tail(q)[1] = q[2]
           /\ CommandsFrom(q, 1) => CommandsFrom(Tail(q), 1)
           /\ CommandsFrom(q, 2) => CommandsFrom(Tail(q), 1)
           /\ CommandsFrom(q, 3) => CommandsFrom(Tail(q), 2)
<1>1. /\ Head(q) = q[1] /\ Head(q) \in S /\ Tail(q) \in Seq(S)
      /\ Len(q) \in Nat /\ Len(q) >= 1 /\ Len(Tail(q)) = Len(q) - 1
      /\ \A k \in 1 .. Len(Tail(q)) : Tail(q)[k] = q[k + 1]
  BY EmptySeq
<1>2. ASSUME Len(q) = 1
      PROVE  Tail(q) = <<>>
  <2>1. PICK z : z = Tail(q)
    OBVIOUS
  <2>2. z \in Seq(S) /\ Len(z) = 0
    BY <1>1, <1>2, <2>1
  <2>3. z = <<>>
    BY <2>2, EmptySeq
  <2> QED BY <2>1, <2>3
<1>3. Len(q) >= 2 => Tail(q)[1] = q[2]
  BY <1>1
<1>4. ASSUME NEW k \in {1, 2}, CommandsFrom(q, k + 1)
      PROVE  CommandsFrom(Tail(q), k)
  <2>1. ASSUME NEW j \in k .. Len(Tail(q))
        PROVE  Tail(q)[j] \in Cmd
    <3>1. j \in 1 .. Len(Tail(q)) /\ j + 1 \in k + 1 .. Len(q)
      BY <1>1
    <3> QED BY <1>1, <1>4, <3>1 DEF CommandsFrom
  <2> QED BY <2>1 DEF CommandsFrom
<1>5. ASSUME CommandsFrom(q, 1)
      PROVE  CommandsFrom(q, 2)
  BY <1>1, <1>5 DEF CommandsFrom
<1>6. /\ CommandsFrom(q, 2) => CommandsFrom(Tail(q), 1)
      /\ CommandsFrom(q, 3) => CommandsFrom(Tail(q), 2)
  <2>1. 1 + 1 = 2 /\ 2 + 1 = 3
    OBVIOUS
  <2> QED BY <1>4, <2>1
<1> QED BY <1>1, <1>2, <1>3, <1>5, <1>6

\* The next message tells the phase.
LEMMA HeadPhase ==
    ASSUME NEW i \in Nat, NEW s, NEW c, NEW m, ConnOK(s, c, m, i), c.q # <<>>
    PROVE  /\ Attempts(s) /\ c.to = s.masterhost
           /\ Head(c.q).op = "fullresync" => Announced(s, c, m, i) \/ FileAhead(s, c, m, i)
           /\ Head(c.q).op = "rdb" => ReadsFile(s, c, m, i)
           /\ Head(c.q).op = "continue" => ContinueAhead(s, c, m, i)
           /\ IsCommand(Head(c.q)) => Streams(s, c, m) /\ Head(c.q) \in Cmd
<1>1. c.q \in Seq(Msg(i)) /\ Attempts(s) /\ c.to = s.masterhost /\ LinkOK(s, c, m, i)
  BY DEF ConnOK, Conn, Idle
<1>2. PICK q : q = c.q
  OBVIOUS
<1>3. Head(q) = q[1] /\ Len(q) >= 1 /\ Len(q) \in Nat
  BY <1>1, <1>2, Tails
<1>4. /\ \A x \in FullMsg(i) : x.op = "fullresync"
      /\ \A x \in RdbMsg(i) : x.op = "rdb"
      /\ \A x \in ContinueMsg(i) : x.op = "continue"
      /\ \A x \in Cmd : x.op \in {"select", "write", "ping"}
  BY DEF FullMsg, RdbMsg, ContinueMsg, Cmd
<1>5. ~Queued(s, c, m) /\ ~AwaitsFile(s, c, m)
  BY DEF Queued, AwaitsFile
<1>6. Announced(s, c, m, i) \/ FileAhead(s, c, m, i) => q[1] \in FullMsg(i)
  BY <1>2 DEF Announced, FileAhead
<1>7. ReadsFile(s, c, m, i) => q[1] \in RdbMsg(i)
  BY <1>2 DEF ReadsFile
<1>8. ContinueAhead(s, c, m, i) => q[1] \in ContinueMsg(i)
  BY <1>2 DEF ContinueAhead
<1>9. Streams(s, c, m) => q[1] \in Cmd
  <2>1. CommandsFrom(q, 1) => q[1] \in Cmd
    BY <1>3 DEF CommandsFrom
  <2> QED BY <1>2, <2>1 DEF Streams
<1> QED BY <1>1, <1>2, <1>3, <1>4, <1>5, <1>6, <1>7, <1>8, <1>9 DEF LinkOK, IsCommand

Read(c) == [c EXCEPT !.q = Tail(@)]

\* Reading takes one message off the connection.
LEMMA ReadOK ==
    ASSUME NEW i \in Nat, NEW c \in Conn(i), c.q # <<>>
    PROVE  /\ Read(c) \in Conn(i) /\ Read(c).to = c.to /\ Read(c).open = c.open
           /\ Read(c).st = c.st /\ Read(c).q = Tail(c.q) /\ Read(c).out = c.out
           /\ Pending(c) \in Nat /\ Pending(Read(c)) = Pending(c) - 1
<1>1. PICK q, z : q = c.q /\ z = Tail(q)
  OBVIOUS
<1>2. q \in Seq(Msg(i)) /\ c.out \in Seq(Cmd)
  BY <1>1 DEF Conn
<1>3. /\ z \in Seq(Msg(i)) /\ Len(q) \in Nat /\ Len(z) = Len(q) - 1
  BY <1>1, <1>2, Tails
<1>4. Read(c) = [c EXCEPT !.q = z]
  BY <1>1 DEF Read
<1>5. /\ Read(c) \in Conn(i) /\ Read(c).to = c.to /\ Read(c).open = c.open
      /\ Read(c).st = c.st /\ Read(c).q = z /\ Read(c).out = c.out
  BY <1>3, <1>4 DEF Conn
<1>6. PICK a, b : a = Len(q) /\ b = Len(c.out)
  OBVIOUS
<1>7. a \in Nat /\ b \in Nat /\ Pending(c) = a + b /\ Pending(Read(c)) = (a - 1) + b
  <2>1. a \in Nat /\ b \in Nat /\ Len(z) = a - 1
    BY <1>2, <1>3, <1>6
  <2>2. Pending(c) = a + b
    BY <1>1, <1>6 DEF Pending
  <2>3. Pending(Read(c)) = Len(z) + b
    BY <1>5, <1>6 DEF Pending
  <2> QED BY <2>1, <2>2, <2>3
<1>8. a + b \in Nat /\ (a - 1) + b = (a + b) - 1
  BY <1>7
<1> QED BY <1>1, <1>5, <1>7, <1>8

\* A message before the commands has been read, or one of the commands.
LEMMA EndsRead ==
    ASSUME NEW c, NEW d, NEW m, NEW off \in Nat, NEW k \in Nat, NEW id, m.off \in Nat,
           d.open => c.open, Ends(c, m, id, off, k), Pending(c) \in Nat, Pending(d) = Pending(c) - 1
    PROVE  Ends(d, m, id, off, k - 1) /\ Ends(d, m, id, off + 1, k)
<1>1. CASE ~d.open
  BY <1>1 DEF Ends
<1>2. CASE d.open
  <2> c.open
    BY <1>2
  <2>1. PICK a, b, z : a = Pending(c) /\ b = m.off /\ z = Pending(d)
    OBVIOUS
  <2>2. a \in Nat /\ b \in Nat /\ off + a = b + k /\ z = a - 1 /\ m.backlog # Nothing /\ m.replid = id
    BY <1>2, <2>1 DEF Ends
  <2>3. off + z = b + (k - 1) /\ (off + 1) + z = b + k
    BY <2>2
  <2> QED BY <2>1, <2>2, <2>3 DEF Ends
<1> QED BY <1>1, <1>2

\* After +FULLRESYNC the replica waits for the file or reads it.
LEMMA ReadFullResync ==
    ASSUME NEW i \in Nat, NEW s, NEW c, NEW m, ConnOK(s, c, m, i), m.off \in Nat,
           c.q # <<>>, Head(c.q).op = "fullresync"
    PROVE  /\ s.rstate = "receive_psync" /\ Head(c.q) \in FullMsg(i)
           /\ \A t : t.rstate = "transfer" /\ t.masterhost = s.masterhost /\ t.sync = Head(c.q)
                       => ConnOK(t, Read(c), m, i)
<1>1. PICK q, d : q = c.q /\ d = Read(c)
  OBVIOUS
<1>2. c \in Conn(i) /\ q \in Seq(Msg(i))
  BY <1>1 DEF ConnOK, Conn
<1>3. /\ d \in Conn(i) /\ d.to = c.to /\ d.open = c.open /\ d.st = c.st /\ d.q = Tail(q)
      /\ d.out = c.out /\ Pending(c) \in Nat /\ Pending(d) = Pending(c) - 1
  BY <1>1, <1>2, ReadOK
<1>4. /\ Head(q) = q[1] /\ Len(q) \in Nat /\ Len(q) >= 1 /\ Len(Tail(q)) = Len(q) - 1
      /\ Len(q) = 1 => Tail(q) = <<>>
      /\ Len(q) >= 2 => Tail(q)[1] = q[2]
      /\ CommandsFrom(q, 3) => CommandsFrom(Tail(q), 2)
  BY <1>1, <1>2, Tails
<1>5. c.to = s.masterhost /\ (Announced(s, c, m, i) \/ FileAhead(s, c, m, i))
  BY HeadPhase
<1>6. s.rstate = "receive_psync" /\ q[1] \in FullMsg(i)
  BY <1>1, <1>5 DEF Announced, FileAhead
<1>7. q[1] # Nothing /\ q[1].off \in Nat
  BY <1>6 DEF FullMsg, Nothing
<1>8. ASSUME NEW t, t.rstate = "transfer", t.masterhost = s.masterhost, t.sync = Head(c.q)
      PROVE  ConnOK(t, d, m, i)
  <2>1. t.sync = q[1]
    BY <1>1, <1>4, <1>8
  <2>2. d.open => c.open
    BY <1>3
  <2>3. CASE Announced(s, c, m, i)
    <3>1. Ends(c, m, q[1].id, q[1].off, 1) /\ Collects(c, m, q[1]) /\ c.st = "wait_end" /\ Len(q) = 1
      BY <1>1, <2>3 DEF Announced
    <3>2. Ends(d, m, q[1].id, q[1].off, 1 - 1)
      BY <1>3, <1>7, <2>2, <3>1, EndsRead
    <3>3. Collects(d, m, q[1])
      BY <2>2, <3>1 DEF Collects
    <3>4. AwaitsFile(t, d, m)
      BY <1>3, <1>4, <1>7, <1>8, <2>1, <3>1, <3>2, <3>3 DEF AwaitsFile
    <3> QED BY <1>3, <1>5, <1>8, <3>4 DEF ConnOK, LinkOK, Attempts
  <2>4. CASE FileAhead(s, c, m, i)
    <3>1. /\ Ends(c, m, q[1].id, q[1].off, 2) /\ c.st = "online" /\ c.out = <<>> /\ Len(q) >= 2
          /\ q[2] \in RdbMsg(i) /\ CommandsFrom(q, 3)
      BY <1>1, <2>4 DEF FileAhead
    <3>2. Ends(d, m, q[1].id, q[1].off, 2 - 1)
      BY <1>3, <1>7, <2>2, <3>1, EndsRead
    <3>3. Len(d.q) >= 1 /\ d.q[1] \in RdbMsg(i) /\ CommandsFrom(d.q, 2)
      BY <1>3, <1>4, <3>1
    <3>4. ReadsFile(t, d, m, i)
      BY <1>3, <1>7, <1>8, <2>1, <3>1, <3>2, <3>3 DEF ReadsFile
    <3> QED BY <1>3, <1>5, <1>8, <3>4 DEF ConnOK, LinkOK, Attempts
  <2> QED BY <1>5, <2>3, <2>4
<1> QED BY <1>1, <1>4, <1>6, <1>8

\* What is left after the last message before the commands, or after a command.
LEMMA ReadStreams ==
    ASSUME NEW i \in Nat, NEW s, NEW c, NEW m, c \in Conn(i), m.off \in Nat, c.to = s.masterhost,
           c.q # <<>>, c.st = "online", c.out = <<>>, CommandsFrom(c.q, 2) \/ CommandsFrom(c.q, 1),
           NEW off \in Nat, NEW id, NEW t, t.rstate = "connected", t.masterhost = s.masterhost,
           t.replid = id,
           \/ t.off = off /\ Ends(c, m, id, off, 1)
           \/ t.off = off + 1 /\ Ends(c, m, id, off, 0)
    PROVE  ConnOK(t, Read(c), m, i)
<1>1. PICK q, d : q = c.q /\ d = Read(c)
  OBVIOUS
<1>2. q \in Seq(Msg(i))
  BY <1>1 DEF Conn
<1>3. /\ d \in Conn(i) /\ d.to = c.to /\ d.open = c.open /\ d.st = c.st /\ d.q = Tail(q)
      /\ d.out = c.out /\ Pending(c) \in Nat /\ Pending(d) = Pending(c) - 1
  BY <1>1, ReadOK
<1>4. CommandsFrom(Tail(q), 1)
  BY <1>1, <1>2, Tails
<1>5. d.open => c.open
  BY <1>3
<1>6. Ends(d, m, id, t.off, 0)
  <2>1. CASE t.off = off /\ Ends(c, m, id, off, 1)
    <3>1. Ends(d, m, id, off, 1 - 1)
      BY <1>3, <1>5, <2>1, EndsRead
    <3> QED BY <2>1, <3>1
  <2>2. CASE t.off = off + 1 /\ Ends(c, m, id, off, 0)
    <3>1. Ends(d, m, id, off + 1, 0)
      BY <1>3, <1>5, <2>2, EndsRead
    <3> QED BY <2>2, <3>1
  <2> QED BY <2>1, <2>2
<1>7. Streams(t, d, m)
  BY <1>3, <1>4, <1>6 DEF Streams
<1> QED BY <1>1, <1>3, <1>7 DEF ConnOK, LinkOK, Attempts

-----------------------------------------------------------------------------
(* The actions                                                             *)

CounterRecord == [write : Nat, admin : Nat, fault : Nat, restart : Nat, save : Nat]

\* The record of the bounds is a function of their names.
LEMMA CountersOK == CounterRecord = [Counters -> Nat]
BY DEF CounterRecord, Counters

\* Using a bound keeps the counters numbers.
LEMMA UseOK ==
    ASSUME used \in [Counters -> Nat], NEW what \in Counters, NEW max, Use(what, max)
    PROVE  used' \in [Counters -> Nat]
BY DEF Use

\* What the invariant says of an instance.
LEMMA Known ==
    ASSUME Inv, NEW n \in Server
    PROVE  /\ ids \in Nat /\ node[n] \in State(ids) /\ NodeOK(n, node[n], ids)
           /\ conn[n] \in Conn(ids) /\ conn[n].to # n
           /\ ConnOK(node[n], conn[n], node[conn[n].to], ids)
           /\ conn[n].to = node[n].masterhost \/ ~Attempts(node[n])
           /\ Attempts(node[n]) => conn[n].to \in Server /\ node[conn[n].to].off \in Nat
           /\ Good(node, conn, ids)
<1>1. /\ ids \in Nat /\ node \in [Server -> State(ids)] /\ NodeOK(n, node[n], ids)
      /\ conn \in [Server -> Conn(ids)]
      /\ ConnOK(node[n], conn[n], node[conn[n].to], ids) /\ Good(node, conn, ids)
  BY DEF Inv, Good
<1>2. conn[n].to # n /\ (conn[n].to \notin Server => ~Attempts(node[n]))
  BY <1>1, Reached
<1>3. conn[n].to = node[n].masterhost \/ ~Attempts(node[n])
  BY <1>1 DEF ConnOK
<1>4. \A m \in Server : node[m].off \in Nat
  BY <1>1 DEF State
<1> QED BY <1>1, <1>2, <1>3, <1>4

\* An instance that is not connecting may have no connection.
LEMMA NoConnOK ==
    ASSUME NEW i \in Nat, NEW t, ~Attempts(t), NEW m
    PROVE  ConnOK(t, NoConn, m, i)
<1>1. PICK e, f : e = <<>> /\ f = FALSE
  OBVIOUS
<1>2. e \in Seq(Msg(i)) /\ e \in Seq(Cmd) /\ f \in BOOLEAN
  <2>1. <<>> \in Seq(Msg(i)) /\ <<>> \in Seq(Cmd) /\ FALSE \in BOOLEAN
    OBVIOUS
  <2> QED BY <1>1, <2>1, Zenon
<1>3. NoConn = [to |-> NoServer, open |-> f, st |-> "none", q |-> e, out |-> e]
  BY <1>1 DEF NoConn
<1>4. NoConn \in Conn(i)
  BY <1>2, <1>3 DEF Conn
<1>5. Idle(NoConn)
  BY DEF Idle, NoConn
<1> QED BY <1>4, <1>5 DEF ConnOK

\* The other connections of p change, its own one does not.
LEMMA OwnConn ==
    ASSUME NEW i, NEW cn \in [Server -> Conn(i)], NEW p \in Server, cn[p].to # p, NEW cmds
    PROVE  /\ cn = [cn EXCEPT ![p] = cn[p]]
           /\ DisconnectSlaves(cn, p)[p] = cn[p]
           /\ DisconnectSlaves(cn, p) = [DisconnectSlaves(cn, p) EXCEPT ![p] = cn[p]]
           /\ FeedSlaves(cn, p, cmds)[p] = cn[p]
           /\ FeedSlaves(cn, p, cmds) = [FeedSlaves(cn, p, cmds) EXCEPT ![p] = cn[p]]
<1>1. cn = [cn EXCEPT ![p] = cn[p]]
  OBVIOUS
<1>2. PICK a, b : a = DisconnectSlaves(cn, p) /\ b = FeedSlaves(cn, p, cmds)
  OBVIOUS
<1>3. a[p] = cn[p] /\ b[p] = cn[p]
  BY <1>2 DEF DisconnectSlaves, FeedSlaves
<1> DEFINE F(r) == IF cn[r].to = p THEN [cn[r] EXCEPT !.open = FALSE, !.out = <<>>] ELSE cn[r]
           G(r) == IF cn[r].to = p /\ cn[r].open /\ cn[r].st = "online"
                   THEN [cn[r] EXCEPT !.q = @ \o cmds]
                   ELSE IF cn[r].to = p /\ cn[r].open /\ cn[r].st = "wait_end"
                   THEN [cn[r] EXCEPT !.out = @ \o cmds]
                   ELSE cn[r]
<1>4. a = [r \in Server |-> F(r)] /\ b = [r \in Server |-> G(r)]
  BY <1>2 DEF DisconnectSlaves, FeedSlaves
<1> HIDE DEF F, G
<1>5. a = [a EXCEPT ![p] = a[p]] /\ b = [b EXCEPT ![p] = b[p]]
  BY <1>4
<1> QED BY <1>1, <1>2, <1>3, <1>5

\* A write of a client preserves the invariant.
LEMMA WriteStep ==
    ASSUME Inv, NEW m \in Server, NEW d \in Dbs, Write(m, d)
    PROVE  Inv'
<1>1. PICK n : n = node[m]
  OBVIOUS
<1>2. /\ ids \in Nat /\ ids <= ids /\ n \in State(ids) /\ NodeOK(m, n, ids) /\ Good(node, conn, ids)
      /\ conn[m].to # m /\ ConnOK(n, conn[m], node[conn[m].to], ids) /\ n.masterhost = NoServer
      /\ used \in [Counters -> Nat] /\ rdb \in [Server -> Maybe(File(ids))]
      /\ conn \in [Server -> Conn(ids)]
  BY <1>1, Known DEF Inv, Write, Good
<1>3. used' \in [Counters -> Nat] /\ rdb' = rdb /\ ids' = ids
  <2>1. Use("write", MaxWrites) /\ rdb' = rdb /\ ids' = ids
    BY DEF Write
  <2>2. "write" \in Counters
    BY DEF Counters
  <2> QED BY <1>2, <2>1, <2>2, UseOK
<1>4. PICK w, x, s : w = used.write + 1 /\ x = Append(n.data, <<w, d>>) /\ s = [n EXCEPT !.data = x]
  OBVIOUS
<1>5. PICK cmds : cmds = (IF s.seldb = d THEN <<>> ELSE <<Select(d)>>) \o <<Command(w)>>
  OBVIOUS
<1>6. w \in Nat /\ d \in Nat /\ d \in Int
  <2>1. used.write \in Nat /\ Dbs \subseteq Nat
    BY <1>2, ReplAssumption DEF Counters
  <2> QED BY <1>4, <2>1
<1>7. x \in Data
  <2>1. n.data \in Data /\ <<w, d>> \in Nat \X Int
    BY <1>2, <1>6 DEF State
  <2> QED BY <1>4, <2>1 DEF Data
<1>8. cmds \in Seq(Cmd)
  <2>1. Select(d) \in Cmd /\ Command(w) \in Cmd
    BY <1>6 DEF Select, Command, Cmd
  <2>2. <<>> \in Seq(Cmd) /\ <<Select(d)>> \in Seq(Cmd) /\ <<Command(w)>> \in Seq(Cmd)
    BY <2>1
  <2>3. PICK a, b : a = (IF s.seldb = d THEN <<>> ELSE <<Select(d)>>) /\ b = <<Command(w)>>
    OBVIOUS
  <2>4. a \in Seq(Cmd) /\ b \in Seq(Cmd)
    BY <2>2, <2>3
  <2>5. cmds = a \o b
    BY <1>5, <2>3
  <2> QED BY <2>4, <2>5
<1>9. s.backlog = n.backlog /\ n.rstate = "none"
  BY <1>2, <1>4 DEF State, NodeOK, NodeBase
<1>10. CASE n.backlog # Nothing
  <2>1. PICK keep \in Kept(Len(n.backlog.buf) + Len(cmds)) :
            /\ node' = [node EXCEPT ![m] = [FeedBuffer(s, cmds, keep) EXCEPT !.seldb = d]]
            /\ conn' = FeedSlaves(conn, m, cmds)
    <3>1. s.backlog.present
      BY <1>2, <1>9, <1>10, PresentFields
    <3>2. \E keep \in Kept(Len(s.backlog.buf) + Len(cmds)) :
              /\ node' = [node EXCEPT ![m] = [FeedBuffer(s, cmds, keep) EXCEPT !.seldb = d]]
              /\ conn' = FeedSlaves(conn, m, cmds)
      BY <1>1, <1>4, <1>5, <3>1 DEF Write
    <3> QED BY <1>9, <3>2
  <2>2. PICK t : t = Fed(n, x, cmds, keep, d)
    OBVIOUS
  <2>3. node' = [node EXCEPT ![m] = t]
    <3>1. [FeedBuffer(s, cmds, keep) EXCEPT !.seldb = d] = t
      BY <1>2, <1>4, <2>2, FeedBufferFields DEF Fed, State
    <3> QED BY <2>1, <3>1
  <2>4. /\ NodeOK(m, t, ids) /\ t.rstate = "none" /\ t.replid = n.replid
        /\ t.off = n.off + Len(cmds) /\ t.child = n.child /\ t.backlog # Nothing
    BY <1>2, <1>7, <1>8, <1>10, <2>2, FedOK
  <2>5. ConnOK(t, conn[m], node[conn[m].to], ids)
    BY <1>2, <1>9, <2>4 DEF ConnOK, Attempts
  <2>6. Good(node', [FeedSlaves(conn, m, cmds) EXCEPT ![m] = conn[m]], ids)
    BY <1>1, <1>2, <1>8, <2>3, <2>4, <2>5, OneNodeFed
  <2>7. conn' = [FeedSlaves(conn, m, cmds) EXCEPT ![m] = conn[m]]
    BY <1>2, <2>1, OwnConn
  <2> QED BY <1>2, <1>3, <2>6, <2>7 DEF Inv
<1>11. CASE n.backlog = Nothing
  <2>1. node' = [node EXCEPT ![m] = s] /\ conn' = conn
    <3>1. ~s.backlog.present
      BY <1>2, <1>9, <1>11, PresentFields
    <3> QED BY <1>1, <1>4, <3>1 DEF Write
  <2>2. s \in State(ids)
    BY <1>2, <1>4, <1>7 DEF State
  <2>3. /\ s.off = n.off /\ s.replid = n.replid /\ s.child = n.child /\ s.rstate = n.rstate
        /\ s.masterhost = n.masterhost /\ s.master = n.master /\ s.cached = n.cached
        /\ s.failover = n.failover
    BY <1>2, <1>4 DEF State
  <2>4. NodeOK(m, s, ids) /\ SameForSlaves(n, s)
    BY <1>2, <1>9, <2>2, <2>3 DEF NodeOK, NodeBase, SameForSlaves
  <2>5. ConnOK(s, conn[m], node[conn[m].to], ids)
    BY <1>2, <1>9, <2>3 DEF ConnOK, Attempts
  <2>6. Good(node', [conn EXCEPT ![m] = conn[m]], ids)
    BY <1>1, <1>2, <2>1, <2>4, <2>5, OneNodeKept
  <2>7. conn' = [conn EXCEPT ![m] = conn[m]]
    BY <1>2, <2>1, OwnConn
  <2> QED BY <1>2, <1>3, <2>6, <2>7 DEF Inv
<1> QED BY <1>10, <1>11

\* REPLICAOF preserves the invariant.
LEMMA ReplicaOfStep ==
    ASSUME Inv, NEW n \in Server, NEW h \in Server, ReplicaOf(n, h)
    PROVE  Inv'
<1>1. PICK s, t : s = node[n] /\ t = SetMaster(s, h)
  OBVIOUS
<1>2. /\ ids \in Nat /\ ids <= ids /\ NodeOK(n, s, ids) /\ Good(node, conn, ids)
      /\ used \in [Counters -> Nat] /\ rdb \in [Server -> Maybe(File(ids))]
  BY <1>1, Known DEF Inv
<1>3. used' \in [Counters -> Nat] /\ rdb' = rdb /\ ids' = ids
  <2>1. Use("admin", MaxAdmin) /\ rdb' = rdb /\ ids' = ids
    BY DEF ReplicaOf
  <2>2. "admin" \in Counters
    BY DEF Counters
  <2> QED BY <1>2, <2>1, <2>2, UseOK
<1>4. /\ h # n /\ s.failover = "none"
      /\ node' = [node EXCEPT ![n] = t] /\ conn' = [conn EXCEPT ![n] = NoConn]
  BY <1>1 DEF ReplicaOf
<1>5. NodeBase(n, t, ids) /\ SameForSlaves(s, t) /\ t.rstate = "connect" /\ t.failover = "none"
  BY <1>1, <1>2, <1>4, SetMasterOK DEF NodeOK
<1>6. NodeOK(n, t, ids) /\ ConnOK(t, NoConn, node[NoConn.to], ids)
  BY <1>2, <1>5, NoConnOK DEF NodeOK, Attempts
<1>7. Good(node', conn', ids)
  BY <1>1, <1>2, <1>4, <1>5, <1>6, OneNodeKept
<1> QED BY <1>2, <1>3, <1>7 DEF Inv

\* A PING of replicationCron preserves the invariant.
LEMMA PingSlavesStep ==
    ASSUME Inv, NEW m \in Server, PingSlaves(m)
    PROVE  Inv'
<1>1. PICK n, cmds : n = node[m] /\ cmds = <<Ping>>
  OBVIOUS
<1>2. /\ ids \in Nat /\ n \in State(ids) /\ NodeOK(m, n, ids) /\ Good(node, conn, ids)
      /\ conn[m].to # m /\ ConnOK(n, conn[m], node[conn[m].to], ids) /\ n.masterhost = NoServer
      /\ used \in [Counters -> Nat] /\ rdb \in [Server -> Maybe(File(ids))]
      /\ conn \in [Server -> Conn(ids)]
  BY <1>1, Known DEF Inv, PingSlaves, Good
<1>3. used' \in [Counters -> Nat] /\ rdb' = rdb /\ ids' = ids
  <2>1. Use("write", MaxWrites) /\ rdb' = rdb /\ ids' = ids
    BY DEF PingSlaves
  <2>2. "write" \in Counters
    BY DEF Counters
  <2> QED BY <1>2, <2>1, <2>2, UseOK
<1>4. cmds \in Seq(Cmd) /\ Len(cmds) = 1
  <2>1. Ping \in Cmd
    BY DEF Ping, Cmd
  <2> QED BY <1>1, <2>1
<1>5. n.backlog # Nothing
  <2>1. PICK r \in Server : conn[r].to = m /\ conn[r].open
    BY DEF PingSlaves, Slaves
  <2> QED BY <1>1, <1>2, <2>1, Reached
<1>6. PICK keep \in Kept(Len(n.backlog.buf) + 1) :
          node' = [node EXCEPT ![m] = FeedBuffer(n, cmds, keep)]
  BY <1>1 DEF PingSlaves
<1>7. PICK t : t = FeedBuffer(n, cmds, keep)
  OBVIOUS
<1>8. t = Fed(n, n.data, cmds, keep, n.seldb)
  BY <1>2, <1>7, FeedBufferFields DEF Fed, State
<1>9. /\ NodeOK(m, t, ids) /\ t.rstate = "none" /\ t.replid = n.replid
      /\ t.off = n.off + Len(cmds) /\ t.child = n.child /\ t.backlog # Nothing
  <2>1. n.data \in Data /\ n.seldb \in Dbs \cup {NoDb}
    BY <1>2 DEF State
  <2>2. keep \in Kept(Len(n.backlog.buf) + Len(cmds))
    BY <1>4, <1>6
  <2>3. cmds \in Seq(Cmd)
    BY <1>4
  <2> QED BY <1>2, <1>5, <1>8, <2>1, <2>2, <2>3, FedOK
<1>10. ConnOK(t, conn[m], node[conn[m].to], ids)
  BY <1>2, <1>9 DEF ConnOK, Attempts, NodeOK, NodeBase
<1>11. Good(node', [FeedSlaves(conn, m, cmds) EXCEPT ![m] = conn[m]], ids)
  BY <1>1, <1>2, <1>4, <1>6, <1>7, <1>9, <1>10, OneNodeFed
<1>12. conn' = [FeedSlaves(conn, m, cmds) EXCEPT ![m] = conn[m]]
  <2>1. conn' = FeedSlaves(conn, m, cmds)
    BY <1>1 DEF PingSlaves
  <2> QED BY <1>2, <2>1, OwnConn
<1> QED BY <1>2, <1>3, <1>11, <1>12 DEF Inv

\* More IDs are drawn, and the files on disk are no worse for it.
LEMMA FilesStay ==
    ASSUME ids \in Nat, rdb \in [Server -> Maybe(File(ids))], NEW j \in Nat, ids <= j
    PROVE  rdb \in [Server -> Maybe(File(j))]
<1>1. File(ids) \subseteq File(j)
  BY MoreIds
<1> QED BY <1>1 DEF Maybe

\* REPLICAOF NO ONE preserves the invariant.
LEMMA ReplicaOfNoOneStep ==
    ASSUME Inv, NEW n \in Server, ReplicaOfNoOne(n)
    PROVE  Inv'
<1>1. PICK s, t, j : s = node[n] /\ t = UnsetMaster(s, j) /\ j = ids + 1
  OBVIOUS
<1>2. /\ ids \in Nat /\ NodeOK(n, s, ids) /\ Good(node, conn, ids)
      /\ used \in [Counters -> Nat] /\ rdb \in [Server -> Maybe(File(ids))]
  BY <1>1, Known DEF Inv
<1>3. used' \in [Counters -> Nat] /\ rdb' = rdb /\ ids' = j
  <2>1. Use("admin", MaxAdmin) /\ rdb' = rdb /\ ids' = j
    BY <1>1 DEF ReplicaOfNoOne
  <2>2. "admin" \in Counters
    BY DEF Counters
  <2> QED BY <1>2, <2>1, <2>2, UseOK
<1>4. /\ s.failover = "none"
      /\ node' = [node EXCEPT ![n] = t] /\ conn' = [DisconnectSlaves(conn, n) EXCEPT ![n] = NoConn]
  BY <1>1 DEF ReplicaOfNoOne
<1>5. j \in Nat /\ ids <= j /\ j \in 1 .. j
  BY <1>1, <1>2
<1>6. NodeBase(n, t, j) /\ t.rstate = "none" /\ t.failover = "none"
  BY <1>1, <1>2, <1>4, <1>5, UnsetMasterOK DEF NodeOK
<1>7. NodeOK(n, t, j) /\ ConnOK(t, NoConn, node[NoConn.to], j)
  BY <1>5, <1>6, NoConnOK DEF NodeOK, Attempts
<1>8. Good(node', conn', j)
  BY <1>2, <1>4, <1>5, <1>7, OneNodeClosed
<1> QED BY <1>2, <1>3, <1>5, <1>8, FilesStay DEF Inv

\* An RDB file for persistence preserves the invariant.
LEMMA SaveStep ==
    ASSUME Inv, NEW n \in Server, Save(n)
    PROVE  Inv'
<1>1. /\ ids \in Nat /\ NodeOK(n, node[n], ids) /\ Good(node, conn, ids)
      /\ used \in [Counters -> Nat] /\ rdb \in [Server -> Maybe(File(ids))]
  BY Known DEF Inv
<1>2. /\ Use("save", MaxSaves) /\ node' = node /\ conn' = conn /\ ids' = ids
      /\ rdb' = [rdb EXCEPT ![n] = SnapshotOf(node[n])]
  BY DEF Save
<1>3. used' \in [Counters -> Nat]
  <2>1. "save" \in Counters
    BY DEF Counters
  <2> QED BY <1>1, <1>2, <2>1, UseOK
<1>4. SnapshotOf(node[n]) \in Maybe(File(ids))
  BY <1>1, SnapshotOK DEF Maybe
<1>5. rdb' \in [Server -> Maybe(File(ids))]
  BY <1>1, <1>2, <1>4
<1> QED BY <1>1, <1>2, <1>3, <1>5 DEF Inv

\* A restart from the RDB file preserves the invariant.
LEMMA RestartStep ==
    ASSUME Inv, NEW n \in Server, Restart(n)
    PROVE  Inv'
<1>1. PICK j, file : /\ j = ids + 1
                     /\ file = IF rdb[n].present THEN rdb[n] ELSE Snapshot(<<>>, NoId, 0, NoDb)
  OBVIOUS
<1>2. /\ ids \in Nat /\ NodeOK(n, node[n], ids) /\ Good(node, conn, ids)
      /\ used \in [Counters -> Nat] /\ rdb \in [Server -> Maybe(File(ids))]
  BY Known DEF Inv
<1>3. used' \in [Counters -> Nat] /\ rdb' = rdb /\ ids' = j
  <2>1. Use("restart", MaxRestarts) /\ rdb' = rdb /\ ids' = j
    BY <1>1 DEF Restart
  <2>2. "restart" \in Counters
    BY DEF Counters
  <2> QED BY <1>2, <2>1, <2>2, UseOK
<1>4. j \in Nat /\ ids <= j /\ j \in 1 .. j
  BY <1>1, <1>2
<1>5. file \in BootFile(j)
  <2>1. CASE rdb[n] # Nothing
    <3>1. rdb[n] \in File(ids)
      BY <1>2, <2>1 DEF Maybe
    <3>2. rdb[n].present
      BY <1>2, <3>1, Present
    <3>3. rdb[n] \in File(j)
      BY <1>2, <1>4, <3>1, MoreIds
    <3>4. 1 .. j \subseteq 0 .. j
      BY <1>4
    <3> QED BY <1>1, <3>2, <3>3, <3>4 DEF File, BootFile
  <2>2. CASE rdb[n] = Nothing
    <3>1. PICK e : e = <<>>
      OBVIOUS
    <3>2. <<>> \in Data /\ NoId \in 0 .. j /\ NoDb \in Int
      BY <1>4 DEF Data, NoId, NoDb
    <3>3. file = [present |-> TRUE, data |-> e, id |-> NoId, off |-> 0, db |-> NoDb]
      BY <1>1, <2>2, <3>1 DEF Nothing, Snapshot
    <3>4. e \in Data
      BY <3>1, <3>2, Zenon
    <3> QED BY <3>2, <3>3, <3>4 DEF BootFile
  <2> QED BY <2>1, <2>2
<1>6. PICK t : /\ node' = [node EXCEPT ![n] = t] /\ NodeOK(n, t, j) /\ ~Attempts(t)
  <2>1. CASE node' = [node EXCEPT ![n] = BootMaster(Fresh(j, NoServer), file, NoDels)]
    <3>1. NoDels \in Deletions
      <4>1. PICK e : e = <<>>
        OBVIOUS
      <4>2. <<>> \in Data /\ <<>> \in Seq(Cmd)
        BY DEF Data
      <4>3. e \in Data /\ e \in Seq(Cmd)
        BY <4>1, <4>2, Zenon
      <4>4. NoDels = [data |-> e, cmds |-> e, db |-> NoDb]
        BY <4>1 DEF NoDels
      <4> QED BY <4>3, <4>4 DEF Deletions
    <3> QED BY <1>4, <1>5, <2>1, <3>1, BootMasterOK
  <2>2. ASSUME NEW d \in Dbs,
               node' = [node EXCEPT ![n] =
                           BootMaster(Fresh(j, NoServer), file, Dels(MaxWrites + ids, d))]
        PROVE  \E t : /\ node' = [node EXCEPT ![n] = t] /\ NodeOK(n, t, j) /\ ~Attempts(t)
    <3>1. PICK w : w = MaxWrites + ids
      OBVIOUS
    <3>2. w \in Nat /\ d \in Nat /\ d \in Int
      BY <1>2, <3>1, ReplAssumption
    <3>3. Dels(w, d) \in Deletions
      <4>1. <<w, d>> \in Nat \X Int /\ Select(d) \in Cmd /\ Command(w) \in Cmd
        BY <3>2 DEF Select, Command, Cmd
      <4>2. << <<w, d>> >> \in Data /\ <<Select(d), Command(w)>> \in Seq(Cmd)
        BY <4>1 DEF Data
      <4>3. PICK x, c : x = << <<w, d>> >> /\ c = <<Select(d), Command(w)>>
        OBVIOUS
      <4>4. Dels(w, d) = [data |-> x, cmds |-> c, db |-> d]
        BY <4>3 DEF Dels
      <4>5. x \in Data /\ c \in Seq(Cmd)
        BY <4>2, <4>3, Zenon
      <4> QED BY <4>4, <4>5 DEF Deletions
    <3> QED BY <1>4, <1>5, <2>2, <3>1, <3>3, BootMasterOK
  <2>3. CASE /\ node[n].masterhost # NoServer
             /\ node' = [node EXCEPT ![n] = BootReplica(Fresh(j, node[n].masterhost), file)]
    <3>1. PICK h : h = node[n].masterhost
      OBVIOUS
    <3>2. h \in Server /\ h # n
      BY <1>2, <2>3, <3>1 DEF NodeOK, NodeBase, State
    <3>3. PICK t : t = BootReplica(Fresh(j, h), file)
      OBVIOUS
    <3>4. NodeOK(n, t, j) /\ ~Attempts(t)
      BY <1>4, <1>5, <3>2, <3>3, BootReplicaOK
    <3> QED BY <2>3, <3>1, <3>3, <3>4
  <2> QED BY <1>1, <2>1, <2>2, <2>3 DEF Restart
<1>7. conn' = [DisconnectSlaves(conn, n) EXCEPT ![n] = NoConn]
  BY DEF Restart
<1>8. ConnOK(t, NoConn, node[NoConn.to], j)
  BY <1>4, <1>6, NoConnOK
<1>9. Good(node', conn', j)
  BY <1>2, <1>4, <1>6, <1>7, <1>8, OneNodeClosed
<1> QED BY <1>2, <1>3, <1>4, <1>9, FilesStay DEF Inv

\* Reading +FULLRESYNC preserves the invariant.
LEMMA ReceiveFullResyncStep ==
    ASSUME Inv, NEW r \in Server, ReceiveFullResync(r)
    PROVE  Inv'
<1>1. PICK s, c, m, msg : s = node[r] /\ c = conn[r] /\ m = node[conn[r].to] /\ msg = Head(conn[r].q)
  OBVIOUS
<1>2. /\ ids \in Nat /\ ids <= ids /\ NodeOK(r, s, ids) /\ Good(node, conn, ids)
      /\ ConnOK(s, c, m, ids) /\ c \in Conn(ids) /\ (Attempts(s) => m.off \in Nat)
      /\ used \in [Counters -> Nat] /\ rdb \in [Server -> Maybe(File(ids))]
  BY <1>1, Known DEF Inv
<1>3. c.q # <<>> /\ msg.op = "fullresync" /\ msg = Head(c.q)
  BY <1>1 DEF ReceiveFullResync, Receives
<1>4. m.off \in Nat
  BY <1>2, <1>3, HeadPhase
<1>5. PICK t : t = Transferring(s, msg)
  OBVIOUS
<1>6. /\ s.rstate = "receive_psync" /\ msg \in FullMsg(ids)
      /\ (t.rstate = "transfer" /\ t.masterhost = s.masterhost /\ t.sync = msg
            => ConnOK(t, Read(c), m, ids))
  BY <1>2, <1>3, <1>4, ReadFullResync
<1>7. /\ NodeOK(r, t, ids) /\ SameForSlaves(s, t) /\ t.rstate = "transfer"
      /\ t.masterhost = s.masterhost /\ t.sync = msg
  BY <1>2, <1>5, <1>6, TransferOK
<1>8. /\ node' = [node EXCEPT ![r] = t] /\ conn' = [conn EXCEPT ![r] = Read(c)]
      /\ rdb' = rdb /\ ids' = ids /\ used' = used
  BY <1>1, <1>5 DEF ReceiveFullResync, Transferring, Read
<1>9. ConnOK(t, Read(c), node[Read(c).to], ids)
  <2>1. Read(c).to = c.to
    BY <1>2, <1>3, ReadOK
  <2> QED BY <1>1, <1>6, <1>7, <2>1
<1>10. Good(node', conn', ids)
  BY <1>1, <1>2, <1>7, <1>8, <1>9, OneNodeKept
<1> QED BY <1>2, <1>8, <1>10 DEF Inv

\* Loading the file preserves the invariant.
LEMMA ReceiveRdbStep ==
    ASSUME Inv, NEW r \in Server, ReceiveRdb(r)
    PROVE  Inv'
<1>1. PICK s, c, m, msg : s = node[r] /\ c = conn[r] /\ m = node[conn[r].to] /\ msg = Head(conn[r].q)
  OBVIOUS
<1>2. /\ ids \in Nat /\ ids <= ids /\ NodeOK(r, s, ids) /\ Good(node, conn, ids)
      /\ ConnOK(s, c, m, ids) /\ c \in Conn(ids) /\ (Attempts(s) => m.off \in Nat)
      /\ used \in [Counters -> Nat] /\ rdb \in [Server -> Maybe(File(ids))]
      /\ conn \in [Server -> Conn(ids)] /\ conn[r].to # r /\ s \in State(ids)
  BY <1>1, Known DEF Inv, Good
<1>3. c.q # <<>> /\ msg.op = "rdb" /\ msg = Head(c.q)
  BY <1>1 DEF ReceiveRdb, Receives
<1>4. m.off \in Nat /\ ReadsFile(s, c, m, ids) /\ c.to = s.masterhost
  BY <1>2, <1>3, HeadPhase
<1>5. PICK file, t : file = msg.file /\ t = Loaded(s, file)
  OBVIOUS
<1>6. /\ s.rstate = "transfer" /\ s.sync # Nothing /\ file \in File(ids)
      /\ c.st = "online" /\ c.out = <<>> /\ CommandsFrom(c.q, 2)
      /\ Ends(c, m, s.sync.id, s.sync.off, 1) /\ s.sync.off \in Nat
  <2>1. c.q \in Seq(Msg(ids))
    BY <1>2 DEF Conn
  <2>2. Head(c.q) = c.q[1]
    BY <1>3, <2>1, Tails
  <2>3. msg \in RdbMsg(ids) /\ s.sync # Nothing
    BY <1>3, <1>4, <2>2 DEF ReadsFile
  <2>4. file \in File(ids)
    BY <1>5, <2>3 DEF RdbMsg
  <2>5. s.sync.off \in Nat
    BY <1>2, <2>3, PresentFields DEF FullMsg
  <2> QED BY <1>4, <2>4, <2>5 DEF ReadsFile
<1>7. /\ NodeOK(r, t, ids) /\ t.rstate = "connected" /\ t.masterhost = s.masterhost
      /\ t.replid = s.sync.id /\ t.off = s.sync.off
  BY <1>2, <1>5, <1>6, LoadedOK
<1>8. ConnOK(t, Read(c), m, ids)
  BY <1>2, <1>3, <1>4, <1>6, <1>7, ReadStreams
<1>9. /\ node' = [node EXCEPT ![r] = t] /\ rdb' = [rdb EXCEPT ![r] = file]
      /\ conn' = [DisconnectSlaves(conn, r) EXCEPT ![r].q = Tail(@)]
      /\ ids' = ids /\ used' = used
  BY <1>1, <1>5 DEF ReceiveRdb, Loaded
<1>10. conn' = [DisconnectSlaves(conn, r) EXCEPT ![r] = Read(c)]
  <2>1. DisconnectSlaves(conn, r)[r] = c
    BY <1>1, <1>2, OwnConn
  <2> QED BY <1>9, <2>1 DEF Read
<1>11. ConnOK(t, Read(c), node[Read(c).to], ids)
  <2>1. Read(c).to = c.to
    BY <1>2, <1>3, ReadOK
  <2> QED BY <1>1, <1>8, <2>1
<1>12. Good(node', conn', ids)
  <2>1. node' = [node EXCEPT ![r] = t]
    BY <1>9
  <2> QED BY <1>2, <1>7, <1>10, <1>11, <2>1, OneNodeClosed
<1>13. rdb' \in [Server -> Maybe(File(ids))]
  BY <1>2, <1>6, <1>9 DEF Maybe
<1> QED BY <1>2, <1>9, <1>12, <1>13 DEF Inv

\* A load that fails preserves the invariant.
LEMMA LoadFailsStep ==
    ASSUME Inv, NEW r \in Server, LoadFails(r)
    PROVE  Inv'
<1>1. PICK s, c, m, msg : s = node[r] /\ c = conn[r] /\ m = node[conn[r].to] /\ msg = Head(conn[r].q)
  OBVIOUS
<1>2. /\ ids \in Nat /\ ids <= ids /\ NodeOK(r, s, ids) /\ Good(node, conn, ids)
      /\ ConnOK(s, c, m, ids) /\ c \in Conn(ids)
      /\ used \in [Counters -> Nat] /\ rdb \in [Server -> Maybe(File(ids))]
  BY <1>1, Known DEF Inv, Good
<1>3. c.q # <<>> /\ msg.op = "rdb" /\ msg = Head(c.q)
  BY <1>1 DEF LoadFails, Receives
<1>4. ReadsFile(s, c, m, ids)
  BY <1>2, <1>3, HeadPhase
<1>5. PICK file, t : file = msg.file /\ t = NotLoaded(s)
  OBVIOUS
<1>6. s.rstate = "transfer" /\ file \in File(ids)
  <2>1. c.q \in Seq(Msg(ids))
    BY <1>2 DEF Conn
  <2>2. Head(c.q) = c.q[1]
    BY <1>3, <2>1, Tails
  <2>3. msg \in RdbMsg(ids) /\ s.rstate = "transfer"
    BY <1>3, <1>4, <2>2 DEF ReadsFile
  <2> QED BY <1>5, <2>3 DEF RdbMsg
<1>7. NodeOK(r, t, ids) /\ t.rstate = "connect"
  BY <1>2, <1>5, <1>6, NotLoadedOK
<1>8. ConnOK(t, NoConn, node[NoConn.to], ids)
  BY <1>2, <1>7, NoConnOK DEF Attempts
<1>9. /\ node' = [node EXCEPT ![r] = t] /\ (rdb' = rdb \/ rdb' = [rdb EXCEPT ![r] = file])
      /\ conn' = [DisconnectSlaves(conn, r) EXCEPT ![r] = NoConn]
      /\ ids' = ids /\ Use("fault", MaxFaults)
  BY <1>1, <1>5 DEF LoadFails, NotLoaded
<1>10. Good(node', conn', ids)
  BY <1>2, <1>7, <1>8, <1>9, OneNodeClosed
<1>11. rdb' \in [Server -> Maybe(File(ids))]
  BY <1>2, <1>6, <1>9 DEF Maybe
<1>12. used' \in [Counters -> Nat]
  <2>1. "fault" \in Counters
    BY DEF Counters
  <2> QED BY <1>2, <1>9, <2>1, UseOK
<1> QED BY <1>2, <1>9, <1>10, <1>11, <1>12 DEF Inv

\* Reading +CONTINUE preserves the invariant.
LEMMA ReceiveContinueStep ==
    ASSUME Inv, NEW r \in Server, ReceiveContinue(r)
    PROVE  Inv'
<1>1. PICK s, c, m, msg : s = node[r] /\ c = conn[r] /\ m = node[conn[r].to] /\ msg = Head(conn[r].q)
  OBVIOUS
<1>2. /\ ids \in Nat /\ ids <= ids /\ NodeOK(r, s, ids) /\ Good(node, conn, ids)
      /\ ConnOK(s, c, m, ids) /\ c \in Conn(ids) /\ (Attempts(s) => m.off \in Nat)
      /\ used \in [Counters -> Nat] /\ rdb \in [Server -> Maybe(File(ids))]
      /\ conn \in [Server -> Conn(ids)] /\ conn[r].to # r /\ s \in State(ids)
  BY <1>1, Known DEF Inv, Good
<1>3. c.q # <<>> /\ msg.op = "continue" /\ msg = Head(c.q)
  BY <1>1 DEF ReceiveContinue, Receives
<1>4. m.off \in Nat /\ ContinueAhead(s, c, m, ids) /\ c.to = s.masterhost
  BY <1>2, <1>3, HeadPhase
<1>5. PICK id, t : id = msg.id /\ t = Resume(s, id)
  OBVIOUS
<1>6. /\ s.rstate = "receive_psync" /\ s.cached # Nothing /\ id \in 1 .. ids
      /\ c.st = "online" /\ c.out = <<>> /\ CommandsFrom(c.q, 2)
      /\ Ends(c, m, id, s.off, 1) /\ s.off \in Nat
  <2>1. c.q \in Seq(Msg(ids))
    BY <1>2 DEF Conn
  <2>2. Head(c.q) = c.q[1]
    BY <1>3, <2>1, Tails
  <2>3. msg \in ContinueMsg(ids) /\ Ends(c, m, msg.id, s.off, 1)
    BY <1>3, <1>4, <2>2 DEF ContinueAhead
  <2>4. id \in 1 .. ids
    BY <1>5, <2>3 DEF ContinueMsg
  <2>5. s.off \in Nat
    BY <1>2 DEF State
  <2> QED BY <1>4, <1>5, <2>3, <2>4, <2>5 DEF ContinueAhead
<1>7. /\ NodeOK(r, t, ids) /\ t.rstate = "connected" /\ t.masterhost = s.masterhost
      /\ t.replid = id /\ t.off = s.off /\ t.child = s.child /\ t.backlog # Nothing
  BY <1>2, <1>5, <1>6, ResumeOK
<1>8. ConnOK(t, Read(c), m, ids)
  BY <1>2, <1>3, <1>4, <1>6, <1>7, ReadStreams
<1>9. /\ node' = [node EXCEPT ![r] = t] /\ rdb' = rdb /\ ids' = ids /\ used' = used
      /\ conn' = [(IF id # s.cached.id THEN DisconnectSlaves(conn, r) ELSE conn)
                    EXCEPT ![r].q = Tail(@)]
  BY <1>1, <1>5 DEF ReceiveContinue
<1>10. ConnOK(t, Read(c), node[Read(c).to], ids)
  <2>1. Read(c).to = c.to
    BY <1>2, <1>3, ReadOK
  <2> QED BY <1>1, <1>8, <2>1
<1>11. CASE id # s.cached.id
  <2>1. conn' = [DisconnectSlaves(conn, r) EXCEPT ![r] = Read(c)]
    <3>1. DisconnectSlaves(conn, r)[r] = c
      BY <1>1, <1>2, OwnConn
    <3> QED BY <1>9, <1>11, <3>1 DEF Read
  <2>2. node' = [node EXCEPT ![r] = t]
    BY <1>9
  <2>3. Good(node', conn', ids)
    BY <1>2, <1>7, <1>10, <2>1, <2>2, OneNodeClosed
  <2> QED BY <1>2, <1>9, <2>3 DEF Inv
<1>12. CASE id = s.cached.id
  <2>1. conn' = [conn EXCEPT ![r] = Read(c)]
    BY <1>1, <1>9, <1>12 DEF Read
  <2>2. SameForSlaves(s, t)
    <3>1. s.cached.id = s.replid
      BY <1>2, <1>6 DEF NodeOK, NodeBase
    <3> QED BY <1>7, <1>12, <3>1 DEF SameForSlaves
  <2>3. node' = [node EXCEPT ![r] = t]
    BY <1>9
  <2>4. Good(node', conn', ids)
    BY <1>1, <1>2, <1>7, <1>10, <2>1, <2>2, <2>3, OneNodeKept
  <2> QED BY <1>2, <1>9, <2>4 DEF Inv
<1> QED BY <1>11, <1>12

\* Executing a command of the stream preserves the invariant.
LEMMA ReceiveCommandStep ==
    ASSUME Inv, NEW r \in Server, ReceiveCommand(r)
    PROVE  Inv'
<1>1. PICK s, c, m, cmd : s = node[r] /\ c = conn[r] /\ m = node[conn[r].to] /\ cmd = Head(conn[r].q)
  OBVIOUS
<1>2. /\ ids \in Nat /\ ids <= ids /\ NodeOK(r, s, ids) /\ Good(node, conn, ids)
      /\ ConnOK(s, c, m, ids) /\ c \in Conn(ids) /\ (Attempts(s) => m.off \in Nat)
      /\ used \in [Counters -> Nat] /\ rdb \in [Server -> Maybe(File(ids))]
      /\ conn \in [Server -> Conn(ids)] /\ conn[r].to # r /\ s \in State(ids)
  BY <1>1, Known DEF Inv, Good
<1>3. c.q # <<>> /\ IsCommand(cmd) /\ cmd = Head(c.q)
  BY <1>1 DEF ReceiveCommand
<1>4. m.off \in Nat /\ Streams(s, c, m) /\ c.to = s.masterhost /\ cmd \in Cmd
  BY <1>2, <1>3, HeadPhase
<1>5. /\ s.rstate = "connected" /\ c.st = "online" /\ c.out = <<>> /\ CommandsFrom(c.q, 1)
      /\ Ends(c, m, s.replid, s.off, 0) /\ s.off \in Nat
  BY <1>2, <1>4 DEF Streams, State
<1>6. PICK keep \in Kept(Len(s.backlog.buf) + 1) :
          node' = [node EXCEPT ![r] = FeedBuffer(Execute(s, cmd), <<cmd>>, keep)]
  BY <1>1 DEF ReceiveCommand
<1>7. PICK t, cmds : t = FeedBuffer(Execute(s, cmd), <<cmd>>, keep) /\ cmds = <<cmd>>
  OBVIOUS
<1>8. /\ NodeOK(r, t, ids) /\ t.rstate = "connected" /\ t.masterhost = s.masterhost
      /\ t.replid = s.replid /\ t.off = s.off + 1 /\ t.child = s.child /\ t.backlog # Nothing
  BY <1>2, <1>4, <1>5, <1>6, <1>7, ExecuteOK
<1>9. ConnOK(t, Read(c), m, ids)
  BY <1>2, <1>3, <1>4, <1>5, <1>8, ReadStreams
<1>10. /\ node' = [node EXCEPT ![r] = t] /\ rdb' = rdb /\ ids' = ids /\ used' = used
       /\ conn' = [FeedSlaves(conn, r, cmds) EXCEPT ![r].q = Tail(@)]
  BY <1>1, <1>6, <1>7 DEF ReceiveCommand
<1>11. conn' = [FeedSlaves(conn, r, cmds) EXCEPT ![r] = Read(c)]
  <2>1. FeedSlaves(conn, r, cmds)[r] = c
    BY <1>1, <1>2, OwnConn
  <2> QED BY <1>10, <2>1 DEF Read
<1>12. ConnOK(t, Read(c), node[Read(c).to], ids)
  <2>1. Read(c).to = c.to
    BY <1>2, <1>3, ReadOK
  <2> QED BY <1>1, <1>9, <2>1
<1>13. cmds \in Seq(Cmd) /\ t.off = s.off + Len(cmds)
  <2>1. cmds \in Seq(Cmd) /\ Len(cmds) = 1
    BY <1>4, <1>7
  <2> QED BY <1>8, <2>1
<1>14. Good(node', conn', ids)
  <2>1. node' = [node EXCEPT ![r] = t]
    BY <1>10
  <2> QED BY <1>1, <1>2, <1>8, <1>11, <1>12, <1>13, <2>1, OneNodeFed
<1> QED BY <1>2, <1>10, <1>14 DEF Inv

\* A lost link preserves the invariant.
LEMMA LinkDownStep ==
    ASSUME Inv, NEW r \in Server, LinkDown(r)
    PROVE  Inv'
<1>1. PICK s, j : s = node[r] /\ j = ids + 1
  OBVIOUS
<1>2. /\ ids \in Nat /\ ids <= ids /\ NodeOK(r, s, ids) /\ Good(node, conn, ids)
      /\ used \in [Counters -> Nat] /\ rdb \in [Server -> Maybe(File(ids))]
      /\ ConnOK(s, conn[r], node[conn[r].to], ids)
  BY <1>1, Known DEF Inv
<1>3. Attempts(s) /\ rdb' = rdb
  BY <1>1, <1>2 DEF LinkDown, ConnOK, Idle
<1>4. used' \in [Counters -> Nat]
  <2>1. used' = used \/ Use("fault", MaxFaults)
    BY DEF LinkDown
  <2>2. "fault" \in Counters
    BY DEF Counters
  <2> QED BY <1>2, <2>1, <2>2, UseOK
<1>5. CASE s.failover = "progress"
  <2>1. PICK t : t = Aborted(s, j)
    OBVIOUS
  <2>2. /\ node' = [node EXCEPT ![r] = t] /\ ids' = j
        /\ conn' = [DisconnectSlaves(conn, r) EXCEPT ![r] = NoConn]
    BY <1>1, <1>5, <2>1 DEF LinkDown
  <2>3. j \in Nat /\ ids <= j /\ StepsUp(s)
    BY <1>1, <1>2, <1>3, <1>5 DEF StepsUp, NodeOK, NodeBase, Attempts
  <2>4. NodeOK(r, t, j) /\ t.rstate = "none"
    BY <1>1, <1>2, <2>1, <2>3, AbortedOK DEF NodeOK
  <2>5. ConnOK(t, NoConn, node[NoConn.to], j)
    BY <2>3, <2>4, NoConnOK DEF Attempts
  <2>6. Good(node', conn', j)
    BY <1>2, <2>2, <2>3, <2>4, <2>5, OneNodeClosed
  <2> QED BY <1>2, <1>3, <1>4, <2>2, <2>3, <2>6, FilesStay DEF Inv
<1>6. CASE s.failover # "progress"
  <2>1. PICK t : t = [CacheMaster(s) EXCEPT !.rstate = "connect", !.sync = Nothing]
    OBVIOUS
  <2>2. node' = [node EXCEPT ![r] = t] /\ ids' = ids /\ conn' = [conn EXCEPT ![r] = NoConn]
    BY <1>1, <1>6, <2>1 DEF LinkDown
  <2>3. NodeOK(r, t, ids) /\ SameForSlaves(s, t) /\ t.rstate = "connect"
    BY <1>2, <1>3, <2>1, CacheMasterOK
  <2>4. ConnOK(t, NoConn, node[NoConn.to], ids)
    BY <1>2, <2>3, NoConnOK DEF Attempts
  <2>5. Good(node', conn', ids)
    BY <1>1, <1>2, <2>2, <2>3, <2>4, OneNodeKept
  <2> QED BY <1>2, <1>3, <1>4, <2>2, <2>5 DEF Inv
<1> QED BY <1>5, <1>6

\* An instance that is not connecting keeps its idle connection.
LEMMA IdleOK ==
    ASSUME NEW i \in Nat, NEW j \in Nat, i <= j, NEW s, NEW t, NEW c, NEW m, NEW w,
           ConnOK(s, c, m, i), ~Attempts(s), ~Attempts(t)
    PROVE  ConnOK(t, c, w, j)
<1>1. c \in Conn(j)
  BY MoreIds DEF ConnOK
<1> QED BY <1>1 DEF ConnOK

\* A refused PSYNC FAILOVER makes the sender a master again.
LEMMA PsyncFailoverFailsStep ==
    ASSUME Inv, NEW m \in Server, NEW r \in Server, PsyncFailoverFails(m, r)
    PROVE  Inv'
<1>1. PICK s, j : s = node[r] /\ j = ids + 1
  OBVIOUS
<1>2. /\ ids \in Nat /\ NodeOK(r, s, ids) /\ Good(node, conn, ids)
      /\ used \in [Counters -> Nat] /\ rdb \in [Server -> Maybe(File(ids))]
      /\ ConnOK(s, conn[r], node[conn[r].to], ids)
      /\ conn \in [Server -> Conn(ids)] /\ conn[r].to # r
  BY <1>1, Known DEF Inv, Good
<1>3. PICK t : t = Aborted(s, j)
  OBVIOUS
<1>4. /\ node' = [node EXCEPT ![r] = t] /\ ids' = j /\ rdb' = rdb
      /\ conn' = DisconnectSlaves(conn, r)
      /\ s.rstate = "connect" /\ s.masterhost = m /\ s.failover = "progress"
  BY <1>1, <1>3 DEF PsyncFailoverFails
<1>5. used' \in [Counters -> Nat]
  <2>1. used' = used \/ Use("fault", MaxFaults)
    BY DEF PsyncFailoverFails
  <2>2. "fault" \in Counters
    BY DEF Counters
  <2> QED BY <1>2, <2>1, <2>2, UseOK
<1>6. j \in Nat /\ ids <= j /\ StepsUp(s)
  BY <1>1, <1>2, <1>4, ReplAssumption DEF StepsUp
<1>7. NodeOK(r, t, j) /\ t.rstate = "none"
  BY <1>1, <1>2, <1>3, <1>6, AbortedOK DEF NodeOK
<1>8. ConnOK(t, conn[r], node[conn[r].to], j)
  BY <1>2, <1>4, <1>6, <1>7, IdleOK DEF Attempts
<1>9. conn' = [DisconnectSlaves(conn, r) EXCEPT ![r] = conn[r]]
  BY <1>2, <1>4, OwnConn
<1>10. Good(node', conn', j)
  <2>1. node' = [node EXCEPT ![r] = t]
    BY <1>4
  <2> QED BY <1>2, <1>6, <1>7, <1>8, <1>9, <2>1, OneNodeClosed
<1> QED BY <1>2, <1>4, <1>5, <1>6, <1>10, FilesStay DEF Inv

\* A master without slaves frees its backlog and starts a new history.
LEMMA FreeBacklogStep ==
    ASSUME Inv, NEW m \in Server, FreeBacklog(m)
    PROVE  Inv'
<1>1. PICK s, j : s = node[m] /\ j = ids + 1
  OBVIOUS
<1>2. /\ ids \in Nat /\ NodeOK(m, s, ids) /\ Good(node, conn, ids)
      /\ used \in [Counters -> Nat] /\ rdb \in [Server -> Maybe(File(ids))]
      /\ ConnOK(s, conn[m], node[conn[m].to], ids)
      /\ conn \in [Server -> Conn(ids)] /\ conn[m].to # m
  BY <1>1, Known DEF Inv, Good
<1>3. PICK t : t = NewStart(s, j, Nothing)
  OBVIOUS
<1>4. /\ node' = [node EXCEPT ![m] = t] /\ ids' = j /\ rdb' = rdb /\ conn' = conn
      /\ s.masterhost = NoServer /\ Use("fault", MaxFaults)
      /\ \A r \in Server : ~(conn[r].to = m /\ conn[r].open)
  BY <1>1, <1>3 DEF FreeBacklog, Slaves, NewStart
<1>5. used' \in [Counters -> Nat]
  <2>1. "fault" \in Counters
    BY DEF Counters
  <2> QED BY <1>2, <1>4, <2>1, UseOK
<1>6. j \in Nat /\ ids <= j /\ j \in 1 .. j
  BY <1>1, <1>2
<1>7. NodeOK(m, t, j) /\ t.rstate = "none"
  BY <1>2, <1>3, <1>4, <1>6, NewHistoryOK
<1>8. ConnOK(t, conn[m], node[conn[m].to], j)
  BY <1>2, <1>4, <1>6, <1>7, IdleOK DEF Attempts, NodeOK, NodeBase
<1>9. conn' = [conn EXCEPT ![m] = conn[m]]
  BY <1>2, <1>4, OwnConn
<1>10. Good(node', conn', j)
  <2>1. /\ node' = [node EXCEPT ![m] = t]
        /\ \A r \in Server : ~(conn[r].to = m /\ conn[r].open)
    BY <1>4
  <2> QED BY <1>2, <1>6, <1>7, <1>8, <1>9, <2>1, OneNodeKept
<1> QED BY <1>2, <1>4, <1>5, <1>6, <1>10, FilesStay DEF Inv

\* FAILOVER begins to wait for its target.
LEMMA FailoverStep ==
    ASSUME Inv, NEW m \in Server, NEW g \in Server \cup {NoServer}, Failover(m, g)
    PROVE  Inv'
<1>1. PICK s, t : s = node[m] /\ t = Targeting(s, "wait", g)
  OBVIOUS
<1>2. /\ ids \in Nat /\ ids <= ids /\ NodeOK(m, s, ids) /\ Good(node, conn, ids)
      /\ used \in [Counters -> Nat] /\ rdb \in [Server -> Maybe(File(ids))]
      /\ ConnOK(s, conn[m], node[conn[m].to], ids)
      /\ conn \in [Server -> Conn(ids)] /\ conn[m].to # m
  BY <1>1, Known DEF Inv, Good
<1>3. /\ node' = [node EXCEPT ![m] = t] /\ ids' = ids /\ rdb' = rdb /\ conn' = conn
      /\ s.masterhost = NoServer /\ Use("admin", MaxAdmin)
  BY <1>1 DEF Failover, Targeting
<1>4. used' \in [Counters -> Nat]
  <2>1. "admin" \in Counters
    BY DEF Counters
  <2> QED BY <1>2, <1>3, <2>1, UseOK
<1>5. NodeBase(m, t, ids) /\ SameForSlaves(s, t) /\ t.rstate = "none" /\ s.rstate = "none"
  <2>1. NodeBase(m, s, ids) /\ s.rstate = "none"
    BY <1>2, <1>3 DEF NodeOK, NodeBase
  <2>2. PICK f \in {"none", "wait", "progress"} : f = "wait"
    OBVIOUS
  <2>3. t = Targeting(s, f, g)
    BY <1>1, <2>2
  <2>4. PICK i \in Nat : i = ids
    BY <1>2
  <2>5. NodeBase(m, s, i)
    BY <2>1, <2>4
  <2>6. NodeBase(m, t, i) /\ SameForSlaves(s, t) /\ t.rstate = s.rstate
    BY <2>3, <2>5, Retarget
  <2> QED BY <2>1, <2>4, <2>6
<1>6. NodeOK(m, t, ids)
  BY <1>5 DEF NodeOK
<1>7. ConnOK(t, conn[m], node[conn[m].to], ids)
  BY <1>2, <1>5, IdleOK DEF Attempts
<1>8. conn' = [conn EXCEPT ![m] = conn[m]]
  BY <1>2, <1>3, OwnConn
<1>9. Good(node', conn', ids)
  <2>1. node' = [node EXCEPT ![m] = t]
    BY <1>3
  <2> QED BY <1>1, <1>2, <1>5, <1>6, <1>7, <1>8, <2>1, OneNodeKept
<1> QED BY <1>2, <1>3, <1>4, <1>9 DEF Inv

\* The master of a FAILOVER becomes a replica of its target.
LEMMA FailoverStartStep ==
    ASSUME Inv, NEW m \in Server, FailoverStart(m)
    PROVE  Inv'
<1>1. PICK s : s = node[m]
  OBVIOUS
<1>2. /\ ids \in Nat /\ ids <= ids /\ NodeOK(m, s, ids) /\ Good(node, conn, ids)
      /\ used \in [Counters -> Nat] /\ rdb \in [Server -> Maybe(File(ids))]
      /\ ConnOK(s, conn[m], node[conn[m].to], ids)
      /\ conn \in [Server -> Conn(ids)] /\ conn[m].to # m
  BY <1>1, Known DEF Inv, Good
<1>3. /\ ids' = ids /\ rdb' = rdb /\ conn' = conn /\ used' = used /\ s.failover = "wait"
      /\ s.rstate = "none"
  BY <1>1, <1>2 DEF FailoverStart, NodeOK
<1>4. PICK r \in Server : /\ conn[r].to = m
                          /\ node' = [node EXCEPT ![m] = [SetMaster(s, r) EXCEPT
                                            !.failover = "progress", !.target = r]]
  BY <1>1 DEF FailoverStart, Slaves
<1>5. r # m
  BY <1>2, <1>4
<1>6. PICK u : u = SetMaster(s, r)
  OBVIOUS
<1>7. NodeBase(m, u, ids) /\ SameForSlaves(s, u) /\ u.rstate = "connect"
  BY <1>2, <1>5, <1>6, SetMasterOK DEF NodeOK
<1>8. PICK t : t = Targeting(u, "progress", r)
  OBVIOUS
<1>9. NodeBase(m, t, ids) /\ SameForSlaves(u, t) /\ t.rstate = "connect" /\ t.failover = "progress"
  <2>1. PICK f \in {"none", "wait", "progress"}, g \in Server \cup {NoServer} :
            f = "progress" /\ g = r
    OBVIOUS
  <2>2. t = Targeting(u, f, g)
    BY <1>8, <2>1
  <2>3. PICK i \in Nat : i = ids
    BY <1>2
  <2>4. NodeBase(m, u, i)
    BY <1>7, <2>3
  <2>5. NodeBase(m, t, i) /\ SameForSlaves(u, t) /\ t.rstate = u.rstate /\ t.failover = f
    BY <2>2, <2>4, Retarget
  <2> QED BY <1>7, <2>1, <2>3, <2>5
<1>10. NodeOK(m, t, ids) /\ SameForSlaves(s, t)
  BY <1>7, <1>9 DEF NodeOK, SameForSlaves
<1>11. ConnOK(t, conn[m], node[conn[m].to], ids)
  BY <1>2, <1>3, <1>9, IdleOK DEF Attempts
<1>12. conn' = [conn EXCEPT ![m] = conn[m]]
  BY <1>2, <1>3, OwnConn
<1>13. node' = [node EXCEPT ![m] = t]
  BY <1>4, <1>6, <1>8 DEF Targeting
<1>14. Good(node', conn', ids)
  BY <1>1, <1>2, <1>10, <1>11, <1>12, <1>13, OneNodeKept
<1> QED BY <1>2, <1>3, <1>14 DEF Inv

\* A FAILOVER is given up.
LEMMA FailoverAbortStep ==
    ASSUME Inv, NEW m \in Server, FailoverAbort(m)
    PROVE  Inv'
<1>1. PICK s, t, j : s = node[m] /\ t = Aborted(s, ids + 1) /\ j = IF StepsUp(s) THEN ids + 1 ELSE ids
  OBVIOUS
<1>2. /\ ids \in Nat /\ NodeOK(m, s, ids) /\ Good(node, conn, ids)
      /\ used \in [Counters -> Nat] /\ rdb \in [Server -> Maybe(File(ids))]
      /\ ConnOK(s, conn[m], node[conn[m].to], ids)
      /\ conn \in [Server -> Conn(ids)] /\ conn[m].to # m
  BY <1>1, Known DEF Inv, Good
<1>3. /\ node' = [node EXCEPT ![m] = t] /\ ids' = j /\ rdb' = rdb /\ s.failover # "none"
      /\ conn' = IF StepsUp(s) THEN [DisconnectSlaves(conn, m) EXCEPT ![m] = NoConn] ELSE conn
      /\ Use("fault", MaxFaults)
  BY <1>1 DEF FailoverAbort
<1>4. used' \in [Counters -> Nat]
  <2>1. "fault" \in Counters
    BY DEF Counters
  <2> QED BY <1>2, <1>3, <2>1, UseOK
<1>5. j \in Nat /\ ids <= j
  BY <1>1, <1>2
<1>6. /\ NodeOK(m, t, j) /\ (StepsUp(s) => t.rstate = "none")
      /\ (~StepsUp(s) => SameForSlaves(s, t) /\ t.rstate = s.rstate)
  <2>1. NodeBase(m, s, ids) /\ (StepsUp(s) => j = ids + 1)
    BY <1>1, <1>2 DEF NodeOK
  <2> QED BY <1>1, <1>2, <1>5, <2>1, AbortedOK
<1>7. node' = [node EXCEPT ![m] = t]
  BY <1>3
<1>8. CASE StepsUp(s)
  <2>1. conn' = [DisconnectSlaves(conn, m) EXCEPT ![m] = NoConn]
    BY <1>3, <1>8
  <2>2. ConnOK(t, NoConn, node[NoConn.to], j)
    BY <1>5, <1>6, <1>8, NoConnOK DEF Attempts
  <2>3. Good(node', conn', j)
    BY <1>2, <1>5, <1>6, <1>7, <2>1, <2>2, OneNodeClosed
  <2> QED BY <1>2, <1>3, <1>4, <1>5, <2>3, FilesStay DEF Inv
<1>9. CASE ~StepsUp(s)
  <2>1. conn' = [conn EXCEPT ![m] = conn[m]]
    <3>1. conn' = conn
      BY <1>3, <1>9
    <3> QED BY <1>2, <3>1, OwnConn
  <2>2. s.rstate = "none"
    <3>1. s.failover \in {"none", "wait", "progress"}
      BY <1>2 DEF NodeOK, NodeBase, State
    <3> QED BY <1>2, <1>3, <1>9, <3>1 DEF StepsUp, NodeOK, NodeBase
  <2>3. ConnOK(t, conn[m], node[conn[m].to], j)
    BY <1>2, <1>5, <1>6, <1>9, <2>2, IdleOK DEF Attempts
  <2>4. Good(node', conn', j)
    BY <1>1, <1>2, <1>5, <1>6, <1>7, <1>9, <2>1, <2>3, OneNodeKept
  <2> QED BY <1>2, <1>3, <1>4, <1>5, <2>4, FilesStay DEF Inv
<1> QED BY <1>8, <1>9

-----------------------------------------------------------------------------
(* The steps of a BGSAVE for replicas                                      *)

\* What the connection of a replica to its master depends on.
SameReplica(s, t) ==
    /\ t.rstate = s.rstate /\ t.masterhost = s.masterhost /\ t.cached = s.cached
    /\ t.sync = s.sync /\ t.replid = s.replid /\ t.off = s.off

\* A connection is not touched by the rest of its replica's state.
LEMMA OwnStays ==
    ASSUME NEW i, NEW s, NEW t, NEW c, NEW m, ConnOK(s, c, m, i), SameReplica(s, t)
    PROVE  ConnOK(t, c, m, i)
<1>1. LinkOK(s, c, m, i) => LinkOK(t, c, m, i)
  BY DEF SameReplica, LinkOK, Queued, Announced, FileAhead, ContinueAhead, AwaitsFile, ReadsFile,
         Streams
<1> QED BY <1>1 DEF ConnOK, Attempts, SameReplica

\* Only a slave that waits for the end of a BGSAVE relies on the child.
LEMMA LinkKept ==
    ASSUME NEW i, NEW s, NEW c, NEW m, NEW w, ConnOK(s, c, m, i),
           c.open => /\ w.replid = m.replid /\ w.off = m.off /\ w.backlog = m.backlog
                     /\ c.st = "wait_end" => w.child = m.child
    PROVE  ConnOK(s, c, w, i)
<1>1. \A id, off, k : Ends(c, m, id, off, k) => Ends(c, w, id, off, k)
  BY DEF Ends
<1>2. \A f : c.st = "wait_end" /\ Collects(c, m, f) => Collects(c, w, f)
  BY DEF Collects
<1>3. c.open /\ m.backlog # Nothing => w.backlog # Nothing
  OBVIOUS
<1>4. LinkOK(s, c, m, i) => LinkOK(s, c, w, i)
  BY <1>1, <1>2, <1>3 DEF LinkOK, Queued, Announced, FileAhead, ContinueAhead, AwaitsFile, ReadsFile, Streams
<1> QED BY <1>4 DEF ConnOK

Dropped(c) == [c EXCEPT !.open = FALSE]

\* A connection is closed and what was collected stays in the buffer.
LEMMA LinkDrops ==
    ASSUME NEW i, NEW s, NEW c, NEW m, NEW w, ConnOK(s, c, m, i)
    PROVE  ConnOK(s, Dropped(c), w, i) /\ Dropped(c).to = c.to
<1>1. PICK d, f : d = Dropped(c) /\ f = FALSE
  OBVIOUS
<1>2. f \in BOOLEAN /\ d = [c EXCEPT !.open = f] /\ c \in Conn(i)
  BY <1>1 DEF Dropped, ConnOK
<1>3. /\ d.to = c.to /\ d.open = f /\ d.st = c.st /\ d.q = c.q /\ d.out = c.out
      /\ d \in Conn(i)
  BY <1>2 DEF Conn
<1>4. (\A id, off, k : Ends(d, w, id, off, k)) /\ ~d.open
  BY <1>1, <1>3 DEF Ends
<1>5. \A x : Collects(d, w, x)
  BY <1>4 DEF Collects
<1>6. LinkOK(s, c, m, i) => LinkOK(s, d, w, i)
  BY <1>3, <1>4, <1>5 DEF LinkOK, Queued, Announced, FileAhead, ContinueAhead, AwaitsFile, ReadsFile, Streams
<1>7. ConnOK(s, d, w, i)
  BY <1>1, <1>3, <1>6 DEF ConnOK, Idle
<1> QED BY <1>1, <1>3, <1>7

\* The child and the database selected in the stream concern no one but slaves.
Forked(s, f, d) == [s EXCEPT !.child = f, !.seldb = d]

\* Setting them leaves the rest in order.
LEMMA ForkedOK ==
    ASSUME NEW n, NEW i \in Nat, NEW s, NodeOK(n, s, i), NEW f \in Maybe(File(i)),
           NEW d \in Dbs \cup {NoDb}
    PROVE  LET t == Forked(s, f, d)
           IN NodeOK(n, t, i) /\ SameReplica(s, t) /\ t.backlog = s.backlog /\ t.child = f
<1>1. PICK t : t = Forked(s, f, d)
  OBVIOUS
<1>2. s \in State(i)
  BY DEF NodeOK, NodeBase
<1>3. t \in State(i)
  BY <1>1, <1>2 DEF State, Forked
<1>4. /\ t.replid = s.replid /\ t.off = s.off /\ t.child = f /\ t.backlog = s.backlog
      /\ t.rstate = s.rstate /\ t.masterhost = s.masterhost /\ t.master = s.master
      /\ t.cached = s.cached /\ t.failover = s.failover /\ t.sync = s.sync
  BY <1>1, <1>2 DEF State, Forked
<1>5. NodeOK(n, t, i) /\ SameReplica(s, t)
  BY <1>3, <1>4 DEF NodeOK, NodeBase, SameReplica
<1> QED BY <1>1, <1>4, <1>5

\* The connections of the slaves of p change, and p's child.
LEMMA SlavesStep ==
    ASSUME NEW nd, NEW cn, NEW i, Good(nd, cn, i), NEW p \in Server, NEW t, NodeOK(p, t, i),
           SameReplica(nd[p], t), NEW cd \in [Server -> Conn(i)],
           \A r \in Server : cn[r].to = p => cd[r].to = p /\ ConnOK(nd[r], cd[r], t, i),
           \A r \in Server : cn[r].to # p => cd[r] = cn[r]
    PROVE  Good([nd EXCEPT ![p] = t], cd, i)
<1>1. /\ i \in Nat /\ i <= i /\ cn \in [Server -> Conn(i)] /\ cn[p].to # p
      /\ ConnOK(nd[p], cn[p], nd[cn[p].to], i)
  BY Reached DEF Good
<1>2. cd[p] = cn[p]
  BY <1>1
<1>3. ConnOK(t, cd[p], nd[cd[p].to], i)
  BY <1>1, <1>2, OwnStays
<1>4. \A r \in Server \ {p} :
          IF cn[r].to = p THEN cd[r].to = p /\ ConnOK(nd[r], cd[r], t, i) ELSE cd[r] = cn[r]
  OBVIOUS
<1> QED BY <1>1, <1>3, <1>4, OneNode

\* An open connection belongs to an attempt that is under way.
LEMMA OpenPhase ==
    ASSUME NEW i, NEW s, NEW c, NEW m, ConnOK(s, c, m, i), c.open
    PROVE  /\ Attempts(s) /\ c.to = s.masterhost /\ c \in Conn(i)
           /\ c.st = "wait_start" => Queued(s, c, m)
           /\ c.st = "wait_end" => Announced(s, c, m, i) \/ AwaitsFile(s, c, m)
           /\ c.st = "wait_end" => m.child # Nothing
<1>1. Attempts(s) /\ c.to = s.masterhost /\ LinkOK(s, c, m, i) /\ c \in Conn(i)
  BY DEF ConnOK, Idle
<1> QED BY <1>1 DEF LinkOK, Queued, Announced, FileAhead, ContinueAhead, AwaitsFile, ReadsFile, Streams, Collects

\* The fork for the waiting slaves fails.
LEMMA StartBgsaveFailsStep ==
    ASSUME Inv, NEW m \in Server, StartBgsaveFails(m)
    PROVE  Inv'
<1>1. PICK s : s = node[m]
  OBVIOUS
<1>2. /\ ids \in Nat /\ NodeOK(m, s, ids) /\ Good(node, conn, ids)
      /\ used \in [Counters -> Nat] /\ rdb \in [Server -> Maybe(File(ids))]
      /\ conn \in [Server -> Conn(ids)] /\ node \in [Server -> State(ids)]
      /\ \A r \in Server : ConnOK(node[r], conn[r], node[conn[r].to], ids)
  BY <1>1, Known DEF Inv, Good
<1> DEFINE F(r) == IF conn[r].to = m /\ conn[r].open /\ conn[r].st = "wait_start"
                   THEN Dropped(conn[r]) ELSE conn[r]
<1>3. /\ node' = node /\ rdb' = rdb /\ ids' = ids /\ Use("fault", MaxFaults)
      /\ conn' = [r \in Server |-> F(r)]
  BY DEF StartBgsaveFails, Waiting, Slaves, Dropped
<1>4. used' \in [Counters -> Nat]
  <2>1. "fault" \in Counters
    BY DEF Counters
  <2> QED BY <1>2, <1>3, <2>1, UseOK
<1>5. ASSUME NEW r \in Server, conn[r].to = m
      PROVE  F(r).to = m /\ ConnOK(node[r], F(r), s, ids)
  <2>1. ConnOK(node[r], conn[r], s, ids)
    BY <1>1, <1>2, <1>5
  <2> QED BY <1>5, <2>1, LinkDrops
<1>6. \A r \in Server : F(r) \in Conn(ids) /\ (conn[r].to # m => F(r) = conn[r])
  BY <1>2, <1>5 DEF ConnOK
<1> HIDE DEF F
<1>7. PICK cd \in [Server -> Conn(ids)] : cd = conn' /\ \A r \in Server : cd[r] = F(r)
  BY <1>3, <1>6
<1>8. Good([node EXCEPT ![m] = s], cd, ids)
  <2>1. SameReplica(node[m], s)
    BY <1>1 DEF SameReplica
  <2>2. /\ \A r \in Server : conn[r].to = m => cd[r].to = m /\ ConnOK(node[r], cd[r], s, ids)
        /\ \A r \in Server : conn[r].to # m => cd[r] = conn[r]
    BY <1>5, <1>6, <1>7
  <2> QED BY <1>2, <2>1, <2>2, SlavesStep
<1>9. [node EXCEPT ![m] = s] = node
  BY <1>1, <1>2
<1> QED BY <1>2, <1>3, <1>4, <1>7, <1>8, <1>9 DEF Inv

\* The child fails, and its slaves are disconnected.
LEMMA BgsaveFailsStep ==
    ASSUME Inv, NEW m \in Server, BgsaveFails(m)
    PROVE  Inv'
<1>1. PICK s : s = node[m]
  OBVIOUS
<1>2. /\ ids \in Nat /\ NodeOK(m, s, ids) /\ Good(node, conn, ids) /\ s \in State(ids)
      /\ used \in [Counters -> Nat] /\ rdb \in [Server -> Maybe(File(ids))]
      /\ conn \in [Server -> Conn(ids)] /\ node \in [Server -> State(ids)]
      /\ \A r \in Server : ConnOK(node[r], conn[r], node[conn[r].to], ids)
  BY <1>1, Known DEF Inv, Good
<1> DEFINE F(r) == IF conn[r].to = m /\ conn[r].open /\ conn[r].st = "wait_end"
                   THEN Dropped(conn[r]) ELSE conn[r]
<1>3. PICK t, e, d : t = Forked(s, e, d) /\ e = Nothing /\ d = s.seldb
  OBVIOUS
<1>4. /\ rdb' = rdb /\ ids' = ids /\ Use("fault", MaxFaults)
      /\ conn' = [r \in Server |-> F(r)]
  BY DEF BgsaveFails, Waiting, Slaves, Dropped
<1>5. node' = [node EXCEPT ![m] = t]
  <2>1. t = [s EXCEPT !.child = Nothing]
    BY <1>2, <1>3 DEF Forked, State
  <2> QED BY <1>1, <2>1 DEF BgsaveFails
<1>6. used' \in [Counters -> Nat]
  <2>1. "fault" \in Counters
    BY DEF Counters
  <2> QED BY <1>2, <1>4, <2>1, UseOK
<1>7. NodeOK(m, t, ids) /\ SameReplica(s, t) /\ t.backlog = s.backlog /\ t.child = e
  <2>1. e \in Maybe(File(ids)) /\ d \in Dbs \cup {NoDb}
    BY <1>2, <1>3 DEF Maybe, State
  <2>2. t = Forked(s, e, d) /\ NodeOK(m, s, ids) /\ ids \in Nat
    BY <1>2, <1>3
  <2> QED BY <2>1, <2>2, ForkedOK
<1>8. ASSUME NEW r \in Server, conn[r].to = m
      PROVE  F(r).to = m /\ ConnOK(node[r], F(r), t, ids)
  <2>1. ConnOK(node[r], conn[r], s, ids)
    BY <1>1, <1>2, <1>8
  <2>2. CASE conn[r].open /\ conn[r].st = "wait_end"
    BY <1>8, <2>1, <2>2, LinkDrops
  <2>3. CASE ~(conn[r].open /\ conn[r].st = "wait_end")
    <3>1. ConnOK(node[r], conn[r], t, ids)
      BY <1>7, <2>1, <2>3, LinkKept DEF SameReplica
    <3> QED BY <1>8, <2>3, <3>1
  <2> QED BY <2>2, <2>3
<1>9. \A r \in Server : F(r) \in Conn(ids) /\ (conn[r].to # m => F(r) = conn[r])
  BY <1>2, <1>8 DEF ConnOK
<1> HIDE DEF F
<1>10. PICK cd \in [Server -> Conn(ids)] : cd = conn' /\ \A r \in Server : cd[r] = F(r)
  BY <1>4, <1>9
<1>11. Good([node EXCEPT ![m] = t], cd, ids)
  <2>1. /\ \A r \in Server : conn[r].to = m => cd[r].to = m /\ ConnOK(node[r], cd[r], t, ids)
        /\ \A r \in Server : conn[r].to # m => cd[r] = conn[r]
    BY <1>8, <1>9, <1>10
  <2>2. SameReplica(node[m], t)
    BY <1>1, <1>7
  <2> QED BY <1>2, <1>7, <2>1, <2>2, SlavesStep
<1> QED BY <1>2, <1>4, <1>5, <1>6, <1>10, <1>11 DEF Inv

\* +FULLRESYNC is announced to a slave when the child is forked.
Announce(c, f) == [c EXCEPT !.st = "wait_end", !.q = FullResync(f)]

\* The slave's differences begin where the child did.
LEMMA AnnounceOK ==
    ASSUME NEW i \in Nat, NEW s, NEW c, NEW m, NEW w, NEW f \in File(i), ConnOK(s, c, m, i), c.open,
           c.st = "wait_start", w.child = f, w.backlog # Nothing, w.replid = f.id, w.off = f.off
    PROVE  ConnOK(s, Announce(c, f), w, i) /\ Announce(c, f).to = c.to
<1>1. PICK d, q, x : d = Announce(c, f) /\ q = FullResync(f) /\ x = FullResync(f)[1]
  OBVIOUS
<1>2. f.id \in 1 .. i /\ f.off \in Nat /\ f # Nothing
  <2>1. f.id \in 1 .. i /\ f.off \in Nat
    BY DEF File
  <2> QED BY <2>1, Present
<1>3. /\ x = [op |-> "fullresync", id |-> f.id, off |-> f.off] /\ q = <<x>>
  BY <1>1 DEF FullResync
<1>4. x \in FullMsg(i) /\ x.id = f.id /\ x.off = f.off
  BY <1>2, <1>3 DEF FullMsg
<1>5. q \in Seq(Msg(i)) /\ Len(q) = 1 /\ q[1] = x
  <2>1. x \in Msg(i)
    BY <1>4 DEF Msg
  <2> QED BY <1>3, <2>1
<1>6. /\ Attempts(s) /\ c.to = s.masterhost /\ c \in Conn(i) /\ c.out = <<>>
      /\ s.rstate = "receive_psync"
  BY OpenPhase DEF Queued
<1>7. /\ d.to = c.to /\ d.open = c.open /\ d.st = "wait_end" /\ d.q = q /\ d.out = c.out
      /\ d \in Conn(i)
  <2>1. d = [c EXCEPT !.st = "wait_end", !.q = q] /\ q \in Seq(Msg(i))
    BY <1>1, <1>5 DEF Announce
  <2> QED BY <1>6, <2>1 DEF Conn
<1>8. Pending(d) = 1
  <2>1. Len(d.q) = 1 /\ Len(d.out) = 0
    BY <1>5, <1>6, <1>7
  <2> QED BY <2>1 DEF Pending
<1>9. Ends(d, w, x.id, x.off, 1)
  <2>1. x.off + Pending(d) = w.off + 1
    BY <1>4, <1>8
  <2> QED BY <1>4, <2>1 DEF Ends
<1>10. Collects(d, w, x)
  BY <1>2, <1>4 DEF Collects
<1>11. Announced(s, d, w, i)
  BY <1>4, <1>5, <1>6, <1>7, <1>9, <1>10 DEF Announced
<1> QED BY <1>1, <1>6, <1>7, <1>11 DEF ConnOK, LinkOK

\* A BGSAVE for the waiting slaves begins.
LEMMA StartBgsaveStep ==
    ASSUME Inv, NEW m \in Server, StartBgsave(m)
    PROVE  Inv'
<1>1. PICK s : s = node[m]
  OBVIOUS
<1>2. /\ ids \in Nat /\ NodeOK(m, s, ids) /\ Good(node, conn, ids) /\ s \in State(ids)
      /\ used \in [Counters -> Nat] /\ rdb \in [Server -> Maybe(File(ids))]
      /\ conn \in [Server -> Conn(ids)] /\ node \in [Server -> State(ids)]
      /\ \A r \in Server : ConnOK(node[r], conn[r], node[conn[r].to], ids)
  BY <1>1, Known DEF Inv, Good
<1>3. PICK f : f = SnapshotOf(s)
  OBVIOUS
<1>4. f \in File(ids) /\ f.id = s.replid /\ f.off = s.off
  BY <1>2, <1>3, SnapshotOK
<1>5. PICK t, d : t = Forked(s, f, d) /\ d = NoDb
  OBVIOUS
<1> DEFINE F(r) == IF conn[r].to = m /\ conn[r].open /\ conn[r].st = "wait_start"
                   THEN Announce(conn[r], f) ELSE conn[r]
<1>6. /\ rdb' = rdb /\ ids' = ids /\ used' = used
      /\ conn' = [r \in Server |-> F(r)]
  BY <1>1, <1>3 DEF StartBgsave, Waiting, Slaves, Announce
<1>7. node' = [node EXCEPT ![m] = t]
  BY <1>1, <1>3, <1>5 DEF StartBgsave, Forked
<1>8. s.child = Nothing /\ s.backlog # Nothing
  <2>1. PICK r \in Server : conn[r].to = m /\ conn[r].open
    BY DEF StartBgsave, Waiting, Slaves
  <2>2. s.backlog # Nothing
    BY <1>1, <1>2, <2>1, Reached
  <2>3. ~s.child.present
    BY <1>1 DEF StartBgsave
  <2> QED BY <1>2, <2>2, <2>3, PresentFields
<1>9. NodeOK(m, t, ids) /\ SameReplica(s, t) /\ t.backlog = s.backlog /\ t.child = f
  <2>1. f \in Maybe(File(ids)) /\ d \in Dbs \cup {NoDb}
    BY <1>4, <1>5 DEF Maybe
  <2>2. t = Forked(s, f, d) /\ NodeOK(m, s, ids) /\ ids \in Nat
    BY <1>2, <1>5
  <2> QED BY <2>1, <2>2, ForkedOK
<1>10. ASSUME NEW r \in Server, conn[r].to = m
       PROVE  F(r).to = m /\ ConnOK(node[r], F(r), t, ids)
  <2>1. ConnOK(node[r], conn[r], s, ids)
    BY <1>1, <1>2, <1>10
  <2>2. CASE conn[r].open /\ conn[r].st = "wait_start"
    <3>1. t.replid = f.id /\ t.off = f.off /\ t.backlog # Nothing /\ t.child = f
      BY <1>4, <1>8, <1>9 DEF SameReplica
    <3>2. ConnOK(node[r], Announce(conn[r], f), t, ids) /\ Announce(conn[r], f).to = m
      BY <1>2, <1>4, <1>10, <2>1, <2>2, <3>1, AnnounceOK
    <3> QED BY <1>10, <2>2, <3>2
  <2>3. CASE ~(conn[r].open /\ conn[r].st = "wait_start")
    <3>1. conn[r].open => conn[r].st # "wait_end"
      BY <1>8, <2>1, OpenPhase
    <3>2. ConnOK(node[r], conn[r], t, ids)
      BY <1>9, <2>1, <3>1, LinkKept DEF SameReplica
    <3> QED BY <1>10, <2>3, <3>2
  <2> QED BY <2>2, <2>3
<1>11. \A r \in Server : F(r) \in Conn(ids) /\ (conn[r].to # m => F(r) = conn[r])
  BY <1>2, <1>10 DEF ConnOK
<1> HIDE DEF F
<1>12. PICK cd \in [Server -> Conn(ids)] : cd = conn' /\ \A r \in Server : cd[r] = F(r)
  BY <1>6, <1>11
<1>13. Good([node EXCEPT ![m] = t], cd, ids)
  <2>1. /\ \A r \in Server : conn[r].to = m => cd[r].to = m /\ ConnOK(node[r], cd[r], t, ids)
        /\ \A r \in Server : conn[r].to # m => cd[r] = conn[r]
    BY <1>10, <1>11, <1>12
  <2>2. SameReplica(node[m], t)
    BY <1>1, <1>9
  <2> QED BY <1>2, <1>9, <2>1, <2>2, SlavesStep
<1> QED BY <1>2, <1>6, <1>7, <1>12, <1>13 DEF Inv

\* What has been sent, the file, and the differences collected meanwhile.
Joined(q, x, out) == q \o <<x>> \o out

\* The file, and then what was collected, follows what is on its way.
LEMMA Delivers ==
    ASSUME NEW i \in Nat, NEW q \in Seq(Msg(i)), NEW x \in RdbMsg(i), NEW out \in Seq(Cmd),
           NEW p, p = Joined(q, x, out)
    PROVE  /\ p \in Seq(Msg(i)) /\ Len(p) = Len(q) + 1 + Len(out)
           /\ \A j \in 1 .. Len(q) : p[j] = q[j]
           /\ p[Len(q) + 1] = x /\ CommandsFrom(p, Len(q) + 2)
<1>1. PICK y, z : y = <<x>> /\ z = q \o y /\ p = z \o out
  BY DEF Joined
<1>2. x \in Msg(i) /\ Cmd \subseteq Msg(i)
  BY DEF Msg
<1>3. y \in Seq(Msg(i)) /\ Len(y) = 1 /\ y[1] = x
  BY <1>1, <1>2
<1>4. /\ z \in Seq(Msg(i)) /\ Len(z) = Len(q) + 1 /\ Len(q) \in Nat
      /\ \A j \in 1 .. Len(q) : z[j] = q[j]
  BY <1>1, <1>3
<1>5. z[Len(q) + 1] = x
  <2>1. Len(q) + 1 \in 1 .. Len(q) + Len(y) /\ Len(q) + 1 > Len(q) /\ (Len(q) + 1) - Len(q) = 1
    BY <1>3, <1>4
  <2>2. z[Len(q) + 1] = y[(Len(q) + 1) - Len(q)]
    BY <1>1, <1>3, <1>4, <2>1
  <2> QED BY <1>3, <2>1, <2>2
<1>6. /\ p \in Seq(Msg(i)) /\ Len(p) = Len(z) + Len(out) /\ Len(out) \in Nat
      /\ \A j \in 1 .. Len(z) : p[j] = z[j]
      /\ \A k \in 1 .. Len(z) + 1 :
            (\A j \in k .. Len(z) : z[j] \in Cmd) => \A j \in k .. Len(p) : p[j] \in Cmd
  BY <1>1, <1>2, <1>4, Appended
<1>7. \A j \in Len(q) + 2 .. Len(p) : p[j] \in Cmd
  <2>1. PICK k : k = Len(q) + 2
    OBVIOUS
  <2>2. k \in 1 .. Len(z) + 1 /\ \A j \in k .. Len(z) : z[j] \in Cmd
    BY <1>4, <2>1
  <2> QED BY <1>6, <2>1, <2>2
<1>8. /\ \A j \in 1 .. Len(q) : j \in 1 .. Len(z)
      /\ Len(q) + 1 \in 1 .. Len(z)
  BY <1>4
<1> QED BY <1>1, <1>4, <1>5, <1>6, <1>7, <1>8 DEF CommandsFrom

Delivered(c, f) ==
    [c EXCEPT !.st = "online", !.out = <<>>,
              !.q = c.q \o <<[op |-> "rdb", file |-> f]>> \o c.out]

\* A slave that waited for the file is online once the file is in its buffer.
LEMMA DeliveredOK ==
    ASSUME NEW i \in Nat, NEW s \in State(i), NEW c, NEW m, NEW w, NEW f \in File(i),
           ConnOK(s, c, m, i), c.open, c.st = "wait_end", m.off \in Nat,
           w.backlog = m.backlog, w.replid = m.replid, w.off = m.off
    PROVE  ConnOK(s, Delivered(c, f), w, i) /\ Delivered(c, f).to = c.to
<1>1. PICK d, q, x, p, e : /\ d = Delivered(c, f) /\ q = c.q /\ x = [op |-> "rdb", file |-> f]
                           /\ p = c.q \o <<[op |-> "rdb", file |-> f]>> \o c.out /\ e = <<>>
  OBVIOUS
<1>2. PICK out : out = c.out
  OBVIOUS
<1>3. /\ Attempts(s) /\ c.to = s.masterhost /\ c \in Conn(i)
      /\ Announced(s, c, m, i) \/ AwaitsFile(s, c, m)
  BY OpenPhase
<1>4. q \in Seq(Msg(i)) /\ out \in Seq(Cmd) /\ x \in RdbMsg(i) /\ p = Joined(q, x, out)
  BY <1>1, <1>2, <1>3 DEF Conn, RdbMsg, Joined
<1>5. PICK a, b \in Nat : a = Len(q) /\ b = Len(out)
  BY <1>4
<1>6. /\ p \in Seq(Msg(i)) /\ Len(p) = a + 1 + b
      /\ \A j \in 1 .. a : p[j] = q[j]
      /\ p[a + 1] = x /\ CommandsFrom(p, a + 2)
  <2>1. /\ p \in Seq(Msg(i)) /\ Len(p) = Len(q) + 1 + Len(out)
        /\ \A j \in 1 .. Len(q) : p[j] = q[j]
        /\ p[Len(q) + 1] = x /\ CommandsFrom(p, Len(q) + 2)
    BY SMTT(30), <1>4, Delivers
  <2> QED BY <1>5, <2>1
<1>7. e \in Seq(Cmd) /\ Len(e) = 0
  <2>1. <<>> \in Seq(Cmd) /\ Len(<<>>) = 0
    OBVIOUS
  <2> QED BY <1>1, <2>1, Zenon
<1>8. /\ d.to = c.to /\ d.open = c.open /\ d.st = "online" /\ d.q = p /\ d.out = e
      /\ d \in Conn(i)
  <2>1. d = [c EXCEPT !.st = "online", !.out = e, !.q = p]
    BY <1>1 DEF Delivered
  <2>2. p \in Seq(Msg(i)) /\ e \in Seq(Cmd)
    BY <1>6, <1>7
  <2> QED BY <1>3, <2>1, <2>2 DEF Conn
<1>9. Pending(c) = a + b /\ Pending(d) = (a + 1) + b
  BY <1>1, <1>2, <1>5, <1>6, <1>7, <1>8 DEF Pending
<1>10. ASSUME NEW off \in Nat, NEW k \in Nat, NEW id, Ends(c, m, id, off, k)
       PROVE  Ends(d, w, id, off, k + 1)
  <2>1. PICK v \in Nat : v = m.off
    OBVIOUS
  <2>2. off + (a + b) = v + k /\ m.replid = id /\ m.backlog # Nothing
    BY <1>9, <1>10, <2>1 DEF Ends
  <2>3. off + ((a + 1) + b) = v + (k + 1)
    BY <2>2
  <2> QED BY <1>9, <2>1, <2>2, <2>3 DEF Ends
<1> SUFFICES LinkOK(s, d, w, i)
  BY <1>1, <1>3, <1>8 DEF ConnOK
<1>11. CASE Announced(s, c, m, i)
  <2>1. a = 1 /\ q[1] \in FullMsg(i) /\ Ends(c, m, q[1].id, q[1].off, 1) /\ s.rstate = "receive_psync"
    BY <1>1, <1>5, <1>11 DEF Announced
  <2>2. p[1] = q[1] /\ p[2] = x /\ CommandsFrom(p, 3) /\ Len(p) >= 2
    BY <1>6, <2>1
  <2>3. q[1].off \in Nat
    BY <2>1 DEF FullMsg
  <2>4. Ends(d, w, q[1].id, q[1].off, 1 + 1)
    BY <1>10, <2>1, <2>3
  <2>5. Ends(d, w, p[1].id, p[1].off, 2)
    BY <2>2, <2>4
  <2>6. FileAhead(s, d, w, i)
    BY <1>1, <1>4, <1>8, <2>1, <2>2, <2>5 DEF FileAhead
  <2> QED BY <2>6 DEF LinkOK
<1>12. CASE AwaitsFile(s, c, m)
  <2>1. a = 0 /\ s.sync # Nothing /\ Ends(c, m, s.sync.id, s.sync.off, 0) /\ s.rstate = "transfer"
    BY <1>1, <1>5, <1>12 DEF AwaitsFile
  <2>2. p[1] = x /\ CommandsFrom(p, 2) /\ Len(p) >= 1
    BY <1>6, <2>1
  <2>3. s.sync.off \in Nat
    BY <2>1, PresentFields DEF FullMsg
  <2>4. Ends(d, w, s.sync.id, s.sync.off, 0 + 1)
    BY <1>10, <2>1, <2>3
  <2>5. Ends(d, w, s.sync.id, s.sync.off, 1)
    BY <2>4
  <2>6. ReadsFile(s, d, w, i)
    BY <1>1, <1>4, <1>8, <2>1, <2>2, <2>5 DEF ReadsFile
  <2> QED BY <2>6 DEF LinkOK
<1> QED BY <1>3, <1>11, <1>12

\* The child ended well, and the file goes to the slaves that waited for it.
LEMMA BgsaveDoneStep ==
    ASSUME Inv, NEW m \in Server, BgsaveDone(m)
    PROVE  Inv'
<1>1. PICK s : s = node[m]
  OBVIOUS
<1>2. /\ ids \in Nat /\ NodeOK(m, s, ids) /\ Good(node, conn, ids) /\ s \in State(ids)
      /\ used \in [Counters -> Nat] /\ rdb \in [Server -> Maybe(File(ids))]
      /\ conn \in [Server -> Conn(ids)] /\ node \in [Server -> State(ids)]
      /\ \A r \in Server : ConnOK(node[r], conn[r], node[conn[r].to], ids)
  BY <1>1, Known DEF Inv, Good
<1>3. PICK f : f = s.child
  OBVIOUS
<1>4. f \in File(ids)
  <2>1. s.child.present
    BY <1>1 DEF BgsaveDone
  <2> QED BY <1>2, <1>3, <2>1, PresentFields
<1>5. PICK t, e, d : t = Forked(s, e, d) /\ e = Nothing /\ d = s.seldb
  OBVIOUS
<1> DEFINE F(r) == IF conn[r].to = m /\ conn[r].open /\ conn[r].st = "wait_end"
                   THEN Delivered(conn[r], f) ELSE conn[r]
<1>6. /\ rdb' = [rdb EXCEPT ![m] = f] /\ ids' = ids /\ used' = used
      /\ conn' = [r \in Server |-> F(r)]
  BY <1>1, <1>3 DEF BgsaveDone, Waiting, Slaves, Delivered
<1>7. node' = [node EXCEPT ![m] = t]
  <2>1. t = [s EXCEPT !.child = Nothing]
    BY <1>2, <1>5 DEF Forked, State
  <2> QED BY <1>1, <2>1 DEF BgsaveDone
<1>8. rdb' \in [Server -> Maybe(File(ids))]
  BY <1>2, <1>4, <1>6 DEF Maybe
<1>9. NodeOK(m, t, ids) /\ SameReplica(s, t) /\ t.backlog = s.backlog /\ t.child = e
  <2>1. e \in Maybe(File(ids)) /\ d \in Dbs \cup {NoDb}
    BY <1>2, <1>5 DEF Maybe, State
  <2>2. t = Forked(s, e, d) /\ NodeOK(m, s, ids) /\ ids \in Nat
    BY <1>2, <1>5
  <2> QED BY <2>1, <2>2, ForkedOK
<1>10. ASSUME NEW r \in Server, conn[r].to = m
       PROVE  F(r).to = m /\ ConnOK(node[r], F(r), t, ids)
  <2>1. ConnOK(node[r], conn[r], s, ids) /\ node[r] \in State(ids) /\ s.off \in Nat
    BY <1>1, <1>2, <1>10 DEF State
  <2>2. CASE conn[r].open /\ conn[r].st = "wait_end"
    <3>1. t.replid = s.replid /\ t.off = s.off /\ t.backlog = s.backlog
      BY <1>9 DEF SameReplica
    <3>2. PICK n, c : n = node[r] /\ c = conn[r]
      OBVIOUS
    <3>3. n \in State(ids) /\ ConnOK(n, c, s, ids) /\ c.open /\ c.st = "wait_end" /\ s.off \in Nat
      BY <2>1, <2>2, <3>2
    <3>4. ids \in Nat
      BY <1>2
    <3>5. ConnOK(n, Delivered(c, f), t, ids) /\ Delivered(c, f).to = c.to
      BY <1>4, <3>1, <3>3, <3>4, DeliveredOK
    <3> QED BY <1>10, <2>2, <3>2, <3>5
  <2>3. CASE ~(conn[r].open /\ conn[r].st = "wait_end")
    <3>1. ConnOK(node[r], conn[r], t, ids)
      BY <1>9, <2>1, <2>3, LinkKept DEF SameReplica
    <3> QED BY <1>10, <2>3, <3>1
  <2> QED BY <2>2, <2>3
<1>11. \A r \in Server : F(r) \in Conn(ids) /\ (conn[r].to # m => F(r) = conn[r])
  BY <1>2, <1>10 DEF ConnOK
<1> HIDE DEF F
<1>12. PICK cd \in [Server -> Conn(ids)] : cd = conn' /\ \A r \in Server : cd[r] = F(r)
  BY <1>6, <1>11
<1>13. Good([node EXCEPT ![m] = t], cd, ids)
  <2>1. /\ \A r \in Server : conn[r].to = m => cd[r].to = m /\ ConnOK(node[r], cd[r], t, ids)
        /\ \A r \in Server : conn[r].to # m => cd[r] = conn[r]
    BY <1>10, <1>11, <1>12
  <2>2. SameReplica(node[m], t)
    BY <1>1, <1>9
  <2> QED BY <1>2, <1>9, <2>1, <2>2, SlavesStep
<1> QED BY <1>2, <1>6, <1>7, <1>8, <1>12, <1>13 DEF Inv

-----------------------------------------------------------------------------
(* The steps of a PSYNC                                                    *)

\* A replica whose PSYNC was accepted waits for the reply.
Accepted(s) == [s EXCEPT !.rstate = "receive_psync"]

\* Its state stays in order.
LEMMA AcceptedOK ==
    ASSUME NEW n, NEW i, NEW s, NodeOK(n, s, i), s.rstate = "connect"
    PROVE  LET t == Accepted(s)
           IN /\ NodeOK(n, t, i) /\ SameForSlaves(s, t) /\ t.rstate = "receive_psync"
              /\ t.masterhost = s.masterhost /\ t.cached = s.cached /\ t.off = s.off
<1>1. PICK t : t = Accepted(s)
  OBVIOUS
<1>2. s \in State(i)
  BY DEF NodeOK, NodeBase
<1>3. t \in State(i)
  BY <1>1, <1>2 DEF State, Accepted
<1>4. /\ t.replid = s.replid /\ t.off = s.off /\ t.child = s.child /\ t.backlog = s.backlog
      /\ t.rstate = "receive_psync" /\ t.masterhost = s.masterhost /\ t.master = s.master
      /\ t.cached = s.cached /\ t.failover = s.failover
  BY <1>1, <1>2 DEF State, Accepted
<1>5. NodeOK(n, t, i) /\ SameForSlaves(s, t)
  BY <1>3, <1>4 DEF NodeOK, NodeBase, SameForSlaves
<1> QED BY <1>1, <1>4, <1>5

\* m, in state s, accepts r: the connection becomes c.
LEMMA Accept ==
    ASSUME NEW nd, NEW cn, NEW i, Good(nd, cn, i), NEW r \in Server, nd[r].rstate = "connect",
           NEW c, ConnOK(Accepted(nd[r]), c, nd[c.to], i)
    PROVE  Good([nd EXCEPT ![r] = Accepted(nd[r])], [cn EXCEPT ![r] = c], i)
<1>1. i \in Nat /\ i <= i /\ NodeOK(r, nd[r], i)
  BY DEF Good
<1>2. PICK t : t = Accepted(nd[r])
  OBVIOUS
<1>3. NodeOK(r, t, i) /\ SameForSlaves(nd[r], t)
  BY <1>1, <1>2, AcceptedOK
<1>4. ConnOK(t, c, nd[c.to], i)
  BY <1>2
<1>5. Good([nd EXCEPT ![r] = t], [cn EXCEPT ![r] = c], i)
  BY <1>1, <1>3, <1>4, OneNodeKept
<1> QED BY <1>2, <1>5

\* The state of m after a PSYNC FAILOVER from r may have promoted it: still a good
\* one, and m is a master or connected to its own.
LEMMA PromotionOK ==
    ASSUME Inv, NEW m \in Server, NEW r \in Server, PsyncAccepted(m, r)
    PROVE  LET req == Request(node[r])
               s == AfterPromotion(m, req)
               j == IF Promotes(node[m], req) THEN ids + 1 ELSE ids
           IN /\ j \in Nat /\ Good([node EXCEPT ![m] = s], ConnAfterPromotion(m, req), j)
              /\ NodeOK(m, s, j) /\ (s.rstate = "none" \/ s.rstate = "connected")
              /\ r # m
<1>1. PICK n, req, s, j : /\ n = node[m] /\ req = Request(node[r]) /\ s = AfterPromotion(m, req)
                          /\ j = IF Promotes(n, req) THEN ids + 1 ELSE ids
  OBVIOUS
<1>2. /\ ids \in Nat /\ NodeOK(m, n, ids) /\ Good(node, conn, ids) /\ NodeOK(r, node[r], ids)
      /\ ConnOK(n, conn[m], node[conn[m].to], ids)
      /\ conn \in [Server -> Conn(ids)] /\ node \in [Server -> State(ids)]
  BY <1>1, Known DEF Inv, Good
<1>3. j \in Nat /\ ids <= j
  BY <1>1, <1>2
<1>4. r # m
  BY <1>2 DEF PsyncAccepted, NodeOK, NodeBase
<1>5. CASE Promotes(n, req)
  <2>1. s = UnsetMaster(n, j) /\ j \in 1 .. j /\ j = ids + 1
    BY <1>1, <1>2, <1>5 DEF AfterPromotion
  <2>2. NodeBase(m, s, j) /\ s.rstate = "none"
    BY <1>2, <1>3, <2>1, UnsetMasterOK DEF NodeOK
  <2>3. NodeOK(m, s, j) /\ ConnOK(s, NoConn, node[NoConn.to], j)
    BY <1>3, <2>2, NoConnOK DEF NodeOK, Attempts
  <2>4. ConnAfterPromotion(m, req) = [DisconnectSlaves(conn, m) EXCEPT ![m] = NoConn]
    BY <1>1, <1>5 DEF ConnAfterPromotion
  <2>5. Good([node EXCEPT ![m] = s], [DisconnectSlaves(conn, m) EXCEPT ![m] = NoConn], j)
    BY <1>2, <1>3, <2>3, OneNodeClosed
  <2> QED BY <1>1, <1>3, <1>4, <2>2, <2>3, <2>4, <2>5
<1>6. CASE ~Promotes(n, req)
  <2>1. s = n /\ j = ids /\ ConnAfterPromotion(m, req) = conn
    BY <1>1, <1>6 DEF AfterPromotion, ConnAfterPromotion
  <2>2. [node EXCEPT ![m] = s] = node
    BY <1>1, <1>2, <2>1
  <2>3. s.rstate = "none" \/ s.rstate = "connected"
    BY <1>1, <1>2, <1>6, <2>1 DEF PsyncAccepted, Unavailable, NodeOK, NodeBase
  <2> QED BY <1>1, <1>2, <1>3, <1>4, <2>1, <2>2, <2>3
<1> QED BY <1>5, <1>6

\* The part of a backlog from an offset on reaches to its end.
LEMMA Missing ==
    ASSUME NEW b \in Seq(Cmd), NEW first \in Nat, NEW o \in Nat, o >= first, o <= first + Len(b)
    PROVE  LET q == SubSeq(b, o - first + 1, Len(b))
           IN q \in Seq(Cmd) /\ o + Len(q) = first + Len(b)
<1>1. PICK l, k, q : l = Len(b) /\ k = o - first + 1 /\ q = SubSeq(b, o - first + 1, Len(b))
  OBVIOUS
<1>2. l \in Nat /\ k \in 1 .. l + 1 /\ q = SubSeq(b, k, l)
  BY <1>1
<1>3. Len(q) = (IF k <= l THEN l - k + 1 ELSE 0)
  BY <1>1, <1>2
<1>4. q \in Seq(Cmd)
  <2>1. \A j \in k .. l : j \in 1 .. l
    BY <1>2
  <2> QED BY <1>1, <1>2, <2>1
<1>5. o + Len(q) = first + l
  <2>1. PICK v : v = Len(q)
    OBVIOUS
  <2>2. v = l - k + 1
    BY <1>2, <1>3, <2>1
  <2>3. o + v = first + l
    BY <1>1, <1>2, <2>2
  <2> QED BY <2>1, <2>3
<1> QED BY <1>1, <1>4, <1>5

Continued(m, id, b) ==
    [to |-> m, open |-> TRUE, st |-> "online", out |-> <<>>,
     q |-> <<[op |-> "continue", id |-> id]>> \o b]

\* +CONTINUE and the commands that the replica, in state n, does not have.
LEMMA ContinuedOK ==
    ASSUME NEW i \in Nat, NEW m \in Server, NEW n \in State(i), NEW w \in State(i), NEW b \in Seq(Cmd),
           n.rstate = "receive_psync", n.masterhost = m, n.cached # Nothing, w.backlog # Nothing,
           n.off + Len(b) = w.off
    PROVE  ConnOK(n, Continued(m, w.replid, b), w, i) /\ Continued(m, w.replid, b).to = m
<1>1. PICK x, e, z : x = [op |-> "continue", id |-> w.replid] /\ e = <<>> /\ z = TRUE
  OBVIOUS
<1>2. PICK y : y = <<x>>
  OBVIOUS
<1>3. PICK q, c : q = y \o b /\ c = Continued(m, w.replid, b)
  OBVIOUS
<1>4. x \in ContinueMsg(i) /\ x.id = w.replid /\ x \in Msg(i) /\ Cmd \subseteq Msg(i)
  <2>1. w.replid \in 1 .. i
    BY DEF State
  <2>2. x \in ContinueMsg(i) /\ x.id = w.replid
    BY <1>1, <2>1 DEF ContinueMsg
  <2> QED BY <2>2 DEF Msg
<1>5. y \in Seq(Msg(i)) /\ Len(y) = 1 /\ y[1] = x
  BY <1>2, <1>4
<1>6. PICK l \in Nat : l = Len(b)
  OBVIOUS
<1>7. /\ q \in Seq(Msg(i)) /\ Len(q) = Len(y) + Len(b) /\ \A j \in 1 .. Len(y) : q[j] = y[j]
      /\ \A k \in 1 .. Len(y) + 1 :
            (\A j \in k .. Len(y) : y[j] \in Cmd) => \A j \in k .. Len(q) : q[j] \in Cmd
  <2>1. y \in Seq(Msg(i)) /\ Cmd \subseteq Msg(i) /\ q = y \o b
    BY <1>3, <1>4, <1>5
  <2> QED BY <2>1, Appended
<1>8. q[1] = x /\ Len(q) = 1 + l /\ Len(q) >= 1 /\ CommandsFrom(q, 2)
  <2>1. 1 \in 1 .. Len(y) /\ 2 \in 1 .. Len(y) + 1 /\ \A j \in 2 .. Len(y) : y[j] \in Cmd
    BY <1>5
  <2> QED BY <1>5, <1>6, <1>7, <2>1 DEF CommandsFrom
<1>9. e \in Seq(Cmd) /\ Len(e) = 0 /\ z \in BOOLEAN
  <2>1. <<>> \in Seq(Cmd) /\ Len(<<>>) = 0 /\ TRUE \in BOOLEAN
    OBVIOUS
  <2> QED BY <1>1, <2>1, Zenon
<1>10. /\ c \in Conn(i) /\ c.to = m /\ c.st = "online" /\ c.q = q /\ c.out = e
  <2>1. c = [to |-> m, open |-> z, st |-> "online", out |-> e, q |-> q]
    BY <1>1, <1>2, <1>3 DEF Continued
  <2>2. q \in Seq(Msg(i)) /\ e \in Seq(Cmd) /\ z \in BOOLEAN
    BY <1>7, <1>9
  <2> QED BY <2>1, <2>2 DEF Conn
<1>11. Ends(c, w, w.replid, n.off, 1)
  <2>1. PICK u, v : u = n.off /\ v = w.off
    OBVIOUS
  <2>2. u \in Nat /\ v \in Nat /\ u + l = v
    BY <1>6, <2>1 DEF State
  <2>3. Pending(c) = (1 + l) + 0
    BY <1>8, <1>9, <1>10 DEF Pending
  <2>4. u + ((1 + l) + 0) = v + 1
    BY <2>2
  <2> QED BY <2>1, <2>3, <2>4 DEF Ends
<1>12. ContinueAhead(n, c, w, i)
  BY <1>1, <1>4, <1>8, <1>10, <1>11 DEF ContinueAhead
<1> QED BY <1>3, <1>10, <1>12 DEF ConnOK, LinkOK, Attempts

\* A partial resynchronisation.
LEMMA PsyncContinueStep ==
    ASSUME Inv, NEW m \in Server, NEW r \in Server, PsyncContinue(m, r)
    PROVE  Inv'
<1>1. PICK n, req : n = node[r] /\ req = Request(node[r])
  OBVIOUS
<1>2. PICK s, cn, j, nd :
          /\ s = AfterPromotion(m, req) /\ cn = ConnAfterPromotion(m, req)
          /\ j = (IF Promotes(node[m], req) THEN ids + 1 ELSE ids) /\ nd = [node EXCEPT ![m] = s]
  OBVIOUS
<1>3. /\ ids \in Nat /\ NodeOK(r, n, ids) /\ node \in [Server -> State(ids)]
      /\ used \in [Counters -> Nat] /\ rdb \in [Server -> Maybe(File(ids))]
  BY <1>1, Known DEF Inv, Good
<1>4. PsyncAccepted(m, r) /\ n.rstate = "connect" /\ n.masterhost = m
  BY <1>1 DEF PsyncContinue, PsyncAccepted
<1>5. /\ j \in Nat /\ Good(nd, cn, j) /\ NodeOK(m, s, j) /\ r # m
  BY <1>1, <1>2, <1>4, PromotionOK
<1>6. ids <= j
  BY <1>2, <1>3
<1>7. PICK b : b = SubSeq(s.backlog.buf, req.off - s.backlog.first + 1, Len(s.backlog.buf))
  OBVIOUS
<1>8. /\ CanContinue(s, req) /\ ids' = j /\ rdb' = rdb /\ used' = used
      /\ node' = [node EXCEPT ![m] = s, ![r].rstate = "receive_psync"]
      /\ conn' = [cn EXCEPT ![r] = Continued(m, s.replid, b)]
  BY <1>1, <1>2, <1>7 DEF PsyncContinue, Continued
<1>9. nd[r] = n /\ nd[m] = s /\ s \in State(j)
  BY <1>1, <1>2, <1>3, <1>5 DEF NodeOK, NodeBase
<1>10. PICK t : t = Accepted(n)
  OBVIOUS
<1>11. node' = [nd EXCEPT ![r] = t]
  BY <1>1, <1>2, <1>3, <1>5, <1>8, <1>10 DEF Accepted
<1>12. s.backlog # Nothing /\ s.backlog \in Backlog
  BY <1>5, <1>8, <1>9, PresentFields DEF CanContinue
<1>13. n.cached # Nothing /\ req.off = n.off + 1 /\ n.off \in Nat
  <2>1. n \in State(ids)
    BY <1>3 DEF NodeOK, NodeBase
  <2>2. n.cached.present
    BY <1>1, <1>8 DEF CanContinue, Request
  <2>3. n.cached # Nothing /\ n.cached.off = n.off
    BY <1>3, <2>1, <2>2, PresentFields DEF NodeOK, NodeBase
  <2>4. req.off = n.off + 1
    BY <1>1, <2>2, <2>3 DEF Request
  <2> QED BY <2>1, <2>3, <2>4 DEF State
<1>14. b \in Seq(Cmd) /\ n.off + Len(b) = s.off
  <2>1. PICK f, z, o, u, v : f = s.backlog.first /\ z = s.backlog.buf /\ o = req.off /\ u = n.off /\ v = s.off
    OBVIOUS
  <2>2. f \in Nat /\ z \in Seq(Cmd)
    BY <1>12, <2>1 DEF Backlog
  <2>3. v = f + Len(z) - 1
    BY <1>5, <1>12, <2>1 DEF NodeOK, NodeBase
  <2>4. o = u + 1 /\ u \in Nat /\ o \in Nat /\ v \in Nat
    BY <1>9, <1>13, <2>1 DEF State
  <2>5. o >= f /\ o <= f + Len(z) /\ b = SubSeq(z, o - f + 1, Len(z))
    BY <1>7, <1>8, <2>1 DEF CanContinue
  <2>6. b \in Seq(Cmd) /\ o + Len(b) = f + Len(z)
    BY <2>2, <2>4, <2>5, Missing
  <2>7. PICK l, k \in Nat : l = Len(b) /\ k = Len(z)
    BY <2>2, <2>6
  <2>8. u + l = v
    BY <2>2, <2>3, <2>4, <2>6, <2>7
  <2> QED BY <2>1, <2>6, <2>7, <2>8
<1>15. /\ NodeOK(r, t, ids) /\ t.rstate = "receive_psync" /\ t.masterhost = m
       /\ t.cached = n.cached /\ t.off = n.off
  BY <1>3, <1>4, <1>10, AcceptedOK
<1>16. t \in State(j)
  <2>1. State(ids) \subseteq State(j)
    BY <1>3, <1>5, <1>6, MoreIds
  <2> QED BY <1>15, <2>1 DEF NodeOK, NodeBase
<1>17. PICK c : c = Continued(m, s.replid, b)
  OBVIOUS
<1>18. ConnOK(t, c, s, j) /\ c.to = m
  <2>1. t.cached # Nothing /\ t.off + Len(b) = s.off
    BY <1>13, <1>14, <1>15
  <2>2. b \in Seq(Cmd) /\ s.backlog # Nothing
    BY <1>12, <1>14
  <2> QED BY <1>5, <1>9, <1>15, <1>16, <1>17, <2>1, <2>2, ContinuedOK
<1>19. Good([nd EXCEPT ![r] = t], [cn EXCEPT ![r] = c], j)
  <2>1. ConnOK(Accepted(nd[r]), c, nd[c.to], j) /\ nd[r].rstate = "connect" /\ t = Accepted(nd[r])
    BY <1>4, <1>9, <1>10, <1>18
  <2> QED BY <1>5, <2>1, Accept
<1>20. Good(node', conn', j)
  <2>1. conn' = [cn EXCEPT ![r] = c]
    BY <1>8, <1>17
  <2> QED BY <1>11, <1>19, <2>1
<1> QED BY <1>3, <1>5, <1>6, <1>8, <1>20, FilesStay DEF Inv

\* A slave that is collecting differences has all of them since the fork.
LEMMA DonorOK ==
    ASSUME NEW i \in Nat, NEW s \in State(i), NEW c, NEW m, ConnOK(s, c, m, i), c.open,
           c.st = "wait_end", m.off \in Nat
    PROVE  /\ c.out \in Seq(Cmd) /\ m.child.off \in Nat /\ m.child.off + Len(c.out) = m.off
           /\ m.replid = m.child.id /\ m.backlog # Nothing
<1>1. Announced(s, c, m, i) \/ AwaitsFile(s, c, m)
  BY OpenPhase
<1>2. PICK q, x, l, k, v : q = c.q /\ x = c.out /\ l = Len(c.out) /\ k = Len(c.q) /\ v = m.off
  OBVIOUS
<1>3. x \in Seq(Cmd) /\ l \in Nat /\ v \in Nat
  <2>1. c \in Conn(i)
    BY OpenPhase
  <2>2. c.out \in Seq(Cmd)
    BY <2>1 DEF Conn
  <2> QED BY <1>2, <2>2
<1>4. CASE Announced(s, c, m, i)
  <2>1. PICK f : f = c.q[1]
    OBVIOUS
  <2>2. /\ k = 1 /\ f \in FullMsg(i) /\ Ends(c, m, f.id, f.off, 1) /\ Collects(c, m, f)
    BY <1>2, <1>4, <2>1 DEF Announced
  <2>3. /\ m.backlog # Nothing /\ m.replid = f.id /\ f.off + (k + l) = v + 1
        /\ m.child.id = f.id /\ m.child.off = f.off
    BY <1>2, <2>2 DEF Ends, Pending, Collects
  <2>4. PICK o \in Nat : o = f.off
    BY <2>2 DEF FullMsg
  <2>5. o + (k + l) = v + 1
    BY <2>3, <2>4
  <2>6. o + l = v
    BY <1>3, <2>2, <2>5
  <2> QED BY <1>2, <1>3, <2>3, <2>4, <2>6
<1>5. CASE AwaitsFile(s, c, m)
  <2>1. PICK f : f = s.sync
    OBVIOUS
  <2>2. /\ k = 0 /\ f \in FullMsg(i) /\ Ends(c, m, f.id, f.off, 0) /\ Collects(c, m, f)
    BY <1>2, <1>5, <2>1, PresentFields DEF AwaitsFile
  <2>3. /\ m.backlog # Nothing /\ m.replid = f.id /\ f.off + (k + l) = v + 0
        /\ m.child.id = f.id /\ m.child.off = f.off
    BY <1>2, <2>2 DEF Ends, Pending, Collects
  <2>4. PICK o \in Nat : o = f.off
    BY <2>2 DEF FullMsg
  <2>5. o + (k + l) = v + 0
    BY <2>3, <2>4
  <2>6. o + l = v
    BY <1>3, <2>2, <2>5
  <2> QED BY <1>2, <1>3, <2>3, <2>4, <2>6
<1> QED BY <1>1, <1>4, <1>5

\* The state of the master, after a promotion, when it serves a full
\* resynchronisation: without a backlog a new history begins.
Serving(s, id) == IF s.backlog # Nothing THEN s ELSE NewStart(s, id, NewBacklog(s.off))

\* The instances and connections are still in order.
LEMMA ServesFull ==
    ASSUME NEW nd, NEW cn, NEW i, Good(nd, cn, i), NEW j \in Nat, i <= j, NEW m \in Server,
           nd[m].rstate = "none" \/ nd[m].rstate = "connected", NEW id \in 1 .. j,
           NEW t, t = Serving(nd[m], id)
    PROVE  /\ Good([nd EXCEPT ![m] = t], cn, j) /\ NodeOK(m, t, j) /\ t.backlog # Nothing
           /\ t.seldb \in Dbs \cup {NoDb}
<1>1. PICK s : s = nd[m]
  OBVIOUS
<1>2. /\ i \in Nat /\ NodeOK(m, s, i) /\ cn \in [Server -> Conn(i)] /\ cn[m].to # m
      /\ ConnOK(s, cn[m], nd[cn[m].to], i)
  BY <1>1, Reached DEF Good
<1>3. cn = [cn EXCEPT ![m] = cn[m]]
  BY <1>2, OwnConn
<1>4. CASE s.backlog # Nothing
  <2>1. t = s
    BY <1>1, <1>4 DEF Serving
  <2>2. NodeOK(m, t, j) /\ SameForSlaves(s, t)
    BY <1>2, <2>1, NodeMoreIds DEF SameForSlaves
  <2>3. ConnOK(t, cn[m], nd[cn[m].to], j)
    BY <1>2, <2>1, LinkStays DEF SameForSlaves
  <2>4. Good([nd EXCEPT ![m] = t], [cn EXCEPT ![m] = cn[m]], j)
    BY <1>1, <1>2, <2>2, <2>3, OneNodeKept
  <2> QED BY <1>3, <1>4, <2>1, <2>2, <2>4 DEF NodeOK, NodeBase, State
<1>5. CASE s.backlog = Nothing
  <2>1. PICK b : b = NewBacklog(s.off)
    OBVIOUS
  <2>2. t = NewStart(s, id, b)
    BY <1>1, <1>5, <2>1 DEF Serving
  <2>3. s.rstate = "none" /\ s.masterhost = NoServer /\ s.off \in Nat
    BY <1>1, <1>2, <1>5 DEF NodeOK, NodeBase, State
  <2>4. b # Nothing
    BY <2>1, <2>3, NewBacklogOK
  <2>5. NodeOK(m, t, j) /\ t.rstate = "none" /\ t.backlog = b
    BY <1>2, <2>1, <2>2, <2>3, NewHistoryOK
  <2>6. ConnOK(t, cn[m], nd[cn[m].to], j)
    BY <1>2, <2>3, <2>5, IdleOK DEF Attempts
  <2>7. \A r \in Server : ~(cn[r].to = m /\ cn[r].open)
    BY <1>1, <1>5, Reached
  <2>8. Good([nd EXCEPT ![m] = t], [cn EXCEPT ![m] = cn[m]], j)
    BY <1>2, <2>5, <2>6, <2>7, OneNodeKept
  <2> QED BY <1>3, <2>4, <2>5, <2>8 DEF NodeOK, NodeBase, State
<1> QED BY <1>4, <1>5

Waits(m) == [NoConn EXCEPT !.to = m, !.open = TRUE, !.st = "wait_start"]

\* A slave queued for the next BGSAVE.
LEMMA WaitsOK ==
    ASSUME NEW i \in Nat, NEW m \in Server, NEW n, NEW w, n.rstate = "receive_psync",
           n.masterhost = m, w.backlog # Nothing
    PROVE  ConnOK(n, Waits(m), w, i) /\ Waits(m).to = m
<1>1. PICK c, e, z : c = Waits(m) /\ e = <<>> /\ z = TRUE
  OBVIOUS
<1>2. e \in Seq(Msg(i)) /\ e \in Seq(Cmd) /\ z \in BOOLEAN
  <2>1. <<>> \in Seq(Msg(i)) /\ <<>> \in Seq(Cmd) /\ TRUE \in BOOLEAN
    OBVIOUS
  <2> QED BY <1>1, <2>1, Zenon
<1>3. c = [to |-> m, open |-> z, st |-> "wait_start", q |-> e, out |-> e]
  BY <1>1 DEF Waits, NoConn
<1>4. c \in Conn(i) /\ c.to = m /\ c.st = "wait_start" /\ c.q = e /\ c.out = e
  BY <1>2, <1>3 DEF Conn
<1>5. Queued(n, c, w)
  BY <1>1, <1>4 DEF Queued
<1> QED BY <1>1, <1>4, <1>5 DEF ConnOK, LinkOK, Attempts

Joins(m, f, out) == [to |-> m, open |-> TRUE, st |-> "wait_end", q |-> FullResync(f), out |-> out]

\* A slave that joins a BGSAVE with the differences of another.
LEMMA JoinsOK ==
    ASSUME NEW i \in Nat, NEW m \in Server, NEW n, NEW w, NEW f \in File(i), NEW out \in Seq(Cmd),
           n.rstate = "receive_psync", n.masterhost = m, w.off \in Nat, f.off \in Nat,
           w.child = f, w.backlog # Nothing, w.replid = f.id, f.off + Len(out) = w.off
    PROVE  ConnOK(n, Joins(m, f, out), w, i) /\ Joins(m, f, out).to = m
<1>1. PICK d, q, x, z : /\ d = Joins(m, f, out) /\ q = FullResync(f) /\ x = FullResync(f)[1]
                        /\ z = TRUE
  OBVIOUS
<1>2. f.id \in 1 .. i /\ f # Nothing
  <2>1. f.id \in 1 .. i
    BY DEF File
  <2> QED BY <2>1, Present
<1>3. /\ x = [op |-> "fullresync", id |-> f.id, off |-> f.off] /\ q = <<x>>
  BY <1>1 DEF FullResync
<1>4. x \in FullMsg(i) /\ x.id = f.id /\ x.off = f.off
  BY <1>2, <1>3 DEF FullMsg
<1>5. q \in Seq(Msg(i)) /\ Len(q) = 1 /\ q[1] = x
  <2>1. x \in Msg(i)
    BY <1>4 DEF Msg
  <2> QED BY <1>3, <2>1
<1>6. d \in Conn(i) /\ d.to = m /\ d.st = "wait_end" /\ d.q = q /\ d.out = out
  <2>1. d = [to |-> m, open |-> z, st |-> "wait_end", q |-> q, out |-> out]
    BY <1>1 DEF Joins
  <2>2. q \in Seq(Msg(i)) /\ z \in BOOLEAN
    BY <1>1, <1>5
  <2> QED BY <2>1, <2>2 DEF Conn
<1>7. Ends(d, w, x.id, x.off, 1)
  <2>1. PICK l, u, v : l = Len(out) /\ u = f.off /\ v = w.off
    OBVIOUS
  <2>2. l \in Nat /\ u \in Nat /\ v \in Nat /\ u + l = v
    BY <2>1
  <2>3. Pending(d) = 1 + l
    BY <1>5, <1>6, <2>1 DEF Pending
  <2>4. u + (1 + l) = v + 1
    BY <2>2
  <2> QED BY <1>4, <2>1, <2>3, <2>4 DEF Ends
<1>8. Collects(d, w, x)
  BY <1>2, <1>4 DEF Collects
<1>9. Announced(n, d, w, i)
  BY <1>4, <1>5, <1>6, <1>7, <1>8 DEF Announced
<1> QED BY <1>1, <1>6, <1>9 DEF ConnOK, LinkOK, Attempts

\* A full resynchronisation is promised.
LEMMA PsyncFullStep ==
    ASSUME Inv, NEW m \in Server, NEW r \in Server, PsyncFull(m, r)
    PROVE  Inv'
<1>1. PICK n, req : n = node[r] /\ req = Request(node[r])
  OBVIOUS
<1>2. PICK s, cn, i, nd :
          /\ s = AfterPromotion(m, req) /\ cn = ConnAfterPromotion(m, req)
          /\ i = (IF Promotes(node[m], req) THEN ids + 1 ELSE ids) /\ nd = [node EXCEPT ![m] = s]
  OBVIOUS
<1>3. /\ ids \in Nat /\ NodeOK(r, n, ids) /\ node \in [Server -> State(ids)]
      /\ used \in [Counters -> Nat] /\ rdb \in [Server -> Maybe(File(ids))]
  BY <1>1, Known DEF Inv, Good
<1>4. PsyncAccepted(m, r) /\ n.rstate = "connect" /\ n.masterhost = m
  BY <1>1 DEF PsyncFull, PsyncAccepted
<1>5. /\ i \in Nat /\ Good(nd, cn, i) /\ NodeOK(m, s, i) /\ r # m
      /\ s.rstate = "none" \/ s.rstate = "connected"
  BY <1>1, <1>2, <1>4, PromotionOK
<1>6. nd[r] = n /\ nd[m] = s /\ s \in State(i)
  BY <1>1, <1>2, <1>3, <1>5 DEF NodeOK, NodeBase
<1>7. s.backlog.present <=> s.backlog # Nothing
  BY <1>5, <1>6, PresentFields
<1>8. PICK j, b, t : /\ j = IF s.backlog.present /\ ~Promotes(node[m], req) THEN ids ELSE ids + 2
                     /\ b = NewBacklog(s.off)
                     /\ t = IF s.backlog.present THEN s ELSE NewStart(s, ids + 2, NewBacklog(s.off))
  OBVIOUS
<1>9. j \in Nat /\ ids <= j /\ i <= j
  BY <1>2, <1>3, <1>8
<1>10. PICK ne : ne = [nd EXCEPT ![m] = t]
  OBVIOUS
<1>11. Good(ne, cn, j) /\ NodeOK(m, t, j) /\ t.backlog # Nothing /\ t.seldb \in Dbs \cup {NoDb}
  <2>1. CASE s.backlog # Nothing
    <3>1. t = s
      BY <1>7, <1>8, <2>1
    <3>2. PICK id \in 1 .. j : id = s.replid
      <4>1. NodeOK(m, s, j)
        BY <1>5, <1>9, NodeMoreIds
      <4> QED BY <4>1 DEF NodeOK, NodeBase, State
    <3>3. t = Serving(nd[m], id) /\ (nd[m].rstate = "none" \/ nd[m].rstate = "connected")
      BY <1>5, <1>6, <2>1, <3>1 DEF Serving
    <3> QED BY <1>5, <1>9, <1>10, <3>3, ServesFull
  <2>2. CASE s.backlog = Nothing
    <3>1. j = ids + 2 /\ t = NewStart(s, j, NewBacklog(s.off)) /\ j \in 1 .. j
      BY <1>3, <1>7, <1>8, <2>2
    <3>2. PICK id \in 1 .. j : id = j
      BY <3>1
    <3>3. t = Serving(nd[m], id) /\ (nd[m].rstate = "none" \/ nd[m].rstate = "connected")
      BY <1>5, <1>6, <2>2, <3>1, <3>2 DEF Serving
    <3> QED BY <1>5, <1>9, <1>10, <3>3, ServesFull
  <2> QED BY <2>1, <2>2
<1>12. ne = [node EXCEPT ![m] = t] /\ ne[m] = t /\ ne[r] = n /\ ne \in [Server -> State(j)]
  <2>1. ne = [node EXCEPT ![m] = t]
    BY <1>2, <1>10
  <2> QED BY <1>1, <1>3, <1>5, <1>11, <2>1 DEF Good
<1>13. t \in State(j) /\ t.off \in Nat /\ (t.child.present <=> t.child # Nothing)
       /\ (t.child # Nothing => t.child \in File(j))
  <2>1. t \in State(j)
    BY <1>11 DEF NodeOK, NodeBase
  <2> QED BY <1>9, <2>1, PresentFields DEF State
<1>14. PICK u : u = Accepted(n)
  OBVIOUS
<1>15. u.rstate = "receive_psync" /\ u.masterhost = m
  BY <1>3, <1>4, <1>14, AcceptedOK
<1>16. ids' = j /\ rdb' = rdb /\ used' = used
  BY <1>1, <1>2, <1>8 DEF PsyncFull
<1>17. \/ /\ node' = [node EXCEPT ![m] = t, ![r].rstate = "receive_psync"]
          /\ conn' = [cn EXCEPT ![r] = Waits(m)]
       \/ /\ t.child.present
          /\ node' = [node EXCEPT ![m] = [t EXCEPT !.seldb = NoDb], ![r].rstate = "receive_psync"]
          /\ \E x \in Server :
                /\ cn[x].to = m /\ cn[x].open /\ cn[x].st = "wait_end"
                /\ conn' = [cn EXCEPT ![r] = Joins(m, t.child, cn[x].out)]
  BY ZenonT(60), <1>1, <1>2, <1>8 DEF PsyncFull, NewStart, Waits, Joins, CopyOutput
<1>18. CASE /\ node' = [node EXCEPT ![m] = t, ![r].rstate = "receive_psync"]
            /\ conn' = [cn EXCEPT ![r] = Waits(m)]
  <2>1. node' = [ne EXCEPT ![r] = u]
    BY <1>1, <1>3, <1>5, <1>12, <1>14, <1>18 DEF Accepted
  <2>2. PICK c : c = Waits(m)
    OBVIOUS
  <2>3. ConnOK(u, c, t, j) /\ c.to = m
    BY <1>9, <1>11, <1>15, <2>2, WaitsOK
  <2>4. ConnOK(Accepted(ne[r]), c, ne[c.to], j) /\ ne[r].rstate = "connect" /\ u = Accepted(ne[r])
    BY <1>4, <1>12, <1>14, <2>3
  <2>5. Good([ne EXCEPT ![r] = u], [cn EXCEPT ![r] = c], j)
    BY <1>11, <2>4, Accept
  <2>6. Good(node', conn', j)
    BY <1>18, <2>1, <2>2, <2>5
  <2> QED BY <1>3, <1>9, <1>16, <2>6, FilesStay DEF Inv
<1>19. CASE /\ t.child.present
            /\ node' = [node EXCEPT ![m] = [t EXCEPT !.seldb = NoDb], ![r].rstate = "receive_psync"]
            /\ \E x \in Server :
                  /\ cn[x].to = m /\ cn[x].open /\ cn[x].st = "wait_end"
                  /\ conn' = [cn EXCEPT ![r] = Joins(m, t.child, cn[x].out)]
  <2>1. PICK f, d, w : f = t.child /\ d = NoDb /\ w = Forked(t, t.child, NoDb)
    OBVIOUS
  <2>2. NodeOK(m, w, j) /\ SameReplica(t, w) /\ w.backlog = t.backlog /\ w.child = f
    <3>1. f \in Maybe(File(j)) /\ d \in Dbs \cup {NoDb}
      BY <1>13, <2>1 DEF Maybe
    <3>2. w = Forked(t, f, d) /\ NodeOK(m, t, j) /\ j \in Nat
      BY <1>9, <1>11, <2>1
    <3> QED BY <3>1, <3>2, ForkedOK
  <2>3. cn \in [Server -> Conn(j)] /\ \A x \in Server : ConnOK(ne[x], cn[x], ne[cn[x].to], j)
    BY <1>11 DEF Good
  <2>4. ASSUME NEW x \in Server, cn[x].to = m
        PROVE  cn[x].to = m /\ ConnOK(ne[x], cn[x], w, j)
    <3>1. ConnOK(ne[x], cn[x], t, j)
      BY <1>12, <2>3, <2>4
    <3>2. w.replid = t.replid /\ w.off = t.off /\ w.backlog = t.backlog /\ w.child = t.child
      BY <2>1, <2>2 DEF SameReplica
    <3>3. ConnOK(ne[x], cn[x], w, j)
      BY <3>1, <3>2, LinkKept
    <3> QED BY <2>4, <3>3
  <2>5. PICK nf : nf = [ne EXCEPT ![m] = w]
    OBVIOUS
  <2>6. Good(nf, cn, j)
    <3>1. SameReplica(ne[m], w)
      BY <1>12, <2>2
    <3>2. \A x \in Server : cn[x].to = m => cn[x].to = m /\ ConnOK(ne[x], cn[x], w, j)
      BY <2>4
    <3> QED BY <1>11, <2>2, <2>3, <2>5, <3>1, <3>2, SlavesStep
  <2>7. nf[m] = w /\ nf[r] = n /\ nf = [node EXCEPT ![m] = w]
    BY <1>5, <1>12, <2>5
  <2>8. PICK x \in Server :
            /\ cn[x].to = m /\ cn[x].open /\ cn[x].st = "wait_end"
            /\ conn' = [cn EXCEPT ![r] = Joins(m, f, cn[x].out)]
    BY <1>19, <2>1
  <2>9. PICK out, c : out = cn[x].out /\ c = Joins(m, f, cn[x].out)
    OBVIOUS
  <2>10. /\ out \in Seq(Cmd) /\ f.off \in Nat /\ f.off + Len(out) = t.off
         /\ t.replid = f.id
    <3>1. PICK k, y : k = cn[x] /\ y = ne[x]
      OBVIOUS
    <3>2. ConnOK(y, k, t, j) /\ k.open /\ k.st = "wait_end" /\ y \in State(j) /\ t.off \in Nat
      BY <1>12, <1>13, <2>3, <2>8, <3>1
    <3>3. /\ k.out \in Seq(Cmd) /\ t.child.off \in Nat /\ t.child.off + Len(k.out) = t.off
          /\ t.replid = t.child.id
      BY <1>9, <3>2, DonorOK
    <3> QED BY <2>1, <2>9, <3>1, <3>3
  <2>11. ConnOK(u, c, w, j) /\ c.to = m
    <3>1. f \in File(j) /\ c = Joins(m, f, out) /\ w.off = t.off /\ w.replid = f.id
          /\ w.backlog # Nothing /\ w.child = f
      BY <1>11, <1>13, <1>19, <2>1, <2>2, <2>9, <2>10 DEF SameReplica
    <3>2. f.off + Len(out) = w.off /\ w.off \in Nat /\ f.off \in Nat
      BY <1>13, <2>10, <3>1
    <3>3. out \in Seq(Cmd) /\ j \in Nat
      BY <1>9, <2>10
    <3> QED BY <1>15, <3>1, <3>2, <3>3, JoinsOK
  <2>12. ConnOK(Accepted(nf[r]), c, nf[c.to], j) /\ nf[r].rstate = "connect" /\ u = Accepted(nf[r])
    BY <1>4, <1>14, <2>7, <2>11
  <2>13. Good([nf EXCEPT ![r] = u], [cn EXCEPT ![r] = c], j)
    BY <2>6, <2>12, Accept
  <2>14. node' = [nf EXCEPT ![r] = u]
    <3>1. w = [t EXCEPT !.seldb = NoDb]
      BY <1>13, <2>1 DEF Forked, State
    <3> QED BY <1>1, <1>3, <1>5, <1>14, <1>19, <2>7, <3>1 DEF Accepted
  <2>15. Good(node', conn', j)
    BY <2>8, <2>9, <2>13, <2>14
  <2> QED BY <1>3, <1>9, <1>16, <2>15, FilesStay DEF Inv
<1> QED BY <1>17, <1>18, <1>19

-----------------------------------------------------------------------------
(* The theorems                                                            *)

\* The instances start with the IDs 1, 2, ..., no connection and no file.
LEMMA InitInv == Init => Inv
<1> SUFFICES ASSUME Init PROVE Inv
  OBVIOUS
<1>1. PICK k, id : /\ k = Cardinality(Server)
                   /\ id = CHOOSE f \in Injection(Server, 1 .. Cardinality(Server)) : TRUE
  OBVIOUS
<1>2. /\ node = [n \in Server |-> Fresh(id[n], ReplicaOfConf[n])]
      /\ conn = [n \in Server |-> NoConn] /\ rdb = [n \in Server |-> Nothing] /\ ids = k
  BY <1>1 DEF Init
<1>3. k \in Nat /\ ExistsBijection(Server, 1 .. k)
  BY <1>1, ReplAssumption, FS_CardinalityType, Fun_ExistsBijSymmetric
<1>4. id \in [Server -> 1 .. k]
  <2>1. Injection(Server, 1 .. k) # {}
    BY <1>3 DEF ExistsBijection, Bijection
  <2>2. id \in Injection(Server, 1 .. k)
    BY <1>1, <2>1
  <2> QED BY <2>2 DEF Injection
<1>5. ASSUME NEW n \in Server
      PROVE  /\ NodeOK(n, node[n], k) /\ node[n] \in State(k)
             /\ ConnOK(node[n], conn[n], node[conn[n].to], k) /\ conn[n] \in Conn(k)
  <2>1. PICK s, h, x : s = node[n] /\ h = ReplicaOfConf[n] /\ x = id[n]
    OBVIOUS
  <2>2. s = Fresh(x, h) /\ x \in 1 .. k /\ h \in Server \cup {NoServer} /\ h # n
    BY <1>2, <1>4, <2>1, ReplAssumption
  <2>3. NodeOK(n, s, k) /\ ~Attempts(s)
    BY <1>3, <2>2, FreshOK
  <2>4. conn[n] = NoConn
    BY <1>2
  <2>5. ConnOK(s, NoConn, node[NoConn.to], k)
    BY <1>3, <2>3, NoConnOK
  <2> QED BY <2>1, <2>3, <2>4, <2>5 DEF NodeOK, NodeBase, ConnOK
<1>6. Good(node, conn, k)
  <2>1. node \in [Server -> State(k)] /\ conn \in [Server -> Conn(k)]
    <3>1. PICK a, b : a = node /\ b = conn
      OBVIOUS
    <3>2. /\ a = [n \in Server |-> a[n]] /\ b = [n \in Server |-> b[n]]
      BY <1>2, <3>1
    <3>3. \A n \in Server : a[n] \in State(k) /\ b[n] \in Conn(k)
      BY <1>5, <3>1
    <3> QED BY <3>1, <3>2, <3>3
  <2> QED BY <1>3, <1>5, <2>1 DEF Good
<1>7. rdb \in [Server -> Maybe(File(k))]
  BY <1>2 DEF Maybe
<1>8. used \in [Counters -> Nat]
  <2>1. used \in CounterRecord
    BY DEF Init, CounterRecord
  <2> QED BY <2>1, CountersOK
<1> QED BY <1>2, <1>6, <1>7, <1>8 DEF Inv

\* Every step of the specification preserves the invariant.
LEMMA NextInv == Inv /\ [Next]_vars => Inv'
<1> SUFFICES ASSUME Inv, [Next]_vars PROVE Inv'
  OBVIOUS
<1>1. CASE UNCHANGED vars
  BY <1>1 DEF vars, Inv
<1>2. ASSUME NEW n \in Server, NEW d \in Dbs, Write(n, d) PROVE Inv'
  BY <1>2, WriteStep
<1>3. ASSUME NEW n \in Server, PingSlaves(n) PROVE Inv'
  BY <1>3, PingSlavesStep
<1>4. ASSUME NEW n \in Server, NEW h \in Server, ReplicaOf(n, h) PROVE Inv'
  BY <1>4, ReplicaOfStep
<1>5. ASSUME NEW n \in Server, ReplicaOfNoOne(n) PROVE Inv'
  BY <1>5, ReplicaOfNoOneStep
<1>6. ASSUME NEW n \in Server, Save(n) PROVE Inv'
  BY <1>6, SaveStep
<1>7. ASSUME NEW n \in Server, Restart(n) PROVE Inv'
  BY <1>7, RestartStep
<1>8. ASSUME NEW n \in Server, Replica(n) PROVE Inv'
  BY <1>8, ReceiveFullResyncStep, ReceiveRdbStep, LoadFailsStep, ReceiveContinueStep,
     ReceiveCommandStep, LinkDownStep DEF Replica
<1>9. ASSUME NEW n \in Server, NEW r \in Server, PsyncFailoverFails(n, r) PROVE Inv'
  BY <1>9, PsyncFailoverFailsStep
<1>10. ASSUME NEW n \in Server, NEW r \in Server, PsyncContinue(n, r) PROVE Inv'
  BY <1>10, PsyncContinueStep
<1>11. ASSUME NEW n \in Server, NEW r \in Server, PsyncFull(n, r) PROVE Inv'
  BY <1>11, PsyncFullStep
<1>12. ASSUME NEW n \in Server, StartBgsave(n) PROVE Inv'
  BY <1>12, StartBgsaveStep
<1>13. ASSUME NEW n \in Server, StartBgsaveFails(n) PROVE Inv'
  BY <1>13, StartBgsaveFailsStep
<1>14. ASSUME NEW n \in Server, BgsaveDone(n) PROVE Inv'
  BY <1>14, BgsaveDoneStep
<1>15. ASSUME NEW n \in Server, BgsaveFails(n) PROVE Inv'
  BY <1>15, BgsaveFailsStep
<1>16. ASSUME NEW n \in Server, FreeBacklog(n) PROVE Inv'
  BY <1>16, FreeBacklogStep
<1>17. ASSUME NEW n \in Server, NEW g \in Server \cup {NoServer}, Failover(n, g) PROVE Inv'
  BY <1>17, FailoverStep
<1>18. ASSUME NEW n \in Server, FailoverStart(n) PROVE Inv'
  BY <1>18, FailoverStartStep
<1>19. ASSUME NEW n \in Server, FailoverAbort(n) PROVE Inv'
  BY <1>19, FailoverAbortStep
<1> QED
  BY <1>1, <1>2, <1>3, <1>4, <1>5, <1>6, <1>7, <1>8, <1>9, <1>10, <1>11, <1>12, <1>13, <1>14,
     <1>15, <1>16, <1>17, <1>18, <1>19 DEF Next

\* The inductive invariant holds in every state: types, what each instance keeps
\* about its history, and for each connection the phase its synchronisation is in.
THEOREM Invariance == Spec => []Inv
BY InitInv, NextInv, PTL DEF Spec

\* The replication state of every instance has its type, whatever was written,
\* promoted, demoted, lost or restarted: a replica has a master client or a cached
\* one when and only when the code needs it (the assertion of
\* replicationCacheMaster), a backlog ends at master_repl_offset, and a connection
\* exists exactly while the replica's handshake or link does.
THEOREM TypesCorrect == Spec => []TypeOK
<1>1. Inv => TypeOK
  <2> SUFFICES ASSUME Inv, NEW n \in Server, NEW s, s = node[n]
               PROVE  /\ s.off \in Nat /\ s.replid \in 1 .. ids /\ s.replid2 \in 0 .. ids
                      /\ s.seldb \in Dbs \cup {NoDb}
                      /\ s.masterhost \in (Server \ {n}) \cup {NoServer}
                      /\ s.rstate \in {"none", "connect", "receive_psync", "transfer", "connected"}
                      /\ (s.rstate = "none") = (s.masterhost = NoServer)
                      /\ s.master.present => s.rstate = "connected" /\ ~s.cached.present
                      /\ s.rstate = "connected" => s.master.present
                      /\ s.cached.present => s.masterhost # NoServer
                      /\ s.backlog.present => s.off = s.backlog.first + Len(s.backlog.buf) - 1
                      /\ (conn[n].to = s.masterhost /\ s.masterhost # NoServer)
                           = (s.rstate \notin {"none", "connect"})
    BY DEF TypeOK
  <2>1. ids \in Nat /\ NodeOK(n, s, ids) /\ s \in State(ids)
    BY Known
  <2>2. ConnOK(s, conn[n], node[conn[n].to], ids)
    BY Known
  <2>3. /\ s.off \in Nat /\ s.replid \in 1 .. ids /\ s.replid2 \in 0 .. ids
        /\ s.seldb \in Dbs \cup {NoDb}
        /\ s.rstate \in {"none", "connect", "receive_psync", "transfer", "connected"}
        /\ s.masterhost \in Server \cup {NoServer}
    BY <2>1 DEF State
  <2>4. /\ s.masterhost # n
        /\ s.rstate = "none" <=> s.masterhost = NoServer
        /\ s.rstate = "connected" => s.master # Nothing /\ s.cached = Nothing
        /\ s.rstate # "connected" => s.master = Nothing
        /\ s.rstate = "none" => s.cached = Nothing
    BY <2>1 DEF NodeOK, NodeBase
  <2>5. s.backlog # Nothing => s.off = s.backlog.first + Len(s.backlog.buf) - 1
    BY <2>1 DEF NodeOK, NodeBase
  <2>6. /\ s.master.present <=> s.master # Nothing
        /\ s.cached.present <=> s.cached # Nothing
        /\ s.backlog.present <=> s.backlog # Nothing
    BY <2>1, PresentFields
  <2>7. s.masterhost \in (Server \ {n}) \cup {NoServer}
    BY <2>3, <2>4
  <2>8. (s.rstate = "none") = (s.masterhost = NoServer)
    BY <2>4
  <2>9. s.backlog.present => s.off = s.backlog.first + Len(s.backlog.buf) - 1
    BY <2>5, <2>6
  <2>10. /\ s.master.present => s.rstate = "connected" /\ ~s.cached.present
         /\ s.rstate = "connected" => s.master.present
         /\ s.cached.present => s.masterhost # NoServer
    BY <2>4, <2>6
  <2>11. (conn[n].to = s.masterhost /\ s.masterhost # NoServer) <=> (s.rstate \notin {"none", "connect"})
    BY <2>2, <2>4 DEF ConnOK, Attempts, Idle
  <2> QED BY <2>3, <2>7, <2>8, <2>9, <2>10, <2>11
<1> QED BY <1>1, Invariance, PTL

\* The offset and the replication ID of a replica, of its client to the master and
\* of the cached master never disagree, and a connected replica is behind a live
\* master by exactly the commands on their way to it: no command of the stream is
\* lost, repeated or counted twice, through BGSAVEs shared by slaves, partial
\* resynchronisations, promotions and restarts.
THEOREM OffsetsAgreement == Spec => []OffsetsAgree
<1>1. Inv => OffsetsAgree
  <2> SUFFICES ASSUME Inv, NEW r \in Server, NEW s, s = node[r]
               PROVE  /\ s.rstate = "connected" =>
                           /\ s.master.off = s.off /\ s.master.id = s.replid
                           /\ conn[r].open =>
                                /\ s.replid = node[conn[r].to].replid
                                /\ s.off + Len(conn[r].q) + Len(conn[r].out) = node[conn[r].to].off
                      /\ s.cached.present => s.cached.off = s.off /\ s.cached.id = s.replid
    BY DEF OffsetsAgree
  <2>1. PICK c, m : c = conn[r] /\ m = node[conn[r].to]
    OBVIOUS
  <2>2. ids \in Nat /\ NodeOK(r, s, ids) /\ s \in State(ids) /\ ConnOK(s, c, m, ids)
        /\ (Attempts(s) => m.off \in Nat) /\ c \in Conn(ids)
    BY <2>1, Known
  <2>3. s.cached.present => s.cached.off = s.off /\ s.cached.id = s.replid
    BY <2>2, PresentFields DEF NodeOK, NodeBase
  <2>4. s.rstate = "connected" => s.master.off = s.off /\ s.master.id = s.replid
    BY <2>2 DEF NodeOK, NodeBase
  <2>5. ASSUME s.rstate = "connected", c.open
        PROVE  s.replid = m.replid /\ s.off + Len(c.q) + Len(c.out) = m.off
    <3>1. Ends(c, m, s.replid, s.off, 0) /\ m.off \in Nat
      BY <2>2, <2>5 DEF ConnOK, Attempts, LinkOK, Queued, Announced, FileAhead, ContinueAhead,
                        AwaitsFile, ReadsFile, Streams
    <3>2. PICK a, b, u, v : a = Len(c.q) /\ b = Len(c.out) /\ u = s.off /\ v = m.off
      OBVIOUS
    <3>3. a \in Nat /\ b \in Nat /\ u \in Nat /\ v \in Nat
      BY <2>2, <3>1, <3>2 DEF Conn, State
    <3>4. s.replid = m.replid /\ u + (a + b) = v + 0
      BY <2>5, <3>1, <3>2 DEF Ends, Pending
    <3>5. u + a + b = v
      BY <3>3, <3>4
    <3> QED BY <3>2, <3>4, <3>5
  <2> QED BY <2>1, <2>3, <2>4, <2>5
<1> QED BY <1>1, Invariance, PTL
=============================================================================
