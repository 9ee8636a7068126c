-------------------- MODULE RedisClusterFailoverProofs --------------------
(***************************************************************************)
(* Proofs about RedisClusterFailover, for any nodes, shards, initial       *)
(* replicas and any number of elections, takeovers, restarts and delayed   *)
(* messages.                                                               *)
(***************************************************************************)
EXTENDS RedisClusterFailover, FiniteSetTheorems, WellFoundedInduction, TLAPS

-----------------------------------------------------------------------------
(* The inductive invariant                                                 *)

SavedView == [cur : Nat, lastVote : Nat, of : [Node -> Node \cup {NoNode}],
              epoch : [Node -> Nat], owner : [Slot -> Node]]

Hdr == [from : Node, cur : Nat, of : Node \cup {NoNode}, epoch : Nat, slots : SUBSET Slot]

\* No epoch in a view is greater than its currentEpoch.
EpochsOK(v) ==
    /\ v \in View
    /\ \A m \in Node : v.epoch[m] <= v.cur
    /\ v.lastVote <= v.cur /\ v.authEpoch <= v.cur

\* What a node n relies on in its own view v.
ViewOK(n, v) ==
    /\ EpochsOK(v)
    /\ v.of[n] # NoNode => \A s \in Slot : v.owner[s] # n

\* How the handling of messages may change a view.
Evolves(v, w) ==
    /\ v.cur <= w.cur
    /\ w.lastVote = v.lastVote /\ w.authEpoch = v.authEpoch /\ w.count = v.count
    /\ w.sent => v.sent

\* nodes.conf of n can be loaded: no epoch in it is too high, and n owns nothing
\* as a replica.
ConfOK(n, c) ==
    /\ c \in SavedView
    /\ c.lastVote <= c.cur /\ \A m \in Node : c.epoch[m] <= c.cur
    /\ c.of[n] # NoNode => \A s \in Slot : c.owner[s] # n

\* Once a node has saved, nodes.conf has its votes, roles and slots.
Synced(c, v) == c.lastVote = v.lastVote /\ c.of = v.of /\ c.owner = v.owner

\* The file c of n, whose view is v, if the nodes in T have to save: it never
\* lacks the vote k that n had given before it last went to sleep.
FileOK(n, v, c, k, T) ==
    /\ ConfOK(n, c)
    /\ k \in Nat /\ k <= v.lastVote /\ k <= c.lastVote
    /\ n \notin T => Synced(c, v)

HdrOK(h) == h \in Hdr /\ h.epoch <= h.cur

PlainMsg == [type : {"ping", "request", "ack"}, to : SUBSET Node, hdr : Hdr]
UpdateMsg == [type : {"update"}, to : SUBSET Node, hdr : Hdr,
              about : Node, epoch : Nat, slots : SUBSET Slot]

\* A message is not to its sender, and its epochs are known to it.
MsgOK(m) ==
    /\ m \in PlainMsg \cup UpdateMsg
    /\ m.hdr.epoch <= m.hdr.cur /\ m.hdr.from \notin m.to
    /\ m.type = "update" => m.epoch <= m.hdr.cur

ViewsOK == mem \in [Node -> View] /\ \A n \in Node : ViewOK(n, mem[n])
ConfsOK ==
    /\ conf \in [Node -> SavedView] /\ kept \in [Node -> Nat]
    /\ \A n \in Node : FileOK(n, mem[n], conf[n], kept[n], todo)
NetOK == \A m \in net : MsgOK(m)

\* A candidate has one request on its way.
OneRequest(N) ==
    \A j, k \in N : /\ j.type = "request" /\ k.type = "request"
                    /\ j.hdr.from = k.hdr.from
                    => j = k
RequestsOK == OneRequest(net)

VotesOK == votes \subseteq [voter : Node, epoch : Nat, for : Node]

\* An acknowledgement on its way is of a vote; it is the only one of its voter to
\* the candidate, whose request the voter has read.
AckOK(m, c, N, V) ==
    /\ m.to = {c}
    /\ [voter |-> m.hdr.from, epoch |-> m.hdr.cur, for |-> c] \in V
    /\ \A k \in N : k.type = "ack" /\ k.hdr.from = m.hdr.from /\ k.to = {c} => k = m
    /\ \A k \in N : k.type = "request" /\ k.hdr.from = c => m.hdr.from \notin k.to
AcksOK == \A m \in net : m.type = "ack" => \E c \in Node : AckOK(m, c, net, votes)

\* Everything on its way from or to a node in an election is of that election,
\* and it has counted at most the votes for it of those that have read its request
\* and whose acknowledgement is no longer on its way.
Acks(n) == {m \in net : m.type = "ack" /\ n \in m.to}
Asked(n) == {x \in Node : \E m \in net : m.type = "request" /\ m.hdr.from = n /\ x \in m.to}
Arrived(n) == (Supporters(n, mem[n].authEpoch) \ {m.hdr.from : m \in Acks(n)}) \ Asked(n)
ElectionOK(n) ==
    mem[n].sent =>
        /\ \A m \in net : m.type = "request" /\ m.hdr.from = n => m.hdr.cur = mem[n].authEpoch
        /\ \A m \in Acks(n) : m.hdr.cur = mem[n].authEpoch
        /\ mem[n].count <= Cardinality(Arrived(n))
ElectionsOK == \A n \in Node : ElectionOK(n)

WonOK == won \subseteq [node : Node, epoch : Nat, quorum : Nat] /\ WinnersHaveVotes

Inv ==
    /\ ViewsOK /\ ConfsOK /\ NetOK /\ RequestsOK
    /\ VotesOK /\ AcksOK /\ ElectionsOK /\ WonOK

-----------------------------------------------------------------------------
(* The operators on views                                                  *)

\* A message's epochs are learned.
LEMMA LearnOK ==
    ASSUME NEW n \in Node, NEW v, ViewOK(n, v), NEW h, HdrOK(h), h.from # n
    PROVE  /\ ViewOK(n, Learn(v, h)) /\ Evolves(v, Learn(v, h))
           /\ h.cur <= Learn(v, h).cur
<1> DEFINE w == Learn(v, h)
<1>1. v \in View /\ h \in Hdr
  BY DEF ViewOK, EpochsOK, HdrOK
<1>2. /\ w.cur = Later(v.cur, h.cur)
      /\ w.epoch = [v.epoch EXCEPT ![h.from] = Later(@, h.epoch)]
      /\ w.lastVote = v.lastVote /\ w.of = v.of /\ w.owner = v.owner
      /\ w.sent = v.sent /\ w.authEpoch = v.authEpoch /\ w.count = v.count
  BY <1>1 DEF Learn, View
<1>3. w \in View
  BY <1>1 DEF Learn, View, Later, Hdr
<1> HIDE DEF w
<1>4. ViewOK(n, w)
  BY <1>1, <1>2, <1>3 DEF ViewOK, EpochsOK, Later, View, HdrOK, Hdr
<1>5. Evolves(v, w) /\ h.cur <= w.cur
  BY <1>1, <1>2, <1>3 DEF Evolves, View, Hdr, Later
<1> QED BY <1>4, <1>5 DEF w

\* Slots move to x; if x is n itself, n is a master.
LEMMA RebindOK ==
    ASSUME NEW n \in Node, NEW v, ViewOK(n, v), NEW S, NEW x \in Node,
           x # n \/ v.of[n] = NoNode
    PROVE  /\ ViewOK(n, Rebind(v, S, x)) /\ Evolves(v, Rebind(v, S, x))
           /\ Rebind(v, S, x).of = v.of
<1> DEFINE w == Rebind(v, S, x)
<1>1. v \in View
  BY DEF ViewOK, EpochsOK
<1>2. /\ w.owner = [s \in Slot |-> IF s \in S THEN x ELSE v.owner[s]]
      /\ w.cur = v.cur /\ w.epoch = v.epoch /\ w.lastVote = v.lastVote /\ w.of = v.of
      /\ w.sent = v.sent /\ w.authEpoch = v.authEpoch /\ w.count = v.count
  BY <1>1 DEF Rebind, View
<1>3. w \in View
  BY <1>1 DEF Rebind, View
<1> HIDE DEF w
<1>4. ViewOK(n, w)
  BY <1>1, <1>2, <1>3 DEF ViewOK, EpochsOK, View
<1>5. Evolves(v, w)
  BY <1>1, <1>2 DEF Evolves, View
<1> QED BY <1>2, <1>4, <1>5 DEF w

\* n becomes a replica of x if it owns nothing.
LEMMA SetMasterOK ==
    ASSUME NEW n \in Node, NEW v, ViewOK(n, v), NEW x \in Node,
           \A s \in Slot : v.owner[s] # n
    PROVE  ViewOK(n, SetMaster(v, n, x)) /\ Evolves(v, SetMaster(v, n, x))
<1> DEFINE w == SetMaster(v, n, x)
<1>1. v \in View
  BY DEF ViewOK, EpochsOK
<1>2. /\ w.owner = v.owner /\ w.cur = v.cur /\ w.epoch = v.epoch /\ w.lastVote = v.lastVote
      /\ w.sent = v.sent /\ w.authEpoch = v.authEpoch /\ w.count = v.count
  BY <1>1 DEF SetMaster, View
<1>3. w \in View
  BY <1>1 DEF SetMaster, View
<1> HIDE DEF w
<1>4. ViewOK(n, w)
  BY <1>1, <1>2, <1>3 DEF ViewOK, EpochsOK, View
<1>5. Evolves(v, w)
  BY <1>1, <1>2 DEF Evolves, View
<1> QED BY <1>4, <1>5 DEF w

\* Another node's role in the view, and a master's new epoch.
LEMMA RoleOK ==
    ASSUME NEW n \in Node, NEW v, ViewOK(n, v), NEW x \in Node,
           NEW y \in Node \cup {NoNode}, x # n \/ y = NoNode
    PROVE  /\ ViewOK(n, [v EXCEPT !.of[x] = y]) /\ Evolves(v, [v EXCEPT !.of[x] = y])
           /\ [v EXCEPT !.of[x] = y].cur = v.cur
<1> DEFINE w == [v EXCEPT !.of[x] = y]
<1>1. v \in View
  BY DEF ViewOK, EpochsOK
<1>2. /\ w.of = [v.of EXCEPT ![x] = y] /\ w.owner = v.owner /\ w.cur = v.cur
      /\ w.epoch = v.epoch /\ w.lastVote = v.lastVote
      /\ w.sent = v.sent /\ w.authEpoch = v.authEpoch /\ w.count = v.count
  BY <1>1 DEF View
<1>3. w \in View
  BY <1>1 DEF View
<1> HIDE DEF w
<1>4. ViewOK(n, w)
  BY <1>1, <1>2, <1>3 DEF ViewOK, EpochsOK, View
<1>5. Evolves(v, w)
  BY <1>1, <1>2 DEF Evolves, View
<1> QED BY <1>2, <1>4, <1>5 DEF w

\* A known node is recorded as a master with an epoch that is not too high.
LEMMA MasterEpochOK ==
    ASSUME NEW n \in Node, NEW v, ViewOK(n, v), NEW x \in Node, NEW e \in Nat, e <= v.cur
    PROVE  LET w == [v EXCEPT !.of[x] = NoNode, !.epoch[x] = e]
           IN ViewOK(n, w) /\ Evolves(v, w) /\ w.cur = v.cur
<1> DEFINE w == [v EXCEPT !.of[x] = NoNode, !.epoch[x] = e]
<1>1. v \in View
  BY DEF ViewOK, EpochsOK
<1>2. /\ w.of = [v.of EXCEPT ![x] = NoNode] /\ w.owner = v.owner /\ w.cur = v.cur
      /\ w.epoch = [v.epoch EXCEPT ![x] = e] /\ w.lastVote = v.lastVote
      /\ w.sent = v.sent /\ w.authEpoch = v.authEpoch /\ w.count = v.count
  BY <1>1 DEF View
<1>3. w \in View
  BY <1>1 DEF View
<1> HIDE DEF w
<1>4. ViewOK(n, w)
  BY <1>1, <1>2, <1>3 DEF ViewOK, EpochsOK, View
<1>5. Evolves(v, w)
  BY <1>1, <1>2 DEF Evolves, View
<1> QED BY <1>2, <1>4, <1>5 DEF w

\* Two changes of a view in a row are one.
LEMMA EvolvesTransitive ==
    ASSUME NEW n \in Node, NEW u, NEW v, NEW w, ViewOK(n, u), ViewOK(n, v), ViewOK(n, w),
           Evolves(u, v), Evolves(v, w)
    PROVE  Evolves(u, w)
  BY DEF Evolves, ViewOK, EpochsOK, View

\* A sender switches its role; what it was master of goes to its master.
LEMMA SwitchRoleOK ==
    ASSUME NEW n \in Node, NEW v, ViewOK(n, v), NEW h, HdrOK(h), h.from # n, h.cur <= v.cur
    PROVE  ViewOK(n, SwitchRole(v, h)) /\ Evolves(v, SwitchRole(v, h))
<1>1. v \in View /\ h \in Hdr /\ h.epoch \in Nat /\ h.epoch <= v.cur /\ h.from \in Node
      /\ h.of \in Node \cup {NoNode}
  BY DEF ViewOK, EpochsOK, HdrOK, Hdr, View
<1>2. CASE h.of = NoNode
  BY <1>1, <1>2, RoleOK DEF SwitchRole
<1>3. CASE h.of \in Node
  <2> DEFINE S == Slots(v, h.from)
             u == [v EXCEPT !.of[h.of] = NoNode, !.epoch[h.of] = h.epoch]
             w == IF IsMaster(v, h.from) /\ v.epoch[h.from] <= h.epoch
                  THEN [Rebind(v, S, h.of) EXCEPT !.of[h.of] = NoNode, !.epoch[h.of] = h.epoch]
                  ELSE v
  <2>1. ViewOK(n, u) /\ Evolves(v, u) /\ u.cur = v.cur /\ u.of[h.of] = NoNode
    BY ZenonT(60), <1>1, <1>3, MasterEpochOK DEF View
  <2>2. ViewOK(n, Rebind(u, S, h.of)) /\ Evolves(u, Rebind(u, S, h.of))
    <3> HIDE DEF u, S
    <3> QED BY <1>3, <2>1, RebindOK
  <2>3. [Rebind(v, S, h.of) EXCEPT !.of[h.of] = NoNode, !.epoch[h.of] = h.epoch]
           = Rebind(u, S, h.of)
    <3> HIDE DEF S
    <3> QED BY <1>1, <1>3 DEF Rebind, View
  <2>4. ViewOK(n, w) /\ Evolves(v, w)
    <3>1. Evolves(v, v)
      BY <1>1 DEF Evolves, View
    <3>2. Evolves(v, Rebind(u, S, h.of))
      <4> HIDE DEF u, S
      <4> QED BY <2>1, <2>2, EvolvesTransitive
    <3> HIDE DEF u, S
    <3> QED BY <2>2, <2>3, <3>1, <3>2
  <2> HIDE DEF w
  <2>5. ViewOK(n, [w EXCEPT !.of[h.from] = h.of]) /\ Evolves(w, [w EXCEPT !.of[h.from] = h.of])
    BY <1>1, <2>4, RoleOK
  <2>6. SwitchRole(v, h) = [w EXCEPT !.of[h.from] = h.of]
    BY <1>1, <1>3, ClusterAssumption DEF SwitchRole, w
  <2> QED BY <2>4, <2>5, <2>6, EvolvesTransitive
<1> QED BY <1>1, <1>2, <1>3

\* x claims slots.  Slots of n go only to others, and n becomes a replica only
\* when it has none left.
LEMMA UpdateSlotsOK ==
    ASSUME NEW n \in Node, NEW v, ViewOK(n, v), NEW x \in Node, NEW e \in Nat,
           NEW slots \in SUBSET Slot
    PROVE  /\ ViewOK(n, UpdateSlots(n, v, x, e, slots))
           /\ Evolves(v, UpdateSlots(n, v, x, e, slots))
<1> DEFINE mine == MasterOf(v, n)
           moved == {s \in slots : v.owner[s] # x /\ Newer(v, s, e)}
           u == Rebind(v, moved, x)
           w == [u EXCEPT !.unclaimed = (@ \ (slots \cap Slots(v, x))) \cup (Slots(v, x) \ slots)]
           grand == IF IsMaster(w, n) THEN NoNode ELSE w.of[w.of[n]]
<1>1. v \in View
  BY DEF ViewOK, EpochsOK
<1>2. Evolves(v, v)
  BY <1>1 DEF Evolves, View
<1>3. CASE x = n
  BY <1>2, <1>3 DEF UpdateSlots
<1>4. CASE x # n
  <2>1. ViewOK(n, u) /\ Evolves(v, u) /\ u.of = v.of
    <3> HIDE DEF moved
    <3> QED BY <1>4, RebindOK
  <2>2. ViewOK(n, w) /\ Evolves(v, w) /\ w.of = v.of /\ w \in View
    <3> HIDE DEF u
    <3>1. u \in View
      BY <2>1 DEF ViewOK, EpochsOK
    <3>2. /\ w.owner = u.owner /\ w.cur = u.cur /\ w.epoch = u.epoch /\ w.lastVote = u.lastVote
          /\ w.sent = u.sent /\ w.authEpoch = u.authEpoch /\ w.count = u.count /\ w.of = u.of
      BY <3>1 DEF View
    <3>3. w \in View
      BY <1>1, <3>1 DEF View, Slots
    <3> HIDE DEF w
    <3> QED BY <2>1, <3>1, <3>2, <3>3 DEF ViewOK, EpochsOK, Evolves
  <2>3. UpdateSlots(n, v, x, e, slots) =
          IF (\E s \in moved : v.owner[s] = mine) /\ Slots(w, mine) = {}
          THEN SetMaster(w, n, x)
          ELSE IF grand \notin {NoNode, n} THEN SetMaster(w, n, grand) ELSE w
    BY <1>4 DEF UpdateSlots
  <2> HIDE DEF w, moved
  <2>4. ASSUME Slots(w, mine) = {}
        PROVE  \A s \in Slot : w.owner[s] # n
    BY <2>2, <2>4 DEF Slots, MasterOf, IsMaster, ViewOK, EpochsOK
  <2>5. ASSUME grand \notin {NoNode, n}
        PROVE  grand \in Node /\ \A s \in Slot : w.owner[s] # n
    BY <2>2, <2>5 DEF IsMaster, ViewOK, EpochsOK, View
  <2>6. ASSUME NEW y \in Node, \A s \in Slot : w.owner[s] # n
        PROVE  ViewOK(n, SetMaster(w, n, y)) /\ Evolves(v, SetMaster(w, n, y))
    BY <2>2, <2>6, SetMasterOK, EvolvesTransitive
  <2> HIDE DEF grand, mine
  <2> QED BY <2>2, <2>3, <2>4, <2>5, <2>6
<1> QED BY <1>3, <1>4

\* A node gives itself an epoch not below any other.
WithEpoch(v, n, e) == [v EXCEPT !.cur = e, !.epoch[n] = e]

\* The new epoch keeps the view in order.
LEMMA NewEpochOK ==
    ASSUME NEW n \in Node, NEW v, EpochsOK(v), NEW e \in Nat, v.cur <= e
    PROVE  /\ EpochsOK(WithEpoch(v, n, e)) /\ Evolves(v, WithEpoch(v, n, e))
           /\ WithEpoch(v, n, e).of = v.of /\ WithEpoch(v, n, e).owner = v.owner
<1> DEFINE w == WithEpoch(v, n, e)
<1>1. v \in View
  BY DEF EpochsOK
<1>2. /\ w.owner = v.owner /\ w.cur = e /\ w.lastVote = v.lastVote /\ w.of = v.of
      /\ w.epoch = [v.epoch EXCEPT ![n] = e]
      /\ w.sent = v.sent /\ w.authEpoch = v.authEpoch /\ w.count = v.count
  BY <1>1 DEF View, WithEpoch
<1>3. w \in View
  BY <1>1 DEF View, WithEpoch
<1> HIDE DEF w
<1>4. EpochsOK(w) /\ Evolves(v, w)
  BY <1>1, <1>2, <1>3 DEF EpochsOK, Evolves, View
<1> QED BY <1>2, <1>4 DEF w

\* clusterHandleConfigEpochCollision keeps the view in order.
LEMMA HandleCollisionOK ==
    ASSUME NEW n \in Node, NEW v, ViewOK(n, v), NEW h
    PROVE  ViewOK(n, HandleCollision(n, v, h)) /\ Evolves(v, HandleCollision(n, v, h))
<1> DEFINE e == v.cur + 1
           w == WithEpoch(v, n, e)
<1>1. v \in View /\ Evolves(v, v) /\ e \in Nat /\ v.cur <= e
  BY DEF ViewOK, EpochsOK, Evolves, View
<1>2. EpochsOK(w) /\ Evolves(v, w) /\ w.of = v.of /\ w.owner = v.owner
  <2> HIDE DEF e
  <2>1. EpochsOK(v)
    BY DEF ViewOK
  <2> QED BY <1>1, <2>1, NewEpochOK
<1>3. (HandleCollision(n, v, h) = w /\ IsMaster(v, n)) \/ HandleCollision(n, v, h) = v
  BY DEF HandleCollision, WithEpoch
<1> HIDE DEF w
<1>4. ASSUME IsMaster(v, n)
      PROVE  ViewOK(n, w)
  BY <1>2, <1>4 DEF ViewOK, IsMaster
<1> QED BY <1>1, <1>2, <1>3, <1>4

\* n takes over its master's slots.
LEMMA ReplaceYourMasterOK ==
    ASSUME NEW n \in Node, NEW v, EpochsOK(v)
    PROVE  /\ ViewOK(n, ReplaceYourMaster(n, v)) /\ Evolves(v, ReplaceYourMaster(n, v))
           /\ ReplaceYourMaster(n, v).epoch = v.epoch
           /\ IsMaster(ReplaceYourMaster(n, v), n)
<1> DEFINE S == Slots(v, v.of[n])
           w == [Rebind(v, S, n) EXCEPT !.of[n] = NoNode]
<1>1. v \in View
  BY DEF EpochsOK
<1>2. /\ w.of = [v.of EXCEPT ![n] = NoNode]
      /\ w.cur = v.cur /\ w.lastVote = v.lastVote /\ w.epoch = v.epoch
      /\ w.sent = v.sent /\ w.authEpoch = v.authEpoch /\ w.count = v.count
  <2> HIDE DEF S
  <2> QED BY <1>1 DEF View, Rebind
<1>3. w \in View
  <2> HIDE DEF S
  <2> QED BY <1>1, ClusterAssumption DEF View, Rebind
<1>4. w = ReplaceYourMaster(n, v)
  BY DEF ReplaceYourMaster
<1> HIDE DEF w
<1>5. ViewOK(n, w) /\ Evolves(v, w) /\ IsMaster(w, n)
  BY <1>1, <1>2, <1>3 DEF ViewOK, EpochsOK, Evolves, View, IsMaster
<1> QED BY <1>2, <1>4, <1>5

\* clusterBumpConfigEpochWithoutConsensus keeps the view in order.
LEMMA BumpedOK ==
    ASSUME NEW n \in Node, NEW v, EpochsOK(v)
    PROVE  EpochsOK(Bumped(n, v)) /\ Evolves(v, Bumped(n, v))
<1> DEFINE e == v.cur + 1
           w == WithEpoch(v, n, e)
<1>1. Evolves(v, v) /\ e \in Nat /\ v.cur <= e
  BY DEF EpochsOK, Evolves, View
<1>2. EpochsOK(w) /\ Evolves(v, w)
  <2> HIDE DEF e
  <2> QED BY <1>1, NewEpochOK
<1>3. Bumped(n, v) \in {v, w}
  BY DEF Bumped, WithEpoch
<1> HIDE DEF w
<1> QED BY <1>1, <1>2, <1>3

-----------------------------------------------------------------------------
(* Messages                                                                *)

\* clusterBuildMessageHdr writes a header in order.
LEMMA HeaderOK ==
    ASSUME NEW n \in Node, NEW v, EpochsOK(v)
    PROVE  /\ HdrOK(Header(n, v)) /\ Header(n, v).from = n
           /\ Header(n, v).cur = v.cur
<1> DEFINE m == MasterOf(v, n)
<1>1. v \in View /\ m \in Node
  BY DEF EpochsOK, View, MasterOf, IsMaster
<1>2. v.cur \in Nat /\ v.of[n] \in Node \cup {NoNode} /\ v.epoch[m] \in Nat /\ v.epoch[m] <= v.cur
      /\ Slots(v, m) \in SUBSET Slot
  <2> HIDE DEF m
  <2> QED BY <1>1 DEF EpochsOK, View, Slots
<1>3. Header(n, v) = [from |-> n, cur |-> v.cur, of |-> v.of[n],
                      epoch |-> v.epoch[m], slots |-> Slots(v, m)]
  BY DEF Header
<1> HIDE DEF m
<1> QED BY <1>2, <1>3 DEF HdrOK, Hdr

\* A message with the header of its sender is in order.
LEMMA MessageOK ==
    ASSUME NEW n \in Node, NEW v, EpochsOK(v), NEW type \in {"ping", "request", "ack"},
           NEW to \in SUBSET Node, n \notin to
    PROVE  MsgOK(Message(type, n, v, to)) /\ Message(type, n, v, to) \in PlainMsg
<1>1. HdrOK(Header(n, v)) /\ Header(n, v).from = n
  BY HeaderOK
<1> QED BY <1>1 DEF MsgOK, Message, PlainMsg, HdrOK

\* So is an UPDATE about a master the sender knows.
LEMMA UpdateOK ==
    ASSUME NEW n \in Node, NEW v, EpochsOK(v), NEW m \in Node, NEW x \in Node, x # n
    PROVE  MsgOK(Update(n, v, m, x))
<1>1. v.epoch[m] \in Nat /\ v.epoch[m] <= v.cur /\ Slots(v, m) \ v.unclaimed \in SUBSET Slot
  BY DEF EpochsOK, View, Slots
<1>2. HdrOK(Header(n, v)) /\ Header(n, v).from = n /\ Header(n, v).cur = v.cur
  BY HeaderOK
<1> QED BY <1>1, <1>2 DEF MsgOK, Update, UpdateMsg, HdrOK

\* The receipt of an UPDATE.
LEMMA UpdatedOK ==
    ASSUME NEW n \in Node, NEW v, ViewOK(n, v), NEW m, MsgOK(m), m.type = "update",
           m.hdr.from # n
    PROVE  ViewOK(n, Updated(n, v, m)) /\ Evolves(v, Updated(n, v, m))
<1> DEFINE w == Learn(v, m.hdr)
           u == [w EXCEPT !.of[m.about] = NoNode, !.epoch[m.about] = m.epoch]
<1>1. /\ HdrOK(m.hdr) /\ m.about \in Node /\ m.epoch \in Nat
      /\ m.slots \in SUBSET Slot /\ m.epoch <= m.hdr.cur /\ m.hdr.cur \in Nat
  BY DEF MsgOK, HdrOK, Hdr, PlainMsg, UpdateMsg
<1>2. ViewOK(n, w) /\ Evolves(v, w) /\ m.hdr.cur <= w.cur
  BY <1>1, LearnOK
<1> HIDE DEF w
<1>3. m.epoch <= w.cur
  BY <1>1, <1>2 DEF ViewOK, EpochsOK, View
<1>4. ViewOK(n, u) /\ Evolves(w, u)
  BY <1>1, <1>2, <1>3, MasterEpochOK
<1>5. Updated(n, v, m) = IF w.epoch[m.about] >= m.epoch THEN w
                         ELSE UpdateSlots(n, u, m.about, m.epoch, m.slots)
  BY DEF Updated, w
<1> HIDE DEF u
<1>6. /\ ViewOK(n, UpdateSlots(n, u, m.about, m.epoch, m.slots))
      /\ Evolves(u, UpdateSlots(n, u, m.about, m.epoch, m.slots))
  BY <1>1, <1>4, UpdateSlotsOK
<1>7. Evolves(v, u)
  BY <1>2, <1>4, EvolvesTransitive
<1>8. Evolves(v, UpdateSlots(n, u, m.about, m.epoch, m.slots))
  BY <1>4, <1>6, <1>7, EvolvesTransitive
<1> QED BY <1>2, <1>5, <1>6, <1>8

\* The receipt of a PING or PONG.
LEMMA ProcessOK ==
    ASSUME NEW n \in Node, NEW v, ViewOK(n, v), NEW h, HdrOK(h), h.from # n
    PROVE  LET c == Claims(n, Roles(v, h), h)
               w == HandleCollision(n, c, h)
           IN ViewOK(n, c) /\ ViewOK(n, w) /\ Evolves(v, w)
<1> DEFINE l == Learn(v, h)
           r == SwitchRole(l, h)
           c == Claims(n, r, h)
           w == HandleCollision(n, c, h)
<1>1. h.from \in Node /\ h.epoch \in Nat /\ h.slots \in SUBSET Slot
  BY DEF HdrOK, Hdr
<1>2. ViewOK(n, l) /\ Evolves(v, l) /\ h.cur <= l.cur
  BY LearnOK
<1> HIDE DEF l
<1>3. ViewOK(n, r) /\ Evolves(l, r)
  BY <1>2, SwitchRoleOK
<1> HIDE DEF r
<1>4. Evolves(r, r)
  BY <1>3 DEF Evolves, ViewOK, EpochsOK, View
<1>5. ViewOK(n, c) /\ Evolves(r, c)
  BY <1>1, <1>3, <1>4, UpdateSlotsOK DEF Claims
<1> HIDE DEF c
<1>6. ViewOK(n, w) /\ Evolves(c, w)
  BY <1>5, HandleCollisionOK
<1> HIDE DEF w
<1>7. Evolves(v, r)
  BY <1>2, <1>3, EvolvesTransitive
<1>8. Evolves(v, c)
  BY <1>3, <1>5, <1>7, EvolvesTransitive
<1>9. Evolves(v, w)
  BY <1>5, <1>6, <1>8, EvolvesTransitive
<1> QED BY <1>5, <1>6, <1>9 DEF w, c, r, l, Roles

\* The messages in N of elections are some of those on their way, to no more nodes.
Shrunk(N) ==
    /\ \A k \in N : k.type = "ack" => k \in net
    /\ \A k \in N : k.type = "request" =>
           \E j \in net : j.type = "request" /\ j.hdr = k.hdr /\ k.to \subseteq j.to
    /\ OneRequest(N)

\* What n has read of m is gone, for the others it stays as it is.
LEMMA ReadOK ==
    ASSUME NetOK, AcksOK, RequestsOK, NEW m \in net, NEW n \in m.to
    PROVE  /\ \A k \in Read(m, n) : MsgOK(k)
           /\ \A k \in Read(m, n) : k.type = "ack" => k \in net \ {m}
           /\ \A k \in Read(m, n) : k.type = "request" /\ k.hdr.from = m.hdr.from
                                    /\ m.type = "request" => n \notin k.to
           /\ Shrunk(Read(m, n))
<1> DEFINE l == [m EXCEPT !.to = @ \ {n}]
<1>1. MsgOK(m) /\ m \in PlainMsg \cup UpdateMsg
  BY DEF NetOK, MsgOK
<1>2. MsgOK(l) /\ l.type = m.type /\ l.hdr = m.hdr /\ l.to = m.to \ {n}
  BY <1>1 DEF MsgOK, PlainMsg, UpdateMsg
<1> HIDE DEF l
<1>3. \A k \in Read(m, n) : k \in net \ {m} \/ (k = l /\ l.to # {})
  BY DEF Read, l
<1>4. ASSUME m.type = "ack"
      PROVE  l.to = {}
  <2>1. PICK c \in Node : AckOK(m, c, net, votes)
    BY <1>4 DEF AcksOK
  <2> QED BY <1>2, <2>1 DEF AckOK
<1>5. OneRequest(Read(m, n))
  <2>1. SUFFICES ASSUME NEW j \in Read(m, n), NEW k \in Read(m, n),
                        j.type = "request", k.type = "request", j.hdr.from = k.hdr.from
                 PROVE  j = k
    BY DEF OneRequest
  <2> QED BY <1>2, <1>3, <2>1 DEF RequestsOK, OneRequest
<1>6. \A k \in Read(m, n) : k.type = "request" =>
           \E j \in net : j.type = "request" /\ j.hdr = k.hdr /\ k.to \subseteq j.to
  BY <1>2, <1>3
<1>7. \A k \in Read(m, n) : k.type = "ack" => k \in net \ {m}
  BY <1>2, <1>3, <1>4
<1>8. Shrunk(Read(m, n))
  BY <1>5, <1>6, <1>7 DEF Shrunk
<1>9. \A k \in Read(m, n) : k.type = "request" /\ k.hdr.from = m.hdr.from
                             /\ m.type = "request" => n \notin k.to
  BY <1>2, <1>3 DEF RequestsOK, OneRequest
<1> QED BY <1>2, <1>3, <1>7, <1>8, <1>9 DEF NetOK

\* The least-number principle, and from it the greatest of bounded numbers.
Below == {p \in Nat \X Nat : p[1] < p[2]}

\* A set of numbers has a least one.
LEMMA Least ==
    ASSUME NEW S \in SUBSET Nat, S # {}
    PROVE  \E x \in S : \A y \in S : x <= y
<1>1. IsWellFoundedOn(Below, Nat)
  BY NatLessThanWellFounded, Zenon DEF OpToRel, Below
<1>2. PICK x \in S : \A y \in S : <<y, x>> \notin Below
  BY <1>1, WFMin
<1>3. ASSUME NEW y \in S
      PROVE  x <= y
  <2>1. x \in Nat /\ y \in Nat /\ <<y, x>> \notin Below
    BY <1>2
  <2>2. <<y, x>>[1] = y /\ <<y, x>>[2] = x /\ <<y, x>> \in Nat \X Nat
    BY <2>1
  <2>3. ~(y < x)
    BY <2>1, <2>2, Zenon DEF Below
  <2> QED BY <2>1, <2>3
<1> QED BY <1>3

\* Max is the greatest of bounded numbers.
LEMMA Greatest ==
    ASSUME NEW S \in SUBSET Nat, S # {}, NEW b \in Nat, \A x \in S : x <= b
    PROVE  Max(S) \in S /\ \A x \in S : x <= Max(S)
<1> DEFINE D == {b - x : x \in S}
<1>1. \A x \in S : x \in Nat /\ b - x \in Nat
  OBVIOUS
<1>2. D \in SUBSET Nat /\ D # {}
  BY <1>1
<1>3. \E d \in D : \A e \in D : d <= e
  <2> HIDE DEF D
  <2> QED BY <1>2, Least
<1>4. \E x \in S : \A y \in S : b - x <= b - y
  BY <1>3
<1>5. PICK x \in S : \A y \in S : b - x <= b - y
  BY <1>4
<1>6. \A y \in S : x >= y
  BY <1>1, <1>5
<1>7. \E z \in S : \A y \in S : z >= y
  BY <1>6
<1>8. Max(S) \in S /\ \A y \in S : Max(S) >= y
  BY <1>7, Zenon DEF Max
<1> QED BY <1>1, <1>8

-----------------------------------------------------------------------------
(* Steps                                                                   *)

\* A file that is saved is in order.
LEMMA SaveOK ==
    ASSUME NEW n \in Node, NEW w, ViewOK(n, w), NEW k \in Nat, k <= w.lastVote, NEW T
    PROVE  FileOK(n, w, Saved(w), k, T) /\ Saved(w) \in SavedView
<1> DEFINE c == Saved(w)
           f == [m \in Node |-> w.epoch[MasterOf(w, m)]]
<1>1. w \in View /\ w.lastVote <= w.cur /\ \A m \in Node : w.epoch[m] \in Nat /\ w.epoch[m] <= w.cur
  BY DEF ViewOK, EpochsOK, View
<1>2. \A m \in Node : MasterOf(w, m) \in Node
  BY <1>1 DEF MasterOf, IsMaster, View
<1>3. f \in [Node -> Nat] /\ \A m \in Node : f[m] <= w.cur
  BY <1>1, <1>2
<1>4. c = [cur |-> w.cur, lastVote |-> w.lastVote, of |-> w.of, epoch |-> f, owner |-> w.owner]
  BY DEF Saved
<1> HIDE DEF c, f
<1>5. c \in SavedView
  BY <1>1, <1>3, <1>4 DEF SavedView, View
<1>6. /\ c.cur = w.cur /\ c.lastVote = w.lastVote /\ c.of = w.of /\ c.epoch = f
      /\ c.owner = w.owner
  BY <1>4
<1>7. ConfOK(n, c)
  BY <1>1, <1>3, <1>5, <1>6 DEF ConfOK, ViewOK
<1> QED BY <1>5, <1>6, <1>7 DEF FileOK, Synced, c

\* A file stays in order if what is not in it is to be saved.
LEMMA FlagOK ==
    ASSUME NEW n \in Node, NEW v, NEW w, NEW c, NEW k, NEW T, NEW U, FileOK(n, v, c, k, T),
           v \in View, w \in View, v.lastVote <= w.lastVote,
           n \in T => n \in U, ToSave(v, w) => n \in U
    PROVE  FileOK(n, w, c, k, U)
<1>1. v.lastVote \in Nat /\ w.lastVote \in Nat /\ k \in Nat /\ k <= w.lastVote
  BY DEF FileOK, View
<1>2. n \notin U => Synced(c, w)
  BY DEF FileOK, Synced, ToSave
<1> QED BY <1>1, <1>2 DEF FileOK

\* A node gets a view that it will save: views and files stay in order.
LEMMA BecomeOK ==
    ASSUME ViewsOK, ConfsOK, NEW n \in Node, NEW w, ViewOK(n, w),
           mem[n].lastVote <= w.lastVote, Become(n, w), kept' = kept
    PROVE  ViewsOK' /\ ConfsOK' /\ mem' = [mem EXCEPT ![n] = w]
<1>1. w \in View /\ mem \in [Node -> View]
  BY DEF ViewOK, EpochsOK, ViewsOK
<1>2. /\ mem' = [mem EXCEPT ![n] = w] /\ conf' = conf
      /\ todo' = Flagged(todo, n, w)
  BY DEF Become
<1>3. /\ \A y \in Node : y \in todo => y \in todo'
      /\ \A y \in Node : y # n /\ y \in todo' => y \in todo
      /\ ToSave(mem[n], w) => n \in todo'
  BY <1>2 DEF Flagged
<1>4. ViewsOK'
  BY <1>1, <1>2 DEF ViewsOK
<1>5. ASSUME NEW y \in Node
      PROVE  FileOK(y, mem'[y], conf'[y], kept'[y], todo')
  <2>1. FileOK(y, mem[y], conf[y], kept[y], todo) /\ mem[y] \in View
    BY <1>1 DEF ConfsOK
  <2>2. CASE y = n
    BY <1>1, <1>2, <1>3, <2>1, <2>2, FlagOK
  <2>3. CASE y # n
    BY <1>1, <1>2, <1>3, <2>1, <2>3 DEF FileOK
  <2> QED BY <2>2, <2>3
<1> QED BY <1>2, <1>4, <1>5 DEF ConfsOK

\* A node gets a view and saves it: views and files stay in order.
LEMMA BecomeSavedOK ==
    ASSUME ViewsOK, ConfsOK, NEW n \in Node, NEW w, ViewOK(n, w),
           mem[n].lastVote <= w.lastVote, BecomeSaved(n, w), kept' = kept
    PROVE  ViewsOK' /\ ConfsOK' /\ mem' = [mem EXCEPT ![n] = w]
<1>1. w \in View /\ mem \in [Node -> View] /\ FileOK(n, mem[n], conf[n], kept[n], todo)
  BY DEF ViewOK, EpochsOK, ViewsOK, ConfsOK
<1>2. /\ mem' = [mem EXCEPT ![n] = w] /\ conf' = [conf EXCEPT ![n] = Saved(w)]
      /\ todo' = todo \ {n}
  BY DEF BecomeSaved
<1>3. ViewsOK'
  BY <1>1, <1>2 DEF ViewsOK
<1>4. kept[n] \in Nat /\ kept[n] <= w.lastVote
  BY <1>1 DEF FileOK, View
<1>5. FileOK(n, w, Saved(w), kept[n], todo') /\ Saved(w) \in SavedView
  BY <1>4, SaveOK
<1>6. ASSUME NEW y \in Node
      PROVE  FileOK(y, mem'[y], conf'[y], kept'[y], todo')
  <2>1. CASE y = n
    BY <1>1, <1>2, <1>5, <2>1 DEF ConfsOK
  <2>2. CASE y # n
    BY <1>1, <1>2, <2>2 DEF ConfsOK, FileOK
  <2> QED BY <2>1, <2>2
<1>7. conf' \in [Node -> SavedView]
  BY <1>2, <1>5 DEF ConfsOK
<1> QED BY <1>2, <1>3, <1>6, <1>7 DEF ConfsOK

\* No acknowledgement is counted and no election begun.
SameElection(v, w) == w.sent => v.sent /\ w.authEpoch = v.authEpoch /\ w.count = v.count

\* The changes a header makes concern no election and no vote.
LEMMA EvolvesCalm ==
    ASSUME NEW v, NEW w, Evolves(v, w), v \in View
    PROVE  SameElection(v, w) /\ v.lastVote <= w.lastVote
  BY DEF SameElection, Evolves, View

\* Supporters are finitely many, and a subset of a finite set is smaller.
LEMMA FewerSupporters ==
    ASSUME NEW S, NEW T \in SUBSET Node, S \subseteq T
    PROVE  Cardinality(S) \in Nat /\ Cardinality(T) \in Nat /\ Cardinality(S) <= Cardinality(T)
<1>1. IsFiniteSet(T)
  BY ClusterAssumption, FS_Subset
<1> QED BY <1>1, FS_Subset, FS_CardinalityType

\* An election goes on as before if no message of it appears.
LEMMA ElectionGoesOn ==
    ASSUME Inv, NEW n \in Node, SameElection(mem[n], mem'[n]),
           \A k \in net' : k.type = "ack" /\ n \in k.to => k \in net,
           \A k \in net' : k.type = "request" /\ k.hdr.from = n =>
               \E j \in net : j.type = "request" /\ j.hdr = k.hdr /\ k.to \subseteq j.to,
           votes \subseteq votes'
    PROVE  ElectionOK(n)'
<1>1. SUFFICES ASSUME mem'[n].sent
               PROVE  ElectionOK(n)'
  BY DEF ElectionOK
<1>2. mem[n].sent /\ mem'[n].authEpoch = mem[n].authEpoch /\ mem'[n].count = mem[n].count
  BY <1>1 DEF SameElection
<1>3. ElectionOK(n) /\ mem[n].count \in Nat
  BY DEF Inv, ElectionsOK, ViewsOK, View
<1>4. Acks(n)' \subseteq Acks(n) /\ Asked(n)' \subseteq Asked(n)
  BY DEF Acks, Asked
<1>5. Supporters(n, mem[n].authEpoch) \subseteq Supporters(n, mem[n].authEpoch)'
  BY <1>2 DEF Supporters
<1>6. Arrived(n) \subseteq Arrived(n)' /\ Arrived(n)' \in SUBSET Node
  BY <1>4, <1>5 DEF Arrived, Supporters
<1>7. mem'[n].count <= Cardinality(Arrived(n)')
  BY <1>2, <1>3, <1>6, FewerSupporters DEF ElectionOK
<1> QED BY <1>2, <1>3, <1>4, <1>7 DEF ElectionOK

\* Votes are given, but none is taken from a winner.
LEMMA WinnersKeepVotes ==
    ASSUME Inv, votes \subseteq votes', won' = won
    PROVE  WonOK'
<1>1. ASSUME NEW w \in won
      PROVE  Cardinality(Supporters(w.node, w.epoch)') >= w.quorum
  <2>1. Supporters(w.node, w.epoch) \subseteq Supporters(w.node, w.epoch)'
        /\ Supporters(w.node, w.epoch)' \in SUBSET Node
    BY DEF Supporters
  <2>2. w.quorum \in Nat /\ Cardinality(Supporters(w.node, w.epoch)) >= w.quorum
    BY DEF Inv, WonOK, WinnersHaveVotes
  <2> QED BY <2>1, <2>2, FewerSupporters
<1>2. WinnersHaveVotes'
  BY <1>1 DEF WinnersHaveVotes
<1> QED BY <1>2 DEF Inv, WonOK

\* The voting goes on as before if no message of it appears.
LEMMA CalmVoting ==
    ASSUME Inv, \A n \in Node : SameElection(mem[n], mem'[n]), Shrunk(net'), votes' = votes
    PROVE  RequestsOK' /\ VotesOK' /\ AcksOK' /\ ElectionsOK'
<1>1. RequestsOK' /\ VotesOK'
  BY DEF Inv, VotesOK, RequestsOK, Shrunk
<1>2. AcksOK'
  <2>1. SUFFICES ASSUME NEW m \in net', m.type = "ack"
                 PROVE  \E c \in Node : AckOK(m, c, net', votes')
    BY DEF AcksOK
  <2>2. m \in net
    BY <2>1 DEF Shrunk
  <2>3. PICK c \in Node : AckOK(m, c, net, votes)
    BY <2>1, <2>2 DEF Inv, AcksOK
  <2>4. AckOK(m, c, net', votes')
    BY <2>3 DEF AckOK, Shrunk
  <2> QED BY <2>4
<1>3. \A n \in Node : ElectionOK(n)'
  BY ElectionGoesOn DEF Shrunk
<1> QED BY <1>1, <1>2, <1>3 DEF ElectionsOK

\* So is the count of winners, if there is no new one.
LEMMA CalmStep ==
    ASSUME Inv, \A n \in Node : SameElection(mem[n], mem'[n]), Shrunk(net'),
           votes' = votes, won' = won
    PROVE  RequestsOK' /\ VotesOK' /\ AcksOK' /\ ElectionsOK' /\ WonOK'
  BY CalmVoting, WinnersKeepVotes

\* Messages of elections that stay as they are, or other messages, change nothing.
LEMMA ShrunkOK ==
    ASSUME RequestsOK, NEW N, \A k \in N : k.type \in {"ack", "request"} => k \in net
    PROVE  Shrunk(N)
  BY DEF RequestsOK, OneRequest, Shrunk

\* clusterProcessPacket preserves the invariant.
LEMMA ProcessStep ==
    ASSUME Inv, NEW n \in Node, NEW h, HdrOK(h), h.from # n, NEW rest,
           \A k \in rest : MsgOK(k), Shrunk(rest),
           Process(n, h, rest)
    PROVE  Inv'
<1> DEFINE x == h.from
           c == Claims(n, Roles(mem[n], h), h)
           w == HandleCollision(n, c, h)
           flags == IF w = c THEN Flagged(todo, n, w) ELSE todo \ {n}
           U(m) == Update(n, c, m, x)
           u(m) == Updated(x, mem[x], U(m))
           old == IF DirtySlots(Roles(mem[n], h), h) THEN Deprecates(c, h) ELSE {}
<1>1. x \in Node /\ h.slots \in SUBSET Slot
  BY DEF HdrOK, Hdr
<1>2. ViewOK(n, mem[n]) /\ ViewOK(x, mem[x]) /\ mem \in [Node -> View]
  BY <1>1 DEF Inv, ViewsOK
<1>3. ViewOK(n, c) /\ ViewOK(n, w) /\ Evolves(mem[n], w)
  BY <1>2, ProcessOK
<1>4. /\ conf' = IF w = c THEN conf ELSE [conf EXCEPT ![n] = Saved(w)]
      /\ \/ mem' = [mem EXCEPT ![n] = w] /\ todo' = flags /\ net' = rest
         \/ \E m \in old :
               /\ mem' = [mem EXCEPT ![n] = w, ![x] = u(m)]
               /\ todo' = Flagged(flags, x, u(m)) /\ net' = rest
         \/ \E m \in old :
               mem' = [mem EXCEPT ![n] = w] /\ todo' = flags /\ net' = rest \cup {U(m)}
      /\ votes' = votes /\ kept' = kept /\ won' = won
  BY DEF Process
<1>5. ASSUME NEW m \in old
      PROVE  /\ m \in Node /\ MsgOK(U(m)) /\ U(m).type = "update" /\ U(m).hdr.from = n
  <2>1. m \in Node
    <3> HIDE DEF c
    <3> QED BY <1>1, <1>3 DEF Deprecates, ViewOK, EpochsOK, View
  <2>2. EpochsOK(c)
    BY <1>3 DEF ViewOK
  <2> HIDE DEF c
  <2>3. MsgOK(U(m))
    BY <1>1, <2>1, <2>2, UpdateOK
  <2> QED BY <2>1, <2>2, <2>3, HeaderOK DEF Update
<1>6. /\ w = c => (n \in todo => n \in flags) /\ (ToSave(mem[n], w) => n \in flags)
      /\ \A y \in Node : y # n => (y \in flags <=> y \in todo)
  BY DEF Flagged
<1> HIDE DEF w, c, U, old, flags
<1>7. w \in View /\ SameElection(mem[n], w) /\ mem[n].lastVote <= w.lastVote
  BY <1>2, <1>3, EvolvesCalm DEF ViewOK, EpochsOK
<1>8. /\ FileOK(n, w, conf'[n], kept[n], flags) /\ conf' \in [Node -> SavedView]
      /\ \A y \in Node : y # n => conf'[y] = conf[y]
  <2>1. FileOK(n, mem[n], conf[n], kept[n], todo) /\ conf \in [Node -> SavedView] /\ mem[n] \in View
    BY <1>2 DEF Inv, ConfsOK
  <2>2. CASE w = c
    <3>1. FileOK(n, w, conf[n], kept[n], flags)
      BY <1>6, <1>7, <2>1, <2>2, FlagOK
    <3> QED BY <1>4, <2>1, <2>2, <3>1
  <2>3. CASE w # c
    <3>1. kept[n] \in Nat /\ kept[n] <= w.lastVote
      BY <1>7, <2>1 DEF FileOK, View
    <3>2. FileOK(n, w, Saved(w), kept[n], flags) /\ Saved(w) \in SavedView
      BY <1>3, <3>1, SaveOK
    <3> QED BY <1>4, <2>1, <2>3, <3>2
  <2> QED BY <2>2, <2>3
<1>9. ASSUME NEW y \in Node, y # n
      PROVE  FileOK(y, mem[y], conf'[y], kept[y], flags) /\ mem[y] \in View
  BY <1>2, <1>6, <1>8, <1>9 DEF Inv, ConfsOK, FileOK
<1>10. ASSUME mem' = [mem EXCEPT ![n] = w], todo' = flags,
              \A k \in net' : MsgOK(k), Shrunk(net')
       PROVE  Inv'
  <2>1. ViewsOK'
    BY <1>2, <1>3, <1>7, <1>10 DEF Inv, ViewsOK
  <2>2. ConfsOK'
    <3>1. ASSUME NEW y \in Node
          PROVE  FileOK(y, mem'[y], conf'[y], kept'[y], todo')
      BY <1>2, <1>4, <1>8, <1>9, <1>10
    <3>2. kept' \in [Node -> Nat]
      BY <1>4 DEF Inv, ConfsOK
    <3> QED BY <1>8, <3>1, <3>2 DEF ConfsOK
  <2>3. \A y \in Node : SameElection(mem[y], mem'[y])
    BY <1>2, <1>7, <1>10 DEF SameElection
  <2>4. NetOK'
    BY <1>10 DEF NetOK
  <2> QED BY <1>4, <1>10, <2>1, <2>2, <2>3, <2>4, CalmStep DEF Inv
<1>11. CASE mem' = [mem EXCEPT ![n] = w] /\ todo' = flags /\ net' = rest
  BY <1>10, <1>11
<1>12. ASSUME NEW m \in old, mem' = [mem EXCEPT ![n] = w], todo' = flags,
              net' = rest \cup {U(m)}
       PROVE  Inv'
  <2>1. \A k \in net' : k.type \in {"ack", "request"} => k \in rest
    BY <1>5, <1>12
  <2>2. Shrunk(net')
    BY <2>1 DEF Shrunk, OneRequest
  <2>3. \A k \in net' : MsgOK(k)
    BY <1>5, <1>12
  <2> QED BY <1>10, <1>12, <2>2, <2>3
<1>13. ASSUME NEW m \in old, net' = rest,
              mem' = [mem EXCEPT ![n] = w, ![x] = u(m)],
              todo' = Flagged(flags, x, u(m))
       PROVE  Inv'
  <2>1. ViewOK(x, u(m)) /\ Evolves(mem[x], u(m))
    BY <1>1, <1>2, <1>5, UpdatedOK
  <2> HIDE DEF u
  <2>2. u(m) \in View /\ SameElection(mem[x], u(m)) /\ mem[x].lastVote <= u(m).lastVote
    BY <1>1, <1>2, <2>1, EvolvesCalm DEF ViewOK, EpochsOK
  <2>3. /\ mem'[x] = u(m) /\ mem'[n] = w /\ mem' \in [Node -> View]
        /\ \A y \in Node : y # n /\ y # x => mem'[y] = mem[y]
    BY <1>1, <1>2, <1>7, <1>13, <2>2
  <2>4. ViewsOK'
    <3>1. ASSUME NEW y \in Node
          PROVE  ViewOK(y, mem'[y])
      BY <1>3, <2>1, <2>3 DEF Inv, ViewsOK
    <3> QED BY <2>3, <3>1 DEF ViewsOK
  <2>5. /\ \A y \in Node : y # x => (y \in todo' <=> y \in flags)
        /\ x \in flags => x \in todo'
        /\ ToSave(mem[x], u(m)) => x \in todo'
    BY <1>13 DEF Flagged
  <2>6. FileOK(x, u(m), conf'[x], kept[x], todo')
    BY <1>1, <1>9, <2>2, <2>5, FlagOK
  <2>7. ASSUME NEW y \in Node
        PROVE  FileOK(y, mem'[y], conf'[y], kept'[y], todo')
    <3>1. CASE y = x
      BY <1>4, <2>3, <2>6, <3>1
    <3>2. CASE y = n
      BY <1>4, <1>8, <2>3, <2>5, <3>2 DEF FileOK
    <3>3. CASE y # x /\ y # n
      BY <1>4, <1>9, <2>3, <2>5, <3>3 DEF FileOK
    <3> QED BY <3>1, <3>2, <3>3
  <2>8. ConfsOK'
    <3>1. kept' \in [Node -> Nat]
      BY <1>4 DEF Inv, ConfsOK
    <3> QED BY <1>8, <2>7, <3>1 DEF ConfsOK
  <2>9. \A y \in Node : SameElection(mem[y], mem'[y])
    <3>1. ASSUME NEW y \in Node
          PROVE  SameElection(mem[y], mem'[y])
      <4>1. CASE y = x \/ y = n
        BY <1>7, <2>2, <2>3, <4>1
      <4>2. CASE y # x /\ y # n
        BY <2>3, <4>2 DEF SameElection
      <4> QED BY <4>1, <4>2
    <3> QED BY <3>1
  <2>10. NetOK'
    BY <1>13 DEF NetOK
  <2> QED BY <1>4, <1>13, <2>4, <2>8, <2>9, <2>10, CalmStep DEF Inv
<1> QED BY <1>4, <1>11, <1>12, <1>13

\* Sending a PING preserves the invariant.
LEMMA GossipStep ==
    ASSUME Inv, NEW x \in Node, NEW n \in Node, Gossip(x, n)
    PROVE  Inv'
<1>1. EpochsOK(mem[x])
  BY DEF Inv, ViewsOK, ViewOK
<1>2. HdrOK(Header(x, mem[x])) /\ Header(x, mem[x]).from = x
  BY <1>1, HeaderOK
<1>3. \A k \in net : MsgOK(k)
  BY DEF Inv, NetOK
<1>4. Shrunk(net)
  BY ShrunkOK DEF Inv
<1> QED BY <1>2, <1>3, <1>4, ProcessStep DEF Gossip

\* So does a PING that is delayed.
LEMMA DelayPingStep ==
    ASSUME Inv, NEW x \in Node, NEW n \in Node, DelayPing(x, n)
    PROVE  Inv'
<1> DEFINE p == Message("ping", x, mem[x], {n})
<1>1. EpochsOK(mem[x])
  BY DEF Inv, ViewsOK, ViewOK
<1>2. MsgOK(p) /\ p.type = "ping"
  BY <1>1, MessageOK DEF DelayPing, Message
<1>3. net' = net \cup {p} /\ UNCHANGED <<mem, conf, todo, votes, kept, won>>
  BY DEF DelayPing
<1> HIDE DEF p
<1>4. ViewsOK' /\ ConfsOK' /\ NetOK'
  BY <1>2, <1>3 DEF Inv, ViewsOK, ConfsOK, NetOK
<1>5. \A y \in Node : SameElection(mem[y], mem'[y])
  BY <1>3 DEF SameElection
<1>6. \A k \in net' : k.type \in {"ack", "request"} => k \in net
  BY <1>2, <1>3
<1>7. Shrunk(net')
  BY <1>6, ShrunkOK DEF Inv
<1> QED BY <1>3, <1>4, <1>5, <1>7, CalmStep DEF Inv

\* So does receiving one.
LEMMA ReceivePingStep ==
    ASSUME Inv, NEW m \in net, NEW n \in m.to, ReceivePing(m, n)
    PROVE  Inv'
<1>1. MsgOK(m) /\ NetOK /\ AcksOK /\ RequestsOK
  BY DEF Inv, NetOK
<1>2. n \in Node /\ HdrOK(m.hdr) /\ m.hdr.from # n
  BY <1>1 DEF MsgOK, PlainMsg, UpdateMsg, HdrOK
<1>3. (\A k \in Read(m, n) : MsgOK(k)) /\ Shrunk(Read(m, n))
  BY <1>1, ReadOK
<1> QED BY <1>2, <1>3, ProcessStep DEF ReceivePing

\* n reads m, and its view changes in an ordinary way.
LEMMA CalmRead ==
    ASSUME Inv, NEW m \in net, NEW n \in m.to, n \in Node,
           NEW w, ViewOK(n, w), Evolves(mem[n], w), Become(n, w),
           net' = Read(m, n), votes' = votes, kept' = kept, won' = won
    PROVE  Inv'
<1>1. NetOK /\ AcksOK /\ RequestsOK
  BY DEF Inv
<1>2. SameElection(mem[n], w) /\ mem[n].lastVote <= w.lastVote
  BY EvolvesCalm DEF Inv, ViewsOK
<1>3. ViewsOK' /\ ConfsOK' /\ mem' = [mem EXCEPT ![n] = w]
  BY <1>2, BecomeOK DEF Inv
<1>4. \A y \in Node : SameElection(mem[y], mem'[y])
  BY <1>2, <1>3 DEF SameElection, Inv, ViewsOK
<1>5. (\A k \in net' : MsgOK(k)) /\ Shrunk(net')
  BY <1>1, ReadOK
<1>6. NetOK'
  BY <1>5 DEF NetOK
<1> QED BY <1>3, <1>4, <1>5, <1>6, CalmStep DEF Inv

\* So does receiving an UPDATE.
LEMMA ReceiveUpdateStep ==
    ASSUME Inv, NEW m \in net, NEW n \in m.to, ReceiveUpdate(m, n)
    PROVE  Inv'
<1> DEFINE w == Updated(n, mem[n], m)
<1>1. MsgOK(m)
  BY DEF Inv, NetOK
<1>2. n \in Node /\ m.hdr.from # n
  BY <1>1 DEF MsgOK, PlainMsg, UpdateMsg
<1>3. ViewOK(n, w) /\ Evolves(mem[n], w)
  BY <1>1, <1>2, UpdatedOK DEF Inv, ViewsOK, ReceiveUpdate
<1>4. Become(n, w) /\ net' = Read(m, n) /\ votes' = votes /\ kept' = kept /\ won' = won
  BY DEF ReceiveUpdate
<1> HIDE DEF w
<1> QED BY <1>2, <1>3, <1>4, CalmRead

\* So does a request for a vote that is not granted.
LEMMA DenyVoteStep ==
    ASSUME Inv, NEW m \in net, NEW n \in m.to, DenyVote(m, n)
    PROVE  Inv'
<1> DEFINE w == Learn(mem[n], m.hdr)
<1>1. MsgOK(m)
  BY DEF Inv, NetOK
<1>2. n \in Node /\ HdrOK(m.hdr) /\ m.hdr.from # n
  BY <1>1 DEF MsgOK, PlainMsg, UpdateMsg, HdrOK
<1>3. ViewOK(n, w) /\ Evolves(mem[n], w)
  BY <1>1, <1>2, LearnOK DEF Inv, ViewsOK
<1>4. Become(n, w) /\ net' = Read(m, n) /\ votes' = votes /\ kept' = kept /\ won' = won
  BY DEF DenyVote
<1> HIDE DEF w
<1> QED BY <1>2, <1>3, <1>4, CalmRead

\* So does CLUSTER FAILOVER TAKEOVER.
LEMMA TakeoverStep ==
    ASSUME Inv, NEW n \in Node, Takeover(n)
    PROVE  Inv'
<1> DEFINE v == Bumped(n, mem[n])
           w == ReplaceYourMaster(n, v)
<1>1. EpochsOK(mem[n]) /\ mem \in [Node -> View]
  BY DEF Inv, ViewsOK, ViewOK
<1>2. EpochsOK(v) /\ Evolves(mem[n], v)
  BY <1>1, BumpedOK
<1>3. BecomeSaved(n, w) /\ net' = net /\ votes' = votes /\ kept' = kept /\ won' = won
  BY DEF Takeover
<1> HIDE DEF v
<1>4. ViewOK(n, w) /\ Evolves(v, w)
  BY <1>2, ReplaceYourMasterOK
<1> HIDE DEF w
<1>5. Evolves(mem[n], w)
  BY <1>1, <1>2, <1>4 DEF Evolves, ViewOK, EpochsOK, View
<1>6. SameElection(mem[n], w) /\ mem[n].lastVote <= w.lastVote
  BY <1>1, <1>5, EvolvesCalm
<1>7. ViewsOK' /\ ConfsOK' /\ mem' = [mem EXCEPT ![n] = w]
  BY <1>3, <1>4, <1>6, BecomeSavedOK DEF Inv
<1>8. \A y \in Node : SameElection(mem[y], mem'[y])
  BY <1>1, <1>6, <1>7 DEF SameElection
<1>9. Shrunk(net') /\ NetOK'
  BY <1>3, ShrunkOK DEF Inv, NetOK
<1> QED BY <1>3, <1>7, <1>8, <1>9, CalmStep DEF Inv

\* So does clusterBeforeSleep, after which the file has the last vote.
LEMMA BeforeSleepStep ==
    ASSUME Inv, NEW n \in Node, BeforeSleep(n)
    PROVE  Inv'
<1> DEFINE v == mem[n]
<1>1. /\ conf' = IF n \in todo THEN [conf EXCEPT ![n] = Saved(v)] ELSE conf
      /\ todo' = todo \ {n} /\ kept' = [kept EXCEPT ![n] = v.lastVote]
      /\ mem' = mem /\ net' = net /\ votes' = votes /\ won' = won
  BY DEF BeforeSleep
<1>2. /\ ViewOK(n, v) /\ v.lastVote \in Nat /\ conf \in [Node -> SavedView]
      /\ kept \in [Node -> Nat] /\ FileOK(n, v, conf[n], kept[n], todo)
  BY DEF Inv, ViewsOK, ConfsOK, View
<1> HIDE DEF v
<1>3. FileOK(n, v, Saved(v), v.lastVote, todo') /\ Saved(v) \in SavedView
  BY <1>2, SaveOK
<1>4. n \notin todo => FileOK(n, v, conf[n], v.lastVote, todo')
  BY <1>1, <1>2 DEF FileOK, Synced
<1>5. FileOK(n, v, conf'[n], v.lastVote, todo') /\ conf' \in [Node -> SavedView]
  BY <1>1, <1>2, <1>3, <1>4
<1>6. ASSUME NEW y \in Node, y # n
      PROVE  FileOK(y, mem[y], conf'[y], kept[y], todo')
  BY <1>1, <1>2, <1>6 DEF Inv, ConfsOK, FileOK
<1>7. ConfsOK'
  <2>1. ASSUME NEW y \in Node
        PROVE  FileOK(y, mem'[y], conf'[y], kept'[y], todo')
    BY <1>1, <1>2, <1>5, <1>6 DEF v
  <2> QED BY <1>1, <1>2, <1>5, <2>1 DEF ConfsOK
<1>8. ViewsOK' /\ NetOK' /\ Shrunk(net')
  BY <1>1, ShrunkOK DEF Inv, ViewsOK, NetOK
<1>9. \A y \in Node : SameElection(mem[y], mem'[y])
  BY <1>1 DEF SameElection
<1> QED BY <1>1, <1>7, <1>8, <1>9, CalmStep DEF Inv

\* A node started again from a nodes.conf in order has a view in order, is in no
\* election, and remembers the votes in the file.
LEMMA BootedOK ==
    ASSUME NEW n \in Node, NEW v, NEW c, NEW k, NEW T, FileOK(n, v, c, k, T), NEW U
    PROVE  LET w == Booted(c) IN ViewOK(n, w) /\ FileOK(n, w, c, k, U) /\ w.sent = FALSE
<1> DEFINE f == Loaded(c)
           E == {c.cur} \cup {f[m] : m \in Node}
           w == Booted(c)
<1>1. ConfOK(n, c) /\ c \in SavedView /\ c.cur \in Nat /\ c.lastVote \in Nat /\ c.lastVote <= c.cur
  BY DEF FileOK, ConfOK, SavedView
<1>2. f \in [Node -> Nat] /\ \A m \in Node : f[m] <= c.cur
  BY <1>1 DEF Loaded, ConfOK, SavedView
<1> HIDE DEF f
<1>3. /\ E \in SUBSET Nat /\ E # {} /\ \A x \in E : x <= c.cur
  BY <1>1, <1>2
<1>4. Max(E) \in E /\ \A x \in E : x <= Max(E)
  <2> HIDE DEF E
  <2> QED BY <1>1, <1>3, Greatest
<1>5. Max(E) = c.cur
  <2> DEFINE M == Max(E)
  <2>1. M \in E /\ c.cur \in E /\ \A x \in E : x <= M
    BY <1>4
  <2> HIDE DEF M, E
  <2>2. M \in Nat /\ M <= c.cur /\ c.cur <= M
    BY <1>3, <2>1
  <2> QED BY <1>1, <2>2 DEF M
<1>6. w = [cur |-> c.cur, lastVote |-> c.lastVote,
           of |-> c.of, epoch |-> f, owner |-> c.owner, unclaimed |-> {},
           sent |-> FALSE, authEpoch |-> 0, count |-> 0]
  BY <1>5 DEF Booted, f
<1> HIDE DEF E, w
<1>7. w \in View
  BY <1>1, <1>2, <1>6 DEF View, SavedView
<1>8. /\ w.cur = c.cur /\ w.lastVote = c.lastVote /\ w.of = c.of /\ w.epoch = f
      /\ w.owner = c.owner /\ w.sent = FALSE /\ w.authEpoch = 0
  BY <1>6
<1>9. ViewOK(n, w)
  BY <1>1, <1>2, <1>7, <1>8 DEF ViewOK, EpochsOK, ConfOK
<1>10. FileOK(n, w, c, k, U)
  BY <1>1, <1>8 DEF FileOK, Synced
<1> QED BY <1>8, <1>9, <1>10 DEF w

\* So does a restart from nodes.conf.
LEMMA RestartStep ==
    ASSUME Inv, NEW K \in SUBSET Node, Restart(K)
    PROVE  Inv'
<1>1. /\ mem' = [n \in Node |-> IF n \in K THEN Booted(conf[n]) ELSE mem[n]]
      /\ net' = {k \in {[m EXCEPT !.to = @ \ K] : m \in net} : k.to # {}}
      /\ todo' = todo \ K
      /\ conf' = conf /\ votes' = votes /\ kept' = kept /\ won' = won
  BY DEF Restart
<1>2. ASSUME NEW n \in Node
      PROVE  /\ ViewOK(n, mem'[n]) /\ FileOK(n, mem'[n], conf'[n], kept'[n], todo')
             /\ SameElection(mem[n], mem'[n])
  <2>1. ViewOK(n, mem[n]) /\ FileOK(n, mem[n], conf[n], kept[n], todo)
    BY DEF Inv, ViewsOK, ConfsOK
  <2>2. /\ ViewOK(n, Booted(conf[n])) /\ FileOK(n, Booted(conf[n]), conf[n], kept[n], todo')
        /\ Booted(conf[n]).sent = FALSE
    BY <2>1, BootedOK
  <2>3. CASE n \in K
    BY <1>1, <2>2, <2>3 DEF SameElection
  <2>4. CASE n \notin K
    <3>1. mem'[n] = mem[n] /\ (n \in todo' <=> n \in todo)
      BY <1>1, <2>4
    <3> QED BY <1>1, <2>1, <3>1 DEF SameElection, FileOK
  <2> QED BY <2>3, <2>4
<1>3. ViewsOK'
  BY <1>1, <1>2 DEF ViewsOK, ViewOK, EpochsOK
<1>4. ConfsOK'
  BY <1>1, <1>2 DEF ConfsOK, Inv
<1>5. ASSUME NEW k \in net'
      PROVE  \E j \in net : /\ MsgOK(k) /\ j.type = k.type /\ j.hdr = k.hdr /\ k.to \subseteq j.to
                            /\ k.type = "ack" => k = j
                            /\ k = [j EXCEPT !.to = @ \ K]
  <2>1. PICK j \in net : k = [j EXCEPT !.to = @ \ K]
    BY <1>1
  <2>2. k.to # {}
    BY <1>1
  <2>3. MsgOK(j) /\ j \in PlainMsg \cup UpdateMsg
    BY DEF Inv, NetOK, MsgOK
  <2>4. /\ k.type = j.type /\ k.hdr = j.hdr /\ k.to = j.to \ K
        /\ MsgOK(k)
    BY <2>1, <2>3 DEF MsgOK, PlainMsg, UpdateMsg
  <2>5. ASSUME k.type = "ack"
        PROVE  k = j
    <3>1. k.to = j.to
      <4>1. PICK c \in Node : AckOK(j, c, net, votes)
        BY <2>4, <2>5 DEF Inv, AcksOK
      <4> QED BY <2>2, <2>4, <4>1 DEF AckOK
    <3> QED BY <2>1, <2>3, <2>4, <3>1 DEF PlainMsg, UpdateMsg
  <2> QED BY <2>1, <2>4, <2>5
<1>6. NetOK'
  BY <1>5 DEF NetOK
<1>7. OneRequest(net')
  <2>1. SUFFICES ASSUME NEW j \in net', NEW k \in net',
                        j.type = "request", k.type = "request", j.hdr.from = k.hdr.from
                 PROVE  j = k
    BY DEF OneRequest
  <2>2. PICK i \in net : i.type = j.type /\ i.hdr = j.hdr /\ j = [i EXCEPT !.to = @ \ K]
    BY <1>5
  <2>3. PICK l \in net : l.type = k.type /\ l.hdr = k.hdr /\ k = [l EXCEPT !.to = @ \ K]
    BY <1>5
  <2>4. i = l
    BY <2>1, <2>2, <2>3 DEF Inv, RequestsOK, OneRequest
  <2> QED BY <2>2, <2>3, <2>4
<1>8. Shrunk(net')
  <2>1. \A k \in net' : k.type = "ack" => k \in net
    BY <1>5
  <2>2. \A k \in net' : k.type = "request" =>
           \E j \in net : j.type = "request" /\ j.hdr = k.hdr /\ k.to \subseteq j.to
    BY <1>5
  <2> QED BY <1>7, <2>1, <2>2 DEF Shrunk
<1> QED BY <1>1, <1>2, <1>3, <1>4, <1>6, <1>8, CalmStep DEF Inv

\* An election is won with at least a quorum of votes.
LEMMA WinStep ==
    ASSUME Inv, NEW n \in Node, Win(n)
    PROVE  Inv'
<1> DEFINE e == Later(mem[n].epoch[n], mem[n].authEpoch)
           v == [mem[n] EXCEPT !.epoch[n] = e]
           w == ReplaceYourMaster(n, v)
<1>1. mem[n] \in View /\ EpochsOK(mem[n]) /\ ElectionOK(n)
  BY DEF Inv, ViewsOK, ViewOK, ElectionsOK
<1>2. /\ HasQuorum(n) /\ BecomeSaved(n, w) /\ won' = won \cup {Victory(n)}
      /\ net' = net /\ votes' = votes /\ kept' = kept
  BY DEF Win
<1>3. e \in Nat /\ e <= mem[n].cur
  BY <1>1 DEF Later, EpochsOK, View
<1>4. EpochsOK(v) /\ Evolves(mem[n], v)
  <2> HIDE DEF e
  <2>1. /\ v.owner = mem[n].owner /\ v.cur = mem[n].cur /\ v.lastVote = mem[n].lastVote
        /\ v.epoch = [mem[n].epoch EXCEPT ![n] = e]
        /\ v.sent = mem[n].sent /\ v.authEpoch = mem[n].authEpoch /\ v.count = mem[n].count
    BY <1>1 DEF View
  <2>2. v \in View
    BY <1>1, <1>3 DEF View
  <2> HIDE DEF v
  <2> QED BY <1>1, <1>3, <2>1, <2>2 DEF EpochsOK, Evolves, View
<1> HIDE DEF v
<1>5. ViewOK(n, w) /\ Evolves(v, w)
  BY <1>4, ReplaceYourMasterOK
<1> HIDE DEF w
<1>6. Evolves(mem[n], w)
  BY <1>1, <1>4, <1>5 DEF Evolves, ViewOK, EpochsOK, View
<1>7. SameElection(mem[n], w) /\ mem[n].lastVote <= w.lastVote
  BY <1>1, <1>6, EvolvesCalm
<1>8. ViewsOK' /\ ConfsOK' /\ mem' = [mem EXCEPT ![n] = w]
  BY <1>2, <1>5, <1>7, BecomeSavedOK DEF Inv
<1>9. RequestsOK' /\ VotesOK' /\ AcksOK' /\ ElectionsOK' /\ NetOK'
  <2>1. \A y \in Node : SameElection(mem[y], mem'[y])
    BY <1>7, <1>8 DEF SameElection, Inv, ViewsOK
  <2>2. Shrunk(net') /\ NetOK'
    BY <1>2, ShrunkOK DEF Inv, NetOK
  <2> QED BY <1>2, <2>1, <2>2, CalmVoting
<1>10. WonOK'
  <2> DEFINE Q == Quorum(mem[n])
             S == Supporters(n, mem[n].authEpoch)
  <2>1. Q \in Nat
    <3>1. Voters(mem[n]) \in SUBSET Node
      BY DEF Voters
    <3>2. Cardinality(Voters(mem[n])) \in Nat
      BY <3>1, FewerSupporters
    <3> QED BY <3>2 DEF Quorum
  <2>2. Arrived(n) \subseteq S /\ S \in SUBSET Node
    BY DEF Arrived, Supporters
  <2>3. Cardinality(S) >= Q
    <3>1. mem[n].count <= Cardinality(Arrived(n)) /\ mem[n].count >= Q /\ mem[n].count \in Nat
      BY <1>1, <1>2 DEF ElectionOK, HasQuorum, View
    <3> HIDE DEF Q, S
    <3> QED BY <2>1, <2>2, <3>1, FewerSupporters
  <2>4. Victory(n) = [node |-> n, epoch |-> mem[n].authEpoch, quorum |-> Q]
    BY DEF Victory
  <2>5. \A x, d : Supporters(x, d)' = Supporters(x, d)
    BY <1>2 DEF Supporters
  <2>6. mem[n].authEpoch \in Nat
    BY <1>1 DEF View
  <2> HIDE DEF Q
  <2> QED BY <1>2, <2>1, <2>3, <2>4, <2>5, <2>6 DEF Inv, WonOK, WinnersHaveVotes
<1> QED BY <1>8, <1>9, <1>10 DEF Inv

\* A new election starts with no vote and no message.
LEMMA RequestVotesStep ==
    ASSUME Inv, NEW n \in Node, RequestVotes(n)
    PROVE  Inv'
<1> DEFINE v == mem[n]
           e == v.cur + 1
           w == [v EXCEPT !.cur = e, !.authEpoch = e, !.count = 0, !.sent = TRUE]
           r == Message("request", n, w, Voters(w))
<1>1. v \in View /\ ViewOK(n, v) /\ mem \in [Node -> View]
  BY DEF Inv, ViewsOK
<1>2. /\ v.of[n] # NoNode
      /\ mem' = [mem EXCEPT ![n] = w] /\ todo' = todo \cup {n} /\ conf' = conf
      /\ net' = (net \ OfElection(n)) \cup {r}
      /\ votes' = votes /\ kept' = kept /\ won' = won
  BY DEF RequestVotes, MayFailover, IsMaster
<1>3. /\ w.owner = v.owner /\ w.cur = v.cur + 1 /\ w.lastVote = v.lastVote
      /\ w.epoch = v.epoch /\ w.of = v.of
      /\ w.sent = TRUE /\ w.authEpoch = v.cur + 1 /\ w.count = 0
  BY <1>1 DEF View
<1>4. w \in View
  <2>1. e \in Nat
    BY <1>1 DEF View
  <2> HIDE DEF e
  <2> QED BY <1>1, <2>1 DEF View
<1> HIDE DEF w
<1>5. ViewOK(n, w)
  BY <1>1, <1>3, <1>4 DEF ViewOK, EpochsOK, View
<1>6. ViewsOK'
  BY <1>1, <1>2, <1>4, <1>5 DEF Inv, ViewsOK
<1>7. ConfsOK'
  <2>1. ASSUME NEW y \in Node
        PROVE  FileOK(y, mem'[y], conf'[y], kept'[y], todo')
    <3>1. FileOK(y, mem[y], conf[y], kept[y], todo)
      BY DEF Inv, ConfsOK
    <3>2. CASE y = n
      BY <1>1, <1>2, <1>3, <3>1, <3>2 DEF FileOK
    <3>3. CASE y # n
      BY <1>1, <1>2, <3>1, <3>3 DEF FileOK
    <3> QED BY <3>2, <3>3
  <2> QED BY <1>2, <2>1 DEF Inv, ConfsOK
<1>8. MsgOK(r) /\ r.type = "request" /\ r.hdr.from = n /\ r.hdr.cur = w.cur
  <2>1. Voters(w) \in SUBSET Node /\ n \notin Voters(w) /\ EpochsOK(w)
    BY <1>2, <1>3, <1>5 DEF Voters, IsMaster, ViewOK
  <2>2. MsgOK(r)
    BY <2>1, MessageOK
  <2> QED BY <2>1, <2>2, HeaderOK DEF Message
<1> HIDE DEF r
<1>9. NetOK'
  BY <1>2, <1>8 DEF Inv, NetOK
<1>10. VotesOK' /\ WonOK'
  BY <1>2, WinnersKeepVotes DEF Inv, VotesOK
<1>11. /\ \A k \in net' : k \in net \/ k = r
       /\ \A k \in net' : k.type = "request" /\ k.hdr.from = n => k = r
       /\ \A k \in net' : k.type = "ack" => k \in net /\ n \notin k.to
  BY <1>2, <1>8 DEF OfElection
<1>12. RequestsOK'
  BY <1>8, <1>11 DEF Inv, RequestsOK, OneRequest
<1>13. AcksOK'
  <2>1. SUFFICES ASSUME NEW m \in net', m.type = "ack"
                 PROVE  \E c \in Node : AckOK(m, c, net', votes')
    BY DEF AcksOK
  <2>2. m \in net /\ n \notin m.to
    BY <1>11, <2>1
  <2>3. PICK c \in Node : AckOK(m, c, net, votes)
    BY <2>1, <2>2 DEF Inv, AcksOK
  <2>4. c # n
    BY <2>2, <2>3 DEF AckOK
  <2>5. AckOK(m, c, net', votes')
    BY <1>2, <1>8, <1>11, <2>3, <2>4 DEF AckOK
  <2> QED BY <2>5
<1>14. ASSUME NEW y \in Node, y # n
       PROVE  ElectionOK(y)'
  <2>1. SameElection(mem[y], mem'[y])
    BY <1>1, <1>2, <1>14 DEF SameElection
  <2>2. \A k \in net' : k.type = "request" /\ k.hdr.from = y =>
               \E j \in net : j.type = "request" /\ j.hdr = k.hdr /\ k.to \subseteq j.to
    BY <1>8, <1>11, <1>14
  <2> QED BY <1>2, <1>11, <2>1, <2>2, ElectionGoesOn
<1>15. ElectionOK(n)'
  <2>1. mem'[n] = w
    BY <1>1, <1>2
  <2>2. Acks(n)' = {}
    BY <1>11 DEF Acks
  <2>3. Cardinality(Arrived(n)') \in Nat
    <3>1. Arrived(n)' \in SUBSET Node
      BY DEF Arrived, Supporters
    <3> QED BY <3>1, FewerSupporters
  <2> QED BY <1>3, <1>8, <1>11, <2>1, <2>2, <2>3 DEF ElectionOK
<1>16. ElectionsOK'
  BY <1>14, <1>15 DEF ElectionsOK
<1> QED BY <1>6, <1>7, <1>9, <1>10, <1>12, <1>13, <1>16 DEF Inv

\* A vote is in an epoch after the one in the file, and its acknowledgement is the
\* only one of its voter on its way to the candidate.
LEMMA GrantVoteStep ==
    ASSUME Inv, NEW m \in net, NEW n \in m.to, GrantVote(m, n)
    PROVE  Inv' /\ \A x \in votes' \ votes : x.epoch > kept[x.voter]
<1> DEFINE h == m.hdr
           c == h.from
           v == Learn(mem[n], h)
           w == [v EXCEPT !.lastVote = v.cur]
           a == Message("ack", n, w, {c})
           b == [voter |-> n, epoch |-> w.cur, for |-> c]
<1>1. MsgOK(m) /\ NetOK /\ AcksOK /\ RequestsOK /\ mem \in [Node -> View]
  BY DEF Inv, NetOK, ViewsOK
<1>2. n \in Node /\ HdrOK(h) /\ c # n /\ c \in Node /\ h.cur \in Nat
  BY <1>1 DEF MsgOK, PlainMsg, UpdateMsg, HdrOK, Hdr
<1>3. ViewOK(n, v) /\ Evolves(mem[n], v) /\ h.cur <= v.cur
  BY <1>2, LearnOK DEF Inv, ViewsOK
<1>4. /\ m.type = "request" /\ h.cur >= v.cur /\ v.lastVote # v.cur
      /\ Become(n, w) /\ net' = Read(m, n) \cup {a}
      /\ votes' = votes \cup {b} /\ kept' = kept /\ won' = won
  BY DEF GrantVote, MayVote
<1> HIDE DEF v
<1>5. /\ w.owner = v.owner /\ w.cur = v.cur /\ w.lastVote = v.cur
      /\ w.epoch = v.epoch /\ w.of = v.of
      /\ w.sent = v.sent /\ w.authEpoch = v.authEpoch /\ w.count = v.count
      /\ v \in View /\ w \in View
  BY <1>3 DEF ViewOK, EpochsOK, View
<1> HIDE DEF w
<1>6. ViewOK(n, w) /\ SameElection(mem[n], w)
  BY <1>3, <1>5 DEF ViewOK, EpochsOK, View, Evolves, SameElection
<1>7. /\ h.cur = w.cur /\ mem[n].lastVote < w.cur /\ w.cur \in Nat
      /\ mem[n].lastVote <= w.lastVote
  <2>1. mem[n].lastVote \in Nat /\ v.lastVote = mem[n].lastVote /\ v.lastVote <= v.cur
        /\ v.cur \in Nat
    BY <1>1, <1>2, <1>3, <1>5 DEF ViewOK, EpochsOK, View, Evolves
  <2> QED BY <1>2, <1>3, <1>4, <1>5, <2>1
<1>8. ViewsOK' /\ ConfsOK' /\ mem' = [mem EXCEPT ![n] = w]
  BY <1>2, <1>4, <1>6, <1>7, BecomeOK DEF Inv
<1>9. /\ MsgOK(a) /\ a.type = "ack" /\ a.to = {c}
      /\ a.hdr.from = n /\ a.hdr.cur = w.cur
  <2>1. EpochsOK(w)
    BY <1>6 DEF ViewOK
  <2>2. MsgOK(a)
    BY <1>2, <2>1, MessageOK
  <2> QED BY <1>2, <2>1, <2>2, HeaderOK DEF Message
<1>10. /\ \A k \in Read(m, n) : MsgOK(k)
       /\ Shrunk(Read(m, n))
       /\ \A k \in Read(m, n) : k.type = "request" /\ k.hdr.from = c => n \notin k.to
  BY <1>1, <1>4, ReadOK
<1>11. b \in [voter : Node, epoch : Nat, for : Node]
       /\ b.voter = n /\ b.epoch = w.cur /\ b.for = c
  BY <1>2, <1>7
<1> HIDE DEF a
<1>12. kept[n] \in Nat /\ kept[n] < b.epoch
  <2>1. kept[n] \in Nat /\ kept[n] <= mem[n].lastVote /\ mem[n].lastVote \in Nat
    BY <1>1, <1>2 DEF Inv, ConfsOK, FileOK, View
  <2> QED BY <1>7, <1>11, <2>1
<1>13. \A x \in votes' \ votes : x.epoch > kept[x.voter]
  BY <1>4, <1>11, <1>12
<1>14. NetOK' /\ VotesOK' /\ WonOK'
  <2>1. NetOK'
    BY <1>4, <1>9, <1>10 DEF NetOK
  <2>2. VotesOK'
    BY <1>4, <1>11 DEF Inv, VotesOK
  <2> QED BY <1>4, <2>1, <2>2, WinnersKeepVotes
<1>15. /\ \A k \in net' : k.type = "request" =>
              /\ k \in Read(m, n)
              /\ \E j \in net : j.type = "request" /\ j.hdr = k.hdr /\ k.to \subseteq j.to
       /\ \A k \in net' : k.type = "ack" => k = a \/ k \in net
       /\ \A k \in net' : k.type = "request" /\ k.hdr.from = c => n \notin k.to
  <2>1. \A k \in net' : k.type = "request" => k \in Read(m, n)
    BY <1>4, <1>9
  <2> QED BY <1>4, <1>10, <2>1 DEF Shrunk
<1>16. RequestsOK'
  BY <1>10, <1>15 DEF Shrunk, RequestsOK, OneRequest
<1>17. ASSUME NEW k \in net, k.type = "ack", k.hdr.from = n
       PROVE  k.to # {c}
  <2>1. PICK d \in Node : AckOK(k, d, net, votes)
    BY <1>1, <1>17 DEF AcksOK
  <2> QED BY <1>4, <1>17, <2>1 DEF AckOK
<1>18. AcksOK'
  <2>1. ASSUME NEW k \in net', k.type = "ack", k # a
        PROVE  \E d \in Node : AckOK(k, d, net', votes')
    <3>1. k \in net
      BY <1>15, <2>1
    <3>2. PICK d \in Node : AckOK(k, d, net, votes)
      BY <1>1, <2>1, <3>1 DEF AcksOK
    <3>3. \A j \in net' : j.type = "ack" /\ j.hdr.from = k.hdr.from /\ j.to = {d} => j = k
      BY <1>9, <1>15, <1>17, <2>1, <3>1, <3>2 DEF AckOK
    <3>4. \A j \in net' : j.type = "request" /\ j.hdr.from = d => k.hdr.from \notin j.to
      BY <1>15, <3>2 DEF AckOK
    <3>5. AckOK(k, d, net', votes')
      BY <1>4, <3>2, <3>3, <3>4 DEF AckOK
    <3> QED BY <3>5
  <2>2. AckOK(a, c, net', votes')
    <3>1. [voter |-> a.hdr.from, epoch |-> a.hdr.cur, for |-> c] \in votes'
      BY <1>4, <1>9
    <3>2. \A j \in net' : j.type = "ack" /\ j.hdr.from = a.hdr.from /\ j.to = {c} => j = a
      BY <1>9, <1>15, <1>17
    <3>3. \A j \in net' : j.type = "request" /\ j.hdr.from = c => a.hdr.from \notin j.to
      BY <1>9, <1>15
    <3> QED BY <1>9, <3>1, <3>2, <3>3 DEF AckOK
  <2> QED BY <1>2, <2>1, <2>2 DEF AcksOK
<1> HIDE DEF b
<1>19. \A y \in Node : SameElection(mem[y], mem'[y])
  BY <1>1, <1>2, <1>6, <1>8 DEF SameElection
<1>20. ASSUME NEW y \in Node, y # c
       PROVE  ElectionOK(y)'
  <2>1. \A k \in net' : k.type = "ack" /\ y \in k.to => k \in net
    BY <1>9, <1>15, <1>20
  <2> QED BY <1>4, <1>15, <1>19, <2>1, ElectionGoesOn
<1>21. ElectionOK(c)'
  <2>1. mem'[c] = mem[c]
    BY <1>1, <1>2, <1>8
  <2>2. SUFFICES ASSUME mem[c].sent
                 PROVE  ElectionOK(c)'
    BY <2>1 DEF ElectionOK
  <2>3. ElectionOK(c) /\ mem[c].count \in Nat
    BY <1>1, <1>2 DEF Inv, ElectionsOK, View
  <2>4. mem[c].authEpoch = w.cur
    BY <1>4, <1>7, <2>2, <2>3 DEF ElectionOK
  <2>5. \A k \in Acks(c)' : k \in Acks(c) \/ k = a
    BY <1>15 DEF Acks
  <2>6. Arrived(c) \subseteq Arrived(c)' /\ Arrived(c)' \in SUBSET Node
    <3>1. ASSUME NEW x \in Arrived(c)
          PROVE  x \in Arrived(c)'
      <4>1. x \in Supporters(c, mem[c].authEpoch) /\ x \notin Asked(c)
        BY DEF Arrived
      <4>2. x # n
        BY <1>2, <1>4, <4>1 DEF Asked
      <4>3. x \in Supporters(c, mem[c].authEpoch)'
        BY <1>4, <2>1, <4>1 DEF Supporters
      <4>4. \A k \in Acks(c)' : k.hdr.from # x
        BY <1>9, <2>5, <4>2 DEF Arrived
      <4>5. x \notin Asked(c)'
        BY <1>15, <4>1 DEF Asked
      <4> QED BY <4>3, <4>4, <4>5 DEF Arrived
    <3> QED BY <3>1 DEF Arrived, Supporters
  <2>7. mem'[c].count <= Cardinality(Arrived(c)')
    BY <2>1, <2>2, <2>3, <2>6, FewerSupporters DEF ElectionOK
  <2>8. \A k \in Acks(c)' : k.hdr.cur = mem'[c].authEpoch
    BY <1>9, <2>1, <2>2, <2>3, <2>4, <2>5 DEF ElectionOK
  <2>9. \A k \in net' : k.type = "request" /\ k.hdr.from = c => k.hdr.cur = mem'[c].authEpoch
    BY <1>15, <2>1, <2>2, <2>3 DEF ElectionOK
  <2> QED BY <2>7, <2>8, <2>9 DEF ElectionOK
<1>22. ElectionsOK'
  BY <1>20, <1>21 DEF ElectionsOK
<1> QED BY <1>8, <1>13, <1>14, <1>16, <1>18, <1>22 DEF Inv

\* An acknowledgement that is counted is of a vote that was not counted before.
LEMMA ReceiveAckStep ==
    ASSUME Inv, NEW m \in net, NEW n \in m.to, ReceiveAck(m, n)
    PROVE  Inv'
<1> DEFINE h == m.hdr
           v == Learn(mem[n], h)
           k1 == v.count + 1
           w == [v EXCEPT !.count = k1]
<1>1. MsgOK(m) /\ NetOK /\ AcksOK /\ RequestsOK /\ mem \in [Node -> View] /\ m.type = "ack"
  BY DEF Inv, NetOK, ViewsOK, ReceiveAck
<1>2. n \in Node /\ HdrOK(h) /\ h.from # n /\ h.from \in Node
  BY <1>1 DEF MsgOK, PlainMsg, UpdateMsg, HdrOK, Hdr
<1>3. ViewOK(n, v) /\ Evolves(mem[n], v)
  BY <1>2, LearnOK DEF Inv, ViewsOK
<1>4. /\ Become(n, v) \/ Become(n, w)
      /\ net' = Read(m, n) /\ votes' = votes /\ kept' = kept /\ won' = won
  BY DEF ReceiveAck
<1> HIDE DEF v
<1>5. /\ w.owner = v.owner /\ w.cur = v.cur /\ w.lastVote = v.lastVote
      /\ w.epoch = v.epoch /\ w.of = v.of
      /\ w.sent = v.sent /\ w.authEpoch = v.authEpoch /\ w.count = v.count + 1
      /\ v \in View /\ w \in View
  BY <1>3 DEF ViewOK, EpochsOK, View
<1> HIDE DEF w
<1>6. ViewOK(n, w) /\ mem[n].lastVote <= w.lastVote
  BY <1>1, <1>2, <1>3, <1>5 DEF ViewOK, EpochsOK, View, Evolves
<1>7. CASE Become(n, v)
  BY <1>2, <1>3, <1>4, <1>7, CalmRead
<1>8. CASE Become(n, w)
  <2>1. ViewsOK' /\ ConfsOK' /\ mem' = [mem EXCEPT ![n] = w]
    BY <1>2, <1>4, <1>6, <1>8, BecomeOK DEF Inv
  <2>2. /\ \A k \in net' : MsgOK(k)
        /\ \A k \in net' : k.type = "ack" => k \in net \ {m}
        /\ Shrunk(net')
    BY <1>1, <1>4, ReadOK
  <2>3. /\ \A k \in net' : k.type = "request" =>
               \E j \in net : j.type = "request" /\ j.hdr = k.hdr /\ k.to \subseteq j.to
    BY <2>2 DEF Shrunk
  <2>4. NetOK' /\ RequestsOK' /\ VotesOK' /\ WonOK'
    <3>1. NetOK' /\ RequestsOK' /\ VotesOK'
      BY <1>4, <2>2 DEF Inv, NetOK, RequestsOK, VotesOK, Shrunk
    <3> QED BY <1>4, <3>1, WinnersKeepVotes
  <2>5. AcksOK'
    <3>1. SUFFICES ASSUME NEW k \in net', k.type = "ack"
                   PROVE  \E c \in Node : AckOK(k, c, net', votes')
      BY DEF AcksOK
    <3>2. PICK c \in Node : AckOK(k, c, net, votes)
      BY <1>1, <2>2, <3>1 DEF AcksOK
    <3>3. AckOK(k, c, net', votes')
      BY <1>4, <2>2, <2>3, <3>2 DEF AckOK
    <3> QED BY <3>3
  <2>6. ASSUME NEW y \in Node, y # n
        PROVE  ElectionOK(y)'
    <3>1. SameElection(mem[y], mem'[y])
      BY <1>1, <2>1, <2>6 DEF SameElection
    <3> QED BY <1>4, <2>2, <2>3, <3>1, ElectionGoesOn
  <2>7. ElectionOK(n)'
    <3>1. mem'[n] = w
      BY <1>1, <1>2, <2>1
    <3>2. SUFFICES ASSUME w.sent
                   PROVE  ElectionOK(n)'
      BY <3>1 DEF ElectionOK
    <3>3. /\ mem[n].sent /\ w.authEpoch = mem[n].authEpoch
          /\ w.count = mem[n].count + 1 /\ mem[n].count \in Nat
      BY <1>1, <1>2, <1>3, <1>5, <3>2 DEF Evolves, View
    <3>4. ElectionOK(n)
      BY <1>2 DEF Inv, ElectionsOK
    <3>5. /\ [voter |-> h.from, epoch |-> h.cur, for |-> n] \in votes
          /\ \A k \in net : k.type = "ack" /\ k.hdr.from = h.from /\ n \in k.to => k = m
          /\ \A k \in net : k.type = "request" /\ k.hdr.from = n => h.from \notin k.to
      <4>1. PICK c \in Node : AckOK(m, c, net, votes)
        BY <1>1 DEF AcksOK
      <4>2. c = n
        BY <4>1 DEF AckOK
      <4>3. ASSUME NEW k \in net, k.type = "ack", n \in k.to
            PROVE  k.to = {n}
        <5>1. PICK d \in Node : AckOK(k, d, net, votes)
          BY <1>1, <4>3 DEF AcksOK
        <5> QED BY <4>3, <5>1 DEF AckOK
      <4> QED BY <4>1, <4>2, <4>3 DEF AckOK
    <3>6. m \in Acks(n) /\ h.cur = mem[n].authEpoch
      BY <1>1, <3>3, <3>4 DEF Acks, ElectionOK
    <3>7. Acks(n)' \subseteq Acks(n) \ {m} /\ Asked(n)' \subseteq Asked(n)
      BY <2>2, <2>3 DEF Acks, Asked
    <3>8. Supporters(n, mem[n].authEpoch)' = Supporters(n, mem[n].authEpoch)
      BY <1>4, <3>1, <3>3 DEF Supporters
    <3>9. h.from \notin Arrived(n) /\ h.from \in Arrived(n)'
      <4>1. h.from \notin Arrived(n)
        BY <3>6 DEF Arrived
      <4>2. h.from \in Supporters(n, mem[n].authEpoch)
        BY <1>2, <3>5, <3>6 DEF Supporters
      <4>3. \A k \in Acks(n)' : k.hdr.from # h.from
        BY <3>5, <3>7 DEF Acks
      <4>4. h.from \notin Asked(n)'
        BY <3>5, <3>7 DEF Asked
      <4> QED BY <3>8, <4>1, <4>2, <4>3, <4>4 DEF Arrived
    <3>10. Arrived(n) \subseteq Arrived(n)' /\ Arrived(n)' \in SUBSET Node
      BY <3>7, <3>8 DEF Arrived, Supporters
    <3>11. /\ Cardinality(Arrived(n) \cup {h.from}) = Cardinality(Arrived(n)) + 1
           /\ Cardinality(Arrived(n)) \in Nat
      <4>1. Arrived(n) \in SUBSET Node
        BY DEF Arrived, Supporters
      <4>2. IsFiniteSet(Arrived(n))
        BY <4>1, ClusterAssumption, FS_Subset
      <4> QED BY <3>9, <4>2, FS_AddElement, FS_CardinalityType
    <3>12. Cardinality(Arrived(n) \cup {h.from}) <= Cardinality(Arrived(n)')
           /\ Cardinality(Arrived(n)') \in Nat
      BY <3>9, <3>10, FewerSupporters
    <3>13. mem'[n].count <= Cardinality(Arrived(n)')
      BY <3>1, <3>3, <3>4, <3>11, <3>12 DEF ElectionOK
    <3>14. \A k \in Acks(n)' : k.hdr.cur = mem'[n].authEpoch
      BY <3>1, <3>3, <3>4, <3>7 DEF ElectionOK
    <3>15. \A k \in net' : k.type = "request" /\ k.hdr.from = n => k.hdr.cur = mem'[n].authEpoch
      BY <1>2, <2>3, <3>1, <3>3, <3>4 DEF ElectionOK
    <3> QED BY <3>13, <3>14, <3>15 DEF ElectionOK
  <2>8. ElectionsOK'
    BY <2>6, <2>7 DEF ElectionsOK
  <2> QED BY <2>1, <2>4, <2>5, <2>8 DEF Inv
<1> QED BY <1>4, <1>7, <1>8

-----------------------------------------------------------------------------
(* The theorems                                                            *)

\* The cluster starts in order.
LEMMA InitInv ==
    ASSUME Init
    PROVE  Inv
<1>1. ASSUME NEW n \in Node
      PROVE  /\ ViewOK(n, InitView(n)) /\ Saved(InitView(n)) \in SavedView
             /\ FileOK(n, InitView(n), Saved(InitView(n)), 0, {})
  <2> DEFINE E == {InitEpoch(m) : m \in Node}
             v == InitView(n)
             epoch == [m \in Node |-> IF InitOf[m] = NoNode THEN InitEpoch(m)
                                      ELSE IF m = n THEN 0 ELSE InitEpoch(InitOf[m])]
  <2>1. ASSUME NEW m \in Node
        PROVE  InitEpoch(m) \in Nat /\ InitEpoch(m) <= Cardinality(Node)
    BY FewerSupporters DEF InitEpoch
  <2>2. E \in SUBSET Nat /\ E # {} /\ \A x \in E : x <= Cardinality(Node)
    BY <2>1
  <2>3. Cardinality(Node) \in Nat
    BY ClusterAssumption, FS_CardinalityType
  <2>4. Max(E) \in E /\ \A x \in E : x <= Max(E)
    <3> HIDE DEF E
    <3> QED BY <2>2, <2>3, Greatest
  <2>5. Max(E) \in Nat /\ \A m \in Node : InitEpoch(m) <= Max(E)
    BY <2>2, <2>4
  <2>6. epoch \in [Node -> Nat] /\ \A m \in Node : epoch[m] <= Max(E)
    <3> HIDE DEF E
    <3> QED BY <2>1, <2>5, ClusterAssumption
  <2>7. v = [cur |-> Max(E), lastVote |-> 0, of |-> InitOf, epoch |-> epoch,
             owner |-> InitOwner, unclaimed |-> {},
             sent |-> FALSE, authEpoch |-> 0, count |-> 0]
    BY DEF InitView
  <2> HIDE DEF E, epoch, v
  <2>8. v \in View /\ v.lastVote = 0
    BY <2>5, <2>6, <2>7, ClusterAssumption DEF View
  <2>9. ViewOK(n, v)
    BY <2>5, <2>6, <2>7, <2>8, ClusterAssumption DEF ViewOK, EpochsOK
  <2>10. FileOK(n, v, Saved(v), 0, {}) /\ Saved(v) \in SavedView
    BY <2>8, <2>9, SaveOK
  <2> QED BY <2>9, <2>10 DEF v
<1>2. ViewsOK
  BY <1>1 DEF Init, ViewsOK, ViewOK, EpochsOK
<1>3. ConfsOK
  BY <1>1 DEF Init, ConfsOK
<1>4. \A n \in Node : ~mem[n].sent
  BY DEF Init, InitView
<1>5. ElectionsOK
  BY <1>4 DEF ElectionsOK, ElectionOK
<1> QED BY <1>2, <1>3, <1>5 DEF Init, Inv, NetOK, RequestsOK, OneRequest, VotesOK, AcksOK,
                         WonOK, WinnersHaveVotes

\* Every step preserves the invariant.
LEMMA NextInv ==
    ASSUME Inv, [Next]_vars
    PROVE  Inv'
<1>1. CASE \E n \in Node : BeforeSleep(n)
  BY <1>1, BeforeSleepStep
<1>2. CASE \E x, n \in Node : Gossip(x, n) \/ DelayPing(x, n)
  BY <1>2, GossipStep, DelayPingStep
<1>3. CASE \E m \in net : \E n \in m.to :
              \/ ReceivePing(m, n) \/ ReceiveUpdate(m, n)
              \/ DenyVote(m, n) \/ GrantVote(m, n) \/ ReceiveAck(m, n)
  BY <1>3, ReceivePingStep, ReceiveUpdateStep, DenyVoteStep, GrantVoteStep, ReceiveAckStep
<1>4. CASE \E n \in Node : RequestVotes(n) \/ Win(n) \/ Takeover(n)
  BY <1>4, RequestVotesStep, WinStep, TakeoverStep
<1>5. CASE \E K \in MayRestart : Restart(K)
  BY <1>5, RestartStep, ClusterAssumption
<1>6. CASE UNCHANGED vars
  <2>1. UNCHANGED <<mem, conf, todo, net, votes, kept, won>>
    BY <1>6 DEF vars
  <2>2. ViewsOK' /\ ConfsOK' /\ NetOK'
    BY <2>1 DEF Inv, ViewsOK, ConfsOK, NetOK
  <2>3. (\A n \in Node : SameElection(mem[n], mem'[n])) /\ Shrunk(net')
    BY <2>1, ShrunkOK DEF SameElection, Inv
  <2> QED BY <2>1, <2>2, <2>3, CalmStep DEF Inv
<1> QED BY <1>1, <1>2, <1>3, <1>4, <1>5, <1>6 DEF Next, Step

\* The inductive invariant holds in every behaviour: the lemmas above are its
\* induction step, one for each handler of a message, timer or command.  nodes.conf
\* may be older than the view of a node that has to save, and has the epoch of its
\* master for a replica, of which none is loaded; a message may leave before its
\* sender has saved.
THEOREM Invariance == Spec => []Inv
<1>1. Init => Inv
  BY InitInv
<1>2. Inv /\ [Next]_vars => Inv'
  BY NextInv
<1> QED BY <1>1, <1>2, PTL DEF Spec

\* No view holds a config epoch greater than its currentEpoch, after any gossip,
\* takeover, collision or restart from a nodes.conf with an older currentEpoch.
THEOREM TypesCorrect == Spec => []TypeOK
<1>1. Inv => TypeOK
  BY DEF Inv, ViewsOK, ViewOK, EpochsOK, TypeOK
<1> QED BY <1>1, Invariance, PTL

\* Only a vote adds to the votes.
LEMMA OnlyGrantVotes ==
    ASSUME Next, votes' # votes
    PROVE  \E m \in net : \E n \in m.to : GrantVote(m, n)
<1>1. CASE \E n \in Node : BeforeSleep(n)
  BY <1>1 DEF BeforeSleep
<1>2. CASE \E x, n \in Node : Gossip(x, n) \/ DelayPing(x, n)
  BY <1>2 DEF Gossip, DelayPing, Process
<1>3. ASSUME NEW m \in net, NEW n \in m.to,
             ReceivePing(m, n) \/ ReceiveUpdate(m, n) \/ DenyVote(m, n) \/ ReceiveAck(m, n)
      PROVE  FALSE
  BY <1>3 DEF ReceivePing, ReceiveUpdate, DenyVote, ReceiveAck, Process
<1>4. CASE \E n \in Node : RequestVotes(n) \/ Win(n) \/ Takeover(n)
  BY <1>4 DEF RequestVotes, Win, Takeover
<1>5. CASE \E K \in MayRestart : Restart(K)
  BY <1>5 DEF Restart
<1> QED BY <1>1, <1>2, <1>3, <1>4, <1>5 DEF Next, Step

\* A voter that has gone to sleep since its last vote never votes again in that
\* epoch or before, although it may be killed and started again at any time and
\* its acknowledgements may leave before clusterBeforeSleep has saved the vote.
THEOREM VotesAreSingle == Spec => OneVotePerEpoch
<1> DEFINE New == \A x \in votes' \ votes : x.epoch > kept[x.voter]
<1>1. ASSUME Inv, [Next]_vars
      PROVE  [New]_vars
  <2>1. CASE votes' = votes
    BY <2>1
  <2>2. CASE votes' # votes
    <3>1. Next
      BY <1>1, <2>2 DEF vars
    <3>2. PICK m \in net : \E n \in m.to : GrantVote(m, n)
      BY <2>2, <3>1, OnlyGrantVotes
    <3> QED BY <1>1, <3>2, GrantVoteStep
  <2> QED BY <2>1, <2>2
<1>2. Inv /\ [Next]_vars => [New]_vars
  BY <1>1
<1> QED BY <1>2, Invariance, PTL DEF Spec, OneVotePerEpoch

\* Every failover_auth_count that reaches the quorum stands for as many nodes that
\* voted for the winner in its epoch.
THEOREM WinnersWereVoted == Spec => []WinnersHaveVotes
<1>1. Inv => WinnersHaveVotes
  BY DEF Inv, WonOK
<1> QED BY <1>1, Invariance, PTL

\* A replica owns no slot in its own view: the assertion of clusterSetMaster
\* never fails, whatever reaches the node and in any order.
THEOREM ReplicasOwnNothing == Spec => []ReplicaOwnsNothing
<1>1. Inv => ReplicaOwnsNothing
  BY DEF Inv, ViewsOK, ViewOK, ReplicaOwnsNothing, IsMaster, Slots
<1> QED BY <1>1, Invariance, PTL
=============================================================================
