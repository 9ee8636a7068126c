------------------------ MODULE RedisClusterFailover ------------------------
(***************************************************************************)
(* Redis Cluster: the election of a replica, its epochs and the spreading  *)
(* of the new configuration (cluster_legacy.c).                            *)
(*                                                                         *)
(* Every node keeps a view of the others: whose replica each one is, its   *)
(* configEpoch, and which node owns each slot.  A slot stands for all the  *)
(* slots of a shard; shards neither exchange slots nor nodes.  Failure     *)
(* detection is a free choice: a master may be flagged FAIL, or a manual   *)
(* failover be forced, at any time, so that every election the code can    *)
(* start is in the model.  A PING or PONG is sent at any time; it is       *)
(* received at once, or is delayed and overtaken by later ones: pings and  *)
(* the answers to pings travel on two links.  The PONGs broadcast after a  *)
(* failover are among them.  Any message may never be received.            *)
(***************************************************************************)
EXTENDS Integers, FiniteSets, FiniteSetsExt

CONSTANTS
    Node,          \* the nodes, all known to each other
    NoNode,        \* slaveof = NULL
    Rank,          \* [Node -> Nat], the order of the node IDs
    Slot,          \* one slot per shard
    InitOf,        \* [Node -> Node \cup {NoNode}], the replicas at the start
    InitOwner,     \* [Slot -> Node], the masters at the start
    Scenarios,     \* bounds: how many events of each kind a behaviour may have
    MayRestart     \* the sets of nodes that may be killed and started again together

Kinds == {"elections", "wins", "takeovers", "restarts", "delays"}

ASSUME ClusterAssumption ==
    /\ IsFiniteSet(Node) /\ NoNode \notin Node
    /\ Rank \in [Node -> Nat]
    /\ \A m, n \in Node : Rank[m] = Rank[n] => m = n
    /\ InitOf \in [Node -> Node \cup {NoNode}]
    /\ InitOwner \in [Slot -> Node]
    /\ \A s \in Slot : InitOf[InitOwner[s]] = NoNode
    /\ \A n \in Node : InitOf[n] \in Node =>
           \E s \in Slot : InitOwner[s] = InitOf[n]
    /\ Scenarios \subseteq [Kinds -> Nat]
    /\ MayRestart \subseteq SUBSET Node

VARIABLES
    mem,     \* what each node knows
    conf,    \* nodes.conf of each node
    todo,    \* the nodes with CLUSTER_TODO_SAVE_CONFIG set
    net,     \* messages in flight
    used,    \* how many events of each kind have happened
    votes,   \* votes given, voter, epoch and candidate (observation only)
    kept,    \* lastVoteEpoch at each node's last clusterBeforeSleep (observation only)
    won      \* elections won, node, epoch and quorum (observation only)

vars == <<mem, conf, todo, net, used, votes, kept, won>>

-----------------------------------------------------------------------------
(* A node's view v of the cluster                                          *)

\* The greater of two epochs.
Later(d, e) == IF d < e THEN e ELSE d

IsMaster(v, n) == v.of[n] = NoNode
Slots(v, n) == {s \in Slot : v.owner[s] = n}

\* The node itself, or its master if it is a replica.
MasterOf(v, n) == IF IsMaster(v, n) THEN n ELSE v.of[n]

\* clusterGetMaxEpoch.
MaxEpoch(v) == Max({v.cur} \cup {v.epoch[n] : n \in Node})

\* cluster->size and the quorum computed from it.
Voters(v) == {n \in Node : IsMaster(v, n) /\ Slots(v, n) # {}}

Quorum(v) == Cardinality(Voters(v)) \div 2 + 1

\* clusterDelSlot and clusterAddSlot, for all the slots in S.
Rebind(v, S, n) ==
    [v EXCEPT !.owner = [s \in Slot |-> IF s \in S THEN n ELSE v.owner[s]],
              !.unclaimed = @ \ S]

\* clusterSetMaster: n, which holds v, replicates m.  Its votes are not reset.
SetMaster(v, n, m) == [v EXCEPT !.of[n] = m]

\* clusterBuildMessageHdr: a replica speaks for its master's slots.
Header(n, v) ==
    LET m == MasterOf(v, n)
    IN [from |-> n, cur |-> v.cur, of |-> v.of[n],
        epoch |-> v.epoch[m], slots |-> Slots(v, m)]

\* clusterSendUpdate about m.
Update(n, v, m, to) ==
    [type |-> "update", to |-> {to}, hdr |-> Header(n, v), about |-> m,
     epoch |-> v.epoch[m], slots |-> Slots(v, m) \ v.unclaimed]

Message(type, n, v, to) == [type |-> type, to |-> to, hdr |-> Header(n, v)]

\* What clusterSaveConfig writes of a view: a replica's line has the epoch of its
\* master (clusterGenNodeDescription).
Saved(v) == [cur |-> v.cur, lastVote |-> v.lastVote, of |-> v.of,
             epoch |-> [n \in Node |-> v.epoch[MasterOf(v, n)]], owner |-> v.owner]

\* The epochs that clusterLoadConfig takes from the file: none for a replica.
Loaded(c) == [n \in Node |-> IF IsMaster(c, n) THEN c.epoch[n] ELSE 0]

\* clusterLoadConfig into the state of clusterInit.
Booted(c) ==
    [cur |-> Max({c.cur} \cup {Loaded(c)[n] : n \in Node}), lastVote |-> c.lastVote,
     of |-> c.of, epoch |-> Loaded(c), owner |-> c.owner, unclaimed |-> {},
     sent |-> FALSE, authEpoch |-> 0, count |-> 0]

\* Mutant of ToSave: a vote alone is not a reason to save.
ToSaveNotVotes(v, w) == v.of # w.of \/ v.epoch # w.epoch \/ v.owner # w.owner

\* A handler that turns the view v into w sets CLUSTER_TODO_SAVE_CONFIG: for
\* everything but a newer currentEpoch.
ToSave(v, w) ==
    \/ v.of # w.of \/ v.epoch # w.epoch \/ v.owner # w.owner
    \/ v.lastVote # w.lastVote

\* The nodes that have to save, if those in T had and n gets the view w.
Flagged(T, n, w) == IF ToSave(mem[n], w) THEN T \cup {n} ELSE T

\* Node n has the view w from now on; clusterBeforeSleep will save it.
Become(n, w) ==
    /\ mem' = [mem EXCEPT ![n] = w]
    /\ todo' = Flagged(todo, n, w)
    /\ UNCHANGED conf

\* Node n has the view w from now on, and calls clusterSaveConfigOrDie.
BecomeSaved(n, w) ==
    /\ mem' = [mem EXCEPT ![n] = w]
    /\ conf' = [conf EXCEPT ![n] = Saved(w)]
    /\ todo' = todo \ {n}

-----------------------------------------------------------------------------
(* What a message changes in the view v of the node n                      *)

\* Every message: the sender's currentEpoch and configEpoch.
Learn(v, h) ==
    [v EXCEPT !.cur = Later(@, h.cur), !.epoch[h.from] = Later(@, h.epoch)]

\* Role switch of the sender.  The slots of a master that became a replica
\* move to its new master, unless the header is older than what is known; in
\* both cases the sender becomes a replica.
SwitchRole(v, h) ==
    IF h.of = NoNode
    THEN [v EXCEPT !.of[h.from] = NoNode]
    ELSE LET w == IF IsMaster(v, h.from) /\ v.epoch[h.from] <= h.epoch
                  THEN [Rebind(v, Slots(v, h.from), h.of) EXCEPT
                          !.of[h.of] = NoNode, !.epoch[h.of] = h.epoch]
                  ELSE v
         IN [w EXCEPT !.of[h.from] = h.of]

\* isSlotUnclaimed, or the claim has a greater configEpoch than the owner.
Newer(v, s, e) == s \in v.unclaimed \/ v.epoch[v.owner[s]] < e

\* clusterUpdateSlotsConfigWith: x claims slots with config epoch e.
UpdateSlots(n, v, x, e, slots) ==
    LET mine == MasterOf(v, n)
        moved == {s \in slots : v.owner[s] # x /\ Newer(v, s, e)}
        w == [Rebind(v, moved, x) EXCEPT
                !.unclaimed = (@ \ (slots \cap Slots(v, x))) \cup (Slots(v, x) \ slots)]
        grand == IF IsMaster(w, n) THEN NoNode ELSE w.of[w.of[n]]
    IN CASE x = n -> v
         [] x # n /\ (\E s \in moved : v.owner[s] = mine) /\ Slots(w, mine) = {} ->
              SetMaster(w, n, x)
         [] OTHER -> IF grand \notin {NoNode, n} THEN SetMaster(w, n, grand) ELSE w

\* Mutant of HandleCollision: the collision is left alone.
HandleCollisionNot(n, v, h) == v

\* clusterHandleConfigEpochCollision and the test before its call.
HandleCollision(n, v, h) ==
    IF /\ IsMaster(v, n) /\ IsMaster(v, h.from)
       /\ h.epoch = v.epoch[n] /\ v.epoch[h.from] = v.epoch[n]
       /\ Rank[h.from] > Rank[n]
    THEN [v EXCEPT !.cur = v.cur + 1, !.epoch[n] = v.cur + 1]
    ELSE v

\* The slots the sender claims are not those n knows for it or its master.
DirtySlots(v, h) == Slots(v, MasterOf(v, h.from)) # h.slots

\* A PING or PONG changes roles, then slots, then resolves collisions.
Roles(v, h) == SwitchRole(Learn(v, h), h)
Claims(n, w, h) ==
    IF IsMaster(w, h.from) /\ DirtySlots(w, h)
    THEN UpdateSlots(n, w, h.from, h.epoch, h.slots) ELSE w

\* The owners to tell the sender about, when it claims slots with an old epoch
\* and the view is w.
Deprecates(w, h) ==
    {w.owner[s] : s \in {t \in h.slots :
        /\ w.owner[t] # h.from /\ t \notin w.unclaimed
        /\ w.epoch[w.owner[t]] > h.epoch}}

\* An UPDATE about m.about.
Updated(n, v, m) ==
    LET w == Learn(v, m.hdr)
    IN IF w.epoch[m.about] >= m.epoch THEN w
       ELSE UpdateSlots(n, [w EXCEPT !.of[m.about] = NoNode, !.epoch[m.about] = m.epoch],
                        m.about, m.epoch, m.slots)

\* clusterSendFailoverAuthIfNeeded, the conditions that do not depend on time
\* or on the flags of the master.
MayVote(n, v, h) ==
    /\ n \in Voters(v)
    /\ h.cur >= v.cur
    /\ v.lastVote # v.cur
    /\ ~IsMaster(v, h.from)
    /\ \A s \in h.slots : s \in v.unclaimed \/ v.epoch[v.owner[s]] <= h.epoch

\* Mutant of ReplaceYourMaster: the slots are claimed, the role is not changed.
ReplaceYourMasterStaysReplica(n, v) == Rebind(v, Slots(v, v.of[n]), n)

\* clusterFailoverReplaceYourMaster.
ReplaceYourMaster(n, v) ==
    [Rebind(v, Slots(v, v.of[n]), n) EXCEPT !.of[n] = NoNode]

\* Mutant of Bumped: currentEpoch does not follow.
BumpedAlone(n, v) ==
    IF v.epoch[n] = 0 \/ v.epoch[n] # MaxEpoch(v)
    THEN [v EXCEPT !.epoch[n] = v.cur + 1]
    ELSE v

\* clusterBumpConfigEpochWithoutConsensus.
Bumped(n, v) ==
    IF v.epoch[n] = 0 \/ v.epoch[n] # MaxEpoch(v)
    THEN [v EXCEPT !.cur = v.cur + 1, !.epoch[n] = v.cur + 1]
    ELSE v

-----------------------------------------------------------------------------
(* The steps of a node                                                     *)

\* A cluster at rest: the masters have the epochs 1, 2, ..., and the header of
\* a replica has told the others the epoch of its master.
InitEpoch(n) == Cardinality({m \in Node : InitOf[m] = NoNode /\ Rank[m] <= Rank[n]})
InitView(n) ==
    [cur |-> Max({InitEpoch(m) : m \in Node}), lastVote |-> 0, of |-> InitOf,
     epoch |-> [m \in Node |-> IF InitOf[m] = NoNode THEN InitEpoch(m)
                               ELSE IF m = n THEN 0 ELSE InitEpoch(InitOf[m])],
     owner |-> InitOwner, unclaimed |-> {},
     sent |-> FALSE, authEpoch |-> 0, count |-> 0]

Init ==
    /\ mem = [n \in Node |-> InitView(n)]
    /\ conf = [n \in Node |-> Saved(InitView(n))]
    /\ todo = {} /\ net = {}
    /\ used = [b \in Kinds |-> 0]
    /\ votes = {} /\ kept = [n \in Node |-> 0] /\ won = {}

\* An event of kind k happens, within the bounds of some scenario.
Use(k) ==
    /\ \E f \in Scenarios : used[k] < f[k] /\ \A j \in Kinds : used[j] <= f[j]
    /\ used' = [used EXCEPT ![k] = @ + 1]

\* A message leaves the network when its receiver reads it.
Read(m, n) ==
    {k \in (net \ {m}) \cup {[m EXCEPT !.to = @ \ {n}]} : k.to # {}}

\* n processes the header h of a PING or PONG; a collision is saved at once.  If n
\* answers with an UPDATE, the sender reads it at once, later, or never.
Process(n, h, rest) ==
    LET x == h.from
        v == Roles(mem[n], h)
        c == Claims(n, v, h)
        w == HandleCollision(n, c, h)
        flags == IF w = c THEN Flagged(todo, n, w) ELSE todo \ {n}
        old == IF DirtySlots(v, h) THEN Deprecates(c, h) ELSE {}
    IN /\ conf' = IF w = c THEN conf ELSE [conf EXCEPT ![n] = Saved(w)]
       /\ \/ /\ w # mem[n] \/ rest # net
             /\ mem' = [mem EXCEPT ![n] = w]
             /\ todo' = flags
             /\ net' = rest
             /\ UNCHANGED used
          \/ \E m \in old :
                LET u == Updated(x, mem[x], Update(n, c, m, x))
                IN /\ mem' = [mem EXCEPT ![n] = w, ![x] = u]
                   /\ todo' = Flagged(flags, x, u)
                   /\ net' = rest
                   /\ UNCHANGED used
          \/ /\ \E m \in old : net' = rest \cup {Update(n, c, m, x)}
             /\ Use("delays")
             /\ mem' = [mem EXCEPT ![n] = w]
             /\ todo' = flags
       /\ UNCHANGED <<votes, kept, won>>

\* clusterSendPing, and clusterProcessPacket at once, if that changes anything.  A
\* PING is made by clusterCron, a PONG waits behind the write barrier of its link:
\* both leave after clusterBeforeSleep has saved.
Gossip(x, n) ==
    /\ x # n /\ x \notin todo
    /\ Process(n, Header(x, mem[x]), net)

\* A PING or PONG that will be overtaken.
DelayPing(x, n) ==
    /\ x # n /\ x \notin todo
    /\ Use("delays")
    /\ net' = net \cup {Message("ping", x, mem[x], {n})}
    /\ UNCHANGED <<mem, conf, todo, votes, kept, won>>

ReceivePing(m, n) ==
    /\ m.type = "ping"
    /\ Process(n, m.hdr, Read(m, n))

ReceiveUpdate(m, n) ==
    /\ m.type = "update"
    /\ Become(n, Updated(n, mem[n], m))
    /\ net' = Read(m, n)
    /\ UNCHANGED <<used, votes, kept, won>>

\* The request is denied: by its conditions, because the master is not failing
\* for n, or because n voted about it within two node timeouts.
DenyVote(m, n) ==
    /\ m.type = "request"
    /\ Become(n, Learn(mem[n], m.hdr))
    /\ net' = Read(m, n)
    /\ UNCHANGED <<used, votes, kept, won>>

\* clusterSendFailoverAuthIfNeeded to the end.  The acknowledgement may leave
\* before the vote is saved: with a message already queued on the candidate's
\* link, clusterWriteHandler is called in the same round of the event loop.
GrantVote(m, n) ==
    LET v == Learn(mem[n], m.hdr)
        w == [v EXCEPT !.lastVote = v.cur]
    IN /\ m.type = "request"
       /\ MayVote(n, v, m.hdr)
       /\ Become(n, w)
       /\ net' = Read(m, n) \cup {Message("ack", n, w, {m.hdr.from})}
       /\ votes' = votes \cup {[voter |-> n, epoch |-> w.cur, for |-> m.hdr.from]}
       /\ UNCHANGED <<used, kept, won>>

ReceiveAck(m, n) ==
    LET v == Learn(mem[n], m.hdr)
        counts == m.hdr.from \in Voters(v) /\ m.hdr.cur >= v.authEpoch
    IN /\ m.type = "ack"
       /\ Become(n, IF counts THEN [v EXCEPT !.count = @ + 1] ELSE v)
       /\ net' = Read(m, n)
       /\ UNCHANGED <<used, votes, kept, won>>

\* clusterHandleSlaveFailover: the conditions to run at all.
MayFailover(n) == ~IsMaster(mem[n], n) /\ Slots(mem[n], mem[n].of[n]) # {}

\* The messages of n's last election.
OfElection(n) ==
    {m \in net : \/ m.type = "request" /\ m.hdr.from = n
                 \/ m.type = "ack" /\ n \in m.to}

\* An election is set up and, after its delay, clusterRequestFailoverAuth asks
\* for votes in a new epoch.  The retry time, four node timeouts, is longer than
\* a message lives: nothing of the last election arrives from here on.  Called
\* from clusterBeforeSleep, which has read its flags by then, the request leaves
\* before the next one saves the epoch.
RequestVotes(n) ==
    LET w == [mem[n] EXCEPT !.cur = @ + 1, !.authEpoch = mem[n].cur + 1,
                            !.count = 0, !.sent = TRUE]
    IN /\ MayFailover(n)
       /\ Use("elections")
       /\ mem' = [mem EXCEPT ![n] = w]
       /\ todo' = todo \cup {n}
       /\ net' = (net \ OfElection(n)) \cup {Message("request", n, w, Voters(w))}
       /\ UNCHANGED <<conf, votes, kept, won>>

\* Mutant of HasQuorum: half of the masters are enough.
HasQuorumHalf(n) ==
    MayFailover(n) /\ mem[n].sent /\ mem[n].count >= Cardinality(Voters(mem[n])) \div 2

\* The quorum is reached.  It is noticed at once (CLUSTER_TODO_HANDLE_FAILOVER) or
\* later, while the election is not too old and the master is failing.
HasQuorum(n) ==
    MayFailover(n) /\ mem[n].sent /\ mem[n].count >= Quorum(mem[n])

Victory(n) == [node |-> n, epoch |-> mem[n].authEpoch, quorum |-> Quorum(mem[n])]

Win(n) ==
    LET v == [mem[n] EXCEPT !.epoch[n] = Later(@, mem[n].authEpoch)]
    IN /\ HasQuorum(n)
       /\ Use("wins")
       /\ BecomeSaved(n, ReplaceYourMaster(n, v))
       /\ won' = won \cup {Victory(n)}
       /\ UNCHANGED <<net, votes, kept>>

\* CLUSTER FAILOVER TAKEOVER.
Takeover(n) ==
    LET v == Bumped(n, mem[n])
    IN /\ ~IsMaster(mem[n], n)
       /\ Use("takeovers")
       /\ BecomeSaved(n, ReplaceYourMaster(n, v))
       /\ UNCHANGED <<net, votes, kept, won>>

\* clusterBeforeSleep, which ends a round of the event loop: what the handlers
\* have changed is saved.
BeforeSleep(n) ==
    /\ n \in todo \/ kept[n] # mem[n].lastVote
    /\ conf' = IF n \in todo THEN [conf EXCEPT ![n] = Saved(mem[n])] ELSE conf
    /\ todo' = todo \ {n}
    /\ kept' = [kept EXCEPT ![n] = mem[n].lastVote]
    /\ UNCHANGED <<mem, net, used, votes, won>>

\* The processes in K are killed and started again; what was sent to them is
\* lost, and so is what they have not saved.
Restart(K) ==
    /\ Use("restarts")
    /\ mem' = [n \in Node |-> IF n \in K THEN Booted(conf[n]) ELSE mem[n]]
    /\ todo' = todo \ K
    /\ net' = {k \in {[m EXCEPT !.to = @ \ K] : m \in net} : k.to # {}}
    /\ UNCHANGED <<conf, votes, kept, won>>

\* The nodes that may still be killed within the bounds.  When another node saves
\* makes no difference to what follows, as nothing reads its file: let it be at once.
Mortal ==
    IF \E f \in Scenarios : used["restarts"] < f["restarts"] /\ \A j \in Kinds : used[j] <= f[j]
    THEN UNION MayRestart ELSE {}

Step ==
    \/ \E x, n \in Node : Gossip(x, n) \/ DelayPing(x, n)
    \/ \E m \in net : \E n \in m.to :
          \/ ReceivePing(m, n) \/ ReceiveUpdate(m, n)
          \/ DenyVote(m, n) \/ GrantVote(m, n) \/ ReceiveAck(m, n)
    \/ \E n \in Node : RequestVotes(n) \/ Win(n) \/ Takeover(n)
    \/ \E K \in MayRestart : Restart(K)

Next ==
    \/ \E n \in Node : BeforeSleep(n)
    \/ todo \subseteq Mortal /\ Step

Spec == Init /\ [][Next]_vars

-----------------------------------------------------------------------------
(* Properties                                                              *)

View == [cur : Nat, lastVote : Nat, of : [Node -> Node \cup {NoNode}],
         epoch : [Node -> Nat], owner : [Slot -> Node], unclaimed : SUBSET Slot,
         sent : BOOLEAN, authEpoch : Nat, count : Nat]

\* Every view is well formed, and none holds a config epoch greater than its
\* currentEpoch ("Something that should never happen", clusterLoadConfig), also
\* after a takeover, a collision or a restart from nodes.conf.
TypeOK ==
    /\ mem \in [Node -> View]
    /\ \A n, m \in Node : mem[n].epoch[m] <= mem[n].cur

\* A vote that was followed by the voter's clusterBeforeSleep is its last one in
\* that epoch or an older one, although the voter may be killed and started again
\* from nodes.conf at any time.  A voter killed earlier may vote again.
OneVotePerEpoch ==
    [][\A x \in votes' \ votes : x.epoch > kept[x.voter]]_vars

\* Who voted for n in the epoch e.
Supporters(n, e) == {x \in Node : [voter |-> x, epoch |-> e, for |-> n] \in votes}

\* A node that counts a quorum of acknowledgements (failover_auth_count) was
\* voted for, in that epoch, by at least so many nodes: none is counted twice and
\* none left from an earlier election.
WinnersHaveVotes ==
    \A w \in won : Cardinality(Supporters(w.node, w.epoch)) >= w.quorum

\* A replica owns no slot in its own view (the assertion of clusterSetMaster),
\* whatever claims, role switches and updates reach it and in any order.
ReplicaOwnsNothing ==
    \A n \in Node : ~IsMaster(mem[n], n) => Slots(mem[n], n) = {}

\* No PING, PONG or the UPDATE that answers one changes anything.
Stable ==
    \A x, n \in Node : x # n =>
        LET h == Header(x, mem[x])
            v == Roles(mem[n], h)
            c == Claims(n, v, h)
        IN /\ HandleCollision(n, c, h) = mem[n]
           /\ DirtySlots(v, h) => \A m \in Deprecates(c, h) :
                 Updated(x, mem[x], Update(n, c, m, x)) = mem[x]

\* Every view names the same owners, and no two masters share a config epoch.
Agreement ==
    /\ \A m, n \in Node : mem[m].owner = mem[n].owner
    /\ \A m, n \in Node :
           /\ IsMaster(mem[m], m) /\ IsMaster(mem[n], n)
           /\ mem[m].epoch[m] = mem[n].epoch[n]
           => m = n

\* What the repair of the views can cope with: one failover with nodes restarted
\* or with messages overtaken, or takeovers with nodes restarted.  Beyond that,
\* SwitchRole may ignore a change of owners or lower an epoch for good, and votes
\* of a past election may be used again.
Repairable ==
    \/ /\ used["elections"] + used["takeovers"] <= 1
       /\ used["restarts"] = 0 \/ used["delays"] = 0
    \/ used["elections"] = 0 /\ used["delays"] = 0

\* Gossip does not come to rest before the cluster agrees: slot claims, UPDATEs
\* and the resolution of epoch collisions repair every view that a failover has
\* left behind, although a node may have lost what it had not saved and loads no
\* epoch for a replica, if the events are Repairable.
StableAgrees == Repairable /\ Stable => Agreement
=============================================================================
