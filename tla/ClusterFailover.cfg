CONSTANTS
    a = a b = b r = r q = q
    Node = {a, r, q}
    NoNode = NoNode
    Rank <- Ranks
    Slot = {1}
    InitOf <- Replicas
    InitOwner <- Owners
    Scenarios <- Mixed
    MayRestart = {{a}, {r}}
SPECIFICATION Spec
INVARIANTS TypeOK WinnersHaveVotes ReplicaOwnsNothing StableAgrees
PROPERTIES OneVotePerEpoch
CHECK_DEADLOCK FALSE
