---------------------- MODULE MCRedisClusterFailover ----------------------
EXTENDS RedisClusterFailover
\* The master a, its replicas r and q; b is a second master, of slot 2, in
\* larger instances.
CONSTANTS a, b, r, q
Ranks == [n \in Node |-> CASE n = r -> 1 [] n = b -> 2 [] n = a -> 3 [] n = q -> 4]
Replicas == [n \in Node |-> IF n \in {r, q} THEN a ELSE NoNode]
Owners == [s \in Slot |-> IF s = 1 THEN a ELSE b]
Upto(e, w, t, k, d) ==
    [elections |-> e, wins |-> w, takeovers |-> t, restarts |-> k, delays |-> d]
Mixed == {Upto(2, 1, 0, 1, 0), Upto(2, 2, 0, 0, 0), Upto(1, 1, 0, 2, 0),
          Upto(1, 2, 1, 0, 0), Upto(0, 0, 2, 1, 0), Upto(1, 1, 0, 0, 1),
          Upto(0, 0, 1, 0, 1)}
=============================================================================
