------------------------ MODULE MCRedisReplication ------------------------
EXTENDS RedisReplication
CONSTANTS a, mid
\* At the start the others replicate a, all directly or all but mid through mid.
OneMaster == [n \in Server |-> IF n = a THEN NoServer ELSE a]
Chain == [n \in Server |-> IF n \in {a, mid} THEN OneMaster[n] ELSE mid]
=============================================================================
