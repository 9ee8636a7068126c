----------------------------- MODULE MCRedisAof -----------------------------
EXTENDS RedisAof
=============================================================================
