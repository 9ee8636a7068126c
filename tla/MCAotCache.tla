----------------------------- MODULE MCAotCache -----------------------------
\* Model checking AotCache: see the .cfg files for the instances.
EXTENDS AotCache
=============================================================================
