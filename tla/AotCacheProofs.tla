--------------------------- MODULE AotCacheProofs ---------------------------
(***************************************************************************)
(* For any number of processes, inputs, starts, kills and power losses: an *)
(* artifact in use is never replaced and, if the input is only replaced    *)
(* while no script is between hashing and compiling it, the cache is bound *)
(* to its input.                                                           *)
(***************************************************************************)
EXTENDS AotCache, TLAPS

Filling == {"compile", "replace", "open", "write"}
Locked == {"check"} \cup Filling
Label == {"off", "lock", "using"} \cup Locked

TypeOK ==
    /\ input \in Input
    /\ pc \in [Proc -> Label]
    /\ identity \in [Proc -> Input]
    /\ DOMAIN candidate = Proc /\ DOMAIN given = Proc
    /\ lock \in [Input -> Proc \cup {None}]
    /\ DOMAIN artifact = Input /\ DOMAIN manifest = Input

\* A process inside the `with' block holds the lock of its folder.
Exclusion == \A p \in Proc : pc[p] \in Locked => lock[identity[p]] = p

\* An artifact in use is one the manifest vouches for, and nobody is refilling
\* its folder: refilling starts only after the entry was found invalid.
InUse ==
    /\ \A p \in Proc : pc[p] = "using" => /\ Valid(identity[p])
                                          /\ artifact[identity[p]] = given[p]
    /\ \A p, q \in Proc : pc[p] = "using" /\ pc[q] \in Filling => identity[p] # identity[q]

\* A script that has replaced the artifact writes a manifest of a whole one.
Whole == \A p \in Proc :
    /\ pc[p] = "replace" => candidate[p] \notin {Absent, Torn}
    /\ pc[p] \in {"open", "write"} => artifact[identity[p]] \notin {Absent, Torn}

Inv == TypeOK /\ Exclusion /\ InUse /\ Whole

\* What makes the cache exact: the hashed input is the one compiled.
Bound ==
    /\ \A p \in Proc : pc[p] \in {"lock"} \cup Locked => identity[p] = input
    /\ \A p \in Proc : pc[p] = "replace" => candidate[p][1] = identity[p]
    /\ \A k \in Input : artifact[k] \in {Absent, Torn} \/ artifact[k][1] = k

-----------------------------------------------------------------------------

\* No process has started: every part of the invariant holds.
LEMMA InitInv == ASSUME Init PROVE Inv
    BY DEF Init, Inv, TypeOK, Exclusion, InUse, Whole, Label, Locked, Filling

\* Releasing its lock takes no lock from another process.
LEMMA ReleasedOthers ==
    ASSUME TypeOK, Exclusion, NEW p \in Proc
    PROVE  /\ Released(p) \in [Input -> Proc \cup {None}]
           /\ \A q \in Proc : q # p /\ pc[q] \in Locked => Released(p)[identity[q]] = q
    BY DEF Released, TypeOK, Exclusion, Locked, Filling

\* Every step of the script, of its caller and of the machine keeps Inv.
LEMMA NextInv == ASSUME Inv, [Next]_vars PROVE Inv'
<1> USE DEF Label, Locked, Filling, Goto
<1>0. TypeOK /\ Exclusion /\ InUse /\ Whole
    BY DEF Inv
<1>1. ASSUME NEW p \in Proc, Begin(p) PROVE Inv'
    BY <1>0, <1>1 DEF Begin, files, Inv, TypeOK, Exclusion, InUse, Whole, Valid
<1>2. ASSUME NEW p \in Proc, Acquire(p) PROVE Inv'
    BY <1>0, <1>2, AotAssumption DEF Acquire, files, Inv, TypeOK, Exclusion, InUse, Whole, Valid
<1>3. ASSUME NEW p \in Proc, Hit(p) PROVE Inv'
    BY <1>0, <1>3, ReleasedOthers DEF Hit, files, Inv, TypeOK, Exclusion, InUse, Whole, Valid
<1>4. ASSUME NEW p \in Proc, Miss(p) PROVE Inv'
    BY <1>0, <1>4 DEF Miss, files, Inv, TypeOK, Exclusion, InUse, Whole, Valid
<1>5. ASSUME NEW p \in Proc, Compile(p) PROVE Inv'
    BY <1>0, <1>5, AotAssumption
        DEF Compile, files, Inv, TypeOK, Exclusion, InUse, Whole, Valid, Absent, Torn
<1>6. ASSUME NEW p \in Proc, Replace(p) PROVE Inv'
    BY <1>0, <1>6 DEF Replace, Inv, TypeOK, Exclusion, InUse, Whole, Valid
<1>7. ASSUME NEW p \in Proc, OpenManifest(p) PROVE Inv'
    BY <1>0, <1>7 DEF OpenManifest, Inv, TypeOK, Exclusion, InUse, Whole, Valid
<1>8. ASSUME NEW p \in Proc, WriteManifest(p) PROVE Inv'
    BY <1>0, <1>8, ReleasedOthers DEF WriteManifest, Inv, TypeOK, Exclusion, InUse, Whole, Valid
<1>9. ASSUME NEW p \in Proc, Fail(p) PROVE Inv'
    BY <1>0, <1>9, ReleasedOthers DEF Fail, files, Inv, TypeOK, Exclusion, InUse, Whole, Valid
<1>10. ASSUME NEW p \in Proc, Finish(p) PROVE Inv'
    BY <1>0, <1>10 DEF Finish, files, Inv, TypeOK, Exclusion, InUse, Whole, Valid
<1>11. ASSUME NEW p \in Proc, Kill(p) PROVE Inv'
    BY <1>0, <1>11, ReleasedOthers DEF Kill, files, Inv, TypeOK, Exclusion, InUse, Whole, Valid
<1>12. ASSUME PowerLoss PROVE Inv'
    BY <1>0, <1>12 DEF PowerLoss, Inv, TypeOK, Exclusion, InUse, Whole
<1>13. ASSUME Edit PROVE Inv'
    BY <1>0, <1>13 DEF Edit, files, Inv, TypeOK, Exclusion, InUse, Whole, Valid
<1>14. CASE UNCHANGED vars
    BY <1>0, <1>14 DEF vars, files, Inv, TypeOK, Exclusion, InUse, Whole, Valid
<1> QED
    BY <1>1, <1>2, <1>3, <1>4, <1>5, <1>6, <1>7, <1>8, <1>9, <1>10, <1>11, <1>12,
       <1>13, <1>14 DEF Next, Step

\* Every step keeps the binding of the cache if the input is not replaced
\* between the hash and the compilation.
LEMMA NextBound ==
    ASSUME Inv, Bound, [Next]_vars, ~EditWhileRunning
    PROVE  Bound'
<1> USE DEF Label, Locked, Filling, Goto
<1>0. TypeOK /\ Exclusion
    BY DEF Inv
<1>1. ASSUME NEW p \in Proc, Begin(p) PROVE Bound'
    BY <1>0, <1>1 DEF Begin, files, TypeOK, Bound
<1>2. ASSUME NEW p \in Proc, Acquire(p) \/ Miss(p) PROVE Bound'
    BY <1>0, <1>2 DEF Acquire, Miss, files, TypeOK, Bound
<1>3. ASSUME NEW p \in Proc, Hit(p) PROVE Bound'
    BY <1>0, <1>3 DEF Hit, files, TypeOK, Bound
<1>4. ASSUME NEW p \in Proc, Compile(p) PROVE Bound'
    BY <1>0, <1>4 DEF Compile, files, TypeOK, Bound
<1>5. ASSUME NEW p \in Proc, Replace(p) PROVE Bound'
    BY <1>0, <1>5 DEF Replace, TypeOK, Bound
<1>6. ASSUME NEW p \in Proc, OpenManifest(p) \/ WriteManifest(p) PROVE Bound'
    BY <1>0, <1>6 DEF OpenManifest, WriteManifest, TypeOK, Bound
<1>7. ASSUME NEW p \in Proc, Fail(p) \/ Finish(p) \/ Kill(p) PROVE Bound'
    BY <1>0, <1>7 DEF Fail, Finish, Kill, files, TypeOK, Bound
<1>8. ASSUME PowerLoss PROVE Bound'
    BY <1>0, <1>8 DEF PowerLoss, TypeOK, Bound
<1>9. ASSUME Edit PROVE Bound'
    BY <1>0, <1>9 DEF Edit, files, TypeOK, Bound
<1>10. CASE UNCHANGED vars
    BY <1>10 DEF vars, files, Bound
<1> QED
    BY <1>1, <1>2, <1>3, <1>4, <1>5, <1>6, <1>7, <1>8, <1>9, <1>10 DEF Next, Step

-----------------------------------------------------------------------------

\* The artifact run.sh was told to run stays the same file while it runs,
\* however many scripts share the cache and wherever they are killed.
THEOREM ArtifactInUseStays == Spec => []InUseUnchanged
<1>1. Init => Inv
    BY InitInv
<1>2. Inv /\ [Next]_vars => Inv'
    BY NextInv
<1>3. Inv => InUseUnchanged
    BY DEF Inv, InUse, InUseUnchanged
<1> QED
    BY <1>1, <1>2, <1>3, PTL DEF Spec

\* If the input is only replaced while no script is at work, an entry that a
\* script would reuse was compiled from the input whose hash selects it.
THEOREM CacheIsBound ==
    ASSUME ~EditWhileRunning
    PROVE  Spec => []CacheBound
<1>1. Init => Inv /\ Bound
    BY InitInv DEF Init, Bound, Locked, Filling
<1>2. Inv /\ Bound /\ [Next]_vars => (Inv /\ Bound)'
    BY NextInv, NextBound
<1>3. Inv /\ Bound => CacheBound
    BY DEF Bound, CacheBound, Valid
<1> QED
    BY <1>1, <1>2, <1>3, PTL DEF Spec
=============================================================================
