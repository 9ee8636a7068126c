------------------------------ MODULE AotCache ------------------------------
(***************************************************************************)
(* benchmark/wasmtime-llvm-aot.py: the cache of ahead-of-time compiled     *)
(* components that run.sh fills and uses.  Several scripts may run at the  *)
(* same time on one cache, each in the folder its identity hashes to; a    *)
(* file lock per folder keeps them apart.  Any of them can be killed, and  *)
(* a power loss can tear the files that nothing has synced.                *)
(*                                                                         *)
(* `input' stands for the bytes of the component and of the runtime, the   *)
(* parts of the identity that can change.  A compiled artifact is a pair   *)
(* of the input it was compiled from and a number, since two compilations  *)
(* need not agree byte for byte; its SHA-256 is the artifact itself.       *)
(***************************************************************************)
EXTENDS Naturals

CONSTANTS
    Proc,               \* the processes that run the script
    Input,              \* the contents an input may have
    None,               \* nobody holds a lock
    EditWhileRunning,   \* may the input be replaced while a script runs?
    MaxStarts,          \* bound: scripts started
    MaxEdits,           \* bound: changes of the input
    MaxKills            \* bound: kills and power losses

ASSUME AotAssumption ==
    /\ None \notin Proc
    /\ {"absent", "torn"} \cap Input = {}
    /\ EditWhileRunning \in BOOLEAN
    /\ {MaxStarts, MaxEdits, MaxKills} \subseteq Nat

VARIABLES
    input,      \* the bytes of the input now
    pc,         \* where each process is
    identity,   \* the input each process hashed when it started
    candidate,  \* app.cwasm in the temporary directory of each process
    given,      \* the artifact each process reported as usable
    lock,       \* who holds the lock of each folder
    artifact,   \* app.cwasm of each folder
    manifest,   \* manifest.json of each folder: the artifact it vouches for
    used        \* how much of each bound is used

files == <<artifact, manifest>>
vars == <<input, pc, identity, candidate, given, lock, files, used>>

\* Contents of a file that is missing, or does not parse or hash to anything.
Absent == <<"absent", 0>>
Torn == <<"torn", 0>>

Init ==
    /\ input \in Input
    /\ pc = [p \in Proc |-> "off"]
    /\ identity = [p \in Proc |-> input]
    /\ candidate = [p \in Proc |-> Absent]
    /\ given = [p \in Proc |-> Absent]
    /\ lock = [k \in Input |-> None]
    /\ artifact = [k \in Input |-> Absent]
    /\ manifest = [k \in Input |-> Absent]
    /\ used = [starts |-> 0, edits |-> 0, kills |-> 0, builds |-> 0]

Use(bound, max) ==
    /\ used[bound] < max
    /\ used' = [used EXCEPT ![bound] = @ + 1]

Goto(p, label) == pc' = [pc EXCEPT ![p] = label]

\* flock(LOCK_EX) ends with the process or with the lock file's `with' block.
Released(p) == [k \in Input |-> IF lock[k] = p THEN None ELSE lock[k]]

-----------------------------------------------------------------------------

\* Mutant of Begin: the folder does not depend on the input.
BeginOneFolder(p) ==
    /\ pc[p] = "off"
    /\ Use("starts", MaxStarts)
    /\ identity' = [identity EXCEPT ![p] = CHOOSE k \in Input : TRUE]
    /\ Goto(p, "lock")
    /\ UNCHANGED <<input, candidate, given, lock, files>>

\* The identity is hashed and the folder named after it created.
Begin(p) ==
    /\ pc[p] = "off"
    /\ Use("starts", MaxStarts)
    /\ identity' = [identity EXCEPT ![p] = input]
    /\ Goto(p, "lock")
    /\ UNCHANGED <<input, candidate, given, lock, files>>

\* Mutant of Acquire: no lock.
AcquireNothing(p) ==
    /\ pc[p] = "lock"
    /\ Goto(p, "check")
    /\ UNCHANGED <<input, identity, candidate, given, lock, files, used>>

Acquire(p) ==
    /\ pc[p] = "lock"
    /\ lock[identity[p]] = None
    /\ lock' = [lock EXCEPT ![identity[p]] = p]
    /\ Goto(p, "check")
    /\ UNCHANGED <<input, identity, candidate, given, files, used>>

\* The manifest parses, names this identity and has the hash of the artifact.
\* (The folder is named after the identity, so only the hash can differ.)
Valid(k) == manifest[k] \notin {Absent, Torn} /\ artifact[k] = manifest[k]

Hit(p) ==
    /\ pc[p] = "check"
    /\ Valid(identity[p])
    /\ given' = [given EXCEPT ![p] = artifact[identity[p]]]
    /\ lock' = Released(p)
    /\ Goto(p, "using")
    /\ UNCHANGED <<input, identity, candidate, files, used>>

Miss(p) ==
    /\ pc[p] = "check"
    /\ ~Valid(identity[p])
    /\ Goto(p, "compile")
    /\ UNCHANGED <<input, identity, candidate, given, lock, files, used>>

\* wasmtime compile reads the input again.
Compile(p) ==
    /\ pc[p] = "compile"
    /\ candidate' = [candidate EXCEPT ![p] = <<input, used.builds + 1>>]
    /\ used' = [used EXCEPT !.builds = @ + 1]
    /\ Goto(p, "replace")
    /\ UNCHANGED <<input, identity, given, lock, files>>

\* candidate.replace(artifact): an atomic rename.
Replace(p) ==
    /\ pc[p] = "replace"
    /\ artifact' = [artifact EXCEPT ![identity[p]] = candidate[p]]
    /\ candidate' = [candidate EXCEPT ![p] = Absent]
    /\ Goto(p, "open")
    /\ UNCHANGED <<input, identity, given, lock, manifest, used>>

\* manifest.write_text opens the file, which empties it, and then writes.
OpenManifest(p) ==
    /\ pc[p] = "open"
    /\ manifest' = [manifest EXCEPT ![identity[p]] = Torn]
    /\ Goto(p, "write")
    /\ UNCHANGED <<input, identity, candidate, given, lock, artifact, used>>

WriteManifest(p) ==
    /\ pc[p] = "write"
    /\ manifest' = [manifest EXCEPT ![identity[p]] = artifact[identity[p]]]
    /\ given' = [given EXCEPT ![p] = artifact[identity[p]]]
    /\ lock' = Released(p)
    /\ Goto(p, "using")
    /\ UNCHANGED <<input, identity, candidate, artifact, used>>

\* Mutant of Fail: the lock outlives the failure.
FailKeepsLock(p) ==
    /\ pc[p] \in {"compile", "replace", "open", "write"}
    /\ candidate' = [candidate EXCEPT ![p] = Absent]
    /\ Goto(p, "off")
    /\ UNCHANGED <<input, identity, given, lock, files, used>>

\* sys.exit after a failed compilation, or the exception of a failed file
\* operation, leaves the `with' blocks: the temporary directory is removed and
\* the lock released.
Fail(p) ==
    /\ pc[p] \in {"compile", "replace", "open", "write"}
    /\ candidate' = [candidate EXCEPT ![p] = Absent]
    /\ lock' = Released(p)
    /\ Goto(p, "off")
    /\ UNCHANGED <<input, identity, given, files, used>>

\* run.sh runs the artifact the script has printed, and is done with it.
Finish(p) ==
    /\ pc[p] = "using"
    /\ given' = [given EXCEPT ![p] = Absent]
    /\ Goto(p, "off")
    /\ UNCHANGED <<input, identity, candidate, lock, files, used>>

\* A killed process leaves its temporary directory behind, where no other
\* process looks.
Kill(p) ==
    /\ pc[p] # "off"
    /\ Use("kills", MaxKills)
    /\ candidate' = [candidate EXCEPT ![p] = Absent]
    /\ given' = [given EXCEPT ![p] = Absent]
    /\ lock' = Released(p)
    /\ Goto(p, "off")
    /\ UNCHANGED <<input, identity, files>>

\* Nothing is fsynced: any artifact and any manifest may lose its contents.
PowerLoss ==
    /\ Use("kills", MaxKills)
    /\ pc' = [p \in Proc |-> "off"]
    /\ lock' = [k \in Input |-> None]
    /\ \E A, M \in SUBSET Input :
            /\ artifact' = [k \in Input |-> IF k \in A THEN Torn ELSE artifact[k]]
            /\ manifest' = [k \in Input |-> IF k \in M THEN Torn ELSE manifest[k]]
    /\ candidate' = [p \in Proc |-> Absent]
    /\ given' = [p \in Proc |-> Absent]
    /\ UNCHANGED <<input, identity>>

\* build.sh installs another component, or setup.sh another runtime.
Edit ==
    /\ EditWhileRunning \/ \A p \in Proc : pc[p] \in {"off", "using"}
    /\ Use("edits", MaxEdits)
    /\ input' \in Input \ {input}
    /\ UNCHANGED <<pc, identity, candidate, given, lock, files>>

Step(p) == Acquire(p) \/ Hit(p) \/ Miss(p) \/ Compile(p) \/ Replace(p)
                \/ OpenManifest(p) \/ WriteManifest(p) \/ Fail(p)

Next ==
    \/ \E p \in Proc : Begin(p) \/ Step(p) \/ Finish(p) \/ Kill(p)
    \/ PowerLoss
    \/ Edit

Spec == Init /\ [][Next]_vars

\* A process that can go on does so; flock wakes its waiters.
Fairness == \A p \in Proc : WF_vars(Step(p))
FairSpec == Spec /\ Fairness

-----------------------------------------------------------------------------

\* "The cache is bound to the runtime, compiler flags, exact P2 bytes and the
\* generated AOT hash" (run.sh): an entry that a later script would reuse was
\* compiled from the very bytes that select it.
CacheBound == \A k \in Input : Valid(k) => artifact[k][1] = k

\* An artifact reported to run.sh, which executes it after the lock has been
\* released, is not replaced under it by another script.
InUseUnchanged ==
    \A p \in Proc : pc[p] = "using" => artifact[identity[p]] = given[p]

\* A script that waits for the lock gets an artifact or ends, even though the
\* holder may fail or be killed at any point.
EveryWaitEnds == \A p \in Proc : pc[p] = "lock" ~> pc[p] \in {"using", "off"}
=============================================================================
