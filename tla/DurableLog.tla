----------------------------- MODULE DurableLog -----------------------------
(***************************************************************************)
(* What an append-only file promises, without saying how it is stored.     *)
(*                                                                         *)
(* `db' is the dataset in memory, given as the sequence of writes that     *)
(* built it; `log' is the sequence of writes a restart would replay;       *)
(* `promised' is the number of leading writes of `log' whose durability    *)
(* has been reported to a client (a reply under appendfsync always, a      *)
(* WAITAOF answer under everysec, or the +OK of CONFIG SET appendonly).    *)
(***************************************************************************)
EXTENDS Naturals, Sequences, SequencesExt

CONSTANT Write          \* the set of write commands

VARIABLES db, log, promised, on, up

vars == <<db, log, promised, on, up>>

Init ==
    /\ db = <<>>
    /\ log = <<>>
    /\ promised = 0
    /\ on = FALSE
    /\ up = FALSE

\* A write changes the dataset and, while logging is on, extends the log.
Execute(w) ==
    /\ up
    /\ db' = Append(db, w)
    /\ log' = IF on THEN Append(log, w) ELSE log
    /\ UNCHANGED <<promised, on, up>>

\* More of the log is reported durable.
Promise ==
    /\ promised' \in promised .. Len(log)
    /\ promised' # promised
    /\ UNCHANGED <<db, log, on, up>>

\* The whole dataset is written out and becomes the log.
Snapshot ==
    /\ up
    /\ log' = db
    /\ promised' = Len(db)
    /\ UNCHANGED <<db, on, up>>

\* Logging starts only when the log stands for the dataset.
TurnOn ==
    /\ up /\ ~on
    /\ log = db
    /\ on' = TRUE
    /\ UNCHANGED <<db, log, promised, up>>

TurnOff ==
    /\ up /\ on
    /\ on' = FALSE
    /\ UNCHANGED <<db, log, promised, up>>

\* A crash may forget a suffix of the log, never a promised write.
Crash ==
    /\ up
    /\ up' = FALSE
    /\ on' = FALSE
    /\ db' = <<>>
    /\ log' \in {s \in Prefixes(log) : Len(s) >= promised}
    /\ UNCHANGED promised

\* A restart replays the log, or (appendonly no) starts without it.
Restart ==
    /\ ~up
    /\ up' = TRUE
    /\ on' \in BOOLEAN
    /\ db' = IF on' THEN log ELSE <<>>
    /\ UNCHANGED <<log, promised>>

Next ==
    \/ \E w \in Write : Execute(w)
    \/ Promise
    \/ Snapshot
    \/ TurnOn
    \/ TurnOff
    \/ Crash
    \/ Restart

Spec == Init /\ [][Next]_vars
=============================================================================
