------------------------------ MODULE Delivery ------------------------------
(***************************************************************************)
(* What the ingest write buffer promises (the head of                      *)
(* was/app/write_buffer.py), without threads, queues, batches or retries:  *)
(* a row that was accepted is held until it is stored or given up, what is *)
(* given up is counted, and what is stored leaves the table only with its  *)
(* device.                                                                 *)
(***************************************************************************)
EXTENDS Naturals, FiniteSets

CONSTANTS
    Rows,     \* occurrences of log lines
    Devices,  \* device ids
    Owner,    \* Owner[r]: the device of row r
    Key       \* Key[r]: the unique key of row r

VARIABLES
    registered,  \* devices that exist
    accepted,    \* rows answered with `accepted`
    held,        \* rows the process has in memory
    stored,      \* keys in ftp_logs
    lost,        \* rows given up
    reported     \* the number of lost rows in the error log

vars == <<registered, accepted, held, stored, lost, reported>>

KeysOf(rows) == {Key[r] : r \in rows}

Accept(rows) ==
    /\ rows \cap accepted = {}
    /\ accepted' = accepted \cup rows
    /\ held' = held \cup rows
    /\ UNCHANGED <<registered, stored, lost, reported>>

(* Rows that may be written: held, and of a device that exists. *)
Writable == {r \in held : Owner[r] \in registered}

Store(rows) ==
    /\ rows \subseteq Writable
    /\ stored' = stored \cup KeysOf(rows)
    /\ held' = held \ rows
    /\ UNCHANGED <<registered, accepted, lost, reported>>

(* A write fails, or its answer does and the rows of `unsure` are stored   *)
(* but held on; the rows of `out` are given up and counted.                *)
Fail(unsure, out) ==
    /\ unsure \subseteq Writable
    /\ out \subseteq held
    /\ stored' = stored \cup KeysOf(unsure)
    /\ held' = held \ out
    /\ lost' = lost \cup out
    /\ reported' = reported + Cardinality(out)
    /\ UNCHANGED <<registered, accepted>>

Remove(d) ==
    /\ d \in registered
    /\ registered' = registered \ {d}
    /\ stored' = stored \ KeysOf({r \in Rows : Owner[r] = d})
    /\ UNCHANGED <<accepted, held, lost, reported>>

Init ==
    /\ registered = Devices
    /\ accepted = {} /\ held = {} /\ stored = {} /\ lost = {}
    /\ reported = 0

Next ==
    \/ \E rows \in SUBSET Rows : Accept(rows) \/ Store(rows)
    \/ \E unsure, out \in SUBSET Rows : Fail(unsure, out)
    \/ \E d \in Devices : Remove(d)

Spec == Init /\ [][Next]_vars
=============================================================================
