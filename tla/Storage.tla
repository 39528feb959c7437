------------------------------ MODULE Storage ------------------------------
(***************************************************************************)
(* Where the rows of ftp_logs are kept: the month partitions and the       *)
(* default one (postgres/init.sql, was/app/main.py), the disk guard        *)
(* (was/app/disk_guard.py), the rebalancing of the default partition       *)
(* (was/app/rebalance.py, scripts/rebalance_default_partition.sql) and the *)
(* nightly backup (scripts/backup_db.sh).                                  *)
(*                                                                         *)
(* Each WAS process has its own guard and its own rebalancing thread; the  *)
(* "running" flag of rebalance.py is per process.  A step is a transaction *)
(* or a statement that changes nothing; a transaction that fails, whatever *)
(* the reason (a lock timeout, a deadlock, a name taken meanwhile), leaves *)
(* nothing behind.  Months are numbered: the names ftp_logs_YYYY_MM sort   *)
(* like the numbers.                                                       *)
(***************************************************************************)
EXTENDS Integers, FiniteSets, FiniteSetsExt

CONSTANTS
    Rows,         \* log rows
    MonthOf,      \* the month of each row's log_time
    MaxMonth,     \* bound on the months that have tables
    MaxNow,       \* bound on time
    FirstMonth,   \* the month the database is created in
    Retention,    \* retention_months
    Future,       \* PARTITION_FUTURE_MONTHS
    Chunk,        \* rows moved in one transaction
    Workers,      \* WAS processes
    MaxFailures   \* bound on failed transactions and crashes

Months == 1..MaxMonth

ASSUME ConstantsAssumption ==
    /\ MaxMonth \in Nat /\ FirstMonth \in Months /\ MaxNow \in Months
    /\ MonthOf \in [Rows -> Months] /\ IsFiniteSet(Rows)
    /\ Retention \in Nat \ {0} /\ Future \in Nat /\ Chunk \in Nat \ {0}
    /\ MaxFailures \in Nat

VARIABLES
    now,         \* the current month
    table,       \* the table of each month: none, loose (no partition) or attached
    rowsOf,      \* the rows in the table of each month
    default,     \* the rows in ftp_logs_default
    reb,         \* each worker's rebalancing thread
    guard,       \* each worker's disk guard
    job,         \* the backup script
    file,        \* the backup files of months: the rows they hold
    arrived,     \* history: rows ever inserted
    purged,      \* history: rows dropped with their partition
    abandoned,   \* history: loose tables left by a rebalancing that failed
    failures

dbVars == <<table, rowsOf, default>>
vars == <<now, table, rowsOf, default, reb, guard, job, file, arrived, purged, abandoned,
          failures>>

In(m, rows) == {r \in rows : MonthOf[r] = m}
Attached == {m \in Months : table[m] = "attached"}
Loose == {m \in Months : table[m] = "loose"}
Past == {m \in Attached : m < now}

-----------------------------------------------------------------------------
(* Partitions *)

(* CREATE TABLE IF NOT EXISTS ... PARTITION OF for the months S: a table   *)
(* of that name is left alone, and a month with rows in default is         *)
(* skipped, by the code (main.py) or by PostgreSQL's error (the script).   *)
Created(S) == [m \in Months |-> IF m \in S /\ table[m] = "none" /\ In(m, default) = {}
                                THEN "attached" ELSE table[m]]

(* A row goes to the partition of its month, or to default. *)
Insert(r) ==
    /\ r \notin arrived /\ MonthOf[r] <= now
    /\ arrived' = arrived \cup {r}
    /\ IF MonthOf[r] \in Attached
       THEN rowsOf' = [rowsOf EXCEPT ![MonthOf[r]] = @ \cup {r}] /\ UNCHANGED default
       ELSE default' = default \cup {r} /\ UNCHANGED rowsOf
    /\ UNCHANGED <<now, table, reb, guard, job, file, purged, abandoned, failures>>

(* create_partitions.sh, from cron. *)
CreatePartitions ==
    /\ table' = Created(now..(now + 2))
    /\ table' # table
    /\ UNCHANGED <<now, rowsOf, default, reb, guard, job, file, arrived, purged, abandoned,
                   failures>>

(* DROP TABLE of the table of month m. *)
Drop(m) ==
    /\ table' = [table EXCEPT ![m] = "none"]
    /\ purged' = purged \cup rowsOf[m]
    /\ rowsOf' = [rowsOf EXCEPT ![m] = {}]
    /\ abandoned' = abandoned \ {m}
    /\ UNCHANGED default

-----------------------------------------------------------------------------
(* Disk guard *)

NoGuard == [victim |-> 0, locked |-> {}]

(* Past partitions with data. *)
Purgeable == {m \in Past : rowsOf[m] # {}}

(* Months whose tables a guard has read: it holds ACCESS SHARE on them     *)
(* until its transaction ends.                                             *)
LockedByOthers(w) == UNION {guard[v].locked : v \in Workers \ {w}}

(* Mutant: the last partition with data is a target too. *)
GuardReadLast(w) ==
    /\ guard[w] = NoGuard
    /\ Purgeable # {}
    /\ guard' = [guard EXCEPT ![w] = [victim |-> Min(Purgeable), locked |-> Past]]
    /\ UNCHANGED <<now, dbVars, reb, job, file, arrived, purged, abandoned, failures>>

(* enforce up to the DROP, when the disk is over the threshold.  With one  *)
(* target or none it only sends a notice.                                  *)
GuardRead(w) ==
    /\ guard[w] = NoGuard
    /\ Cardinality(Purgeable) > 1
    /\ guard' = [guard EXCEPT ![w] = [victim |-> Min(Purgeable), locked |-> Past]]
    /\ UNCHANGED <<now, dbVars, reb, job, file, arrived, purged, abandoned, failures>>

(* The DROP waits for every other reader of the table. *)
GuardDrop(w) ==
    /\ guard[w] # NoGuard
    /\ guard[w].victim \notin LockedByOthers(w)
    /\ Drop(guard[w].victim)
    /\ guard' = [guard EXCEPT ![w] = NoGuard]
    /\ UNCHANGED <<now, reb, job, file, arrived, failures>>

(* Two guards that wait for each other are a deadlock: PostgreSQL aborts   *)
(* one, and _guard_disk swallows the exception.                            *)
GuardAborted(w) ==
    /\ guard[w] # NoGuard
    /\ guard[w].victim \in LockedByOthers(w)
    /\ guard' = [guard EXCEPT ![w] = NoGuard]
    /\ UNCHANGED <<now, dbVars, reb, job, file, arrived, purged, abandoned, failures>>

-----------------------------------------------------------------------------
(* Rebalancing *)

Idle == [pc |-> "idle", todo |-> {}]
Running(w) == reb[w] # Idle
Current(w) == Min(reb[w].todo)

(* Mutant: only months with rows in default. *)
FreshMonths == {m \in Months : m < now /\ In(m, default) # {}}

(* The months the script is to move: past ones with rows in default, and   *)
(* those a broken run has left loose.                                      *)
MonthsToMove == {m \in Months : m < now /\ In(m, default) # {}} \cup Loose

(* rebalance.start.  Without a month to move the script ends at once. *)
RebalanceStart(w) ==
    /\ reb[w] = Idle
    /\ MonthsToMove # {}
    /\ reb' = [reb EXCEPT ![w] = [pc |-> "prepare", todo |-> MonthsToMove]]
    /\ UNCHANGED <<now, dbVars, guard, job, file, arrived, purged, abandoned, failures>>

(* Mutant: the thread does not notice its last month. *)
NextMonthNoEnd(w) ==
    reb' = [reb EXCEPT ![w] = [pc |-> "prepare", todo |-> reb[w].todo \ {Current(w)}]]

(* The months after this one; after the last the thread ends. *)
NextMonth(w) ==
    LET todo == reb[w].todo \ {Current(w)}
    IN  reb' = [reb EXCEPT ![w] = IF todo = {} THEN Idle ELSE [pc |-> "prepare", todo |-> todo]]

(* Mutant: the rows are copied and not deleted. *)
MoveChunkCopies(w, m, S) ==
    /\ S \subseteq In(m, default)
    /\ Cardinality(S) = Min({Chunk, Cardinality(In(m, default))})
    /\ rowsOf' = [rowsOf EXCEPT ![m] = @ \cup S]
    /\ reb' = [reb EXCEPT ![w].pc = IF S = {} THEN "attach" ELSE "move"]
    /\ UNCHANGED default

(* One chunk from default to the month's table; an empty one ends the loop. *)
MoveChunk(w, m, S) ==
    /\ S \subseteq In(m, default)
    /\ Cardinality(S) = Min({Chunk, Cardinality(In(m, default))})
    /\ default' = default \ S
    /\ rowsOf' = [rowsOf EXCEPT ![m] = @ \cup S]
    /\ reb' = [reb EXCEPT ![w].pc = IF S = {} THEN "attach" ELSE "move"]

(* A month that has a partition is skipped. *)
Skip(w) ==
    /\ reb[w].pc = "prepare"
    /\ Current(w) \in Attached
    /\ NextMonth(w)
    /\ UNCHANGED <<now, dbVars, guard, job, file, arrived, purged, abandoned, failures>>

(* The loose table is created, unless it is there, and takes a first chunk. *)
Prepare(w) ==
    /\ reb[w].pc = "prepare"
    /\ Current(w) \notin Attached
    /\ table' = [table EXCEPT ![Current(w)] = "loose"]
    /\ \E S \in SUBSET default : MoveChunk(w, Current(w), S)
    /\ UNCHANGED <<now, guard, job, file, arrived, purged, abandoned, failures>>

Move(w) ==
    /\ reb[w].pc = "move"
    /\ table[Current(w)] # "none"
    /\ \E S \in SUBSET default : MoveChunk(w, Current(w), S)
    /\ UNCHANGED <<now, table, guard, job, file, arrived, purged, abandoned, failures>>

(* Mutant: the table is left as it is and the month counts as done. *)
AttachForgotten(w) ==
    /\ reb[w].pc = "attach"
    /\ Current(w) \in Loose /\ In(Current(w), default) = {}
    /\ NextMonth(w)
    /\ UNCHANGED <<now, dbVars, guard, job, file, arrived, purged, abandoned, failures>>

(* ATTACH PARTITION: PostgreSQL refuses it when the table is gone or a     *)
(* partition already, or when default has a row of the month again.        *)
Attach(w) ==
    /\ reb[w].pc = "attach"
    /\ Current(w) \in Loose /\ In(Current(w), default) = {}
    /\ table' = [table EXCEPT ![Current(w)] = "attached"]
    /\ abandoned' = abandoned \ {Current(w)}
    /\ NextMonth(w)
    /\ UNCHANGED <<now, rowsOf, default, guard, job, file, arrived, purged, failures>>

(* The thread ends and leaves what it has committed. *)
GiveUp(w) ==
    /\ reb' = [reb EXCEPT ![w] = Idle]
    /\ abandoned' = abandoned \cup (reb[w].todo \cap Loose)

(* The script ends with an error that its state explains. *)
RebalanceRefused(w) ==
    /\ \/ reb[w].pc = "move" /\ table[Current(w)] = "none"
       \/ reb[w].pc = "attach" /\ ~ (Current(w) \in Loose /\ In(Current(w), default) = {})
    /\ GiveUp(w)
    /\ UNCHANGED <<now, dbVars, guard, job, file, arrived, purged, failures>>

(* Any other error: a lock timeout, the database gone. *)
RebalanceFails(w) ==
    /\ Running(w) /\ failures < MaxFailures
    /\ failures' = failures + 1
    /\ GiveUp(w)
    /\ UNCHANGED <<now, dbVars, guard, job, file, arrived, purged>>

(* A worker process dies and is started again: lifespan creates the        *)
(* partitions of the retention period and of the months to come.           *)
Restart(w) ==
    /\ failures < MaxFailures
    /\ failures' = failures + 1
    /\ GiveUp(w)
    /\ guard' = [guard EXCEPT ![w] = NoGuard]
    /\ table' = Created((now - Retention)..(now + Future))
    /\ UNCHANGED <<now, rowsOf, default, job, file, arrived, purged>>

-----------------------------------------------------------------------------
(* Backup *)

NoJob == [pc |-> "idle", parts |-> {}, todo |-> {}, cur |-> 0]
NoFile == {"no file"}
Cutoff == job.cur - Retention

(* The list of partitions and the month are taken once, at the start. *)
BackupStart ==
    /\ job = NoJob
    /\ job' = [pc |-> "dump", parts |-> Attached, todo |-> Attached, cur |-> now]
    /\ UNCHANGED <<now, dbVars, reb, guard, file, arrived, purged, abandoned, failures>>

(* A partition older than the last month is dumped only once.  The dump of *)
(* one that is gone fails and leaves the file alone.                       *)
Dump(m) ==
    /\ job.pc = "dump" /\ job.todo # {} /\ m = Min(job.todo)
    /\ job' = [job EXCEPT !.todo = @ \ {m}]
    /\ file' = IF (m < job.cur - 1 /\ file[m] # NoFile) \/ table[m] = "none"
               THEN file ELSE [file EXCEPT ![m] = rowsOf[m]]
    /\ UNCHANGED <<now, dbVars, reb, guard, arrived, purged, abandoned, failures>>

DumpsDone ==
    /\ job.pc = "dump" /\ job.todo = {}
    /\ job' = [job EXCEPT !.pc = "drop", !.todo = {m \in job.parts : m < Cutoff}]
    /\ UNCHANGED <<now, dbVars, reb, guard, file, arrived, purged, abandoned, failures>>

(* A partition past the retention period is dropped if it has a file. *)
DropOld(m) ==
    /\ job.pc = "drop" /\ job.todo # {} /\ m = Min(job.todo)
    /\ job' = [job EXCEPT !.todo = @ \ {m}]
    /\ IF file[m] = NoFile
       THEN UNCHANGED <<dbVars, purged, abandoned>>
       ELSE /\ \A w \in Workers : m \notin guard[w].locked
            /\ Drop(m)
    /\ UNCHANGED <<now, reb, guard, file, arrived, failures>>

(* Then the files past the retention period are removed. *)
Prune ==
    /\ job.pc = "drop" /\ job.todo = {}
    /\ file' = [m \in Months |-> IF m < Cutoff THEN NoFile ELSE file[m]]
    /\ job' = NoJob
    /\ UNCHANGED <<now, dbVars, reb, guard, arrived, purged, abandoned, failures>>

-----------------------------------------------------------------------------
Tick ==
    /\ now < MaxNow
    /\ now' = now + 1
    /\ UNCHANGED <<dbVars, reb, guard, job, file, arrived, purged, abandoned, failures>>

(* init.sql: the partitions of the retention period and two months more. *)
Init ==
    /\ now = FirstMonth
    /\ table = [m \in Months |-> IF m \in (FirstMonth - Retention)..(FirstMonth + 2)
                                 THEN "attached" ELSE "none"]
    /\ rowsOf = [m \in Months |-> {}]
    /\ default = {}
    /\ reb = [w \in Workers |-> Idle]
    /\ guard = [w \in Workers |-> NoGuard]
    /\ job = NoJob
    /\ file = [m \in Months |-> NoFile]
    /\ arrived = {} /\ purged = {} /\ abandoned = {} /\ failures = 0

Rebalance(w) == Skip(w) \/ Prepare(w) \/ Move(w) \/ Attach(w) \/ RebalanceRefused(w)

Next ==
    \/ \E r \in Rows : Insert(r)
    \/ CreatePartitions \/ Tick
    \/ \E w \in Workers :
          \/ GuardRead(w) \/ GuardDrop(w) \/ GuardAborted(w)
          \/ RebalanceStart(w) \/ Rebalance(w) \/ RebalanceFails(w) \/ Restart(w)
    \/ BackupStart \/ DumpsDone \/ Prune
    \/ \E m \in Months : Dump(m) \/ DropOld(m)

Spec == Init /\ [][Next]_vars

(* The thread runs, and somebody runs the script again while it is needed, *)
(* on some worker.                                                         *)
Fairness ==
    /\ \A w \in Workers : WF_vars(Rebalance(w))
    /\ WF_vars(\E w \in Workers : RebalanceStart(w))

FairSpec == Spec /\ Fairness
-----------------------------------------------------------------------------
(* Properties *)

TypeOK ==
    /\ now \in Months
    /\ table \in [Months -> {"none", "loose", "attached"}]
    /\ rowsOf \in [Months -> SUBSET Rows]
    /\ default \subseteq Rows
    /\ reb \in [Workers -> [pc : {"idle", "prepare", "move", "attach"}, todo : SUBSET Months]]
    /\ \A w \in Workers : reb[w].pc = "idle" <=> reb[w].todo = {}
    /\ guard \in [Workers -> [victim : Months \cup {0}, locked : SUBSET Months]]
    /\ job \in [pc : {"idle", "dump", "drop"}, parts : SUBSET Months, todo : SUBSET Months,
                cur : Months \cup {0}]
    /\ file \in [Months -> (SUBSET Rows) \cup {NoFile}]
    /\ arrived \subseteq Rows /\ purged \subseteq Rows
    /\ abandoned \subseteq Months
    /\ failures \in Nat

(* Every row that was inserted is in exactly one table or was dropped with *)
(* its partition, and only a table that exists has rows: no chunk is lost  *)
(* or doubled by a run that breaks off, by two runs at once, or by rows    *)
(* that arrive meanwhile.                                                  *)
Conserved ==
    /\ arrived = default \cup purged \cup UNION {rowsOf[m] : m \in Months}
    /\ default \cap purged = {}
    /\ \A m \in Months :
          /\ rowsOf[m] \cap (default \cup purged) = {}
          /\ rowsOf[m] = In(m, rowsOf[m])
          /\ table[m] = "none" => rowsOf[m] = {}

(* disk_guard.py:7-8: a guard drops a partition before the current month   *)
(* only, and leaves another past one with data, although another guard and *)
(* the backup drop partitions too.                                         *)
GuardKeepsOne ==
    [][\A w \in Workers :
          guard[w] # NoGuard /\ rowsOf' # rowsOf /\ guard'[w] = NoGuard =>
              guard[w].victim < now /\ \E m \in Months : m < now /\ rowsOf'[m] # {}]_vars

(* A table that is no partition, whose rows no query finds, is one a run   *)
(* is working on or one that a failed run has left.                        *)
LooseIsPending == Loose \subseteq abandoned \cup UNION {reb[w].todo : w \in Workers}

(* A row of a past month ends in the partition of its month, where queries *)
(* and retention find it, or is dropped with it: whatever breaks off, the  *)
(* script need only be run again (rebalance_default_partition.sql:18-23).  *)
Filed ==
    \A r \in Rows :
        r \in arrived /\ MonthOf[r] < now ~>
            r \in purged \/ (MonthOf[r] \in Attached /\ r \in rowsOf[MonthOf[r]])

(* backup_db.sh:14: a partition is dropped by the backup only when its     *)
(* rows are in its file.                                                   *)
DroppedWasBackedUp ==
    [][\A m \in Months :
          job.pc = "drop" /\ job' # job /\ rowsOf[m] # {} /\ rowsOf'[m] = {} =>
              rowsOf[m] \subseteq file[m]]_vars
=============================================================================
