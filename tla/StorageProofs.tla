--------------------------- MODULE StorageProofs ---------------------------
(* Theorems about Storage, for any number of rows, months and workers. *)
EXTENDS Storage, NatLemmas, FiniteSetTheorems, TLAPS

-----------------------------------------------------------------------------
(* Months *)

(* Min finds a month of a set of months that is not empty. *)
LEMMA MinMonth == ASSUME NEW S \in SUBSET Months, S # {} PROVE Min(S) \in S
<1>1. S \in SUBSET Nat
  BY DEF Months
<1>2. \E x \in S : \A y \in S : x <= y
  BY <1>1, NatLeast
<1>3. QED
  BY <1>2 DEF Min

(* A thread that works has a month. *)
LEMMA CurrentMonth ==
    ASSUME TypeOK, NEW w \in Workers, reb[w].pc # "idle"
    PROVE  Current(w) \in reb[w].todo /\ Current(w) \in Months
<1>1. reb[w].todo \in SUBSET Months /\ reb[w].todo # {}
  BY DEF TypeOK
<1>2. QED
  BY <1>1, MinMonth DEF Current

(* Creating partitions makes no table loose and removes none. *)
LEMMA CreatedTables ==
    ASSUME TypeOK, NEW S
    PROVE  /\ Created(S) \in [Months -> {"none", "loose", "attached"}]
           /\ \A m \in Months : Created(S)[m] = table[m]
                                \/ (table[m] = "none" /\ Created(S)[m] = "attached")
BY DEF Created, TypeOK

-----------------------------------------------------------------------------
(* Types *)

(* What a worker's thread may be. *)
Thread == [pc : {"idle", "prepare", "move", "attach"}, todo : SUBSET Months]
ThreadOK(t) == t \in Thread /\ (t.pc = "idle" <=> t.todo = {})

(* The first state is well typed. *)
LEMMA InitType == Init => TypeOK
<1> SUFFICES ASSUME Init PROVE TypeOK
  OBVIOUS
<1>1. now \in Months /\ table \in [Months -> {"none", "loose", "attached"}]
  BY ConstantsAssumption DEF Init
<1>2. /\ rowsOf \in [Months -> SUBSET Rows] /\ default = {} /\ failures \in Nat
      /\ arrived = {} /\ purged = {} /\ abandoned = {}
  BY DEF Init
<1>3. reb \in [Workers -> [pc : {"idle", "prepare", "move", "attach"}, todo : SUBSET Months]]
  BY DEF Init, Idle
<1>4. \A w \in Workers : reb[w].pc = "idle" <=> reb[w].todo = {}
  BY DEF Init, Idle
<1>5. guard \in [Workers -> [victim : Months \cup {0}, locked : SUBSET Months]]
  BY DEF Init, NoGuard
<1>6. job \in [pc : {"idle", "dump", "drop"}, parts : SUBSET Months, todo : SUBSET Months,
               cur : Months \cup {0}]
  BY DEF Init, NoJob
<1>7. file \in [Months -> (SUBSET Rows) \cup {NoFile}]
  BY DEF Init
<1>8. QED
  BY <1>1, <1>2, <1>3, <1>4, <1>5, <1>6, <1>7 DEF TypeOK

(* The thread of a worker after a step that is its own. *)
LEMMA ThreadType ==
    ASSUME TypeOK, NEW w \in Workers, NEW t, ThreadOK(t), reb' = [reb EXCEPT ![w] = t]
    PROVE  /\ reb' \in [Workers -> [pc : {"idle", "prepare", "move", "attach"}, todo : SUBSET Months]]
           /\ \A v \in Workers : reb'[v].pc = "idle" <=> reb'[v].todo = {}
<1>1. reb' \in [Workers -> Thread]
  BY DEF TypeOK, Thread, ThreadOK
<1>2. ASSUME NEW v \in Workers PROVE reb'[v].pc = "idle" <=> reb'[v].todo = {}
  BY DEF TypeOK, ThreadOK
<1>3. QED
  BY <1>1, <1>2 DEF Thread

(* A thread that has ended a month goes on to the next or is idle. *)
LEMMA NextMonthThread ==
    ASSUME TypeOK, NEW w \in Workers, NextMonth(w)
    PROVE  \E t : /\ ThreadOK(t) /\ t.todo = reb[w].todo \ {Current(w)}
                  /\ reb' = [reb EXCEPT ![w] = t]
<1> DEFINE todo == reb[w].todo \ {Current(w)}
<1>1. todo \in SUBSET Months
  BY DEF TypeOK
<1>2. CASE todo = {}
  <2>1. ThreadOK(Idle) /\ Idle.todo = todo
    BY <1>2 DEF ThreadOK, Thread, Idle
  <2>2. reb' = [reb EXCEPT ![w] = Idle]
    BY <1>2 DEF NextMonth
  <2>3. QED
    BY <2>1, <2>2
<1>3. CASE todo # {}
  <2> DEFINE t == [pc |-> "prepare", todo |-> todo]
  <2>1. t \in Thread /\ t.pc = "prepare" /\ t.todo = todo
    BY <1>1 DEF Thread
  <2>2. ThreadOK(t)
    BY <1>3, <2>1 DEF ThreadOK
  <2>3. reb' = [reb EXCEPT ![w] = t]
    BY <1>3 DEF NextMonth
  <2> HIDE DEF t
  <2>4. QED
    BY <2>1, <2>2, <2>3
<1>4. QED
  BY <1>2, <1>3

(* A thread that moves a chunk keeps its months. *)
LEMMA MoveThread ==
    ASSUME TypeOK, NEW w \in Workers, reb[w].pc # "idle", NEW S, NEW m \in Months, MoveChunk(w, m, S)
    PROVE  \E t : /\ ThreadOK(t) /\ t.todo = reb[w].todo
                  /\ reb' = [reb EXCEPT ![w] = t]
<1> DEFINE pc == IF S = {} THEN "attach" ELSE "move"
           t == [reb[w] EXCEPT !.pc = pc]
<1>1. reb[w] \in Thread /\ reb[w].todo # {} /\ pc \in {"attach", "move"}
  BY DEF TypeOK, Thread
<1>2. t \in Thread /\ t.pc = pc /\ t.todo = reb[w].todo
  BY <1>1 DEF Thread
<1>3. ThreadOK(t)
  BY <1>1, <1>2 DEF ThreadOK
<1>4. reb' = [reb EXCEPT ![w] = t]
  BY DEF MoveChunk
<1> HIDE DEF t
<1>5. QED
  BY <1>2, <1>3, <1>4

(* A guard about to drop a partition holds it and, among the other past    *)
(* ones it holds, one with data; none of them can be dropped meanwhile.    *)
Holding ==
    \A w \in Workers : guard[w] # NoGuard =>
        /\ guard[w].victim \in guard[w].locked
        /\ \A m \in guard[w].locked : m < now
        /\ \E m \in guard[w].locked : m # guard[w].victim /\ rowsOf[m] # {}

(* Types, for a partition that is dropped. *)
LEMMA DropType ==
    ASSUME TypeOK, NEW m \in Months, Drop(m)
    PROVE  /\ table' \in [Months -> {"none", "loose", "attached"}]
           /\ rowsOf' \in [Months -> SUBSET Rows]
           /\ default' \subseteq Rows /\ purged' \subseteq Rows /\ abandoned' \subseteq Months
BY DEF Drop, TypeOK

(* Giving up leaves an idle thread. *)
LEMMA GiveUpType ==
    ASSUME TypeOK, NEW w \in Workers, GiveUp(w)
    PROVE  /\ reb' \in [Workers -> [pc : {"idle", "prepare", "move", "attach"}, todo : SUBSET Months]]
           /\ \A v \in Workers : reb'[v].pc = "idle" <=> reb'[v].todo = {}
           /\ abandoned' \subseteq Months
<1>1. ThreadOK(Idle)
  BY DEF ThreadOK, Thread, Idle
<1>2. reb' = [reb EXCEPT ![w] = Idle] /\ abandoned' \subseteq Months
  BY DEF GiveUp, TypeOK, Loose
<1>3. QED
  BY <1>1, <1>2, ThreadType

(* Types, for every step. *)
LEMMA StepType == TypeOK /\ Holding /\ [Next]_vars => TypeOK'
<1> SUFFICES ASSUME TypeOK, Holding, [Next]_vars PROVE TypeOK'
  OBVIOUS
<1>1. ASSUME NEW r \in Rows, Insert(r) PROVE TypeOK'
  <2>1. MonthOf[r] \in Months
    BY ConstantsAssumption
  <2>2. rowsOf' \in [Months -> SUBSET Rows] /\ default' \subseteq Rows /\ arrived' \subseteq Rows
    BY <1>1, <2>1 DEF Insert, TypeOK
  <2>3. QED
    BY <1>1, <2>2 DEF Insert, TypeOK
<1>2. CASE CreatePartitions
  BY <1>2, CreatedTables DEF CreatePartitions, TypeOK
<1>3. CASE Tick
  BY <1>3, ConstantsAssumption DEF Tick, dbVars, TypeOK, Months
<1>4. ASSUME NEW w \in Workers, GuardRead(w) PROVE TypeOK'
  <2>1. Purgeable \in SUBSET Months /\ Past \in SUBSET Months /\ Purgeable # {}
    <3>1. Purgeable # {}
      BY <1>4, FS_EmptySet DEF GuardRead
    <3>2. QED
      BY <3>1 DEF Purgeable, Past, Attached
  <2>2. Min(Purgeable) \in Months
    BY <2>1, MinMonth
  <2>3. guard' \in [Workers -> [victim : Months \cup {0}, locked : SUBSET Months]]
    BY <1>4, <2>1, <2>2 DEF GuardRead, TypeOK
  <2>4. QED
    BY <1>4, <2>3 DEF GuardRead, dbVars, TypeOK
<1>5. ASSUME NEW w \in Workers, guard' = [guard EXCEPT ![w] = NoGuard]
      PROVE  guard' \in [Workers -> [victim : Months \cup {0}, locked : SUBSET Months]]
  BY <1>5 DEF NoGuard, TypeOK
<1>6. ASSUME NEW w \in Workers, GuardDrop(w) PROVE TypeOK'
  <2>1. guard[w].victim \in Months
    BY <1>6 DEF GuardDrop, Holding, TypeOK
  <2>2. Drop(guard[w].victim) /\ guard' = [guard EXCEPT ![w] = NoGuard]
    BY <1>6 DEF GuardDrop
  <2>3. QED
    BY <1>5, <1>6, <2>1, <2>2, DropType DEF GuardDrop, TypeOK
<1>7. ASSUME NEW w \in Workers, GuardAborted(w) PROVE TypeOK'
  BY <1>5, <1>7 DEF GuardAborted, dbVars, TypeOK
<1>8. ASSUME NEW w \in Workers, RebalanceStart(w) PROVE TypeOK'
  <2> DEFINE t == [pc |-> "prepare", todo |-> MonthsToMove]
  <2>1. MonthsToMove \in SUBSET Months /\ MonthsToMove # {}
    BY <1>8 DEF RebalanceStart, MonthsToMove, Loose
  <2>2. ThreadOK(t)
    BY <2>1 DEF ThreadOK, Thread
  <2>3. reb' = [reb EXCEPT ![w] = t]
    BY <1>8 DEF RebalanceStart
  <2> HIDE DEF t
  <2>4. QED
    BY <1>8, <2>2, <2>3, ThreadType DEF RebalanceStart, dbVars, TypeOK
<1>9. ASSUME NEW w \in Workers, Skip(w) PROVE TypeOK'
  BY <1>9, NextMonthThread, ThreadType DEF Skip, dbVars, TypeOK
<1>10. ASSUME NEW w \in Workers, Prepare(w) \/ Move(w) PROVE TypeOK'
  <2>1. reb[w].pc # "idle"
    BY <1>10 DEF Prepare, Move
  <2>2. Current(w) \in Months
    BY <2>1, CurrentMonth
  <2>3. PICK S \in SUBSET default : MoveChunk(w, Current(w), S)
    BY <1>10 DEF Prepare, Move
  <2>4. \E t : ThreadOK(t) /\ reb' = [reb EXCEPT ![w] = t]
    BY <2>1, <2>2, <2>3, MoveThread
  <2>5. rowsOf' \in [Months -> SUBSET Rows] /\ default' \subseteq Rows
    BY <2>2, <2>3 DEF MoveChunk, TypeOK
  <2>6. table' \in [Months -> {"none", "loose", "attached"}]
    BY <1>10, <2>2 DEF Prepare, Move, TypeOK
  <2>7. UNCHANGED <<now, guard, job, file, arrived, purged, abandoned, failures>>
    BY <1>10 DEF Prepare, Move
  <2>8. QED
    BY <2>4, <2>5, <2>6, <2>7, ThreadType DEF TypeOK
<1>11. ASSUME NEW w \in Workers, Attach(w) PROVE TypeOK'
  <2>1. table' \in [Months -> {"none", "loose", "attached"}] /\ abandoned' \subseteq Months
    BY <1>11 DEF Attach, TypeOK
  <2>2. NextMonth(w)
    BY <1>11 DEF Attach
  <2>3. QED
    BY <1>11, <2>1, <2>2, NextMonthThread, ThreadType DEF Attach, TypeOK
<1>12. ASSUME NEW w \in Workers, RebalanceRefused(w) PROVE TypeOK'
  BY <1>12, GiveUpType DEF RebalanceRefused, dbVars, TypeOK
<1>13. ASSUME NEW w \in Workers, RebalanceFails(w) PROVE TypeOK'
  BY <1>13, GiveUpType DEF RebalanceFails, dbVars, TypeOK
<1>14. ASSUME NEW w \in Workers, Restart(w) PROVE TypeOK'
  <2>1. table' \in [Months -> {"none", "loose", "attached"}]
    BY <1>14, CreatedTables DEF Restart
  <2>2. QED
    <3>1. guard' \in [Workers -> [victim : Months \cup {0}, locked : SUBSET Months]] /\ GiveUp(w)
      BY <1>5, <1>14 DEF Restart
    <3>2. UNCHANGED <<now, rowsOf, default, job, file, arrived, purged>> /\ failures' \in Nat
      BY <1>14 DEF Restart, TypeOK
    <3>3. QED
      BY <2>1, <3>1, <3>2, GiveUpType DEF TypeOK
<1>15. CASE BackupStart
  <2>1. job' \in [pc : {"idle", "dump", "drop"}, parts : SUBSET Months, todo : SUBSET Months,
                  cur : Months \cup {0}]
    BY <1>15 DEF BackupStart, Attached, TypeOK
  <2>2. QED
    BY <1>15, <2>1 DEF BackupStart, dbVars, TypeOK
<1>16. CASE DumpsDone
  <2> DEFINE todo == {m \in job.parts : m < Cutoff}
             j == [job EXCEPT !.pc = "drop"]
  <2>1. todo \in SUBSET Months
    BY DEF TypeOK
  <2>2. j \in [pc : {"idle", "dump", "drop"}, parts : SUBSET Months, todo : SUBSET Months,
               cur : Months \cup {0}]
    BY DEF TypeOK
  <2>3. job' = [j EXCEPT !.todo = todo]
    BY <1>16 DEF DumpsDone
  <2> HIDE DEF todo, j
  <2>4. job' \in [pc : {"idle", "dump", "drop"}, parts : SUBSET Months, todo : SUBSET Months,
                  cur : Months \cup {0}]
    BY <2>1, <2>2, <2>3
  <2>5. QED
    BY <1>16, <2>4 DEF DumpsDone, dbVars, TypeOK
<1>17. CASE Prune
  <2>1. job' \in [pc : {"idle", "dump", "drop"}, parts : SUBSET Months, todo : SUBSET Months,
                  cur : Months \cup {0}]
    BY <1>17 DEF Prune, NoJob
  <2>2. file' \in [Months -> (SUBSET Rows) \cup {NoFile}]
    BY <1>17 DEF Prune, TypeOK
  <2>3. QED
    BY <1>17, <2>1, <2>2 DEF Prune, dbVars, TypeOK
<1>18. ASSUME NEW m \in Months, job' = [job EXCEPT !.todo = @ \ {m}]
       PROVE  job' \in [pc : {"idle", "dump", "drop"}, parts : SUBSET Months, todo : SUBSET Months,
                        cur : Months \cup {0}]
  BY <1>18 DEF TypeOK
<1>19. ASSUME NEW m \in Months, Dump(m) PROVE TypeOK'
  <2>1. file' \in [Months -> (SUBSET Rows) \cup {NoFile}]
    BY <1>19 DEF Dump, TypeOK
  <2>2. QED
    BY <1>18, <1>19, <2>1 DEF Dump, dbVars, TypeOK
<1>20. ASSUME NEW m \in Months, DropOld(m) PROVE TypeOK'
  <2>1. CASE file[m] = NoFile
    BY <1>18, <1>20, <2>1 DEF DropOld, dbVars, TypeOK
  <2>2. CASE file[m] # NoFile
    BY <1>18, <1>20, <2>2, DropType DEF DropOld, TypeOK
  <2>3. QED
    BY <2>1, <2>2
<1>21. CASE UNCHANGED vars
  BY <1>21 DEF vars, TypeOK
<1>22. QED
  BY <1>1, <1>2, <1>3, <1>4, <1>6, <1>7, <1>8, <1>9, <1>10, <1>11, <1>12, <1>13, <1>14, <1>15,
     <1>16, <1>17, <1>19, <1>20, <1>21 DEF Next, Rebalance

-----------------------------------------------------------------------------
(* What steps do to the rows *)

(* A step drops a partition that no other guard has read; it fills tables; *)
(* or it leaves every table its rows.                                      *)
LEMMA RowsStep ==
    ASSUME TypeOK, Holding, [Next]_vars
    PROVE  \/ \E m \in Months, w \in Workers :
                 Drop(m) /\ GuardDrop(w) /\ m = guard[w].victim
           \/ \E m \in Months :
                 Drop(m) /\ UNCHANGED guard /\ \A w \in Workers : m \notin guard[w].locked
           \/ \A m \in Months : rowsOf[m] \subseteq rowsOf'[m]
<1>1. ASSUME NEW w \in Workers, GuardDrop(w)
      PROVE  \E m \in Months : Drop(m) /\ m = guard[w].victim
  BY <1>1 DEF GuardDrop, Holding, TypeOK
<1>2. ASSUME NEW r \in Rows, Insert(r)
      PROVE  \A m \in Months : rowsOf[m] \subseteq rowsOf'[m]
  BY <1>2 DEF Insert, TypeOK
<1>3. ASSUME NEW w \in Workers, Prepare(w) \/ Move(w)
      PROVE  \A m \in Months : rowsOf[m] \subseteq rowsOf'[m]
  BY <1>3 DEF Prepare, Move, MoveChunk, TypeOK
<1>4. ASSUME NEW m \in Months, DropOld(m)
      PROVE  \/ UNCHANGED rowsOf
             \/ Drop(m) /\ UNCHANGED guard /\ \A w \in Workers : m \notin guard[w].locked
  BY <1>4 DEF DropOld, dbVars
<1>5. CASE UNCHANGED rowsOf
  BY <1>5
<1>6. QED
  BY <1>1, <1>2, <1>3, <1>4, <1>5 DEF Next, Rebalance, vars, dbVars, CreatePartitions, Tick, GuardRead,
     GuardAborted, RebalanceStart, Skip, Attach, RebalanceRefused, RebalanceFails, Restart,
     BackupStart, DumpsDone, Prune, Dump

(* The guard's two targets. *)
LEMMA TwoTargets ==
    ASSUME TypeOK, Cardinality(Purgeable) > 1
    PROVE  /\ Min(Purgeable) \in Purgeable
           /\ \E m \in Purgeable : m # Min(Purgeable)
<1>1. Purgeable # {} /\ Purgeable \in SUBSET Months
  BY FS_EmptySet DEF Purgeable, Past, Attached
<1>2. Min(Purgeable) \in Purgeable
  BY <1>1, MinMonth
<1>3. ASSUME \A m \in Purgeable : m = Min(Purgeable) PROVE FALSE
  <2>1. PICK x \in Purgeable : Purgeable = {x}
    BY <1>2, <1>3
  <2>2. Cardinality({x}) = 1
    BY FS_Singleton, Zenon
  <2>3. QED
    BY <2>1, <2>2
<1>4. QED
  BY <1>2, <1>3

(* What a guard has read stays true while it holds its locks, for every    *)
(* step.                                                                   *)
LEMMA HoldingStep ==
    ASSUME TypeOK, Holding, [Next]_vars
    PROVE  Holding'
<1>1. now' >= now /\ now' \in Int /\ now \in Int
  <2>1. now' = now \/ now' = now + 1
    BY DEF Next, Rebalance, vars, Insert, CreatePartitions, Tick, GuardRead, GuardDrop, GuardAborted,
       RebalanceStart, Skip, Prepare, Move, Attach, RebalanceRefused, RebalanceFails, Restart,
       BackupStart, DumpsDone, Prune, Dump, DropOld
  <2>2. QED
    BY <2>1 DEF TypeOK, Months
<1>2. ASSUME NEW w \in Workers
      PROVE  guard'[w] = guard[w] \/ guard'[w] = NoGuard \/ GuardRead(w)
  <2>1. CASE UNCHANGED guard
    BY <2>1
  <2>2. ASSUME NEW v \in Workers, GuardRead(v) PROVE guard'[w] = guard[w] \/ GuardRead(w)
    BY <2>2 DEF GuardRead, TypeOK
  <2>3. ASSUME NEW v \in Workers, guard' = [guard EXCEPT ![v] = NoGuard]
        PROVE  guard'[w] = guard[w] \/ guard'[w] = NoGuard
    BY <2>3 DEF TypeOK
  <2>4. QED
    BY <2>1, <2>2, <2>3 DEF Next, Rebalance, vars, Insert, CreatePartitions, Tick, GuardDrop,
       GuardAborted, RebalanceStart, Skip, Prepare, Move, Attach, RebalanceRefused, RebalanceFails,
       Restart, BackupStart, DumpsDone, Prune, Dump, DropOld
<1>3. ASSUME NEW w \in Workers, GuardRead(w)
      PROVE  /\ guard'[w].victim \in guard'[w].locked
             /\ \A m \in guard'[w].locked : m < now'
             /\ \E m \in guard'[w].locked : m # guard'[w].victim /\ rowsOf'[m] # {}
  <2>1. guard'[w].victim = Min(Purgeable) /\ guard'[w].locked = Past /\ UNCHANGED <<now, rowsOf>>
    BY <1>3 DEF GuardRead, dbVars, TypeOK
  <2>2. Min(Purgeable) \in Purgeable /\ \E m \in Purgeable : m # Min(Purgeable)
    BY <1>3, TwoTargets DEF GuardRead
  <2>3. \A m \in Purgeable : m \in Past /\ rowsOf[m] # {}
    BY DEF Purgeable
  <2>4. \A m \in Past : m < now
    BY DEF Past
  <2>5. QED
    BY <2>1, <2>2, <2>3, <2>4
<1>4. ASSUME NEW w \in Workers, guard'[w] = guard[w], guard[w] # NoGuard
      PROVE  /\ guard'[w].victim \in guard'[w].locked
             /\ \A m \in guard'[w].locked : m < now'
             /\ \E m \in guard'[w].locked : m # guard'[w].victim /\ rowsOf'[m] # {}
  <2>1. PICK m \in guard[w].locked : m # guard[w].victim /\ rowsOf[m] # {}
    BY <1>4 DEF Holding
  <2>2. guard[w].locked \in SUBSET Months /\ m \in Months
    BY DEF TypeOK
  <2>3. rowsOf'[m] # {}
    <3>1. ASSUME NEW n \in Months, Drop(n), n \notin guard[w].locked PROVE rowsOf'[m] # {}
      BY <2>1, <2>2, <3>1 DEF Drop, TypeOK
    <3>2. ASSUME NEW v \in Workers, NEW n \in Months, GuardDrop(v), n = guard[v].victim
          PROVE  n \notin guard[w].locked
      <4>1. v # w
        BY <1>4, <3>2 DEF GuardDrop, TypeOK
      <4>2. QED
        BY <3>2, <4>1 DEF GuardDrop, LockedByOthers
    <3>3. QED
      BY <2>1, <2>2, <3>1, <3>2, RowsStep
  <2>4. \A n \in guard[w].locked : n < now'
    BY <1>1, <1>4, <2>2 DEF Holding, Months
  <2>5. QED
    BY <1>4, <2>1, <2>3, <2>4 DEF Holding
<1>5. QED
  BY <1>2, <1>3, <1>4 DEF Holding

-----------------------------------------------------------------------------
(* Rows are conserved *)

(* The rows of a dropped partition are purged, all others stay. *)
LEMMA DropConserves ==
    ASSUME TypeOK, Conserved, NEW m \in Months, Drop(m), UNCHANGED arrived
    PROVE  Conserved'
<1>1. /\ \A n \in Months : rowsOf'[n] = IF n = m THEN {} ELSE rowsOf[n]
      /\ \A n \in Months : table'[n] = IF n = m THEN "none" ELSE table[n]
      /\ purged' = purged \cup rowsOf[m] /\ UNCHANGED default
  BY DEF Drop, TypeOK
<1>2. \A n \in Months : n # m => rowsOf[n] \cap rowsOf[m] = {}
  BY DEF Conserved, In
<1>3. arrived' = default' \cup purged' \cup UNION {rowsOf'[n] : n \in Months}
  BY <1>1 DEF Conserved
<1>4. default' \cap purged' = {}
  BY <1>1 DEF Conserved
<1>5. ASSUME NEW n \in Months
      PROVE  /\ rowsOf'[n] \cap (default' \cup purged') = {}
             /\ rowsOf'[n] = In(n, rowsOf'[n])
             /\ table'[n] = "none" => rowsOf'[n] = {}
  BY <1>1, <1>2 DEF Conserved, In
<1>6. QED
  BY <1>3, <1>4, <1>5 DEF Conserved, In

(* A chunk leaves the default partition as it enters its table. *)
LEMMA MoveConserves ==
    ASSUME TypeOK, Conserved, NEW w \in Workers, Prepare(w) \/ Move(w)
    PROVE  Conserved'
<1> DEFINE m == Current(w)
<1>1. m \in Months
  BY CurrentMonth DEF Prepare, Move
<1>2. PICK S \in SUBSET default : MoveChunk(w, m, S)
  BY DEF Prepare, Move
<1>3. /\ \A r \in S : r \in default /\ MonthOf[r] = m
      /\ default' = default \ S
      /\ \A n \in Months : rowsOf'[n] = IF n = m THEN rowsOf[m] \cup S ELSE rowsOf[n]
  BY <1>1, <1>2 DEF MoveChunk, In, TypeOK
<1>4. /\ table'[m] # "none" /\ \A n \in Months \ {m} : table'[n] = table[n]
      /\ UNCHANGED <<arrived, purged>>
  BY <1>1 DEF Prepare, Move, TypeOK
<1> HIDE DEF m
<1>5. arrived' = default' \cup purged' \cup UNION {rowsOf'[n] : n \in Months}
  <2>1. UNION {rowsOf'[n] : n \in Months} = S \cup UNION {rowsOf[n] : n \in Months}
    BY <1>1, <1>3
  <2>2. QED
    BY <1>3, <1>4, <2>1 DEF Conserved
<1>6. default' \cap purged' = {}
  BY <1>3, <1>4 DEF Conserved
<1>7. ASSUME NEW n \in Months
      PROVE  /\ rowsOf'[n] \cap (default' \cup purged') = {}
             /\ rowsOf'[n] = In(n, rowsOf'[n])
             /\ table'[n] = "none" => rowsOf'[n] = {}
  BY <1>3, <1>4 DEF Conserved, In
<1>8. QED
  BY <1>5, <1>6, <1>7 DEF Conserved, In

(* A new row is routed to one place. *)
LEMMA InsertConserves ==
    ASSUME TypeOK, Conserved, NEW r \in Rows, Insert(r)
    PROVE  Conserved'
<1> DEFINE m == MonthOf[r]
<1>1. m \in Months
  BY ConstantsAssumption
<1>2. /\ r \notin default /\ r \notin purged /\ \A n \in Months : r \notin rowsOf[n]
      /\ arrived' = arrived \cup {r} /\ UNCHANGED <<table, purged>>
  BY DEF Insert, Conserved
<1>3. CASE m \in Attached
  <2>1. /\ \A n \in Months : rowsOf'[n] = IF n = m THEN rowsOf[m] \cup {r} ELSE rowsOf[n]
        /\ UNCHANGED default /\ table[m] # "none"
    BY <1>1, <1>3 DEF Insert, TypeOK, Attached
  <2>2. UNION {rowsOf'[n] : n \in Months} = {r} \cup UNION {rowsOf[n] : n \in Months}
    BY <1>1, <2>1
  <2>3. arrived' = default' \cup purged' \cup UNION {rowsOf'[n] : n \in Months}
    BY <1>2, <2>1, <2>2 DEF Conserved
  <2>4. ASSUME NEW n \in Months
        PROVE  /\ rowsOf'[n] \cap (default' \cup purged') = {}
               /\ rowsOf'[n] = In(n, rowsOf'[n])
               /\ table'[n] = "none" => rowsOf'[n] = {}
    BY <1>2, <2>1 DEF Conserved, In
  <2>5. default' \cap purged' = {}
    BY <1>2, <2>1 DEF Conserved
  <2>6. QED
    BY <2>3, <2>4, <2>5 DEF Conserved, In
<1>4. CASE m \notin Attached
  <2>1. default' = default \cup {r} /\ UNCHANGED rowsOf
    BY <1>4 DEF Insert
  <2>2. QED
    BY <1>2, <2>1 DEF Conserved, In
<1>5. QED
  BY <1>3, <1>4

(* Rows are conserved, for every step. *)
LEMMA ConservedStep ==
    ASSUME TypeOK, Holding, Conserved, [Next]_vars
    PROVE  Conserved'
<1>1. ASSUME UNCHANGED <<rowsOf, default, arrived, purged>>,
             \A m \in Months : table'[m] = "none" => table[m] = "none"
      PROVE  Conserved'
  BY <1>1 DEF Conserved, In
<1>2. CASE CreatePartitions
  <2>1. \A m \in Months : table'[m] = "none" => table[m] = "none"
    BY <1>2, CreatedTables DEF CreatePartitions
  <2>2. QED
    BY <1>1, <1>2, <2>1 DEF CreatePartitions
<1>3. ASSUME NEW w \in Workers, Restart(w) PROVE Conserved'
  <2>1. \A m \in Months : table'[m] = "none" => table[m] = "none"
    BY <1>3, CreatedTables DEF Restart
  <2>2. QED
    BY <1>1, <1>3, <2>1 DEF Restart
<1>4. ASSUME NEW w \in Workers, Attach(w) PROVE Conserved'
  <2>1. \A m \in Months : table'[m] = "none" => table[m] = "none"
    BY <1>4 DEF Attach, TypeOK
  <2>2. QED
    BY <1>1, <1>4, <2>1 DEF Attach
<1>5. ASSUME NEW w \in Workers, GuardDrop(w) PROVE Conserved'
  <2>1. guard[w].victim \in Months
    BY <1>5 DEF GuardDrop, Holding, TypeOK
  <2>2. Drop(guard[w].victim) /\ UNCHANGED arrived
    BY <1>5 DEF GuardDrop
  <2>3. QED
    BY <2>1, <2>2, DropConserves
<1>6. ASSUME NEW m \in Months, DropOld(m) PROVE Conserved'
  <2>1. UNCHANGED arrived /\ (UNCHANGED <<table, rowsOf, default, purged>> \/ Drop(m))
    BY <1>6 DEF DropOld, dbVars
  <2>2. QED
    BY <1>1, <2>1, DropConserves
<1>7. CASE UNCHANGED <<table, rowsOf, default, arrived, purged>>
  BY <1>1, <1>7
<1>8. QED
  BY <1>2, <1>3, <1>4, <1>5, <1>6, <1>7, InsertConserves, MoveConserves DEF Next, Rebalance, vars,
     dbVars, Tick, GuardRead, GuardAborted, RebalanceStart, Skip, RebalanceRefused, RebalanceFails,
     BackupStart, DumpsDone, Prune, Dump

-----------------------------------------------------------------------------
(* Loose tables *)

(* A loose table is pending, for every step. *)
LEMMA LooseStep ==
    ASSUME TypeOK, Holding, LooseIsPending, [Next]_vars
    PROVE  LooseIsPending'
<1> DEFINE Pending(m) == m \in abandoned \/ \E w \in Workers : m \in reb[w].todo
<1>1. SUFFICES ASSUME NEW m \in Loose'
               PROVE  m \in abandoned' \/ \E w \in Workers : m \in reb'[w].todo
  BY DEF LooseIsPending
<1>2. m \in Months /\ table'[m] = "loose" /\ (table[m] = "loose" => Pending(m))
  BY DEF Loose, LooseIsPending
<1>3. ASSUME table[m] = "loose", UNCHANGED <<abandoned, reb>>
      PROVE  m \in abandoned' \/ \E w \in Workers : m \in reb'[w].todo
  BY <1>2, <1>3
<1>4. ASSUME NEW w \in Workers, NEW t, reb' = [reb EXCEPT ![w] = t],
             m \in reb[w].todo => m \in t.todo, table[m] = "loose", UNCHANGED abandoned
      PROVE  m \in abandoned' \/ \E v \in Workers : m \in reb'[v].todo
  <2>1. reb'[w] = t /\ \A v \in Workers \ {w} : reb'[v] = reb[v]
    BY <1>4 DEF TypeOK
  <2>2. QED
    BY <1>2, <1>4, <2>1
<1>5. ASSUME NEW w \in Workers, GiveUp(w), table[m] = "loose"
      PROVE  m \in abandoned' \/ \E v \in Workers : m \in reb'[v].todo
  <2>1. abandoned' = abandoned \cup (reb[w].todo \cap Loose) /\ m \in Loose
    BY <1>2, <1>5 DEF GiveUp, Loose
  <2>2. \A v \in Workers \ {w} : reb'[v] = reb[v]
    BY <1>5 DEF GiveUp, TypeOK
  <2>3. QED
    BY <1>2, <1>5, <2>1, <2>2
<1>6. ASSUME NEW n \in Months, Drop(n), UNCHANGED reb
      PROVE  m \in abandoned' \/ \E v \in Workers : m \in reb'[v].todo
  <2>1. n # m /\ table[m] = "loose" /\ abandoned' = abandoned \ {n}
    BY <1>2, <1>6 DEF Drop, TypeOK
  <2>2. QED
    BY <1>2, <1>6, <2>1
<1>7. ASSUME NEW S, table' = Created(S) PROVE table[m] = "loose"
  BY <1>2, <1>7, CreatedTables
<1>8. ASSUME NEW w \in Workers, Skip(w)
      PROVE  m \in abandoned' \/ \E v \in Workers : m \in reb'[v].todo
  <2>1. NextMonth(w) /\ Current(w) \in Attached /\ UNCHANGED <<table, abandoned>>
    BY <1>8 DEF Skip, dbVars
  <2>2. PICK t : t.todo = reb[w].todo \ {Current(w)} /\ reb' = [reb EXCEPT ![w] = t]
    BY <2>1, NextMonthThread
  <2>3. m # Current(w) /\ table[m] = "loose"
    BY <1>2, <2>1 DEF Attached
  <2>4. QED
    BY <1>4, <2>1, <2>2, <2>3
<1>9. ASSUME NEW w \in Workers, Prepare(w) \/ Move(w)
      PROVE  m \in abandoned' \/ \E v \in Workers : m \in reb'[v].todo
  <2>1. reb[w].pc # "idle"
    BY <1>9 DEF Prepare, Move
  <2>2. Current(w) \in Months /\ Current(w) \in reb[w].todo
    BY <2>1, CurrentMonth
  <2>3. PICK S \in SUBSET default : MoveChunk(w, Current(w), S)
    BY <1>9 DEF Prepare, Move
  <2>4. PICK t : t.todo = reb[w].todo /\ reb' = [reb EXCEPT ![w] = t]
    BY <2>1, <2>2, <2>3, MoveThread
  <2>5. (m = Current(w) \/ table[m] = "loose") /\ UNCHANGED abandoned
    BY <1>2, <1>9, <2>2 DEF Prepare, Move, TypeOK
  <2>6. CASE m = Current(w)
    <3>1. reb'[w] = t
      BY <2>4 DEF TypeOK
    <3>2. QED
      BY <2>2, <2>4, <2>6, <3>1
  <2>7. QED
    BY <1>4, <2>4, <2>5, <2>6
<1>10. ASSUME NEW w \in Workers, Attach(w)
       PROVE  m \in abandoned' \/ \E v \in Workers : m \in reb'[v].todo
  <2>1. NextMonth(w) /\ abandoned' = abandoned \ {Current(w)}
    BY <1>10 DEF Attach
  <2>2. PICK t : t.todo = reb[w].todo \ {Current(w)} /\ reb' = [reb EXCEPT ![w] = t]
    BY <2>1, NextMonthThread
  <2>3. m # Current(w) /\ table[m] = "loose"
    BY <1>2, <1>10 DEF Attach, TypeOK
  <2>4. reb'[w] = t /\ \A v \in Workers \ {w} : reb'[v] = reb[v]
    BY <2>2 DEF TypeOK
  <2>5. QED
    BY <1>2, <2>1, <2>2, <2>3, <2>4
<1>11. ASSUME NEW w \in Workers, RebalanceStart(w)
       PROVE  m \in abandoned' \/ \E v \in Workers : m \in reb'[v].todo
  <2> DEFINE t == [pc |-> "prepare", todo |-> MonthsToMove]
  <2>1. reb' = [reb EXCEPT ![w] = t] /\ UNCHANGED <<table, abandoned>> /\ reb[w].todo = {}
    BY <1>11 DEF RebalanceStart, dbVars, Idle
  <2> HIDE DEF t
  <2>2. QED
    BY <1>2, <1>4, <2>1
<1>12. ASSUME NEW w \in Workers, RebalanceRefused(w) \/ RebalanceFails(w)
       PROVE  m \in abandoned' \/ \E v \in Workers : m \in reb'[v].todo
  <2>1. GiveUp(w) /\ UNCHANGED table
    BY <1>12 DEF RebalanceRefused, RebalanceFails, dbVars
  <2>2. QED
    BY <1>2, <1>5, <2>1
<1>13. ASSUME NEW w \in Workers, Restart(w)
       PROVE  m \in abandoned' \/ \E v \in Workers : m \in reb'[v].todo
  BY <1>5, <1>7, <1>13 DEF Restart
<1>14. ASSUME NEW w \in Workers, GuardDrop(w)
       PROVE  m \in abandoned' \/ \E v \in Workers : m \in reb'[v].todo
  <2>1. guard[w].victim \in Months
    BY <1>14 DEF GuardDrop, Holding, TypeOK
  <2>2. QED
    BY <1>6, <1>14, <2>1 DEF GuardDrop
<1>15. ASSUME NEW n \in Months, DropOld(n)
       PROVE  m \in abandoned' \/ \E v \in Workers : m \in reb'[v].todo
  <2>1. UNCHANGED reb /\ (UNCHANGED <<table, abandoned>> \/ Drop(n))
    BY <1>15 DEF DropOld, dbVars
  <2>2. QED
    BY <1>2, <1>3, <1>6, <2>1
<1>16. CASE CreatePartitions
  BY <1>3, <1>7, <1>16 DEF CreatePartitions
<1>17. CASE UNCHANGED <<table, abandoned, reb>>
  BY <1>2, <1>3, <1>17
<1>18. QED
  BY <1>8, <1>9, <1>10, <1>11, <1>12, <1>13, <1>14, <1>15, <1>16, <1>17 DEF Next, Rebalance, vars,
     dbVars, Insert, Tick, GuardRead, GuardAborted, BackupStart, DumpsDone, Prune, Dump

-----------------------------------------------------------------------------
(* The theorems *)

IInv == TypeOK /\ Holding /\ Conserved /\ LooseIsPending

(* The inductive invariant holds at the start. *)
LEMMA InitInv == Init => IInv
<1> SUFFICES ASSUME Init PROVE IInv
  OBVIOUS
<1>1. TypeOK
  BY InitType
<1>2. Holding
  BY DEF Init, Holding
<1>3. Conserved
  BY DEF Init, Conserved, In
<1>4. LooseIsPending
  BY DEF Init, LooseIsPending, Loose
<1>5. QED
  BY <1>1, <1>2, <1>3, <1>4 DEF IInv

(* The inductive invariant holds in every state. *)
LEMMA Inductive == Spec => []IInv
<1>1. IInv /\ [Next]_vars => IInv'
  BY StepType, HoldingStep, ConservedStep, LooseStep DEF IInv
<1>2. QED
  BY <1>1, InitInv, PTL DEF Spec

(* Every state of the specification is well typed. *)
THEOREM TypeCorrect == Spec => []TypeOK
BY Inductive, PTL DEF IInv

(* No row is lost or doubled: whatever chunks are moved, runs break off,   *)
(* partitions are dropped and rows arrive, for any number of workers.      *)
THEOREM RowsConserved == Spec => []Conserved
BY Inductive, PTL DEF IInv

(* A table out of reach of queries is always being moved or was left by a  *)
(* run that failed.                                                        *)
THEOREM LooseAlwaysPending == Spec => []LooseIsPending
BY Inductive, PTL DEF IInv

(* The guard keeps its promise: the partition it drops is a past one, and  *)
(* another past one with data stays, for any number of guards.             *)
THEOREM GuardAlwaysKeepsOne == Spec => GuardKeepsOne
<1> DEFINE A == \A w \in Workers :
                  guard[w] # NoGuard /\ rowsOf' # rowsOf /\ guard'[w] = NoGuard =>
                      guard[w].victim < now /\ \E m \in Months : m < now /\ rowsOf'[m] # {}
<1>1. ASSUME IInv, [Next]_vars PROVE A
  <2>1. SUFFICES ASSUME NEW w \in Workers, guard[w] # NoGuard, rowsOf' # rowsOf, guard'[w] = NoGuard
                 PROVE  guard[w].victim < now /\ \E m \in Months : m < now /\ rowsOf'[m] # {}
    OBVIOUS
  <2>2. GuardDrop(w)
    <3>1. ASSUME NEW v \in Workers, v # w, GuardDrop(v) PROVE FALSE
      BY <2>1, <3>1 DEF GuardDrop
    <3>2. \/ UNCHANGED rowsOf \/ UNCHANGED guard
          \/ \E v \in Workers : GuardDrop(v)
      BY <1>1 DEF Next, Rebalance, vars, dbVars, Insert, CreatePartitions, Tick, GuardRead, GuardAborted,
         RebalanceStart, Skip, Prepare, Move, Attach, RebalanceRefused, RebalanceFails, Restart,
         BackupStart, DumpsDone, Prune, Dump, DropOld
    <3>3. QED
      BY <2>1, <3>1, <3>2
  <2>3. PICK m \in guard[w].locked : m # guard[w].victim /\ rowsOf[m] # {}
    BY <1>1, <2>1 DEF IInv, Holding
  <2>4. guard[w].victim < now /\ m < now /\ m \in Months
    BY <1>1, <2>1 DEF IInv, Holding, TypeOK
  <2>5. rowsOf'[m] = rowsOf[m]
    BY <1>1, <2>2, <2>3, <2>4 DEF GuardDrop, Drop, IInv, TypeOK
  <2>6. QED
    BY <2>3, <2>4, <2>5
<1>2. IInv /\ [Next]_vars => [A]_vars
  BY <1>1
<1>3. QED
  BY <1>2, Inductive, PTL DEF Spec, GuardKeepsOne
=============================================================================
