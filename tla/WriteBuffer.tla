---------------------------- MODULE WriteBuffer ----------------------------
(***************************************************************************)
(* The ingest write buffer of one WAS worker process                       *)
(* (was/app/write_buffer.py) with the two callers that share it: the       *)
(* request threads of POST /ingest/logs (was/app/routers/ingest.py) and    *)
(* the thread that runs the lifespan shutdown (was/app/main.py).           *)
(*                                                                         *)
(* A row is one accepted log line, an occurrence: two rows with the same   *)
(* Key are the same line received twice (the daemon resends what it is not *)
(* sure of), which the unique index (device_id, log_time, row_hash) makes  *)
(* one stored line.  A batch is a set of rows, because a bulk insert is    *)
(* all or nothing and the order inside it is irrelevant.                   *)
(*                                                                         *)
(* Every `with self._lock` block is one step; what a thread does between   *)
(* two blocks (the insert) is a step of its own, so threads interleave     *)
(* exactly where the lock is free.  An insert that fails and the lock      *)
(* block of _requeue/_drop that follows it are one step: the failed insert *)
(* reads nothing another thread of the process writes.  _requeue's overflow*)
(* loop and the _drop that counts what it removed are one step for the     *)
(* same reason: no decision of the program reads _dropped.                 *)
(***************************************************************************)
EXTENDS Integers, Sequences, FiniteSets, Selection

CONSTANTS
    Rows,         \* occurrences of log lines that requests may bring
    Devices,      \* device ids
    Keys,         \* values of (device_id, log_time, row_hash)
    Owner,        \* Owner[r]: the device of row r
    Key,          \* Key[r]: the key of row r
    Requests,     \* request threads of the worker
    Flusher,      \* the "write-buffer" thread
    Stopper,      \* the thread that calls stop()
    MaxSize,      \* max_size: a queue this long is written by the adder
    MaxPending,   \* max_pending: rows kept before 503, and kept for retry
    MaxAttempts,  \* _MAX_ATTEMPTS
    MaxBatch,     \* rows in one request (LogBatch.logs has a max_length)
    DbFaults      \* whether the database may fail at all

ASSUME ConstantsAssumption ==
    /\ IsFiniteSet(Rows)
    /\ Owner \in [Rows -> Devices]
    /\ Key \in [Rows -> Keys]
    /\ \A r, s \in Rows : Key[r] = Key[s] => Owner[r] = Owner[s]
    /\ Flusher # Stopper /\ Flusher \notin Requests /\ Stopper \notin Requests
    /\ MaxSize \in Nat \ {0} /\ MaxPending \in Nat \ {0}
    /\ MaxAttempts \in Nat \ {0} /\ MaxBatch \in Nat \ {0}
    /\ DbFaults \in BOOLEAN

Threads == Requests \cup {Flusher, Stopper}

VARIABLES
    queue,      \* _queue: rows waiting for the next flush
    retry,      \* _retry: failed batches, oldest first
    retryRows,  \* _retry_rows
    dropped,    \* _dropped
    running,    \* _running
    left,       \* stop()'s `left`: rows it reports as not written
    pc,         \* where each thread is
    req,        \* rows of a request between saturated() and add()
    hand,       \* batches a thread has taken out and is about to insert
    db,         \* copies of each key in ftp_logs
    dbUp,       \* whether an insert succeeds (FALSE: outage, or ftp_logs locked)
    registered, \* devices with a row in the devices table
    accepted,   \* history: rows that add() has taken
    lost        \* history: rows _drop has given up

bufVars == <<queue, retry, retryRows, dropped>>
envVars == <<dbUp, registered>>
vars == <<queue, retry, retryRows, dropped, running, left, pc, req, hand,
          db, dbUp, registered, accepted, lost>>

(* class _Batch: its rows and the number of failed attempts.  next_at is   *)
(* abstracted: when a backoff ends is a free choice of TakeDue.            *)
Batch == [rows : SUBSET Rows, attempts : Nat]

NewBatch(rows) == [rows |-> rows, attempts |-> 0]

RowsIn(batches) == UNION {batches[i].rows : i \in DOMAIN batches}

(* sum(len(b) for b in batches): a row is in one batch only (Ownership).   *)
RowCount(batches) == Cardinality(RowsIn(batches))

(* Mutant: pending_rows() forgets the batches that wait for a retry. *)
PendingQueueOnly == Cardinality(queue)

(* pending_rows(): what waits in the two queues; not what threads hold.    *)
PendingRows == Cardinality(queue) + retryRows

Saturated == PendingRows >= MaxPending

-----------------------------------------------------------------------------
(* Request threads: POST /ingest/logs *)

(* ingest_logs up to the saturation check, for a request that passes it:   *)
(* the device is known, the buffer is not saturated.  rows are the entries *)
(* left after the filter.  A request that is refused (401, 403, 503)       *)
(* changes nothing.                                                        *)
Admit(t, d, rows) ==
    /\ pc[t] = "idle"
    /\ running
    /\ d \in registered
    /\ ~ Saturated
    /\ rows # {}
    /\ Cardinality(rows) <= MaxBatch
    /\ \A r \in rows : Owner[r] = d
    /\ rows \cap (accepted \cup UNION {req[u] : u \in Requests}) = {}
    /\ req' = [req EXCEPT ![t] = rows]
    /\ pc' = [pc EXCEPT ![t] = "add"]
    /\ UNCHANGED <<bufVars, envVars, running, left, hand, db, accepted, lost>>

(* WriteBuffer.add: extend the queue; a full queue is taken out and        *)
(* written by the request thread itself, outside the lock.                 *)
Add(t) ==
    LET extended == queue \cup req[t] IN
    /\ pc[t] = "add"
    /\ accepted' = accepted \cup req[t]
    /\ req' = [req EXCEPT ![t] = {}]
    /\ IF Cardinality(extended) >= MaxSize
       THEN /\ queue' = {}
            /\ hand' = [hand EXCEPT ![t] = <<NewBatch(extended)>>]
            /\ pc' = [pc EXCEPT ![t] = "write"]
       ELSE /\ queue' = extended
            /\ pc' = [pc EXCEPT ![t] = "idle"]
            /\ UNCHANGED hand
    /\ UNCHANGED <<retry, retryRows, dropped, envVars, running, left, db, lost>>

-----------------------------------------------------------------------------
(* _flush, run by the flusher's loop and once by stop() *)

(* The top of _flush_loop: the flag is read before the sleep, so a flusher *)
(* that is asleep when stop() clears it still flushes once.                *)
LoopTop ==
    /\ pc[Flusher] = "loop"
    /\ pc' = [pc EXCEPT ![Flusher] = IF running THEN "retry" ELSE "dead"]
    /\ UNCHANGED <<bufVars, envVars, running, left, req, hand, db, accepted, lost>>

(* Mutant: the due batches stay in the list as well. *)
KeepAll(due) == retry

(* `keep`: the batches whose backoff has not ended. *)
Keep(due) == Pick(retry, DOMAIN retry \ due)

(* _retry_due: the batches whose backoff has ended leave the retry list    *)
(* for the thread's hands; all of them when stop() forces it.              *)
TakeDue(t, due) ==
    /\ pc[t] \in {"retry", "force"}
    /\ pc[t] = "force" => due = DOMAIN retry
    /\ hand' = [hand EXCEPT ![t] = Pick(retry, due)]
    /\ retry' = Keep(due)
    /\ retryRows' = retryRows - RowCount(Pick(retry, due))
    /\ pc' = [pc EXCEPT ![t] =
                 CASE pc[t] = "retry" /\ due = {} -> "take"
                   [] pc[t] = "retry" /\ due # {} -> "retrying"
                   [] pc[t] = "force" /\ due = {} -> "report"
                   [] OTHER -> "forcing"]
    /\ UNCHANGED <<queue, dropped, envVars, running, left, req, db, accepted, lost>>

(* Where a thread goes once its hands are empty. *)
AfterWrite(t) ==
    CASE pc[t] = "retrying" -> "take"
      [] pc[t] = "forcing" -> "report"
      [] pc[t] = "write" /\ t = Flusher -> "loop"
      [] pc[t] = "write" /\ t = Stopper -> "force"
      [] OTHER -> "idle"

(* The rest of _flush: the whole queue becomes one batch. *)
TakeQueue(t) ==
    /\ pc[t] = "take"
    /\ queue' = {}
    /\ IF queue = {}
       THEN /\ pc' = [pc EXCEPT ![t] = IF t = Flusher THEN "loop" ELSE "force"]
            /\ UNCHANGED hand
       ELSE /\ pc' = [pc EXCEPT ![t] = "write"]
            /\ hand' = [hand EXCEPT ![t] = <<NewBatch(queue)>>]
    /\ UNCHANGED <<retry, retryRows, dropped, envVars, running, left, req, db,
                   accepted, lost>>

-----------------------------------------------------------------------------
(* _insert and what follows it, for the first batch in a thread's hands *)

Writing(t) == pc[t] \in {"write", "retrying", "forcing"} /\ hand[t] # <<>>

(* The batch leaves the hands; the thread goes on when it was the last. *)
Release(t) ==
    /\ hand' = [hand EXCEPT ![t] = Tail(@)]
    /\ pc' = [pc EXCEPT ![t] = IF Len(hand[t]) = 1 THEN AfterWrite(t) ELSE @]

(* Mutant: the foreign key is not checked. *)
InsertableAnyway(b) == dbUp

(* ftp_logs.device_id is a foreign key: one row of a deleted device fails  *)
(* the whole statement.                                                    *)
Insertable(b) == dbUp /\ \A r \in b.rows : Owner[r] \in registered

(* INSERT ... ON CONFLICT DO NOTHING: a key that is stored stays as it is. *)
Stored(b) ==
    [k \in Keys |-> IF \E r \in b.rows : Key[r] = k
                    THEN (IF db[k] = 0 THEN 1 ELSE db[k])
                    ELSE db[k]]

(* Mutant: the batch is forgotten without counting it. *)
GiveUpUncounted(b) ==
    /\ lost' = lost \cup b.rows
    /\ UNCHANGED <<dropped, retry, retryRows>>

(* _drop of a batch that is out of attempts. *)
GiveUp(b) ==
    /\ dropped' = dropped + Cardinality(b.rows)
    /\ lost' = lost \cup b.rows
    /\ retry' = retry /\ retryRows' = retryRows

(* Mutants: defer() does not count the attempt; the batch is appended but  *)
(* its rows are not added to _retry_rows.                                  *)
LongerUncounted(b) == Append(retry, b)
TotalUncounted(b) == retryRows

(* The retry list with the batch appended, and its rows by the counter. *)
Longer(b) == Append(retry, [b EXCEPT !.attempts = @ + 1])
Total(b) == retryRows + Cardinality(b.rows)

Before(b, c) == SubSeq(Longer(b), 1, c - 1)

(* Mutant: the loop stops one row too early. *)
FitsOneMore(b, c) ==
    \/ c = Len(Longer(b))
    \/ Total(b) - RowCount(Before(b, c)) <= MaxPending + 1

(* The list from position c on is what the overflow loop may leave. *)
Fits(b, c) ==
    \/ c = Len(Longer(b))
    \/ Total(b) - RowCount(Before(b, c)) <= MaxPending

(* The list from c on is kept, the older batches are dropped. *)
KeepFrom(b, c) ==
    /\ retry' = SubSeq(Longer(b), c, Len(Longer(b)))
    /\ retryRows' = Total(b) - RowCount(Before(b, c))
    /\ dropped' = dropped + RowCount(Before(b, c))
    /\ lost' = lost \cup RowsIn(Before(b, c))

(* Mutant: a failed batch is logged and thrown away. *)
RequeueNothing(b) == UNCHANGED <<retry, retryRows, dropped, lost>>

(* _requeue: count the attempt; a batch out of attempts is dropped, any    *)
(* other is appended and, while the list holds more than MaxPending rows,  *)
(* its oldest batch is dropped, never the last one.                        *)
Requeue(b) ==
    \/ b.attempts + 1 >= MaxAttempts /\ GiveUp(b)
    \/ /\ b.attempts + 1 < MaxAttempts
       /\ \E c \in 1..Len(Longer(b)) :
             Fits(b, c) /\ (\A i \in 1..(c - 1) : ~ Fits(b, i)) /\ KeepFrom(b, c)

InsertOk(t) ==
    /\ Writing(t)
    /\ Insertable(Head(hand[t]))
    /\ db' = Stored(Head(hand[t]))
    /\ Release(t)
    /\ UNCHANGED <<bufVars, envVars, running, left, req, accepted, lost>>

InsertFail(t) ==
    /\ Writing(t)
    /\ ~ Insertable(Head(hand[t]))
    /\ Requeue(Head(hand[t]))
    /\ Release(t)
    /\ UNCHANGED <<queue, envVars, running, left, req, db, accepted>>

(* The commit takes effect but its answer is lost: _insert returns False   *)
(* for rows that are stored.                                               *)
InsertUnsure(t) ==
    /\ DbFaults
    /\ Writing(t)
    /\ Insertable(Head(hand[t]))
    /\ db' = Stored(Head(hand[t]))
    /\ Requeue(Head(hand[t]))
    /\ Release(t)
    /\ UNCHANGED <<queue, envVars, running, left, req, accepted>>

-----------------------------------------------------------------------------
(* stop() *)

(* stop() is called when the lifespan ends; uvicorn has drained the        *)
(* requests by then.                                                       *)
StopBegin ==
    /\ pc[Stopper] = "serving"
    /\ \A t \in Requests : pc[t] = "idle"
    /\ running' = FALSE
    /\ pc' = [pc EXCEPT ![Stopper] = "join"]
    /\ UNCHANGED <<bufVars, envVars, left, req, hand, db, accepted, lost>>

(* join(timeout=10) returns when the flusher has ended or the time is up,  *)
(* so the flusher may still be writing.  stop() then calls _flush.         *)
Join ==
    /\ pc[Stopper] = "join"
    /\ pc' = [pc EXCEPT ![Stopper] = "retry"]
    /\ UNCHANGED <<bufVars, envVars, running, left, req, hand, db, accepted, lost>>

(* left = self.pending_rows(), logged as the rows that are gone; then the  *)
(* process ends and takes every thread with it (the flusher is a daemon    *)
(* thread), whatever it holds.                                             *)
Report ==
    /\ pc[Stopper] = "report"
    /\ left' = PendingRows
    /\ pc' = [t \in Threads |-> IF pc[t] = "dead" THEN "dead" ELSE "done"]
    /\ UNCHANGED <<bufVars, envVars, running, req, hand, db, accepted, lost>>

-----------------------------------------------------------------------------
(* The environment *)

DbDown ==
    /\ DbFaults /\ dbUp
    /\ dbUp' = FALSE
    /\ UNCHANGED <<bufVars, running, left, pc, req, hand, db, registered, accepted, lost>>

DbRestored ==
    /\ ~ dbUp
    /\ dbUp' = TRUE
    /\ UNCHANGED <<bufVars, running, left, pc, req, hand, db, registered, accepted, lost>>

(* DELETE /devices/{id}: the device and, by ON DELETE CASCADE, its logs. *)
DeleteDevice(d) ==
    /\ d \in registered
    /\ dbUp
    /\ registered' = registered \ {d}
    /\ db' = [k \in Keys |-> IF \E r \in Rows : Key[r] = k /\ Owner[r] = d
                             THEN 0 ELSE db[k]]
    /\ UNCHANGED <<bufVars, running, left, pc, req, hand, dbUp, accepted, lost>>

-----------------------------------------------------------------------------
Init ==
    /\ queue = {} /\ retry = <<>> /\ retryRows = 0 /\ dropped = 0
    /\ running = TRUE /\ left = 0
    /\ pc = [t \in Threads |-> CASE t = Flusher -> "loop"
                                 [] t = Stopper -> "serving"
                                 [] OTHER -> "idle"]
    /\ req = [t \in Requests |-> {}]
    /\ hand = [t \in Threads |-> <<>>]
    /\ db = [k \in Keys |-> 0]
    /\ dbUp = TRUE /\ registered = Devices
    /\ accepted = {} /\ lost = {}

Insert(t) == InsertOk(t) \/ InsertFail(t) \/ InsertUnsure(t)

Next ==
    \/ \E t \in Requests :
          \/ \E d \in Devices : \E rows \in SUBSET Rows : Admit(t, d, rows)
          \/ Add(t)
    \/ LoopTop
    \/ \E t \in {Flusher, Stopper} :
          \/ \E due \in SUBSET DOMAIN retry : TakeDue(t, due)
          \/ TakeQueue(t)
    \/ \E t \in Threads : Insert(t)
    \/ StopBegin \/ Join \/ Report
    \/ DbDown \/ DbRestored
    \/ \E d \in Devices : DeleteDevice(d)

(* A thread that can go on does; a waiting batch's backoff ends and some   *)
(* later flush finds it due.  Requests, stop(), faults and deletions are   *)
(* the environment's and need not happen.                                  *)
Fairness ==
    /\ WF_vars(LoopTop)
    /\ \A t \in Requests : WF_vars(Add(t))
    /\ \A t \in Threads : WF_vars(Insert(t))
    /\ \A t \in {Flusher, Stopper} :
          /\ WF_vars(\E due \in SUBSET DOMAIN retry : TakeDue(t, due))
          /\ WF_vars(TakeQueue(t))
    /\ \A r \in Rows : SF_vars(\E due \in SUBSET DOMAIN retry :
                                  TakeDue(Flusher, due) /\ r \in RowsIn(hand'[Flusher]))
    /\ WF_vars((Join \/ Report))

Spec == Init /\ [][Next]_vars
FairSpec == Spec /\ Fairness

-----------------------------------------------------------------------------
(* Properties *)

ThreadPc ==
    {"idle", "add", "write", "loop", "retry", "retrying", "take", "dead",
     "serving", "join", "force", "forcing", "report", "done"}

TypeOK ==
    /\ queue \subseteq Rows
    /\ retry \in Seq(Batch)
    /\ retryRows \in Nat
    /\ dropped \in Nat
    /\ running \in BOOLEAN
    /\ left \in Nat
    /\ pc \in [Threads -> ThreadPc]
    /\ req \in [Requests -> SUBSET Rows]
    /\ hand \in [Threads -> Seq(Batch)]
    /\ db \in [Keys -> Nat]
    /\ dbUp \in BOOLEAN
    /\ registered \subseteq Devices
    /\ accepted \subseteq Rows
    /\ lost \subseteq Rows

(* The rows the process has in memory. *)
Held == queue \cup RowsIn(retry) \cup UNION {RowsIn(hand[t]) : t \in Threads}

DisjointBatches(batches) ==
    \A i, j \in DOMAIN batches :
        i # j => batches[i].rows \cap batches[j].rows = {}

(* No row is in two places: the queue, the retry list and the hands of the *)
(* threads never share a row, whatever the order in which request threads, *)
(* the flusher and stop() take rows out (`self._queue[:]` then clear() in  *)
(* one lock block), and a row that _drop gave up is held by nobody.        *)
Ownership ==
    /\ queue \cap RowsIn(retry) = {}
    /\ DisjointBatches(retry)
    /\ \A t \in Threads :
          /\ DisjointBatches(hand[t])
          /\ RowsIn(hand[t]) \cap (queue \cup RowsIn(retry)) = {}
          /\ \A u \in Threads \ {t} : RowsIn(hand[t]) \cap RowsIn(hand[u]) = {}
    /\ lost \cap Held = {}

(* The counters kept beside the lists stay exact across every interleaving:*)
(* _retry_rows is the number of rows in _retry (pending_rows and the 503   *)
(* answer depend on it) and _dropped the number of rows given up.          *)
Accounting ==
    /\ retryRows = RowCount(retry)
    /\ dropped = Cardinality(lost)

(* No silent loss: every row add() has taken is in memory, stored, counted *)
(* as dropped, or belongs to a device that was deleted since.              *)
Conservation ==
    \A r \in accepted : \/ r \in Held
                        \/ r \in lost
                        \/ db[Key[r]] > 0
                        \/ Owner[r] \notin registered

(* The most rows one batch can hold: a queue just short of MaxSize and one *)
(* request.                                                                *)
BatchLimit == MaxSize - 1 + MaxBatch

(* Memory is bounded: the queue stays short of max_size outside the lock,  *)
(* the retry list holds at most max_pending rows or one batch, and a batch *)
(* is never larger than BatchLimit, however often it is requeued.          *)
BufferBounded ==
    /\ Cardinality(queue) < MaxSize
    /\ retryRows <= MaxPending \/ Len(retry) = 1
    /\ \A i \in DOMAIN retry : Cardinality(retry[i].rows) <= BatchLimit
    /\ \A t \in Threads : \A i \in DOMAIN hand[t] :
          Cardinality(hand[t][i].rows) <= BatchLimit

(* The inductive invariant: the three facts above need each other, the     *)
(* fact that a request brings rows the buffer has never taken, and that a  *)
(* thread takes rows out only with empty hands.                            *)
Fresh ==
    /\ Held \subseteq accepted
    /\ lost \subseteq accepted
    /\ \A t \in Requests :
          /\ req[t] \cap accepted = {}
          /\ \A u \in Requests \ {t} : req[t] \cap req[u] = {}

EmptyHands ==
    \A t \in Threads :
        pc[t] \notin {"write", "retrying", "forcing", "done"} => hand[t] = <<>>

IInv == TypeOK /\ Ownership /\ Accounting /\ Conservation /\ Fresh /\ EmptyHands

(* When the flusher ended within stop()'s join, the number stop() logs as  *)
(* not written is the number of accepted rows that die with the process.   *)
ExitReport ==
    pc[Stopper] = "done" /\ pc[Flusher] = "dead" => left = Cardinality(Held)

(* Nothing waits for ever: an accepted row is eventually stored or counted *)
(* as dropped, even when the database never comes back (the attempt limit),*)
(* unless its device is deleted or the process ends first.                 *)
Settles ==
    \A r \in Rows :
        r \in accepted ~> \/ db[Key[r]] > 0
                          \/ r \in lost
                          \/ Owner[r] \notin registered
                          \/ pc[Stopper] = "done"

-----------------------------------------------------------------------------
(* The buffer implements Delivery: behind the threads and lists, what it   *)
(* holds is Held, what is stored are the keys with a row in ftp_logs and   *)
(* what it reports is _dropped.                                            *)
StoredKeys == {k \in Keys : db[k] > 0}

Promise == INSTANCE Delivery WITH held <- Held, stored <- StoredKeys,
                                  reported <- dropped

(* Every step of the buffer is a step of Delivery or invisible to it: a    *)
(* row changes from accepted to stored or to given up and counted, at once *)
(* with what the database and the counter say, and in no other way.        *)
Delivers == Promise!Spec
=============================================================================
