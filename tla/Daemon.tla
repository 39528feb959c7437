------------------------------- MODULE Daemon -------------------------------
(***************************************************************************)
(* The log path of the device daemon (ftp-daemon/soltrace_daemon.py): two  *)
(* FileTailers, the DiskBuffer, WasClient.send_logs, the sender thread,    *)
(* the heartbeat thread as far as it can shut the daemon down, and         *)
(* start().  The WAS is the environment: it answers a chunk with 200, 403, *)
(* 401/404, an error, or takes it and loses the answer.                    *)
(*                                                                         *)
(* A line is a number; a Noise line is one the parser makes no entry of    *)
(* (or skip_login_logout filters out).  Positions count complete lines: a  *)
(* half-written last line is not part of the file yet, as poll() leaves it *)
(* for later.  Times (poll interval, backoff, retry delay) are abstracted: *)
(* a step may be delayed at will.                                          *)
(*                                                                         *)
(* Durable: the log files, the saved positions, the disk buffer.  The rest *)
(* dies with the process.                                                  *)
(***************************************************************************)
EXTENDS Integers, Sequences, FiniteSets, Functions, Selection

CONSTANTS
    Lines,     \* the lines proftpd may write, numbered in writing order
    LogOf,     \* LogOf[l]: the log file line l goes to
    Noise,     \* lines that yield no entry
    MaxPoll,   \* MAX_LINES_PER_POLL
    Chunk,     \* batch_size, at most MAX_BATCH
    BufMax,    \* max_buffer_lines
    MaxInode,  \* MaxInode[f]: bound on the files log f goes through
    Faults     \* what the environment may do

(* self.tailers: the TransferLog first, then the ExtendedLog. *)
Logs == {"transfer", "extended"}

FaultKinds == {"outage", "rotate", "disable", "remove", "signal", "crash"}

ASSUME ConstantsAssumption ==
    /\ Lines \subseteq Nat /\ IsFiniteSet(Lines)
    /\ LogOf \in [Lines -> Logs]
    /\ Noise \subseteq Lines
    /\ MaxPoll \in Nat \ {0} /\ Chunk \in Nat \ {0} /\ BufMax \in Nat \ {0}
    /\ MaxInode \in [Logs -> Nat \ {0}]
    /\ Faults \subseteq FaultKinds

None == -1
NoState == [pos |-> None, inode |-> None]

VARIABLES
    file,      \* file[f]: the complete lines of the current log file
    present,   \* present[f]: whether the log file exists
    inode,     \* inode[f]: the current file's inode (counts the files)
    saved,     \* saved[f]: the .pos state file, or NoState
    buffer,    \* buffer.jsonl
    pos,       \* FileTailer._pos
    ino,       \* FileTailer._inode
    pending,   \* FileTailer._pending_pos, or None
    pc,        \* where the sender (during start-up: the main thread) is
    batch,     \* the entries send_logs was called with
    sent,      \* how many of them are acknowledged
    running,   \* self.running
    device,    \* the device at the WAS: active, disabled or removed
    wasUp,     \* whether the WAS answers
    received,  \* lines the WAS has accepted
    written,   \* history: lines proftpd has written
    gone       \* history: gone[why]: entries that may be lost, by reason

fileVars == <<file, present, inode, written>>
tailVars == <<pos, ino, pending, saved>>
wasVars == <<device, wasUp>>
vars == <<file, present, inode, saved, buffer, pos, ino, pending, pc, batch, sent,
          running, device, wasUp, received, written, gone>>

Reasons == {"cap", "rotated", "removed", "restart", "unsaved"}

Lose(why, lines) == gone' = [gone EXCEPT ![why] = @ \cup lines]

(* The entries among lines a .. b of a log file. *)
Entries(f, a, b) == Pick(file[f], {i \in a..b : file[f][i] \notin Noise})

Sending == pc \in {"startup", "resend", "send"}

-----------------------------------------------------------------------------
(* FileTailer *)

(* poll()'s rotation test: another inode, or a file shorter than _pos. *)
Rotated(f) == inode[f] # ino[f] \/ Len(file[f]) < pos[f]

(* The position poll() reads from, once a rotation has reset it. *)
From(f) == IF present[f] /\ Rotated(f) THEN 0 ELSE pos[f]

Reads(f) == present[f] /\ Len(file[f]) > From(f)

(* The position it reads to: at most MAX_LINES_PER_POLL lines on. *)
To(f) == IF Len(file[f]) < From(f) + MaxPoll THEN Len(file[f]) ELSE From(f) + MaxPoll

Polled(f) == IF Reads(f) THEN Entries(f, From(f) + 1, To(f)) ELSE <<>>

(* Mutant: the position is saved when it is read, before the send. *)
PollSaves ==
    /\ pos' = [f \in Logs |-> From(f)]
    /\ ino' = [f \in Logs |-> IF present[f] THEN inode[f] ELSE ino[f]]
    /\ saved' = [f \in Logs |-> IF Reads(f) THEN [pos |-> To(f), inode |-> inode[f]]
                                ELSE saved[f]]
    /\ pending' = [f \in Logs |-> IF Reads(f) THEN To(f) ELSE pending[f]]

(* poll() of every tailer.  A rotation is saved at once; a poll that reads *)
(* nothing leaves _pending_pos as it was.                                  *)
PollTailers ==
    /\ pos' = [f \in Logs |-> From(f)]
    /\ ino' = [f \in Logs |-> IF present[f] THEN inode[f] ELSE ino[f]]
    /\ saved' = [f \in Logs |-> IF present[f] /\ Rotated(f)
                                THEN [pos |-> 0, inode |-> inode[f]]
                                ELSE saved[f]]
    /\ pending' = [f \in Logs |-> IF Reads(f) THEN To(f) ELSE pending[f]]

(* commit() and advance(), which do the same, of the tailers in F. *)
Advance(F) ==
    LET moved == {f \in F : pending[f] # None} IN
    /\ pos' = [f \in Logs |-> IF f \in moved THEN pending[f] ELSE pos[f]]
    /\ saved' = [f \in Logs |-> IF f \in moved
                                THEN [pos |-> pending[f], inode |-> ino[f]]
                                ELSE saved[f]]
    /\ pending' = [f \in Logs |-> IF f \in moved THEN None ELSE pending[f]]
    /\ UNCHANGED ino

(* Mutant: a rollback that moves on. *)
RollbackAdvances == Advance(Logs)

Rollback == /\ pending' = [f \in Logs |-> None]
            /\ UNCHANGED <<pos, ino, saved>>

(* Mutant: no default for a missing state file. *)
LoadStateNoDefault ==
    /\ pos' = [f \in Logs |-> saved[f].pos]
    /\ ino' = [f \in Logs |-> saved[f].inode]
    /\ pending' = [f \in Logs |-> None]
    /\ UNCHANGED saved

(* _load_state, at start-up: without a state file, from the end of the log. *)
LoadState ==
    /\ pos' = [f \in Logs |-> IF saved[f] # NoState THEN saved[f].pos
                              ELSE IF present[f] THEN Len(file[f]) ELSE 0]
    /\ ino' = [f \in Logs |-> IF saved[f] # NoState THEN saved[f].inode
                              ELSE IF present[f] THEN inode[f] ELSE None]
    /\ pending' = [f \in Logs |-> None]
    /\ UNCHANGED saved

-----------------------------------------------------------------------------
(* DiskBuffer *)

(* Mutant: one line more is cut off than was counted. *)
BufferWriteCut(entries) ==
    LET combined == buffer \o entries
        over == IF Len(combined) > BufMax THEN Len(combined) - BufMax ELSE 0
    IN  /\ buffer' = SubSeq(combined, over + 2, Len(combined))
        /\ Lose("cap", Range(SubSeq(combined, 1, over)))

(* write(): append, keep the newest max_lines, drop the rest. *)
BufferWrite(entries) ==
    LET combined == buffer \o entries
        over == IF Len(combined) > BufMax THEN Len(combined) - BufMax ELSE 0
    IN  /\ buffer' = SubSeq(combined, over + 1, Len(combined))
        /\ Lose("cap", Range(SubSeq(combined, 1, over)))

-----------------------------------------------------------------------------
(* start() and the sender loop *)

(* The process starts: the tailers load their state, then                  *)
(* _flush_startup_buffer takes the buffer left by the last run, if any.    *)
Start ==
    /\ pc = "off"
    /\ LoadState
    /\ running' = TRUE
    /\ sent' = 0
    /\ batch' = buffer
    /\ buffer' = <<>>
    /\ pc' = IF buffer = <<>> THEN "register" ELSE "startup"
    /\ Lose("unsaved", UNION {Range(file[f]) \ Noise : f \in {g \in Logs : saved[g] = NoState}})
    /\ UNCHANGED <<fileVars, wasVars, received>>

(* _register: the WAS adds a device it does not know; a failure is only    *)
(* logged.  Then the heartbeat and sender threads start.                   *)
Register ==
    /\ pc = "register"
    /\ device' = IF wasUp /\ device = "removed" THEN "active" ELSE device
    /\ pc' = "loop"
    /\ UNCHANGED <<fileVars, tailVars, buffer, batch, sent, running, wasUp, received, gone>>

(* The loop ends when running is cleared. *)
LoopEnds ==
    /\ pc = "loop" /\ ~ running
    /\ pc' = "ended"
    /\ UNCHANGED <<fileVars, tailVars, wasVars, buffer, batch, sent, running, received, gone>>

(* Mutant: the buffer is sent at start-up only. *)
TakeBufferNever == FALSE

(* The buffer is read and unlinked before it is sent again. *)
TakeBuffer ==
    /\ pc = "loop" /\ running /\ buffer # <<>>
    /\ batch' = buffer /\ buffer' = <<>> /\ sent' = 0
    /\ pc' = "resend"
    /\ UNCHANGED <<fileVars, tailVars, wasVars, running, received, gone>>

(* The log files are polled when there is no buffer, or it was resent. *)
Poll ==
    /\ pc = "poll" \/ (pc = "loop" /\ running /\ buffer = <<>>)
    /\ PollTailers
    /\ batch' = Polled("transfer") \o Polled("extended")
    /\ sent' = 0
    /\ pc' = IF batch' = <<>> THEN "loop" ELSE "send"
    /\ UNCHANGED <<fileVars, wasVars, buffer, running, received, gone>>

-----------------------------------------------------------------------------
(* send_logs: one POST per chunk *)

NextChunk == SubSeq(batch, sent + 1, IF sent + Chunk < Len(batch) THEN sent + Chunk ELSE Len(batch))

(* The WAS takes the chunk but its answer does not arrive; _post tries     *)
(* again or gives up.                                                      *)
AnswerLost ==
    /\ Sending /\ wasUp /\ device = "active" /\ "outage" \in Faults
    /\ received' = received \cup Range(NextChunk)
    /\ UNCHANGED <<fileVars, tailVars, wasVars, buffer, pc, batch, sent, running, gone>>

(* Where the caller goes after a complete send: the sender commits the     *)
(* tailers after "send" only.                                              *)
AfterSend == CASE pc = "startup" -> "register"
               [] pc = "resend" -> "poll"
               [] pc = "send" -> "commit"

ChunkOk ==
    /\ Sending /\ wasUp /\ device = "active"
    /\ received' = received \cup Range(NextChunk)
    /\ sent' = sent + Len(NextChunk)
    /\ pc' = IF sent' = Len(batch) THEN AfterSend ELSE pc
    /\ batch' = IF sent' = Len(batch) THEN <<>> ELSE batch
    /\ UNCHANGED <<fileVars, tailVars, wasVars, buffer, running, gone>>

(* A chunk failed for good: the whole batch, whatever of it was accepted,  *)
(* goes to the buffer; after "send" the tailers then advance.              *)
SendFails ==
    /\ Sending /\ "outage" \in Faults
    /\ BufferWrite(batch)
    /\ batch' = <<>>
    /\ pc' = CASE pc = "startup" -> "register"
               [] pc = "resend" -> "loop"
               [] pc = "send" -> "commit"
    /\ UNCHANGED <<fileVars, tailVars, wasVars, sent, running, received>>

(* The tailers are committed one after the other. *)
Commit(f) ==
    /\ pc = "commit"
    /\ pending[f] # None
    /\ Advance({f})
    /\ UNCHANGED <<fileVars, wasVars, buffer, pc, batch, sent, running, received, gone>>

Committed ==
    /\ pc = "commit"
    /\ \A f \in Logs : pending[f] = None
    /\ pc' = "loop"
    /\ UNCHANGED <<fileVars, tailVars, wasVars, buffer, batch, sent, running, received, gone>>

(* DeviceDisabledError: what came from the buffer goes back to it; what    *)
(* came from the logs is rolled back, to be read again.                    *)
SendDisabled ==
    /\ Sending /\ wasUp /\ device = "disabled"
    /\ IF pc = "send"
       THEN Rollback /\ UNCHANGED <<buffer, gone>>
       ELSE BufferWrite(batch) /\ UNCHANGED tailVars
    /\ batch' = <<>>
    /\ pc' = IF pc = "startup" THEN "register" ELSE "loop"
    /\ UNCHANGED <<fileVars, wasVars, sent, running, received>>

(* DeviceRemovedError: sys.exit(1) at start-up, else _safe_shutdown([]).   *)
SendRemoved ==
    /\ Sending /\ wasUp /\ device = "removed"
    /\ Lose("removed", Range(batch))
    /\ batch' = <<>>
    /\ IF pc = "startup"
       THEN pc' = "off" /\ UNCHANGED tailVars
       ELSE pc' = "ended" /\ Advance(Logs)
    /\ running' = FALSE
    /\ UNCHANGED <<fileVars, wasVars, buffer, sent, received>>

-----------------------------------------------------------------------------
(* The heartbeat thread, signals and the end of the process *)

ThreadsUp == pc \notin {"off", "startup", "register"}

(* A heartbeat is answered 404: _safe_shutdown([]) from the heartbeat      *)
(* thread, whatever the sender is doing.                                   *)
HeartbeatRemoved ==
    /\ ThreadsUp /\ running /\ wasUp /\ device = "removed"
    /\ Advance(Logs)
    /\ running' = FALSE
    /\ Lose("removed", Range(batch))
    /\ UNCHANGED <<fileVars, wasVars, buffer, pc, batch, sent, received>>

(* SIGTERM or SIGINT, once start() has installed the handler. *)
Signal ==
    /\ "signal" \in Faults
    /\ ThreadsUp /\ running
    /\ running' = FALSE
    /\ UNCHANGED <<fileVars, tailVars, wasVars, buffer, pc, batch, sent, received, gone>>

(* The process ends with the sender wherever it is: a batch that was taken *)
(* from the buffer exists nowhere else.                                    *)
ProcessEnds ==
    /\ Lose("restart", IF pc \in {"startup", "resend"} THEN Range(batch) ELSE {})
    /\ pc' = "off" /\ batch' = <<>> /\ running' = FALSE
    /\ UNCHANGED <<fileVars, tailVars, wasVars, buffer, sent, received>>

(* start() joins the sender for 15 seconds at most and exits. *)
Exit ==
    /\ ThreadsUp /\ ~ running
    /\ ProcessEnds

(* A kill or a power failure; during start-up SIGTERM is one too. *)
Crash ==
    /\ pc # "off"
    /\ "crash" \in Faults \/ ("signal" \in Faults /\ ~ ThreadsUp)
    /\ ProcessEnds

-----------------------------------------------------------------------------
(* proftpd, logrotate and the WAS *)

WriteLine(l) ==
    LET f == LogOf[l] IN
    /\ l \notin written
    /\ \A k \in Lines : k < l /\ LogOf[k] = f => k \in written
    /\ present[f]
    /\ file' = [file EXCEPT ![f] = Append(@, l)]
    /\ written' = written \cup {l}
    /\ UNCHANGED <<present, inode, tailVars, wasVars, buffer, pc, batch, sent, running,
                   received, gone>>

(* The position up to which the daemon has finished with the current file. *)
Done(f) ==
    LET at == IF pc # "off" THEN [pos |-> pos[f], inode |-> ino[f]] ELSE saved[f]
    IN  IF at.inode = inode[f] /\ at.pos <= Len(file[f]) THEN at.pos ELSE 0

Unread(f) == Range(SubSeq(file[f], Done(f) + 1, Len(file[f]))) \ Noise

(* The log file is renamed; the lines not read from it by now are out of   *)
(* the daemon's sight.                                                     *)
Rotate(f) ==
    /\ "rotate" \in Faults
    /\ present[f] /\ inode[f] < MaxInode[f]
    /\ present' = [present EXCEPT ![f] = FALSE]
    /\ file' = [file EXCEPT ![f] = <<>>]
    /\ Lose("rotated", Unread(f))
    /\ UNCHANGED <<inode, written, tailVars, wasVars, buffer, pc, batch, sent, running, received>>

Create(f) ==
    /\ ~ present[f]
    /\ present' = [present EXCEPT ![f] = TRUE]
    /\ inode' = [inode EXCEPT ![f] = @ + 1]
    /\ UNCHANGED <<file, written, tailVars, wasVars, buffer, pc, batch, sent, running, received, gone>>

WasDown ==
    /\ "outage" \in Faults /\ wasUp
    /\ wasUp' = FALSE
    /\ UNCHANGED <<fileVars, tailVars, buffer, pc, batch, sent, running, device, received, gone>>

WasRestored ==
    /\ ~ wasUp
    /\ wasUp' = TRUE
    /\ UNCHANGED <<fileVars, tailVars, buffer, pc, batch, sent, running, device, received, gone>>

(* An administrator disables, enables or deletes the device. *)
Administer(to) ==
    /\ \/ to = "disabled" /\ device = "active" /\ "disable" \in Faults
       \/ to = "active" /\ device = "disabled"
       \/ to = "removed" /\ device # "removed" /\ "remove" \in Faults
    /\ device' = to
    /\ UNCHANGED <<fileVars, tailVars, buffer, pc, batch, sent, running, wasUp, received, gone>>

-----------------------------------------------------------------------------
(* The first start of the daemon, on empty logs. *)
Init ==
    /\ file = [f \in Logs |-> <<>>]
    /\ present = [f \in Logs |-> TRUE]
    /\ inode = [f \in Logs |-> 1]
    /\ saved = [f \in Logs |-> NoState]
    /\ buffer = <<>>
    /\ pos = [f \in Logs |-> 0]
    /\ ino = [f \in Logs |-> 1]
    /\ pending = [f \in Logs |-> None]
    /\ pc = "register" /\ batch = <<>> /\ sent = 0 /\ running = TRUE
    /\ device = "active" /\ wasUp = TRUE
    /\ received = {} /\ written = {}
    /\ gone = [why \in Reasons |-> {}]

Send == ChunkOk \/ SendFails \/ SendDisabled \/ SendRemoved

Next ==
    \/ Start \/ Register \/ LoopEnds \/ TakeBuffer \/ Poll
    \/ AnswerLost \/ Send
    \/ (\E f \in Logs : Commit(f)) \/ Committed
    \/ HeartbeatRemoved \/ Signal \/ Exit \/ Crash
    \/ \E l \in Lines : WriteLine(l)
    \/ \E f \in Logs : Rotate(f) \/ Create(f)
    \/ WasDown \/ WasRestored
    \/ \E to \in {"active", "disabled", "removed"} : Administer(to)

(* The sender goes on, a stopped daemon is started, and a POST that is     *)
(* tried again and again succeeds at last, whichever chunk of the batch it *)
(* carries.                                                                *)
Fairness ==
    /\ WF_vars((Start \/ Register \/ LoopEnds \/ TakeBuffer \/ Poll))
    /\ WF_vars(Send)
    /\ WF_vars(((\E f \in Logs : Commit(f)) \/ Committed))
    /\ WF_vars(Exit)
    /\ \A n \in 0..Cardinality(Lines) : SF_vars(ChunkOk /\ sent = n)

Spec == Init /\ [][Next]_vars
FairSpec == Spec /\ Fairness

-----------------------------------------------------------------------------
(* Properties *)

TypeOK ==
    /\ file \in [Logs -> Seq(Lines)]
    /\ present \in [Logs -> BOOLEAN]
    /\ inode \in [Logs -> Nat]
    /\ saved \in [Logs -> [pos : Nat, inode : Nat \cup {None}] \cup {NoState}]
    /\ buffer \in Seq(Lines)
    /\ pos \in [Logs -> Nat]
    /\ ino \in [Logs -> Nat \cup {None}]
    /\ pending \in [Logs -> Nat \cup {None}]
    /\ pc \in {"off", "startup", "register", "loop", "resend", "poll", "send",
               "commit", "ended"}
    /\ batch \in Seq(Lines)
    /\ sent \in Nat
    /\ running \in BOOLEAN
    /\ device \in {"active", "disabled", "removed"}
    /\ wasUp \in BOOLEAN
    /\ received \subseteq Lines
    /\ written \subseteq Lines
    /\ gone \in [Reasons -> SUBSET Lines]

(* Entries that are not lost: accepted by the WAS, on disk or in memory. *)
Safe == received \cup Range(buffer) \cup Range(batch) \cup UNION {Unread(f) : f \in Logs}

(* No line is skipped: an entry proftpd wrote is with the WAS, in the      *)
(* buffer, in the batch being sent or still to be read - unless the buffer *)
(* cap dropped it, its file was rotated before it was read, the device was *)
(* removed, the process ended with the buffer in memory, or it started     *)
(* with no saved position.  Whatever the order of sends, failures,         *)
(* rollbacks, commits of one tailer of two, crashes and restarts.          *)
Conservation == written \ Noise \subseteq Safe \cup UNION {gone[why] : why \in Reasons}

(* A saved position never runs ahead of the entries: what lies before it   *)
(* is with the WAS or in the buffer, on disk or just taken from it, so a   *)
(* restart from the saved position misses nothing the buffer does not      *)
(* hold.                                                                   *)
SavedIsSafe ==
    \A f \in Logs :
        present[f] /\ saved[f].inode = inode[f] =>
            /\ saved[f].pos <= Len(file[f])
            /\ Range(SubSeq(file[f], 1, saved[f].pos)) \ Noise
                \subseteq received \cup Range(buffer) \cup Range(batch)
                          \cup UNION {gone[why] : why \in Reasons}

(* Once the WAS stays up, the device enabled and the daemon running, every *)
(* entry written before or since reaches the WAS, although answers still   *)
(* get lost and sends fail, unless it was lost for a reason.               *)
Delivered ==
    <>[](wasUp /\ device = "active" /\ running) =>
    \A l \in Lines \ Noise :
        l \in written ~> (l \in received \/ \E why \in Reasons : l \in gone[why])
=============================================================================
