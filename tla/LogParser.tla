----------------------------- MODULE LogParser -----------------------------
(***************************************************************************)
(* What becomes of proftpd's log lines (ftp-daemon/soltrace_daemon.py:     *)
(* parse_extended_log and parse_transfer_log with the memory they keep of  *)
(* USER and RNFR, as the sender thread uses them; soltrace_bulk.py, which  *)
(* imports a finished log once more).                                      *)
(*                                                                         *)
(* The lines of both logs are one sequence here: transfer-log lines need   *)
(* no memory and both positions are committed and rolled back together.  A *)
(* line that is not well-formed makes no entry and is left out, and so is  *)
(* skip_login_logout.  The disk buffer counts as delivered: Daemon shows   *)
(* what happens to it.  The database keeps one row of equal entries        *)
(* (row_hash).                                                             *)
(***************************************************************************)
EXTENDS Integers, Sequences, FiniteSets, Functions, Selection

CONSTANTS
    Pids,            \* process ids of FTP sessions, used again and again
    Accounts,        \* what clients send with USER
    Files,           \* what clients send with RNFR
    Outcomes,        \* what may become of a transfer
    Simple,          \* other commands with their reply codes: <<command, code>>
    MaxSessions,     \* _MAX_SESSIONS
    MaxLinesPerPoll, \* MAX_LINES_PER_POLL
    BatchSize,       \* of the bulk import
    MaxLines,        \* bound on the lines
    MaxUpsets,       \* bound on restarts, expirations and disabled polls
    Nothing

ASSUME ParserAssumption ==
    /\ MaxSessions \in Nat \ {0, 1}
    /\ {MaxLinesPerPoll, BatchSize, MaxLines} \subseteq Nat \ {0}
    /\ MaxUpsets \in Nat
    /\ Outcomes \subseteq {"done", "aborted", "refused", "missing", "malformed", "anonymous"}
    /\ Nothing \notin Accounts \cup Files \cup {"user", "failed", "in", "rnfr"}

VARIABLES
    log,       \* the lines written
    session,   \* session[p]: the open FTP session with pid p, or Nothing
    committed, \* the position up to which the daemon has committed
    memory,    \* [user, rnfr]: _user_sessions and _rnfr_sessions of the daemon
    db,        \* entries at the WAS
    bulk,      \* the bulk import
    upsets,    \* how often the daemon was restarted or disabled, or something expired
    forgot,    \* history: pids of which something was dropped from the memory
    undone     \* history: pids whose memory a poll had used before it was rolled back

parserVars == <<log, session, committed, memory, db, bulk, upsets, forgot, undone>>

-----------------------------------------------------------------------------
(* The memory of a session, in the order of a dict: a pid that is already  *)
(* in it keeps its place.                                                  *)

Pids_of(store) == {store[i].pid : i \in DOMAIN store}
Recall(store, p) == IF p \in Pids_of(store)
                    THEN (CHOOSE e \in {store[i] : i \in DOMAIN store} : e.pid = p).val ELSE Nothing
Drop(store, p) == Pick(store, {i \in DOMAIN store : store[i].pid # p})

(* Mutant: the memory is never cut. *)
RememberAll(store, p, v) ==
    IF p \in Pids_of(store)
    THEN [i \in DOMAIN store |-> IF store[i].pid = p THEN [pid |-> p, val |-> v] ELSE store[i]]
    ELSE Append(store, [pid |-> p, val |-> v])

(* Mutant: what is known of the pid stays. *)
RememberFirst(store, p, v) ==
    LET new == IF p \in Pids_of(store) THEN store ELSE Append(store, [pid |-> p, val |-> v])
    IN IF Len(new) <= MaxSessions THEN new
       ELSE SubSeq(new, Len(new) - (MaxSessions \div 2) + 1, Len(new))

(* _remember *)
Remember(store, p, v) ==
    LET new == IF p \in Pids_of(store)
               THEN [i \in DOMAIN store |-> IF store[i].pid = p THEN [pid |-> p, val |-> v] ELSE store[i]]
               ELSE Append(store, [pid |-> p, val |-> v])
    IN IF Len(new) <= MaxSessions THEN new
       ELSE SubSeq(new, Len(new) - (MaxSessions \div 2) + 1, Len(new))

NoMemory == [user |-> <<>>, rnfr |-> <<>>]

-----------------------------------------------------------------------------
(* A line; ev numbers the event it tells of and is not seen by the parser. *)

Entry(line, action, val) ==
    [ev |-> line.ev, src |-> line.cmd, pid |-> line.pid, action |-> action, val |-> val]

(* parse_transfer_log *)
ParseTransfer(line) == {Entry(line, IF line.code = "c" THEN "transfer" ELSE "transfer_fail", Nothing)}

(* Mutant: 426 is taken for a refusal like the others. *)
RefusedToo(line) ==
    IF line.code \in {"226", "anonymous", "missing"} THEN {}
    ELSE {Entry(line, IF line.code = "malformed" THEN "client_error" ELSE "transfer_fail", Nothing)}

(* RETR or STOR with a code of 400 or more.  A transfer that was cut off   *)
(* (426) is in the transfer log; nobody logged in, or a RETR of a file     *)
(* that does not exist, is noise; a request without a file name or of      *)
(* wrong syntax is the client's error.                                     *)
Refused(line) ==
    IF line.code \in {"226", "426", "anonymous", "missing"} THEN {}
    ELSE {Entry(line, IF line.code = "malformed" THEN "client_error" ELSE "transfer_fail", Nothing)}

SimpleActions == [mkdir |-> <<"MKD", 257>>, rmdir |-> <<"RMD", 250>>, cwd_fail |-> <<"CWD", 550>>]

AccountOf(mem, line) == Recall(mem.user, line.pid)

(* parse_extended_log: the memory after the line. *)
Learn(mem, line) ==
    CASE line.cmd = "USER" -> [mem EXCEPT !.user = Remember(@, line.pid, line.val)]
      [] line.cmd \in {"PASS", "QUIT"} -> [mem EXCEPT !.user = Drop(@, line.pid)]
      [] line.cmd = "RNFR" -> [mem EXCEPT !.rnfr = Remember(@, line.pid, line.val)]
      [] line.cmd = "RNTO" /\ line.code = "250" -> [mem EXCEPT !.rnfr = Drop(@, line.pid)]
      [] OTHER -> mem

(* The entry it makes of the line, if any. *)
Parse(mem, line) ==
    CASE line.cmd = "PASS" /\ line.code = "230" -> {Entry(line, "login", Nothing)}
      [] line.cmd = "PASS" /\ line.code = "530" /\ AccountOf(mem, line) # Nothing ->
            {Entry(line, "login_fail", AccountOf(mem, line))}
      [] line.cmd = "QUIT" -> {Entry(line, "logout", Nothing)}
      [] line.cmd = "RNTO" /\ line.code = "250" -> {Entry(line, "rename", Recall(mem.rnfr, line.pid))}
      [] line.cmd = "TRANSFER" -> Refused(line)
      [] line.cmd = "XFERLOG" -> ParseTransfer(line)
      [] line.cmd = "SIMPLE" -> {Entry(line, a, Nothing) : a \in {x \in DOMAIN SimpleActions : SimpleActions[x] = line.code}}
      [] OTHER -> {}

(* Pids that the line pushes out of the memory. *)
Cut(mem, line) ==
    IF line.cmd = "USER" THEN Pids_of(mem.user) \ Pids_of(Learn(mem, line).user)
    ELSE IF line.cmd = "RNFR" THEN Pids_of(mem.rnfr) \ Pids_of(Learn(mem, line).rnfr)
    ELSE {}

(* The parser over some lines: its memory after the first i of them, and   *)
(* what comes of all.                                                      *)
Memories(mem, lines) ==
    LET m[i \in 0..Len(lines)] == IF i = 0 THEN mem ELSE Learn(m[i - 1], lines[i])
    IN m

ParseAll(mem, lines) ==
    LET m == Memories(mem, lines)
    IN [mem |-> m[Len(lines)],
        entries |-> UNION {Parse(m[i - 1], lines[i]) : i \in DOMAIN lines},
        cut |-> UNION {Cut(m[i - 1], lines[i]) : i \in DOMAIN lines}]

-----------------------------------------------------------------------------
(* proftpd *)

Write(lines) ==
    /\ Len(log) + Len(lines) <= MaxLines
    /\ log' = log \o lines
    /\ UNCHANGED <<committed, memory, db, bulk, upsets, forgot, undone>>

Line(p, cmd, code, val) == [ev |-> Len(log) + 1, pid |-> p, cmd |-> cmd, code |-> code, val |-> val]

(* Another attempt of the session, or a new session with the pid of one   *)
(* that ended, with or without a word.                                     *)
User(p, a) ==
    /\ Write(<<Line(p, "USER", "331", a)>>)
    /\ session' = [session EXCEPT ![p] = "user"]

Pass(p, code) ==
    /\ session[p] = "user"
    /\ Write(<<Line(p, "PASS", code, Nothing)>>)
    /\ session' = [session EXCEPT ![p] = IF code = "230" THEN "in" ELSE "failed"]

Quit(p) ==
    /\ session[p] # Nothing
    /\ Write(<<Line(p, "QUIT", "221", Nothing)>>)
    /\ session' = [session EXCEPT ![p] = Nothing]

RenameFrom(p, f) ==
    /\ session[p] \in {"in", "rnfr"}
    /\ Write(<<Line(p, "RNFR", "350", f)>>)
    /\ session' = [session EXCEPT ![p] = "rnfr"]

RenameTo(p, code) ==
    /\ session[p] = "rnfr"
    /\ Write(<<Line(p, "RNTO", code, Nothing)>>)
    /\ session' = [session EXCEPT ![p] = "in"]

(* A transfer that began is in both logs. *)
Transfer(p, o) ==
    /\ session[p] = (IF o = "anonymous" THEN "failed" ELSE "in")
    /\ LET ext(code) == Line(p, "TRANSFER", code, Nothing)
           xfer(code) == Line(p, "XFERLOG", code, Nothing)
       IN Write(CASE o = "done" -> <<ext("226"), xfer("c")>>
                  [] o = "aborted" -> <<ext("426"), xfer("i")>>
                  [] OTHER -> <<ext(o)>>)
    /\ UNCHANGED session

OtherCommand(p, c) ==
    /\ session[p] = "in"
    /\ Write(<<Line(p, "SIMPLE", c, Nothing)>>)
    /\ UNCHANGED session

-----------------------------------------------------------------------------
(* The daemon's sender thread: one poll *)

PollEnd == IF committed + MaxLinesPerPoll < Len(log) THEN committed + MaxLinesPerPoll ELSE Len(log)
PolledLines == SubSeq(log, committed + 1, PollEnd)
Result == ParseAll(memory, PolledLines)

(* The entries are sent, or go to the disk buffer: commit or advance. *)
PollCommitted ==
    /\ Result.entries # {}
    /\ db' = db \cup Result.entries
    /\ memory' = Result.mem
    /\ forgot' = forgot \cup Result.cut
    /\ committed' = committed + Len(PolledLines)
    /\ UNCHANGED <<log, session, bulk, upsets, undone>>

(* No entry, no commit: the lines are read again. *)
PollEmpty ==
    /\ PolledLines # <<>> /\ Result.entries = {}
    /\ memory' = Result.mem
    /\ forgot' = forgot \cup Result.cut
    /\ UNCHANGED <<log, session, committed, db, bulk, upsets, undone>>

(* The device is disabled: rollback, and the lines are read again.  What   *)
(* the parser has learnt and what it has taken from its memory stays so.   *)
PollDisabled ==
    /\ Result.entries # {} /\ upsets < MaxUpsets
    /\ memory' = Result.mem
    /\ forgot' = forgot \cup Result.cut
    /\ undone' = undone \cup {l.pid : l \in {x \in Range(PolledLines) : x.cmd \in {"PASS", "QUIT", "RNTO"}}}
    /\ upsets' = upsets + 1
    /\ UNCHANGED <<log, session, committed, db, bulk>>

(* _flush_stale_sessions *)
Expire(p) ==
    /\ p \in Pids_of(memory.user) \cup Pids_of(memory.rnfr) /\ upsets < MaxUpsets
    /\ memory' = [user |-> Drop(memory.user, p), rnfr |-> Drop(memory.rnfr, p)]
    /\ forgot' = forgot \cup {p}
    /\ upsets' = upsets + 1
    /\ UNCHANGED <<log, session, committed, db, bulk, undone>>

(* The daemon ends, in whatever way, and starts again. *)
Restart ==
    /\ upsets < MaxUpsets
    /\ memory' = NoMemory
    /\ forgot' = forgot \cup Pids_of(memory.user) \cup Pids_of(memory.rnfr)
    /\ upsets' = upsets + 1
    /\ UNCHANGED <<log, session, committed, db, bulk, undone>>

-----------------------------------------------------------------------------
(* soltrace_bulk.py, on a log that is complete.  Neither it nor the daemon *)
(* reads what the other has written, so that it may as well begin when the *)
(* daemon has told what it can: that only bounds the interleavings.        *)

BulkMayRead == Len(log) = MaxLines /\ (bulk.at > 0 \/ Result.entries = {})

BulkRead ==
    LET line == log[bulk.at + 1]
        made == Parse(bulk.mem, line)
    IN /\ BulkMayRead /\ bulk.at < Len(log) /\ Cardinality(bulk.batch) < BatchSize
       /\ bulk' = [bulk EXCEPT !.at = @ + 1, !.mem = Learn(@, line),
                               !.batch = @ \cup made, !.cut = @ \cup Cut(bulk.mem, line)]
       /\ UNCHANGED <<log, session, committed, memory, db, upsets, forgot, undone>>

(* flush_batch: one retry, then the batch is counted as failed and         *)
(* dropped, also when it has arrived and the answers were lost.            *)
Flushed(b, result) ==
    [b EXCEPT !.batch = {}, !.failed = IF result = "sent" THEN @ ELSE @ + Cardinality(b.batch)]

SendBatch(result) == db' = IF result = "lost" THEN db ELSE db \cup bulk.batch

BulkFlush(result) ==
    /\ Cardinality(bulk.batch) = BatchSize
    /\ SendBatch(result)
    /\ bulk' = Flushed(bulk, result)
    /\ UNCHANGED <<log, session, committed, memory, upsets, forgot, undone>>

(* Mutant: the last batch is not sent unless it is full. *)
BulkEndUnsent(result) ==
    /\ bulk.at = MaxLines /\ ~ bulk.done /\ Cardinality(bulk.batch) < BatchSize
    /\ bulk' = [bulk EXCEPT !.done = TRUE]
    /\ UNCHANGED <<log, session, committed, memory, db, upsets, forgot, undone>>

(* What is left is sent, and run_bulk returns. *)
BulkEnd(result) ==
    /\ bulk.at = MaxLines /\ ~ bulk.done /\ Cardinality(bulk.batch) < BatchSize
    /\ SendBatch(result)
    /\ bulk' = [Flushed(bulk, result) EXCEPT !.done = TRUE]
    /\ UNCHANGED <<log, session, committed, memory, upsets, forgot, undone>>

-----------------------------------------------------------------------------
ParserInit ==
    /\ log = <<>> /\ session = [p \in Pids |-> Nothing]
    /\ committed = 0 /\ memory = NoMemory /\ db = {}
    /\ bulk = [at |-> 0, mem |-> NoMemory, batch |-> {}, failed |-> 0, cut |-> {}, done |-> FALSE]
    /\ upsets = 0 /\ forgot = {} /\ undone = {}

ParserNext ==
    \/ \E p \in Pids :
        \/ \E a \in Accounts : User(p, a)
        \/ \E code \in {"230", "530"} : Pass(p, code)
        \/ Quit(p)
        \/ \E f \in Files : RenameFrom(p, f)
        \/ \E code \in {"250", "553"} : RenameTo(p, code)
        \/ \E o \in Outcomes : Transfer(p, o)
        \/ \E c \in Simple : OtherCommand(p, c)
        \/ Expire(p)
    \/ PollCommitted \/ PollEmpty \/ PollDisabled \/ Restart
    \/ BulkRead \/ \E result \in {"sent", "unanswered", "lost"} : BulkFlush(result) \/ BulkEnd(result)

ParserSpec == ParserInit /\ [][ParserNext]_parserVars

-----------------------------------------------------------------------------
(* Properties *)

StoreOK(store) ==
    /\ Len(store) <= MaxSessions
    /\ \A i, j \in DOMAIN store : store[i].pid = store[j].pid => i = j

ParserTypeOK ==
    /\ Len(log) <= MaxLines /\ committed \in 0..Len(log) /\ bulk.at \in 0..Len(log)
    /\ \A p \in Pids : session[p] \in {Nothing, "user", "failed", "in", "rnfr"}
    /\ \A mem \in {memory, bulk.mem} : StoreOK(mem.user) /\ StoreOK(mem.rnfr)
    /\ upsets \in 0..MaxUpsets /\ forgot \subseteq Pids /\ undone \subseteq Pids
    /\ Cardinality(bulk.batch) <= BatchSize

(* What the client of this session last sent before line n. *)
Latest(lines, n, cmd) ==
    LET before == {k \in 1..(n - 1) : lines[k].pid = lines[n].pid /\ lines[k].cmd = cmd}
    IN IF before = {} THEN <<>>
       ELSE <<[pid |-> lines[n].pid, val |-> lines[CHOOSE k \in before : \A x \in before : x <= k].val]>>

(* The entry of line n, seen with the whole log at hand. *)
Expected(lines, n) == Parse([user |-> Latest(lines, n, "USER"), rnfr |-> Latest(lines, n, "RNFR")], lines[n])

(* A failed login is told under the account that its own session tried, a  *)
(* rename with the path its own session named or with none: never under    *)
(* those of another session or attempt, although pids are used again,      *)
(* sessions break off and lines are read twice - unless the daemon had     *)
(* forgotten what it knew of the pid, or a poll that was rolled back had   *)
(* used it: then the next account tried on the pid, learnt in the first    *)
(* reading, is blamed in the second.                                       *)
NamesAreOwn ==
    \A e \in db : e.action \in {"login_fail", "rename"} /\ e.pid \notin forgot \cup undone =>
        \E n \in DOMAIN log : log[n].ev = e.ev /\ \E x \in Expected(log, n) : e.val \in {x.val, Nothing}

(* Everything that is read is told, and told once: committed lines have    *)
(* their entries, and no event has two, though a transfer may be in both   *)
(* logs and both the daemon and the bulk import tell it - except for pids  *)
(* whose memory was dropped or used by a poll that was rolled back.        *)
ToldOnce ==
    LET sound == Pids \ (forgot \cup undone \cup bulk.cut) IN
    /\ \A n \in 1..committed : log[n].pid \in sound => Expected(log, n) \subseteq db
    /\ \A d, e \in db : d.ev = e.ev /\ d.pid \in sound => d = e

(* A bulk import that reports no failure completes what the daemon told:   *)
(* every line of the log has its entry, whatever the daemon had lost.      *)
BulkCompletes ==
    bulk.done /\ bulk.failed = 0 =>
        \A n \in DOMAIN log : log[n].pid \notin bulk.cut => Expected(log, n) \subseteq db
=============================================================================
