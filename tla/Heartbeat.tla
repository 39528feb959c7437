----------------------------- MODULE Heartbeat ------------------------------
(***************************************************************************)
(* What the WAS knows of a daemon, and how it makes the daemon update      *)
(* itself: registration, the heartbeat with the fields that changed, the   *)
(* last report of a daemon that stops (ftp-daemon/soltrace_daemon.py), the *)
(* device row that stores them (was/app/routers/ingest.py), the update     *)
(* flag, and the _self_update threads with the files they replace.         *)
(*                                                                         *)
(* Four fields stand for the kinds _collect_status tells apart: "version"  *)
(* never changes in a process, "status" is a string, "error" may be None,  *)
(* "queue" is a counter with a threshold that must not stick at a value    *)
(* when it goes to or from 0.  The request an attempt sends may be lost,   *)
(* its answer may be lost, and a request the daemon no longer waits for    *)
(* may still be handled later.  Times are abstracted.                      *)
(***************************************************************************)
EXTENDS Integers, FiniteSets

CONSTANTS
    RetryMax,   \* retry_max: attempts of one _post
    QueueMax,   \* bound on queue_size
    Threshold,  \* the change of queue_size that is reported at once
    Files,      \* how many files an update replaces, the daemon's code being 2
    MaxLate,    \* bound on requests handled after the daemon gave up on them
    MaxUpd,     \* bound on the _self_update threads
    MaxEvents,  \* bound on faults and on changes of the values reported
    Versions,   \* the versions that are published, 1 .. Versions
    Null        \* None

ASSUME ConstantsAssumption ==
    /\ RetryMax \in Nat \ {0} /\ QueueMax \in Nat /\ Threshold \in Nat \ {0}
    /\ Files \in Nat \ {0, 1} /\ MaxLate \in Nat /\ MaxUpd \in Nat \ {0}
    /\ Versions \in Nat \ {0} /\ MaxEvents \in Nat

VARIABLES
    main,      \* start(): off, register, run, stop, stopping, exit; failed: not restarted
    running,   \* self.running
    code,      \* self._exit_code
    cur,       \* the fields' current values
    prev,      \* self._prev_status_sent; Null is a key that is not there
    seen,      \* history: what the last _collect_status read
    hbAlive,   \* whether the heartbeat thread lives
    call,      \* call[t]: the _post thread t is in, or Idle
    late,      \* requests given up by the daemon that the WAS still handles
    row,       \* the device row's fields, or NoRow
    flag,      \* Device.update_requested
    latest,    \* the version update_url serves
    disk,      \* disk[i]: the version of file i in BASE_DIR
    tmp,       \* tmp[i]: the version in file i's .tmp, or Null
    upd,       \* upd[u]: where _self_update thread u is
    unsure,    \* history: fields whose report was lost, late or overtaken
    forgone,   \* history: why an update did not come about
    events     \* faults and changes so far

daemonVars == <<main, running, code>>
statusVars == <<cur, prev, seen>>
wasVars == <<row, flag>>
fileVars == <<latest, disk, tmp, upd>>
sysVars == <<main, running, code, cur, prev, seen, hbAlive, call, late, row, flag, latest,
             disk, tmp, upd, unsure, forgone>>
vars == <<main, running, code, cur, prev, seen, hbAlive, call, late, row, flag, latest,
          disk, tmp, upd, unsure, forgone, events>>

Threads == {"main", "hb"}
Fields == {"version", "status", "error", "queue"}
Updaters == 1..MaxUpd
CodeFile == 2

Idle == [kind |-> "idle", body |-> <<>>, tries |-> 0, at |-> "idle"]
NoRow == <<>>
NotUpdating == [pc |-> "idle", i |-> 0]

Unreported == [f \in Fields |-> Null]
Fresh(ver) == [version |-> ver, status |-> "running", error |-> Null, queue |-> 0]
Carries(body, f) == f \in DOMAIN body
Active == {u \in Updaters : upd[u].pc # "idle"}

-----------------------------------------------------------------------------
(* _collect_status *)

Distance(a, b) == IF a < b THEN b - a ELSE a - b

(* The fields worth sending: a string that differs from what was sent, a   *)
(* counter that has moved by the threshold or to or from 0.                *)
Dirty(f) ==
    IF f # "queue" THEN cur[f] # prev[f]
    ELSE \/ prev[f] = Null
         \/ Distance(cur[f], prev[f]) >= Threshold
         \/ (cur[f] = 0) # (prev[f] = 0)

Changes == [f \in {g \in Fields : Dirty(g)} |-> cur[f]]

(* Calling _post: the request is on its way.  A report that overlaps one   *)
(* of the other thread, or a request still to be handled, can be overtaken *)
(* by it.                                                                  *)
Post(t, kind, body) ==
    /\ call' = [call EXCEPT ![t] = [kind |-> kind, body |-> body, tries |-> 1, at |-> "way"]]
    /\ unsure' = unsure \cup
         {f \in DOMAIN body : \/ \E s \in Threads \ {t} : Carries(call[s].body, f)
                              \/ \E m \in late : Carries(m.body, f)}

(* Mutant: every value counts as sent, whether it was or not. *)
CollectAll ==
    /\ prev' = cur
    /\ seen' = cur /\ UNCHANGED cur

(* What is sent counts as reported before it is sent. *)
Collect ==
    /\ prev' = [f \in Fields |-> IF Dirty(f) THEN cur[f] ELSE prev[f]]
    /\ seen' = cur /\ UNCHANGED cur

-----------------------------------------------------------------------------
(* start(), the heartbeat loop and the ways the daemon ends *)

(* The process starts with the code on disk and registers. *)
Start ==
    /\ main = "off"
    /\ main' = "register" /\ running' = TRUE /\ code' = 0
    /\ hbAlive' = TRUE
    /\ cur' = Fresh(disk[CodeFile]) /\ prev' = Unreported /\ seen' = cur'
    /\ Post("main", "reg", [version |-> disk[CodeFile]])
    /\ UNCHANGED <<late, wasVars, fileVars, forgone>>

(* One turn of _heartbeat_loop. *)
Beat ==
    /\ main \in {"run", "stop", "stopping"} /\ running /\ hbAlive
    /\ call["hb"] = Idle
    /\ Collect
    /\ Post("hb", "hb", Changes)
    /\ UNCHANGED <<daemonVars, hbAlive, late, wasVars, fileVars, forgone>>

(* The sender unlinks the buffer file between the exists() and the open()  *)
(* of _collect_status: nothing catches the exception and the thread ends.  *)
BeatDies ==
    /\ main = "run" /\ running /\ hbAlive /\ call["hb"] = Idle
    /\ hbAlive' = FALSE
    /\ forgone' = forgone \cup {"heartbeat"}
    /\ UNCHANGED <<daemonVars, statusVars, call, late, wasVars, fileVars, unsure>>

(* The sender thread sets the status and the error with the outcome of a   *)
(* send, in any state of the other threads.                                *)
SenderResult(ok) ==
    /\ main \in {"run", "stop"}
    /\ cur' = [cur EXCEPT !.status = IF ok THEN "running" ELSE "degraded",
                          !.error = IF ok THEN Null ELSE "send failed"]
    /\ UNCHANGED <<daemonVars, prev, seen, hbAlive, call, late, wasVars, fileVars, unsure, forgone>>

SenderPolls(n) ==
    /\ main = "run"
    /\ cur' = [cur EXCEPT !.queue = n]
    /\ UNCHANGED <<daemonVars, prev, seen, hbAlive, call, late, wasVars, fileVars, unsure, forgone>>

(* SIGTERM or SIGINT: _stop sets the status ... *)
StopStatus ==
    /\ main = "run"
    /\ main' = "stop"
    /\ cur' = [cur EXCEPT !.status = "stopping"]

Signal ==
    /\ StopStatus
    /\ forgone' = forgone \cup {"stopped"}
    /\ UNCHANGED <<running, code, prev, seen, hbAlive, call, late, wasVars, fileVars, unsure>>

(* ... and reports all fields, before it clears running. *)
StopReport ==
    /\ main = "stop"
    /\ main' = "stopping"
    /\ prev' = cur /\ seen' = cur
    /\ Post("main", "last", cur)
    /\ UNCHANGED <<running, code, cur, hbAlive, late, wasVars, fileVars, forgone>>

(* The process ends with its threads wherever they are, and its memory is  *)
(* gone; a request on its way may still be handled.                        *)
ProcessEnds(to) ==
    /\ main' = to /\ running' = FALSE
    /\ call' = [t \in Threads |-> Idle]
    /\ \E M \in SUBSET {[kind |-> call[t].kind, body |-> call[t].body] :
                            t \in {s \in Threads : call[s].at = "way"}} :
         /\ Cardinality(late \cup M) <= MaxLate
         /\ late' = late \cup M
    /\ upd' = [u \in Updaters |-> NotUpdating]
    /\ forgone' = forgone \cup (IF Active # {} THEN {"killed"} ELSE {})
                          \cup (IF \E t \in Threads : call[t].at = "update" THEN {"answer"} ELSE {})
    /\ cur' = Fresh(1) /\ prev' = Unreported /\ seen' = Fresh(1)
    /\ unsure' = {}
    /\ UNCHANGED <<hbAlive, wasVars, latest, disk, tmp>>

(* start() returns from its loop and exits.  systemd starts the daemon     *)
(* again after 42, an operator after 0; RestartPreventExitStatus=1 keeps a *)
(* daemon down that the WAS did not know.                                  *)
Exit ==
    /\ main \in {"run", "exit"} /\ ~ running
    /\ ProcessEnds(IF code = 1 THEN "failed" ELSE "off")
    /\ code' = 0

(* A kill or a power failure; systemd starts the daemon again. *)
Crash ==
    /\ main \notin {"off", "failed"}
    /\ ProcessEnds("off")
    /\ code' = 0

-----------------------------------------------------------------------------
(* The WAS: POST /ingest/register and /ingest/heartbeat *)

(* register_device: a new row has the defaults of the model. *)
RegisterDevice(body) ==
    row' = IF row = NoRow
           THEN [version |-> body.version, status |-> "unknown", error |-> Null, queue |-> 0]
           ELSE [row EXCEPT !.version = body.version]

(* heartbeat: a field that is missing or null leaves the column as it is;  *)
(* the update flag is cleared with the answer that carries it.             *)
StoreStatus(body) ==
    /\ row' = IF row = NoRow THEN NoRow
              ELSE [f \in Fields |-> IF Carries(body, f) /\ body[f] # Null THEN body[f] ELSE row[f]]
    /\ flag' = FALSE

Answer(kind) == IF kind = "reg" THEN "ok"
                ELSE IF row = NoRow THEN "unknown"
                ELSE IF flag THEN "update" ELSE "ok"

HandleRequest(kind, body) ==
    \/ kind = "reg" /\ RegisterDevice(body) /\ UNCHANGED flag
    \/ kind # "reg" /\ StoreStatus(body)

(* The fields a request settles: it says what was last reported of them    *)
(* and no other request carries them.                                      *)
Settled(t) ==
    {f \in DOMAIN call[t].body :
        /\ call[t].body[f] = prev[f] \/ call[t].kind = "reg"
        /\ \A s \in Threads \ {t} : ~ Carries(call[s].body, f)
        /\ \A m \in late : ~ Carries(m.body, f)}

Handle(t) ==
    /\ call[t].at = "way"
    /\ HandleRequest(call[t].kind, call[t].body)
    /\ call' = [call EXCEPT ![t].at = Answer(call[t].kind)]
    /\ unsure' = IF Answer(call[t].kind) = "unknown" THEN unsure \cup DOMAIN call[t].body
                 ELSE unsure \ Settled(t)
    /\ UNCHANGED <<daemonVars, statusVars, hbAlive, late, fileVars, forgone>>

(* A request whose sender has given up is handled; nobody reads the        *)
(* answer.                                                                 *)
HandleLate(m) ==
    /\ HandleRequest(m.kind, m.body)
    /\ late' = late \ {m}
    /\ unsure' = unsure \cup DOMAIN m.body
    /\ forgone' = forgone \cup (IF Answer(m.kind) = "update" THEN {"answer"} ELSE {})
    /\ UNCHANGED <<daemonVars, statusVars, hbAlive, call, fileVars>>

-----------------------------------------------------------------------------
(* WasClient._post: attempts, answers and what the caller makes of them *)

(* The request or its answer does not arrive. *)
Lost(t) ==
    /\ call[t].at \in {"way", "ok", "update", "unknown"}
    /\ call' = [call EXCEPT ![t].at = "lost"]
    /\ unsure' = IF call[t].at = "way" THEN unsure \cup DOMAIN call[t].body ELSE unsure
    /\ forgone' = forgone \cup (IF call[t].at = "update" THEN {"answer"} ELSE {})
    /\ UNCHANGED <<daemonVars, statusVars, hbAlive, late, wasVars, fileVars>>

(* A caller whose call is over, acknowledged or not.  After the last       *)
(* report the daemon stops, with code 1 when a 404 was the reason.         *)
Over(t, kind) ==
    /\ main' = CASE kind = "reg" -> "run" [] kind = "last" /\ t = "main" -> "exit" [] OTHER -> main
    /\ running' = IF kind = "last" THEN FALSE ELSE running
    /\ code' = IF kind = "last" /\ t = "hb" THEN 1 ELSE code

(* The attempt is given up, and with the last one the call. *)
NextAttempt(t) ==
    /\ IF call[t].tries < RetryMax
       THEN /\ call' = [call EXCEPT ![t].tries = @ + 1, ![t].at = "way"]
            /\ UNCHANGED daemonVars
       ELSE call' = [call EXCEPT ![t] = Idle] /\ Over(t, call[t].kind)
    /\ UNCHANGED <<statusVars, hbAlive, wasVars, fileVars, forgone>>

(* http_timeout after a loss. *)
TimeOut(t) ==
    /\ call[t].at = "lost"
    /\ NextAttempt(t)
    /\ UNCHANGED <<late, unsure>>

(* http_timeout while the request is still to be handled. *)
TimeOutEarly(t) ==
    /\ call[t].at = "way" /\ Cardinality(late) < MaxLate
    /\ late' = late \cup {[kind |-> call[t].kind, body |-> call[t].body]}
    /\ unsure' = unsure \cup DOMAIN call[t].body
    /\ NextAttempt(t)

(* An answer with "update" starts a _self_update thread. *)
Acknowledged(t) ==
    LET c == call[t] IN
    /\ c.at \in {"ok", "update"}
    /\ call' = [call EXCEPT ![t] = Idle]
    /\ Over(t, c.kind)
    /\ IF c.at = "update" /\ c.kind = "hb"
       THEN /\ upd' = [upd EXCEPT ![CHOOSE u \in Updaters : u \notin Active] = [pc |-> "get", i |-> 1]]
            /\ UNCHANGED forgone
       ELSE /\ forgone' = forgone \cup (IF c.at = "update" THEN {"answer"} ELSE {})
            /\ UNCHANGED upd
    /\ UNCHANGED <<statusVars, hbAlive, late, wasVars, latest, disk, tmp, unsure>>

(* 404: the heartbeat thread shuts the daemon down, with one last report;  *)
(* a last report that gets a 404 is over.                                  *)
Unknown(t) ==
    /\ call[t].at = "unknown"
    /\ IF call[t].kind = "last"
       THEN /\ call' = [call EXCEPT ![t] = Idle]
            /\ Over(t, "last")
            /\ UNCHANGED <<statusVars, unsure>>
       ELSE /\ cur' = [cur EXCEPT !.status = "stopping"]
            /\ prev' = cur' /\ seen' = cur'
            /\ Post(t, "last", cur')
            /\ UNCHANGED daemonVars
    /\ forgone' = forgone \cup {"removed"}
    /\ UNCHANGED <<hbAlive, late, wasVars, fileVars>>

-----------------------------------------------------------------------------
(* _self_update *)

(* Mutant: one file too many. *)
DownloadOneMore(u) ==
    /\ upd[u].pc = "get"
    /\ tmp' = [tmp EXCEPT ![upd[u].i] = latest]
    /\ upd' = [upd EXCEPT ![u] = IF @.i > Files THEN [pc |-> "put", i |-> 1]
                                 ELSE [pc |-> "get", i |-> @.i + 1]]
    /\ UNCHANGED <<daemonVars, statusVars, hbAlive, call, late, wasVars, latest, disk, unsure, forgone>>

(* Mutant: each file is put in place as soon as it is there. *)
DownloadInPlace(u) ==
    /\ upd[u].pc = "get"
    /\ disk' = [disk EXCEPT ![upd[u].i] = latest]
    /\ upd' = [upd EXCEPT ![u] = IF @.i = Files THEN [pc |-> "put", i |-> 1]
                                 ELSE [pc |-> "get", i |-> @.i + 1]]
    /\ tmp' = [tmp EXCEPT ![upd[u].i] = latest]
    /\ UNCHANGED <<daemonVars, statusVars, hbAlive, call, late, wasVars, latest, unsure, forgone>>

(* The next file is downloaded, checked and written to its .tmp, a name    *)
(* all threads share.                                                      *)
Download(u) ==
    /\ upd[u].pc = "get"
    /\ tmp' = [tmp EXCEPT ![upd[u].i] = latest]
    /\ upd' = [upd EXCEPT ![u] = IF @.i = Files THEN [pc |-> "put", i |-> 1]
                                 ELSE [pc |-> "get", i |-> @.i + 1]]
    /\ UNCHANGED <<daemonVars, statusVars, hbAlive, call, late, wasVars, latest, disk, unsure, forgone>>

(* The except branch: the .tmp files 1 .. n of this thread that are there  *)
(* are removed.                                                            *)
Abandon(u, n, why) ==
    /\ tmp' = [i \in 1..Files |-> IF i <= n THEN Null ELSE tmp[i]]
    /\ upd' = [upd EXCEPT ![u] = NotUpdating]
    /\ forgone' = forgone \cup {why}
    /\ UNCHANGED <<daemonVars, statusVars, hbAlive, call, late, wasVars, latest, disk, unsure>>

DownloadFails(u) ==
    /\ upd[u].pc = "get"
    /\ Abandon(u, upd[u].i - 1, "download")

Replace(u) ==
    /\ upd[u].pc = "put" /\ tmp[upd[u].i] # Null
    /\ disk' = [disk EXCEPT ![upd[u].i] = tmp[upd[u].i]]
    /\ tmp' = [tmp EXCEPT ![upd[u].i] = Null]
    /\ upd' = [upd EXCEPT ![u] = IF @.i = Files THEN [pc |-> "restart", i |-> 0]
                                 ELSE [pc |-> "put", i |-> @.i + 1]]
    /\ UNCHANGED <<daemonVars, statusVars, hbAlive, call, late, wasVars, latest, unsure, forgone>>

(* Another thread has replaced or removed the .tmp. *)
ReplaceFails(u) ==
    /\ upd[u].pc = "put" /\ tmp[upd[u].i] = Null
    /\ Abandon(u, Files, "overlap")

(* Mutant: the exit code systemd does not restart after. *)
RestartServiceCodeOne(u) ==
    /\ upd[u].pc = "restart"
    /\ upd' = [upd EXCEPT ![u] = NotUpdating]
    /\ code' = 1 /\ running' = FALSE
    /\ UNCHANGED <<main, statusVars, hbAlive, call, late, wasVars, latest, disk, tmp, unsure, forgone>>

(* _restart_service: systemctl works for root only (then SIGTERM comes);   *)
(* otherwise the daemon exits with 42.                                     *)
RestartService(u) ==
    /\ upd[u].pc = "restart"
    /\ upd' = [upd EXCEPT ![u] = NotUpdating]
    /\ \/ /\ code' = 42 /\ running' = FALSE
          /\ UNCHANGED <<main, cur>>
       \/ /\ StopStatus
          /\ UNCHANGED <<running, code>>
    /\ UNCHANGED <<prev, seen, hbAlive, call, late, wasVars, latest, disk, tmp, unsure, forgone>>

-----------------------------------------------------------------------------
(* Administrators and update_url *)

(* daemon_update._flag: an UPDATE of one column. *)
FlagUpdate ==
    /\ row # NoRow /\ ~ flag /\ latest > row.version
    /\ Cardinality(Active) + Cardinality({t \in Threads : call[t].at = "update"}) < MaxUpd
    /\ flag' = TRUE
    /\ UNCHANGED <<daemonVars, statusVars, hbAlive, call, late, row, fileVars, unsure, forgone>>

(* The device is named in the request, alone or among others ... *)
RequestUpdate == FlagUpdate

(* ... or belongs to the group that is. *)
RequestGroupUpdate == FlagUpdate

DeleteDevice ==
    /\ row # NoRow
    /\ row' = NoRow /\ flag' = FALSE
    /\ forgone' = forgone \cup {"removed"}
    /\ UNCHANGED <<daemonVars, statusVars, hbAlive, call, late, fileVars, unsure>>

(* A thread that has .tmp files to replace, or will have. *)
HasDownloads(u) == upd[u].pc = "put" \/ (upd[u].pc = "get" /\ upd[u].i > 1)

(* A new version is published; a thread between two downloads gets some    *)
(* files of each, and one that replaces may find .tmp files of a thread    *)
(* that started later.                                                     *)
Publish ==
    /\ latest < Versions
    /\ latest' = latest + 1
    /\ forgone' = forgone \cup (IF \E u \in Updaters : HasDownloads(u) THEN {"published"} ELSE {})
    /\ UNCHANGED <<daemonVars, statusVars, hbAlive, call, late, wasVars, disk, tmp, upd, unsure>>

-----------------------------------------------------------------------------
(* The first start of a daemon the WAS has not seen. *)
Init ==
    /\ main = "off" /\ running = FALSE /\ code = 0
    /\ cur = Fresh(1) /\ prev = Unreported /\ seen = Fresh(1)
    /\ hbAlive = TRUE
    /\ call = [t \in Threads |-> Idle] /\ late = {}
    /\ row = NoRow /\ flag = FALSE
    /\ latest = 1 /\ disk = [i \in 1..Files |-> 1] /\ tmp = [i \in 1..Files |-> Null]
    /\ upd = [u \in Updaters |-> NotUpdating]
    /\ unsure = {} /\ forgone = {} /\ events = 0

Client(t) == TimeOut(t) \/ Acknowledged(t) \/ Unknown(t)
Update(u) == Download(u) \/ Replace(u) \/ ReplaceFails(u) \/ RestartService(u)

(* What the environment does a bounded number of times. *)
Event ==
    \/ BeatDies \/ Signal \/ Crash \/ RequestUpdate \/ RequestGroupUpdate
    \/ DeleteDevice
    \/ \E ok \in BOOLEAN : SenderResult(ok)
    \/ \E n \in 0..QueueMax : SenderPolls(n)
    \/ \E t \in Threads : Lost(t) \/ TimeOutEarly(t)
    \/ \E u \in Updaters : DownloadFails(u)

Step ==
    \/ Start \/ Beat \/ StopReport \/ Exit
    \/ \E t \in Threads : Handle(t) \/ Client(t)
    \/ \E m \in late : HandleLate(m)
    \/ \E u \in Updaters : Update(u)
    \/ Publish

Next ==
    \/ Step /\ UNCHANGED events
    \/ Event /\ events < MaxEvents /\ events' = events + 1

(* The threads go on, systemd starts a daemon that has ended, and a        *)
(* request that is sent again and again is handled and answered at last.   *)
Fairness ==
    /\ WF_sysVars(Start) /\ WF_sysVars(Beat) /\ WF_sysVars(StopReport) /\ WF_sysVars(Exit)
    /\ \A t \in Threads : /\ WF_sysVars(Client(t))
                          /\ SF_sysVars(Handle(t)) /\ SF_sysVars(Acknowledged(t))
    /\ \A u \in Updaters : WF_sysVars(Update(u))

Spec == Init /\ [][Next]_vars
FairSpec == Spec /\ Fairness

-----------------------------------------------------------------------------
(* Properties *)

TypeOK ==
    /\ main \in {"off", "register", "run", "stop", "stopping", "exit", "failed"}
    /\ running \in BOOLEAN /\ code \in {0, 1, 42} /\ hbAlive \in BOOLEAN
    /\ DOMAIN cur = Fields /\ DOMAIN prev = Fields /\ cur.queue \in 0..QueueMax
    /\ \A t \in Threads : /\ call[t].kind \in {"idle", "reg", "hb", "last"}
                          /\ call[t].tries \in 0..RetryMax
                          /\ call[t].kind = "idle" <=> call[t].at = "idle"
    /\ row = NoRow \/ DOMAIN row = Fields
    /\ flag \in BOOLEAN /\ (flag => row # NoRow)
    /\ disk \in [1..Files -> 1..latest]
    /\ \A u \in Updaters : upd[u].pc \in {"get", "put"} => upd[u].i \in 1..Files

Near(f, a, b) == IF f = "queue" THEN Distance(a, b) < Threshold /\ (a = 0) = (b = 0) ELSE a = b

(* The report says what is: whatever was left out of the heartbeats, the   *)
(* WAS shows each field as the daemon last saw it, but for changes below   *)
(* the threshold and errors that are over - unless a request that carried  *)
(* the field was lost, came late or was overtaken and no report since has  *)
(* been acknowledged on its own.  Small changes do not add up unseen, and  *)
(* a counter that is back at 0 is shown as 0.                              *)
ViewIsNear ==
    row # NoRow /\ main \in {"run", "stop"} /\ forgone \cap {"removed"} = {} =>
        \A f \in Fields :
            \/ f \in unsure
            \/ prev[f] = Null
            \/ \E t \in Threads : Carries(call[t].body, f)
            \/ Near(f, row[f], seen[f])

(* The files in BASE_DIR are of one version: a download that fails changes *)
(* none of them.  Only a thread in the middle of its replacements, two     *)
(* threads one of which has taken the other's .tmp, the end of the process *)
(* among the replacements or a publication during an update can mix them.  *)
FilesWhole ==
    \/ \A i, j \in 1..Files : disk[i] = disk[j]
    \/ \E u \in Updaters : upd[u].pc = "put"
    \/ forgone \cap {"overlap", "killed", "published"} # {}

(* An update an administrator asked for comes about: the daemon runs the   *)
(* version that was published then or a later one, unless the answer with  *)
(* the order was lost, the download failed, a publication came between, or *)
(* the daemon was stopped, killed or removed.                              *)
Updated ==
    \A v \in 1..Versions :
        flag /\ latest = v ~> \/ main = "run" /\ cur.version >= v
                              \/ forgone # {}
=============================================================================
