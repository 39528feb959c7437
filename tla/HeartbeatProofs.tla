-------------------------- MODULE HeartbeatProofs --------------------------
(* Theorems about Heartbeat, for any number of files, versions, update     *)
(* threads and attempts.                                                   *)
EXTENDS Heartbeat, FiniteSetTheorems, TLAPS

-----------------------------------------------------------------------------
(* The inductive invariant *)

(* What a thread's call may be. *)
CallOK(c) ==
    /\ DOMAIN c = {"kind", "body", "tries", "at"}
    /\ c.kind \in {"idle", "reg", "hb", "last"}
    /\ c.tries \in 0..RetryMax
    /\ c.at \in {"idle", "way", "ok", "update", "unknown", "lost"}
    /\ c.kind = "idle" <=> c.at = "idle"

CallsOK == DOMAIN call = Threads /\ \A t \in Threads : CallOK(call[t])

StatusOK == DOMAIN cur = Fields /\ DOMAIN prev = Fields /\ cur.queue \in 0..QueueMax

RowOK == (row = NoRow \/ DOMAIN row = Fields) /\ flag \in BOOLEAN /\ (flag => row # NoRow)

DaemonOK ==
    /\ main \in {"off", "register", "run", "stop", "stopping", "exit", "failed"}
    /\ running \in BOOLEAN /\ code \in {0, 1, 42} /\ hbAlive \in BOOLEAN

Stage == [pc : {"idle", "get", "put", "restart"}, i : 0..Files]

FilesOK ==
    /\ latest \in Nat \ {0}
    /\ disk \in [1..Files -> 1..latest]
    /\ tmp \in [1..Files -> (1..latest) \cup {Null}]
    /\ upd \in [Updaters -> Stage]
    /\ \A u \in Updaters : upd[u].pc \in {"get", "put"} => upd[u].i >= 1

(* The answers with an order that no caller has read yet. *)
Ordered == {t \in Threads : call[t].at = "update"}

(* A thread that is ordered has a place among the updaters. *)
Slots == Cardinality(Active) + Cardinality(Ordered) + (IF flag THEN 1 ELSE 0) <= MaxUpd

(* Nothing has happened that can mix the files. *)
Clean == forgone \cap {"overlap", "killed", "published"} = {}

(* A .tmp belongs to a thread that will replace it. *)
TmpOwned ==
    \A j \in 1..Files : tmp[j] # Null =>
        \E u \in Updaters : \/ upd[u].pc = "get" /\ upd[u].i > j
                            \/ upd[u].pc = "put" /\ upd[u].i <= j

(* All the .tmp files are of the latest version, and so is what a thread   *)
(* has replaced already.                                                   *)
OneVersion ==
    /\ \A j \in 1..Files : tmp[j] # Null => tmp[j] = latest
    /\ \A u \in Updaters : upd[u].pc = "put" => \A j \in 1..Files : j < upd[u].i => disk[j] = latest

(* FilesWhole while nothing has happened that can mix the files. *)
Whole ==
    /\ TmpOwned /\ OneVersion
    /\ (\A i, j \in 1..Files : disk[i] = disk[j]) \/ \E u \in Updaters : upd[u].pc = "put"

IInv ==
    /\ DaemonOK /\ StatusOK /\ CallsOK /\ RowOK /\ FilesOK
    /\ Slots
    /\ Clean => Whole

-----------------------------------------------------------------------------
(* Calls *)

(* What a step may make of the calls: one thread's call changes, and it    *)
(* holds an order only when the WAS has just answered with the flag.       *)
CallChange ==
    \/ UNCHANGED call
    \/ call' = [t \in Threads |-> Idle]
    \/ \E t \in Threads : \E c : /\ CallOK(c) /\ call' = [call EXCEPT ![t] = c]
                                 /\ c.at = "update" => Handle(t) /\ flag

(* No call is a call. *)
LEMMA IdleOK == CallOK(Idle)
<1>1. RetryMax \in Nat
  BY ConstantsAssumption
<1>2. QED
  BY <1>1 DEF CallOK, Idle

(* A POST that is begun. *)
LEMMA PostCall ==
    ASSUME NEW t \in Threads, NEW kind \in {"reg", "hb", "last"}, NEW body, Post(t, kind, body)
    PROVE  CallChange
<1> DEFINE c == [kind |-> kind, body |-> body, tries |-> 1, at |-> "way"]
<1>1. 1 \in 0..RetryMax
  BY ConstantsAssumption
<1>2. CallOK(c) /\ c.at = "way"
  BY <1>1 DEF CallOK
<1>3. call' = [call EXCEPT ![t] = c]
  BY DEF Post
<1> HIDE DEF c
<1>4. QED
  BY <1>2, <1>3 DEF CallChange

(* A call that goes on to its answer. *)
LEMMA StageCall ==
    ASSUME CallsOK, NEW t \in Threads, NEW at \in {"way", "ok", "update", "unknown", "lost"},
           call[t].kind # "idle", call' = [call EXCEPT ![t].at = at],
           at = "update" => Handle(t) /\ flag
    PROVE  CallChange
<1> DEFINE c == [call[t] EXCEPT !.at = at]
<1>1. CallOK(c) /\ c.at = at
  BY DEF CallsOK, CallOK
<1>2. call' = [call EXCEPT ![t] = c]
  OBVIOUS
<1> HIDE DEF c
<1>3. QED
  BY <1>1, <1>2 DEF CallChange

(* A call that is tried again or given up. *)
LEMMA RetryCall ==
    ASSUME CallsOK, NEW t \in Threads, call[t].kind # "idle", NextAttempt(t)
    PROVE  CallChange
<1>1. CASE call[t].tries < RetryMax
  <2> DEFINE d == [call[t] EXCEPT !.tries = @ + 1]
             c == [d EXCEPT !.at = "way"]
  <2>1. call[t].tries + 1 \in 0..RetryMax
    BY <1>1, ConstantsAssumption DEF CallsOK, CallOK
  <2>2. /\ DOMAIN d = {"kind", "body", "tries", "at"}
        /\ d.kind = call[t].kind /\ d.tries = call[t].tries + 1
    BY DEF CallsOK, CallOK
  <2>3. call' = [call EXCEPT ![t] = c]
    BY <1>1 DEF NextAttempt, CallsOK, CallOK
  <2> HIDE DEF d
  <2>4. CallOK(c) /\ c.at = "way"
    BY <2>1, <2>2 DEF CallsOK, CallOK
  <2> HIDE DEF c
  <2>5. QED
    BY <2>3, <2>4 DEF CallChange
<1>2. CASE ~ (call[t].tries < RetryMax)
  <2>1. call' = [call EXCEPT ![t] = Idle]
    BY <1>2 DEF NextAttempt
  <2>2. Idle.at = "idle"
    BY DEF Idle
  <2>3. QED
    BY <2>1, <2>2, IdleOK DEF CallChange
<1>3. QED
  BY <1>1, <1>2

(* A call that ends. *)
LEMMA DropCall == ASSUME NEW t \in Threads, call' = [call EXCEPT ![t] = Idle] PROVE CallChange
<1>1. Idle.at = "idle"
  BY DEF Idle
<1>2. QED
  BY <1>1, IdleOK DEF CallChange

(* Every step changes one call at most, and orders an update only when     *)
(* the flag is set.                                                        *)
LEMMA CallStep == ASSUME CallsOK, [Next]_vars PROVE CallChange
<1>1. ASSUME Start PROVE CallChange
  BY <1>1, PostCall DEF Start, Threads
<1>2. ASSUME Beat PROVE CallChange
  BY <1>2, PostCall DEF Beat, Threads
<1>3. ASSUME StopReport PROVE CallChange
  BY <1>3, PostCall DEF StopReport, Threads
<1>4. ASSUME Exit \/ Crash PROVE CallChange
  BY <1>4 DEF Exit, Crash, ProcessEnds, CallChange
<1>5. ASSUME NEW t \in Threads, Handle(t) PROVE CallChange
  <2>1. call[t].kind # "idle"
    BY <1>5 DEF Handle, CallsOK, CallOK
  <2>2. /\ Answer(call[t].kind) \in {"way", "ok", "update", "unknown", "lost"}
        /\ Answer(call[t].kind) = "update" => flag
    BY DEF Answer
  <2>3. call' = [call EXCEPT ![t].at = Answer(call[t].kind)]
    BY <1>5 DEF Handle
  <2>4. QED
    BY <1>5, <2>1, <2>2, <2>3, StageCall
<1>6. ASSUME NEW t \in Threads, Lost(t) PROVE CallChange
  <2>1. call[t].kind # "idle"
    BY <1>6 DEF Lost, CallsOK, CallOK
  <2>2. call' = [call EXCEPT ![t].at = "lost"]
    BY <1>6 DEF Lost
  <2>3. QED
    BY <2>1, <2>2, StageCall
<1>7. ASSUME NEW t \in Threads, TimeOut(t) \/ TimeOutEarly(t) PROVE CallChange
  <2>1. call[t].kind # "idle" /\ NextAttempt(t)
    BY <1>7 DEF TimeOut, TimeOutEarly, CallsOK, CallOK
  <2>2. QED
    BY <2>1, RetryCall
<1>8. ASSUME NEW t \in Threads, Acknowledged(t) PROVE CallChange
  BY <1>8, DropCall DEF Acknowledged
<1>9. ASSUME NEW t \in Threads, Unknown(t) PROVE CallChange
  <2>1. CASE call[t].kind = "last"
    BY <1>9, <2>1, DropCall DEF Unknown
  <2>2. CASE call[t].kind # "last"
    BY <1>9, <2>2, PostCall DEF Unknown
  <2>3. QED
    BY <2>1, <2>2
<1>10. CASE UNCHANGED call
  BY <1>10 DEF CallChange
<1>11. QED
  BY <1>1, <1>2, <1>3, <1>4, <1>5, <1>6, <1>7, <1>8, <1>9, <1>10 DEF Next, Step, Event, Client, Update,
     vars, HandleLate, Publish, BeatDies, Signal, RequestUpdate, RequestGroupUpdate, FlagUpdate,
     DeleteDevice, SenderResult, SenderPolls, DownloadFails, Abandon, Download, Replace, ReplaceFails,
     RestartService

(* Calls stay well formed. *)
LEMMA CallsStep == ASSUME CallsOK, CallChange PROVE CallsOK'
<1>1. CASE UNCHANGED call
  BY <1>1 DEF CallsOK
<1>2. CASE call' = [t \in Threads |-> Idle]
  BY <1>2, IdleOK DEF CallsOK
<1>3. ASSUME NEW t \in Threads, NEW c, CallOK(c), call' = [call EXCEPT ![t] = c] PROVE CallsOK'
  BY <1>3 DEF CallsOK
<1>4. QED
  BY <1>1, <1>2, <1>3 DEF CallChange

-----------------------------------------------------------------------------
(* Types *)

(* Types of the daemon's own state, for every step. *)
LEMMA DaemonStep == ASSUME DaemonOK, [Next]_vars PROVE DaemonOK'
<1>1. ASSUME NEW to \in {"off", "failed"}, ProcessEnds(to), code' = 0 PROVE DaemonOK'
  BY <1>1 DEF ProcessEnds, DaemonOK
<1>2. ASSUME NEW t, NEW kind, Over(t, kind), UNCHANGED hbAlive PROVE DaemonOK'
  <2>1. main' \in {"run", "exit", main}
    BY <1>2 DEF Over
  <2>2. running' \in {FALSE, running} /\ code' \in {1, code}
    BY <1>2 DEF Over
  <2>3. QED
    BY <1>2, <2>1, <2>2 DEF DaemonOK
<1>3. ASSUME Start PROVE DaemonOK'
  BY <1>3 DEF Start, DaemonOK
<1>4. ASSUME StopReport PROVE DaemonOK'
  BY <1>4 DEF StopReport, DaemonOK
<1>5. ASSUME NEW t \in Threads, NextAttempt(t) PROVE DaemonOK'
  BY <1>2, <1>5 DEF NextAttempt, daemonVars, DaemonOK
<1>6. ASSUME NEW t \in Threads, Acknowledged(t) PROVE DaemonOK'
  BY <1>2, <1>6 DEF Acknowledged
<1>7. ASSUME NEW t \in Threads, Unknown(t) PROVE DaemonOK'
  BY <1>2, <1>7 DEF Unknown, daemonVars, DaemonOK
<1>8. ASSUME NEW u \in Updaters, RestartService(u) PROVE DaemonOK'
  BY <1>8 DEF RestartService, StopStatus, DaemonOK
<1>9. ASSUME Signal PROVE DaemonOK'
  BY <1>9 DEF Signal, StopStatus, DaemonOK
<1>10. ASSUME BeatDies PROVE DaemonOK'
  BY <1>10 DEF BeatDies, daemonVars, DaemonOK
<1>11. ASSUME Exit \/ Crash PROVE DaemonOK'
  BY <1>1, <1>11 DEF Exit, Crash
<1>12. ASSUME UNCHANGED <<main, running, code, hbAlive>> PROVE DaemonOK'
  BY <1>12 DEF DaemonOK
<1>13. QED
  BY <1>3, <1>4, <1>5, <1>6, <1>7, <1>8, <1>9, <1>10, <1>11, <1>12 DEF Next, Step, Event, Client, Update,
     vars, daemonVars, Beat, Handle, HandleLate, TimeOut, TimeOutEarly, Lost, Publish, RequestUpdate,
     RequestGroupUpdate, FlagUpdate, DeleteDevice, SenderResult, SenderPolls, DownloadFails, Abandon,
     Download, Replace, ReplaceFails

(* The daemon's fields stay fields, whichever thread sets them. *)
LEMMA StatusStep == ASSUME StatusOK, [Next]_vars PROVE StatusOK'
<1>1. ASSUME NEW ver, cur' = Fresh(ver), prev' = Unreported PROVE StatusOK'
  <2>1. 0 \in 0..QueueMax
    BY ConstantsAssumption
  <2>2. QED
    BY <1>1, <2>1 DEF StatusOK, Fresh, Unreported, Fields
<1>2. ASSUME Start PROVE StatusOK'
  BY <1>1, <1>2 DEF Start
<1>3. ASSUME Exit \/ Crash PROVE StatusOK'
  BY <1>1, <1>3 DEF Exit, Crash, ProcessEnds
<1>4. ASSUME Beat PROVE StatusOK'
  BY <1>4 DEF Beat, Collect, StatusOK
<1>5. ASSUME StopReport PROVE StatusOK'
  BY <1>5 DEF StopReport, StatusOK
<1>6. ASSUME NEW ok \in BOOLEAN, SenderResult(ok) PROVE StatusOK'
  BY <1>6 DEF SenderResult, StatusOK
<1>7. ASSUME NEW n \in 0..QueueMax, SenderPolls(n) PROVE StatusOK'
  BY <1>7 DEF SenderPolls, StatusOK, Fields
<1>8. ASSUME StopStatus, UNCHANGED prev PROVE StatusOK'
  BY <1>8 DEF StopStatus, StatusOK
<1>9. ASSUME NEW t \in Threads, Unknown(t) PROVE StatusOK'
  <2>1. CASE call[t].kind = "last"
    BY <1>9, <2>1 DEF Unknown, statusVars, StatusOK
  <2>2. CASE call[t].kind # "last"
    <3>1. cur' = [cur EXCEPT !.status = "stopping"] /\ prev' = cur'
      BY <1>9, <2>2 DEF Unknown
    <3>2. QED
      BY <3>1 DEF StatusOK
  <2>3. QED
    BY <2>1, <2>2
<1>10. ASSUME UNCHANGED <<cur, prev>> PROVE StatusOK'
  BY <1>10 DEF StatusOK
<1>11. QED
  BY <1>2, <1>3, <1>4, <1>5, <1>6, <1>7, <1>8, <1>9, <1>10 DEF Next, Step, Event, Client, Update,
     vars, statusVars, Handle, HandleLate, TimeOut, TimeOutEarly, NextAttempt, Acknowledged, Lost, Publish,
     RequestUpdate, RequestGroupUpdate, FlagUpdate, DeleteDevice, DownloadFails, Abandon,
     Download, Replace, ReplaceFails, RestartService, Signal, BeatDies

(* Types of the device's row, for every step. *)
LEMMA RowStep == ASSUME RowOK, [Next]_vars PROVE RowOK'
<1>1. \A r : DOMAIN r = Fields => r # NoRow
  BY DEF NoRow, Fields
<1>2. ASSUME NEW kind, NEW body, HandleRequest(kind, body) PROVE RowOK'
  <2>1. CASE RegisterDevice(body) /\ UNCHANGED flag
    <3>1. DOMAIN row' = Fields
      BY <2>1 DEF RegisterDevice, RowOK, Fields
    <3>2. QED
      BY <1>1, <2>1, <3>1 DEF RowOK
  <2>2. CASE StoreStatus(body)
    BY <2>2 DEF StoreStatus, RowOK
  <2>3. QED
    BY <1>2, <2>1, <2>2 DEF HandleRequest
<1>3. ASSUME NEW t \in Threads, Handle(t) PROVE RowOK'
  BY <1>2, <1>3 DEF Handle
<1>4. ASSUME NEW m \in late, HandleLate(m) PROVE RowOK'
  BY <1>2, <1>4 DEF HandleLate
<1>5. ASSUME FlagUpdate \/ DeleteDevice PROVE RowOK'
  BY <1>5 DEF FlagUpdate, DeleteDevice, RowOK
<1>6. ASSUME UNCHANGED <<row, flag>> PROVE RowOK'
  BY <1>6 DEF RowOK
<1>7. QED
  BY <1>3, <1>4, <1>5, <1>6 DEF Next, Step, Event, Client, Update, vars, wasVars, Start, Beat, StopReport,
     Exit, Crash, ProcessEnds, TimeOut, TimeOutEarly, NextAttempt, Acknowledged, Unknown, Lost, Publish,
     RequestUpdate, RequestGroupUpdate, SenderResult, SenderPolls, DownloadFails, Abandon,
     Download, Replace, ReplaceFails, RestartService, Signal, BeatDies

(* Where an update thread is after a step of its own. *)
LEMMA StageType ==
    ASSUME FilesOK, NEW u, NEW s \in Stage, s.pc \in {"get", "put"} => s.i >= 1,
           upd' = [upd EXCEPT ![u] = s]
    PROVE  /\ upd' \in [Updaters -> Stage]
           /\ \A v \in Updaters : upd'[v].pc \in {"get", "put"} => upd'[v].i >= 1
BY DEF FilesOK

(* The stage after file i. *)
LEMMA NextStage ==
    ASSUME FilesOK, NEW u \in Updaters, upd[u].pc \in {"get", "put"}
    PROVE  /\ upd[u].i \in 1..Files
           /\ upd[u].i # Files =>
                 \A pc \in {"get", "put"} : [pc |-> pc, i |-> upd[u].i + 1] \in Stage
           /\ \A pc \in {"get", "put"} : [pc |-> pc, i |-> 1] \in Stage
           /\ [pc |-> "restart", i |-> 0] \in Stage /\ NotUpdating \in Stage
<1>1. Files \in Nat \ {0} /\ upd[u] \in Stage /\ upd[u].i >= 1
  BY ConstantsAssumption DEF FilesOK
<1>2. upd[u].i \in 1..Files
  BY <1>1 DEF Stage
<1>3. ASSUME upd[u].i # Files, NEW pc \in {"get", "put"}
      PROVE  [pc |-> pc, i |-> upd[u].i + 1] \in Stage
  <2>1. upd[u].i + 1 \in 0..Files
    BY <1>1, <1>2, <1>3
  <2>2. QED
    BY <1>1, <2>1 DEF Stage
<1>4. QED
  BY <1>1, <1>2, <1>3 DEF Stage, NotUpdating

(* What a download writes. *)
LEMMA DownloadStep ==
    ASSUME FilesOK, NEW u \in Updaters, Download(u)
    PROVE  /\ FilesOK'
           /\ upd[u].i \in 1..Files /\ UNCHANGED <<disk, latest, forgone, call, flag>>
           /\ \A j \in 1..Files : tmp'[j] = IF j = upd[u].i THEN latest ELSE tmp[j]
           /\ \A v \in Updaters \ {u} : upd'[v] = upd[v]
           /\ IF upd[u].i = Files THEN upd'[u].pc = "put" /\ upd'[u].i = 1
                                  ELSE upd'[u].pc = "get" /\ upd'[u].i = upd[u].i + 1
<1> DEFINE s == IF upd[u].i = Files THEN [pc |-> "put", i |-> 1] ELSE [pc |-> "get", i |-> upd[u].i + 1]
<1>1. upd[u].pc = "get" /\ UNCHANGED <<disk, latest, forgone, call, flag>>
  BY DEF Download, wasVars
<1>2. /\ upd[u].i \in 1..Files /\ s \in Stage
      /\ IF upd[u].i = Files THEN s.pc = "put" /\ s.i = 1 ELSE s.pc = "get" /\ s.i = upd[u].i + 1
  <2>1. CASE upd[u].i = Files
    BY <1>1, <2>1, NextStage
  <2>2. CASE upd[u].i # Files
    BY <1>1, <2>2, NextStage
  <2>3. QED
    BY <2>1, <2>2
<1>3. upd' = [upd EXCEPT ![u] = s]
  BY DEF Download
<1>4. tmp' \in [1..Files -> (1..latest) \cup {Null}]
      /\ \A j \in 1..Files : tmp'[j] = IF j = upd[u].i THEN latest ELSE tmp[j]
  BY <1>2 DEF Download, FilesOK
<1> HIDE DEF s
<1>5. s.pc \in {"get", "put"} => s.i >= 1
  BY <1>2
<1>6. FilesOK'
  <2>1. /\ upd' \in [Updaters -> Stage]
        /\ \A v \in Updaters : upd'[v].pc \in {"get", "put"} => upd'[v].i >= 1
    BY <1>2, <1>3, <1>5, StageType
  <2>2. QED
    BY <1>1, <1>4, <2>1 DEF FilesOK
<1>7. upd'[u] = s /\ \A v \in Updaters \ {u} : upd'[v] = upd[v]
  BY <1>3 DEF FilesOK
<1>8. QED
  BY <1>1, <1>2, <1>4, <1>6, <1>7

(* What a replacement writes. *)
LEMMA ReplaceStep ==
    ASSUME FilesOK, NEW u \in Updaters, Replace(u)
    PROVE  /\ FilesOK'
           /\ upd[u].i \in 1..Files /\ tmp[upd[u].i] # Null /\ UNCHANGED <<latest, forgone, call, flag>>
           /\ \A j \in 1..Files : tmp'[j] = IF j = upd[u].i THEN Null ELSE tmp[j]
           /\ \A j \in 1..Files : disk'[j] = IF j = upd[u].i THEN tmp[j] ELSE disk[j]
           /\ \A v \in Updaters \ {u} : upd'[v] = upd[v]
           /\ upd[u].pc = "put"
           /\ IF upd[u].i = Files THEN upd'[u].pc = "restart"
                                  ELSE upd'[u].pc = "put" /\ upd'[u].i = upd[u].i + 1
<1> DEFINE s == IF upd[u].i = Files THEN [pc |-> "restart", i |-> 0] ELSE [pc |-> "put", i |-> upd[u].i + 1]
<1>1. upd[u].pc = "put" /\ tmp[upd[u].i] # Null /\ UNCHANGED <<latest, forgone, call, flag>>
  BY DEF Replace, wasVars
<1>2. /\ upd[u].i \in 1..Files /\ s \in Stage
      /\ IF upd[u].i = Files THEN s.pc = "restart" ELSE s.pc = "put" /\ s.i = upd[u].i + 1
  <2>1. CASE upd[u].i = Files
    BY <1>1, <2>1, NextStage
  <2>2. CASE upd[u].i # Files
    BY <1>1, <2>2, NextStage
  <2>3. QED
    BY <2>1, <2>2
<1>3. upd' = [upd EXCEPT ![u] = s]
  BY DEF Replace
<1>4. tmp' \in [1..Files -> (1..latest) \cup {Null}]
      /\ \A j \in 1..Files : tmp'[j] = IF j = upd[u].i THEN Null ELSE tmp[j]
  BY <1>2 DEF Replace, FilesOK
<1>5. disk' \in [1..Files -> 1..latest]
      /\ \A j \in 1..Files : disk'[j] = IF j = upd[u].i THEN tmp[j] ELSE disk[j]
  BY <1>1, <1>2 DEF Replace, FilesOK
<1> HIDE DEF s
<1>6. s.pc \in {"get", "put"} => s.i >= 1
  BY <1>2
<1>7. FilesOK'
  <2>1. /\ upd' \in [Updaters -> Stage]
        /\ \A v \in Updaters : upd'[v].pc \in {"get", "put"} => upd'[v].i >= 1
    BY <1>2, <1>3, <1>6, StageType
  <2>2. QED
    BY <1>1, <1>4, <1>5, <2>1 DEF FilesOK
<1>8. upd'[u] = s /\ \A v \in Updaters \ {u} : upd'[v] = upd[v]
  BY <1>3 DEF FilesOK
<1>9. QED
  BY <1>1, <1>2, <1>4, <1>5, <1>7, <1>8

(* Going back to idle. *)
LEMMA AbandonStep ==
    ASSUME FilesOK, NEW u \in Updaters, NEW n \in Int, NEW why, Abandon(u, n, why)
    PROVE  /\ FilesOK' /\ UNCHANGED <<disk, latest, call, flag>> /\ forgone' = forgone \cup {why}
           /\ \A j \in 1..Files : tmp'[j] = IF j <= n THEN Null ELSE tmp[j]
           /\ upd'[u].pc = "idle" /\ \A v \in Updaters \ {u} : upd'[v] = upd[v]
<1>1. NotUpdating \in Stage /\ NotUpdating.pc = "idle"
  BY ConstantsAssumption DEF Stage, NotUpdating
<1>2. /\ UNCHANGED <<disk, latest, call, flag>> /\ forgone' = forgone \cup {why}
      /\ upd' = [upd EXCEPT ![u] = NotUpdating]
  BY DEF Abandon, wasVars
<1>3. /\ tmp' \in [1..Files -> (1..latest) \cup {Null}]
      /\ \A j \in 1..Files : tmp'[j] = IF j <= n THEN Null ELSE tmp[j]
  BY DEF Abandon, FilesOK
<1>4. upd'[u] = NotUpdating /\ \A v \in Updaters \ {u} : upd'[v] = upd[v]
  BY <1>2 DEF FilesOK
<1>5. FilesOK'
  BY <1>1, <1>2, <1>3, StageType DEF FilesOK
<1>6. QED
  BY <1>1, <1>2, <1>3, <1>4, <1>5

(* Types of the files and the update threads, for every step. *)
LEMMA FilesStep == ASSUME FilesOK, [Next]_vars PROVE FilesOK'
<1>1. ASSUME NEW u \in Updaters, DownloadFails(u) \/ ReplaceFails(u) PROVE FilesOK'
  <2>1. upd[u].i - 1 \in Int /\ Files \in Int
    BY ConstantsAssumption DEF FilesOK, Stage
  <2>2. QED
    BY <1>1, <2>1, AbandonStep DEF DownloadFails, ReplaceFails
<1>2. ASSUME NEW u \in Updaters, RestartService(u) PROVE FilesOK'
  <2>1. NotUpdating \in Stage /\ NotUpdating.pc = "idle"
    BY ConstantsAssumption DEF Stage, NotUpdating
  <2>2. upd' = [upd EXCEPT ![u] = NotUpdating] /\ UNCHANGED <<latest, disk, tmp>>
    BY <1>2 DEF RestartService
  <2>3. QED
    BY <2>1, <2>2, StageType DEF FilesOK
<1>3. ASSUME NEW t \in Threads, Acknowledged(t) PROVE FilesOK'
  <2>1. [pc |-> "get", i |-> 1] \in Stage
    BY ConstantsAssumption DEF Stage
  <2>2. \/ upd' = upd
        \/ upd' = [upd EXCEPT ![CHOOSE u \in Updaters : u \notin Active] = [pc |-> "get", i |-> 1]]
    BY <1>3 DEF Acknowledged
  <2>3. UNCHANGED <<latest, disk, tmp>>
    BY <1>3 DEF Acknowledged
  <2> DEFINE s == [pc |-> "get", i |-> 1]
             free == CHOOSE u \in Updaters : u \notin Active
  <2>4. s \in Stage /\ s.i >= 1
    BY <2>1
  <2> HIDE DEF s, free
  <2>5. CASE upd' = [upd EXCEPT ![free] = s]
    <3>1. /\ upd' \in [Updaters -> Stage]
          /\ \A v \in Updaters : upd'[v].pc \in {"get", "put"} => upd'[v].i >= 1
      BY <2>4, <2>5, StageType
    <3>2. QED
      BY <2>3, <3>1 DEF FilesOK
  <2>6. CASE upd' = upd
    BY <2>3, <2>6 DEF FilesOK
  <2>7. QED
    BY <2>2, <2>5, <2>6 DEF s, free
<1>4. ASSUME Exit \/ Crash PROVE FilesOK'
  <2>1. NotUpdating \in Stage /\ NotUpdating.pc = "idle"
    BY ConstantsAssumption DEF Stage, NotUpdating
  <2>2. upd' = [u \in Updaters |-> NotUpdating] /\ UNCHANGED <<latest, disk, tmp>>
    BY <1>4 DEF Exit, Crash, ProcessEnds
  <2>3. QED
    BY <2>1, <2>2 DEF FilesOK
<1>5. ASSUME Publish PROVE FilesOK'
  <2>1. latest' = latest + 1 /\ UNCHANGED <<disk, tmp, upd>> /\ latest' \in Nat \ {0}
    BY <1>5 DEF Publish, FilesOK
  <2>2. 1..latest \subseteq 1..latest'
    BY <2>1 DEF FilesOK
  <2>3. QED
    BY <2>1, <2>2 DEF FilesOK
<1>6. ASSUME UNCHANGED <<latest, disk, tmp, upd>> PROVE FilesOK'
  BY <1>6 DEF FilesOK
<1>7. QED
  BY <1>1, <1>2, <1>3, <1>4, <1>5, <1>6, DownloadStep, ReplaceStep DEF Next, Step, Event, Client, Update,
     vars, fileVars, Start, Beat, StopReport, Handle, HandleLate, TimeOut, TimeOutEarly, NextAttempt,
     Unknown, Lost, RequestUpdate, RequestGroupUpdate, FlagUpdate, DeleteDevice, SenderResult,
     SenderPolls, Signal, BeatDies

-----------------------------------------------------------------------------
(* Places for update threads *)

(* The update threads and the orders under way can be counted. *)
LEMMA LoadFinite ==
    /\ IsFiniteSet(Active) /\ Cardinality(Active) \in Nat
    /\ IsFiniteSet(Ordered) /\ Cardinality(Ordered) \in Nat
<1>1. IsFiniteSet(Updaters)
  <2>1. MaxUpd \in Int /\ 1 \in Int
    BY ConstantsAssumption
  <2>2. QED
    BY <2>1, FS_Interval, Zenon DEF Updaters
<1>2. Threads = {"main"} \cup {"hb"}
  BY DEF Threads
<1>3. IsFiniteSet(Threads)
  BY <1>2, FS_Singleton, FS_Union, Zenon
<1>4. Active \in SUBSET Updaters /\ Ordered \in SUBSET Threads
  BY DEF Active, Ordered
<1>5. QED
  BY <1>1, <1>3, <1>4, FS_Subset, FS_CardinalityType, Zenon

(* While Slots holds, an order that is read finds a place. *)
LEMMA FreeUpdater ==
    ASSUME Slots, Ordered # {}
    PROVE  \E u \in Updaters : u \notin Active
<1>1. Cardinality(Ordered) >= 1
  BY LoadFinite, FS_EmptySet
<1>2. Cardinality(Active) < MaxUpd /\ MaxUpd \in Nat
  BY <1>1, LoadFinite, ConstantsAssumption DEF Slots
<1>3. Cardinality(Updaters) = MaxUpd
  <2>1. Cardinality(1..MaxUpd) = IF 1 > MaxUpd THEN 0 ELSE MaxUpd - 1 + 1
    BY <1>2, FS_Interval
  <2>2. QED
    BY <2>1, ConstantsAssumption DEF Updaters
<1>4. Active # Updaters
  BY <1>2, <1>3
<1>5. QED
  BY <1>4 DEF Active

(* There is a thread for each order that is under way, for every step. *)
LEMMA SlotsStep ==
    ASSUME CallsOK, RowOK, FilesOK, Slots, [Next]_vars
    PROVE  Slots'
<1> DEFINE N(b) == IF b THEN 1 ELSE 0
<1>0. /\ IsFiniteSet(Active') /\ Cardinality(Active') \in Nat
      /\ IsFiniteSet(Ordered') /\ Cardinality(Ordered') \in Nat
      /\ MaxUpd \in Nat
  <2>1. (/\ IsFiniteSet(Active) /\ Cardinality(Active) \in Nat
         /\ IsFiniteSet(Ordered) /\ Cardinality(Ordered) \in Nat)'
    BY LoadFinite, PTL
  <2>2. QED
    BY <2>1, ConstantsAssumption
<1>1. ASSUME Active' \subseteq Active, Ordered' \subseteq Ordered, flag' => flag PROVE Slots'
  <2>1. /\ Cardinality(Active') <= Cardinality(Active)
        /\ Cardinality(Ordered') <= Cardinality(Ordered)
    BY <1>1, LoadFinite, FS_Subset
  <2>2. (IF flag' THEN 1 ELSE 0) <= (IF flag THEN 1 ELSE 0)
    BY <1>1
  <2>3. QED
    BY <1>0, <2>1, <2>2, LoadFinite DEF Slots
<1>2. ASSUME NEW t \in Threads, Handle(t) PROVE Slots'
  <2>1. Active' = Active /\ (flag' => flag)
    BY <1>2 DEF Handle, HandleRequest, StoreStatus, fileVars, Active
  <2>2. call[t].at = "way" /\ call' = [call EXCEPT ![t].at = Answer(call[t].kind)]
    BY <1>2 DEF Handle
  <2>3. /\ call'[t].at = Answer(call[t].kind)
        /\ \A s \in Threads \ {t} : call'[s] = call[s]
    BY <2>2 DEF CallsOK, CallOK
  <2>4. CASE Answer(call[t].kind) # "update"
    <3>1. Ordered' \subseteq Ordered
      BY <2>3, <2>4 DEF Ordered
    <3>2. QED
      BY <1>1, <2>1, <3>1
  <2>5. CASE Answer(call[t].kind) = "update"
    <3>1. flag /\ ~ flag' /\ call[t].kind # "reg"
      BY <1>2, <2>5 DEF Answer, Handle, HandleRequest, StoreStatus
    <3>2. Ordered' = Ordered \cup {t} /\ t \notin Ordered
      BY <2>2, <2>3, <2>5 DEF Ordered
    <3>3. Cardinality(Ordered') = Cardinality(Ordered) + 1
      BY <3>2, LoadFinite, FS_AddElement
    <3>4. QED
      BY <1>0, <2>1, <3>1, <3>3, LoadFinite DEF Slots
  <2>6. QED
    BY <2>4, <2>5
<1>3. ASSUME NEW t \in Threads, Acknowledged(t) PROVE Slots'
  <2>1. /\ \A s \in Threads \ {t} : call'[s] = call[s]
        /\ call'[t].at = "idle" /\ UNCHANGED flag
    BY <1>3 DEF Acknowledged, CallsOK, Idle, wasVars
  <2>2. Ordered' = Ordered \ {t}
    BY <2>1 DEF Ordered
  <2>3. CASE UNCHANGED upd
    <3>1. Active' = Active
      BY <2>3 DEF Active
    <3>2. QED
      BY <1>1, <2>1, <2>2, <3>1
  <2>4. CASE ~ UNCHANGED upd
    <3> DEFINE free == CHOOSE u \in Updaters : u \notin Active
    <3>1. t \in Ordered /\ upd' = [upd EXCEPT ![free] = [pc |-> "get", i |-> 1]]
      BY <1>3, <2>4 DEF Acknowledged, Ordered
    <3>2. free \in Updaters /\ free \notin Active
      BY <3>1, FreeUpdater
    <3> HIDE DEF free
    <3>3. Active' = Active \cup {free}
      BY <3>1, <3>2 DEF Active, FilesOK
    <3>4. Cardinality(Active') = Cardinality(Active) + 1
      BY <3>2, <3>3, LoadFinite, FS_AddElement
    <3>5. Cardinality(Ordered') = Cardinality(Ordered) - 1
      BY <2>2, <3>1, LoadFinite, FS_RemoveElement
    <3>6. QED
      BY <1>0, <2>1, <3>4, <3>5, LoadFinite DEF Slots
  <2>5. QED
    BY <2>3, <2>4
<1>4. ASSUME FlagUpdate PROVE Slots'
  <2>1. Active' = Active /\ Ordered' = Ordered /\ flag' = TRUE
    BY <1>4 DEF FlagUpdate, fileVars, Active, Ordered
  <2>2. Cardinality(Active) + Cardinality(Ordered) < MaxUpd
    BY <1>4 DEF FlagUpdate, Ordered
  <2>3. QED
    BY <1>0, <2>1, <2>2, LoadFinite DEF Slots
<1>5. ASSUME CallChange, \A t \in Threads : ~ Handle(t) PROVE Ordered' \subseteq Ordered
  <2>1. CASE UNCHANGED call
    BY <2>1 DEF Ordered
  <2>2. CASE call' = [t \in Threads |-> Idle]
    BY <2>2 DEF Ordered, Idle
  <2>3. ASSUME NEW t \in Threads, NEW c, call' = [call EXCEPT ![t] = c], c.at # "update"
        PROVE  Ordered' \subseteq Ordered
    BY <2>3 DEF Ordered, CallsOK
  <2>4. QED
    BY <1>5, <2>1, <2>2, <2>3 DEF CallChange
<1>6. ASSUME UNCHANGED upd, flag' => flag, \A t \in Threads : ~ Handle(t) PROVE Slots'
  <2>1. Active' = Active
    BY <1>6 DEF Active
  <2>2. QED
    BY <1>1, <1>5, <1>6, <2>1, CallStep
<1>7. ASSUME NEW u \in Updaters, upd[u].pc # "idle", \A v \in Updaters \ {u} : upd'[v] = upd[v],
             UNCHANGED <<call, flag>>
      PROVE  Slots'
  <2>1. Active' \subseteq Active /\ Ordered' = Ordered
    BY <1>7 DEF Active, Ordered
  <2>2. QED
    BY <1>1, <1>7, <2>1
<1>8. ASSUME NEW u \in Updaters, Download(u) \/ Replace(u) PROVE Slots'
  <2>1. upd[u].pc # "idle"
    BY <1>8 DEF Download, Replace
  <2>2. QED
    BY <1>7, <1>8, <2>1, DownloadStep, ReplaceStep
<1>9. ASSUME NEW u \in Updaters, DownloadFails(u) \/ ReplaceFails(u) PROVE Slots'
  <2>1. upd[u].pc # "idle" /\ upd[u].i - 1 \in Int /\ Files \in Int
    BY <1>9, ConstantsAssumption DEF DownloadFails, ReplaceFails, FilesOK, Stage
  <2>2. \A v \in Updaters \ {u} : upd'[v] = upd[v]
    BY <1>9, <2>1, AbandonStep DEF DownloadFails, ReplaceFails
  <2>3. UNCHANGED <<call, flag>>
    BY <1>9 DEF DownloadFails, ReplaceFails, Abandon, wasVars
  <2>4. QED
    BY <1>7, <2>1, <2>2, <2>3
<1>10. ASSUME NEW u \in Updaters, RestartService(u) PROVE Slots'
  <2>1. /\ upd[u].pc # "idle" /\ UNCHANGED <<call, flag>>
        /\ \A v \in Updaters \ {u} : upd'[v] = upd[v]
    BY <1>10 DEF RestartService, wasVars, FilesOK
  <2>2. QED
    BY <1>7, <2>1
<1>11. ASSUME Exit \/ Crash PROVE Slots'
  <2>1. /\ UNCHANGED flag /\ upd' = [u \in Updaters |-> NotUpdating]
        /\ call' = [t \in Threads |-> Idle]
    BY <1>11 DEF Exit, Crash, ProcessEnds, wasVars
  <2>2. Active' = {} /\ Ordered' = {}
    BY <2>1 DEF Active, Ordered, NotUpdating, Idle
  <2>3. QED
    BY <1>1, <2>1, <2>2
<1>12. ASSUME UNCHANGED upd, flag' => flag PROVE Slots'
  BY <1>2, <1>6, <1>12
<1>13. ASSUME NEW m \in late, HandleLate(m) PROVE Slots'
  <2>1. UNCHANGED upd /\ (flag' => flag)
    BY <1>13 DEF HandleLate, HandleRequest, StoreStatus, fileVars
  <2>2. QED
    BY <1>12, <2>1
<1>14. ASSUME Start \/ Beat \/ StopReport \/ Publish \/ DeleteDevice \/ Signal \/ BeatDies \/ UNCHANGED vars
       PROVE  Slots'
  <2>1. UNCHANGED upd /\ (flag' => flag)
    BY <1>14 DEF Start, Beat, StopReport, Publish, DeleteDevice, Signal, BeatDies, vars, wasVars, fileVars
  <2>2. QED
    BY <1>12, <2>1
<1>15. ASSUME NEW t \in Threads, TimeOut(t) \/ TimeOutEarly(t) \/ Unknown(t) \/ Lost(t) PROVE Slots'
  <2>1. UNCHANGED <<upd, flag>>
    BY <1>15 DEF TimeOut, TimeOutEarly, NextAttempt, Unknown, Lost, wasVars, fileVars
  <2>2. QED
    BY <1>12, <2>1
<1>16. ASSUME (\E ok \in BOOLEAN : SenderResult(ok)) \/ (\E n \in 0..QueueMax : SenderPolls(n)) PROVE Slots'
  <2>1. UNCHANGED <<upd, flag>>
    BY <1>16 DEF SenderResult, SenderPolls, wasVars, fileVars
  <2>2. QED
    BY <1>12, <2>1
<1>17. QED
  BY <1>2, <1>3, <1>4, <1>8, <1>9, <1>10, <1>11, <1>13, <1>14, <1>15, <1>16
     DEF Next, Step, Event, Client, Update, RequestUpdate, RequestGroupUpdate

-----------------------------------------------------------------------------
(* The files are of one version *)

(* A download writes a .tmp file of its own thread. *)
LEMMA WholeDownload == ASSUME FilesOK, Whole, NEW u \in Updaters, Download(u) PROVE Whole'
<1>1. /\ upd[u].pc = "get" /\ upd[u].i \in 1..Files /\ UNCHANGED <<disk, latest>>
      /\ \A j \in 1..Files : tmp'[j] = IF j = upd[u].i THEN latest ELSE tmp[j]
      /\ \A v \in Updaters \ {u} : upd'[v] = upd[v]
      /\ IF upd[u].i = Files THEN upd'[u].pc = "put" /\ upd'[u].i = 1
                             ELSE upd'[u].pc = "get" /\ upd'[u].i = upd[u].i + 1
  BY DownloadStep DEF Download
<1>2. TmpOwned'
  <2>1. SUFFICES ASSUME NEW j \in 1..Files, tmp'[j] # Null
                 PROVE  \E v \in Updaters : \/ upd'[v].pc = "get" /\ upd'[v].i > j
                                            \/ upd'[v].pc = "put" /\ upd'[v].i <= j
    BY DEF TmpOwned
  <2>2. CASE j <= upd[u].i
    BY <1>1, <2>2, ConstantsAssumption
  <2>3. CASE ~ (j <= upd[u].i)
    <3>1. PICK v \in Updaters : \/ upd[v].pc = "get" /\ upd[v].i > j
                                \/ upd[v].pc = "put" /\ upd[v].i <= j
      BY <1>1, <2>1, <2>3 DEF Whole, TmpOwned
    <3>2. v # u
      BY <1>1, <2>3, <3>1
    <3>3. QED
      BY <1>1, <3>1, <3>2
  <2>4. QED
    BY <2>2, <2>3
<1>3. OneVersion'
  BY <1>1 DEF Whole, OneVersion
<1>4. (\E v \in Updaters : upd[v].pc = "put") => \E v \in Updaters : upd'[v].pc = "put"
  BY <1>1
<1>5. QED
  BY <1>1, <1>2, <1>3, <1>4 DEF Whole

(* A replacement puts one more file of the new version in place. *)
LEMMA WholeReplace == ASSUME FilesOK, Whole, NEW u \in Updaters, Replace(u) PROVE Whole'
<1>1. /\ upd[u].pc = "put" /\ upd[u].i \in 1..Files /\ tmp[upd[u].i] # Null /\ UNCHANGED latest
      /\ \A j \in 1..Files : tmp'[j] = IF j = upd[u].i THEN Null ELSE tmp[j]
      /\ \A j \in 1..Files : disk'[j] = IF j = upd[u].i THEN tmp[j] ELSE disk[j]
      /\ \A v \in Updaters \ {u} : upd'[v] = upd[v]
      /\ IF upd[u].i = Files THEN upd'[u].pc = "restart"
                             ELSE upd'[u].pc = "put" /\ upd'[u].i = upd[u].i + 1
  BY ReplaceStep
<1>2. TmpOwned'
  <2>1. SUFFICES ASSUME NEW j \in 1..Files, tmp'[j] # Null
                 PROVE  \E v \in Updaters : \/ upd'[v].pc = "get" /\ upd'[v].i > j
                                            \/ upd'[v].pc = "put" /\ upd'[v].i <= j
    BY DEF TmpOwned
  <2>2. j # upd[u].i /\ tmp[j] # Null
    BY <1>1, <2>1
  <2>3. PICK v \in Updaters : \/ upd[v].pc = "get" /\ upd[v].i > j
                              \/ upd[v].pc = "put" /\ upd[v].i <= j
    BY <2>2 DEF Whole, TmpOwned
  <2>4. CASE v = u
    <3>1. upd[u].i <= j /\ upd[u].i # Files /\ upd[u].i + 1 <= j
      BY <1>1, <2>2, <2>3, <2>4, ConstantsAssumption
    <3>2. QED
      BY <1>1, <3>1
  <2>5. QED
    BY <1>1, <2>3, <2>4
<1>3. tmp[upd[u].i] = latest /\ disk'[upd[u].i] = latest
  BY <1>1 DEF Whole, OneVersion
<1>4. \A v \in Updaters : upd'[v].pc = "put" => \A j \in 1..Files : j < upd'[v].i => disk'[j] = latest
  <2>1. ASSUME NEW v \in Updaters, upd'[v].pc = "put", NEW j \in 1..Files, j < upd'[v].i
        PROVE  disk'[j] = latest
    <3>1. CASE j = upd[u].i
      BY <1>3, <3>1
    <3>2. CASE j # upd[u].i
      <4>1. upd[v].pc = "put" /\ j < upd[v].i
        BY <1>1, <2>1, <3>2
      <4>2. QED
        BY <1>1, <3>2, <4>1 DEF Whole, OneVersion
    <3>3. QED
      BY <3>1, <3>2
  <2>2. QED
    BY <2>1
<1>5. OneVersion'
  BY <1>1, <1>4 DEF Whole, OneVersion
<1>6. CASE upd[u].i = Files
  <2>1. ASSUME NEW j \in 1..Files PROVE disk'[j] = latest
    <3>1. CASE j = Files
      BY <1>3, <1>6, <3>1
    <3>2. CASE j # Files
      <4>1. j < upd[u].i
        BY <1>6, <3>2, ConstantsAssumption
      <4>2. QED
        BY <1>1, <1>6, <3>2, <4>1 DEF Whole, OneVersion
    <3>3. QED
      BY <3>1, <3>2
  <2>2. QED
    BY <1>2, <1>5, <2>1 DEF Whole
<1>7. CASE upd[u].i # Files
  BY <1>1, <1>2, <1>5, <1>7 DEF Whole
<1>8. QED
  BY <1>6, <1>7

(* The steps that leave the files in BASE_DIR alone: threads may leave     *)
(* their stage, with their .tmp files, or start.                           *)
LEMMA WholeKept ==
    ASSUME FilesOK, Whole, NEW u, UNCHANGED <<disk, latest>>,
           \A v \in Updaters : v # u => upd'[v] = upd[v],
           u \in Updaters => upd[u].pc # "put" /\ upd'[u].pc # "put",
           \A j \in 1..Files : tmp'[j] = tmp[j] \/ tmp'[j] = Null,
           u \in Updaters /\ upd[u].pc = "get" => \A j \in 1..Files : j < upd[u].i => tmp'[j] = Null
    PROVE  Whole'
<1>1. TmpOwned'
  <2>1. SUFFICES ASSUME NEW j \in 1..Files, tmp'[j] # Null
                 PROVE  \E v \in Updaters : \/ upd'[v].pc = "get" /\ upd'[v].i > j
                                            \/ upd'[v].pc = "put" /\ upd'[v].i <= j
    BY DEF TmpOwned
  <2>2. PICK v \in Updaters : \/ upd[v].pc = "get" /\ upd[v].i > j
                              \/ upd[v].pc = "put" /\ upd[v].i <= j
    BY <2>1 DEF Whole, TmpOwned
  <2>3. v # u
    <3>1. v = u => j < upd[u].i
      BY <2>2 DEF FilesOK, Stage
    <3>2. QED
      BY <2>1, <2>2, <3>1
  <2>4. QED
    BY <2>2, <2>3
<1>2. OneVersion'
  BY DEF Whole, OneVersion
<1>3. (\E v \in Updaters : upd[v].pc = "put") => \E v \in Updaters : upd'[v].pc = "put"
  OBVIOUS
<1>4. QED
  BY <1>1, <1>2, <1>3 DEF Whole

(* What has mixed the files once is remembered. *)
LEMMA ForgoneGrows == ASSUME [Next]_vars PROVE forgone \subseteq forgone'
BY DEF Next, Step, Event, Client, Update, vars, Start, Beat, StopReport, Exit, Crash, ProcessEnds, Handle,
   HandleLate, TimeOut, TimeOutEarly, NextAttempt, Acknowledged, Unknown, Lost, Publish, RequestUpdate,
   RequestGroupUpdate, FlagUpdate, DeleteDevice, SenderResult, SenderPolls, DownloadFails, Abandon,
   Download, Replace, ReplaceFails, RestartService, Signal, BeatDies

(* The files are of one version, for every step that does not mix them. *)
LEMMA WholeStep ==
    ASSUME FilesOK, CallsOK, Slots, Clean => Whole, [Next]_vars, Clean'
    PROVE  Whole'
<1>1. Whole
  BY ForgoneGrows DEF Clean
<1>2. ASSUME NEW u \in Updaters, DownloadFails(u) PROVE Whole'
  <2>1. upd[u].pc = "get" /\ upd[u].i - 1 \in Int /\ upd[u].i \in Int /\ Abandon(u, upd[u].i - 1, "download")
    BY <1>2 DEF DownloadFails, FilesOK, Stage
  <2>2. /\ UNCHANGED <<disk, latest>>
        /\ \A j \in 1..Files : tmp'[j] = IF j <= upd[u].i - 1 THEN Null ELSE tmp[j]
        /\ upd'[u].pc = "idle" /\ \A v \in Updaters \ {u} : upd'[v] = upd[v]
    BY <2>1, AbandonStep
  <2>3. /\ \A j \in 1..Files : tmp'[j] = tmp[j] \/ tmp'[j] = Null
        /\ \A j \in 1..Files : j < upd[u].i => tmp'[j] = Null
    BY <2>1, <2>2
  <2>4. QED
    BY <1>1, <2>1, <2>2, <2>3, WholeKept
<1>3. ASSUME NEW u \in Updaters, ReplaceFails(u) PROVE FALSE
  BY <1>3 DEF ReplaceFails, Abandon, Clean
<1>4. ASSUME NEW u \in Updaters, RestartService(u) PROVE Whole'
  <2>1. /\ upd[u].pc = "restart" /\ upd'[u].pc = "idle" /\ \A v \in Updaters \ {u} : upd'[v] = upd[v]
        /\ UNCHANGED <<disk, latest, tmp>>
    BY <1>4 DEF RestartService, FilesOK, NotUpdating
  <2>2. QED
    BY <1>1, <2>1, WholeKept
<1>5. ASSUME NEW t \in Threads, Acknowledged(t) PROVE Whole'
  <2>1. UNCHANGED <<disk, latest, tmp>>
    BY <1>5 DEF Acknowledged
  <2>2. CASE UNCHANGED upd
    BY <1>1, <2>1, <2>2 DEF Whole, TmpOwned, OneVersion
  <2>3. CASE ~ UNCHANGED upd
    <3> DEFINE free == CHOOSE u \in Updaters : u \notin Active
    <3>1. t \in Ordered /\ upd' = [upd EXCEPT ![free] = [pc |-> "get", i |-> 1]]
      BY <1>5, <2>3 DEF Acknowledged, Ordered
    <3>2. free \in Updaters /\ free \notin Active
      BY <3>1, FreeUpdater
    <3> HIDE DEF free
    <3>3. /\ upd[free].pc = "idle" /\ upd'[free].pc = "get"
          /\ \A v \in Updaters : v # free => upd'[v] = upd[v]
      BY <3>1, <3>2 DEF Active, FilesOK
    <3>4. QED
      BY <1>1, <2>1, <3>3, WholeKept
  <2>4. QED
    BY <2>2, <2>3
<1>6. ASSUME \A u \in Updaters : ~ HasDownloads(u)
      PROVE  /\ \A j \in 1..Files : tmp[j] = Null
             /\ \A i, j \in 1..Files : disk[i] = disk[j]
  <2>1. \A u \in Updaters : upd[u].pc # "put" /\ (upd[u].pc = "get" => ~ (upd[u].i > 1))
    BY <1>6 DEF HasDownloads
  <2>2. ASSUME NEW j \in 1..Files, tmp[j] # Null PROVE FALSE
    <3>1. PICK u \in Updaters : upd[u].pc = "get" /\ upd[u].i > j
      BY <1>1, <2>1, <2>2 DEF Whole, TmpOwned
    <3>2. upd[u].i > 1
      BY <3>1 DEF FilesOK, Stage
    <3>3. QED
      BY <2>1, <3>1, <3>2
  <2>3. QED
    BY <1>1, <2>1, <2>2 DEF Whole
<1>7. ASSUME \A u \in Updaters : ~ HasDownloads(u), UNCHANGED <<tmp, disk>>,
             \A u \in Updaters : upd'[u].pc # "put"
      PROVE  Whole'
  <2>1. TmpOwned' /\ OneVersion'
    BY <1>6, <1>7 DEF TmpOwned, OneVersion
  <2>2. QED
    BY <1>6, <1>7, <2>1 DEF Whole
<1>8. ASSUME Publish PROVE Whole'
  <2>1. UNCHANGED <<tmp, disk, upd>> /\ \A u \in Updaters : ~ HasDownloads(u)
    BY <1>8 DEF Publish, Clean
  <2>2. QED
    BY <1>7, <2>1 DEF HasDownloads
<1>9. ASSUME Exit \/ Crash PROVE Whole'
  <2>1. /\ UNCHANGED <<tmp, disk>> /\ Active = {}
        /\ upd' = [u \in Updaters |-> NotUpdating]
    BY <1>9 DEF Exit, Crash, ProcessEnds, Clean
  <2>2. \A u \in Updaters : ~ HasDownloads(u)
    BY <2>1 DEF HasDownloads, Active
  <2>3. QED
    BY <1>7, <2>1, <2>2 DEF NotUpdating
<1>10. ASSUME UNCHANGED <<tmp, disk, latest, upd>> PROVE Whole'
  BY <1>1, <1>10 DEF Whole, TmpOwned, OneVersion
<1>11. QED
  BY <1>1, <1>2, <1>3, <1>4, <1>5, <1>8, <1>9, <1>10, WholeDownload, WholeReplace DEF Next, Step, Event,
     Client, Update, vars, fileVars, Start, Beat, StopReport, Handle, HandleLate, TimeOut, TimeOutEarly,
     NextAttempt, Unknown, Lost, RequestUpdate, RequestGroupUpdate, FlagUpdate, DeleteDevice,
     SenderResult, SenderPolls, Signal, BeatDies

-----------------------------------------------------------------------------
(* The theorems *)

(* The inductive invariant holds at the start. *)
LEMMA InitInv == Init => IInv
<1> SUFFICES ASSUME Init PROVE IInv
  OBVIOUS
<1>1. DaemonOK /\ RowOK
  BY DEF Init, DaemonOK, RowOK
<1>2. StatusOK
  BY ConstantsAssumption DEF Init, StatusOK, Fresh, Unreported, Fields
<1>3. CallsOK
  BY IdleOK DEF Init, CallsOK
<1>4. FilesOK
  BY ConstantsAssumption DEF Init, FilesOK, Stage, NotUpdating
<1>5. Slots
  <2>1. Active = {} /\ Ordered = {} /\ ~ flag
    BY DEF Init, Active, Ordered, NotUpdating, Idle
  <2>2. QED
    BY <2>1, FS_EmptySet, ConstantsAssumption DEF Slots
<1>6. Whole
  BY DEF Init, Whole, TmpOwned, OneVersion, NotUpdating
<1>7. QED
  BY <1>1, <1>2, <1>3, <1>4, <1>5, <1>6 DEF IInv

(* The inductive invariant, for every step. *)
LEMMA StepInv == IInv /\ [Next]_vars => IInv'
<1> SUFFICES ASSUME IInv, [Next]_vars PROVE IInv'
  OBVIOUS
<1>1. /\ DaemonOK /\ StatusOK /\ CallsOK /\ RowOK /\ FilesOK /\ Slots
      /\ Clean => Whole
  BY DEF IInv
<1>2. DaemonOK' /\ StatusOK' /\ RowOK' /\ FilesOK'
  BY <1>1, DaemonStep, StatusStep, RowStep, FilesStep
<1>3. CallsOK'
  BY <1>1, CallStep, CallsStep
<1>4. Slots'
  BY <1>1, SlotsStep
<1>5. Clean' => Whole'
  BY <1>1, WholeStep
<1>6. QED
  BY <1>2, <1>3, <1>4, <1>5 DEF IInv

(* The inductive invariant holds in every state. *)
LEMMA Inductive == Spec => []IInv
BY InitInv, StepInv, PTL DEF Spec

(* Every state of the specification is well typed; the flag is never set   *)
(* for a device that has no row.                                           *)
THEOREM TypeCorrect == Spec => []TypeOK
<1>1. IInv => TypeOK
  <2> SUFFICES ASSUME IInv PROVE TypeOK
    OBVIOUS
  <2>1. \A t \in Threads : /\ call[t].kind \in {"idle", "reg", "hb", "last"}
                           /\ call[t].tries \in 0..RetryMax
                           /\ call[t].kind = "idle" <=> call[t].at = "idle"
    BY DEF IInv, CallsOK, CallOK
  <2>2. \A u \in Updaters : upd[u].pc \in {"get", "put"} => upd[u].i \in 1..Files
    BY NextStage DEF IInv
  <2>3. QED
    BY <2>1, <2>2 DEF IInv, TypeOK, DaemonOK, StatusOK, RowOK, FilesOK
<1>2. QED
  BY <1>1, Inductive, PTL

(* The files of the daemon are of one version, for any number of files and *)
(* of _self_update threads at once, unless one of the three things that    *)
(* can mix them has happened or a thread is among its replacements.        *)
THEOREM FilesAlwaysWhole == Spec => []FilesWhole
<1>1. IInv => FilesWhole
  BY DEF IInv, Whole, Clean, FilesWhole
<1>2. QED
  BY <1>1, Inductive, PTL

-----------------------------------------------------------------------------
(* What the WAS shows *)

(* The threads whose request carries the field, and whether the row has    *)
(* what counts as reported.                                                *)
Carriers(f) == {t \in Threads : Carries(call[t].body, f)}
Shown(f) == row # NoRow /\ row[f] = prev[f]

(* The last report of a field, of which no other request is under way, is  *)
(* in the row or on its way there.                                         *)
Told(f) ==
    /\ \A m \in late : ~ Carries(m.body, f)
    /\ \A t \in Carriers(f) : call[t].body[f] = prev[f]
    /\ \A s, t \in Carriers(f) : s = t
    /\ Shown(f) \/ \E t \in Carriers(f) : call[t].at = "way"

Reported(f) == prev[f] = Null \/ f \in unsure \/ Told(f)

Reporting == forgone \cap {"removed"} = {} => \A f \in Fields : Reported(f)

(* What counts as reported is near to what _collect_status last saw. *)
SeenNear ==
    /\ DOMAIN seen = Fields /\ seen.queue \in 0..QueueMax
    /\ prev.queue = Null \/ prev.queue \in 0..QueueMax
    /\ \A f \in Fields : prev[f] = Null \/ Near(f, prev[f], seen[f])

(* Nothing is reported before the registration is over. *)
Registering ==
    /\ call["hb"].kind # "reg"
    /\ call["main"].kind = "reg" <=> main = "register"
    /\ main \in {"off", "failed", "register"} => prev = Unreported /\ call["hb"] = Idle
    /\ main \in {"off", "failed"} => call["main"] = Idle
    /\ \A t \in Threads : /\ call[t].kind = "idle" => call[t].body = <<>>
                          /\ call[t].kind = "reg" => Carries(call[t].body, "version") /\ call[t].at # "unknown"
    /\ \A m \in late : m.kind = "reg" => Carries(m.body, "version")

ViewInv == Reporting /\ SeenNear /\ Registering

(* A value is near itself. *)
LEMMA NearItself == ASSUME NEW f, NEW a, f = "queue" => a \in Int PROVE Near(f, a, a)
BY ConstantsAssumption DEF Near, Distance

(* A step that has nothing to do with the reports. *)
Apart ==
    /\ UNCHANGED <<prev, seen, call, late, row, unsure>>
    /\ main' = main \/ (main = "run" /\ main' = "stop")

(* Every step is about the reports or apart. *)
LEMMA StatusSteps ==
    ASSUME [Next]_vars
    PROVE  \/ Start \/ Beat \/ StopReport \/ Exit \/ Crash \/ DeleteDevice \/ Apart
           \/ \E t \in Threads : \/ Handle(t) \/ Lost(t) \/ TimeOut(t) \/ TimeOutEarly(t)
                                 \/ Acknowledged(t) \/ Unknown(t)
           \/ \E m \in late : HandleLate(m)
<1>1. ASSUME NEW u \in Updaters, Update(u) \/ DownloadFails(u) PROVE Apart
  BY <1>1 DEF Update, Apart, DownloadFails, Abandon, Download, Replace, ReplaceFails, RestartService,
     StopStatus, daemonVars, statusVars, wasVars
<1>2. ASSUME BeatDies \/ Signal \/ FlagUpdate \/ Publish \/ UNCHANGED vars PROVE Apart
  BY <1>2 DEF BeatDies, Signal, StopStatus, FlagUpdate, Publish, Apart, daemonVars, statusVars, wasVars, vars
<1>3. ASSUME NEW ok \in BOOLEAN, SenderResult(ok) PROVE Apart
  BY <1>3 DEF SenderResult, Apart, daemonVars, wasVars
<1>4. ASSUME NEW n \in 0..QueueMax, SenderPolls(n) PROVE Apart
  BY <1>4 DEF SenderPolls, Apart, daemonVars, wasVars
<1>5. QED
  BY <1>1, <1>2, <1>3, <1>4 DEF Next, Step, Event, Client, RequestUpdate, RequestGroupUpdate

(* What counts as reported is near to what was seen, for every step. *)
LEMMA SeenStep == ASSUME StatusOK, SeenNear, [Next]_vars PROVE SeenNear'
<1>1. ASSUME prev' = Unreported, DOMAIN seen' = Fields, seen'.queue = 0 PROVE SeenNear'
  BY <1>1, ConstantsAssumption DEF SeenNear, Unreported, Fields
<1>2. ASSUME NEW c, DOMAIN c = Fields, c.queue \in 0..QueueMax, prev' = c, seen' = c PROVE SeenNear'
  BY <1>2, NearItself, ConstantsAssumption DEF SeenNear, Fields
<1>3. ASSUME Start PROVE SeenNear'
  BY <1>1, <1>3 DEF Start, Fresh, Fields
<1>4. ASSUME Beat PROVE SeenNear'
  <2>1. /\ prev' = [f \in Fields |-> IF Dirty(f) THEN cur[f] ELSE prev[f]] /\ seen' = cur
    BY <1>4 DEF Beat, Collect
  <2>2. ASSUME NEW f \in Fields, prev'[f] # Null PROVE Near(f, prev'[f], seen'[f])
    <3>1. CASE Dirty(f)
      BY <2>1, <3>1, NearItself DEF StatusOK, Fields
    <3>2. CASE ~ Dirty(f) /\ f # "queue"
      BY <2>1, <3>2 DEF Dirty, Near
    <3>3. CASE ~ Dirty(f) /\ f = "queue"
      BY <2>1, <2>2, <3>3, ConstantsAssumption DEF Dirty, Near, Distance, StatusOK, SeenNear
    <3>4. QED
      BY <3>1, <3>2, <3>3
  <2>3. prev'.queue = Null \/ prev'.queue \in 0..QueueMax
    BY <2>1 DEF StatusOK, SeenNear, Fields
  <2>4. QED
    BY <2>1, <2>2, <2>3 DEF SeenNear, StatusOK
<1>5. ASSUME StopReport PROVE SeenNear'
  BY <1>2, <1>5 DEF StopReport, StatusOK
<1>6. ASSUME Exit \/ Crash PROVE SeenNear'
  BY <1>1, <1>6 DEF Exit, Crash, ProcessEnds, Fresh, Fields
<1>7. ASSUME NEW t \in Threads, Unknown(t) PROVE SeenNear'
  <2>1. CASE call[t].kind = "last"
    BY <1>7, <2>1 DEF Unknown, SeenNear, Near, statusVars
  <2>2. CASE call[t].kind # "last"
    <3>1. DOMAIN cur' = Fields /\ cur'.queue \in 0..QueueMax /\ prev' = cur' /\ seen' = cur'
      BY <1>7, <2>2 DEF Unknown, StatusOK, Fields
    <3>2. QED
      BY <1>2, <3>1
  <2>3. QED
    BY <2>1, <2>2
<1>8. ASSUME UNCHANGED <<prev, seen>> PROVE SeenNear'
  BY <1>8 DEF SeenNear
<1>9. QED
  BY <1>3, <1>4, <1>5, <1>6, <1>7, <1>8, StatusSteps DEF statusVars,
     Handle, HandleLate, Lost, TimeOut, TimeOutEarly, NextAttempt, Acknowledged, DeleteDevice, Apart

(* Registration, for every step. *)
LEMMA RegisteringStep == ASSUME CallsOK, Registering, [Next]_vars PROVE Registering'
<1> USE DEF Threads
<1>1. DOMAIN call = Threads /\ \A t \in Threads : CallOK(call[t])
  BY DEF CallsOK
<1>2. ASSUME Start PROVE Registering'
  <2>1. call'["main"].kind = "reg" /\ Carries(call'["main"].body, "version") /\ call'["hb"] = call["hb"]
    BY <1>1, <1>2 DEF Start, Post, Carries
  <2>2. call["hb"] = Idle /\ call'["main"].at = "way"
    BY <1>1, <1>2 DEF Start, Post, Registering
  <2>3. QED
    BY <1>2, <2>1, <2>2 DEF Start, Registering
<1>3. ASSUME Beat \/ StopReport PROVE Registering'
  BY <1>1, <1>3 DEF Beat, StopReport, Post, Registering, daemonVars
<1>4. ASSUME Exit \/ Crash PROVE Registering'
  <2>1. /\ call' = [t \in Threads |-> Idle] /\ main' # "register" /\ prev' = Unreported
    BY <1>4 DEF Exit, Crash, ProcessEnds
  <2>2. PICK M \in SUBSET {[kind |-> call[t].kind, body |-> call[t].body] :
                               t \in {s \in Threads : call[s].at = "way"}} : late' = late \cup M
    BY <1>4, Zenon DEF Exit, Crash, ProcessEnds
  <2>3. \A m \in M : \E t \in Threads : m.kind = call[t].kind /\ m.body = call[t].body
    BY <2>2
  <2>4. \A m \in late' : m.kind = "reg" => Carries(m.body, "version")
    BY <2>2, <2>3 DEF Registering
  <2>5. QED
    BY <2>1, <2>4 DEF Registering, Idle
<1>5. ASSUME NEW t \in Threads, Handle(t) \/ Lost(t) PROVE Registering'
  <2>1. PICK at : call' = [call EXCEPT ![t].at = at] /\ (call[t].kind = "reg" => at # "unknown")
    BY <1>5 DEF Handle, Lost, Answer
  <2>2. UNCHANGED <<main, prev, late>> /\ call[t].at # "idle"
    BY <1>5 DEF Handle, Lost, daemonVars, statusVars
  <2>3. \A s \in Threads : call'[s].kind = call[s].kind /\ call'[s].body = call[s].body
    BY <1>1, <2>1 DEF CallOK
  <2>4. \A s \in Threads : call[s] = Idle => t # s /\ call'[s] = Idle
    BY <1>1, <2>1, <2>2 DEF Idle
  <2>5. \A s \in Threads : call'[s].kind = "reg" => call'[s].at # "unknown"
    BY <1>1, <2>1, <2>3 DEF CallOK, Registering
  <2>6. QED
    BY <2>2, <2>3, <2>4, <2>5 DEF Registering
<1>6. ASSUME NEW t \in Threads, NextAttempt(t), call[t].at # "idle",
             \A m \in late' : m \in late \/ m = [kind |-> call[t].kind, body |-> call[t].body]
      PROVE  Registering'
  <2>1. prev' = prev /\ t \in {"main", "hb"}
    BY <1>6 DEF NextAttempt, statusVars
  <2>2. CASE call[t].tries < RetryMax
    <3>1. /\ call' = [call EXCEPT ![t].tries = @ + 1, ![t].at = "way"] /\ main' = main
      BY <1>6, <2>2 DEF NextAttempt, daemonVars
    <3>2. \A s \in Threads : call'[s].kind = call[s].kind /\ call'[s].body = call[s].body
      BY <1>1, <3>1 DEF CallOK
    <3>3. \A s \in Threads : call[s] = Idle => t # s /\ call'[s] = Idle
      BY <1>1, <1>6, <3>1 DEF Idle
    <3>4. \A s \in Threads : call'[s].kind = "reg" => call'[s].at # "unknown"
      BY <1>1, <3>1, <3>2 DEF CallOK, Registering
    <3>5. QED
      BY <1>6, <2>1, <3>1, <3>2, <3>3, <3>4 DEF Registering
  <2>3. CASE ~ (call[t].tries < RetryMax)
    <3>1. call' = [call EXCEPT ![t] = Idle] /\ (main' = main \/ main' \in {"run", "exit"})
      BY <1>6, <2>3 DEF NextAttempt, Over
    <3>2. call[t].kind = "reg" => main' = "run"
      BY <1>6, <2>3 DEF NextAttempt, Over
    <3>3. QED
      BY <1>1, <1>6, <2>1, <3>1, <3>2 DEF Registering, Idle
  <2>4. QED
    BY <2>2, <2>3
<1>7. ASSUME NEW t \in Threads, TimeOut(t) \/ TimeOutEarly(t) PROVE Registering'
  BY <1>6, <1>7 DEF TimeOut, TimeOutEarly
<1>8. ASSUME NEW t \in Threads, Acknowledged(t) PROVE Registering'
  <2>1. /\ call' = [call EXCEPT ![t] = Idle] /\ (main' = main \/ main' \in {"run", "exit"})
        /\ (call[t].kind = "reg" => main' = "run") /\ UNCHANGED <<prev, late>>
    BY <1>8 DEF Acknowledged, Over, statusVars
  <2>2. t \in {"main", "hb"} /\ call'[t] = Idle /\ \A s \in Threads \ {t} : call'[s] = call[s]
    BY <1>1, <2>1
  <2>3. call[t] # Idle
    BY <1>8 DEF Acknowledged, Idle
  <2>4. CASE t = "main"
    BY <2>1, <2>2, <2>3, <2>4 DEF Registering, Idle
  <2>5. CASE t = "hb"
    BY <2>1, <2>2, <2>3, <2>5 DEF Registering, Idle
  <2>6. QED
    BY <2>2, <2>4, <2>5
<1>9. ASSUME NEW t \in Threads, Unknown(t) PROVE Registering'
  <2>1. CASE call[t].kind = "last"
    <3>1. /\ call' = [call EXCEPT ![t] = Idle] /\ (main' = main \/ main' = "exit") /\ UNCHANGED <<prev, late>>
      BY <1>9, <2>1 DEF Unknown, Over, statusVars
    <3>2. QED
      BY <1>1, <2>1, <3>1 DEF Registering, Idle
  <2>2. CASE call[t].kind # "last"
    <3>1. PICK body : call' = [call EXCEPT ![t] = [kind |-> "last", body |-> body, tries |-> 1, at |-> "way"]]
      BY <1>9, <2>2 DEF Unknown, Post
    <3>2. main' = main /\ late' = late /\ call[t].at = "unknown"
      BY <1>9, <2>2 DEF Unknown, daemonVars
    <3>3. main \notin {"off", "failed", "register"}
      BY <1>1, <3>2 DEF Registering, Idle
    <3>4. QED
      BY <1>1, <3>1, <3>2, <3>3 DEF Registering
  <2>3. QED
    BY <2>1, <2>2
<1>10. ASSUME NEW m \in late, HandleLate(m) PROVE Registering'
  BY <1>10 DEF HandleLate, Registering, daemonVars, statusVars
<1>11. ASSUME Apart PROVE Registering'
  BY <1>11 DEF Apart, Registering
<1>12. ASSUME DeleteDevice PROVE Registering'
  BY <1>12 DEF DeleteDevice, Registering, daemonVars, statusVars
<1>13. QED
  BY <1>2, <1>3, <1>4, <1>5, <1>7, <1>8, <1>9, <1>10, <1>11, <1>12, StatusSteps

(* A field that is told of stays so when only one call changes, and its    *)
(* request is neither lost on its way nor changed.                         *)
LEMMA ToldKept ==
    ASSUME NEW f \in Fields, NEW t \in Threads, Told(f), UNCHANGED <<prev, row>>,
           \A s \in Threads \ {t} : call'[s] = call[s],
           \A m \in late' : m \in late \/ ~ Carries(m.body, f),
           ~ Carries(call[t].body, f) => ~ Carries(call'[t].body, f),
           Carries(call[t].body, f) =>
              \/ call'[t].body = call[t].body /\ (call[t].at = "way" => call'[t].at = "way")
              \/ ~ Carries(call'[t].body, f) /\ call[t].at # "way"
    PROVE  Told(f)'
<1>1. Carriers(f)' = Carriers(f) \/ (Carriers(f)' = Carriers(f) \ {t} /\ call[t].at # "way")
  BY DEF Carriers
<1>2. ASSUME NEW s \in Carriers(f)' PROVE s \in Carriers(f) /\ call'[s].body = call[s].body
  BY <1>1, <1>2 DEF Carriers
<1>3. \A s \in Carriers(f)' : call'[s].body[f] = prev'[f]
  BY <1>2 DEF Told
<1>4. \A r, s \in Carriers(f)' : r = s
  BY <1>2 DEF Told
<1>5. Shown(f)' \/ \E s \in Carriers(f)' : call'[s].at = "way"
  <2>1. CASE Shown(f)
    BY <2>1 DEF Shown
  <2>2. CASE \E s \in Carriers(f) : call[s].at = "way"
    BY <1>1, <2>2 DEF Carriers
  <2>3. QED
    BY <2>1, <2>2 DEF Told
<1>6. QED
  BY <1>3, <1>4, <1>5 DEF Told

(* A field that is told by a request that has just been begun. *)
LEMMA ToldByPost ==
    ASSUME CallsOK, NEW f \in Fields, NEW t \in Threads, NEW kind, NEW body, Post(t, kind, body),
           f \in DOMAIN body, body[f] = prev'[f], late' = late, f \notin unsure'
    PROVE  Told(f)'
<1>1. \A s \in Threads \ {t} : call'[s] = call[s] /\ ~ Carries(call[s].body, f)
  BY DEF Post, CallsOK
<1>2. call'[t].body = body /\ call'[t].at = "way"
  BY DEF Post, CallsOK
<1>3. \A m \in late : ~ Carries(m.body, f)
  BY DEF Post
<1>4. Carriers(f)' = {t}
  BY <1>1, <1>2 DEF Carriers, Carries
<1>5. QED
  BY <1>2, <1>3, <1>4 DEF Told

(* The reports, for every step. *)
LEMMA ReportingStep ==
    ASSUME StatusOK, CallsOK, RowOK, Reporting, Registering, [Next]_vars PROVE Reporting'
<1>1. DOMAIN call = Threads /\ \A t \in Threads : CallOK(call[t])
  BY DEF CallsOK
<1>2. SUFFICES ASSUME forgone' \cap {"removed"} = {}, NEW f \in Fields, prev'[f] # Null, f \notin unsure'
               PROVE  Told(f)'
  BY DEF Reporting, Reported
<1>3. Reported(f)
  BY <1>2, ForgoneGrows DEF Reporting
<1>4. ASSUME prev' = Unreported PROVE FALSE
  BY <1>2, <1>4 DEF Unreported
<1>5. ASSUME Start \/ Exit \/ Crash PROVE Told(f)'
  BY <1>4, <1>5 DEF Start, Exit, Crash, ProcessEnds
<1>6. ASSUME Beat PROVE Told(f)'
  <2>1. /\ prev'[f] = (IF Dirty(f) THEN cur[f] ELSE prev[f])
        /\ Post("hb", "hb", Changes) /\ call["hb"] = Idle /\ UNCHANGED <<late, row>>
    BY <1>6 DEF Beat, Collect, wasVars
  <2>2. CASE Dirty(f)
    <3>1. f \in DOMAIN Changes /\ Changes[f] = prev'[f]
      BY <2>1, <2>2 DEF Changes
    <3>2. QED
      BY <1>2, <2>1, <3>1, ToldByPost DEF Threads
  <2>3. CASE ~ Dirty(f)
    <3>1. ~ Carries(call["hb"].body, f) /\ ~ Carries(call'["hb"].body, f)
      <4>1. call["hb"].body = <<>> /\ call'["hb"].body = Changes
        BY <1>1, <2>1 DEF Idle, Post, Threads
      <4>2. f \notin DOMAIN Changes
        BY <2>3 DEF Changes
      <4>3. f \notin DOMAIN <<>>
        BY DEF Fields
      <4>4. QED
        BY <4>1, <4>2, <4>3 DEF Carries
    <3>2. Told(f)
      BY <1>2, <1>3, <2>1, <2>3 DEF Reported, Post
    <3>3. Carriers(f)' = Carriers(f) /\ \A t \in Carriers(f) : call'[t] = call[t]
      BY <1>1, <2>1, <3>1 DEF Carriers, Post, Threads
    <3>4. QED
      BY <2>1, <2>3, <3>2, <3>3 DEF Told, Shown
  <2>4. QED
    BY <2>2, <2>3
<1>7. ASSUME StopReport PROVE Told(f)'
  <2>1. prev' = cur /\ Post("main", "last", cur) /\ late' = late
    BY <1>7 DEF StopReport
  <2>2. f \in DOMAIN cur
    BY DEF StatusOK
  <2>3. QED
    BY <1>2, <2>1, <2>2, ToldByPost DEF Threads
<1>8. ASSUME NEW t \in Threads, Handle(t) PROVE Told(f)'
  <2>1. /\ call[t].at = "way" /\ call' = [call EXCEPT ![t].at = Answer(call[t].kind)]
        /\ HandleRequest(call[t].kind, call[t].body) /\ UNCHANGED <<prev, late>>
        /\ unsure' = IF Answer(call[t].kind) = "unknown" THEN unsure \cup DOMAIN call[t].body
                     ELSE unsure \ Settled(t)
    BY <1>8 DEF Handle, statusVars
  <2>2. call[t].kind # "reg"
    BY <1>2, <2>1 DEF Registering, Threads, Unreported
  <2>3. /\ \A s \in Threads : call'[s].body = call[s].body
        /\ \A s \in Threads \ {t} : call'[s] = call[s]
    BY <1>1, <2>1 DEF CallOK
  <2>4. Carriers(f)' = Carriers(f)
    BY <2>3 DEF Carriers
  <2>5. CASE row = NoRow
    <3>1. row' = row /\ ~ Carries(call[t].body, f) /\ f \notin unsure
      BY <1>2, <2>1, <2>2, <2>5 DEF HandleRequest, StoreStatus, Answer, Carries
    <3>2. QED
      BY <1>2, <1>3, <2>1, <2>3, <3>1, ToldKept DEF Reported
  <2>6. CASE row # NoRow
    <3>1. unsure' = unsure \ Settled(t)
      BY <2>1, <2>2, <2>6 DEF Answer
    <3>2. row' = [g \in Fields |-> IF Carries(call[t].body, g) /\ call[t].body[g] # Null
                                   THEN call[t].body[g] ELSE row[g]]
      BY <2>1, <2>2, <2>6 DEF HandleRequest, StoreStatus
    <3>3. row' # NoRow
      <4>1. DOMAIN row' = Fields /\ Fields # {} /\ DOMAIN NoRow = {}
        BY <3>2 DEF Fields, NoRow
      <4>2. QED
        BY <4>1
    <3>4. CASE Carries(call[t].body, f)
      <4>1. /\ call[t].body[f] = prev[f]
            /\ \A s \in Threads \ {t} : ~ Carries(call[s].body, f)
            /\ \A m \in late : ~ Carries(m.body, f)
        BY <1>2, <1>3, <2>1, <2>2, <3>1, <3>4 DEF Reported, Told, Carriers, Settled
      <4>2. Shown(f)'
        BY <1>2, <2>1, <3>2, <3>3, <3>4, <4>1 DEF Shown
      <4>3. Carriers(f) = {t}
        BY <3>4, <4>1 DEF Carriers
      <4>4. QED
        BY <2>1, <2>3, <2>4, <4>1, <4>2, <4>3 DEF Told
    <3>5. CASE ~ Carries(call[t].body, f)
      <4>1. Told(f)
        BY <1>2, <1>3, <2>1, <3>1, <3>5 DEF Reported, Settled, Carries
      <4>2. row'[f] = row[f] /\ \A s \in Carriers(f) : call'[s] = call[s]
        BY <2>3, <3>2, <3>5 DEF Carriers
      <4>3. QED
        BY <2>1, <2>4, <2>6, <3>3, <4>1, <4>2 DEF Told, Shown
    <3>6. QED
      BY <3>4, <3>5
  <2>7. QED
    BY <2>5, <2>6
<1>9. ASSUME NEW m \in late, HandleLate(m) PROVE Told(f)'
  <2>1. /\ HandleRequest(m.kind, m.body) /\ late' = late \ {m} /\ UNCHANGED <<prev, call>>
        /\ ~ Carries(m.body, f) /\ Told(f)
    BY <1>2, <1>3, <1>9 DEF HandleLate, statusVars, Carries, Reported
  <2>2. row # NoRow => row' # NoRow /\ row'[f] = row[f]
    <3> SUFFICES ASSUME row # NoRow PROVE row' # NoRow /\ row'[f] = row[f]
      OBVIOUS
    <3>1. DOMAIN row = Fields /\ Fields # {} /\ DOMAIN NoRow = {}
      BY DEF RowOK, Fields, NoRow
    <3>2. CASE m.kind = "reg"
      <4>1. row' = [row EXCEPT !.version = m.body.version] /\ f # "version"
        BY <2>1, <3>2 DEF HandleRequest, RegisterDevice, Registering
      <4>2. DOMAIN row' = Fields /\ row'[f] = row[f]
        BY <3>1, <4>1
      <4>3. QED
        BY <3>1, <4>2
    <3>3. CASE m.kind # "reg"
      <4>1. row' = [g \in Fields |-> IF Carries(m.body, g) /\ m.body[g] # Null THEN m.body[g] ELSE row[g]]
        BY <2>1, <3>3 DEF HandleRequest, StoreStatus
      <4>2. DOMAIN row' = Fields /\ row'[f] = row[f]
        BY <2>1, <4>1
      <4>3. QED
        BY <3>1, <4>2
    <3>4. QED
      BY <3>2, <3>3
  <2>3. QED
    BY <2>1, <2>2 DEF Told, Shown, Carriers
<1>10. ASSUME NEW t \in Threads, Lost(t) PROVE Told(f)'
  <2>1. /\ call' = [call EXCEPT ![t].at = "lost"] /\ UNCHANGED <<prev, row, late>>
        /\ Carries(call[t].body, f) => call[t].at # "way"
        /\ Told(f)
    BY <1>2, <1>3, <1>10 DEF Lost, statusVars, wasVars, Carries, Reported
  <2>2. call'[t].body = call[t].body /\ \A s \in Threads \ {t} : call'[s] = call[s]
    BY <1>1, <2>1 DEF CallOK
  <2>3. QED
    BY <2>1, <2>2, ToldKept
<1>11. ASSUME NEW t \in Threads, call' = [call EXCEPT ![t] = Idle], Told(f), UNCHANGED <<prev, row>>,
              Carries(call[t].body, f) => call[t].at # "way",
              \A m \in late' : m \in late \/ ~ Carries(m.body, f)
       PROVE  Told(f)'
  <2>1. call'[t] = Idle /\ \A s \in Threads \ {t} : call'[s] = call[s]
    BY <1>1, <1>11
  <2>2. ~ Carries(call'[t].body, f)
    BY <2>1 DEF Idle, Carries, Fields
  <2>3. QED
    BY <1>11, <2>1, <2>2, ToldKept
<1>12. ASSUME NEW t \in Threads, NextAttempt(t), Told(f),
              Carries(call[t].body, f) => call[t].at # "way",
              \A m \in late' : m \in late \/ ~ Carries(m.body, f)
       PROVE  Told(f)'
  <2>1. UNCHANGED <<prev, row>>
    BY <1>12 DEF NextAttempt, statusVars, wasVars
  <2>2. CASE call[t].tries < RetryMax
    <3>1. call' = [call EXCEPT ![t].tries = @ + 1, ![t].at = "way"]
      BY <1>12, <2>2 DEF NextAttempt
    <3>2. call'[t].body = call[t].body /\ call'[t].at = "way" /\ \A s \in Threads \ {t} : call'[s] = call[s]
      BY <1>1, <3>1 DEF CallOK
    <3>3. QED
      BY <1>12, <2>1, <3>2, ToldKept
  <2>3. CASE ~ (call[t].tries < RetryMax)
    BY <1>11, <1>12, <2>1, <2>3 DEF NextAttempt
  <2>4. QED
    BY <2>2, <2>3
<1>13. ASSUME NEW t \in Threads, TimeOut(t) PROVE Told(f)'
  BY <1>2, <1>3, <1>12, <1>13 DEF TimeOut, NextAttempt, statusVars, Reported
<1>14. ASSUME NEW t \in Threads, TimeOutEarly(t) PROVE Told(f)'
  <2>1. ~ Carries(call[t].body, f) /\ Told(f)
    BY <1>2, <1>3, <1>14 DEF TimeOutEarly, NextAttempt, statusVars, Reported, Carries
  <2>2. \A m \in late' : m \in late \/ ~ Carries(m.body, f)
    BY <1>14, <2>1 DEF TimeOutEarly
  <2>3. QED
    BY <1>12, <1>14, <2>1, <2>2 DEF TimeOutEarly
<1>15. ASSUME NEW t \in Threads, Acknowledged(t) PROVE Told(f)'
  <2>1. /\ call' = [call EXCEPT ![t] = Idle] /\ call[t].at # "way" /\ UNCHANGED <<prev, row, late>>
        /\ Told(f)
    BY <1>2, <1>3, <1>15 DEF Acknowledged, statusVars, wasVars, Reported
  <2>2. QED
    BY <1>11, <2>1
<1>16. ASSUME DeleteDevice \/ \E t \in Threads : Unknown(t) PROVE FALSE
  BY <1>2, <1>16 DEF DeleteDevice, Unknown
<1>17. ASSUME Apart PROVE Told(f)'
  BY <1>2, <1>3, <1>17 DEF Apart, Reported, Told, Shown, Carriers
<1>18. QED
  BY <1>5, <1>6, <1>7, <1>8, <1>9, <1>10, <1>13, <1>14, <1>15, <1>16, <1>17, StatusSteps

(* The row is near to what the daemon last saw, in every field of which no *)
(* report was lost or is under way: for any threshold, any number of       *)
(* attempts and of requests that come late.                                *)
THEOREM ViewAlwaysNear == Spec => []ViewIsNear
<1> DEFINE J == IInv /\ ViewInv
<1>1. Init => ViewInv
  <2> SUFFICES ASSUME Init PROVE ViewInv
    OBVIOUS
  <2>1. Reporting
    BY DEF Init, Reporting, Reported, Unreported
  <2>2. SeenNear
    BY ConstantsAssumption DEF Init, SeenNear, Unreported, Fresh, Fields
  <2>3. Registering
    BY DEF Init, Registering, Idle, Threads
  <2>4. QED
    BY <2>1, <2>2, <2>3 DEF ViewInv
<1>2. J /\ [Next]_vars => J'
  BY StepInv, SeenStep, RegisteringStep, ReportingStep DEF ViewInv, IInv
<1>3. J => ViewIsNear
  <2> SUFFICES ASSUME J, row # NoRow, forgone \cap {"removed"} = {}, NEW f \in Fields, f \notin unsure,
                      prev[f] # Null, \A t \in Threads : ~ Carries(call[t].body, f)
               PROVE  Near(f, row[f], seen[f])
    BY DEF ViewIsNear
  <2>1. Told(f)
    BY DEF ViewInv, Reporting, Reported
  <2>2. row[f] = prev[f]
    BY <2>1 DEF Told, Shown, Carriers
  <2>3. QED
    BY <2>2 DEF ViewInv, SeenNear
<1>4. QED
  BY <1>1, <1>2, <1>3, InitInv, PTL DEF Spec
=============================================================================
