--------------------------- MODULE AlertEpisodes ---------------------------
(***************************************************************************)
(* Alert episodes and their notices (was/app/service_monitor.py, with      *)
(* dispatch of was/app/notifier.py), for one device and one metric: every  *)
(* worker process of the WAS runs run_once again and again on the same     *)
(* database.                                                               *)
(*                                                                         *)
(* Time is counted in buckets; now is the bucket in progress.  Whether a   *)
(* closed bucket is abnormal is the environment's choice at each look,     *)
(* because late logs change what the rollup has counted.                   *)
(*                                                                         *)
(* A step is a statement or a transaction.  Rows that a worker has locked  *)
(* with FOR UPDATE stay locked until its commit, or the end of its cycle   *)
(* when nothing is committed; other workers skip them (SKIP LOCKED) or     *)
(* wait.  _detect commits once for all the buckets it records; here each   *)
(* is a step, which only adds interleavings.  While there is no episode    *)
(* row FOR UPDATE locks nothing: a worker may then look, see none, and     *)
(* write its alert after another worker has committed the first row.       *)
(***************************************************************************)
EXTENDS Integers, FiniteSets

CONSTANTS
    Workers,       \* worker processes
    MaxBucket,     \* bound: buckets that may be abnormal are 1..MaxBucket
    MaxNow,        \* bound on time
    Window,        \* closed buckets _detect looks back at
    QuietBuckets,  \* _RECOVERY_QUIET_BUCKETS
    MinStreak,     \* min_streak of the metric
    MaxCrashes,    \* bound on crashes
    DispatchFails, \* whether a dispatch may fail, or notices be muted
    NoWorker       \* the owner of a row lock nobody holds

ASSUME ConstantsAssumption ==
    /\ IsFiniteSet(Workers) /\ NoWorker \notin Workers
    /\ MaxBucket \in Nat /\ MaxNow \in Nat /\ Window \in Nat
    /\ QuietBuckets \in Nat /\ MinStreak \in Nat \ {0} /\ MaxCrashes \in Nat
    /\ DispatchFails \in BOOLEAN

Buckets == 1..MaxBucket
Severities == {"warning", "critical"}

VARIABLES
    now,         \* the bucket in progress
    alerts,      \* service_alerts: recorded buckets; gen is history
    ep,          \* the row of service_alert_episodes; gen is history
    pc,          \* where each worker is in run_once
    blind,       \* workers whose SELECT has found no episode row
    taken,       \* alert rows each worker has locked
    epLock,      \* the worker that has locked the episode row
    configured,  \* whether a notification channel is set
    sent,        \* history: how often each bucket's alert was dispatched
    skipped,     \* history: alerts marked although there was no channel
    recovered,   \* history: episodes whose recovery was dispatched
    raced,       \* history: the first row was inserted by two workers at once
    crashes

vars == <<now, alerts, ep, pc, blind, taken, epLock, configured, sent, skipped,
          recovered, raced, crashes>>

(* alert.gen and ep.gen number the episodes; no code reads them. *)
NoAlert == [severity |-> "none", notified |-> TRUE, gen |-> 0]
Recorded == {b \in Buckets : alerts[b] # NoAlert}

(* Before the first alert there is no row: that is an episode closed with  *)
(* nothing to say.                                                         *)
NoEpisode == [open |-> FALSE, count |-> 0, severity |-> "none", last |-> 0,
              notified |-> FALSE, recoveryNotified |-> TRUE, gen |-> 0]

-----------------------------------------------------------------------------
(* _detect *)

(* Mutant: one bucket too late. *)
NotifyLate(prevCount, prevSeverity, severity) == prevCount = MinStreak

(* _should_notify: at the moment the streak is reached, and once more when *)
(* an episode past it turns critical.                                      *)
ShouldNotify(prevCount, prevSeverity, severity) ==
    \/ prevCount + 1 = MinStreak
    \/ prevCount >= MinStreak /\ severity = "critical" /\ prevSeverity # "critical"

(* Mutant: the count of a closed episode goes on. *)
TrackContinued(b, severity) ==
    [ep EXCEPT !.open = TRUE, !.count = @ + 1, !.last = b, !.severity = severity,
               !.recoveryNotified = FALSE, !.gen = IF ep.open THEN @ ELSE @ + 1]

(* Mutant: last_bucket by a CASE with no ELSE, which is NULL. *)
TrackNoElse(b, severity) ==
    [ep EXCEPT !.open = TRUE, !.count = IF ep.open THEN @ + 1 ELSE 1,
               !.last = IF b > @ THEN b ELSE -1]

(* _track_episode's upsert: a closed episode starts again as a new one. *)
Track(b, severity) ==
    [open |-> TRUE,
     count |-> IF ep.open THEN ep.count + 1 ELSE 1,
     severity |-> IF ep.open /\ severity # "critical" THEN ep.severity ELSE severity,
     last |-> IF b > ep.last THEN b ELSE ep.last,
     notified |-> ep.open /\ ep.notified,
     recoveryNotified |-> FALSE,
     gen |-> IF ep.open THEN ep.gen ELSE ep.gen + 1]

(* _track_episode's SELECT ... FOR UPDATE, when there is no row to lock. *)
LookFirst(w) ==
    /\ pc[w] = "detect" /\ w \notin blind
    /\ ep = NoEpisode
    /\ blind' = blind \cup {w}
    /\ UNCHANGED <<now, alerts, ep, pc, taken, epLock, configured, sent, skipped,
                   recovered, raced, crashes>>

(* _record_alert: a bucket already recorded is left alone; a repetition in *)
(* the same episode is recorded as notified.                               *)
Record(w, b, severity) ==
    LET ongoing == ep.open /\ w \notin blind
        prevCount == IF ongoing THEN ep.count ELSE 0
        prevSeverity == IF ongoing THEN ep.severity ELSE "none"
    IN  /\ pc[w] = "detect"
        /\ b < now /\ b >= now - Window
        /\ b \notin Recorded
        /\ epLock = NoWorker
        /\ alerts' = [alerts EXCEPT ![b] =
                         [severity |-> severity,
                          notified |-> ~ ShouldNotify(prevCount, prevSeverity, severity),
                          gen |-> Track(b, severity).gen]]
        /\ ep' = Track(b, severity)
        /\ raced' = (raced \/ (w \in blind /\ ep # NoEpisode))
        /\ blind' = blind \ {w}
        /\ UNCHANGED <<now, pc, taken, epLock, configured, sent, skipped, recovered, crashes>>

Detected(w) ==
    /\ pc[w] = "detect" /\ w \notin blind
    /\ pc' = [pc EXCEPT ![w] = "resolve"]
    /\ UNCHANGED <<blind, raced, now, alerts, ep, taken, epLock, configured, sent, skipped, recovered, crashes>>

(* _resolve_episodes *)
Resolve(w) ==
    /\ pc[w] = "resolve"
    /\ ep' = [ep EXCEPT !.open = @ /\ ep.last + QuietBuckets > now]
    /\ pc' = [pc EXCEPT ![w] = "notify"]
    /\ UNCHANGED <<blind, raced, now, alerts, taken, epLock, configured, sent, skipped, recovered, crashes>>

-----------------------------------------------------------------------------
(* _notify *)

Locked == UNION {taken[w] : w \in Workers}

(* Mutant: the alerts are selected without FOR UPDATE. *)
UnlockedQueue == {b \in Recorded : ~ alerts[b].notified}

(* The alerts to notify that no other worker has locked. *)
Queue == {b \in Recorded : ~ alerts[b].notified} \ Locked

(* UPDATE service_alerts SET notified = TRUE. *)
MarkAlerts(S) == [b \in Buckets |-> IF b \in S THEN [alerts[b] EXCEPT !.notified = TRUE]
                                               ELSE alerts[b]]

(* The SELECT ... FOR UPDATE SKIP LOCKED, and what follows when there is   *)
(* nothing to do or no channel: the alerts are marked all the same.        *)
TakeAlerts(w) ==
    /\ pc[w] = "notify"
    /\ IF Queue # {} /\ configured
       THEN /\ taken' = [taken EXCEPT ![w] = Queue]
            /\ pc' = [pc EXCEPT ![w] = "dispatch"]
            /\ UNCHANGED <<alerts, skipped>>
       ELSE /\ alerts' = MarkAlerts(Queue)
            /\ skipped' = skipped \cup Queue
            /\ pc' = [pc EXCEPT ![w] = "recovery"]
            /\ UNCHANGED taken
    /\ UNCHANGED <<blind, raced, now, ep, epLock, configured, sent, recovered, crashes>>

DispatchOk(w) ==
    /\ pc[w] = "dispatch"
    /\ sent' = [b \in Buckets |-> IF b \in taken[w] THEN sent[b] + 1 ELSE sent[b]]
    /\ pc' = [pc EXCEPT ![w] = "mark"]
    /\ UNCHANGED <<blind, raced, now, alerts, ep, taken, epLock, configured, skipped, recovered, crashes>>

(* Mutant: the result of dispatch is not looked at. *)
DispatchFailMarked(w) ==
    /\ DispatchFails
    /\ pc[w] = "dispatch"
    /\ pc' = [pc EXCEPT ![w] = "mark"]
    /\ UNCHANGED <<blind, raced, now, alerts, ep, taken, epLock, configured, sent, skipped, recovered, crashes>>

(* dispatch returns False: no channel took it, or notices are muted.  The  *)
(* alerts stay to be notified, and locked.                                 *)
DispatchFail(w) ==
    /\ DispatchFails
    /\ pc[w] = "dispatch"
    /\ pc' = [pc EXCEPT ![w] = "recovery"]
    /\ UNCHANGED <<blind, raced, now, alerts, ep, taken, epLock, configured, sent, skipped, recovered, crashes>>

(* _mark_notified with mark_episodes: the episode that is open now, if     *)
(* any, becomes notified.                                                  *)
Mark(w) ==
    /\ pc[w] = "mark"
    /\ alerts' = MarkAlerts(taken[w])
    /\ ep' = [ep EXCEPT !.notified = @ \/ ep.open]
    /\ taken' = [taken EXCEPT ![w] = {}]
    /\ pc' = [pc EXCEPT ![w] = "recovery"]
    /\ UNCHANGED <<blind, raced, now, epLock, configured, sent, skipped, recovered, crashes>>

-----------------------------------------------------------------------------
(* _notify_recovery *)

RecoveryDue == ~ ep.open /\ ep.notified /\ ~ ep.recoveryNotified

(* The end of the cycle: db.close() gives every lock back. *)
EndCycle(w) ==
    /\ pc' = [pc EXCEPT ![w] = "detect"]
    /\ taken' = [taken EXCEPT ![w] = {}]
    /\ epLock' = IF epLock = w THEN NoWorker ELSE epLock

(* Mutant: the episode is read without FOR UPDATE. *)
TakeRecoveryUnlocked(w) ==
    /\ pc[w] = "recovery"
    /\ RecoveryDue /\ epLock = NoWorker /\ configured
    /\ pc' = [pc EXCEPT ![w] = "dispatchRecovery"]
    /\ UNCHANGED <<blind, raced, now, alerts, ep, taken, epLock, configured, sent, skipped, recovered, crashes>>

TakeRecovery(w) ==
    /\ pc[w] = "recovery"
    /\ RecoveryDue /\ epLock = NoWorker /\ configured
    /\ epLock' = w
    /\ pc' = [pc EXCEPT ![w] = "dispatchRecovery"]
    /\ UNCHANGED <<blind, raced, now, alerts, ep, taken, configured, sent, skipped, recovered, crashes>>

(* No recovery to tell, or no channel to tell it. *)
SkipRecovery(w) ==
    /\ pc[w] = "recovery"
    /\ ~ (RecoveryDue /\ epLock = NoWorker /\ configured)
    /\ ep' = IF RecoveryDue /\ epLock = NoWorker
             THEN [ep EXCEPT !.recoveryNotified = TRUE] ELSE ep
    /\ EndCycle(w)
    /\ UNCHANGED <<blind, raced, now, alerts, configured, sent, skipped, recovered, crashes>>

RecoveryOk(w) ==
    /\ pc[w] = "dispatchRecovery"
    /\ recovered' = recovered \cup {ep.gen}
    /\ pc' = [pc EXCEPT ![w] = "markRecovery"]
    /\ UNCHANGED <<blind, raced, now, alerts, ep, taken, epLock, configured, sent, skipped, crashes>>

RecoveryFail(w) ==
    /\ DispatchFails
    /\ pc[w] = "dispatchRecovery"
    /\ EndCycle(w)
    /\ UNCHANGED <<blind, raced, now, alerts, ep, configured, sent, skipped, recovered, crashes>>

MarkRecovery(w) ==
    /\ pc[w] = "markRecovery"
    /\ ep' = [ep EXCEPT !.recoveryNotified = TRUE]
    /\ EndCycle(w)
    /\ UNCHANGED <<blind, raced, now, alerts, configured, sent, skipped, recovered, crashes>>

-----------------------------------------------------------------------------
(* The environment *)

(* A worker dies, or its cycle ends in an exception: nothing it has not    *)
(* committed stays.                                                        *)
Crash(w) ==
    /\ crashes < MaxCrashes
    /\ pc[w] # "detect"
    /\ crashes' = crashes + 1
    /\ EndCycle(w)
    /\ UNCHANGED <<blind, raced, now, alerts, ep, configured, sent, skipped, recovered>>

(* A bucket lasts longer than a cycle takes.  Workers may sit out as many  *)
(* buckets as they like.                                                   *)
Tick ==
    /\ now < MaxNow
    /\ blind = {} /\ \A w \in Workers : pc[w] = "detect"
    /\ now' = now + 1
    /\ UNCHANGED <<blind, raced, alerts, ep, pc, taken, epLock, configured, sent, skipped, recovered, crashes>>

(* The administrator sets or clears the notification channels. *)
Configure ==
    /\ DispatchFails
    /\ configured' = ~ configured
    /\ UNCHANGED <<blind, raced, now, alerts, ep, pc, taken, epLock, sent, skipped, recovered, crashes>>

Init ==
    /\ now = 1
    /\ alerts = [b \in Buckets |-> NoAlert]
    /\ ep = NoEpisode
    /\ pc = [w \in Workers |-> "detect"]
    /\ blind = {}
    /\ taken = [w \in Workers |-> {}]
    /\ epLock = NoWorker
    /\ configured = TRUE
    /\ sent = [b \in Buckets |-> 0]
    /\ skipped = {} /\ recovered = {}
    /\ raced = FALSE /\ crashes = 0

Cycle(w) ==
    \/ LookFirst(w)
    \/ \E b \in Buckets : \E severity \in Severities : Record(w, b, severity)
    \/ Detected(w) \/ Resolve(w)
    \/ TakeAlerts(w) \/ DispatchOk(w) \/ DispatchFail(w) \/ Mark(w)
    \/ TakeRecovery(w) \/ SkipRecovery(w)
    \/ RecoveryOk(w) \/ RecoveryFail(w) \/ MarkRecovery(w)

Next == (\E w \in Workers : Cycle(w) \/ Crash(w)) \/ Tick \/ Configure

Spec == Init /\ [][Next]_vars

-----------------------------------------------------------------------------
(* Properties *)

TypeOK ==
    /\ now \in Nat
    /\ alerts \in [Buckets -> [severity : Severities \cup {"none"}, notified : BOOLEAN,
                               gen : Nat]]
    /\ ep \in [open : BOOLEAN, count : Nat, severity : Severities \cup {"none"},
               last : Nat, notified : BOOLEAN, recoveryNotified : BOOLEAN, gen : Nat]
    /\ pc \in [Workers -> {"detect", "resolve", "notify", "dispatch", "mark",
                           "recovery", "dispatchRecovery", "markRecovery"}]
    /\ taken \in [Workers -> SUBSET Buckets]
    /\ epLock \in Workers \cup {NoWorker}
    /\ configured \in BOOLEAN
    /\ sent \in [Buckets -> Nat]
    /\ skipped \subseteq Buckets
    /\ recovered \subseteq Nat
    /\ blind \subseteq Workers /\ raced \in BOOLEAN
    /\ crashes \in Nat

(* The buckets recorded in an episode. *)
Of(gen) == {b \in Recorded : alerts[b].gen = gen}

(* The episode row sums up its alerts, whatever the order in which two     *)
(* workers record them: as many as alert_count says, the severity is the   *)
(* highest of theirs, last_bucket is not before any.                       *)
EpisodeSumsUp ==
    ep.gen > 0 =>
        /\ ep.count = Cardinality(Of(ep.gen))
        /\ ep.severity = "critical" <=> \E b \in Of(ep.gen) : alerts[b].severity = "critical"
        /\ \A b \in Of(ep.gen) : b <= ep.last

(* An alert is dispatched once: SKIP LOCKED keeps two workers from         *)
(* dispatching it both, and only a crash between dispatch and commit       *)
(* repeats it.                                                             *)
SentOnce == \A b \in Buckets : sent[b] <= 1 + crashes

(* The alerts of an episode that were meant to be told: queued, dispatched *)
(* or marked for want of a channel.                                        *)
Voiced(gen) == {b \in Of(gen) : ~ alerts[b].notified \/ sent[b] > 0 \/ b \in skipped}

(* The episodes so far, but for a first one that two workers began at once. *)
Judged == (IF raced THEN 2 ELSE 1)..ep.gen

(* An episode that lasts is not kept silent and a shorter one is: there is *)
(* an alert to tell exactly when MinStreak buckets are recorded, whoever   *)
(* recorded them and in whichever order, and a second one only to say that *)
(* the episode has become critical.                                        *)
StreakIsVoiced ==
    \A gen \in Judged :
        /\ Voiced(gen) = {} <=> Cardinality(Of(gen)) < MinStreak
        /\ Cardinality(Voiced(gen)) <= 2
        /\ Cardinality(Voiced(gen)) = 2 => \E b \in Voiced(gen) : alerts[b].severity = "critical"

(* While a worker tells a recovery the episode stays closed: no other      *)
(* worker can reopen it or tell it too.                                    *)
RecoveryTruthful ==
    \A w \in Workers :
        pc[w] \in {"dispatchRecovery", "markRecovery"} => ~ ep.open /\ epLock = w

(* There are never more recoveries told than buckets whose alert was       *)
(* dispatched, although an alert may be dispatched late, twice, or to mark *)
(* a later episode.                                                        *)
RecoveriesWithinAlerts ==
    Cardinality(recovered) <= Cardinality({b \in Buckets : sent[b] > 0})
=============================================================================
