------------------------------ MODULE Metrics ------------------------------
(***************************************************************************)
(* The rollup of log rows into buckets and the judgement of the buckets    *)
(* (was/app/service_monitor.py: _rollup, _detect, _eval_bucket; the        *)
(* thresholds of alert_settings.py), for one device.                       *)
(*                                                                         *)
(* Every worker process runs the same cycle: it loads the settings and     *)
(* aggregates the rows that are in ftp_logs (one statement, one snapshot), *)
(* writes the buckets over those of service_metrics and commits, then      *)
(* judges the buckets that have just closed.  Rows reach ftp_logs some     *)
(* time after they were logged.  What becomes of an alert is the business  *)
(* of AlertEpisodes.                                                       *)
(*                                                                         *)
(* Time is in ticks.  Rates and speeds are whole multiples of 1/Unit, so   *)
(* that the quotients, medians and deviations of small counts are exact.   *)
(***************************************************************************)
EXTENDS Integers, FiniteSets, Functions

CONSTANTS
    Rows,         \* rows of ftp_logs that may come
    Row,          \* Row[r]: [action, status, muted, bytes, secs]; bytes > 0: a large file
    Workers,      \* WAS worker processes
    Bucket,       \* alert_bucket_minutes
    Interval,     \* alert_rollup_interval_sec
    Window,       \* the two hours that are aggregated anew
    BaseGap,      \* the hour that is kept out of the baseline
    Lag,          \* bound: from the time a cycle is due to its end
    Skew,         \* _CWD_CLOCK_SKEW
    ProbeWindow,  \* _CWD_PROBE_WINDOW
    Cfg,          \* thresholds: a record, as alert_settings.load gives it
    SlowPctMin,   \* _SLOW_PCT_MIN_BUCKETS
    Past,         \* service_metrics of the days before: a tuple of buckets
    Pasts,        \* other such tuples, for the properties of the judgement
    MaxRows,      \* bound on the rows logged
    LastLog,      \* bound on their time
    MaxDelay,     \* bound on their delay
    MaxTime,      \* bound on the clock
    MaxMutings    \* bound on the changes of the lists of ignored accounts and paths

Unit == 240

ASSUME ConstantsAssumption ==
    /\ {Bucket, Interval, Window, Lag} \subseteq Nat \ {0}
    /\ Interval + 2 * Bucket + Lag <= Window /\ Interval + 2 * Bucket <= BaseGap
    /\ Lag < Bucket
    /\ {MaxTime, MaxMutings} \subseteq Nat
    /\ IsFiniteSet(Rows) /\ Workers # {}
    /\ \A r \in Rows : Row[r].bytes \in Nat /\ Row[r].secs \in Nat
    /\ Cfg.min_samples \in Nat \ {0} /\ {Cfg.mad_k, Cfg.fail_rate_floor} \subseteq Nat
    /\ \A past \in Pasts :
         /\ IsFiniteSet(DOMAIN past)
         /\ \A i \in DOMAIN past : past[i].transfers \in Nat /\ past[i].fails \in Nat

VARIABLES
    now,      \* the clock
    at,       \* at[r]: log_time of row r, once logged
    since,    \* since[r]: when row r came into ftp_logs, once there
    muting,   \* whether the ignore lists hold the muted accounts and paths
    mutings,  \* how often the lists were changed
    metrics,  \* service_metrics of these hours: bucket -> counts
    alerts,   \* service_alerts
    worker,   \* worker[w]: its place in the cycle, when it is due, what it aggregated
    judged    \* history: rows that were counted when their bucket was judged

vars == <<now, at, since, muting, mutings, metrics, alerts, worker, judged>>

-----------------------------------------------------------------------------
(* (1) Rollup *)

Logs == DOMAIN since

(* Mutant: the time is not rounded down. *)
BucketOfUnrounded(r) == at[r]

(* date_bin *)
BucketOf(r) == at[r] - (at[r] % Bucket)

(* cwd_probe_sql: the path of this cwd_fail was created soon after, or     *)
(* something was uploaded into it at about the same time.  All rows here   *)
(* are about one path, and transfers are uploads into it.  The outer       *)
(* bounds on the time only serve the choice of partitions: they follow     *)
(* from these.                                                             *)
Probe(r) == \E q \in Logs :
    \/ /\ Row[q].action = "mkdir"
       /\ at[q] >= at[r] - Skew /\ at[q] < at[r] + ProbeWindow
    \/ /\ Row[q].action = "transfer" /\ Row[q].status = "success"
       /\ at[q] >= at[r] - Skew /\ at[q] < at[r] + Skew

Counted(r) == ~ (muting /\ Row[r].muted)

Sum(f, S) == FoldFunctionOnSet(LAMBDA x, y : x + y, 0, f, S)

(* One line of the aggregation over the rows S of a bucket; rows is no     *)
(* column, it tells which rows are in the counts.                          *)
Counts(S) ==
    LET Of(action) == {r \in S : Row[r].action = action}
        Failed(action) == {r \in Of(action) : Row[r].status = "fail"}
        Big == {r \in Of("transfer") \ Failed("transfer") : Row[r].bytes > 0}
    IN [transfers |-> Cardinality(Of("transfer")),
        fails     |-> Cardinality({r \in Failed("transfer") : Counted(r)}),
        big       |-> Cardinality(Big),
        bytes     |-> Sum([r \in Big |-> Row[r].bytes], Big),
        secs      |-> Sum([r \in Big |-> Row[r].secs], Big),
        logins    |-> Cardinality(Of("login")),
        loginFails |-> Cardinality(Failed("login")),
        cwd       |-> Cardinality({r \in Of("cwd_fail") : Counted(r) /\ ~ Probe(r)}),
        rows      |-> S]

RollupWindow == {r \in Logs : at[r] >= now - Window}

Aggregated == [b \in {BucketOf(r) : r \in RollupWindow} |->
                  Counts({r \in RollupWindow : BucketOf(r) = b})]

-----------------------------------------------------------------------------
(* (2) Judgement.  A sample is a function from some set to numbers.        *)

(* sorted(xs)[k - 1] *)
Kth(xs, k) == CHOOSE v \in Range(xs) :
    /\ Cardinality({i \in DOMAIN xs : xs[i] < v}) < k
    /\ Cardinality({i \in DOMAIN xs : xs[i] <= v}) >= k

(* Mutant: the greater half of an odd sample is one too far. *)
MedianOffByOne(xs) ==
    LET n == Cardinality(DOMAIN xs)
        m == n \div 2
    IN IF n % 2 = 1 THEN Kth(xs, IF n > m + 1 THEN m + 2 ELSE m + 1)
       ELSE (Kth(xs, m) + Kth(xs, m + 1)) \div 2

Median(xs) ==
    LET n == Cardinality(DOMAIN xs)
        m == n \div 2
    IN IF n % 2 = 1 THEN Kth(xs, m + 1) ELSE (Kth(xs, m) + Kth(xs, m + 1)) \div 2

Dist(x, y) == IF x < y THEN y - x ELSE x - y
Greater(x, y) == IF x < y THEN y ELSE x
Lesser(x, y) == IF x < y THEN x ELSE y

Mad(xs) == Median([i \in DOMAIN xs |-> Dist(xs[i], Median(xs))])

(* _percentile, with p in hundredths *)
Percentile(xs, p) ==
    LET n == Cardinality(DOMAIN xs)
    IN Kth(xs, Lesser((n * p) \div 100, n - 1) + 1)

(* Rates and counts, of which a high value is bad. *)
HighThreshold(xs, floor) ==
    IF DOMAIN xs = {} THEN floor
    ELSE Greater(Median(xs) + Cfg.mad_k * Mad(xs), floor)

High(metric, value, xs, floor, criticalFrom) ==
    LET thr == HighThreshold(xs, floor) IN
    IF value <= thr \/ value = 0 THEN {}
    ELSE {[metric |-> metric,
           severity |-> IF value >= Greater(2 * thr, criticalFrom) THEN "critical" ELSE "warning"]}

Rate(part, whole) == (Unit * part) \div whole

(* Mutant: the bucket must have fewer rows than the minimum, or as many. *)
FailRateFlipped(c, base) ==
    LET Enough(x) == x.transfers > 0 /\ x.transfers <= Cfg.min_samples
    IN IF ~ Enough(c) THEN {}
       ELSE High("fail_rate", Rate(c.fails, c.transfers),
                 [i \in {j \in DOMAIN base : Enough(base[j])} |-> Rate(base[i].fails, base[i].transfers)],
                 Cfg.fail_rate_floor, Unit \div 2)

FailRate(c, base) ==
    LET Enough(x) == x.transfers >= Cfg.min_samples
    IN IF ~ Enough(c) THEN {}
       ELSE High("fail_rate", Rate(c.fails, c.transfers),
                 [i \in {j \in DOMAIN base : Enough(base[j])} |-> Rate(base[i].fails, base[i].transfers)],
                 Cfg.fail_rate_floor, Unit \div 2)

LoginFailRate(c, base) ==
    LET Enough(x) == x.logins >= Cfg.min_login_samples
    IN IF ~ Enough(c) THEN {}
       ELSE High("login_fail_rate", Rate(c.loginFails, c.logins),
                 [i \in {j \in DOMAIN base : Enough(base[j])} |-> Rate(base[i].loginFails, base[i].logins)],
                 Cfg.login_fail_rate_floor, (7 * Unit) \div 10)

CwdFailSpike(c, base) ==
    LET Enough(x) == x.cwd >= Cfg.min_cwd_samples
    IN IF ~ Enough(c) THEN {}
       ELSE High("cwd_fail_spike", Unit * c.cwd,
                 [i \in {j \in DOMAIN base : Enough(base[j])} |-> Unit * base[i].cwd],
                 Unit * Cfg.cwd_fail_floor, 0)

(* Low speed is bad; judged against a baseline only, and not when the      *)
(* files are of another size than usual.                                   *)
Throughput(c, base) ==
    LET Enough(x) == x.big >= Cfg.min_large_samples /\ x.secs > 0
        usable == {j \in DOMAIN base : Enough(base[j])}
        speeds == [i \in usable |-> Rate(base[i].bytes, base[i].secs)]
        sizes == [i \in usable |-> Rate(base[i].bytes, base[i].big)]
        speed == Rate(c.bytes, c.secs)
        size == Rate(c.bytes, c.big)
        med == Median(speeds)
        mixed == 4 * size < Median(sizes) \/ size > 4 * Median(sizes)
        drop == Lesser(med - Cfg.mad_k * Mad(speeds),
                       (med * (100 - Cfg.throughput_drop)) \div 100)
        low == IF Cardinality(usable) >= SlowPctMin
               THEN Lesser(drop, Percentile(speeds, Cfg.throughput_slow_pct)) ELSE drop
    IN IF ~ Enough(c) \/ usable = {} THEN {}
       ELSE IF mixed \/ speed >= low THEN {}
       ELSE {[metric |-> "throughput", severity |-> IF 2 * speed < low THEN "critical" ELSE "warning"]}

(* _eval_bucket *)
EvalBucket(c, base) ==
    FailRate(c, base) \cup Throughput(c, base) \cup LoginFailRate(c, base) \cup CwdFailSpike(c, base)

(* The past buckets have the indices 1, 2, ...; those of these hours come  *)
(* with minus signs.                                                       *)
Baseline(past) ==
    LET recent == {- b - 1 : b \in {x \in DOMAIN metrics : x < now - BaseGap}}
    IN [i \in DOMAIN past \cup recent |-> IF i \in recent THEN metrics[- i - 1] ELSE past[i]]

(* Mutant: a margin of one bucket. *)
CandidatesNarrow == {b \in DOMAIN metrics : b >= now - (Interval + Bucket) /\ b <= now - Bucket}

Candidates == {b \in DOMAIN metrics : b >= now - (Interval + 2 * Bucket) /\ b <= now - Bucket}

-----------------------------------------------------------------------------
(* The cycle of a worker *)

Rollup(w) ==
    /\ worker[w].pc = "sleep" /\ now >= worker[w].due
    /\ worker' = [worker EXCEPT ![w].pc = "write", ![w].agg = Aggregated]
    /\ UNCHANGED <<now, at, since, muting, mutings, metrics, alerts, judged>>

(* ON CONFLICT DO UPDATE, and the commit *)
Upsert(w) ==
    LET new == worker[w].agg IN
    /\ worker[w].pc = "write"
    /\ metrics' = [b \in DOMAIN new \cup DOMAIN metrics |-> IF b \in DOMAIN new THEN new[b] ELSE metrics[b]]
    /\ worker' = [worker EXCEPT ![w].pc = "judge", ![w].agg = <<>>]
    /\ UNCHANGED <<now, at, since, muting, mutings, alerts, judged>>

Verdicts == UNION {{[bucket |-> b, metric |-> v.metric, severity |-> v.severity] :
                        v \in EvalBucket(metrics[b], Baseline(Past))} : b \in Candidates}

(* A bucket that has an alert for a metric keeps it: DO NOTHING. *)
NewAlerts == {v \in Verdicts : ~ \E a \in alerts : a.bucket = v.bucket /\ a.metric = v.metric}

Detect(w) ==
    /\ worker[w].pc = "judge"
    /\ alerts' = alerts \cup NewAlerts
    /\ judged' = judged \cup UNION {metrics[b].rows : b \in Candidates}
    /\ worker' = [worker EXCEPT ![w].pc = "sleep", ![w].due = now + Interval]
    /\ UNCHANGED <<now, at, since, muting, mutings, metrics>>

-----------------------------------------------------------------------------
(* Environment *)

(* A device logs a row ... *)
Log(r) ==
    /\ r \notin DOMAIN at /\ now <= LastLog /\ Cardinality(DOMAIN at) < MaxRows
    /\ at' = [q \in DOMAIN at \cup {r} |-> IF q = r THEN now ELSE at[q]]
    /\ UNCHANGED <<now, since, muting, mutings, metrics, alerts, worker, judged>>

(* ... which the write buffer of a worker stores some time later. *)
Arrive(r) ==
    /\ r \in DOMAIN at \ Logs /\ now <= at[r] + MaxDelay
    /\ since' = [q \in Logs \cup {r} |-> IF q = r THEN now ELSE since[q]]
    /\ UNCHANGED <<now, at, muting, mutings, metrics, alerts, worker, judged>>

(* The lists of ignored accounts and paths are saved. *)
SaveIgnoreLists ==
    /\ mutings < MaxMutings
    /\ muting' = ~ muting /\ mutings' = mutings + 1
    /\ UNCHANGED <<now, at, since, metrics, alerts, worker, judged>>

(* A cycle is over Lag after it was due. *)
Tick ==
    /\ now < MaxTime
    /\ \A w \in Workers : now < worker[w].due + Lag
    /\ now' = now + 1
    /\ UNCHANGED <<at, since, muting, mutings, metrics, alerts, worker, judged>>

Init ==
    /\ now = 0 /\ at = <<>> /\ since = <<>>
    /\ muting = FALSE /\ mutings = 0
    /\ metrics = <<>>
    /\ alerts = {} /\ judged = {}
    /\ worker \in [Workers -> {[pc |-> "sleep", due |-> d, agg |-> <<>>] : d \in 0..Interval}]

Next ==
    \/ \E w \in Workers : Rollup(w) \/ Upsert(w) \/ Detect(w)
    \/ \E r \in Rows : Log(r) \/ Arrive(r)
    \/ SaveIgnoreLists \/ Tick

Spec == Init /\ [][Next]_vars

-----------------------------------------------------------------------------
(* Properties *)

Columns == {"transfers", "fails", "big", "bytes", "secs", "logins", "loginFails", "cwd"}

TypeOK ==
    /\ now \in 0..MaxTime /\ muting \in BOOLEAN /\ mutings \in 0..MaxMutings
    /\ Logs \subseteq DOMAIN at /\ DOMAIN at \subseteq Rows
    /\ \A r \in Logs : at[r] <= since[r] /\ since[r] <= now
    /\ \A b \in DOMAIN metrics :
         /\ b % Bucket = 0 /\ metrics[b].rows \subseteq {r \in Logs : BucketOf(r) = b}
         /\ \A c \in Columns : metrics[b][c] \in Nat
    /\ \A w \in Workers : worker[w].pc \in {"sleep", "write", "judge"}
    /\ \A a, c \in alerts : a.bucket = c.bucket /\ a.metric = c.metric => a = c
    /\ judged \subseteq Logs

(* Rows that come late are still taken into account: a row that is in the  *)
(* database when its bucket closes has been counted in a judgement of the  *)
(* bucket by the time it is judged no more, however the cycles of several  *)
(* workers overlap and whichever older counts one writes over the other's. *)
LateRowsJudged ==
    \A r \in Logs :
        /\ since[r] <= BucketOf(r) + 2 * Bucket - 3 * Lag + 1
        /\ now > BucketOf(r) + Interval + 2 * Bucket
        => r \in judged

(* Bad buckets in the baseline hide nothing as long as they are fewer than *)
(* half: when most of the baseline has no failure, a failure rate above    *)
(* the floor is an alert.                                                  *)
MinorityHidesNothing ==
    \A b \in DOMAIN metrics, past \in Pasts :
        LET base == Baseline(past)
            c == metrics[b]
            usable == {i \in DOMAIN base : base[i].transfers >= Cfg.min_samples}
        IN /\ c.transfers >= Cfg.min_samples
           /\ Rate(c.fails, c.transfers) > Cfg.fail_rate_floor
           /\ 2 * Cardinality({i \in usable : base[i].fails = 0}) > Cardinality(usable)
           => \E v \in EvalBucket(c, base) : v.metric = "fail_rate"

Level(verdicts) ==
    IF verdicts = {} THEN 0 ELSE IF \E v \in verdicts : v.severity = "warning" THEN 1 ELSE 2

(* One more failed transfer never makes a bucket look better: a bucket     *)
(* judged again after a late failure is judged at least as severely.       *)
WorseIsNotQuieter ==
    \A b \in DOMAIN metrics, past \in Pasts :
        LET worse == [metrics[b] EXCEPT !.transfers = @ + 1, !.fails = @ + 1]
        IN Level(FailRate(worse, Baseline(past))) >= Level(FailRate(metrics[b], Baseline(past)))

-----------------------------------------------------------------------------
(* service_monitor.py:9-11: the rollup may be run again and again, by any  *)
(* worker, and the result stays right: what was counted in a bucket stays  *)
(* counted as long as the rows are there.                                  *)
RerunsAgree ==
    [][\A b \in DOMAIN metrics : metrics[b].rows \subseteq metrics'[b].rows]_vars
=============================================================================
