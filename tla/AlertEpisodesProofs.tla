------------------------ MODULE AlertEpisodesProofs ------------------------
(* Theorems about AlertEpisodes, for any number of workers and buckets and *)
(* every setting of the streak, the window and the quiet time.             *)
EXTENDS AlertEpisodes, FiniteSetTheorems, TLAPS

AlertRow == [severity : Severities \cup {"none"}, notified : BOOLEAN, gen : Nat]
EpisodeRow == [open : BOOLEAN, count : Nat, severity : Severities \cup {"none"},
               last : Nat, notified : BOOLEAN, recoveryNotified : BOOLEAN, gen : Nat]

(* The environment and the steps that touch neither table. *)
Elsewhere(w) ==
    \/ LookFirst(w) \/ Detected(w) \/ DispatchOk(w) \/ DispatchFail(w)
    \/ TakeRecovery(w) \/ RecoveryOk(w) \/ RecoveryFail(w) \/ Crash(w)

(* What _track_episode writes is an episode row. *)
LEMMA TrackType ==
    ASSUME TypeOK, NEW b \in Buckets, NEW severity \in Severities
    PROVE  Track(b, severity) \in EpisodeRow
BY DEF TypeOK, Track, EpisodeRow, Buckets

(* Marking alerts changes nothing but their mark. *)
LEMMA MarkType ==
    ASSUME TypeOK, NEW S \in SUBSET Buckets
    PROVE  /\ MarkAlerts(S) \in [Buckets -> AlertRow]
           /\ \A b \in Buckets :
                 /\ MarkAlerts(S)[b].severity = alerts[b].severity
                 /\ MarkAlerts(S)[b].gen = alerts[b].gen
                 /\ MarkAlerts(S)[b].notified = (b \in S \/ alerts[b].notified)
BY DEF TypeOK, MarkAlerts, AlertRow

(* The first state is well typed. *)
LEMMA InitType == Init => TypeOK
<1> SUFFICES ASSUME Init PROVE TypeOK
  OBVIOUS
<1>1. NoAlert \in AlertRow /\ NoEpisode \in EpisodeRow
  BY DEF NoAlert, NoEpisode, AlertRow, EpisodeRow
<1>2. alerts \in [Buckets -> AlertRow] /\ ep \in EpisodeRow
  BY <1>1 DEF Init
<1>3. /\ now \in Nat /\ crashes \in Nat /\ sent \in [Buckets -> Nat]
      /\ pc \in [Workers -> {"detect"}] /\ taken \in [Workers -> SUBSET Buckets]
  BY DEF Init
<1>4. /\ epLock = NoWorker /\ configured = TRUE /\ raced = FALSE
      /\ skipped = {} /\ recovered = {} /\ blind = {}
  BY DEF Init
<1>5. QED
  BY <1>2, <1>3, <1>4 DEF TypeOK, AlertRow, EpisodeRow

(* Types, for every step. *)
LEMMA StepType == TypeOK /\ [Next]_vars => TypeOK'
<1> SUFFICES ASSUME TypeOK, [Next]_vars PROVE TypeOK'
  OBVIOUS
<1>1. ASSUME NEW w \in Workers, NEW b \in Buckets, NEW severity \in Severities, Record(w, b, severity)
      PROVE  TypeOK'
  <2>1. Track(b, severity) \in EpisodeRow
    BY TrackType
  <2>2. Track(b, severity).gen \in Nat
    BY <2>1 DEF EpisodeRow
  <2>3. \A prevCount, prevSeverity :
          [severity |-> severity, notified |-> ~ ShouldNotify(prevCount, prevSeverity, severity),
           gen |-> Track(b, severity).gen] \in AlertRow
    BY <2>2 DEF AlertRow, Severities
  <2>4. alerts' \in [Buckets -> AlertRow]
    BY <1>1, <2>3 DEF Record, TypeOK, AlertRow
  <2>5. QED
    BY <1>1, <2>1, <2>4 DEF Record, TypeOK, AlertRow, EpisodeRow
<1>2. ASSUME NEW w \in Workers, Resolve(w) PROVE TypeOK'
  BY <1>2 DEF Resolve, TypeOK
<1>3. ASSUME NEW w \in Workers, TakeAlerts(w) PROVE TypeOK'
  <2>1. Queue \in SUBSET Buckets
    BY DEF Queue, Recorded
  <2>2. MarkAlerts(Queue) \in [Buckets -> AlertRow]
    BY <2>1, MarkType
  <2>3. QED
    BY <1>3, <2>1, <2>2 DEF TakeAlerts, TypeOK, AlertRow
<1>4. ASSUME NEW w \in Workers, Mark(w) PROVE TypeOK'
  <2>1. taken[w] \in SUBSET Buckets
    BY DEF TypeOK
  <2>2. MarkAlerts(taken[w]) \in [Buckets -> AlertRow]
    BY <2>1, MarkType
  <2>3. QED
    BY <1>4, <2>2 DEF Mark, TypeOK, AlertRow
<1>5. ASSUME NEW w \in Workers, SkipRecovery(w) PROVE TypeOK'
  BY <1>5 DEF SkipRecovery, EndCycle, TypeOK
<1>6. ASSUME NEW w \in Workers, MarkRecovery(w) PROVE TypeOK'
  BY <1>6 DEF MarkRecovery, EndCycle, TypeOK
<1>7. ASSUME NEW w \in Workers, Elsewhere(w) PROVE TypeOK'
  <2>1. CASE LookFirst(w) \/ Detected(w)
    BY <2>1 DEF LookFirst, Detected, TypeOK
  <2>2. CASE DispatchOk(w)
    BY <2>2 DEF DispatchOk, TypeOK
  <2>3. CASE DispatchFail(w) \/ TakeRecovery(w)
    BY <2>3 DEF DispatchFail, TakeRecovery, TypeOK
  <2>4. CASE RecoveryOk(w)
    BY <2>4 DEF RecoveryOk, TypeOK
  <2>5. CASE RecoveryFail(w)
    BY <2>5 DEF RecoveryFail, EndCycle, TypeOK
  <2>6. CASE Crash(w)
    BY <2>6 DEF Crash, EndCycle, TypeOK
  <2>7. QED
    BY <1>7, <2>1, <2>2, <2>3, <2>4, <2>5, <2>6 DEF Elsewhere
<1>8. CASE Tick
  BY <1>8 DEF Tick, TypeOK
<1>9. CASE Configure
  BY <1>9 DEF Configure, TypeOK
<1>10. CASE UNCHANGED vars
  BY <1>10 DEF vars, TypeOK
<1>11. QED
  BY <1>1, <1>2, <1>3, <1>4, <1>5, <1>6, <1>7, <1>8, <1>9, <1>10 DEF Next, Cycle, Elsewhere

(* Every state of the specification is well typed. *)
THEOREM TypeCorrect == Spec => []TypeOK
BY InitType, StepType, PTL DEF Spec

-----------------------------------------------------------------------------
(* The inductive invariant *)

(* An alert belongs to an episode that has begun; a bucket without one was *)
(* neither dispatched nor skipped.                                         *)
AlertsBelong ==
    \A b \in Buckets :
        IF alerts[b].severity = "none"
        THEN alerts[b].notified /\ alerts[b].gen = 0 /\ sent[b] = 0 /\ b \notin skipped
        ELSE alerts[b].gen \in 1..ep.gen

OpenHasBegun == ep.open => ep.gen > 0

(* While a worker has seen no episode there is none, or the first one,     *)
(* which is open and too young to be closed.                               *)
BlindFirst ==
    blind # {} => ep.gen = 0 \/ (ep.gen = 1 /\ ep.open /\ ep.last >= now - Window)

(* Locked alerts are to be notified and have one worker; where a worker is *)
(* tells whether it has some, and whether they are dispatched.             *)
LocksHold ==
    /\ \A w \in Workers : \A b \in taken[w] : b \in Recorded /\ ~ alerts[b].notified
    /\ \A v, w \in Workers : v # w => taken[v] \cap taken[w] = {}
    /\ \A w \in Workers :
          /\ pc[w] \in {"detect", "resolve", "notify"} => taken[w] = {}
          /\ pc[w] \in {"dispatch", "mark"} => taken[w] # {}
          /\ pc[w] = "mark" => \A b \in taken[w] : sent[b] > 0

Marking(b) == \E w \in Workers : pc[w] = "mark" /\ b \in taken[w]

(* A dispatch beyond the first is paid for by a crash: an alert that is    *)
(* neither notified nor about to be was dispatched by workers that died.   *)
Paid ==
    \A b \in Buckets :
        /\ sent[b] <= 1 + crashes
        /\ ~ alerts[b].notified /\ ~ Marking(b) => sent[b] <= crashes

RecoveryEarned == \A w \in Workers : pc[w] = "dispatchRecovery" => ep.notified

(* Recoveries told or to be told, and the alerts they may answer to. *)
Owed == recovered \cup {g \in {ep.gen} : ep.notified}
Told == {b \in Buckets : sent[b] > 0 /\ alerts[b].notified}

OwedWithinTold == IsFiniteSet(recovered) /\ Cardinality(Owed) <= Cardinality(Told)

IInv ==
    /\ TypeOK
    /\ AlertsBelong /\ OpenHasBegun
    /\ LocksHold /\ Paid
    /\ EpisodeSumsUp
    /\ RecoveryTruthful /\ RecoveryEarned /\ OwedWithinTold

-----------------------------------------------------------------------------
(* What steps do to the two tables *)

(* A bucket has an alert when its severity is set. *)
LEMMA RecordedBySeverity ==
    ASSUME TypeOK, AlertsBelong
    PROVE  /\ Recorded = {b \in Buckets : alerts[b].severity # "none"}
           /\ \A gen \in Nat \ {0} : Of(gen) = {b \in Buckets : alerts[b].gen = gen}
<1>1. ASSUME NEW b \in Buckets PROVE alerts[b] = NoAlert <=> alerts[b].severity = "none"
  BY DEF TypeOK, AlertsBelong, NoAlert
<1>2. Recorded = {b \in Buckets : alerts[b].severity # "none"}
  BY <1>1 DEF Recorded
<1>3. \A gen \in Nat \ {0} : Of(gen) = {b \in Buckets : alerts[b].gen = gen}
  BY <1>2 DEF Of, AlertsBelong
<1>4. QED
  BY <1>2, <1>3

(* Every step but Record leaves the alerts and the sum of the episode as   *)
(* they are, but for their marks.                                          *)
Quiet ==
    /\ \A b \in Buckets : /\ alerts'[b].severity = alerts[b].severity
                          /\ alerts'[b].gen = alerts[b].gen
                          /\ alerts[b].notified => alerts'[b].notified
    /\ ep'.gen = ep.gen /\ ep'.count = ep.count /\ ep'.severity = ep.severity /\ ep'.last = ep.last
    /\ ep'.open => ep.open
    /\ raced' = raced

(* Every step but Record is quiet. *)
LEMMA QuietStep ==
    ASSUME TypeOK, [Next]_vars
    PROVE  \/ Quiet
           \/ \E w \in Workers, b \in Buckets, severity \in Severities : Record(w, b, severity)
<1>1. ASSUME NEW w \in Workers, Resolve(w) PROVE Quiet
  BY <1>1 DEF Resolve, Quiet, TypeOK
<1>2. ASSUME NEW w \in Workers, TakeAlerts(w) PROVE Quiet
  <2>1. Queue \in SUBSET Buckets
    BY DEF Queue, Recorded
  <2>2. UNCHANGED <<ep, raced>> /\ (alerts' = alerts \/ alerts' = MarkAlerts(Queue))
    BY <1>2 DEF TakeAlerts
  <2>3. CASE alerts' = alerts
    BY <2>2, <2>3 DEF Quiet
  <2>4. CASE alerts' = MarkAlerts(Queue)
    BY <2>1, <2>2, <2>4, MarkType DEF Quiet, TypeOK
  <2>5. QED
    BY <2>2, <2>3, <2>4
<1>3. ASSUME NEW w \in Workers, Mark(w) PROVE Quiet
  <2>1. taken[w] \in SUBSET Buckets
    BY DEF TypeOK
  <2>2. /\ ep'.gen = ep.gen /\ ep'.count = ep.count /\ ep'.severity = ep.severity
        /\ ep'.last = ep.last /\ ep'.open = ep.open
    BY <1>3 DEF Mark, TypeOK
  <2>3. QED
    BY <1>3, <2>1, <2>2, MarkType DEF Mark, Quiet
<1>4. ASSUME NEW w \in Workers, SkipRecovery(w) PROVE Quiet
  BY <1>4 DEF SkipRecovery, Quiet, TypeOK
<1>5. ASSUME NEW w \in Workers, MarkRecovery(w) PROVE Quiet
  BY <1>5 DEF MarkRecovery, Quiet, TypeOK
<1>6. ASSUME UNCHANGED <<alerts, ep, raced>> PROVE Quiet
  BY <1>6 DEF Quiet
<1>7. QED
  BY <1>1, <1>2, <1>3, <1>4, <1>5, <1>6 DEF Next, Cycle, vars, LookFirst, Detected, DispatchOk,
     DispatchFail, TakeRecovery, RecoveryOk, RecoveryFail, Crash, Tick, Configure

(* The parts of Quiet, one by one. *)
LEMMA QuietParts ==
    ASSUME Quiet
    PROVE  /\ \A b \in Buckets : /\ alerts'[b].severity = alerts[b].severity
                                 /\ alerts'[b].gen = alerts[b].gen
           /\ ep'.gen = ep.gen /\ ep'.count = ep.count /\ ep'.severity = ep.severity
           /\ ep'.last = ep.last /\ raced' = raced
BY Zenon DEF Quiet

(* What Record writes. *)
LEMMA RecordWrites ==
    ASSUME TypeOK, AlertsBelong, NEW w \in Workers, NEW b \in Buckets, NEW severity \in Severities,
           Record(w, b, severity)
    PROVE  /\ alerts[b].severity = "none"
           /\ alerts'[b].severity = severity /\ alerts'[b].gen = ep'.gen
           /\ \A c \in Buckets \ {b} : alerts'[c] = alerts[c]
           /\ ep' \in EpisodeRow /\ ep'.open /\ b <= ep'.last /\ ep.last <= ep'.last
           /\ IF ep.open
              THEN /\ ep'.gen = ep.gen /\ ep'.count = ep.count + 1
                   /\ ep'.severity = (IF severity # "critical" THEN ep.severity ELSE severity)
                   /\ ep'.notified = ep.notified
              ELSE /\ ep'.gen = ep.gen + 1 /\ ep'.count = 1 /\ ep'.severity = severity
                   /\ ~ ep'.notified
           /\ UNCHANGED <<now, pc, taken, epLock, configured, sent, skipped, recovered, crashes>>
<1>1. alerts[b].severity = "none"
  BY RecordedBySeverity DEF Record
<1>2. ep' = Track(b, severity) /\ Track(b, severity) \in EpisodeRow
  BY TrackType DEF Record
<1>3. /\ alerts'[b].severity = severity /\ alerts'[b].gen = ep'.gen
      /\ \A c \in Buckets \ {b} : alerts'[c] = alerts[c]
  BY DEF Record, TypeOK
<1>4. /\ ep'.open /\ b <= ep'.last /\ ep.last <= ep'.last
      /\ IF ep.open
         THEN /\ ep'.gen = ep.gen /\ ep'.count = ep.count + 1
              /\ ep'.severity = (IF severity # "critical" THEN ep.severity ELSE severity)
              /\ ep'.notified = ep.notified
         ELSE /\ ep'.gen = ep.gen + 1 /\ ep'.count = 1 /\ ep'.severity = severity
              /\ ~ ep'.notified
  BY <1>2 DEF Track, TypeOK, Buckets
<1>5. QED
  BY <1>1, <1>2, <1>3, <1>4 DEF Record

(* Only alerts that are recorded are dispatched or skipped. *)
LEMMA UntoldStep ==
    ASSUME TypeOK, LocksHold, [Next]_vars, NEW b \in Buckets, b \notin Recorded
    PROVE  sent'[b] = sent[b] /\ (b \in skipped' => b \in skipped)
<1>1. ASSUME NEW w \in Workers, TakeAlerts(w) PROVE sent'[b] = sent[b] /\ (b \in skipped' => b \in skipped)
  BY <1>1 DEF TakeAlerts, Queue
<1>2. ASSUME NEW w \in Workers, DispatchOk(w) PROVE sent'[b] = sent[b] /\ (b \in skipped' => b \in skipped)
  BY <1>2 DEF DispatchOk, LocksHold, TypeOK
<1>3. CASE UNCHANGED <<sent, skipped>>
  BY <1>3
<1>4. QED
  BY <1>1, <1>2, <1>3 DEF Next, Cycle, vars, LookFirst, Record, Detected, Resolve, DispatchFail, Mark,
     TakeRecovery, SkipRecovery, RecoveryOk, RecoveryFail, MarkRecovery, Crash, Tick, Configure

-----------------------------------------------------------------------------
(* The alerts and the sum of the episode *)

(* Alerts belong to an episode that has begun, for every step. *)
LEMMA BelongStep ==
    ASSUME TypeOK, AlertsBelong, OpenHasBegun, LocksHold, [Next]_vars
    PROVE  AlertsBelong' /\ OpenHasBegun'
<1>1. CASE Quiet
  <2>1. ASSUME NEW b \in Buckets, alerts[b].severity = "none"
        PROVE  sent'[b] = 0 /\ b \notin skipped' /\ alerts'[b].notified
    <3>1. b \notin Recorded
      BY <2>1, RecordedBySeverity
    <3>2. sent'[b] = sent[b] /\ (b \in skipped' => b \in skipped)
      BY <3>1, UntoldStep
    <3>3. sent[b] = 0 /\ b \notin skipped /\ alerts[b].notified
      BY <2>1 DEF AlertsBelong
    <3>4. alerts'[b].notified
      BY <1>1, <3>3, Zenon DEF Quiet
    <3>5. QED
      BY <3>2, <3>3, <3>4
  <2>2. AlertsBelong'
    BY <1>1, <2>1, QuietParts DEF AlertsBelong
  <2>3. ep'.open => ep.open
    BY <1>1, Zenon DEF Quiet
  <2>4. QED
    BY <1>1, <2>2, <2>3, QuietParts DEF OpenHasBegun
<1>2. ASSUME NEW w \in Workers, NEW b \in Buckets, NEW severity \in Severities, Record(w, b, severity)
      PROVE  AlertsBelong' /\ OpenHasBegun'
  <2>1. ep'.gen \in Nat /\ ep'.gen >= ep.gen /\ ep'.gen > 0
    BY <1>2, RecordWrites DEF TypeOK, OpenHasBegun
  <2>2. alerts'[b].severity # "none" /\ alerts'[b].gen \in 1..ep'.gen
    BY <1>2, <2>1, RecordWrites DEF Severities
  <2>3. ASSUME NEW c \in Buckets \ {b}, alerts[c].severity # "none" PROVE alerts'[c].gen \in 1..ep'.gen
    BY <1>2, <2>1, <2>3, RecordWrites DEF AlertsBelong, TypeOK
  <2>4. AlertsBelong'
    BY <1>2, <2>2, <2>3, RecordWrites DEF AlertsBelong
  <2>5. QED
    BY <2>1, <2>4 DEF OpenHasBegun
<1>3. QED
  BY <1>1, <1>2, QuietStep

(* Buckets can be counted. *)
LEMMA BucketsFinite == IsFiniteSet(Buckets)
<1>1. MaxBucket \in Int /\ 1 \in Int
  BY ConstantsAssumption
<1>2. QED
  BY <1>1, FS_Interval, Zenon DEF Buckets

(* So can any of them. *)
LEMMA SomeFinite == ASSUME NEW S \in SUBSET Buckets PROVE IsFiniteSet(S) /\ Cardinality(S) \in Nat
BY BucketsFinite, FS_Subset, FS_CardinalityType, Zenon

(* The alerts of an episode, and their sum, as functions of the tables. *)
Members(al, gen) == {b \in Buckets : al[b].gen = gen}
SumsUp(al, e) ==
    e.gen > 0 =>
        /\ e.count = Cardinality(Members(al, e.gen))
        /\ e.severity = "critical" <=> \E b \in Members(al, e.gen) : al[b].severity = "critical"
        /\ \A b \in Members(al, e.gen) : b <= e.last

(* EpisodeSumsUp, with the two rows it is about as arguments. *)
LEMMA SumOfMembers == TypeOK /\ AlertsBelong => (EpisodeSumsUp <=> SumsUp(alerts, ep))
<1> SUFFICES ASSUME TypeOK, AlertsBelong PROVE EpisodeSumsUp <=> SumsUp(alerts, ep)
  OBVIOUS
<1>1. ep.gen > 0 => Of(ep.gen) = Members(alerts, ep.gen)
  BY RecordedBySeverity DEF Members, TypeOK
<1>2. QED
  BY <1>1 DEF EpisodeSumsUp, SumsUp

(* A recorded bucket joins the current episode and no other. *)
LEMMA MembersStep ==
    ASSUME TypeOK, AlertsBelong, OpenHasBegun, NEW gen \in Nat \ {0},
           NEW w \in Workers, NEW b \in Buckets, NEW severity \in Severities, Record(w, b, severity)
    PROVE  /\ b \notin Members(alerts, gen)
           /\ Members(alerts', gen) = IF gen = ep'.gen THEN Members(alerts, gen) \cup {b}
                                                       ELSE Members(alerts, gen)
           /\ gen > ep.gen => Members(alerts, gen) = {}
<1>1. alerts[b].gen = 0 /\ alerts'[b].gen = ep'.gen
  BY RecordWrites DEF AlertsBelong
<1>2. \A c \in Buckets \ {b} : alerts'[c].gen = alerts[c].gen
  BY RecordWrites
<1>3. gen > ep.gen => Members(alerts, gen) = {}
  BY DEF Members, AlertsBelong, TypeOK
<1>4. QED
  BY <1>1, <1>2, <1>3 DEF Members

(* The episode row sums up its alerts, for every step. *)
LEMMA SumStep ==
    ASSUME TypeOK, AlertsBelong, OpenHasBegun, EpisodeSumsUp, [Next]_vars, TypeOK', AlertsBelong'
    PROVE  EpisodeSumsUp'
<1>1. SumsUp(alerts, ep)
  BY SumOfMembers
<1>2. CASE Quiet
  <2>1. Members(alerts', ep'.gen) = Members(alerts, ep.gen)
    BY <1>2, QuietParts DEF Members
  <2>2. \A b \in Members(alerts, ep.gen) : alerts'[b].severity = alerts[b].severity
    BY <1>2, QuietParts DEF Members
  <2>3. SumsUp(alerts, ep)'
    BY <1>1, <1>2, <2>1, <2>2, QuietParts DEF SumsUp
  <2>4. QED
    BY <2>3, SumOfMembers, PTL
<1>3. ASSUME NEW w \in Workers, NEW b \in Buckets, NEW severity \in Severities, Record(w, b, severity)
      PROVE  EpisodeSumsUp'
  <2> DEFINE G == ep'.gen
             M == Members(alerts, G)
  <2>1. G \in Nat \ {0} /\ G = (IF ep.open THEN ep.gen ELSE ep.gen + 1) /\ (ep.open => ep.gen > 0)
    BY <1>3, RecordWrites DEF TypeOK, OpenHasBegun
  <2>2. Members(alerts', G) = M \cup {b} /\ b \notin M /\ (~ ep.open => M = {})
    <3>1. G > ep.gen => M = {}
      BY <1>3, <2>1, MembersStep
    <3>2. b \notin M /\ Members(alerts', G) = M \cup {b}
      BY <1>3, <2>1, MembersStep
    <3>3. QED
      BY <2>1, <3>1, <3>2 DEF TypeOK
  <2>3. M \in SUBSET Buckets
    BY DEF Members
  <2>4. Cardinality(M \cup {b}) = Cardinality(M) + 1
    BY <2>2, <2>3, SomeFinite, FS_AddElement
  <2>5. Cardinality(M) = (IF ep.open THEN ep.count ELSE 0)
    BY <1>1, <2>1, <2>2, FS_EmptySet DEF SumsUp
  <2>6. ep'.count = Cardinality(Members(alerts', G))
    BY <1>3, <2>2, <2>4, <2>5, RecordWrites
  <2>7. alerts'[b].severity = severity /\ \A c \in M : alerts'[c] = alerts[c]
    BY <1>3, <2>2, <2>3, RecordWrites
  <2>8. ep'.severity = "critical" <=> \E c \in Members(alerts', G) : alerts'[c].severity = "critical"
    <3>1. CASE ep.open
      <4>1. ep.severity = "critical" <=> \E c \in M : alerts[c].severity = "critical"
        BY <1>1, <2>1, <3>1 DEF SumsUp
      <4>2. ep'.severity = (IF severity # "critical" THEN ep.severity ELSE severity)
        BY <1>3, <3>1, RecordWrites
      <4>3. QED
        BY <2>2, <2>7, <4>1, <4>2
    <3>2. CASE ~ ep.open
      <4>1. ep'.severity = severity /\ Members(alerts', G) = {b}
        BY <1>3, <2>2, <3>2, RecordWrites
      <4>2. QED
        BY <2>7, <4>1
    <3>3. QED
      BY <3>1, <3>2
  <2>9. \A c \in Members(alerts', G) : c <= ep'.last
    <3>1. b <= ep'.last /\ ep.last <= ep'.last /\ ep'.last \in Nat
      BY <1>3, RecordWrites DEF EpisodeRow
    <3>2. ASSUME NEW c \in M PROVE c <= ep'.last
      <4>1. ep.open /\ c \in Members(alerts, ep.gen) /\ c \in Nat
        BY <2>1, <2>2, <2>3, <3>2 DEF Buckets
      <4>2. c <= ep.last
        BY <1>1, <2>1, <4>1 DEF SumsUp
      <4>3. QED
        BY <3>1, <4>1, <4>2 DEF TypeOK
    <3>3. QED
      BY <2>2, <3>1, <3>2
  <2>10. SumsUp(alerts, ep)'
    BY <2>6, <2>8, <2>9 DEF SumsUp
  <2>11. QED
    BY <2>10, SumOfMembers, PTL
<1>4. QED
  BY <1>2, <1>3, QuietStep

-----------------------------------------------------------------------------
(* Locks and dispatches *)

(* A worker that has alerts to send holds their locks alone, for every     *)
(* step.                                                                   *)
LEMMA LocksStep ==
    ASSUME TypeOK, LocksHold, AlertsBelong, [Next]_vars
    PROVE  LocksHold'
<1>1. ASSUME NEW w \in Workers, NEW b \in Buckets, NEW severity \in Severities, Record(w, b, severity)
      PROVE  LocksHold'
  <2>1. \A v \in Workers : b \notin taken[v]
    BY <1>1 DEF Record, LocksHold
  <2>2. \A c \in Buckets \ {b} : alerts'[c] = alerts[c]
    BY <1>1, RecordWrites
  <2>3. \A v \in Workers : \A c \in taken[v] : c \in Recorded' /\ ~ alerts'[c].notified
    BY <2>1, <2>2 DEF LocksHold, Recorded, TypeOK
  <2>4. QED
    BY <1>1, <2>3 DEF LocksHold, Record
<1>2. ASSUME NEW w \in Workers, TakeAlerts(w) PROVE LocksHold'
  <2>1. Queue \in SUBSET Buckets /\ \A v \in Workers : taken[v] \cap Queue = {}
    BY DEF Queue, Recorded, Locked
  <2>2. CASE Queue # {} /\ configured
    <3>1. \A v \in Workers : taken'[v] = IF v = w THEN Queue ELSE taken[v]
      BY <1>2, <2>2 DEF TakeAlerts, TypeOK
    <3>2. \A v \in Workers : pc'[v] = IF v = w THEN "dispatch" ELSE pc[v]
      BY <1>2, <2>2 DEF TakeAlerts, TypeOK
    <3>3. UNCHANGED <<alerts, sent, Recorded>>
      BY <1>2, <2>2 DEF TakeAlerts, Recorded
    <3>4. \A b \in Queue : b \in Recorded /\ ~ alerts[b].notified
      BY DEF Queue
    <3>5. QED
      BY <2>1, <2>2, <3>1, <3>2, <3>3, <3>4 DEF LocksHold
  <2>3. CASE ~ (Queue # {} /\ configured)
    <3>1. /\ UNCHANGED <<taken, sent>> /\ alerts' = MarkAlerts(Queue)
          /\ \A v \in Workers : pc'[v] = IF v = w THEN "recovery" ELSE pc[v]
      BY <1>2, <2>3 DEF TakeAlerts, TypeOK
    <3>2. \A v \in Workers : \A b \in taken[v] : b \in Buckets /\ alerts'[b] = alerts[b]
      BY <2>1, <3>1 DEF MarkAlerts, TypeOK
    <3>3. \A v \in Workers : \A b \in taken[v] : b \in Recorded' /\ ~ alerts'[b].notified
      BY <3>2 DEF LocksHold, Recorded
    <3>4. QED
      BY <3>1, <3>3 DEF LocksHold
  <2>4. QED
    BY <2>2, <2>3
<1>3. ASSUME NEW w \in Workers, Mark(w) PROVE LocksHold'
  <2>1. \A v \in Workers : taken'[v] = IF v = w THEN {} ELSE taken[v]
    BY <1>3 DEF Mark, TypeOK
  <2>2. \A v \in Workers : pc'[v] = IF v = w THEN "recovery" ELSE pc[v]
    BY <1>3 DEF Mark, TypeOK
  <2>3. \A v \in Workers : v # w => \A b \in taken[v] : b \in Buckets /\ alerts'[b] = alerts[b]
    BY <1>3 DEF Mark, MarkAlerts, LocksHold, TypeOK
  <2>4. \A v \in Workers : \A b \in taken'[v] : b \in Recorded' /\ ~ alerts'[b].notified
    BY <2>1, <2>3 DEF LocksHold, Recorded
  <2>5. UNCHANGED sent
    BY <1>3 DEF Mark
  <2>6. QED
    BY <2>1, <2>2, <2>4, <2>5 DEF LocksHold
<1>4. ASSUME NEW w \in Workers, DispatchOk(w) PROVE LocksHold'
  <2>1. \A v \in Workers : pc'[v] = IF v = w THEN "mark" ELSE pc[v]
    BY <1>4 DEF DispatchOk, TypeOK
  <2>2. \A b \in Buckets : sent'[b] = IF b \in taken[w] THEN sent[b] + 1 ELSE sent[b]
    BY <1>4 DEF DispatchOk
  <2>3. UNCHANGED <<alerts, taken, Recorded>> /\ pc[w] = "dispatch"
    BY <1>4 DEF DispatchOk, Recorded
  <2>4. \A v \in Workers : pc'[v] = "mark" => \A b \in taken[v] : sent'[b] > 0
    BY <2>1, <2>2 DEF LocksHold, TypeOK
  <2>5. QED
    BY <2>1, <2>3, <2>4 DEF LocksHold
<1>5. ASSUME NEW w \in Workers,
             \A v \in Workers : taken'[v] = taken[v] \/ (v = w /\ taken'[v] = {}),
             \A v \in Workers \ {w} : pc'[v] = pc[v],
             pc'[w] \notin {"dispatch", "mark"},
             pc'[w] \in {"detect", "resolve", "notify"} =>
                 taken'[w] = {} \/ pc[w] \in {"detect", "resolve", "notify"},
             UNCHANGED <<alerts, sent>>
      PROVE  LocksHold'
  <2>1. Recorded' = Recorded
    BY <1>5 DEF Recorded
  <2>2. QED
    BY <1>5, <2>1 DEF LocksHold
<1>6. ASSUME NEW w \in Workers, LookFirst(w) \/ Detected(w) \/ Resolve(w) \/ DispatchFail(w)
                                \/ TakeRecovery(w) \/ RecoveryOk(w)
      PROVE  LocksHold'
  <2>1. /\ UNCHANGED <<alerts, sent, taken>>
        /\ \A v \in Workers \ {w} : pc'[v] = pc[v]
    BY <1>6 DEF LookFirst, Detected, Resolve, DispatchFail, TakeRecovery, RecoveryOk, TypeOK
  <2>2. \/ pc'[w] = pc[w] /\ pc[w] = "detect"
        \/ pc'[w] \in {"resolve", "notify"} /\ pc[w] \in {"detect", "resolve"}
        \/ pc'[w] \in {"recovery", "dispatchRecovery", "markRecovery"}
    BY <1>6 DEF LookFirst, Detected, Resolve, DispatchFail, TakeRecovery, RecoveryOk, TypeOK
  <2>3. QED
    BY <1>5, <2>1, <2>2
<1>7. ASSUME NEW w \in Workers, EndCycle(w), UNCHANGED <<alerts, sent>> PROVE LocksHold'
  <2>1. /\ taken'[w] = {} /\ pc'[w] = "detect"
        /\ \A v \in Workers \ {w} : pc'[v] = pc[v] /\ taken'[v] = taken[v]
    BY <1>7 DEF EndCycle, TypeOK
  <2>2. QED
    BY <1>5, <1>7, <2>1
<1>8. CASE UNCHANGED <<alerts, sent, taken, pc>>
  <2>1. Recorded' = Recorded
    BY <1>8 DEF Recorded
  <2>2. QED
    BY <1>8, <2>1 DEF LocksHold
<1>9. QED
  BY <1>1, <1>2, <1>3, <1>4, <1>6, <1>7, <1>8 DEF Next, Cycle, vars,
     SkipRecovery, RecoveryFail, MarkRecovery, Crash, Tick, Configure

(* What was sent more than once is paid for by a crash, for every step. *)
LEMMA PaidStep ==
    ASSUME TypeOK, LocksHold, AlertsBelong, Paid, [Next]_vars
    PROVE  Paid'
<1>1. ASSUME NEW w \in Workers, NEW b \in Buckets, NEW severity \in Severities, Record(w, b, severity)
      PROVE  Paid'
  <2>1. sent[b] = 0
    BY <1>1, RecordWrites DEF AlertsBelong
  <2>2. /\ \A c \in Buckets \ {b} : alerts'[c] = alerts[c]
        /\ UNCHANGED <<sent, crashes, pc, taken>>
    BY <1>1, RecordWrites
  <2>3. \A c \in Buckets : Marking(c)' <=> Marking(c)
    BY <2>2 DEF Marking
  <2>4. QED
    BY <2>1, <2>2, <2>3 DEF Paid, TypeOK
<1>2. ASSUME NEW w \in Workers, TakeAlerts(w) PROVE Paid'
  <2>1. \A v \in Workers \ {w} : pc'[v] = pc[v] /\ taken'[v] = taken[v]
    BY <1>2 DEF TakeAlerts, TypeOK
  <2>2. \A c \in Buckets : Marking(c) => Marking(c)'
    BY <1>2, <2>1 DEF Marking, TakeAlerts
  <2>3. UNCHANGED <<sent, crashes>> /\ (alerts' = alerts \/ alerts' = MarkAlerts(Queue))
    BY <1>2 DEF TakeAlerts
  <2>4. \A c \in Buckets : ~ alerts'[c].notified => ~ alerts[c].notified
    BY <2>3 DEF MarkAlerts, TypeOK
  <2>5. QED
    BY <2>2, <2>3, <2>4 DEF Paid
<1>3. ASSUME NEW w \in Workers, DispatchOk(w) PROVE Paid'
  <2>1. /\ UNCHANGED <<alerts, taken, crashes>> /\ pc[w] = "dispatch" /\ pc'[w] = "mark"
        /\ \A v \in Workers \ {w} : pc'[v] = pc[v]
        /\ \A b \in Buckets : sent'[b] = IF b \in taken[w] THEN sent[b] + 1 ELSE sent[b]
    BY <1>3 DEF DispatchOk, TypeOK
  <2>2. ASSUME NEW b \in taken[w]
        PROVE  b \in Buckets /\ sent[b] <= crashes /\ Marking(b)'
    <3>1. b \in Buckets /\ ~ alerts[b].notified
      BY <2>2 DEF LocksHold, TypeOK
    <3>2. ~ Marking(b)
      BY <2>1, <2>2 DEF Marking, LocksHold
    <3>3. QED
      BY <2>1, <2>2, <3>1, <3>2 DEF Paid, Marking
  <2>3. \A b \in Buckets : Marking(b) => Marking(b)'
    BY <2>1 DEF Marking
  <2>4. QED
    BY <2>1, <2>2, <2>3 DEF Paid, TypeOK
<1>4. ASSUME NEW w \in Workers, Mark(w) PROVE Paid'
  <2>1. /\ UNCHANGED <<sent, crashes>>
        /\ \A v \in Workers \ {w} : pc'[v] = pc[v] /\ taken'[v] = taken[v]
    BY <1>4 DEF Mark, TypeOK
  <2>2. \A b \in Buckets : ~ alerts'[b].notified => ~ alerts[b].notified /\ b \notin taken[w]
    BY <1>4 DEF Mark, MarkAlerts, TypeOK
  <2>3. \A b \in Buckets : ~ alerts'[b].notified /\ Marking(b) => Marking(b)'
    BY <2>1, <2>2 DEF Marking
  <2>4. QED
    BY <2>1, <2>2, <2>3 DEF Paid
<1>5. ASSUME NEW w \in Workers, EndCycle(w), pc[w] # "mark", UNCHANGED <<alerts, sent, crashes>>
      PROVE  Paid'
  <2>1. \A v \in Workers \ {w} : pc'[v] = pc[v] /\ taken'[v] = taken[v]
    BY <1>5 DEF EndCycle, TypeOK
  <2>2. \A c \in Buckets : Marking(c) => Marking(c)'
    BY <1>5, <2>1 DEF Marking
  <2>3. QED
    BY <1>5, <2>2 DEF Paid
<1>6. ASSUME NEW w \in Workers, Crash(w) PROVE Paid'
  BY <1>6 DEF Crash, Paid, TypeOK
<1>7. ASSUME NEW w \in Workers, LookFirst(w) \/ Detected(w) \/ Resolve(w) \/ DispatchFail(w)
                                \/ TakeRecovery(w) \/ RecoveryOk(w)
      PROVE  Paid'
  <2>1. /\ UNCHANGED <<alerts, sent, taken, crashes>> /\ pc[w] # "mark"
        /\ \A v \in Workers \ {w} : pc'[v] = pc[v]
    BY <1>7 DEF LookFirst, Detected, Resolve, DispatchFail, TakeRecovery, RecoveryOk, TypeOK
  <2>2. \A c \in Buckets : Marking(c) => Marking(c)'
    BY <2>1 DEF Marking
  <2>3. QED
    BY <2>1, <2>2 DEF Paid
<1>8. CASE UNCHANGED <<alerts, sent, taken, pc, crashes>>
  BY <1>8 DEF Paid, Marking
<1>9. QED
  BY <1>1, <1>2, <1>3, <1>4, <1>5, <1>6, <1>7, <1>8 DEF Next, Cycle, vars,
     SkipRecovery, RecoveryFail, MarkRecovery, Tick, Configure

-----------------------------------------------------------------------------
(* Recoveries *)

(* A recovery under way is earned and has one teller, for every step. *)
LEMMA RecoveryStep ==
    ASSUME TypeOK, RecoveryTruthful, RecoveryEarned, [Next]_vars
    PROVE  RecoveryTruthful' /\ RecoveryEarned'
<1> DEFINE Telling == {"dispatchRecovery", "markRecovery"}
<1>1. ASSUME NEW w \in Workers, NEW b \in Buckets, NEW severity \in Severities, Record(w, b, severity)
      PROVE  RecoveryTruthful' /\ RecoveryEarned'
  <2>1. UNCHANGED pc /\ \A v \in Workers : pc[v] \notin Telling
    BY <1>1, ConstantsAssumption DEF Record, RecoveryTruthful
  <2>2. QED
    BY <2>1 DEF RecoveryTruthful, RecoveryEarned
<1>2. ASSUME NEW w \in Workers, Resolve(w) \/ Mark(w)
      PROVE  RecoveryTruthful' /\ RecoveryEarned'
  <2>1. /\ UNCHANGED epLock /\ (ep'.open => ep.open) /\ (ep.notified => ep'.notified)
        /\ pc'[w] \notin Telling /\ \A v \in Workers \ {w} : pc'[v] = pc[v]
    BY <1>2 DEF Resolve, Mark, TypeOK
  <2>2. QED
    BY <2>1 DEF RecoveryTruthful, RecoveryEarned
<1>3. ASSUME NEW w \in Workers, TakeRecovery(w)
      PROVE  RecoveryTruthful' /\ RecoveryEarned'
  <2>1. \A v \in Workers : pc[v] \notin Telling
    BY <1>3, ConstantsAssumption DEF TakeRecovery, RecoveryTruthful
  <2>2. /\ epLock' = w /\ UNCHANGED ep /\ ~ ep.open /\ ep.notified
        /\ \A v \in Workers \ {w} : pc'[v] = pc[v]
    BY <1>3 DEF TakeRecovery, RecoveryDue, TypeOK
  <2>3. QED
    BY <2>1, <2>2 DEF RecoveryTruthful, RecoveryEarned
<1>4. ASSUME NEW w \in Workers, EndCycle(w), ep'.open = ep.open, ep'.notified = ep.notified
      PROVE  RecoveryTruthful' /\ RecoveryEarned'
  <2>1. /\ pc'[w] = "detect" /\ \A v \in Workers \ {w} : pc'[v] = pc[v]
        /\ epLock # w => epLock' = epLock
    BY <1>4 DEF EndCycle, TypeOK
  <2>2. QED
    BY <1>4, <2>1 DEF RecoveryTruthful, RecoveryEarned
<1>5. ASSUME NEW w \in Workers, SkipRecovery(w) \/ MarkRecovery(w)
      PROVE  ep'.open = ep.open /\ ep'.notified = ep.notified
  BY <1>5 DEF SkipRecovery, MarkRecovery, TypeOK
<1>6. ASSUME NEW w \in Workers, RecoveryOk(w)
      PROVE  RecoveryTruthful' /\ RecoveryEarned'
  BY <1>6 DEF RecoveryOk, RecoveryTruthful, RecoveryEarned, TypeOK
<1>7. ASSUME NEW w \in Workers, Detected(w) \/ TakeAlerts(w) \/ DispatchOk(w) \/ DispatchFail(w)
      PROVE  RecoveryTruthful' /\ RecoveryEarned'
  <2>1. /\ UNCHANGED <<ep, epLock>> /\ pc'[w] \notin Telling
        /\ \A v \in Workers \ {w} : pc'[v] = pc[v]
    BY <1>7 DEF Detected, TakeAlerts, DispatchOk, DispatchFail, TypeOK
  <2>2. QED
    BY <2>1 DEF RecoveryTruthful, RecoveryEarned
<1>8. CASE UNCHANGED <<ep, epLock, pc>>
  BY <1>8 DEF RecoveryTruthful, RecoveryEarned
<1>9. QED
  BY <1>1, <1>2, <1>3, <1>4, <1>5, <1>6, <1>7, <1>8 DEF Next, Cycle, vars, LookFirst,
     SkipRecovery, RecoveryFail, MarkRecovery, Crash, Tick, Configure

(* Nothing takes an alert out of those that were told. *)
LEMMA ToldGrows ==
    ASSUME TypeOK, AlertsBelong, [Next]_vars
    PROVE  Told \subseteq Told'
<1>1. CASE Quiet
  <2>1. \A b \in Buckets : sent[b] > 0 => sent'[b] > 0
    <3>1. ASSUME NEW w \in Workers, DispatchOk(w) PROVE \A b \in Buckets : sent[b] > 0 => sent'[b] > 0
      BY <3>1 DEF DispatchOk, TypeOK
    <3>2. UNCHANGED sent \/ \E w \in Workers : DispatchOk(w)
      BY DEF Next, Cycle, vars, LookFirst, Record, Detected, Resolve, TakeAlerts, DispatchFail, Mark,
         TakeRecovery, SkipRecovery, RecoveryOk, RecoveryFail, MarkRecovery, Crash, Tick, Configure
    <3>3. QED
      BY <3>1, <3>2
  <2>2. \A b \in Buckets : alerts[b].notified => alerts'[b].notified
    BY <1>1, Zenon DEF Quiet
  <2>3. QED
    BY <2>1, <2>2 DEF Told
<1>2. ASSUME NEW w \in Workers, NEW b \in Buckets, NEW severity \in Severities, Record(w, b, severity)
      PROVE  Told \subseteq Told'
  <2>1. sent[b] = 0 /\ UNCHANGED sent /\ \A c \in Buckets \ {b} : alerts'[c] = alerts[c]
    BY <1>2, RecordWrites DEF AlertsBelong
  <2>2. QED
    BY <2>1 DEF Told
<1>3. QED
  BY <1>1, <1>2, QuietStep

(* The recoveries told and to be told can be counted. *)
LEMMA OwedFinite ==
    ASSUME IsFiniteSet(recovered) PROVE IsFiniteSet(Owed) /\ Cardinality(Owed) \in Nat
<1>1. Owed \in SUBSET (recovered \cup {ep.gen})
  BY DEF Owed
<1>2. IsFiniteSet(recovered \cup {ep.gen})
  BY FS_AddElement
<1>3. QED
  BY <1>1, <1>2, FS_Subset, FS_CardinalityType, Zenon

(* A recovery is owed only when Mark has run, which tells an alert.  *)
LEMMA OwedStep ==
    ASSUME TypeOK, AlertsBelong, LocksHold, RecoveryEarned, OwedWithinTold, [Next]_vars
    PROVE  OwedWithinTold'
<1>1. IsFiniteSet(Owed) /\ Cardinality(Owed) \in Nat
  BY OwedFinite, Zenon DEF OwedWithinTold
<1>2. /\ IsFiniteSet(Told) /\ Cardinality(Told) \in Nat
      /\ IsFiniteSet(Told') /\ Cardinality(Told') \in Nat
  <2>1. Told \in SUBSET Buckets /\ Told' \in SUBSET Buckets
    BY DEF Told
  <2>2. QED
    BY <2>1, SomeFinite, Zenon
<1>3. ASSUME Owed' \subseteq Owed PROVE OwedWithinTold'
  <2>1. IsFiniteSet(Owed') /\ Cardinality(Owed') <= Cardinality(Owed) /\ Cardinality(Owed') \in Nat
    BY <1>1, <1>3, FS_Subset, FS_CardinalityType
  <2>2. Cardinality(Told) <= Cardinality(Told')
    BY <1>2, ToldGrows, FS_Subset
  <2>3. IsFiniteSet(recovered')
    <3>1. recovered' \in SUBSET (Owed')
      BY DEF Owed
    <3>2. QED
      BY <2>1, <3>1, FS_Subset, Zenon
  <2>4. QED
    BY <1>1, <1>2, <2>1, <2>2, <2>3 DEF OwedWithinTold
<1>4. ASSUME NEW w \in Workers, Mark(w) PROVE OwedWithinTold'
  <2>1. PICK b \in taken[w] : b \in Buckets /\ sent[b] > 0 /\ ~ alerts[b].notified
    BY <1>4 DEF Mark, LocksHold, TypeOK
  <2>2. b \notin Told /\ b \in Told'
    BY <1>4, <2>1 DEF Told, Mark, MarkAlerts, TypeOK
  <2>3. Cardinality(Told \cup {b}) = Cardinality(Told) + 1 /\ IsFiniteSet(Told \cup {b})
    BY <1>2, <2>2, FS_AddElement
  <2>4. Told \cup {b} \in SUBSET (Told')
    BY <2>2, ToldGrows
  <2>5. Cardinality(Told \cup {b}) <= Cardinality(Told')
    BY <1>2, <2>4, FS_Subset, Zenon
  <2>6. UNCHANGED recovered /\ ep'.gen = ep.gen
    BY <1>4 DEF Mark, TypeOK
  <2>7. Owed' \in SUBSET (Owed \cup {ep.gen})
    BY <2>6 DEF Owed
  <2>8. IsFiniteSet(Owed \cup {ep.gen}) /\ Cardinality(Owed \cup {ep.gen}) <= Cardinality(Owed) + 1
    BY <1>1, FS_AddElement
  <2>9. /\ IsFiniteSet(Owed') /\ Cardinality(Owed') <= Cardinality(Owed \cup {ep.gen})
        /\ Cardinality(Owed') \in Nat /\ Cardinality(Owed \cup {ep.gen}) \in Nat
    BY <2>7, <2>8, FS_Subset, FS_CardinalityType, Zenon
  <2>10. QED
    BY <1>1, <1>2, <2>3, <2>5, <2>6, <2>8, <2>9 DEF OwedWithinTold
<1>5. ASSUME NEW w \in Workers, NEW b \in Buckets, NEW severity \in Severities, Record(w, b, severity)
      PROVE  Owed' \subseteq Owed
  <2>1. UNCHANGED recovered /\ (ep'.notified => ep.notified /\ ep'.gen = ep.gen)
    BY <1>5, RecordWrites DEF TypeOK, EpisodeRow
  <2>2. QED
    BY <2>1 DEF Owed
<1>6. ASSUME NEW w \in Workers, RecoveryOk(w) PROVE Owed' \subseteq Owed
  BY <1>6 DEF RecoveryOk, RecoveryEarned, Owed
<1>7. ASSUME NEW w \in Workers, Resolve(w) \/ SkipRecovery(w) \/ MarkRecovery(w)
      PROVE  Owed' \subseteq Owed
  <2>1. UNCHANGED recovered /\ ep'.gen = ep.gen /\ ep'.notified = ep.notified
    BY <1>7 DEF Resolve, SkipRecovery, MarkRecovery, TypeOK
  <2>2. QED
    BY <2>1 DEF Owed
<1>8. ASSUME UNCHANGED <<recovered, ep>> PROVE Owed' \subseteq Owed
  BY <1>8 DEF Owed
<1>9. QED
  BY <1>3, <1>4, <1>5, <1>6, <1>7, <1>8 DEF Next, Cycle, vars, LookFirst, Detected, TakeAlerts,
     DispatchOk, DispatchFail, TakeRecovery, RecoveryFail, Crash, Tick, Configure

-----------------------------------------------------------------------------
(* The theorems *)

(* The inductive invariant holds at the start. *)
LEMMA InitInv == Init => IInv
<1> SUFFICES ASSUME Init PROVE IInv
  OBVIOUS
<1>1. TypeOK
  BY InitType
<1>2. /\ \A b \in Buckets : alerts[b] = NoAlert /\ sent[b] = 0
      /\ skipped = {} /\ recovered = {} /\ ep = NoEpisode
      /\ \A w \in Workers : pc[w] = "detect" /\ taken[w] = {}
  BY DEF Init
<1>3. AlertsBelong /\ OpenHasBegun
  BY <1>2 DEF AlertsBelong, OpenHasBegun, NoAlert, NoEpisode
<1>4. LocksHold /\ RecoveryTruthful /\ RecoveryEarned
  BY <1>2 DEF LocksHold, RecoveryTruthful, RecoveryEarned
<1>5. Paid
  BY <1>1, <1>2 DEF Paid, TypeOK
<1>6. EpisodeSumsUp
  BY <1>2 DEF EpisodeSumsUp, NoEpisode
<1>7. OwedWithinTold
  <2>1. Owed = {} /\ Told = {}
    BY <1>2 DEF Owed, Told, NoEpisode
  <2>2. QED
    BY <1>2, <2>1, FS_EmptySet DEF OwedWithinTold
<1>8. QED
  BY <1>1, <1>3, <1>4, <1>5, <1>6, <1>7 DEF IInv

(* The inductive invariant, for every step. *)
LEMMA StepInv == IInv /\ [Next]_vars => IInv'
<1> SUFFICES ASSUME IInv, [Next]_vars PROVE IInv'
  OBVIOUS
<1> USE DEF IInv
<1>1. TypeOK' /\ AlertsBelong' /\ OpenHasBegun'
  BY StepType, BelongStep
<1>2. EpisodeSumsUp'
  BY <1>1, SumStep
<1>3. LocksHold' /\ Paid'
  BY LocksStep, PaidStep
<1>4. RecoveryTruthful' /\ RecoveryEarned' /\ OwedWithinTold'
  BY RecoveryStep, OwedStep
<1>5. QED
  BY <1>1, <1>2, <1>3, <1>4

(* The inductive invariant holds in every state. *)
THEOREM Inductive == Spec => []IInv
BY InitInv, StepInv, PTL DEF Spec

(* alert_count, severity and last_bucket of the episode row sum up its     *)
(* alerts, for any number of workers that record them in any order.        *)
THEOREM SumsUpAlways == Spec => []EpisodeSumsUp
BY Inductive, PTL DEF IInv

(* SKIP LOCKED is enough: an alert is dispatched once, and once more for   *)
(* each crash at most, however many workers there are.                     *)
THEOREM SentOnceAlways == Spec => []SentOnce
<1>1. IInv => SentOnce
  BY DEF IInv, Paid, SentOnce
<1>2. QED
  BY <1>1, Inductive, PTL

(* While a recovery is told the episode is closed and has one teller. *)
THEOREM RecoveryTruthfulAlways == Spec => []RecoveryTruthful
BY Inductive, PTL DEF IInv

(* No more recoveries are told than alerts were dispatched. *)
THEOREM RecoveriesWithin == Spec => []RecoveriesWithinAlerts
<1>1. ASSUME IInv PROVE RecoveriesWithinAlerts
  <2> DEFINE T == {b \in Buckets : sent[b] > 0}
  <2>1. T \in SUBSET Buckets /\ Told \in SUBSET T /\ recovered \in SUBSET Owed
    BY DEF Told, Owed
  <2>2. IsFiniteSet(T) /\ Cardinality(T) \in Nat
    BY <2>1, SomeFinite, Zenon
  <2>3. Cardinality(Told) <= Cardinality(T) /\ Cardinality(Told) \in Nat
    BY <2>1, <2>2, FS_Subset, FS_CardinalityType
  <2>4. IsFiniteSet(Owed) /\ Cardinality(Owed) \in Nat
    BY <1>1, OwedFinite, Zenon DEF IInv, OwedWithinTold
  <2>5. Cardinality(recovered) <= Cardinality(Owed) /\ Cardinality(recovered) \in Nat
    BY <2>1, <2>4, FS_Subset, FS_CardinalityType
  <2>6. QED
    BY <1>1, <2>2, <2>3, <2>4, <2>5 DEF IInv, OwedWithinTold, RecoveriesWithinAlerts
<1>2. QED
  BY <1>1, Inductive, PTL

-----------------------------------------------------------------------------
(* The streak *)

(* A worker that did not see the open episode recorded before it began,    *)
(* for every step.                                                         *)
LEMMA BlindStep ==
    ASSUME Window < QuietBuckets, TypeOK, OpenHasBegun, AlertsBelong, BlindFirst, [Next]_vars
    PROVE  BlindFirst'
<1>1. ASSUME NEW w \in Workers, NEW b \in Buckets, NEW severity \in Severities, Record(w, b, severity),
             blind' # {}
      PROVE  ep'.gen = 1 /\ ep'.open /\ ep'.last >= now' - Window
  <2>1. blind # {} /\ b >= now - Window /\ UNCHANGED now
    BY <1>1 DEF Record
  <2>2. /\ ep'.open /\ b <= ep'.last /\ ep.last <= ep'.last /\ ep'.last \in Nat
        /\ ep'.gen = IF ep.open THEN ep.gen ELSE ep.gen + 1
    BY <1>1, RecordWrites DEF EpisodeRow
  <2>3. ep'.gen = 1
    BY <2>1, <2>2 DEF BlindFirst, OpenHasBegun, TypeOK
  <2>4. ep'.last >= now - Window
    BY <2>1, <2>2, ConstantsAssumption DEF TypeOK, Buckets
  <2>5. QED
    BY <2>1, <2>2, <2>3, <2>4
<1>2. ASSUME NEW w \in Workers, LookFirst(w) PROVE BlindFirst'
  BY <1>2 DEF LookFirst, BlindFirst, NoEpisode
<1>3. ASSUME NEW w \in Workers, Resolve(w) PROVE BlindFirst'
  <2>1. /\ UNCHANGED <<blind, now>> /\ ep'.gen = ep.gen /\ ep'.last = ep.last
        /\ ep'.open = (ep.open /\ ep.last + QuietBuckets > now)
    BY <1>3 DEF Resolve, TypeOK
  <2>2. ep.last >= now - Window => ep.last + QuietBuckets > now
    BY ConstantsAssumption DEF TypeOK
  <2>3. QED
    BY <2>1, <2>2 DEF BlindFirst
<1>4. ASSUME NEW w \in Workers, Mark(w) \/ SkipRecovery(w) \/ MarkRecovery(w) PROVE BlindFirst'
  <2>1. UNCHANGED <<blind, now>> /\ ep'.gen = ep.gen /\ ep'.last = ep.last /\ ep'.open = ep.open
    BY <1>4 DEF Mark, SkipRecovery, MarkRecovery, TypeOK
  <2>2. QED
    BY <2>1 DEF BlindFirst
<1>5. CASE Tick
  BY <1>5 DEF Tick, BlindFirst
<1>6. CASE UNCHANGED <<blind, now, ep>>
  BY <1>6 DEF BlindFirst
<1>7. QED
  BY <1>1, <1>2, <1>3, <1>4, <1>5, <1>6 DEF BlindFirst, Next, Cycle, vars, Detected, TakeAlerts,
     DispatchOk, DispatchFail, TakeRecovery, RecoveryOk, RecoveryFail, Crash, Configure

(* What StreakIsVoiced says of one episode, as a function of the tables. *)
Spoken(al, snt, skp, gen) ==
    {b \in Members(al, gen) : ~ al[b].notified \/ snt[b] > 0 \/ b \in skp}
StreakOf(al, snt, skp, gen) ==
    /\ Spoken(al, snt, skp, gen) = {} <=> Cardinality(Members(al, gen)) < MinStreak
    /\ Cardinality(Spoken(al, snt, skp, gen)) <= 2
    /\ Cardinality(Spoken(al, snt, skp, gen)) = 2 =>
          \E b \in Spoken(al, snt, skp, gen) : al[b].severity = "critical"

(* StreakIsVoiced, one episode at a time. *)
LEMMA StreakByEpisode ==
    TypeOK /\ AlertsBelong =>
        (StreakIsVoiced <=> \A gen \in Judged : StreakOf(alerts, sent, skipped, gen))
<1> SUFFICES ASSUME TypeOK, AlertsBelong
             PROVE  StreakIsVoiced <=> \A gen \in Judged : StreakOf(alerts, sent, skipped, gen)
  OBVIOUS
<1>1. ASSUME NEW gen \in Judged
      PROVE  Of(gen) = Members(alerts, gen) /\ Voiced(gen) = Spoken(alerts, sent, skipped, gen)
  <2>1. gen \in Nat \ {0}
    BY DEF Judged
  <2>2. Of(gen) = Members(alerts, gen)
    BY <2>1, RecordedBySeverity DEF Members
  <2>3. QED
    BY <2>2 DEF Voiced, Spoken
<1>2. QED
  BY <1>1 DEF StreakIsVoiced, StreakOf

(* An alert that was to be told stays one: marking it follows its dispatch *)
(* or the want of a channel.                                               *)
LEMMA SpokenStep ==
    ASSUME TypeOK, AlertsBelong, LocksHold, [Next]_vars, Quiet, NEW b \in Buckets
    PROVE  (~ alerts'[b].notified \/ sent'[b] > 0 \/ b \in skipped')
           <=> (~ alerts[b].notified \/ sent[b] > 0 \/ b \in skipped)
<1>1. ASSUME NEW w \in Workers, TakeAlerts(w)
      PROVE  (~ alerts'[b].notified \/ sent'[b] > 0 \/ b \in skipped')
             <=> (~ alerts[b].notified \/ sent[b] > 0 \/ b \in skipped)
  <2>1. CASE Queue # {} /\ configured
    BY <1>1, <2>1 DEF TakeAlerts
  <2>2. CASE ~ (Queue # {} /\ configured)
    <3>1. alerts' = MarkAlerts(Queue) /\ skipped' = skipped \cup Queue /\ UNCHANGED sent
      BY <1>1, <2>2 DEF TakeAlerts
    <3>2. b \in Queue => ~ alerts[b].notified
      BY DEF Queue
    <3>3. b \notin Queue => alerts'[b] = alerts[b]
      BY <3>1 DEF MarkAlerts
    <3>4. QED
      BY <3>1, <3>2, <3>3
  <2>3. QED
    BY <2>1, <2>2
<1>2. ASSUME NEW w \in Workers, DispatchOk(w)
      PROVE  (~ alerts'[b].notified \/ sent'[b] > 0 \/ b \in skipped')
             <=> (~ alerts[b].notified \/ sent[b] > 0 \/ b \in skipped)
  <2>1. /\ UNCHANGED <<alerts, skipped>>
        /\ sent'[b] = IF b \in taken[w] THEN sent[b] + 1 ELSE sent[b]
    BY <1>2 DEF DispatchOk
  <2>2. b \in taken[w] => ~ alerts[b].notified
    BY DEF LocksHold
  <2>3. QED
    BY <2>1, <2>2
<1>3. ASSUME NEW w \in Workers, Mark(w)
      PROVE  (~ alerts'[b].notified \/ sent'[b] > 0 \/ b \in skipped')
             <=> (~ alerts[b].notified \/ sent[b] > 0 \/ b \in skipped)
  <2>1. b \in taken[w] => sent[b] > 0
    BY <1>3 DEF Mark, LocksHold
  <2>2. UNCHANGED <<sent, skipped>> /\ (b \notin taken[w] => alerts'[b] = alerts[b])
    BY <1>3 DEF Mark, MarkAlerts
  <2>3. QED
    BY <2>1, <2>2
<1>4. ASSUME NEW w \in Workers, NEW c \in Buckets, NEW severity \in Severities, Record(w, c, severity)
      PROVE  FALSE
  <2>1. alerts[c].severity = "none" /\ alerts'[c].severity # "none"
    BY <1>4, RecordWrites DEF Severities
  <2>2. QED
    BY <2>1, QuietParts
<1>5. CASE UNCHANGED <<alerts, sent, skipped>>
  BY <1>5
<1>6. QED
  BY <1>1, <1>2, <1>3, <1>4, <1>5 DEF Next, Cycle, vars, LookFirst, Detected, Resolve, DispatchFail,
     TakeRecovery, SkipRecovery, RecoveryOk, RecoveryFail, MarkRecovery, Crash, Tick, Configure

(* The one more alert of the current episode. *)
LEMMA StreakRecord ==
    ASSUME TypeOK, AlertsBelong, OpenHasBegun, SumsUp(alerts, ep),
           NEW w \in Workers, NEW b \in Buckets, NEW severity \in Severities, Record(w, b, severity),
           w \notin blind \/ ~ ep.open,
           ep.open => StreakOf(alerts, sent, skipped, ep.gen)
    PROVE  StreakOf(alerts', sent', skipped', ep'.gen)
<1> DEFINE G == ep'.gen
           M == Members(alerts, G)
           S == Spoken(alerts, sent, skipped, G)
           n == IF ep.open THEN ep.count ELSE 0
           s == IF ep.open THEN ep.severity ELSE "none"
           told == ShouldNotify(n, s, severity)
<1>1. G \in Nat \ {0} /\ G = (IF ep.open THEN ep.gen ELSE ep.gen + 1) /\ (ep.open => ep.gen > 0)
  BY RecordWrites DEF TypeOK, OpenHasBegun
<1>2. Members(alerts', G) = M \cup {b} /\ b \notin M /\ (~ ep.open => M = {})
  <2>1. G > ep.gen => M = {}
    BY <1>1, MembersStep
  <2>2. b \notin M /\ Members(alerts', G) = M \cup {b}
    BY <1>1, MembersStep
  <2>3. QED
    BY <1>1, <2>1, <2>2 DEF TypeOK
<1>3. M \in SUBSET Buckets /\ S \in SUBSET M /\ S \in SUBSET Buckets
  BY DEF Members, Spoken
<1>4. /\ IsFiniteSet(M) /\ IsFiniteSet(S) /\ Cardinality(M) \in Nat /\ Cardinality(S) \in Nat
      /\ Cardinality(M \cup {b}) = Cardinality(M) + 1
      /\ Cardinality(S \cup {b}) = Cardinality(S) + 1
      /\ S = {} <=> Cardinality(S) = 0
  <2>1. IsFiniteSet(M) /\ IsFiniteSet(S) /\ Cardinality(M) \in Nat /\ Cardinality(S) \in Nat
    BY <1>3, SomeFinite
  <2>2. b \notin S
    BY <1>2, <1>3
  <2>3. Cardinality(M \cup {b}) = Cardinality(M) + 1
    BY <1>2, <2>1, FS_AddElement
  <2>4. Cardinality(S \cup {b}) = Cardinality(S) + 1
    BY <2>1, <2>2, FS_AddElement
  <2>5. QED
    BY <2>1, <2>3, <2>4, FS_EmptySet
<1>5. Cardinality(M) = n
  BY <1>1, <1>2, FS_EmptySet DEF SumsUp
<1>6. s = "critical" <=> \E c \in M : alerts[c].severity = "critical"
  BY <1>1, <1>2 DEF SumsUp
<1>7. /\ alerts'[b].notified = ~ told /\ alerts'[b].severity = severity
      /\ sent'[b] = 0 /\ b \notin skipped' /\ UNCHANGED <<sent, skipped>>
      /\ \A c \in M : alerts'[c] = alerts[c]
  <2>1. alerts'[b].notified = ~ told
    BY DEF Record, TypeOK
  <2>2. sent[b] = 0 /\ b \notin skipped /\ UNCHANGED <<sent, skipped>>
    BY RecordWrites DEF AlertsBelong
  <2>3. QED
    BY <1>2, <1>3, <2>1, <2>2, RecordWrites
<1>8. Spoken(alerts', sent', skipped', G) = IF told THEN S \cup {b} ELSE S
  <2> HIDE DEF told, M, G
  <2>1. told => ~ alerts'[b].notified
    BY <1>7
  <2>2. ~ told => ~ (~ alerts'[b].notified \/ sent'[b] > 0 \/ b \in skipped')
    <3>1. ~ told => alerts'[b].notified
      BY <1>7, Zenon
    <3>2. QED
      BY <1>7, <3>1
  <2>3. S = {c \in M : ~ alerts[c].notified \/ sent[c] > 0 \/ c \in skipped}
    BY DEF Spoken, M
  <2>4. Spoken(alerts', sent', skipped', G) =
          {c \in M \cup {b} : ~ alerts'[c].notified \/ sent'[c] > 0 \/ c \in skipped'}
    BY <1>2 DEF Spoken
  <2>5. \A c \in M : /\ (~ alerts'[c].notified) = (~ alerts[c].notified)
                     /\ sent'[c] = sent[c] /\ skipped' = skipped
    BY <1>7
  <2> HIDE DEF S
  <2>6. QED
    BY <2>1, <2>2, <2>3, <2>4, <2>5
<1>9. ep.open => /\ S = {} <=> n < MinStreak
                 /\ Cardinality(S) <= 2
                 /\ Cardinality(S) = 2 => \E c \in S : alerts[c].severity = "critical"
  BY <1>1, <1>5 DEF StreakOf
<1>10. ~ ep.open => S = {} /\ n = 0
  BY <1>2, <1>3
<1>11. n \in Nat /\ MinStreak \in Nat \ {0}
  BY <1>4, <1>5, ConstantsAssumption
<1>12. CASE ~ told
  <2>1. n + 1 # MinStreak
    BY <1>12 DEF ShouldNotify
  <2>2. S = {} <=> n + 1 < MinStreak
    BY <1>9, <1>10, <1>11, <2>1
  <2>3. Cardinality(S) <= 2
    BY <1>4, <1>9, <1>10
  <2>4. Cardinality(S) = 2 => \E c \in S : alerts'[c].severity = "critical"
    BY <1>3, <1>4, <1>7, <1>9, <1>10
  <2>5. QED
    BY <1>2, <1>4, <1>5, <1>8, <1>12, <2>2, <2>3, <2>4 DEF StreakOf
<1>13. CASE told /\ n + 1 = MinStreak
  <2>1. S = {}
    BY <1>9, <1>10, <1>11, <1>13
  <2>2. Cardinality(S \cup {b}) = 1
    BY <1>4, <2>1
  <2>3. QED
    BY <1>2, <1>4, <1>5, <1>8, <1>11, <1>13, <2>2 DEF StreakOf
<1>14. CASE told /\ n + 1 # MinStreak
  <2>1. n >= MinStreak /\ severity = "critical" /\ s # "critical"
    BY <1>14 DEF ShouldNotify
  <2>2. ep.open /\ ~ (n + 1 < MinStreak)
    BY <1>10, <1>11, <2>1
  <2>3. Cardinality(S) # 2
    BY <1>3, <1>6, <1>9, <2>1, <2>2
  <2>4. Cardinality(S \cup {b}) <= 2
    BY <1>4, <1>9, <2>2, <2>3
  <2>5. \E c \in S \cup {b} : alerts'[c].severity = "critical"
    BY <1>7, <2>1
  <2>6. QED
    BY <1>2, <1>4, <1>5, <1>8, <1>14, <2>2, <2>4, <2>5 DEF StreakOf
<1>15. QED
  BY <1>12, <1>13, <1>14

(* Streaks are voiced, for every step. *)
LEMMA StreakStep ==
    ASSUME IInv, BlindFirst, StreakIsVoiced, [Next]_vars, IInv'
    PROVE  StreakIsVoiced'
<1> USE DEF IInv
<1>1. \A gen \in Judged : StreakOf(alerts, sent, skipped, gen)
  BY StreakByEpisode
<1>2. SUFFICES (\A gen \in Judged : StreakOf(alerts, sent, skipped, gen))'
  BY StreakByEpisode, PTL
<1>3. CASE Quiet
  <2>1. ASSUME NEW gen
        PROVE  /\ Members(alerts', gen) = Members(alerts, gen)
               /\ Spoken(alerts', sent', skipped', gen) = Spoken(alerts, sent, skipped, gen)
               /\ \A b \in Spoken(alerts, sent, skipped, gen) : alerts'[b].severity = alerts[b].severity
    <3>1. Members(alerts', gen) = Members(alerts, gen)
      BY <1>3, QuietParts DEF Members
    <3>2. Spoken(alerts', sent', skipped', gen) = Spoken(alerts, sent, skipped, gen)
      BY <1>3, <3>1, SpokenStep DEF Spoken, Members
    <3>3. QED
      BY <1>3, <3>1, <3>2, QuietParts DEF Spoken, Members
  <2>2. Judged' = Judged
    BY <1>3, QuietParts DEF Judged
  <2>3. \A gen \in Judged : StreakOf(alerts', sent', skipped', gen)
    BY <1>1, <2>1 DEF StreakOf
  <2>4. QED
    BY <2>2, <2>3
<1>4. ASSUME NEW w \in Workers, NEW b \in Buckets, NEW severity \in Severities, Record(w, b, severity),
             NEW gen \in Judged'
      PROVE  StreakOf(alerts', sent', skipped', gen)
  <2>1. /\ gen \in Nat \ {0} /\ gen <= ep'.gen /\ (raced' => gen > 1)
        /\ (raced => raced') /\ (w \in blind /\ ep # NoEpisode => raced')
        /\ ep'.gen \in Nat
        /\ ep'.gen = IF ep.open THEN ep.gen ELSE ep.gen + 1
    <3>1. ep'.gen \in Nat /\ ep'.gen = IF ep.open THEN ep.gen ELSE ep.gen + 1
      BY <1>4, RecordWrites DEF EpisodeRow
    <3>2. gen \in Nat \ {0} /\ gen <= ep'.gen /\ (raced' => gen > 1)
      BY <1>4, <3>1 DEF Judged
    <3>3. QED
      BY <1>4, <3>1, <3>2 DEF Record
  <2>2. gen <= ep.gen => StreakOf(alerts, sent, skipped, gen)
    BY <1>1, <2>1 DEF Judged, TypeOK
  <2>3. CASE gen = ep'.gen
    <3>1. w \notin blind \/ ~ ep.open
      <4>1. w \in blind /\ ep.open => ep.gen = 1 /\ ep # NoEpisode
        BY DEF BlindFirst, OpenHasBegun, NoEpisode, TypeOK
      <4>2. QED
        BY <2>1, <2>3, <4>1
    <3>2. ep.open => StreakOf(alerts, sent, skipped, ep.gen)
      BY <2>1, <2>2, <2>3 DEF TypeOK
    <3>3. SumsUp(alerts, ep)
      BY SumOfMembers
    <3>4. StreakOf(alerts', sent', skipped', ep'.gen)
      <4>1. TypeOK /\ AlertsBelong /\ OpenHasBegun
        OBVIOUS
      <4> HIDE DEF IInv
      <4>2. QED
        BY <1>4, <3>1, <3>2, <3>3, <4>1, StreakRecord, Zenon
    <3>5. QED
      BY <2>3, <3>4
  <2>4. CASE gen # ep'.gen
    <3>1. gen <= ep.gen
      <4>1. ep.gen \in Nat
        BY DEF TypeOK
      <4>2. gen \in Nat /\ ep'.gen \in Nat /\ gen < ep'.gen
        BY <2>1, <2>4
      <4> HIDE DEF IInv
      <4>3. QED
        BY <2>1, <4>1, <4>2
    <3>2. Members(alerts', gen) = Members(alerts, gen) /\ b \notin Members(alerts, gen)
      BY <1>4, <2>1, <2>4, MembersStep
    <3>3. \A c \in Members(alerts, gen) : alerts'[c] = alerts[c]
      BY <1>4, <3>2, RecordWrites DEF Members
    <3>4. UNCHANGED <<sent, skipped>>
      BY <1>4 DEF Record
    <3>5. Spoken(alerts', sent', skipped', gen) = Spoken(alerts, sent, skipped, gen)
      BY <3>2, <3>3, <3>4 DEF Spoken
    <3>6. \A c \in Spoken(alerts, sent, skipped, gen) : alerts'[c] = alerts[c]
      BY <3>3 DEF Spoken
    <3>7. QED
      BY <2>2, <3>1, <3>2, <3>5, <3>6 DEF StreakOf
  <2>5. QED
    BY <2>3, <2>4
<1>5. QED
  BY <1>3, <1>4, QuietStep

(* The claim about the streak, where a worker that has seen no episode     *)
(* comes back before the first one can be closed: the window _detect looks *)
(* back over is shorter than the quiet time, as it is with the defaults.   *)
(* Without it such a worker could come back to a second episode, and take  *)
(* its own alert for the first of that one.                                *)
THEOREM StreakAlways ==
    ASSUME Window < QuietBuckets
    PROVE  Spec => []StreakIsVoiced
<1> DEFINE SInv == IInv /\ BlindFirst /\ StreakIsVoiced
<1>1. Init => SInv
  <2> SUFFICES ASSUME Init PROVE SInv
    OBVIOUS
  <2>1. IInv
    BY InitInv
  <2>2. BlindFirst /\ Judged = {}
    BY DEF Init, BlindFirst, Judged, NoEpisode
  <2>3. QED
    BY <2>1, <2>2 DEF StreakIsVoiced
<1>2. SInv /\ [Next]_vars => SInv'
  <2> SUFFICES ASSUME SInv, [Next]_vars PROVE SInv'
    OBVIOUS
  <2>1. IInv'
    BY StepInv
  <2>2. BlindFirst'
    BY BlindStep DEF IInv
  <2>3. StreakIsVoiced'
    BY <2>1, StreakStep
  <2>4. QED
    BY <2>1, <2>2, <2>3
<1>3. QED
  BY <1>1, <1>2, PTL DEF Spec
=============================================================================
