--------------------------- MODULE MetricsProofs ---------------------------
(* Theorems about Metrics, for every number of rows and workers, every     *)
(* length of a bucket, of a cycle and of its delay.                        *)
EXTENDS Metrics, NatLemmas

-----------------------------------------------------------------------------
(* Sums *)

(* The element that is added next. *)
Taken(s) == CHOOSE x \in s : TRUE

(* One step of a sum over s, given the sums over smaller sets. *)
Added(f, g, s) == IF s = {} THEN 0 ELSE f[Taken(s)] + g[s \ {Taken(s)}]

(* g is the sum of f over every subset of S. *)
Sums(f, g, S) == g = [s \in SUBSET S |-> Added(f, g, s)]

(* A set without the element taken from it. *)
LEMMA TakenLess ==
    ASSUME NEW S, IsFiniteSet(S), NEW s \in SUBSET S, s # {}
    PROVE  /\ Taken(s) \in s /\ s \ {Taken(s)} \in SUBSET S
           /\ Cardinality(s) \in Nat /\ Cardinality(s \ {Taken(s)}) \in Nat
           /\ Cardinality(s) = Cardinality(s \ {Taken(s)}) + 1
<1>1. Taken(s) \in s
  BY DEF Taken
<1>2. IsFiniteSet(s)
  BY FS_Subset
<1>3. PICK x : x = Taken(s)
  OBVIOUS
<1>4. /\ Cardinality(s) \in Nat /\ IsFiniteSet(s \ {x})
      /\ Cardinality(s \ {x}) = Cardinality(s) - 1
  BY <1>1, <1>2, <1>3, FS_RemoveElement, FS_CardinalityType
<1>5. Cardinality(s \ {x}) \in Nat
  BY <1>4, FS_CardinalityType
<1>6. QED
  BY <1>1, <1>3, <1>4, <1>5

(* The sums exist. *)
LEMMA SumsExist ==
    ASSUME NEW S, IsFiniteSet(S), NEW f, \A x \in S : f[x] \in Nat
    PROVE  \E g : Sums(f, g, S)
<1> DEFINE UpTo(g, n) == \A s \in SUBSET S : Cardinality(s) <= n => g[s] = Added(f, g, s)
           T == {n \in Nat : \E g \in [SUBSET S -> Nat] : UpTo(g, n)}
<1>1. \A s \in SUBSET S : IsFiniteSet(s) /\ Cardinality(s) \in Nat
  BY FS_Subset, FS_CardinalityType
<1>2. 0 \in T
  <2>1. PICK g \in [SUBSET S -> Nat] : \A s \in SUBSET S : g[s] = 0
    <3>1. [s \in SUBSET S |-> 0] \in [SUBSET S -> Nat]
      OBVIOUS
    <3>2. QED
      BY <3>1
  <2>2. \A s \in SUBSET S : Cardinality(s) <= 0 => s = {}
    BY <1>1, FS_EmptySet
  <2>3. UpTo(g, 0)
    BY <2>1, <2>2 DEF Added
  <2>4. QED
    BY <2>1, <2>3
<1>3. ASSUME NEW n \in T PROVE n + 1 \in T
  <2>1. PICK g \in [SUBSET S -> Nat] : UpTo(g, n)
    BY <1>3
  <2>2. PICK h : h = [s \in SUBSET S |-> Added(f, g, s)]
    OBVIOUS
  <2>3. ASSUME NEW s \in SUBSET S PROVE Added(f, g, s) \in Nat
    <3>1. CASE s = {}
      BY <3>1 DEF Added
    <3>2. CASE s # {}
      <4>1. f[Taken(s)] \in Nat /\ g[s \ {Taken(s)}] \in Nat
        BY <2>1, <2>3, <3>2, TakenLess
      <4>2. QED
        BY <3>2, <4>1 DEF Added
    <3>3. QED
      BY <3>1, <3>2
  <2>4. h \in [SUBSET S -> Nat]
    BY <2>2, <2>3
  <2>5. ASSUME NEW s \in SUBSET S, Cardinality(s) <= n + 1 PROVE h[s] = Added(f, h, s)
    <3>1. h[s] = Added(f, g, s)
      BY <2>2, <2>5
    <3>2. CASE s = {}
      BY <3>1, <3>2 DEF Added
    <3>3. CASE s # {}
      <4>1. PICK t : t = s \ {Taken(s)}
        OBVIOUS
      <4>2. t \in SUBSET S /\ Cardinality(t) <= n
        <5>1. n \in Nat
          BY <1>3
        <5>2. QED
          BY <2>5, <3>3, <4>1, <5>1, TakenLess
      <4>3. h[t] = g[t]
        BY <2>1, <2>2, <4>2
      <4>4. QED
        BY <3>1, <3>3, <4>1, <4>3 DEF Added
    <3>4. QED
      BY <3>2, <3>3
  <2>6. UpTo(h, n + 1) /\ n + 1 \in Nat
    BY <1>3, <2>5
  <2>7. QED
    BY <2>4, <2>6
<1>4. PICK m \in Nat : m = Cardinality(S)
  BY FS_CardinalityType
<1>5. m \in T
  <2> HIDE DEF T
  <2>1. T \in SUBSET Nat
    BY DEF T
  <2>2. QED
    BY <1>2, <1>3, <2>1, SetInduction
<1>6. PICK g \in [SUBSET S -> Nat] : UpTo(g, m)
  BY <1>5
<1>7. \A s \in SUBSET S : Cardinality(s) <= m
  BY <1>4, FS_Subset
<1>8. g = [s \in SUBSET S |-> g[s]]
  BY <1>6
<1>9. \A s \in SUBSET S : g[s] = Added(f, g, s)
  BY <1>6, <1>7
<1>10. g = [s \in SUBSET S |-> Added(f, g, s)]
  BY <1>8, <1>9
<1>11. QED
  BY <1>10 DEF Sums

(* Sums of naturals are naturals. *)
LEMMA SumType ==
    ASSUME NEW S, IsFiniteSet(S), NEW f, \A x \in S : f[x] \in Nat
    PROVE  Sum(f, S) \in Nat
<1>1. Sum(f, S) = (CHOOSE g : g = [s \in SUBSET S |-> IF s = {} THEN 0
                     ELSE f[CHOOSE x \in s : TRUE] + g[s \ {CHOOSE x \in s : TRUE}]])[S]
  BY Zenon DEF Sum, FoldFunctionOnSet, MapThenFoldSet
<1>2. Sum(f, S) = (CHOOSE g : Sums(f, g, S))[S]
  BY <1>1, Zenon DEF Sums, Added, Taken
<1>3. PICK g : g = (CHOOSE h : Sums(f, h, S))
  OBVIOUS
<1>4. Sums(f, g, S)
  BY <1>3, SumsExist, Zenon
<1>5. \A s \in SUBSET S : g[s] = Added(f, g, s)
  BY <1>4, Zenon DEF Sums
<1> DEFINE T == {n \in Nat : \A s \in SUBSET S : Cardinality(s) <= n => g[s] \in Nat}
<1>6. g[{}] = 0
  BY <1>5 DEF Added
<1>7. \A s \in SUBSET S : IsFiniteSet(s) /\ Cardinality(s) \in Nat
  BY FS_Subset, FS_CardinalityType
<1>8. 0 \in T
  <2>1. \A s \in SUBSET S : Cardinality(s) <= 0 => s = {}
    BY <1>7, FS_EmptySet
  <2>2. QED
    BY <1>6, <2>1
<1>9. ASSUME NEW n \in T PROVE n + 1 \in T
  <2>1. n \in Nat /\ \A s \in SUBSET S : Cardinality(s) <= n => g[s] \in Nat
    BY <1>9
  <2>2. ASSUME NEW s \in SUBSET S, Cardinality(s) <= n + 1 PROVE g[s] \in Nat
    <3>1. CASE s = {}
      BY <1>6, <3>1
    <3>2. CASE s # {}
      <4>1. f[Taken(s)] \in Nat
        BY <2>2, <3>2, TakenLess
      <4>2. g[s \ {Taken(s)}] \in Nat
        BY <2>1, <2>2, <3>2, TakenLess
      <4>3. QED
        BY <1>5, <3>2, <4>1, <4>2 DEF Added
    <3>3. QED
      BY <3>1, <3>2
  <2>3. QED
    BY <2>1, <2>2
<1>10. PICK m \in Nat : m = Cardinality(S)
  BY FS_CardinalityType
<1>11. m \in T
  <2> HIDE DEF T
  <2>1. T \in SUBSET Nat
    BY DEF T
  <2>2. QED
    BY <1>8, <1>9, <2>1, SetInduction
<1>12. g[S] \in Nat
  BY <1>10, <1>11
<1>13. QED
  BY <1>2, <1>3, <1>12

-----------------------------------------------------------------------------
(* The operators of the rollup *)

(* A line of the aggregation has numbers in its columns, and at most as    *)
(* many failures as transfers.                                             *)
IsLine(c) == \E t, f, b, y, s, l, m, d \in Nat : \E rs :
    /\ c = [transfers |-> t, fails |-> f, big |-> b, bytes |-> y, secs |-> s,
            logins |-> l, loginFails |-> m, cwd |-> d, rows |-> rs]
    /\ f <= t

(* What is known of the counts of a set of rows. *)
LEMMA CountsLine ==
    ASSUME NEW S \in SUBSET Rows
    PROVE  Counts(S).rows = S /\ IsLine(Counts(S))
<1> DEFINE T == {r \in S : Row[r].action = "transfer"}
           Failed == {r \in T : Row[r].status = "fail"}
           F == {r \in Failed : Counted(r)}
           B == {r \in T \ Failed : Row[r].bytes > 0}
           L == {r \in S : Row[r].action = "login"}
           M == {r \in L : Row[r].status = "fail"}
           D == {r \in {q \in S : Row[q].action = "cwd_fail"} : Counted(r) /\ ~ Probe(r)}
           bytes == [r \in B |-> Row[r].bytes]
           secs == [r \in B |-> Row[r].secs]
<1>1. Counts(S) = [transfers |-> Cardinality(T), fails |-> Cardinality(F), big |-> Cardinality(B),
                   bytes |-> Sum(bytes, B), secs |-> Sum(secs, B), logins |-> Cardinality(L),
                   loginFails |-> Cardinality(M), cwd |-> Cardinality(D), rows |-> S]
  BY Zenon DEF Counts
<1>2. IsFiniteSet(S)
  BY ConstantsAssumption, FS_Subset
<1>3. /\ T \in SUBSET S /\ F \in SUBSET T /\ F \in SUBSET S /\ B \in SUBSET S
      /\ L \in SUBSET S /\ M \in SUBSET S /\ D \in SUBSET S
  OBVIOUS
<1>4. \A r \in B : bytes[r] \in Nat /\ secs[r] \in Nat
  BY ConstantsAssumption
<1> HIDE DEF T, Failed, F, B, L, M, D, bytes, secs
<1>5. \A X \in SUBSET S : IsFiniteSet(X) /\ Cardinality(X) \in Nat
  BY <1>2, FS_Subset, FS_CardinalityType
<1>6. /\ Cardinality(T) \in Nat /\ Cardinality(F) \in Nat /\ Cardinality(B) \in Nat
      /\ Cardinality(L) \in Nat /\ Cardinality(M) \in Nat /\ Cardinality(D) \in Nat
  BY <1>3, <1>5
<1>7. Cardinality(F) <= Cardinality(T)
  BY <1>3, <1>5, FS_Subset
<1>8. Sum(bytes, B) \in Nat /\ Sum(secs, B) \in Nat
  <2>1. IsFiniteSet(B)
    BY <1>3, <1>5
  <2>2. QED
    BY <1>4, <2>1, SumType
<1>9. IsLine(Counts(S))
  BY <1>1, <1>6, <1>7, <1>8, Zenon DEF IsLine
<1>10. QED
  BY <1>1, <1>9

(* A bucket begins before its rows. *)
LEMMA BucketStart ==
    ASSUME NEW r, at[r] \in Nat
    PROVE  BucketOf(r) \in Int /\ BucketOf(r) <= at[r]
<1>1. at[r] % Bucket \in 0..(Bucket - 1)
  BY ConstantsAssumption
<1>2. QED
  BY <1>1, ConstantsAssumption DEF BucketOf

-----------------------------------------------------------------------------
(* The clock and the cycles *)

(* Rows are logged before they arrive, and neither lies in the future. *)
Clocked ==
    /\ now \in Nat
    /\ DOMAIN at \subseteq Rows /\ Logs \subseteq DOMAIN at
    /\ \A r \in DOMAIN at : at[r] \in Nat /\ at[r] <= now
    /\ \A r \in Logs : since[r] \in Nat /\ since[r] <= now

(* No cycle is later than Lag, none is due further than Interval ahead,    *)
(* and a worker that is at work was due.                                   *)
Cycles ==
    /\ worker = [w \in Workers |-> worker[w]]
    /\ \A w \in Workers :
         /\ worker[w] = [pc |-> worker[w].pc, due |-> worker[w].due, agg |-> worker[w].agg]
         /\ worker[w].pc \in {"sleep", "write", "judge"} /\ worker[w].due \in Nat
         /\ now <= worker[w].due + Lag /\ worker[w].due <= now + Interval
         /\ worker[w].pc # "sleep" => worker[w].due <= now

(* At first nothing is logged, and all workers sleep. *)
LEMMA TimeInit == Init => Clocked /\ Cycles
<1> SUFFICES ASSUME Init PROVE Clocked /\ Cycles
  OBVIOUS
<1>1. now = 0
  BY DEF Init
<1>2. Clocked
  BY DEF Init, Clocked, Logs
<1>3. worker = [w \in Workers |-> worker[w]]
  BY DEF Init
<1>4. Interval \in Nat /\ Lag \in Nat
  BY ConstantsAssumption
<1>5. ASSUME NEW w \in Workers
      PROVE  /\ worker[w] = [pc |-> worker[w].pc, due |-> worker[w].due, agg |-> worker[w].agg]
             /\ worker[w].pc \in {"sleep", "write", "judge"} /\ worker[w].due \in Nat
             /\ now <= worker[w].due + Lag /\ worker[w].due <= now + Interval
             /\ worker[w].pc # "sleep" => worker[w].due <= now
  <2>1. PICK d \in 0..Interval : worker[w] = [pc |-> "sleep", due |-> d, agg |-> <<>>]
    BY DEF Init
  <2>2. worker[w].pc = "sleep" /\ worker[w].due = d
        /\ worker[w] = [pc |-> worker[w].pc, due |-> worker[w].due, agg |-> worker[w].agg]
    BY <2>1
  <2>3. d \in Nat /\ 0 <= d + Lag /\ d <= 0 + Interval
    BY <1>4
  <2>4. QED
    BY <1>1, <2>2, <2>3
<1>6. Cycles
  BY <1>3, <1>5, Zenon DEF Cycles
<1>7. QED
  BY <1>2, <1>6

(* The worker that takes a step, and the others. *)
Becomes(w, pc, due, agg) ==
    /\ worker' = [v \in Workers |-> worker'[v]]
    /\ worker'[w] = [pc |-> pc, due |-> due, agg |-> agg]
    /\ \A v \in Workers \ {w} : worker'[v] = worker[v]

(* The step of a cycle changes one worker. *)
LEMMA CycleStep ==
    ASSUME Cycles, NEW w \in Workers
    PROVE  /\ Rollup(w) => Becomes(w, "write", worker[w].due, Aggregated)
           /\ Upsert(w) => Becomes(w, "judge", worker[w].due, <<>>)
           /\ Detect(w) => Becomes(w, "sleep", now + Interval, worker[w].agg)
<1>1. PICK p, d, g : worker[w] = [pc |-> p, due |-> d, agg |-> g]
  BY DEF Cycles
<1>2. worker = [v \in Workers |-> worker[v]]
  BY DEF Cycles
<1>3. Rollup(w) => Becomes(w, "write", worker[w].due, Aggregated)
  BY <1>1, <1>2 DEF Rollup, Becomes
<1>4. Upsert(w) => Becomes(w, "judge", worker[w].due, <<>>)
  BY <1>1, <1>2 DEF Upsert, Becomes
<1>5. Detect(w) => Becomes(w, "sleep", now + Interval, worker[w].agg)
  BY <1>1, <1>2 DEF Detect, Becomes
<1>6. QED
  BY <1>3, <1>4, <1>5

(* The clock and the cycles keep their bounds. *)
LEMMA TimeStep == Clocked /\ Cycles /\ [Next]_vars => Clocked' /\ Cycles'
<1> SUFFICES ASSUME Clocked, Cycles, [Next]_vars PROVE Clocked' /\ Cycles'
  OBVIOUS
<1>1. ASSUME NEW w \in Workers, Rollup(w) PROVE Clocked' /\ Cycles'
  <2>1. Becomes(w, "write", worker[w].due, Aggregated)
    BY <1>1, CycleStep
  <2>2. Clocked'
    BY <1>1 DEF Rollup, Clocked, Logs
  <2>3. now' = now /\ worker[w].due <= now
    BY <1>1 DEF Rollup, Clocked, Cycles
  <2>4. Cycles'
    BY <2>1, <2>3 DEF Becomes, Clocked, Cycles
  <2>5. QED
    BY <2>2, <2>4
<1>2. ASSUME NEW w \in Workers, Upsert(w) PROVE Clocked' /\ Cycles'
  <2>1. Becomes(w, "judge", worker[w].due, <<>>)
    BY <1>2, CycleStep
  <2>2. Clocked'
    BY <1>2 DEF Upsert, Clocked, Logs
  <2>3. now' = now /\ worker[w].due <= now
    BY <1>2 DEF Upsert, Clocked, Cycles
  <2>4. Cycles'
    BY <2>1, <2>3 DEF Becomes, Clocked, Cycles
  <2>5. QED
    BY <2>2, <2>4
<1>3. ASSUME NEW w \in Workers, Detect(w) PROVE Clocked' /\ Cycles'
  <2>1. Becomes(w, "sleep", now + Interval, worker[w].agg)
    BY <1>3, CycleStep
  <2>2. Clocked'
    BY <1>3 DEF Detect, Clocked, Logs
  <2>3. now' = now
    BY <1>3 DEF Detect
  <2>4. Cycles'
    BY <2>1, <2>3, ConstantsAssumption DEF Becomes, Clocked, Cycles
  <2>5. QED
    BY <2>2, <2>4
<1> USE ConstantsAssumption DEF Clocked, Cycles, Logs
<1>4. ASSUME NEW r \in Rows, Log(r) PROVE Clocked' /\ Cycles'
  BY <1>4 DEF Log
<1>5. ASSUME NEW r \in Rows, Arrive(r) PROVE Clocked' /\ Cycles'
  BY <1>5 DEF Arrive
<1>6. CASE SaveIgnoreLists
  BY <1>6 DEF SaveIgnoreLists
<1>7. CASE Tick
  BY <1>7 DEF Tick
<1>8. CASE UNCHANGED vars
  BY <1>8 DEF vars
<1>9. QED
  BY <1>1, <1>2, <1>3, <1>4, <1>5, <1>6, <1>7, <1>8 DEF Next

-----------------------------------------------------------------------------
(* Late rows *)

(* The counts of its bucket hold row r. *)
Holds(m, r) == BucketOf(r) \in DOMAIN m /\ r \in m[BucketOf(r)].rows

(* Row r has come while a judgement of its bucket is still ahead. *)
OnTime(r) == since[r] <= BucketOf(r) + 2 * Bucket - 3 * Lag + 1

(* Counts without row r were taken before it came.  A cycle that is due    *)
(* later counts it.                                                        *)
OldCounts(r) == \A w \in Workers :
    worker[w].pc = "write" /\ ~ Holds(worker[w].agg, r) => worker[w].due <= since[r]

(* A cycle of worker w that was due before, or soon after, row r came.  It *)
(* may judge the bucket without the row, but then so early that the next   *)
(* one of this worker is in time.                                          *)
Early(w, r) ==
    /\ worker[w].due <= since[r] + Lag
    /\ worker[w].pc = "judge" /\ worker[w].due > BucketOf(r) + 2 * Bucket - 2 * Lag =>
         Holds(metrics, r)

(* A cycle of worker w that will judge the bucket with row r in it. *)
InTime(w, r) ==
    /\ since[r] + Lag < worker[w].due
    /\ worker[w].due <= BucketOf(r) + Interval + 2 * Bucket - Lag
    /\ worker[w].pc = "judge" => Holds(metrics, r)

(* Some worker will judge the row in time, or is early. *)
Chance(r) == \E w \in Workers : Early(w, r) \/ InTime(w, r)

(* A row that is not judged has its chance. *)
Chances == \A r \in Logs \ judged : OnTime(r) => OldCounts(r) /\ Chance(r)

IInv == Clocked /\ Cycles /\ Chances

(* A chance has not passed. *)
LEMMA ChanceAhead ==
    ASSUME Clocked, Cycles, NEW r \in Logs, OnTime(r), Chance(r)
    PROVE  now <= BucketOf(r) + Interval + 2 * Bucket
<1>1. BucketOf(r) \in Int /\ since[r] \in Nat
  BY BucketStart DEF Clocked
<1>2. PICK w \in Workers : Early(w, r) \/ InTime(w, r)
  BY DEF Chance
<1>3. now <= worker[w].due + Lag /\ worker[w].due \in Nat /\ now \in Nat
  BY DEF Cycles, Clocked
<1>4. QED
  BY <1>1, <1>2, <1>3, ConstantsAssumption DEF OnTime, Early, InTime

(* A cycle counts every row that still has a chance: the window reaches    *)
(* back that far.                                                          *)
LEMMA RollupCounts ==
    ASSUME Clocked, NEW r \in Logs, now <= BucketOf(r) + Interval + 2 * Bucket
    PROVE  Holds(Aggregated, r)
<1>1. BucketOf(r) \in Int /\ BucketOf(r) <= at[r] /\ at[r] \in Nat /\ now \in Nat
  BY BucketStart DEF Clocked
<1>2. r \in RollupWindow
  BY <1>1, ConstantsAssumption DEF RollupWindow
<1> DEFINE S == {q \in RollupWindow : BucketOf(q) = BucketOf(r)}
<1>3. BucketOf(r) \in DOMAIN Aggregated /\ Aggregated[BucketOf(r)] = Counts(S)
  BY <1>2, Zenon DEF Aggregated
<1>4. S \in SUBSET Rows /\ r \in S
  BY <1>2 DEF Clocked, RollupWindow
<1> HIDE DEF S
<1>5. QED
  BY <1>3, <1>4, CountsLine DEF Holds

(* What is written either holds the row, or was counted without it. *)
LEMMA UpsertHolds ==
    ASSUME NEW w \in Workers, Upsert(w), NEW r, Holds(worker[w].agg, r)
    PROVE  Holds(metrics, r)'
BY DEF Upsert, Holds, BucketOf

(* A step of the cycle leaves the chances of a row it does not judge. *)
LEMMA RollupChance ==
    ASSUME IInv, NEW w \in Workers, Rollup(w),
           NEW r \in Logs, OnTime(r), OldCounts(r), Chance(r)
    PROVE  OldCounts(r)' /\ Chance(r)'
<1>1. Holds(Aggregated, r)
  BY ChanceAhead, RollupCounts DEF IInv
<1>2. Becomes(w, "write", worker[w].due, Aggregated)
  BY CycleStep DEF IInv
<1>3. BucketOf(r)' = BucketOf(r) /\ since' = since /\ metrics' = metrics
  BY DEF Rollup, BucketOf
<1>4. OldCounts(r)'
  BY <1>1, <1>2, <1>3 DEF OldCounts, Becomes, Holds
<1>5. Chance(r)'
  BY <1>2, <1>3 DEF Chance, Early, InTime, Becomes, Holds
<1>6. QED
  BY <1>4, <1>5

(* A worker that writes old counts over newer ones becomes the one that is *)
(* early.                                                                  *)
LEMMA UpsertChance ==
    ASSUME IInv, NEW w \in Workers, Upsert(w),
           NEW r \in Logs, OnTime(r), OldCounts(r), Chance(r)
    PROVE  OldCounts(r)' /\ Chance(r)'
<1>1. Becomes(w, "judge", worker[w].due, <<>>)
  BY CycleStep DEF IInv
<1>2. BucketOf(r)' = BucketOf(r) /\ since' = since /\ worker[w].pc = "write"
  BY DEF Upsert, BucketOf
<1>3. OldCounts(r)'
  BY <1>1, <1>2 DEF OldCounts, Becomes, Holds
<1>4. CASE Holds(worker[w].agg, r)
  <2>1. Holds(metrics, r)'
    BY <1>4, UpsertHolds
  <2>2. Chance(r)'
    BY <1>1, <1>2, <2>1 DEF Chance, Early, InTime, Becomes
  <2>3. QED
    BY <1>3, <2>2
<1>5. CASE ~ Holds(worker[w].agg, r)
  <2>1. worker[w].due <= since[r]
    BY <1>2, <1>5 DEF OldCounts
  <2>2. BucketOf(r) \in Int /\ since[r] \in Nat /\ worker[w].due \in Nat
    BY BucketStart DEF IInv, Clocked, Cycles
  <2>3. worker'[w].due = worker[w].due
    BY <1>1 DEF Becomes
  <2>4. Early(w, r)'
    BY <1>2, <2>1, <2>2, <2>3, ConstantsAssumption DEF Early, OnTime
  <2>5. QED
    BY <1>3, <2>4 DEF Chance
<1>6. QED
  BY <1>4, <1>5

(* A judgement leaves a later one in time, or it judges the row. *)
LEMMA DetectChance ==
    ASSUME IInv, NEW w \in Workers, Detect(w),
           NEW r \in Logs, r \notin judged', OnTime(r), OldCounts(r), Chance(r)
    PROVE  OldCounts(r)' /\ Chance(r)'
<1>1. Becomes(w, "sleep", now + Interval, worker[w].agg)
  BY CycleStep DEF IInv
<1>2. BucketOf(r)' = BucketOf(r) /\ since' = since /\ metrics' = metrics /\ worker[w].pc = "judge"
  BY DEF Detect, BucketOf
<1>3. OldCounts(r)'
  BY <1>1, <1>2 DEF OldCounts, Becomes, Holds
<1>4. PICK v \in Workers : Early(v, r) \/ InTime(v, r)
  BY DEF Chance
<1>5. CASE v # w
  <2>1. (Early(v, r) \/ InTime(v, r))'
    BY <1>1, <1>2, <1>4, <1>5 DEF Early, InTime, Becomes, Holds
  <2>2. QED
    BY <1>3, <2>1 DEF Chance
<1>6. CASE v = w
  <2>1. /\ BucketOf(r) \in Int /\ since[r] \in Nat /\ worker[w].due \in Nat /\ now \in Nat
        /\ worker[w].due <= now /\ now <= worker[w].due + Lag
    BY <1>2, BucketStart DEF IInv, Clocked, Cycles
  <2>2. worker'[w].due = now + Interval /\ worker'[w].pc = "sleep"
    BY <1>1 DEF Becomes
  <2>3. CASE now + Lag <= BucketOf(r) + 2 * Bucket
    <3>1. (Early(w, r) \/ InTime(w, r))'
      BY <1>2, <2>1, <2>2, <2>3, ConstantsAssumption DEF Early, InTime
    <3>2. QED
      BY <1>3, <3>1 DEF Chance
  <2>4. CASE now + Lag > BucketOf(r) + 2 * Bucket
    <3>1. Holds(metrics, r)
      BY <1>2, <1>4, <1>6, <2>1, <2>4, ConstantsAssumption DEF Early, InTime
    <3>2. now <= BucketOf(r) + Interval + 2 * Bucket
      BY ChanceAhead DEF IInv
    <3>3. BucketOf(r) \in Candidates
      BY <2>1, <2>4, <3>1, <3>2, ConstantsAssumption DEF Candidates, Holds
    <3>4. r \in judged'
      BY <3>1, <3>3 DEF Detect, Holds
    <3>5. QED
      BY <3>4
  <2>5. QED
    BY <2>1, <2>3, <2>4, ConstantsAssumption
<1>7. QED
  BY <1>5, <1>6

(* When a row comes, counts that were taken without it are of cycles due   *)
(* by now, and the next cycle of every worker is in time.                  *)
LEMMA ArriveChance ==
    ASSUME IInv, NEW r \in Rows, Arrive(r), OnTime(r)'
    PROVE  OldCounts(r)' /\ Chance(r)'
<1>1. since'[r] = now /\ r \in DOMAIN at /\ BucketOf(r)' = BucketOf(r) /\ worker' = worker
  BY DEF Arrive, BucketOf
<1>2. BucketOf(r) \in Int /\ now \in Nat
  BY <1>1, BucketStart DEF IInv, Clocked
<1>3. \A w \in Workers : /\ worker[w].due \in Nat /\ worker[w].due <= now + Interval
                         /\ worker[w].pc # "sleep" => worker[w].due <= now
  BY DEF IInv, Cycles
<1>4. OldCounts(r)'
  BY <1>1, <1>3 DEF OldCounts
<1>5. PICK w \in Workers : TRUE
  BY ConstantsAssumption
<1>6. now <= BucketOf(r) + 2 * Bucket - 3 * Lag + 1
  BY <1>1 DEF OnTime
<1>7. CASE worker[w].due <= now + Lag
  <2>1. worker[w].pc = "judge" => worker[w].due <= BucketOf(r) + 2 * Bucket - 2 * Lag
    <3>1. worker[w].due \in Nat /\ (worker[w].pc = "judge" => worker[w].due <= now)
      BY <1>3
    <3>2. QED
      BY <1>2, <1>6, <3>1, ConstantsAssumption
  <2>2. Early(w, r)'
    BY <1>1, <1>2, <1>3, <1>7, <2>1, ConstantsAssumption DEF Early
  <2>3. QED
    BY <1>4, <2>2 DEF Chance
<1>8. CASE now + Lag < worker[w].due
  <2>1. worker[w].due \in Nat /\ worker[w].due <= now + Interval /\ worker[w].pc # "judge"
    BY <1>2, <1>3, <1>8, ConstantsAssumption
  <2>2. worker[w].due <= BucketOf(r) + Interval + 2 * Bucket - Lag
    BY <1>2, <1>6, <2>1, ConstantsAssumption
  <2>3. InTime(w, r)'
    BY <1>1, <1>8, <2>1, <2>2 DEF InTime
  <2>4. QED
    BY <1>4, <2>3 DEF Chance
<1>9. QED
  BY <1>2, <1>3, <1>7, <1>8, ConstantsAssumption

(* Every step keeps the chances. *)
LEMMA ChancesStep == IInv /\ [Next]_vars => Chances'
<1> SUFFICES ASSUME IInv, [Next]_vars,
                    NEW r \in Logs', r \notin judged', OnTime(r)'
             PROVE  OldCounts(r)' /\ Chance(r)'
  BY DEF Chances
<1>1. ASSUME NEW w \in Workers, Rollup(w) PROVE OldCounts(r)' /\ Chance(r)'
  <2>1. r \in Logs \ judged /\ OnTime(r)
    BY <1>1 DEF Rollup, Logs, OnTime, BucketOf
  <2>2. QED
    BY <1>1, <2>1, RollupChance DEF IInv, Chances
<1>2. ASSUME NEW w \in Workers, Upsert(w) PROVE OldCounts(r)' /\ Chance(r)'
  <2>1. r \in Logs \ judged /\ OnTime(r)
    BY <1>2 DEF Upsert, Logs, OnTime, BucketOf
  <2>2. QED
    BY <1>2, <2>1, UpsertChance DEF IInv, Chances
<1>3. ASSUME NEW w \in Workers, Detect(w) PROVE OldCounts(r)' /\ Chance(r)'
  <2>1. r \in Logs \ judged /\ OnTime(r)
    BY <1>3 DEF Detect, Logs, OnTime, BucketOf
  <2>2. QED
    BY <1>3, <2>1, DetectChance DEF IInv, Chances
<1>4. ASSUME r \in Logs, OnTime(r), r \notin judged, BucketOf(r)' = BucketOf(r),
             since'[r] = since[r], UNCHANGED <<metrics, worker>>
      PROVE  OldCounts(r)' /\ Chance(r)'
  <2>1. OldCounts(r) /\ Chance(r)
    BY <1>4 DEF IInv, Chances
  <2>2. QED
    BY <1>4, <2>1 DEF OldCounts, Chance, Early, InTime, Holds
<1>5. ASSUME NEW q \in Rows, Log(q) PROVE OldCounts(r)' /\ Chance(r)'
  <2>1. r \in Logs /\ at'[r] = at[r]
    BY <1>5 DEF Log, Logs, IInv, Clocked
  <2>2. QED
    BY <1>4, <1>5, <2>1 DEF Log, OnTime, BucketOf
<1>6. ASSUME NEW q \in Rows, Arrive(q) PROVE OldCounts(r)' /\ Chance(r)'
  <2>1. CASE r = q
    BY <1>6, <2>1, ArriveChance
  <2>2. CASE r # q
    BY <1>4, <1>6, <2>2 DEF Arrive, Logs, OnTime, BucketOf
  <2>3. QED
    BY <2>1, <2>2
<1>7. CASE SaveIgnoreLists \/ Tick \/ UNCHANGED vars
  BY <1>4, <1>7 DEF SaveIgnoreLists, Tick, vars, Logs, OnTime, BucketOf
<1>8. QED
  BY <1>1, <1>2, <1>3, <1>5, <1>6, <1>7 DEF Next

(* However the cycles of the workers overlap, whichever older counts one   *)
(* writes over the other's, and with every length of the bucket, the       *)
(* interval and the delay of a cycle: a row that comes by the time given   *)
(* is counted when its bucket is judged.                                   *)
THEOREM LateRowsCount == Spec => []LateRowsJudged
<1>1. Init => IInv
  <2>1. Init => Chances
    BY DEF Init, Chances, Logs
  <2>2. QED
    BY <2>1, TimeInit DEF IInv
<1>2. IInv /\ [Next]_vars => IInv'
  BY TimeStep, ChancesStep DEF IInv
<1>3. IInv => LateRowsJudged
  <2> SUFFICES ASSUME IInv, NEW r \in Logs, OnTime(r), r \notin judged,
                      now > BucketOf(r) + Interval + 2 * Bucket
               PROVE  FALSE
    BY DEF LateRowsJudged, OnTime
  <2>1. now <= BucketOf(r) + Interval + 2 * Bucket
    BY ChanceAhead DEF IInv, Chances
  <2>2. BucketOf(r) \in Int /\ now \in Nat
    BY BucketStart DEF IInv, Clocked
  <2>3. QED
    BY <2>1, <2>2, ConstantsAssumption
<1>4. QED
  BY <1>1, <1>2, <1>3, PTL DEF Spec

-----------------------------------------------------------------------------
(* Samples *)

(* A finite sample is bounded. *)
LEMMA SampleBounded ==
    ASSUME NEW D, IsFiniteSet(D), NEW xs \in [D -> Nat]
    PROVE  \E u \in Nat : \A i \in D : xs[i] <= u
<1>1. PICK n \in Nat : ExistsBijection(1..n, D)
  BY FS_NatBijection
<1>2. PICK g \in [1..n -> D] : \A i \in D : \E j \in 1..n : g[j] = i
  BY <1>1 DEF ExistsBijection, Bijection, Injection, Surjection
<1> DEFINE T == {m \in Nat : \E u \in Nat : \A j \in 1..n : j <= m => xs[g[j]] <= u}
<1>3. \A j \in 1..n : xs[g[j]] \in Nat
  BY <1>2
<1>4. 0 \in T
  OBVIOUS
<1>5. ASSUME NEW m \in T PROVE m + 1 \in T
  <2>1. PICK u \in Nat : \A j \in 1..n : j <= m => xs[g[j]] <= u
    OBVIOUS
  <2>2. CASE m + 1 \in 1..n
    <3>1. PICK v \in Nat : v >= u /\ v >= xs[g[m + 1]]
      BY <1>3, <2>2
    <3>2. \A j \in 1..n : j <= m + 1 => xs[g[j]] <= v
      BY <1>3, <2>1, <3>1
    <3>3. QED
      BY <3>2
  <2>3. CASE m + 1 \notin 1..n
    BY <2>1, <2>3
  <2>4. QED
    BY <2>2, <2>3
<1>6. n \in T
  <2> HIDE DEF T
  <2>1. T \in SUBSET Nat
    BY DEF T
  <2>2. QED
    BY <1>4, <1>5, <2>1, SetInduction
<1>7. PICK u \in Nat : \A j \in 1..n : xs[g[j]] <= u
  <2>1. PICK u \in Nat : \A j \in 1..n : j <= n => xs[g[j]] <= u
    BY <1>6
  <2>2. \A j \in 1..n : j <= n
    OBVIOUS
  <2>3. QED
    BY <2>1, <2>2
<1>8. \A i \in D : xs[i] <= u
  BY <1>2, <1>7
<1>9. QED
  BY <1>8

(* The k-th smallest value is one of the values. *)
LEMMA KthType ==
    ASSUME NEW D, IsFiniteSet(D), NEW xs \in [D -> Nat], NEW k \in 1..Cardinality(D)
    PROVE  Kth(xs, k) \in Nat
<1> DEFINE UpTo(v) == {i \in D : xs[i] <= v}
           Below(v) == {i \in D : xs[i] < v}
           T == {v \in Nat : Cardinality(UpTo(v)) >= k}
<1>1. \A v : Cardinality(UpTo(v)) \in Nat /\ Cardinality(Below(v)) \in Nat
  <2>1. \A v : IsFiniteSet(UpTo(v)) /\ IsFiniteSet(Below(v))
    BY FS_Subset
  <2>2. QED
    BY <2>1, FS_CardinalityType
<1>2. T # {}
  <2>1. PICK u \in Nat : \A i \in D : xs[i] <= u
    BY SampleBounded
  <2>2. UpTo(u) = D
    BY <2>1
  <2>3. Cardinality(UpTo(u)) >= k
    <3> HIDE DEF UpTo
    <3> QED
      BY <2>2, FS_CardinalityType
  <2>4. QED
    BY <2>3
<1>3. PICK v \in T : \A y \in T : v <= y
  <2> HIDE DEF T
  <2>1. T \in SUBSET Nat
    BY DEF T
  <2>2. QED
    BY <1>2, <2>1, NatLeast
<1>4. Cardinality(Below(v)) < k
  <2>1. CASE v = 0
    <3>1. Below(v) = {}
      BY <2>1
    <3>2. QED
      BY <3>1, FS_EmptySet
  <2>2. CASE v # 0
    <3>1. v - 1 \in Nat /\ v - 1 \notin T
      BY <1>3, <2>2
    <3>2. UpTo(v - 1) = Below(v)
      BY <3>1
    <3>3. QED
      BY <1>1, <3>1, <3>2
  <2>3. QED
    BY <2>1, <2>2
<1>5. v \in Range(xs)
  <2>1. SUFFICES ASSUME \A i \in D : xs[i] # v PROVE FALSE
    BY DEF Range
  <2>2. UpTo(v) = Below(v)
    BY <2>1
  <2>3. QED
    BY <1>1, <1>3, <1>4, <2>2
<1>6. {i \in DOMAIN xs : xs[i] < v} = Below(v) /\ {i \in DOMAIN xs : xs[i] <= v} = UpTo(v)
  OBVIOUS
<1> HIDE DEF UpTo, Below
<1>7. Cardinality(UpTo(v)) >= k
  BY <1>3
<1>8. Kth(xs, k) \in Range(xs)
  BY <1>4, <1>5, <1>6, <1>7 DEF Kth
<1>9. QED
  BY <1>8 DEF Range

(* The median of a sample is a number. *)
LEMMA MedianType ==
    ASSUME NEW D, IsFiniteSet(D), D # {}, NEW xs \in [D -> Nat]
    PROVE  Median(xs) \in Nat
<1>1. PICK n \in Nat : n = Cardinality(D) /\ n # 0
  BY FS_CardinalityType, FS_EmptySet
<1>2. DOMAIN xs = D
  OBVIOUS
<1>3. PICK m \in Nat : m = n \div 2 /\ (n % 2 = 1 => m + 1 \in 1..n)
                       /\ (n % 2 # 1 => m \in 1..n /\ m + 1 \in 1..n)
  BY <1>1
<1>4. CASE n % 2 = 1
  <2>1. Kth(xs, m + 1) \in Nat
    BY <1>1, <1>3, <1>4, KthType
  <2>2. QED
    BY <1>1, <1>2, <1>3, <1>4, <2>1 DEF Median
<1>5. CASE n % 2 # 1
  <2>1. Kth(xs, m) \in Nat /\ Kth(xs, m + 1) \in Nat
    BY <1>1, <1>3, <1>5, KthType
  <2>2. (Kth(xs, m) + Kth(xs, m + 1)) \div 2 \in Nat
    BY <2>1
  <2>3. QED
    BY <1>1, <1>2, <1>3, <1>5, <2>2 DEF Median
<1>6. QED
  BY <1>4, <1>5

(* So is its deviation. *)
LEMMA MadType ==
    ASSUME NEW D, IsFiniteSet(D), D # {}, NEW xs \in [D -> Nat]
    PROVE  Mad(xs) \in Nat
<1>1. Median(xs) \in Nat
  BY MedianType
<1>2. \A i \in D : Dist(xs[i], Median(xs)) \in Nat
  BY <1>1 DEF Dist
<1>3. [i \in DOMAIN xs |-> Dist(xs[i], Median(xs))] \in [D -> Nat]
  BY <1>2
<1>4. QED
  BY <1>3, MedianType DEF Mad

(* The threshold is a number. *)
LEMMA ThresholdType ==
    ASSUME NEW D, IsFiniteSet(D), NEW xs \in [D -> Nat], NEW floor \in Nat
    PROVE  HighThreshold(xs, floor) \in Nat
<1>1. CASE D = {}
  BY <1>1 DEF HighThreshold
<1>2. CASE D # {}
  <2>1. Median(xs) \in Nat /\ Mad(xs) \in Nat /\ Cfg.mad_k \in Nat
    BY <1>2, MedianType, MadType, ConstantsAssumption
  <2>2. Median(xs) + Cfg.mad_k * Mad(xs) \in Nat
    BY <2>1
  <2>3. QED
    BY <1>2, <2>2 DEF HighThreshold, Greater
<1>3. QED
  BY <1>1, <1>2

(* The lower half of a sample that is zero for the most part. *)
LEMMA KthZero ==
    ASSUME NEW D, IsFiniteSet(D), NEW xs \in [D -> Nat],
           NEW k \in Nat, 0 < k, k <= Cardinality({i \in D : xs[i] = 0})
    PROVE  Kth(xs, k) = 0
<1> DEFINE Z == {i \in D : xs[i] = 0}
           P(v) == /\ Cardinality({i \in DOMAIN xs : xs[i] < v}) < k
                   /\ Cardinality({i \in DOMAIN xs : xs[i] <= v}) >= k
<1>1. IsFiniteSet(Z) /\ Cardinality(Z) \in Nat
  BY FS_Subset, FS_CardinalityType
<1>2. 0 \in Range(xs)
  <2>1. Z # {}
    BY <1>1, FS_EmptySet
  <2>2. QED
    BY <2>1 DEF Range
<1>3. P(0)
  <2>1. {i \in DOMAIN xs : xs[i] < 0} = {} /\ {i \in DOMAIN xs : xs[i] <= 0} = Z
    OBVIOUS
  <2>2. QED
    BY <2>1, FS_EmptySet
<1>4. ASSUME NEW v \in Range(xs), v # 0 PROVE ~ P(v)
  <2>1. v \in Nat
    BY DEF Range
  <2>2. Z \subseteq {i \in D : xs[i] < v} /\ IsFiniteSet({i \in D : xs[i] < v})
    BY <1>4, <2>1, FS_Subset
  <2>3. /\ Cardinality(Z) <= Cardinality({i \in D : xs[i] < v})
        /\ Cardinality({i \in D : xs[i] < v}) \in Nat
    BY <2>2, FS_Subset, FS_CardinalityType
  <2>4. {i \in D : xs[i] < v} = {i \in DOMAIN xs : xs[i] < v}
    OBVIOUS
  <2>5. QED
    BY <1>1, <2>3, <2>4
<1>5. Kth(xs, k) = CHOOSE v \in Range(xs) : P(v)
  BY Zenon DEF Kth
<1> HIDE DEF P
<1>6. QED
  BY <1>2, <1>3, <1>4, <1>5

(* ... and its median and its deviation are zero. *)
LEMMA MedianZero ==
    ASSUME NEW D, IsFiniteSet(D), NEW xs \in [D -> Nat],
           2 * Cardinality({i \in D : xs[i] = 0}) > Cardinality(D)
    PROVE  Median(xs) = 0 /\ Mad(xs) = 0
<1>1. PICK n \in Nat : n = Cardinality(D)
  BY FS_CardinalityType
<1>2. PICK z \in Nat : z = Cardinality({i \in D : xs[i] = 0}) /\ z <= n
  <2>1. IsFiniteSet({i \in D : xs[i] = 0}) /\ Cardinality({i \in D : xs[i] = 0}) <= Cardinality(D)
    BY FS_Subset
  <2>2. QED
    BY <1>1, <2>1, FS_CardinalityType
<1>3. PICK m \in Nat : m = n \div 2 /\ m + 1 <= z /\ (n % 2 # 1 => 0 < m)
  <2>1. 2 * z > n
    BY <1>1, <1>2
  <2>2. n \div 2 \in Nat /\ 2 * (n \div 2) <= n /\ n < 2 * (n \div 2) + 2
    OBVIOUS
  <2>3. n % 2 # 1 => n # 1
    OBVIOUS
  <2>4. n \div 2 + 1 <= z
    BY <2>1, <2>2
  <2>5. n % 2 # 1 => 0 < n \div 2
    <3>1. z <= n
      BY <1>2
    <3>2. QED
      BY <2>1, <2>2, <2>3, <3>1
  <2>6. QED
    BY <2>2, <2>4, <2>5, Zenon
<1>4. Kth(xs, m + 1) = 0 /\ (n % 2 # 1 => Kth(xs, m) = 0)
  BY <1>2, <1>3, KthZero
<1>5. Median(xs) = 0
  <2>1. CASE n % 2 = 1
    BY <1>1, <1>3, <1>4, <2>1 DEF Median
  <2>2. CASE n % 2 # 1
    <3>1. (Kth(xs, m) + Kth(xs, m + 1)) \div 2 = 0
      BY <1>4, <2>2
    <3>2. QED
      BY <1>1, <1>3, <2>2, <3>1 DEF Median
  <2>3. QED
    BY <2>1, <2>2
<1>6. [i \in DOMAIN xs |-> Dist(xs[i], Median(xs))] = xs
  BY <1>5 DEF Dist
<1>7. QED
  BY <1>5, <1>6 DEF Mad

(* One failed transfer more: the rate does not fall. *)
LEMMA RateGrows ==
    ASSUME NEW f \in Nat, NEW t \in Nat, 0 < t, f <= t
    PROVE  /\ Rate(f, t) \in Nat /\ Rate(f + 1, t + 1) \in Nat
           /\ Rate(f, t) <= Rate(f + 1, t + 1)
           /\ Rate(0, t) = 0
<1>1. PICK q : q = (240 * f) \div t
  OBVIOUS
<1>2. q \in Nat /\ q * t <= 240 * f
  BY <1>1
<1>3. q <= 240
  BY <1>2
<1>4. q * (t + 1) <= 240 * (f + 1)
  BY <1>2, <1>3
<1>5. PICK p : p = (240 * (f + 1)) \div (t + 1)
  OBVIOUS
<1>6. p \in Nat /\ 240 * (f + 1) < (p + 1) * (t + 1)
  BY <1>5
<1>7. q < p + 1
  BY <1>2, <1>4, <1>6
<1>8. (240 * 0) \div t = 0
  OBVIOUS
<1>9. QED
  BY <1>1, <1>2, <1>5, <1>6, <1>7, <1>8 DEF Rate, Unit

-----------------------------------------------------------------------------
(* The judgement of failures *)

(* Counts of finitely many buckets. *)
Lined(m) ==
    /\ IsFiniteSet(DOMAIN m) /\ DOMAIN m \subseteq Int
    /\ \A b \in DOMAIN m : IsLine(m[b])

Lines ==
    /\ Lined(metrics)
    /\ \A w \in Workers : worker[w].pc = "write" => Lined(worker[w].agg)

(* The values of a function on a finite set. *)
LEMMA FiniteImage ==
    ASSUME NEW S, IsFiniteSet(S), NEW f, DOMAIN f = S, f = [x \in S |-> f[x]]
    PROVE  IsFiniteSet({f[x] : x \in S})
<1> DEFINE T == {f[x] : x \in S}
<1>1. f \in Surjection(S, T)
  BY DEF Surjection
<1>2. QED
  BY <1>1, FS_Surjection

(* What a cycle counts. *)
LEMMA AggregatedLined ==
    ASSUME Clocked
    PROVE  Lined(Aggregated)
<1>1. RollupWindow \subseteq Rows
  BY DEF Clocked, RollupWindow
<1>2. IsFiniteSet(RollupWindow)
  BY <1>1, ConstantsAssumption, FS_Subset
<1> DEFINE Bs == {BucketOf(r) : r \in RollupWindow}
<1>3. IsFiniteSet(Bs)
  <2>1. PICK f : f = [r \in RollupWindow |-> BucketOf(r)]
    OBVIOUS
  <2>2. Bs = {f[r] : r \in RollupWindow}
    BY <2>1
  <2>3. QED
    BY <1>2, <2>1, <2>2, FiniteImage
<1>4. Bs \subseteq Int
  BY BucketStart DEF Clocked, RollupWindow
<1>5. DOMAIN Aggregated = Bs
  BY Zenon DEF Aggregated
<1>6. ASSUME NEW b \in Bs PROVE IsLine(Aggregated[b])
  <2>1. Aggregated[b] = Counts({r \in RollupWindow : BucketOf(r) = b})
    BY <1>6, Zenon DEF Aggregated
  <2>2. {r \in RollupWindow : BucketOf(r) = b} \in SUBSET Rows
    BY <1>1
  <2>3. QED
    BY <2>1, <2>2, CountsLine
<1> HIDE DEF Bs
<1>7. QED
  BY <1>3, <1>4, <1>5, <1>6 DEF Lined

(* The counts stay so. *)
LEMMA LinesStep == Clocked /\ Cycles /\ Lines /\ [Next]_vars => Lines'
<1> SUFFICES ASSUME Clocked, Cycles, Lines, [Next]_vars PROVE Lines'
  OBVIOUS
<1>1. ASSUME NEW w \in Workers, Rollup(w) PROVE Lines'
  <2>1. Becomes(w, "write", worker[w].due, Aggregated)
    BY <1>1, CycleStep
  <2>2. metrics' = metrics
    BY <1>1 DEF Rollup
  <2>3. QED
    BY <2>1, <2>2, AggregatedLined DEF Lines, Becomes
<1>2. ASSUME NEW w \in Workers, Upsert(w) PROVE Lines'
  <2>1. Becomes(w, "judge", worker[w].due, <<>>)
    BY <1>2, CycleStep
  <2>2. PICK new : new = worker[w].agg
    OBVIOUS
  <2>3. /\ DOMAIN metrics' = DOMAIN new \cup DOMAIN metrics
        /\ \A b \in DOMAIN new : metrics'[b] = new[b]
        /\ \A b \in DOMAIN metrics \ DOMAIN new : metrics'[b] = metrics[b]
    BY <1>2, <2>2 DEF Upsert
  <2>4. Lined(new) /\ Lined(metrics)
    BY <1>2, <2>2 DEF Upsert, Lines
  <2>5. IsFiniteSet(DOMAIN new \cup DOMAIN metrics)
    BY <2>4, FS_Union DEF Lined
  <2>6. Lined(metrics')
    BY <2>3, <2>4, <2>5 DEF Lined
  <2>7. QED
    BY <2>1, <2>6 DEF Lines, Becomes
<1>3. ASSUME NEW w \in Workers, Detect(w) PROVE Lines'
  <2>1. Becomes(w, "sleep", now + Interval, worker[w].agg)
    BY <1>3, CycleStep
  <2>2. metrics' = metrics
    BY <1>3 DEF Detect
  <2>3. QED
    BY <2>1, <2>2 DEF Lines, Becomes
<1>4. CASE UNCHANGED <<metrics, worker>>
  BY <1>4 DEF Lines
<1>5. QED
  BY <1>1, <1>2, <1>3, <1>4 DEF Next, Log, Arrive, SaveIgnoreLists, Tick, vars

(* The buckets of a baseline that count, and their rates. *)
Usable(base) == {j \in DOMAIN base : base[j].transfers >= Cfg.min_samples}
Rates(base) == [i \in Usable(base) |-> Rate(base[i].fails, base[i].transfers)]

(* A rate is a number, and no failures are the rate zero. *)
LEMMA RateType ==
    ASSUME NEW f \in Nat, NEW t \in Nat, 0 < t
    PROVE  Rate(f, t) \in Nat /\ (f = 0 => Rate(f, t) = 0)
<1>1. (240 * f) \div t \in Nat /\ (240 * 0) \div t = 0
  OBVIOUS
<1>2. QED
  BY <1>1 DEF Rate, Unit

(* The rates of a baseline are a sample. *)
LEMMA BaselineSample ==
    ASSUME Lined(metrics), NEW past \in Pasts, NEW base, base = Baseline(past)
    PROVE  /\ IsFiniteSet(Usable(base))
           /\ Rates(base) \in [Usable(base) -> Nat]
           /\ \A i \in Usable(base) : base[i].fails = 0 => Rates(base)[i] = 0
<1> DEFINE old == {x \in DOMAIN metrics : x < now - BaseGap}
           recent == {- b - 1 : b \in old}
<1>1. IsFiniteSet(old)
  BY FS_Subset DEF Lined
<1>2. IsFiniteSet(recent)
  <2>1. PICK f : f = [b \in old |-> - b - 1]
    OBVIOUS
  <2>2. recent = {f[b] : b \in old}
    BY <2>1
  <2>3. QED
    BY <1>1, <2>1, <2>2, FiniteImage
<1>3. base = [i \in DOMAIN past \cup recent |-> IF i \in recent THEN metrics[- i - 1] ELSE past[i]]
  BY Zenon DEF Baseline
<1>4. \A i \in recent : - i - 1 \in DOMAIN metrics
  BY DEF Lined
<1>5. \A c : IsLine(c) => c.transfers \in Nat /\ c.fails \in Nat
  BY DEF IsLine
<1> HIDE DEF old, recent
<1>6. \A i \in recent : metrics[- i - 1].transfers \in Nat /\ metrics[- i - 1].fails \in Nat
  BY <1>4, <1>5 DEF Lined
<1>7. \A i \in DOMAIN past : past[i].transfers \in Nat /\ past[i].fails \in Nat
  BY ConstantsAssumption
<1>8. DOMAIN base = DOMAIN past \cup recent
      /\ \A i \in DOMAIN base : base[i].transfers \in Nat /\ base[i].fails \in Nat
  BY <1>3, <1>6, <1>7
<1>9. IsFiniteSet(DOMAIN base)
  BY <1>2, <1>8, ConstantsAssumption, FS_Union
<1>10. IsFiniteSet(Usable(base))
  BY <1>9, FS_Subset DEF Usable
<1>11. \A i \in Usable(base) :
         base[i].transfers \in Nat /\ base[i].fails \in Nat /\ 0 < base[i].transfers
  BY <1>8, ConstantsAssumption DEF Usable
<1>12. \A i \in Usable(base) : /\ Rate(base[i].fails, base[i].transfers) \in Nat
                               /\ base[i].fails = 0 => Rate(base[i].fails, base[i].transfers) = 0
  BY <1>11, RateType
<1>13. QED
  BY <1>10, <1>12 DEF Rates

(* _eval_bucket for failed transfers. *)
LEMMA FailRateIs ==
    ASSUME NEW c, NEW base
    PROVE  /\ ~ (c.transfers >= Cfg.min_samples) => FailRate(c, base) = {}
           /\ c.transfers >= Cfg.min_samples =>
                FailRate(c, base) = High("fail_rate", Rate(c.fails, c.transfers), Rates(base),
                                         Cfg.fail_rate_floor, Unit \div 2)
BY Zenon DEF FailRate, Rates, Usable

(* A verdict on a high value: none, or one of the severity that is due. *)
LEMMA HighIs ==
    ASSUME NEW metric, NEW value, NEW xs, NEW floor, NEW from,
           NEW thr, thr = HighThreshold(xs, floor)
    PROVE  /\ value <= thr \/ value = 0 => High(metric, value, xs, floor, from) = {}
           /\ ~ (value <= thr \/ value = 0) /\ value >= Greater(2 * thr, from) =>
                High(metric, value, xs, floor, from) = {[metric |-> metric, severity |-> "critical"]}
           /\ ~ (value <= thr \/ value = 0) /\ ~ (value >= Greater(2 * thr, from)) =>
                High(metric, value, xs, floor, from) = {[metric |-> metric, severity |-> "warning"]}
BY Zenon DEF High

(* The level of such verdicts. *)
LEMMA LevelIs ==
    ASSUME NEW metric
    PROVE  /\ Level({}) = 0
           /\ Level({[metric |-> metric, severity |-> "critical"]}) = 2
           /\ Level({[metric |-> metric, severity |-> "warning"]}) = 1
<1> DEFINE crit == {[metric |-> metric, severity |-> "critical"]}
           warn == {[metric |-> metric, severity |-> "warning"]}
<1>1. crit # {} /\ \A v \in crit : v.severity # "warning"
  OBVIOUS
<1>2. warn # {} /\ \E v \in warn : v.severity = "warning"
  OBVIOUS
<1> HIDE DEF crit, warn
<1>3. Level({}) = 0 /\ Level(crit) = 2 /\ Level(warn) = 1
  BY <1>1, <1>2 DEF Level
<1>4. QED
  BY <1>3 DEF crit, warn

(* No bucket is counted at first. *)
LEMMA LinesInit == Init => Clocked /\ Cycles /\ Lines
<1> SUFFICES ASSUME Init PROVE Clocked /\ Cycles /\ Lines
  OBVIOUS
<1>1. Clocked /\ Cycles
  BY TimeInit
<1>2. DOMAIN metrics = {}
  BY DEF Init
<1>3. Lined(metrics)
  BY <1>2, FS_EmptySet DEF Lined
<1>4. \A w \in Workers : worker[w].pc = "sleep"
  BY DEF Init
<1>5. QED
  BY <1>1, <1>3, <1>4 DEF Lines

(* The steps so far, together. *)
LEMMA LinesAlways == Spec => [](Clocked /\ Cycles /\ Lines)
BY LinesInit, TimeStep, LinesStep, PTL DEF Spec

(* Whatever the baseline, of the days before and of these hours: as long   *)
(* as more than half of its buckets have no failure, its median and its    *)
(* deviation are zero, and a rate above the floor is an alert.             *)
THEOREM MinorityNeverHides == Spec => []MinorityHidesNothing
<1>1. Lines => MinorityHidesNothing
  <2> SUFFICES ASSUME Lines, NEW b \in DOMAIN metrics,
                      NEW past \in Pasts, NEW base, base = Baseline(past),
                      NEW c, c = metrics[b], c.transfers >= Cfg.min_samples,
                      Rate(c.fails, c.transfers) > Cfg.fail_rate_floor,
                      2 * Cardinality({i \in Usable(base) : base[i].fails = 0})
                          > Cardinality(Usable(base))
               PROVE  \E v \in EvalBucket(c, base) : v.metric = "fail_rate"
    BY Zenon DEF MinorityHidesNothing, Usable
  <2>1. /\ IsFiniteSet(Usable(base)) /\ Rates(base) \in [Usable(base) -> Nat]
        /\ \A i \in Usable(base) : base[i].fails = 0 => Rates(base)[i] = 0
    BY BaselineSample DEF Lines
  <2> DEFINE clean == {i \in Usable(base) : base[i].fails = 0}
             zero == {i \in Usable(base) : Rates(base)[i] = 0}
  <2>2. clean \subseteq zero /\ IsFiniteSet(zero) /\ IsFiniteSet(Usable(base))
    BY <2>1, FS_Subset
  <2>3. Cardinality(clean) <= Cardinality(zero)
    BY <2>2, FS_Subset
  <2>4. Cardinality(clean) \in Nat /\ Cardinality(zero) \in Nat /\ Cardinality(Usable(base)) \in Nat
    BY <2>2, FS_Subset, FS_CardinalityType
  <2>5. 2 * Cardinality(zero) > Cardinality(Usable(base))
    <3> HIDE DEF zero
    <3> QED
      BY <2>3, <2>4
  <2>6. Median(Rates(base)) = 0 /\ Mad(Rates(base)) = 0
    BY <2>1, <2>5, MedianZero
  <2>7. HighThreshold(Rates(base), Cfg.fail_rate_floor) = Cfg.fail_rate_floor
    BY <2>6, ConstantsAssumption DEF HighThreshold, Greater
  <2>8. Rate(c.fails, c.transfers) \in Nat
    <3>1. c.transfers \in Nat /\ c.fails \in Nat
      BY DEF Lines, Lined, IsLine
    <3>2. 0 < c.transfers
      BY <3>1, ConstantsAssumption
    <3>3. QED
      BY <3>1, <3>2, RateType
  <2>9. \E v \in FailRate(c, base) : v.metric = "fail_rate"
    <3>1. PICK x \in Nat : x = Rate(c.fails, c.transfers) /\ ~ (x <= Cfg.fail_rate_floor \/ x = 0)
      BY <2>8, ConstantsAssumption
    <3>2. FailRate(c, base) = High("fail_rate", x, Rates(base), Cfg.fail_rate_floor, Unit \div 2)
      BY <3>1, FailRateIs
    <3>3. \/ FailRate(c, base) = {[metric |-> "fail_rate", severity |-> "critical"]}
          \/ FailRate(c, base) = {[metric |-> "fail_rate", severity |-> "warning"]}
      BY <2>7, <3>1, <3>2, HighIs
    <3>4. PICK s : FailRate(c, base) = {[metric |-> "fail_rate", severity |-> s]}
      BY <3>3
    <3>5. [metric |-> "fail_rate", severity |-> s].metric = "fail_rate"
      OBVIOUS
    <3>6. QED
      BY <3>4, <3>5, Zenon
  <2>10. QED
    BY <2>9 DEF EvalBucket
<1>2. QED
  BY <1>1, LinesAlways, PTL

(* One more failed transfer never makes a bucket look better, with any     *)
(* counts, thresholds and baseline.                                        *)
THEOREM WorseNeverQuieter == Spec => []WorseIsNotQuieter
<1>1. Lines => WorseIsNotQuieter
  <2> SUFFICES ASSUME Lines, NEW b \in DOMAIN metrics,
                      NEW past \in Pasts, NEW base, base = Baseline(past),
                      NEW c, c = metrics[b],
                      NEW worse, worse = [c EXCEPT !.transfers = @ + 1, !.fails = @ + 1]
               PROVE  Level(FailRate(worse, base)) >= Level(FailRate(c, base))
    BY Zenon DEF WorseIsNotQuieter
  <2>1. IsLine(c)
    BY DEF Lines, Lined
  <2>2. PICK t \in Nat, f \in Nat : /\ f <= t /\ c.transfers = t /\ c.fails = f
                                    /\ worse.transfers = t + 1 /\ worse.fails = f + 1
    BY <2>1 DEF IsLine
  <2>3. PICK thr : thr = HighThreshold(Rates(base), Cfg.fail_rate_floor)
    OBVIOUS
  <2>4. thr \in Nat
    BY <2>3, BaselineSample, ThresholdType, ConstantsAssumption DEF Lines
  <2>5. \A S : Level(S) \in 0..2
    BY DEF Level
  <2>6. CASE ~ (t >= Cfg.min_samples)
    <3>1. Level(FailRate(c, base)) = 0
      BY <2>2, <2>6, FailRateIs DEF Level
    <3>2. QED
      BY <2>5, <3>1
  <2>7. CASE t >= Cfg.min_samples
    <3>1. 0 < t /\ t + 1 >= Cfg.min_samples
      BY <2>7, ConstantsAssumption
    <3>2. PICK x \in Nat, y \in Nat : x = Rate(f, t) /\ y = Rate(f + 1, t + 1) /\ x <= y
      BY <2>2, <3>1, RateGrows
    <3>3. /\ FailRate(c, base) = High("fail_rate", x, Rates(base), Cfg.fail_rate_floor, Unit \div 2)
          /\ FailRate(worse, base) = High("fail_rate", y, Rates(base), Cfg.fail_rate_floor, Unit \div 2)
      BY <2>2, <2>7, <3>1, <3>2, FailRateIs
    <3>4. PICK crit \in Nat : crit = Greater(2 * thr, Unit \div 2)
      BY <2>4 DEF Greater, Unit
    <3> DEFINE Of(v) == IF v <= thr \/ v = 0 THEN 0 ELSE IF v >= crit THEN 2 ELSE 1
    <3>5. \A v \in Nat :
            Level(High("fail_rate", v, Rates(base), Cfg.fail_rate_floor, Unit \div 2)) = Of(v)
      <4> SUFFICES ASSUME NEW v \in Nat
                   PROVE  Level(High("fail_rate", v, Rates(base), Cfg.fail_rate_floor, Unit \div 2)) = Of(v)
        OBVIOUS
      <4>1. PICK S : S = High("fail_rate", v, Rates(base), Cfg.fail_rate_floor, Unit \div 2)
        OBVIOUS
      <4>2. CASE v <= thr \/ v = 0
        <5>1. S = {}
          BY <2>3, <4>1, <4>2, HighIs
        <5>2. QED
          BY <4>1, <4>2, <5>1, LevelIs
      <4>3. CASE ~ (v <= thr \/ v = 0) /\ v >= crit
        <5>1. S = {[metric |-> "fail_rate", severity |-> "critical"]}
          BY <2>3, <3>4, <4>1, <4>3, HighIs
        <5>2. QED
          BY <4>1, <4>3, <5>1, LevelIs
      <4>4. CASE ~ (v <= thr \/ v = 0) /\ ~ (v >= crit)
        <5>1. S = {[metric |-> "fail_rate", severity |-> "warning"]}
          BY <2>3, <3>4, <4>1, <4>4, HighIs
        <5>2. QED
          BY <4>1, <4>4, <5>1, LevelIs
      <4>5. QED
        BY <4>2, <4>3, <4>4
    <3>6. Of(x) <= Of(y)
      BY <2>4, <3>2
    <3>7. QED
      BY <3>2, <3>3, <3>5, <3>6
  <2>8. QED
    BY <2>6, <2>7
<1>2. QED
  BY <1>1, LinesAlways, PTL

-----------------------------------------------------------------------------
(* Type correctness *)

(* The columns of a line. *)
LEMMA LineColumns ==
    ASSUME NEW c, IsLine(c)
    PROVE  \A k \in Columns : c[k] \in Nat
<1>1. PICK t \in Nat, f \in Nat, b \in Nat, y \in Nat,
           s \in Nat, l \in Nat, m \in Nat, d \in Nat : \E rs :
        c = [transfers |-> t, fails |-> f, big |-> b, bytes |-> y, secs |-> s,
             logins |-> l, loginFails |-> m, cwd |-> d, rows |-> rs]
  BY Zenon DEF IsLine
<1>2. /\ c["transfers"] = t /\ c["fails"] = f /\ c["big"] = b /\ c["bytes"] = y
      /\ c["secs"] = s /\ c["logins"] = l /\ c["loginFails"] = m /\ c["cwd"] = d
  BY <1>1
<1>3. QED
  BY <1>2 DEF Columns

(* A bucket begins at a multiple of its length. *)
LEMMA BucketMultiple ==
    ASSUME NEW r, at[r] \in Nat
    PROVE  BucketOf(r) % Bucket = 0
<1>1. PICK x \in Nat, n \in Nat : x = at[r] /\ n = Bucket /\ n > 0
  BY ConstantsAssumption
<1>2. (x - (x % n)) % n = 0
  BY <1>1
<1>3. QED
  BY <1>1, <1>2 DEF BucketOf

(* The counts of a bucket are of rows of this bucket that are stored. *)
Own(m) == \A b \in DOMAIN m :
    b % Bucket = 0 /\ m[b].rows \subseteq {r \in Logs : BucketOf(r) = b}

Owned ==
    /\ Own(metrics)
    /\ \A w \in Workers : worker[w].pc = "write" => Own(worker[w].agg)

(* The bounded counters, and when rows come. *)
Bounded ==
    /\ now <= MaxTime /\ muting \in BOOLEAN /\ mutings \in 0..MaxMutings
    /\ \A r \in Logs : at[r] <= since[r]

(* A bucket has at most one alert for a metric. *)
OneAlert == \A a, c \in alerts : a.bucket = c.bucket /\ a.metric = c.metric => a = c

Typed == Clocked /\ Cycles /\ Lines /\ Bounded /\ Owned /\ OneAlert /\ judged \subseteq Logs

(* What a cycle counts. *)
LEMMA AggregatedOwn ==
    ASSUME Clocked
    PROVE  Own(Aggregated)
<1> SUFFICES ASSUME NEW b \in DOMAIN Aggregated
             PROVE  b % Bucket = 0 /\ Aggregated[b].rows \subseteq {r \in Logs : BucketOf(r) = b}
  BY DEF Own
<1>1. PICK q \in RollupWindow : b = BucketOf(q)
  BY Zenon DEF Aggregated
<1>2. b % Bucket = 0
  BY <1>1, BucketMultiple DEF RollupWindow, Clocked
<1>3. Aggregated[b] = Counts({r \in RollupWindow : BucketOf(r) = b})
  BY Zenon DEF Aggregated
<1> DEFINE S == {r \in RollupWindow : BucketOf(r) = b}
<1>4. S \in SUBSET Rows /\ S \subseteq {r \in Logs : BucketOf(r) = b}
  BY DEF RollupWindow, Clocked
<1>5. Counts(S).rows = S
  <2> HIDE DEF S
  <2> QED
    BY <1>4, CountsLine
<1>6. QED
  BY <1>2, <1>3, <1>4, <1>5

(* Counts stay those of their bucket while rows come. *)
LEMMA OwnStays ==
    ASSUME NEW m, Own(m), Logs \subseteq Logs', \A r \in Logs : at'[r] = at[r]
    PROVE  Own(m)'
BY DEF Own, BucketOf

(* All counts stay so. *)
LEMMA OwnedStep == Clocked /\ Cycles /\ Owned /\ [Next]_vars => Owned'
<1> SUFFICES ASSUME Clocked, Cycles, Owned, [Next]_vars PROVE Owned'
  OBVIOUS
<1>1. Logs \subseteq Logs' /\ \A r \in Logs : at'[r] = at[r]
  BY DEF Next, Rollup, Upsert, Detect, Log, Arrive, SaveIgnoreLists, Tick, vars, Logs, Clocked
<1>2. \A m : Own(m) => Own(m)'
  BY <1>1, OwnStays
<1>3. ASSUME NEW w \in Workers, Rollup(w) PROVE Owned'
  <2>1. Becomes(w, "write", worker[w].due, Aggregated)
    BY <1>3, CycleStep
  <2>2. metrics' = metrics /\ UNCHANGED <<at, since>>
    BY <1>3 DEF Rollup
  <2>3. QED
    BY <2>1, <2>2, AggregatedOwn DEF Owned, Own, Becomes, Logs, BucketOf
<1>4. ASSUME NEW w \in Workers, Upsert(w) PROVE Owned'
  <2>1. Becomes(w, "judge", worker[w].due, <<>>) /\ UNCHANGED <<at, since>>
    BY <1>4, CycleStep DEF Upsert
  <2>2. PICK new : new = worker[w].agg
    OBVIOUS
  <2>3. /\ DOMAIN metrics' = DOMAIN new \cup DOMAIN metrics
        /\ \A b \in DOMAIN new : metrics'[b] = new[b]
        /\ \A b \in DOMAIN metrics \ DOMAIN new : metrics'[b] = metrics[b]
    BY <1>4, <2>2 DEF Upsert
  <2>4. Own(new) /\ Own(metrics)
    BY <1>4, <2>2 DEF Upsert, Owned
  <2>5. Own(metrics)'
    BY <2>1, <2>3, <2>4 DEF Own, Logs, BucketOf
  <2>6. QED
    BY <2>1, <2>5 DEF Owned, Own, Becomes, Logs, BucketOf
<1>5. ASSUME NEW w \in Workers, Detect(w) PROVE Owned'
  <2>1. Becomes(w, "sleep", now + Interval, worker[w].agg)
    BY <1>5, CycleStep
  <2>2. metrics' = metrics /\ UNCHANGED <<at, since>>
    BY <1>5 DEF Detect
  <2>3. QED
    BY <2>1, <2>2 DEF Owned, Own, Becomes, Logs, BucketOf
<1>6. CASE UNCHANGED <<metrics, worker>>
  BY <1>1, <1>6 DEF Owned, Own, BucketOf
<1>7. QED
  BY <1>3, <1>4, <1>5, <1>6 DEF Next, Log, Arrive, SaveIgnoreLists, Tick, vars

(* At most one verdict, on this metric. *)
Single(V, metric) == \E s : V \subseteq {[metric |-> metric, severity |-> s]}

(* A verdict on a high value. *)
LEMMA HighSingle ==
    ASSUME NEW metric, NEW value, NEW xs, NEW floor, NEW from
    PROVE  Single(High(metric, value, xs, floor, from), metric)
BY Zenon DEF High, Single

(* Every judgement gives at most one verdict, on its metric. *)
LEMMA JudgementSingle ==
    ASSUME NEW c, NEW base
    PROVE  /\ Single(FailRate(c, base), "fail_rate")
           /\ Single(Throughput(c, base), "throughput")
           /\ Single(LoginFailRate(c, base), "login_fail_rate")
           /\ Single(CwdFailSpike(c, base), "cwd_fail_spike")
<1>1. \A m : Single({}, m)
  BY DEF Single
<1>2. \A m, s : Single({[metric |-> m, severity |-> s]}, m)
  BY Zenon DEF Single
<1>3. Single(FailRate(c, base), "fail_rate")
  BY <1>1, HighSingle, Zenon DEF FailRate
<1>4. Single(LoginFailRate(c, base), "login_fail_rate")
  BY <1>1, HighSingle, Zenon DEF LoginFailRate
<1>5. Single(CwdFailSpike(c, base), "cwd_fail_spike")
  BY <1>1, HighSingle, Zenon DEF CwdFailSpike
<1>6. Single(Throughput(c, base), "throughput")
  BY <1>1, <1>2, Zenon DEF Throughput
<1>7. QED
  BY <1>3, <1>4, <1>5, <1>6

(* Two verdicts on a bucket are on two metrics. *)
LEMMA VerdictsDiffer ==
    ASSUME NEW c, NEW base, NEW u \in EvalBucket(c, base), NEW v \in EvalBucket(c, base),
           u.metric = v.metric
    PROVE  u = v
<1>1. \A V, metric : Single(V, metric) =>
        \A x, y \in V : x.metric = metric /\ x = y
  BY DEF Single
<1>2. PICK F, T, L, D : /\ EvalBucket(c, base) = F \cup T \cup L \cup D
                        /\ Single(F, "fail_rate") /\ Single(T, "throughput")
                        /\ Single(L, "login_fail_rate") /\ Single(D, "cwd_fail_spike")
  BY JudgementSingle DEF EvalBucket
<1>3. QED
  BY <1>1, <1>2

(* A judgement keeps one alert for a bucket and a metric. *)
LEMMA DetectOneAlert ==
    ASSUME OneAlert, NEW w \in Workers, Detect(w)
    PROVE  OneAlert'
<1>1. alerts' = alerts \cup NewAlerts
  BY DEF Detect
<1>2. ASSUME NEW a \in Verdicts, NEW c \in Verdicts, a.bucket = c.bucket, a.metric = c.metric
      PROVE  a = c
  <2> DEFINE Of(b) == EvalBucket(metrics[b], Baseline(Past))
  <2>1. \A x \in Verdicts : \E b, v : /\ v \in Of(b)
                                      /\ x = [bucket |-> b, metric |-> v.metric, severity |-> v.severity]
    BY DEF Verdicts
  <2>2. \A b : \A u, v \in Of(b) : u.metric = v.metric => u = v
    BY VerdictsDiffer, Zenon
  <2> HIDE DEF Of
  <2>3. PICK b, u : u \in Of(b) /\ a = [bucket |-> b, metric |-> u.metric, severity |-> u.severity]
    BY <1>2, <2>1
  <2>4. PICK d, v : v \in Of(d) /\ c = [bucket |-> d, metric |-> v.metric, severity |-> v.severity]
    BY <1>2, <2>1
  <2>5. b = d /\ u.metric = v.metric
    BY <1>2, <2>3, <2>4
  <2>6. QED
    BY <2>2, <2>3, <2>4, <2>5
<1>3. \A v \in NewAlerts : v \in Verdicts /\ ~ \E a \in alerts : a.bucket = v.bucket /\ a.metric = v.metric
  BY DEF NewAlerts
<1>4. QED
  BY <1>1, <1>2, <1>3 DEF OneAlert

(* The counters, the alerts and the judged rows stay typed. *)
LEMMA TypedStep == Typed /\ [Next]_vars => Typed'
<1> SUFFICES ASSUME Typed, [Next]_vars PROVE Typed'
  OBVIOUS
<1>1. Clocked' /\ Cycles' /\ Lines' /\ Owned'
  BY TimeStep, LinesStep, OwnedStep DEF Typed
<1>2. Bounded'
  <2>1. muting' \in BOOLEAN
    BY Zenon DEF Typed, Bounded, Next, Rollup, Upsert, Detect, Log, Arrive, SaveIgnoreLists, Tick, vars
  <2>2. mutings' \in 0..MaxMutings
    <3>1. mutings' = mutings \/ (mutings < MaxMutings /\ mutings' = mutings + 1)
      BY Zenon DEF Next, Rollup, Upsert, Detect, Log, Arrive, SaveIgnoreLists, Tick, vars
    <3>2. mutings \in 0..MaxMutings
      BY Zenon DEF Typed, Bounded
    <3>3. QED
      BY <3>1, <3>2, ConstantsAssumption
  <2>3. now' <= MaxTime
    <3>1. now' = now \/ (now < MaxTime /\ now' = now + 1)
      BY Zenon DEF Next, Rollup, Upsert, Detect, Log, Arrive, SaveIgnoreLists, Tick, vars
    <3>2. now \in Nat /\ now <= MaxTime
      BY Zenon DEF Typed, Bounded, Clocked
    <3>3. QED
      BY <3>1, <3>2, ConstantsAssumption
  <2>4. \A r \in Logs' : at'[r] <= since'[r]
    BY DEF Typed, Bounded, Clocked, Next, Rollup, Upsert, Detect, Log, Arrive,
       SaveIgnoreLists, Tick, vars, Logs
  <2>5. QED
    BY <2>1, <2>2, <2>3, <2>4, Zenon DEF Bounded
<1>3. OneAlert' /\ judged' \subseteq Logs'
  <2>1. ASSUME NEW w \in Workers, Detect(w) PROVE OneAlert' /\ judged' \subseteq Logs'
    <3>1. Candidates \subseteq DOMAIN metrics
      BY DEF Candidates
    <3>2. \A b \in Candidates : metrics[b].rows \subseteq Logs
      BY <3>1 DEF Typed, Owned, Own
    <3>3. judged' \subseteq Logs'
      BY <2>1, <3>2 DEF Detect, Typed, Logs
    <3>4. QED
      BY <2>1, <3>3, DetectOneAlert DEF Typed
  <2>2. CASE alerts' = alerts /\ judged' = judged /\ Logs \subseteq Logs'
    BY <2>2 DEF Typed, OneAlert
  <2>3. QED
    BY <2>1, <2>2 DEF Next, Rollup, Upsert, Log, Arrive, SaveIgnoreLists, Tick, vars, Logs
<1>4. QED
  BY <1>1, <1>2, <1>3 DEF Typed

(* The counts of a bucket are numbers, of stored rows of this bucket and   *)
(* of no other; no row comes before it is logged; and however often        *)
(* buckets are judged again, a bucket has one alert for a metric.          *)
THEOREM MetricsTypeCorrect == Spec => []TypeOK
<1>1. Init => Bounded /\ Owned /\ OneAlert /\ judged \subseteq Logs
  <2> SUFFICES ASSUME Init PROVE Bounded /\ Owned /\ OneAlert /\ judged \subseteq Logs
    OBVIOUS
  <2>1. DOMAIN metrics = {} /\ Logs = {} /\ \A w \in Workers : worker[w].pc = "sleep"
    BY DEF Init, Logs
  <2>2. muting \in BOOLEAN
    BY Zenon DEF Init
  <2>3. now <= MaxTime /\ mutings \in 0..MaxMutings
    BY ConstantsAssumption DEF Init
  <2>4. Bounded
    BY <2>1, <2>2, <2>3, Zenon DEF Bounded
  <2>5. Owned /\ OneAlert /\ judged \subseteq Logs
    BY <2>1 DEF Init, Owned, Own, OneAlert
  <2>6. QED
    BY <2>4, <2>5
<1>2. Typed => TypeOK
  <2> SUFFICES ASSUME Typed PROVE TypeOK
    OBVIOUS
  <2>1. now \in 0..MaxTime /\ muting \in BOOLEAN /\ mutings \in 0..MaxMutings
    BY ConstantsAssumption DEF Typed, Clocked, Bounded
  <2>2. \A b \in DOMAIN metrics : \A k \in Columns : metrics[b][k] \in Nat
    BY LineColumns DEF Typed, Lines, Lined
  <2>3. QED
    BY <2>1, <2>2 DEF Typed, Clocked, Bounded, Cycles, Owned, Own, OneAlert, TypeOK
<1>3. QED
  BY <1>1, <1>2, LinesInit, TypedStep, PTL DEF Spec, Typed
=============================================================================
