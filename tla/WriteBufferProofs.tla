------------------------- MODULE WriteBufferProofs -------------------------
(* Theorems about WriteBuffer, for every number of rows, devices, request  *)
(* threads and every limit.                                                *)
EXTENDS WriteBuffer, NatLemmas, FiniteSetTheorems, SequenceTheorems

-----------------------------------------------------------------------------
(* Lists of batches *)

(* The batches picked by position: how many, which, and their rows. *)
LEMMA PickProperties ==
    ASSUME NEW s \in Seq(Batch), NEW I \in SUBSET DOMAIN s
    PROVE  /\ Pick(s, I) \in Seq(Batch)
           /\ Len(Pick(s, I)) = Cardinality(I)
           /\ RowsIn(Pick(s, I)) = UNION {s[i].rows : i \in I}
           /\ DisjointBatches(s) => DisjointBatches(Pick(s, I))
           /\ \A i \in DOMAIN Pick(s, I) : \E j \in I : Pick(s, I)[i] = s[j]
<1>1. PICK k \in Nat : k = Cardinality(I)
  BY PickBijection
<1>2. PICK g : g = Ascending(I)
  OBVIOUS
<1>3. PICK p : p = Pick(s, I)
  OBVIOUS
<1>4. /\ g \in [1..k -> I]
      /\ \A i, j \in 1..k : i # j => g[i] # g[j]
      /\ \A x \in I : \E i \in 1..k : g[i] = x
  BY <1>1, <1>2, PickBijection
<1>5. p = [i \in 1..k |-> s[g[i]]]
  BY <1>1, <1>2, <1>3 DEF Pick
<1>6. \A i \in DOMAIN s : s[i] \in Batch
  BY ElementOfSeq
<1>7. \A i \in 1..k : p[i] \in Batch
  BY <1>4, <1>5, <1>6
<1>8. p \in Seq(Batch) /\ Len(p) = k /\ DOMAIN p = 1..k
  BY <1>5, <1>7
<1>9. RowsIn(p) = UNION {s[i].rows : i \in I}
  BY <1>4, <1>5, <1>8 DEF RowsIn
<1>10. DisjointBatches(s) => DisjointBatches(p)
  BY <1>4, <1>5, <1>8 DEF DisjointBatches
<1>11. \A i \in DOMAIN p : \E j \in I : p[i] = s[j]
  BY <1>4, <1>5, <1>8
<1>12. QED
  BY <1>1, <1>3, <1>8, <1>9, <1>10, <1>11

(* Splitting a list by a set of positions splits its rows. *)
LEMMA PickSplits ==
    ASSUME NEW s \in Seq(Batch), NEW I \in SUBSET DOMAIN s
    PROVE  /\ RowsIn(s) = RowsIn(Pick(s, I)) \cup RowsIn(Pick(s, DOMAIN s \ I))
           /\ DisjointBatches(s) =>
                 RowsIn(Pick(s, I)) \cap RowsIn(Pick(s, DOMAIN s \ I)) = {}
<1>1. RowsIn(Pick(s, I)) = UNION {s[i].rows : i \in I}
  BY PickProperties
<1>2. DOMAIN s \ I \in SUBSET DOMAIN s
  OBVIOUS
<1>3. RowsIn(Pick(s, DOMAIN s \ I)) = UNION {s[i].rows : i \in DOMAIN s \ I}
  BY <1>2, PickProperties
<1>4. RowsIn(s) = (UNION {s[i].rows : i \in I})
                     \cup (UNION {s[i].rows : i \in DOMAIN s \ I})
  BY DEF RowsIn
<1>5. ASSUME DisjointBatches(s)
      PROVE  (UNION {s[i].rows : i \in I})
                \cap (UNION {s[i].rows : i \in DOMAIN s \ I}) = {}
  BY <1>5 DEF DisjointBatches
<1>6. QED
  BY <1>1, <1>3, <1>4, <1>5

(* The head and the tail of a list split its rows. *)
LEMMA TailSplits ==
    ASSUME NEW s \in Seq(Batch), s # <<>>
    PROVE  /\ Head(s) \in Batch /\ Tail(s) \in Seq(Batch)
           /\ Len(s) \in Nat \ {0} /\ Len(Tail(s)) = Len(s) - 1
           /\ RowsIn(s) = Head(s).rows \cup RowsIn(Tail(s))
           /\ DisjointBatches(s) => /\ Head(s).rows \cap RowsIn(Tail(s)) = {}
                                    /\ DisjointBatches(Tail(s))
           /\ 1 \in DOMAIN s /\ Head(s) = s[1]
           /\ \A i \in DOMAIN Tail(s) : i + 1 \in DOMAIN s /\ Tail(s)[i] = s[i + 1]
<1>1. PICK n \in Nat \ {0} : DOMAIN s = 1..n /\ n = Len(s)
  BY LenProperties, EmptySeq
<1>2. Head(s) \in Batch /\ Head(s) = s[1] /\ Tail(s) \in Seq(Batch)
  BY HeadTailProperties
<1>3. PICK t : t = Tail(s)
  OBVIOUS
<1>4. DOMAIN t = 1..(n - 1) /\ \A i \in 1..(n - 1) : t[i] = s[i + 1]
  BY <1>1, <1>3, HeadTailProperties
<1>5. \A x \in 1..n : x = 1 \/ \E i \in 1..(n - 1) : x = i + 1
  <2>1. \A x \in 1..n : x # 1 => x - 1 \in 1..(n - 1) /\ x = (x - 1) + 1
    OBVIOUS
  <2>2. QED
    BY <2>1
<1>6. RowsIn(s) = s[1].rows \cup RowsIn(t)
  <2>1. \A i \in 1..(n - 1) : i + 1 \in 1..n
    OBVIOUS
  <2>2. \A r : r \in RowsIn(s) <=> \E x \in 1..n : r \in s[x].rows
    BY <1>1 DEF RowsIn
  <2>3. \A r : r \in RowsIn(t) <=> \E i \in 1..(n - 1) : r \in s[i + 1].rows
    BY <1>4 DEF RowsIn
  <2>4. 1 \in 1..n
    OBVIOUS
  <2>5. ASSUME NEW r, r \in RowsIn(s) PROVE r \in s[1].rows \cup RowsIn(t)
    BY <2>2, <2>3, <2>5, <1>5
  <2>6. ASSUME NEW r, r \in s[1].rows \cup RowsIn(t) PROVE r \in RowsIn(s)
    BY <2>1, <2>2, <2>3, <2>4, <2>6
  <2>7. QED
    BY <2>5, <2>6
<1>7. ASSUME DisjointBatches(s)
      PROVE  s[1].rows \cap RowsIn(t) = {} /\ DisjointBatches(t)
  <2>1. \A i \in 1..(n - 1) : i + 1 \in 1..n /\ i + 1 # 1
    OBVIOUS
  <2>2. \A i, j \in 1..(n - 1) : i # j => i + 1 # j + 1
    OBVIOUS
  <2>3. s[1].rows \cap RowsIn(t) = {}
    BY <1>1, <1>4, <1>7, <2>1 DEF RowsIn, DisjointBatches
  <2>4. DisjointBatches(t)
    BY <1>1, <1>4, <1>7, <2>1, <2>2 DEF DisjointBatches
  <2>5. QED
    BY <2>3, <2>4
<1>8. \A i \in DOMAIN t : i + 1 \in DOMAIN s /\ t[i] = s[i + 1]
  BY <1>1, <1>4
<1>9. QED
  BY <1>1, <1>2, <1>3, <1>4, <1>6, <1>7, <1>8, HeadTailProperties

(* Appending a batch that shares no row keeps the batches disjoint. *)
LEMMA AppendRows ==
    ASSUME NEW s \in Seq(Batch), NEW b \in Batch
    PROVE  /\ Append(s, b) \in Seq(Batch)
           /\ Len(Append(s, b)) = Len(s) + 1 /\ Len(s) \in Nat
           /\ RowsIn(Append(s, b)) = RowsIn(s) \cup b.rows
           /\ DisjointBatches(s) /\ RowsIn(s) \cap b.rows = {}
                 => DisjointBatches(Append(s, b))
           /\ \A i \in DOMAIN Append(s, b) :
                 Append(s, b)[i] = b \/ (i \in DOMAIN s /\ Append(s, b)[i] = s[i])
<1>1. PICK n \in Nat : DOMAIN s = 1..n /\ n = Len(s)
  BY LenProperties
<1>2. PICK a : a = Append(s, b)
  OBVIOUS
<1>3. a \in Seq(Batch) /\ Len(a) = n + 1 /\ DOMAIN a = 1..(n + 1)
  BY <1>1, <1>2, AppendProperties, LenProperties
<1>4. a[n + 1] = b /\ \A i \in 1..n : a[i] = s[i]
  BY <1>1, <1>2, AppendProperties
<1>5. \A i \in 1..(n + 1) : i = n + 1 \/ i \in 1..n
  OBVIOUS
<1>6. \A i \in 1..n : i \in 1..(n + 1) /\ i # n + 1 /\ n + 1 \in 1..(n + 1)
  OBVIOUS
<1>7. n + 1 \in 1..(n + 1)
  OBVIOUS
<1>8. RowsIn(a) = RowsIn(s) \cup b.rows
  BY <1>1, <1>3, <1>4, <1>5, <1>6, <1>7 DEF RowsIn
<1>9. ASSUME DisjointBatches(s), RowsIn(s) \cap b.rows = {}
      PROVE  DisjointBatches(a)
  <2>1. \A i \in 1..n : s[i].rows \cap b.rows = {}
    BY <1>1, <1>9 DEF RowsIn
  <2>2. \A i, j \in 1..n : i # j => s[i].rows \cap s[j].rows = {}
    BY <1>1, <1>9 DEF DisjointBatches
  <2>3. SUFFICES ASSUME NEW i \in 1..(n + 1), NEW j \in 1..(n + 1), i # j
                 PROVE  a[i].rows \cap a[j].rows = {}
    BY <1>3 DEF DisjointBatches
  <2>4. CASE i = n + 1
    BY <2>1, <2>3, <2>4, <1>4, <1>5
  <2>5. CASE i # n + 1 /\ j = n + 1
    BY <2>1, <2>3, <2>5, <1>4, <1>5
  <2>6. CASE i # n + 1 /\ j # n + 1
    BY <2>2, <2>3, <2>6, <1>4, <1>5
  <2>7. QED
    BY <2>4, <2>5, <2>6
<1>10. \A i \in DOMAIN a : a[i] = b \/ (i \in DOMAIN s /\ a[i] = s[i])
  BY <1>1, <1>3, <1>4, <1>5
<1>11. QED
  BY <1>1, <1>2, <1>3, <1>8, <1>9, <1>10

(* Cutting a list in two splits its rows. *)
LEMMA CutSplits ==
    ASSUME NEW s \in Seq(Batch), NEW c \in 1..Len(s)
    PROVE  /\ SubSeq(s, 1, c - 1) \in Seq(Batch)
           /\ SubSeq(s, c, Len(s)) \in Seq(Batch)
           /\ Len(SubSeq(s, c, Len(s))) = Len(s) - c + 1
           /\ RowsIn(s) = RowsIn(SubSeq(s, 1, c - 1)) \cup RowsIn(SubSeq(s, c, Len(s)))
           /\ DisjointBatches(s) =>
                 /\ RowsIn(SubSeq(s, 1, c - 1)) \cap RowsIn(SubSeq(s, c, Len(s))) = {}
                 /\ DisjointBatches(SubSeq(s, c, Len(s)))
           /\ \A i \in DOMAIN SubSeq(s, c, Len(s)) :
                 \E j \in DOMAIN s : SubSeq(s, c, Len(s))[i] = s[j]
<1>1. PICK n \in Nat : DOMAIN s = 1..n /\ n = Len(s)
  BY LenProperties
<1>2. c \in 1..n
  BY <1>1
<1>3. PICK p : p = SubSeq(s, 1, c - 1)
  OBVIOUS
<1>4. PICK q : q = SubSeq(s, c, n)
  OBVIOUS
<1>5. p = [i \in 1..(c - 1) |-> s[i]]
  BY <1>1, <1>2, <1>3
<1>6. q = [i \in 1..(n - c + 1) |-> s[c + i - 1]]
  BY <1>1, <1>2, <1>4
<1>7. \A i \in 1..n : s[i] \in Batch
  BY <1>1, ElementOfSeq
<1>8. p \in Seq(Batch) /\ DOMAIN p = 1..(c - 1)
  <2>1. \A i \in 1..(c - 1) : s[i] \in Batch
    BY <1>2, <1>7
  <2>2. QED
    BY <1>2, <1>5, <2>1
<1>9. \A i \in 1..(n - c + 1) : c + i - 1 \in 1..n /\ ~(c + i - 1 < c)
  BY <1>2
<1>10. q \in Seq(Batch) /\ DOMAIN q = 1..(n - c + 1) /\ Len(q) = n - c + 1
  <2>1. \A i \in 1..(n - c + 1) : s[c + i - 1] \in Batch
    BY <1>7, <1>9
  <2>2. n - c + 1 \in Nat
    BY <1>2
  <2>3. QED
    BY <1>6, <2>1, <2>2
<1>11. \A x \in 1..n : x \in 1..(c - 1)
                      \/ \E i \in 1..(n - c + 1) : x = c + i - 1
  <2>1. \A x \in 1..n : x \notin 1..(c - 1)
            => x - c + 1 \in 1..(n - c + 1) /\ x = c + (x - c + 1) - 1
    BY <1>2
  <2>2. QED
    BY <2>1
<1>12. \A x \in 1..(c - 1) : x \in 1..n
  BY <1>2
<1>13. RowsIn(s) = RowsIn(p) \cup RowsIn(q)
  <2>1. \A r : r \in RowsIn(s) <=> \E x \in 1..n : r \in s[x].rows
    BY <1>1 DEF RowsIn
  <2>2. \A r : r \in RowsIn(p) <=> \E x \in 1..(c - 1) : r \in s[x].rows
    BY <1>5, <1>8 DEF RowsIn
  <2>3. \A r : r \in RowsIn(q) <=> \E i \in 1..(n - c + 1) : r \in s[c + i - 1].rows
    BY <1>6, <1>10 DEF RowsIn
  <2>4. ASSUME NEW r, r \in RowsIn(s) PROVE r \in RowsIn(p) \cup RowsIn(q)
    BY <2>1, <2>2, <2>3, <2>4, <1>11
  <2>5. ASSUME NEW r, r \in RowsIn(p) \cup RowsIn(q) PROVE r \in RowsIn(s)
    BY <2>1, <2>2, <2>3, <2>5, <1>9, <1>12
  <2>6. QED
    BY <2>4, <2>5
<1>14. ASSUME DisjointBatches(s)
       PROVE  RowsIn(p) \cap RowsIn(q) = {} /\ DisjointBatches(q)
  <2>1. \A i, j \in 1..n : i # j => s[i].rows \cap s[j].rows = {}
    BY <1>1, <1>14 DEF DisjointBatches
  <2>2. \A x \in 1..(c - 1), i \in 1..(n - c + 1) : x # c + i - 1
    BY <1>2
  <2>3. \A x \in 1..(c - 1), i \in 1..(n - c + 1) : p[x].rows \cap q[i].rows = {}
    BY <2>1, <2>2, <1>5, <1>6, <1>9, <1>12
  <2>4. RowsIn(p) \cap RowsIn(q) = {}
    BY <2>3, <1>8, <1>10 DEF RowsIn
  <2>5. \A i, j \in 1..(n - c + 1) : i # j => c + i - 1 # c + j - 1
    BY <1>2
  <2>6. DisjointBatches(q)
    <3>1. SUFFICES ASSUME NEW i \in 1..(n - c + 1), NEW j \in 1..(n - c + 1), i # j
                   PROVE  q[i].rows \cap q[j].rows = {}
      BY <1>10 DEF DisjointBatches
    <3>2. PICK x \in 1..n, y \in 1..n : x = c + i - 1 /\ y = c + j - 1
      BY <1>9
    <3>3. x # y
      BY <2>5, <3>1, <3>2
    <3>4. q[i] = s[x] /\ q[j] = s[y]
      BY <1>6, <3>2
    <3>5. QED
      BY <2>1, <3>3, <3>4
  <2>7. QED
    BY <2>4, <2>6
<1>15. \A i \in DOMAIN q : \E j \in DOMAIN s : q[i] = s[j]
  BY <1>1, <1>6, <1>9, <1>10
<1>16. QED
  BY <1>1, <1>3, <1>4, <1>8, <1>10, <1>13, <1>14, <1>15

-----------------------------------------------------------------------------
(* Counting rows *)

(* Rows can be counted. *)
LEMMA FiniteRows ==
    ASSUME NEW A \in SUBSET Rows
    PROVE  IsFiniteSet(A) /\ Cardinality(A) \in Nat
BY ConstantsAssumption, FS_Subset, FS_CardinalityType

(* The rows of two sets that share none add up. *)
LEMMA CountDisjoint ==
    ASSUME NEW A \in SUBSET Rows, NEW B \in SUBSET Rows, A \cap B = {}
    PROVE  Cardinality(A \cup B) = Cardinality(A) + Cardinality(B)
<1>1. IsFiniteSet(A) /\ IsFiniteSet(B) /\ Cardinality(A) \in Nat /\ Cardinality(B) \in Nat
  BY FiniteRows
<1>2. Cardinality(A \cup B) = Cardinality(A) + Cardinality(B) - Cardinality(A \cap B)
  BY <1>1, FS_Union
<1>3. Cardinality(A \cap B) = 0
  BY FS_EmptySet
<1>4. QED
  BY <1>1, <1>2, <1>3

(* The batches of a list hold rows. *)
LEMMA RowsInRows ==
    ASSUME NEW s \in Seq(Batch)
    PROVE  RowsIn(s) \in SUBSET Rows
<1>1. \A i \in DOMAIN s : s[i].rows \in SUBSET Rows
  <2>1. \A i \in DOMAIN s : s[i] \in Batch
    BY ElementOfSeq
  <2>2. \A b \in Batch : b.rows \in SUBSET Rows
    BY DEF Batch
  <2>3. QED
    BY <2>1, <2>2
<1>2. QED
  BY <1>1 DEF RowsIn

(* One batch as a list. *)
LEMMA SingleBatch ==
    ASSUME NEW A \in SUBSET Rows
    PROVE  /\ NewBatch(A) \in Batch
           /\ <<NewBatch(A)>> \in Seq(Batch)
           /\ RowsIn(<<NewBatch(A)>>) = A
           /\ DisjointBatches(<<NewBatch(A)>>)
<1>1. NewBatch(A) \in Batch /\ NewBatch(A).rows = A
  BY DEF NewBatch, Batch
<1>2. PICK b \in Batch : b = NewBatch(A) /\ b.rows = A
  BY <1>1
<1>3. <<b>> \in Seq(Batch) /\ DOMAIN <<b>> = 1..1 /\ <<b>>[1] = b
  OBVIOUS
<1>4. \A i \in 1..1 : i = 1
  OBVIOUS
<1>5. RowsIn(<<b>>) = A
  <2>1. \A r : r \in RowsIn(<<b>>) <=> \E i \in 1..1 : r \in <<b>>[i].rows
    BY <1>3 DEF RowsIn
  <2>2. 1 \in 1..1
    OBVIOUS
  <2>3. \A r : r \in RowsIn(<<b>>) <=> r \in b.rows
    BY <2>1, <2>2, <1>3, <1>4
  <2>4. QED
    BY <2>3, <1>2
<1>6. DisjointBatches(<<b>>)
  BY <1>3, <1>4 DEF DisjointBatches
<1>7. QED
  BY <1>1, <1>2, <1>3, <1>5, <1>6

(* What _requeue and _drop do to the list, the counters and the rows given *)
(* up, for a batch that shares no row with them.                           *)
LEMMA RequeueRows ==
    ASSUME TypeOK, NEW b \in Batch, Requeue(b),
           DisjointBatches(retry), RowsIn(retry) \cap b.rows = {},
           lost \cap (RowsIn(retry) \cup b.rows) = {},
           Accounting
    PROVE  /\ retry' \in Seq(Batch) /\ DisjointBatches(retry')
           /\ retryRows' = RowCount(retry') /\ retryRows' \in Nat
           /\ dropped' = Cardinality(lost') /\ dropped' \in Nat
           /\ RowsIn(retry') \cup lost' = RowsIn(retry) \cup b.rows \cup lost
           /\ RowsIn(retry') \cap lost' = {}
           /\ RowsIn(retry') \subseteq RowsIn(retry) \cup b.rows
           /\ lost \subseteq lost' /\ lost' \subseteq Rows
<1>1. /\ retry \in Seq(Batch) /\ lost \in SUBSET Rows
      /\ retryRows = Cardinality(RowsIn(retry)) /\ dropped = Cardinality(lost)
      /\ retryRows \in Nat /\ dropped \in Nat
  BY DEF TypeOK, Accounting, RowCount
<1>2. PICK rs : rs = b.rows /\ rs \in SUBSET Rows
  BY DEF Batch
<1>3. RowsIn(retry) \in SUBSET Rows /\ Cardinality(rs) \in Nat
  BY <1>1, <1>2, RowsInRows, FiniteRows
<1>4. CASE GiveUp(b)
  <2>1. Cardinality(lost \cup rs) = Cardinality(lost) + Cardinality(rs)
    BY <1>1, <1>2, CountDisjoint
  <2>2. RowCount(retry') = Cardinality(RowsIn(retry))
    BY <1>4 DEF RowCount, GiveUp
  <2>3. QED
    BY <1>1, <1>2, <1>3, <1>4, <2>1, <2>2 DEF GiveUp
<1>5. CASE \E c \in 1..Len(Longer(b)) : KeepFrom(b, c)
  <2>1. [b EXCEPT !.attempts = @ + 1] \in Batch
        /\ [b EXCEPT !.attempts = @ + 1].rows = rs
    BY <1>2 DEF Batch
  <2>2. PICK f \in Batch : f = [b EXCEPT !.attempts = @ + 1] /\ f.rows = rs
    BY <2>1
  <2>3. PICK longer : longer = Longer(b) /\ longer = Append(retry, f)
    BY <2>2 DEF Longer
  <2>4. /\ longer \in Seq(Batch)
        /\ RowsIn(longer) = RowsIn(retry) \cup rs
        /\ DisjointBatches(longer)
    <3>1. RowsIn(retry) \cap f.rows = {}
      BY <1>2, <2>2
    <3>2. /\ Append(retry, f) \in Seq(Batch)
          /\ RowsIn(Append(retry, f)) = RowsIn(retry) \cup f.rows
          /\ DisjointBatches(Append(retry, f))
      BY <1>1, <3>1, AppendRows
    <3>3. QED
      BY <2>2, <2>3, <3>2
  <2>0. PICK c \in 1..Len(longer) : KeepFrom(b, c)
    BY <1>5, <2>3, Zenon
  <2>5. /\ retry' = SubSeq(longer, c, Len(longer))
        /\ retryRows' = Total(b) - RowCount(SubSeq(longer, 1, c - 1))
        /\ Total(b) = retryRows + Cardinality(rs)
        /\ dropped' = dropped + RowCount(SubSeq(longer, 1, c - 1))
        /\ lost' = lost \cup RowsIn(SubSeq(longer, 1, c - 1))
    BY <1>2, <2>0, <2>3, Zenon DEF KeepFrom, Total, Before
  <2>6. PICK gone : /\ gone = RowsIn(SubSeq(longer, 1, c - 1))
                    /\ Cardinality(gone) = RowCount(SubSeq(longer, 1, c - 1))
    BY Zenon DEF RowCount
  <2>7. /\ retry' \in Seq(Batch) /\ DisjointBatches(retry')
        /\ RowsIn(retry) \cup rs = gone \cup RowsIn(retry')
        /\ gone \cap RowsIn(retry') = {}
        /\ gone \in SUBSET Rows
    <3>1. SubSeq(longer, 1, c - 1) \in Seq(Batch)
      BY <2>4, CutSplits
    <3>2. gone \in SUBSET Rows
      BY <3>1, <2>6, RowsInRows
    <3>3. QED
      BY <2>4, <2>5, <2>6, <3>2, CutSplits
  <2>8. RowsIn(retry') \in SUBSET Rows
    BY <2>7, RowsInRows
  <2>9. Cardinality(RowsIn(retry) \cup rs) = retryRows + Cardinality(rs)
    BY <1>1, <1>2, <1>3, CountDisjoint
  <2>10. Cardinality(gone \cup RowsIn(retry'))
            = Cardinality(gone) + Cardinality(RowsIn(retry'))
    BY <2>7, <2>8, CountDisjoint
  <2>11. Cardinality(gone) \in Nat /\ Cardinality(RowsIn(retry')) \in Nat
    BY <2>7, <2>8, FiniteRows
  <2>12. retryRows' = Cardinality(RowsIn(retry'))
    <3>1. retryRows' = (retryRows + Cardinality(rs)) - Cardinality(gone)
      BY <2>5, <2>6, Zenon
    <3>2. retryRows + Cardinality(rs)
             = Cardinality(gone) + Cardinality(RowsIn(retry'))
      BY <2>7, <2>9, <2>10
    <3>3. QED
      BY <1>1, <1>3, <2>11, <3>1, <3>2
  <2>13. lost \cap gone = {}
    BY <1>2, <2>7
  <2>14. Cardinality(lost \cup gone) = Cardinality(lost) + Cardinality(gone)
    BY <1>1, <2>7, <2>13, CountDisjoint
  <2>15. dropped' = Cardinality(lost') /\ dropped' \in Nat
    BY <1>1, <2>5, <2>6, <2>11, <2>14 DEF RowCount
  <2>16. lost' = lost \cup gone
    BY <2>5, <2>6
  <2>17. RowsIn(retry') \cap lost' = {}
    BY <1>2, <2>7, <2>16
  <2>18. QED
    BY <1>1, <1>2, <2>7, <2>11, <2>12, <2>15, <2>16, <2>17 DEF RowCount
<1>6. QED
  BY <1>4, <1>5 DEF Requeue

-----------------------------------------------------------------------------
(* Where rows are *)

(* Where a held row is, with the hands of t set apart. *)
LEMMA HeldSplits ==
    ASSUME NEW t \in Threads
    PROVE  \A r : r \in Held <=> \/ r \in queue
                                \/ r \in RowsIn(retry)
                                \/ r \in RowsIn(hand[t])
                                \/ \E u \in Threads \ {t} : r \in RowsIn(hand[u])
BY DEF Held

(* The same after the step. *)
LEMMA HeldSplitsPrimed ==
    ASSUME NEW t \in Threads
    PROVE  \A r : r \in Held' <=> \/ r \in queue'
                                 \/ r \in RowsIn(retry')
                                 \/ r \in RowsIn(hand'[t])
                                 \/ \E u \in Threads \ {t} : r \in RowsIn(hand'[u])
BY DEF Held

(* A step in which one thread t moves rows between the queue, the retry    *)
(* list, its hands and the rows given up, takes in the rows `new` and has  *)
(* stored the rows `out`, keeps every row in one place and loses none.     *)
LEMMA Move ==
    ASSUME IInv, NEW t \in Threads, NEW L \in Seq(Batch),
           NEW new \in SUBSET Rows, NEW out \in SUBSET Rows,
           hand' = [hand EXCEPT ![t] = L],
           accepted' = accepted \cup new, new \cap accepted = {},
           registered' = registered,
           \A r \in Rows : db[Key[r]] > 0 => db'[Key[r]] > 0,
           \A r \in out : db'[Key[r]] > 0,
           DisjointBatches(retry'), DisjointBatches(L),
           queue' \cap RowsIn(retry') = {},
           RowsIn(L) \cap (queue' \cup RowsIn(retry')) = {},
           lost' \cap (queue' \cup RowsIn(retry') \cup RowsIn(L)) = {},
           queue' \cup RowsIn(retry') \cup RowsIn(L) \cup lost' \cup out
             = queue \cup RowsIn(retry) \cup RowsIn(hand[t]) \cup lost \cup new
    PROVE  /\ Ownership' /\ Conservation'
           /\ Held' \subseteq accepted' /\ lost' \subseteq accepted'
<1> DEFINE old == queue \cup RowsIn(retry) \cup RowsIn(hand[t]) \cup lost
           now == queue' \cup RowsIn(retry') \cup RowsIn(L) \cup lost'
<1>1. hand \in [Threads -> Seq(Batch)] /\ accepted \subseteq Rows
  BY DEF IInv, TypeOK
<1>2. hand'[t] = L /\ \A u \in Threads \ {t} : hand'[u] = hand[u]
  BY <1>1
<1>3. old \subseteq accepted
  <2>1. queue \cup RowsIn(retry) \cup RowsIn(hand[t]) \subseteq Held
    BY DEF Held
  <2>2. QED
    BY <2>1 DEF IInv, Fresh
<1>4. now \subseteq old \cup new /\ old \cup new \subseteq now \cup out
  OBVIOUS
<1>5. \A u \in Threads \ {t} : RowsIn(hand[u]) \cap old = {}
  <2>1. SUFFICES ASSUME NEW u \in Threads \ {t} PROVE RowsIn(hand[u]) \cap old = {}
    OBVIOUS
  <2>2. RowsIn(hand[u]) \cap (queue \cup RowsIn(retry)) = {}
    BY DEF IInv, Ownership
  <2>3. RowsIn(hand[u]) \cap RowsIn(hand[t]) = {}
    BY DEF IInv, Ownership
  <2>4. RowsIn(hand[u]) \subseteq Held /\ lost \cap Held = {}
    BY DEF IInv, Ownership, Held
  <2>5. QED
    BY <2>2, <2>3, <2>4
<1>6. \A u \in Threads \ {t} : RowsIn(hand[u]) \subseteq accepted
  BY DEF IInv, Fresh, Held
<1>7. \A u \in Threads \ {t} : RowsIn(hand[u]) \cap now = {}
  <2> HIDE DEF old, now
  <2> QED
    BY <1>4, <1>5, <1>6
<1>8. Ownership'
  <2>1. \A u \in Threads : DisjointBatches(hand'[u])
    BY <1>2 DEF IInv, Ownership
  <2>2. \A u \in Threads : RowsIn(hand'[u]) \cap (queue' \cup RowsIn(retry')) = {}
    BY <1>2, <1>7
  <2>3. \A u, v \in Threads : u # v => RowsIn(hand'[u]) \cap RowsIn(hand'[v]) = {}
    <3>1. SUFFICES ASSUME NEW u \in Threads, NEW v \in Threads, u # v
                   PROVE  RowsIn(hand'[u]) \cap RowsIn(hand'[v]) = {}
      OBVIOUS
    <3>2. CASE u = t
      BY <1>2, <1>7, <3>1, <3>2
    <3>3. CASE v = t
      BY <1>2, <1>7, <3>1, <3>3
    <3>4. CASE u # t /\ v # t
      <4>1. RowsIn(hand[u]) \cap RowsIn(hand[v]) = {}
        BY <3>1 DEF IInv, Ownership
      <4>2. QED
        BY <4>1, <1>2, <3>4
    <3>5. QED
      BY <3>2, <3>3, <3>4
  <2>4. lost' \cap Held' = {}
    <3>1. SUFFICES ASSUME NEW r \in lost' PROVE r \notin Held'
      OBVIOUS
    <3>2. r \notin queue' /\ r \notin RowsIn(retry') /\ r \notin RowsIn(hand'[t])
      BY <1>2
    <3>3. \A u \in Threads \ {t} : r \notin RowsIn(hand'[u])
      BY <1>2, <1>7
    <3>4. QED
      BY <3>2, <3>3, HeldSplitsPrimed
  <2>5. QED
    BY <2>1, <2>2, <2>3, <2>4 DEF Ownership
<1>9. \A r : r \in Held \cup lost \cup new => r \in Held' \cup lost' \cup out
  <2>1. SUFFICES ASSUME NEW r, r \in Held \cup lost \cup new
                 PROVE  r \in Held' \cup lost' \cup out
    OBVIOUS
  <2>2. CASE r \in old \cup new
    <3>1. r \in now \cup out
      BY <2>2, <1>4
    <3>2. QED
      BY <3>1, <1>2, HeldSplitsPrimed
  <2>3. CASE r \notin old \cup new
    <3>1. \E u \in Threads \ {t} : r \in RowsIn(hand[u])
      BY <2>1, <2>3, HeldSplits
    <3>2. QED
      BY <3>1, <1>2, HeldSplitsPrimed
  <2>4. QED
    BY <2>2, <2>3
<1>10. Conservation'
  <2>1. SUFFICES ASSUME NEW r \in accepted'
                 PROVE  \/ r \in Held' \/ r \in lost'
                        \/ db'[Key[r]] > 0 \/ Owner[r] \notin registered'
    BY DEF Conservation
  <2>2. r \in Rows
    BY <1>1
  <2>3. CASE r \in Held \cup lost \cup new
    BY <2>3, <1>9
  <2>4. CASE r \notin Held \cup lost \cup new
    <3>1. db[Key[r]] > 0 \/ Owner[r] \notin registered
      BY <2>4 DEF IInv, Conservation
    <3>2. QED
      BY <3>1, <2>2
  <2>5. QED
    BY <2>3, <2>4
<1>11. lost' \subseteq accepted'
  BY <1>3, <1>4
<1>12. Held' \subseteq accepted'
  <2>1. SUFFICES ASSUME NEW r \in Held' PROVE r \in accepted'
    OBVIOUS
  <2>2. CASE r \in now
    BY <2>2, <1>3, <1>4
  <2>3. CASE r \notin now
    <3>1. \E u \in Threads \ {t} : r \in RowsIn(hand'[u])
      BY <2>1, <2>3, <1>2, HeldSplitsPrimed
    <3>2. QED
      BY <3>1, <1>2, <1>6
  <2>4. QED
    BY <2>2, <2>3
<1>13. QED
  BY <1>8, <1>10, <1>11, <1>12

(* A step that moves no row. *)
LEMMA Stay ==
    ASSUME IInv, UNCHANGED <<bufVars, hand, accepted, lost>>
    PROVE  Ownership' /\ Accounting' /\ Held' = Held
BY DEF IInv, Ownership, Accounting, Held, bufVars

-----------------------------------------------------------------------------
(* Every action keeps the inductive invariant *)

(* The buffer starts empty. *)
LEMMA InitIInv == Init => IInv
<1> SUFFICES ASSUME Init PROVE IInv
  OBVIOUS
<1>1. TypeOK
  BY ConstantsAssumption DEF Init, TypeOK, Threads, ThreadPc
<1>2. RowsIn(retry) = {} /\ DOMAIN retry = {}
  BY DEF Init, RowsIn
<1>3. \A t \in Threads : hand[t] = <<>> /\ RowsIn(hand[t]) = {} /\ DOMAIN hand[t] = {}
  BY DEF Init, RowsIn
<1>4. Held = {}
  BY <1>2, <1>3 DEF Init, Held
<1>5. Ownership
  BY <1>2, <1>3, <1>4 DEF Ownership, DisjointBatches, Init
<1>6. Accounting
  BY <1>2, FS_EmptySet DEF Accounting, RowCount, Init
<1>7. Conservation /\ Fresh /\ EmptyHands
  BY <1>3, <1>4 DEF Conservation, Fresh, EmptyHands, Init
<1>8. QED
  BY <1>1, <1>5, <1>6, <1>7 DEF IInv

(* The steps that change where a thread is, or the environment, and move   *)
(* no row.                                                                 *)
LEMMA QuietStep ==
    ASSUME IInv, LoopTop \/ StopBegin \/ Join \/ Report \/ DbDown \/ DbRestored
    PROVE  IInv'
<1>1. UNCHANGED <<bufVars, hand, accepted, lost, req, db, registered>>
  BY DEF LoopTop, StopBegin, Join, Report, DbDown, DbRestored, envVars
<1>2. Ownership' /\ Accounting' /\ Held' = Held
  BY <1>1, Stay
<1>3. Conservation' /\ Fresh'
  BY <1>1, <1>2 DEF IInv, Conservation, Fresh
<1>4. TypeOK'
  <2>1. Cardinality(queue) \in Nat
    BY FiniteRows DEF IInv, TypeOK
  <2>2. pc' \in [Threads -> ThreadPc]
    BY DEF LoopTop, StopBegin, Join, Report, DbDown, DbRestored, IInv, TypeOK,
           Threads, ThreadPc
  <2>3. left' \in Nat
    BY <2>1 DEF LoopTop, StopBegin, Join, Report, DbDown, DbRestored, IInv, TypeOK,
           PendingRows
  <2>4. running' \in BOOLEAN /\ dbUp' \in BOOLEAN
    BY DEF LoopTop, StopBegin, Join, Report, DbDown, DbRestored, IInv, TypeOK, envVars
  <2>5. QED
    BY <1>1, <2>2, <2>3, <2>4 DEF IInv, TypeOK, bufVars
<1>5. EmptyHands'
  <2>1. SUFFICES ASSUME NEW t \in Threads,
                        pc'[t] \notin {"write", "retrying", "forcing", "done"}
                 PROVE  hand[t] = <<>>
    BY <1>1 DEF EmptyHands
  <2>2. pc[t] \notin {"write", "retrying", "forcing", "done"}
    BY <2>1 DEF LoopTop, StopBegin, Join, Report, DbDown, DbRestored, IInv, TypeOK
  <2>3. QED
    BY <2>2 DEF IInv, EmptyHands
<1>6. QED
  BY <1>2, <1>3, <1>4, <1>5 DEF IInv

(* The rows of a deleted device go from the table, and no others. *)
LEMMA DeleteDeviceStep ==
    ASSUME IInv, NEW d \in Devices, DeleteDevice(d)
    PROVE  IInv'
<1>1. UNCHANGED <<bufVars, hand, accepted, lost, req, pc, running, left, dbUp>>
  BY DEF DeleteDevice
<1>2. Ownership' /\ Accounting' /\ Held' = Held
  BY <1>1, Stay
<1>3. TypeOK' /\ Fresh' /\ EmptyHands'
  BY <1>1, <1>2 DEF IInv, TypeOK, Fresh, EmptyHands, bufVars, DeleteDevice
<1>4. Conservation'
  <2>1. SUFFICES ASSUME NEW r \in accepted, r \notin Held, r \notin lost,
                        Owner[r] \in registered'
                 PROVE  db'[Key[r]] > 0
    BY <1>1, <1>2 DEF Conservation
  <2>2. r \in Rows /\ Owner[r] \in registered /\ Owner[r] # d
    BY <2>1 DEF DeleteDevice, IInv, TypeOK
  <2>3. db[Key[r]] > 0
    BY <2>1, <2>2 DEF IInv, Conservation
  <2>4. Key[r] \in Keys /\ ~ \E s \in Rows : Key[s] = Key[r] /\ Owner[s] = d
    BY <2>2, ConstantsAssumption
  <2>5. db'[Key[r]] = db[Key[r]]
    BY <2>4 DEF DeleteDevice
  <2>6. QED
    BY <2>3, <2>5
<1>5. QED
  BY <1>2, <1>3, <1>4 DEF IInv

(* A request that is admitted has only brought its rows. *)
LEMMA AdmitStep ==
    ASSUME IInv, NEW t \in Requests, NEW d \in Devices, NEW rows \in SUBSET Rows,
           Admit(t, d, rows)
    PROVE  IInv'
<1>1. UNCHANGED <<bufVars, hand, accepted, lost, db, registered, running, left, dbUp>>
  BY DEF Admit, envVars
<1>2. Ownership' /\ Accounting' /\ Held' = Held
  BY <1>1, Stay
<1>3. req' = [req EXCEPT ![t] = rows] /\ pc' = [pc EXCEPT ![t] = "add"]
      /\ pc[t] = "idle" /\ req \in [Requests -> SUBSET Rows]
      /\ pc \in [Threads -> ThreadPc]
  BY DEF Admit, IInv, TypeOK
<1>4. TypeOK'
  BY <1>1, <1>3 DEF IInv, TypeOK, bufVars, ThreadPc
<1>5. Conservation'
  BY <1>1, <1>2 DEF IInv, Conservation
<1>6. Fresh'
  <2>1. rows \cap accepted = {} /\ \A u \in Requests : rows \cap req[u] = {}
    BY DEF Admit
  <2>2. \A u \in Requests : req'[u] = IF u = t THEN rows ELSE req[u]
    BY <1>3
  <2>3. QED
    BY <1>1, <1>2, <2>1, <2>2 DEF IInv, Fresh
<1>7. EmptyHands'
  <2>1. \A u \in Threads : pc'[u] = IF u = t THEN "add" ELSE pc[u]
    BY <1>3
  <2>2. hand[t] = <<>>
    BY <1>3 DEF IInv, EmptyHands, Threads
  <2>3. QED
    BY <1>1, <2>1, <2>2 DEF IInv, EmptyHands
<1>8. QED
  BY <1>2, <1>4, <1>5, <1>6, <1>7 DEF IInv

(* The part of the invariant about a thread's hands, for a step of t. *)
LEMMA HandsAfter ==
    ASSUME IInv, NEW t \in Threads, NEW L \in Seq(Batch), NEW at \in ThreadPc,
           hand' = [hand EXCEPT ![t] = L], pc' = [pc EXCEPT ![t] = at],
           at \notin {"write", "retrying", "forcing", "done"} => L = <<>>
    PROVE  /\ EmptyHands'
           /\ hand' \in [Threads -> Seq(Batch)]
           /\ pc' \in [Threads -> ThreadPc]
<1>1. hand \in [Threads -> Seq(Batch)] /\ pc \in [Threads -> ThreadPc]
  BY DEF IInv, TypeOK
<1>2. \A u \in Threads : /\ hand'[u] = IF u = t THEN L ELSE hand[u]
                         /\ pc'[u] = IF u = t THEN at ELSE pc[u]
  BY <1>1
<1>3. EmptyHands'
  BY <1>2 DEF IInv, EmptyHands
<1>4. QED
  BY <1>1, <1>3

(* add() queues the rows, and takes the queue when it is long enough. *)
LEMMA AddStep ==
    ASSUME IInv, NEW t \in Requests, Add(t)
    PROVE  IInv'
<1>1. PICK new : new = req[t] /\ new \in SUBSET Rows
  BY DEF IInv, TypeOK
<1>2. /\ queue \in SUBSET Rows /\ retry \in Seq(Batch) /\ accepted \in SUBSET Rows
      /\ hand \in [Threads -> Seq(Batch)] /\ req \in [Requests -> SUBSET Rows]
      /\ t \in Threads /\ hand[t] = <<>>
  BY DEF IInv, TypeOK, EmptyHands, Threads, Add
<1>3. RowsIn(hand[t]) = {} /\ DisjointBatches(hand[t])
  BY <1>2 DEF RowsIn, DisjointBatches
<1>4. new \cap accepted = {} /\ queue \cup RowsIn(retry) \cup lost \subseteq accepted
  BY <1>1 DEF IInv, Fresh, Held
<1>5. queue \cap RowsIn(retry) = {} /\ DisjointBatches(retry)
      /\ lost \cap (queue \cup RowsIn(retry)) = {}
  BY DEF IInv, Ownership, Held
<1>6. /\ UNCHANGED <<retry, retryRows, dropped, dbUp, registered, running, left, db, lost>>
      /\ accepted' = accepted \cup new
      /\ req' = [req EXCEPT ![t] = {}]
  BY <1>1 DEF Add, envVars
<1>7. PICK L \in Seq(Batch), at \in {"write", "idle"} :
         /\ hand' = [hand EXCEPT ![t] = L] /\ pc' = [pc EXCEPT ![t] = at]
         /\ at = "idle" => L = <<>>
         /\ DisjointBatches(L)
         /\ queue' \in SUBSET Rows
         /\ queue' \cup RowsIn(L) = queue \cup new
         /\ queue' \cap RowsIn(L) = {}
  <2>1. CASE Cardinality(queue \cup req[t]) >= MaxSize
    <3>1. PICK L \in Seq(Batch) : /\ L = <<NewBatch(queue \cup req[t])>>
                                  /\ RowsIn(L) = queue \cup new
                                  /\ DisjointBatches(L)
      <4>1. queue \cup req[t] \in SUBSET Rows
        BY <1>1, <1>2
      <4>2. QED
        BY <4>1, <1>1, SingleBatch
    <3>2. queue' = {} /\ hand' = [hand EXCEPT ![t] = L] /\ pc' = [pc EXCEPT ![t] = "write"]
      BY <2>1, <3>1 DEF Add
    <3>3. QED
      BY <3>1, <3>2
  <2>2. CASE ~ (Cardinality(queue \cup req[t]) >= MaxSize)
    <3>1. queue' = queue \cup new /\ hand' = hand /\ pc' = [pc EXCEPT ![t] = "idle"]
      BY <1>1, <2>2 DEF Add
    <3>2. hand' = [hand EXCEPT ![t] = <<>>]
      BY <3>1, <1>2
    <3>3. QED
      BY <3>1, <3>2, <1>1, <1>2, <1>3
  <2>3. QED
    BY <2>1, <2>2
<1>8. Ownership' /\ Conservation' /\ Held' \subseteq accepted' /\ lost' \subseteq accepted'
  <2>1. queue' \cup RowsIn(retry') \cup RowsIn(L) \cup lost' \cup {}
          = queue \cup RowsIn(retry) \cup RowsIn(hand[t]) \cup lost \cup new
    BY <1>3, <1>6, <1>7
  <2>2. queue' \cap RowsIn(retry') = {} /\ RowsIn(L) \cap (queue' \cup RowsIn(retry')) = {}
    BY <1>4, <1>5, <1>6, <1>7
  <2>3. lost' \cap (queue' \cup RowsIn(retry') \cup RowsIn(L)) = {}
    BY <1>4, <1>5, <1>6, <1>7
  <2>4. DisjointBatches(retry')
    BY <1>5, <1>6
  <2>5. QED
    BY <1>1, <1>2, <1>4, <1>6, <1>7, <2>1, <2>2, <2>3, <2>4, Move
<1>9. Accounting'
  BY <1>6 DEF IInv, Accounting
<1>10. EmptyHands' /\ hand' \in [Threads -> Seq(Batch)] /\ pc' \in [Threads -> ThreadPc]
  <2>1. at \in ThreadPc
    BY DEF ThreadPc
  <2>2. QED
    BY <1>2, <1>7, <2>1, HandsAfter
<1>11. TypeOK'
  BY <1>1, <1>2, <1>6, <1>7, <1>10 DEF IInv, TypeOK
<1>12. Fresh'
  <2>1. \A u \in Requests : req'[u] = IF u = t THEN {} ELSE req[u]
    BY <1>2, <1>6
  <2>2. \A u \in Requests \ {t} : req[u] \cap new = {} /\ req[u] \cap accepted = {}
    BY <1>1 DEF IInv, Fresh
  <2>3. QED
    BY <1>6, <1>8, <2>1, <2>2 DEF IInv, Fresh
<1>13. QED
  BY <1>8, <1>9, <1>10, <1>11, <1>12 DEF IInv

(* The flusher, or stop(), takes the queue into its hands. *)
LEMMA TakeQueueStep ==
    ASSUME IInv, NEW t \in {Flusher, Stopper}, TakeQueue(t)
    PROVE  IInv'
<1>1. /\ queue \in SUBSET Rows /\ retry \in Seq(Batch)
      /\ hand \in [Threads -> Seq(Batch)]
      /\ t \in Threads /\ hand[t] = <<>>
  BY DEF IInv, TypeOK, EmptyHands, Threads, TakeQueue
<1>2. RowsIn(hand[t]) = {} /\ DisjointBatches(hand[t])
  BY <1>1 DEF RowsIn, DisjointBatches
<1>3. queue \cap RowsIn(retry) = {} /\ DisjointBatches(retry)
      /\ lost \cap (queue \cup RowsIn(retry)) = {}
  BY DEF IInv, Ownership, Held
<1>4. UNCHANGED <<retry, retryRows, dropped, dbUp, registered, running, left, req, db,
                  accepted, lost>>
  BY DEF TakeQueue, envVars
<1>5. PICK L \in Seq(Batch), at \in {"loop", "force", "write"} :
         /\ hand' = [hand EXCEPT ![t] = L] /\ pc' = [pc EXCEPT ![t] = at]
         /\ at # "write" => L = <<>>
         /\ DisjointBatches(L)
         /\ queue' = {}
         /\ RowsIn(L) = queue
  <2>1. CASE queue = {}
    <3>1. hand' = [hand EXCEPT ![t] = <<>>]
      BY <2>1, <1>1 DEF TakeQueue
    <3>2. QED
      BY <2>1, <3>1, <1>1, <1>2 DEF TakeQueue
  <2>2. CASE queue # {}
    <3>1. PICK L \in Seq(Batch) : /\ L = <<NewBatch(queue)>>
                                  /\ RowsIn(L) = queue /\ DisjointBatches(L)
      BY <1>1, SingleBatch
    <3>2. queue' = {} /\ hand' = [hand EXCEPT ![t] = L] /\ pc' = [pc EXCEPT ![t] = "write"]
      BY <2>2, <3>1 DEF TakeQueue
    <3>3. QED
      BY <3>1, <3>2
  <2>3. QED
    BY <2>1, <2>2
<1>6. Ownership' /\ Conservation' /\ Held' \subseteq accepted' /\ lost' \subseteq accepted'
  <2>1. queue' \cup RowsIn(retry') \cup RowsIn(L) \cup lost' \cup {}
          = queue \cup RowsIn(retry) \cup RowsIn(hand[t]) \cup lost \cup {}
    BY <1>2, <1>4, <1>5
  <2>2. queue' \cap RowsIn(retry') = {} /\ RowsIn(L) \cap (queue' \cup RowsIn(retry')) = {}
        /\ lost' \cap (queue' \cup RowsIn(retry') \cup RowsIn(L)) = {}
        /\ DisjointBatches(retry')
    BY <1>3, <1>4, <1>5
  <2>3. accepted' = accepted \cup {} /\ {} \cap accepted = {}
    BY <1>4
  <2>4. QED
    BY <1>1, <1>4, <1>5, <2>1, <2>2, <2>3, Move
<1>7. EmptyHands' /\ hand' \in [Threads -> Seq(Batch)] /\ pc' \in [Threads -> ThreadPc]
  <2>1. at \in ThreadPc
    BY DEF ThreadPc
  <2>2. QED
    BY <1>1, <1>5, <2>1, HandsAfter
<1>8. TypeOK' /\ Accounting'
  BY <1>4, <1>5, <1>7 DEF IInv, TypeOK, Accounting
<1>9. Fresh'
  BY <1>4, <1>6 DEF IInv, Fresh
<1>10. QED
  BY <1>6, <1>7, <1>8, <1>9 DEF IInv

(* _retry_due takes the batches that are due out of the retry list. *)
LEMMA TakeDueStep ==
    ASSUME IInv, NEW t \in {Flusher, Stopper}, NEW due \in SUBSET DOMAIN retry,
           TakeDue(t, due)
    PROVE  IInv'
<1>1. /\ queue \in SUBSET Rows /\ retry \in Seq(Batch)
      /\ hand \in [Threads -> Seq(Batch)]
      /\ t \in Threads /\ hand[t] = <<>>
  BY DEF IInv, TypeOK, EmptyHands, Threads, TakeDue
<1>2. RowsIn(hand[t]) = {}
  BY <1>1 DEF RowsIn
<1>3. queue \cap RowsIn(retry) = {} /\ DisjointBatches(retry)
      /\ lost \cap (queue \cup RowsIn(retry)) = {}
  BY DEF IInv, Ownership, Held
<1>4. UNCHANGED <<queue, dropped, dbUp, registered, running, left, req, db,
                  accepted, lost>>
  BY DEF TakeDue, envVars
<1>5. PICK L : L = Pick(retry, due)
  OBVIOUS
<1>6. PICK K : K = Pick(retry, DOMAIN retry \ due)
  OBVIOUS
<1>7. L \in Seq(Batch) /\ DisjointBatches(L) /\ Len(L) = Cardinality(due)
  BY <1>1, <1>3, <1>5, PickProperties
<1>8. K \in Seq(Batch) /\ DisjointBatches(K)
  <2>1. DOMAIN retry \ due \in SUBSET DOMAIN retry
    OBVIOUS
  <2>2. QED
    BY <2>1, <1>1, <1>3, <1>6, PickProperties
<1>9. RowsIn(retry) = RowsIn(L) \cup RowsIn(K) /\ RowsIn(L) \cap RowsIn(K) = {}
  BY <1>1, <1>3, <1>5, <1>6, PickSplits
<1>10. hand' = [hand EXCEPT ![t] = L] /\ retry' = K
       /\ retryRows' = retryRows - RowCount(L)
  BY <1>5, <1>6 DEF TakeDue, Keep
<1>11. Ownership' /\ Conservation' /\ Held' \subseteq accepted' /\ lost' \subseteq accepted'
  <2>1. queue' \cup RowsIn(retry') \cup RowsIn(L) \cup lost' \cup {}
          = queue \cup RowsIn(retry) \cup RowsIn(hand[t]) \cup lost \cup {}
    BY <1>2, <1>4, <1>9, <1>10
  <2>2. queue' \cap RowsIn(retry') = {} /\ RowsIn(L) \cap (queue' \cup RowsIn(retry')) = {}
        /\ lost' \cap (queue' \cup RowsIn(retry') \cup RowsIn(L)) = {}
        /\ DisjointBatches(retry')
    BY <1>3, <1>4, <1>8, <1>9, <1>10
  <2>3. accepted' = accepted \cup {} /\ {} \cap accepted = {}
    BY <1>4
  <2>4. QED
    BY <1>1, <1>4, <1>7, <1>10, <2>1, <2>2, <2>3, Move
<1>12. Accounting' /\ retryRows' \in Nat
  <2>1. RowsIn(L) \in SUBSET Rows /\ RowsIn(K) \in SUBSET Rows
    BY <1>7, <1>8, RowsInRows
  <2>2. Cardinality(RowsIn(retry)) = Cardinality(RowsIn(L)) + Cardinality(RowsIn(K))
    BY <1>9, <2>1, CountDisjoint
  <2>3. Cardinality(RowsIn(L)) \in Nat /\ Cardinality(RowsIn(K)) \in Nat
    BY <2>1, FiniteRows
  <2>4. retryRows = Cardinality(RowsIn(retry)) /\ dropped = Cardinality(lost)
    BY DEF IInv, Accounting, RowCount
  <2>5. retryRows' = Cardinality(RowsIn(K))
    BY <1>10, <2>2, <2>3, <2>4 DEF RowCount
  <2>6. QED
    BY <1>4, <1>10, <2>3, <2>4, <2>5 DEF Accounting, RowCount
<1>13. EmptyHands' /\ hand' \in [Threads -> Seq(Batch)] /\ pc' \in [Threads -> ThreadPc]
  <2>1. due = {} => L = <<>>
    BY <1>7, FS_EmptySet, EmptySeq
  <2>2. PICK at \in {"take", "retrying", "report", "forcing"} :
           /\ pc' = [pc EXCEPT ![t] = at]
           /\ at \notin {"write", "retrying", "forcing", "done"} => due = {}
    BY DEF TakeDue, Keep
  <2>3. at \in ThreadPc
    BY DEF ThreadPc
  <2>4. QED
    BY <1>1, <1>7, <1>10, <2>1, <2>2, <2>3, HandsAfter
<1>14. TypeOK'
  BY <1>4, <1>8, <1>10, <1>12, <1>13 DEF IInv, TypeOK
<1>15. Fresh'
  BY <1>4, <1>11 DEF IInv, Fresh
<1>16. QED
  BY <1>11, <1>12, <1>13, <1>14, <1>15 DEF IInv

(* The batch in front of a thread's hands and what Release does with it. *)
LEMMA ReleaseFacts ==
    ASSUME IInv, NEW t \in Threads, Writing(t), Release(t)
    PROVE  /\ Head(hand[t]) \in Batch /\ Tail(hand[t]) \in Seq(Batch)
           /\ hand' = [hand EXCEPT ![t] = Tail(hand[t])]
           /\ RowsIn(hand[t]) = Head(hand[t]).rows \cup RowsIn(Tail(hand[t]))
           /\ Head(hand[t]).rows \cap RowsIn(Tail(hand[t])) = {}
           /\ DisjointBatches(Tail(hand[t]))
           /\ EmptyHands'
           /\ hand' \in [Threads -> Seq(Batch)]
           /\ pc' \in [Threads -> ThreadPc]
<1>1. PICK h \in Seq(Batch) : h = hand[t] /\ h # <<>> /\ DisjointBatches(h)
  BY DEF IInv, TypeOK, Ownership, Writing
<1>2. /\ Head(h) \in Batch /\ Tail(h) \in Seq(Batch)
      /\ Len(h) \in Nat \ {0} /\ Len(Tail(h)) = Len(h) - 1
      /\ RowsIn(h) = Head(h).rows \cup RowsIn(Tail(h))
      /\ Head(h).rows \cap RowsIn(Tail(h)) = {}
      /\ DisjointBatches(Tail(h))
  BY <1>1, TailSplits
<1>3. hand' = [hand EXCEPT ![t] = Tail(h)]
  BY <1>1 DEF Release
<1>4. Len(h) = 1 => Tail(h) = <<>>
  <2>1. PICK l \in Seq(Batch) : l = Tail(h) /\ Len(l) = Len(h) - 1
    BY <1>2
  <2>2. Len(l) = 0 => l = <<>>
    BY EmptySeq
  <2>3. QED
    BY <2>1, <2>2
<1>5. PICK at \in ThreadPc : /\ pc' = [pc EXCEPT ![t] = at]
                             /\ at \notin {"write", "retrying", "forcing", "done"}
                                  => Len(h) = 1
  <2>1. AfterWrite(t) \in ThreadPc /\ pc[t] \in ThreadPc
    BY DEF AfterWrite, ThreadPc, IInv, TypeOK
  <2>2. CASE Len(h) = 1
    BY <1>1, <2>1, <2>2 DEF Release
  <2>3. CASE Len(h) # 1
    BY <1>1, <2>1, <2>3 DEF Release, Writing
  <2>4. QED
    BY <2>2, <2>3
<1>6. EmptyHands' /\ hand' \in [Threads -> Seq(Batch)] /\ pc' \in [Threads -> ThreadPc]
  BY <1>2, <1>3, <1>4, <1>5, HandsAfter
<1>7. QED
  BY <1>1, <1>2, <1>3, <1>6

(* Inserting a batch stores the keys of its rows and unstores nothing. *)
LEMMA StoredFacts ==
    ASSUME TypeOK, NEW b \in Batch, db' = Stored(b)
    PROVE  /\ db' \in [Keys -> Nat]
           /\ \A r \in Rows : db[Key[r]] > 0 => db'[Key[r]] > 0
           /\ \A r \in b.rows : db'[Key[r]] > 0
<1>1. db \in [Keys -> Nat] /\ \A r \in Rows : Key[r] \in Keys
  BY ConstantsAssumption DEF TypeOK
<1>2. b.rows \in SUBSET Rows
  BY DEF Batch
<1>3. QED
  BY <1>1, <1>2 DEF Stored

(* A batch that is inserted leaves the hands for the table. *)
LEMMA InsertOkStep ==
    ASSUME IInv, NEW t \in Threads, InsertOk(t)
    PROVE  IInv'
<1>1. PICK b, L : b = Head(hand[t]) /\ L = Tail(hand[t])
  OBVIOUS
<1>2. Writing(t) /\ Release(t) /\ db' = Stored(b)
  BY <1>1 DEF InsertOk
<1>3. UNCHANGED <<bufVars, dbUp, registered, running, left, req, accepted, lost>>
  BY DEF InsertOk, envVars
<1>4. /\ b \in Batch /\ L \in Seq(Batch) /\ hand' = [hand EXCEPT ![t] = L]
      /\ RowsIn(hand[t]) = b.rows \cup RowsIn(L)
      /\ DisjointBatches(L)
      /\ EmptyHands' /\ hand' \in [Threads -> Seq(Batch)]
      /\ pc' \in [Threads -> ThreadPc]
  BY <1>1, <1>2, ReleaseFacts
<1>5. b.rows \in SUBSET Rows
  BY <1>4 DEF Batch
<1>6. /\ db' \in [Keys -> Nat]
      /\ \A r \in Rows : db[Key[r]] > 0 => db'[Key[r]] > 0
      /\ \A r \in b.rows : db'[Key[r]] > 0
  BY <1>2, <1>4, StoredFacts DEF IInv
<1>7. /\ queue \cap RowsIn(retry) = {} /\ DisjointBatches(retry)
      /\ RowsIn(hand[t]) \cap (queue \cup RowsIn(retry)) = {}
      /\ lost \cap (queue \cup RowsIn(retry) \cup RowsIn(hand[t])) = {}
  BY DEF IInv, Ownership, Held
<1>8. Ownership' /\ Conservation' /\ Held' \subseteq accepted' /\ lost' \subseteq accepted'
  <2>1. queue' \cup RowsIn(retry') \cup RowsIn(L) \cup lost' \cup b.rows
          = queue \cup RowsIn(retry) \cup RowsIn(hand[t]) \cup lost \cup {}
    BY <1>3, <1>4 DEF bufVars
  <2>2. queue' \cap RowsIn(retry') = {} /\ RowsIn(L) \cap (queue' \cup RowsIn(retry')) = {}
        /\ lost' \cap (queue' \cup RowsIn(retry') \cup RowsIn(L)) = {}
        /\ DisjointBatches(retry')
    BY <1>3, <1>4, <1>7 DEF bufVars
  <2>3. accepted' = accepted \cup {} /\ {} \cap accepted = {} /\ registered' = registered
    BY <1>3
  <2>4. QED
    BY <1>4, <1>5, <1>6, <2>1, <2>2, <2>3, Move
<1>9. TypeOK' /\ Accounting'
  BY <1>3, <1>4, <1>6 DEF IInv, TypeOK, Accounting, bufVars
<1>10. Fresh'
  BY <1>3, <1>8 DEF IInv, Fresh
<1>11. QED
  BY <1>4, <1>8, <1>9, <1>10 DEF IInv

(* A failed insert, whether or not its commit took effect. *)
LEMMA InsertFailStep ==
    ASSUME IInv, NEW t \in Threads, InsertFail(t) \/ InsertUnsure(t)
    PROVE  IInv'
<1>1. PICK b, L : b = Head(hand[t]) /\ L = Tail(hand[t])
  OBVIOUS
<1>2. Writing(t) /\ Release(t) /\ Requeue(b) /\ (db' = db \/ db' = Stored(b))
  BY <1>1 DEF InsertFail, InsertUnsure
<1>3. UNCHANGED <<queue, dbUp, registered, running, left, req, accepted>>
  BY DEF InsertFail, InsertUnsure, envVars
<1>4. /\ b \in Batch /\ L \in Seq(Batch) /\ hand' = [hand EXCEPT ![t] = L]
      /\ RowsIn(hand[t]) = b.rows \cup RowsIn(L)
      /\ b.rows \cap RowsIn(L) = {}
      /\ DisjointBatches(L)
      /\ EmptyHands' /\ hand' \in [Threads -> Seq(Batch)]
      /\ pc' \in [Threads -> ThreadPc]
  BY <1>1, <1>2, ReleaseFacts
<1>5. /\ db' \in [Keys -> Nat]
      /\ \A r \in Rows : db[Key[r]] > 0 => db'[Key[r]] > 0
  BY <1>2, <1>4, StoredFacts DEF IInv, TypeOK
<1>6. /\ queue \cap RowsIn(retry) = {} /\ DisjointBatches(retry)
      /\ RowsIn(hand[t]) \cap (queue \cup RowsIn(retry)) = {}
      /\ lost \cap (queue \cup RowsIn(retry) \cup RowsIn(hand[t])) = {}
  BY DEF IInv, Ownership, Held
<1>7. /\ retry' \in Seq(Batch) /\ DisjointBatches(retry')
      /\ retryRows' = RowCount(retry') /\ retryRows' \in Nat
      /\ dropped' = Cardinality(lost') /\ dropped' \in Nat
      /\ RowsIn(retry') \cup lost' = RowsIn(retry) \cup b.rows \cup lost
      /\ RowsIn(retry') \cap lost' = {}
      /\ RowsIn(retry') \subseteq RowsIn(retry) \cup b.rows
      /\ lost \subseteq lost' /\ lost' \subseteq Rows
  <2>1. RowsIn(retry) \cap b.rows = {} /\ lost \cap (RowsIn(retry) \cup b.rows) = {}
    BY <1>4, <1>6
  <2>2. QED
    BY <1>2, <1>4, <1>6, <2>1, RequeueRows DEF IInv
<1>8. Ownership' /\ Conservation' /\ Held' \subseteq accepted' /\ lost' \subseteq accepted'
  <2>1. queue' \cup RowsIn(retry') \cup RowsIn(L) \cup lost' \cup {}
          = queue \cup RowsIn(retry) \cup RowsIn(hand[t]) \cup lost \cup {}
    BY <1>3, <1>4, <1>7
  <2>2. queue' \cap RowsIn(retry') = {} /\ RowsIn(L) \cap (queue' \cup RowsIn(retry')) = {}
    BY <1>3, <1>4, <1>6, <1>7
  <2>3. lost' \cap (queue' \cup RowsIn(retry') \cup RowsIn(L)) = {}
    BY <1>3, <1>4, <1>6, <1>7
  <2>4. accepted' = accepted \cup {} /\ {} \cap accepted = {} /\ registered' = registered
    BY <1>3
  <2>5. QED
    BY <1>4, <1>5, <1>7, <2>1, <2>2, <2>3, <2>4, Move
<1>9. TypeOK' /\ Accounting'
  BY <1>3, <1>4, <1>5, <1>7 DEF IInv, TypeOK, Accounting
<1>10. Fresh'
  BY <1>3, <1>8 DEF IInv, Fresh
<1>11. QED
  BY <1>4, <1>8, <1>9, <1>10 DEF IInv

-----------------------------------------------------------------------------
(* The theorems *)

(* One step per action. *)
LEMMA Inductive == IInv /\ [Next]_vars => IInv'
<1> SUFFICES ASSUME IInv, [Next]_vars PROVE IInv'
  OBVIOUS
<1>1. CASE Next
  <2>1. CASE \E t \in Requests : \E d \in Devices : \E rows \in SUBSET Rows :
                Admit(t, d, rows)
    BY <2>1, AdmitStep
  <2>2. CASE \E t \in Requests : Add(t)
    BY <2>2, AddStep
  <2>3. CASE \E t \in {Flusher, Stopper} : \E due \in SUBSET DOMAIN retry :
                TakeDue(t, due)
    BY <2>3, TakeDueStep
  <2>4. CASE \E t \in {Flusher, Stopper} : TakeQueue(t)
    BY <2>4, TakeQueueStep
  <2>5. CASE \E t \in Threads : Insert(t)
    BY <2>5, InsertOkStep, InsertFailStep DEF Insert
  <2>6. CASE LoopTop \/ StopBegin \/ Join \/ Report \/ DbDown \/ DbRestored
    BY <2>6, QuietStep
  <2>7. CASE \E d \in Devices : DeleteDevice(d)
    BY <2>7, DeleteDeviceStep
  <2>8. QED
    BY <1>1, <2>1, <2>2, <2>3, <2>4, <2>5, <2>6, <2>7 DEF Next
<1>2. CASE UNCHANGED vars
  <2>1. UNCHANGED <<bufVars, hand, accepted, lost>>
    BY <1>2 DEF vars, bufVars
  <2>2. Ownership' /\ Accounting' /\ Held' = Held
    BY <2>1, Stay
  <2>3. QED
    BY <1>2, <2>2 DEF vars, IInv, TypeOK, Conservation, Fresh, EmptyHands
<1>3. QED
  BY <1>1, <1>2

(* IInv holds in every state. *)
LEMMA Invariance == Spec => []IInv
BY InitIInv, Inductive, PTL DEF Spec

(* Type correctness of the write buffer: in particular _retry_rows, which  *)
(* is decremented in one lock block and incremented in others, never falls *)
(* below zero.                                                             *)
THEOREM TypeCorrect == Spec => []TypeOK
<1>1. IInv => TypeOK
  BY DEF IInv
<1>2. QED
  BY <1>1, Invariance, PTL

(* No row is ever in two places, for any number of request threads beside  *)
(* the flusher and stop().                                                 *)
THEOREM OwnershipHolds == Spec => []Ownership
<1>1. IInv => Ownership
  BY DEF IInv
<1>2. QED
  BY <1>1, Invariance, PTL

(* _retry_rows and _dropped are exact. *)
THEOREM AccountingHolds == Spec => []Accounting
<1>1. IInv => Accounting
  BY DEF IInv
<1>2. QED
  BY <1>1, Invariance, PTL

(* No accepted row disappears without being stored or counted as dropped.  *)
THEOREM NoSilentLoss == Spec => []Conservation
<1>1. IInv => Conservation
  BY DEF IInv
<1>2. QED
  BY <1>1, Invariance, PTL

-----------------------------------------------------------------------------
(* The bounds *)

SmallBatches(s) == \A i \in DOMAIN s : Cardinality(s[i].rows) <= BatchLimit

(* The bounds rest on the size of the requests. *)
Bounded == BufferBounded /\ \A t \in Requests : Cardinality(req[t]) <= MaxBatch

(* Adding to the retry list and dropping its head makes no batch larger,   *)
(* and leaves one batch or no more than MaxPending rows.                   *)
LEMMA RequeueBounds ==
    ASSUME TypeOK, Bounded, NEW b \in Batch, Requeue(b), Cardinality(b.rows) <= BatchLimit
    PROVE  SmallBatches(retry') /\ (retryRows' <= MaxPending \/ Len(retry') = 1)
<1>1. retry \in Seq(Batch) /\ SmallBatches(retry) /\ (retryRows <= MaxPending \/ Len(retry) = 1)
  BY DEF TypeOK, Bounded, BufferBounded, SmallBatches
<1>2. CASE GiveUp(b)
  BY <1>1, <1>2 DEF GiveUp
<1>3. CASE \E c \in 1..Len(Longer(b)) : Fits(b, c) /\ KeepFrom(b, c)
  <2>0. [b EXCEPT !.attempts = @ + 1] \in Batch /\ [b EXCEPT !.attempts = @ + 1].rows = b.rows
    BY DEF Batch
  <2>1. PICK f \in Batch : f = [b EXCEPT !.attempts = @ + 1] /\ f.rows = b.rows
    BY <2>0
  <2>2. PICK s : s = Longer(b) /\ s = Append(retry, f)
    BY <2>1 DEF Longer
  <2>3. /\ s \in Seq(Batch) /\ Len(s) = Len(retry) + 1 /\ Len(retry) \in Nat
        /\ \A i \in 1..Len(retry) : s[i] = retry[i]
        /\ s[Len(retry) + 1] = f
    BY <1>1, <2>2
  <2>4. SmallBatches(s)
    <3>1. ASSUME NEW i \in 1..Len(s) PROVE Cardinality(s[i].rows) <= BatchLimit
      <4>1. i \in 1..Len(retry) \/ i = Len(retry) + 1
        BY <2>3
      <4>2. CASE i \in 1..Len(retry)
        BY <1>1, <2>3, <4>2 DEF SmallBatches
      <4>3. CASE i = Len(retry) + 1
        BY <2>1, <2>3, <4>3
      <4>4. QED
        BY <4>1, <4>2, <4>3
    <3>2. QED
      BY <2>3, <3>1 DEF SmallBatches
  <2>5. PICK c \in 1..Len(s) : Fits(b, c) /\ KeepFrom(b, c)
    BY <1>3, <2>2, Zenon
  <2>6. retry' = SubSeq(s, c, Len(s))
    BY <2>2, <2>5, Zenon DEF KeepFrom
  <2>7. /\ Len(retry') = Len(s) - c + 1
        /\ \A i \in DOMAIN retry' : c + i - 1 \in DOMAIN s /\ retry'[i] = s[c + i - 1]
    BY <2>3, <2>6
  <2>8. SmallBatches(retry')
    BY <2>4, <2>7 DEF SmallBatches
  <2>9. c = Len(s) \/ retryRows' <= MaxPending
    BY <2>2, <2>5, Zenon DEF Fits, KeepFrom
  <2>10. QED
    BY <2>3, <2>7, <2>8, <2>9
<1>4. QED
  BY <1>2, <1>3 DEF Requeue

(* Taking batches out of the retry list keeps the bounds of what stays. *)
LEMMA TakeDueBounds ==
    ASSUME IInv, IInv', Bounded, NEW t, NEW due \in SUBSET DOMAIN retry, TakeDue(t, due)
    PROVE  /\ SmallBatches(Pick(retry, due))
           /\ SmallBatches(retry') /\ (retryRows' <= MaxPending \/ Len(retry') = 1)
<1>1. retry \in Seq(Batch) /\ SmallBatches(retry) /\ (retryRows <= MaxPending \/ Len(retry) = 1)
  BY DEF IInv, TypeOK, Bounded, BufferBounded, SmallBatches
<1>2. PICK I \in SUBSET DOMAIN retry : I = DOMAIN retry \ due
  OBVIOUS
<1>3. retry' = Pick(retry, I)
  BY <1>2 DEF TakeDue, Keep
<1>4. SmallBatches(Pick(retry, due)) /\ SmallBatches(Pick(retry, I))
  BY <1>1, PickProperties DEF SmallBatches
<1>5. CASE retryRows <= MaxPending
  <2>1. RowCount(Pick(retry, due)) \in Nat /\ retryRows \in Nat /\ MaxPending \in Nat
    BY <1>1, PickProperties, RowsInRows, FiniteRows, ConstantsAssumption DEF RowCount, IInv, TypeOK
  <2>2. retryRows' = retryRows - RowCount(Pick(retry, due))
    BY DEF TakeDue
  <2>3. QED
    BY <1>3, <1>4, <1>5, <2>1, <2>2
<1>6. CASE Len(retry) = 1
  <2>1. DOMAIN retry = {1}
    BY <1>1, <1>6
  <2>2. CASE I = {1}
    <3>1. Len(Pick(retry, I)) = 1
      BY <1>1, <2>2, PickProperties, FS_Singleton
    <3>2. QED
      BY <1>3, <1>4, <3>1
  <2>3. CASE I = {}
    <3>1. RowsIn(retry') = {}
      BY <1>1, <1>3, <2>3, PickProperties
    <3>2. retryRows' = 0
      BY <3>1, FS_EmptySet DEF IInv, Accounting, RowCount
    <3>3. QED
      BY <1>3, <1>4, <3>2, ConstantsAssumption
  <2>4. QED
    BY <2>1, <2>2, <2>3
<1>7. QED
  BY <1>1, <1>5, <1>6

(* Another list in the hands of one thread. *)
LEMMA HandBounds ==
    ASSUME IInv, Bounded, NEW t \in Threads, NEW L, hand' = [hand EXCEPT ![t] = L], SmallBatches(L)
    PROVE  \A u \in Threads : SmallBatches(hand'[u])
BY DEF IInv, TypeOK, Bounded, BufferBounded, SmallBatches

(* The bounds, for every step. *)
LEMMA BoundedStep == IInv /\ IInv' /\ Bounded /\ [Next]_vars => Bounded'
<1> SUFFICES ASSUME IInv, IInv', Bounded, [Next]_vars PROVE Bounded'
  OBVIOUS
<1>2. /\ Cardinality(queue) < MaxSize
      /\ retryRows <= MaxPending \/ Len(retry) = 1
      /\ SmallBatches(retry) /\ \A t \in Threads : SmallBatches(hand[t])
      /\ \A t \in Requests : Cardinality(req[t]) <= MaxBatch
      /\ queue \in SUBSET Rows /\ Cardinality(queue) \in Nat
      /\ MaxSize \in Nat \ {0} /\ MaxBatch \in Nat \ {0} /\ Cardinality({}) = 0
  BY FiniteRows, FS_EmptySet, ConstantsAssumption DEF Bounded, BufferBounded, SmallBatches, IInv, TypeOK
<1>3. ASSUME NEW A \in SUBSET Rows, Cardinality(A) <= BatchLimit PROVE SmallBatches(<<NewBatch(A)>>)
  BY <1>3 DEF SmallBatches, NewBatch
<1>4. ASSUME NEW t \in Requests, NEW d, NEW rows \in SUBSET Rows, Admit(t, d, rows) PROVE Bounded'
  BY <1>2, <1>4 DEF Admit, bufVars, Bounded, BufferBounded, SmallBatches, IInv, TypeOK
<1>5. ASSUME NEW t \in Requests, Add(t) PROVE Bounded'
  <2>1. PICK A \in SUBSET Rows : A = queue \cup req[t]
    BY DEF IInv, TypeOK
  <2>2. Cardinality(A) <= Cardinality(queue) + Cardinality(req[t]) /\ Cardinality(A) \in Nat
    <3>1. /\ IsFiniteSet(queue) /\ IsFiniteSet(req[t]) /\ Cardinality(queue \cap req[t]) \in Nat
          /\ Cardinality(req[t]) \in Nat /\ Cardinality(A) \in Nat
      BY FiniteRows DEF IInv, TypeOK
    <3>2. Cardinality(A) = Cardinality(queue) + Cardinality(req[t]) - Cardinality(queue \cap req[t])
      BY <2>1, <3>1, FS_Union
    <3>3. QED
      BY <1>2, <3>1, <3>2
  <2>3. Cardinality(req[t]) \in Nat /\ Cardinality(req[t]) <= MaxBatch
    BY <1>2, FiniteRows DEF IInv, TypeOK
  <2>4. Cardinality(A) <= BatchLimit
    BY <1>2, <2>2, <2>3 DEF BatchLimit
  <2>5. \A u \in Requests : Cardinality(req'[u]) <= MaxBatch
    BY <1>2, <1>5 DEF Add, IInv, TypeOK
  <2>6. retry' = retry /\ retryRows' = retryRows
    BY <1>5 DEF Add
  <2>7. CASE Cardinality(A) >= MaxSize
    <3>1. queue' = {} /\ hand' = [hand EXCEPT ![t] = <<NewBatch(A)>>]
      BY <1>5, <2>1, <2>7 DEF Add
    <3>2. \A u \in Threads : SmallBatches(hand'[u])
      BY <1>3, <2>4, <3>1, HandBounds DEF Threads
    <3>3. QED
      BY <1>2, <2>5, <2>6, <3>1, <3>2 DEF Bounded, BufferBounded, SmallBatches
  <2>8. CASE ~ (Cardinality(A) >= MaxSize)
    <3>1. queue' = A /\ hand' = hand
      BY <1>5, <2>1, <2>8 DEF Add
    <3>2. Cardinality(queue') < MaxSize
      BY <1>2, <2>2, <2>8, <3>1
    <3>3. QED
      BY <1>2, <2>5, <2>6, <3>1, <3>2 DEF Bounded, BufferBounded, SmallBatches
  <2>9. QED
    BY <2>7, <2>8
<1>6. ASSUME NEW t \in {Flusher, Stopper}, NEW due \in SUBSET DOMAIN retry, TakeDue(t, due) PROVE Bounded'
  <2>1. hand' = [hand EXCEPT ![t] = Pick(retry, due)] /\ queue' = queue /\ req' = req
    BY <1>6 DEF TakeDue
  <2>2. \A u \in Threads : SmallBatches(hand'[u])
    BY <1>6, <2>1, TakeDueBounds, HandBounds DEF Threads
  <2>3. QED
    BY <1>2, <1>6, <2>1, <2>2, TakeDueBounds DEF Bounded, BufferBounded, SmallBatches
<1>7. ASSUME NEW t \in {Flusher, Stopper}, TakeQueue(t) PROVE Bounded'
  <2>1. queue' = {} /\ retry' = retry /\ retryRows' = retryRows /\ req' = req
    BY <1>7 DEF TakeQueue
  <2>2. Cardinality(queue) <= BatchLimit
    BY <1>2 DEF BatchLimit
  <2>3. \A u \in Threads : SmallBatches(hand'[u])
    BY <1>2, <1>3, <1>7, <2>2, HandBounds DEF TakeQueue, Threads
  <2>4. QED
    BY <1>2, <2>1, <2>3 DEF Bounded, BufferBounded, SmallBatches
<1>8. ASSUME NEW t \in Threads, Insert(t) PROVE Bounded'
  <2>1. Writing(t) /\ Release(t) /\ queue' = queue /\ req' = req
    BY <1>8 DEF Insert, InsertOk, InsertFail, InsertUnsure, bufVars
  <2>2. PICK h \in Seq(Batch) : h = hand[t] /\ h # <<>> /\ SmallBatches(h)
    BY <1>2, <2>1 DEF Writing, IInv, TypeOK
  <2>3. /\ Head(h) \in Batch /\ Cardinality(Head(h).rows) <= BatchLimit
        /\ SmallBatches(Tail(h))
    BY <2>2 DEF SmallBatches
  <2>4. hand' = [hand EXCEPT ![t] = Tail(h)]
    BY <2>1, <2>2 DEF Release
  <2>5. \A u \in Threads : SmallBatches(hand'[u])
    BY <2>3, <2>4, HandBounds
  <2>6. SmallBatches(retry') /\ (retryRows' <= MaxPending \/ Len(retry') = 1)
    <3>1. CASE InsertOk(t)
      BY <1>2, <3>1 DEF InsertOk, bufVars
    <3>2. CASE InsertFail(t) \/ InsertUnsure(t)
      BY <2>2, <2>3, <3>2, RequeueBounds DEF InsertFail, InsertUnsure, IInv
    <3>3. QED
      BY <1>8, <3>1, <3>2 DEF Insert
  <2>7. QED
    BY <1>2, <2>1, <2>5, <2>6 DEF Bounded, BufferBounded, SmallBatches
<1>9. CASE UNCHANGED <<queue, retry, retryRows, hand, req>>
  BY <1>9 DEF Bounded, BufferBounded
<1>10. QED
  BY <1>4, <1>5, <1>6, <1>7, <1>8, <1>9
     DEF Next, LoopTop, StopBegin, Join, Report, DbDown, DbRestored, DeleteDevice, bufVars, vars

(* The buffer's memory is bounded, for every limit: the queue, the retry   *)
(* list and each batch, however often it comes back.                       *)
THEOREM MemoryBounded == Spec => []BufferBounded
<1>1. Init => Bounded
  <2>1. Cardinality({}) = 0
    BY FS_EmptySet
  <2>2. QED
    BY <2>1, ConstantsAssumption DEF Init, Bounded, BufferBounded
<1>2. Bounded => BufferBounded
  BY DEF Bounded
<1>3. QED
  BY <1>1, <1>2, BoundedStep, Invariance, PTL DEF Spec

-----------------------------------------------------------------------------
(* The end of the process *)

(* stop() clears _running after the last request, and when it has reported *)
(* no thread takes another step.                                           *)
StopOrder ==
    /\ pc[Stopper] \notin {"serving", "done"} => ~ running /\ \A t \in Requests : pc[t] = "idle"
    /\ pc[Stopper] = "done" => \A t \in Threads : pc[t] \in {"done", "dead"}

(* A step of a thread other than the end of the process: where it was and  *)
(* where it goes.                                                          *)
Moves(t, at) ==
    /\ pc' = [pc EXCEPT ![t] = at]
    /\ at \notin {"serving", "done"} /\ pc[t] \notin {"serving", "done", "dead"}
    /\ t \in Requests => pc[t] # "idle" \/ running
    /\ running' = running

(* Every step is of stop(), moves one thread, or leaves them all alone. *)
LEMMA ThreadSteps ==
    ASSUME Next
    PROVE  \/ StopBegin \/ Report \/ \E t \in Threads : \E at : Moves(t, at)
           \/ UNCHANGED <<pc, running, left, hand, queue, retry>>
<1>1. Requests \subseteq Threads /\ Flusher \notin Requests /\ Stopper \notin Requests
  BY ConstantsAssumption DEF Threads
<1>2. ASSUME NEW t \in Requests, NEW d, NEW rows, Admit(t, d, rows) PROVE Moves(t, "add")
  BY <1>2 DEF Admit, Moves
<1>3. ASSUME NEW t \in Requests, Add(t) PROVE Moves(t, "write") \/ Moves(t, "idle")
  BY <1>3 DEF Add, Moves
<1>4. CASE LoopTop
  <2>1. Moves(Flusher, "retry") \/ Moves(Flusher, "dead")
    BY <1>1, <1>4 DEF LoopTop, Moves
  <2>2. QED
    BY <2>1 DEF Threads
<1>5. ASSUME NEW t \in {Flusher, Stopper}, NEW due, TakeDue(t, due)
      PROVE  \E at : Moves(t, at)
  <2>1. PICK at : pc' = [pc EXCEPT ![t] = at] /\ at \in {"take", "retrying", "report", "forcing"}
    BY <1>5 DEF TakeDue
  <2>2. QED
    BY <1>1, <1>5, <2>1 DEF TakeDue, Moves
<1>6. ASSUME NEW t \in {Flusher, Stopper}, TakeQueue(t)
      PROVE  \E at : Moves(t, at)
  <2>1. PICK at : pc' = [pc EXCEPT ![t] = at] /\ at \in {"loop", "force", "write"}
    BY <1>6 DEF TakeQueue
  <2>2. QED
    BY <1>1, <1>6, <2>1 DEF TakeQueue, Moves
<1>7. ASSUME NEW t \in Threads, Insert(t) PROVE \E at : Moves(t, at)
  <2>1. Writing(t) /\ Release(t) /\ running' = running
    BY <1>7 DEF Insert, InsertOk, InsertFail, InsertUnsure
  <2>2. AfterWrite(t) \in {"take", "report", "loop", "force", "idle"}
    BY DEF AfterWrite
  <2>3. PICK at : pc' = [pc EXCEPT ![t] = at] /\ at \notin {"serving", "done"}
    BY <2>1, <2>2 DEF Release, Writing
  <2>4. QED
    BY <2>1, <2>3 DEF Writing, Moves
<1>8. CASE Join
  <2>1. Moves(Stopper, "retry")
    BY <1>1, <1>8 DEF Join, Moves
  <2>2. QED
    BY <2>1 DEF Threads
<1>9. CASE DbDown \/ DbRestored \/ \E d \in Devices : DeleteDevice(d)
  BY <1>9 DEF DbDown, DbRestored, DeleteDevice, bufVars
<1>10. QED
  BY <1>1, <1>2, <1>3, <1>4, <1>5, <1>6, <1>7, <1>8, <1>9 DEF Next, Threads

(* The order in which the threads end, for every step. *)
LEMMA StopOrderStep == IInv /\ StopOrder /\ [Next]_vars => StopOrder'
<1> SUFFICES ASSUME IInv, StopOrder, [Next]_vars PROVE StopOrder'
  OBVIOUS
<1>1. /\ pc \in [Threads -> ThreadPc] /\ Requests \subseteq Threads
      /\ Stopper \in Threads /\ Stopper \notin Requests
  BY ConstantsAssumption DEF IInv, TypeOK, Threads
<1>2. ASSUME NEW t \in Threads, NEW at, Moves(t, at) PROVE StopOrder'
  <2>1. pc[Stopper] # "done" /\ pc'[Stopper] # "done"
    BY <1>1, <1>2 DEF Moves, StopOrder
  <2>2. CASE pc[Stopper] = "serving"
    BY <1>1, <1>2, <2>2 DEF Moves, StopOrder
  <2>3. CASE pc[Stopper] # "serving"
    <3>1. ~ running /\ \A u \in Requests : pc[u] = "idle"
      BY <2>1, <2>3 DEF StopOrder
    <3>2. t \notin Requests
      BY <1>2, <3>1 DEF Moves
    <3>3. QED
      BY <1>1, <1>2, <2>1, <3>1, <3>2 DEF Moves, StopOrder
  <2>4. QED
    BY <2>2, <2>3
<1>3. CASE StopBegin
  BY <1>1, <1>3 DEF StopBegin, StopOrder
<1>4. CASE Report
  BY <1>1, <1>4 DEF Report, StopOrder
<1>5. CASE UNCHANGED <<pc, running>>
  BY <1>5 DEF StopOrder
<1>6. QED
  BY <1>2, <1>3, <1>4, <1>5, ThreadSteps DEF vars

(* With every hand empty, what is pending is all there is. *)
LEMMA PendingIsHeld ==
    ASSUME IInv, \A t \in Threads : hand[t] = <<>>
    PROVE  PendingRows = Cardinality(Held)
<1>1. \A t \in Threads : RowsIn(hand[t]) = {}
  BY DEF RowsIn
<1>2. Held = queue \cup RowsIn(retry)
  BY <1>1 DEF Held
<1>3. queue \in SUBSET Rows /\ RowsIn(retry) \in SUBSET Rows /\ queue \cap RowsIn(retry) = {}
  BY RowsInRows DEF IInv, TypeOK, Ownership
<1>4. Cardinality(queue \cup RowsIn(retry)) = Cardinality(queue) + Cardinality(RowsIn(retry))
  BY <1>3, CountDisjoint
<1>5. QED
  BY <1>2, <1>4 DEF PendingRows, IInv, Accounting, RowCount

(* What was reported stays true, for every step. *)
LEMMA ExitReportStep == IInv /\ StopOrder /\ ExitReport /\ [Next]_vars => ExitReport'
<1> SUFFICES ASSUME IInv, StopOrder, ExitReport, [Next]_vars,
                    pc'[Stopper] = "done", pc'[Flusher] = "dead"
             PROVE  left' = Cardinality(Held')
  BY DEF ExitReport
<1>1. /\ pc \in [Threads -> ThreadPc] /\ Stopper \in Threads /\ Flusher \in Threads
  BY DEF IInv, TypeOK, Threads
<1>2. CASE Report
  <2>1. pc[Stopper] = "report" /\ pc[Flusher] = "dead"
    BY <1>1, <1>2 DEF Report
  <2>2. \A t \in Threads : pc[t] \in {"report", "dead", "idle"}
    BY <2>1 DEF StopOrder, Threads
  <2>3. \A t \in Threads : hand[t] = <<>>
    BY <2>2 DEF IInv, EmptyHands
  <2>4. left' = PendingRows /\ Held' = Held
    BY <1>2 DEF Report, Held, bufVars
  <2>5. QED
    BY <2>3, <2>4, PendingIsHeld
<1>3. CASE pc[Stopper] = "done" /\ UNCHANGED <<pc, left, hand, queue, retry>>
  BY <1>3 DEF ExitReport, Held
<1>4. ASSUME NEW t \in Threads, NEW at, Moves(t, at) PROVE FALSE
  BY <1>1, <1>4 DEF Moves, StopOrder
<1>5. ~ StopBegin
  BY <1>1 DEF StopBegin
<1>6. QED
  BY <1>2, <1>3, <1>4, <1>5, ThreadSteps DEF vars

(* What stop() logs as not written is what dies with the process, whatever *)
(* the requests, the flusher and the database did before: the flusher has  *)
(* ended, and no request is left that could hold a batch.                  *)
THEOREM ReportIsExact == Spec => []ExitReport
<1>1. Init => StopOrder /\ ExitReport
  BY ConstantsAssumption DEF Init, StopOrder, ExitReport, Threads
<1>2. QED
  BY <1>1, StopOrderStep, ExitReportStep, Invariance, PTL DEF Spec

-----------------------------------------------------------------------------
(* WriteBuffer implements Delivery: Init maps to Init, and under IInv      *)
(* every step maps to a step of Delivery or leaves its variables alone.    *)

(* The step as Delivery sees it. *)
Abstract == [Promise!Next]_(Promise!vars)

(* The empty buffer has accepted nothing. *)
LEMMA AbstractInit == Init => Promise!Init
<1> SUFFICES ASSUME Init PROVE Promise!Init
  OBVIOUS
<1>1. Held = {}
  BY DEF Init, Held, RowsIn
<1>2. StoredKeys = {}
  BY DEF Init, StoredKeys
<1>3. QED
  BY <1>1, <1>2 DEF Init, Promise!Init

(* The rows held by the other threads. *)
Others(t) == UNION {RowsIn(hand[u]) : u \in Threads \ {t}}

(* What is held when one thread's hands change. *)
LEMMA HeldAfter ==
    ASSUME IInv, NEW t \in Threads, NEW L, hand' = [hand EXCEPT ![t] = L]
    PROVE  /\ Held = queue \cup RowsIn(retry) \cup RowsIn(hand[t]) \cup Others(t)
           /\ Held' = queue' \cup RowsIn(retry') \cup RowsIn(L) \cup Others(t)
<1>1. hand \in [Threads -> Seq(Batch)]
  BY DEF IInv, TypeOK
<1>2. hand'[t] = L /\ \A u \in Threads \ {t} : hand'[u] = hand[u]
  BY <1>1
<1>3. Held = queue \cup RowsIn(retry) \cup RowsIn(hand[t]) \cup Others(t)
  BY DEF Held, Others
<1>4. Held' = queue' \cup RowsIn(retry') \cup RowsIn(hand'[t])
              \cup UNION {RowsIn(hand'[u]) : u \in Threads \ {t}}
  BY DEF Held
<1>5. (UNION {RowsIn(hand'[u]) : u \in Threads \ {t}}) = Others(t)
  BY <1>2 DEF Others
<1>6. QED
  BY <1>2, <1>3, <1>4, <1>5

(* Steps that only move rows, or none, are invisible. *)
LEMMA Unseen ==
    ASSUME Held' = Held, UNCHANGED <<db, registered, accepted, lost, dropped>>
    PROVE  Abstract
<1>1. StoredKeys' = StoredKeys
  BY DEF StoredKeys
<1>2. QED
  BY <1>1 DEF Abstract, Promise!vars

(* Steps that only move threads, or the database, are invisible. *)
LEMMA QuietAbstract ==
    ASSUME IInv, LoopTop \/ StopBegin \/ Join \/ Report \/ DbDown \/ DbRestored
    PROVE  Abstract
<1>1. UNCHANGED <<queue, retry, retryRows, dropped, hand, db, registered, accepted, lost>>
  BY DEF LoopTop, StopBegin, Join, Report, DbDown, DbRestored, bufVars, envVars
<1>2. Held' = Held
  BY <1>1 DEF Held
<1>3. QED
  BY <1>1, <1>2, Unseen

(* Admitting a request is invisible: nothing is accepted yet. *)
LEMMA AdmitAbstract ==
    ASSUME IInv, NEW t \in Requests, NEW d \in Devices, NEW rows \in SUBSET Rows,
           Admit(t, d, rows)
    PROVE  Abstract
<1>1. UNCHANGED <<queue, retry, retryRows, dropped, hand, db, registered, accepted, lost>>
  BY DEF Admit, bufVars, envVars
<1>2. Held' = Held
  BY <1>1 DEF Held
<1>3. QED
  BY <1>1, <1>2, Unseen

(* add() is Accept, whether the queue is left or taken out at once. *)
LEMMA AddAbstract ==
    ASSUME IInv, NEW t \in Requests, Add(t)
    PROVE  Abstract
<1>1. /\ queue \in SUBSET Rows /\ req[t] \in SUBSET Rows
      /\ hand \in [Threads -> Seq(Batch)]
      /\ t \in Threads /\ hand[t] = <<>>
  BY DEF IInv, TypeOK, EmptyHands, Threads, Add
<1>2. RowsIn(hand[t]) = {}
  BY <1>1 DEF RowsIn
<1>3. /\ UNCHANGED <<retry, dropped, registered, db, lost>>
      /\ accepted' = accepted \cup req[t]
  BY DEF Add, envVars
<1>4. req[t] \cap accepted = {}
  BY DEF IInv, Fresh
<1>5. Held' = Held \cup req[t]
  <2>1. CASE Cardinality(queue \cup req[t]) >= MaxSize
    <3>1. queue' = {} /\ hand' = [hand EXCEPT ![t] = <<NewBatch(queue \cup req[t])>>]
      BY <2>1 DEF Add
    <3>2. queue \cup req[t] \in SUBSET Rows
      BY <1>1
    <3>3. RowsIn(<<NewBatch(queue \cup req[t])>>) = queue \cup req[t]
      BY <3>2, SingleBatch
    <3>4. QED
      BY <1>1, <1>2, <1>3, <3>1, <3>3, HeldAfter
  <2>2. CASE ~ (Cardinality(queue \cup req[t]) >= MaxSize)
    <3>1. queue' = queue \cup req[t] /\ hand' = hand
      BY <2>2 DEF Add
    <3>2. QED
      BY <1>3, <3>1 DEF Held
  <2>3. QED
    BY <2>1, <2>2
<1>6. StoredKeys' = StoredKeys
  BY <1>3 DEF StoredKeys
<1>7. Promise!Accept(req[t])
  BY <1>3, <1>4, <1>5, <1>6 DEF Promise!Accept
<1>8. QED
  BY <1>1, <1>7 DEF Abstract, Promise!Next

(* Taking the queue out for an insert is invisible. *)
LEMMA TakeQueueAbstract ==
    ASSUME IInv, NEW t \in {Flusher, Stopper}, TakeQueue(t)
    PROVE  Abstract
<1>1. /\ queue \in SUBSET Rows
      /\ hand \in [Threads -> Seq(Batch)]
      /\ t \in Threads /\ hand[t] = <<>>
  BY DEF IInv, TypeOK, EmptyHands, Threads, TakeQueue
<1>2. RowsIn(hand[t]) = {}
  BY <1>1 DEF RowsIn
<1>3. UNCHANGED <<retry, dropped, registered, db, accepted, lost>>
  BY DEF TakeQueue, envVars
<1>4. Held' = Held
  <2>1. CASE queue = {}
    <3>1. queue' = queue /\ hand' = hand
      BY <2>1 DEF TakeQueue
    <3>2. QED
      BY <1>3, <3>1 DEF Held
  <2>2. CASE queue # {}
    <3>1. queue' = {} /\ hand' = [hand EXCEPT ![t] = <<NewBatch(queue)>>]
      BY <2>2 DEF TakeQueue
    <3>2. RowsIn(<<NewBatch(queue)>>) = queue
      BY <1>1, SingleBatch
    <3>3. /\ Held = queue \cup RowsIn(retry) \cup RowsIn(hand[t]) \cup Others(t)
          /\ Held' = queue' \cup RowsIn(retry') \cup RowsIn(<<NewBatch(queue)>>) \cup Others(t)
      BY <1>1, <3>1, HeldAfter
    <3>4. retry' = retry
      BY <1>3
    <3>5. QED
      BY <1>2, <3>1, <3>2, <3>3, <3>4
  <2>3. QED
    BY <2>1, <2>2
<1>5. QED
  BY <1>3, <1>4, Unseen

(* So is taking out the batches that are due. *)
LEMMA TakeDueAbstract ==
    ASSUME IInv, NEW t \in {Flusher, Stopper}, NEW due \in SUBSET DOMAIN retry,
           TakeDue(t, due)
    PROVE  Abstract
<1>1. /\ retry \in Seq(Batch)
      /\ hand \in [Threads -> Seq(Batch)]
      /\ t \in Threads /\ hand[t] = <<>>
  BY DEF IInv, TypeOK, EmptyHands, Threads, TakeDue
<1>2. RowsIn(hand[t]) = {}
  BY <1>1 DEF RowsIn
<1>3. /\ UNCHANGED <<queue, dropped, registered, db, accepted, lost>>
      /\ hand' = [hand EXCEPT ![t] = Pick(retry, due)]
      /\ retry' = Pick(retry, DOMAIN retry \ due)
  BY DEF TakeDue, Keep, envVars
<1>4. RowsIn(retry) = RowsIn(Pick(retry, due)) \cup RowsIn(Pick(retry, DOMAIN retry \ due))
  BY <1>1, PickSplits
<1>5. Held' = Held
  <2>1. /\ Held = queue \cup RowsIn(retry) \cup RowsIn(hand[t]) \cup Others(t)
        /\ Held' = queue' \cup RowsIn(retry') \cup RowsIn(Pick(retry, due)) \cup Others(t)
    BY <1>1, <1>3, HeldAfter
  <2>2. RowsIn(retry') = RowsIn(Pick(retry, DOMAIN retry \ due)) /\ queue' = queue
    BY <1>3
  <2>3. QED
    BY <1>2, <1>4, <2>1, <2>2
<1>6. QED
  BY <1>3, <1>5, Unseen

(* An insert stores the keys of its batch. *)
LEMMA KeysStored ==
    ASSUME IInv, NEW b \in Batch, db' = Stored(b)
    PROVE  StoredKeys' = StoredKeys \cup Promise!KeysOf(b.rows)
<1>1. db \in [Keys -> Nat] /\ b.rows \subseteq Rows /\ Key \in [Rows -> Keys]
  BY ConstantsAssumption DEF IInv, TypeOK, Batch
<1>2. \A k \in Keys : db'[k] > 0 <=> db[k] > 0 \/ \E r \in b.rows : Key[r] = k
  BY <1>1 DEF Stored
<1>3. \A r \in b.rows : Key[r] \in Keys
  BY <1>1
<1>4. QED
  BY <1>2, <1>3 DEF StoredKeys, Promise!KeysOf

(* A batch that can be inserted is held and belongs to existing devices. *)
LEMMA BatchWritable ==
    ASSUME IInv, NEW t \in Threads, Writing(t), Insertable(Head(hand[t]))
    PROVE  Head(hand[t]).rows \subseteq Promise!Writable
<1>1. hand[t] \in Seq(Batch) /\ hand[t] # <<>>
  BY DEF IInv, TypeOK, Writing
<1>2. RowsIn(hand[t]) = Head(hand[t]).rows \cup RowsIn(Tail(hand[t]))
  BY <1>1, TailSplits
<1>3. RowsIn(hand[t]) \subseteq Held
  BY DEF Held
<1>4. \A r \in Head(hand[t]).rows : Owner[r] \in registered
  BY DEF Insertable
<1>5. QED
  BY <1>2, <1>3, <1>4 DEF Promise!Writable

(* An insert that succeeds is Store. *)
LEMMA InsertOkAbstract ==
    ASSUME IInv, NEW t \in Threads, InsertOk(t)
    PROVE  Abstract
<1>1. PICK b, L : b = Head(hand[t]) /\ L = Tail(hand[t])
  OBVIOUS
<1>2. /\ Writing(t) /\ Release(t) /\ Insertable(b) /\ db' = Stored(b)
      /\ UNCHANGED <<queue, retry, dropped, registered, accepted, lost>>
  BY <1>1 DEF InsertOk, bufVars, envVars
<1>3. /\ b \in Batch /\ hand' = [hand EXCEPT ![t] = L]
      /\ RowsIn(hand[t]) = b.rows \cup RowsIn(L)
      /\ b.rows \cap RowsIn(L) = {}
  BY <1>1, <1>2, ReleaseFacts
<1>4. /\ Held = queue \cup RowsIn(retry) \cup RowsIn(hand[t]) \cup Others(t)
      /\ Held' = queue' \cup RowsIn(retry') \cup RowsIn(L) \cup Others(t)
  BY <1>3, HeldAfter
<1>5. RowsIn(hand[t]) \cap (queue \cup RowsIn(retry) \cup Others(t)) = {}
  <2>1. RowsIn(hand[t]) \cap (queue \cup RowsIn(retry)) = {}
        /\ \A u \in Threads \ {t} : RowsIn(hand[t]) \cap RowsIn(hand[u]) = {}
    BY DEF IInv, Ownership
  <2>2. QED
    BY <2>1 DEF Others
<1>6. Held' = Held \ b.rows
  <2>1. queue' = queue /\ RowsIn(retry') = RowsIn(retry)
    BY <1>2
  <2>2. QED
    BY <1>3, <1>4, <1>5, <2>1
<1>7. StoredKeys' = StoredKeys \cup Promise!KeysOf(b.rows)
  BY <1>2, <1>3, KeysStored
<1>8. b.rows \subseteq Promise!Writable
  BY <1>1, <1>2, BatchWritable
<1>9. Promise!Store(b.rows)
  BY <1>2, <1>6, <1>7, <1>8 DEF Promise!Store
<1>10. b.rows \in SUBSET Rows
  BY <1>3 DEF Batch
<1>11. QED
  BY <1>9, <1>10 DEF Abstract, Promise!Next

(* An insert that fails, or whose answer does, is Fail: out are the rows   *)
(* of the batches that _requeue drops.                                     *)
LEMMA InsertFailAbstract ==
    ASSUME IInv, NEW t \in Threads, InsertFail(t) \/ InsertUnsure(t)
    PROVE  Abstract
<1>1. PICK b, L : b = Head(hand[t]) /\ L = Tail(hand[t])
  OBVIOUS
<1>2. /\ Writing(t) /\ Release(t) /\ Requeue(b)
      /\ db' = db \/ (db' = Stored(b) /\ Insertable(b))
      /\ UNCHANGED <<queue, registered, accepted>>
  BY <1>1 DEF InsertFail, InsertUnsure, envVars
<1>3. /\ b \in Batch /\ hand' = [hand EXCEPT ![t] = L]
      /\ RowsIn(hand[t]) = b.rows \cup RowsIn(L)
      /\ b.rows \cap RowsIn(L) = {}
  BY <1>1, <1>2, ReleaseFacts
<1>4. /\ Held = queue \cup RowsIn(retry) \cup RowsIn(hand[t]) \cup Others(t)
      /\ Held' = queue' \cup RowsIn(retry') \cup RowsIn(L) \cup Others(t)
  BY <1>3, HeldAfter
<1>5. /\ queue \cap RowsIn(retry) = {} /\ DisjointBatches(retry)
      /\ RowsIn(hand[t]) \cap (queue \cup RowsIn(retry)) = {}
      /\ lost \cap Held = {}
      /\ \A u \in Threads \ {t} : /\ RowsIn(hand[t]) \cap RowsIn(hand[u]) = {}
                                   /\ RowsIn(hand[u]) \cap (queue \cup RowsIn(retry)) = {}
  BY DEF IInv, Ownership
<1>6. Others(t) \cap (queue \cup RowsIn(retry) \cup RowsIn(hand[t])) = {}
  BY <1>5 DEF Others
<1>7. /\ RowsIn(retry) \cap b.rows = {}
      /\ lost \cap (RowsIn(retry) \cup b.rows) = {}
  BY <1>3, <1>4, <1>5
<1>8. /\ dropped' = Cardinality(lost')
      /\ RowsIn(retry') \cup lost' = RowsIn(retry) \cup b.rows \cup lost
      /\ RowsIn(retry') \cap lost' = {}
      /\ lost \subseteq lost' /\ lost' \subseteq Rows
  BY <1>2, <1>3, <1>5, <1>7, RequeueRows DEF IInv
<1>9. PICK out : out = lost' \ lost
  OBVIOUS
<1>10. out \subseteq RowsIn(retry) \cup b.rows /\ lost' = lost \cup out
  BY <1>8, <1>9
<1>11. out \subseteq Held
  BY <1>3, <1>4, <1>10
<1>12. Held' = Held \ out
  <2>1. RowsIn(retry') = (RowsIn(retry) \cup b.rows) \ out
    BY <1>7, <1>8, <1>9
  <2>2. out \cap (queue \cup RowsIn(L) \cup Others(t)) = {}
    BY <1>3, <1>5, <1>6, <1>10
  <2>3. queue' = queue
    BY <1>2
  <2>4. QED
    BY <1>3, <1>4, <2>1, <2>2, <2>3
<1>13. dropped' = dropped + Cardinality(out)
  <2>1. lost \in SUBSET Rows /\ out \in SUBSET Rows /\ lost \cap out = {}
    BY <1>8, <1>9 DEF IInv, TypeOK
  <2>2. Cardinality(lost \cup out) = Cardinality(lost) + Cardinality(out)
    BY <2>1, CountDisjoint
  <2>3. QED
    BY <1>8, <1>10, <2>2 DEF IInv, Accounting
<1>14. \E unsure \in SUBSET Rows :
          /\ unsure \subseteq Promise!Writable
          /\ StoredKeys' = StoredKeys \cup Promise!KeysOf(unsure)
  <2>1. CASE db' = db
    <3>1. StoredKeys' = StoredKeys \cup Promise!KeysOf({})
      BY <2>1 DEF StoredKeys, Promise!KeysOf
    <3>2. QED
      BY <3>1
  <2>2. CASE db' = Stored(b) /\ Insertable(b)
    <3>1. StoredKeys' = StoredKeys \cup Promise!KeysOf(b.rows)
      BY <1>3, <2>2, KeysStored
    <3>2. b.rows \subseteq Promise!Writable
      BY <1>1, <1>2, <2>2, BatchWritable
    <3>3. b.rows \in SUBSET Rows
      BY <1>3 DEF Batch
    <3>4. QED
      BY <3>1, <3>2, <3>3
  <2>3. QED
    BY <1>2, <2>1, <2>2
<1>15. PICK unsure \in SUBSET Rows : /\ unsure \subseteq Promise!Writable
                                     /\ StoredKeys' = StoredKeys \cup Promise!KeysOf(unsure)
  BY <1>14
<1>16. Promise!Fail(unsure, out)
  <2>1. UNCHANGED <<registered, accepted>>
    BY <1>2
  <2>2. lost' = lost \cup out
    BY <1>10
  <2>3. Promise!Cardinality(out) = Cardinality(out)
    BY DEF Promise!Cardinality, Cardinality
  <2>4. QED
    BY <1>11, <1>12, <1>13, <1>15, <2>1, <2>2, <2>3 DEF Promise!Fail
<1>17. out \in SUBSET Rows
  BY <1>8, <1>9
<1>18. QED
  BY <1>16, <1>17 DEF Abstract, Promise!Next

(* Deleting a device is Remove. *)
LEMMA DeleteDeviceAbstract ==
    ASSUME IInv, NEW d \in Devices, DeleteDevice(d)
    PROVE  Abstract
<1>1. /\ d \in registered /\ registered' = registered \ {d}
      /\ UNCHANGED <<queue, retry, dropped, hand, accepted, lost>>
  BY DEF DeleteDevice, bufVars
<1>2. Held' = Held
  BY <1>1 DEF Held
<1>3. StoredKeys' = StoredKeys \ Promise!KeysOf({r \in Rows : Owner[r] = d})
  <2>1. db \in [Keys -> Nat]
    BY DEF IInv, TypeOK
  <2>2. \A k \in Keys : db'[k] > 0 <=>
            db[k] > 0 /\ ~ \E r \in Rows : Key[r] = k /\ Owner[r] = d
    BY <2>1 DEF DeleteDevice
  <2>3. QED
    BY <2>2 DEF StoredKeys, Promise!KeysOf
<1>4. Promise!Remove(d)
  BY <1>1, <1>2, <1>3 DEF Promise!Remove
<1>5. QED
  BY <1>4 DEF Abstract, Promise!Next

(* Every step is a step of Delivery or invisible. *)
LEMMA AbstractStep == IInv /\ [Next]_vars => [Promise!Next]_(Promise!vars)
<1> SUFFICES ASSUME IInv, [Next]_vars PROVE Abstract
  BY DEF Abstract
<1>1. CASE Next
  <2>1. CASE \E t \in Requests : \E d \in Devices : \E rows \in SUBSET Rows :
                Admit(t, d, rows)
    BY <2>1, AdmitAbstract
  <2>2. CASE \E t \in Requests : Add(t)
    BY <2>2, AddAbstract
  <2>3. CASE \E t \in {Flusher, Stopper} : \E due \in SUBSET DOMAIN retry :
                TakeDue(t, due)
    BY <2>3, TakeDueAbstract
  <2>4. CASE \E t \in {Flusher, Stopper} : TakeQueue(t)
    BY <2>4, TakeQueueAbstract
  <2>5. CASE \E t \in Threads : Insert(t)
    BY <2>5, InsertOkAbstract, InsertFailAbstract DEF Insert
  <2>6. CASE LoopTop \/ StopBegin \/ Join \/ Report \/ DbDown \/ DbRestored
    BY <2>6, QuietAbstract
  <2>7. CASE \E d \in Devices : DeleteDevice(d)
    BY <2>7, DeleteDeviceAbstract
  <2>8. QED
    BY <1>1, <2>1, <2>2, <2>3, <2>4, <2>5, <2>6, <2>7 DEF Next
<1>2. CASE UNCHANGED vars
  <2>1. UNCHANGED <<queue, retry, hand, db, registered, accepted, lost, dropped>>
    BY <1>2 DEF vars
  <2>2. Held' = Held
    BY <2>1 DEF Held
  <2>3. QED
    BY <2>1, <2>2, Unseen
<1>3. QED
  BY <1>1, <1>2

(* The write buffer implements Delivery, for any number of rows, request   *)
(* threads and devices and any limits.                                     *)
THEOREM Refinement == Spec => Delivers
BY AbstractInit, AbstractStep, Invariance, PTL DEF Spec, Delivers, Promise!Spec
=============================================================================
