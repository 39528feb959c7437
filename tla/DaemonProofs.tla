---------------------------- MODULE DaemonProofs ----------------------------
(* Theorems about the log path of the daemon, for every number of lines    *)
(* and every limit: about Daemon, and about LogParser in the second part.  *)
EXTENDS Daemon, LogParser, NatLemmas, FiniteSetTheorems, SequenceTheorems, TLAPS

-----------------------------------------------------------------------------
(* The inductive invariant *)

Lost == UNION {gone[why] : why \in Reasons}

(* What a restart does not take away: with the WAS, in the buffer, lost    *)
(* for a reason, or taken from the buffer and in the sender's hands.       *)
Kept == received \cup Range(buffer) \cup Lost
            \cup (IF pc \in {"startup", "resend"} THEN Range(batch) ELSE {})

(* The entries among the first n lines of a file. *)
First(lines, n) == {lines[i] : i \in 1..n} \ Noise

(* The tailer, or a saved state, is about the file that is there. *)
Current(f, i) == present[f] /\ i = inode[f]

ReadKept ==
    pc # "off" => \A f \in Logs : Current(f, ino[f]) =>
        pos[f] <= Len(file[f]) /\ First(file[f], pos[f]) \subseteq Kept

PendingKept ==
    pc # "off" => \A f \in Logs : Current(f, ino[f]) /\ pending[f] # None =>
        pending[f] <= Len(file[f]) /\ First(file[f], pending[f]) \subseteq Kept \cup Range(batch)

SavedKept ==
    \A f \in Logs : Current(f, saved[f].inode) =>
        saved[f].pos <= Len(file[f]) /\ First(file[f], saved[f].pos) \subseteq Kept

(* Inodes are given in order, and a file that is gone has no lines. *)
Numbered ==
    \A f \in Logs : /\ ino[f] <= inode[f] /\ saved[f].inode <= inode[f]
                    /\ ~ present[f] => file[f] = <<>>

(* The batch exists while it is sent; what is acknowledged is received. *)
Acked ==
    /\ ~ Sending => batch = <<>>
    /\ Sending => sent <= Len(batch) /\ {batch[i] : i \in 1..sent} \subseteq received

(* A pending position is about the file that is there when the log is      *)
(* polled again: none is left over, or the file is always the same.        *)
NoStale ==
    IF "rotate" \in Faults
    THEN pc \notin {"off", "send", "commit"} => \A f \in Logs : pending[f] = None
    ELSE \A f \in Logs : /\ present[f]
                         /\ pc # "off" => ino[f] = inode[f]
                         /\ saved[f] = NoState \/ saved[f].inode = inode[f]

(* Every entry is kept or in a file that is there. *)
Found == written \ Noise \subseteq Kept \cup UNION {Range(file[f]) : f \in Logs}

IInv == TypeOK /\ ReadKept /\ PendingKept /\ SavedKept /\ Numbered /\ Acked /\ NoStale /\ Found
-----------------------------------------------------------------------------
(* Sequences and their elements *)

(* The elements of a sequence are of the sequence's set. *)
LEMMA RangeSeq ==
    ASSUME NEW S, NEW s \in Seq(S)
    PROVE  /\ Range(s) = {s[i] : i \in 1..Len(s)}
           /\ Range(s) \subseteq S
           /\ Len(s) \in Nat
BY DEF Range

(* The elements of a concatenation are those of its parts. *)
LEMMA RangeConcat ==
    ASSUME NEW S, NEW s \in Seq(S), NEW t \in Seq(S)
    PROVE  s \o t \in Seq(S) /\ Range(s \o t) = Range(s) \cup Range(t)
<1>1. PICK u : u = s \o t
  OBVIOUS
<1>2. u \in Seq(S) /\ Len(u) = Len(s) + Len(t)
  BY <1>1
<1>3. \A i \in 1..Len(u) : u[i] = IF i <= Len(s) THEN s[i] ELSE t[i - Len(s)]
  BY <1>1
<1>4. Range(u) \subseteq Range(s) \cup Range(t)
  <2>1. ASSUME NEW i \in 1..Len(u) PROVE u[i] \in Range(s) \cup Range(t)
    <3>1. CASE i <= Len(s)
      <4>1. i \in 1..Len(s) /\ u[i] = s[i]
        BY <1>3, <2>1, <3>1
      <4>2. QED
        BY <4>1, RangeSeq
    <3>2. CASE ~ (i <= Len(s))
      <4>1. i - Len(s) \in 1..Len(t) /\ u[i] = t[i - Len(s)]
        BY <1>2, <1>3, <2>1, <3>2
      <4>2. QED
        BY <4>1, RangeSeq
    <3>3. QED
      BY <3>1, <3>2
  <2>2. QED
    BY <1>2, <2>1, RangeSeq
<1>5. ASSUME NEW i \in 1..Len(s) PROVE s[i] \in Range(u)
  <2>1. i \in 1..Len(u) /\ u[i] = s[i]
    BY <1>2, <1>3
  <2>2. QED
    BY <1>2, <2>1, RangeSeq
<1>6. ASSUME NEW i \in 1..Len(t) PROVE t[i] \in Range(u)
  <2>1. PICK n \in Nat : n = Len(s)
    OBVIOUS
  <2>2. PICK j \in Nat : j = n + i
    BY <1>6, <2>1
  <2>3. j \in 1..Len(u) /\ j - n = i /\ ~ (j <= n)
    BY <1>2, <1>6, <2>1, <2>2
  <2>4. u[j] = t[i]
    BY <1>3, <2>1, <2>3
  <2>5. Range(u) = {u[k] : k \in 1..Len(u)}
    BY <1>2, RangeSeq
  <2>6. QED
    BY <2>3, <2>4, <2>5, Zenon
<1>7. Range(s) \subseteq Range(u) /\ Range(t) \subseteq Range(u)
  BY <1>5, <1>6, RangeSeq
<1>8. QED
  BY <1>1, <1>2, <1>4, <1>7

(* The elements of a part of a sequence. *)
LEMMA RangeSub ==
    ASSUME NEW S, NEW s \in Seq(S), NEW a \in Nat \ {0}, NEW b \in 0..Len(s)
    PROVE  /\ SubSeq(s, a, b) \in Seq(S)
           /\ Len(SubSeq(s, a, b)) = IF a <= b THEN b - a + 1 ELSE 0
           /\ Range(SubSeq(s, a, b)) = {s[i] : i \in a..b}
<1> DEFINE p == SubSeq(s, a, b)
           n == IF a <= b THEN b - a + 1 ELSE 0
<1>1. Len(s) \in Nat /\ \A i \in 1..Len(s) : s[i] \in S
  OBVIOUS
<1>2. n \in Nat /\ \A i \in 1..n : a + i - 1 \in 1..Len(s)
  BY <1>1
<1>3. p = [i \in 1..n |-> s[a + i - 1]]
  BY <1>1, <1>2
<1>4. p \in Seq(S) /\ Len(p) = n
  BY <1>1, <1>2, <1>3
<1>5. Range(p) = {p[i] : i \in 1..n}
  BY <1>4, RangeSeq
<1>6. ASSUME NEW j \in 1..n PROVE p[j] \in {s[i] : i \in a..b}
  <2>1. p[j] = s[a + j - 1] /\ a + j - 1 \in a..b
    BY <1>2, <1>3
  <2>2. QED
    BY <2>1
<1>7. ASSUME NEW i \in a..b PROVE s[i] \in Range(p)
  <2>1. i - a + 1 \in 1..n /\ a + (i - a + 1) - 1 = i
    BY <1>1
  <2>2. p[i - a + 1] = s[i]
    BY <1>3, <2>1
  <2>3. QED
    BY <1>5, <2>1, <2>2
<1>8. QED
  BY <1>4, <1>5, <1>6, <1>7

(* What poll() makes of some lines of a file: their entries, in order. *)
LEMMA EntriesRange ==
    ASSUME NEW s \in Seq(Lines), NEW a \in Nat \ {0}, NEW b \in 0..Len(s)
    PROVE  LET e == Pick(s, {i \in a..b : s[i] \notin Noise}) IN
           e \in Seq(Lines) /\ Range(e) = {s[i] : i \in a..b} \ Noise
<1>1. PICK I : I = {i \in a..b : s[i] \notin Noise}
  OBVIOUS
<1>2. I \in SUBSET DOMAIN s
  BY <1>1
<1>3. PICK k \in Nat : k = Cardinality(I)
  BY <1>2, PickBijection
<1>4. PICK g : g = Ascending(I)
  OBVIOUS
<1>5. /\ g \in [1..k -> I]
      /\ \A x \in I : \E i \in 1..k : g[i] = x
  BY <1>2, <1>3, <1>4, PickBijection
<1>6. PICK e : e = Pick(s, I)
  OBVIOUS
<1>7. e = [i \in 1..k |-> s[g[i]]]
  BY <1>3, <1>4, <1>6 DEF Pick
<1>8. \A i \in 1..k : s[g[i]] \in Lines
  BY <1>2, <1>5
<1>9. e \in Seq(Lines) /\ Len(e) = k
  BY <1>7, <1>8
<1>10. Range(e) = {e[i] : i \in 1..k}
  BY <1>9, RangeSeq
<1>11. Range(e) = {s[i] : i \in I}
  <2>1. \A i \in 1..k : g[i] \in I /\ e[i] = s[g[i]]
    BY <1>5, <1>7
  <2>2. \A x \in I : \E i \in 1..k : e[i] = s[x]
    BY <1>5, <2>1
  <2>3. ASSUME NEW x PROVE x \in Range(e) <=> x \in {s[i] : i \in I}
    BY <1>10, <2>1, <2>2
  <2>4. QED
    BY <2>3
<1>12. Range(e) = {s[i] : i \in a..b} \ Noise
  BY <1>1, <1>11
<1>13. QED
  BY <1>1, <1>6, <1>9, <1>12

(* The first n entries, from some number of them on. *)
LEMMA FirstSplits ==
    ASSUME NEW s \in Seq(Lines), NEW n \in 0..Len(s), NEW m \in 0..n
    PROVE  First(s, n) = First(s, m) \cup ({s[i] : i \in (m + 1)..n} \ Noise)
<1>1. 1..n = (1..m) \cup ((m + 1)..n)
  OBVIOUS
<1>2. QED
  BY <1>1 DEF First

(* The first n lines of a file stay when a line is added to it. *)
LEMMA FirstAppend ==
    ASSUME NEW s \in Seq(Lines), NEW n \in 0..Len(s), NEW l \in Lines
    PROVE  First(Append(s, l), n) = First(s, n)
<1>1. \A i \in 1..n : Append(s, l)[i] = s[i]
  OBVIOUS
<1>2. QED
  BY <1>1 DEF First
-----------------------------------------------------------------------------
(* What the parts of the actions do *)

(* Lose adds lines to what is lost. *)
LEMMA LoseFacts ==
    ASSUME gone \in [Reasons -> SUBSET Lines], NEW why \in Reasons,
           NEW lines \in SUBSET Lines, Lose(why, lines)
    PROVE  gone' \in [Reasons -> SUBSET Lines] /\ Lost' = Lost \cup lines
<1>1. gone' \in [Reasons -> SUBSET Lines]
  BY DEF Lose
<1>2. \A w \in Reasons : gone'[w] = IF w = why THEN gone[w] \cup lines ELSE gone[w]
  BY DEF Lose
<1>3. Lost' \subseteq Lost \cup lines
  BY <1>2 DEF Lost
<1>4. Lost \subseteq Lost' /\ lines \subseteq Lost'
  BY <1>2 DEF Lost
<1>5. QED
  BY <1>1, <1>3, <1>4

(* DiskBuffer.write keeps every entry or counts it as dropped. *)
LEMMA BufferWriteFacts ==
    ASSUME TypeOK, NEW entries \in Seq(Lines), BufferWrite(entries)
    PROVE  /\ buffer' \in Seq(Lines) /\ gone' \in [Reasons -> SUBSET Lines]
           /\ Range(buffer) \cup Range(entries) \cup Lost \subseteq Range(buffer') \cup Lost'
<1>1. PICK c : c = buffer \o entries
  OBVIOUS
<1>2. c \in Seq(Lines) /\ Range(c) = Range(buffer) \cup Range(entries)
  BY <1>1, RangeConcat DEF TypeOK
<1>3. PICK n : n = Len(c)
  OBVIOUS
<1>4. PICK k : k = IF n > BufMax THEN n - BufMax ELSE 0
  OBVIOUS
<1>5. n \in Nat /\ k \in 0..n
  BY <1>2, <1>3, <1>4, ConstantsAssumption
<1>6. buffer' = SubSeq(c, k + 1, n) /\ Lose("cap", Range(SubSeq(c, 1, k)))
  BY <1>1, <1>3, <1>4 DEF BufferWrite
<1>7. buffer' \in Seq(Lines) /\ Range(buffer') = {c[i] : i \in (k + 1)..n}
  <2>1. k + 1 \in Nat \ {0} /\ n \in 0..Len(c)
    BY <1>3, <1>5
  <2>2. /\ SubSeq(c, k + 1, n) \in Seq(Lines)
        /\ Range(SubSeq(c, k + 1, n)) = {c[i] : i \in (k + 1)..n}
    BY <1>2, <2>1, RangeSub
  <2>3. QED
    BY <1>6, <2>2
<1>8. Range(SubSeq(c, 1, k)) = {c[i] : i \in 1..k}
  BY <1>2, <1>3, <1>5, RangeSub
<1>9. \A i \in 1..n : c[i] \in Lines
  BY <1>2, <1>3
<1>10. {c[i] : i \in 1..k} \in SUBSET Lines
  BY <1>5, <1>9
<1>11. gone \in [Reasons -> SUBSET Lines] /\ "cap" \in Reasons
  BY DEF TypeOK, Reasons
<1>12. gone' \in [Reasons -> SUBSET Lines] /\ Lost' = Lost \cup {c[i] : i \in 1..k}
  BY <1>6, <1>8, <1>10, <1>11, LoseFacts
<1>13. Range(c) = {c[i] : i \in 1..n}
  BY <1>2, <1>3, RangeSeq
<1>14. Range(c) \subseteq {c[i] : i \in (k + 1)..n} \cup {c[i] : i \in 1..k}
  BY <1>5, <1>13
<1>15. QED
  BY <1>2, <1>7, <1>12, <1>14

(* poll() of one log: where it reads from and to, and what it finds. *)
LEMMA PollFacts ==
    ASSUME TypeOK, NEW f \in Logs
    PROVE  /\ From(f) \in Nat
           /\ Reads(f) => To(f) \in (From(f) + 1)..Len(file[f])
           /\ Polled(f) \in Seq(Lines)
           /\ Range(Polled(f)) = IF Reads(f) THEN {file[f][i] : i \in (From(f) + 1)..To(f)} \ Noise
                                ELSE {}
<1>1. PICK s : s = file[f]
  OBVIOUS
<1>2. s \in Seq(Lines) /\ Len(s) \in Nat
  BY <1>1 DEF TypeOK
<1>3. From(f) \in Nat
  BY DEF From, TypeOK
<1>4. PICK a \in Nat : a = From(f)
  BY <1>3
<1>5. CASE Reads(f)
  <2>1. Len(s) > a
    BY <1>1, <1>4, <1>5 DEF Reads
  <2>2. PICK b : b = To(f)
    OBVIOUS
  <2>3. b \in (a + 1)..Len(s)
    BY <1>1, <1>2, <1>4, <2>1, <2>2, ConstantsAssumption DEF To
  <2>4. Polled(f) = Pick(s, {i \in (a + 1)..b : s[i] \notin Noise})
    BY <1>1, <1>4, <1>5, <2>2 DEF Polled, Entries
  <2>5. Polled(f) \in Seq(Lines) /\ Range(Polled(f)) = {s[i] : i \in (a + 1)..b} \ Noise
    <3>1. a + 1 \in Nat \ {0} /\ b \in 0..Len(s)
      BY <1>2, <2>3
    <3>2. QED
      BY <1>2, <2>4, <3>1, EntriesRange
  <2>6. QED
    BY <1>1, <1>3, <1>4, <1>5, <2>2, <2>3, <2>5
<1>6. CASE ~ Reads(f)
  <2>1. Polled(f) = <<>>
    BY <1>6 DEF Polled
  <2>2. QED
    BY <1>3, <1>6, <2>1 DEF Range
<1>7. QED
  BY <1>5, <1>6

(* The batch a poll makes of the two logs. *)
LEMMA PollBatch ==
    ASSUME TypeOK
    PROVE  LET b == Polled("transfer") \o Polled("extended") IN
           b \in Seq(Lines) /\ Range(b) = UNION {Range(Polled(f)) : f \in Logs}
<1>1. Polled("transfer") \in Seq(Lines) /\ Polled("extended") \in Seq(Lines)
  BY PollFacts DEF Logs
<1>2. Range(Polled("transfer") \o Polled("extended"))
         = Range(Polled("transfer")) \cup Range(Polled("extended"))
  BY <1>1, RangeConcat
<1>3. UNION {Range(Polled(f)) : f \in Logs} = Range(Polled("transfer")) \cup Range(Polled("extended"))
  BY DEF Logs
<1>4. QED
  BY <1>1, <1>2, <1>3, RangeConcat

(* The chunk a POST carries. *)
LEMMA ChunkFacts ==
    ASSUME TypeOK, sent <= Len(batch)
    PROVE  /\ Len(NextChunk) \in 0..(Len(batch) - sent)
           /\ Range(NextChunk) = {batch[i] : i \in (sent + 1)..(sent + Len(NextChunk))}
           /\ Range(NextChunk) \subseteq Lines
<1>1. PICK n : n = Len(batch)
  OBVIOUS
<1>2. n \in Nat /\ sent \in 0..n
  BY <1>1 DEF TypeOK
<1>3. PICK b : b = IF sent + Chunk < n THEN sent + Chunk ELSE n
  OBVIOUS
<1>4. b \in sent..n
  BY <1>2, <1>3, ConstantsAssumption
<1>5. NextChunk = SubSeq(batch, sent + 1, b)
  BY <1>1, <1>3 DEF NextChunk
<1>6. /\ NextChunk \in Seq(Lines)
      /\ Len(NextChunk) = b - sent
      /\ Range(NextChunk) = {batch[i] : i \in (sent + 1)..b}
  <2>1. sent + 1 \in Nat \ {0} /\ b \in 0..Len(batch)
    BY <1>1, <1>2, <1>4
  <2>2. batch \in Seq(Lines)
    BY DEF TypeOK
  <2>3. QED
    BY <1>2, <1>4, <1>5, <2>1, <2>2, RangeSub
<1>7. Len(NextChunk) \in 0..(n - sent) /\ sent + Len(NextChunk) = b
  BY <1>2, <1>4, <1>6
<1>8. QED
  BY <1>1, <1>6, <1>7, RangeSeq
-----------------------------------------------------------------------------
(* Type correctness *)

TailType ==
    /\ saved \in [Logs -> [pos : Nat, inode : Nat \cup {None}] \cup {NoState}]
    /\ pos \in [Logs -> Nat]
    /\ ino \in [Logs -> Nat \cup {None}]
    /\ pending \in [Logs -> Nat \cup {None}]

(* commit() and advance() leave the tailers well typed. *)
LEMMA AdvanceType ==
    ASSUME TypeOK, NEW F \in SUBSET Logs, Advance(F)
    PROVE  TailType'
<1> DEFINE moved == {f \in F : pending[f] # None}
<1>1. \A f \in moved : pending[f] \in Nat
  BY DEF TypeOK
<1>2. pos' = [f \in Logs |-> IF f \in moved THEN pending[f] ELSE pos[f]]
  BY DEF Advance
<1>3. saved' = [f \in Logs |-> IF f \in moved THEN [pos |-> pending[f], inode |-> ino[f]]
                                ELSE saved[f]]
  BY DEF Advance
<1>4. pending' = [f \in Logs |-> IF f \in moved THEN None ELSE pending[f]] /\ ino' = ino
  BY DEF Advance
<1> HIDE DEF moved
<1>5. pos' \in [Logs -> Nat]
  BY <1>1, <1>2 DEF TypeOK
<1>6. \A f \in moved : [pos |-> pending[f], inode |-> ino[f]] \in [pos : Nat, inode : Nat \cup {None}]
  BY <1>1 DEF TypeOK, moved
<1>7. saved' \in [Logs -> [pos : Nat, inode : Nat \cup {None}] \cup {NoState}]
  BY <1>3, <1>6 DEF TypeOK
<1>8. pending' \in [Logs -> Nat \cup {None}] /\ ino' \in [Logs -> Nat \cup {None}]
  BY <1>4 DEF TypeOK
<1>9. QED
  BY <1>5, <1>7, <1>8 DEF TailType

(* So does poll(). *)
LEMMA PollType ==
    ASSUME TypeOK, PollTailers
    PROVE  TailType'
<1>1. \A f \in Logs : From(f) \in Nat /\ (Reads(f) => To(f) \in Nat)
  BY PollFacts DEF TypeOK
<1>2. pos' \in [Logs -> Nat]
  BY <1>1 DEF PollTailers
<1>3. ino' \in [Logs -> Nat \cup {None}]
  BY DEF PollTailers, TypeOK
<1>4. \A f \in Logs : [pos |-> 0, inode |-> inode[f]] \in [pos : Nat, inode : Nat \cup {None}]
  BY DEF TypeOK
<1>5. saved' \in [Logs -> [pos : Nat, inode : Nat \cup {None}] \cup {NoState}]
  BY <1>4 DEF PollTailers, TypeOK
<1>6. pending' \in [Logs -> Nat \cup {None}]
  BY <1>1 DEF PollTailers, TypeOK
<1>7. QED
  BY <1>2, <1>3, <1>5, <1>6 DEF TailType

(* So does a start. *)
LEMMA LoadType ==
    ASSUME TypeOK, LoadState
    PROVE  TailType'
<1>1. \A f \in Logs : saved[f] # NoState => saved[f].pos \in Nat /\ saved[f].inode \in Nat \cup {None}
  BY DEF TypeOK
<1>2. \A f \in Logs : Len(file[f]) \in Nat
  BY DEF TypeOK
<1>3. pos' \in [Logs -> Nat]
  BY <1>1, <1>2 DEF LoadState
<1>4. ino' \in [Logs -> Nat \cup {None}]
  BY <1>1 DEF LoadState, TypeOK
<1>5. QED
  BY <1>3, <1>4 DEF LoadState, TypeOK, TailType

(* Types, for a send in any of its outcomes. *)
LEMMA SendType ==
    ASSUME TypeOK, Acked, Send
    PROVE  TypeOK'
<1>1. batch \in Seq(Lines) /\ <<>> \in Seq(Lines)
  BY DEF TypeOK
<1>2. Range(batch) \in SUBSET Lines
  BY <1>1, RangeSeq
<1>3. CASE ChunkOk
  <2>1. Len(NextChunk) \in Nat /\ Range(NextChunk) \subseteq Lines
    BY <1>3, ChunkFacts DEF ChunkOk, Acked, TypeOK
  <2>2. pc' \in {"off", "startup", "register", "loop", "resend", "poll", "send", "commit", "ended"}
    BY <1>3 DEF ChunkOk, AfterSend, Sending, TypeOK
  <2>3. sent' \in Nat /\ received' \subseteq Lines /\ batch' \in Seq(Lines)
    BY <1>1, <1>3, <2>1 DEF ChunkOk, TypeOK
  <2>4. QED
    BY <1>3, <2>2, <2>3 DEF ChunkOk, TypeOK, fileVars, tailVars, wasVars
<1>4. CASE SendFails
  <2>1. buffer' \in Seq(Lines) /\ gone' \in [Reasons -> SUBSET Lines]
    BY <1>1, <1>4, BufferWriteFacts DEF SendFails
  <2>2. QED
    BY <1>1, <1>4, <2>1 DEF SendFails, TypeOK, Sending, fileVars, tailVars, wasVars
<1>5. CASE SendDisabled
  <2>1. buffer' \in Seq(Lines) /\ gone' \in [Reasons -> SUBSET Lines]
    BY <1>1, <1>5, BufferWriteFacts DEF SendDisabled, TypeOK
  <2>2. TailType'
    BY <1>5 DEF SendDisabled, Rollback, TailType, TypeOK, tailVars
  <2>3. QED
    BY <1>1, <1>5, <2>1, <2>2 DEF SendDisabled, TypeOK, TailType, fileVars, wasVars
<1>6. CASE SendRemoved
  <2>1. gone' \in [Reasons -> SUBSET Lines]
    BY <1>2, <1>6, LoseFacts DEF SendRemoved, TypeOK, Reasons
  <2>2. TailType'
    BY <1>6, AdvanceType DEF SendRemoved, TailType, TypeOK, tailVars
  <2>3. QED
    BY <1>1, <1>6, <2>1, <2>2 DEF SendRemoved, TypeOK, TailType, fileVars, wasVars
<1>7. QED
  BY <1>3, <1>4, <1>5, <1>6 DEF Send

(* The first state is well typed. *)
LEMMA InitType == Init => TypeOK
BY DEF Init, TypeOK, NoState, None

(* What is still to be read of a file. *)
LEMMA UnreadLines ==
    ASSUME TypeOK, NEW f \in Logs
    PROVE  /\ Done(f) \in 0..Len(file[f])
           /\ Unread(f) = {file[f][i] : i \in (Done(f) + 1)..Len(file[f])} \ Noise
           /\ Unread(f) \subseteq Lines
<1>1. file[f] \in Seq(Lines) /\ Len(file[f]) \in Nat /\ inode[f] \in Nat
  BY DEF TypeOK
<1>2. Done(f) \in 0..Len(file[f])
  <2> DEFINE at == IF pc # "off" THEN [pos |-> pos[f], inode |-> ino[f]] ELSE saved[f]
  <2>1. at \in [pos : Nat, inode : Nat \cup {None}] \cup {NoState}
    BY DEF TypeOK
  <2>2. Done(f) = IF at.inode = inode[f] /\ at.pos <= Len(file[f]) THEN at.pos ELSE 0
    BY DEF Done
  <2> HIDE DEF at
  <2>3. at.inode = inode[f] => at.pos \in Nat
    BY <1>1, <2>1 DEF NoState, None
  <2>4. QED
    BY <1>1, <2>2, <2>3
<1>3. PICK d \in 0..Len(file[f]) : d = Done(f)
  BY <1>2
<1>4. d + 1 \in Nat \ {0} /\ Len(file[f]) \in 0..Len(file[f])
  BY <1>1, <1>3
<1>5. Range(SubSeq(file[f], d + 1, Len(file[f]))) = {file[f][i] : i \in (d + 1)..Len(file[f])}
  <2>1. PICK s, a, b : s = file[f] /\ a = d + 1 /\ b = Len(s)
    OBVIOUS
  <2>2. s \in Seq(Lines) /\ a \in Nat \ {0} /\ b \in 0..Len(s)
    BY <1>1, <1>4, <2>1
  <2>3. Range(SubSeq(s, a, b)) = {s[i] : i \in a..b}
    BY <2>2, RangeSub
  <2>4. QED
    BY <2>1, <2>3
<1>6. ASSUME NEW i \in (d + 1)..Len(file[f]) PROVE file[f][i] \in Lines
  <2>1. i \in 1..Len(file[f])
    BY <1>1, <1>3, <1>6
  <2>2. QED
    BY <1>1, <2>1
<1>7. QED
  BY <1>3, <1>5, <1>6 DEF Unread

(* Types, for every step. *)
LEMMA StepType ==
    ASSUME TypeOK, Acked, [Next]_vars
    PROVE  TypeOK'
<1>1. batch \in Seq(Lines) /\ buffer \in Seq(Lines) /\ <<>> \in Seq(Lines)
  BY DEF TypeOK
<1>2. Range(batch) \in SUBSET Lines
  BY <1>1, RangeSeq
<1>3. CASE Start
  <2>1. \A f \in Logs : Range(file[f]) \subseteq Lines
    BY RangeSeq DEF TypeOK
  <2>2. UNION {Range(file[f]) \ Noise : f \in {g \in Logs : saved[g] = NoState}} \in SUBSET Lines
    BY <2>1
  <2>3. gone' \in [Reasons -> SUBSET Lines]
    BY <1>3, <2>2, LoseFacts DEF Start, TypeOK, Reasons
  <2>4. TailType'
    BY <1>3, LoadType DEF Start
  <2>5. QED
    BY <1>1, <1>3, <2>3, <2>4 DEF Start, TypeOK, TailType, fileVars, wasVars
<1>4. CASE Poll
  <2>1. TailType'
    BY <1>4, PollType DEF Poll
  <2>2. batch' \in Seq(Lines)
    BY <1>4, PollBatch DEF Poll
  <2>3. QED
    BY <1>4, <2>1, <2>2 DEF Poll, TypeOK, TailType, fileVars, wasVars
<1>5. CASE AnswerLost
  <2>1. Range(NextChunk) \subseteq Lines
    BY <1>5, ChunkFacts DEF AnswerLost, Acked
  <2>2. QED
    BY <1>5, <2>1 DEF AnswerLost, TypeOK, fileVars, wasVars, tailVars
<1>6. ASSUME NEW f \in Logs, Commit(f) PROVE TypeOK'
  <2>1. TailType'
    BY <1>6, AdvanceType DEF Commit
  <2>2. QED
    BY <1>6, <2>1 DEF Commit, TypeOK, TailType, fileVars, wasVars
<1>7. CASE HeartbeatRemoved
  <2>1. TailType'
    BY <1>7, AdvanceType DEF HeartbeatRemoved
  <2>2. gone' \in [Reasons -> SUBSET Lines]
    BY <1>2, <1>7, LoseFacts DEF HeartbeatRemoved, TypeOK, Reasons
  <2>3. QED
    BY <1>7, <2>1, <2>2 DEF HeartbeatRemoved, TypeOK, TailType, fileVars, wasVars
<1>8. CASE ProcessEnds
  <2>1. gone' \in [Reasons -> SUBSET Lines]
    <3>1. (IF pc \in {"startup", "resend"} THEN Range(batch) ELSE {}) \in SUBSET Lines
      BY <1>2
    <3>2. QED
      BY <1>8, <3>1, LoseFacts DEF ProcessEnds, TypeOK, Reasons
  <2>2. QED
    BY <1>1, <1>8, <2>1 DEF ProcessEnds, TypeOK, fileVars, tailVars, wasVars
<1>9. ASSUME NEW l \in Lines, WriteLine(l) PROVE TypeOK'
  <2>1. file' \in [Logs -> Seq(Lines)] /\ written' \subseteq Lines
    BY <1>9, ConstantsAssumption DEF WriteLine, TypeOK
  <2>2. QED
    BY <1>9, <2>1 DEF WriteLine, TypeOK, tailVars, wasVars
<1>10. ASSUME NEW f \in Logs, Rotate(f) PROVE TypeOK'
  <2>1. gone' \in [Reasons -> SUBSET Lines]
    <3>1. Unread(f) \in SUBSET Lines
      BY UnreadLines
    <3>2. QED
      BY <1>10, <3>1, LoseFacts DEF Rotate, TypeOK, Reasons
  <2>2. QED
    BY <1>1, <1>10, <2>1 DEF Rotate, TypeOK, tailVars, wasVars
<1>11. ASSUME NEW f \in Logs, Create(f) PROVE TypeOK'
  BY <1>11 DEF Create, TypeOK, tailVars, wasVars
<1>12. CASE Register \/ LoopEnds \/ Committed \/ Signal
  BY <1>12 DEF Register, LoopEnds, Committed, Signal, TypeOK, fileVars, tailVars, wasVars
<1>13. CASE TakeBuffer
  BY <1>1, <1>13 DEF TakeBuffer, TypeOK, fileVars, tailVars, wasVars
<1>14. ASSUME NEW to \in {"active", "disabled", "removed"}, WasDown \/ WasRestored \/ Administer(to)
       PROVE  TypeOK'
  BY <1>14 DEF WasDown, WasRestored, Administer, TypeOK, fileVars, tailVars
<1>15. CASE UNCHANGED vars
  BY <1>15 DEF vars, TypeOK
<1>16. QED
  BY <1>3, <1>4, <1>5, <1>6, <1>7, <1>8, <1>9, <1>10, <1>11, <1>12, <1>13, <1>14, <1>15, SendType
     DEF Next, Exit, Crash
-----------------------------------------------------------------------------
(* The batch and what is kept *)

(* An acknowledged chunk is received; the batch ends with the send. *)
LEMMA AckedStep ==
    ASSUME TypeOK, Acked, [Next]_vars
    PROVE  Acked'
<1>1. CASE ChunkOk
  <2>1. PICK n \in 0..(Len(batch) - sent) : n = Len(NextChunk)
    BY <1>1, ChunkFacts DEF ChunkOk, Acked
  <2>2. sent' = sent + n /\ received' = received \cup {batch[i] : i \in (sent + 1)..(sent + n)}
    BY <1>1, <2>1, ChunkFacts DEF ChunkOk, Acked
  <2>3. {batch[i] : i \in 1..sent} \subseteq received /\ sent \in Nat
    BY <1>1 DEF ChunkOk, Acked, TypeOK
  <2>4. {batch[i] : i \in 1..(sent + n)} \subseteq received'
    BY <2>1, <2>2, <2>3
  <2>5. CASE sent' = Len(batch)
    BY <1>1, <2>5 DEF ChunkOk, AfterSend, Sending, Acked
  <2>6. CASE sent' # Len(batch)
    BY <1>1, <2>1, <2>2, <2>4, <2>6 DEF ChunkOk, Sending, Acked, TypeOK
  <2>7. QED
    BY <2>5, <2>6
<1>2. CASE AnswerLost
  BY <1>2 DEF AnswerLost, Acked, Sending
<1>3. CASE Start
  <2>1. pc' = "startup" \/ (pc' = "register" /\ batch' = <<>>)
    BY <1>3 DEF Start
  <2>2. sent' = 0 /\ batch' \in Seq(Lines)
    BY <1>3 DEF Start, TypeOK
  <2>3. QED
    BY <2>1, <2>2 DEF Acked, Sending
<1>4. CASE Poll
  <2>1. pc' = "send" \/ (pc' = "loop" /\ batch' = <<>>)
    BY <1>4 DEF Poll
  <2>2. sent' = 0 /\ batch' \in Seq(Lines)
    BY <1>4, PollBatch DEF Poll
  <2>3. QED
    BY <2>1, <2>2 DEF Acked, Sending
<1>5. CASE TakeBuffer
  <2>1. sent' = 0 /\ batch' \in Seq(Lines) /\ pc' = "resend"
    BY <1>5 DEF TakeBuffer, TypeOK
  <2>2. QED
    BY <2>1 DEF Acked, Sending
<1>6. CASE SendFails \/ SendDisabled \/ SendRemoved
  BY <1>6 DEF SendFails, SendDisabled, SendRemoved, Acked, Sending
<1>7. CASE ProcessEnds
  BY <1>7 DEF ProcessEnds, Acked, Sending
<1>8. CASE Register \/ LoopEnds \/ Committed
  BY <1>8 DEF Register, LoopEnds, Committed, Acked, Sending
<1>9. CASE UNCHANGED <<pc, batch, sent, received>>
  BY <1>9 DEF Acked, Sending
<1>10. QED
  BY <1>1, <1>2, <1>3, <1>4, <1>5, <1>6, <1>7, <1>8, <1>9
     DEF Next, Send, Exit, Crash, Commit, HeartbeatRemoved, Signal, WriteLine, Rotate, Create,
         WasDown, WasRestored, Administer, vars

(* A batch that is acknowledged to its end is received. *)
LEMMA AckedAll ==
    ASSUME TypeOK, Acked, ChunkOk, sent' = Len(batch)
    PROVE  Range(batch) \subseteq received'
<1>1. PICK n \in 0..(Len(batch) - sent) : n = Len(NextChunk)
  BY ChunkFacts DEF ChunkOk, Acked
<1>2. /\ sent + n = Len(batch)
      /\ received' = received \cup {batch[i] : i \in (sent + 1)..Len(batch)}
      /\ {batch[i] : i \in 1..sent} \subseteq received
  BY <1>1, ChunkFacts DEF ChunkOk, Acked
<1>3. Range(batch) = {batch[i] : i \in 1..Len(batch)} /\ Len(batch) \in Nat /\ sent \in Nat
  BY RangeSeq DEF TypeOK
<1>4. \A i \in 1..Len(batch) : i \in 1..sent \/ i \in (sent + 1)..Len(batch)
  BY <1>3
<1>5. QED
  BY <1>2, <1>3, <1>4

(* No entry that is kept is let go of again: not by a send in any of its   *)
(* outcomes, nor by the end of the process or a start.                     *)
LEMMA KeptStep ==
    ASSUME TypeOK, Acked, [Next]_vars
    PROVE  Kept \subseteq Kept'
<1>0. /\ batch \in Seq(Lines) /\ Range(batch) \in SUBSET Lines /\ Range(<<>>) = {}
      /\ gone \in [Reasons -> SUBSET Lines]
      /\ {"cap", "rotated", "removed", "restart", "unsaved"} \subseteq Reasons
  BY RangeSeq DEF TypeOK, Reasons, Range
<1>1. CASE ChunkOk
  <2>1. received \subseteq received' /\ Lost' = Lost /\ buffer' = buffer
    BY <1>1 DEF ChunkOk, Lost
  <2>2. CASE sent' = Len(batch)
    BY <1>1, <2>1, <2>2, AckedAll DEF Kept
  <2>3. CASE sent' # Len(batch)
    BY <1>1, <2>1, <2>3 DEF ChunkOk, Kept
  <2>4. QED
    BY <2>2, <2>3
<1>2. CASE SendFails
  <2>1. Range(buffer) \cup Range(batch) \cup Lost \subseteq Range(buffer') \cup Lost'
    BY <1>0, <1>2, BufferWriteFacts DEF SendFails
  <2>2. QED
    BY <1>2, <2>1 DEF SendFails, Kept
<1>3. CASE SendDisabled
  <2>1. CASE pc = "send"
    BY <1>3, <2>1 DEF SendDisabled, Kept, Lost
  <2>2. CASE pc # "send"
    <3>1. Range(buffer) \cup Range(batch) \cup Lost \subseteq Range(buffer') \cup Lost'
      BY <1>0, <1>3, <2>2, BufferWriteFacts DEF SendDisabled
    <3>2. QED
      BY <1>3, <3>1 DEF SendDisabled, Kept
  <2>3. QED
    BY <2>1, <2>2
<1>4. CASE SendRemoved \/ HeartbeatRemoved
  <2>1. Lost' = Lost \cup Range(batch)
    BY <1>0, <1>4, LoseFacts DEF SendRemoved, HeartbeatRemoved
  <2>2. QED
    BY <1>4, <2>1 DEF SendRemoved, HeartbeatRemoved, Kept
<1>5. CASE ProcessEnds
  <2>1. Lost' = Lost \cup (IF pc \in {"startup", "resend"} THEN Range(batch) ELSE {})
    <3>1. (IF pc \in {"startup", "resend"} THEN Range(batch) ELSE {}) \in SUBSET Lines
      BY <1>0
    <3>2. QED
      BY <1>0, <1>5, <3>1, LoseFacts DEF ProcessEnds
  <2>2. QED
    BY <1>5, <2>1 DEF ProcessEnds, Kept
<1>6. CASE Start
  <2>1. UNION {Range(file[f]) \ Noise : f \in {g \in Logs : saved[g] = NoState}} \in SUBSET Lines
    <3>1. \A f \in Logs : Range(file[f]) \subseteq Lines
      BY RangeSeq DEF TypeOK
    <3>2. QED
      BY <3>1
  <2>2. Lost \subseteq Lost'
    BY <1>0, <1>6, <2>1, LoseFacts DEF Start
  <2>3. Range(buffer) \subseteq Range(buffer') \cup (IF pc' \in {"startup", "resend"} THEN Range(batch') ELSE {})
    BY <1>0, <1>6 DEF Start
  <2>4. batch = <<>>
    BY <1>6 DEF Start, Acked, Sending
  <2>5. QED
    BY <1>0, <1>6, <2>2, <2>3, <2>4 DEF Start, Kept
<1>7. CASE TakeBuffer
  <2>1. pc = "loop" /\ pc' = "resend" /\ batch' = buffer /\ UNCHANGED <<received, gone>>
    BY <1>7 DEF TakeBuffer
  <2>2. QED
    BY <2>1 DEF Kept, Lost
<1>8. ASSUME NEW f \in Logs, Rotate(f) PROVE Kept \subseteq Kept'
  <2>1. Unread(f) \in SUBSET Lines
    BY UnreadLines
  <2>2. Lost \subseteq Lost'
    BY <1>0, <1>8, <2>1, LoseFacts DEF Rotate
  <2>3. QED
    BY <1>8, <2>2 DEF Rotate, Kept
<1>9. CASE /\ pc \notin {"startup", "resend"}
           /\ UNCHANGED <<buffer, gone>> /\ received \subseteq received'
  BY <1>9 DEF Kept, Lost
<1>10. CASE UNCHANGED <<pc, batch, buffer, gone>> /\ received \subseteq received'
  BY <1>10 DEF Kept, Lost
<1>11. QED
  BY <1>1, <1>2, <1>3, <1>4, <1>5, <1>6, <1>7, <1>8, <1>9, <1>10
     DEF Next, Send, Exit, Crash, Register, LoopEnds, Poll, AnswerLost, Commit, Committed, Signal,
         WriteLine, Create, WasDown, WasRestored, Administer, vars

(* Nor is what a sender has polled, unless it is to be polled again. *)
LEMMA HandStep ==
    ASSUME TypeOK, Acked, [Next]_vars
    PROVE  \/ pc' = "off"
           \/ \A f \in Logs : pending'[f] = None
           \/ Range(batch) \subseteq Kept' \cup Range(batch')
<1>0. /\ batch \in Seq(Lines) /\ Range(batch) \in SUBSET Lines /\ Range(<<>>) = {}
      /\ gone \in [Reasons -> SUBSET Lines]
      /\ "removed" \in Reasons
  BY RangeSeq DEF TypeOK, Reasons, Range
<1>1. CASE ChunkOk
  <2>1. CASE sent' = Len(batch)
    BY <1>1, <2>1, AckedAll DEF Kept
  <2>2. CASE sent' # Len(batch)
    BY <1>1, <2>2 DEF ChunkOk
  <2>3. QED
    BY <2>1, <2>2
<1>2. CASE SendFails
  BY <1>0, <1>2, BufferWriteFacts DEF SendFails, Kept
<1>3. CASE SendDisabled
  BY <1>0, <1>3, BufferWriteFacts DEF SendDisabled, Kept, Rollback
<1>4. CASE SendRemoved \/ HeartbeatRemoved
  <2>1. Lost' = Lost \cup Range(batch)
    BY <1>0, <1>4, LoseFacts DEF SendRemoved, HeartbeatRemoved
  <2>2. QED
    BY <2>1 DEF Kept
<1>5. CASE Start \/ Poll \/ TakeBuffer
  <2>1. batch = <<>>
    BY <1>5 DEF Start, Poll, TakeBuffer, Acked, Sending
  <2>2. QED
    BY <1>0, <2>1
<1>6. CASE UNCHANGED batch
  BY <1>6
<1>7. CASE ProcessEnds
  BY <1>7 DEF ProcessEnds
<1>8. QED
  BY <1>1, <1>2, <1>3, <1>4, <1>5, <1>6, <1>7
     DEF Next, Send, Exit, Crash, Register, LoopEnds, AnswerLost, Commit, Committed, Signal,
         WriteLine, Create, Rotate, WasDown, WasRestored, Administer, vars
-----------------------------------------------------------------------------
(* The positions *)

Positions == ReadKept /\ PendingKept /\ SavedKept /\ Numbered

(* A step that moves no position and no file. *)
LEMMA QuietStep ==
    ASSUME Positions, UNCHANGED <<fileVars, pos, ino, saved>>,
           pc' # "off" => pc # "off", Kept \subseteq Kept',
           \/ \A f \in Logs : pending'[f] = None
           \/ pc' = "off"
           \/ pending' = pending /\ Range(batch) \subseteq Kept' \cup Range(batch')
    PROVE  Positions'
<1>1. ReadKept'
  BY DEF Positions, ReadKept, Current, fileVars
<1>2. PendingKept'
  BY DEF Positions, PendingKept, Current, fileVars
<1>3. SavedKept' /\ Numbered'
  BY DEF Positions, SavedKept, Numbered, Current, fileVars
<1>4. QED
  BY <1>1, <1>2, <1>3 DEF Positions

(* commit(), advance(): what the tailer has read is kept by now. *)
LEMMA AdvanceStep ==
    ASSUME Positions, NEW F \in SUBSET Logs, Advance(F), UNCHANGED fileVars, pc # "off",
           Kept \cup Range(batch) \subseteq Kept'
    PROVE  Positions'
<1>1. /\ \A f \in Logs : \/ /\ pos'[f] = pending[f] /\ saved'[f] = [pos |-> pending[f], inode |-> ino[f]]
                            /\ pending[f] # None /\ pending'[f] = None
                         \/ pos'[f] = pos[f] /\ saved'[f] = saved[f] /\ pending'[f] = pending[f]
      /\ ino' = ino
  BY DEF Advance
<1>2. ReadKept'
  BY <1>1 DEF Positions, ReadKept, PendingKept, Current, fileVars
<1>3. PendingKept'
  BY <1>1 DEF Positions, PendingKept, Current, fileVars
<1>4. ASSUME NEW f \in Logs
      PROVE  /\ saved'[f].inode <= inode[f]
             /\ Current(f, saved'[f].inode) =>
                   saved'[f].pos <= Len(file[f]) /\ First(file[f], saved'[f].pos) \subseteq Kept'
  <2>1. CASE saved'[f] = [pos |-> pending[f], inode |-> ino[f]] /\ pending[f] # None
    <3>1. saved'[f].pos = pending[f] /\ saved'[f].inode = ino[f]
      BY <2>1
    <3>2. QED
      BY <2>1, <3>1 DEF Positions, PendingKept, Numbered
  <2>2. CASE saved'[f] = saved[f]
    BY <2>2 DEF Positions, SavedKept, Numbered
  <2>3. QED
    BY <1>1, <2>1, <2>2
<1>5. SavedKept' /\ Numbered'
  BY <1>1, <1>4 DEF Positions, SavedKept, Numbered, Current, fileVars
<1>6. QED
  BY <1>2, <1>3, <1>5 DEF Positions

(* A start without a saved position counts what it skips as lost. *)
LEMMA StartStep ==
    ASSUME TypeOK, Acked, Positions, Start
    PROVE  Positions'
<1>1. Kept \subseteq Kept'
  BY KeptStep DEF Next
<1>2. \A f \in Logs : pending'[f] = None /\ saved'[f] = saved[f]
  BY DEF Start, LoadState
<1>3. ASSUME NEW f \in Logs, Current(f, ino'[f])
      PROVE  pos'[f] <= Len(file[f]) /\ First(file[f], pos'[f]) \subseteq Kept'
  <2>1. CASE saved[f] # NoState
    <3>1. pos'[f] = saved[f].pos /\ ino'[f] = saved[f].inode
      BY <2>1 DEF Start, LoadState
    <3>2. QED
      BY <1>1, <1>3, <3>1 DEF Positions, SavedKept
  <2>2. CASE saved[f] = NoState
    <3>1. pos'[f] = Len(file[f]) /\ Len(file[f]) \in Nat
      BY <1>3, <2>2 DEF Start, LoadState, Current, TypeOK
    <3>2. \A g \in Logs : Range(file[g]) = {file[g][i] : i \in 1..Len(file[g])} /\ Range(file[g]) \subseteq Lines
      BY RangeSeq DEF TypeOK
    <3> DEFINE skipped == UNION {Range(file[g]) \ Noise : g \in {h \in Logs : saved[h] = NoState}}
    <3>3. skipped \in SUBSET Lines /\ First(file[f], Len(file[f])) \subseteq skipped
      BY <2>2, <3>2 DEF First
    <3>4. Lose("unsaved", skipped)
      BY DEF Start
    <3> HIDE DEF skipped
    <3>5. skipped \subseteq Lost'
      BY <3>3, <3>4, LoseFacts DEF TypeOK, Reasons
    <3>6. QED
      BY <3>1, <3>3, <3>5 DEF Kept
  <2>3. QED
    BY <2>1, <2>2
<1>4. UNCHANGED fileVars
  BY DEF Start
<1>5. ReadKept'
  BY <1>3, <1>4 DEF ReadKept, Current, fileVars
<1>6. PendingKept'
  BY <1>2 DEF PendingKept
<1>7. SavedKept'
  BY <1>1, <1>2, <1>4 DEF Positions, SavedKept, Current, fileVars
<1>8. Numbered'
  <2>1. \A f \in Logs : ino'[f] <= inode[f]
    BY DEF Start, LoadState, Positions, Numbered, TypeOK, None
  <2>2. QED
    BY <1>2, <1>4, <2>1 DEF Positions, Numbered, fileVars
<1>9. QED
  BY <1>5, <1>6, <1>7, <1>8 DEF Positions

(* poll(): what it reads is in the batch.  A position left over from an    *)
(* earlier poll must not be about another file.                            *)
LEMMA PollStep ==
    ASSUME TypeOK, Acked, Positions, NoStale, Poll
    PROVE  Positions'
<1>1. Kept \subseteq Kept' /\ batch = <<>> /\ pc \in {"loop", "poll"} /\ pc' # "off"
  BY KeptStep DEF Poll, Acked, Sending, Next
<1>2. UNCHANGED fileVars
  BY DEF Poll
<1>3. \A f \in Logs :
         /\ pos'[f] = From(f)
         /\ ino'[f] = IF present[f] THEN inode[f] ELSE ino[f]
         /\ saved'[f] = IF present[f] /\ Rotated(f) THEN [pos |-> 0, inode |-> inode[f]] ELSE saved[f]
         /\ pending'[f] = IF Reads(f) THEN To(f) ELSE pending[f]
  BY DEF Poll, PollTailers
<1>4. ASSUME NEW f \in Logs, present[f]
      PROVE  From(f) <= Len(file[f]) /\ First(file[f], From(f)) \subseteq Kept
  <2>1. Len(file[f]) \in Nat
    BY DEF TypeOK
  <2>2. CASE Rotated(f)
    <3>1. From(f) = 0
      BY <1>4, <2>2 DEF From
    <3>2. QED
      BY <2>1, <3>1 DEF First
  <2>3. CASE ~ Rotated(f)
    <3>1. From(f) = pos[f] /\ Current(f, ino[f])
      BY <1>4, <2>3 DEF From, Rotated, Current
    <3>2. QED
      BY <1>1, <3>1 DEF Positions, ReadKept
  <2>4. QED
    BY <2>2, <2>3
<1>5. ReadKept'
  BY <1>1, <1>2, <1>3, <1>4 DEF ReadKept, Current, fileVars
<1>6. ASSUME NEW f \in Logs, present[f], pending'[f] # None
      PROVE  /\ pending'[f] <= Len(file[f])
             /\ First(file[f], pending'[f]) \subseteq Kept' \cup Range(batch')
  <2>1. CASE Reads(f)
    <3>1. PICK a \in Nat : a = From(f)
      BY PollFacts
    <3>2. PICK b \in (a + 1)..Len(file[f]) : b = To(f)
      BY <2>1, <3>1, PollFacts
    <3>3. pending'[f] = b
      BY <1>3, <2>1, <3>2
    <3>4. file[f] \in Seq(Lines) /\ Len(file[f]) \in Nat
      BY DEF TypeOK
    <3>5. First(file[f], b) = First(file[f], a) \cup ({file[f][i] : i \in (a + 1)..b} \ Noise)
      <4>1. b \in 0..Len(file[f]) /\ a \in 0..b
        BY <3>2, <3>4
      <4>2. QED
        BY <3>4, <4>1, FirstSplits
    <3>6. {file[f][i] : i \in (a + 1)..b} \ Noise = Range(Polled(f))
      BY <2>1, <3>1, <3>2, PollFacts
    <3>7. Range(Polled(f)) \subseteq Range(batch')
      BY PollBatch DEF Poll
    <3>8. First(file[f], a) \subseteq Kept'
      BY <1>1, <1>4, <1>6, <3>1
    <3>9. QED
      BY <3>2, <3>3, <3>4, <3>5, <3>6, <3>7, <3>8
  <2>2. CASE ~ Reads(f)
    <3>1. pending'[f] = pending[f]
      BY <1>3, <2>2
    <3>2. ino[f] = inode[f]
      BY <1>1, <1>6, <3>1 DEF NoStale
    <3>3. QED
      <4>1. Range(batch) = {}
        BY <1>1 DEF Range
      <4>2. QED
        BY <1>1, <1>6, <3>1, <3>2, <4>1 DEF Positions, PendingKept, Current
  <2>3. QED
    BY <2>1, <2>2
<1>7. PendingKept'
  BY <1>2, <1>6 DEF PendingKept, Current, fileVars
<1>8. ASSUME NEW f \in Logs
      PROVE  /\ saved'[f].inode <= inode[f]
             /\ Current(f, saved'[f].inode) =>
                   saved'[f].pos <= Len(file[f]) /\ First(file[f], saved'[f].pos) \subseteq Kept'
  <2>1. CASE present[f] /\ Rotated(f)
    <3>0. saved'[f] = [pos |-> 0, inode |-> inode[f]]
      BY <1>3, <2>1, Zenon
    <3>1. saved'[f].pos = 0 /\ saved'[f].inode = inode[f]
      BY <3>0
    <3>2. Len(file[f]) \in Nat /\ inode[f] \in Nat /\ First(file[f], 0) = {}
      BY DEF TypeOK, First
    <3>3. QED
      BY <3>1, <3>2
  <2>2. CASE ~ (present[f] /\ Rotated(f))
    <3>1. saved'[f] = saved[f]
      BY <1>3, <2>2
    <3>2. QED
      BY <1>1, <3>1 DEF Positions, SavedKept, Numbered
  <2>3. QED
    BY <2>1, <2>2
<1>9. SavedKept' /\ Numbered'
  <2>1. \A f \in Logs : inode[f] \in Nat /\ ino'[f] <= inode[f]
    BY DEF Poll, PollTailers, TypeOK, Positions, Numbered
  <2>2. SavedKept'
    BY <1>2, <1>8 DEF SavedKept, Current, fileVars
  <2>3. QED
    BY <1>2, <1>8, <2>1, <2>2 DEF Positions, Numbered, fileVars
<1>10. QED
  BY <1>5, <1>7, <1>9 DEF Positions

(* proftpd and logrotate: lines are added at the end, and a new file has   *)
(* an inode no position is about.                                          *)
LEMMA FileStep ==
    ASSUME TypeOK, Acked, Positions, NEW f \in Logs,
           (\E l \in Lines : LogOf[l] = f /\ WriteLine(l)) \/ Rotate(f) \/ Create(f)
    PROVE  Positions'
<1>0. /\ UNCHANGED <<tailVars, pc, batch>>
      /\ Kept \subseteq Kept'
  BY KeptStep DEF WriteLine, Rotate, Create, Next
<1>1. /\ \A g \in Logs : Len(file[g]) \in Nat /\ inode[g] \in Nat /\ file[g] \in Seq(Lines)
      /\ \A g \in Logs : pos[g] \in Nat
      /\ \A g \in Logs : pending[g] # None => pending[g] \in Nat
      /\ \A g \in Logs : saved[g].inode = inode[g] => saved[g].pos \in Nat
  BY DEF TypeOK, NoState, None
<1>2. ASSUME NEW l \in Lines, LogOf[l] = f, WriteLine(l)
      PROVE  Positions'
  <2>1. /\ file'[f] = Append(file[f], l) /\ \A g \in Logs : g # f => file'[g] = file[g]
        /\ UNCHANGED <<present, inode>> /\ present[f]
    BY <1>2 DEF WriteLine, TypeOK
  <2>2. \A g \in Logs : \A n \in 0..Len(file[g]) :
           n <= Len(file'[g]) /\ First(file'[g], n) = First(file[g], n)
    <3>1. \A n \in 0..Len(file[f]) : First(file'[f], n) = First(file[f], n) /\ n <= Len(file'[f])
      BY <1>1, <2>1, FirstAppend
    <3>2. ASSUME NEW g \in Logs, g # f, NEW n \in 0..Len(file[g])
          PROVE  n <= Len(file'[g]) /\ First(file'[g], n) = First(file[g], n)
      <4>1. file'[g] = file[g] /\ Len(file[g]) \in Nat
        BY <1>1, <2>1, <3>2
      <4>2. QED
        BY <4>1
    <3>3. QED
      BY <3>1, <3>2
  <2>3. ReadKept'
    BY <1>0, <1>1, <2>1, <2>2 DEF Positions, ReadKept, Current, tailVars
  <2>4. PendingKept'
    BY <1>0, <1>1, <2>1, <2>2 DEF Positions, PendingKept, Current, tailVars
  <2>5. SavedKept'
    BY <1>0, <1>1, <2>1, <2>2 DEF Positions, SavedKept, Current, tailVars
  <2>6. Numbered'
    BY <1>0, <2>1 DEF Positions, Numbered, tailVars
  <2>7. QED
    BY <2>3, <2>4, <2>5, <2>6 DEF Positions
<1>3. ASSUME /\ \A g \in Logs : g # f => file'[g] = file[g] /\ present'[g] = present[g] /\ inode'[g] = inode[g]
             /\ \/ ~ present'[f] /\ file'[f] = <<>> /\ inode'[f] = inode[f]
                \/ inode'[f] = inode[f] + 1 /\ present'[f]
      PROVE  Positions'
  <2>1. \A g \in Logs : \A i : i <= inode[g] /\ Current(g, i)' =>
           g # f /\ Current(g, i) /\ file'[g] = file[g]
    <3>1. SUFFICES ASSUME NEW g \in Logs, NEW i, i <= inode[g], present'[g], i = inode'[g]
                   PROVE  g # f /\ Current(g, i) /\ file'[g] = file[g]
      BY DEF Current
    <3>2. g # f
      BY <1>1, <1>3, <3>1
    <3>3. QED
      BY <1>3, <3>1, <3>2 DEF Current
  <2>2. \A g \in Logs : ino[g] <= inode[g] /\ saved[g].inode <= inode[g]
    BY DEF Positions, Numbered
  <2>3. \A g \in Logs : ino'[g] = ino[g] /\ saved'[g] = saved[g] /\ pos'[g] = pos[g]
                          /\ pending'[g] = pending[g]
    BY <1>0 DEF tailVars
  <2>4. \A g \in Logs : present'[g] /\ ino[g] = inode'[g] => g # f /\ Current(g, ino[g]) /\ file'[g] = file[g]
    BY <2>1, <2>2 DEF Current
  <2>5. \A g \in Logs : present'[g] /\ saved[g].inode = inode'[g] =>
                          g # f /\ Current(g, saved[g].inode) /\ file'[g] = file[g]
    BY <2>1, <2>2 DEF Current
  <2>6. ReadKept' /\ PendingKept'
    BY <1>0, <2>3, <2>4 DEF Positions, ReadKept, PendingKept, Current
  <2>7. SavedKept'
    BY <1>0, <2>3, <2>5 DEF Positions, SavedKept, Current
  <2>8. Numbered'
    <3>1. \A g \in Logs : ino[g] \in Int /\ saved[g].inode \in Int
      <4>1. ASSUME NEW g \in Logs PROVE ino[g] \in Int
        BY DEF TypeOK, None
      <4>2. ASSUME NEW g \in Logs PROVE saved[g].inode \in Int
        <5>1. saved[g] \in [pos : Nat, inode : Nat \cup {None}] \/ saved[g] = NoState
          BY DEF TypeOK
        <5>2. saved[g].inode \in Nat \cup {None}
          BY <5>1 DEF NoState
        <5>3. QED
          BY <5>2 DEF None
      <4>3. QED
        BY <4>1, <4>2
    <3>2. \A g \in Logs : inode'[g] \in Int /\ inode[g] <= inode'[g]
      BY <1>1, <1>3
    <3>3. \A g \in Logs : ino'[g] <= inode'[g] /\ saved'[g].inode <= inode'[g]
      BY <1>1, <2>2, <2>3, <3>1, <3>2
    <3>4. \A g \in Logs : ~ present'[g] => file'[g] = <<>>
      BY <1>3 DEF Positions, Numbered
    <3>5. QED
      BY <3>3, <3>4 DEF Numbered
  <2>9. QED
    BY <2>6, <2>7, <2>8 DEF Positions
<1>4. QED
  BY <1>2, <1>3 DEF Rotate, Create, TypeOK

(* Positions, for every step. *)
LEMMA PositionsStep ==
    ASSUME TypeOK, Acked, Positions, NoStale, [Next]_vars
    PROVE  Positions'
<1>1. Kept \subseteq Kept'
  BY KeptStep
<1>2. ASSUME UNCHANGED <<fileVars, pos, ino, saved>>, pc' # "off" => pc # "off",
             pending' = pending \/ \A f \in Logs : pending'[f] = None
      PROVE  Positions'
  BY <1>1, <1>2, HandStep, QuietStep
<1>3. ASSUME NEW F \in SUBSET Logs, Advance(F), UNCHANGED fileVars, pc # "off",
             batch = <<>> \/ Lose("removed", Range(batch))
      PROVE  Positions'
  <2>1. batch = <<>> => Range(batch) = {}
    BY DEF Range
  <2>2. Lose("removed", Range(batch)) => Range(batch) \subseteq Lost'
    <3>1. Range(batch) \in SUBSET Lines /\ "removed" \in Reasons
      BY RangeSeq DEF TypeOK, Reasons
    <3>2. QED
      BY <3>1, LoseFacts DEF TypeOK
  <2>3. Kept \cup Range(batch) \subseteq Kept'
    BY <1>1, <1>3, <2>1, <2>2 DEF Kept
  <2>4. QED
    BY <1>3, <2>3, AdvanceStep
<1>4. ASSUME NEW f \in Logs, Commit(f) PROVE Positions'
  BY <1>3, <1>4 DEF Commit, Acked, Sending
<1>5. CASE HeartbeatRemoved
  BY <1>3, <1>5 DEF HeartbeatRemoved, ThreadsUp
<1>6. CASE SendRemoved
  BY <1>2, <1>3, <1>6 DEF SendRemoved, tailVars, Sending
<1>7. CASE SendDisabled
  BY <1>2, <1>7 DEF SendDisabled, Rollback, tailVars, Sending
<1>8. CASE Register \/ LoopEnds \/ TakeBuffer \/ AnswerLost \/ ChunkOk \/ SendFails
  BY <1>2, <1>8 DEF Register, LoopEnds, TakeBuffer, AnswerLost, ChunkOk, SendFails, tailVars, Sending
<1>9. CASE Committed \/ Signal \/ ProcessEnds \/ WasDown \/ WasRestored
             \/ (\E to \in {"active", "disabled", "removed"} : Administer(to)) \/ UNCHANGED vars
  BY <1>2, <1>9 DEF Committed, Signal, ProcessEnds, WasDown, WasRestored, Administer, tailVars, vars, fileVars
<1>10. ASSUME NEW l \in Lines, WriteLine(l) PROVE Positions'
  <2>1. LogOf[l] \in Logs
    BY ConstantsAssumption
  <2>2. QED
    BY <1>10, <2>1, FileStep
<1>11. QED
  BY <1>4, <1>5, <1>6, <1>7, <1>8, <1>9, <1>10, StartStep, PollStep, FileStep DEF Next, Send, Exit, Crash

(* No position is left over, for every step: with rotation only when every *)
(* poll that reads makes a batch.                                          *)
LEMMA NoStaleStep ==
    ASSUME TypeOK, NoStale, Noise = {} \/ "rotate" \notin Faults, [Next]_vars
    PROVE  NoStale'
<1>1. CASE "rotate" \in Faults
  <2>1. Noise = {} /\ (pc \notin {"off", "send", "commit"} => \A f \in Logs : pending[f] = None)
    BY <1>1 DEF NoStale
  <2>2. SUFFICES ASSUME pc' \notin {"off", "send", "commit"}
                 PROVE  \A f \in Logs : pending'[f] = None
    BY <1>1 DEF NoStale
  <2>3. ASSUME pc \notin {"off", "send", "commit"}, UNCHANGED pending
        PROVE  \A f \in Logs : pending'[f] = None
    BY <2>1, <2>3
  <2>4. ASSUME NEW F \in SUBSET Logs, Advance(F), F = Logs \/ pc \notin {"off", "send", "commit"}
        PROVE  \A f \in Logs : pending'[f] = None
    BY <2>1, <2>4 DEF Advance
  <2>5. CASE Poll
    <3>1. batch' = <<>> /\ pc \notin {"off", "send", "commit"}
      BY <2>2, <2>5 DEF Poll
    <3>2. ASSUME NEW f \in Logs, Reads(f) PROVE FALSE
      <4>1. PICK a \in Nat : a = From(f)
        BY PollFacts
      <4>2. PICK b \in (a + 1)..Len(file[f]) : b = To(f)
        BY <3>2, <4>1, PollFacts
      <4>3. Len(file[f]) \in Nat
        BY DEF TypeOK
      <4>4. b \in (a + 1)..b
        BY <4>2, <4>3
      <4>5. file[f][b] \in Range(Polled(f))
        BY <2>1, <3>2, <4>1, <4>2, <4>4, PollFacts
      <4>6. file[f][b] \in Range(batch')
        BY <2>5, <4>5, PollBatch DEF Poll
      <4>7. QED
        BY <3>1, <4>6 DEF Range
    <3>3. QED
      BY <2>1, <2>5, <3>1, <3>2 DEF Poll, PollTailers
  <2>6. CASE Start
    BY <2>6 DEF Start, LoadState
  <2>7. CASE Send
    BY <2>2, <2>3, <2>4, <2>7
       DEF Send, ChunkOk, SendFails, SendDisabled, SendRemoved, Rollback, Sending, AfterSend, tailVars
  <2>8. CASE Committed
    BY <2>8 DEF Committed, tailVars
  <2>9. CASE HeartbeatRemoved
    BY <2>4, <2>9 DEF HeartbeatRemoved
  <2>10. CASE (\E f \in Logs : Commit(f)) \/ ProcessEnds
    BY <2>2, <2>10 DEF Commit, ProcessEnds
  <2>11. CASE Register \/ LoopEnds \/ TakeBuffer
    BY <2>3, <2>11 DEF Register, LoopEnds, TakeBuffer, tailVars
  <2>12. CASE UNCHANGED <<pc, pending>>
    BY <2>2, <2>3, <2>12
  <2>13. QED
    BY <2>5, <2>6, <2>7, <2>8, <2>9, <2>10, <2>11, <2>12
       DEF Next, Exit, Crash, AnswerLost, Signal, WriteLine, Rotate, Create, WasDown, WasRestored,
           Administer, tailVars, vars
<1>2. CASE "rotate" \notin Faults
  <2>1. \A f \in Logs : /\ present[f]
                        /\ pc # "off" => ino[f] = inode[f]
                        /\ saved[f] = NoState \/ saved[f].inode = inode[f]
    BY <1>2 DEF NoStale
  <2>2. SUFFICES \A f \in Logs : /\ present'[f]
                                 /\ pc' # "off" => ino'[f] = inode'[f]
                                 /\ saved'[f] = NoState \/ saved'[f].inode = inode'[f]
    BY <1>2 DEF NoStale
  <2>3. UNCHANGED <<present, inode>>
    BY <1>2, <2>1
       DEF Next, Start, Register, LoopEnds, TakeBuffer, Poll, AnswerLost, Send, ChunkOk, SendFails,
           SendDisabled, SendRemoved, Commit, Committed, HeartbeatRemoved, Signal, Exit, Crash,
           ProcessEnds, WriteLine, Rotate, Create, WasDown, WasRestored, Administer, fileVars, vars
  <2>4. ASSUME NEW F \in SUBSET Logs, Advance(F), pc # "off"
        PROVE  \A f \in Logs : ino'[f] = inode[f] /\ (saved'[f] = NoState \/ saved'[f].inode = inode[f])
    <3>1. SUFFICES ASSUME NEW f \in Logs
                   PROVE  ino'[f] = inode[f] /\ (saved'[f] = NoState \/ saved'[f].inode = inode[f])
      OBVIOUS
    <3>2. ino'[f] = inode[f]
      BY <2>1, <2>4 DEF Advance
    <3>3. saved'[f] = saved[f] \/ saved'[f] = [pos |-> pending[f], inode |-> ino[f]]
      BY <2>4 DEF Advance
    <3>4. saved'[f] = saved[f] \/ saved'[f].inode = ino[f]
      BY <3>3
    <3>5. QED
      BY <2>1, <2>4, <3>2, <3>4
  <2>5. CASE Start
    <3>1. \A f \in Logs : /\ ino'[f] = IF saved[f] # NoState THEN saved[f].inode ELSE inode[f]
                          /\ saved'[f] = saved[f]
      BY <2>1, <2>5 DEF Start, LoadState
    <3>2. QED
      BY <2>1, <2>3, <3>1
  <2>6. CASE Poll
    <3>1. SUFFICES ASSUME NEW f \in Logs
                   PROVE  ino'[f] = inode[f] /\ (saved'[f] = NoState \/ saved'[f].inode = inode[f])
      BY <2>1, <2>3
    <3>2. ino'[f] = inode[f]
      BY <2>1, <2>6 DEF Poll, PollTailers
    <3>3. saved'[f] = saved[f] \/ saved'[f] = [pos |-> 0, inode |-> inode[f]]
      BY <2>6 DEF Poll, PollTailers
    <3>4. saved'[f] = saved[f] \/ saved'[f].inode = inode[f]
      BY <3>3
    <3>5. QED
      BY <2>1, <3>2, <3>4
  <2>7. ASSUME UNCHANGED <<ino, saved>>, pc' # "off" => pc # "off"
        PROVE  \A f \in Logs : /\ present'[f]
                               /\ pc' # "off" => ino'[f] = inode'[f]
                               /\ saved'[f] = NoState \/ saved'[f].inode = inode'[f]
    BY <2>1, <2>3, <2>7
  <2>8. CASE Send
    BY <2>1, <2>3, <2>4, <2>7, <2>8
       DEF Send, ChunkOk, SendFails, SendDisabled, SendRemoved, Rollback, Sending, AfterSend, tailVars
  <2>9. CASE HeartbeatRemoved \/ \E f \in Logs : Commit(f)
    BY <2>1, <2>3, <2>4, <2>9 DEF HeartbeatRemoved, ThreadsUp, Commit
  <2>10. QED
    BY <2>5, <2>6, <2>7, <2>8, <2>9
       DEF Next, Register, LoopEnds, TakeBuffer, AnswerLost, Committed, Signal, Exit, Crash,
           ProcessEnds, WriteLine, Rotate, Create, WasDown, WasRestored, Administer, tailVars, vars
<1>3. QED
  BY <1>1, <1>2

(* What the daemon has finished with of a file is kept. *)
LEMMA DoneKept ==
    ASSUME TypeOK, Positions, NEW f \in Logs
    PROVE  /\ First(file[f], Done(f)) \subseteq Kept
           /\ Range(file[f]) \ Noise = First(file[f], Done(f)) \cup Unread(f)
<1>1. PICK d \in 0..Len(file[f]) : d = Done(f)
  BY UnreadLines
<1>2. file[f] \in Seq(Lines) /\ Len(file[f]) \in Nat
  BY DEF TypeOK
<1>3. First(file[f], d) \subseteq Kept
  <2>1. CASE d = 0
    BY <2>1 DEF First
  <2>2. CASE d # 0
    <3>1. present[f]
      BY <1>1, <2>2 DEF Positions, Numbered
    <3>2. CASE pc # "off"
      <4>1. d = pos[f] /\ ino[f] = inode[f]
        BY <1>1, <2>2, <3>2 DEF Done
      <4>2. QED
        BY <3>1, <3>2, <4>1 DEF Positions, ReadKept, Current
    <3>3. CASE pc = "off"
      <4>1. d = saved[f].pos /\ saved[f].inode = inode[f]
        BY <1>1, <2>2, <3>3 DEF Done
      <4>2. QED
        BY <3>1, <4>1 DEF Positions, SavedKept, Current
    <3>4. QED
      BY <3>2, <3>3
  <2>3. QED
    BY <2>1, <2>2
<1>4. First(file[f], Len(file[f])) = First(file[f], d) \cup ({file[f][i] : i \in (d + 1)..Len(file[f])} \ Noise)
  <2>1. PICK s, n : s = file[f] /\ n = Len(file[f])
    OBVIOUS
  <2>2. s \in Seq(Lines) /\ n \in 0..Len(s) /\ d \in 0..n
    BY <1>1, <1>2, <2>1
  <2>3. First(s, n) = First(s, d) \cup ({s[i] : i \in (d + 1)..n} \ Noise)
    BY <2>2, FirstSplits
  <2>4. QED
    BY <2>1, <2>3
<1>5. Range(file[f]) \ Noise = First(file[f], Len(file[f]))
  <2>1. Range(file[f]) = {file[f][i] : i \in 1..Len(file[f])}
    BY <1>2, RangeSeq
  <2>2. QED
    BY <2>1 DEF First
<1>6. QED
  BY <1>1, <1>3, <1>4, <1>5, UnreadLines

(* Every entry is kept or in a file that is there, for every step. *)
LEMMA FoundStep ==
    ASSUME TypeOK, Acked, Positions, Found, [Next]_vars
    PROVE  Found'
<1>1. Kept \subseteq Kept'
  BY KeptStep
<1>2. ASSUME NEW l \in Lines, WriteLine(l) PROVE Found'
  <2>1. PICK f \in Logs : f = LogOf[l]
    BY ConstantsAssumption
  <2>2. /\ file'[f] = Append(file[f], l) /\ \A g \in Logs : g # f => file'[g] = file[g]
        /\ written' = written \cup {l}
    BY <1>2, <2>1 DEF WriteLine, TypeOK
  <2>3. Range(file'[f]) = Range(file[f]) \cup {l}
    <3>1. PICK s \in Seq(Lines) : s = file[f]
      BY DEF TypeOK
    <3>2. PICK t : t = Append(s, l)
      OBVIOUS
    <3>3. t \in Seq(Lines) /\ Len(t) = Len(s) + 1 /\ (\A i \in 1..Len(s) : t[i] = s[i]) /\ t[Len(s) + 1] = l
      BY <3>2
    <3>4. Range(t) = {t[i] : i \in 1..Len(t)} /\ Range(s) = {s[i] : i \in 1..Len(s)} /\ Len(s) \in Nat
      BY <3>3, RangeSeq
    <3>5. Range(t) \subseteq Range(s) \cup {l}
      BY <3>3, <3>4
    <3>6. Range(s) \subseteq Range(t) /\ l \in Range(t)
      BY <3>3, <3>4
    <3>7. QED
      BY <2>2, <3>1, <3>2, <3>5, <3>6
  <2>4. \A g \in Logs : Range(file[g]) \subseteq Range(file'[g])
    BY <2>2, <2>3
  <2>5. QED
    BY <1>1, <2>2, <2>3, <2>4 DEF Found
<1>3. ASSUME NEW f \in Logs, Rotate(f) PROVE Found'
  <2>1. /\ \A g \in Logs : g # f => file'[g] = file[g]
        /\ written' = written /\ Lose("rotated", Unread(f))
    BY <1>3 DEF Rotate, TypeOK
  <2>2. Unread(f) \in SUBSET Lines /\ "rotated" \in Reasons
    BY UnreadLines DEF Reasons
  <2>3. Unread(f) \subseteq Lost'
    BY <2>1, <2>2, LoseFacts DEF TypeOK
  <2>4. Range(file[f]) \ Noise \subseteq Kept'
    BY <1>1, <2>3, DoneKept DEF Kept
  <2>5. QED
    BY <1>1, <2>1, <2>4 DEF Found
<1>4. CASE UNCHANGED <<file, written>>
  BY <1>1, <1>4 DEF Found
<1>5. QED
  BY <1>2, <1>3, <1>4
     DEF Next, Start, Register, LoopEnds, TakeBuffer, Poll, AnswerLost, Send, ChunkOk, SendFails,
         SendDisabled, SendRemoved, Commit, Committed, HeartbeatRemoved, Signal, Exit, Crash,
         ProcessEnds, Create, WasDown, WasRestored, Administer, fileVars, vars

-----------------------------------------------------------------------------
(* The theorems *)

(* The inductive invariant holds at the start. *)
LEMMA InitInv == Init => IInv
<1> SUFFICES ASSUME Init PROVE IInv
  OBVIOUS
<1>1. TypeOK
  BY InitType
<1>2. ReadKept /\ PendingKept
  BY DEF Init, ReadKept, PendingKept, Current, First
<1>3. SavedKept /\ Numbered
  BY DEF Init, SavedKept, Numbered, Current, NoState, None
<1>4. Acked /\ NoStale /\ Found
  BY DEF Init, Acked, Sending, NoStale, Found
<1>5. QED
  BY <1>1, <1>2, <1>3, <1>4 DEF IInv

(* The types need no more than that the sender is within its batch. *)
THEOREM TypeCorrect == Spec => []TypeOK
<1>1. Init => TypeOK /\ Acked
  BY InitInv DEF IInv
<1>2. TypeOK /\ Acked /\ [Next]_vars => TypeOK' /\ Acked'
  BY StepType, AckedStep
<1>3. QED
  BY <1>1, <1>2, PTL DEF Spec

(* The inductive invariant, for every step. *)
LEMMA StepInv ==
    ASSUME Noise = {} \/ "rotate" \notin Faults
    PROVE  IInv /\ [Next]_vars => IInv'
<1> SUFFICES ASSUME IInv, [Next]_vars PROVE IInv'
  OBVIOUS
<1>1. TypeOK /\ Acked /\ Positions /\ NoStale /\ Found
  BY DEF IInv, Positions
<1>2. TypeOK' /\ Acked' /\ Positions' /\ NoStale' /\ Found'
  BY <1>1, StepType, AckedStep, PositionsStep, NoStaleStep, FoundStep
<1>3. QED
  BY <1>2 DEF IInv, Positions

(* The inductive invariant holds in every state. *)
LEMMA Inductive ==
    ASSUME Noise = {} \/ "rotate" \notin Faults
    PROVE  Spec => []IInv
BY InitInv, StepInv, PTL DEF Spec

(* No line is skipped, however many lines, logs' sizes and chunks: every   *)
(* entry is with the WAS, in the buffer, in the batch or still to be read, *)
(* or lost for one of the reasons.  Where logs are rotated and some lines  *)
(* yield no entry it does not hold, as the run daemon_rotation shows.      *)
THEOREM NoLineSkipped ==
    ASSUME Noise = {} \/ "rotate" \notin Faults
    PROVE  Spec => []Conservation
<1>1. IInv => Conservation
  <2> SUFFICES ASSUME IInv PROVE Conservation
    OBVIOUS
  <2>1. TypeOK /\ Positions /\ Found
    BY DEF IInv, Positions
  <2>2. Kept \subseteq received \cup Range(buffer) \cup Range(batch) \cup Lost
    BY DEF Kept
  <2>3. \A f \in Logs : Range(file[f]) \ Noise \subseteq Kept \cup Unread(f)
    BY <2>1, DoneKept
  <2>4. QED
    BY <2>1, <2>2, <2>3 DEF Found, Conservation, Safe, Lost
<1>2. QED
  BY <1>1, Inductive, PTL

(* A saved position never runs ahead of the entries it stands for. *)
THEOREM SavedAlwaysSafe ==
    ASSUME Noise = {} \/ "rotate" \notin Faults
    PROVE  Spec => []SavedIsSafe
<1>1. IInv => SavedIsSafe
  <2> SUFFICES ASSUME IInv, NEW f \in Logs, present[f], saved[f].inode = inode[f]
               PROVE  /\ saved[f].pos <= Len(file[f])
                      /\ Range(SubSeq(file[f], 1, saved[f].pos)) \ Noise
                            \subseteq received \cup Range(buffer) \cup Range(batch) \cup Lost
    BY DEF SavedIsSafe, Lost
  <2>1. PICK n : n = saved[f].pos
    OBVIOUS
  <2>2. n <= Len(file[f]) /\ First(file[f], n) \subseteq Kept
    BY <2>1 DEF IInv, SavedKept, Current
  <2>3. file[f] \in Seq(Lines) /\ Len(file[f]) \in Nat /\ n \in Nat
    BY <2>1 DEF IInv, TypeOK, NoState, None
  <2>4. Range(SubSeq(file[f], 1, n)) = {file[f][i] : i \in 1..n}
    BY <2>2, <2>3, RangeSub
  <2>5. QED
    BY <2>1, <2>2, <2>4 DEF First, Kept
<1>2. QED
  BY <1>1, Inductive, PTL
-----------------------------------------------------------------------------
(* LogParser: the memory of the parsers                                    *)
(*                                                                         *)
(* The invariant compares a memory with what the log says of a pid after   *)
(* its first h lines.  The difficulty is that the daemon reads lines again *)
(* when a poll made no entry or was rolled back: its memory is then ahead  *)
(* of its position.                                                        *)

(* Which lines give the memory something and which take it away. *)
Kinds == {"USER", "RNFR"}
Gives(kind, line) == line.cmd = kind
Takes(kind, line) ==
    IF kind = "USER" THEN line.cmd \in {"PASS", "QUIT"} ELSE line.cmd = "RNTO" /\ line.code = "250"

(* What the memory holds of p. *)
Val(mem, kind, p) == Recall(IF kind = "USER" THEN mem.user ELSE mem.rnfr, p)

(* Line k gives what is known of p after the first h lines. *)
Given(lines, h, kind, p, k) ==
    /\ k \in 1..h /\ lines[k].pid = p /\ Gives(kind, lines[k])
    /\ \A t \in (k + 1)..h : lines[t].pid = p => ~ Gives(kind, lines[t]) /\ ~ Takes(kind, lines[t])

(* Nothing is known of p: what was given was taken. *)
Taken(lines, h, kind, p) ==
    \A k \in 1..h : lines[k].pid = p /\ Gives(kind, lines[k]) =>
        \E t \in (k + 1)..h : lines[t].pid = p /\ Takes(kind, lines[t])

(* A memory that has seen the first h lines once holds v of p. *)
IsKnown(lines, h, kind, p, v) ==
    \/ v = Nothing /\ Taken(lines, h, kind, p)
    \/ \E k \in 1..h : Given(lines, h, kind, p, k) /\ v = lines[k].val

(* The lines proftpd writes. *)
Commands == {"USER", "PASS", "QUIT", "RNFR", "RNTO", "TRANSFER", "XFERLOG", "SIMPLE"}

Values == Accounts \cup Files \cup {Nothing}

Codes ==
    {"331", "230", "530", "221", "350", "250", "553", "226", "426", "c", "i",
     "refused", "missing", "malformed", "anonymous"} \cup Simple

LogLines == [ev : Nat, pid : Pids, cmd : Commands, code : Codes, val : Values]

LineOK(line) ==
    /\ line.cmd = "USER" => line.val \in Accounts
    /\ line.cmd = "RNFR" => line.val \in Files
    /\ line.cmd = "PASS" => line.code \in {"230", "530"}
    /\ line.cmd = "RNTO" => line.code \in {"250", "553"}

(* A line tells of an event of its own, or is the transfer-log line of the *)
(* transfer told by the line before it.                                    *)
EventOK(lines, n) ==
    \/ lines[n].ev = n
    \/ /\ n > 1 /\ lines[n].ev = n - 1 /\ lines[n - 1].ev = n - 1
       /\ lines[n - 1].pid = lines[n].pid
       /\ lines[n - 1].cmd = "TRANSFER" /\ lines[n - 1].code \in {"226", "426"}

(* A PASS has a USER that is still known, an RNTO has such an RNFR. *)
Paired(lines, n) ==
    /\ lines[n].cmd = "PASS" => \E k \in 1..(n - 1) : Given(lines, n - 1, "USER", lines[n].pid, k)
    /\ lines[n].cmd = "RNTO" => \E k \in 1..(n - 1) : Given(lines, n - 1, "RNFR", lines[n].pid, k)

LogOK(lines) ==
    /\ lines \in Seq(LogLines)
    /\ \A n \in 1..Len(lines) : LineOK(lines[n]) /\ EventOK(lines, n) /\ Paired(lines, n)

(* So has a session that waits for its PASS or RNTO. *)
SessionOK ==
    /\ session \in [Pids -> {Nothing, "user", "failed", "in", "rnfr"}]
    /\ \A p \in Pids :
        /\ session[p] = "user" => \E k \in 1..Len(log) : Given(log, Len(log), "USER", p, k)
        /\ session[p] = "rnfr" => \E k \in 1..Len(log) : Given(log, Len(log), "RNFR", p, k)

(* The memory of a parser. *)
Notes == [pid : Pids, val : Values]

Stores == {store \in Seq(Notes) : StoreOK(store)}

Memory == [user : Stores, rnfr : Stores]

(* Lines c + 1 to h were read and not committed: the memory holds what the *)
(* log says of p at h, and none of them has taken anything of p.           *)
ReadFits(lines, c, h, p, mem) ==
    /\ \A kind \in Kinds : \A t \in (c + 1)..h : lines[t].pid = p => ~ Takes(kind, lines[t])
    /\ \A kind \in Kinds : IsKnown(lines, h, kind, p, Val(mem, kind, p))

(* So it is for every pid that is not lost; no poll reads further. *)
MemoryFits(lines, c, mem, lost) ==
    \A p \in Pids \ lost :
        \E h \in c..Len(lines) : h <= c + MaxLinesPerPoll /\ ReadFits(lines, c, h, p, mem)

(* The import reads each line once: its memory holds what the log says, or *)
(* nothing of a pid that was cut.                                          *)
BulkKnows(lines, at, mem, cut) ==
    \A p \in Pids, kind \in Kinds :
        \/ IsKnown(lines, at, kind, p, Val(mem, kind, p))
        \/ p \in cut /\ Val(mem, kind, p) = Nothing

(* An entry tells of a line of its pid: as it should, unless the pid was   *)
(* lost to the daemon or cut by the import, and under a wrong name only if *)
(* it was lost.                                                            *)
EntryFits(lines, lost, cut, e) ==
    \E n \in 1..Len(lines) :
        /\ e.ev = lines[n].ev /\ e.pid = lines[n].pid
        /\ e.pid \notin lost \cup cut => e \in Expected(lines, n)
        /\ e.pid \notin lost /\ e.action \in {"login_fail", "rename"} =>
             \E x \in Expected(lines, n) : e.val \in {x.val, Nothing}

(* The first c lines have their entries. *)
ToldFits(lines, c, lost, told) ==
    \A n \in 1..c : lines[n].pid \notin lost => Expected(lines, n) \subseteq told

BulkOK ==
    /\ bulk = [at |-> bulk.at, mem |-> bulk.mem, batch |-> bulk.batch, failed |-> bulk.failed,
               cut |-> bulk.cut, done |-> bulk.done]
    /\ bulk.at \in 0..Len(log) /\ bulk.mem \in Memory
    /\ IsFiniteSet(bulk.batch) /\ Cardinality(bulk.batch) <= BatchSize
    /\ bulk.failed \in Nat /\ bulk.cut \subseteq Pids /\ bulk.done \in BOOLEAN
    /\ bulk.done => bulk.at = MaxLines /\ bulk.batch = {}

Counters ==
    /\ Len(log) <= MaxLines /\ committed \in 0..Len(log)
    /\ upsets \in 0..MaxUpsets /\ forgot \subseteq Pids /\ undone \subseteq Pids

ParserInv ==
    /\ LogOK(log) /\ Counters /\ SessionOK /\ memory \in Memory /\ BulkOK
    /\ MemoryFits(log, committed, memory, forgot \cup undone)
    /\ BulkKnows(log, bulk.at, bulk.mem, bulk.cut)
    /\ ToldFits(log, committed, forgot \cup undone, db)
    /\ bulk.failed = 0 => ToldFits(log, bulk.at, bulk.cut, db \cup bulk.batch)
    /\ \A e \in db \cup bulk.batch : EntryFits(log, forgot \cup undone, bulk.cut, e)

(* What is known of q after the line, if v was known before. *)
After(kind, line, q, v) ==
    IF line.pid = q /\ Gives(kind, line) THEN line.val
    ELSE IF line.pid = q /\ Takes(kind, line) THEN Nothing ELSE v

(* The log has grown. *)
Longer(lines, more) ==
    /\ lines \in Seq(LogLines) /\ more \in Seq(LogLines) /\ Len(lines) <= Len(more)
    /\ \A i \in 1..Len(lines) : more[i] = lines[i]

-----------------------------------------------------------------------------
(* The memory of a session *)

(* A pid has one place in the memory, and its value is the one there. *)
LEMMA RecallIs ==
    ASSUME NEW store \in Stores
    PROVE  /\ \A i \in 1..Len(store) : Recall(store, store[i].pid) = store[i].val
           /\ \A p : p \notin Pids_of(store) => Recall(store, p) = Nothing
           /\ \A p : Recall(store, p) \in Values
           /\ Pids_of(store) \subseteq Pids
           /\ Pids_of(store) = {store[i].pid : i \in 1..Len(store)}
<1>1. /\ store \in Seq(Notes)
      /\ \A i, j \in 1..Len(store) : store[i].pid = store[j].pid => i = j
      /\ DOMAIN store = 1..Len(store)
  BY DEF Stores, StoreOK
<1>2. /\ \A i \in 1..Len(store) : store[i] \in Notes
      /\ Pids_of(store) = {store[i].pid : i \in 1..Len(store)}
  <2>1. \A i \in 1..Len(store) : store[i] \in Notes
    BY <1>1
  <2>2. Pids_of(store) = {store[i].pid : i \in 1..Len(store)}
    BY <1>1, Zenon DEF Pids_of
  <2>3. QED
    BY <2>1, <2>2
<1>3. ASSUME NEW i \in 1..Len(store)
      PROVE  Recall(store, store[i].pid) = store[i].val
  <2> DEFINE E == {store[j] : j \in DOMAIN store}
             e == CHOOSE x \in E : x.pid = store[i].pid
  <2>1. store[i] \in E
    BY <1>1
  <2>2. e \in E /\ e.pid = store[i].pid
    BY <2>1, Zenon
  <2>3. PICK j \in 1..Len(store) : e = store[j]
    BY <1>1, <2>2
  <2>4. j = i
    BY <1>1, <2>2, <2>3
  <2>5. store[i].pid \in Pids_of(store)
    BY <1>2
  <2>6. Recall(store, store[i].pid) = e.val
    BY <2>5, Zenon DEF Recall
  <2>7. QED
    BY <2>3, <2>4, <2>6
<1>4. \A p : p \notin Pids_of(store) => Recall(store, p) = Nothing
  BY DEF Recall
<1>5. ASSUME NEW p PROVE Recall(store, p) \in Values
  <2>1. CASE p \notin Pids_of(store)
    BY <1>4, <2>1 DEF Values
  <2>2. CASE p \in Pids_of(store)
    <3>1. PICK i \in 1..Len(store) : p = store[i].pid
      BY <1>2, <2>2
    <3>2. QED
      BY <1>2, <1>3, <3>1 DEF Notes
  <2>3. QED
    BY <2>1, <2>2
<1>6. Pids_of(store) \subseteq Pids
  BY <1>2 DEF Notes
<1>7. QED
  BY <1>2, <1>3, <1>4, <1>5, <1>6

(* Two memories of which one is a part of the other, in whatever order. *)
LEMMA PartRecall ==
    ASSUME NEW store \in Stores, NEW part \in Stores,
           \A i \in 1..Len(part) : \E j \in 1..Len(store) : part[i] = store[j]
    PROVE  \A q \in Pids_of(part) : Recall(part, q) = Recall(store, q)
<1>1. SUFFICES ASSUME NEW q \in Pids_of(part) PROVE Recall(part, q) = Recall(store, q)
  OBVIOUS
<1>2. PICK i \in 1..Len(part) : q = part[i].pid
  BY <1>1, RecallIs
<1>3. PICK j \in 1..Len(store) : part[i] = store[j]
  BY <1>2
<1>4. QED
  BY <1>2, <1>3, RecallIs

(* A pid that is dropped is unknown, and the others stay as they are. *)
LEMMA DropIs ==
    ASSUME NEW store \in Stores, NEW p
    PROVE  /\ Drop(store, p) \in Stores
           /\ Pids_of(Drop(store, p)) = Pids_of(store) \ {p}
           /\ \A q : Recall(Drop(store, p), q) = IF q = p THEN Nothing ELSE Recall(store, q)
<1> DEFINE I == {i \in DOMAIN store : store[i].pid # p}
<1>1. /\ store \in Seq(Notes) /\ Len(store) \in Nat
      /\ \A i, j \in 1..Len(store) : store[i].pid = store[j].pid => i = j
      /\ DOMAIN store = 1..Len(store) /\ Len(store) <= MaxSessions
  BY DEF Stores, StoreOK
<1>2. PICK d : d = Drop(store, p)
  OBVIOUS
<1>3. d = Pick(store, I)
  BY <1>2 DEF Drop
<1>4. PICK n : n = Cardinality(I)
  OBVIOUS
<1>5. PICK g : g = Ascending(I)
  OBVIOUS
<1>6. /\ n \in Nat /\ g \in [1..n -> I]
      /\ \A i, j \in 1..n : i # j => g[i] # g[j]
      /\ \A x \in I : \E i \in 1..n : g[i] = x
  <2>1. I \in SUBSET DOMAIN store
    OBVIOUS
  <2> HIDE DEF I
  <2>2. store \in Seq(Notes)
    BY <1>1
  <2>3. /\ Cardinality(I) \in Nat
        /\ Ascending(I) \in [1..Cardinality(I) -> I]
        /\ \A i, j \in 1..Cardinality(I) : i # j => Ascending(I)[i] # Ascending(I)[j]
        /\ \A x \in I : \E i \in 1..Cardinality(I) : Ascending(I)[i] = x
    BY <2>1, <2>2, PickBijection
  <2>4. QED
    BY <1>4, <1>5, <2>3
<1>7. d = [i \in 1..n |-> store[g[i]]]
  BY <1>3, <1>4, <1>5 DEF Pick
<1>8. \A i \in 1..n : g[i] \in 1..Len(store) /\ store[g[i]].pid # p
  BY <1>1, <1>6
<1>9. d \in Seq(Notes) /\ Len(d) = n
  <2>1. \A i \in 1..n : store[g[i]] \in Notes
    BY <1>1, <1>8
  <2>2. QED
    BY <1>6, <1>7, <2>1
<1>10. n <= MaxSessions
  <2>1. /\ I \subseteq 1..Len(store) /\ IsFiniteSet(1..Len(store))
        /\ Cardinality(1..Len(store)) = Len(store)
    BY <1>1, FS_Interval
  <2> HIDE DEF I
  <2>2. n <= Len(store)
    BY <1>4, <2>1, FS_Subset
  <2>3. QED
    BY <1>1, <1>6, <2>2, ParserAssumption
<1>11. \A i, j \in 1..n : d[i].pid = d[j].pid => i = j
  BY <1>1, <1>6, <1>7, <1>8
<1>12. d \in Stores
  BY <1>9, <1>10, <1>11 DEF Stores, StoreOK
<1>13. Pids_of(d) = Pids_of(store) \ {p}
  <2>1. /\ Pids_of(d) = {d[i].pid : i \in 1..Len(d)}
        /\ Pids_of(store) = {store[i].pid : i \in 1..Len(store)}
    BY <1>12, RecallIs
  <2>2. ASSUME NEW q \in Pids_of(d) PROVE q \in Pids_of(store) \ {p}
    <3>1. PICK i \in 1..n : q = d[i].pid
      BY <1>9, <2>1
    <3>2. QED
      BY <1>7, <1>8, <2>1, <3>1
  <2>3. ASSUME NEW q \in Pids_of(store) \ {p} PROVE q \in Pids_of(d)
    <3>1. PICK i \in 1..Len(store) : q = store[i].pid
      BY <2>1
    <3>2. i \in I
      BY <1>1, <2>3, <3>1
    <3>3. PICK j \in 1..n : g[j] = i
      BY <1>6, <3>2
    <3>4. q = d[j].pid
      BY <1>7, <3>1, <3>3
    <3>5. QED
      BY <1>9, <2>1, <3>4
  <2>4. QED
    BY <2>2, <2>3
<1>14. \A i \in 1..Len(d) : \E j \in 1..Len(store) : d[i] = store[j]
  BY <1>7, <1>8, <1>9
<1>15. \A q \in Pids_of(d) : Recall(d, q) = Recall(store, q)
  BY <1>12, <1>14, PartRecall
<1>16. /\ \A q : q \notin Pids_of(d) => Recall(d, q) = Nothing
       /\ \A q : q \notin Pids_of(store) => Recall(store, q) = Nothing
  BY <1>12, RecallIs
<1>17. QED
  BY <1>2, <1>12, <1>13, <1>15, <1>16

(* What is remembered is known; the others stay as they are or are cut. *)
LEMMA RememberIs ==
    ASSUME NEW store \in Stores, NEW p \in Pids, NEW v \in Values
    PROVE  /\ Remember(store, p, v) \in Stores
           /\ p \in Pids_of(Remember(store, p, v)) /\ Recall(Remember(store, p, v), p) = v
           /\ \A q : q # p => Recall(Remember(store, p, v), q) = 
                IF q \in Pids_of(store) \ Pids_of(Remember(store, p, v)) THEN Nothing ELSE Recall(store, q)
<1>1. /\ store \in Seq(Notes) /\ Len(store) \in Nat
      /\ \A i, j \in 1..Len(store) : store[i].pid = store[j].pid => i = j
      /\ DOMAIN store = 1..Len(store) /\ Len(store) <= MaxSessions
      /\ Pids_of(store) = {store[i].pid : i \in 1..Len(store)}
  <2>1. Pids_of(store) = {store[i].pid : i \in 1..Len(store)}
    BY RecallIs
  <2>2. QED
    BY <2>1 DEF Stores, StoreOK
<1>2. PICK m \in Nat : m = MaxSessions \div 2 /\ m >= 1 /\ m <= MaxSessions
  BY ParserAssumption
<1>3. PICK e \in Notes : e = [pid |-> p, val |-> v]
  BY DEF Notes
<1>4. e.pid = p /\ e.val = v
  BY <1>3
<1>5. PICK r : r = Remember(store, p, v)
  OBVIOUS
<1>6. CASE p \in Pids_of(store)
  <2>1. PICK w : w = [i \in DOMAIN store |-> IF store[i].pid = p THEN e ELSE store[i]]
    OBVIOUS
  <2>2. /\ w \in Seq(Notes) /\ Len(w) = Len(store)
        /\ \A i \in 1..Len(store) : w[i] = IF store[i].pid = p THEN e ELSE store[i]
    BY <1>1, <2>1
  <2>3. r = w
    BY <1>1, <1>3, <1>5, <1>6, <2>1, <2>2 DEF Remember
  <2>4. \A i \in 1..Len(store) : w[i].pid = store[i].pid
    BY <1>4, <2>2
  <2>5. w \in Stores
    BY <1>1, <2>2, <2>4 DEF Stores, StoreOK
  <2>6. /\ Pids_of(w) = Pids_of(store)
        /\ \A i \in 1..Len(store) : Recall(w, w[i].pid) = w[i].val
    BY <1>1, <2>2, <2>4, <2>5, RecallIs
  <2>7. ASSUME NEW q, q # p PROVE Recall(w, q) = Recall(store, q)
    <3>1. CASE q \in Pids_of(store)
      <4>1. PICK i \in 1..Len(store) : q = store[i].pid
        BY <1>1, <3>1
      <4>2. w[i] = store[i]
        BY <2>2, <2>7, <4>1
      <4>3. QED
        BY <2>6, <4>1, <4>2, RecallIs
    <3>2. CASE q \notin Pids_of(store)
      BY <2>5, <2>6, <3>2, RecallIs
    <3>3. QED
      BY <3>1, <3>2
  <2>8. Recall(w, p) = v
    <3>1. PICK i \in 1..Len(store) : p = store[i].pid
      BY <1>1, <1>6
    <3>2. QED
      BY <1>4, <2>2, <2>6, <3>1
  <2>9. QED
    BY <1>5, <1>6, <2>3, <2>5, <2>6, <2>7, <2>8
<1>7. CASE p \notin Pids_of(store)
  <2>1. PICK w : w = Append(store, e)
    OBVIOUS
  <2>2. PICK n \in Nat : n = Len(store) /\ n <= MaxSessions
    BY <1>1
  <2>3. /\ w \in Seq(Notes) /\ Len(w) = n + 1
        /\ \A i \in 1..n : w[i] = store[i]
        /\ w[n + 1] = e
    BY <1>1, <2>1, <2>2
  <2>4. \A i, j \in 1..(n + 1) : w[i].pid = w[j].pid => i = j
    <3>1. \A i \in 1..n : w[i].pid = store[i].pid /\ store[i].pid # p
      BY <1>1, <1>7, <2>2, <2>3
    <3>2. w[n + 1].pid = p
      BY <1>4, <2>3
    <3>3. \A i \in 1..(n + 1) : i \in 1..n \/ i = n + 1
      OBVIOUS
    <3>4. QED
      BY <1>1, <2>2, <3>1, <3>2, <3>3
  <2>5. PICK a \in Nat : a = IF n + 1 <= MaxSessions THEN 0 ELSE n + 1 - m
    <3>1. MaxSessions \in Nat
      BY ParserAssumption
    <3>2. n + 1 <= MaxSessions \/ n + 1 - m \in Nat
      BY <1>2, <3>1
    <3>3. QED
      BY <3>2
  <2>6. /\ r \in Seq(Notes) /\ Len(r) = n + 1 - a
        /\ a <= n /\ Len(r) <= MaxSessions /\ Len(r) \in Nat
        /\ \A i \in 1..(n + 1 - a) : r[i] = w[a + i]
    <3>1. r = IF Len(w) <= MaxSessions THEN w ELSE SubSeq(w, Len(w) - m + 1, Len(w))
      BY <1>2, <1>3, <1>5, <1>7, <2>1 DEF Remember
    <3>2. CASE n + 1 <= MaxSessions
      BY <2>2, <2>3, <2>5, <3>1, <3>2
    <3>3. CASE ~ (n + 1 <= MaxSessions)
      <4>0. MaxSessions \in Nat
        BY ParserAssumption
      <4>1. n = MaxSessions /\ a = n + 1 - m /\ n + 1 - a = m
        BY <1>2, <2>2, <2>5, <3>3, <4>0
      <4>2. r = SubSeq(w, a + 1, n + 1)
        BY <2>3, <3>1, <3>3, <4>1
      <4>3. a + 1 \in 1..Len(w) /\ n + 1 \in 1..Len(w)
        BY <1>2, <2>3, <4>0, <4>1
      <4>4. /\ r \in Seq(Notes) /\ Len(r) = m
            /\ \A i \in 1..m : r[i] = w[a + i]
        BY <1>2, <2>3, <4>0, <4>1, <4>2, <4>3
      <4>5. Len(r) = n + 1 - a /\ a <= n /\ Len(r) <= MaxSessions /\ Len(r) \in Nat
        BY <1>2, <4>0, <4>1, <4>4
      <4>6. \A i \in 1..(n + 1 - a) : r[i] = w[a + i]
        BY <4>1, <4>4
      <4>7. QED
        BY <4>4, <4>5, <4>6
    <3>4. QED
      BY <3>2, <3>3
  <2>7. r \in Stores
    <3>1. \A i \in 1..(n + 1 - a) : a + i \in 1..(n + 1)
      BY <2>6
    <3>2. ASSUME NEW i \in 1..(n + 1 - a), NEW j \in 1..(n + 1 - a), r[i].pid = r[j].pid
          PROVE  i = j
      <4>1. w[a + i].pid = w[a + j].pid
        BY <2>6, <3>2
      <4>2. a + i = a + j
        BY <2>4, <3>1, <4>1
      <4>3. QED
        BY <4>2
    <3>3. \A i, j \in DOMAIN r : r[i].pid = r[j].pid => i = j
      BY <2>6, <3>2
    <3>4. QED
      BY <2>6, <3>3 DEF Stores, StoreOK
  <2>8. Pids_of(r) = {r[i].pid : i \in 1..Len(r)}
    BY <2>7, RecallIs
  <2>9. n + 1 - a \in 1..Len(r) /\ r[n + 1 - a] = e
    BY <2>3, <2>6
  <2>10. p \in Pids_of(r) /\ Recall(r, p) = v
    BY <1>4, <2>7, <2>8, <2>9, RecallIs
  <2>11. ASSUME NEW q, q # p, q \in Pids_of(r)
         PROVE  q \in Pids_of(store) /\ Recall(r, q) = Recall(store, q)
    <3>1. PICK i \in 1..Len(r) : q = r[i].pid
      BY <2>8, <2>11
    <3>2. i \in 1..(n + 1 - a) /\ a + i \in 1..(n + 1) /\ r[i] = w[a + i]
      BY <2>6, <3>1
    <3>3. a + i # n + 1
      BY <1>4, <2>3, <2>11, <3>1, <3>2
    <3>4. a + i \in 1..n /\ r[i] = store[a + i]
      BY <2>3, <3>2, <3>3
    <3>5. QED
      BY <1>1, <2>2, <2>7, <3>1, <3>4, RecallIs
  <2>12. ASSUME NEW q, q # p, q \notin Pids_of(r)
         PROVE  Recall(r, q) = Nothing /\ (q \notin Pids_of(store) => Recall(store, q) = Nothing)
    BY <2>7, <2>12, RecallIs
  <2>13. QED
    BY <1>5, <2>7, <2>10, <2>11, <2>12
<1>8. QED
  BY <1>6, <1>7

-----------------------------------------------------------------------------
(* A line and the memory *)

(* What a line does to the memory of every pid, unless it is cut. *)
LEMMA LearnIs ==
    ASSUME NEW mem \in Memory, NEW line \in LogLines
    PROVE  /\ Learn(mem, line) \in Memory
           /\ Cut(mem, line) \subseteq Pids
           /\ \A kind \in Kinds, q \in Pids :
                 /\ Val(Learn(mem, line), kind, q) \in {After(kind, line, q, Val(mem, kind, q)), Nothing}
                 /\ q \notin Cut(mem, line) =>
                      Val(Learn(mem, line), kind, q) = After(kind, line, q, Val(mem, kind, q))
<1>1. /\ mem.user \in Stores /\ mem.rnfr \in Stores
      /\ mem = [user |-> mem.user, rnfr |-> mem.rnfr]
      /\ line.pid \in Pids /\ line.val \in Values
  BY DEF Memory, LogLines
<1>2. PICK l : l = Learn(mem, line)
  OBVIOUS
<1>3. PICK p \in Pids : p = line.pid
  BY <1>1
<1>4. Pids_of(mem.user) \subseteq Pids /\ Pids_of(mem.rnfr) \subseteq Pids
  BY <1>1, RecallIs
<1>5. Cut(mem, line) \subseteq Pids
  BY <1>4 DEF Cut
<1>6. CASE line.cmd = "USER"
  <2>1. PICK s : s = Remember(mem.user, p, line.val)
    OBVIOUS
  <2>2. l = [user |-> s, rnfr |-> mem.rnfr]
    BY <1>1, <1>2, <1>3, <1>6, <2>1 DEF Learn
  <2>3. /\ s \in Stores /\ Recall(s, p) = line.val
        /\ \A q : q # p => Recall(s, q) =
             IF q \in Pids_of(mem.user) \ Pids_of(s) THEN Nothing ELSE Recall(mem.user, q)
    BY <1>1, <2>1, RememberIs
  <2>4. Cut(mem, line) = Pids_of(mem.user) \ Pids_of(s)
    BY <1>2, <1>6, <2>2 DEF Cut
  <2>5. ASSUME NEW kind \in Kinds, NEW q \in Pids
        PROVE  /\ Val(l, kind, q) \in {After(kind, line, q, Val(mem, kind, q)), Nothing}
               /\ q \notin Cut(mem, line) => Val(l, kind, q) = After(kind, line, q, Val(mem, kind, q))
    BY <1>3, <1>6, <2>2, <2>3, <2>4 DEF Kinds, Val, After, Gives, Takes
  <2>6. QED
    BY <1>1, <1>2, <1>5, <2>2, <2>3, <2>5 DEF Memory
<1>7. CASE line.cmd = "RNFR"
  <2>1. PICK s : s = Remember(mem.rnfr, p, line.val)
    OBVIOUS
  <2>2. l = [user |-> mem.user, rnfr |-> s]
    BY <1>1, <1>2, <1>3, <1>7, <2>1 DEF Learn
  <2>3. /\ s \in Stores /\ Recall(s, p) = line.val
        /\ \A q : q # p => Recall(s, q) =
             IF q \in Pids_of(mem.rnfr) \ Pids_of(s) THEN Nothing ELSE Recall(mem.rnfr, q)
    BY <1>1, <2>1, RememberIs
  <2>4. Cut(mem, line) = Pids_of(mem.rnfr) \ Pids_of(s)
    BY <1>2, <1>7, <2>2 DEF Cut
  <2>5. ASSUME NEW kind \in Kinds, NEW q \in Pids
        PROVE  /\ Val(l, kind, q) \in {After(kind, line, q, Val(mem, kind, q)), Nothing}
               /\ q \notin Cut(mem, line) => Val(l, kind, q) = After(kind, line, q, Val(mem, kind, q))
    BY <1>3, <1>7, <2>2, <2>3, <2>4 DEF Kinds, Val, After, Gives, Takes
  <2>6. QED
    BY <1>1, <1>2, <1>5, <2>2, <2>3, <2>5 DEF Memory
<1>8. CASE line.cmd \in {"PASS", "QUIT"}
  <2>1. PICK s : s = Drop(mem.user, p)
    OBVIOUS
  <2>2. l = [user |-> s, rnfr |-> mem.rnfr]
    BY <1>1, <1>2, <1>3, <1>8, <2>1 DEF Learn
  <2>3. s \in Stores /\ \A q : Recall(s, q) = IF q = p THEN Nothing ELSE Recall(mem.user, q)
    BY <1>1, <2>1, DropIs
  <2>4. ASSUME NEW kind \in Kinds, NEW q \in Pids
        PROVE  Val(l, kind, q) = After(kind, line, q, Val(mem, kind, q))
    BY <1>3, <1>8, <2>2, <2>3 DEF Kinds, Val, After, Gives, Takes
  <2>5. QED
    BY <1>1, <1>2, <1>5, <2>2, <2>3, <2>4 DEF Memory
<1>9. CASE line.cmd = "RNTO" /\ line.code = "250"
  <2>1. PICK s : s = Drop(mem.rnfr, p)
    OBVIOUS
  <2>2. l = [user |-> mem.user, rnfr |-> s]
    BY <1>1, <1>2, <1>3, <1>9, <2>1 DEF Learn
  <2>3. s \in Stores /\ \A q : Recall(s, q) = IF q = p THEN Nothing ELSE Recall(mem.rnfr, q)
    BY <1>1, <2>1, DropIs
  <2>4. ASSUME NEW kind \in Kinds, NEW q \in Pids
        PROVE  Val(l, kind, q) = After(kind, line, q, Val(mem, kind, q))
    BY <1>3, <1>9, <2>2, <2>3 DEF Kinds, Val, After, Gives, Takes
  <2>5. QED
    BY <1>1, <1>2, <1>5, <2>2, <2>3, <2>4 DEF Memory
<1>10. CASE line.cmd \notin {"USER", "RNFR", "PASS", "QUIT"} /\ ~ (line.cmd = "RNTO" /\ line.code = "250")
  <2>1. l = mem
    BY <1>2, <1>10 DEF Learn
  <2>2. ASSUME NEW kind \in Kinds, NEW q \in Pids
        PROVE  After(kind, line, q, Val(mem, kind, q)) = Val(mem, kind, q)
    BY <1>10 DEF Kinds, After, Gives, Takes
  <2>3. QED
    BY <1>2, <1>5, <2>1, <2>2
<1>11. QED
  BY <1>6, <1>7, <1>8, <1>9, <1>10

(* An entry tells of its line; a line has at most one. *)
LEMMA ParseOne ==
    ASSUME NEW mem, NEW line
    PROVE  /\ \A e \in Parse(mem, line) : e.ev = line.ev /\ e.pid = line.pid
           /\ \A d, e \in Parse(mem, line) : d = e
<1>1. CASE line.cmd = "SIMPLE"
  <2> DEFINE A == {x \in DOMAIN SimpleActions : SimpleActions[x] = line.code}
  <2>1. Parse(mem, line) = {Entry(line, a, Nothing) : a \in A}
    BY <1>1 DEF Parse
  <2>2. \A a, b \in A : a = b
    BY DEF SimpleActions
  <2> HIDE DEF A
  <2>3. QED
    BY <2>1, <2>2 DEF Entry
<1>2. CASE line.cmd # "SIMPLE"
  BY <1>2 DEF Parse, Refused, ParseTransfer, Entry
<1>3. QED
  BY <1>1, <1>2

(* The entry of a line depends on what is known of its own pid, if at all. *)
LEMMA ParseSame ==
    ASSUME NEW mem, NEW other, NEW line,
           line.cmd = "PASS" => Val(mem, "USER", line.pid) = Val(other, "USER", line.pid),
           line.cmd = "RNTO" /\ line.code = "250" => Val(mem, "RNFR", line.pid) = Val(other, "RNFR", line.pid)
    PROVE  Parse(mem, line) = Parse(other, line)
<1>1. line.cmd = "PASS" => AccountOf(mem, line) = AccountOf(other, line)
  BY DEF Val, AccountOf
<1>2. line.cmd = "RNTO" /\ line.code = "250" => Recall(mem.rnfr, line.pid) = Recall(other.rnfr, line.pid)
  BY DEF Val
<1>3. CASE line.cmd = "PASS"
  BY <1>1, <1>3 DEF Parse
<1>4. CASE line.cmd = "RNTO"
  <2>1. CASE line.code = "250"
    BY <1>2, <1>4, <2>1 DEF Parse
  <2>2. CASE line.code # "250"
    BY <1>4, <2>2 DEF Parse
  <2>3. QED
    BY <2>1, <2>2
<1>5. CASE line.cmd \notin {"PASS", "RNTO"}
  BY <1>5 DEF Parse
<1>6. QED
  BY <1>3, <1>4, <1>5

(* A line that takes something from the memory makes an entry, unless      *)
(* there is nothing to take for a failed login.                            *)
LEMMA ParseTakes ==
    ASSUME NEW mem, NEW line, LineOK(line), NEW kind \in Kinds, Takes(kind, line),
           line.cmd = "PASS" => Val(mem, "USER", line.pid) # Nothing
    PROVE  Parse(mem, line) # {}
BY DEF Parse, LineOK, Takes, Kinds, Val, AccountOf, Entry

(* Only a failed login and a rename take a name from the memory. *)
LEMMA ParseNames ==
    ASSUME NEW mem, NEW line, NEW e \in Parse(mem, line), e.action \in {"login_fail", "rename"}
    PROVE  \/ line.cmd = "PASS" /\ e.val = Val(mem, "USER", line.pid) /\ e.val # Nothing
           \/ line.cmd = "RNTO" /\ line.code = "250" /\ e.val = Val(mem, "RNFR", line.pid)
<1>1. CASE line.cmd = "SIMPLE"
  <2> DEFINE A == {x \in DOMAIN SimpleActions : SimpleActions[x] = line.code}
  <2>1. Parse(mem, line) = {Entry(line, a, Nothing) : a \in A}
    BY <1>1 DEF Parse
  <2>2. \A a \in A : a \in {"mkdir", "rmdir", "cwd_fail"}
    BY DEF SimpleActions
  <2> HIDE DEF A
  <2>3. QED
    BY <2>1, <2>2 DEF Entry
<1>2. CASE line.cmd # "SIMPLE"
  BY <1>2 DEF Parse, Refused, ParseTransfer, Entry, AccountOf, Val
<1>3. QED
  BY <1>1, <1>2

-----------------------------------------------------------------------------
(* What the log says *)

(* A line changes what is known of a pid as it changes the memory. *)
LEMMA KnownStep ==
    ASSUME NEW lines \in Seq(LogLines), NEW h \in 0..(Len(lines) - 1), NEW kind \in Kinds, NEW p, NEW v,
           IsKnown(lines, h, kind, p, v)
    PROVE  IsKnown(lines, h + 1, kind, p, After(kind, lines[h + 1], p, v))
<1>1. PICK l : l = lines[h + 1]
  OBVIOUS
<1>2. Len(lines) \in Nat /\ h \in Nat /\ h + 1 \in 1..(h + 1)
  OBVIOUS
<1>3. CASE l.pid = p /\ Gives(kind, l)
  <2>1. Given(lines, h + 1, kind, p, h + 1)
    BY <1>1, <1>2, <1>3 DEF Given
  <2>2. After(kind, l, p, v) = l.val
    BY <1>3 DEF After
  <2>3. QED
    BY <1>1, <1>2, <2>1, <2>2 DEF IsKnown
<1>4. CASE l.pid = p /\ Takes(kind, l)
  <2>1. ~ Gives(kind, l)
    BY <1>4 DEF Gives, Takes, Kinds
  <2>2. After(kind, l, p, v) = Nothing
    BY <1>4, <2>1 DEF After
  <2>3. Taken(lines, h + 1, kind, p)
    <3>1. SUFFICES ASSUME NEW k \in 1..(h + 1), lines[k].pid = p, Gives(kind, lines[k])
                   PROVE  \E t \in (k + 1)..(h + 1) : lines[t].pid = p /\ Takes(kind, lines[t])
      BY DEF Taken
    <3>2. k # h + 1
      BY <1>1, <2>1, <3>1
    <3>3. h + 1 \in (k + 1)..(h + 1)
      BY <1>2, <3>2
    <3>4. QED
      BY <1>1, <1>4, <3>3
  <2>4. QED
    BY <1>1, <2>2, <2>3 DEF IsKnown
<1>5. CASE l.pid # p \/ (~ Gives(kind, l) /\ ~ Takes(kind, l))
  <2>1. After(kind, l, p, v) = v
    BY <1>5 DEF After
  <2>2. CASE v = Nothing /\ Taken(lines, h, kind, p)
    <3>1. Taken(lines, h + 1, kind, p)
      <4>1. SUFFICES ASSUME NEW k \in 1..(h + 1), lines[k].pid = p, Gives(kind, lines[k])
                     PROVE  \E t \in (k + 1)..(h + 1) : lines[t].pid = p /\ Takes(kind, lines[t])
        BY DEF Taken
      <4>2. k # h + 1
        BY <1>1, <1>5, <4>1
      <4>3. k \in 1..h
        BY <1>2, <4>2
      <4>4. PICK t \in (k + 1)..h : lines[t].pid = p /\ Takes(kind, lines[t])
        BY <2>2, <4>1, <4>3 DEF Taken
      <4>5. QED
        BY <1>2, <4>3, <4>4
    <3>2. QED
      BY <1>1, <2>1, <2>2, <3>1 DEF IsKnown
  <2>3. CASE \E k \in 1..h : Given(lines, h, kind, p, k) /\ v = lines[k].val
    <3>1. PICK k \in 1..h : Given(lines, h, kind, p, k) /\ v = lines[k].val
      BY <2>3
    <3>2. k \in 1..(h + 1)
      BY <1>2
    <3>3. ASSUME NEW t \in (k + 1)..(h + 1), lines[t].pid = p
          PROVE  ~ Gives(kind, lines[t]) /\ ~ Takes(kind, lines[t])
      <4>1. CASE t = h + 1
        BY <1>1, <1>5, <3>3, <4>1
      <4>2. CASE t # h + 1
        <5>1. t \in (k + 1)..h
          BY <1>2, <4>2
        <5>2. QED
          BY <3>1, <3>3, <5>1 DEF Given
      <4>3. QED
        BY <4>1, <4>2
    <3>4. Given(lines, h + 1, kind, p, k)
      BY <3>1, <3>2, <3>3 DEF Given
    <3>5. QED
      BY <1>1, <2>1, <3>1, <3>2, <3>4 DEF IsKnown
  <2>4. QED
    BY <2>2, <2>3 DEF IsKnown
<1>6. QED
  BY <1>3, <1>4, <1>5

(* What the log gives is what is known. *)
LEMMA KnownGiven ==
    ASSUME NEW lines, NEW h \in Nat, NEW kind \in Kinds, NEW p, NEW v, NEW k \in 1..h,
           IsKnown(lines, h, kind, p, v), Given(lines, h, kind, p, k)
    PROVE  v = lines[k].val
<1>1. /\ lines[k].pid = p /\ Gives(kind, lines[k])
      /\ \A t \in (k + 1)..h : lines[t].pid = p => ~ Gives(kind, lines[t]) /\ ~ Takes(kind, lines[t])
  BY DEF Given
<1>2. ~ Taken(lines, h, kind, p)
  BY <1>1 DEF Taken
<1>3. PICK j \in 1..h : Given(lines, h, kind, p, j) /\ v = lines[j].val
  BY <1>2 DEF IsKnown
<1>4. /\ lines[j].pid = p /\ Gives(kind, lines[j])
      /\ \A t \in (j + 1)..h : lines[t].pid = p => ~ Gives(kind, lines[t]) /\ ~ Takes(kind, lines[t])
  BY <1>3 DEF Given
<1>5. ~ (j \in (k + 1)..h) /\ ~ (k \in (j + 1)..h)
  BY <1>1, <1>4
<1>6. j = k
  BY <1>5
<1>7. QED
  BY <1>3, <1>6

(* It is the latest the client sent. *)
LEMMA LatestGiven ==
    ASSUME NEW lines, NEW n \in Nat \ {0}, NEW kind \in Kinds, NEW k \in 1..(n - 1),
           Given(lines, n - 1, kind, lines[n].pid, k)
    PROVE  Recall(Latest(lines, n, kind), lines[n].pid) = lines[k].val
<1> DEFINE before == {x \in 1..(n - 1) : lines[x].pid = lines[n].pid /\ lines[x].cmd = kind}
           m == CHOOSE x \in before : \A y \in before : y <= x
<1>1. k \in before /\ \A y \in before : y <= k
  BY DEF Given, Gives
<1>2. m \in before /\ \A y \in before : y <= m
  BY <1>1, Zenon
<1>3. m = k
  <2>1. m <= k /\ k <= m /\ m \in Nat /\ k \in Nat
    BY <1>1, <1>2
  <2>2. QED
    BY <2>1
<1>4. PICK e : e = [pid |-> lines[n].pid, val |-> lines[k].val]
  OBVIOUS
<1>5. Latest(lines, n, kind) = <<e>>
  <2>1. Latest(lines, n, kind) = IF before = {} THEN <<>> ELSE <<[pid |-> lines[n].pid, val |-> lines[m].val]>>
    BY Zenon DEF Latest
  <2>2. QED
    BY <1>1, <1>3, <1>4, <2>1
<1>6. PICK s : s = <<e>>
  OBVIOUS
<1>7. DOMAIN s = {1} /\ s[1] = e
  BY <1>6
<1>8. Pids_of(s) = {lines[n].pid} /\ {s[i] : i \in DOMAIN s} = {e}
  BY <1>4, <1>7 DEF Pids_of
<1>9. Recall(s, lines[n].pid) = (CHOOSE x \in {e} : x.pid = lines[n].pid).val
  BY <1>8, Zenon DEF Recall
<1>10. (CHOOSE x \in {e} : x.pid = lines[n].pid) = e
  BY <1>4
<1>11. QED
  BY <1>4, <1>5, <1>6, <1>9, <1>10

(* Given the account or path that is known of its pid, a line makes the    *)
(* entry that is expected of it.                                           *)
LEMMA OwnEntry ==
    ASSUME NEW lines, LogOK(lines), NEW n \in 1..Len(lines), NEW mem,
           \A kind \in Kinds : Takes(kind, lines[n]) =>
               IsKnown(lines, n - 1, kind, lines[n].pid, Val(mem, kind, lines[n].pid))
    PROVE  /\ Parse(mem, lines[n]) = Expected(lines, n)
           /\ lines[n].cmd = "PASS" => Val(mem, "USER", lines[n].pid) # Nothing
<1>1. lines \in Seq(LogLines) /\ LineOK(lines[n]) /\ Paired(lines, n)
  BY DEF LogOK
<1>2. PICK p : p = lines[n].pid
  OBVIOUS
<1>3. PICK full : full = [user |-> Latest(lines, n, "USER"), rnfr |-> Latest(lines, n, "RNFR")]
  OBVIOUS
<1>4. n \in Nat \ {0} /\ n - 1 \in Nat /\ {"USER", "RNFR"} = Kinds
  BY <1>1 DEF Kinds
<1>5. ASSUME lines[n].cmd = "PASS"
      PROVE  Val(full, "USER", p) = Val(mem, "USER", p) /\ Val(mem, "USER", p) # Nothing
  <2>1. PICK k \in 1..(n - 1) : Given(lines, n - 1, "USER", p, k)
    BY <1>1, <1>2, <1>5 DEF Paired
  <2>2. Val(mem, "USER", p) = lines[k].val
    <3>1. "USER" \in Kinds /\ Takes("USER", lines[n])
      BY <1>5 DEF Kinds, Takes
    <3>2. QED
      BY <1>2, <1>4, <2>1, <3>1, KnownGiven
  <2>3. Val(full, "USER", p) = lines[k].val
    BY <1>2, <1>3, <1>4, <2>1, LatestGiven DEF Val
  <2>4. lines[k].val \in Accounts
    <3>1. k \in 1..Len(lines) /\ lines[k].cmd = "USER"
      BY <1>1, <2>1 DEF Given, Gives
    <3>2. QED
      BY <3>1 DEF LogOK, LineOK
  <2>5. QED
    BY <2>2, <2>3, <2>4, ParserAssumption
<1>6. ASSUME lines[n].cmd = "RNTO" /\ lines[n].code = "250"
      PROVE  Val(full, "RNFR", p) = Val(mem, "RNFR", p)
  <2>1. PICK k \in 1..(n - 1) : Given(lines, n - 1, "RNFR", p, k)
    BY <1>1, <1>2, <1>6 DEF Paired
  <2>2. Val(mem, "RNFR", p) = lines[k].val
    <3>1. "RNFR" \in Kinds /\ Takes("RNFR", lines[n])
      BY <1>6 DEF Kinds, Takes
    <3>2. QED
      BY <1>2, <1>4, <2>1, <3>1, KnownGiven
  <2>3. Val(full, "RNFR", p) = lines[k].val
    BY <1>2, <1>3, <1>4, <2>1, LatestGiven DEF Val
  <2>4. QED
    BY <2>2, <2>3
<1>7. Parse(full, lines[n]) = Parse(mem, lines[n])
  BY <1>2, <1>5, <1>6, ParseSame
<1>8. QED
  BY <1>2, <1>3, <1>5, <1>7 DEF Expected

(* With nothing known, no wrong name is told. *)
LEMMA OwnOrNone ==
    ASSUME NEW lines, LogOK(lines), NEW n \in 1..Len(lines), NEW mem,
           \A kind \in Kinds : \/ IsKnown(lines, n - 1, kind, lines[n].pid, Val(mem, kind, lines[n].pid))
                               \/ Val(mem, kind, lines[n].pid) = Nothing,
           NEW e \in Parse(mem, lines[n]), e.action \in {"login_fail", "rename"}
    PROVE  \E x \in Expected(lines, n) : e.val \in {x.val, Nothing}
<1>0. PICK p : p = lines[n].pid
  OBVIOUS
<1>1. "USER" \in Kinds /\ "RNFR" \in Kinds
  BY DEF Kinds
<1>2. CASE lines[n].cmd = "PASS" /\ e.val = Val(mem, "USER", p) /\ e.val # Nothing
  <2>1. IsKnown(lines, n - 1, "USER", p, Val(mem, "USER", p))
    BY <1>0, <1>1, <1>2
  <2>2. Parse(mem, lines[n]) = Expected(lines, n)
    <3>1. \A kind \in Kinds : Takes(kind, lines[n]) => kind = "USER"
      BY <1>2 DEF Kinds, Takes
    <3>2. QED
      BY <1>0, <2>1, <3>1, OwnEntry
  <2>3. QED
    BY <2>2
<1>3. CASE lines[n].cmd = "RNTO" /\ lines[n].code = "250" /\ e.val = Val(mem, "RNFR", p)
  <2>1. CASE IsKnown(lines, n - 1, "RNFR", p, Val(mem, "RNFR", p))
    <3>1. \A kind \in Kinds : Takes(kind, lines[n]) => kind = "RNFR"
      BY <1>3 DEF Kinds, Takes
    <3>2. Parse(mem, lines[n]) = Expected(lines, n)
      BY <1>0, <2>1, <3>1, OwnEntry
    <3>3. QED
      BY <3>2
  <2>2. CASE Val(mem, "RNFR", p) = Nothing
    <3>1. Expected(lines, n) # {}
      BY <1>3 DEF Expected, Parse
    <3>2. QED
      BY <1>3, <2>2, <3>1
  <2>3. QED
    BY <1>0, <1>1, <2>1, <2>2
<1>4. QED
  BY <1>0, <1>2, <1>3, ParseNames

(* What was known of the log stays so when it grows. *)
LEMMA LongerKnown ==
    ASSUME NEW lines, NEW more, Longer(lines, more), NEW h \in 0..Len(lines), NEW kind, NEW p
    PROVE  /\ \A k : Given(more, h, kind, p, k) <=> Given(lines, h, kind, p, k)
           /\ \A v : IsKnown(more, h, kind, p, v) <=> IsKnown(lines, h, kind, p, v)
<1>1. Len(lines) \in Nat /\ \A i \in 1..h : more[i] = lines[i]
  BY DEF Longer
<1>2. ASSUME NEW k PROVE Given(more, h, kind, p, k) <=> Given(lines, h, kind, p, k)
  <2>1. k \in 1..h => \A t \in (k + 1)..h : t \in 1..h
    BY <1>1
  <2>2. QED
    BY <1>1, <2>1 DEF Given
<1>3. Taken(more, h, kind, p) <=> Taken(lines, h, kind, p)
  <2>1. \A k \in 1..h : \A t \in (k + 1)..h : t \in 1..h
    BY <1>1
  <2>2. QED
    BY <1>1, <2>1 DEF Taken
<1>4. QED
  BY <1>1, <1>2, <1>3 DEF IsKnown

(* So does the entry that is expected of a line. *)
LEMMA LongerExpected ==
    ASSUME NEW lines, NEW more, Longer(lines, more), LogOK(lines), NEW n \in 1..Len(lines)
    PROVE  Expected(more, n) = Expected(lines, n)
<1>1. n \in Nat \ {0} /\ n - 1 \in 0..Len(lines) /\ more[n] = lines[n] /\ Paired(lines, n)
  BY DEF Longer, LogOK
<1>2. PICK p : p = lines[n].pid
  OBVIOUS
<1>3. ASSUME NEW kind \in Kinds, NEW k \in 1..(n - 1), Given(lines, n - 1, kind, p, k)
      PROVE  Recall(Latest(more, n, kind), p) = Recall(Latest(lines, n, kind), p)
  <2>1. Given(more, n - 1, kind, p, k)
    BY <1>1, <1>3, LongerKnown
  <2>2. Recall(Latest(lines, n, kind), p) = lines[k].val
    BY <1>1, <1>2, <1>3, LatestGiven
  <2>3. Recall(Latest(more, n, kind), p) = more[k].val
    BY <1>1, <1>2, <2>1, LatestGiven
  <2>4. more[k] = lines[k]
    BY <1>1 DEF Longer
  <2>5. QED
    BY <2>2, <2>3, <2>4
<1>4. PICK full : full = [user |-> Latest(lines, n, "USER"), rnfr |-> Latest(lines, n, "RNFR")]
  OBVIOUS
<1>5. PICK fuller : fuller = [user |-> Latest(more, n, "USER"), rnfr |-> Latest(more, n, "RNFR")]
  OBVIOUS
<1>6. ASSUME lines[n].cmd = "PASS" PROVE Val(fuller, "USER", p) = Val(full, "USER", p)
  BY <1>1, <1>2, <1>3, <1>4, <1>5, <1>6 DEF Paired, Val, Kinds
<1>7. ASSUME lines[n].cmd = "RNTO" PROVE Val(fuller, "RNFR", p) = Val(full, "RNFR", p)
  BY <1>1, <1>2, <1>3, <1>4, <1>5, <1>7 DEF Paired, Val, Kinds
<1>8. Parse(fuller, lines[n]) = Parse(full, lines[n])
  BY <1>2, <1>6, <1>7, ParseSame
<1>9. QED
  BY <1>1, <1>4, <1>5, <1>8 DEF Expected

-----------------------------------------------------------------------------
(* The parser over some lines *)

(* There is a sequence of memories, each learnt from the one before. *)
Learnt(f, mem, lines, n) == f = [i \in 0..n |-> IF i = 0 THEN mem ELSE Learn(f[i - 1], lines[i])]

LEMMA MemoriesExist ==
    ASSUME NEW mem, NEW lines, NEW n \in Nat
    PROVE  \E f : Learnt(f, mem, lines, n)
<1> DEFINE F(f, k) == Learnt(f, mem, lines, k)
           T == {k \in Nat : \E f : F(f, k)}
<1>1. 0 \in T
  <2>1. F([i \in 0..0 |-> mem], 0)
    BY DEF Learnt
  <2>2. QED
    BY <2>1
<1>2. ASSUME NEW k \in T PROVE k + 1 \in T
  <2>1. k \in Nat
    OBVIOUS
  <2>2. PICK f : F(f, k)
    BY <1>2
  <2>3. DOMAIN f = 0..k /\ \A i \in 0..k : f[i] = IF i = 0 THEN mem ELSE Learn(f[i - 1], lines[i])
    BY <2>2 DEF Learnt
  <2> DEFINE g == [i \in 0..(k + 1) |-> IF i = k + 1 THEN Learn(f[k], lines[k + 1]) ELSE f[i]]
  <2>4. \A i \in 0..(k + 1) : g[i] = IF i = 0 THEN mem ELSE Learn(g[i - 1], lines[i])
    <3>1. SUFFICES ASSUME NEW i \in 0..(k + 1)
                   PROVE  g[i] = IF i = 0 THEN mem ELSE Learn(g[i - 1], lines[i])
      OBVIOUS
    <3>2. CASE i = k + 1
      <4>1. i # 0 /\ i - 1 = k /\ k \in 0..(k + 1) /\ k # k + 1
        BY <2>1, <3>2
      <4>2. g[i - 1] = f[k] /\ g[i] = Learn(f[k], lines[k + 1])
        BY <3>2, <4>1
      <4>3. QED
        BY <3>2, <4>1, <4>2
    <3>3. CASE i # k + 1
      <4>1. i \in 0..k /\ g[i] = f[i]
        BY <2>1, <3>3
      <4>2. i # 0 => g[i - 1] = f[i - 1]
        BY <2>1, <3>3
      <4>3. QED
        BY <2>3, <4>1, <4>2
    <3>4. QED
      BY <3>2, <3>3
  <2>5. F(g, k + 1)
    BY <2>4 DEF Learnt
  <2>6. \E x : F(x, k + 1)
    <3> HIDE DEF F, g
    <3>1. QED
      BY <2>5
  <2>7. QED
    BY <2>1, <2>6
<1>3. T = Nat
  <2>1. T \in SUBSET Nat
    OBVIOUS
  <2> HIDE DEF T
  <2>2. QED
    BY <1>1, <1>2, <2>1, SetInduction
<1>4. QED
  BY <1>3

(* The memory before and after each line. *)
LEMMA MemoriesIs ==
    ASSUME NEW mem \in Memory, NEW lines \in Seq(LogLines)
    PROVE  /\ Memories(mem, lines)[0] = mem
           /\ \A i \in 1..Len(lines) : Memories(mem, lines)[i] = Learn(Memories(mem, lines)[i - 1], lines[i])
           /\ \A i \in 0..Len(lines) : Memories(mem, lines)[i] \in Memory
<1>1. PICK n \in Nat : n = Len(lines)
  OBVIOUS
<1>2. Memories(mem, lines) = CHOOSE f : Learnt(f, mem, lines, Len(lines))
  BY Zenon DEF Memories, Learnt
<1>3. PICK m : m = Memories(mem, lines)
  OBVIOUS
<1>4. Learnt(m, mem, lines, n)
  <2>1. \E f : Learnt(f, mem, lines, n)
    BY MemoriesExist
  <2>2. QED
    BY <1>1, <1>2, <1>3, <2>1, Zenon
<1>5. m[0] = mem /\ \A i \in 1..n : m[i] = Learn(m[i - 1], lines[i])
  BY <1>4 DEF Learnt
<1>6. \A i \in 0..n : m[i] \in Memory
  <2> DEFINE T == {k \in Nat : k <= n => m[k] \in Memory}
  <2>1. 0 \in T
    BY <1>5
  <2>2. ASSUME NEW k \in T PROVE k + 1 \in T
    <3>1. SUFFICES ASSUME k + 1 <= n PROVE m[k + 1] \in Memory
      OBVIOUS
    <3>2. m[k] \in Memory /\ k + 1 \in 1..n /\ (k + 1) - 1 = k
      BY <1>1, <2>2, <3>1
    <3>3. m[k + 1] = Learn(m[k], lines[k + 1])
      BY <1>5, <3>2
    <3>4. lines[k + 1] \in LogLines
      BY <1>1, <3>2
    <3>5. QED
      BY <3>2, <3>3, <3>4, LearnIs
  <2>3. T = Nat
    <3>1. T \in SUBSET Nat
      OBVIOUS
    <3> HIDE DEF T
    <3>2. QED
      BY <2>1, <2>2, <3>1, SetInduction
  <2>4. QED
    BY <2>3
<1>7. QED
  BY <1>1, <1>3, <1>5, <1>6

(* Lines c + 1 to z are read with a memory that has read up to h already   *)
(* and holds what the log says of p there.  Where p loses nothing by the   *)
(* first reading, the second one ends with what the log says at z.         *)
Reading(lines, c, z, m) ==
    /\ LogOK(lines) /\ c \in Nat /\ z \in c..Len(lines)
    /\ m[0] \in Memory
    /\ \A i \in 1..(z - c) : m[i - 1] \in Memory /\ m[i] = Learn(m[i - 1], lines[c + i])

CutIn(lines, c, z, m) == UNION {Cut(m[i - 1], lines[c + i]) : i \in 1..(z - c)}
MadeIn(lines, c, z, m) == UNION {Parse(m[i - 1], lines[c + i]) : i \in 1..(z - c)}

LEMMA ReadAgain ==
    ASSUME NEW lines, NEW c, NEW z, NEW m, Reading(lines, c, z, m), NEW p \in Pids, NEW h \in c..z,
           ReadFits(lines, c, h, p, m[0]),
           \A i \in 1..(z - c) : p \notin Cut(m[i - 1], lines[c + i])
    PROVE  \A i \in 0..(z - c) : \A kind \in Kinds :
              \/ IsKnown(lines, c + i, kind, p, Val(m[i], kind, p))
              \/ c + i < h /\ IsKnown(lines, h, kind, p, Val(m[i], kind, p))
<1> DEFINE Q(i, kind) == \/ IsKnown(lines, c + i, kind, p, Val(m[i], kind, p))
                         \/ c + i < h /\ IsKnown(lines, h, kind, p, Val(m[i], kind, p))
           T == {i \in Nat : i <= z - c => \A kind \in Kinds : Q(i, kind)}
<1>1. /\ lines \in Seq(LogLines) /\ Len(lines) \in Nat /\ c \in Nat /\ z \in Nat /\ h \in Nat
      /\ c <= h /\ h <= z /\ z <= Len(lines)
  BY DEF Reading, LogOK
<1>2. 0 \in T
  <2>1. ASSUME NEW kind \in Kinds PROVE Q(0, kind)
    <3>1. IsKnown(lines, h, kind, p, Val(m[0], kind, p))
      BY DEF ReadFits
    <3>2. c + 0 = c /\ (c = h \/ c < h)
      BY <1>1
    <3>3. QED
      BY <3>1, <3>2
  <2>2. QED
    BY <2>1
<1>3. ASSUME NEW i \in T PROVE i + 1 \in T
  <2>1. SUFFICES ASSUME i + 1 <= z - c, NEW kind \in Kinds PROVE Q(i + 1, kind)
    OBVIOUS
  <2>2. i \in Nat /\ i + 1 \in 1..(z - c) /\ (i + 1) - 1 = i /\ i <= z - c
    BY <1>1, <2>1
  <2>3. Q(i, kind)
    BY <2>2
  <2>4. PICK l : l = lines[c + (i + 1)]
    OBVIOUS
  <2>5. /\ m[i] \in Memory /\ m[i + 1] = Learn(m[i], l) /\ p \notin Cut(m[i], l)
        /\ l \in LogLines
    <3>1. m[i] \in Memory /\ m[i + 1] = Learn(m[i], l) /\ p \notin Cut(m[i], l)
      BY <2>2, <2>4 DEF Reading
    <3>2. c + (i + 1) \in 1..Len(lines)
      BY <1>1, <2>1, <2>2
    <3>3. QED
      BY <1>1, <2>4, <3>1, <3>2
  <2>6. PICK v : v = Val(m[i], kind, p)
    OBVIOUS
  <2>7. PICK w : w = Val(m[i + 1], kind, p)
    OBVIOUS
  <2>8. w = After(kind, l, p, v)
    BY <2>5, <2>6, <2>7, LearnIs
  <2>9. PICK j \in Nat : j = c + i
    BY <1>1, <2>2
  <2>10. j \in 0..(Len(lines) - 1) /\ c + (i + 1) = j + 1
    BY <1>1, <2>1, <2>2, <2>9
  <2>11. CASE IsKnown(lines, j, kind, p, v)
    <3>1. IsKnown(lines, j + 1, kind, p, w)
      BY <1>1, <2>4, <2>8, <2>10, <2>11, KnownStep
    <3>2. QED
      BY <2>7, <2>10, <3>1
  <2>12. CASE j < h /\ IsKnown(lines, h, kind, p, v)
    <3>1. CASE l.pid = p /\ Gives(kind, l)
      <4>1. w = l.val
        BY <2>8, <3>1 DEF After
      <4>2. j + 1 \in 1..(j + 1) /\ Given(lines, j + 1, kind, p, j + 1)
        BY <2>4, <2>9, <2>10, <3>1 DEF Given
      <4>3. IsKnown(lines, j + 1, kind, p, w)
        BY <2>4, <2>10, <4>1, <4>2 DEF IsKnown
      <4>4. QED
        BY <2>7, <2>10, <4>3
    <3>2. CASE ~ (l.pid = p /\ Gives(kind, l))
      <4>1. ~ (l.pid = p /\ Takes(kind, l))
        <5>1. j + 1 \in (c + 1)..h
          BY <1>1, <2>2, <2>9, <2>12
        <5>2. QED
          BY <2>4, <2>10, <5>1 DEF ReadFits
      <4>2. w = v
        BY <2>8, <3>2, <4>1 DEF After
      <4>3. j + 1 = h \/ j + 1 < h
        BY <1>1, <2>9, <2>12
      <4>4. QED
        BY <2>7, <2>10, <2>12, <4>2, <4>3
    <3>3. QED
      BY <3>1, <3>2
  <2>13. QED
    BY <2>3, <2>6, <2>9, <2>11, <2>12
<1>4. T = Nat
  <2>1. T \in SUBSET Nat
    OBVIOUS
  <2> HIDE DEF T
  <2>2. QED
    BY <1>2, <1>3, <2>1, SetInduction
<1>5. QED
  BY <1>1, <1>4

(* The memory after the poll, and the entries of p in it. *)
LEMMA ReadOwn ==
    ASSUME NEW lines, NEW c, NEW z, NEW m, Reading(lines, c, z, m), NEW p \in Pids, NEW h \in c..z,
           ReadFits(lines, c, h, p, m[0]),
           \A i \in 1..(z - c) : p \notin Cut(m[i - 1], lines[c + i])
    PROVE  /\ \A kind \in Kinds : IsKnown(lines, z, kind, p, Val(m[z - c], kind, p))
           /\ \A i \in 1..(z - c) : lines[c + i].pid = p =>
                 /\ Parse(m[i - 1], lines[c + i]) = Expected(lines, c + i)
                 /\ \A kind \in Kinds : Takes(kind, lines[c + i]) => Expected(lines, c + i) # {}
<1>1. /\ lines \in Seq(LogLines) /\ Len(lines) \in Nat /\ c \in Nat /\ z \in Nat /\ h \in Nat
      /\ c <= h /\ h <= z /\ z <= Len(lines) /\ LogOK(lines)
  BY DEF Reading, LogOK
<1>2. ASSUME NEW i \in 0..(z - c), h <= c + i, NEW kind \in Kinds
      PROVE  IsKnown(lines, c + i, kind, p, Val(m[i], kind, p))
  <2>1. ~ (c + i < h)
    BY <1>1, <1>2
  <2>2. QED
    BY <2>1, ReadAgain
<1>3. ASSUME NEW kind \in Kinds PROVE IsKnown(lines, z, kind, p, Val(m[z - c], kind, p))
  <2>1. z - c \in 0..(z - c) /\ c + (z - c) = z /\ h <= c + (z - c)
    BY <1>1
  <2>2. IsKnown(lines, c + (z - c), kind, p, Val(m[z - c], kind, p))
    BY <1>2, <2>1
  <2>3. QED
    BY <2>1, <2>2
<1>4. ASSUME NEW i \in 1..(z - c), lines[c + i].pid = p
      PROVE  /\ Parse(m[i - 1], lines[c + i]) = Expected(lines, c + i)
             /\ \A kind \in Kinds : Takes(kind, lines[c + i]) => Expected(lines, c + i) # {}
  <2>1. PICK n : n = c + i
    OBVIOUS
  <2>2. n \in 1..Len(lines) /\ c + (i - 1) = n - 1 /\ i - 1 \in 0..(z - c) /\ n \in (c + 1)..z
    BY <1>1, <2>1
  <2>3. ASSUME NEW kind \in Kinds, Takes(kind, lines[n])
        PROVE  IsKnown(lines, n - 1, kind, p, Val(m[i - 1], kind, p))
    <3>1. n \notin (c + 1)..h
      BY <1>4, <2>1, <2>3 DEF ReadFits
    <3>2. h <= c + (i - 1)
      BY <1>1, <2>2, <3>1
    <3>3. QED
      BY <1>2, <2>2, <3>2
  <2>4. /\ Parse(m[i - 1], lines[n]) = Expected(lines, n)
        /\ lines[n].cmd = "PASS" => Val(m[i - 1], "USER", lines[n].pid) # Nothing
    BY <1>1, <1>4, <2>1, <2>2, <2>3, OwnEntry
  <2>5. LineOK(lines[n])
    BY <1>1, <2>2 DEF LogOK
  <2>6. ASSUME NEW kind \in Kinds, Takes(kind, lines[n]) PROVE Expected(lines, n) # {}
    BY <2>4, <2>5, <2>6, ParseTakes
  <2>7. QED
    BY <2>1, <2>4, <2>6
<1>5. QED
  BY <1>3, <1>4

(* What a longer log leaves as it was. *)
LEMMA LongerFits ==
    ASSUME NEW lines, NEW more, LogOK(lines), Longer(lines, more)
    PROVE  /\ \A c \in 0..Len(lines) : \A mem, lost :
                 MemoryFits(lines, c, mem, lost) => MemoryFits(more, c, mem, lost)
           /\ \A c \in 0..Len(lines) : \A mem, cut :
                 BulkKnows(lines, c, mem, cut) => BulkKnows(more, c, mem, cut)
           /\ \A c \in 0..Len(lines) : \A lost, told :
                 ToldFits(lines, c, lost, told) => ToldFits(more, c, lost, told)
           /\ \A lost, cut, e : EntryFits(lines, lost, cut, e) => EntryFits(more, lost, cut, e)
<1>1. /\ Len(lines) \in Nat /\ Len(more) \in Nat /\ Len(lines) <= Len(more)
      /\ \A i \in 1..Len(lines) : more[i] = lines[i]
  BY DEF Longer
<1>2. \A n \in 1..Len(lines) : Expected(more, n) = Expected(lines, n)
  BY LongerExpected
<1>3. \A h \in 0..Len(lines) : \A kind, p, v : IsKnown(lines, h, kind, p, v) => IsKnown(more, h, kind, p, v)
  BY LongerKnown
<1>4. ASSUME NEW c \in 0..Len(lines), NEW mem, NEW lost, MemoryFits(lines, c, mem, lost)
      PROVE  MemoryFits(more, c, mem, lost)
  <2>1. SUFFICES ASSUME NEW p \in Pids \ lost
                 PROVE  \E h \in c..Len(more) : h <= c + MaxLinesPerPoll /\ ReadFits(more, c, h, p, mem)
    BY DEF MemoryFits
  <2>2. PICK h \in c..Len(lines) : h <= c + MaxLinesPerPoll /\ ReadFits(lines, c, h, p, mem)
    BY <1>4 DEF MemoryFits
  <2>3. h \in c..Len(more) /\ h \in 0..Len(lines)
    BY <1>1
  <2>4. \A t \in (c + 1)..h : more[t] = lines[t]
    BY <1>1
  <2>5. ReadFits(more, c, h, p, mem)
    BY <1>3, <2>2, <2>3, <2>4 DEF ReadFits
  <2>6. QED
    BY <2>2, <2>3, <2>5
<1>5. ASSUME NEW c \in 0..Len(lines), NEW mem, NEW cut, BulkKnows(lines, c, mem, cut)
      PROVE  BulkKnows(more, c, mem, cut)
  BY <1>3, <1>5 DEF BulkKnows
<1>6. ASSUME NEW c \in 0..Len(lines), NEW lost, NEW told, ToldFits(lines, c, lost, told)
      PROVE  ToldFits(more, c, lost, told)
  <2>1. \A n \in 1..c : n \in 1..Len(lines)
    BY <1>1
  <2>2. QED
    BY <1>1, <1>2, <1>6, <2>1 DEF ToldFits
<1>7. ASSUME NEW lost, NEW cut, NEW e, EntryFits(lines, lost, cut, e)
      PROVE  EntryFits(more, lost, cut, e)
  <2>1. PICK n \in 1..Len(lines) :
          /\ e.ev = lines[n].ev /\ e.pid = lines[n].pid
          /\ e.pid \notin lost \cup cut => e \in Expected(lines, n)
          /\ e.pid \notin lost /\ e.action \in {"login_fail", "rename"} =>
               \E x \in Expected(lines, n) : e.val \in {x.val, Nothing}
    BY <1>7 DEF EntryFits
  <2>2. n \in 1..Len(more) /\ more[n] = lines[n] /\ Expected(more, n) = Expected(lines, n)
    BY <1>1, <1>2
  <2>3. QED
    BY <2>1, <2>2 DEF EntryFits
<1>8. QED
  BY <1>4, <1>5, <1>6, <1>7

(* What more losses and more entries leave as it was. *)
LEMMA LostFits ==
    ASSUME NEW lines, NEW lost, NEW more, lost \subseteq more, NEW cut, NEW cuts, cut \subseteq cuts
    PROVE  /\ \A c, mem : MemoryFits(lines, c, mem, lost) => MemoryFits(lines, c, mem, more)
           /\ \A c, told, all : told \subseteq all /\ ToldFits(lines, c, lost, told) =>
                                  ToldFits(lines, c, more, all)
           /\ \A e : EntryFits(lines, lost, cut, e) => EntryFits(lines, more, cuts, e)
<1>1. \A c, mem : MemoryFits(lines, c, mem, lost) => MemoryFits(lines, c, mem, more)
  BY DEF MemoryFits
<1>2. \A c, told, all : told \subseteq all /\ ToldFits(lines, c, lost, told) => ToldFits(lines, c, more, all)
  BY DEF ToldFits
<1>3. ASSUME NEW e, EntryFits(lines, lost, cut, e) PROVE EntryFits(lines, more, cuts, e)
  <2>1. /\ e.pid \notin more \cup cuts => e.pid \notin lost \cup cut
        /\ e.pid \notin more => e.pid \notin lost
    OBVIOUS
  <2>2. QED
    BY <1>3, <2>1 DEF EntryFits
<1>4. QED
  BY <1>1, <1>2, <1>3

(* A poll. *)
LEMMA PollFits ==
    ASSUME NEW lines, NEW c, NEW z, NEW m, Reading(lines, c, z, m),
           NEW lost, MemoryFits(lines, c, m[0], lost),
           z = Len(lines) \/ z = c + MaxLinesPerPoll, z <= c + MaxLinesPerPoll,
           NEW cut, cut = CutIn(lines, c, z, m),
           NEW made, made = MadeIn(lines, c, z, m)
    PROVE  /\ MemoryFits(lines, z, m[z - c], lost \cup cut)
           /\ \A more : /\ lost \cup cut \subseteq more
                        /\ \A i \in 1..(z - c) : lines[c + i].pid \notin more =>
                             \A kind \in Kinds : ~ Takes(kind, lines[c + i])
                        => MemoryFits(lines, c, m[z - c], more)
           /\ made = {} => MemoryFits(lines, c, m[z - c], lost \cup cut)
           /\ \A e \in made : \A cuts : EntryFits(lines, lost \cup cut, cuts, e)
           /\ \A told : ToldFits(lines, c, lost, told) => ToldFits(lines, z, lost \cup cut, told \cup made)
<1>1. /\ lines \in Seq(LogLines) /\ Len(lines) \in Nat /\ c \in Nat /\ z \in Nat
      /\ c <= z /\ z <= Len(lines) /\ LogOK(lines) /\ MaxLinesPerPoll \in Nat
  BY ParserAssumption DEF Reading, LogOK
<1>2. ASSUME NEW p \in Pids \ (lost \cup cut)
      PROVE  /\ \A kind \in Kinds : IsKnown(lines, z, kind, p, Val(m[z - c], kind, p))
             /\ \A i \in 1..(z - c) : lines[c + i].pid = p =>
                   /\ Parse(m[i - 1], lines[c + i]) = Expected(lines, c + i)
                   /\ \A kind \in Kinds : Takes(kind, lines[c + i]) => Expected(lines, c + i) # {}
  <2>1. PICK h \in c..Len(lines) : h <= c + MaxLinesPerPoll /\ ReadFits(lines, c, h, p, m[0])
    BY <1>2 DEF MemoryFits
  <2>2. h \in c..z
    BY <1>1, <2>1
  <2>3. \A i \in 1..(z - c) : p \notin Cut(m[i - 1], lines[c + i])
    BY <1>2 DEF CutIn
  <2>4. QED
    BY <2>1, <2>2, <2>3, ReadOwn
<1>3. MemoryFits(lines, z, m[z - c], lost \cup cut)
  <2>1. SUFFICES ASSUME NEW p \in Pids \ (lost \cup cut)
                 PROVE  \E h \in z..Len(lines) :
                           h <= z + MaxLinesPerPoll /\ ReadFits(lines, z, h, p, m[z - c])
    BY DEF MemoryFits
  <2>2. z \in z..Len(lines) /\ z <= z + MaxLinesPerPoll /\ (z + 1)..z = {}
    BY <1>1
  <2>3. ReadFits(lines, z, z, p, m[z - c])
    BY <1>2, <2>2 DEF ReadFits
  <2>4. QED
    BY <2>2, <2>3
<1>4. ASSUME NEW more, lost \cup cut \subseteq more,
             \A i \in 1..(z - c) : lines[c + i].pid \notin more =>
                \A kind \in Kinds : ~ Takes(kind, lines[c + i])
      PROVE  MemoryFits(lines, c, m[z - c], more)
  <2>1. SUFFICES ASSUME NEW p \in Pids \ more
                 PROVE  \E h \in c..Len(lines) :
                           h <= c + MaxLinesPerPoll /\ ReadFits(lines, c, h, p, m[z - c])
    BY DEF MemoryFits
  <2>2. z \in c..Len(lines) /\ z <= c + MaxLinesPerPoll
    BY <1>1
  <2>3. ASSUME NEW kind \in Kinds, NEW t \in (c + 1)..z, lines[t].pid = p
        PROVE  ~ Takes(kind, lines[t])
    <3>1. t - c \in 1..(z - c) /\ c + (t - c) = t
      BY <1>1
    <3>2. QED
      BY <1>4, <2>1, <2>3, <3>1
  <2>4. \A kind \in Kinds : IsKnown(lines, z, kind, p, Val(m[z - c], kind, p))
    BY <1>2, <1>4
  <2>5. ReadFits(lines, c, z, p, m[z - c])
    BY <2>3, <2>4 DEF ReadFits
  <2>6. QED
    BY <2>2, <2>5
<1>5. ASSUME NEW n \in (c + 1)..z
      PROVE  n - c \in 1..(z - c) /\ c + (n - c) = n /\ n \in 1..Len(lines) /\ lines[n] \in LogLines
  BY <1>1
<1>6. ASSUME made = {} PROVE MemoryFits(lines, c, m[z - c], lost \cup cut)
  <2>1. ASSUME NEW i \in 1..(z - c), lines[c + i].pid \notin lost \cup cut
        PROVE  \A kind \in Kinds : ~ Takes(kind, lines[c + i])
    <3>1. lines[c + i].pid \in Pids
      <4>1. c + i \in 1..Len(lines)
        BY <1>1
      <4>2. lines[c + i] \in LogLines
        BY <1>1, <4>1
      <4>3. QED
        BY <4>2 DEF LogLines
    <3>2. Parse(m[i - 1], lines[c + i]) = {}
      BY <1>6 DEF MadeIn
    <3>3. QED
      BY <1>2, <2>1, <3>1, <3>2
  <2>2. QED
    BY <1>4, <2>1
<1>7. ASSUME NEW e \in made, NEW cuts PROVE EntryFits(lines, lost \cup cut, cuts, e)
  <2>1. PICK i \in 1..(z - c) : e \in Parse(m[i - 1], lines[c + i])
    BY DEF MadeIn
  <2>2. PICK n : n = c + i
    OBVIOUS
  <2>3. n \in 1..Len(lines)
    BY <1>1, <2>2
  <2>4. lines[n].pid \in Pids
    <3>1. lines[n] \in LogLines
      BY <1>1, <2>3
    <3>2. QED
      BY <3>1 DEF LogLines
  <2>5. e.ev = lines[n].ev /\ e.pid = lines[n].pid
    BY <2>1, <2>2, ParseOne
  <2>6. e.pid \notin lost \cup cut => e \in Expected(lines, n)
    BY <1>2, <2>1, <2>2, <2>4, <2>5
  <2>7. QED
    BY <2>3, <2>5, <2>6 DEF EntryFits
<1>8. ASSUME NEW told, ToldFits(lines, c, lost, told)
      PROVE  ToldFits(lines, z, lost \cup cut, told \cup made)
  <2>1. SUFFICES ASSUME NEW n \in 1..z, lines[n].pid \notin lost \cup cut
                 PROVE  Expected(lines, n) \subseteq told \cup made
    BY DEF ToldFits
  <2>2. CASE n \in 1..c
    BY <1>8, <2>1, <2>2 DEF ToldFits
  <2>3. CASE n \notin 1..c
    <3>1. n \in (c + 1)..z
      BY <1>1, <2>3
    <3>2. PICK i \in 1..(z - c) : c + i = n
      BY <1>5, <3>1
    <3>3. lines[n].pid \in Pids
      BY <1>5, <3>1 DEF LogLines
    <3>4. Parse(m[i - 1], lines[c + i]) = Expected(lines, n)
      BY <1>2, <2>1, <3>2, <3>3
    <3>5. QED
      BY <3>4 DEF MadeIn
  <2>4. QED
    BY <2>2, <2>3
<1>9. QED
  BY <1>3, <1>4, <1>6, <1>7, <1>8

(* A line read by the import. *)
LEMMA BulkFits ==
    ASSUME NEW lines, LogOK(lines), NEW n \in 1..Len(lines), NEW mem \in Memory, NEW cut,
           BulkKnows(lines, n - 1, mem, cut), NEW cuts, cuts = cut \cup Cut(mem, lines[n])
    PROVE  /\ BulkKnows(lines, n, Learn(mem, lines[n]), cuts)
           /\ \A e \in Parse(mem, lines[n]) : \A lost : EntryFits(lines, lost, cuts, e)
           /\ \A told : ToldFits(lines, n - 1, cut, told) =>
                          ToldFits(lines, n, cuts, told \cup Parse(mem, lines[n]))
<1>1. lines \in Seq(LogLines) /\ n \in Nat \ {0} /\ n - 1 \in 0..(Len(lines) - 1) /\ (n - 1) + 1 = n
  BY DEF LogOK
<1>2. lines[n] \in LogLines
  BY <1>1
<1>3. PICK p \in Pids : p = lines[n].pid
  BY <1>2 DEF LogLines
<1>4. ASSUME NEW q \in Pids, NEW kind \in Kinds
      PROVE  \/ IsKnown(lines, n, kind, q, Val(Learn(mem, lines[n]), kind, q))
             \/ q \in cuts /\ Val(Learn(mem, lines[n]), kind, q) = Nothing
  <2>1. PICK v : v = Val(mem, kind, q)
    OBVIOUS
  <2>2. PICK w : w = Val(Learn(mem, lines[n]), kind, q)
    OBVIOUS
  <2>3. /\ w \in {After(kind, lines[n], q, v), Nothing}
        /\ q \notin Cut(mem, lines[n]) => w = After(kind, lines[n], q, v)
    BY <1>2, <2>1, <2>2, LearnIs
  <2>4. CASE IsKnown(lines, n - 1, kind, q, v)
    <3>1. IsKnown(lines, n, kind, q, After(kind, lines[n], q, v))
      BY <1>1, <2>4, KnownStep
    <3>2. QED
      BY <2>2, <2>3, <3>1
  <2>5. CASE q \in cut /\ v = Nothing
    <3>1. CASE lines[n].pid = q /\ Gives(kind, lines[n])
      <4>1. After(kind, lines[n], q, v) = lines[n].val
        BY <3>1 DEF After
      <4>2. n \in 1..n /\ Given(lines, n, kind, q, n)
        BY <1>1, <3>1 DEF Given
      <4>3. IsKnown(lines, n, kind, q, lines[n].val)
        BY <4>2 DEF IsKnown
      <4>4. QED
        BY <2>2, <2>3, <2>5, <4>1, <4>3
    <3>2. CASE ~ (lines[n].pid = q /\ Gives(kind, lines[n]))
      <4>1. After(kind, lines[n], q, v) = Nothing
        BY <2>5, <3>2 DEF After
      <4>2. QED
        BY <2>2, <2>3, <2>5, <4>1
    <3>3. QED
      BY <3>1, <3>2
  <2>6. QED
    BY <2>1, <2>4, <2>5 DEF BulkKnows
<1>5. ASSUME p \notin cut PROVE Parse(mem, lines[n]) = Expected(lines, n)
  <2>1. \A kind \in Kinds : IsKnown(lines, n - 1, kind, p, Val(mem, kind, p))
    BY <1>5 DEF BulkKnows
  <2>2. QED
    BY <1>3, <2>1, OwnEntry
<1>6. ASSUME NEW e \in Parse(mem, lines[n]), NEW lost PROVE EntryFits(lines, lost, cuts, e)
  <2>1. e.ev = lines[n].ev /\ e.pid = lines[n].pid
    BY ParseOne
  <2>2. e.pid \notin lost \cup cuts => e \in Expected(lines, n)
    BY <1>3, <1>5, <2>1
  <2>3. ASSUME e.action \in {"login_fail", "rename"}
        PROVE  \E x \in Expected(lines, n) : e.val \in {x.val, Nothing}
    <3>1. \A kind \in Kinds : \/ IsKnown(lines, n - 1, kind, lines[n].pid, Val(mem, kind, lines[n].pid))
                              \/ Val(mem, kind, lines[n].pid) = Nothing
      BY <1>3 DEF BulkKnows
    <3>2. QED
      BY <2>3, <3>1, OwnOrNone
  <2>4. QED
    BY <2>1, <2>2, <2>3 DEF EntryFits
<1>7. ASSUME NEW told, ToldFits(lines, n - 1, cut, told)
      PROVE  ToldFits(lines, n, cuts, told \cup Parse(mem, lines[n]))
  <2>1. SUFFICES ASSUME NEW k \in 1..n, lines[k].pid \notin cuts
                 PROVE  Expected(lines, k) \subseteq told \cup Parse(mem, lines[n])
    BY DEF ToldFits
  <2>2. CASE k = n
    BY <1>3, <1>5, <2>1, <2>2
  <2>3. CASE k # n
    <3>1. k \in 1..(n - 1)
      BY <1>1, <2>3
    <3>2. QED
      BY <1>7, <2>1, <3>1 DEF ToldFits
  <2>4. QED
    BY <2>2, <2>3
<1>8. QED
  BY <1>4, <1>6, <1>7 DEF BulkKnows

-----------------------------------------------------------------------------
(* proftpd *)

(* The line l may be written after the n lines: it is of a new event, or   *)
(* the other log's line of the last one, and what it refers to is given.   *)
Follows(lines, n, l) ==
    /\ \/ l.ev = n + 1
       \/ /\ n >= 1 /\ l.ev = n /\ lines[n].ev = n /\ lines[n].pid = l.pid
          /\ lines[n].cmd = "TRANSFER" /\ lines[n].code \in {"226", "426"}
    /\ l.cmd = "PASS" => \E k \in 1..n : Given(lines, n, "USER", l.pid, k)
    /\ l.cmd = "RNTO" => \E k \in 1..n : Given(lines, n, "RNFR", l.pid, k)

(* A line that may be written leaves the log in order. *)
LEMMA AppendLine ==
    ASSUME NEW lines, LogOK(lines), NEW l \in LogLines, LineOK(l), NEW more, more = lines \o <<l>>,
           Follows(lines, Len(lines), l)
    PROVE  /\ LogOK(more) /\ Longer(lines, more)
           /\ Len(more) = Len(lines) + 1 /\ more[Len(lines) + 1] = l
<1>1. PICK n \in Nat : n = Len(lines)
  BY DEF LogOK
<1>2. /\ lines \in Seq(LogLines) /\ more \in Seq(LogLines) /\ Len(more) = n + 1
      /\ more[n + 1] = l /\ \A i \in 1..n : more[i] = lines[i]
  BY <1>1 DEF LogOK
<1>3. Longer(lines, more)
  BY <1>1, <1>2 DEF Longer
<1>4. ASSUME NEW i \in 1..(n + 1) PROVE LineOK(more[i]) /\ EventOK(more, i) /\ Paired(more, i)
  <2>1. CASE i = n + 1
    <3>1. LineOK(more[i])
      BY <1>2, <2>1
    <3>2. EventOK(more, i)
      <4>1. CASE l.ev = n + 1
        BY <1>2, <2>1, <4>1 DEF EventOK
      <4>2. CASE ~ (l.ev = n + 1)
        <5>1. /\ n >= 1 /\ l.ev = n /\ lines[n].ev = n /\ lines[n].pid = l.pid
              /\ lines[n].cmd = "TRANSFER" /\ lines[n].code \in {"226", "426"}
          BY <1>1, <4>2 DEF Follows
        <5>2. n \in 1..n /\ i > 1 /\ i - 1 = n /\ more[n] = lines[n] /\ more[i] = l
          BY <1>1, <1>2, <2>1, <5>1
        <5>3. QED
          BY <5>1, <5>2 DEF EventOK
      <4>3. QED
        BY <4>1, <4>2
    <3>3. Paired(more, i)
      <4>1. i - 1 = n /\ more[i] = l /\ n \in 0..Len(lines)
        BY <1>1, <1>2, <2>1
      <4>2. \A kind, k : Given(lines, n, kind, l.pid, k) => Given(more, n, kind, l.pid, k)
        BY <1>3, <4>1, LongerKnown
      <4>3. QED
        BY <1>1, <4>1, <4>2 DEF Paired, Follows
    <3>4. QED
      BY <3>1, <3>2, <3>3
  <2>2. CASE i # n + 1
    <3>1. i \in 1..n /\ more[i] = lines[i] /\ i - 1 \in 0..Len(lines)
      BY <1>1, <1>2, <2>2
    <3>2. LineOK(lines[i]) /\ EventOK(lines, i) /\ Paired(lines, i)
      BY <1>1, <3>1 DEF LogOK
    <3>3. EventOK(more, i)
      <4>1. i > 1 => more[i - 1] = lines[i - 1]
        BY <1>2, <3>1
      <4>2. QED
        BY <3>1, <3>2, <4>1 DEF EventOK
    <3>4. Paired(more, i)
      <4>1. \A kind, p, k : Given(lines, i - 1, kind, p, k) => Given(more, i - 1, kind, p, k)
        BY <1>3, <3>1, LongerKnown
      <4>2. QED
        BY <3>1, <3>2, <4>1 DEF Paired
    <3>5. QED
      BY <3>1, <3>2, <3>3, <3>4
  <2>3. QED
    BY <2>1, <2>2
<1>5. LogOK(more)
  BY <1>2, <1>4 DEF LogOK
<1>6. QED
  BY <1>1, <1>2, <1>3, <1>5

(* What is given stays given while only others write. *)
LEMMA GivenGrows ==
    ASSUME NEW lines, NEW more, Longer(lines, more), NEW kind, NEW q, NEW k \in 1..Len(lines),
           Given(lines, Len(lines), kind, q, k),
           \A i \in (Len(lines) + 1)..Len(more) : more[i].pid # q
    PROVE  k \in 1..Len(more) /\ Given(more, Len(more), kind, q, k)
<1>1. /\ Len(lines) \in Nat /\ Len(more) \in Nat /\ Len(lines) <= Len(more)
      /\ \A i \in 1..Len(lines) : more[i] = lines[i]
  BY DEF Longer
<1>2. k \in 1..Len(more) /\ more[k].pid = q /\ Gives(kind, more[k])
  BY <1>1 DEF Given
<1>3. ASSUME NEW t \in (k + 1)..Len(more), more[t].pid = q
      PROVE  ~ Gives(kind, more[t]) /\ ~ Takes(kind, more[t])
  <2>1. t \in (k + 1)..Len(lines) /\ more[t] = lines[t]
    BY <1>1, <1>3
  <2>2. QED
    BY <1>3, <2>1 DEF Given
<1>4. QED
  BY <1>2, <1>3 DEF Given

(* The log grows by lines of p: the invariant is kept if these lines are   *)
(* in order and the new state of the session is.                           *)
LEMMA WriteStep ==
    ASSUME ParserInv, NEW p \in Pids, LogOK(log'), Longer(log, log'), Len(log') <= MaxLines,
           \A i \in (Len(log) + 1)..Len(log') : log'[i].pid = p,
           session' \in [Pids -> {Nothing, "user", "failed", "in", "rnfr"}],
           \A q \in Pids : q # p => session'[q] = session[q],
           session'[p] = "user" => \E k \in 1..Len(log') : Given(log', Len(log'), "USER", p, k),
           session'[p] = "rnfr" => \E k \in 1..Len(log') : Given(log', Len(log'), "RNFR", p, k),
           UNCHANGED <<committed, memory, db, bulk, upsets, forgot, undone>>
    PROVE  ParserInv'
<1>1. Len(log) \in Nat /\ Len(log') \in Nat /\ Len(log) <= Len(log')
  BY DEF Longer
<1>2. Counters'
  BY <1>1 DEF ParserInv, Counters
<1>3. SessionOK'
  <2>1. ASSUME NEW q \in Pids, q # p, NEW kind,
               \E k \in 1..Len(log) : Given(log, Len(log), kind, q, k)
        PROVE  \E k \in 1..Len(log') : Given(log', Len(log'), kind, q, k)
    BY <2>1, GivenGrows
  <2>2. ASSUME NEW q \in Pids
        PROVE  /\ session'[q] = "user" => \E k \in 1..Len(log') : Given(log', Len(log'), "USER", q, k)
               /\ session'[q] = "rnfr" => \E k \in 1..Len(log') : Given(log', Len(log'), "RNFR", q, k)
    BY <2>1 DEF ParserInv, SessionOK
  <2>3. QED
    BY <2>2 DEF SessionOK
<1>4. BulkOK'
  BY <1>1 DEF ParserInv, BulkOK
<1>5. committed \in 0..Len(log) /\ bulk.at \in 0..Len(log)
  BY DEF ParserInv, Counters, BulkOK
<1>6. PICK lost : lost = forgot \cup undone
  OBVIOUS
<1>7. /\ MemoryFits(log', committed, memory, lost)
      /\ BulkKnows(log', bulk.at, bulk.mem, bulk.cut)
      /\ ToldFits(log', committed, lost, db)
      /\ bulk.failed = 0 => ToldFits(log', bulk.at, bulk.cut, db \cup bulk.batch)
      /\ \A e \in db \cup bulk.batch : EntryFits(log', lost, bulk.cut, e)
  <2>1. /\ LogOK(log)
        /\ MemoryFits(log, committed, memory, lost)
        /\ BulkKnows(log, bulk.at, bulk.mem, bulk.cut)
        /\ ToldFits(log, committed, lost, db)
        /\ bulk.failed = 0 => ToldFits(log, bulk.at, bulk.cut, db \cup bulk.batch)
        /\ \A e \in db \cup bulk.batch : EntryFits(log, lost, bulk.cut, e)
    BY <1>6 DEF ParserInv
  <2>2. QED
    BY <1>5, <2>1, LongerFits
<1>8. memory' \in Memory
  BY DEF ParserInv
<1>9. QED
  BY <1>2, <1>3, <1>4, <1>6, <1>7, <1>8 DEF ParserInv

(* A write of one line. *)
LEMMA WriteOne ==
    ASSUME ParserInv, NEW p \in Pids, NEW l \in LogLines, LineOK(l), l.ev = Len(log) + 1, l.pid = p,
           l.cmd = "PASS" => session[p] = "user", l.cmd = "RNTO" => session[p] = "rnfr",
           Write(<<l>>), NEW s \in {Nothing, "user", "failed", "in", "rnfr"},
           session' = [session EXCEPT ![p] = s],
           s = "user" => l.cmd = "USER", s = "rnfr" => l.cmd = "RNFR"
    PROVE  ParserInv'
<1>1. LogOK(log) /\ SessionOK
  BY DEF ParserInv
<1>2. log \in Seq(LogLines) /\ Len(log) \in Nat
  BY <1>1 DEF LogOK
<1>3. log' = log \o <<l>> /\ UNCHANGED <<committed, memory, db, bulk, upsets, forgot, undone>>
  BY DEF Write
<1>4. Follows(log, Len(log), l)
  BY <1>1 DEF SessionOK, Follows
<1>5. /\ LogOK(log') /\ Longer(log, log')
      /\ Len(log') = Len(log) + 1 /\ log'[Len(log) + 1] = l
  BY <1>1, <1>3, <1>4, AppendLine
<1>6. Len(log') <= MaxLines
  <2>1. Len(<<l>>) = 1
    OBVIOUS
  <2>2. QED
    BY <1>5, <2>1 DEF Write
<1>7. \A i \in (Len(log) + 1)..Len(log') : log'[i].pid = p
  BY <1>2, <1>5
<1>8. /\ session' \in [Pids -> {Nothing, "user", "failed", "in", "rnfr"}]
      /\ \A q \in Pids : q # p => session'[q] = session[q]
      /\ session'[p] = s
  BY <1>1 DEF SessionOK
<1>9. ASSUME NEW kind, l.cmd = kind
      PROVE  \E k \in 1..Len(log') : Given(log', Len(log'), kind, p, k)
  <2>1. Len(log') \in 1..Len(log') /\ log'[Len(log')] = l
    BY <1>2, <1>5
  <2>2. Given(log', Len(log'), kind, p, Len(log'))
    BY <1>9, <2>1 DEF Given, Gives
  <2>3. QED
    BY <2>1, <2>2
<1>10. QED
  BY <1>3, <1>5, <1>6, <1>7, <1>8, <1>9, WriteStep

(* A step of proftpd. *)
LEMMA ProftpdStep ==
    ASSUME ParserInv, NEW p \in Pids,
           \/ \E a \in Accounts : User(p, a)
           \/ \E code \in {"230", "530"} : Pass(p, code)
           \/ Quit(p)
           \/ \E f \in Files : RenameFrom(p, f)
           \/ \E code \in {"250", "553"} : RenameTo(p, code)
           \/ \E o \in Outcomes : Transfer(p, o)
           \/ \E c \in Simple : OtherCommand(p, c)
    PROVE  ParserInv'
<1> DEFINE States == {Nothing, "user", "failed", "in", "rnfr"}
<1>1. /\ LogOK(log) /\ log \in Seq(LogLines) /\ Len(log) \in Nat
      /\ session \in [Pids -> States]
      /\ session[p] \in States
  BY DEF ParserInv, LogOK, SessionOK
<1>2. ASSUME NEW cmd \in Commands, NEW code \in Codes, NEW val \in Values
      PROVE  Line(p, cmd, code, val) \in LogLines
  BY <1>1 DEF Line, LogLines
<1>3. ASSUME NEW cmd, NEW code, NEW val
      PROVE  LET l == Line(p, cmd, code, val)
             IN l.ev = Len(log) + 1 /\ l.pid = p /\ l.cmd = cmd /\ l.code = code /\ l.val = val
  BY DEF Line
<1>4. CASE \E a \in Accounts : User(p, a)
  <2>1. PICK a \in Accounts : User(p, a)
    BY <1>4
  <2>2. PICK l : l = Line(p, "USER", "331", a)
    OBVIOUS
  <2>3. l \in LogLines /\ l.ev = Len(log) + 1 /\ l.pid = p /\ l.cmd = "USER" /\ l.val = a
    BY <1>2, <1>3, <2>2 DEF Commands, Codes, Values
  <2>4. LineOK(l)
    BY <2>3 DEF LineOK
  <2>5. Write(<<l>>) /\ session' = [session EXCEPT ![p] = "user"]
    BY <2>1, <2>2 DEF User
  <2>6. QED
    BY <2>3, <2>4, <2>5, WriteOne
<1>5. CASE \E code \in {"230", "530"} : Pass(p, code)
  <2>1. PICK code \in {"230", "530"} : Pass(p, code)
    BY <1>5
  <2>2. PICK l : l = Line(p, "PASS", code, Nothing)
    OBVIOUS
  <2>3. l \in LogLines /\ l.ev = Len(log) + 1 /\ l.pid = p /\ l.cmd = "PASS" /\ l.code = code
    BY <1>2, <1>3, <2>2 DEF Commands, Codes, Values
  <2>4. LineOK(l)
    BY <2>3 DEF LineOK
  <2>5. PICK s \in {"in", "failed"} : s = IF code = "230" THEN "in" ELSE "failed"
    OBVIOUS
  <2>6. Write(<<l>>) /\ session' = [session EXCEPT ![p] = s] /\ session[p] = "user"
    BY <2>1, <2>2, <2>5 DEF Pass
  <2>7. QED
    BY <2>3, <2>4, <2>5, <2>6, WriteOne
<1>6. CASE Quit(p)
  <2>2. PICK l : l = Line(p, "QUIT", "221", Nothing)
    OBVIOUS
  <2>3. l \in LogLines /\ l.ev = Len(log) + 1 /\ l.pid = p /\ l.cmd = "QUIT"
    BY <1>2, <1>3, <2>2 DEF Commands, Codes, Values
  <2>4. LineOK(l)
    BY <2>3 DEF LineOK
  <2>5. Write(<<l>>) /\ session' = [session EXCEPT ![p] = Nothing]
    BY <1>6, <2>2 DEF Quit
  <2>6. QED
    BY <2>3, <2>4, <2>5, WriteOne, ParserAssumption
<1>7. CASE \E f \in Files : RenameFrom(p, f)
  <2>1. PICK f \in Files : RenameFrom(p, f)
    BY <1>7
  <2>2. PICK l : l = Line(p, "RNFR", "350", f)
    OBVIOUS
  <2>3. l \in LogLines /\ l.ev = Len(log) + 1 /\ l.pid = p /\ l.cmd = "RNFR" /\ l.val = f
    BY <1>2, <1>3, <2>2 DEF Commands, Codes, Values
  <2>4. LineOK(l)
    BY <2>3 DEF LineOK
  <2>5. Write(<<l>>) /\ session' = [session EXCEPT ![p] = "rnfr"]
    BY <2>1, <2>2 DEF RenameFrom
  <2>6. QED
    BY <2>3, <2>4, <2>5, WriteOne
<1>8. CASE \E code \in {"250", "553"} : RenameTo(p, code)
  <2>1. PICK code \in {"250", "553"} : RenameTo(p, code)
    BY <1>8
  <2>2. PICK l : l = Line(p, "RNTO", code, Nothing)
    OBVIOUS
  <2>3. l \in LogLines /\ l.ev = Len(log) + 1 /\ l.pid = p /\ l.cmd = "RNTO" /\ l.code = code
    BY <1>2, <1>3, <2>2 DEF Commands, Codes, Values
  <2>4. LineOK(l)
    BY <2>3 DEF LineOK
  <2>5. Write(<<l>>) /\ session' = [session EXCEPT ![p] = "in"] /\ session[p] = "rnfr"
    BY <2>1, <2>2 DEF RenameTo
  <2>6. QED
    BY <2>3, <2>4, <2>5, WriteOne
<1>9. CASE \E o \in Outcomes : Transfer(p, o)
  <2>1. PICK o \in Outcomes : Transfer(p, o)
    BY <1>9
  <2>2. /\ session[p] \in {"failed", "in"}
        /\ session' = [session EXCEPT ![p] = session[p]] /\ session' = session
    BY <1>1, <2>1 DEF Transfer
  <2>3. o \in {"done", "aborted", "refused", "missing", "malformed", "anonymous"}
    BY ParserAssumption
  <2>4. CASE o \notin {"done", "aborted"}
    <3>1. PICK l : l = Line(p, "TRANSFER", o, Nothing)
      OBVIOUS
    <3>2. l \in LogLines /\ l.ev = Len(log) + 1 /\ l.pid = p /\ l.cmd = "TRANSFER"
      BY <1>2, <1>3, <2>3, <2>4, <3>1 DEF Commands, Codes, Values
    <3>3. LineOK(l)
      BY <3>2 DEF LineOK
    <3>4. Write(<<l>>)
      BY <2>1, <2>3, <2>4, <3>1 DEF Transfer
    <3>5. QED
      BY <2>2, <3>2, <3>3, <3>4, WriteOne
  <2>5. CASE o \in {"done", "aborted"}
    <3>1. PICK code : code = IF o = "done" THEN "226" ELSE "426"
      OBVIOUS
    <3>2. PICK last : last = IF o = "done" THEN "c" ELSE "i"
      OBVIOUS
    <3>3. PICK l : l = Line(p, "TRANSFER", code, Nothing)
      OBVIOUS
    <3>4. PICK x : x = Line(p, "XFERLOG", last, Nothing)
      OBVIOUS
    <3>5. /\ l \in LogLines /\ l.ev = Len(log) + 1 /\ l.pid = p /\ l.cmd = "TRANSFER"
          /\ l.code \in {"226", "426"}
      BY <1>2, <1>3, <3>1, <3>3 DEF Commands, Codes, Values
    <3>6. x \in LogLines /\ x.ev = Len(log) + 1 /\ x.pid = p /\ x.cmd = "XFERLOG"
      BY <1>2, <1>3, <3>2, <3>4 DEF Commands, Codes, Values
    <3>7. LineOK(l) /\ LineOK(x)
      BY <3>5, <3>6 DEF LineOK
    <3>8. Write(<<l, x>>)
      BY <2>1, <2>5, <3>1, <3>2, <3>3, <3>4 DEF Transfer
    <3>9. PICK one : one = log \o <<l>>
      OBVIOUS
    <3>10. /\ LogOK(one) /\ Longer(log, one)
           /\ Len(one) = Len(log) + 1 /\ one[Len(log) + 1] = l
      <4>1. Follows(log, Len(log), l)
        BY <3>5 DEF Follows
      <4>2. QED
        BY <1>1, <3>5, <3>7, <3>9, <4>1, AppendLine
    <3>11. log' = one \o <<x>>
      <4>1. log' = log \o <<l, x>>
        BY <3>8 DEF Write
      <4>2. <<l, x>> = <<l>> \o <<x>>
        BY <3>5, <3>6
      <4>3. /\ log \in Seq(LogLines) /\ <<l>> \in Seq(LogLines) /\ <<x>> \in Seq(LogLines)
        BY <1>1, <3>5, <3>6
      <4>4. log \o (<<l>> \o <<x>>) = (log \o <<l>>) \o <<x>>
        BY <4>3
      <4>5. QED
        BY <3>9, <4>1, <4>2, <4>4
    <3>12. /\ LogOK(log') /\ Longer(one, log')
           /\ Len(log') = Len(one) + 1 /\ log'[Len(one) + 1] = x
      <4>1. /\ Len(one) >= 1 /\ x.ev = Len(one) /\ one[Len(one)].ev = Len(one)
            /\ one[Len(one)].pid = x.pid
            /\ one[Len(one)].cmd = "TRANSFER" /\ one[Len(one)].code \in {"226", "426"}
        BY <1>1, <3>5, <3>6, <3>10
      <4>2. x.cmd # "PASS" /\ x.cmd # "RNTO"
        BY <3>6
      <4>3. Follows(one, Len(one), x)
        BY <4>1, <4>2 DEF Follows
      <4>4. QED
        BY <3>6, <3>7, <3>10, <3>11, <4>3, AppendLine
    <3>13. Longer(log, log')
      BY <3>10, <3>12 DEF Longer
    <3>14. log'[Len(log) + 1] = l /\ log'[Len(log) + 2] = x /\ Len(log') = Len(log) + 2
      BY <1>1, <3>10, <3>12 DEF Longer
    <3>15. \A i \in (Len(log) + 1)..Len(log') : log'[i].pid = p
      BY <1>1, <3>5, <3>6, <3>14
    <3>16. Len(log') <= MaxLines /\ UNCHANGED <<committed, memory, db, bulk, upsets, forgot, undone>>
      BY <3>8, <3>14 DEF Write
    <3>17. session'[p] # "user" /\ session'[p] # "rnfr"
      BY <2>2
    <3>18. session' \in [Pids -> States] /\ \A q \in Pids : session'[q] = session[q]
      BY <1>1, <2>2
    <3>19. QED
      BY <3>12, <3>13, <3>15, <3>16, <3>17, <3>18, WriteStep
  <2>6. QED
    BY <2>4, <2>5
<1>10. CASE \E c \in Simple : OtherCommand(p, c)
  <2>1. PICK c \in Simple : OtherCommand(p, c)
    BY <1>10
  <2>2. PICK l : l = Line(p, "SIMPLE", c, Nothing)
    OBVIOUS
  <2>3. l \in LogLines /\ l.ev = Len(log) + 1 /\ l.pid = p /\ l.cmd = "SIMPLE"
    <3>1. c \in Codes /\ "SIMPLE" \in Commands /\ Nothing \in Values
      BY DEF Commands, Codes, Values
    <3>2. QED
      BY <1>2, <1>3, <2>2, <3>1
  <2>4. LineOK(l)
    BY <2>3 DEF LineOK
  <2>5. Write(<<l>>) /\ session' = [session EXCEPT ![p] = "in"]
    BY <1>1, <2>1, <2>2 DEF OtherCommand
  <2>6. QED
    BY <2>3, <2>4, <2>5, WriteOne
<1>11. QED
  BY <1>4, <1>5, <1>6, <1>7, <1>8, <1>9, <1>10

-----------------------------------------------------------------------------
(* The daemon *)

(* The lines of a poll and the memory that reads them. *)
LEMMA PollReads ==
    ASSUME ParserInv, NEW m, m = Memories(memory, PolledLines)
    PROVE  /\ Reading(log, committed, PollEnd, m) /\ m[0] = memory
           /\ PollEnd = Len(log) \/ PollEnd = committed + MaxLinesPerPoll
           /\ PollEnd <= committed + MaxLinesPerPoll
           /\ Len(PolledLines) = PollEnd - committed
           /\ Range(PolledLines) = {log[committed + i] : i \in 1..(PollEnd - committed)}
           /\ Result.mem = m[PollEnd - committed] /\ Result.mem \in Memory
           /\ Result.cut = CutIn(log, committed, PollEnd, m)
           /\ Result.entries = MadeIn(log, committed, PollEnd, m)
           /\ Result.cut \subseteq Pids
<1>1. /\ LogOK(log) /\ log \in Seq(LogLines) /\ Len(log) \in Nat /\ committed \in 0..Len(log)
      /\ memory \in Memory /\ MaxLinesPerPoll \in Nat \ {0}
  BY ParserAssumption DEF ParserInv, LogOK, Counters
<1>2. PICK z : z = PollEnd
  OBVIOUS
<1>3. /\ z \in committed..Len(log) /\ z <= committed + MaxLinesPerPoll
      /\ z = Len(log) \/ z = committed + MaxLinesPerPoll
  BY <1>1, <1>2 DEF PollEnd
<1>4. PICK s : s = PolledLines
  OBVIOUS
<1>5. /\ s \in Seq(LogLines) /\ Len(s) = z - committed
      /\ \A i \in 1..(z - committed) : s[i] = log[committed + i]
      /\ DOMAIN s = 1..(z - committed)
  <2>1. s = SubSeq(log, committed + 1, z)
    BY <1>2, <1>4 DEF PolledLines
  <2>2. \A i \in (committed + 1)..z : i \in 1..Len(log) /\ log[i] \in LogLines
    BY <1>1, <1>3
  <2>3. Len(s) = z - committed /\ \A i \in 1..(z - committed) : s[i] = log[committed + i]
    BY <1>1, <1>3, <2>1
  <2>4. s \in Seq(LogLines)
    BY <1>1, <1>3, <2>1, <2>2
  <2>5. QED
    BY <2>3, <2>4
<1>6. /\ m[0] = memory /\ \A i \in 1..(z - committed) : m[i] = Learn(m[i - 1], s[i])
      /\ \A i \in 0..(z - committed) : m[i] \in Memory
  BY <1>1, <1>4, <1>5, MemoriesIs
<1>7. Reading(log, committed, z, m)
  <2>1. \A i \in 1..(z - committed) : i - 1 \in 0..(z - committed)
    BY <1>1, <1>3
  <2>2. QED
    BY <1>1, <1>3, <1>5, <1>6, <2>1 DEF Reading
<1>8. /\ Result.mem = m[Len(s)]
      /\ Result.entries = UNION {Parse(m[i - 1], s[i]) : i \in DOMAIN s}
      /\ Result.cut = UNION {Cut(m[i - 1], s[i]) : i \in DOMAIN s}
  BY <1>4 DEF Result, ParseAll
<1>9. /\ Result.mem = m[z - committed] /\ Result.mem \in Memory
      /\ Result.cut = CutIn(log, committed, z, m)
      /\ Result.entries = MadeIn(log, committed, z, m)
  <2>1. z - committed \in 0..(z - committed)
    BY <1>1, <1>3
  <2>2. Result.mem = m[z - committed] /\ Result.mem \in Memory
    BY <1>5, <1>6, <1>8, <2>1
  <2>3. Result.cut = CutIn(log, committed, z, m)
    BY <1>5, <1>8 DEF CutIn
  <2>4. Result.entries = MadeIn(log, committed, z, m)
    BY <1>5, <1>8 DEF MadeIn
  <2>5. QED
    BY <2>2, <2>3, <2>4
<1>10. Result.cut \subseteq Pids
  <2>1. ASSUME NEW i \in 1..(z - committed) PROVE Cut(m[i - 1], s[i]) \subseteq Pids
    <3>1. m[i - 1] \in Memory /\ s[i] \in LogLines
      BY <1>5, <1>7 DEF Reading
    <3>2. QED
      BY <3>1, LearnIs
  <2>2. QED
    BY <1>5, <1>8, <2>1
<1>11. Range(s) = {log[committed + i] : i \in 1..(z - committed)}
  BY <1>5 DEF Range
<1>12. QED
  BY <1>2, <1>3, <1>4, <1>5, <1>6, <1>7, <1>9, <1>10, <1>11

(* What the daemon does to its memory, positions and losses keeps the      *)
(* invariant if it keeps the parts that are about them.                    *)
LEMMA DaemonStep ==
    ASSUME ParserInv, memory' \in Memory, committed' \in 0..Len(log), upsets' \in 0..MaxUpsets,
           UNCHANGED <<log, session, bulk>>, db \subseteq db',
           forgot \subseteq forgot', forgot' \subseteq Pids, undone \subseteq undone', undone' \subseteq Pids,
           MemoryFits(log, committed', memory', forgot' \cup undone'),
           ToldFits(log, committed', forgot' \cup undone', db'),
           \A e \in db' \ db : EntryFits(log, forgot' \cup undone', bulk.cut, e)
    PROVE  ParserInv'
<1>1. Counters' /\ SessionOK' /\ BulkOK' /\ LogOK(log')
  BY DEF ParserInv, Counters, SessionOK, BulkOK
<1>2. PICK lost : lost = forgot \cup undone
  OBVIOUS
<1>3. PICK more : more = forgot' \cup undone'
  OBVIOUS
<1>4. lost \subseteq more
  BY <1>2, <1>3
<1>5. ASSUME NEW e \in db' \cup bulk.batch PROVE EntryFits(log, more, bulk.cut, e)
  <2>1. CASE e \in db' \ db
    BY <1>3, <2>1
  <2>2. CASE e \in db \cup bulk.batch
    <3>1. EntryFits(log, lost, bulk.cut, e)
      BY <1>2, <2>2 DEF ParserInv
    <3>2. QED
      BY <1>4, <3>1, LostFits
  <2>3. QED
    BY <2>1, <2>2
<1>6. ASSUME bulk.failed = 0 PROVE ToldFits(log, bulk.at, bulk.cut, db' \cup bulk.batch)
  <2>1. ToldFits(log, bulk.at, bulk.cut, db \cup bulk.batch)
    BY <1>6 DEF ParserInv
  <2>2. db \cup bulk.batch \subseteq db' \cup bulk.batch
    OBVIOUS
  <2>3. QED
    BY <2>1, <2>2 DEF ToldFits
<1>7. BulkKnows(log, bulk.at, bulk.mem, bulk.cut)
  BY DEF ParserInv
<1>8. QED
  BY <1>1, <1>3, <1>5, <1>6, <1>7 DEF ParserInv

(* A poll of whatever end. *)
LEMMA PollKeeps ==
    ASSUME ParserInv, PollCommitted \/ PollEmpty \/ PollDisabled
    PROVE  ParserInv'
<1>1. PICK m : m = Memories(memory, PolledLines)
  OBVIOUS
<1>2. PICK z : z = PollEnd
  OBVIOUS
<1>3. PICK cut : cut = Result.cut
  OBVIOUS
<1>4. PICK made : made = Result.entries
  OBVIOUS
<1>5. PICK lost : lost = forgot \cup undone
  OBVIOUS
<1>6. /\ Reading(log, committed, z, m) /\ m[0] = memory
      /\ z = Len(log) \/ z = committed + MaxLinesPerPoll
      /\ z <= committed + MaxLinesPerPoll
      /\ Len(PolledLines) = z - committed
      /\ Range(PolledLines) = {log[committed + i] : i \in 1..(z - committed)}
      /\ Result.mem = m[z - committed] /\ Result.mem \in Memory
      /\ cut = CutIn(log, committed, z, m)
      /\ made = MadeIn(log, committed, z, m)
      /\ cut \subseteq Pids
  BY <1>1, <1>2, <1>3, <1>4, PollReads
<1>7. /\ MemoryFits(log, committed, memory, lost) /\ ToldFits(log, committed, lost, db)
      /\ committed \in Nat /\ Len(log) \in Nat /\ upsets \in 0..MaxUpsets
      /\ forgot \subseteq Pids /\ undone \subseteq Pids /\ LogOK(log) /\ log \in Seq(LogLines)
      /\ committed \in 0..Len(log)
  BY <1>5 DEF ParserInv, Counters, LogOK
<1>8. /\ MemoryFits(log, z, m[z - committed], lost \cup cut)
      /\ \A more : /\ lost \cup cut \subseteq more
                   /\ \A i \in 1..(z - committed) : log[committed + i].pid \notin more =>
                        \A kind \in Kinds : ~ Takes(kind, log[committed + i])
                   => MemoryFits(log, committed, m[z - committed], more)
      /\ made = {} => MemoryFits(log, committed, m[z - committed], lost \cup cut)
      /\ \A e \in made : \A cuts : EntryFits(log, lost \cup cut, cuts, e)
      /\ \A told : ToldFits(log, committed, lost, told) => ToldFits(log, z, lost \cup cut, told \cup made)
  <2>1. MemoryFits(log, committed, m[0], lost)
    BY <1>6, <1>7
  <2>2. /\ Reading(log, committed, z, m)
        /\ z = Len(log) \/ z = committed + MaxLinesPerPoll
        /\ z <= committed + MaxLinesPerPoll
        /\ cut = CutIn(log, committed, z, m)
        /\ made = MadeIn(log, committed, z, m)
    BY <1>6
  <2>3. QED
    BY <2>1, <2>2, PollFits
<1>9. z \in committed..Len(log) /\ z \in 0..Len(log)
  BY <1>6, <1>7 DEF Reading
<1>10. CASE PollCommitted
  <2>1. /\ db' = db \cup made /\ memory' = m[z - committed] /\ forgot' = forgot \cup cut
        /\ UNCHANGED <<log, session, bulk, upsets, undone>>
    BY <1>3, <1>4, <1>6, <1>10 DEF PollCommitted
  <2>2. committed' = z
    <3>1. committed' = committed + (z - committed)
      BY <1>6, <1>10 DEF PollCommitted
    <3>2. QED
      BY <1>7, <1>9, <3>1
  <2>3. forgot' \cup undone' = lost \cup cut
    BY <1>5, <2>1
  <2>4. /\ MemoryFits(log, committed', memory', forgot' \cup undone')
        /\ ToldFits(log, committed', forgot' \cup undone', db')
        /\ \A e \in db' \ db : EntryFits(log, forgot' \cup undone', bulk.cut, e)
    BY <1>7, <1>8, <2>1, <2>2, <2>3
  <2>5. /\ memory' \in Memory /\ committed' \in 0..Len(log) /\ upsets' \in 0..MaxUpsets
        /\ db \subseteq db' /\ forgot \subseteq forgot' /\ forgot' \subseteq Pids
        /\ undone \subseteq undone' /\ undone' \subseteq Pids
    BY <1>6, <1>7, <1>9, <2>1, <2>2
  <2>6. QED
    BY <2>1, <2>4, <2>5, DaemonStep
<1>11. CASE PollEmpty
  <2>1. /\ made = {} /\ memory' = m[z - committed] /\ forgot' = forgot \cup cut
        /\ UNCHANGED <<log, session, committed, db, bulk, upsets, undone>>
    BY <1>3, <1>4, <1>6, <1>11 DEF PollEmpty
  <2>2. forgot' \cup undone' = lost \cup cut
    BY <1>5, <2>1
  <2>3. MemoryFits(log, committed', memory', forgot' \cup undone')
    BY <1>8, <2>1, <2>2
  <2>4. ToldFits(log, committed', forgot' \cup undone', db')
    <3>1. ToldFits(log, committed, lost \cup cut, db)
      BY <1>7, LostFits
    <3>2. QED
      BY <2>1, <2>2, <3>1
  <2>5. /\ memory' \in Memory /\ committed' \in 0..Len(log) /\ upsets' \in 0..MaxUpsets
        /\ db \subseteq db' /\ forgot \subseteq forgot' /\ forgot' \subseteq Pids
        /\ undone \subseteq undone' /\ undone' \subseteq Pids /\ db' \ db = {}
    BY <1>6, <1>7, <2>1
  <2>6. QED
    BY <2>1, <2>3, <2>4, <2>5, DaemonStep
<1>12. CASE PollDisabled
  <2> DEFINE took == {l.pid : l \in {x \in Range(PolledLines) : x.cmd \in {"PASS", "QUIT", "RNTO"}}}
  <2>1. /\ upsets < MaxUpsets /\ memory' = m[z - committed] /\ forgot' = forgot \cup cut
        /\ undone' = undone \cup took /\ upsets' = upsets + 1
        /\ UNCHANGED <<log, session, committed, db, bulk>>
    BY <1>3, <1>6, <1>12 DEF PollDisabled
  <2>2. PICK more : more = forgot' \cup undone'
    OBVIOUS
  <2>3. lost \cup cut \subseteq more
    BY <1>5, <2>1, <2>2
  <2>4. ASSUME NEW i \in 1..(z - committed), log[committed + i].pid \notin more, NEW kind \in Kinds
        PROVE  ~ Takes(kind, log[committed + i])
    <3>1. log[committed + i] \in Range(PolledLines)
      BY <1>6
    <3>2. log[committed + i].pid \notin took
      BY <2>1, <2>2, <2>4
    <3>3. log[committed + i].cmd \notin {"PASS", "QUIT", "RNTO"}
      BY <3>1, <3>2
    <3>4. QED
      BY <3>3 DEF Takes, Kinds
  <2>5. MemoryFits(log, committed', memory', forgot' \cup undone')
    <3>1. MemoryFits(log, committed, m[z - committed], more)
      BY <1>8, <2>3, <2>4
    <3>2. QED
      BY <2>1, <2>2, <3>1
  <2>6. ToldFits(log, committed', forgot' \cup undone', db')
    <3>1. lost \subseteq more
      BY <2>3
    <3>2. ToldFits(log, committed, more, db)
      BY <1>7, <3>1, LostFits
    <3>3. QED
      BY <2>1, <2>2, <3>2
  <2>7. took \subseteq Pids
    <3>1. ASSUME NEW i \in 1..(z - committed) PROVE log[committed + i].pid \in Pids
      <4>1. committed + i \in 1..Len(log)
        BY <1>7, <1>9
      <4>2. log[committed + i] \in LogLines
        BY <1>7, <4>1
      <4>3. QED
        BY <4>2 DEF LogLines
    <3>2. QED
      BY <1>6, <3>1
  <2>8. upsets' \in 0..MaxUpsets
    BY <1>7, <2>1, ParserAssumption
  <2> HIDE DEF took
  <2>9. /\ memory' \in Memory /\ committed' \in 0..Len(log)
        /\ db \subseteq db' /\ forgot \subseteq forgot' /\ forgot' \subseteq Pids
        /\ undone \subseteq undone' /\ undone' \subseteq Pids /\ db' \ db = {}
    BY <1>6, <1>7, <2>1, <2>7
  <2>10. QED
    BY <2>1, <2>5, <2>6, <2>8, <2>9, DaemonStep
<1>13. QED
  BY <1>10, <1>11, <1>12

(* A memory that only loses pids which count as lost from now on. *)
LEMMA ForgetKeeps ==
    ASSUME ParserInv, memory' \in Memory, upsets' \in 0..MaxUpsets,
           UNCHANGED <<log, session, committed, db, bulk, undone>>,
           forgot \subseteq forgot', forgot' \subseteq Pids,
           \A p \in Pids \ forgot' : \A kind \in Kinds : Val(memory', kind, p) = Val(memory, kind, p)
    PROVE  ParserInv'
<1>1. PICK lost : lost = forgot \cup undone
  OBVIOUS
<1>2. PICK more : more = forgot' \cup undone'
  OBVIOUS
<1>3. /\ MemoryFits(log, committed, memory, lost) /\ ToldFits(log, committed, lost, db)
      /\ committed \in 0..Len(log) /\ undone \subseteq Pids
  BY <1>1 DEF ParserInv, Counters
<1>4. lost \subseteq more
  BY <1>1, <1>2
<1>5. MemoryFits(log, committed, memory', more)
  <2>1. SUFFICES ASSUME NEW p \in Pids \ more
                 PROVE  \E h \in committed..Len(log) : h <= committed + MaxLinesPerPoll
                                                       /\ ReadFits(log, committed, h, p, memory')
    BY DEF MemoryFits
  <2>2. PICK h \in committed..Len(log) : h <= committed + MaxLinesPerPoll
                                         /\ ReadFits(log, committed, h, p, memory)
    BY <1>3, <1>4 DEF MemoryFits
  <2>3. \A kind \in Kinds : Val(memory', kind, p) = Val(memory, kind, p)
    BY <1>2, <2>1
  <2>4. ReadFits(log, committed, h, p, memory')
    BY <2>2, <2>3 DEF ReadFits
  <2>5. QED
    BY <2>2, <2>4
<1>6. ToldFits(log, committed, more, db)
  BY <1>3, <1>4, LostFits
<1>7. /\ MemoryFits(log, committed', memory', forgot' \cup undone')
      /\ ToldFits(log, committed', forgot' \cup undone', db')
      /\ committed' \in 0..Len(log) /\ db \subseteq db' /\ db' \ db = {}
      /\ undone \subseteq undone' /\ undone' \subseteq Pids
  BY <1>2, <1>3, <1>5, <1>6
<1>8. QED
  BY <1>7, DaemonStep

(* _flush_stale_sessions *)
LEMMA ExpireKeeps ==
    ASSUME ParserInv, NEW p \in Pids, Expire(p)
    PROVE  ParserInv'
<1>1. memory.user \in Stores /\ memory.rnfr \in Stores /\ upsets \in 0..MaxUpsets /\ forgot \subseteq Pids
  BY DEF ParserInv, Memory, Counters
<1>2. PICK u : u = Drop(memory.user, p)
  OBVIOUS
<1>3. PICK r : r = Drop(memory.rnfr, p)
  OBVIOUS
<1>4. /\ memory' = [user |-> u, rnfr |-> r] /\ forgot' = forgot \cup {p}
      /\ upsets < MaxUpsets /\ upsets' = upsets + 1
      /\ UNCHANGED <<log, session, committed, db, bulk, undone>>
  BY <1>2, <1>3 DEF Expire
<1>5. /\ u \in Stores /\ \A q : q # p => Recall(u, q) = Recall(memory.user, q)
      /\ r \in Stores /\ \A q : q # p => Recall(r, q) = Recall(memory.rnfr, q)
  BY <1>1, <1>2, <1>3, DropIs
<1>6. memory' \in Memory
  BY <1>4, <1>5 DEF Memory
<1>7. ASSUME NEW q \in Pids \ forgot', NEW kind \in Kinds PROVE Val(memory', kind, q) = Val(memory, kind, q)
  BY <1>4, <1>5 DEF Val
<1>8. upsets' \in 0..MaxUpsets
  BY <1>1, <1>4, ParserAssumption
<1>9. QED
  BY <1>1, <1>4, <1>6, <1>7, <1>8, ForgetKeeps

(* An empty memory knows nothing. *)
LEMMA NoMemoryIs ==
    /\ NoMemory \in Memory
    /\ \A kind \in Kinds : \A p : Val(NoMemory, kind, p) = Nothing
<1>1. PICK s : s = <<>>
  OBVIOUS
<1>2. s \in Seq(Notes) /\ Len(s) = 0 /\ DOMAIN s = {}
  BY <1>1
<1>3. s \in Stores
  BY <1>2, ParserAssumption DEF Stores, StoreOK
<1>4. \A p : Recall(s, p) = Nothing
  BY <1>2 DEF Recall, Pids_of
<1>5. NoMemory = [user |-> s, rnfr |-> s]
  BY <1>1 DEF NoMemory
<1>6. QED
  BY <1>3, <1>4, <1>5 DEF Memory, Val

(* The daemon starts anew. *)
LEMMA RestartKeeps ==
    ASSUME ParserInv, Restart
    PROVE  ParserInv'
<1>1. memory.user \in Stores /\ memory.rnfr \in Stores /\ upsets \in 0..MaxUpsets /\ forgot \subseteq Pids
  BY DEF ParserInv, Memory, Counters
<1>2. PICK U : U = Pids_of(memory.user)
  OBVIOUS
<1>3. PICK R : R = Pids_of(memory.rnfr)
  OBVIOUS
<1>4. /\ memory' = NoMemory /\ forgot' = forgot \cup U \cup R
      /\ upsets < MaxUpsets /\ upsets' = upsets + 1
      /\ UNCHANGED <<log, session, committed, db, bulk, undone>>
  BY <1>2, <1>3 DEF Restart
<1>5. U \subseteq Pids /\ R \subseteq Pids
  BY <1>1, <1>2, <1>3, RecallIs
<1>6. ASSUME NEW q \in Pids \ forgot', NEW kind \in Kinds PROVE Val(memory', kind, q) = Val(memory, kind, q)
  <2>1. q \notin U /\ q \notin R
    BY <1>4
  <2>2. Recall(memory.user, q) = Nothing /\ Recall(memory.rnfr, q) = Nothing
    BY <1>1, <1>2, <1>3, <2>1, RecallIs
  <2>3. QED
    BY <1>4, <2>2, NoMemoryIs DEF Val
<1>7. memory' \in Memory
  BY <1>4, NoMemoryIs
<1>8. upsets' \in 0..MaxUpsets
  BY <1>1, <1>4, ParserAssumption
<1>9. QED
  BY <1>1, <1>4, <1>5, <1>6, <1>7, <1>8, ForgetKeeps

-----------------------------------------------------------------------------
(* The bulk import *)

(* A step of the import keeps the invariant if it keeps the parts that are *)
(* about it.                                                               *)
LEMMA BulkStep ==
    ASSUME ParserInv, UNCHANGED <<log, session, committed, memory, upsets, forgot, undone>>,
           db \subseteq db', BulkOK', bulk.cut \subseteq bulk'.cut,
           BulkKnows(log, bulk'.at, bulk'.mem, bulk'.cut),
           bulk'.failed = 0 => ToldFits(log, bulk'.at, bulk'.cut, db' \cup bulk'.batch),
           \A e \in (db' \cup bulk'.batch) \ (db \cup bulk.batch) :
              EntryFits(log, forgot \cup undone, bulk'.cut, e)
    PROVE  ParserInv'
<1>1. Counters' /\ SessionOK' /\ LogOK(log') /\ memory' \in Memory
  BY DEF ParserInv, Counters, SessionOK
<1>2. PICK lost : lost = forgot \cup undone
  OBVIOUS
<1>3. MemoryFits(log, committed, memory, lost) /\ ToldFits(log, committed, lost, db)
  BY <1>2 DEF ParserInv
<1>4. ToldFits(log, committed, lost, db')
  BY <1>3, LostFits
<1>5. ASSUME NEW e \in db' \cup bulk'.batch PROVE EntryFits(log, lost, bulk'.cut, e)
  <2>1. CASE e \notin db \cup bulk.batch
    BY <1>2, <1>5, <2>1
  <2>2. CASE e \in db \cup bulk.batch
    <3>1. EntryFits(log, lost, bulk.cut, e)
      BY <1>2, <2>2 DEF ParserInv
    <3>2. QED
      BY <3>1, LostFits
  <2>3. QED
    BY <2>1, <2>2
<1>6. QED
  BY <1>1, <1>2, <1>3, <1>4, <1>5 DEF ParserInv

(* A line is read. *)
LEMMA BulkReadKeeps ==
    ASSUME ParserInv, BulkRead
    PROVE  ParserInv'
<1>1. /\ LogOK(log) /\ Len(log) \in Nat /\ log \in Seq(LogLines) /\ BulkOK
      /\ bulk.at \in 0..Len(log) /\ bulk.at < Len(log) /\ bulk.mem \in Memory
      /\ IsFiniteSet(bulk.batch) /\ Cardinality(bulk.batch) < BatchSize /\ BatchSize \in Nat
      /\ BulkKnows(log, bulk.at, bulk.mem, bulk.cut) /\ Len(log) <= MaxLines /\ MaxLines \in Nat
  BY ParserAssumption DEF ParserInv, LogOK, BulkOK, BulkRead, Counters
<1>2. PICK n : n = bulk.at + 1
  OBVIOUS
<1>3. n \in 1..Len(log) /\ n - 1 = bulk.at
  BY <1>1, <1>2
<1>4. log[n] \in LogLines
  BY <1>1, <1>3
<1>5. PICK made : made = Parse(bulk.mem, log[n])
  OBVIOUS
<1>6. PICK cuts : cuts = bulk.cut \cup Cut(bulk.mem, log[n])
  OBVIOUS
<1>7. PICK mem : mem = Learn(bulk.mem, log[n])
  OBVIOUS
<1>8. /\ bulk'.at = n /\ bulk'.mem = mem /\ bulk'.batch = bulk.batch \cup made
      /\ bulk'.failed = bulk.failed /\ bulk'.cut = cuts /\ bulk'.done = bulk.done
      /\ bulk' = [at |-> n, mem |-> mem, batch |-> bulk.batch \cup made, failed |-> bulk.failed,
                  cut |-> cuts, done |-> bulk.done]
      /\ UNCHANGED <<log, session, committed, memory, db, upsets, forgot, undone>>
  <2>1. bulk' = [bulk EXCEPT !.at = bulk.at + 1, !.mem = Learn(bulk.mem, log[bulk.at + 1]),
                             !.batch = bulk.batch \cup Parse(bulk.mem, log[bulk.at + 1]),
                             !.cut = bulk.cut \cup Cut(bulk.mem, log[bulk.at + 1])]
    BY DEF BulkRead
  <2>2. bulk = [at |-> bulk.at, mem |-> bulk.mem, batch |-> bulk.batch, failed |-> bulk.failed,
                cut |-> bulk.cut, done |-> bulk.done]
    BY <1>1 DEF BulkOK
  <2>3. bulk' = [at |-> n, mem |-> mem, batch |-> bulk.batch \cup made, failed |-> bulk.failed,
                 cut |-> cuts, done |-> bulk.done]
    BY <1>2, <1>5, <1>6, <1>7, <2>1, <2>2
  <2>4. UNCHANGED <<log, session, committed, memory, db, upsets, forgot, undone>>
    BY DEF BulkRead
  <2>5. QED
    BY <2>3, <2>4
<1>9. /\ BulkKnows(log, n, mem, cuts)
      /\ \A e \in made : \A lost : EntryFits(log, lost, cuts, e)
      /\ \A told : ToldFits(log, n - 1, bulk.cut, told) => ToldFits(log, n, cuts, told \cup made)
  BY <1>1, <1>3, <1>5, <1>6, <1>7, BulkFits
<1>10. mem \in Memory /\ cuts \subseteq Pids
  <2>1. bulk.cut \subseteq Pids
    BY <1>1 DEF BulkOK
  <2>2. QED
    BY <1>1, <1>4, <1>6, <1>7, <2>1, LearnIs
<1>11. IsFiniteSet(bulk.batch \cup made) /\ Cardinality(bulk.batch \cup made) <= BatchSize
  <2>1. /\ Cardinality(bulk.batch) \in Nat /\ BatchSize \in Nat
        /\ Cardinality(bulk.batch) < BatchSize /\ IsFiniteSet(bulk.batch)
    BY <1>1, FS_CardinalityType
  <2>2. CASE made \subseteq bulk.batch
    <3>1. bulk.batch \cup made = bulk.batch
      BY <2>2
    <3>2. QED
      BY <2>1, <3>1
  <2>3. CASE ~ (made \subseteq bulk.batch)
    <3>1. PICK e \in made : e \notin bulk.batch
      BY <2>3
    <3>2. made = {e}
      BY <1>5, <3>1, ParseOne
    <3>3. bulk.batch \cup made = bulk.batch \cup {e}
      BY <3>2
    <3>4. IsFiniteSet(bulk.batch \cup {e}) /\ Cardinality(bulk.batch \cup {e}) = Cardinality(bulk.batch) + 1
      BY <1>1, <3>1, FS_AddElement
    <3>5. Cardinality(bulk.batch) + 1 <= BatchSize
      BY <2>1
    <3>6. QED
      BY <3>3, <3>4, <3>5
  <2>4. QED
    BY <2>2, <2>3
<1>12. BulkOK'
  <2>1. ~ bulk.done
    BY <1>1 DEF BulkOK
  <2>2. n \in 0..Len(log) /\ bulk.failed \in Nat /\ bulk.done \in BOOLEAN
    BY <1>1, <1>3 DEF BulkOK
  <2>3. QED
    BY <1>8, <1>10, <1>11, <2>1, <2>2 DEF BulkOK
<1>13. ASSUME bulk'.failed = 0 PROVE ToldFits(log, bulk'.at, bulk'.cut, db' \cup bulk'.batch)
  <2>1. ToldFits(log, n - 1, bulk.cut, db \cup bulk.batch)
    BY <1>3, <1>8, <1>13 DEF ParserInv
  <2>2. ToldFits(log, n, cuts, (db \cup bulk.batch) \cup made)
    BY <1>9, <2>1
  <2>3. (db \cup bulk.batch) \cup made = db' \cup bulk'.batch
    BY <1>8
  <2>4. QED
    BY <1>8, <2>2, <2>3
<1>14. \A e \in (db' \cup bulk'.batch) \ (db \cup bulk.batch) :
          EntryFits(log, forgot \cup undone, bulk'.cut, e)
  BY <1>8, <1>9
<1>15. BulkKnows(log, bulk'.at, bulk'.mem, bulk'.cut) /\ bulk.cut \subseteq bulk'.cut /\ db \subseteq db'
  BY <1>6, <1>8, <1>9
<1>16. QED
  BY <1>8, <1>12, <1>13, <1>14, <1>15, BulkStep

(* A batch is sent, or lost and counted. *)
LEMMA FlushKeeps ==
    ASSUME ParserInv, NEW result, SendBatch(result), NEW failed,
           failed = IF result = "sent" THEN bulk.failed ELSE bulk.failed + Cardinality(bulk.batch),
           NEW done \in BOOLEAN, done => bulk.at = MaxLines,
           bulk' = [at |-> bulk.at, mem |-> bulk.mem, batch |-> {}, failed |-> failed,
                    cut |-> bulk.cut, done |-> done],
           UNCHANGED <<log, session, committed, memory, upsets, forgot, undone>>
    PROVE  ParserInv'
<1>1. /\ bulk.at \in 0..Len(log) /\ bulk.mem \in Memory /\ IsFiniteSet(bulk.batch)
      /\ bulk.failed \in Nat /\ bulk.cut \subseteq Pids
      /\ BulkKnows(log, bulk.at, bulk.mem, bulk.cut)
  BY DEF ParserInv, BulkOK
<1>2. /\ bulk'.at = bulk.at /\ bulk'.mem = bulk.mem /\ bulk'.batch = {}
      /\ bulk'.failed = failed /\ bulk'.cut = bulk.cut /\ bulk'.done = done
  OBVIOUS
<1>3. Cardinality(bulk.batch) \in Nat
  BY <1>1, FS_CardinalityType
<1>4. failed \in Nat /\ (failed = 0 => bulk.failed = 0 /\ (result = "sent" \/ Cardinality(bulk.batch) = 0))
  BY <1>1, <1>3
<1>5. db' = (IF result = "lost" THEN db ELSE db \cup bulk.batch)
  BY DEF SendBatch
<1>6. db \subseteq db' /\ db' \subseteq db \cup bulk.batch
  BY <1>5
<1>7. BulkOK'
  <2>1. IsFiniteSet({}) /\ Cardinality({}) = 0 /\ 0 <= BatchSize
    BY FS_EmptySet, ParserAssumption
  <2>2. QED
    BY <1>1, <1>2, <1>4, <2>1 DEF BulkOK
<1>8. ASSUME failed = 0 PROVE ToldFits(log, bulk.at, bulk.cut, db')
  <2>1. ToldFits(log, bulk.at, bulk.cut, db \cup bulk.batch)
    BY <1>4, <1>8 DEF ParserInv
  <2>2. db' = db \cup bulk.batch
    <3>1. CASE result = "sent"
      BY <1>5, <3>1
    <3>2. CASE Cardinality(bulk.batch) = 0
      <4>1. bulk.batch = {}
        BY <1>1, <3>2, FS_EmptySet
      <4>2. QED
        BY <1>5, <4>1
    <3>3. QED
      BY <1>4, <1>8, <3>1, <3>2
  <2>3. QED
    BY <2>1, <2>2
<1>9. db' \cup bulk'.batch = db'
  BY <1>2
<1>10. bulk'.failed = 0 => ToldFits(log, bulk'.at, bulk'.cut, db' \cup bulk'.batch)
  BY <1>2, <1>8, <1>9
<1>11. (db' \cup bulk'.batch) \ (db \cup bulk.batch) = {}
  BY <1>6, <1>9
<1>12. BulkKnows(log, bulk'.at, bulk'.mem, bulk'.cut) /\ bulk.cut \subseteq bulk'.cut
  BY <1>1, <1>2
<1>13. QED
  BY <1>6, <1>7, <1>10, <1>11, <1>12, BulkStep

(* The end of a batch and of the import. *)
LEMMA BulkSendKeeps ==
    ASSUME ParserInv, NEW result, BulkFlush(result) \/ BulkEnd(result)
    PROVE  ParserInv'
<1>1. /\ bulk = [at |-> bulk.at, mem |-> bulk.mem, batch |-> bulk.batch, failed |-> bulk.failed,
                 cut |-> bulk.cut, done |-> bulk.done]
      /\ bulk.done \in BOOLEAN
      /\ bulk.done => bulk.at = MaxLines
  BY DEF ParserInv, BulkOK
<1>2. PICK failed : failed = IF result = "sent" THEN bulk.failed ELSE bulk.failed + Cardinality(bulk.batch)
  OBVIOUS
<1>3. Flushed(bulk, result) = [at |-> bulk.at, mem |-> bulk.mem, batch |-> {}, failed |-> failed,
                               cut |-> bulk.cut, done |-> bulk.done]
  <2>1. Flushed(bulk, result) = [bulk EXCEPT !.batch = {}, !.failed = failed]
    BY <1>2 DEF Flushed
  <2>2. QED
    BY <1>1, <2>1
<1>4. CASE BulkFlush(result)
  <2>1. /\ bulk' = Flushed(bulk, result) /\ SendBatch(result)
        /\ UNCHANGED <<log, session, committed, memory, upsets, forgot, undone>>
    BY <1>4 DEF BulkFlush
  <2>2. bulk.done \in BOOLEAN /\ (bulk.done => bulk.at = MaxLines)
    BY <1>1
  <2>3. QED
    BY <1>2, <1>3, <2>1, <2>2, FlushKeeps
<1>5. CASE BulkEnd(result)
  <2>1. /\ bulk' = [Flushed(bulk, result) EXCEPT !.done = TRUE] /\ SendBatch(result)
        /\ bulk.at = MaxLines
        /\ UNCHANGED <<log, session, committed, memory, upsets, forgot, undone>>
    BY <1>5 DEF BulkEnd
  <2>2. PICK yes : yes = TRUE
    OBVIOUS
  <2>3. PICK f : f = Flushed(bulk, result)
    OBVIOUS
  <2>4. bulk' = [f EXCEPT !.done = yes]
    BY <2>1, <2>2, <2>3, Zenon
  <2>5. f = [at |-> bulk.at, mem |-> bulk.mem, batch |-> {}, failed |-> failed,
             cut |-> bulk.cut, done |-> bulk.done]
    BY <1>3, <2>3
  <2>6. bulk' = [at |-> bulk.at, mem |-> bulk.mem, batch |-> {}, failed |-> failed,
                 cut |-> bulk.cut, done |-> yes]
    BY <2>4, <2>5
  <2>7. yes \in BOOLEAN
    BY <2>2
  <2>8. QED
    BY <1>2, <2>1, <2>6, <2>7, FlushKeeps
<1>6. QED
  BY <1>4, <1>5

-----------------------------------------------------------------------------
(* The invariant and what it says *)

(* It holds at first. *)
LEMMA ParserInitInv == ParserInit => ParserInv
<1>1. SUFFICES ASSUME ParserInit PROVE ParserInv
  OBVIOUS
<1>2. /\ log = <<>> /\ session = [p \in Pids |-> Nothing] /\ committed = 0
      /\ memory = NoMemory /\ db = {} /\ upsets = 0 /\ forgot = {} /\ undone = {}
      /\ bulk = [at |-> 0, mem |-> NoMemory, batch |-> {}, failed |-> 0, cut |-> {}, done |-> FALSE]
  BY <1>1 DEF ParserInit
<1>3. log \in Seq(LogLines) /\ Len(log) = 0
  BY <1>2
<1>4. LogOK(log)
  BY <1>3 DEF LogOK
<1>5. Counters
  BY <1>2, <1>3, ParserAssumption DEF Counters
<1>6. SessionOK
  BY <1>2, ParserAssumption DEF SessionOK
<1>7. BulkOK
  <2>1. IsFiniteSet({}) /\ Cardinality({}) = 0 /\ 0 <= BatchSize
    BY FS_EmptySet, ParserAssumption
  <2>2. QED
    BY <1>2, <1>3, <2>1, NoMemoryIs DEF BulkOK
<1>8. ASSUME NEW p, NEW kind \in Kinds PROVE IsKnown(log, 0, kind, p, Val(NoMemory, kind, p))
  BY NoMemoryIs DEF IsKnown, Taken
<1>9. MemoryFits(log, committed, memory, forgot \cup undone)
  <2>1. SUFFICES ASSUME NEW p \in Pids
                 PROVE  \E h \in 0..0 : h <= 0 + MaxLinesPerPoll /\ ReadFits(log, 0, h, p, NoMemory)
    BY <1>2, <1>3 DEF MemoryFits
  <2>2. ReadFits(log, 0, 0, p, NoMemory)
    BY <1>8 DEF ReadFits
  <2>3. 0 \in 0..0 /\ 0 <= 0 + MaxLinesPerPoll
    BY ParserAssumption
  <2>4. QED
    BY <2>2, <2>3
<1>10. BulkKnows(log, bulk.at, bulk.mem, bulk.cut)
  BY <1>2, <1>8 DEF BulkKnows
<1>11. ToldFits(log, committed, forgot \cup undone, db) /\ ToldFits(log, bulk.at, bulk.cut, db \cup bulk.batch)
  BY <1>2 DEF ToldFits
<1>12. QED
  BY <1>2, <1>4, <1>5, <1>6, <1>7, <1>9, <1>10, <1>11, NoMemoryIs DEF ParserInv

(* Every step keeps it. *)
LEMMA ParserStepInv ==
    ASSUME ParserInv, [ParserNext]_parserVars
    PROVE  ParserInv'
<1>1. CASE UNCHANGED parserVars
  BY <1>1 DEF parserVars, ParserInv, Counters, SessionOK, BulkOK
<1>2. ASSUME NEW p \in Pids,
             \/ \E a \in Accounts : User(p, a)
             \/ \E code \in {"230", "530"} : Pass(p, code)
             \/ Quit(p)
             \/ \E f \in Files : RenameFrom(p, f)
             \/ \E code \in {"250", "553"} : RenameTo(p, code)
             \/ \E o \in Outcomes : Transfer(p, o)
             \/ \E c \in Simple : OtherCommand(p, c)
      PROVE  ParserInv'
  BY <1>2, ProftpdStep
<1>3. ASSUME NEW p \in Pids, Expire(p) PROVE ParserInv'
  BY <1>3, ExpireKeeps
<1>4. CASE PollCommitted \/ PollEmpty \/ PollDisabled
  BY <1>4, PollKeeps
<1>5. CASE Restart
  BY <1>5, RestartKeeps
<1>6. CASE BulkRead
  BY <1>6, BulkReadKeeps
<1>7. ASSUME NEW result, BulkFlush(result) \/ BulkEnd(result) PROVE ParserInv'
  BY <1>7, BulkSendKeeps
<1>8. QED
  BY <1>1, <1>2, <1>3, <1>4, <1>5, <1>6, <1>7, Zenon DEF ParserNext

(* ParserInv is an inductive invariant. *)
LEMMA ParserInductive == ParserSpec => []ParserInv
<1>1. ParserInit => ParserInv
  BY ParserInitInv
<1>2. ParserInv /\ [ParserNext]_parserVars => ParserInv'
  BY ParserStepInv
<1>3. QED
  BY <1>1, <1>2, PTL DEF ParserSpec

(* The positions are in the log, no dictionary of sessions grows beyond    *)
(* _MAX_SESSIONS or names a pid twice, and a batch of the import never     *)
(* exceeds its size.                                                       *)
THEOREM ParserTypeCorrect == ParserSpec => []ParserTypeOK
<1>1. ParserInv => ParserTypeOK
  <2>1. SUFFICES ASSUME ParserInv PROVE ParserTypeOK
    OBVIOUS
  <2>2. \A mem \in Memory : StoreOK(mem.user) /\ StoreOK(mem.rnfr)
    BY DEF Memory, Stores
  <2>3. memory \in Memory /\ bulk.mem \in Memory
    BY <2>1 DEF ParserInv, BulkOK
  <2>4. QED
    BY <2>1, <2>2, <2>3 DEF ParserInv, Counters, SessionOK, BulkOK, ParserTypeOK
<1>2. QED
  BY <1>1, ParserInductive, PTL

(* No entry names an account or a path of another session or attempt,      *)
(* however pids are used again and lines are read twice, apart from pids   *)
(* whose memory was lost or used by a poll that was rolled back.           *)
THEOREM NoWrongName == ParserSpec => []NamesAreOwn
<1>1. ParserInv => NamesAreOwn
  <2>1. SUFFICES ASSUME ParserInv, NEW e \in db, e.action \in {"login_fail", "rename"},
                        e.pid \notin forgot \cup undone
                 PROVE  \E n \in DOMAIN log : log[n].ev = e.ev /\
                           \E x \in Expected(log, n) : e.val \in {x.val, Nothing}
    BY DEF NamesAreOwn
  <2>2. EntryFits(log, forgot \cup undone, bulk.cut, e)
    BY <2>1 DEF ParserInv
  <2>3. PICK n \in 1..Len(log) : /\ e.ev = log[n].ev
                                 /\ \E x \in Expected(log, n) : e.val \in {x.val, Nothing}
    BY <2>1, <2>2 DEF EntryFits
  <2>4. DOMAIN log = 1..Len(log)
    BY <2>1 DEF ParserInv, LogOK
  <2>5. QED
    BY <2>3, <2>4
<1>2. QED
  BY <1>1, ParserInductive, PTL

(* Two lines that tell of one event are of one pid, and only the second of *)
(* them makes an entry.                                                    *)
LEMMA OneEvent ==
    ASSUME NEW lines, LogOK(lines), NEW m \in 1..Len(lines), NEW n \in 1..Len(lines),
           lines[m].ev = lines[n].ev
    PROVE  /\ lines[m].pid = lines[n].pid
           /\ Expected(lines, m) # {} /\ Expected(lines, n) # {} => m = n
<1>1. EventOK(lines, m) /\ EventOK(lines, n) /\ m \in Nat /\ n \in Nat
  BY DEF LogOK
<1>2. ASSUME NEW i, lines[i].cmd = "TRANSFER", lines[i].code \in {"226", "426"}
      PROVE  Expected(lines, i) = {}
  BY <1>2 DEF Expected, Parse, Refused
<1>3. CASE m = n
  BY <1>3
<1>4. CASE m # n
  <2>1. \/ /\ m = n - 1 /\ lines[m].pid = lines[n].pid
           /\ lines[m].cmd = "TRANSFER" /\ lines[m].code \in {"226", "426"}
        \/ /\ n = m - 1 /\ lines[n].pid = lines[m].pid
           /\ lines[n].cmd = "TRANSFER" /\ lines[n].code \in {"226", "426"}
    BY <1>1, <1>4 DEF EventOK
  <2>2. QED
    BY <1>2, <2>1
<1>5. QED
  BY <1>3, <1>4

(* Committed lines have their entries, and no event has two. *)
THEOREM NothingTwice == ParserSpec => []ToldOnce
<1>1. ParserInv => ToldOnce
  <2>1. SUFFICES ASSUME ParserInv PROVE ToldOnce
    OBVIOUS
  <2>2. PICK lost : lost = forgot \cup undone
    OBVIOUS
  <2>3. PICK sound : sound = Pids \ (forgot \cup undone \cup bulk.cut)
    OBVIOUS
  <2>4. LogOK(log) /\ ToldFits(log, committed, lost, db) /\ \A e \in db : EntryFits(log, lost, bulk.cut, e)
    BY <2>1, <2>2 DEF ParserInv
  <2>5. ASSUME NEW n \in 1..committed, log[n].pid \in sound PROVE Expected(log, n) \subseteq db
    BY <2>2, <2>3, <2>4, <2>5 DEF ToldFits
  <2>6. ASSUME NEW d \in db, NEW e \in db, d.ev = e.ev, d.pid \in sound PROVE d = e
    <3>1. PICK m \in 1..Len(log) :
            /\ d.ev = log[m].ev /\ d.pid = log[m].pid
            /\ d.pid \notin lost \cup bulk.cut => d \in Expected(log, m)
      BY <2>4 DEF EntryFits
    <3>2. PICK n \in 1..Len(log) :
            /\ e.ev = log[n].ev /\ e.pid = log[n].pid
            /\ e.pid \notin lost \cup bulk.cut => e \in Expected(log, n)
      BY <2>4 DEF EntryFits
    <3>3. /\ log[m].pid = log[n].pid
          /\ Expected(log, m) # {} /\ Expected(log, n) # {} => m = n
      BY <2>4, <2>6, <3>1, <3>2, OneEvent
    <3>4. d.pid \notin lost \cup bulk.cut /\ e.pid \notin lost \cup bulk.cut
      BY <2>2, <2>3, <2>6, <3>1, <3>2, <3>3
    <3>5. d \in Expected(log, m) /\ e \in Expected(log, n) /\ m = n
      BY <3>1, <3>2, <3>3, <3>4
    <3>6. QED
      BY <3>5, ParseOne DEF Expected
  <2>7. QED
    BY <2>3, <2>5, <2>6 DEF ToldOnce
<1>2. QED
  BY <1>1, ParserInductive, PTL

(* A bulk import that reports no failure leaves no line of the log without *)
(* its entry, whatever the daemon had lost.                                *)
THEOREM ImportCompletes == ParserSpec => []BulkCompletes
<1>1. ParserInv => BulkCompletes
  <2>1. SUFFICES ASSUME ParserInv, bulk.done, bulk.failed = 0, NEW n \in DOMAIN log,
                        log[n].pid \notin bulk.cut
                 PROVE  Expected(log, n) \subseteq db
    BY DEF BulkCompletes
  <2>2. /\ bulk.at = MaxLines /\ bulk.batch = {} /\ bulk.at \in 0..Len(log)
        /\ ToldFits(log, bulk.at, bulk.cut, db \cup bulk.batch)
        /\ Len(log) \in Nat /\ DOMAIN log = 1..Len(log) /\ Len(log) <= MaxLines
    BY <2>1 DEF ParserInv, BulkOK, Counters, LogOK
  <2>3. n \in 1..bulk.at
    BY <2>1, <2>2
  <2>4. db \cup bulk.batch = db
    BY <2>2
  <2>5. QED
    BY <2>1, <2>2, <2>3, <2>4 DEF ToldFits
<1>2. QED
  BY <1>1, ParserInductive, PTL
=============================================================================
