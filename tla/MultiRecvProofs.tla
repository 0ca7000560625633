--------------------------- MODULE MultiRecvProofs ---------------------------
(***************************************************************************)
(* Theorems about the multi-receive client, for every size of message,     *)
(* chunk, batch and completion queue, with and without failures: where the *)
(* chunks are, and when the count of completions per buffer is right.      *)
(*                                                                         *)
(* IInv is inductive.  Besides the properties it says that nothing of a    *)
(* chunk follows its release in the CQ (LastOfChunk), and, for the runs    *)
(* NoMismatch speaks of, that the count, the CQ and the chunk being filled *)
(* are in step: the flag is on each entry that makes the count a multiple  *)
(* of comp_per_buf (InStep).                                               *)
(***************************************************************************)
EXTENDS MultiRecv, SequenceTheorems, FiniteSetTheorems, TLAPS

LastOfChunk ==
    \A i, j \in 1..Len(cq) : i < j /\ cq[i].multi_recv => cq[j].chunk # cq[i].chunk

NoneFilling == posted = << >> => fill = 0

InStep ==
    ~ failed /\ ~ undefined /\ ~ apart /\ size % comp_per_buf = 0 =>
        /\ ~ mismatch /\ forgotten = {}
        /\ per_buf_cnt < comp_per_buf
        /\ (num_completions + per_buf_cnt) % comp_per_buf = 0
        /\ pc # "call" => per_buf_cnt = 0
        /\ fill = (per_buf_cnt + Len(cq)) % comp_per_buf
        /\ \A i \in 1..Len(cq) :
              /\ cq[i].recv
              /\ cq[i].multi_recv <=> (per_buf_cnt + i) % comp_per_buf = 0

Places == ChunkLaw /\ LastOfChunk /\ NoneFilling

IInv == TypeOK /\ Places /\ InStep

-----------------------------------------------------------------------------
\* The remainder of a division is the only one.
LEMMA OneRemainder ==
  ASSUME NEW n \in Nat \ {0}, NEW q \in Int, NEW k \in Int,
         NEW r \in 0..(n - 1), NEW t \in 0..(n - 1),
         n * q + r = n * k + t
  PROVE  r = t
<1>1. n * (q - k) = t - r
  OBVIOUS
<1>2. q - k = 0
  <2>1. ~ q - k >= 1
    <3>1. q - k >= 1 => n * (q - k) >= n
      OBVIOUS
    <3> QED
      BY <1>1, <3>1
  <2>2. ~ q - k <= -1
    <3>1. q - k <= -1 => n * (q - k) <= -n
      OBVIOUS
    <3> QED
      BY <1>1, <3>1
  <2> QED
    BY <2>1, <2>2
<1> QED
  BY <1>1, <1>2

LEMMA Division ==
  ASSUME NEW n \in Nat \ {0}, NEW a \in Nat
  PROVE  a % n \in 0..(n - 1) /\ a \div n \in Int /\ a = n * (a \div n) + (a % n)
  BY SMT

\* a % n when a is one more, or n more, and when a is at most n.
LEMMA ModStep ==
  ASSUME NEW n \in Nat \ {0}, NEW a \in Nat
  PROVE  (a + 1) % n = IF (a % n) + 1 = n THEN 0 ELSE (a % n) + 1
<1> DEFINE q == a \div n
           r == a % n
           k == (a + 1) \div n
           t == (a + 1) % n
<1>1. /\ q \in Int /\ r \in 0..(n - 1) /\ a = n * q + r
      /\ k \in Int /\ t \in 0..(n - 1) /\ a + 1 = n * k + t
  BY Division
<1> HIDE DEF q, r, k, t
<1>2. CASE r + 1 = n
  <2>1. n * (q + 1) + 0 = n * k + t
    BY <1>1, <1>2
  <2>2. q + 1 \in Int /\ 0 \in 0..(n - 1)
    BY <1>1
  <2>3. t = 0
    BY <1>1, <2>1, <2>2, OneRemainder
  <2> QED
    BY <1>2, <2>3 DEF r, t
<1>3. CASE r + 1 # n
  <2>1. n * q + (r + 1) = n * k + t /\ r + 1 \in 0..(n - 1)
    BY <1>1, <1>3
  <2>2. t = r + 1
    BY <1>1, <2>1, OneRemainder
  <2> QED
    BY <1>3, <2>2 DEF r, t
<1> QED
  BY <1>2, <1>3

LEMMA ModPlus ==
  ASSUME NEW n \in Nat \ {0}, NEW a \in Nat
  PROVE  (n + a) % n = a % n
<1> DEFINE q == a \div n
           r == a % n
           k == (n + a) \div n
           t == (n + a) % n
<1>1. /\ q \in Int /\ r \in 0..(n - 1) /\ a = n * q + r
      /\ k \in Int /\ t \in 0..(n - 1) /\ n + a = n * k + t
  BY Division
<1> HIDE DEF q, r, k, t
<1>2. n * (q + 1) + r = n * k + t /\ q + 1 \in Int
  BY <1>1
<1>3. r = t
  BY <1>1, <1>2, OneRemainder
<1> QED
  BY <1>3 DEF r, t

LEMMA ModSmall ==
  ASSUME NEW n \in Nat \ {0}, NEW a \in 0..n
  PROVE  a % n = IF a = n THEN 0 ELSE a
<1>1. a % n \in 0..(n - 1) /\ a \div n \in Int /\ a = n * (a \div n) + (a % n)
  BY Division
<1>2. CASE a = n
  <2>1. n * 1 + 0 = n * (a \div n) + (a % n) /\ 0 \in 0..(n - 1)
    BY <1>1, <1>2
  <2> QED
    BY <1>1, <1>2, <2>1, OneRemainder
<1>3. CASE a # n
  <2>1. n * 0 + a = n * (a \div n) + (a % n) /\ a \in 0..(n - 1)
    BY <1>1, <1>3
  <2> QED
    BY <1>1, <1>3, <2>1, OneRemainder
<1> QED
  BY <1>2, <1>3

\* A chunk holds at least one message.
LEMMA ChunkHolds == comp_per_buf \in Nat \ {0}
<1> USE MultiRecvAssumption DEF MultiRecvAssumption
<1>1. rx_size \in Nat /\ rx_size >= 2 * TransferSize
  <2> DEFINE sizes == {TransferSize * 128, MaxXferSize * 4}
  <2>1. \E x \in sizes : \A y \in sizes : x <= y
    OBVIOUS
  <2>2. rx_size \in sizes
    BY <2>1 DEF rx_size, Min
  <2> QED
    BY <2>2
<1>2. rx_size \div 2 \in Nat /\ rx_size \div 2 >= TransferSize
  BY <1>1
<1> QED
  BY <1>2 DEF comp_per_buf
-----------------------------------------------------------------------------
\* Where the messages of chunk c are in the entries s.
MessagesOf(s, c) == {i \in 1..Len(s) : s[i].chunk = c /\ s[i].recv}

LEMMA Counting ==
  ASSUME NEW s \in Seq(Entries), NEW c
  PROVE  /\ IsFiniteSet(MessagesOf(s, c))
         /\ Cardinality(MessagesOf(s, c)) \in Nat
         /\ Cardinality(MessagesOf(s, c)) = 0 <=> MessagesOf(s, c) = {}
<1>1. Len(s) \in Nat
  BY LenProperties
<1>2. IsFiniteSet(1..Len(s))
  BY <1>1, FS_Interval
<1>3. IsFiniteSet(MessagesOf(s, c))
  <2>1. MessagesOf(s, c) \subseteq 1..Len(s)
    BY DEF MessagesOf
  <2> QED
    BY <1>2, <2>1, FS_Subset
<1> QED
  BY <1>3, FS_CardinalityType, FS_EmptySet

\* What is left of s when k entries have been read.
Rest(t, s, k) ==
    /\ t \in Seq(Entries)
    /\ Len(t) = Len(s) - k
    /\ \A i \in 1..Len(t) : t[i] = s[i + k]

LEMMA TailIsRest ==
  ASSUME NEW s \in Seq(Entries), s # << >>
  PROVE  Rest(Tail(s), s, 1)
  BY HeadTailProperties DEF Rest

LEMMA SuffixIsRest ==
  ASSUME NEW s \in Seq(Entries), NEW n \in 1..Len(s)
  PROVE  Rest(SubSeq(s, n + 1, Len(s)), s, n)
<1>1. Len(s) \in Nat /\ \A i \in 1..Len(s) : s[i] \in Entries
  BY LenProperties
<1> DEFINE m == Len(s)
<1>2. m \in Nat /\ n \in 1..m /\ \A i \in (n + 1)..m : s[i] \in Entries
  BY <1>1
<1> HIDE DEF m
<1>3. /\ SubSeq(s, n + 1, m) \in Seq(Entries)
      /\ Len(SubSeq(s, n + 1, m)) = IF n + 1 <= m THEN m - (n + 1) + 1 ELSE 0
      /\ \A i \in 1..(m - (n + 1) + 1) : SubSeq(s, n + 1, m)[i] = s[n + 1 + i - 1]
  <2>1. n + 1 \in Int /\ m \in Int
    BY <1>2
  <2> QED
    BY <1>2, <2>1, SubSeqProperties
<1>4. Len(SubSeq(s, n + 1, m)) = m - n
  BY <1>2, <1>3
<1>5. \A i \in 1..(m - n) : SubSeq(s, n + 1, m)[i] = s[i + n]
  <2>1. ASSUME NEW i \in 1..(m - n)
        PROVE  SubSeq(s, n + 1, m)[i] = s[i + n]
    <3>1. i \in 1..(m - (n + 1) + 1) /\ n + 1 + i - 1 = i + n
      BY <1>2
    <3> QED
      BY <1>3, <3>1
  <2> QED
    BY <2>1
<1> QED
  BY <1>3, <1>4, <1>5 DEF Rest, m

\* It holds no more messages of a chunk than the whole.
LEMMA FewerLeft ==
  ASSUME NEW s \in Seq(Entries), NEW k \in 1..Len(s), NEW t, Rest(t, s, k), NEW c
  PROVE  Cardinality(MessagesOf(t, c)) <= Cardinality(MessagesOf(s, c))
<1> DEFINE f == [i \in MessagesOf(t, c) |-> i + k]
<1>1. Len(s) \in Nat /\ Len(t) = Len(s) - k
  BY LenProperties DEF Rest
<1>2. ASSUME NEW i \in MessagesOf(t, c)
      PROVE  i \in Int /\ i + k \in MessagesOf(s, c)
  <2>1. i \in 1..Len(t) /\ i + k \in 1..Len(s)
    BY <1>1, <1>2 DEF MessagesOf
  <2> QED
    BY <1>2, <2>1 DEF MessagesOf, Rest
<1>3. f \in Injection(MessagesOf(t, c), MessagesOf(s, c))
  <2>1. f \in [MessagesOf(t, c) -> MessagesOf(s, c)]
    BY <1>2
  <2>2. IsInjective(f)
    <3>1. ASSUME NEW i \in MessagesOf(t, c), NEW j \in MessagesOf(t, c), i + k = j + k
          PROVE  i = j
      <4>1. i \in Int /\ j \in Int /\ k \in Int
        BY <1>2
      <4> QED
        BY <3>1, <4>1
    <3> QED
      BY <3>1 DEF IsInjective
  <2> QED
    BY <2>1, <2>2 DEF Injection
<1> QED
  BY <1>3, Counting, FS_Injection
-----------------------------------------------------------------------------
\* The chunks given back by the entries from lo to hi.
Gone(lo, hi) == {cq[i].chunk : i \in {j \in lo..hi : cq[j].multi_recv}}

(***************************************************************************)
(* Whatever a reading of k entries does with them, each chunk is in one    *)
(* place: it is posted again if its release comes first, or forgotten.     *)
(***************************************************************************)
LEMMA ReadPlaces ==
  ASSUME TypeOK, Places, NEW k \in 1..Len(cq), Rest(cq', cq, k), fill' = fill,
         \/ posted' = posted /\ forgotten' = forgotten \cup Gone(1, k)
         \/ /\ cq[1].multi_recv
            /\ posted' = Append(posted, cq[1].chunk)
            /\ forgotten' = forgotten \cup Gone(2, k)
  PROVE  Places'
<1> DEFINE m == Len(cq)
           p == Len(posted)
<1>0. /\ cq \in Seq(Entries) /\ posted \in Seq(Chunks)
      /\ m \in Nat /\ p \in Nat /\ k \in 1..m
      /\ Len(cq') = m - k
      /\ \A i \in 1..m : cq[i] \in Entries
      /\ \A i \in 1..(m - k) : cq'[i] = cq[i + k]
      /\ \A i \in 1..p : posted[i] \in Chunks
      /\ DOMAIN posted = 1..p
      /\ fill \in Nat
  BY ChunkHolds, LenProperties DEF TypeOK, Rest
<1> HIDE DEF m, p
<1>1. LastOfChunk'
  <2>1. ASSUME NEW i \in 1..(m - k), NEW j \in 1..(m - k), i < j, cq'[i].multi_recv
        PROVE  cq'[j].chunk # cq'[i].chunk
    <3>1. i + k \in 1..m /\ j + k \in 1..m /\ i + k < j + k
      BY <1>0, <2>1
    <3> QED
      BY <1>0, <2>1, <3>1 DEF Places, LastOfChunk, m
  <2> QED
    BY <1>0, <2>1 DEF LastOfChunk
\* What was released is still, or has been read.
<1>2. ASSUME NEW c
      PROVE  /\ c \in Released(cq) <=> \E i \in 1..m : cq[i].multi_recv /\ cq[i].chunk = c
             /\ c \in Released(cq)' <=> \E i \in (k + 1)..m : cq[i].multi_recv /\ cq[i].chunk = c
  <2>1. DOMAIN cq = 1..m /\ DOMAIN cq' = 1..(m - k)
    BY <1>0, LenProperties DEF Rest, m
  <2>2. c \in Released(cq) <=> \E i \in 1..m : cq[i].multi_recv /\ cq[i].chunk = c
    BY <2>1 DEF Released, ToSet
  <2>3. c \in Released(cq)' <=> \E i \in 1..(m - k) : cq'[i].multi_recv /\ cq'[i].chunk = c
    BY <2>1 DEF Released, ToSet
  <2>4. ASSUME NEW i \in 1..(m - k)
        PROVE  i + k \in (k + 1)..m /\ cq'[i] = cq[i + k]
    BY <1>0
  <2>5. ASSUME NEW i \in (k + 1)..m
        PROVE  i - k \in 1..(m - k) /\ cq'[i - k] = cq[i]
    <3>1. i - k \in 1..(m - k) /\ (i - k) + k = i
      BY <1>0
    <3> QED
      BY <1>0, <3>1
  <2> QED
    BY <2>2, <2>3, <2>4, <2>5
<1>3. ASSUME NEW lo \in {1, 2}, NEW c
      PROVE  c \in Gone(lo, k) <=> \E i \in lo..k : cq[i].multi_recv /\ cq[i].chunk = c
  BY DEF Gone
<1>4. \A c : Unread(c)' <= Unread(c) /\ Unread(c)' \in Nat
  <2>1. ASSUME NEW c
        PROVE  Unread(c)' <= Unread(c) /\ Unread(c)' \in Nat
    <3>1. Unread(c) = Cardinality(MessagesOf(cq, c)) /\ Unread(c)' = Cardinality(MessagesOf(cq', c))
      BY DEF Unread, MessagesOf
    <3>2. cq' \in Seq(Entries)
      BY DEF Rest
    <3> QED
      BY <1>0, <3>1, <3>2, FewerLeft, Counting DEF m
  <2> QED
    BY <2>1
<1>5. CASE posted' = posted /\ forgotten' = forgotten \cup Gone(1, k)
  <2>1. NoneFilling'
    BY <1>5 DEF Places, NoneFilling
  <2>2. ASSUME NEW c \in Chunks
        PROVE  /\ c \in ToSet(posted') \/ c \in Released(cq)' \/ c \in forgotten'
               /\ ~ (c \in ToSet(posted') /\ c \in Released(cq)')
               /\ c \in forgotten' => c \notin ToSet(posted') /\ c \notin Released(cq)'
    <3>1. c \in Released(cq) <=> c \in Released(cq)' \/ c \in Gone(1, k)
      BY <1>0, <1>2, <1>3
    <3>2. ~ (c \in Gone(1, k) /\ c \in Released(cq)')
      <4>1. ASSUME NEW i \in 1..k, cq[i].multi_recv, cq[i].chunk = c,
                   NEW j \in (k + 1)..m, cq[j].chunk = c
            PROVE  FALSE
        <5>1. i \in 1..m /\ j \in 1..m /\ i < j
          BY <1>0
        <5> QED
          BY <4>1, <5>1 DEF Places, LastOfChunk, m
      <4> QED
        BY <1>2, <1>3, <4>1
    <3> QED
      BY <1>5, <3>1, <3>2 DEF Places, ChunkLaw
  <2>3. ASSUME NEW c \in Chunks, c \in ToSet(posted')
        PROVE  Unread(c)' <= IF c = Head(posted') THEN fill' ELSE 0
    <3>1. Unread(c) <= IF c = Head(posted) THEN fill ELSE 0
      BY <1>5, <2>3 DEF Places, ChunkLaw
    <3>2. Unread(c) \in Nat
      BY <1>0, Counting DEF Unread, MessagesOf
    <3>3. Unread(c)' <= Unread(c) /\ Unread(c)' \in Nat
      BY <1>4
    <3>4. posted' = posted /\ fill' = fill
      BY <1>5
    <3> DEFINE u == Unread(c)
               v == Unread(c)'
    <3> HIDE DEF u, v
    <3>5. v <= u /\ u \in Nat /\ v \in Nat /\ u <= IF c = Head(posted) THEN fill ELSE 0
      BY <3>1, <3>2, <3>3 DEF u, v
    <3>6. v <= IF c = Head(posted) THEN fill ELSE 0
      BY <1>0, <3>5
    <3> QED
      BY <3>4, <3>6 DEF v
  <2>4. IsInjective(posted')
    BY <1>5 DEF Places, ChunkLaw, Chunks
  <2> QED
    BY <1>1, <2>1, <2>2, <2>3, <2>4 DEF Places, ChunkLaw
<1>6. CASE /\ cq[1].multi_recv
           /\ posted' = Append(posted, cq[1].chunk)
           /\ forgotten' = forgotten \cup Gone(2, k)
  <2>0. PICK d \in Chunks : d = cq[1].chunk
    BY <1>0 DEF Entries
  <2>1. d \in Released(cq) /\ 1 \in 1..m
    BY <1>0, <1>2, <1>6, <2>0
  <2>2. d \notin ToSet(posted) /\ d \notin forgotten
    BY <2>1 DEF Places, ChunkLaw
  \* Nothing of it is left.
  <2>3. ASSUME NEW j \in 2..m
        PROVE  cq[j].chunk # d
    BY <1>0, <1>6, <2>0, <2>1 DEF Places, LastOfChunk, m
  <2>4. d \notin Released(cq)' /\ d \notin Gone(2, k)
    BY <1>0, <1>2, <1>3, <2>3
  <2>5. MessagesOf(cq', d) = {}
    <3>1. ASSUME NEW i \in 1..(m - k)
          PROVE  cq'[i].chunk # d
      <4>1. i + k \in 2..m
        BY <1>0
      <4> QED
        BY <1>0, <2>3, <4>1
    <3> QED
      BY <1>0, <3>1 DEF MessagesOf
  <2>6. Unread(d)' = 0
    BY <2>5, Counting DEF Unread, MessagesOf, Rest
  <2>7. /\ posted' \in Seq(Chunks) /\ posted' # << >>
        /\ DOMAIN posted' = 1..(p + 1)
        /\ \A i \in 1..p : posted'[i] = posted[i]
        /\ posted'[p + 1] = d
        /\ Head(posted') = IF posted = << >> THEN d ELSE Head(posted)
    BY <1>0, <1>6, <2>0, AppendProperties, HeadTailAppend, LenProperties DEF p
  <2>8. ToSet(posted') = ToSet(posted) \cup {d}
    <3>1. ToSet(posted) = {posted[i] : i \in 1..p}
      BY <1>0 DEF ToSet
    <3>2. ToSet(posted') = {posted'[i] : i \in 1..(p + 1)}
      BY <2>7 DEF ToSet
    <3>3. p + 1 \in 1..(p + 1) /\ \A i \in 1..(p + 1) : i = p + 1 \/ i \in 1..p
      BY <1>0
    <3>4. \A i \in 1..p : i \in 1..(p + 1)
      BY <1>0
    <3> QED
      BY <2>7, <3>1, <3>2, <3>3, <3>4
  <2>9. IsInjective(posted')
    <3>1. \A i \in 1..p : posted[i] # d
      BY <1>0, <2>2 DEF ToSet
    <3>2. \A i, j \in 1..p : posted[i] = posted[j] => i = j
      BY <1>0 DEF Places, ChunkLaw, IsInjective, Chunks
    <3>3. \A i \in 1..(p + 1) : i = p + 1 \/ i \in 1..p
      BY <1>0
    <3> QED
      BY <2>7, <3>1, <3>2, <3>3 DEF IsInjective
  <2>10. ASSUME NEW c \in Chunks
         PROVE  /\ c \in ToSet(posted') \/ c \in Released(cq)' \/ c \in forgotten'
                /\ ~ (c \in ToSet(posted') /\ c \in Released(cq)')
                /\ c \in forgotten' => c \notin ToSet(posted') /\ c \notin Released(cq)'
    <3>1. c # d => (c \in Released(cq) <=> c \in Released(cq)' \/ c \in Gone(2, k))
      <4>1. ASSUME c # d, NEW i \in 1..m, cq[i].chunk = c
            PROVE  i \in 2..k \/ i \in (k + 1)..m
        <5>1. i # 1
          BY <2>0, <4>1
        <5> QED
          BY <1>0, <5>1
      <4>2. \A i \in 2..k : i \in 1..m
        BY <1>0
      <4>3. \A i \in (k + 1)..m : i \in 1..m
        BY <1>0
      <4> QED
        BY <1>2, <1>3, <4>1, <4>2, <4>3
    <3>2. ~ (c \in Gone(2, k) /\ c \in Released(cq)')
      <4>1. ASSUME NEW i \in 2..k, cq[i].multi_recv, cq[i].chunk = c,
                   NEW j \in (k + 1)..m, cq[j].chunk = c
            PROVE  FALSE
        <5>1. i \in 1..m /\ j \in 1..m /\ i < j
          BY <1>0
        <5> QED
          BY <4>1, <5>1 DEF Places, LastOfChunk, m
      <4> QED
        BY <1>2, <1>3, <4>1
    <3> QED
      BY <1>6, <2>2, <2>4, <2>8, <3>1, <3>2 DEF Places, ChunkLaw
  <2>11. ASSUME NEW c \in Chunks, c \in ToSet(posted')
         PROVE  Unread(c)' <= IF c = Head(posted') THEN fill' ELSE 0
    <3>1. CASE c = d
      BY <1>0, <2>6, <3>1
    <3>2. CASE c # d
      <4>1. c \in ToSet(posted)
        BY <2>8, <2>11, <3>2
      <4>2. posted # << >>
        <5>1. \E i \in 1..p : TRUE
          BY <1>0, <4>1 DEF ToSet
        <5> QED
          BY <1>0, <5>1, EmptySeq DEF p
      <4>3. Unread(c) <= IF c = Head(posted) THEN fill ELSE 0
        BY <4>1 DEF Places, ChunkLaw
      <4>4. Unread(c) \in Nat
        BY <1>0, Counting DEF Unread, MessagesOf
      <4>5. Head(posted') = Head(posted) /\ fill' = fill
        BY <2>7, <4>2
      <4> DEFINE u == Unread(c)
                 v == Unread(c)'
      <4>6. v <= u /\ u \in Nat /\ v \in Nat /\ u <= IF c = Head(posted) THEN fill ELSE 0
        BY <1>4, <4>3, <4>4
      <4> HIDE DEF u, v
      <4>7. v <= IF c = Head(posted) THEN fill ELSE 0
        BY <1>0, <4>6
      <4> QED
        BY <4>5, <4>7 DEF v
    <3> QED
      BY <3>1, <3>2
  <2>12. NoneFilling'
    BY <2>7 DEF NoneFilling
  <2> QED
    BY <1>1, <2>9, <2>10, <2>11, <2>12 DEF Places, ChunkLaw
<1> QED
  BY <1>5, <1>6
-----------------------------------------------------------------------------
\* What Arrive adds to the CQ: a message of the chunk posted first, and its
\* release, if the chunk is full, on it or behind it.
LEMMA ArriveAdds ==
  ASSUME TypeOK, Arrive
  PROVE  \E c \in Chunks, n \in 1..2 :
            /\ posted # << >> /\ c = Head(posted)
            /\ fill + 1 = comp_per_buf \/ n = 1
            /\ cq' \in Seq(Entries)
            /\ Len(cq') = Len(cq) + n
            /\ \A i \in 1..Len(cq) : cq'[i] = cq[i]
            /\ \A i \in 1..n : cq'[Len(cq) + i].chunk = c
            /\ cq'[Len(cq) + 1].recv
            /\ n = 2 => ~ cq'[Len(cq) + 2].recv /\ ~ cq'[Len(cq) + 1].multi_recv
            /\ cq'[Len(cq) + n].multi_recv <=> fill + 1 = comp_per_buf
            /\ ~ apart => n = 1
<1> DEFINE c == Head(posted)
           full == fill + 1 = comp_per_buf
           message == [chunk |-> c, recv |-> TRUE, multi_recv |-> full /\ ~ apart]
           release == [chunk |-> c, recv |-> FALSE, multi_recv |-> TRUE]
           m == Len(cq)
<1>1. cq \in Seq(Entries) /\ m \in Nat /\ apart \in BOOLEAN
  BY LenProperties DEF TypeOK
<1>2. posted # << >> /\ c \in Chunks
  BY HeadTailProperties DEF TypeOK, Arrive
<1>3. message \in Entries /\ release \in Entries
  BY <1>1, <1>2 DEF Entries
<1>4. cq' = cq \o IF full /\ apart THEN <<message, release>> ELSE <<message>>
  BY DEF Arrive
<1>5. /\ message.chunk = c /\ message.recv /\ (message.multi_recv <=> full /\ ~ apart)
      /\ release.chunk = c /\ ~ release.recv /\ release.multi_recv
  OBVIOUS
<1> HIDE DEF c, full, message, release, m
<1>6. CASE full /\ apart
  <2>1. /\ <<message, release>> \in Seq(Entries) /\ Len(<<message, release>>) = 2
        /\ <<message, release>>[1] = message /\ <<message, release>>[2] = release
    BY <1>3
  <2>2. /\ cq' \in Seq(Entries) /\ Len(cq') = m + 2
        /\ \A i \in 1..(m + 2) :
              cq'[i] = IF i <= m THEN cq[i] ELSE <<message, release>>[i - m]
    BY <1>1, <1>4, <1>6, <2>1, ConcatProperties DEF m
  <2>3. cq'[m + 1] = message /\ cq'[m + 2] = release /\ \A i \in 1..m : cq'[i] = cq[i]
    <3>1. m + 1 \in 1..(m + 2) /\ m + 2 \in 1..(m + 2) /\ ~ m + 1 <= m /\ ~ m + 2 <= m
      BY <1>1
    <3>2. (m + 1) - m = 1 /\ (m + 2) - m = 2 /\ \A i \in 1..m : i \in 1..(m + 2) /\ i <= m
      BY <1>1
    <3> QED
      BY <2>1, <2>2, <3>1, <3>2
  <2>4. \A i \in 1..2 : cq'[m + i].chunk = c
    BY <1>5, <2>3
  <2> USE <1>2
  <2> WITNESS c \in Chunks, 2 \in 1..2
  <2> QED
    BY <1>1, <1>2, <1>5, <1>6, <2>2, <2>3, <2>4 DEF m, full, c
<1>7. CASE ~ (full /\ apart)
  <2>1. /\ <<message>> \in Seq(Entries) /\ Len(<<message>>) = 1 /\ <<message>>[1] = message
    BY <1>3
  <2>2. /\ cq' \in Seq(Entries) /\ Len(cq') = m + 1
        /\ \A i \in 1..(m + 1) : cq'[i] = IF i <= m THEN cq[i] ELSE <<message>>[i - m]
    BY <1>1, <1>4, <1>7, <2>1, ConcatProperties DEF m
  <2>3. cq'[m + 1] = message /\ \A i \in 1..m : cq'[i] = cq[i]
    <3>1. m + 1 \in 1..(m + 1) /\ ~ m + 1 <= m
      BY <1>1
    <3>2. (m + 1) - m = 1 /\ \A i \in 1..m : i \in 1..(m + 1) /\ i <= m
      BY <1>1
    <3> QED
      BY <2>1, <2>2, <3>1, <3>2
  <2>4. \A i \in 1..1 : cq'[m + i].chunk = c
    BY <1>5, <2>3
  <2> USE <1>2
  <2> WITNESS c \in Chunks, 1 \in 1..2
  <2> QED
    BY <1>1, <1>2, <1>5, <1>7, <2>2, <2>3, <2>4 DEF m, full, c
<1> QED
  BY <1>6, <1>7

LEMMA ArrivePlaces == TypeOK /\ Places /\ Arrive => Places'
<1> SUFFICES ASSUME TypeOK, Places, Arrive
             PROVE  Places'
  OBVIOUS
<1> DEFINE m == Len(cq)
           p == Len(posted)
<1>1. PICK c \in Chunks, n \in 1..2 :
            /\ posted # << >> /\ c = Head(posted)
            /\ fill + 1 = comp_per_buf \/ n = 1
            /\ cq' \in Seq(Entries)
            /\ Len(cq') = m + n
            /\ \A i \in 1..m : cq'[i] = cq[i]
            /\ \A i \in 1..n : cq'[m + i].chunk = c
            /\ cq'[m + 1].recv
            /\ n = 2 => ~ cq'[m + 2].recv /\ ~ cq'[m + 1].multi_recv
            /\ cq'[m + n].multi_recv <=> fill + 1 = comp_per_buf
  BY ArriveAdds
<1>2. /\ cq \in Seq(Entries) /\ posted \in Seq(Chunks)
      /\ m \in Nat /\ p \in Nat \ {0}
      /\ DOMAIN posted = 1..p /\ DOMAIN cq = 1..m /\ DOMAIN cq' = 1..(m + n)
      /\ fill \in Nat /\ comp_per_buf \in Nat \ {0} /\ fill < comp_per_buf
  <2>1. /\ cq \in Seq(Entries) /\ posted \in Seq(Chunks) /\ fill \in 0..(comp_per_buf - 1)
    BY DEF TypeOK
  <2> QED
    BY <1>1, <2>1, ChunkHolds, LenProperties, EmptySeq
<1>3. /\ fill' = IF fill + 1 = comp_per_buf THEN 0 ELSE fill + 1
      /\ posted' = IF fill + 1 = comp_per_buf THEN Tail(posted) ELSE posted
      /\ forgotten' = forgotten
  BY DEF Arrive, ghosts
<1> HIDE DEF m, p
\* The chunk is posted, so nothing in the CQ has released it.
<1>4. c \in ToSet(posted) /\ c \notin Released(cq) /\ c = posted[1]
  <2>1. c = posted[1] /\ 1 \in 1..p
    BY <1>1, <1>2
  <2>2. c \in ToSet(posted)
    BY <1>2, <2>1 DEF ToSet
  <2> QED
    BY <2>1, <2>2 DEF Places, ChunkLaw
<1>5. ASSUME NEW d
      PROVE  d \in Released(cq) <=> \E i \in 1..m : cq[i].multi_recv /\ cq[i].chunk = d
  BY <1>2 DEF Released, ToSet
<1>6. ASSUME NEW d
      PROVE  d \in Released(cq)' <=> \/ d \in Released(cq)
                                     \/ d = c /\ fill + 1 = comp_per_buf
  <2>1. d \in Released(cq)' <=> \E i \in 1..(m + n) : cq'[i].multi_recv /\ cq'[i].chunk = d
    BY <1>2 DEF Released, ToSet
  <2>2. \A i \in 1..(m + n) : i \in 1..m \/ i = m + n \/ (n = 2 /\ i = m + 1)
    BY <1>2
  <2>3. m + n \in 1..(m + n) /\ \A i \in 1..m : i \in 1..(m + n)
    BY <1>2
  <2>4. cq'[m + n].chunk = c
    BY <1>1
  <2> QED
    BY <1>1, <1>5, <2>1, <2>2, <2>3, <2>4
<1>7. LastOfChunk'
  <2>1. ASSUME NEW i \in 1..(m + n), NEW j \in 1..(m + n), i < j, cq'[i].multi_recv
        PROVE  cq'[j].chunk # cq'[i].chunk
    <3>1. CASE j \in 1..m
      <4>1. i \in 1..m
        BY <1>2, <2>1, <3>1
      <4> QED
        BY <1>1, <2>1, <3>1, <4>1 DEF Places, LastOfChunk, m
    <3>2. CASE j \notin 1..m
      <4>1. PICK k \in 1..n : j = m + k
        <5>1. j - m \in 1..n /\ j = m + (j - m)
          BY <1>2, <3>2
        <5> QED
          BY <5>1
      <4>2. cq'[j].chunk = c
        BY <1>1, <4>1
      <4>3. i \in 1..m \/ (n = 2 /\ i = m + 1)
        BY <1>2, <2>1, <4>1
      <4>4. i \in 1..m
        BY <1>1, <2>1, <4>3
      <4>5. cq[i].chunk # c
        BY <1>1, <1>4, <1>5, <2>1, <4>4
      <4> QED
        BY <1>1, <4>2, <4>4, <4>5
    <3> QED
      BY <3>1, <3>2
  <2> QED
    BY <1>1, <2>1 DEF LastOfChunk, m
<1>8. ASSUME NEW d
      PROVE  /\ Unread(d) \in Nat
             /\ Unread(d)' = IF d = c THEN Unread(d) + 1 ELSE Unread(d)
  <2>1. Unread(d) = Cardinality(MessagesOf(cq, d)) /\ Unread(d)' = Cardinality(MessagesOf(cq', d))
    BY DEF Unread, MessagesOf
  <2>2. IsFiniteSet(MessagesOf(cq, d)) /\ Cardinality(MessagesOf(cq, d)) \in Nat
    BY <1>2, Counting
  <2>3. MessagesOf(cq', d) = MessagesOf(cq, d) \cup IF d = c THEN {m + 1} ELSE {}
    <3>1. \A i \in 1..(m + n) : i \in 1..m \/ i = m + 1 \/ (n = 2 /\ i = m + 2)
      BY <1>2
    <3>2. m + 1 \in 1..(m + n) /\ \A i \in 1..m : i \in 1..(m + n)
      BY <1>2
    <3>3. cq'[m + 1].chunk = c /\ (n = 2 => cq'[m + 2].chunk = c)
      BY <1>1
    <3>4. MessagesOf(cq, d) = {i \in 1..m : cq[i].chunk = d /\ cq[i].recv}
      BY DEF MessagesOf, m
    <3>5. MessagesOf(cq', d) = {i \in 1..(m + n) : cq'[i].chunk = d /\ cq'[i].recv}
      BY <1>1 DEF MessagesOf
    <3> QED
      BY <1>1, <3>1, <3>2, <3>3, <3>4, <3>5
  <2>4. m + 1 \notin MessagesOf(cq, d)
    BY <1>2 DEF MessagesOf, m
  <2>5. CASE d = c
    BY <2>1, <2>2, <2>3, <2>4, <2>5, FS_AddElement
  <2>6. CASE d # c
    <3>1. MessagesOf(cq', d) = MessagesOf(cq, d)
      BY <2>3, <2>6
    <3> QED
      BY <2>1, <2>2, <2>6, <3>1
  <2> QED
    BY <2>5, <2>6
<1>9. Unread(c) <= fill /\ \A d \in Chunks : d # c /\ d \in ToSet(posted) => Unread(d) <= 0
  BY <1>1, <1>4 DEF Places, ChunkLaw
<1>10. IsInjective(posted)
  BY DEF Places, ChunkLaw, Chunks
<1>11. CASE fill + 1 # comp_per_buf
  <2>1. posted' = posted /\ fill' = fill + 1 /\ \A d : d \in Released(cq)' <=> d \in Released(cq)
    BY <1>3, <1>6, <1>11
  <2>2. NoneFilling'
    BY <1>1, <2>1 DEF NoneFilling
  <2>3. ASSUME NEW d \in Chunks, d \in ToSet(posted')
        PROVE  Unread(d)' <= IF d = Head(posted') THEN fill' ELSE 0
    <3>1. CASE d = c
      <4>1. Unread(d)' = Unread(d) + 1 /\ Unread(d) \in Nat /\ Unread(d) <= fill
        BY <1>8, <1>9, <3>1
      <4>2. Head(posted') = d
        BY <1>1, <2>1, <3>1
      <4> DEFINE u == Unread(d)
                 v == Unread(d)'
      <4> HIDE DEF u, v
      <4>3. v <= fill + 1
        <5>1. v = u + 1 /\ u \in Nat /\ u <= fill
          BY <4>1 DEF u, v
        <5> QED
          BY <1>2, <5>1
      <4> QED
        BY <2>1, <4>2, <4>3 DEF v
    <3>2. CASE d # c
      BY <1>1, <1>8, <1>9, <2>1, <2>3, <3>2
    <3> QED
      BY <3>1, <3>2
  <2>4. ASSUME NEW d \in Chunks
        PROVE  /\ d \in ToSet(posted') \/ d \in Released(cq)' \/ d \in forgotten'
               /\ ~ (d \in ToSet(posted') /\ d \in Released(cq)')
               /\ d \in forgotten' => d \notin ToSet(posted') /\ d \notin Released(cq)'
    BY <1>3, <2>1 DEF Places, ChunkLaw
  <2>5. IsInjective(posted')
    BY <1>10, <2>1
  <2> QED
    BY <1>7, <2>2, <2>3, <2>4, <2>5 DEF Places, ChunkLaw
<1>12. CASE fill + 1 = comp_per_buf
  <2>1. posted' = Tail(posted) /\ fill' = 0
    BY <1>3, <1>12
  <2>2. /\ posted' \in Seq(Chunks) /\ Len(posted') = p - 1
        /\ DOMAIN posted' = 1..(p - 1)
        /\ \A i \in 1..(p - 1) : posted'[i] = posted[i + 1]
    BY <1>1, <1>2, <2>1, HeadTailProperties, LenProperties DEF p
  <2>3. ASSUME NEW d
        PROVE  d \in ToSet(posted') <=> d \in ToSet(posted) /\ d # c
    <3>1. d \in ToSet(posted) <=> \E i \in 1..p : posted[i] = d
      BY <1>2 DEF ToSet
    <3>2. d \in ToSet(posted') <=> \E i \in 1..(p - 1) : posted[i + 1] = d
      BY <2>2 DEF ToSet
    <3>3. ASSUME NEW i \in 1..(p - 1)
          PROVE  i + 1 \in 1..p /\ posted[i + 1] # c
      <4>1. i + 1 \in 1..p /\ 1 \in 1..p /\ i + 1 # 1
        BY <1>2
      <4> QED
        BY <1>2, <1>4, <1>10, <4>1 DEF IsInjective
    <3>4. ASSUME NEW i \in 1..p, posted[i] = d, d # c
          PROVE  i - 1 \in 1..(p - 1) /\ posted[(i - 1) + 1] = d
      <4>1. i # 1
        BY <1>4, <3>4
      <4>2. i - 1 \in 1..(p - 1) /\ (i - 1) + 1 = i
        BY <1>2, <4>1
      <4> QED
        BY <3>4, <4>2
    <3> QED
      BY <3>1, <3>2, <3>3, <3>4
  <2>4. IsInjective(posted')
    <3>1. ASSUME NEW i \in 1..(p - 1), NEW j \in 1..(p - 1), posted'[i] = posted'[j]
          PROVE  i = j
      <4>1. i + 1 \in 1..p /\ j + 1 \in 1..p
        BY <1>2
      <4>2. i + 1 = j + 1
        BY <1>2, <1>10, <2>2, <3>1, <4>1 DEF IsInjective
      <4> QED
        BY <4>2
    <3> QED
      BY <2>2, <3>1 DEF IsInjective
  <2>5. ASSUME NEW d \in Chunks, d \in ToSet(posted')
        PROVE  Unread(d)' <= IF d = Head(posted') THEN fill' ELSE 0
    BY <1>8, <1>9, <2>1, <2>3, <2>5
  <2>6. ASSUME NEW d \in Chunks
        PROVE  /\ d \in ToSet(posted') \/ d \in Released(cq)' \/ d \in forgotten'
               /\ ~ (d \in ToSet(posted') /\ d \in Released(cq)')
               /\ d \in forgotten' => d \notin ToSet(posted') /\ d \notin Released(cq)'
    BY <1>3, <1>4, <1>6, <1>12, <2>3 DEF Places, ChunkLaw
  <2>7. NoneFilling'
    BY <2>1 DEF NoneFilling
  <2> QED
    BY <1>7, <2>4, <2>5, <2>6, <2>7 DEF Places, ChunkLaw
<1> QED
  BY <1>11, <1>12
-----------------------------------------------------------------------------
\* What the steps that read the CQ do to the chunks.
Reading == Read \/ ReadTooMany \/ WrongLength \/ RepostFails

LEMMA ReadingIs ==
  ASSUME TypeOK, Reading
  PROVE  \E k \in 1..Len(cq) :
            /\ Rest(cq', cq, k)
            /\ fill' = fill
            /\ \/ posted' = posted /\ forgotten' = forgotten \cup Gone(1, k)
               \/ /\ cq[1].multi_recv
                  /\ posted' = Append(posted, cq[1].chunk)
                  /\ forgotten' = forgotten \cup Gone(2, k)
<1>1. cq \in Seq(Entries) /\ Len(cq) \in Nat /\ (cq # << >> => Len(cq) > 0)
  BY LenProperties, EmptySeq DEF TypeOK
<1>2. \A k \in 1..Len(cq) : Gone(1, k) = Gone(2, k) \cup IF cq[1].multi_recv THEN {cq[1].chunk} ELSE {}
  <2>1. ASSUME NEW k \in 1..Len(cq)
        PROVE  \A i : i \in 1..k <=> i = 1 \/ i \in 2..k
    BY <1>1
  <2> QED
    BY <2>1 DEF Gone
<1>3. Gone(2, 1) = {}
  BY DEF Gone
<1>4. CASE Read \/ WrongLength \/ RepostFails
  <2>1. cq # << >> /\ cq' = Tail(cq) /\ fill' = fill /\ Head(cq) = cq[1]
    BY <1>1, <1>4 DEF Read, WrongLength, RepostFails
  <2>2. 1 \in 1..Len(cq) /\ Rest(cq', cq, 1)
    BY <1>1, <2>1, TailIsRest
  <2>3. Released(<<Head(cq)>>) = IF cq[1].multi_recv THEN {cq[1].chunk} ELSE {}
    BY <2>1 DEF Released, ToSet
  <2>4. \/ posted' = posted /\ forgotten' = forgotten \cup Gone(1, 1)
        \/ /\ cq[1].multi_recv
           /\ posted' = Append(posted, cq[1].chunk)
           /\ forgotten' = forgotten \cup Gone(2, 1)
    <3>1. CASE Read
      BY <3>1, <1>2, <1>3, <2>1, <2>2 DEF Read, TakeMessage, Repost, Mismatch
    <3>2. CASE WrongLength
      BY <3>2, <1>2, <1>3, <2>1, <2>2, <2>3 DEF WrongLength
    <3>3. CASE RepostFails
      BY <3>3, <1>2, <1>3, <2>1, <2>2 DEF RepostFails
    <3> QED
      BY <1>4, <3>1, <3>2, <3>3
  <2> QED
    BY <2>1, <2>2, <2>4
<1>5. CASE ReadTooMany
  <2>1. PICK n \in 2..Len(cq) :
          LET e == Head(cq)
              others == Released(SubSeq(cq, 2, n))
          IN /\ cq' = SubSeq(cq, n + 1, Len(cq))
             /\ \/ /\ TakeMessage(e) \/ Repost(e)
                   /\ forgotten' = forgotten \cup others
                \/ /\ Mismatch(e)
                   /\ forgotten' = forgotten \cup others \cup {e.chunk}
                \/ /\ pc' = "killed"
                   /\ forgotten' = forgotten \cup others \cup Released(<<e>>)
                   /\ UNCHANGED <<num_completions, per_buf_cnt, posted, mismatch>>
    BY <1>5 DEF ReadTooMany
  <2>2. n \in 1..Len(cq) /\ Rest(cq', cq, n)
    BY <1>1, <2>1, SuffixIsRest
  <2>3. fill' = fill /\ Head(cq) = cq[1]
    BY <1>1, <1>5 DEF ReadTooMany
  <2>4. Released(<<Head(cq)>>) = IF cq[1].multi_recv THEN {cq[1].chunk} ELSE {}
    BY <2>3 DEF Released, ToSet
  <2>5. Released(SubSeq(cq, 2, n)) = Gone(2, n)
    <3>1. \A i \in 2..n : cq[i] \in Entries
      BY <1>1, <2>1, LenProperties
    <3>2. /\ SubSeq(cq, 2, n) \in Seq(Entries)
          /\ Len(SubSeq(cq, 2, n)) = n - 2 + 1
          /\ \A i \in 1..(n - 2 + 1) : SubSeq(cq, 2, n)[i] = cq[2 + i - 1]
      <4>1. 2 \in Int /\ n \in Int /\ 2 <= n
        BY <1>1, <2>1
      <4> QED
        BY <3>1, <4>1, SubSeqProperties
    <3>3. DOMAIN SubSeq(cq, 2, n) = 1..(n - 1)
      <4>1. n - 2 + 1 = n - 1
        BY <2>1
      <4> QED
        BY <3>2, <4>1, LenProperties
    <3>4. \A i \in 1..(n - 1) : i + 1 \in 2..n /\ SubSeq(cq, 2, n)[i] = cq[i + 1]
      <4>1. ASSUME NEW i \in 1..(n - 1)
            PROVE  i + 1 \in 2..n /\ i \in 1..(n - 2 + 1) /\ 2 + i - 1 = i + 1
        BY <2>1
      <4> QED
        BY <3>2, <4>1
    <3>5. \A i \in 2..n : i - 1 \in 1..(n - 1) /\ SubSeq(cq, 2, n)[i - 1] = cq[i]
      <4>1. ASSUME NEW i \in 2..n
            PROVE  i - 1 \in 1..(n - 1) /\ (i - 1) + 1 = i
        BY <2>1
      <4> QED
        BY <3>4, <4>1
    <3> QED
      <4> DEFINE others == SubSeq(cq, 2, n)
      <4>1. /\ DOMAIN others = 1..(n - 1)
            /\ \A i \in 1..(n - 1) : i + 1 \in 2..n /\ others[i] = cq[i + 1]
            /\ \A i \in 2..n : i - 1 \in 1..(n - 1) /\ others[i - 1] = cq[i]
        BY <3>3, <3>4, <3>5
      <4> HIDE DEF others
      <4>2. ASSUME NEW d
            PROVE  d \in Released(others) <=> d \in Gone(2, n)
        <5>1. d \in Released(others) <=>
                  \E i \in 1..(n - 1) : others[i].multi_recv /\ others[i].chunk = d
          <6>1. \A x : x \in ToSet(others) <=> \E i \in 1..(n - 1) : others[i] = x
            BY <4>1 DEF ToSet
          <6>2. d \in Released(others) <=> \E x \in ToSet(others) : x.multi_recv /\ x.chunk = d
            BY DEF Released
          <6> QED
            BY <6>1, <6>2
        <5>2. d \in Gone(2, n) <=> \E i \in 2..n : cq[i].multi_recv /\ cq[i].chunk = d
          BY DEF Gone
        <5> QED
          BY <4>1, <5>1, <5>2
      <4> QED
        BY <4>2 DEF others
  <2>6. \/ posted' = posted /\ forgotten' = forgotten \cup Gone(1, n)
        \/ /\ cq[1].multi_recv
           /\ posted' = Append(posted, cq[1].chunk)
           /\ forgotten' = forgotten \cup Gone(2, n)
    BY <1>2, <2>1, <2>2, <2>3, <2>4, <2>5 DEF TakeMessage, Repost, Mismatch
  <2> QED
    BY <2>2, <2>3, <2>6
<1> QED
  BY <1>4, <1>5 DEF Reading

\* Every step keeps the chunks in their places.
LEMMA PlacesStep == TypeOK /\ Places /\ [Next]_vars => Places'
<1> SUFFICES ASSUME TypeOK, Places, [Next]_vars
             PROVE  Places'
  OBVIOUS
<1>1. CASE Arrive
  BY <1>1, ArrivePlaces
<1>2. CASE Reading
  BY <1>2, ReadingIs, ReadPlaces
<1>3. CASE UNCHANGED <<provider, forgotten>>
  BY <1>3 DEF provider, Places, ChunkLaw, LastOfChunk, NoneFilling, Unread, Released
<1>4. CASE Call \/ TimeUp \/ ReadFails \/ UNCHANGED vars
  BY <1>3, <1>4 DEF Call, TimeUp, ReadFails, vars, ghosts, provider
<1> QED
  BY <1>1, <1>2, <1>4 DEF Next, Client, Reading, Terminated
-----------------------------------------------------------------------------
\* What the call still waits for, and what it has counted, after an entry.
LEMMA CountingDown ==
  ASSUME TypeOK, pc = "call", NEW e \in Entries
  PROVE  /\ Wanted(e) \in 0..size /\ Counted(e) \in Nat
         /\ Counted(e) <= size - Wanted(e)
<1>1. /\ size \in Nat /\ num_completions \in 1..size
      /\ per_buf_cnt \in 0..(size - num_completions)
  BY MultiRecvAssumption DEF MultiRecvAssumption, TypeOK
<1>2. CASE e.recv
  <2>1. Wanted(e) = num_completions - 1 /\ Counted(e) = per_buf_cnt + 1
    BY <1>2 DEF Wanted, Counted
  <2> QED
    BY <1>1, <2>1
<1>3. CASE ~ e.recv
  <2>1. Wanted(e) = num_completions - 0 /\ Counted(e) = per_buf_cnt + 0
    BY <1>3 DEF Wanted, Counted
  <2> QED
    BY <1>1, <2>1
<1> QED
  BY <1>2, <1>3

LEMMA TypeOKStep == TypeOK /\ Places /\ [Next]_vars => TypeOK'
<1> SUFFICES ASSUME TypeOK, Places, [Next]_vars
             PROVE  TypeOK'
  OBVIOUS
<1>0. /\ size \in Nat \ {0} /\ size \in Sizes /\ comp_per_buf \in Nat \ {0}
      /\ MaxCalls \in Nat /\ apart \in BOOLEAN
      /\ cq \in Seq(Entries) /\ posted \in Seq(Chunks)
      /\ fill \in 0..(comp_per_buf - 1) /\ calls \in 0..MaxCalls
      /\ num_completions \in 0..size /\ per_buf_cnt \in 0..(size - num_completions)
      /\ forgotten \subseteq Chunks
      /\ pc \in {"loop", "call", "done", "killed"}
      /\ pc = "call" => num_completions > 0
      /\ mismatch \in BOOLEAN /\ undefined \in BOOLEAN /\ failed \in BOOLEAN
  BY MultiRecvAssumption, ChunkHolds DEF MultiRecvAssumption, TypeOK
<1>1. CASE Arrive
  <2>1. cq' \in Seq(Entries)
    BY <1>1, ArriveAdds
  <2>2. posted' \in Seq(Chunks)
    BY <1>0, <1>1, HeadTailProperties DEF Arrive
  <2>3. fill' \in 0..(comp_per_buf - 1)
    BY <1>0, <1>1 DEF Arrive
  <2> QED
    BY <1>0, <1>1, <2>1, <2>2, <2>3 DEF Arrive, TypeOK, client, ghosts
<1>2. CASE Reading
  <2>1. PICK k \in 1..Len(cq) :
            /\ Rest(cq', cq, k)
            /\ fill' = fill
            /\ \/ posted' = posted /\ forgotten' = forgotten \cup Gone(1, k)
               \/ /\ cq[1].multi_recv
                  /\ posted' = Append(posted, cq[1].chunk)
                  /\ forgotten' = forgotten \cup Gone(2, k)
    BY <1>2, ReadingIs
  <2>2. cq' \in Seq(Entries)
    BY <2>1 DEF Rest
  <2>3. /\ \A i \in 1..Len(cq) : cq[i] \in Entries
        /\ Len(cq) \in Nat
    BY <1>0, LenProperties
  <2>4. cq[1] \in Entries /\ cq[1].chunk \in Chunks
    BY <2>3 DEF Entries
  <2>5. posted' \in Seq(Chunks)
    <3>1. posted \in Seq(Chunks)
      BY <1>0
    <3>2. Append(posted, cq[1].chunk) \in Seq(Chunks)
      BY <2>4, <3>1, AppendProperties
    <3>3. posted' = posted \/ posted' = Append(posted, cq[1].chunk)
      BY <2>1
    <3> QED
      BY <3>1, <3>2, <3>3
  <2>6. forgotten' \subseteq Chunks
    <3>1. \A i \in 1..k : cq[i].chunk \in Chunks
      BY <2>3 DEF Entries
    <3>2. Gone(1, k) \subseteq Chunks /\ Gone(2, k) \subseteq Chunks
      BY <2>3, <3>1 DEF Gone
    <3> QED
      BY <1>0, <2>1, <3>2
  <2>7. Head(cq) = cq[1] /\ pc = "call"
    BY <1>0, <1>2 DEF Reading, Read, ReadTooMany, WrongLength, RepostFails
  <2>8. UNCHANGED <<size, apart, calls>>
    BY <1>2 DEF Reading, Read, ReadTooMany, WrongLength, RepostFails
  <2>9. undefined' \in BOOLEAN /\ failed' \in BOOLEAN /\ mismatch' \in BOOLEAN
    BY <1>0, <1>2
    DEF Reading, Read, ReadTooMany, WrongLength, RepostFails, TakeMessage, Repost, Mismatch
  \* The count and the state of the call.
  <2>10. /\ pc' \in {"loop", "call", "done", "killed"}
         /\ pc' = "call" => num_completions' > 0
         /\ num_completions' \in 0..size
         /\ per_buf_cnt' \in 0..(size - num_completions')
    <3>1. /\ Wanted(cq[1]) \in 0..size /\ Counted(cq[1]) \in Nat
          /\ Counted(cq[1]) <= size - Wanted(cq[1])
      BY <2>4, <2>7, CountingDown
    <3>2. CASE TakeMessage(cq[1]) \/ Repost(cq[1]) \/ Mismatch(cq[1])
      <4>1. /\ num_completions' = Wanted(cq[1])
            /\ per_buf_cnt' = Counted(cq[1]) \/ per_buf_cnt' = 0
        BY <3>2 DEF TakeMessage, Repost, Mismatch
      <4>2. \/ pc' = "loop"
            \/ pc' = "call" /\ num_completions' # 0
        BY <3>2 DEF TakeMessage, Repost, Mismatch, Return
      <4> QED
        BY <1>0, <3>1, <4>1, <4>2
    <3>3. CASE pc' \in {"loop", "killed"} /\ UNCHANGED <<num_completions, per_buf_cnt>>
      BY <1>0, <3>3
    <3>4. CASE pc' = "loop" /\ num_completions' = Wanted(cq[1]) /\ per_buf_cnt' = 0
      BY <1>0, <3>1, <3>4
    <3> QED
      BY <1>2, <2>7, <3>2, <3>3, <3>4
      DEF Reading, Read, ReadTooMany, WrongLength, RepostFails
  <2> QED
    BY <1>0, <2>1, <2>2, <2>5, <2>6, <2>8, <2>9, <2>10 DEF TypeOK
<1>3. CASE Call
  BY <1>0, <1>3 DEF Call, TypeOK, provider, ghosts
<1>4. CASE TimeUp
  BY <1>0, <1>4 DEF TimeUp, TypeOK, provider, ghosts
<1>5. CASE ReadFails
  BY <1>0, <1>5 DEF ReadFails, TypeOK, provider
<1>6. CASE UNCHANGED vars
  BY <1>6 DEF vars, TypeOK, provider, client, ghosts
<1> QED
  BY <1>1, <1>2, <1>3, <1>4, <1>5, <1>6 DEF Next, Client, Reading, Terminated

(***************************************************************************)
(* Every step keeps the count, the CQ and the chunk in step: a message     *)
(* moves on from the chunk to the CQ to the count, and the flag is on each *)
(* one that makes the sum a multiple of comp_per_buf.                      *)
(***************************************************************************)
LEMMA InStepStep == TypeOK /\ InStep /\ [Next]_vars => InStep'
<1> SUFFICES ASSUME TypeOK, InStep, [Next]_vars,
                    ~ failed', ~ undefined', ~ apart', size' % comp_per_buf = 0
             PROVE  /\ ~ mismatch' /\ forgotten' = {}
                    /\ per_buf_cnt' < comp_per_buf
                    /\ (num_completions' + per_buf_cnt') % comp_per_buf = 0
                    /\ pc' # "call" => per_buf_cnt' = 0
                    /\ fill' = (per_buf_cnt' + Len(cq')) % comp_per_buf
                    /\ \A i \in 1..Len(cq') :
                          /\ cq'[i].recv
                          /\ cq'[i].multi_recv <=> (per_buf_cnt' + i) % comp_per_buf = 0
  BY DEF InStep, comp_per_buf, rx_size
<1> DEFINE n == comp_per_buf
           m == Len(cq)
<1>1. UNCHANGED <<size, apart>> /\ (failed => failed') /\ (undefined => undefined')
  BY DEF Next, Client, Arrive, Call, TimeUp, Read, ReadTooMany, ReadFails,
     WrongLength, RepostFails, Terminated, vars, ghosts
<1>2. /\ n \in Nat \ {0} /\ m \in Nat /\ cq \in Seq(Entries)
      /\ size \in Nat \ {0} /\ size % n = 0
      /\ num_completions \in Nat /\ per_buf_cnt \in Nat /\ fill \in Nat
      /\ ~ apart /\ (pc = "call" => num_completions > 0)
  BY <1>1, MultiRecvAssumption, ChunkHolds, LenProperties DEF MultiRecvAssumption, TypeOK
<1>3. /\ ~ mismatch /\ forgotten = {}
      /\ per_buf_cnt < n
      /\ (num_completions + per_buf_cnt) % n = 0
      /\ pc # "call" => per_buf_cnt = 0
      /\ fill = (per_buf_cnt + m) % n
      /\ \A i \in 1..m : cq[i].recv /\ (cq[i].multi_recv <=> (per_buf_cnt + i) % n = 0)
  BY <1>1 DEF InStep
<1> HIDE DEF n, m
<1>4. CASE Arrive
  <2>1. /\ cq' \in Seq(Entries)
        /\ Len(cq') = m + 1
        /\ \A i \in 1..m : cq'[i] = cq[i]
        /\ cq'[m + 1].recv
        /\ cq'[m + 1].multi_recv <=> fill + 1 = n
    BY <1>2, <1>4, ArriveAdds DEF n, m
  <2>2. UNCHANGED <<mismatch, forgotten, per_buf_cnt, num_completions, pc>>
    BY <1>4 DEF Arrive, client, ghosts
  <2>3. fill' = IF fill + 1 = n THEN 0 ELSE fill + 1
    BY <1>4 DEF Arrive, n
  <2>4. (per_buf_cnt + (m + 1)) % n = IF fill + 1 = n THEN 0 ELSE fill + 1
    <3> DEFINE k == per_buf_cnt + m
    <3>1. k \in Nat /\ k + 1 = per_buf_cnt + (m + 1) /\ fill = k % n
      BY <1>2, <1>3
    <3> HIDE DEF k
    <3>2. (k + 1) % n = IF (k % n) + 1 = n THEN 0 ELSE (k % n) + 1
      BY <1>2, <3>1, ModStep
    <3> QED
      BY <3>1, <3>2
  <2>5. ASSUME NEW i \in 1..(m + 1)
        PROVE  cq'[i].recv /\ (cq'[i].multi_recv <=> (per_buf_cnt + i) % n = 0)
    <3>1. CASE i \in 1..m
      BY <1>3, <2>1, <3>1
    <3>2. CASE i = m + 1
      BY <1>2, <2>1, <2>4, <3>2
    <3> QED
      BY <1>2, <3>1, <3>2
  <2> QED
    BY <1>2, <1>3, <2>1, <2>2, <2>3, <2>4, <2>5 DEF n
<1>5. CASE Read
  <2> DEFINE e == cq[1]
  <2>1. pc = "call" /\ cq # << >> /\ cq' = Tail(cq) /\ Head(cq) = e /\ fill' = fill
    BY <1>2, <1>5 DEF Read
  <2>2. /\ m > 0 /\ Len(cq') = m - 1
        /\ \A i \in 1..(m - 1) : cq'[i] = cq[i + 1]
    BY <1>2, <2>1, HeadTailProperties, EmptySeq DEF m
  <2>3. e.recv /\ (e.multi_recv <=> per_buf_cnt + 1 = n)
    <3>1. 1 \in 1..m /\ per_buf_cnt + 1 \in 0..n
      BY <1>2, <1>3, <2>2
    <3> QED
      BY <1>2, <1>3, <3>1, ModSmall
  <2>4. Wanted(e) = num_completions - 1 /\ Counted(e) = per_buf_cnt + 1
    BY <2>3 DEF Wanted, Counted
  <2>5. ~ Mismatch(e)
    BY <2>3, <2>4 DEF Mismatch, n
  <2>6. forgotten' = {} /\ ~ mismatch'
    <3>1. (TakeMessage(e) \/ Repost(e)) /\ forgotten' = forgotten
      BY <1>5, <2>1, <2>5 DEF Read
    <3>2. mismatch' = mismatch
      BY <3>1 DEF TakeMessage, Repost
    <3> QED
      BY <1>3, <3>1, <3>2
  <2> HIDE DEF e
  <2>7. CASE TakeMessage(e)
    <3>1. /\ ~ e.multi_recv /\ per_buf_cnt' = per_buf_cnt + 1
          /\ num_completions' = num_completions - 1
          /\ pc' # "call" => num_completions' = 0
      BY <2>4, <2>7 DEF TakeMessage, Return
    <3>2. per_buf_cnt' < n
      BY <1>2, <1>3, <2>3, <3>1
    <3>3. num_completions' + per_buf_cnt' = num_completions + per_buf_cnt
      BY <1>2, <3>1
    <3>4. pc' # "call" => per_buf_cnt' = 0
      <4>1. ASSUME pc' # "call"
            PROVE  per_buf_cnt' = 0
        <5>1. per_buf_cnt' = num_completions + per_buf_cnt /\ per_buf_cnt' \in 0..n
          BY <1>2, <3>1, <3>2, <4>1
        <5> QED
          BY <1>2, <1>3, <3>2, <5>1, ModSmall
      <4> QED
        BY <4>1
    <3>5. per_buf_cnt' + (m - 1) = per_buf_cnt + m
      BY <1>2, <3>1
    <3>6. \A i \in 1..(m - 1) : i + 1 \in 1..m /\ per_buf_cnt' + i = per_buf_cnt + (i + 1)
      BY <1>2, <3>1
    <3> QED
      BY <1>3, <2>1, <2>2, <2>6, <3>2, <3>3, <3>4, <3>5, <3>6 DEF n
  <2>8. CASE Repost(e)
    <3>1. /\ per_buf_cnt + 1 = n /\ per_buf_cnt' = 0
          /\ num_completions' = num_completions - 1
      BY <2>3, <2>4, <2>8 DEF Repost
    <3>2. num_completions' \in Nat /\ n + (num_completions' + per_buf_cnt') = num_completions + per_buf_cnt
      BY <1>2, <2>1, <3>1
    <3>3. (num_completions' + per_buf_cnt') % n = 0
      <4> DEFINE k == num_completions' + per_buf_cnt'
      <4>1. k \in Nat /\ n + k = num_completions + per_buf_cnt
        BY <3>1, <3>2
      <4> HIDE DEF k
      <4>2. (n + k) % n = k % n
        BY <1>2, <4>1, ModPlus
      <4> QED
        BY <1>3, <4>1, <4>2 DEF k
    <3>4. ASSUME NEW i \in 0..(m - 1)
          PROVE  (per_buf_cnt' + i) % n = (per_buf_cnt + (i + 1)) % n
      <4>1. i \in Nat /\ n + i = per_buf_cnt + (i + 1) /\ per_buf_cnt' + i = i
        BY <1>2, <3>1
      <4> QED
        BY <1>2, <4>1, ModPlus
    <3>5. fill' = (per_buf_cnt' + (m - 1)) % n
      <4>1. m - 1 \in 0..(m - 1) /\ (m - 1) + 1 = m
        BY <1>2, <2>2
      <4> QED
        BY <1>3, <2>1, <3>4, <4>1
    <3>6. \A i \in 1..(m - 1) : i + 1 \in 1..m /\ i \in 0..(m - 1)
      BY <1>2
    <3>7. \A i \in 1..(m - 1) : cq'[i].recv /\ (cq'[i].multi_recv <=> (per_buf_cnt' + i) % n = 0)
      BY <1>3, <2>2, <3>4, <3>6
    <3> QED
      BY <1>2, <2>2, <2>6, <3>1, <3>3, <3>5, <3>7 DEF n
  <2> QED
    BY <1>5, <2>1, <2>5, <2>7, <2>8 DEF Read
<1>6. CASE Call
  <2>1. UNCHANGED <<cq, fill, mismatch, forgotten>> /\ pc = "loop" /\ pc' = "call"
    BY <1>6 DEF Call, provider, ghosts
  <2>2. per_buf_cnt' = 0 /\ per_buf_cnt = 0 /\ num_completions' = size
    BY <1>3, <1>6, <2>1 DEF Call
  <2>3. size + 0 = size
    BY <1>2
  <2> QED
    BY <1>2, <1>3, <2>1, <2>2, <2>3 DEF n, m
<1>7. CASE TimeUp
  BY <1>3, <1>7 DEF TimeUp, provider, ghosts, n, m
<1>8. CASE ReadTooMany \/ ReadFails \/ WrongLength \/ RepostFails
  BY <1>8 DEF ReadTooMany, ReadFails, WrongLength, RepostFails
<1>9. CASE UNCHANGED vars
  BY <1>3, <1>9 DEF vars, provider, client, ghosts, n, m
<1> QED
  BY <1>4, <1>5, <1>6, <1>7, <1>8, <1>9 DEF Next, Client, Terminated

\* The initial states satisfy the inductive invariant: both chunks are posted.
LEMMA InitIInv == Init => IInv
<1> SUFFICES ASSUME Init PROVE IInv
  OBVIOUS
<1>1. /\ posted = <<0, 1>> /\ posted \in Seq(Chunks) /\ posted # << >>
      /\ DOMAIN posted = 1..2 /\ posted[1] = 0 /\ posted[2] = 1 /\ Head(posted) = 0
  BY DEF Init, Chunks
<1>2. cq = << >> /\ cq \in Seq(Entries) /\ Len(cq) = 0 /\ DOMAIN cq = {}
  BY EmptySeq, LenProperties DEF Init
<1>3. TypeOK
  <2>1. \A ghost \in {mismatch, undefined, failed} : ghost \in BOOLEAN
    BY DEF Init
  <2>2. fill \in 0..(comp_per_buf - 1)
    BY ChunkHolds DEF Init
  <2>3. calls \in 0..MaxCalls /\ num_completions \in 0..size
        /\ per_buf_cnt \in 0..(size - num_completions)
    BY MultiRecvAssumption DEF MultiRecvAssumption, Init
  <2>4. pc \in {"loop", "call", "done", "killed"} /\ pc # "call"
    BY DEF Init
  <2>5. size \in Sizes /\ apart \in BOOLEAN /\ forgotten \subseteq Chunks
    BY DEF Init
  <2> QED
    BY <1>1, <1>2, <2>1, <2>2, <2>3, <2>4, <2>5 DEF TypeOK
<1>4. Places
  <2>1. IsInjective(posted)
    BY <1>1 DEF IsInjective
  <2>2. \A c \in Chunks : c \in ToSet(posted)
    BY <1>1 DEF ToSet, Chunks
  <2>3. Released(cq) = {}
    BY <1>2 DEF Released, ToSet
  <2>4. \A c \in Chunks : Unread(c) = 0
    <3>1. \A i \in 1..Len(cq) : FALSE
      BY <1>2
    <3>2. \A c \in Chunks : {i \in 1..Len(cq) : cq[i].chunk = c /\ cq[i].recv} = {}
      BY <3>1
    <3> QED
      BY <3>2, FS_EmptySet DEF Unread
  <2>5. fill = 0 /\ forgotten = {}
    BY DEF Init
  <2> QED
    BY <1>1, <1>2, <2>1, <2>2, <2>3, <2>4, <2>5
    DEF Places, ChunkLaw, LastOfChunk, NoneFilling
<1>5. InStep
  <2>1. 0 % comp_per_buf = 0
    BY ChunkHolds, ModSmall
  <2> QED
    BY <1>2, <2>1, ChunkHolds DEF InStep, Init
<1> QED
  BY <1>3, <1>4, <1>5 DEF IInv

\* The inductive invariant holds in every reachable state.
THEOREM Inductive == Spec => []IInv
<1>1. IInv /\ [Next]_vars => IInv'
  BY TypeOKStep, PlacesStep, InStepStep DEF IInv
<1> QED
  BY <1>1, InitIInv, PTL DEF Spec

\* For every size of message, chunk, batch and CQ: the variables keep their
\* types; no chunk holds more messages than it has room for, and a call never
\* counts more than it was asked to wait for.
THEOREM TypeOKHolds == Spec => []TypeOK
<1>1. IInv => TypeOK
  BY DEF IInv
<1> QED
  BY <1>1, Inductive, PTL

(***************************************************************************)
(* The same, with any failures and any entries overwritten: each chunk is  *)
(* posted, given back or forgotten, and it is posted again only when all   *)
(* its messages have been read (wait_for_multi_recv_completion).           *)
(***************************************************************************)
THEOREM ChunkLawHolds == Spec => []ChunkLaw
<1>1. IInv => ChunkLaw
  BY DEF IInv, Places
<1> QED
  BY <1>1, Inductive, PTL

(***************************************************************************)
(* The same: with nothing failed, one entry read at a time and a batch of  *)
(* whole chunks, the count of completions per buffer is always the one     *)
(* expected, and both chunks stay in use.                                  *)
(***************************************************************************)
THEOREM NoMismatchHolds == Spec => []NoMismatch
<1>1. IInv => NoMismatch
  BY DEF IInv, InStep, NoMismatch
<1> QED
  BY <1>1, Inductive, PTL
=============================================================================
