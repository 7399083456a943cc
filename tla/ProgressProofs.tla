-------------------------- MODULE ProgressProofs ----------------------------
(***************************************************************************)
(* What goes on beside the runs, proved for any number of nodes, requests, *)
(* rows, tabs, limits and faults: rate limiters keep their word, the       *)
(* refresh grants of a run end with it and are counted, a pull of pages    *)
(* shows every row it says it shows, a result stream sends each frame      *)
(* once, and a tab at rest is in the rooms it has open.                    *)
(***************************************************************************)
EXTENDS CredentialGrants, AgentPulls, ExecutionStream, LiveEvents, FiniteSetTheorems,
        SequenceTheorems, WellFoundedInduction, TLAPS

-----------------------------------------------------------------------------
(* The rate limiter.                                                       *)

Full == Capacity * Unit
BucketRecord == [key : Keys, parts : 0 .. Full, last : 0 .. MaxWall]

\* What a map holds, and that it holds nothing twice.
Entries(map) == {map[i] : i \in 1 .. Len(map)}
OneEach(map) == \A i, j \in 1 .. Len(map) : map[i].key = map[j].key => i = j

\* The ticks a bucket has not been refilled for.
Unfilled(last) == IF wall > last THEN wall - last ELSE 0

LimiterShape ==
    /\ wall \in 0 .. MaxWall
    /\ buckets \in Seq(BucketRecord)
    /\ OneEach(buckets)
    /\ forward \in Nat
    /\ granted \in [Keys -> Nat]
    /\ drops \in [Keys -> Nat]
    /\ promise \in [Keys -> Nat]

\* What a key was granted, together with what it still has, is covered.
Covered ==
    /\ \A b \in Entries(buckets) :
         granted[b.key] * Unit + b.parts + Refill * Unfilled(b.last)
           <= Full * (1 + drops[b.key]) + Refill * forward
    /\ \A k \in Keys :
         (\A b \in Entries(buckets) : b.key # k) =>
           granted[k] * Unit <= Full * drops[k] + Refill * forward

\* A promise is kept by the bucket it was made from, if that is still there.
PromisesHold ==
    \A b \in Entries(buckets) :
      promise[b.key] > 0 => Refilled(b, promise[b.key]) >= Unit

LimiterInv == LimiterShape /\ Covered /\ PromisesHold /\ MapBounded

\* Arithmetic of the constants.
LEMMA FullBucket ==
  /\ Full \in Nat /\ Unit \in Nat \ {0} /\ Refill \in Nat \ {0} /\ Unit <= Full
  /\ MaxWall \in Nat /\ TicksPerSec \in Nat \ {0}
<1>1. Capacity \in Nat \ {0} /\ Unit \in Nat \ {0}
  BY LimiterConstants
<1>2. Capacity * Unit \in Nat /\ Unit <= Capacity * Unit
  BY <1>1
<1> QED
  BY <1>1, <1>2, LimiterConstants DEF Full

\* What is counted of a key is a number.
LEMMA Counted ==
  ASSUME LimiterShape
  PROVE  /\ \A k \in Keys : granted[k] \in Nat /\ drops[k] \in Nat /\ 1 + drops[k] \in Nat
         /\ forward \in Nat /\ wall \in Nat /\ wall \in 0 .. MaxWall /\ Len(buckets) \in Nat
<1>1. \A k \in Keys : granted[k] \in Nat /\ drops[k] \in Nat
  BY DEF LimiterShape
<1>2. forward \in Nat /\ wall \in 0 .. MaxWall /\ Len(buckets) \in Nat
  BY DEF LimiterShape
<1>3. \A x \in Nat : 1 + x \in Nat
  OBVIOUS
<1>4. wall \in Nat
  BY <1>2, FullBucket
<1> QED
  BY <1>1, <1>2, <1>3, <1>4

\* Rounding up does not fall short.
LEMMA CeilDivCovers ==
  ASSUME NEW a \in Nat \ {0}, NEW b \in Nat \ {0}
  PROVE  CeilDiv(a, b) \in Nat \ {0} /\ CeilDiv(a, b) * b >= a
<1>1. PICK n \in Nat : n = a + b - 1
  OBVIOUS
<1>2. PICK c : c = n \div b
  OBVIOUS
<1>3. c \in Int /\ n = b * c + (n % b) /\ n % b \in 0 .. b - 1
  BY <1>2
<1>4. b * c \in Int /\ b * c > a - 1
  BY <1>1, <1>3
<1>5. c > 0
  <2> SUFFICES ASSUME c <= 0 PROVE FALSE
    BY <1>3
  <2>1. b * c <= 0
    BY <1>3
  <2> PICK m \in Int : m = b * c
    BY <1>4
  <2>2. m > a - 1 /\ m <= 0
    BY <2>1, <1>4
  <2> QED
    BY <2>2
<1>6. c * b = b * c
  BY <1>3
<1> QED
  BY <1>1, <1>2, <1>3, <1>4, <1>5, <1>6 DEF CeilDiv


\* Storing a bucket puts it in the place of the one with its key, or at the end.
LEMMA StoredMap ==
  ASSUME LimiterShape, NEW b \in BucketRecord
  PROVE  LET m == Stored(b) IN
         /\ m \in Seq(BucketRecord) /\ OneEach(m)
         /\ Entries(m) = {e \in Entries(buckets) : e.key # b.key} \cup {b}
         /\ \/ Len(m) = Len(buckets) /\ \E e \in Entries(buckets) : e.key = b.key
            \/ Len(m) = Len(buckets) + 1 /\ m[Len(m)].key = b.key
<1> PICK q : q = buckets
  OBVIOUS
<1> PICK n \in Nat : n = Len(q)
  BY DEF LimiterShape
<1> PICK m : m = Stored(b)
  OBVIOUS
<1>1. q \in Seq(BucketRecord) /\ DOMAIN q = 1 .. n /\ OneEach(q)
      /\ \A i \in 1 .. n : q[i] \in BucketRecord
  BY DEF LimiterShape
<1>2. CASE \E i \in 1 .. n : q[i].key = b.key
  <2>1. m = [i \in 1 .. n |-> IF q[i].key = b.key THEN b ELSE q[i]]
    BY <1>1, <1>2 DEF Stored
  <2>2. m \in Seq(BucketRecord) /\ Len(m) = n
    BY <1>1, <2>1
  <2>3. OneEach(m)
    BY <1>1, <2>1, <2>2 DEF OneEach
  <2>4. Entries(m) = {e \in Entries(q) : e.key # b.key} \cup {b}
    BY <1>1, <1>2, <2>1, <2>2 DEF Entries
  <2>5. \E e \in Entries(q) : e.key = b.key
    BY <1>1, <1>2 DEF Entries
  <2> QED
    BY <2>2, <2>3, <2>4, <2>5
<1>3. CASE ~ \E i \in 1 .. n : q[i].key = b.key
  <2>1. m = Append(q, b)
    BY <1>1, <1>3 DEF Stored
  <2>2. m \in Seq(BucketRecord) /\ Len(m) = n + 1 /\ m[n + 1] = b
        /\ \A i \in 1 .. n : m[i] = q[i]
    BY <1>1, <2>1
  <2>3. OneEach(m)
    BY <1>1, <1>3, <2>2 DEF OneEach
  <2>4. Entries(m) = {e \in Entries(q) : e.key # b.key} \cup {b}
    BY <1>1, <1>3, <2>2 DEF Entries
  <2> QED
    BY <2>2, <2>3, <2>4
<1> QED
  BY <1>2, <1>3

\* Pruning a map that has just grown by the bucket of k leaves it that bucket
\* and makes it small enough.
LEMMA PrunedMap ==
  ASSUME NEW m \in Seq(BucketRecord), OneEach(m), NEW k, Len(m) <= LruCap + 1,
         Len(m) = LruCap + 1 => m[Len(m)].key = k
  PROVE  LET p == Pruned(m, k) IN
         /\ p \in Seq(BucketRecord) /\ OneEach(p) /\ Len(p) <= LruCap
         /\ Entries(p) \subseteq Entries(m)
         /\ \A e \in Entries(m) : e.key = k => e \in Entries(p)
<1> PICK p : p = Pruned(m, k)
  OBVIOUS
<1> PICK n \in Nat : n = Len(m)
  OBVIOUS
<1>1. LruCap \in Nat \ {0} /\ DropCount \in Nat \ {0} /\ DropCount <= LruCap
  BY LimiterConstants
<1>2. CASE n <= LruCap
  BY <1>2 DEF Pruned
<1>3. CASE n > LruCap
  <2>1. n = LruCap + 1 /\ m[n].key = k /\ n \in 1 .. n
    BY <1>1, <1>3
  <2>2. {i \in 1 .. DropCount : m[i].key = k} = {}
    <3> SUFFICES ASSUME NEW i \in 1 .. DropCount, m[i].key = k PROVE FALSE
      OBVIOUS
    <3>1. i \in 1 .. n /\ i # n
      BY <1>1, <2>1
    <3> QED
      BY <3>1, <2>1 DEF OneEach
  <2> PICK none : none = <<>>
    OBVIOUS
  <2>3. p = none \o SubSeq(m, DropCount + 1, n)
    <3>1. ~ (Len(m) <= LruCap)
      BY <1>1, <1>3
    <3> QED
      BY <3>1, <2>2 DEF Pruned
  <2> PICK s : s = SubSeq(m, DropCount + 1, n)
    OBVIOUS
  <2>4. s \in Seq(BucketRecord) /\ Len(s) = n - DropCount
        /\ \A i \in 1 .. n - DropCount : s[i] = m[i + DropCount]
    <3> PICK from \in 1 .. n : from = DropCount + 1
      BY <1>1, <2>1
    <3>1. s \in Seq(BucketRecord) /\ Len(s) = n - from + 1
          /\ \A i \in 1 .. n - from + 1 : s[i] = m[from + i - 1]
      <4>1. s = SubSeq(m, from, n) /\ from \in 1 .. Len(m) + 1 /\ n \in from - 1 .. Len(m)
        OBVIOUS
      <4> QED
        BY <4>1, SubSeqProperties
    <3>2. n - from + 1 = n - DropCount /\ \A i \in 1 .. n - DropCount : from + i - 1 = i + DropCount
      BY <1>1, <2>1
    <3> QED
      BY <3>1, <3>2
  <2>5. p = s
    BY <2>3, <2>4
  <2>6. Len(p) <= LruCap
    BY <1>1, <2>1, <2>4, <2>5
  <2>7. \A i \in 1 .. n - DropCount : i + DropCount \in 1 .. n
    BY <1>1, <2>1
  <2>8. OneEach(p)
    <3> SUFFICES ASSUME NEW i \in 1 .. n - DropCount, NEW j \in 1 .. n - DropCount,
                        s[i].key = s[j].key
                 PROVE  i = j
      BY <2>4, <2>5 DEF OneEach
    <3>1. i + DropCount = j + DropCount
      <4>1. s[i] = m[i + DropCount] /\ s[j] = m[j + DropCount]
        BY <2>4
      <4>2. i + DropCount \in 1 .. n /\ j + DropCount \in 1 .. n
        BY <2>7
      <4> QED
        BY <4>1, <4>2 DEF OneEach
    <3> QED
      BY <3>1, <1>1
  <2>9. Entries(p) \subseteq Entries(m)
    BY <2>4, <2>5, <2>7 DEF Entries
  <2>10. \A e \in Entries(m) : e.key = k => e \in Entries(p)
    <3> SUFFICES ASSUME NEW i \in 1 .. n, m[i].key = k PROVE m[i] \in Entries(p)
      BY DEF Entries
    <3>1. i = n
      BY <2>1 DEF OneEach
    <3>2. n - DropCount \in 1 .. n - DropCount /\ s[n - DropCount] = m[n]
      BY <1>1, <2>1, <2>4
    <3> QED
      BY <3>1, <3>2, <2>4, <2>5 DEF Entries
  <2> QED
    BY <2>4, <2>5, <2>6, <2>8, <2>9, <2>10
<1> QED
  BY <1>1, <1>2, <1>3


\* The bucket of a key is the one in the map, or a full one.
LEMMA BucketOfKey ==
  ASSUME LimiterShape, NEW k \in Keys
  PROVE  LET b == BucketOf(k) IN
         /\ b \in BucketRecord /\ b.key = k
         /\ \/ b \in Entries(buckets)
            \/ (\A e \in Entries(buckets) : e.key # k) /\ b.parts = Full /\ b.last = wall
<1> PICK q : q = buckets
  OBVIOUS
<1> PICK n \in Nat : n = Len(q)
  BY DEF LimiterShape
<1> PICK b : b = BucketOf(k)
  OBVIOUS
<1>1. q \in Seq(BucketRecord) /\ DOMAIN q = 1 .. n
      /\ \A i \in 1 .. n : q[i] \in BucketRecord
  BY DEF LimiterShape
<1>2. CASE \E i \in 1 .. n : q[i].key = k
  <2>1. PICK i \in 1 .. n : b = q[i] /\ q[i].key = k
    BY <1>1, <1>2 DEF BucketOf
  <2> QED
    BY <2>1, <1>1 DEF Entries
<1>3. CASE ~ \E i \in 1 .. n : q[i].key = k
  <2>1. b = [key |-> k, parts |-> Full, last |-> wall]
    BY <1>1, <1>3 DEF BucketOf, Full
  <2>2. b \in BucketRecord
    BY <2>1, FullBucket DEF BucketRecord, LimiterShape
  <2>3. \A e \in Entries(q) : e.key # k
    BY <1>1, <1>3 DEF Entries
  <2> QED
    BY <2>1, <2>2, <2>3
<1> QED
  BY <1>2, <1>3

\* A refill adds no more than its time is worth and stops at a full bucket.
LEMMA RefilledBucket ==
  ASSUME NEW b \in BucketRecord, NEW at \in Nat
  PROVE  LET ticks == IF at > b.last THEN at - b.last ELSE 0 IN
         /\ ticks \in Nat /\ Refill * ticks \in Nat
         /\ Refilled(b, at) = IF b.parts + Refill * ticks <= Full THEN b.parts + Refill * ticks
                              ELSE Full
         /\ Refilled(b, at) \in 0 .. Full
         /\ Refilled(b, at) <= b.parts + Refill * ticks
<1> PICK p, l : p = b.parts /\ l = b.last
  OBVIOUS
<1>1. p \in 0 .. Full /\ l \in 0 .. MaxWall /\ p \in Nat /\ l \in Nat
  BY FullBucket DEF BucketRecord
<1> PICK t : t = IF at > l THEN at - l ELSE 0
  OBVIOUS
<1>2. t \in Nat
  BY <1>1
<1> PICK r : r = Refill * t
  OBVIOUS
<1>3. r \in Nat /\ t * Refill = r
  BY <1>2, FullBucket
<1>4. Refilled(b, at) = IF Full <= p + r THEN Full ELSE p + r
  BY <1>3 DEF Refilled, AtMost, Full
<1>5. Refilled(b, at) = IF p + r <= Full THEN p + r ELSE Full
  BY <1>1, <1>3, <1>4, FullBucket
<1> QED
  BY <1>1, <1>2, <1>3, <1>5, FullBucket

\* What a key has been granted and could take now is covered.
LEMMA CoveredNow ==
  ASSUME LimiterShape, Covered, NEW k \in Keys
  PROVE  granted[k] * Unit + Refilled(BucketOf(k), wall)
           <= Full * (1 + drops[k]) + Refill * forward
<1> PICK b : b = BucketOf(k)
  OBVIOUS
<1>1. b \in BucketRecord /\ b.key = k
  BY BucketOfKey
<1>2. wall \in Nat /\ granted[k] \in Nat /\ drops[k] \in Nat /\ forward \in Nat
  BY FullBucket DEF LimiterShape
<1> PICK g, d, f : g = granted[k] * Unit /\ d = Full * drops[k] /\ f = Refill * forward
  OBVIOUS
<1>3. g \in Nat /\ d \in Nat /\ f \in Nat /\ Full * (1 + drops[k]) = Full + d
  BY <1>2, FullBucket
<1> PICK t : t = Refill * Unfilled(b.last)
  OBVIOUS
<1> PICK r : r = Refilled(b, wall)
  OBVIOUS
<1>4. t \in Nat /\ r \in 0 .. Full /\ r <= b.parts + t
  BY <1>1, <1>2, RefilledBucket DEF Unfilled
<1>5. CASE b \in Entries(buckets)
  <2>1. g + b.parts + t <= Full + d + f
    BY <1>1, <1>3, <1>5 DEF Covered
  <2>2. b.parts \in Nat
    BY <1>1, FullBucket DEF BucketRecord
  <2> QED
    BY <2>1, <2>2, <1>3, <1>4, FullBucket
<1>6. CASE \A e \in Entries(buckets) : e.key # k
  <2>1. g <= d + f
    BY <1>6 DEF Covered
  <2> QED
    BY <2>1, <1>3, <1>4, FullBucket
<1> QED
  BY <1>5, <1>6, BucketOfKey


LEMMA Products == \A x, y \in Nat : x * y \in Nat
OBVIOUS

LEMMA SumsStay == \A h, p, g, r, c \in Nat : h + p <= g + r /\ g + r <= c => h + p + 0 <= c
OBVIOUS

LEMMA SumsDrop == \A g, p, t, c \in Nat : g + p + t <= c => g <= c
OBVIOUS

LEMMA EntriesTyped ==
  ASSUME LimiterShape, NEW e \in Entries(buckets)
  PROVE  /\ e \in BucketRecord /\ e.key \in Keys /\ e.parts \in Nat /\ e.last \in Nat
         /\ Unfilled(e.last) \in Nat
<1>1. PICK i \in 1 .. Len(buckets) : e = buckets[i]
  BY DEF Entries
<1>2. e \in BucketRecord
  BY <1>1 DEF LimiterShape
<1>3. wall \in Nat /\ e.parts \in Nat /\ e.last \in Nat /\ e.key \in Keys
  BY <1>2, FullBucket DEF LimiterShape, BucketRecord
<1> QED
  BY <1>2, <1>3 DEF Unfilled

\* A request writes the bucket of its key and may cost other keys theirs.
LEMMA WritePreserves ==
  ASSUME LimiterInv, NEW k \in Keys, NEW b \in BucketRecord, b.key = k, b.last = wall,
         buckets' \in Seq(BucketRecord), OneEach(buckets'), Len(buckets') <= LruCap,
         b \in Entries(buckets'),
         \A e \in Entries(buckets') : e = b \/ (e \in Entries(buckets) /\ e.key # k),
         UNCHANGED <<wall, forward>>,
         granted' \in [Keys -> Nat], \A j \in Keys \ {k} : granted'[j] = granted[j],
         granted'[k] * Unit + b.parts <= granted[k] * Unit + Refilled(BucketOf(k), wall),
         drops' \in [Keys -> Nat], drops'[k] = drops[k],
         \A j \in Keys \ {k} :
           drops'[j] = IF /\ \E e \in Entries(buckets) : e.key = j
                          /\ \A e \in Entries(buckets') : e.key # j
                       THEN drops[j] + 1 ELSE drops[j],
         promise' \in [Keys -> Nat], \A j \in Keys \ {k} : promise'[j] = promise[j],
         promise'[k] > 0 => Refilled(b, promise'[k]) >= Unit
  PROVE  LimiterInv'
<1>1. LimiterShape /\ Covered /\ PromisesHold
  BY DEF LimiterInv
<1>2. LimiterShape'
  BY <1>1 DEF LimiterShape
<1>3. MapBounded'
  BY DEF MapBounded
<1>4. \A e \in Entries(buckets) : e \in BucketRecord /\ e.key \in Keys
  BY <1>1, EntriesTyped
<1>5. PromisesHold'
  <2> SUFFICES ASSUME NEW e \in Entries(buckets'), promise'[e.key] > 0
               PROVE  Refilled(e, promise'[e.key]) >= Unit
    BY DEF PromisesHold
  <2>1. CASE e = b
    BY <2>1
  <2>2. CASE e \in Entries(buckets) /\ e.key # k
    <3>1. promise'[e.key] = promise[e.key]
      BY <2>2, <1>4
    <3> QED
      BY <3>1, <2>2, <1>1 DEF PromisesHold
  <2> QED
    BY <2>1, <2>2
<1>6. ASSUME NEW e \in Entries(buckets')
      PROVE  granted'[e.key] * Unit + e.parts + Refill * Unfilled(e.last)
               <= Full * (1 + drops'[e.key]) + Refill * forward
  <2>1. CASE e = b
    <3>1. Refill * Unfilled(b.last) = 0
      <4>1. Unfilled(b.last) = 0
        BY <1>1, FullBucket DEF Unfilled, LimiterShape
      <4> QED
        BY <4>1, FullBucket
    <3> PICK g, r, c : /\ g = granted[k] * Unit /\ r = Refilled(BucketOf(k), wall)
                       /\ c = Full * (1 + drops[k]) + Refill * forward
      OBVIOUS
    <3> PICK h : h = granted'[k] * Unit
      OBVIOUS
    <3>2. g \in Nat /\ h \in Nat /\ c \in Nat
      <4>1. granted[k] \in Nat /\ granted'[k] \in Nat /\ drops[k] \in Nat /\ forward \in Nat
            /\ 1 + drops[k] \in Nat
        BY <1>1 DEF LimiterShape
      <4>2. /\ granted[k] * Unit \in Nat /\ granted'[k] * Unit \in Nat
            /\ Full * (1 + drops[k]) \in Nat /\ Refill * forward \in Nat
        BY <4>1, FullBucket, Products
      <4> QED
        BY <4>2
    <3>3. BucketOf(k) \in BucketRecord /\ wall \in Nat
      BY <1>1, BucketOfKey, Counted
    <3>4. r \in 0 .. Full /\ g + r <= c
      BY <3>3, <1>1, CoveredNow, RefilledBucket
    <3>5. b.parts \in Nat /\ h + b.parts <= g + r
      BY FullBucket DEF BucketRecord
    <3>6. h + b.parts + 0 <= c
      <4>1. r \in Nat
        BY <3>4, FullBucket
      <4> QED
        BY <4>1, <3>2, <3>4, <3>5, SumsStay
    <3> QED
      BY <3>1, <3>6, <2>1
  <2>2. CASE e \in Entries(buckets) /\ e.key # k
    <3>1. granted'[e.key] = granted[e.key] /\ drops'[e.key] = drops[e.key]
      BY <2>2, <1>4
    <3> QED
      BY <3>1, <2>2, <1>1 DEF Covered
  <2> QED
    BY <2>1, <2>2
<1>7. ASSUME NEW j \in Keys, \A e \in Entries(buckets') : e.key # j
      PROVE  granted'[j] * Unit <= Full * drops'[j] + Refill * forward
  <2>1. j # k
    BY <1>7
  <2>2. granted'[j] = granted[j]
    BY <2>1
  <2>3. CASE \E e \in Entries(buckets) : e.key = j
    <3>1. drops'[j] = drops[j] + 1
      BY <2>1, <2>3, <1>7
    <3>2. PICK e \in Entries(buckets) : e.key = j
      BY <2>3
    <3> PICK g, t, d, f : /\ g = granted[j] * Unit /\ t = Refill * Unfilled(e.last)
                          /\ d = Full * (1 + drops[j]) /\ f = Refill * forward
      OBVIOUS
    <3>3. g + e.parts + t <= d + f
      BY <3>2, <1>1 DEF Covered
    <3>4. e.parts \in Nat /\ Unfilled(e.last) \in Nat
      BY <3>2, <1>1, EntriesTyped
    <3>5. g \in Nat /\ d + f \in Nat /\ t \in Nat
      <4>1. /\ granted[j] \in Nat /\ 1 + drops[j] \in Nat /\ forward \in Nat
        BY <1>1, Counted
      <4>2. g \in Nat /\ d \in Nat /\ f \in Nat /\ t \in Nat
        BY <4>1, <3>4, FullBucket, Products
      <4> QED
        BY <4>2
    <3>6. g <= d + f
      BY <3>3, <3>4, <3>5, SumsDrop
    <3>7. Full * drops'[j] = d
      <4>1. drops'[j] = 1 + drops[j]
        BY <3>1, <1>1 DEF LimiterShape
      <4> QED
        BY <4>1
    <3> QED
      BY <3>6, <3>7, <2>2
  <2>4. CASE \A e \in Entries(buckets) : e.key # j
    BY <2>1, <2>2, <2>4, <1>1 DEF Covered
  <2> QED
    BY <2>3, <2>4
<1>8. Covered'
  <2>1. UNCHANGED wall
    OBVIOUS
  <2> QED
    BY <2>1, <1>6, <1>7 DEF Covered, Unfilled
<1> QED
  BY <1>2, <1>3, <1>5, <1>8 DEF LimiterInv

LEMMA LimiterStarts == LimiterInit => LimiterInv
<1> SUFFICES ASSUME LimiterInit PROVE LimiterInv
  OBVIOUS
<1>1. Entries(buckets) = {} /\ Len(buckets) = 0
  BY DEF LimiterInit, Entries
<1>2. LimiterShape
  BY <1>1, FullBucket DEF LimiterInit, LimiterShape, OneEach
<1>3. Covered
  <2>1. 0 * Unit <= Full * 0 + Refill * 0
    BY FullBucket
  <2> QED
    BY <1>1, <2>1 DEF Covered, LimiterInit
<1>4. PromisesHold
  BY <1>1 DEF PromisesHold
<1>5. MapBounded
  BY <1>1, LimiterConstants DEF MapBounded
<1> QED
  BY <1>2, <1>3, <1>4, <1>5 DEF LimiterInv

LEMMA AllowPreserves ==
  ASSUME LimiterInv, NEW k \in Keys, Allow(k) PROVE LimiterInv'
<1> DEFINE r == Refilled(BucketOf(k), wall)
<1>1. LimiterShape /\ Covered /\ PromisesHold /\ Len(buckets) <= LruCap
  BY DEF LimiterInv, MapBounded
<1>2. BucketOf(k) \in BucketRecord /\ wall \in Nat /\ wall \in 0 .. MaxWall
      /\ granted \in [Keys -> Nat] /\ drops \in [Keys -> Nat] /\ promise \in [Keys -> Nat]
  BY <1>1, BucketOfKey, FullBucket DEF LimiterShape
<1>3. r \in 0 .. Full /\ r >= Unit /\ r - Unit \in 0 .. Full
  BY <1>2, RefilledBucket, FullBucket DEF Allow
<1> PICK b : b = [key |-> k, parts |-> r - Unit, last |-> wall]
  OBVIOUS
<1>4. b \in BucketRecord /\ b.key = k /\ b.last = wall /\ b.parts = r - Unit
  BY <1>2, <1>3 DEF BucketRecord
<1> PICK m : m = Stored(b)
  OBVIOUS
<1>5. /\ m \in Seq(BucketRecord) /\ OneEach(m)
      /\ Entries(m) = {e \in Entries(buckets) : e.key # k} \cup {b}
      /\ Len(m) = Len(buckets) \/ (Len(m) = Len(buckets) + 1 /\ m[Len(m)].key = k)
  BY <1>1, <1>4, StoredMap
<1>6. buckets' = Pruned(m, k) /\ granted' = [granted EXCEPT ![k] = @ + 1]
      /\ promise' = [promise EXCEPT ![k] = 0] /\ UNCHANGED <<wall, backs, forward>>
      /\ drops' = [j \in Keys |->
                    IF /\ \E i \in DOMAIN buckets : buckets[i].key = j
                       /\ \A i \in DOMAIN buckets' : buckets'[i].key # j
                    THEN drops[j] + 1 ELSE drops[j]]
  BY DEF Allow
<1>7. Len(m) <= LruCap + 1 /\ (Len(m) = LruCap + 1 => m[Len(m)].key = k)
  <2>1. Len(buckets) \in Nat /\ LruCap \in Nat /\ Len(buckets) <= LruCap
    BY <1>1, Counted, LimiterConstants DEF MapBounded
  <2> PICK x \in Nat : x = Len(buckets)
    BY <2>1
  <2> QED
    BY <2>1, <1>5
<1>8. /\ buckets' \in Seq(BucketRecord) /\ OneEach(buckets') /\ Len(buckets') <= LruCap
      /\ Entries(buckets') \subseteq Entries(m)
      /\ \A e \in Entries(m) : e.key = k => e \in Entries(buckets')
  BY <1>5, <1>6, <1>7, PrunedMap
<1>9. b \in Entries(buckets')
  BY <1>4, <1>5, <1>8
<1>10. \A e \in Entries(buckets') : e = b \/ (e \in Entries(buckets) /\ e.key # k)
  BY <1>5, <1>8
<1>11. ASSUME NEW j \in Keys
       PROVE  drops'[j] = IF /\ \E e \in Entries(buckets) : e.key = j
                             /\ \A e \in Entries(buckets') : e.key # j
                          THEN drops[j] + 1 ELSE drops[j]
  <2>1. (\E i \in DOMAIN buckets : buckets[i].key = j)
          <=> (\E e \in Entries(buckets) : e.key = j)
    <3>1. DOMAIN buckets = 1 .. Len(buckets)
      BY <1>1 DEF LimiterShape
    <3> QED
      BY <3>1 DEF Entries
  <2>2. (\A i \in DOMAIN buckets' : buckets'[i].key # j)
          <=> (\A e \in Entries(buckets') : e.key # j)
    BY <1>8 DEF Entries
  <2> QED
    BY <2>1, <2>2, <1>6
<1>12. drops' \in [Keys -> Nat] /\ drops'[k] = drops[k]
  <2>1. drops'[k] = drops[k]
    BY <1>4, <1>9, <1>11
  <2> QED
    BY <2>1, <1>2, <1>6
<1>13. /\ granted' \in [Keys -> Nat] /\ promise' \in [Keys -> Nat] /\ promise'[k] = 0
       /\ \A j \in Keys \ {k} : granted'[j] = granted[j] /\ promise'[j] = promise[j]
       /\ granted'[k] = granted[k] + 1
  BY <1>2, <1>6
<1>14. granted'[k] * Unit + b.parts <= granted[k] * Unit + r
  <2> PICK g : g = granted[k] * Unit
    OBVIOUS
  <2>1. g \in Nat /\ granted'[k] * Unit = g + Unit
    BY <1>2, <1>13, FullBucket
  <2> QED
    BY <2>1, <1>3, <1>4, FullBucket
<1>15. promise'[k] > 0 => Refilled(b, promise'[k]) >= Unit
  BY <1>13
<1>16. /\ UNCHANGED <<wall, forward>>
       /\ \A j \in Keys \ {k} : granted'[j] = granted[j]
       /\ \A j \in Keys \ {k} : promise'[j] = promise[j]
       /\ \A j \in Keys \ {k} :
            drops'[j] = IF /\ \E e \in Entries(buckets) : e.key = j
                           /\ \A e \in Entries(buckets') : e.key # j
                        THEN drops[j] + 1 ELSE drops[j]
  BY <1>6, <1>11, <1>13
<1> QED
  BY <1>4, <1>8, <1>9, <1>10, <1>12, <1>13, <1>14, <1>15, <1>16, WritePreserves


\* Who waits as long as told finds a whole token.
LEMMA WaitIsLongEnough ==
  ASSUME NEW b \in BucketRecord, b.parts < Unit, wall \in Nat, b.last = wall
  PROVE  LET c == CeilDiv(Unit - b.parts, Refill * TicksPerSec)
             at == wall + c * TicksPerSec IN
         at \in Nat /\ Refilled(b, at) >= Unit
<1> PICK p : p = b.parts
  OBVIOUS
<1>1. p \in Nat /\ p < Unit /\ Unit - p \in Nat \ {0}
  BY FullBucket DEF BucketRecord
<1> PICK w : w = Refill * TicksPerSec
  OBVIOUS
<1>2. w \in Nat \ {0}
  <2>1. w \in Nat /\ w >= Refill
    BY FullBucket
  <2> QED
    BY <2>1, FullBucket
<1> PICK c : c = CeilDiv(Unit - p, w)
  OBVIOUS
<1>3. c \in Nat \ {0} /\ c * w >= Unit - p
  BY <1>1, <1>2, CeilDivCovers
<1> PICK d : d = c * TicksPerSec
  OBVIOUS
<1>4. d \in Nat \ {0}
  <2>1. d \in Nat /\ d >= c
    BY <1>3, FullBucket
  <2> QED
    BY <2>1, <1>3
<1>5. Refill * d = c * w
  BY <1>3, FullBucket
<1> PICK at : at = wall + d
  OBVIOUS
<1>6. at \in Nat /\ at > b.last /\ at - b.last = d
  BY <1>4
<1> PICK e : e = c * w
  OBVIOUS
<1>7. e \in Nat /\ e >= Unit - p
  BY <1>2, <1>3
<1>8. Refilled(b, at) = IF p + e <= Full THEN p + e ELSE Full
  BY <1>5, <1>6, RefilledBucket
<1>9. p + e >= Unit
  BY <1>1, <1>7, FullBucket
<1> QED
  BY <1>6, <1>8, <1>9, FullBucket

LEMMA RefusePreserves ==
  ASSUME LimiterInv, NEW k \in Keys, Refuse(k) PROVE LimiterInv'
<1> PICK r : r = Refilled(BucketOf(k), wall)
  OBVIOUS
<1>1. LimiterShape /\ Covered /\ PromisesHold /\ Len(buckets) <= LruCap
  BY DEF LimiterInv, MapBounded
<1>2. BucketOf(k) \in BucketRecord /\ wall \in Nat /\ wall \in 0 .. MaxWall
      /\ granted \in [Keys -> Nat] /\ drops \in [Keys -> Nat] /\ promise \in [Keys -> Nat]
  BY <1>1, BucketOfKey, FullBucket DEF LimiterShape
<1>3. r \in 0 .. Full /\ r < Unit
  BY <1>2, RefilledBucket, FullBucket DEF Refuse
<1> PICK b : b = [key |-> k, parts |-> r, last |-> wall]
  OBVIOUS
<1>4. b \in BucketRecord /\ b.key = k /\ b.last = wall /\ b.parts = r
  BY <1>2, <1>3 DEF BucketRecord
<1> PICK until : until = wall + CeilDiv(Unit - r, Refill * TicksPerSec) * TicksPerSec
  OBVIOUS
<1>5. until \in Nat /\ Refilled(b, until) >= Unit
  BY <1>2, <1>3, <1>4, WaitIsLongEnough
<1>6. buckets' = Stored(b) /\ promise' = [promise EXCEPT ![k] = until]
      /\ UNCHANGED <<wall, backs, forward, granted, drops>>
  BY DEF Refuse
<1>7. /\ buckets' \in Seq(BucketRecord) /\ OneEach(buckets')
      /\ Entries(buckets') = {e \in Entries(buckets) : e.key # k} \cup {b}
      /\ \/ Len(buckets') = Len(buckets) /\ \E e \in Entries(buckets) : e.key = k
         \/ Len(buckets') = Len(buckets) + 1
  BY <1>1, <1>4, <1>6, StoredMap
<1>8. \E e \in Entries(buckets) : e.key = k
  <2> SUFFICES ASSUME \A e \in Entries(buckets) : e.key # k PROVE FALSE
    OBVIOUS
  <2>1. BucketOf(k).key = k
    BY <1>1, BucketOfKey
  <2>2. BucketOf(k).parts = Full
    BY <2>1, <1>1, BucketOfKey
  <2> PICK full \in BucketRecord : full = BucketOf(k)
    BY <1>2
  <2> PICK t : t = IF wall > full.last THEN wall - full.last ELSE 0
    OBVIOUS
  <2>3. Refill * t \in Nat /\ r = IF Full + Refill * t <= Full THEN Full + Refill * t ELSE Full
    BY <2>2, <1>2, RefilledBucket
  <2>4. r >= Full
    BY <2>3, FullBucket
  <2> QED
    BY <2>4, <1>3, FullBucket
<1>9. Len(buckets') <= LruCap
  <2>1. CASE Len(buckets') = Len(buckets)
    BY <2>1, <1>1
  <2>2. CASE Len(buckets') = Len(buckets) + 1
    <3>1. buckets' = [i \in DOMAIN buckets |-> IF buckets[i].key = b.key THEN b ELSE buckets[i]]
      BY <1>1, <1>4, <1>6, <1>8 DEF Stored, Entries, LimiterShape
    <3>2. DOMAIN buckets = 1 .. Len(buckets)
      BY <1>1 DEF LimiterShape
    <3>3. Len(buckets') = Len(buckets)
      BY <3>1, <3>2, <1>1, <1>7 DEF LimiterShape
    <3> QED
      BY <3>3, <1>1
  <2> QED
    BY <2>1, <2>2, <1>7
<1>10. b \in Entries(buckets')
       /\ \A e \in Entries(buckets') : e = b \/ (e \in Entries(buckets) /\ e.key # k)
  BY <1>7
<1>11. /\ UNCHANGED <<wall, forward>>
       /\ granted' \in [Keys -> Nat] /\ \A j \in Keys \ {k} : granted'[j] = granted[j]
       /\ drops' \in [Keys -> Nat] /\ drops'[k] = drops[k]
       /\ promise' \in [Keys -> Nat] /\ \A j \in Keys \ {k} : promise'[j] = promise[j]
  BY <1>2, <1>5, <1>6
<1>12. \A j \in Keys \ {k} :
         drops'[j] = IF /\ \E e \in Entries(buckets) : e.key = j
                        /\ \A e \in Entries(buckets') : e.key # j
                     THEN drops[j] + 1 ELSE drops[j]
  <2> SUFFICES ASSUME NEW j \in Keys \ {k}, NEW e \in Entries(buckets), e.key = j
               PROVE  \E f \in Entries(buckets') : f.key = j
    BY <1>6
  <2> QED
    BY <1>7
<1>13. granted'[k] * Unit + b.parts <= granted[k] * Unit + Refilled(BucketOf(k), wall)
  <2>1. granted[k] * Unit \in Nat
    BY <1>2, FullBucket, Products
  <2> QED
    BY <2>1, <1>3, <1>4, <1>6, FullBucket
<1>14. promise'[k] > 0 => Refilled(b, promise'[k]) >= Unit
  BY <1>2, <1>5, <1>6
<1> QED
  BY <1>4, <1>7, <1>9, <1>10, <1>11, <1>12, <1>13, <1>14, WritePreserves

LEMMA RefillGrows ==
  ASSUME NEW u \in Nat, NEW v \in Nat, v <= u PROVE Refill * v <= Refill * u
<1> PICK w : w = u - v
  OBVIOUS
<1>1. w \in Nat /\ u = v + w
  OBVIOUS
<1>2. Refill * u = Refill * v + Refill * w
  BY <1>1, FullBucket
<1>3. Refill * v \in Nat /\ Refill * w \in Nat
  BY <1>1, FullBucket, Products
<1> QED
  BY <1>2, <1>3

LEMMA ClockForwardPreserves ==
  ASSUME LimiterInv, ClockForward PROVE LimiterInv'
<1>1. LimiterShape /\ Covered /\ PromisesHold /\ MapBounded
  BY DEF LimiterInv
<1>2. wall < MaxWall /\ wall' = wall + 1 /\ forward' = forward + 1
      /\ UNCHANGED <<buckets, granted, drops, promise>>
  BY DEF ClockForward
<1>3. wall \in Nat /\ forward \in Nat /\ wall' \in 0 .. MaxWall
  BY <1>1, <1>2, FullBucket DEF LimiterShape
<1>4. LimiterShape'
  BY <1>1, <1>2, <1>3 DEF LimiterShape
<1>5. Refill * forward' = Refill * forward + Refill /\ Refill * forward \in Nat
  BY <1>2, <1>3, FullBucket
<1>6. ASSUME NEW e \in Entries(buckets)
      PROVE  granted[e.key] * Unit + e.parts + Refill * Unfilled(e.last)'
               <= Full * (1 + drops[e.key]) + Refill * forward'
  <2>1. e.key \in Keys /\ e.parts \in Nat /\ e.last \in Nat /\ Unfilled(e.last) \in Nat
    BY <1>1, EntriesTyped
  <2> PICK u, v : u = Unfilled(e.last) /\ v = Unfilled(e.last)'
    OBVIOUS
  <2>2. u \in Nat /\ v \in Nat /\ v <= u + 1
    BY <2>1, <1>2, <1>3 DEF Unfilled
  <2>3. Refill * v <= Refill * u + Refill /\ Refill * u \in Nat /\ Refill * v \in Nat
    <3>1. v = u + 1 \/ v <= u
      BY <2>2
    <3>2. CASE v = u + 1
      BY <3>2, <2>2, FullBucket
    <3>3. CASE v <= u
      <4>1. Refill * v <= Refill * u
        BY <3>3, <2>2, RefillGrows
      <4>2. Refill * v \in Nat /\ Refill * u \in Nat
        BY <2>2, FullBucket, Products
      <4> QED
        BY <4>1, <4>2, FullBucket
    <3> QED
      BY <3>1, <3>2, <3>3
  <2> PICK g, d, f, x, y : /\ g = granted[e.key] * Unit /\ d = Full * (1 + drops[e.key])
                           /\ f = Refill * forward /\ x = Refill * u /\ y = Refill * v
    OBVIOUS
  <2>4. granted[e.key] \in Nat /\ 1 + drops[e.key] \in Nat
    BY <2>1, <1>1, Counted
  <2>5. g \in Nat /\ d \in Nat /\ f \in Nat /\ x \in Nat /\ y \in Nat /\ y <= x + Refill
    BY <2>3, <2>4, <1>5, FullBucket, Products
  <2>6. g + e.parts + x <= d + f
    BY <1>1 DEF Covered
  <2>7. g + e.parts + y <= d + (f + Refill)
    BY <2>1, <2>5, <2>6, FullBucket
  <2> QED
    BY <2>7, <1>5
<1>7. ASSUME NEW k \in Keys, \A b \in Entries(buckets) : b.key # k
      PROVE  granted[k] * Unit <= Full * drops[k] + Refill * forward'
  <2> PICK g, d, f : /\ g = granted[k] * Unit /\ d = Full * drops[k] /\ f = Refill * forward
    OBVIOUS
  <2>1. granted[k] \in Nat /\ drops[k] \in Nat
    BY <1>1 DEF LimiterShape
  <2>2. g \in Nat /\ d \in Nat /\ f \in Nat
    BY <2>1, <1>5, FullBucket, Products
  <2>3. g <= d + f
    BY <1>1, <1>7 DEF Covered
  <2>4. g <= d + (f + Refill)
    BY <2>2, <2>3, FullBucket
  <2> QED
    BY <2>4, <1>5
<1>8. Covered'
  BY <1>2, <1>6, <1>7 DEF Covered, Unfilled
<1>9. PromisesHold' /\ MapBounded'
  BY <1>1, <1>2 DEF PromisesHold, MapBounded, Refilled
<1> QED
  BY <1>4, <1>8, <1>9 DEF LimiterInv


LEMMA ClockBackPreserves ==
  ASSUME LimiterInv, ClockBack PROVE LimiterInv'
<1>1. LimiterShape /\ Covered /\ PromisesHold /\ MapBounded
  BY DEF LimiterInv
<1>2. wall > 0 /\ wall' = wall - 1 /\ UNCHANGED <<buckets, forward, granted, drops, promise>>
  BY DEF ClockBack
<1>3. wall \in Nat /\ wall' \in Nat /\ wall' \in 0 .. MaxWall
  BY <1>1, <1>2, FullBucket DEF LimiterShape
<1>4. LimiterShape'
  BY <1>1, <1>2, <1>3 DEF LimiterShape
<1>5. ASSUME NEW e \in Entries(buckets)
      PROVE  granted[e.key] * Unit + e.parts + Refill * Unfilled(e.last)'
               <= Full * (1 + drops[e.key]) + Refill * forward
  <2>1. e.key \in Keys /\ e.parts \in Nat /\ e.last \in Nat /\ Unfilled(e.last) \in Nat
    BY <1>1, EntriesTyped
  <2> PICK u, v : u = Unfilled(e.last) /\ v = Unfilled(e.last)'
    OBVIOUS
  <2>2. u \in Nat /\ v \in Nat /\ v <= u
    BY <2>1, <1>2, <1>3 DEF Unfilled
  <2> PICK g, c, x, y : /\ g = granted[e.key] * Unit
                        /\ c = Full * (1 + drops[e.key]) + Refill * forward
                        /\ x = Refill * u /\ y = Refill * v
    OBVIOUS
  <2>3. x \in Nat /\ y \in Nat /\ y <= x
    BY <2>2, FullBucket, Products, RefillGrows
  <2>4. granted[e.key] \in Nat /\ 1 + drops[e.key] \in Nat /\ forward \in Nat
    BY <2>1, <1>1, Counted
  <2>5. Full * (1 + drops[e.key]) \in Nat /\ Refill * forward \in Nat /\ g \in Nat
    BY <2>4, FullBucket, Products
  <2>6. c \in Nat
    BY <2>5
  <2>7. g + e.parts + x <= c
    BY <1>1 DEF Covered
  <2>8. g + e.parts + y <= c
    BY <2>1, <2>3, <2>5, <2>6, <2>7
  <2> QED
    BY <2>8
<1>6. Covered'
  BY <1>1, <1>2, <1>5 DEF Covered, Unfilled
<1>7. PromisesHold' /\ MapBounded'
  BY <1>1, <1>2 DEF PromisesHold, MapBounded, Refilled
<1> QED
  BY <1>4, <1>6, <1>7 DEF LimiterInv

LEMMA LimiterStep == LimiterInv /\ [LimiterNext]_limiterVars => LimiterInv'
<1> SUFFICES ASSUME LimiterInv, [LimiterNext]_limiterVars PROVE LimiterInv'
  OBVIOUS
<1>1. CASE UNCHANGED limiterVars
  BY <1>1 DEF limiterVars, LimiterInv, LimiterShape, Covered, PromisesHold, MapBounded,
              Unfilled, Refilled
<1>2. ASSUME NEW k \in Keys, Consume(k) PROVE LimiterInv'
  BY <1>2, AllowPreserves, RefusePreserves DEF Consume
<1>3. CASE ClockForward
  BY <1>3, ClockForwardPreserves
<1>4. CASE ClockBack
  BY <1>4, ClockBackPreserves
<1> QED
  BY <1>1, <1>2, <1>3, <1>4 DEF LimiterNext

LEMMA LimiterInvIsSafe == LimiterInv => LimiterSafe
<1> SUFFICES ASSUME LimiterInv PROVE LimiterSafe
  OBVIOUS
<1>1. LimiterShape /\ Covered /\ PromisesHold /\ MapBounded
  BY DEF LimiterInv
<1>2. LimiterTypeOK
  <2>1. DOMAIN buckets = 1 .. Len(buckets) /\ \A i \in 1 .. Len(buckets) : buckets[i] \in BucketRecord
    BY <1>1 DEF LimiterShape
  <2>2. \A i \in DOMAIN buckets : /\ buckets[i].key \in Keys
                                  /\ buckets[i].parts \in 0 .. Capacity * Unit
                                  /\ buckets[i].last \in 0 .. MaxWall
    BY <2>1 DEF BucketRecord, Full
  <2>3. IsInjective([i \in DOMAIN buckets |-> buckets[i].key])
    BY <2>1, <1>1 DEF LimiterShape, OneEach, IsInjective
  <2> QED
    BY <2>2, <2>3 DEF LimiterTypeOK
<1>3. WithinBudget
  <2> SUFFICES ASSUME NEW k \in Keys
               PROVE  granted[k] * Unit <= Full * (1 + drops[k]) + Refill * forward
    BY DEF WithinBudget, Full
  <2> PICK g, r, c : /\ g = granted[k] * Unit /\ r = Refilled(BucketOf(k), wall)
                     /\ c = Full * (1 + drops[k]) + Refill * forward
    OBVIOUS
  <2>1. g + r <= c
    BY <1>1, CoveredNow
  <2>2. BucketOf(k) \in BucketRecord /\ wall \in Nat
    BY <1>1, BucketOfKey, FullBucket DEF LimiterShape
  <2>3. r \in Nat
    BY <2>2, RefilledBucket, FullBucket
  <2>4. granted[k] \in Nat /\ 1 + drops[k] \in Nat /\ forward \in Nat
    BY <1>1 DEF LimiterShape
  <2>5. Full * (1 + drops[k]) \in Nat /\ Refill * forward \in Nat /\ g \in Nat
    BY <2>4, FullBucket, Products
  <2>6. c \in Nat
    BY <2>5
  <2>7. g <= c
    BY <2>1, <2>3, <2>5, <2>6
  <2> QED
    BY <2>7
<1>4. RetryAfterHolds
  <2> SUFFICES ASSUME NEW k \in Keys, promise[k] > 0
               PROVE  Refilled(BucketOf(k), promise[k]) >= Unit
    BY DEF RetryAfterHolds
  <2> PICK b : b = BucketOf(k)
    OBVIOUS
  <2>1. b \in BucketRecord /\ b.key = k /\ promise[k] \in Nat
    BY <1>1, BucketOfKey DEF LimiterShape
  <2>2. CASE b \in Entries(buckets)
    BY <2>1, <2>2, <1>1 DEF PromisesHold
  <2>3. CASE b.parts = Full
    <3> PICK t : t = IF promise[k] > b.last THEN promise[k] - b.last ELSE 0
      OBVIOUS
    <3> PICK x : x = Refill * t
      OBVIOUS
    <3>1. x \in Nat /\ Refilled(b, promise[k]) = IF Full + x <= Full THEN Full + x ELSE Full
      BY <2>1, <2>3, RefilledBucket
    <3> QED
      BY <3>1, FullBucket
  <2> QED
    BY <2>2, <2>3, <1>1, BucketOfKey
<1> QED
  BY <1>1, <1>2, <1>3, <1>4 DEF LimiterSafe

\* The limiter in front of the webhook, SSO and credential routes (consume) keeps
\* its budget, its Retry-After and its size, for every capacity, rate and number
\* of keys, and whatever the wall clock does.
THEOREM LimiterIsSafe == LimiterSpec => []LimiterSafe
<1>1. LimiterSpec => []LimiterInv
  BY LimiterStarts, LimiterStep, PTL DEF LimiterSpec
<1> QED
  BY <1>1, LimiterInvIsSafe, PTL


-----------------------------------------------------------------------------
(* The grants of a run.                                                    *)

GrantRecord == [expires : Nat, revoked : BOOLEAN, count : Nat]
RequestRecord ==
    [stage : {"idle", "started", "refused"} \cup Past, node : Sidecars \cup {"-"}, at : Nat,
     copy : GrantRecord]

GrantShape ==
    /\ now \in Nat
    /\ deadline \in Nat
    /\ minting \in [Sidecars -> {"no", "creating", "minted", "failed"}]
    /\ expiry \in [Sidecars -> Nat]
    /\ grantRow \in [Sidecars -> GrantRecord]
    /\ ended \in {"no", "revoked", "kept"}
    /\ redeem \in [Redemptions -> RequestRecord]
    /\ audited \in [Redemptions -> Nat]

\* Grants end no later than the run's deadline, and are revoked by its end only.
GrantsBounded ==
    /\ \A n \in Sidecars : minting[n] # "no" => expiry[n] <= deadline
    /\ \A n \in Sidecars : minting[n] = "minted" => grantRow[n].expires <= deadline
    /\ \A n \in Sidecars : grantRow[n].revoked => ended = "revoked" /\ minting[n] = "minted"

\* A request under way is one of a sidecar that has a grant.
Presented ==
    \A r \in Redemptions : redeem[r].stage # "idle" =>
        redeem[r].node \in Sidecars /\ minting[redeem[r].node] = "minted"

\* The requests that have stamped a grant.
Stamped(n) ==
    {r \in Redemptions : redeem[r].node = n /\ redeem[r].stage \in {"stamped", "ok"}}

\* What a request copied is what the grant was at its look-up, or less than it is
\* now: it has been stamped since by this request at least.
Numbered ==
    \A r \in Redemptions :
        /\ redeem[r].stage \in Open => redeem[r].copy.count <= grantRow[redeem[r].node].count
        /\ redeem[r].stage \in {"stamped", "ok"} =>
             redeem[r].copy.count + 1 <= grantRow[redeem[r].node].count
        /\ audited[r] = IF redeem[r].stage = "ok" THEN redeem[r].copy.count + 1 ELSE 0

\* Two requests with the same copy of a grant crossed.
CopiesApart ==
    \A r, q \in Redemptions :
        (/\ r # q /\ redeem[r].stage \in Past /\ redeem[q].stage \in Past
         /\ redeem[r].node = redeem[q].node /\ redeem[r].copy.count = redeem[q].copy.count)
        => {r, q} \in crossed

GrantInv ==
    /\ GrantShape /\ GrantsBounded /\ Presented /\ RevocationStops /\ CountExact
    /\ Numbered /\ CopiesApart

Stages == {"idle", "started", "refused"} \cup Past

\* A request that goes on to another stage is a request, and no other changes.
LEMMA Going ==
  ASSUME GrantShape, NEW r \in Redemptions, NEW stage \in Stages, Goes(r, stage)
  PROVE  /\ redeem' \in [Redemptions -> RequestRecord]
         /\ redeem'[r].stage = stage /\ redeem'[r].node = redeem[r].node
         /\ redeem'[r].at = redeem[r].at /\ redeem'[r].copy = redeem[r].copy
         /\ \A q \in Redemptions \ {r} : redeem'[q] = redeem[q]
<1>1. redeem \in [Redemptions -> RequestRecord] /\ redeem[r] \in RequestRecord
  BY DEF GrantShape
<1>2. redeem' = [redeem EXCEPT ![r] = [redeem[r] EXCEPT !.stage = stage]]
  BY <1>1 DEF Goes
<1> PICK new : new = [redeem[r] EXCEPT !.stage = stage]
  OBVIOUS
<1>3. /\ new \in RequestRecord /\ new.stage = stage /\ new.node = redeem[r].node
      /\ new.at = redeem[r].at /\ new.copy = redeem[r].copy
  BY <1>1 DEF RequestRecord, Stages
<1>4. redeem'[r] = new /\ \A q \in Redemptions \ {r} : redeem'[q] = redeem[q]
  BY <1>1, <1>2
<1>5. redeem' \in [Redemptions -> RequestRecord]
  BY <1>1, <1>2, <1>3
<1> QED
  BY <1>3, <1>4, <1>5

\* The requests that have stamped a grant are finitely many.
LEMMA StampedFinite == \A n : IsFiniteSet(Stamped(n)) /\ Cardinality(Stamped(n)) \in Nat
  /\ Cardinality(Stamped(n)) <= Cardinality(Redemptions)
<1> TAKE n
<1>1. Stamped(n) \subseteq Redemptions /\ IsFiniteSet(Redemptions)
  BY GrantConstants DEF Stamped
<1> QED
  BY <1>1, FS_Subset, FS_CardinalityType

LEMMA GrantsStart == GrantInit => GrantInv
<1> SUFFICES ASSUME GrantInit PROVE GrantInv
  OBVIOUS
<1> USE DEF GrantInit
<1>1. NoRow \in GrantRecord
  BY DEF NoRow, GrantRecord
<1>2. Idle \in RequestRecord
  BY <1>1 DEF Idle, RequestRecord
<1>3. GrantShape
  BY <1>1, <1>2, GrantConstants DEF GrantShape
<1>4. \A r \in Redemptions : redeem[r].stage = "idle"
  BY DEF Idle
<1>5. GrantsBounded
  BY DEF GrantsBounded, NoRow
<1>6. Presented /\ RevocationStops /\ CopiesApart
  BY <1>4 DEF Presented, RevocationStops, CopiesApart, Past
<1>7. CountExact
  <2>1. \A n \in Sidecars : Stamped(n) = {} /\ grantRow[n].count = 0
    BY <1>4 DEF Stamped, NoRow
  <2> QED
    BY <2>1, FS_EmptySet DEF CountExact, Stamped
<1>8. Numbered
  BY <1>4 DEF Numbered, Open
<1> QED
  BY <1>3, <1>5, <1>6, <1>7, <1>8 DEF GrantInv


\* The count of a grant is right after a step that stamps none.
LEMMA CountStays ==
  ASSUME CountExact, \A n \in Sidecars : grantRow'[n].count = grantRow[n].count,
         \A n \in Sidecars : Stamped(n)' = Stamped(n)
  PROVE  CountExact'
<1>1. \A n \in Sidecars : grantRow'[n].count = Cardinality(Stamped(n)')
  BY DEF CountExact, Stamped
<1> QED
  BY <1>1 DEF CountExact, Stamped

\* A request goes on, or is refused, without stamping anything.
LEMMA RequestMoves ==
  ASSUME GrantInv, NEW r \in Redemptions, NEW stage, Goes(r, stage),
         \/ stage = "refused" /\ redeem[r].stage \in {"started"} \cup Open
         \/ stage \in {"resolved", "made"} /\ redeem[r].stage \in Open,
         UNCHANGED <<now, run, grantRow, audited, crossed>>
  PROVE  GrantInv'
<1>1. /\ GrantShape /\ GrantsBounded /\ Presented /\ RevocationStops /\ CountExact
      /\ Numbered /\ CopiesApart
  BY DEF GrantInv
<1>2. stage \in Stages /\ redeem[r].stage \notin {"idle", "stamped", "ok"}
      /\ stage \notin {"idle", "stamped", "ok"}
      /\ (stage \in Past => redeem[r].stage \in Past)
      /\ (stage \in Open => redeem[r].stage \in Open)
  BY DEF Stages, Open, Past
<1>3. /\ redeem' \in [Redemptions -> RequestRecord]
      /\ redeem'[r].stage = stage /\ redeem'[r].node = redeem[r].node
      /\ redeem'[r].at = redeem[r].at /\ redeem'[r].copy = redeem[r].copy
      /\ \A q \in Redemptions \ {r} : redeem'[q] = redeem[q]
  BY <1>1, <1>2, Going
<1>4. UNCHANGED <<now, deadline, minting, expiry, ended, before, grantRow, audited, crossed>>
  BY DEF run
<1>5. \A q \in Redemptions :
        /\ redeem'[q].node = redeem[q].node /\ redeem'[q].at = redeem[q].at
        /\ redeem'[q].copy = redeem[q].copy
        /\ redeem'[q].stage \in Past => redeem[q].stage \in Past
        /\ redeem'[q].stage \in Open => redeem[q].stage \in Open
        /\ redeem'[q].stage \in {"stamped", "ok"} <=> redeem[q].stage \in {"stamped", "ok"}
        /\ redeem'[q].stage = "ok" <=> redeem[q].stage = "ok"
        /\ redeem'[q].stage = "idle" <=> redeem[q].stage = "idle"
  BY <1>2, <1>3
<1>6. GrantShape' /\ GrantsBounded'
  BY <1>1, <1>3, <1>4 DEF GrantShape, GrantsBounded
<1>7. Presented'
  BY <1>1, <1>4, <1>5 DEF Presented
<1>8. RevocationStops'
  BY <1>1, <1>4, <1>5 DEF RevocationStops
<1>9. CountExact'
  <2>1. \A n \in Sidecars : Stamped(n)' = Stamped(n)
    BY <1>5 DEF Stamped
  <2> QED
    BY <2>1, <1>1, <1>4, CountStays
<1>10. Numbered'
  BY <1>1, <1>4, <1>5 DEF Numbered
<1>11. CopiesApart'
  BY <1>1, <1>4, <1>5 DEF CopiesApart
<1> QED
  BY <1>6, <1>7, <1>8, <1>9, <1>10, <1>11 DEF GrantInv

LEMMA IssuePreserves ==
  ASSUME GrantInv, NEW n \in Sidecars, Issue(n) PROVE GrantInv'
<1>1. /\ GrantShape /\ GrantsBounded /\ Presented /\ RevocationStops /\ CountExact
      /\ Numbered /\ CopiesApart
  BY DEF GrantInv
<1>2. /\ minting[n] = "no" /\ minting' = [minting EXCEPT ![n] = "creating"]
      /\ expiry' = [expiry EXCEPT ![n] = AtMost(deadline, now + MaxTtl)]
      /\ UNCHANGED <<now, deadline, grantRow, ended, redeem, audited, before, crossed>>
  BY DEF Issue
<1>3. AtMost(deadline, now + MaxTtl) \in Nat /\ AtMost(deadline, now + MaxTtl) <= deadline
  BY <1>1, GrantConstants DEF GrantShape, AtMost
<1>4. GrantShape'
  BY <1>1, <1>2, <1>3 DEF GrantShape
<1>5. GrantsBounded'
  BY <1>1, <1>2, <1>3 DEF GrantsBounded, GrantShape
<1>6. Presented'
  BY <1>1, <1>2 DEF Presented, GrantShape
<1>7. RevocationStops' /\ Numbered' /\ CopiesApart'
  BY <1>1, <1>2 DEF RevocationStops, Numbered, CopiesApart
<1>8. CountExact'
  BY <1>1, <1>2 DEF CountExact
<1> QED
  BY <1>4, <1>5, <1>6, <1>7, <1>8 DEF GrantInv

LEMMA CreatePreserves ==
  ASSUME GrantInv, NEW n \in Sidecars, CreateGrant(n) PROVE GrantInv'
<1>1. /\ GrantShape /\ GrantsBounded /\ Presented /\ RevocationStops /\ CountExact
      /\ Numbered /\ CopiesApart
  BY DEF GrantInv
<1>2. /\ minting[n] = "creating"
      /\ UNCHANGED <<now, deadline, expiry, ended, redeem, audited, before, crossed>>
  BY DEF CreateGrant
<1>3. \A r \in Redemptions : redeem[r].stage # "idle" => redeem[r].node # n
  BY <1>1, <1>2 DEF Presented
<1>4. CASE minting' = [minting EXCEPT ![n] = "failed"] /\ UNCHANGED grantRow
  <2>1. GrantShape' /\ GrantsBounded'
    BY <1>1, <1>2, <1>4 DEF GrantShape, GrantsBounded
  <2>2. Presented'
    BY <1>1, <1>2, <1>3, <1>4 DEF Presented, GrantShape
  <2>3. RevocationStops' /\ Numbered' /\ CopiesApart' /\ CountExact'
    BY <1>1, <1>2, <1>4 DEF RevocationStops, Numbered, CopiesApart, CountExact
  <2> QED
    BY <2>1, <2>2, <2>3 DEF GrantInv
<1>5. CASE /\ minting' = [minting EXCEPT ![n] = "minted"]
           /\ grantRow' = [grantRow EXCEPT ![n] = [NoRow EXCEPT !.expires = expiry[n]]]
  <2> PICK row : row = [NoRow EXCEPT !.expires = expiry[n]]
    OBVIOUS
  <2>1. /\ row \in GrantRecord /\ row.expires = expiry[n] /\ row.revoked = FALSE
        /\ row.count = 0
    BY <1>1 DEF NoRow, GrantRecord, GrantShape
  <2>2. /\ grantRow'[n] = row /\ minting'[n] = "minted"
        /\ \A m \in Sidecars \ {n} : grantRow'[m] = grantRow[m] /\ minting'[m] = minting[m]
    BY <1>1, <1>5 DEF GrantShape
  <2>3. GrantShape'
    BY <1>1, <1>2, <1>5, <2>1 DEF GrantShape
  <2>4. GrantsBounded'
    <3>1. ASSUME NEW m \in Sidecars
          PROVE  /\ minting'[m] # "no" => expiry[m] <= deadline
                 /\ minting'[m] = "minted" => grantRow'[m].expires <= deadline
                 /\ grantRow'[m].revoked => ended = "revoked" /\ minting'[m] = "minted"
      <4>1. expiry[n] <= deadline
        BY <1>1, <1>2 DEF GrantsBounded
      <4>2. CASE m = n
        BY <4>1, <4>2, <2>1, <2>2
      <4>3. CASE m # n
        BY <4>3, <1>1, <2>2 DEF GrantsBounded
      <4> QED
        BY <4>2, <4>3
    <3> QED
      BY <3>1, <1>2 DEF GrantsBounded
  <2>5. Presented'
    BY <1>1, <1>2, <1>3, <2>2 DEF Presented
  <2>6. RevocationStops' /\ Numbered'
    <3>1. \A r \in Redemptions : redeem[r].stage # "idle" =>
            grantRow'[redeem[r].node] = grantRow[redeem[r].node]
      BY <1>1, <1>3, <2>2 DEF Presented
    <3> QED
      BY <3>1, <1>1, <1>2 DEF RevocationStops, Numbered, Past, Open
  <2>7. CopiesApart'
    BY <1>1, <1>2 DEF CopiesApart
  <2>8. CountExact'
    <3>1. Stamped(n) = {}
      BY <1>3 DEF Stamped
    <3>2. \A m \in Sidecars : grantRow'[m].count = Cardinality(Stamped(m))
      <4>1. grantRow'[n].count = Cardinality(Stamped(n))
        BY <3>1, <2>1, <2>2, FS_EmptySet
      <4>2. \A m \in Sidecars : grantRow[m].count = Cardinality(Stamped(m))
        BY <1>1 DEF CountExact, Stamped
      <4>3. \A m \in Sidecars \ {n} : grantRow'[m].count = Cardinality(Stamped(m))
        BY <4>2, <2>2
      <4> QED
        BY <4>1, <4>3
    <3> QED
      BY <3>2, <1>2 DEF CountExact, Stamped
  <2> QED
    BY <2>3, <2>4, <2>5, <2>6, <2>7, <2>8 DEF GrantInv
<1> QED
  BY <1>4, <1>5 DEF CreateGrant

LEMMA EndRunPreserves ==
  ASSUME GrantInv, EndRun PROVE GrantInv'
<1>1. /\ GrantShape /\ GrantsBounded /\ Presented /\ RevocationStops /\ CountExact
      /\ Numbered /\ CopiesApart
  BY DEF GrantInv
<1>2. ended = "no" /\ UNCHANGED <<now, deadline, minting, expiry, redeem, audited, crossed>>
  BY DEF EndRun
<1>3. CASE ended' = "kept" /\ UNCHANGED <<grantRow, before>>
  <2>1. GrantShape' /\ GrantsBounded'
    BY <1>1, <1>2, <1>3 DEF GrantShape, GrantsBounded
  <2>2. RevocationStops' /\ Numbered' /\ CopiesApart' /\ CountExact' /\ Presented'
    BY <1>1, <1>2, <1>3 DEF RevocationStops, Numbered, CopiesApart, CountExact, Presented
  <2> QED
    BY <2>1, <2>2 DEF GrantInv
<1>4. CASE /\ ended' = "revoked"
           /\ grantRow' = [n \in Sidecars |->
                             [grantRow[n] EXCEPT !.revoked = minting[n] = "minted"]]
           /\ before' = {r \in Redemptions : redeem[r].stage \in Past}
  <2>1. ASSUME NEW n \in Sidecars
        PROVE  /\ grantRow'[n] \in GrantRecord /\ grantRow'[n].expires = grantRow[n].expires
               /\ grantRow'[n].count = grantRow[n].count
               /\ grantRow'[n].revoked = (minting[n] = "minted")
    <3> PICK has \in BOOLEAN : has = (minting[n] = "minted")
      OBVIOUS
    <3>1. grantRow'[n] = [grantRow[n] EXCEPT !.revoked = has]
      BY <1>4
    <3>2. grantRow[n] \in GrantRecord
      BY <1>1 DEF GrantShape
    <3>3. grantRow'[n] \in GrantRecord /\ grantRow'[n].expires = grantRow[n].expires
          /\ grantRow'[n].count = grantRow[n].count /\ grantRow'[n].revoked = has
      BY <3>1, <3>2 DEF GrantRecord
    <3> QED
      BY <3>3
  <2>2. GrantShape'
    <3>1. grantRow' \in [Sidecars -> GrantRecord]
      BY <1>4, <2>1
    <3> QED
      BY <3>1, <1>1, <1>2, <1>4 DEF GrantShape
  <2>3. GrantsBounded'
    BY <1>1, <1>2, <1>4, <2>1 DEF GrantsBounded
  <2>4. Presented' /\ CopiesApart'
    BY <1>1, <1>2 DEF Presented, CopiesApart
  <2>5. RevocationStops'
    BY <1>1, <1>2, <1>4 DEF RevocationStops
  <2>6. CountExact'
    <3>1. \A n \in Sidecars : Stamped(n)' = Stamped(n)
      BY <1>2 DEF Stamped
    <3> QED
      BY <3>1, <1>1, <2>1, CountStays
  <2>7. Numbered'
    <3>1. \A r \in Redemptions : redeem[r].stage # "idle" =>
            grantRow'[redeem[r].node].count = grantRow[redeem[r].node].count
      BY <1>1, <2>1 DEF Presented
    <3> QED
      BY <3>1, <1>1, <1>2 DEF Numbered, Open
  <2> QED
    BY <2>2, <2>3, <2>4, <2>5, <2>6, <2>7 DEF GrantInv
<1> QED
  BY <1>3, <1>4 DEF EndRun


LEMMA StartPreserves ==
  ASSUME GrantInv, NEW r \in Redemptions, NEW n \in Sidecars, StartRedeem(r, n) PROVE GrantInv'
<1>1. /\ GrantShape /\ GrantsBounded /\ Presented /\ RevocationStops /\ CountExact
      /\ Numbered /\ CopiesApart
  BY DEF GrantInv
<1>2. /\ redeem[r].stage = "idle" /\ minting[n] = "minted"
      /\ redeem' = [redeem EXCEPT ![r] = [Idle EXCEPT !.stage = "started", !.node = n, !.at = now]]
      /\ UNCHANGED <<now, deadline, minting, expiry, ended, before, grantRow, audited, crossed>>
  BY DEF StartRedeem, run
<1> PICK new : new = [Idle EXCEPT !.stage = "started", !.node = n, !.at = now]
  OBVIOUS
<1>3. new \in RequestRecord /\ new.stage = "started" /\ new.node = n
  <2>1. NoRow \in GrantRecord
    BY DEF NoRow, GrantRecord
  <2>2. now \in Nat
    BY <1>1 DEF GrantShape
  <2> QED
    BY <2>1, <2>2 DEF Idle, RequestRecord
<1>4. redeem' \in [Redemptions -> RequestRecord]
  BY <1>1, <1>2, <1>3 DEF GrantShape
<1>5. redeem'[r] = new /\ \A q \in Redemptions \ {r} : redeem'[q] = redeem[q]
  BY <1>1, <1>2 DEF GrantShape
<1>6. redeem'[r].stage = "started" /\ redeem'[r].node = n
  BY <1>3, <1>5
<1>7. \A q \in Redemptions : redeem'[q].stage \in Past \cup Open => q # r
  BY <1>6 DEF Past, Open
<1>8. GrantShape' /\ GrantsBounded'
  BY <1>1, <1>2, <1>4 DEF GrantShape, GrantsBounded
<1>9. Presented'
  BY <1>1, <1>2, <1>5, <1>6 DEF Presented
<1>10. RevocationStops' /\ CopiesApart'
  BY <1>1, <1>2, <1>5, <1>7 DEF RevocationStops, CopiesApart
<1>11. CountExact'
  <2>1. \A m \in Sidecars : Stamped(m)' = Stamped(m)
    BY <1>2, <1>5, <1>6 DEF Stamped
  <2> QED
    BY <2>1, <1>1, <1>2, CountStays
<1>12. Numbered'
  BY <1>1, <1>2, <1>5, <1>6 DEF Numbered, Open
<1> QED
  BY <1>8, <1>9, <1>10, <1>11, <1>12 DEF GrantInv

LEMMA LookUpPreserves ==
  ASSUME GrantInv, NEW r \in Redemptions, LookUp(r) PROVE GrantInv'
<1>1. /\ GrantShape /\ GrantsBounded /\ Presented /\ RevocationStops /\ CountExact
      /\ Numbered /\ CopiesApart
  BY DEF GrantInv
<1> PICK n : n = redeem[r].node
  OBVIOUS
<1> PICK row : row = grantRow[n]
  OBVIOUS
<1>2. /\ redeem[r].stage = "started"
      /\ UNCHANGED <<now, deadline, minting, expiry, ended, before, grantRow, audited>>
  BY DEF LookUp, run
<1>3. n \in Sidecars /\ minting[n] = "minted" /\ row \in GrantRecord
  BY <1>1, <1>2 DEF Presented, GrantShape
<1>4. CASE Goes(r, "refused") /\ UNCHANGED crossed
  <2>1. UNCHANGED <<now, run, grantRow, audited, crossed>>
    BY <1>2, <1>4 DEF run
  <2> QED
    BY <2>1, <1>2, <1>4, RequestMoves
<1>5. CASE /\ ~ (row.revoked \/ row.expires <= redeem[r].at)
           /\ redeem' = [redeem EXCEPT ![r].stage = "looked", ![r].copy = row]
           /\ crossed' = crossed \cup {{r, q} : q \in {p \in Redemptions : redeem[p].stage \in Open}}
  <2> PICK new : new = [redeem[r] EXCEPT !.stage = "looked", !.copy = row]
    OBVIOUS
  <2>1. redeem[r] \in RequestRecord
    BY <1>1 DEF GrantShape
  <2>2. /\ new \in RequestRecord /\ new.stage = "looked" /\ new.node = n /\ new.copy = row
        /\ new.at = redeem[r].at
    BY <2>1, <1>3 DEF RequestRecord, Past
  <2>3. redeem' = [redeem EXCEPT ![r] = new]
    BY <1>1, <1>5 DEF GrantShape
  <2>4. redeem'[r] = new /\ \A q \in Redemptions \ {r} : redeem'[q] = redeem[q]
    BY <2>3, <1>1 DEF GrantShape
  <2>5. redeem' \in [Redemptions -> RequestRecord]
    BY <2>2, <2>3, <1>1 DEF GrantShape
  <2>6. /\ redeem'[r].stage = "looked" /\ redeem'[r].node = n /\ redeem'[r].copy = row
        /\ redeem'[r].at = redeem[r].at
    BY <2>2, <2>4
  <2>7. GrantShape' /\ GrantsBounded'
    <3>1. GrantShape'
      BY <2>5, <1>1, <1>2 DEF GrantShape
    <3> QED
      BY <3>1, <1>1, <1>2 DEF GrantsBounded
  <2>8. Presented'
    <3>1. \A q \in Redemptions \ {r} : redeem'[q].stage # "idle" =>
            redeem'[q].node \in Sidecars /\ minting[redeem'[q].node] = "minted"
      BY <1>1, <2>4 DEF Presented
    <3>2. redeem'[r].node \in Sidecars /\ minting[redeem'[r].node] = "minted"
      BY <1>3, <2>6
    <3> QED
      BY <3>1, <3>2, <1>2 DEF Presented
  <2>9. RevocationStops'
    <3>1. row.expires <= deadline
      BY <1>1, <1>3 DEF GrantsBounded
    <3>2. row.expires \in Nat /\ deadline \in Nat /\ redeem[r].at \in Nat
      BY <1>1, <1>3, <2>1 DEF GrantRecord, GrantShape, RequestRecord
    <3>3. redeem[r].at < deadline
      BY <3>1, <3>2, <1>5
    <3>4. ~ grantRow[n].revoked
      BY <1>5
    <3> QED
      BY <3>3, <3>4, <1>1, <1>2, <2>4, <2>6 DEF RevocationStops
  <2>10. CountExact'
    <3>1. \A q \in Redemptions :
            /\ redeem'[q].node = redeem[q].node
            /\ redeem'[q].stage \in {"stamped", "ok"} <=> redeem[q].stage \in {"stamped", "ok"}
      <4>1. redeem'[r].node = redeem[r].node /\ redeem'[r].stage \notin {"stamped", "ok"}
        BY <2>6
      <4> QED
        BY <4>1, <1>2, <2>4
    <3>2. \A m \in Sidecars : Stamped(m)' = Stamped(m)
      BY <3>1 DEF Stamped
    <3> QED
      BY <3>2, <1>1, <1>2, CountStays
  <2>11. Numbered'
    <3>1. row.count \in Nat
      BY <1>3 DEF GrantRecord
    <3>2. /\ redeem'[r].copy.count <= grantRow[redeem'[r].node].count
          /\ redeem'[r].stage \notin {"stamped", "ok"} /\ audited[r] = 0
      BY <3>1, <2>6, <1>1, <1>2 DEF Numbered
    <3> QED
      BY <3>2, <1>1, <1>2, <2>4, <2>6 DEF Numbered
  <2>12. CopiesApart'
    <3>1. row.count \in Nat
      BY <1>3 DEF GrantRecord
    <3>2. ASSUME NEW q \in Redemptions \ {r}, redeem[q].stage \in Past, redeem[q].node = n,
                 redeem[q].copy.count = row.count
          PROVE  {r, q} \in crossed'
      <4>1. redeem[q].copy.count \in Nat
        BY <1>1 DEF GrantShape, RequestRecord, GrantRecord
      <4>2. redeem[q].stage \notin {"stamped", "ok"}
        BY <4>1, <3>1, <3>2, <1>1 DEF Numbered
      <4>3. redeem[q].stage \in Open
        BY <4>2, <3>2 DEF Past, Open
      <4> QED
        BY <4>3, <1>5
    <3>3. ASSUME NEW p \in Redemptions, NEW q \in Redemptions, p # q, redeem'[p].stage \in Past,
                 redeem'[q].stage \in Past, redeem'[p].node = redeem'[q].node,
                 redeem'[p].copy.count = redeem'[q].copy.count
          PROVE  {p, q} \in crossed'
      <4>1. CASE p = r
        BY <4>1, <3>2, <3>3, <2>4, <2>6
      <4>2. CASE q = r
        <5>1. {r, p} \in crossed'
          BY <4>2, <3>2, <3>3, <2>4, <2>6
        <5>2. {p, q} = {r, p}
          BY <4>2
        <5> QED
          BY <5>1, <5>2
      <4>3. CASE p # r /\ q # r
        <5>1. {p, q} \in crossed
          BY <4>3, <3>3, <2>4, <1>1 DEF CopiesApart
        <5> QED
          BY <5>1, <1>5
      <4> QED
        BY <4>1, <4>2, <4>3
    <3> QED
      BY <3>3 DEF CopiesApart
  <2> QED
    BY <2>7, <2>8, <2>9, <2>10, <2>11, <2>12 DEF GrantInv
<1> QED
  BY <1>4, <1>5 DEF LookUp

LEMMA RecordPreserves ==
  ASSUME GrantInv, NEW r \in Redemptions, RecordRedemption(r) PROVE GrantInv'
<1>1. /\ GrantShape /\ GrantsBounded /\ Presented /\ RevocationStops /\ CountExact
      /\ Numbered /\ CopiesApart
  BY DEF GrantInv
<1> PICK n : n = redeem[r].node
  OBVIOUS
<1>2. redeem[r].stage = "made" /\ UNCHANGED <<now, run, audited, crossed>>
  BY DEF RecordRedemption
<1>3. UNCHANGED <<now, deadline, minting, expiry, ended, before, audited, crossed>>
  BY <1>2 DEF run
<1>4. n \in Sidecars /\ grantRow[n] \in GrantRecord /\ grantRow[n].count \in Nat
  BY <1>1, <1>2 DEF Presented, GrantShape, GrantRecord
<1>5. CASE Goes(r, "refused") /\ UNCHANGED grantRow
  BY <1>2, <1>5, RequestMoves DEF Open
<1>6. CASE Goes(r, "stamped") /\ grantRow' = [grantRow EXCEPT ![redeem[r].node].count = @ + 1]
  <2>1. /\ redeem' \in [Redemptions -> RequestRecord]
        /\ redeem'[r].stage = "stamped" /\ redeem'[r].node = n
        /\ redeem'[r].at = redeem[r].at /\ redeem'[r].copy = redeem[r].copy
        /\ \A q \in Redemptions \ {r} : redeem'[q] = redeem[q]
    BY <1>1, <1>6, Going DEF Stages, Past
  <2> PICK row : row = [grantRow[n] EXCEPT !.count = grantRow[n].count + 1]
    OBVIOUS
  <2>2. /\ row \in GrantRecord /\ row.expires = grantRow[n].expires
        /\ row.revoked = grantRow[n].revoked /\ row.count = grantRow[n].count + 1
    BY <1>4 DEF GrantRecord
  <2>3. grantRow' = [grantRow EXCEPT ![n] = row]
    BY <1>1, <1>6 DEF GrantShape
  <2>4. grantRow'[n] = row /\ \A m \in Sidecars \ {n} : grantRow'[m] = grantRow[m]
    BY <2>3, <1>1, <1>4 DEF GrantShape
  <2>5. grantRow' \in [Sidecars -> GrantRecord]
    BY <2>2, <2>3, <1>1 DEF GrantShape
  <2>6. \A m \in Sidecars : /\ grantRow'[m].expires = grantRow[m].expires
                            /\ grantRow'[m].revoked = grantRow[m].revoked
    BY <2>2, <2>4
  <2>7. \A m \in Sidecars : grantRow[m].count \in Nat /\ grantRow[m].count <= grantRow'[m].count
    <3>1. \A m \in Sidecars : grantRow[m].count \in Nat
      BY <1>1 DEF GrantShape, GrantRecord
    <3>2. grantRow[n].count <= grantRow'[n].count
      BY <1>4, <2>2, <2>4
    <3>3. \A x \in Nat : x <= x
      OBVIOUS
    <3>4. ASSUME NEW m \in Sidecars, m # n PROVE grantRow[m].count <= grantRow'[m].count
      <4>1. grantRow'[m] = grantRow[m]
        BY <3>4, <2>4
      <4> QED
        BY <4>1, <3>1, <3>3
    <3> QED
      BY <3>1, <3>2, <3>4
  <2>8. \A q \in Redemptions :
          /\ redeem'[q].node = redeem[q].node /\ redeem'[q].at = redeem[q].at
          /\ redeem'[q].copy = redeem[q].copy
          /\ redeem'[q].stage \in Past => redeem[q].stage \in Past
          /\ redeem'[q].stage \in Open => redeem[q].stage \in Open
          /\ redeem'[q].stage = "ok" <=> redeem[q].stage = "ok"
          /\ redeem'[q].stage = "idle" <=> redeem[q].stage = "idle"
    BY <1>2, <2>1 DEF Past, Open
  <2>9. GrantShape'
    BY <1>1, <1>3, <2>1, <2>5 DEF GrantShape
  <2>10. GrantsBounded'
    BY <1>1, <1>3, <2>6 DEF GrantsBounded
  <2>11. Presented'
    BY <1>1, <1>3, <2>8 DEF Presented
  <2>12. RevocationStops'
    <3>1. \A q \in Redemptions : redeem[q].stage \in Past => redeem[q].node \in Sidecars
      BY <1>1 DEF Presented, Past
    <3> QED
      BY <3>1, <1>1, <1>3, <2>6, <2>8 DEF RevocationStops
  <2>13. CountExact'
    <3>1. Stamped(n)' = Stamped(n) \cup {r} /\ r \notin Stamped(n)
      BY <1>2, <2>1 DEF Stamped
    <3>2. Cardinality(Stamped(n)') = Cardinality(Stamped(n)) + 1
      BY <3>1, StampedFinite, FS_AddElement
    <3>3. grantRow[n].count = Cardinality(Stamped(n))
      BY <1>1, <1>4 DEF CountExact, Stamped
    <3>4. \A m \in Sidecars \ {n} : Stamped(m)' = Stamped(m)
      BY <2>1 DEF Stamped
    <3>5. \A m \in Sidecars : grantRow'[m].count = Cardinality(Stamped(m)')
      <4> TAKE m \in Sidecars
      <4>1. CASE m = n
        BY <4>1, <3>2, <3>3, <2>2, <2>4
      <4>2. CASE m # n
        BY <4>2, <3>4, <2>4, <1>1 DEF CountExact, Stamped
      <4> QED
        BY <4>1, <4>2
    <3> QED
      BY <3>5 DEF CountExact, Stamped
  <2>14. Numbered'
    <3>1. ASSUME NEW q \in Redemptions
          PROVE  /\ redeem'[q].stage \in Open =>
                      redeem'[q].copy.count <= grantRow'[redeem'[q].node].count
                 /\ redeem'[q].stage \in {"stamped", "ok"} =>
                      redeem'[q].copy.count + 1 <= grantRow'[redeem'[q].node].count
                 /\ audited[q] = IF redeem'[q].stage = "ok" THEN redeem'[q].copy.count + 1 ELSE 0
      <4> PICK c : c = redeem[q].copy.count
        OBVIOUS
      <4>1. c \in Nat /\ redeem'[q].copy.count = c
        BY <1>1, <2>8 DEF GrantShape, RequestRecord, GrantRecord
      <4>2. audited[q] = IF redeem'[q].stage = "ok" THEN c + 1 ELSE 0
        BY <1>1, <2>8 DEF Numbered
      <4>3. CASE q = r
        <5>1. c <= grantRow[n].count
          BY <4>3, <1>1, <1>2 DEF Numbered, Open
        <5>2. c + 1 <= grantRow'[n].count
          BY <5>1, <4>1, <1>4, <2>2, <2>4
        <5> QED
          BY <5>2, <4>1, <4>2, <4>3, <2>1 DEF Open
      <4>4. CASE q # r /\ redeem[q].stage \in Open \cup {"stamped", "ok"}
        <5> PICK m : m = redeem[q].node
          OBVIOUS
        <5>1. m \in Sidecars
          BY <4>4, <1>1 DEF Presented, Open
        <5> PICK a, b : a = grantRow[m].count /\ b = grantRow'[m].count
          OBVIOUS
        <5>2. a \in Nat /\ b \in Nat /\ a <= b
          <6>1. b \in Nat
            BY <5>1, <2>5 DEF GrantRecord
          <6> QED
            BY <6>1, <5>1, <2>7
        <5>3. redeem[q].stage \in Open => c <= a
          BY <1>1 DEF Numbered
        <5>4. redeem[q].stage \in {"stamped", "ok"} => c + 1 <= a
          BY <1>1 DEF Numbered
        <5>5. redeem'[q] = redeem[q]
          BY <4>4, <2>1
        <5>6. redeem[q].stage \in Open => c <= b
          BY <5>2, <5>3, <4>1
        <5>7. redeem[q].stage \in {"stamped", "ok"} => c + 1 <= b
          BY <5>2, <5>4, <4>1
        <5> QED
          BY <5>5, <5>6, <5>7, <4>2
      <4>5. CASE q # r /\ redeem[q].stage \notin Open \cup {"stamped", "ok"}
        BY <4>5, <4>1, <4>2, <2>1
      <4> QED
        BY <4>3, <4>4, <4>5
    <3> QED
      BY <3>1, <1>3 DEF Numbered
  <2>15. CopiesApart'
    BY <1>1, <1>3, <2>8 DEF CopiesApart
  <2> QED
    BY <2>9, <2>10, <2>11, <2>12, <2>13, <2>14, <2>15 DEF GrantInv
<1> QED
  BY <1>5, <1>6 DEF RecordRedemption

LEMMA AuditPreserves ==
  ASSUME GrantInv, NEW r \in Redemptions, AuditRedemption(r) PROVE GrantInv'
<1>1. /\ GrantShape /\ GrantsBounded /\ Presented /\ RevocationStops /\ CountExact
      /\ Numbered /\ CopiesApart
  BY DEF GrantInv
<1>2. /\ redeem[r].stage = "stamped" /\ Goes(r, "ok")
      /\ audited' = [audited EXCEPT ![r] = redeem[r].copy.count + 1]
      /\ UNCHANGED <<now, deadline, minting, expiry, ended, before, grantRow, crossed>>
  BY DEF AuditRedemption, run
<1>3. /\ redeem' \in [Redemptions -> RequestRecord]
      /\ redeem'[r].stage = "ok" /\ redeem'[r].node = redeem[r].node
      /\ redeem'[r].at = redeem[r].at /\ redeem'[r].copy = redeem[r].copy
      /\ \A q \in Redemptions \ {r} : redeem'[q] = redeem[q]
  BY <1>1, <1>2, Going DEF Stages, Past
<1>4. redeem[r].copy.count \in Nat
  BY <1>1 DEF GrantShape, RequestRecord, GrantRecord
<1>5. /\ audited' \in [Redemptions -> Nat] /\ audited'[r] = redeem[r].copy.count + 1
      /\ \A q \in Redemptions \ {r} : audited'[q] = audited[q]
  BY <1>1, <1>2, <1>4 DEF GrantShape
<1>6. \A q \in Redemptions :
        /\ redeem'[q].node = redeem[q].node /\ redeem'[q].at = redeem[q].at
        /\ redeem'[q].copy = redeem[q].copy
        /\ redeem'[q].stage \in Past => redeem[q].stage \in Past
        /\ redeem'[q].stage \in Open => redeem[q].stage \in Open
        /\ redeem'[q].stage \in {"stamped", "ok"} <=> redeem[q].stage \in {"stamped", "ok"}
        /\ redeem'[q].stage = "idle" <=> redeem[q].stage = "idle"
  BY <1>2, <1>3 DEF Past, Open
<1>7. GrantShape' /\ GrantsBounded'
  BY <1>1, <1>2, <1>3, <1>5 DEF GrantShape, GrantsBounded
<1>8. Presented'
  BY <1>1, <1>2, <1>6 DEF Presented
<1>9. RevocationStops' /\ CopiesApart'
  BY <1>1, <1>2, <1>6 DEF RevocationStops, CopiesApart
<1>10. CountExact'
  <2>1. \A n \in Sidecars : Stamped(n)' = Stamped(n)
    BY <1>6 DEF Stamped
  <2> QED
    BY <2>1, <1>1, <1>2, CountStays
<1>11. Numbered'
  <2>1. /\ redeem[r].copy.count + 1 <= grantRow[redeem[r].node].count
        /\ redeem'[r].stage \notin Open
    BY <1>1, <1>2, <1>3 DEF Numbered, Open
  <2> QED
    BY <2>1, <1>1, <1>2, <1>3, <1>5 DEF Numbered
<1> QED
  BY <1>7, <1>8, <1>9, <1>10, <1>11 DEF GrantInv

\* Each step of a run's grants keeps them.
LEMMA GrantStep == GrantInv /\ [GrantNext]_grantVars => GrantInv'
<1> SUFFICES ASSUME GrantInv, [GrantNext]_grantVars PROVE GrantInv'
  OBVIOUS
<1>1. ASSUME NEW n \in Sidecars, Issue(n) \/ CreateGrant(n) PROVE GrantInv'
  BY <1>1, IssuePreserves, CreatePreserves
<1>2. CASE EndRun
  BY <1>2, EndRunPreserves
<1>3. ASSUME NEW r \in Redemptions, NEW n \in Sidecars, StartRedeem(r, n) PROVE GrantInv'
  BY <1>3, StartPreserves
<1>4. ASSUME NEW r \in Redemptions, LookUp(r) \/ RecordRedemption(r) \/ AuditRedemption(r)
      PROVE  GrantInv'
  BY <1>4, LookUpPreserves, RecordPreserves, AuditPreserves
<1>5. ASSUME NEW r \in Redemptions, ResolveConnection(r) PROVE GrantInv'
  BY <1>5, RequestMoves DEF ResolveConnection, Open
<1>6. ASSUME NEW r \in Redemptions, Materialize(r) PROVE GrantInv'
  BY <1>6, RequestMoves DEF Materialize, Open
<1>7. CASE TimePasses \/ UNCHANGED grantVars
  <2>1. UNCHANGED <<deadline, minting, expiry, ended, before, grantRow, redeem, audited, crossed>>
    BY <1>7 DEF TimePasses, run, grantVars
  <2>2. now \in Nat
    BY DEF GrantInv, GrantShape
  <2>3. now' = now \/ now' = now + 1
    BY <1>7 DEF TimePasses, grantVars
  <2>4. now' \in Nat
    BY <2>2, <2>3
  <2>5. GrantShape' /\ GrantsBounded' /\ Presented' /\ RevocationStops'
    BY <2>1, <2>4 DEF GrantInv, GrantShape, GrantsBounded, Presented, RevocationStops
  <2>6. CountExact' /\ Numbered' /\ CopiesApart'
    BY <2>1 DEF GrantInv, CountExact, Numbered, CopiesApart
  <2> QED
    BY <2>5, <2>6 DEF GrantInv
<1> QED
  BY <1>1, <1>2, <1>3, <1>4, <1>5, <1>6, <1>7 DEF GrantNext

LEMMA GrantInvIsSafe ==
  GrantInv => GrantTypeOK /\ RevocationStops /\ CountExact /\ AuditExplained
<1> SUFFICES ASSUME GrantInv
             PROVE  GrantTypeOK /\ RevocationStops /\ CountExact /\ AuditExplained
  OBVIOUS
<1>1. /\ GrantShape /\ GrantsBounded /\ Presented /\ RevocationStops /\ CountExact
      /\ Numbered /\ CopiesApart
  BY DEF GrantInv
<1>2. ASSUME NEW r \in Redemptions, audited[r] > 0
      PROVE  /\ redeem[r].stage = "ok" /\ redeem[r].node \in Sidecars
             /\ audited[r] = redeem[r].copy.count + 1 /\ redeem[r].copy.count \in Nat
             /\ audited[r] <= grantRow[redeem[r].node].count
  <2>1. redeem[r].stage = "ok"
    BY <1>1, <1>2 DEF Numbered
  <2>2. redeem[r].copy.count \in Nat
    BY <1>1 DEF GrantShape, RequestRecord, GrantRecord
  <2> QED
    BY <2>1, <2>2, <1>1 DEF Numbered, Presented
<1>3. AuditExplained
  <2>1. ASSUME NEW r \in Redemptions, audited[r] > 0, NEW q \in Redemptions \ {r},
               redeem[q].node = redeem[r].node, audited[q] = audited[r]
        PROVE  {r, q} \in crossed
    <3>1. redeem[q].stage = "ok" /\ redeem[r].stage = "ok"
      BY <2>1, <1>2
    <3>2. redeem[q].copy.count = redeem[r].copy.count
      BY <2>1, <1>2
    <3> QED
      BY <3>1, <3>2, <2>1, <1>1 DEF CopiesApart, Past
  <2> QED
    BY <2>1, <1>2 DEF AuditExplained
<1>4. audited \in [Redemptions -> 0 .. Cardinality(Redemptions)]
  <2>1. ASSUME NEW r \in Redemptions PROVE audited[r] \in 0 .. Cardinality(Redemptions)
    <3>1. audited[r] \in Nat /\ Cardinality(Redemptions) \in Nat
      BY <1>1, GrantConstants, FS_CardinalityType DEF GrantShape
    <3>2. CASE audited[r] > 0
      <4> PICK n : n = redeem[r].node
        OBVIOUS
      <4>1. n \in Sidecars /\ audited[r] <= grantRow[n].count
        BY <3>2, <1>2
      <4>2. grantRow[n].count = Cardinality(Stamped(n))
        BY <4>1, <1>1 DEF CountExact, Stamped
      <4>3. Cardinality(Stamped(n)) \in Nat /\ Cardinality(Stamped(n)) <= Cardinality(Redemptions)
        BY StampedFinite
      <4> QED
        BY <4>1, <4>2, <4>3, <3>1
    <3>3. CASE audited[r] = 0
      BY <3>1, <3>3
    <3> QED
      BY <3>1, <3>2, <3>3
  <2> QED
    BY <2>1, <1>1 DEF GrantShape
<1>5. GrantTypeOK
  BY <1>1, <1>4 DEF GrantTypeOK, GrantShape, RequestRecord
<1> QED
  BY <1>1, <1>3, <1>5

\* Refresh grants (refreshGrants.ts and the redeem route) end with their run and
\* its deadline but for requests on their way, every redemption is counted once,
\* and equal audit numbers are explained by requests that crossed, for every
\* number of nodes and requests, behind limiters that keep their word.
THEOREM RefreshIsSafe == LimiterSpec /\ GrantSpec => []RefreshSafe
<1>1. GrantSpec => []GrantInv
  BY GrantsStart, GrantStep, PTL DEF GrantSpec
<1> QED
  BY <1>1, LimiterIsSafe, GrantInvIsSafe, PTL DEF RefreshSafe

-----------------------------------------------------------------------------
(* Paged pulls.                                                            *)

Distinct(s) == \A i, j \in 1 .. Len(s) : s[i] = s[j] => i = j

\* Rows before the offset that were there all the time and have not been read,
\* and rows after it that have been.
Missed(l, q, k) == {x \in k \ ToSet(q) : \E i \in 1 .. Len(l) : i <= Len(q) /\ l[i] = x}
Again(l, q) == {x \in ToSet(q) : \E i \in 1 .. Len(l) : i > Len(q) /\ l[i] = x}

PullShape ==
    /\ puller \in Pullers
    /\ fresh \in Nat \ {0}
    /\ list \in Seq(1 .. fresh - 1)
    /\ snapshot \in Seq(1 .. fresh - 1)
    /\ pulled \in Seq(1 .. fresh - 1)
    /\ pages \in Nat
    /\ verdict \in {"none", "whole", "partial", "failed"}
    /\ edits \in Nat
    /\ slides \in Nat /\ shoves \in Nat
    /\ Distinct(list) /\ Distinct(snapshot)
    /\ kept \subseteq ToSet(list)

\* Requests are bounded by what they read or by the page cap.
Paced ==
    /\ pages <= PageCap + MaxRules + Window
    /\ verdict = "none" =>
         /\ puller = "indexer" => pages <= Len(pulled) /\ Len(pulled) < Window
         /\ puller = "rules" => pages <= Len(pulled)
    /\ puller = "k8s" /\ pages = 0 => pulled = <<>>

\* Every row before the offset has been read but for one per deletion, and what
\* has been read twice or will be is one per creation.
ReadOnce ==
    puller # "k8s" /\ verdict = "none" =>
        /\ Cardinality(Missed(list, pulled, kept)) <= slides
        /\ Len(pulled) + Cardinality(Again(list, pulled)) <= Cardinality(ToSet(pulled)) + shoves

PullInv ==
    /\ PullShape /\ Paced /\ ReadOnce
    /\ OneSnapshot /\ WholeCovers /\ RepeatsExplained /\ TruncatedIsReal

\* A nonempty set of naturals has a least element: what stands in for induction,
\* which is carried out by way of a least counterexample.
LEMMA LeastNat == ASSUME NEW T, T \subseteq Nat, T # {} PROVE \E x \in T : \A y \in T : x <= y
<1>1. PICK R : R = {ss \in Nat \X Nat : ss[1] < ss[2]}
  OBVIOUS
<1>2. OpToRel(<, Nat) = {ss \in Nat \X Nat : ss[1] < ss[2]}
  BY Zenon DEF OpToRel
<1>3. IsWellFoundedOn(R, Nat)
  BY NatLessThanWellFounded, <1>1, <1>2, Zenon
<1>4. PICK x \in T : \A y \in T : ~ (<<y, x>> \in R)
  BY <1>3, WFMin
<1>5. ASSUME NEW y \in T PROVE x <= y
  <2>1. x \in Nat /\ y \in Nat /\ <<y, x>> \in Nat \X Nat
    OBVIOUS
  <2>2. ~ (<<y, x>>[1] < <<y, x>>[2])
    BY <2>1, <1>4, <1>1
  <2> QED
    BY <2>1, <2>2
<1> QED
  BY <1>5

\* What a sequence holds.
LEMMA SeqSet ==
  ASSUME NEW S, NEW s \in Seq(S)
  PROVE  /\ IsFiniteSet(ToSet(s)) /\ Cardinality(ToSet(s)) \in Nat
         /\ Len(s) \in Nat /\ Cardinality(ToSet(s)) <= Len(s)
         /\ Distinct(s) => Cardinality(ToSet(s)) = Len(s)
         /\ \A x : x \in ToSet(s) <=> \E i \in 1 .. Len(s) : s[i] = x
         /\ ToSet(s) \subseteq S
<1> PICK n \in Nat : n = Len(s)
  OBVIOUS
<1>1. s \in [1 .. n -> S] /\ DOMAIN s = 1 .. n
  OBVIOUS
<1>2. ToSet(s) = {s[i] : i \in 1 .. n}
  BY <1>1 DEF ToSet
<1>3. s \in Surjection(1 .. n, ToSet(s))
  BY <1>1, <1>2 DEF Surjection
<1>4. IsFiniteSet(1 .. n) /\ Cardinality(1 .. n) = n
  <2> PICK a \in Int, b \in Int : a = 1 /\ b = n
    OBVIOUS
  <2>1. Cardinality(a .. b) = (IF a > b THEN 0 ELSE b - a + 1) /\ IsFiniteSet(a .. b)
    BY FS_Interval
  <2> QED
    BY <2>1
<1>5. /\ IsFiniteSet(ToSet(s)) /\ Cardinality(ToSet(s)) <= n
      /\ (Cardinality(ToSet(s)) = n <=> s \in Injection(1 .. n, ToSet(s)))
  BY <1>3, <1>4, FS_Surjection
<1>6. Distinct(s) => s \in Injection(1 .. n, ToSet(s))
  BY <1>1, <1>2 DEF Distinct, Injection, IsInjective
<1>7. Cardinality(ToSet(s)) \in Nat
  BY <1>5, FS_CardinalityType
<1> QED
  BY <1>1, <1>2, <1>5, <1>6, <1>7

\* A page is what lies behind the offset, and short only at the end of the list.
LEMMA PageIs ==
  ASSUME NEW S, NEW l \in Seq(S), NEW off \in Nat, NEW size \in Nat,
         NEW p, p = PageOf(l, off, size)
  PROVE  /\ p \in Seq(S) /\ Len(p) \in Nat /\ Len(p) <= size
         /\ Len(p) > 0 => off + Len(p) <= Len(l)
         /\ Len(p) < size => Len(l) <= off + Len(p)
         /\ \A j \in 1 .. Len(p) : off + j \in 1 .. Len(l) /\ p[j] = l[off + j]
<1> PICK n \in Nat : n = Len(l)
  OBVIOUS
<1>0. Least(off + size, n) \in Nat
  BY DEF Least
<1> PICK e \in Nat : e = Least(off + size, n)
  BY <1>0
<1>1. e <= n /\ e <= off + size /\ (e < off + size => e = n)
  BY DEF Least
<1>2. p = SubSeq(l, off + 1, e)
  BY DEF PageOf
<1>3. \A i \in off + 1 .. e : l[i] \in S
  <2> TAKE i \in off + 1 .. e
  <2>1. i \in 1 .. n
    BY <1>1
  <2> QED
    BY <2>1, ElementOfSeq
<1> PICK m \in Nat : m = off + 1
  OBVIOUS
<1>4. /\ SubSeq(l, m, e) \in Seq(S)
      /\ Len(SubSeq(l, m, e)) = IF m <= e THEN e - m + 1 ELSE 0
      /\ \A i \in 1 .. e - m + 1 : SubSeq(l, m, e)[i] = l[m + i - 1]
  BY <1>3, SubSeqProperties
<1>5. p \in Seq(S) /\ Len(p) = IF off < e THEN e - off ELSE 0
  <2>1. (m <= e <=> off < e) /\ e - m + 1 = e - off
    OBVIOUS
  <2> QED
    BY <2>1, <1>2, <1>4
<1>6. \A j \in 1 .. Len(p) : off + j \in 1 .. n /\ p[j] = l[off + j]
  <2> TAKE j \in 1 .. Len(p)
  <2>1. j \in 1 .. e - off /\ off < e
    BY <1>5
  <2>2. j \in 1 .. e - m + 1 /\ m + j - 1 = off + j /\ off + j \in 1 .. n
    BY <2>1, <1>1
  <2>3. p[j] = l[m + j - 1]
    BY <2>2, <1>2, <1>4
  <2> QED
    BY <2>2, <2>3
<1>7. /\ Len(p) \in Nat /\ Len(p) <= size
      /\ Len(p) > 0 => off + Len(p) <= n
      /\ Len(p) < size => n <= off + Len(p)
  BY <1>1, <1>5
<1> QED
  BY <1>5, <1>6, <1>7

\* What two sequences hold together.
LEMMA ConcatSet ==
  ASSUME NEW S, NEW q \in Seq(S), NEW p \in Seq(S)
  PROVE  /\ q \o p \in Seq(S) /\ ToSet(q \o p) = ToSet(q) \cup ToSet(p)
         /\ Len(q \o p) = Len(q) + Len(p)
<1>1. \A s : ToSet(s) = Range(s)
  BY DEF ToSet, Range
<1>2. Range(q \o p) = Range(q) \cup Range(p)
  BY RangeConcatenation
<1>3. q \o p \in Seq(S) /\ Len(q \o p) = Len(q) + Len(p)
  BY ConcatProperties
<1> QED
  BY <1>1, <1>2, <1>3

\* The rows p of list l are those that follow what was read as q.
Follows(p, l, q) ==
    \A j \in 1 .. Len(p) : Len(q) + j \in 1 .. Len(l) /\ p[j] = l[Len(q) + j]

\* What reading the rows p of list l after q, which makes r, changes.
PageEffect(l, q, p, r) ==
    /\ Distinct(p)
    /\ \A k : Missed(l, r, k) \subseteq Missed(l, q, k)
    /\ Again(l, q) = Again(l, r) \cup (ToSet(q) \cap ToSet(p))
    /\ Again(l, r) \cap (ToSet(q) \cap ToSet(p)) = {}

\* The rows of a page, of which those are read again that were read before.
LEMMA PageSets ==
  ASSUME NEW S, NEW l \in Seq(S), Distinct(l), NEW q \in Seq(S), NEW p \in Seq(S),
         NEW r \in Seq(S), ToSet(r) = ToSet(q) \cup ToSet(p), Len(r) = Len(q) + Len(p),
         Follows(p, l, q)
  PROVE  PageEffect(l, q, p, r)
<1> PICK n \in Nat : n = Len(l)
  OBVIOUS
<1> PICK off \in Nat : off = Len(q)
  OBVIOUS
<1> PICK m \in Nat : m = Len(p)
  OBVIOUS
<1>0. \A j \in 1 .. m : off + j \in 1 .. n /\ p[j] = l[off + j]
  BY DEF Follows
<1>1. \A x : x \in ToSet(p) <=> \E i \in 1 .. m : p[i] = x
  <2>1. \A x : x \in ToSet(p) <=> \E i \in 1 .. Len(p) : p[i] = x
    BY SeqSet
  <2> QED
    BY <2>1
<1>2. Distinct(p)
  <2> SUFFICES ASSUME NEW i \in 1 .. m, NEW j \in 1 .. m, p[i] = p[j] PROVE i = j
    BY DEF Distinct
  <2>1. off + i = off + j
    <3>1. /\ off + i \in 1 .. n /\ p[i] = l[off + i]
          /\ off + j \in 1 .. n /\ p[j] = l[off + j]
      BY <1>0
    <3> QED
      BY <3>1 DEF Distinct
  <2> QED
    BY <2>1
<1>3. \A x : x \in ToSet(p) <=> \E i \in 1 .. n : off < i /\ i <= off + m /\ l[i] = x
  <2>1. ASSUME NEW x, NEW i \in 1 .. n, off < i, i <= off + m, l[i] = x PROVE x \in ToSet(p)
    <3>1. i - off \in 1 .. m /\ off + (i - off) = i
      BY <2>1
    <3> PICK j \in 1 .. m : j = i - off
      BY <3>1
    <3>2. p[j] = x
      BY <3>1, <2>1, <1>0
    <3> QED
      BY <3>2, <1>1
  <2>2. ASSUME NEW x \in ToSet(p)
        PROVE  \E i \in 1 .. n : off < i /\ i <= off + m /\ l[i] = x
    <3> PICK j \in 1 .. m : p[j] = x
      BY <1>1
    <3>1. off + j \in 1 .. n /\ l[off + j] = x
      BY <1>0
    <3>2. off < off + j /\ off + j <= off + m
      OBVIOUS
    <3> QED
      BY <3>1, <3>2
  <2> QED
    BY <2>1, <2>2
<1>4. ASSUME NEW k, NEW x \in Missed(l, r, k) PROVE x \in Missed(l, q, k)
  <2>1. x \in k /\ x \notin ToSet(q) /\ x \notin ToSet(p)
    BY DEF Missed
  <2>2. PICK i \in 1 .. n : i <= off + m /\ l[i] = x
    BY DEF Missed
  <2>3. i <= off
    <3>1. ~ (off < i)
      BY <2>1, <2>2, <1>3
    <3> QED
      BY <3>1
  <2> QED
    BY <2>1, <2>2, <2>3 DEF Missed
<1>5. \A x : x \in Again(l, q) <=> x \in ToSet(q) /\ \E i \in 1 .. n : i > off /\ l[i] = x
  BY DEF Again
<1>6. \A x : x \in Again(l, r) <=>
            x \in ToSet(q) \cup ToSet(p) /\ \E i \in 1 .. n : i > off + m /\ l[i] = x
  BY DEF Again
<1>7. ASSUME NEW x \in ToSet(p), NEW i \in 1 .. n, l[i] = x PROVE i > off /\ i <= off + m
  BY <1>7, <1>3 DEF Distinct
<1>8. ASSUME NEW x \in Again(l, r) PROVE x \in Again(l, q) /\ x \notin ToSet(p)
  <2>1. PICK i \in 1 .. n : i > off + m /\ l[i] = x
    BY <1>6
  <2>2. x \notin ToSet(p)
    BY <2>1, <1>7
  <2>3. i > off
    BY <2>1
  <2> QED
    BY <2>1, <2>2, <2>3, <1>5, <1>6
<1>9. ASSUME NEW x \in ToSet(q) \cap ToSet(p) PROVE x \in Again(l, q)
  <2>1. PICK i \in 1 .. n : off < i /\ l[i] = x
    BY <1>3
  <2>2. i > off
    BY <2>1
  <2> QED
    BY <2>1, <2>2, <1>5
<1>10. ASSUME NEW x \in Again(l, q), x \notin ToSet(p) PROVE x \in Again(l, r)
  <2>1. PICK i \in 1 .. n : i > off /\ l[i] = x
    BY <1>5
  <2>2. ~ (i <= off + m)
    BY <2>1, <1>10, <1>3
  <2>3. i > off + m
    BY <2>2
  <2> QED
    BY <2>1, <2>3, <1>5, <1>6
<1> QED
  BY <1>2, <1>4, <1>5, <1>8, <1>9, <1>10 DEF PageEffect

\* Reading the page behind the offset.
LEMMA PageRead ==
  ASSUME NEW S, NEW l \in Seq(S), Distinct(l), NEW q \in Seq(S), NEW k, k \subseteq ToSet(l),
         NEW p \in Seq(S), Follows(p, l, q), NEW r \in Seq(S),
         ToSet(r) = ToSet(q) \cup ToSet(p), Len(r) = Len(q) + Len(p),
         NEW sl \in Nat, NEW sh \in Nat, Cardinality(Missed(l, q, k)) <= sl,
         Len(q) + Cardinality(Again(l, q)) <= Cardinality(ToSet(q)) + sh
  PROVE  /\ Cardinality(Missed(l, r, k)) <= sl
         /\ Len(r) + Cardinality(Again(l, r)) <= Cardinality(ToSet(r)) + sh
         /\ Len(l) <= Len(r) => Cardinality(k \ ToSet(r)) <= sl
         /\ Len(r) < Len(l) => ~ (ToSet(l) \subseteq ToSet(r))
<1>0. Len(q) \in Nat
  OBVIOUS
<1>1. Len(p) \in Nat
  OBVIOUS
<1>2. Len(r) = Len(q) + Len(p) /\ ToSet(r) = ToSet(q) \cup ToSet(p)
  OBVIOUS
<1> PICK both : both = ToSet(q) \cap ToSet(p)
  OBVIOUS
<1>3. /\ Distinct(p) /\ Missed(l, r, k) \subseteq Missed(l, q, k)
      /\ Again(l, q) = Again(l, r) \cup both /\ Again(l, r) \cap both = {}
  <2>1. PageEffect(l, q, p, r)
    BY PageSets
  <2> QED
    BY <2>1 DEF PageEffect
<1>4. /\ IsFiniteSet(ToSet(l)) /\ Cardinality(ToSet(l)) = Len(l) /\ Len(l) \in Nat
      /\ \A x \in ToSet(l) : \E i \in 1 .. Len(l) : l[i] = x
  BY SeqSet
<1>5. IsFiniteSet(ToSet(q)) /\ Cardinality(ToSet(q)) \in Nat
  BY SeqSet
<1>6. IsFiniteSet(ToSet(p)) /\ Cardinality(ToSet(p)) = Len(p)
  BY <1>1, <1>3, SeqSet
<1>7. /\ IsFiniteSet(ToSet(r)) /\ Cardinality(ToSet(r)) \in Nat /\ Len(r) \in Nat
      /\ Cardinality(ToSet(r)) <= Len(r)
  BY <1>2, SeqSet
<1>8. Cardinality(Missed(l, r, k)) <= sl
  <2>1. Missed(l, q, k) \subseteq ToSet(l)
    BY DEF Missed
  <2>2. IsFiniteSet(Missed(l, q, k))
    BY <2>1, <1>4, FS_Subset
  <2>3. /\ Cardinality(Missed(l, r, k)) <= Cardinality(Missed(l, q, k))
        /\ Cardinality(Missed(l, r, k)) \in Nat /\ Cardinality(Missed(l, q, k)) \in Nat
    BY <2>2, <1>3, FS_Subset, FS_CardinalityType
  <2> QED
    BY <2>3
<1>9. Len(r) + Cardinality(Again(l, r)) <= Cardinality(ToSet(r)) + sh
  <2>1. IsFiniteSet(both) /\ IsFiniteSet(Again(l, r)) /\ IsFiniteSet(Again(l, q))
    <3>1. both \subseteq ToSet(q) /\ Again(l, q) \subseteq ToSet(q) /\ Again(l, r) \subseteq ToSet(r)
      BY DEF Again
    <3> QED
      BY <3>1, <1>5, <1>7, FS_Subset
  <2>2. Cardinality(Again(l, q)) =
          Cardinality(Again(l, r)) + Cardinality(both) - Cardinality(Again(l, r) \cap both)
    BY <2>1, <1>3, FS_Union
  <2>3. Cardinality(Again(l, r) \cap both) = 0
    BY <1>3, FS_EmptySet
  <2>4. Cardinality(ToSet(r)) = Cardinality(ToSet(q)) + Cardinality(ToSet(p)) - Cardinality(both)
    BY <1>2, <1>5, <1>6, FS_Union
  <2>5. Cardinality(both) \in Nat /\ Cardinality(Again(l, r)) \in Nat
    BY <2>1, FS_CardinalityType
  <2> QED
    BY <2>2, <2>3, <2>4, <2>5, <1>0, <1>1, <1>2, <1>5, <1>6, SMTT(30)
<1>10. Len(l) <= Len(r) => Cardinality(k \ ToSet(r)) <= sl
  <2> SUFFICES ASSUME Len(l) <= Len(r) PROVE Cardinality(k \ ToSet(r)) <= sl
    OBVIOUS
  <2>1. ASSUME NEW x \in k PROVE \E i \in 1 .. Len(l) : i <= Len(r) /\ l[i] = x
    <3>1. PICK i \in 1 .. Len(l) : l[i] = x
      BY <1>4
    <3>2. i <= Len(r)
      BY <1>4, <1>7
    <3> QED
      BY <3>1, <3>2
  <2>2. k \ ToSet(r) = Missed(l, r, k)
    BY <2>1 DEF Missed
  <2> QED
    BY <2>2, <1>8
<1>11. Len(r) < Len(l) => ~ (ToSet(l) \subseteq ToSet(r))
  <2> SUFFICES ASSUME Len(r) < Len(l), ToSet(l) \subseteq ToSet(r) PROVE FALSE
    OBVIOUS
  <2>1. Cardinality(ToSet(l)) <= Cardinality(ToSet(r))
    BY <1>7, FS_Subset
  <2> QED
    BY <2>1, <1>4, <1>7
<1> QED
  BY <1>2, <1>8, <1>9, <1>10, <1>11

\* A piece of a sequence.
LEMMA Piece ==
  ASSUME NEW S, NEW l \in Seq(S), NEW b \in Int, NEW e \in Int, 1 <= b, b <= e + 1, e <= Len(l)
  PROVE  /\ SubSeq(l, b, e) \in Seq(S) /\ Len(SubSeq(l, b, e)) = e - b + 1
         /\ \A c \in 1 .. e - b + 1 : SubSeq(l, b, e)[c] = l[b + c - 1]
<1>1. \A c \in b .. e : l[c] \in S
  <2> TAKE c \in b .. e
  <2>1. c \in 1 .. Len(l)
    OBVIOUS
  <2> QED
    BY <2>1, ElementOfSeq
<1>2. /\ SubSeq(l, b, e) \in Seq(S)
      /\ Len(SubSeq(l, b, e)) = IF b <= e THEN e - b + 1 ELSE 0
      /\ \A c \in 1 .. e - b + 1 : SubSeq(l, b, e)[c] = l[b + c - 1]
  BY <1>1, SubSeqProperties
<1>3. b <= e \/ e - b + 1 = 0
  OBVIOUS
<1> QED
  BY <1>2, <1>3

\* A list with one row more, and with one row less.
Inserted(m, l, i, f) ==
    /\ Len(m) = Len(l) + 1
    /\ \A j \in 1 .. Len(l) + 1 : m[j] = IF j < i THEN l[j] ELSE IF j = i THEN f ELSE l[j - 1]

Removed(m, l, i) ==
    /\ Len(m) = Len(l) - 1
    /\ \A j \in 1 .. Len(l) - 1 : m[j] = IF j < i THEN l[j] ELSE l[j + 1]

LEMMA OneMore ==
  ASSUME NEW S, NEW l \in Seq(S), NEW f \in S, NEW i \in 1 .. Len(l) + 1
  PROVE  InsertAt(l, i, f) \in Seq(S) /\ Inserted(InsertAt(l, i, f), l, i, f)
<1> PICK n \in Nat : n = Len(l)
  OBVIOUS
<1> PICK h \in Nat : h + 1 = i
  <2>1. i - 1 \in Nat /\ (i - 1) + 1 = i
    OBVIOUS
  <2> QED
    BY <2>1
<1>1. n - h \in Nat /\ h <= n
  OBVIOUS
<1> PICK t \in Nat : t = n - h
  BY <1>1
<1> PICK k \in Nat : k = i
  OBVIOUS
<1>2. h + t = n /\ k + t = n + 1 /\ k = h + 1
  BY <1>1
<1>a. PICK a : a = SubSeq(l, 1, h)
  OBVIOUS
<1>b. PICK b : b = SubSeq(l, i, n)
  OBVIOUS
<1>c. PICK c : c = <<f>>
  OBVIOUS
<1>3. a \in Seq(S) /\ Len(a) = h /\ \A j \in 1 .. h : a[j] = l[j]
  <2>1. /\ SubSeq(l, 1, h) \in Seq(S) /\ Len(SubSeq(l, 1, h)) = h - 1 + 1
        /\ \A j \in 1 .. h - 1 + 1 : SubSeq(l, 1, h)[j] = l[1 + j - 1]
    BY <1>1, Piece
  <2>2. h - 1 + 1 = h /\ \A j \in 1 .. h : 1 + j - 1 = j
    OBVIOUS
  <2> QED
    BY <2>1, <2>2, <1>a
<1>4. b \in Seq(S) /\ Len(b) = t /\ \A j \in 1 .. t : b[j] = l[h + j]
  <2>1. /\ SubSeq(l, i, n) \in Seq(S) /\ Len(SubSeq(l, i, n)) = n - i + 1
        /\ \A j \in 1 .. n - i + 1 : SubSeq(l, i, n)[j] = l[i + j - 1]
    BY Piece
  <2>2. n - i + 1 = t /\ \A j \in 1 .. t : i + j - 1 = h + j
    BY <1>2
  <2> QED
    BY <2>1, <2>2, <1>b
<1>5. c \in Seq(S) /\ Len(c) = 1 /\ c[1] = f
  BY <1>c
<1>d. PICK d : d = a \o c
  OBVIOUS
<1>6. /\ d \in Seq(S) /\ Len(d) = i
      /\ \A j \in 1 .. i : d[j] = IF j <= h THEN l[j] ELSE f
  <2>a. a \in Seq(S) /\ c \in Seq(S)
    BY <1>3, <1>5
  <2>b. /\ a \o c \in Seq(S) /\ Len(a \o c) = Len(a) + Len(c)
        /\ \A j \in 1 .. Len(a) + Len(c) :
             (a \o c)[j] = IF j <= Len(a) THEN a[j] ELSE c[j - Len(a)]
    BY <2>a, ConcatProperties
  <2>c. Len(a) = h /\ Len(c) = 1
    BY <1>3, <1>5
  <2>1. /\ a \o c \in Seq(S) /\ Len(a \o c) = h + 1
        /\ \A j \in 1 .. h + 1 : (a \o c)[j] = IF j <= h THEN a[j] ELSE c[j - h]
    BY <2>b, <2>c
  <2>3. /\ d \in Seq(S) /\ Len(d) = h + 1
        /\ \A j \in 1 .. h + 1 : d[j] = IF j <= h THEN a[j] ELSE c[j - h]
    BY <2>1, <1>d
  <2>2. ASSUME NEW j \in 1 .. i PROVE d[j] = IF j <= h THEN l[j] ELSE f
    <3>1. CASE j <= h
      <4>1. j \in 1 .. h /\ j \in 1 .. h + 1
        BY <3>1
      <4> QED
        BY <4>1, <3>1, <2>3, <1>3
    <3>2. CASE ~ (j <= h)
      <4>1. j - h = 1 /\ j \in 1 .. h + 1
        BY <3>2
      <4> QED
        BY <4>1, <3>2, <2>3, <1>5
    <3> QED
      BY <3>1, <3>2
  <2> QED
    BY <2>3, <2>2
<1>m. PICK m : m = d \o b
  OBVIOUS
<1>7. m = InsertAt(l, i, f)
  <2>1. i - 1 = h
    OBVIOUS
  <2> QED
    BY <2>1, <1>a, <1>b, <1>c, <1>d, <1>m DEF InsertAt
<1>8. /\ m \in Seq(S) /\ Len(m) = k + t
      /\ \A j \in 1 .. k + t : m[j] = IF j <= k THEN d[j] ELSE b[j - k]
  <2>a. d \in Seq(S) /\ b \in Seq(S)
    BY <1>6, <1>4
  <2>b. /\ d \o b \in Seq(S) /\ Len(d \o b) = Len(d) + Len(b)
        /\ \A j \in 1 .. Len(d) + Len(b) :
             (d \o b)[j] = IF j <= Len(d) THEN d[j] ELSE b[j - Len(d)]
    BY <2>a, ConcatProperties
  <2>c. Len(d) = k /\ Len(b) = t
    BY <1>6, <1>4
  <2>1. /\ d \o b \in Seq(S) /\ Len(d \o b) = k + t
        /\ \A j \in 1 .. k + t : (d \o b)[j] = IF j <= k THEN d[j] ELSE b[j - k]
    BY <2>b, <2>c
  <2> QED
    BY <2>1, <1>m
<1>9. k + t = n + 1 /\ k = h + 1
  BY <1>2
<1>10. ASSUME NEW j \in 1 .. n + 1
       PROVE  m[j] = IF j < i THEN l[j] ELSE IF j = i THEN f ELSE l[j - 1]
  <2>1. CASE j <= h
    <3>1. j \in 1 .. k /\ j <= k /\ j \in 1 .. k + t /\ j < i
      BY <2>1, <1>9
    <3> QED
      BY <3>1, <2>1, <1>6, <1>8
  <2>2. CASE j = i
    <3>1. j \in 1 .. k /\ j <= k /\ j \in 1 .. k + t /\ ~ (j <= h)
      BY <2>2, <1>9
    <3> QED
      BY <3>1, <2>2, <1>6, <1>8
  <2>3. CASE j > i
    <3>1. j - k \in 1 .. t /\ h + (j - k) = j - 1
      BY <2>3, <1>9
    <3>2. ~ (j < i) /\ j # i /\ ~ (j <= k) /\ j \in 1 .. k + t
      BY <2>3, <1>9
    <3>3. b[j - k] = l[j - 1]
      BY <3>1, <1>4
    <3>4. m[j] = b[j - k]
      BY <3>2, <1>8
    <3> QED
      BY <3>2, <3>3, <3>4
  <2> QED
    BY <2>1, <2>2, <2>3
<1> QED
  BY <1>7, <1>8, <1>9, <1>10 DEF Inserted

LEMMA OneLess ==
  ASSUME NEW S, NEW l \in Seq(S), NEW i \in 1 .. Len(l)
  PROVE  RemoveAt(l, i) \in Seq(S) /\ Removed(RemoveAt(l, i), l, i)
<1> PICK n \in Nat : n = Len(l)
  OBVIOUS
<1> PICK h \in Nat : h + 1 = i
  <2>1. i - 1 \in Nat /\ (i - 1) + 1 = i
    OBVIOUS
  <2> QED
    BY <2>1
<1>1. n - i \in Nat /\ h <= n
  OBVIOUS
<1> PICK t \in Nat : t = n - i
  BY <1>1
<1>2. h + t = n - 1 /\ n - 1 \in Nat
  BY <1>1
<1>a. PICK a : a = SubSeq(l, 1, h)
  OBVIOUS
<1> PICK u \in Int : u = i + 1
  <2>1. i + 1 \in Int
    OBVIOUS
  <2> QED
    BY <2>1
<1>b. PICK b : b = SubSeq(l, u, n)
  OBVIOUS
<1>3. a \in Seq(S) /\ Len(a) = h /\ \A j \in 1 .. h : a[j] = l[j]
  <2>1. /\ SubSeq(l, 1, h) \in Seq(S) /\ Len(SubSeq(l, 1, h)) = h - 1 + 1
        /\ \A j \in 1 .. h - 1 + 1 : SubSeq(l, 1, h)[j] = l[1 + j - 1]
    BY <1>1, Piece
  <2>2. h - 1 + 1 = h /\ \A j \in 1 .. h : 1 + j - 1 = j
    OBVIOUS
  <2> QED
    BY <2>1, <2>2, <1>a
<1>4. b \in Seq(S) /\ Len(b) = t /\ \A j \in 1 .. t : b[j] = l[i + j]
  <2>0. 1 <= u /\ u <= n + 1
    OBVIOUS
  <2>1. /\ SubSeq(l, u, n) \in Seq(S) /\ Len(SubSeq(l, u, n)) = n - u + 1
        /\ \A j \in 1 .. n - u + 1 : SubSeq(l, u, n)[j] = l[u + j - 1]
    BY <2>0, Piece
  <2>2. n - u + 1 = t /\ \A j \in 1 .. t : u + j - 1 = i + j
    OBVIOUS
  <2> QED
    BY <2>1, <2>2, <1>b
<1>m. PICK m : m = a \o b
  OBVIOUS
<1>5. m = RemoveAt(l, i)
  <2>1. i - 1 = h
    OBVIOUS
  <2> QED
    BY <2>1, <1>a, <1>b, <1>m DEF RemoveAt
<1>6. /\ m \in Seq(S) /\ Len(m) = h + t
      /\ \A j \in 1 .. h + t : m[j] = IF j <= h THEN a[j] ELSE b[j - h]
  <2>a. a \in Seq(S) /\ b \in Seq(S)
    BY <1>3, <1>4
  <2>b. /\ a \o b \in Seq(S) /\ Len(a \o b) = Len(a) + Len(b)
        /\ \A j \in 1 .. Len(a) + Len(b) :
             (a \o b)[j] = IF j <= Len(a) THEN a[j] ELSE b[j - Len(a)]
    BY <2>a, ConcatProperties
  <2>c. Len(a) = h /\ Len(b) = t
    BY <1>3, <1>4
  <2>1. /\ a \o b \in Seq(S) /\ Len(a \o b) = h + t
        /\ \A j \in 1 .. h + t : (a \o b)[j] = IF j <= h THEN a[j] ELSE b[j - h]
    BY <2>b, <2>c
  <2> QED
    BY <2>1, <1>m
<1>7. ASSUME NEW j \in 1 .. n - 1 PROVE m[j] = IF j < i THEN l[j] ELSE l[j + 1]
  <2>0. j \in 1 .. h + t
    BY <1>2
  <2>1. CASE j < i
    <3>1. j \in 1 .. h /\ j <= h
      BY <2>1
    <3> QED
      BY <3>1, <2>0, <2>1, <1>3, <1>6
  <2>2. CASE ~ (j < i)
    <3>1. j - h \in 1 .. t /\ i + (j - h) = j + 1 /\ ~ (j <= h)
      BY <2>2, <1>2
    <3>2. b[j - h] = l[j + 1]
      BY <3>1, <1>4
    <3>3. m[j] = b[j - h]
      BY <3>1, <2>0, <1>6
    <3> QED
      BY <3>2, <3>3, <2>2
  <2> QED
    BY <2>1, <2>2
<1> QED
  BY <1>2, <1>5, <1>6, <1>7 DEF Removed

\* At most one more.
LEMMA OneMoreElement ==
  ASSUME NEW A, NEW B, NEW z, IsFiniteSet(A), B \subseteq A \cup {z}
  PROVE  IsFiniteSet(B) /\ Cardinality(B) <= Cardinality(A) + 1
<1> PICK more : more = A \cup {z}
  OBVIOUS
<1>1. IsFiniteSet(more) /\ Cardinality(A) \in Nat
  BY FS_AddElement, FS_CardinalityType
<1>2. Cardinality(more) <= Cardinality(A) + 1
  <2>1. Cardinality(more) = IF z \in A THEN Cardinality(A) ELSE Cardinality(A) + 1
    BY FS_AddElement
  <2>2. CASE z \in A
    BY <2>1, <2>2, <1>1
  <2>3. CASE z \notin A
    BY <2>1, <2>3, <1>1
  <2> QED
    BY <2>2, <2>3
<1>3. IsFiniteSet(B) /\ Cardinality(B) <= Cardinality(more)
  BY <1>1, FS_Subset
<1>4. Cardinality(B) \in Nat /\ Cardinality(more) \in Nat
  BY <1>1, <1>3, FS_CardinalityType
<1> QED
  BY <1>1, <1>2, <1>3, <1>4

\* A row is created: at most one that was read slides behind the offset again.
LEMMA RowInserted ==
  ASSUME NEW S, NEW l \in Seq(S), Distinct(l), NEW q \in Seq(S), NEW k, k \subseteq ToSet(l),
         NEW i \in 1 .. Len(l) + 1, NEW f, f \notin S,
         NEW T, T = S \cup {f}, NEW m \in Seq(T), Inserted(m, l, i, f)
  PROVE  /\ Distinct(m) /\ k \subseteq ToSet(m)
         /\ Cardinality(Missed(m, q, k)) <= Cardinality(Missed(l, q, k))
         /\ Cardinality(Again(m, q)) <=
              Cardinality(Again(l, q)) + (IF i <= Len(q) THEN 1 ELSE 0)
         /\ Cardinality(Missed(l, q, k)) \in Nat /\ Cardinality(Missed(m, q, k)) \in Nat
         /\ Cardinality(Again(l, q)) \in Nat /\ Cardinality(Again(m, q)) \in Nat
<1> PICK n \in Nat : n = Len(l)
  OBVIOUS
<1> PICK off \in Nat : off = Len(q)
  OBVIOUS
<1>1. l \in Seq(T) /\ f \in T
  BY SeqMonotonic
<1>2. /\ m \in Seq(T) /\ Len(m) = n + 1
      /\ \A j \in 1 .. n + 1 : m[j] = IF j < i THEN l[j] ELSE IF j = i THEN f ELSE l[j - 1]
  BY DEF Inserted
<1>3. ASSUME NEW j \in 1 .. n + 1
      PROVE  \/ j < i /\ j \in 1 .. n /\ m[j] = l[j]
             \/ j = i /\ m[j] = f
             \/ j > i /\ j - 1 \in 1 .. n /\ m[j] = l[j - 1]
  <2>1. CASE j < i
    BY <2>1, <1>2
  <2>2. CASE j = i
    BY <2>2, <1>2
  <2>3. CASE j > i
    <3>1. j - 1 \in 1 .. n /\ ~ (j < i) /\ j # i
      BY <2>3
    <3> QED
      BY <3>1, <2>3, <1>2
  <2> QED
    BY <2>1, <2>2, <2>3
<1>4. \A j \in 1 .. n : l[j] # f
  <2>1. \A j \in 1 .. n : l[j] \in S
    BY ElementOfSeq
  <2> QED
    BY <2>1
<1>5. Distinct(m)
  <2> SUFFICES ASSUME NEW a \in 1 .. n + 1, NEW b \in 1 .. n + 1, m[a] = m[b] PROVE a = b
    BY <1>2 DEF Distinct
  <2>1. CASE a = i \/ b = i
    BY <2>1, <1>3, <1>4
  <2>2. CASE a # i /\ b # i
    <3> PICK c \in 1 .. n : c = IF a < i THEN a ELSE a - 1
      BY <2>2, <1>3
    <3> PICK d \in 1 .. n : d = IF b < i THEN b ELSE b - 1
      BY <2>2, <1>3
    <3>1. m[a] = l[c] /\ m[b] = l[d]
      BY <2>2, <1>3
    <3>2. c = d
      BY <3>1 DEF Distinct
    <3> QED
      BY <3>2, <2>2
  <2> QED
    BY <2>1, <2>2
<1>6. \A x : x \in ToSet(m) <=> \E j \in 1 .. n + 1 : m[j] = x
  <2>1. \A x : x \in ToSet(m) <=> \E j \in 1 .. Len(m) : m[j] = x
    BY <1>2, SeqSet
  <2> QED
    BY <2>1, <1>2
<1>7. /\ IsFiniteSet(ToSet(l)) /\ ToSet(l) \subseteq S /\ IsFiniteSet(ToSet(q))
      /\ ToSet(q) \subseteq S /\ \A x \in ToSet(l) : \E j \in 1 .. n : l[j] = x
  BY SeqSet
<1>8. k \subseteq ToSet(m)
  <2> SUFFICES ASSUME NEW x \in k PROVE x \in ToSet(m)
    OBVIOUS
  <2> PICK j \in 1 .. n : l[j] = x
    BY <1>7
  <2>1. CASE j < i
    <3>1. j \in 1 .. n + 1
      OBVIOUS
    <3> QED
      BY <3>1, <2>1, <1>2, <1>6
  <2>2. CASE j >= i
    <3>1. j + 1 \in 1 .. n + 1 /\ ~ (j + 1 < i) /\ j + 1 # i /\ j + 1 - 1 = j
      BY <2>2
    <3>2. m[j + 1] = x
      BY <3>1, <1>2
    <3> QED
      BY <3>1, <3>2, <1>6
  <2> QED
    BY <2>1, <2>2
<1>9. Missed(m, q, k) \subseteq Missed(l, q, k)
  <2> SUFFICES ASSUME NEW x \in Missed(m, q, k) PROVE x \in Missed(l, q, k)
    OBVIOUS
  <2>1. x \in k /\ x \notin ToSet(q) /\ x # f
    BY <1>7 DEF Missed
  <2>2. PICK j \in 1 .. n + 1 : j <= off /\ m[j] = x
    BY <1>2 DEF Missed
  <2>3. \E a \in 1 .. n : a <= off /\ l[a] = x
    <3>1. CASE j < i
      BY <3>1, <2>2, <1>3
    <3>2. CASE j > i
      <4>1. j - 1 \in 1 .. n /\ l[j - 1] = x
        BY <3>2, <2>2, <1>3
      <4>2. j - 1 <= off
        BY <2>2
      <4> QED
        BY <4>1, <4>2
    <3> QED
      BY <3>1, <3>2, <2>1, <2>2, <1>3
  <2> QED
    BY <2>1, <2>3 DEF Missed
<1>10. ASSUME NEW x \in Again(m, q)
       PROVE  x \in Again(l, q) \/ (i <= off /\ x = l[off])
  <2>1. x \in ToSet(q) /\ x # f
    BY <1>7 DEF Again
  <2>2. PICK j \in 1 .. n + 1 : j > off /\ m[j] = x
    BY <1>2 DEF Again
  <2>3. CASE j < i
    BY <2>1, <2>2, <2>3, <1>3 DEF Again
  <2>4. CASE j > i
    <3>1. j - 1 \in 1 .. n /\ l[j - 1] = x
      BY <2>2, <2>4, <1>3
    <3>2. CASE j - 1 > off
      BY <3>1, <3>2, <2>1 DEF Again
    <3>3. CASE j - 1 = off
      BY <3>1, <3>3, <2>4
    <3> QED
      BY <3>2, <3>3, <2>2
  <2> QED
    BY <2>1, <2>2, <2>3, <2>4, <1>3
<1>11. /\ IsFiniteSet(Missed(l, q, k)) /\ IsFiniteSet(Missed(m, q, k))
       /\ IsFiniteSet(Again(l, q)) /\ IsFiniteSet(Again(m, q))
  <2>1. /\ Missed(l, q, k) \subseteq ToSet(l) /\ Missed(m, q, k) \subseteq ToSet(l)
        /\ Again(l, q) \subseteq ToSet(q) /\ Again(m, q) \subseteq ToSet(q)
    BY DEF Missed, Again
  <2> QED
    BY <2>1, <1>7, FS_Subset
<1>12. /\ Cardinality(Missed(l, q, k)) \in Nat /\ Cardinality(Missed(m, q, k)) \in Nat
       /\ Cardinality(Again(l, q)) \in Nat /\ Cardinality(Again(m, q)) \in Nat
  BY <1>11, FS_CardinalityType
<1>13. Cardinality(Missed(m, q, k)) <= Cardinality(Missed(l, q, k))
  BY <1>9, <1>11, FS_Subset
<1>14. Cardinality(Again(m, q)) <= Cardinality(Again(l, q)) + (IF i <= off THEN 1 ELSE 0)
  <2>1. CASE i <= off
    <3>1. Again(m, q) \subseteq Again(l, q) \cup {l[off]}
      BY <1>10
    <3> QED
      BY <3>1, <2>1, <1>11, OneMoreElement
  <2>2. CASE ~ (i <= off)
    <3>1. Again(m, q) \subseteq Again(l, q)
      BY <2>2, <1>10
    <3>2. Cardinality(Again(m, q)) <= Cardinality(Again(l, q))
      BY <3>1, <1>11, FS_Subset
    <3> QED
      BY <3>2, <2>2, <1>12
  <2> QED
    BY <2>1, <2>2
<1> QED
  BY <1>2, <1>5, <1>8, <1>12, <1>13, <1>14

\* A row is deleted: at most one that was not read slides before the offset.
LEMMA RowRemoved ==
  ASSUME NEW S, NEW l \in Seq(S), Distinct(l), NEW q \in Seq(S), NEW k, k \subseteq ToSet(l),
         NEW i \in 1 .. Len(l), NEW j, j = k \ {l[i]}, NEW m \in Seq(S), Removed(m, l, i)
  PROVE  /\ Distinct(m) /\ j \subseteq ToSet(m)
         /\ Cardinality(Missed(m, q, j)) <=
              Cardinality(Missed(l, q, k)) + (IF i <= Len(q) THEN 1 ELSE 0)
         /\ Cardinality(Again(m, q)) <= Cardinality(Again(l, q))
         /\ Cardinality(Missed(l, q, k)) \in Nat /\ Cardinality(Missed(m, q, j)) \in Nat
         /\ Cardinality(Again(l, q)) \in Nat /\ Cardinality(Again(m, q)) \in Nat
<1> PICK n \in Nat : n = Len(l)
  OBVIOUS
<1> PICK off \in Nat : off = Len(q)
  OBVIOUS
<1>1. /\ m \in Seq(S) /\ Len(m) = n - 1 /\ n - 1 \in Nat
      /\ \A a \in 1 .. n - 1 : m[a] = IF a < i THEN l[a] ELSE l[a + 1]
  BY DEF Removed
<1>2. ASSUME NEW a \in 1 .. n - 1
      PROVE  \/ a < i /\ a \in 1 .. n /\ m[a] = l[a]
             \/ a >= i /\ a + 1 \in 1 .. n /\ m[a] = l[a + 1]
  <2>1. a \in 1 .. n /\ a + 1 \in 1 .. n
    OBVIOUS
  <2> QED
    BY <2>1, <1>1
<1>3. Distinct(m)
  <2> SUFFICES ASSUME NEW a \in 1 .. n - 1, NEW b \in 1 .. n - 1, m[a] = m[b] PROVE a = b
    BY <1>1 DEF Distinct
  <2> PICK c \in 1 .. n : c = IF a < i THEN a ELSE a + 1
    BY <1>2
  <2> PICK d \in 1 .. n : d = IF b < i THEN b ELSE b + 1
    BY <1>2
  <2>1. m[a] = l[c] /\ m[b] = l[d]
    BY <1>2
  <2>2. c = d
    BY <2>1 DEF Distinct
  <2> QED
    BY <2>2
<1>4. \A x : x \in ToSet(m) <=> \E a \in 1 .. n - 1 : m[a] = x
  <2>1. \A x : x \in ToSet(m) <=> \E a \in 1 .. Len(m) : m[a] = x
    BY <1>1, SeqSet
  <2> QED
    BY <2>1, <1>1
<1>5. /\ IsFiniteSet(ToSet(l)) /\ IsFiniteSet(ToSet(q))
      /\ \A x \in ToSet(l) : \E a \in 1 .. n : l[a] = x
  BY SeqSet
<1>6. j \subseteq ToSet(m)
  <2> SUFFICES ASSUME NEW x \in j PROVE x \in ToSet(m)
    OBVIOUS
  <2> PICK a \in 1 .. n : l[a] = x
    BY <1>5
  <2>1. a # i
    OBVIOUS
  <2>2. CASE a < i
    <3>1. a \in 1 .. n - 1
      BY <2>2
    <3> QED
      BY <3>1, <2>2, <1>1, <1>4
  <2>3. CASE a > i
    <3>1. a - 1 \in 1 .. n - 1 /\ ~ (a - 1 < i) /\ a - 1 + 1 = a
      BY <2>3
    <3>2. m[a - 1] = x
      BY <3>1, <1>1
    <3> QED
      BY <3>1, <3>2, <1>4
  <2> QED
    BY <2>1, <2>2, <2>3
<1>7. ASSUME NEW x \in Missed(m, q, j)
      PROVE  x \in Missed(l, q, k) \/ (i <= off /\ x = l[off + 1])
  <2>1. x \in k /\ x \notin ToSet(q)
    BY DEF Missed
  <2>2. PICK a \in 1 .. n - 1 : a <= off /\ m[a] = x
    BY <1>1 DEF Missed
  <2>3. CASE a < i
    BY <2>1, <2>2, <2>3, <1>2 DEF Missed
  <2>4. CASE a >= i
    <3>1. a + 1 \in 1 .. n /\ l[a + 1] = x
      BY <2>2, <2>4, <1>2
    <3>2. CASE a + 1 <= off
      BY <3>1, <3>2, <2>1 DEF Missed
    <3>3. CASE a = off
      BY <3>1, <3>3, <2>4
    <3> QED
      BY <3>2, <3>3, <2>2
  <2> QED
    BY <2>3, <2>4
<1>8. Again(m, q) \subseteq Again(l, q)
  <2> SUFFICES ASSUME NEW x \in Again(m, q) PROVE x \in Again(l, q)
    OBVIOUS
  <2>1. x \in ToSet(q)
    BY DEF Again
  <2>2. PICK a \in 1 .. n - 1 : a > off /\ m[a] = x
    BY <1>1 DEF Again
  <2>3. CASE a < i
    BY <2>1, <2>2, <2>3, <1>2 DEF Again
  <2>4. CASE a >= i
    <3>1. a + 1 \in 1 .. n /\ l[a + 1] = x
      BY <2>2, <2>4, <1>2
    <3>2. a + 1 > off
      BY <2>2
    <3> QED
      BY <3>1, <3>2, <2>1 DEF Again
  <2> QED
    BY <2>3, <2>4
<1>9. /\ IsFiniteSet(Missed(l, q, k)) /\ IsFiniteSet(Missed(m, q, j))
      /\ IsFiniteSet(Again(l, q)) /\ IsFiniteSet(Again(m, q))
  <2>1. /\ Missed(l, q, k) \subseteq ToSet(l) /\ Missed(m, q, j) \subseteq ToSet(l)
        /\ Again(l, q) \subseteq ToSet(q) /\ Again(m, q) \subseteq ToSet(q)
    BY DEF Missed, Again
  <2> QED
    BY <2>1, <1>5, FS_Subset
<1>10. /\ Cardinality(Missed(l, q, k)) \in Nat /\ Cardinality(Missed(m, q, j)) \in Nat
       /\ Cardinality(Again(l, q)) \in Nat /\ Cardinality(Again(m, q)) \in Nat
  BY <1>9, FS_CardinalityType
<1>11. Cardinality(Again(m, q)) <= Cardinality(Again(l, q))
  BY <1>8, <1>9, FS_Subset
<1>12. Cardinality(Missed(m, q, j)) <= Cardinality(Missed(l, q, k)) + (IF i <= off THEN 1 ELSE 0)
  <2>1. CASE i <= off
    <3>1. Missed(m, q, j) \subseteq Missed(l, q, k) \cup {l[off + 1]}
      BY <1>7
    <3> QED
      BY <3>1, <2>1, <1>9, OneMoreElement
  <2>2. CASE ~ (i <= off)
    <3>1. Missed(m, q, j) \subseteq Missed(l, q, k)
      BY <2>2, <1>7
    <3>2. Cardinality(Missed(m, q, j)) <= Cardinality(Missed(l, q, k))
      BY <3>1, <1>9, FS_Subset
    <3> QED
      BY <3>2, <2>2, <1>10
  <2> QED
    BY <2>1, <2>2
<1> QED
  BY <1>1, <1>3, <1>6, <1>10, <1>11, <1>12

\* What the beginning of a sequence is, and that a page extends it.
LEMMA Beginning ==
  ASSUME NEW S, NEW s \in Seq(S), NEW t \in Seq(S)
  PROVE  IsPrefix(s, t) <=> Len(s) <= Len(t) /\ \A i \in 1 .. Len(s) : s[i] = t[i]
<1> PICK n \in Nat : n = Len(s)
  OBVIOUS
<1> PICK m \in Nat : m = Len(t)
  OBVIOUS
<1>1. CASE ~ (n <= m)
  BY <1>1 DEF IsPrefix
<1>2. CASE n <= m
  <2> PICK b \in Int, e \in Int : b = 1 /\ e = n
    OBVIOUS
  <2>1. b <= e + 1 /\ e <= n /\ e <= m /\ 1 <= b /\ e - b + 1 = n
    BY <1>2
  <2>2. /\ SubSeq(s, b, e) \in Seq(S) /\ Len(SubSeq(s, b, e)) = e - b + 1
        /\ \A c \in 1 .. e - b + 1 : SubSeq(s, b, e)[c] = s[b + c - 1]
    BY <2>1, Piece
  <2>3. /\ SubSeq(t, b, e) \in Seq(S) /\ Len(SubSeq(t, b, e)) = e - b + 1
        /\ \A c \in 1 .. e - b + 1 : SubSeq(t, b, e)[c] = t[b + c - 1]
    BY <2>1, Piece
  <2> PICK u : u = SubSeq(s, b, e)
    OBVIOUS
  <2> PICK v : v = SubSeq(t, b, e)
    OBVIOUS
  <2>4. \A c \in 1 .. n : b + c - 1 = c
    OBVIOUS
  <2>5. u \in Seq(S) /\ Len(u) = n /\ \A c \in 1 .. n : u[c] = s[c]
    BY <2>1, <2>2, <2>4
  <2>6. v \in Seq(S) /\ Len(v) = n /\ \A c \in 1 .. n : v[c] = t[c]
    BY <2>1, <2>3, <2>4
  <2>7. u = v <=> \A c \in 1 .. n : s[c] = t[c]
    <3>1. ASSUME \A c \in 1 .. n : s[c] = t[c] PROVE u = v
      <4>1. \A c \in 1 .. n : u[c] = v[c]
        BY <3>1, <2>5, <2>6
      <4> QED
        BY <4>1, <2>5, <2>6, SeqEqual
    <3> QED
      BY <3>1, <2>5, <2>6
  <2>8. IsPrefix(s, t) <=> u = v
    BY <1>2 DEF IsPrefix
  <2> QED
    BY <2>7, <2>8, <1>2
<1> QED
  BY <1>1, <1>2

LEMMA PullStarts == PullInit => PullInv
<1> SUFFICES ASSUME PullInit PROVE PullInv
  OBVIOUS
<1> PICK n \in ListSizes : list = [i \in 1 .. n |-> i] /\ fresh = n + 1
  BY DEF PullInit
<1>1. n \in Nat
  BY PullConstants
<1>2. /\ fresh \in Nat \ {0} /\ fresh - 1 = n /\ list \in Seq(1 .. n) /\ Len(list) = n
      /\ \A i \in 1 .. n : list[i] = i
  BY <1>1
<1> PICK none : none = <<>>
  OBVIOUS
<1>3. none \in Seq(1 .. n) /\ Len(none) = 0
  OBVIOUS
<1>4. /\ puller \in Pullers /\ snapshot = none /\ pulled = none /\ pages = 0
      /\ verdict = "none" /\ edits = MaxEdits /\ kept = ToSet(list) /\ slides = 0 /\ shoves = 0
  BY DEF PullInit
<1>5. Distinct(list) /\ Distinct(none)
  BY <1>2, <1>3 DEF Distinct
<1>6. PullShape
  BY <1>2, <1>3, <1>4, <1>5, PullConstants DEF PullShape
<1>7. Len(pulled) = 0 /\ Len(snapshot) = 0
  BY <1>3, <1>4
<1>8. Paced
  <2>1. {PageCap, MaxRules, Window} \subseteq Nat \ {0}
    BY PullConstants
  <2>2. 0 <= PageCap + MaxRules + Window /\ 0 < Window
    BY <2>1
  <2> QED
    BY <2>2, <1>4, <1>7 DEF Paced, PullInit
<1>9. ToSet(pulled) = {} /\ Cardinality(ToSet(pulled)) = 0
  <2>1. ToSet(pulled) = {}
    <3>1. DOMAIN none = {}
      BY <1>3
    <3> QED
      BY <3>1, <1>4 DEF ToSet
  <2> QED
    BY <2>1, FS_EmptySet
<1>10. Missed(list, pulled, kept) = {} /\ Again(list, pulled) = {}
  BY <1>2, <1>7, <1>9 DEF Missed, Again
<1>11. Cardinality(Missed(list, pulled, kept)) = 0 /\ Cardinality(Again(list, pulled)) = 0
  BY <1>10, FS_EmptySet
<1>12. ReadOnce
  BY <1>4, <1>7, <1>9, <1>11 DEF ReadOnce
<1>13. IsPrefix(pulled, snapshot)
  <2>1. IsPrefix(none, none) <=> Len(none) <= Len(none) /\ \A i \in 1 .. Len(none) : none[i] = none[i]
    BY <1>3, Beginning
  <2> QED
    BY <2>1, <1>3, <1>4
<1>14. OneSnapshot /\ WholeCovers /\ RepeatsExplained /\ TruncatedIsReal
  BY <1>4, <1>7, <1>9, <1>13 DEF OneSnapshot, WholeCovers, RepeatsExplained, TruncatedIsReal
<1> QED
  BY <1>6, <1>8, <1>12, <1>14 DEF PullInv

\* A row is created while a pull waits.
LEMMA CreateKeeps ==
  ASSUME PullInv, NEW i \in 1 .. Len(list) + 1, CreateRow(i)
  PROVE  PullInv'
<1>s. PICK S : S = 1 .. fresh - 1
  OBVIOUS
<1>t. PICK T : T = 1 .. fresh' - 1
  OBVIOUS
<1> PICK n \in Nat : n = Len(list)
  BY DEF PullInv, PullShape
<1>1. /\ fresh \in Nat \ {0} /\ list \in Seq(S) /\ snapshot \in Seq(S) /\ pulled \in Seq(S)
      /\ Distinct(list) /\ Distinct(snapshot) /\ kept \subseteq ToSet(list) /\ verdict = "none"
      /\ slides \in Nat /\ shoves \in Nat /\ edits \in Nat /\ edits > 0
  BY <1>s DEF PullInv, PullShape, CreateRow, Waiting
<1>2. /\ fresh' = fresh + 1 /\ edits' = edits - 1 /\ list' = InsertAt(list, i, fresh)
      /\ shoves' = IF i <= Len(pulled) THEN shoves + 1 ELSE shoves
      /\ UNCHANGED <<puller, snapshot, pulled, pages, verdict, kept, slides>>
  BY DEF CreateRow
<1>3. /\ T = S \cup {fresh} /\ fresh \notin S /\ fresh' \in Nat \ {0} /\ edits' \in Nat
      /\ fresh \in T /\ Len(pulled) \in Nat
  BY <1>1, <1>2, <1>s, <1>t
<1>4. list \in Seq(T) /\ snapshot \in Seq(T) /\ pulled \in Seq(T)
  BY <1>1, <1>3, SeqMonotonic
<1>m. PICK m : m = InsertAt(list, i, fresh)
  OBVIOUS
<1>5. m \in Seq(T) /\ Inserted(m, list, i, fresh)
  BY <1>3, <1>4, <1>m, OneMore
<1>6. /\ Distinct(m) /\ kept \subseteq ToSet(m)
      /\ Cardinality(Missed(m, pulled, kept)) <= Cardinality(Missed(list, pulled, kept))
      /\ Cardinality(Again(m, pulled)) <=
           Cardinality(Again(list, pulled)) + (IF i <= Len(pulled) THEN 1 ELSE 0)
      /\ Cardinality(Missed(list, pulled, kept)) \in Nat /\ Cardinality(Missed(m, pulled, kept)) \in Nat
      /\ Cardinality(Again(list, pulled)) \in Nat /\ Cardinality(Again(m, pulled)) \in Nat
  BY <1>1, <1>3, <1>5, RowInserted
<1>7. list' = m
  BY <1>2, <1>m
<1>8. shoves' \in Nat
  BY <1>1, <1>2
<1>9. PullShape'
  <2>1. /\ list' \in Seq(1 .. fresh' - 1) /\ snapshot' \in Seq(1 .. fresh' - 1)
        /\ pulled' \in Seq(1 .. fresh' - 1) /\ Distinct(list)' /\ Distinct(snapshot)'
        /\ kept' \subseteq ToSet(list')
    BY <1>1, <1>2, <1>4, <1>5, <1>6, <1>7, <1>t DEF Distinct
  <2>2. /\ puller' \in Pullers /\ pages' \in Nat /\ slides' \in Nat
        /\ verdict' \in {"none", "whole", "partial", "failed"}
    BY <1>2 DEF PullInv, PullShape
  <2> QED
    BY <2>1, <2>2, <1>3, <1>8 DEF PullShape
<1>10. Paced'
  BY <1>2 DEF PullInv, Paced
<1>11. ReadOnce'
  <2> SUFFICES ASSUME puller # "k8s"
               PROVE  /\ Cardinality(Missed(list', pulled, kept)) <= slides
                      /\ Len(pulled) + Cardinality(Again(list', pulled)) <=
                           Cardinality(ToSet(pulled)) + shoves'
    BY <1>2 DEF ReadOnce, Missed, Again
  <2>1. /\ Cardinality(Missed(list, pulled, kept)) <= slides
        /\ Len(pulled) + Cardinality(Again(list, pulled)) <= Cardinality(ToSet(pulled)) + shoves
    BY <1>1 DEF PullInv, ReadOnce
  <2>2. Cardinality(ToSet(pulled)) \in Nat
    BY <1>1, SeqSet
  <2>3. Cardinality(Missed(m, pulled, kept)) <= slides
    BY <2>1, <1>1, <1>6
  <2>4. Len(pulled) + Cardinality(Again(m, pulled)) <= Cardinality(ToSet(pulled)) + shoves'
    <3> PICK p \in Nat, a \in Nat, b \in Nat, c \in Nat :
          p = Len(pulled) /\ a = Cardinality(Again(list, pulled))
          /\ b = Cardinality(Again(m, pulled)) /\ c = Cardinality(ToSet(pulled))
      BY <2>2, <1>3, <1>6
    <3>0. p + a <= c + shoves
      BY <2>1
    <3>1. CASE i <= Len(pulled)
      <4>1. b <= a + 1 /\ shoves' = shoves + 1
        BY <3>1, <1>2, <1>6
      <4>2. p + b <= c + shoves'
        BY <4>1, <3>0, <1>1, SMTT(30)
      <4> QED
        BY <4>2
    <3>2. CASE ~ (i <= Len(pulled))
      BY <3>2, <2>1, <2>2, <1>1, <1>2, <1>3, <1>6, SMTT(30)
    <3> QED
      BY <3>1, <3>2
  <2> QED
    BY <2>3, <2>4, <1>7
<1>12. RepeatsExplained'
  <2>1. Cardinality(ToSet(pulled)) \in Nat /\ shoves <= shoves'
    BY <1>1, <1>2, SeqSet
  <2>2. Len(pulled) - Cardinality(ToSet(pulled)) <= shoves
    BY DEF PullInv, RepeatsExplained
  <2>3. Len(pulled) - Cardinality(ToSet(pulled)) <= shoves'
    BY <2>1, <2>2, <1>1, <1>3, <1>8
  <2> QED
    BY <2>3, <1>2 DEF RepeatsExplained
<1>13. OneSnapshot' /\ WholeCovers' /\ TruncatedIsReal'
  BY <1>1, <1>2 DEF PullInv, OneSnapshot, WholeCovers, TruncatedIsReal
<1> QED
  BY <1>9, <1>10, <1>11, <1>12, <1>13 DEF PullInv

\* A row is deleted while a pull waits.
LEMMA DeleteKeeps ==
  ASSUME PullInv, NEW i \in 1 .. Len(list), DeleteRow(i)
  PROVE  PullInv'
<1>s. PICK S : S = 1 .. fresh - 1
  OBVIOUS
<1>1. /\ list \in Seq(S) /\ snapshot \in Seq(S) /\ pulled \in Seq(S)
      /\ Distinct(list) /\ Distinct(snapshot) /\ kept \subseteq ToSet(list) /\ verdict = "none"
      /\ slides \in Nat /\ shoves \in Nat /\ edits \in Nat /\ edits > 0
  BY <1>s DEF PullInv, PullShape, DeleteRow, Waiting
<1>2. /\ edits' = edits - 1 /\ list' = RemoveAt(list, i) /\ kept' = kept \ {list[i]}
      /\ slides' = IF i <= Len(pulled) THEN slides + 1 ELSE slides
      /\ UNCHANGED <<puller, snapshot, pulled, pages, verdict, fresh, shoves>>
  BY DEF DeleteRow
<1>m. PICK m : m = RemoveAt(list, i)
  OBVIOUS
<1>k. PICK k : k = kept \ {list[i]}
  OBVIOUS
<1>3. m \in Seq(S) /\ Removed(m, list, i)
  BY <1>1, <1>m, OneLess
<1>4. /\ Distinct(m) /\ k \subseteq ToSet(m)
      /\ Cardinality(Missed(m, pulled, k)) <=
           Cardinality(Missed(list, pulled, kept)) + (IF i <= Len(pulled) THEN 1 ELSE 0)
      /\ Cardinality(Again(m, pulled)) <= Cardinality(Again(list, pulled))
      /\ Cardinality(Missed(list, pulled, kept)) \in Nat /\ Cardinality(Missed(m, pulled, k)) \in Nat
      /\ Cardinality(Again(list, pulled)) \in Nat /\ Cardinality(Again(m, pulled)) \in Nat
  BY <1>1, <1>3, <1>k, RowRemoved
<1>5. list' = m /\ kept' = k
  BY <1>2, <1>m, <1>k
<1>6. slides' \in Nat /\ edits' \in Nat
  BY <1>1, <1>2
<1>7. PullShape'
  <2>1. /\ list' \in Seq(1 .. fresh' - 1) /\ snapshot' \in Seq(1 .. fresh' - 1)
        /\ pulled' \in Seq(1 .. fresh' - 1) /\ Distinct(list)' /\ Distinct(snapshot)'
        /\ kept' \subseteq ToSet(list')
    BY <1>1, <1>2, <1>3, <1>4, <1>5, <1>s DEF Distinct
  <2>2. /\ puller' \in Pullers /\ pages' \in Nat /\ shoves' \in Nat /\ fresh' \in Nat \ {0}
        /\ verdict' \in {"none", "whole", "partial", "failed"}
    BY <1>2 DEF PullInv, PullShape
  <2> QED
    BY <2>1, <2>2, <1>6 DEF PullShape
<1>8. Paced'
  BY <1>2 DEF PullInv, Paced
<1>9. ReadOnce'
  <2> SUFFICES ASSUME puller # "k8s"
               PROVE  /\ Cardinality(Missed(list', pulled, kept')) <= slides'
                      /\ Len(pulled) + Cardinality(Again(list', pulled)) <=
                           Cardinality(ToSet(pulled)) + shoves
    BY <1>2 DEF ReadOnce, Missed, Again
  <2>1. /\ Cardinality(Missed(list, pulled, kept)) <= slides
        /\ Len(pulled) + Cardinality(Again(list, pulled)) <= Cardinality(ToSet(pulled)) + shoves
    BY <1>1 DEF PullInv, ReadOnce
  <2>2. Cardinality(ToSet(pulled)) \in Nat /\ Len(pulled) \in Nat
    BY <1>1, SeqSet
  <2> PICK p \in Nat, a \in Nat, b \in Nat, c \in Nat :
        p = Len(pulled) /\ a = Cardinality(Again(list, pulled))
        /\ b = Cardinality(Again(m, pulled)) /\ c = Cardinality(ToSet(pulled))
    BY <2>2, <1>4
  <2> PICK u \in Nat, v \in Nat : /\ u = Cardinality(Missed(list, pulled, kept))
                                  /\ v = Cardinality(Missed(m, pulled, k))
    BY <1>4
  <2>3. v <= slides'
    <3>0. u <= slides
      BY <2>1
    <3>1. CASE i <= Len(pulled)
      <4>1. v <= u + 1 /\ slides' = slides + 1
        BY <3>1, <1>2, <1>4
      <4> QED
        BY <4>1, <3>0, <1>1, SMTT(30)
    <3>2. CASE ~ (i <= Len(pulled))
      <4>1. v <= u /\ slides' = slides
        BY <3>2, <1>2, <1>4
      <4> QED
        BY <4>1, <3>0, <1>1
    <3> QED
      BY <3>1, <3>2
  <2>4. p + b <= c + shoves
    <3>1. p + a <= c + shoves /\ b <= a
      BY <2>1, <1>4
    <3>2. shoves \in Nat
      BY <1>1
    <3> QED
      BY <3>1, <3>2, SMTT(30)
  <2> QED
    BY <2>3, <2>4, <1>5
<1>10. OneSnapshot' /\ WholeCovers' /\ TruncatedIsReal' /\ RepeatsExplained'
  BY <1>1, <1>2 DEF PullInv, OneSnapshot, WholeCovers, TruncatedIsReal, RepeatsExplained
<1> QED
  BY <1>7, <1>8, <1>9, <1>10 DEF PullInv

\* What a page does to a Wazuh pull: what an action has to know of its limits.
PageAllowed(read, result) ==
    /\ result \in {"none", "whole", "partial"}
    /\ result = "whole" => Len(list) <= read \/ (puller = "server" /\ pages + 1 = PageCap)
    /\ result = "partial" => read < Len(list)
    /\ pages + 1 <= PageCap + MaxRules + Window
    /\ result = "none" =>
         /\ puller = "indexer" => pages + 1 <= read /\ read < Window
         /\ puller = "rules" => pages + 1 <= read

LEMMA WazuhPageKeeps ==
  ASSUME PullInv, puller # "k8s", verdict = "none", NEW size \in Nat,
         NEW page, page = PageOf(list, Len(pulled), size), NEW result,
         PageAllowed(Len(pulled) + Len(page), result),
         TakePage(page, result), UNCHANGED snapshot
  PROVE  PullInv'
<1>s. PICK S : S = 1 .. fresh - 1
  OBVIOUS
<1>1. /\ list \in Seq(S) /\ snapshot \in Seq(S) /\ pulled \in Seq(S)
      /\ Distinct(list) /\ Distinct(snapshot) /\ kept \subseteq ToSet(list)
      /\ slides \in Nat /\ shoves \in Nat /\ Len(pulled) \in Nat /\ pages \in Nat
  BY <1>s DEF PullInv, PullShape
<1>2. /\ pulled' = pulled \o page /\ pages' = pages + 1 /\ verdict' = result
      /\ UNCHANGED <<puller, list, edits, fresh, kept, slides, shoves, snapshot>>
  BY DEF TakePage
<1>3. /\ page \in Seq(S) /\ Len(page) \in Nat
      /\ \A j \in 1 .. Len(page) :
           Len(pulled) + j \in 1 .. Len(list) /\ page[j] = list[Len(pulled) + j]
  BY <1>1, PageIs
<1>4. Follows(page, list, pulled)
  BY <1>3 DEF Follows
<1>r. PICK r : r = pulled \o page
  OBVIOUS
<1>5. /\ r \in Seq(S) /\ ToSet(r) = ToSet(pulled) \cup ToSet(page)
      /\ Len(r) = Len(pulled) + Len(page)
  BY <1>1, <1>3, <1>r, ConcatSet
<1>6. /\ Cardinality(Missed(list, pulled, kept)) <= slides
      /\ Len(pulled) + Cardinality(Again(list, pulled)) <= Cardinality(ToSet(pulled)) + shoves
  BY DEF PullInv, ReadOnce
<1>7. /\ Cardinality(Missed(list, r, kept)) <= slides
      /\ Len(r) + Cardinality(Again(list, r)) <= Cardinality(ToSet(r)) + shoves
      /\ Len(list) <= Len(r) => Cardinality(kept \ ToSet(r)) <= slides
      /\ Len(r) < Len(list) => ~ (ToSet(list) \subseteq ToSet(r))
  BY <1>1, <1>3, <1>4, <1>5, <1>6, PageRead
<1>8. pulled' = r
  BY <1>2, <1>r
<1>9. PullShape'
  <2>1. /\ list' \in Seq(1 .. fresh' - 1) /\ snapshot' \in Seq(1 .. fresh' - 1)
        /\ pulled' \in Seq(1 .. fresh' - 1) /\ Distinct(list)' /\ Distinct(snapshot)'
        /\ kept' \subseteq ToSet(list')
    BY <1>1, <1>2, <1>5, <1>8, <1>s DEF Distinct
  <2>2. /\ puller' \in Pullers /\ pages' \in Nat /\ shoves' \in Nat /\ fresh' \in Nat \ {0}
        /\ slides' \in Nat /\ edits' \in Nat /\ verdict' \in {"none", "whole", "partial", "failed"}
    BY <1>1, <1>2 DEF PullInv, PullShape, PageAllowed
  <2> QED
    BY <2>1, <2>2 DEF PullShape
<1>10. Paced'
  <2>1. /\ pages + 1 <= PageCap + MaxRules + Window
        /\ result = "none" =>
             /\ puller = "indexer" => pages + 1 <= Len(r) /\ Len(r) < Window
             /\ puller = "rules" => pages + 1 <= Len(r)
    BY <1>5 DEF PageAllowed
  <2> QED
    BY <2>1, <1>2, <1>8 DEF Paced
<1>11. Again(list, r) \subseteq ToSet(r) /\ IsFiniteSet(ToSet(r)) /\ Cardinality(ToSet(r)) \in Nat
  BY <1>5, SeqSet DEF Again
<1>12. Cardinality(Again(list, r)) \in Nat /\ Len(r) \in Nat
  BY <1>5, <1>11, FS_Subset, FS_CardinalityType
<1>13. ReadOnce'
  BY <1>2, <1>7, <1>8 DEF ReadOnce, Missed, Again
<1>14. RepeatsExplained'
  <2>1. Len(r) - Cardinality(ToSet(r)) <= shoves
    BY <1>1, <1>7, <1>11, <1>12
  <2> QED
    BY <2>1, <1>2, <1>8 DEF RepeatsExplained
<1>15. WholeCovers'
  <2> SUFFICES ASSUME result = "whole", ~ (puller = "server" /\ pages + 1 = PageCap)
               PROVE  Cardinality(kept \ ToSet(r)) <= slides
    BY <1>2, <1>8 DEF WholeCovers
  <2> QED
    BY <1>5, <1>7 DEF PageAllowed
<1>16. TruncatedIsReal'
  <2> SUFFICES ASSUME result = "partial" PROVE ~ (ToSet(list) \subseteq ToSet(r))
    BY <1>2, <1>8 DEF TruncatedIsReal
  <2> QED
    BY <1>5, <1>7 DEF PageAllowed
<1>17. OneSnapshot'
  BY <1>2 DEF OneSnapshot
<1> QED
  BY <1>9, <1>10, <1>13, <1>14, <1>15, <1>16, <1>17 DEF PullInv

LEMMA AgentsPageKeeps == ASSUME PullInv, AgentsPage PROVE PullInv'
<1> PICK page : page = PageOf(list, Len(pulled), Limit)
  OBVIOUS
<1> PICK read : read = Len(pulled) + Len(page)
  OBVIOUS
<1> PICK ends \in BOOLEAN :
      ends = (Len(page) < Limit \/ (Len(list) > 0 /\ read >= Len(list)) \/ pages + 1 = PageCap)
  OBVIOUS
<1> PICK result : result = IF ~ends THEN "none"
                           ELSE IF pages + 1 >= PageCap /\ Len(list) > read THEN "partial"
                           ELSE "whole"
  OBVIOUS
<1>1. /\ puller = "agents" /\ verdict = "none" /\ pages < PageCap /\ TakePage(page, result)
      /\ UNCHANGED snapshot
  <2>1. /\ puller = "agents" /\ verdict = "none" /\ pages < PageCap /\ UNCHANGED snapshot
    BY DEF AgentsPage, Asking
  <2>2. pulled' = pulled \o page /\ pages' = pages + 1
    BY DEF AgentsPage, TakePage
  <2>3. UNCHANGED <<puller, list, edits, fresh, kept, slides, shoves>>
    BY DEF AgentsPage, TakePage
  <2>4. verdict' = result
    BY DEF AgentsPage, TakePage
  <2> QED
    BY <2>1, <2>2, <2>3, <2>4 DEF TakePage
<1>2. /\ Limit \in Nat /\ PageCap \in Nat /\ MaxRules \in Nat /\ Window \in Nat
  BY PullConstants
<1>s. PICK S : S = 1 .. fresh - 1
  OBVIOUS
<1>3. list \in Seq(S) /\ Len(pulled) \in Nat /\ Len(list) \in Nat /\ pages \in Nat
  BY <1>s DEF PullInv, PullShape
<1>4. Len(page) \in Nat /\ (Len(page) < Limit => Len(list) <= read)
  BY <1>2, <1>3, PageIs
<1>5. read \in Nat
  BY <1>3, <1>4
<1>6. pages + 1 <= PageCap /\ pages + 1 <= PageCap + MaxRules + Window
  BY <1>1, <1>2, <1>3
<1>7. PageAllowed(read, result)
  <2>1. result \in {"none", "whole", "partial"}
    OBVIOUS
  <2>2. ASSUME result = "whole" PROVE Len(list) <= read
    <3>1. ends /\ ~ (pages + 1 >= PageCap /\ Len(list) > read)
      BY <2>2
    <3>2. CASE pages + 1 = PageCap
      BY <3>1, <3>2, <1>2, <1>3, <1>5
    <3>3. CASE pages + 1 # PageCap
      BY <3>1, <3>3, <1>3, <1>4, <1>5
    <3> QED
      BY <3>2, <3>3
  <2>3. ASSUME result = "partial" PROVE read < Len(list)
    BY <2>3, <1>3, <1>5
  <2> QED
    BY <2>1, <2>2, <2>3, <1>1, <1>6 DEF PageAllowed
<1> QED
  BY <1>1, <1>2, <1>7, WazuhPageKeeps

LEMMA ServerVulnsPageKeeps == ASSUME PullInv, ServerVulnsPage PROVE PullInv'
<1> PICK page : page = PageOf(list, Len(pulled), Limit)
  OBVIOUS
<1> PICK read : read = Len(pulled) + Len(page)
  OBVIOUS
<1> PICK result : result = IF \/ Len(page) < Limit
                              \/ read >= Len(list)
                              \/ pages + 1 = PageCap THEN "whole" ELSE "none"
  OBVIOUS
<1>1. /\ puller = "server" /\ verdict = "none" /\ pages < PageCap /\ TakePage(page, result)
      /\ UNCHANGED snapshot
  BY DEF ServerVulnsPage, Asking
<1>2. /\ Limit \in Nat /\ PageCap \in Nat /\ MaxRules \in Nat /\ Window \in Nat
  BY PullConstants
<1>s. PICK S : S = 1 .. fresh - 1
  OBVIOUS
<1>3. list \in Seq(S) /\ Len(pulled) \in Nat /\ Len(list) \in Nat /\ pages \in Nat
  BY <1>s DEF PullInv, PullShape
<1>4. Len(page) \in Nat /\ (Len(page) < Limit => Len(list) <= read)
  BY <1>2, <1>3, PageIs
<1>5. read \in Nat
  BY <1>3, <1>4
<1>6. pages + 1 <= PageCap /\ pages + 1 <= PageCap + MaxRules + Window
  BY <1>1, <1>2, <1>3
<1>7. PageAllowed(read, result)
  BY <1>1, <1>2, <1>3, <1>4, <1>5, <1>6 DEF PageAllowed
<1> QED
  BY <1>1, <1>2, <1>7, WazuhPageKeeps

LEMMA IndexerPageKeeps == ASSUME PullInv, IndexerPage PROVE PullInv'
<1>a. PICK size : size = Least(Limit, Window - Len(pulled))
  OBVIOUS
<1> PICK page : page = PageOf(list, Len(pulled), size)
  OBVIOUS
<1> PICK read : read = Len(pulled) + Len(page)
  OBVIOUS
<1>b. PICK total : total = Least(Len(list), HitsCounted)
  OBVIOUS
<1> PICK result : result = IF Len(page) = size /\ read < Window THEN "none"
                           ELSE IF total > read THEN "partial"
                           ELSE "whole"
  OBVIOUS
<1>1. puller = "indexer" /\ verdict = "none" /\ TakePage(page, result) /\ UNCHANGED snapshot
  BY <1>a, <1>b DEF IndexerPage, Asking
<1>2. /\ Limit \in Nat \ {0} /\ PageCap \in Nat /\ MaxRules \in Nat /\ Window \in Nat
      /\ HitsCounted \in Nat /\ HitsCounted > Window
  BY PullConstants
<1>s. PICK S : S = 1 .. fresh - 1
  OBVIOUS
<1>3. list \in Seq(S) /\ Len(pulled) \in Nat /\ Len(list) \in Nat /\ pages \in Nat
  BY <1>s DEF PullInv, PullShape
<1>4. pages <= Len(pulled) /\ Len(pulled) < Window
  BY <1>1 DEF PullInv, Paced
<1>5. size \in Nat \ {0} /\ Len(pulled) + size <= Window
  BY <1>a, <1>2, <1>3, <1>4 DEF Least
<1>6. Len(page) \in Nat /\ Len(page) <= size /\ (Len(page) < size => Len(list) <= read)
  BY <1>3, <1>5, PageIs
<1>7. read \in Nat /\ read <= Window
  <2>1. read \in Nat
    BY <1>3, <1>6
  <2>2. read <= Len(pulled) + size
    BY <1>3, <1>5, <1>6
  <2> QED
    BY <2>1, <2>2, <1>2, <1>3, <1>5
<1>8. total <= read => Len(list) <= read
  BY <1>b, <1>2, <1>3, <1>7 DEF Least
<1>9. total > read => read < Len(list)
  BY <1>b, <1>2, <1>3, <1>7 DEF Least
<1>10. pages + 1 <= PageCap + MaxRules + Window
  BY <1>2, <1>3, <1>4
<1>11. total \in Nat
  BY <1>b, <1>2, <1>3 DEF Least
<1>12. Len(page) = size => pages + 1 <= read
  BY <1>3, <1>4, <1>5
<1>13. PageAllowed(read, result)
  BY <1>1, <1>2, <1>3, <1>6, <1>7, <1>8, <1>9, <1>10, <1>11, <1>12 DEF PageAllowed
<1> QED
  BY <1>1, <1>5, <1>13, WazuhPageKeeps

LEMMA RulesPageKeeps == ASSUME PullInv, RulesPage PROVE PullInv'
<1>a. PICK size : size = Least(Least(Limit, MaxRules), MaxRules - Len(pulled))
  OBVIOUS
<1> PICK page : page = PageOf(list, Len(pulled), size)
  OBVIOUS
<1> PICK read : read = Len(pulled) + Len(page)
  OBVIOUS
<1> PICK result : result = IF Len(page) < size THEN "whole"
                           ELSE IF read < MaxRules THEN "none"
                           ELSE IF Len(list) > read THEN "partial"
                           ELSE "whole"
  OBVIOUS
<1>1. /\ puller = "rules" /\ verdict = "none" /\ TakePage(page, result) /\ UNCHANGED snapshot
      /\ Len(pulled) < MaxRules
  BY <1>a DEF RulesPage, Asking
<1>2. Limit \in Nat \ {0} /\ PageCap \in Nat /\ MaxRules \in Nat \ {0} /\ Window \in Nat
  BY PullConstants
<1>s. PICK S : S = 1 .. fresh - 1
  OBVIOUS
<1>3. list \in Seq(S) /\ Len(pulled) \in Nat /\ Len(list) \in Nat /\ pages \in Nat
  BY <1>s DEF PullInv, PullShape
<1>4. pages <= Len(pulled)
  BY <1>1 DEF PullInv, Paced
<1>5. size \in Nat \ {0} /\ Len(pulled) + size <= MaxRules
  BY <1>a, <1>1, <1>2, <1>3 DEF Least
<1>6. Len(page) \in Nat /\ Len(page) <= size /\ (Len(page) < size => Len(list) <= read)
  BY <1>3, <1>5, PageIs
<1>7. read \in Nat
  BY <1>3, <1>6
<1>8. pages + 1 <= PageCap + MaxRules + Window
  BY <1>1, <1>2, <1>3, <1>4
<1>9. ~ (Len(page) < size) => pages + 1 <= read
  BY <1>3, <1>4, <1>5, <1>6
<1>10. PageAllowed(read, result)
  BY <1>1, <1>2, <1>3, <1>6, <1>7, <1>8, <1>9 DEF PageAllowed
<1> QED
  BY <1>1, <1>5, <1>10, WazuhPageKeeps

\* The walk of a Kubernetes list goes on in the snapshot it began in.
LEMMA K8sPageKeeps == ASSUME PullInv, K8sPage PROVE PullInv'
<1>s. PICK S : S = 1 .. fresh - 1
  OBVIOUS
<1>b. PICK base : base = IF pages = 0 THEN list ELSE snapshot
  OBVIOUS
<1>p. PICK page : page = PageOf(base, Len(pulled), Limit)
  OBVIOUS
<1>r. PICK r : r = pulled \o page
  OBVIOUS
<1>v. PICK result : result = IF Len(pulled) + Len(page) = Len(base) THEN "whole"
                           ELSE IF pages + 1 = PageCap THEN "partial" ELSE "none"
  OBVIOUS
<1>1. /\ puller = "k8s" /\ verdict = "none" /\ pages < PageCap /\ snapshot' = base
      /\ pulled' = r /\ pages' = pages + 1 /\ verdict' = result
      /\ UNCHANGED <<puller, list, edits, fresh, kept, slides, shoves>>
  BY <1>b, <1>p, <1>r, <1>v DEF K8sPage, Asking, TakePage
<1>2. /\ list \in Seq(S) /\ snapshot \in Seq(S) /\ pulled \in Seq(S) /\ pages \in Nat
      /\ Distinct(list) /\ Distinct(snapshot) /\ shoves \in Nat
  BY <1>s DEF PullInv, PullShape
<1>3. Limit \in Nat /\ PageCap \in Nat /\ MaxRules \in Nat /\ Window \in Nat
  BY PullConstants
<1>4. base \in Seq(S) /\ Distinct(base)
  BY <1>2, <1>b
<1>5. Len(pulled) \in Nat /\ Len(base) \in Nat
  BY <1>2, <1>4
<1>6. Len(pulled) <= Len(base) /\ \A i \in 1 .. Len(pulled) : pulled[i] = base[i]
  <2>1. CASE pages = 0
    <3>1. pulled = <<>>
      BY <2>1, <1>1 DEF PullInv, Paced
    <3> QED
      BY <3>1, <1>5
  <2>2. CASE pages # 0
    <3>1. IsPrefix(pulled, snapshot)
      BY <1>1 DEF PullInv, OneSnapshot
    <3> QED
      BY <3>1, <2>2, <1>2, <1>b, Beginning, SMTT(20)
  <2> QED
    BY <2>1, <2>2
<1>7. /\ page \in Seq(S) /\ Len(page) \in Nat
      /\ Len(page) > 0 => Len(pulled) + Len(page) <= Len(base)
      /\ \A j \in 1 .. Len(page) : page[j] = base[Len(pulled) + j]
  <2>1. /\ page \in Seq(S) /\ Len(page) \in Nat /\ Len(page) <= Limit
        /\ Len(page) > 0 => Len(pulled) + Len(page) <= Len(base)
        /\ Len(page) < Limit => Len(base) <= Len(pulled) + Len(page)
        /\ \A j \in 1 .. Len(page) :
             Len(pulled) + j \in 1 .. Len(base) /\ page[j] = base[Len(pulled) + j]
    <3>1. base \in Seq(S) /\ Len(pulled) \in Nat /\ Limit \in Nat
      BY <1>3, <1>4, <1>5
    <3> QED
      BY <3>1, <1>p, PageIs
  <2> QED
    BY <2>1
<1> PICK o \in Nat, m \in Nat : o = Len(pulled) /\ m = Len(page)
  BY <1>5, <1>7
<1>8. r \in Seq(S) /\ Len(r) = o + m /\ \A j \in 1 .. o + m : r[j] = IF j <= o THEN pulled[j] ELSE page[j - o]
  <2>1. /\ pulled \o page \in Seq(S) /\ Len(pulled \o page) = Len(pulled) + Len(page)
        /\ \A j \in 1 .. Len(pulled) + Len(page) :
             (pulled \o page)[j] = IF j <= Len(pulled) THEN pulled[j] ELSE page[j - Len(pulled)]
    BY <1>2, <1>7, ConcatProperties
  <2> QED
    BY <2>1, <1>r
<1>9. Len(r) <= Len(base) /\ Len(r) \in Nat
  <2>1. o <= Len(base) /\ (m > 0 => o + m <= Len(base))
    BY <1>6, <1>7
  <2> QED
    BY <2>1, <1>5, <1>8
<1>10. \A j \in 1 .. Len(r) : r[j] = base[j]
  <2> SUFFICES ASSUME NEW j \in 1 .. o + m PROVE r[j] = base[j]
    BY <1>8
  <2>1. CASE j <= o
    <3>1. j \in 1 .. Len(pulled)
      BY <2>1
    <3> QED
      BY <3>1, <2>1, <1>6, <1>8
  <2>2. CASE ~ (j <= o)
    <3>1. j - o \in 1 .. Len(page) /\ Len(pulled) + (j - o) = j
      BY <2>2
    <3>2. page[j - o] = base[j]
      BY <3>1, <1>7
    <3> QED
      BY <3>2, <2>2, <1>8
  <2> QED
    BY <2>1, <2>2
<1>11. IsPrefix(r, base)
  BY <1>4, <1>8, <1>9, <1>10, Beginning
<1>12. result = "whole" => r = base
  <2> SUFFICES ASSUME result = "whole" PROVE r = base
    OBVIOUS
  <2>1. Len(r) = Len(base)
    BY <1>v, <1>8
  <2> QED
    BY <2>1, <1>4, <1>8, <1>10, SeqEqual
<1>13. OneSnapshot'
  BY <1>1, <1>11, <1>12 DEF OneSnapshot
<1>14. Distinct(r)
  <2> SUFFICES ASSUME NEW i \in 1 .. Len(r), NEW j \in 1 .. Len(r), r[i] = r[j] PROVE i = j
    BY DEF Distinct
  <2>1. i \in 1 .. Len(base) /\ j \in 1 .. Len(base)
    BY <1>5, <1>9
  <2>2. base[i] = base[j]
    BY <1>10
  <2> QED
    BY <2>1, <2>2, <1>4 DEF Distinct
<1>15. RepeatsExplained'
  <2>1. Cardinality(ToSet(r)) = Len(r)
    BY <1>8, <1>14, SeqSet
  <2>2. Len(r) - Cardinality(ToSet(r)) <= shoves
    BY <2>1, <1>2, <1>9
  <2> QED
    BY <2>2, <1>1 DEF RepeatsExplained
<1>16. PullShape'
  <2>1. /\ list' \in Seq(1 .. fresh' - 1) /\ snapshot' \in Seq(1 .. fresh' - 1)
        /\ pulled' \in Seq(1 .. fresh' - 1) /\ Distinct(list)' /\ Distinct(snapshot)'
        /\ kept' \subseteq ToSet(list')
    BY <1>1, <1>2, <1>4, <1>8, <1>s DEF Distinct, PullInv, PullShape
  <2>2. /\ puller' \in Pullers /\ pages' \in Nat /\ shoves' \in Nat /\ fresh' \in Nat \ {0}
        /\ slides' \in Nat /\ edits' \in Nat
    BY <1>1 DEF PullInv, PullShape
  <2>3. verdict' \in {"none", "whole", "partial", "failed"}
    BY <1>1, <1>v
  <2> QED
    BY <2>1, <2>2, <2>3 DEF PullShape
<1>17. Paced'
  <2>1. pages + 1 <= PageCap /\ pages + 1 <= PageCap + MaxRules + Window /\ pages + 1 # 0
    BY <1>1, <1>2, <1>3
  <2> QED
    BY <2>1, <1>1 DEF Paced
<1>18. ReadOnce' /\ WholeCovers' /\ TruncatedIsReal'
  BY <1>1 DEF ReadOnce, WholeCovers, TruncatedIsReal
<1> QED
  BY <1>13, <1>15, <1>16, <1>17, <1>18 DEF PullInv

LEMMA K8sPageFailsKeeps == ASSUME PullInv, K8sPageFails PROVE PullInv'
<1>1. /\ puller = "k8s" /\ verdict = "none" /\ pages < PageCap /\ verdict' = "partial"
      /\ pages' \in {pages, pages + 1}
      /\ UNCHANGED <<puller, list, snapshot, pulled, edits, fresh, kept, slides, shoves>>
  BY DEF K8sPageFails, Asking
<1>2. PageCap \in Nat /\ MaxRules \in Nat /\ Window \in Nat /\ pages \in Nat
  BY PullConstants DEF PullInv, PullShape
<1>3. pages' \in Nat /\ pages' <= PageCap + MaxRules + Window /\ (pages' = 0 => pages = 0)
  BY <1>1, <1>2
<1>4. PullShape'
  BY <1>1, <1>3 DEF PullInv, PullShape, Distinct
<1>5. Paced'
  BY <1>1, <1>3 DEF PullInv, Paced
<1>6. OneSnapshot' /\ ReadOnce' /\ WholeCovers' /\ RepeatsExplained' /\ TruncatedIsReal'
  BY <1>1 DEF PullInv, OneSnapshot, ReadOnce, WholeCovers, RepeatsExplained, TruncatedIsReal
<1> QED
  BY <1>4, <1>5, <1>6 DEF PullInv

LEMMA RequestFailsKeeps == ASSUME PullInv, RequestFails PROVE PullInv'
<1> PICK none : none = <<>>
  OBVIOUS
<1>1. /\ puller # "k8s" /\ verdict = "none" /\ verdict' = "failed" /\ pulled' = none
      /\ UNCHANGED <<puller, list, snapshot, pages, edits, fresh, kept, slides, shoves>>
  BY DEF RequestFails
<1>2. none \in Seq(1 .. fresh - 1) /\ Len(none) = 0
  OBVIOUS
<1>3. ToSet(none) = {} /\ Cardinality(ToSet(none)) = 0
  <2>1. DOMAIN none = {}
    BY <1>2
  <2>2. ToSet(none) = {}
    BY <2>1 DEF ToSet
  <2> QED
    BY <2>2, FS_EmptySet
<1>4. PullShape'
  BY <1>1, <1>2 DEF PullInv, PullShape, Distinct
<1>5. Paced'
  BY <1>1 DEF PullInv, Paced
<1>6. RepeatsExplained'
  <2>1. shoves \in Nat
    BY DEF PullInv, PullShape
  <2> QED
    BY <2>1, <1>1, <1>2, <1>3 DEF RepeatsExplained
<1>7. OneSnapshot' /\ ReadOnce' /\ WholeCovers' /\ TruncatedIsReal'
  BY <1>1 DEF OneSnapshot, ReadOnce, WholeCovers, TruncatedIsReal
<1> QED
  BY <1>4, <1>5, <1>6, <1>7 DEF PullInv

LEMMA PullStep == PullInv /\ [PullNext]_pullVars => PullInv'
<1> SUFFICES ASSUME PullInv, [PullNext]_pullVars PROVE PullInv'
  OBVIOUS
<1>1. ASSUME NEW i \in 1 .. Len(list) + 1, CreateRow(i) PROVE PullInv'
  BY <1>1, CreateKeeps
<1>2. ASSUME NEW i \in 1 .. Len(list), DeleteRow(i) PROVE PullInv'
  BY <1>2, DeleteKeeps
<1>3. CASE K8sPage
  BY <1>3, K8sPageKeeps
<1>4. CASE K8sPageFails
  BY <1>4, K8sPageFailsKeeps
<1>5. CASE AgentsPage
  BY <1>5, AgentsPageKeeps
<1>6. CASE ServerVulnsPage
  BY <1>6, ServerVulnsPageKeeps
<1>7. CASE IndexerPage
  BY <1>7, IndexerPageKeeps
<1>8. CASE RulesPage
  BY <1>8, RulesPageKeeps
<1>9. CASE RequestFails
  BY <1>9, RequestFailsKeeps
<1>10. CASE UNCHANGED pullVars
  BY <1>10 DEF pullVars, PullInv, PullShape, Paced, ReadOnce, OneSnapshot, WholeCovers,
               RepeatsExplained, TruncatedIsReal, Distinct, Missed, Again
<1> QED
  BY <1>1, <1>2, <1>3, <1>4, <1>5, <1>6, <1>7, <1>8, <1>9, <1>10 DEF PullNext

LEMMA PullInvIsSafe == PullInv => PagesSafe
<1> SUFFICES ASSUME PullInv PROVE PullTypeOK
  BY DEF PullInv, PagesSafe
<1>1. /\ puller \in Pullers /\ list \in Seq(1 .. fresh - 1) /\ snapshot \in Seq(1 .. fresh - 1)
      /\ pulled \in Seq(1 .. fresh - 1) /\ pages \in Nat
      /\ verdict \in {"none", "whole", "partial", "failed"}
      /\ pages <= PageCap + MaxRules + Window
  BY DEF PullInv, PullShape, Paced
<1>2. PageCap \in Nat /\ MaxRules \in Nat /\ Window \in Nat
  BY PullConstants
<1>3. pages \in 0 .. PageCap + MaxRules + Window
  BY <1>1, <1>2
<1>4. {list, snapshot, pulled} \subseteq Seq(1 .. fresh - 1)
  BY <1>1, Zenon
<1> QED
  BY <1>1, <1>3, <1>4 DEF PullTypeOK

-----------------------------------------------------------------------------
(* Pulls that visit one agent after the other.                             *)

ReadResults == {"rows", "empty", "404", "error"}

AgentShape ==
    /\ kind \in {"syscollector", "vulns", "ruleset"}
    /\ served \in Nat /\ served <= Least(AgentCount, MaxAgents)
    /\ reads \in Seq(ReadResults)
    /\ Len(reads) = 0 \/ Len(reads) < Len(Items)
    /\ todo \in Seq(Groups)
    /\ DOMAIN rowOf \subseteq Trimmed
    /\ missing \subseteq Trimmed /\ unread \subseteq Trimmed
    /\ DOMAIN cache \subseteq Groups
    /\ outcome = [a \in Trimmed |-> outcome[a]]

\* A failed read of the present agent is on record before its other reads end.
ErrorsNoted == \A i \in 1 .. Len(reads) : reads[i] = "error" => Present \in unread

\* What the rows of a ruleset pull say of a group is what the cache holds, which
\* never changes.
RowsCached ==
    kind = "ruleset" =>
        \A a \in DOMAIN rowOf :
            /\ DOMAIN rowOf[a].configs \subseteq DOMAIN cache
            /\ \A g \in DOMAIN rowOf[a].configs :
                 /\ rowOf[a].configs[g] = cache[g]
                 /\ rowOf[a].authoritative => cache[g].readable

AgentInv == AgentShape /\ ErrorsNoted /\ RowsCached /\ Accounted /\ NothingDropped

\* A map with one more entry.
Entered(new, map, key, value) ==
    /\ DOMAIN new = DOMAIN map \cup {key} /\ new[key] = value
    /\ \A x \in DOMAIN map : x # key => new[x] = map[x]

LEMMA PutIs == ASSUME NEW map, NEW key, NEW value PROVE Entered(Put(map, key, value), map, key, value)
BY DEF Put, Entered

LEMMA AgentStarts == AgentInit => AgentInv
<1> SUFFICES ASSUME AgentInit PROVE AgentInv
  OBVIOUS
<1> PICK none : none = <<>>
  OBVIOUS
<1>1. /\ kind \in {"syscollector", "vulns", "ruleset"} /\ served = 0
      /\ reads = none /\ todo = none /\ rowOf = none /\ cache = none
      /\ missing = {} /\ unread = {} /\ outcome = [a \in Trimmed |-> none]
  BY DEF AgentInit, NoReads
<1>2. none \in Seq(ReadResults) /\ none \in Seq(Groups) /\ Len(none) = 0 /\ DOMAIN none = {}
  OBVIOUS
<1>3. 0 <= Least(AgentCount, MaxAgents)
  BY AgentConstants DEF Least
<1>4. AgentShape
  BY <1>1, <1>2, <1>3 DEF AgentShape
<1>5. ErrorsNoted /\ RowsCached
  BY <1>1, <1>2 DEF ErrorsNoted, RowsCached
<1>6. 1 .. served = {}
  BY <1>1
<1>7. Accounted /\ NothingDropped
  BY <1>1, <1>2, <1>6 DEF Accounted, NothingDropped
<1> QED
  BY <1>4, <1>5, <1>7 DEF AgentInv

\* The next agent's turn.
LEMMA NextAgent ==
  ASSUME AgentShape, NEW k, Visiting(k)
  PROVE  /\ Present \in Nat \ {0} /\ served \in Nat /\ Present = served + 1
         /\ Present <= Least(AgentCount, MaxAgents)
         /\ 1 .. Present = (1 .. served) \cup {Present} /\ Present \notin 1 .. served
         /\ 1 .. Present \subseteq Trimmed
<1>1. Least(AgentCount, MaxAgents) \in Nat
  BY AgentConstants DEF Least
<1>2. served \in Nat /\ Present = served + 1 /\ Present \in 1 .. Least(AgentCount, MaxAgents)
  BY DEF AgentShape, Visiting, Present, Trimmed
<1> QED
  BY <1>1, <1>2 DEF Trimmed

LEMMA ReadItemKeeps ==
  ASSUME AgentInv, NEW o \in ReadResults, ReadItem(o)
  PROVE  AgentInv'
<1> PICK all : all = Append(reads, o)
  OBVIOUS
<1> PICK none : none = <<>>
  OBVIOUS
<1> PICK p : p = Present
  OBVIOUS
<1>1. AgentShape /\ Visiting("syscollector") /\ kind = "syscollector"
  BY DEF AgentInv, ReadItem, Visiting
<1>2. /\ p \in Nat \ {0} /\ served \in Nat /\ p = served + 1
      /\ p <= Least(AgentCount, MaxAgents)
      /\ 1 .. p = (1 .. served) \cup {p} /\ p \notin 1 .. served /\ 1 .. p \subseteq Trimmed
  BY <1>1, NextAgent
<1>3. /\ reads \in Seq(ReadResults) /\ Len(reads) \in Nat /\ Len(Items) \in Nat
      /\ DOMAIN Items = 1 .. Len(Items)
  BY AgentConstants DEF AgentInv, AgentShape
<1>4. /\ all \in Seq(ReadResults) /\ Len(all) = Len(reads) + 1
      /\ DOMAIN all = 1 .. Len(reads) + 1 /\ all[Len(reads) + 1] = o
      /\ \A i \in 1 .. Len(reads) : all[i] = reads[i]
  BY <1>3
<1>5. /\ unread' = IF o = "error" THEN unread \cup {p} ELSE unread
      /\ UNCHANGED <<kind, cache, config, configEdits, handed>>
  BY DEF ReadItem
<1>6. unread' \subseteq Trimmed /\ unread \subseteq unread'
  BY <1>1, <1>2, <1>5 DEF AgentShape
<1>7. \A i \in 1 .. Len(reads) + 1 : all[i] = "error" => p \in unread'
  <2> SUFFICES ASSUME NEW i \in 1 .. Len(reads) + 1, all[i] = "error" PROVE p \in unread'
    OBVIOUS
  <2>1. CASE i = Len(reads) + 1
    BY <2>1, <1>4, <1>5
  <2>2. CASE i # Len(reads) + 1
    <3>1. i \in 1 .. Len(reads)
      BY <2>2, <1>3
    <3>2. reads[i] = "error"
      BY <3>1, <1>4
    <3> QED
      BY <3>1, <3>2, <1>6 DEF AgentInv, ErrorsNoted
  <2> QED
    BY <2>1, <2>2
<1>8. RowsCached'
  BY <1>1, <1>5 DEF RowsCached
<1>9. CASE Len(all) < Len(Items)
  <2>1. reads' = all /\ UNCHANGED <<served, todo, outcome, rowOf, missing>>
    BY <1>9 DEF ReadItem
  <2>2. AgentShape'
    <3>1. Len(all) = 0 \/ Len(all) < Len(Items)
      BY <1>9
    <3> QED
      BY <3>1, <2>1, <1>1, <1>4, <1>5, <1>6 DEF AgentShape, Trimmed
  <2>3. ErrorsNoted'
    BY <2>1, <1>4, <1>7 DEF ErrorsNoted, Present
  <2>4. Accounted'
    BY <2>1, <1>1, <1>5 DEF AgentInv, Accounted
  <2>5. NothingDropped'
    BY <2>1, <1>5, <1>6 DEF AgentInv, NothingDropped
  <2> QED
    BY <2>2, <2>3, <2>4, <2>5, <1>8 DEF AgentInv
<1>10. CASE ~ (Len(all) < Len(Items))
  <2>1. /\ served' = p /\ reads' = none /\ todo' = none
        /\ outcome' = [outcome EXCEPT ![p] = all]
    BY <1>2, <1>10 DEF ReadItem, FileAgent, NoReads
  <2>2. /\ outcome' = [a \in Trimmed |-> outcome'[a]] /\ outcome'[p] = all
        /\ \A a \in Trimmed : a # p => outcome'[a] = outcome[a]
    <3>1. outcome = [a \in Trimmed |-> outcome[a]] /\ p \in Trimmed
      BY <1>1, <1>2 DEF AgentShape
    <3> QED
      BY <3>1, <2>1
  <2>3. none \in Seq(ReadResults) /\ none \in Seq(Groups) /\ Len(none) = 0
    OBVIOUS
  <2>4. ErrorsNoted'
    BY <2>1, <2>3 DEF ErrorsNoted
  <2>5. DOMAIN Items \subseteq DOMAIN all
    BY <1>3, <1>4, <1>10
  <2>6. 1 .. served = DOMAIN rowOf \cup missing /\ DOMAIN rowOf \cap missing = {}
    BY <1>1 DEF AgentInv, Accounted
  <2>7. /\ \A a \in missing \ unread : ToSet(outcome[a]) \subseteq {"empty", "404"}
        /\ \A a \in 1 .. served, i \in DOMAIN Items :
             outcome[a][i] = "rows" => a \in DOMAIN rowOf /\ i \in rowOf[a]
    BY <1>1 DEF AgentInv, NothingDropped
  <2>8. \A x : x \in ToSet(all) <=> \E i \in 1 .. Len(reads) + 1 : all[i] = x
    BY <1>4 DEF ToSet
  <2>9. CASE "rows" \in ToSet(all)
    <3>r. PICK row : row = {i \in DOMAIN all : all[i] = "rows"}
      OBVIOUS
    <3>1. rowOf' = Put(rowOf, p, row) /\ missing' = missing
      BY <2>9, <1>10, <3>r DEF ReadItem, WithRow
    <3>2. /\ DOMAIN rowOf' = DOMAIN rowOf \cup {p} /\ rowOf'[p] = row
          /\ \A a \in DOMAIN rowOf : a # p => rowOf'[a] = rowOf[a]
      <4>1. Entered(rowOf', rowOf, p, row)
        BY <3>1, PutIs
      <4> QED
        BY <4>1 DEF Entered
    <3>3. AgentShape'
      BY <3>1, <3>2, <2>1, <2>2, <2>3, <1>1, <1>2, <1>5, <1>6 DEF AgentShape, Trimmed
    <3>4. Accounted'
      BY <3>1, <3>2, <2>1, <2>6, <1>1, <1>2, <1>5 DEF Accounted
    <3>5. NothingDropped'
      <4>1. ASSUME NEW a \in missing \ unread' PROVE ToSet(outcome'[a]) \subseteq {"empty", "404"}
        <5>1. a \in missing \ unread /\ a \in Trimmed /\ a # p
          BY <2>6, <1>2, <1>6
        <5> QED
          BY <5>1, <2>2, <2>7
      <4>2. ASSUME NEW a \in 1 .. p, NEW i \in DOMAIN Items, outcome'[a][i] = "rows"
            PROVE  a \in DOMAIN rowOf' /\ i \in rowOf'[a]
        <5>1. CASE a = p
          BY <5>1, <4>2, <3>2, <3>r, <2>2, <2>5
        <5>2. CASE a # p
          <6>1. a \in 1 .. served /\ a \in Trimmed
            BY <5>2, <1>2
          <6>2. outcome[a][i] = "rows"
            BY <6>1, <5>2, <4>2, <2>2
          <6> QED
            BY <6>1, <6>2, <5>2, <3>2, <2>7
        <5> QED
          BY <5>1, <5>2
      <4> QED
        BY <4>1, <4>2, <3>1, <2>1 DEF NothingDropped
    <3> QED
      BY <3>3, <3>4, <3>5, <2>4, <1>8 DEF AgentInv
  <2>10. CASE "rows" \notin ToSet(all)
    <3>1. rowOf' = rowOf /\ missing' = missing \cup {p}
      BY <2>10, <1>10 DEF ReadItem
    <3>2. AgentShape'
      BY <3>1, <2>1, <2>2, <2>3, <1>1, <1>2, <1>5, <1>6 DEF AgentShape, Trimmed
    <3>3. Accounted'
      BY <3>1, <2>1, <2>6, <1>1, <1>2, <1>5 DEF Accounted
    <3>4. NothingDropped'
      <4>1. ASSUME NEW a \in missing' \ unread' PROVE ToSet(outcome'[a]) \subseteq {"empty", "404"}
        <5>1. CASE a = p
          <6>1. ASSUME NEW x \in ToSet(all) PROVE x \in {"empty", "404"}
            <7>1. PICK i \in 1 .. Len(reads) + 1 : all[i] = x
              BY <2>8
            <7>2. x \in ReadResults
              BY <7>1, <1>4, ElementOfSeq
            <7>3. x # "error"
              BY <7>1, <5>1, <4>1, <1>7
            <7> QED
              BY <7>2, <7>3, <2>10 DEF ReadResults
          <6> QED
            BY <6>1, <5>1, <2>2
        <5>2. CASE a # p
          <6>1. a \in missing \ unread /\ a \in Trimmed
            BY <5>2, <4>1, <3>1, <2>6, <1>2, <1>6
          <6> QED
            BY <6>1, <5>2, <2>2, <2>7
        <5> QED
          BY <5>1, <5>2
      <4>2. ASSUME NEW a \in 1 .. p, NEW i \in DOMAIN Items, outcome'[a][i] = "rows"
            PROVE  a \in DOMAIN rowOf' /\ i \in rowOf'[a]
        <5>1. a # p
          <6>1. ASSUME a = p PROVE FALSE
            <7>1. all[i] = "rows" /\ i \in 1 .. Len(reads) + 1
              BY <6>1, <4>2, <2>2, <2>5, <1>4
            <7> QED
              BY <7>1, <2>8, <2>10
          <6> QED
            BY <6>1
        <5>2. a \in 1 .. served /\ a \in Trimmed
          BY <5>1, <1>2
        <5>3. outcome[a][i] = "rows"
          BY <5>1, <5>2, <4>2, <2>2
        <5> QED
          BY <5>2, <5>3, <3>1, <2>7
      <4> QED
        BY <4>1, <4>2, <2>1 DEF NothingDropped
    <3> QED
      BY <3>2, <3>3, <3>4, <2>4, <1>8 DEF AgentInv
  <2> QED
    BY <2>9, <2>10
<1> QED
  BY <1>9, <1>10

LEMMA ReadVulnsKeeps ==
  ASSUME AgentInv, NEW o \in {"rows", "truncated", "empty", "404", "error"}, ReadVulns(o)
  PROVE  AgentInv'
<1> PICK none : none = <<>>
  OBVIOUS
<1> PICK p : p = Present
  OBVIOUS
<1>1. AgentShape /\ Visiting("vulns") /\ kind = "vulns"
  BY DEF AgentInv, ReadVulns, Visiting
<1>2. /\ p \in Nat \ {0} /\ served \in Nat /\ p = served + 1
      /\ p <= Least(AgentCount, MaxAgents)
      /\ 1 .. p = (1 .. served) \cup {p} /\ p \notin 1 .. served /\ 1 .. p \subseteq Trimmed
  BY <1>1, NextAgent
<1>3. /\ served' = p /\ reads' = none /\ todo' = none
      /\ outcome' = [outcome EXCEPT ![p] = <<o>>]
      /\ missing' = IF o \in {"empty", "404"} THEN missing \cup {p} ELSE missing
      /\ unread' = IF o = "error" THEN unread \cup {p} ELSE unread
      /\ UNCHANGED <<kind, cache, config, configEdits, handed>>
  BY <1>2 DEF ReadVulns, FileAgent, NoReads
<1>4. /\ outcome' = [a \in Trimmed |-> outcome'[a]] /\ ToSet(outcome'[p]) = {o}
      /\ \A a \in Trimmed : a # p => outcome'[a] = outcome[a]
  <2>1. outcome = [a \in Trimmed |-> outcome[a]] /\ p \in Trimmed
    BY <1>1, <1>2 DEF AgentShape
  <2>2. outcome'[p] = <<o>>
    BY <2>1, <1>3
  <2>3. ToSet(<<o>>) = {o}
    BY DEF ToSet
  <2> QED
    BY <2>1, <2>2, <2>3, <1>3
<1>5. DOMAIN rowOf' = IF o \in {"rows", "truncated"} THEN DOMAIN rowOf \cup {p} ELSE DOMAIN rowOf
  <2>1. rowOf' = IF o \in {"rows", "truncated"} THEN Put(rowOf, p, o) ELSE rowOf
    BY DEF ReadVulns, WithRow
  <2>2. Entered(Put(rowOf, p, o), rowOf, p, o)
    BY PutIs
  <2> QED
    BY <2>1, <2>2 DEF Entered
<1>6. none \in Seq(ReadResults) /\ none \in Seq(Groups) /\ Len(none) = 0
  OBVIOUS
<1>7. AgentShape'
  BY <1>1, <1>2, <1>3, <1>4, <1>5, <1>6 DEF AgentShape, Trimmed
<1>8. ErrorsNoted' /\ RowsCached'
  BY <1>1, <1>3, <1>6 DEF ErrorsNoted, RowsCached
<1>9. 1 .. served = DOMAIN rowOf \cup missing \cup unread /\ DOMAIN rowOf \cap missing = {}
  BY <1>1 DEF AgentInv, Accounted
<1>10. Accounted'
  BY <1>1, <1>2, <1>3, <1>5, <1>9 DEF Accounted
<1>11. NothingDropped'
  <2>1. \A a \in missing \ unread : ToSet(outcome[a]) \subseteq {"empty", "404"}
    BY <1>1 DEF AgentInv, NothingDropped
  <2>2. ASSUME NEW a \in missing' \ unread' PROVE ToSet(outcome'[a]) \subseteq {"empty", "404"}
    <3>1. CASE a = p
      <4>1. o \in {"empty", "404"}
        BY <3>1, <2>2, <1>2, <1>3, <1>9
      <4> QED
        BY <4>1, <3>1, <1>4
    <3>2. CASE a # p
      <4>1. a \in missing \ unread /\ a \in Trimmed
        BY <3>2, <2>2, <1>2, <1>3, <1>9
      <4> QED
        BY <4>1, <3>2, <2>1, <1>4
    <3> QED
      BY <3>1, <3>2
  <2> QED
    BY <2>2, <1>1, <1>3 DEF NothingDropped
<1> QED
  BY <1>7, <1>8, <1>10, <1>11 DEF AgentInv

\* The groups of an agent, in some order.
LEMMA GroupOrder == ASSUME NEW G \in SUBSET Groups PROVE SetToSeq(G) \in Seq(Groups)
<1>1. IsFiniteSet(G)
  BY AgentConstants, FS_Subset
<1>2. PICK n \in Nat : ExistsBijection(1 .. n, G)
  BY <1>1, FS_NatBijection
<1>3. Cardinality(G) = n
  BY <1>2, FS_CountingElements
<1>4. PICK f : f \in Bijection(1 .. n, G)
  BY <1>2 DEF ExistsBijection
<1>5. f \in [1 .. Cardinality(G) -> G] /\ IsInjective(f)
  BY <1>3, <1>4 DEF Bijection, Injection, IsInjective
<1>6. SetToSeq(G) \in [1 .. Cardinality(G) -> G]
  BY <1>5 DEF SetToSeq
<1> QED
  BY <1>3, <1>6

LEMMA ReadGroupsKeeps ==
  ASSUME AgentInv, NEW G \in SUBSET Groups, NEW o \in {"rows", "404", "error"}, ReadGroups(G, o)
  PROVE  AgentInv'
<1> PICK none : none = <<>>
  OBVIOUS
<1> PICK p : p = Present
  OBVIOUS
<1>1. AgentShape /\ Visiting("ruleset") /\ kind = "ruleset"
  BY DEF AgentInv, ReadGroups, Visiting
<1>2. /\ p \in Nat \ {0} /\ served \in Nat /\ p = served + 1
      /\ p <= Least(AgentCount, MaxAgents)
      /\ 1 .. p = (1 .. served) \cup {p} /\ p \notin 1 .. served /\ 1 .. p \subseteq Trimmed
  BY <1>1, NextAgent
<1>3. /\ unread' = IF o = "error" THEN unread \cup {p} ELSE unread
      /\ UNCHANGED <<kind, rowOf, cache, config, configEdits, handed>>
  BY DEF ReadGroups
<1>4. unread' \subseteq Trimmed /\ unread \subseteq unread'
  BY <1>1, <1>2, <1>3 DEF AgentShape
<1>5. RowsCached' /\ NothingDropped'
  BY <1>1, <1>3 DEF AgentInv, RowsCached, NothingDropped
<1>6. 1 .. served = DOMAIN rowOf \cup missing /\ DOMAIN rowOf \cap missing = {}
  BY <1>1 DEF AgentInv, Accounted
<1>7. CASE o = "rows" /\ G # {}
  <2>1. todo' = SetToSeq(G) /\ UNCHANGED <<served, reads, outcome, missing>>
    BY <1>7 DEF ReadGroups
  <2>2. todo' \in Seq(Groups)
    BY <2>1, GroupOrder
  <2>3. AgentShape'
    BY <2>1, <2>2, <1>1, <1>3, <1>4 DEF AgentShape, Trimmed
  <2>4. ErrorsNoted' /\ Accounted'
    BY <2>1, <1>1, <1>3, <1>4 DEF AgentInv, ErrorsNoted, Accounted, Present
  <2> QED
    BY <2>3, <2>4, <1>5 DEF AgentInv
<1>8. CASE ~ (o = "rows" /\ G # {})
  <2>1. /\ served' = p /\ reads' = none /\ todo' = none
        /\ outcome' = [outcome EXCEPT ![p] = <<o>>] /\ missing' = missing \cup {p}
    BY <1>2, <1>8 DEF ReadGroups, FileAgent, NoReads
  <2>2. outcome' = [a \in Trimmed |-> outcome'[a]]
    <3>1. outcome = [a \in Trimmed |-> outcome[a]]
      BY <1>1 DEF AgentShape
    <3> QED
      BY <3>1, <2>1
  <2>3. none \in Seq(ReadResults) /\ none \in Seq(Groups) /\ Len(none) = 0
    OBVIOUS
  <2>4. AgentShape'
    BY <2>1, <2>2, <2>3, <1>1, <1>2, <1>3, <1>4 DEF AgentShape, Trimmed
  <2>5. ErrorsNoted'
    BY <2>1, <2>3 DEF ErrorsNoted
  <2>6. Accounted'
    BY <2>1, <1>1, <1>2, <1>3, <1>6 DEF Accounted
  <2> QED
    BY <2>4, <2>5, <2>6, <1>5 DEF AgentInv
<1> QED
  BY <1>7, <1>8

\* The group whose configuration is fetched has none in the cache.
LEMMA NextGroupIs ==
  ASSUME todo \in Seq(Groups)
  PROVE  /\ \A g \in NextGroup : g \in Groups /\ g \notin DOMAIN cache
         /\ NextGroup = {} => ToSet(todo) \subseteq DOMAIN cache
<1> PICK n \in Nat : n = Len(todo)
  OBVIOUS
<1>1. DOMAIN todo = 1 .. n /\ \A i \in 1 .. n : todo[i] \in Groups
  BY ElementOfSeq
<1>2. CASE \E i \in DOMAIN todo : todo[i] \notin DOMAIN cache
  <2> PICK T : T = {i \in 1 .. n : todo[i] \notin DOMAIN cache}
    OBVIOUS
  <2>1. T \subseteq Nat /\ T # {}
    BY <1>1, <1>2
  <2>2. PICK x \in T : \A y \in T : x <= y
    BY <2>1, LeastNat
  <2>3. \A j \in 1 .. x - 1 : todo[j] \in DOMAIN cache
    <3> SUFFICES ASSUME NEW j \in 1 .. x - 1, todo[j] \notin DOMAIN cache PROVE FALSE
      OBVIOUS
    <3>1. x \in 1 .. n
      OBVIOUS
    <3>2. j \in 1 .. n /\ ~ (x <= j)
      BY <3>1
    <3> QED
      BY <3>2, <2>2
  <2>4. x \in DOMAIN todo /\ todo[x] \notin DOMAIN cache
    BY <1>1
  <2>5. \E i \in DOMAIN todo : /\ todo[i] \notin DOMAIN cache
                               /\ \A j \in 1 .. i - 1 : todo[j] \in DOMAIN cache
    BY <2>3, <2>4
  <2> PICK c : c = CHOOSE i \in DOMAIN todo :
                      /\ todo[i] \notin DOMAIN cache
                      /\ \A j \in 1 .. i - 1 : todo[j] \in DOMAIN cache
    OBVIOUS
  <2>6. c \in DOMAIN todo /\ todo[c] \notin DOMAIN cache
    BY <2>5, Zenon
  <2>7. NextGroup = {todo[c]}
    BY <1>2 DEF NextGroup
  <2> QED
    BY <2>6, <2>7, <1>1
<1>3. CASE ~ \E i \in DOMAIN todo : todo[i] \notin DOMAIN cache
  <2>1. NextGroup = {}
    BY <1>3 DEF NextGroup
  <2>2. ToSet(todo) \subseteq DOMAIN cache
    BY <1>3 DEF ToSet
  <2> QED
    BY <2>1, <2>2
<1> QED
  BY <1>2, <1>3

LEMMA ReadGroupConfigKeeps ==
  ASSUME AgentInv, NEW o \in {"rows", "error"}, ReadGroupConfig(o)
  PROVE  AgentInv'
<1>1. AgentShape /\ kind = "ruleset" /\ todo \in Seq(Groups)
  BY DEF AgentInv, AgentShape, ReadGroupConfig, Visiting
<1>2. PICK g \in NextGroup : cache' = Put(cache, g, ConfigRead(g, o))
  BY DEF ReadGroupConfig
<1>3. UNCHANGED <<kind, served, reads, todo, rowOf, missing, unread, config, configEdits, handed,
                  outcome>>
  BY DEF ReadGroupConfig
<1>4. g \in Groups /\ g \notin DOMAIN cache
  BY <1>1, NextGroupIs
<1>5. DOMAIN cache' = DOMAIN cache \cup {g} /\ \A h \in DOMAIN cache : cache'[h] = cache[h]
  <2>1. /\ DOMAIN cache' = DOMAIN cache \cup {g} /\ cache'[g] = ConfigRead(g, o)
        /\ \A h \in DOMAIN cache : h # g => cache'[h] = cache[h]
    <3>1. Entered(cache', cache, g, ConfigRead(g, o))
      BY <1>2, PutIs
    <3> QED
      BY <3>1 DEF Entered
  <2> QED
    BY <2>1, <1>4
<1>6. AgentShape'
  BY <1>1, <1>3, <1>4, <1>5 DEF AgentShape, Trimmed
<1>7. RowsCached'
  <2> SUFFICES ASSUME NEW a \in DOMAIN rowOf
               PROVE  /\ DOMAIN rowOf[a].configs \subseteq DOMAIN cache'
                      /\ \A h \in DOMAIN rowOf[a].configs :
                           /\ rowOf[a].configs[h] = cache'[h]
                           /\ rowOf[a].authoritative => cache'[h].readable
    BY <1>3 DEF RowsCached
  <2>1. /\ DOMAIN rowOf[a].configs \subseteq DOMAIN cache
        /\ \A h \in DOMAIN rowOf[a].configs :
             /\ rowOf[a].configs[h] = cache[h]
             /\ rowOf[a].authoritative => cache[h].readable
    BY <1>1 DEF AgentInv, RowsCached
  <2> QED
    BY <2>1, <1>5
<1>8. ErrorsNoted' /\ Accounted' /\ NothingDropped'
  BY <1>3 DEF AgentInv, ErrorsNoted, Accounted, NothingDropped, Present
<1> QED
  BY <1>6, <1>7, <1>8 DEF AgentInv

LEMMA ReadActiveResponseKeeps ==
  ASSUME AgentInv, NEW o \in {"rows", "error"}, ReadActiveResponse(o)
  PROVE  AgentInv'
<1> PICK none : none = <<>>
  OBVIOUS
<1> PICK p : p = Present
  OBVIOUS
<1>1. AgentShape /\ Visiting("ruleset") /\ kind = "ruleset" /\ todo \in Seq(Groups)
  BY DEF AgentInv, AgentShape, ReadActiveResponse, Visiting
<1>2. /\ p \in Nat \ {0} /\ served \in Nat /\ p = served + 1
      /\ p <= Least(AgentCount, MaxAgents)
      /\ 1 .. p = (1 .. served) \cup {p} /\ p \notin 1 .. served /\ 1 .. p \subseteq Trimmed
  BY <1>1, NextAgent
<1>3. /\ served' = p /\ reads' = none /\ todo' = none
      /\ outcome' = [outcome EXCEPT ![p] = <<o>>]
      /\ UNCHANGED <<kind, missing, unread, cache, config, configEdits, handed>>
  BY <1>2 DEF ReadActiveResponse, FileAgent, NoReads
<1>c. PICK configs : configs = [g \in ToSet(todo) |-> cache[g]]
  OBVIOUS
<1>s. PICK sure \in BOOLEAN :
        sure = (o = "rows" /\ \A g \in DOMAIN configs : configs[g].readable)
  OBVIOUS
<1>r. PICK row : row = [configs |-> configs, authoritative |-> sure]
  OBVIOUS
<1>4. rowOf' = Put(rowOf, p, row)
  BY <1>c, <1>s, <1>r DEF ReadActiveResponse, WithRow
<1>5. /\ DOMAIN rowOf' = DOMAIN rowOf \cup {p} /\ rowOf'[p] = row
      /\ \A a \in DOMAIN rowOf : a # p => rowOf'[a] = rowOf[a]
  <2>1. Entered(rowOf', rowOf, p, row)
    BY <1>4, PutIs
  <2> QED
    BY <2>1 DEF Entered
<1>6. ToSet(todo) \subseteq DOMAIN cache
  BY <1>1, NextGroupIs DEF ReadActiveResponse
<1>7. /\ row.configs = configs /\ row.authoritative = sure
      /\ DOMAIN configs \subseteq DOMAIN cache
      /\ \A g \in DOMAIN configs : configs[g] = cache[g]
  BY <1>6, <1>c, <1>r
<1>8. sure => \A g \in DOMAIN configs : cache[g].readable
  BY <1>7, <1>s
<1>9. RowsCached'
  <2> SUFFICES ASSUME NEW a \in DOMAIN rowOf'
               PROVE  /\ DOMAIN rowOf'[a].configs \subseteq DOMAIN cache
                      /\ \A h \in DOMAIN rowOf'[a].configs :
                           /\ rowOf'[a].configs[h] = cache[h]
                           /\ rowOf'[a].authoritative => cache[h].readable
    BY <1>3 DEF RowsCached
  <2>1. CASE a = p
    BY <2>1, <1>5, <1>7, <1>8
  <2>2. CASE a # p
    <3>1. a \in DOMAIN rowOf /\ rowOf'[a] = rowOf[a]
      BY <2>2, <1>5
    <3>2. /\ DOMAIN rowOf[a].configs \subseteq DOMAIN cache
          /\ \A h \in DOMAIN rowOf[a].configs :
               /\ rowOf[a].configs[h] = cache[h]
               /\ rowOf[a].authoritative => cache[h].readable
      BY <3>1, <1>1 DEF AgentInv, RowsCached
    <3> QED
      BY <3>1, <3>2
  <2> QED
    BY <2>1, <2>2
<1>10. outcome' = [a \in Trimmed |-> outcome'[a]]
  <2>1. outcome = [a \in Trimmed |-> outcome[a]]
    BY <1>1 DEF AgentShape
  <2> QED
    BY <2>1, <1>3
<1>11. none \in Seq(ReadResults) /\ none \in Seq(Groups) /\ Len(none) = 0
  OBVIOUS
<1>12. AgentShape'
  BY <1>1, <1>2, <1>3, <1>5, <1>10, <1>11 DEF AgentShape, Trimmed
<1>13. ErrorsNoted' /\ NothingDropped'
  BY <1>1, <1>3, <1>11 DEF ErrorsNoted, NothingDropped
<1>14. 1 .. served = DOMAIN rowOf \cup missing /\ DOMAIN rowOf \cap missing = {}
  BY <1>1 DEF AgentInv, Accounted
<1>15. Accounted'
  BY <1>1, <1>2, <1>3, <1>5, <1>14 DEF Accounted
<1> QED
  BY <1>9, <1>12, <1>13, <1>15 DEF AgentInv

LEMMA AgentStep == AgentInv /\ [AgentNext]_agentVars => AgentInv'
<1> SUFFICES ASSUME AgentInv, [AgentNext]_agentVars PROVE AgentInv'
  OBVIOUS
<1>1. ASSUME NEW o \in {"rows", "empty", "404", "error"}, ReadItem(o) PROVE AgentInv'
  BY <1>1, ReadItemKeeps DEF ReadResults
<1>2. ASSUME NEW o \in {"rows", "truncated", "empty", "404", "error"}, ReadVulns(o) PROVE AgentInv'
  BY <1>2, ReadVulnsKeeps
<1>3. ASSUME NEW G \in SUBSET Groups, NEW o \in {"rows", "404", "error"}, ReadGroups(G, o)
      PROVE  AgentInv'
  BY <1>3, ReadGroupsKeeps
<1>4. ASSUME NEW o \in {"rows", "error"}, ReadGroupConfig(o) PROVE AgentInv'
  BY <1>4, ReadGroupConfigKeeps
<1>5. ASSUME NEW o \in {"rows", "error"}, ReadActiveResponse(o) PROVE AgentInv'
  BY <1>5, ReadActiveResponseKeeps
<1>6. ASSUME NEW g \in Groups, EditConfig(g) PROVE AgentInv'
  BY <1>6 DEF EditConfig, AgentInv, AgentShape, ErrorsNoted, RowsCached, Accounted,
              NothingDropped, Present, Trimmed
<1>7. CASE UNCHANGED agentVars
  BY <1>7 DEF agentVars, AgentInv, AgentShape, ErrorsNoted, RowsCached, Accounted,
              NothingDropped, Present, Trimmed
<1> QED
  BY <1>1, <1>2, <1>3, <1>4, <1>5, <1>6, <1>7 DEF AgentNext

LEMMA AgentInvIsSafe == AgentInv => AgentTypeOK /\ Accounted /\ NothingDropped /\ GroupsAgree
<1> SUFFICES ASSUME AgentInv PROVE AgentTypeOK /\ GroupsAgree
  BY DEF AgentInv
<1>1. AgentTypeOK
  <2>1. AgentCount \in Nat /\ MaxAgents \in Nat
    BY AgentConstants
  <2>2. served \in Nat /\ served <= Least(AgentCount, MaxAgents)
    BY DEF AgentInv, AgentShape
  <2>3. served \in 0 .. AgentCount
    BY <2>1, <2>2 DEF Least
  <2> QED
    BY <2>3 DEF AgentInv, AgentShape, AgentTypeOK
<1>2. GroupsAgree
  <2> SUFFICES ASSUME kind = "ruleset", NEW a \in DOMAIN rowOf, NEW b \in DOMAIN rowOf,
                      NEW g \in DOMAIN rowOf[a].configs \cap DOMAIN rowOf[b].configs
               PROVE  /\ rowOf[a].configs[g] = rowOf[b].configs[g]
                      /\ rowOf[a].authoritative => rowOf[b].configs[g].readable
    BY DEF GroupsAgree
  <2>1. /\ rowOf[a].configs[g] = cache[g] /\ rowOf[b].configs[g] = cache[g]
        /\ rowOf[a].authoritative => cache[g].readable
    BY DEF AgentInv, RowsCached
  <2> QED
    BY <2>1
<1> QED
  BY <1>1, <1>2

(* wazuh_agents_pull, fetchAgentVulnsViaServerApi, fetchAgentVulnsViaIndexer,
   fetchManagerRulesetSummary, pullOneResource, wazuh_syscollector_pull,
   wazuh_vulns_pull and wazuh_ruleset_pull, whatever the list, its changes, the
   limits and the failing reads: a pull that calls itself whole shows every row
   that was there all the time but for one per deletion before its offset, one
   that calls itself truncated has left a row unread, every agent visited is in
   the result or named in its metadata, and all rows agree about a group. *)
THEOREM PullsAreSafe == PullSpec /\ AgentSpec => []PullsSafe
<1>1. PullSpec => []PullInv
  BY PullStarts, PullStep, PTL DEF PullSpec
<1>2. AgentSpec => []AgentInv
  BY AgentStarts, AgentStep, PTL DEF AgentSpec
<1>3. PullInv /\ AgentInv => PullsSafe
  BY PullInvIsSafe, AgentInvIsSafe DEF PullsSafe
<1> QED
  BY <1>1, <1>2, <1>3, PTL

-----------------------------------------------------------------------------
(* The stream of a run's frames.                                           *)

Wired == Frames \cup {Terminal}

StreamRecord ==
    [pc : {"closed", "list", "replay", "check", "drain", "tail"}, seen : SUBSET Frames,
     todo : Seq(Frames), queue : Seq(Frames), out : Seq(Frames), ended : BOOLEAN,
     replayed : SUBSET Frames, by : {"none", "drain", "tail"}]

Executors == {"dag", "complete", "fire", "over", "crashed"}

StreamShape ==
    /\ streamNode \in [Nodes -> {"running", "streaming", "done", "failed"}]
    /\ frame \in [Frames -> {"none", "persist", "publish", "out"}]
    /\ stepSeq \in Nat /\ stepSeq <= Len(emitted)
    /\ seq \in [Frames -> 0 .. Cardinality(Frames)]
    /\ emitted \in Seq(Frames)
    /\ inTime \in Nat /\ inTime <= Len(emitted)
    /\ stepRows \subseteq Frames
    /\ executor \in Executors
    /\ execRow \in {"running", "terminal"}
    /\ meta \in BOOLEAN
    /\ wire \in Seq(Wired)
    /\ stream \in StreamRecord
    /\ opens \in 0 .. MaxOpens
    /\ settled \subseteq Frames

Once(s) == \A i, j \in 1 .. Len(s) : s[i] = s[j] => i = j

\* Frames are numbered as they are emitted, each once.
Numbering ==
    /\ Once(emitted)
    /\ \A i \in 1 .. Len(emitted) : frame[emitted[i]] # "none"
    /\ executor # "over" => stepSeq = Len(emitted)
    /\ \A i \in 1 .. Len(emitted) :
         (executor # "over" \/ i <= inTime) => seq[emitted[i]] = i

\* A frame is on record before it goes out, and a node is done after that; the
\* run completes, its row first, then the event, then the tenant forgotten.
Progressed ==
    /\ \A f \in Frames : frame[f] \in {"publish", "out"} <=> f \in stepRows
    /\ \A n \in Nodes : streamNode[n] = "done" => frame[<<n, "output">>] = "out"
    /\ \A f \in settled : frame[f] = "out"
    /\ executor = "dag" => settled = {}
    /\ executor \in {"fire", "over"} => execRow = "terminal"
    /\ ~meta => executor = "over"
    /\ ~untagged

\* On the wire the terminal event is behind every frame of a node that was done.
TerminalLast ==
    /\ InSeq(Terminal, wire) \/ stream.ended => executor = "over"
    /\ \A i, j \in 1 .. Len(wire) : (wire[i] \in settled /\ wire[j] = Terminal) => i < j
    /\ stream.ended => \A f \in settled : ~InSeq(f, wire)
    /\ \A f \in Frames : InSeq(f, wire) => frame[f] = "out"

\* What a stream has seen it has handed out or will, each frame once.
SeenOnce ==
    /\ \A f \in Frames : f \in stream.seen <=> InSeq(f, stream.out) \/ InSeq(f, stream.queue)
    /\ Once(stream.out) /\ Once(stream.queue)
    /\ \A f \in Frames : ~(InSeq(f, stream.out) /\ InSeq(f, stream.queue))
    /\ \A f \in stream.replayed : f \in stream.seen \/ InSeq(f, stream.todo)
    /\ stream.pc # "replay" => stream.todo = <<>>
    /\ stream.pc = "closed" => stream.queue = <<>>

\* From the replay read on, a stream misses nothing that is out, unless the bus or
\* the read does.
Caught ==
    missed = {} =>
        /\ stream.pc \notin {"closed", "list"} =>
             \A f \in Frames : frame[f] = "out" =>
               InSeq(f, wire) \/ f \in stream.seen \/ f \in stream.replayed
        /\ (stream.pc = "closed" /\ stream.by = "tail") => settled \subseteq stream.seen

StreamInv ==
    /\ StreamShape /\ Numbering /\ Progressed /\ TerminalLast /\ SeenOnce /\ Caught
    /\ stream.by = "tail" => executor = "over"

LEMMA FramesAre ==
    /\ IsFiniteSet(Frames) /\ Cardinality(Frames) \in Nat
    /\ Terminal \notin Frames
    /\ \A n \in Nodes : <<n, "output">> \in Frames
    /\ \A f \in Frames : f[2] = "output" => f[1] \in Nodes /\ f = <<f[1], "output">>
<1>1. IsFiniteSet(Nodes) /\ IsFiniteSet(Emitters) /\ IsFiniteSet({"output"}) /\ IsFiniteSet({"emit"})
  BY StreamConstants, FS_Subset, FS_Singleton
<1>2. IsFiniteSet(Nodes \X {"output"}) /\ IsFiniteSet(Emitters \X {"emit"})
  BY <1>1, FS_Product
<1>3. IsFiniteSet(Frames)
  BY <1>2, FS_Union DEF Frames
<1>4. Cardinality(Frames) \in Nat
  BY <1>3, FS_CardinalityType
<1>5. Terminal \notin Frames
  BY DEF Terminal, Frames
<1>6. \A n \in Nodes : <<n, "output">> \in Frames
  BY DEF Frames
<1>7. ASSUME NEW f \in Frames, f[2] = "output" PROVE f[1] \in Nodes /\ f = <<f[1], "output">>
  BY <1>7 DEF Frames
<1> QED
  BY <1>3, <1>4, <1>5, <1>6, <1>7

\* What a sequence holds with one more element, and with its first one taken.
LEMMA InAppend ==
    ASSUME NEW S, NEW s \in Seq(S), NEW e \in S
    PROVE  /\ Append(s, e) \in Seq(S) /\ Len(Append(s, e)) = Len(s) + 1 /\ Len(s) \in Nat
           /\ \A i \in 1 .. Len(s) : Append(s, e)[i] = s[i]
           /\ Append(s, e)[Len(s) + 1] = e
           /\ \A x : InSeq(x, Append(s, e)) <=> InSeq(x, s) \/ x = e
           /\ Once(s) /\ ~InSeq(e, s) => Once(Append(s, e))
<1>1. /\ Append(s, e) \in Seq(S) /\ Len(Append(s, e)) = Len(s) + 1 /\ Len(s) \in Nat
      /\ \A i \in 1 .. Len(s) : Append(s, e)[i] = s[i]
      /\ Append(s, e)[Len(s) + 1] = e
      /\ DOMAIN s = 1 .. Len(s)
  OBVIOUS
<1>2. DOMAIN Append(s, e) = 1 .. Len(s) + 1
  BY <1>1
<1>3. ASSUME NEW x PROVE InSeq(x, Append(s, e)) <=> InSeq(x, s) \/ x = e
  <2>1. ASSUME InSeq(x, Append(s, e)) PROVE InSeq(x, s) \/ x = e
    <3>1. PICK i \in 1 .. Len(s) + 1 : Append(s, e)[i] = x
      BY <2>1, <1>2 DEF InSeq
    <3>2. i \in 1 .. Len(s) \/ i = Len(s) + 1
      BY <1>1
    <3> QED
      BY <3>1, <3>2, <1>1 DEF InSeq
  <2>2. ASSUME InSeq(x, s) \/ x = e PROVE InSeq(x, Append(s, e))
    <3>1. PICK i \in 1 .. Len(s) + 1 : Append(s, e)[i] = x
      BY <2>2, <1>1 DEF InSeq
    <3> QED
      BY <3>1, <1>2 DEF InSeq
  <2> QED
    BY <2>1, <2>2
<1>4. ASSUME Once(s), ~InSeq(e, s), NEW i \in 1 .. Len(Append(s, e)), NEW j \in 1 .. Len(Append(s, e)),
             Append(s, e)[i] = Append(s, e)[j]
      PROVE  i = j
  <2>1. (i \in 1 .. Len(s) \/ i = Len(s) + 1) /\ (j \in 1 .. Len(s) \/ j = Len(s) + 1)
    BY <1>1
  <2>2. \A k \in 1 .. Len(s) : s[k] # e
    BY <1>4, <1>1 DEF InSeq
  <2> QED
    BY <2>1, <2>2, <1>1, <1>4 DEF Once
<1> QED
  BY <1>1, <1>3, <1>4 DEF Once

LEMMA InTail ==
    ASSUME NEW S, NEW s \in Seq(S), s # <<>>
    PROVE  /\ Head(s) \in S /\ Tail(s) \in Seq(S) /\ Len(s) \in Nat /\ Len(s) >= 1
           /\ Len(Tail(s)) = Len(s) - 1 /\ Head(s) = s[1]
           /\ \A i \in 1 .. Len(Tail(s)) : Tail(s)[i] = s[i + 1] /\ i + 1 \in 1 .. Len(s)
           /\ \A x : InSeq(x, s) <=> x = Head(s) \/ InSeq(x, Tail(s))
           /\ Once(s) => Once(Tail(s)) /\ ~InSeq(Head(s), Tail(s))
<1>1. /\ Head(s) \in S /\ Tail(s) \in Seq(S) /\ Len(s) \in Nat /\ Len(s) >= 1
      /\ Len(Tail(s)) = Len(s) - 1 /\ Head(s) = s[1]
      /\ DOMAIN s = 1 .. Len(s)
  OBVIOUS
<1>2. \A i \in 1 .. Len(Tail(s)) : Tail(s)[i] = s[i + 1] /\ i + 1 \in 1 .. Len(s)
  BY <1>1
<1>3. DOMAIN Tail(s) = 1 .. Len(Tail(s))
  BY <1>1
<1>4. ASSUME NEW x PROVE InSeq(x, s) <=> x = Head(s) \/ InSeq(x, Tail(s))
  <2>1. ASSUME InSeq(x, s) PROVE x = Head(s) \/ InSeq(x, Tail(s))
    <3>1. PICK i \in 1 .. Len(s) : s[i] = x
      BY <2>1, <1>1 DEF InSeq
    <3>2. CASE i = 1
      BY <3>1, <3>2, <1>1
    <3>3. CASE i # 1
      <4>1. i - 1 \in 1 .. Len(Tail(s)) /\ (i - 1) + 1 = i
        BY <3>1, <3>3, <1>1
      <4> QED
        BY <4>1, <3>1, <1>2, <1>3 DEF InSeq
    <3> QED
      BY <3>2, <3>3
  <2>2. ASSUME x = Head(s) \/ InSeq(x, Tail(s)) PROVE InSeq(x, s)
    <3>1. PICK i \in 1 .. Len(s) : s[i] = x
      BY <2>2, <1>1, <1>2, <1>3 DEF InSeq
    <3> QED
      BY <3>1, <1>1 DEF InSeq
  <2> QED
    BY <2>1, <2>2
<1>5. ASSUME Once(s) PROVE Once(Tail(s)) /\ ~InSeq(Head(s), Tail(s))
  <2>1. ASSUME NEW i \in 1 .. Len(Tail(s)), NEW j \in 1 .. Len(Tail(s)), Tail(s)[i] = Tail(s)[j] PROVE i = j
    BY <2>1, <1>1, <1>2, <1>5 DEF Once
  <2>2. ASSUME NEW i \in 1 .. Len(Tail(s)), Tail(s)[i] = Head(s) PROVE FALSE
    <3>1. i + 1 \in 1 .. Len(s) /\ 1 \in 1 .. Len(s) /\ s[i + 1] = s[1] /\ i + 1 # 1
      BY <2>2, <1>1, <1>2
    <3> QED
      BY <3>1, <1>5 DEF Once
  <2> QED
    BY <2>1, <2>2, <1>3 DEF Once, InSeq
<1> QED
  BY <1>1, <1>2, <1>4, <1>5

LEMMA StreamStarts == StreamInit => StreamInv
<1> SUFFICES ASSUME StreamInit PROVE StreamInv
  OBVIOUS
<1>0. PICK e : e = <<>>
  OBVIOUS
<1>1. /\ e \in Seq(Frames) /\ e \in Seq(Wired) /\ Len(e) = 0 /\ Once(e) /\ \A x : ~InSeq(x, e)
  BY <1>0 DEF Once, InSeq
<1>2. /\ NoStream \in StreamRecord /\ NoStream.pc = "closed" /\ NoStream.seen = {}
      /\ NoStream.todo = e /\ NoStream.queue = e /\ NoStream.out = e /\ NoStream.ended = FALSE
      /\ NoStream.replayed = {} /\ NoStream.by = "none"
  BY <1>0, <1>1 DEF NoStream, StreamRecord
<1>3. /\ emitted = e /\ wire = e /\ stream = NoStream
  BY <1>0 DEF StreamInit
<1>4. StreamShape
  BY <1>1, <1>2, <1>3, FramesAre, StreamConstants DEF StreamInit, StreamShape, Executors
<1>5. Numbering
  BY <1>1, <1>3 DEF StreamInit, Numbering
<1>6. Progressed
  BY FramesAre DEF StreamInit, Progressed
<1>7. TerminalLast
  BY <1>1, <1>2, <1>3 DEF TerminalLast
<1>8. SeenOnce
  BY <1>0, <1>1, <1>2, <1>3 DEF SeenOnce
<1>9. Caught
  BY <1>2, <1>3 DEF Caught
<1> QED
  BY <1>2, <1>3, <1>4, <1>5, <1>6, <1>7, <1>8, <1>9 DEF StreamInv

LEMMA FewFrames ==
    ASSUME NEW s \in Seq(Frames), Once(s)
    PROVE  Len(s) \in Nat /\ Len(s) <= Cardinality(Frames)
<1>1. Len(s) \in Nat /\ s \in [1 .. Len(s) -> Frames]
  OBVIOUS
<1>2. IsFiniteSet(1 .. Len(s)) /\ Cardinality(1 .. Len(s)) = Len(s)
  BY <1>1, FS_Interval
<1>3. ASSUME Cardinality(Frames) < Len(s) PROVE FALSE
  <2>1. \E i, j \in 1 .. Len(s) : i # j /\ s[i] = s[j]
    BY <1>1, <1>2, <1>3, FramesAre, FS_PigeonHole
  <2> QED
    BY <2>1 DEF Once
<1> QED
  BY <1>1, <1>3, FramesAre

\* A step of the worker that leaves the wire and the stream alone, and after which
\* no more frames are out.
LEMMA AsideKeeps ==
    ASSUME StreamInv, StreamShape', Numbering', Progressed',
           UNCHANGED <<wire, stream, missed>>,
           \A f \in Frames : frame'[f] = "out" <=> frame[f] = "out",
           executor = "over" => executor' = "over",
           UNCHANGED settled \/ executor = "dag"
    PROVE  StreamInv'
<1>1. TerminalLast'
  <2>1. executor = "dag" => ~InSeq(Terminal, wire) /\ ~stream.ended
    BY DEF StreamInv, TerminalLast
  <2>2. executor = "dag" => \A j \in 1 .. Len(wire) : wire[j] # Terminal
    BY <2>1, DOMAIN wire = 1 .. Len(wire) DEF InSeq, StreamInv, StreamShape
  <2> QED
    BY <2>1, <2>2 DEF StreamInv, TerminalLast, InSeq
<1>2. SeenOnce'
  BY DEF StreamInv, SeenOnce, InSeq
<1>3. Caught'
  BY DEF StreamInv, Caught, InSeq
<1>4. stream'.by = "tail" => executor' = "over"
  BY DEF StreamInv
<1> QED
  BY <1>1, <1>2, <1>3, <1>4 DEF StreamInv

LEMMA EmitKeeps ==
    ASSUME StreamInv, NEW f \in Frames, EmitStep(f), executor # "crashed",
           UNCHANGED <<inTime, stepRows, executor, execRow, meta, wire, stream,
                       opens, lossy, settled, missed, runCancelled, untagged>>,
           streamNode' \in [Nodes -> {"running", "streaming", "done", "failed"}],
           \A n \in Nodes : streamNode'[n] = "done" => streamNode[n] = "done"
    PROVE  StreamInv'
<1>s. StreamShape /\ Numbering /\ Progressed
  BY DEF StreamInv
<1>1. /\ frame' = [frame EXCEPT ![f] = "persist"] /\ frame[f] = "none"
      /\ frame' \in [Frames -> {"none", "persist", "publish", "out"}]
      /\ frame'[f] = "persist" /\ \A g \in Frames : g # f => frame'[g] = frame[g]
  BY <1>s DEF EmitStep, StreamShape
<1>2. ~InSeq(f, emitted) /\ DOMAIN emitted = 1 .. Len(emitted) /\ emitted \in Seq(Frames)
  BY <1>s, <1>1, SMTT(20) DEF Numbering, InSeq, StreamShape
<1>3. /\ emitted' = Append(emitted, f) /\ emitted' \in Seq(Frames)
      /\ Len(emitted') = Len(emitted) + 1 /\ Len(emitted) \in Nat
      /\ \A i \in 1 .. Len(emitted) : emitted'[i] = emitted[i] /\ emitted[i] # f
      /\ emitted'[Len(emitted) + 1] = f
      /\ Once(emitted')
  <2>1. emitted' = Append(emitted, f) /\ Once(emitted)
    BY <1>s DEF EmitStep, Numbering
  <2>2. \A i \in 1 .. Len(emitted) : emitted[i] # f
    BY <1>2 DEF InSeq
  <2> QED
    BY <2>1, <2>2, <1>2, InAppend
<1>4. Len(emitted') <= Cardinality(Frames)
  BY <1>3, FewFrames
<1>5. /\ stepSeq' = stepSeq + 1 /\ stepSeq' \in Nat /\ stepSeq' <= Len(emitted')
      /\ stepSeq' \in 0 .. Cardinality(Frames)
  BY <1>s, <1>3, <1>4, FramesAre DEF EmitStep, StreamShape
<1>6. /\ seq' = [seq EXCEPT ![f] = stepSeq + 1] /\ seq' \in [Frames -> 0 .. Cardinality(Frames)]
      /\ seq'[f] = stepSeq + 1 /\ \A g \in Frames : g # f => seq'[g] = seq[g]
  BY <1>s, <1>5 DEF EmitStep, StreamShape
<1>7. StreamShape'
  BY <1>s, <1>1, <1>3, <1>5, <1>6 DEF StreamShape
<1>8. Numbering'
  <2>1. \A i \in 1 .. Len(emitted) : emitted[i] \in Frames
    BY <1>2
  <2>2. ASSUME NEW i \in 1 .. Len(emitted') PROVE i \in 1 .. Len(emitted) \/ i = Len(emitted) + 1
    BY <1>3
  <2>3. \A i \in 1 .. Len(emitted') : frame'[emitted'[i]] # "none"
    BY <2>1, <2>2, <1>s, <1>1, <1>3 DEF Numbering
  <2>4. executor' # "over" => stepSeq' = Len(emitted')
    BY <1>s, <1>3, <1>5 DEF Numbering
  <2>5. ASSUME NEW i \in 1 .. Len(emitted'), executor' # "over" \/ i <= inTime'
        PROVE  seq'[emitted'[i]] = i
    <3>1. CASE i \in 1 .. Len(emitted)
      <4>1. seq'[emitted'[i]] = seq[emitted[i]]
        BY <3>1, <2>1, <1>3, <1>6
      <4> QED
        BY <4>1, <3>1, <2>5, <1>s DEF Numbering
    <3>2. CASE i = Len(emitted) + 1
      <4>1. executor # "over"
        BY <3>2, <2>5, <1>s, <1>3 DEF StreamShape
      <4> QED
        BY <4>1, <3>2, <1>s, <1>3, <1>6 DEF Numbering
    <3> QED
      BY <3>1, <3>2, <2>2
  <2> QED
    BY <1>3, <2>3, <2>4, <2>5 DEF Numbering
<1>9. Progressed'
  <2>1. \A n \in Nodes : <<n, "output">> \in Frames
    BY FramesAre
  <2>2. \A g \in Frames : frame'[g] \in {"publish", "out"} <=> g \in stepRows'
    BY <1>s, <1>1 DEF Progressed
  <2>3. \A n \in Nodes : streamNode'[n] = "done" => frame'[<<n, "output">>] = "out"
    BY <2>1, <1>s, <1>1 DEF Progressed
  <2>4. \A g \in settled' : frame'[g] = "out"
    BY <1>s, <1>1 DEF Progressed, StreamShape
  <2> QED
    BY <2>2, <2>3, <2>4, <1>s DEF Progressed
<1> QED
  BY <1>1, <1>7, <1>8, <1>9, AsideKeeps

LEMMA PluginEmitKeeps == ASSUME StreamInv, NEW n \in Nodes, PluginEmit(n) PROVE StreamInv'
  BY EmitKeeps DEF PluginEmit, StreamInv, StreamShape

LEMMA NodeOutputKeeps == ASSUME StreamInv, NEW n \in Nodes, NodeOutput(n) PROVE StreamInv'
<1>1. <<n, "output">> \in Frames
  BY FramesAre
<1>2. streamNode' = [streamNode EXCEPT ![n] = "streaming"]
  BY DEF NodeOutput
<1>3. /\ streamNode' \in [Nodes -> {"running", "streaming", "done", "failed"}]
      /\ \A m \in Nodes : streamNode'[m] = "done" => streamNode[m] = "done"
  BY <1>2 DEF StreamInv, StreamShape
<1> QED
  BY <1>1, <1>3, EmitKeeps DEF NodeOutput

\* The frames of the nodes that are done when the run leaves its graph.
LEMMA SettledOut ==
    ASSUME StreamInv, NEW M \in SUBSET Nodes, \A m \in M : streamNode[m] = "done"
    PROVE  /\ {<<m, "output">> : m \in M} \subseteq Frames
           /\ \A f \in {<<m, "output">> : m \in M} : frame[f] = "out"
  BY FramesAre DEF StreamInv, Progressed

LEMMA NodeFailsKeeps == ASSUME StreamInv, NEW n \in Nodes, NodeFails(n) PROVE StreamInv'
<1>s. StreamShape /\ Numbering /\ Progressed
  BY DEF StreamInv
<1>u. UNCHANGED <<frame, stepSeq, seq, emitted, inTime, stepRows, execRow,
                  meta, wire, stream, opens, missed, untagged>>
  BY DEF NodeFails
<1>1. /\ streamNode' \in [Nodes -> {"running", "streaming", "done", "failed"}]
      /\ \A m \in Nodes : streamNode'[m] = "done" => streamNode[m] = "done"
  BY <1>s DEF NodeFails, StreamShape
<1>2. /\ executor' = IF executor = "dag" THEN "complete" ELSE executor
      /\ executor' \in Executors
  BY <1>s DEF NodeFails, StreamShape, Executors
<1>3. /\ executor # "dag" => settled' = settled
      /\ settled' \subseteq Frames /\ \A f \in settled' : frame[f] = "out"
  <2>1. CASE executor = "dag"
    <3>1. PICK M \in SUBSET Nodes : M = {k \in Nodes : streamNode[k] = "done"}
      OBVIOUS
    <3>2. settled' = {<<m, "output">> : m \in M}
      BY <2>1, <3>1 DEF NodeFails
    <3> QED
      BY <2>1, <3>1, <3>2, SettledOut
  <2>2. CASE executor # "dag"
    BY <2>2, <1>s DEF NodeFails, StreamShape, Progressed
  <2> QED
    BY <2>1, <2>2
<1>4. StreamShape'
  BY <1>s, <1>u, <1>1, <1>2, <1>3 DEF StreamShape
<1>5. Numbering'
  BY <1>s, <1>u, <1>2 DEF Numbering
<1>6. Progressed'
  BY <1>s, <1>u, <1>1, <1>2, <1>3 DEF Progressed
<1> QED
  BY <1>u, <1>2, <1>3, <1>4, <1>5, <1>6, AsideKeeps

LEMMA DagDoneKeeps == ASSUME StreamInv, DagDone PROVE StreamInv'
<1>s. StreamShape /\ Numbering /\ Progressed
  BY DEF StreamInv
<1>u. /\ UNCHANGED <<streamNode, frame, stepSeq, seq, emitted, inTime, stepRows, execRow,
                     meta, wire, stream, opens, missed, untagged>>
      /\ executor = "dag" /\ executor' = "complete"
  BY DEF DagDone
<1>1. settled' \subseteq Frames /\ \A f \in settled' : frame[f] = "out"
  BY SettledOut DEF DagDone
<1>2. StreamShape' /\ Numbering' /\ Progressed'
  BY <1>s, <1>u, <1>1 DEF StreamShape, Numbering, Progressed, Executors
<1> QED
  BY <1>u, <1>2, AsideKeeps

LEMMA RecordStepKeeps == ASSUME StreamInv, NEW f \in Frames, RecordStep(f) PROVE StreamInv'
<1>s. StreamShape /\ Numbering /\ Progressed
  BY DEF StreamInv
<1>u. UNCHANGED <<streamNode, stepSeq, seq, emitted, inTime, executor, execRow,
                  meta, wire, stream, opens, settled, missed, untagged>>
  BY DEF RecordStep
<1>1. /\ frame' \in [Frames -> {"none", "persist", "publish", "out"}] /\ frame[f] = "persist"
      /\ frame'[f] = "publish" /\ \A g \in Frames : g # f => frame'[g] = frame[g]
  BY <1>s DEF RecordStep, StreamShape
<1>2. stepRows' = stepRows \cup {f}
  BY DEF RecordStep
<1>3. StreamShape'
  BY <1>s, <1>u, <1>1, <1>2 DEF StreamShape
<1>4. Numbering'
  <2>1. \A i \in 1 .. Len(emitted) : emitted[i] \in Frames
    BY <1>s DEF StreamShape
  <2> QED
    BY <2>1, <1>s, <1>u, <1>1 DEF Numbering
<1>5. Progressed'
  <2>1. \A n \in Nodes : <<n, "output">> \in Frames
    BY FramesAre
  <2> QED
    BY <2>1, <1>s, <1>u, <1>1, <1>2 DEF Progressed, StreamShape
<1> QED
  BY <1>u, <1>1, <1>3, <1>4, <1>5, AsideKeeps

LEMMA CompleteKeeps == ASSUME StreamInv, Complete PROVE StreamInv'
<1>s. StreamShape /\ Numbering /\ Progressed
  BY DEF StreamInv
<1>u. /\ UNCHANGED <<streamNode, frame, stepSeq, seq, emitted, inTime, stepRows,
                     meta, wire, stream, opens, settled, missed, untagged>>
      /\ executor = "complete" /\ executor' = "fire" /\ execRow' = "terminal"
  BY DEF Complete
<1>1. StreamShape' /\ Numbering' /\ Progressed'
  BY <1>s, <1>u DEF StreamShape, Numbering, Progressed, Executors
<1> QED
  BY <1>u, <1>1, AsideKeeps

LEMMA WorkerCrashKeeps == ASSUME StreamInv, WorkerCrash PROVE StreamInv'
<1>s. StreamShape /\ Numbering /\ Progressed
  BY DEF StreamInv
<1>u. /\ UNCHANGED <<streamNode, frame, stepSeq, seq, emitted, inTime, stepRows,
                     execRow, meta, wire, stream, opens, settled, missed, untagged>>
      /\ executor \in {"dag", "complete", "fire"} /\ executor' = "crashed"
  BY DEF WorkerCrash
<1>1. StreamShape' /\ Numbering' /\ Progressed'
  BY <1>s, <1>u DEF StreamShape, Numbering, Progressed, Executors
<1> QED
  BY <1>u, <1>1, AsideKeeps

LEMMA StaleSweepKeeps == ASSUME StreamInv, StaleSweep PROVE StreamInv'
<1>s. StreamShape /\ Numbering /\ Progressed
  BY DEF StreamInv
<1>u. /\ UNCHANGED <<streamNode, frame, stepSeq, seq, emitted, inTime, stepRows,
                     executor, meta, wire, stream, opens, settled, missed, untagged>>
      /\ executor = "crashed" /\ execRow' = "terminal"
  BY DEF StaleSweep
<1>1. StreamShape' /\ Numbering' /\ Progressed'
  BY <1>s, <1>u DEF StreamShape, Numbering, Progressed, Executors
<1> QED
  BY <1>u, <1>1, AsideKeeps

\* An event reaches the wire.
LEMMA EventWired ==
    ASSUME StreamShape, NEW event \in Wired, wire' = Append(wire, event)
    PROVE  /\ wire' \in Seq(Wired) /\ Len(wire') = Len(wire) + 1 /\ Len(wire) \in Nat
           /\ \A i \in 1 .. Len(wire) : wire'[i] = wire[i]
           /\ wire'[Len(wire) + 1] = event
           /\ \A x : InSeq(x, wire') <=> InSeq(x, wire) \/ x = event
  BY InAppend DEF StreamShape

\* Nothing is said of an event that was lost.
LEMMA LostIsMissed == ASSUME NEW event, missed' = missed \cup {event} PROVE missed' # {}
  OBVIOUS

LEMMA FireStepKeeps == ASSUME StreamInv, NEW f \in Frames, FireStep(f) PROVE StreamInv'
<1>s. StreamShape /\ Numbering /\ Progressed /\ TerminalLast /\ SeenOnce /\ Caught
  BY DEF StreamInv
<1>u. /\ UNCHANGED <<stepSeq, seq, emitted, inTime, stepRows, executor, execRow,
                     meta, stream, opens, settled>>
      /\ FireEvent(f) /\ frame[f] = "publish"
  BY DEF FireStep
<1>1. /\ frame' \in [Frames -> {"none", "persist", "publish", "out"}]
      /\ frame'[f] = "out" /\ \A g \in Frames : g # f => frame'[g] = frame[g]
  BY <1>s DEF FireStep, StreamShape
<1>2. /\ streamNode' \in [Nodes -> {"running", "streaming", "done", "failed"}]
      /\ \A n \in Nodes : streamNode'[n] = "done" =>
           streamNode[n] = "done" \/ <<n, "output">> = f
  <2>1. CASE f[2] = "output"
    <3>1. f[1] \in Nodes /\ f = <<f[1], "output">>
      BY <2>1, FramesAre
    <3>2. streamNode' = [streamNode EXCEPT ![f[1]] = "done"]
      BY <2>1 DEF FireStep
    <3> QED
      BY <3>1, <3>2, <1>s DEF StreamShape
  <2>2. CASE f[2] # "output"
    BY <2>2, <1>s DEF FireStep, StreamShape
  <2> QED
    BY <2>1, <2>2
<1>3. f \in Wired /\ f # Terminal /\ f \notin settled
  BY FramesAre, <1>s, <1>u DEF Wired, Progressed
<1>4. /\ wire' \in Seq(Wired)
      /\ \A x : InSeq(x, wire') => InSeq(x, wire) \/ x = f
      /\ \A x : InSeq(x, wire) => InSeq(x, wire')
      /\ missed' = {} => missed = {} /\ InSeq(f, wire')
      /\ Len(wire) \in Nat
      /\ \A i \in 1 .. Len(wire') : wire'[i] = f \/ (i \in 1 .. Len(wire) /\ wire'[i] = wire[i])
  <2>1. CASE wire' = Append(wire, f) /\ UNCHANGED missed
    <3>1. /\ wire' \in Seq(Wired) /\ Len(wire') = Len(wire) + 1 /\ Len(wire) \in Nat
          /\ \A i \in 1 .. Len(wire) : wire'[i] = wire[i]
          /\ wire'[Len(wire) + 1] = f
          /\ \A x : InSeq(x, wire') <=> InSeq(x, wire) \/ x = f
      BY <2>1, <1>s, <1>3, EventWired
    <3>2. \A i \in 1 .. Len(wire') : i = Len(wire) + 1 \/ i \in 1 .. Len(wire)
      BY <3>1
    <3> QED
      BY <3>1, <3>2, <2>1
  <2>2. CASE missed' = missed \cup {f} /\ UNCHANGED wire
    BY <2>2, <1>s, LostIsMissed DEF StreamShape
  <2> QED
    BY <2>1, <2>2, <1>u DEF FireEvent
<1>5. StreamShape'
  BY <1>s, <1>u, <1>1, <1>2, <1>4 DEF StreamShape
<1>6. Numbering'
  <2>1. \A i \in 1 .. Len(emitted) : emitted[i] \in Frames
    BY <1>s DEF StreamShape
  <2> QED
    BY <2>1, <1>s, <1>u, <1>1 DEF Numbering
<1>7. Progressed'
  <2>1. \A n \in Nodes : <<n, "output">> \in Frames
    BY FramesAre
  <2>2. ~untagged'
    BY <1>s DEF FireStep, Progressed
  <2>3. \A g \in Frames : frame'[g] \in {"publish", "out"} <=> g \in stepRows'
    BY <1>s, <1>u, <1>1 DEF Progressed
  <2>4. \A n \in Nodes : streamNode'[n] = "done" => frame'[<<n, "output">>] = "out"
    BY <2>1, <1>s, <1>1, <1>2 DEF Progressed
  <2>5. \A g \in settled' : frame'[g] = "out"
    BY <1>s, <1>u, <1>1 DEF Progressed, StreamShape
  <2> QED
    BY <2>2, <2>3, <2>4, <2>5, <1>s, <1>u DEF Progressed
<1>8. TerminalLast'
  <2>1. ASSUME NEW i \in 1 .. Len(wire'), NEW j \in 1 .. Len(wire'),
               wire'[i] \in settled, wire'[j] = Terminal
        PROVE  i < j
    <3>1. /\ i \in 1 .. Len(wire) /\ wire[i] \in settled
          /\ j \in 1 .. Len(wire) /\ wire[j] = Terminal
      BY <2>1, <1>3, <1>4
    <3> QED
      BY <3>1, <1>s DEF TerminalLast
  <2>2. \A g \in Frames : InSeq(g, wire') => frame'[g] = "out"
    BY <1>s, <1>1, <1>4 DEF TerminalLast
  <2>3. InSeq(Terminal, wire') => InSeq(Terminal, wire)
    BY <1>3, <1>4
  <2>4. \A g \in settled : InSeq(g, wire') => InSeq(g, wire)
    BY <1>3, <1>4
  <2> QED
    BY <2>1, <2>2, <2>3, <2>4, <1>s, <1>u DEF TerminalLast
<1>9. SeenOnce'
  BY <1>s, <1>u DEF SeenOnce, InSeq
<1>10. Caught'
  BY <1>s, <1>u, <1>1, <1>4 DEF Caught
<1> QED
  BY <1>5, <1>6, <1>7, <1>8, <1>9, <1>10, <1>u DEF StreamInv

LEMMA FireTerminalKeeps == ASSUME StreamInv, FireTerminal PROVE StreamInv'
<1>s. StreamShape /\ Numbering /\ Progressed /\ TerminalLast /\ SeenOnce /\ Caught
  BY DEF StreamInv
<1>u. /\ UNCHANGED <<streamNode, frame, seq, emitted, stepRows, execRow, stream,
                     opens, settled, untagged>>
      /\ executor = "fire" /\ executor' = "over" /\ meta' = FALSE /\ stepSeq' = 0
      /\ inTime' = Len(emitted)
  BY DEF FireTerminal
<1>1. Terminal \in Wired /\ Terminal \notin Frames
  BY FramesAre DEF Wired
<1>2. /\ ~InSeq(Terminal, wire) /\ ~stream.ended
  BY <1>s, <1>u DEF TerminalLast
<1>3. /\ wire' \in Seq(Wired) /\ Len(wire) \in Nat
      /\ \A f \in Frames : InSeq(f, wire') <=> InSeq(f, wire)
      /\ missed' = {} => missed = {}
      /\ \A i \in 1 .. Len(wire') :
           \/ i \in 1 .. Len(wire) /\ wire'[i] = wire[i] /\ wire[i] # Terminal
           \/ i = Len(wire) + 1 /\ wire'[i] = Terminal
  <2>0. \A i \in 1 .. Len(wire) : wire[i] # Terminal
    BY <1>s, <1>2, DOMAIN wire = 1 .. Len(wire) DEF InSeq, StreamShape
  <2>1. CASE wire' = Append(wire, Terminal) /\ UNCHANGED missed
    <3>1. /\ wire' \in Seq(Wired) /\ Len(wire') = Len(wire) + 1 /\ Len(wire) \in Nat
          /\ \A i \in 1 .. Len(wire) : wire'[i] = wire[i]
          /\ wire'[Len(wire) + 1] = Terminal
          /\ \A x : InSeq(x, wire') <=> InSeq(x, wire) \/ x = Terminal
      BY <2>1, <1>s, <1>1, EventWired
    <3>2. \A i \in 1 .. Len(wire') : i = Len(wire) + 1 \/ i \in 1 .. Len(wire)
      BY <3>1
    <3> QED
      BY <3>1, <3>2, <2>0, <2>1, <1>1
  <2>2. CASE missed' = missed \cup {Terminal} /\ UNCHANGED wire
    BY <2>0, <2>2, <1>s, LostIsMissed DEF StreamShape
  <2>3. CASE UNCHANGED <<wire, missed>>
    BY <2>0, <2>3, <1>s DEF StreamShape
  <2>4. \/ wire' = Append(wire, Terminal) /\ missed' = missed
        \/ missed' = missed \cup {Terminal} /\ wire' = wire
        \/ wire' = wire /\ missed' = missed
    <3>1. CASE FireEvent(Terminal)
      BY <3>1 DEF FireEvent
    <3>2. CASE UNCHANGED <<wire, missed>>
      BY <3>2
    <3> QED
      BY <3>1, <3>2 DEF FireTerminal
  <2> QED
    BY <2>1, <2>2, <2>3, <2>4
<1>4. StreamShape'
  <2>1. Len(emitted) \in Nat
    BY <1>s DEF StreamShape
  <2>2. /\ stepSeq' \in Nat /\ stepSeq' <= Len(emitted')
        /\ inTime' \in Nat /\ inTime' <= Len(emitted')
    BY <2>1, <1>u
  <2>3. executor' \in Executors /\ meta' \in BOOLEAN
    BY <1>u DEF Executors
  <2> QED
    BY <2>2, <2>3, <1>s, <1>u, <1>3 DEF StreamShape
<1>5. Numbering'
  BY <1>s, <1>u DEF Numbering, StreamShape
<1>6. Progressed'
  BY <1>s, <1>u DEF Progressed
<1>7. TerminalLast'
  <2>1. ASSUME NEW i \in 1 .. Len(wire'), NEW j \in 1 .. Len(wire'),
               wire'[i] \in settled, wire'[j] = Terminal
        PROVE  i < j
    <3>1. wire'[i] # Terminal
      BY <2>1, <1>s, <1>1 DEF StreamShape
    <3> QED
      BY <3>1, <2>1, <1>3
  <2> QED
    BY <2>1, <1>s, <1>u, <1>2, <1>3 DEF TerminalLast
<1>8. SeenOnce'
  BY <1>s, <1>u DEF SeenOnce, InSeq
<1>9. Caught'
  BY <1>s, <1>u, <1>3 DEF Caught
<1> QED
  BY <1>4, <1>5, <1>6, <1>7, <1>8, <1>9, <1>u DEF StreamInv

\* Steps of the bus and the stream leave the worker alone.
LEMMA WorkerStays ==
    ASSUME StreamInv, UNCHANGED worker,
           wire' \in Seq(Wired), stream' \in StreamRecord, opens' \in 0 .. MaxOpens
    PROVE  StreamShape' /\ Numbering' /\ Progressed'
  BY DEF StreamInv, StreamShape, Numbering, Progressed, worker

\* An event leaves the wire.
LEMMA EventTaken ==
    ASSUME StreamInv, wire # <<>>, wire' = Tail(wire), UNCHANGED worker,
           stream'.ended => stream.ended \/ Head(wire) = Terminal
    PROVE  /\ wire' \in Seq(Wired) /\ Head(wire) \in Wired
           /\ \A x : InSeq(x, wire) <=> x = Head(wire) \/ InSeq(x, wire')
           /\ TerminalLast'
<1>s. StreamShape /\ TerminalLast
  BY DEF StreamInv
<1>u. UNCHANGED <<executor, settled, frame>>
  BY DEF worker
<1>1. /\ Head(wire) \in Wired /\ wire' \in Seq(Wired) /\ Len(wire) \in Nat /\ Len(wire) >= 1
      /\ Len(wire') = Len(wire) - 1 /\ Head(wire) = wire[1]
      /\ \A i \in 1 .. Len(wire') : wire'[i] = wire[i + 1] /\ i + 1 \in 1 .. Len(wire)
      /\ \A x : InSeq(x, wire) <=> x = Head(wire) \/ InSeq(x, wire')
  BY <1>s, InTail DEF StreamShape
<1>2. ASSUME NEW i \in 1 .. Len(wire'), NEW j \in 1 .. Len(wire'),
             wire'[i] \in settled, wire'[j] = Terminal
      PROVE  i < j
  <2>1. i + 1 < j + 1
    BY <1>1, <1>2, <1>s DEF TerminalLast
  <2> QED
    BY <2>1, <1>1
<1>3. ASSUME Head(wire) = Terminal, NEW f \in settled, InSeq(f, wire') PROVE FALSE
  <2>1. PICK i \in 1 .. Len(wire') : wire'[i] = f
    BY <1>1, <1>3, DOMAIN wire' = 1 .. Len(wire') DEF InSeq
  <2>2. wire[i + 1] \in settled /\ wire[1] = Terminal /\ i + 1 \in 1 .. Len(wire) /\ 1 \in 1 .. Len(wire)
    BY <2>1, <1>1, <1>3
  <2>3. i + 1 < 1
    BY <2>2, <1>s DEF TerminalLast
  <2> QED
    BY <2>1, <2>3, <1>1
<1>4. InSeq(Terminal, wire') \/ stream'.ended => executor' = "over"
  BY <1>1, <1>s, <1>u DEF TerminalLast
<1>5. stream'.ended => \A f \in settled' : ~InSeq(f, wire')
  BY <1>1, <1>3, <1>s, <1>u DEF TerminalLast
<1>6. \A f \in Frames : InSeq(f, wire') => frame'[f] = "out"
  BY <1>1, <1>s, <1>u DEF TerminalLast
<1> QED
  BY <1>1, <1>2, <1>4, <1>5, <1>6, <1>u DEF TerminalLast

LEMMA DropEventKeeps == ASSUME StreamInv, DropEvent PROVE StreamInv'
<1>s. StreamShape /\ SeenOnce /\ Caught
  BY DEF StreamInv
<1>u. wire # <<>> /\ wire' = Tail(wire) /\ UNCHANGED <<worker, stream, opens>> /\ missed' # {}
  BY LostIsMissed DEF DropEvent
<1>1. wire' \in Seq(Wired) /\ TerminalLast'
  BY <1>u, EventTaken
<1>2. StreamShape' /\ Numbering' /\ Progressed'
  BY <1>s, <1>u, <1>1, WorkerStays DEF StreamShape
<1>3. SeenOnce' /\ Caught'
  BY <1>s, <1>u DEF SeenOnce, Caught, InSeq
<1> QED
  BY <1>u, <1>1, <1>2, <1>3 DEF StreamInv, worker

LEMMA OnEventKeeps == ASSUME StreamInv, OnEvent PROVE StreamInv'
<1>s. StreamShape /\ SeenOnce /\ Caught /\ stream \in StreamRecord
  BY DEF StreamInv, StreamShape
<1>u. wire # <<>> /\ wire' = Tail(wire) /\ UNCHANGED <<worker, opens, missed>>
  BY DEF OnEvent
<1>v. UNCHANGED <<executor, settled, frame>>
  BY <1>u DEF worker
<1>e. Head(wire) \in Wired
  BY <1>s, <1>u, InTail DEF StreamShape
<1>1. CASE stream.pc # "closed" /\ Head(wire) # Terminal /\ Head(wire) \notin stream.seen
  <2>1. PICK e \in Frames : e = Head(wire)
    BY <1>1, <1>e DEF Wired
  <2>2. stream' = [stream EXCEPT !.seen = @ \cup {e}, !.queue = Append(@, e)]
    BY <1>1, <2>1 DEF OnEvent
  <2>3. /\ stream.queue \in Seq(Frames) /\ e \notin stream.seen
        /\ ~InSeq(e, stream.queue) /\ ~InSeq(e, stream.out)
    BY <1>1, <1>s, <2>1 DEF StreamRecord, SeenOnce
  <2>4. PICK q : q = Append(stream.queue, e)
    OBVIOUS
  <2>5. /\ q \in Seq(Frames) /\ \A x : InSeq(x, q) <=> InSeq(x, stream.queue) \/ x = e
        /\ Once(q)
    BY <1>s, <2>3, <2>4, InAppend DEF SeenOnce
  <2>6. /\ stream' \in StreamRecord /\ stream'.seen = stream.seen \cup {e} /\ stream'.queue = q
        /\ stream'.out = stream.out /\ stream'.pc = stream.pc /\ stream'.ended = stream.ended
        /\ stream'.todo = stream.todo /\ stream'.replayed = stream.replayed
        /\ stream'.by = stream.by
    BY <1>s, <2>2, <2>4, <2>5 DEF StreamRecord
  <2>7. wire' \in Seq(Wired) /\ TerminalLast' /\ \A x : InSeq(x, wire) <=> x = e \/ InSeq(x, wire')
    BY <1>u, <2>1, <2>6, EventTaken
  <2>8. StreamShape' /\ Numbering' /\ Progressed'
    BY <1>s, <1>u, <2>6, <2>7, WorkerStays DEF StreamShape
  <2>9. SeenOnce'
    BY <1>1, <1>s, <2>3, <2>5, <2>6 DEF SeenOnce
  <2>10. Caught'
    BY <1>1, <1>s, <1>u, <1>v, <2>6, <2>7 DEF Caught
  <2> QED
    BY <1>v, <2>6, <2>7, <2>8, <2>9, <2>10 DEF StreamInv
<1>2. CASE stream.pc = "closed" \/ Head(wire) = Terminal \/ Head(wire) \in stream.seen
  <2>1. stream' = stream \/ stream' = [stream EXCEPT !.ended = TRUE]
    BY <1>2 DEF OnEvent
  <2>2. stream' # stream => stream.pc # "closed" /\ Head(wire) = Terminal
    BY <1>2 DEF OnEvent
  <2>3. /\ stream' \in StreamRecord /\ stream'.seen = stream.seen /\ stream'.queue = stream.queue
        /\ stream'.out = stream.out /\ stream'.pc = stream.pc
        /\ stream'.todo = stream.todo /\ stream'.replayed = stream.replayed
        /\ stream'.by = stream.by
        /\ stream'.ended => stream.ended \/ Head(wire) = Terminal
    BY <1>s, <2>1, <2>2 DEF StreamRecord
  <2>4. wire' \in Seq(Wired) /\ TerminalLast' /\ \A x : InSeq(x, wire) <=> x = Head(wire) \/ InSeq(x, wire')
    BY <1>u, <2>3, EventTaken
  <2>5. StreamShape' /\ Numbering' /\ Progressed'
    BY <1>s, <1>u, <2>3, <2>4, WorkerStays DEF StreamShape
  <2>6. SeenOnce'
    BY <1>s, <2>3 DEF SeenOnce
  <2>7. Caught'
    <3>1. stream.pc # "closed" => Head(wire) \notin Frames \/ Head(wire) \in stream.seen
      BY <1>2, FramesAre
    <3> QED
      BY <3>1, <1>s, <1>u, <1>v, <2>3, <2>4 DEF Caught
  <2> QED
    BY <1>v, <2>3, <2>4, <2>5, <2>6, <2>7 DEF StreamInv
<1> QED
  BY <1>1, <1>2

\* A step of the stream alone.
LEMMA StreamAlone ==
    ASSUME StreamInv, UNCHANGED <<worker, wire>>, stream' \in StreamRecord,
           opens' \in 0 .. MaxOpens, stream'.ended => stream.ended
    PROVE  StreamShape' /\ Numbering' /\ Progressed' /\ TerminalLast'
<1>1. StreamShape' /\ Numbering' /\ Progressed'
  BY WorkerStays DEF StreamInv, StreamShape
<1>2. TerminalLast'
  BY DEF StreamInv, TerminalLast, worker, InSeq
<1> QED
  BY <1>1, <1>2

LEMMA BlankStream ==
    /\ NoStream \in StreamRecord /\ NoStream.pc = "closed" /\ NoStream.seen = {}
    /\ NoStream.todo = <<>> /\ NoStream.queue = <<>> /\ NoStream.out = <<>>
    /\ NoStream.ended = FALSE /\ NoStream.replayed = {} /\ NoStream.by = "none"
    /\ \A x : ~InSeq(x, <<>>) /\ Once(<<>>)
<1>1. <<>> \in Seq(Frames) /\ \A x : ~InSeq(x, <<>>)
  BY DEF InSeq
<1>2. Once(<<>>)
  BY DEF Once
<1> QED
  BY <1>1, <1>2 DEF NoStream, StreamRecord

LEMMA FreshStream ==
    ASSUME StreamInv, UNCHANGED <<worker, wire, missed>>, opens' \in 0 .. MaxOpens,
           NEW pc \in {"closed", "list"}, stream' = [NoStream EXCEPT !.pc = pc]
    PROVE  StreamInv'
<1>0. PICK e : e = <<>>
  OBVIOUS
<1>1. /\ stream' \in StreamRecord /\ stream'.pc = pc /\ stream'.seen = {}
      /\ stream'.todo = e /\ stream'.queue = e /\ stream'.out = e
      /\ stream'.ended = FALSE /\ stream'.replayed = {} /\ stream'.by = "none"
      /\ \A x : ~InSeq(x, e) /\ Once(e)
  BY <1>0, BlankStream DEF StreamRecord
<1>2. StreamShape' /\ Numbering' /\ Progressed' /\ TerminalLast'
  BY <1>1, StreamAlone
<1>3. SeenOnce' /\ Caught'
  BY <1>0, <1>1 DEF SeenOnce, Caught
<1> QED
  BY <1>1, <1>2, <1>3 DEF StreamInv

LEMMA OpenStreamKeeps == ASSUME StreamInv, OpenStream PROVE StreamInv'
<1>1. opens' \in 0 .. MaxOpens
  BY StreamConstants DEF OpenStream, StreamInv, StreamShape
<1> QED
  BY <1>1, FreshStream DEF OpenStream

LEMMA DisconnectKeeps == ASSUME StreamInv, Disconnect PROVE StreamInv'
<1>1. stream' = [NoStream EXCEPT !.pc = "closed"]
  BY BlankStream DEF Disconnect, NoStream
<1> QED
  BY <1>1, FreshStream DEF Disconnect, StreamInv, StreamShape

LEMMA ListStepsKeeps == ASSUME StreamInv, ListSteps PROVE StreamInv'
<1>s. /\ StreamShape /\ SeenOnce /\ Caught /\ Progressed /\ stream \in StreamRecord
      /\ stepRows \subseteq Frames
  BY DEF StreamInv, StreamShape
<1>u. UNCHANGED <<worker, wire, opens>> /\ stream.pc = "list"
  BY DEF ListSteps
<1>v. UNCHANGED <<executor, settled, frame, stepRows>>
  BY <1>u DEF worker
<1>1. ASSUME NEW q \in ByTime(stepRows), UNCHANGED missed,
             stream' = [stream EXCEPT !.pc = "replay", !.replayed = stepRows, !.todo = q]
      PROVE  StreamInv'
  <2>1. IsFiniteSet(stepRows) /\ Cardinality(stepRows) \in Nat
    BY <1>s, FramesAre, FS_Subset, FS_CardinalityType
  <2>2. q \in Seq(Frames) /\ \A f \in stepRows : InSeq(f, q)
    BY <2>1, <1>s DEF ByTime
  <2>3. /\ stream' \in StreamRecord /\ stream'.pc = "replay" /\ stream'.replayed = stepRows
        /\ stream'.todo = q /\ stream'.seen = stream.seen /\ stream'.queue = stream.queue
        /\ stream'.out = stream.out /\ stream'.ended = stream.ended /\ stream'.by = stream.by
    BY <1>1, <1>s, <2>2 DEF StreamRecord
  <2>4. StreamShape' /\ Numbering' /\ Progressed' /\ TerminalLast'
    BY <1>s, <1>u, <2>3, StreamAlone DEF StreamShape
  <2>5. SeenOnce'
    BY <1>s, <2>2, <2>3 DEF SeenOnce
  <2>6. Caught'
    BY <1>s, <1>v, <2>3 DEF Caught, Progressed
  <2> QED
    BY <1>v, <2>3, <2>4, <2>5, <2>6 DEF StreamInv
<1>2. CASE stream' = [stream EXCEPT !.pc = "check"] /\ missed' = missed \cup stepRows
  <2>1. /\ stream' \in StreamRecord /\ stream'.pc = "check" /\ stream'.replayed = stream.replayed
        /\ stream'.todo = stream.todo /\ stream'.seen = stream.seen
        /\ stream'.queue = stream.queue /\ stream'.out = stream.out
        /\ stream'.ended = stream.ended /\ stream'.by = stream.by
    BY <1>2, <1>s DEF StreamRecord
  <2>2. StreamShape' /\ Numbering' /\ Progressed' /\ TerminalLast'
    BY <1>s, <1>u, <2>1, StreamAlone DEF StreamShape
  <2>3. SeenOnce'
    BY <1>s, <1>u, <2>1 DEF SeenOnce
  <2>4. missed' = {} => \A f \in Frames : frame[f] # "out"
    BY <1>2, <1>s DEF Progressed
  <2>5. Caught'
    BY <1>v, <2>1, <2>4 DEF Caught
  <2> QED
    BY <1>v, <2>1, <2>2, <2>3, <2>5 DEF StreamInv
<1>3. \/ \E q \in ByTime(stepRows) :
           /\ stream' = [stream EXCEPT !.pc = "replay", !.replayed = stepRows, !.todo = q]
           /\ UNCHANGED missed
      \/ stream' = [stream EXCEPT !.pc = "check"] /\ missed' = missed \cup stepRows
  BY DEF ListSteps
<1> QED
  BY <1>1, <1>2, <1>3

LEMMA ReplayKeeps == ASSUME StreamInv, Replay PROVE StreamInv'
<1>s. /\ StreamShape /\ SeenOnce /\ Caught /\ stream \in StreamRecord
      /\ stream.todo \in Seq(Frames) /\ stream.out \in Seq(Frames)
  BY DEF StreamInv, StreamShape, StreamRecord
<1>u. UNCHANGED <<worker, wire, opens, missed>> /\ stream.pc = "replay"
  BY DEF Replay
<1>v. UNCHANGED <<executor, settled, frame>>
  BY <1>u DEF worker
<1>1. CASE stream.todo = <<>>
  <2>1. stream' = [stream EXCEPT !.pc = "check"]
    BY <1>1 DEF Replay
  <2>2. /\ stream' \in StreamRecord /\ stream'.pc = "check" /\ stream'.replayed = stream.replayed
        /\ stream'.todo = stream.todo /\ stream'.seen = stream.seen
        /\ stream'.queue = stream.queue /\ stream'.out = stream.out
        /\ stream'.ended = stream.ended /\ stream'.by = stream.by
    BY <2>1, <1>s DEF StreamRecord
  <2>3. StreamShape' /\ Numbering' /\ Progressed' /\ TerminalLast'
    BY <1>s, <1>u, <2>2, StreamAlone DEF StreamShape
  <2>4. SeenOnce' /\ Caught'
    BY <1>1, <1>s, <1>u, <1>v, <2>2 DEF SeenOnce, Caught, InSeq
  <2> QED
    BY <1>v, <2>2, <2>3, <2>4 DEF StreamInv
<1>2. CASE stream.todo # <<>>
  <2>1. PICK e, q : e = Head(stream.todo) /\ q = Tail(stream.todo)
    OBVIOUS
  <2>2. e \in Frames /\ q \in Seq(Frames) /\ \A x : InSeq(x, stream.todo) <=> x = e \/ InSeq(x, q)
    BY <1>2, <1>s, <2>1, InTail
  <2>3. PICK o : o = IF e \in stream.seen THEN stream.out ELSE Append(stream.out, e)
    OBVIOUS
  <2>4. /\ o \in Seq(Frames) /\ Once(o) /\ \A x : InSeq(x, stream.out) => InSeq(x, o)
        /\ \A x : InSeq(x, o) => InSeq(x, stream.out) \/ x = e
        /\ e \notin stream.seen => InSeq(e, o) /\ ~InSeq(e, stream.queue)
    <3>1. CASE e \in stream.seen
      BY <3>1, <1>s, <2>3 DEF SeenOnce
    <3>2. CASE e \notin stream.seen
      <4>1. ~InSeq(e, stream.out) /\ ~InSeq(e, stream.queue) /\ Once(stream.out)
        BY <3>2, <1>s, <2>2 DEF SeenOnce
      <4> QED
        BY <3>2, <4>1, <1>s, <2>2, <2>3, InAppend
    <3> QED
      BY <3>1, <3>2
  <2>5. /\ stream' \in StreamRecord /\ stream'.pc = "replay" /\ stream'.replayed = stream.replayed
        /\ stream'.todo = q /\ stream'.seen = stream.seen \cup {e}
        /\ stream'.queue = stream.queue /\ stream'.out = o
        /\ stream'.ended = stream.ended /\ stream'.by = stream.by
    <3>1. CASE e \in stream.seen
      <4>1. stream' = [stream EXCEPT !.todo = q]
        BY <1>2, <3>1, <2>1 DEF Replay
      <4> QED
        BY <4>1, <3>1, <1>s, <1>u, <2>2, <2>3 DEF StreamRecord
    <3>2. CASE e \notin stream.seen
      <4>1. stream' = [stream EXCEPT !.todo = q, !.seen = @ \cup {e}, !.out = o]
        BY <1>2, <3>2, <2>1, <2>3 DEF Replay
      <4> QED
        BY <4>1, <1>s, <1>u, <2>2, <2>4 DEF StreamRecord
    <3> QED
      BY <3>1, <3>2
  <2>6. StreamShape' /\ Numbering' /\ Progressed' /\ TerminalLast'
    BY <1>s, <1>u, <2>5, StreamAlone DEF StreamShape
  <2>7. SeenOnce'
    <3>1. \A f \in Frames : f \in stream'.seen <=> InSeq(f, stream'.out) \/ InSeq(f, stream'.queue)
      BY <1>s, <2>4, <2>5 DEF SeenOnce
    <3>2. \A f \in Frames : ~(InSeq(f, stream'.out) /\ InSeq(f, stream'.queue))
      <4>1. e \in stream.seen => o = stream.out
        BY <2>3
      <4> QED
        BY <4>1, <1>s, <2>4, <2>5 DEF SeenOnce
    <3>3. \A f \in stream'.replayed : f \in stream'.seen \/ InSeq(f, stream'.todo)
      BY <1>s, <2>2, <2>5 DEF SeenOnce
    <3> QED
      BY <3>1, <3>2, <3>3, <1>s, <2>4, <2>5 DEF SeenOnce
  <2>8. Caught'
    BY <1>s, <1>u, <1>v, <2>5 DEF Caught, InSeq
  <2> QED
    BY <1>v, <2>5, <2>6, <2>7, <2>8 DEF StreamInv
<1> QED
  BY <1>1, <1>2

LEMMA RecheckKeeps == ASSUME StreamInv, Recheck PROVE StreamInv'
<1>s. StreamShape /\ SeenOnce /\ Caught /\ stream \in StreamRecord
  BY DEF StreamInv, StreamShape
<1>u. UNCHANGED <<worker, wire, opens, missed>> /\ stream.pc = "check"
  BY DEF Recheck
<1>v. UNCHANGED <<executor, settled, frame>>
  BY <1>u DEF worker
<1>1. /\ stream' \in StreamRecord /\ stream'.pc \in {"drain", "tail"}
      /\ stream'.replayed = stream.replayed
      /\ stream'.todo = stream.todo /\ stream'.seen = stream.seen
      /\ stream'.queue = stream.queue /\ stream'.out = stream.out
      /\ stream'.ended = stream.ended /\ stream'.by = stream.by
  BY <1>s DEF Recheck, StreamRecord
<1>2. StreamShape' /\ Numbering' /\ Progressed' /\ TerminalLast'
  BY <1>s, <1>u, <1>1, StreamAlone DEF StreamShape
<1>3. SeenOnce' /\ Caught'
  BY <1>s, <1>u, <1>v, <1>1 DEF SeenOnce, Caught, InSeq
<1> QED
  BY <1>v, <1>1, <1>2, <1>3 DEF StreamInv

LEMMA YieldKeeps == ASSUME StreamInv, Yield PROVE StreamInv'
<1>s. /\ StreamShape /\ SeenOnce /\ Caught /\ TerminalLast /\ Progressed /\ stream \in StreamRecord
      /\ stream.queue \in Seq(Frames) /\ stream.out \in Seq(Frames) /\ settled \subseteq Frames
  BY DEF StreamInv, StreamShape, StreamRecord
<1>u. UNCHANGED <<worker, wire, opens, missed>> /\ stream.pc \in {"drain", "tail"}
  BY DEF Yield
<1>v. UNCHANGED <<executor, settled, frame>>
  BY <1>u DEF worker
<1>1. CASE stream.queue # <<>> /\
           stream' = [stream EXCEPT !.queue = Tail(@), !.out = Append(@, Head(stream.queue))]
  <2>1. PICK e, q, o : e = Head(stream.queue) /\ q = Tail(stream.queue) /\ o = Append(stream.out, e)
    OBVIOUS
  <2>2. /\ e \in Frames /\ q \in Seq(Frames)
        /\ \A x : InSeq(x, stream.queue) <=> x = e \/ InSeq(x, q)
        /\ Once(q) /\ ~InSeq(e, q)
    BY <1>1, <1>s, <2>1, InTail DEF SeenOnce
  <2>3. ~InSeq(e, stream.out)
    BY <1>s, <2>2 DEF SeenOnce
  <2>4. /\ o \in Seq(Frames) /\ Once(o) /\ \A x : InSeq(x, o) <=> InSeq(x, stream.out) \/ x = e
    BY <1>s, <2>1, <2>2, <2>3, InAppend DEF SeenOnce
  <2>5. /\ stream' \in StreamRecord /\ stream'.pc = stream.pc
        /\ stream'.replayed = stream.replayed
        /\ stream'.todo = stream.todo /\ stream'.seen = stream.seen
        /\ stream'.queue = q /\ stream'.out = o
        /\ stream'.ended = stream.ended /\ stream'.by = stream.by
    BY <1>1, <1>s, <2>1, <2>2, <2>4 DEF StreamRecord
  <2>6. StreamShape' /\ Numbering' /\ Progressed' /\ TerminalLast'
    BY <1>s, <1>u, <2>5, StreamAlone DEF StreamShape
  <2>7. SeenOnce'
    BY <1>s, <1>u, <2>2, <2>4, <2>5 DEF SeenOnce
  <2>8. Caught'
    BY <1>s, <1>u, <1>v, <2>5 DEF Caught, InSeq
  <2> QED
    BY <1>v, <2>5, <2>6, <2>7, <2>8 DEF StreamInv
<1>2. CASE /\ stream.queue = <<>> /\ (stream.pc = "drain" \/ stream.ended)
           /\ stream' = [stream EXCEPT !.pc = "closed", !.by = stream.pc]
  <2>1. /\ stream' \in StreamRecord /\ stream'.pc = "closed"
        /\ stream'.replayed = stream.replayed
        /\ stream'.todo = stream.todo /\ stream'.seen = stream.seen
        /\ stream'.queue = stream.queue /\ stream'.out = stream.out
        /\ stream'.ended = stream.ended /\ stream'.by = stream.pc
    BY <1>2, <1>s, <1>u DEF StreamRecord
  <2>2. StreamShape' /\ Numbering' /\ Progressed' /\ TerminalLast'
    BY <1>s, <1>u, <2>1, StreamAlone DEF StreamShape
  <2>3. SeenOnce'
    BY <1>2, <1>s, <1>u, <2>1 DEF SeenOnce
  <2>4. ASSUME missed = {}, stream.pc = "tail", NEW f \in settled PROVE f \in stream.seen
    <3>1. ~InSeq(f, wire) /\ frame[f] = "out"
      BY <1>2, <1>s, <2>4 DEF TerminalLast, Progressed
    <3>2. f \in stream.seen \/ f \in stream.replayed
      BY <3>1, <1>s, <1>u, <2>4 DEF Caught
    <3>3. ~InSeq(f, stream.todo)
      BY <1>s, <1>u, BlankStream DEF SeenOnce
    <3> QED
      BY <3>2, <3>3, <1>s DEF SeenOnce
  <2>5. Caught'
    BY <1>u, <1>v, <2>1, <2>4 DEF Caught
  <2>6. stream'.by = "tail" => executor' = "over"
    BY <1>2, <1>s, <1>v, <2>1 DEF TerminalLast
  <2> QED
    BY <2>2, <2>3, <2>5, <2>6 DEF StreamInv
<1> QED
  BY <1>1, <1>2 DEF Yield

LEMMA StreamStep == StreamInv /\ [StreamNext]_streamVars => StreamInv'
<1> SUFFICES ASSUME StreamInv, [StreamNext]_streamVars PROVE StreamInv'
  OBVIOUS
<1>1. CASE \E n \in Nodes : PluginEmit(n) \/ NodeOutput(n) \/ NodeFails(n)
  BY <1>1, PluginEmitKeeps, NodeOutputKeeps, NodeFailsKeeps
<1>2. CASE \E f \in Frames : RecordStep(f) \/ FireStep(f)
  BY <1>2, RecordStepKeeps, FireStepKeeps
<1>3. CASE DagDone \/ Complete \/ FireTerminal \/ WorkerCrash \/ StaleSweep
  BY <1>3, DagDoneKeeps, CompleteKeeps, FireTerminalKeeps, WorkerCrashKeeps, StaleSweepKeeps
<1>4. CASE OnEvent \/ DropEvent
  BY <1>4, OnEventKeeps, DropEventKeeps
<1>5. CASE OpenStream \/ ListSteps \/ Replay \/ Recheck \/ Yield \/ Disconnect
  BY <1>5, OpenStreamKeeps, ListStepsKeeps, ReplayKeeps, RecheckKeeps, YieldKeeps, DisconnectKeeps
<1>6. CASE UNCHANGED streamVars
  <2>1. UNCHANGED <<worker, wire, stream, opens, missed>>
    BY <1>6 DEF streamVars
  <2>2. StreamShape' /\ Numbering' /\ Progressed' /\ TerminalLast'
    BY <2>1, StreamAlone DEF StreamInv, StreamShape
  <2> QED
    BY <2>1, <2>2 DEF StreamInv, SeenOnce, Caught, InSeq, worker
<1> QED
  BY <1>1, <1>2, <1>3, <1>4, <1>5, <1>6 DEF StreamNext

LEMMA StreamInvIsSafe == StreamInv => StreamSafe
<1> SUFFICES ASSUME StreamInv PROVE StreamSafe
  OBVIOUS
<1>s. /\ StreamShape /\ Numbering /\ Progressed /\ SeenOnce /\ Caught /\ stream \in StreamRecord
      /\ stream.out \in Seq(Frames) /\ emitted \in Seq(Frames)
  BY DEF StreamInv, StreamShape, StreamRecord
<1>1. Len(emitted) \in Nat /\ Len(emitted) <= Cardinality(Frames) /\ Cardinality(Frames) \in Nat
  BY <1>s, FewFrames, FramesAre DEF Numbering
<1>2. StreamTypeOK
  BY <1>s, <1>1 DEF StreamTypeOK, StreamShape, StreamRecord, Executors
<1>3. FrameOnce
  BY <1>s DEF FrameOnce, SeenOnce, Once
<1>4. ClosedIsComplete
  <2>1. ASSUME stream.pc = "closed", NEW f \in stream.replayed PROVE f \in stream.seen
    BY <2>1, <1>s, BlankStream DEF SeenOnce
  <2>2. ASSUME stream.pc = "closed", NEW f \in stream.seen PROVE InSeq(f, stream.out)
    <3>1. f \in Frames /\ ~InSeq(f, stream.queue)
      BY <2>2, <1>s, BlankStream DEF SeenOnce, StreamRecord
    <3> QED
      BY <3>1, <2>2, <1>s DEF SeenOnce
  <2> QED
    BY <2>1, <2>2, <1>s DEF ClosedIsComplete, Caught
<1>5. UntaggedOnlyLate
  BY <1>s DEF UntaggedOnlyLate, Progressed
<1>6. SeqIsReplayOrder
  <2>1. PICK n : n = IF executor = "over" THEN inTime ELSE Len(emitted)
    OBVIOUS
  <2>2. n \in Nat /\ n <= Len(emitted)
    BY <2>1, <1>s, <1>1 DEF StreamShape
  <2>3. \A i \in 1 .. n : seq[emitted[i]] = i
    BY <2>1, <2>2, <1>s, <1>1 DEF Numbering
  <2> QED
    BY <2>1, <2>2, <2>3 DEF SeqIsReplayOrder
<1> QED
  BY <1>2, <1>3, <1>4, <1>5, <1>6 DEF StreamSafe

\* Streams send each frame once and end complete, and frames are numbered and tagged
\* for any nodes, any order of the worker's writes and the bus's events, and
\* whatever the bus, the replay read or the worker loses.
THEOREM StreamsAreSafe == StreamSpec => []StreamSafe
<1>1. StreamSpec => []StreamInv
  BY StreamStarts, StreamStep, PTL DEF StreamSpec
<1> QED
  BY <1>1, StreamInvIsSafe, PTL

-----------------------------------------------------------------------------
(* Tabs and the events socket.                                             *)

Notices == {<<"ready">>} \cup ({"roster"} \X Rooms \X SUBSET Sockets)

SocketStates == {"none", "connecting", "open", "closing", "closed"}

LiveShape ==
    /\ signed \in [Tabs -> BOOLEAN]
    /\ signIns \in [Tabs -> Nat]
    /\ visits \in [Tabs -> Nat]
    /\ desired \in [Tabs -> SUBSET Rooms]
    /\ cancelled \in [Tabs -> BOOLEAN]
    /\ wsRef \in [Tabs -> 0 .. MaxSockets]
    /\ made \in [Tabs -> Nat]
    /\ pending \in [Tabs -> Nat]
    /\ timerRef \in [Tabs -> BOOLEAN]
    /\ roster \in [Tabs -> [Rooms -> SUBSET Sockets]]
    /\ cli \in [Sockets -> SocketStates]
    /\ up \in [Sockets -> Seq(Requests)]
    /\ down \in [Sockets -> Seq(Notices)]
    /\ srv \in [Sockets -> {"none", "new", "authing", "ready", "gone"}]
    /\ hup \in [Sockets -> BOOLEAN]
    /\ joined \in [Sockets -> SUBSET Rooms]
    /\ members \in [Rooms -> SUBSET Sockets]
    /\ faults \in Nat
    /\ hurried \in [Tabs -> BOOLEAN]

\* The sockets of a tab whose close event is bound to come.
Doomed(t) ==
    {k \in 1 .. MaxSockets :
        cli[<<t, k>>] = "closing" \/ (cli[<<t, k>>] \notin {"none", "closed"} /\ hup[<<t, k>>])}

\* Each socket a tab may still make is paid for.
SocketsLeft ==
    \A t \in Tabs :
        made[t] + pending[t] + 2 * signIns[t] + faults + Cardinality(Doomed(t))
            + (IF signed[t] THEN 1 ELSE 0) <= MaxSockets

\* A side that does not know of a socket holds nothing for it.
BothSides ==
    /\ \A s \in Sockets :
         /\ cli[s] \in {"none", "connecting"} =>
              srv[s] = "none" /\ joined[s] = {} /\ up[s] = <<>> /\ down[s] = <<>>
         /\ cli[s] = "none" => ~hup[s]
         /\ cli[s] # "none" => s[2] <= made[s[1]]
         /\ joined[s] # {} => srv[s] = "ready"
    /\ \A r \in Rooms, s \in Sockets : s \in members[r] <=> r \in joined[s]

TabsFollow ==
    \A t \in Tabs :
        /\ signed[t] <=> ~cancelled[t]
        /\ ~signed[t] => wsRef[t] = 0 /\ desired[t] = {}
        /\ wsRef[t] # 0 => cli[<<t, wsRef[t]>>] \notin {"none", "closed"}
        /\ timerRef[t] => pending[t] > 0

\* A tab that was not hurried has its current socket or a timer that its cleanup
\* knows of.
OneSocket ==
    \A t \in Tabs :
        ~hurried[t] =>
            /\ pending[t] <= 1
            /\ pending[t] > 0 => timerRef[t]
            /\ ~signed[t] => pending[t] = 0
            /\ \A k \in 1 .. MaxSockets :
                 /\ ~signed[t] => cli[<<t, k>>] \notin {"connecting", "open"}
                 /\ signed[t] /\ cli[<<t, k>>] \notin {"none", "closed"} =>
                      wsRef[t] = k /\ pending[t] = 0

\* x is the last element of a queue that is in S; the queue has none in S.
LastIn(q, S, x) == \E i \in 1 .. Len(q) : q[i] = x /\ \A j \in 1 .. Len(q) : j > i => q[j] \notin S
NoneIn(q, S) == \A i \in 1 .. Len(q) : q[i] \notin S

Moves(r) == {"join", "leave"} \X {r}
Rosters(r) == {"roster"} \X {r} \X SUBSET Sockets

Current(s) == wsRef[s[1]] = s[2] /\ cli[s] = "open" /\ ~hup[s]

\* Will the server have the socket in the room when it has read what is on the way;
\* are these the members the tab will show.
WillBe(s, r) ==
    \/ LastIn(up[s], Moves(r), <<"join", r>>)
    \/ r \in joined[s] /\ NoneIn(up[s], Moves(r))

Shows(q, r, shown, ids) ==
    \/ LastIn(q, Rosters(r), <<"roster", r, ids>>)
    \/ shown = ids /\ NoneIn(q, Rosters(r))

Greeted(q) == \E i \in 1 .. Len(q) : q[i] = <<"ready">>

RoomsFollow ==
    \A s \in Sockets, r \in Rooms :
        Current(s) =>
            /\ WillBe(s, r) => r \in desired[s[1]]
            /\ srv[s] = "ready" /\ ~Greeted(down[s]) /\ r \in desired[s[1]] => WillBe(s, r)

RostersFollow ==
    \A s \in Sockets, r \in Rooms :
        Current(s) /\ ~hurried[s[1]] /\ r \in desired[s[1]] /\ s \in members[r]
          /\ NoneIn(up[s], Moves(r))
        => Shows(down[s], r, roster[s[1]][r], members[r])

LiveInv ==
    /\ LiveShape /\ SocketsLeft /\ BothSides /\ TabsFollow /\ OneSocket
    /\ RoomsFollow /\ RostersFollow

\* A queue whose elements in S are all x, and that has one, has x as the last in S.
LEMMA LastOfOne ==
    ASSUME NEW X, NEW q \in Seq(X), NEW S, NEW x,
           \E i \in 1 .. Len(q) : q[i] = x,
           \A i \in 1 .. Len(q) : q[i] \in S => q[i] = x
    PROVE  LastIn(q, S, x)
<1> DEFINE T == {n \in Nat : \E i \in 1 .. Len(q) : q[i] = x /\ n = Len(q) - i}
<1>1. Len(q) \in Nat
  OBVIOUS
<1>2. T \subseteq Nat /\ T # {}
  <2>1. PICK i \in 1 .. Len(q) : q[i] = x
    OBVIOUS
  <2>2. Len(q) - i \in Nat
    BY <1>1
  <2> QED
    BY <2>1, <2>2
<1>3. PICK n \in T : \A m \in T : n <= m
  BY <1>2, LeastNat
<1>4. PICK i \in 1 .. Len(q) : q[i] = x /\ n = Len(q) - i
  OBVIOUS
<1>5. ASSUME NEW j \in 1 .. Len(q), j > i, q[j] \in S PROVE FALSE
  <2>1. q[j] = x /\ Len(q) - j \in Nat
    BY <1>1, <1>5
  <2>2. Len(q) - j \in T
    BY <2>1
  <2>3. n <= Len(q) - j
    <3> HIDE DEF T
    <3> QED
      BY <1>3, <2>2
  <2>4. i \in Int /\ j \in Int
    BY <1>1
  <2> QED
    BY <1>1, <1>4, <1>5, <2>3, <2>4
<1> QED
  BY <1>4, <1>5 DEF LastIn

LEMMA LastTail ==
    ASSUME NEW X, NEW q \in Seq(X), q # <<>>, NEW S
    PROVE  /\ Head(q) \in X /\ Tail(q) \in Seq(X) /\ Head(q) = q[1]
           /\ NoneIn(q, S) <=> NoneIn(Tail(q), S) /\ Head(q) \notin S
           /\ \A x : LastIn(Tail(q), S, x) => LastIn(q, S, x)
           /\ \A x : LastIn(q, S, x) => LastIn(Tail(q), S, x) \/ (Head(q) = x /\ NoneIn(Tail(q), S))
           /\ NoneIn(Tail(q), S) => LastIn(q, S, Head(q))
           /\ \A x : (\E i \in 1 .. Len(q) : q[i] = x) =>
                        Head(q) = x \/ \E i \in 1 .. Len(Tail(q)) : Tail(q)[i] = x
<1>1. /\ Head(q) \in X /\ Tail(q) \in Seq(X) /\ Len(q) \in Nat /\ Len(q) >= 1
      /\ Len(Tail(q)) = Len(q) - 1 /\ Head(q) = q[1]
  OBVIOUS
<1>2. \A i \in 1 .. Len(Tail(q)) : Tail(q)[i] = q[i + 1] /\ i + 1 \in 1 .. Len(q)
  BY <1>1
<1>3. ASSUME NEW i \in 1 .. Len(q)
      PROVE  i = 1 \/ (i - 1 \in 1 .. Len(Tail(q)) /\ Tail(q)[i - 1] = q[i])
  <2>1. CASE i # 1
    <3>1. i - 1 \in 1 .. Len(Tail(q)) /\ (i - 1) + 1 = i
      BY <1>1, <2>1
    <3> QED
      BY <3>1, <1>2
  <2> QED
    BY <2>1
<1>4. NoneIn(q, S) <=> NoneIn(Tail(q), S) /\ Head(q) \notin S
  <2>1. ASSUME NoneIn(q, S) PROVE NoneIn(Tail(q), S) /\ Head(q) \notin S
    <3>1. 1 \in 1 .. Len(q)
      BY <1>1
    <3> QED
      BY <3>1, <2>1, <1>1, <1>2 DEF NoneIn
  <2>2. ASSUME NoneIn(Tail(q), S), Head(q) \notin S PROVE NoneIn(q, S)
    BY <2>2, <1>1, <1>3 DEF NoneIn
  <2> QED
    BY <2>1, <2>2
<1>5. ASSUME NEW x, LastIn(Tail(q), S, x) PROVE LastIn(q, S, x)
  <2>1. PICK i \in 1 .. Len(Tail(q)) : Tail(q)[i] = x /\ \A j \in 1 .. Len(Tail(q)) : j > i => Tail(q)[j] \notin S
    BY <1>5 DEF LastIn
  <2>2. i + 1 \in 1 .. Len(q) /\ q[i + 1] = x
    BY <2>1, <1>2
  <2>3. ASSUME NEW j \in 1 .. Len(q), j > i + 1 PROVE q[j] \notin S
    <3>1. j - 1 \in 1 .. Len(Tail(q)) /\ Tail(q)[j - 1] = q[j] /\ j - 1 > i
      BY <2>3, <1>3, <1>1
    <3> QED
      BY <3>1, <2>1
  <2> QED
    BY <2>2, <2>3 DEF LastIn
<1>6. ASSUME NEW x, LastIn(q, S, x) PROVE LastIn(Tail(q), S, x) \/ (Head(q) = x /\ NoneIn(Tail(q), S))
  <2>1. PICK i \in 1 .. Len(q) : q[i] = x /\ \A j \in 1 .. Len(q) : j > i => q[j] \notin S
    BY <1>6 DEF LastIn
  <2>2. CASE i = 1
    <3>1. \A j \in 1 .. Len(Tail(q)) : Tail(q)[j] = q[j + 1] /\ j + 1 \in 1 .. Len(q) /\ j + 1 > i
      BY <1>1, <1>2, <2>2
    <3> QED
      BY <3>1, <2>1, <2>2, <1>1 DEF NoneIn
  <2>3. CASE i # 1
    <3>1. i - 1 \in 1 .. Len(Tail(q)) /\ Tail(q)[i - 1] = x
      BY <2>3, <2>1, <1>3
    <3>2. ASSUME NEW j \in 1 .. Len(Tail(q)), j > i - 1 PROVE Tail(q)[j] \notin S
      <4>1. Tail(q)[j] = q[j + 1] /\ j + 1 \in 1 .. Len(q) /\ j + 1 > i
        BY <3>2, <1>1, <1>2
      <4> QED
        BY <4>1, <2>1
    <3> QED
      BY <3>1, <3>2 DEF LastIn
  <2> QED
    BY <2>2, <2>3
<1>7. ASSUME NoneIn(Tail(q), S) PROVE LastIn(q, S, Head(q))
  <2>1. 1 \in 1 .. Len(q) /\ q[1] = Head(q)
    BY <1>1
  <2>2. ASSUME NEW j \in 1 .. Len(q), j > 1 PROVE q[j] \notin S
    <3>1. j - 1 \in 1 .. Len(Tail(q)) /\ Tail(q)[j - 1] = q[j]
      BY <2>2, <1>3
    <3> QED
      BY <3>1, <1>7 DEF NoneIn
  <2> QED
    BY <2>1, <2>2 DEF LastIn
<1>8. \A x : (\E i \in 1 .. Len(q) : q[i] = x) => Head(q) = x \/ \E i \in 1 .. Len(Tail(q)) : Tail(q)[i] = x
  BY <1>1, <1>3
<1> QED
  BY <1>1, <1>4, <1>5, <1>6, <1>7, <1>8

LEMMA LastCat ==
    ASSUME NEW X, NEW q \in Seq(X), NEW p \in Seq(X), NEW S
    PROVE  /\ q \o p \in Seq(X)
           /\ NoneIn(p, S) => \A x : LastIn(q, S, x) => LastIn(q \o p, S, x)
           /\ NoneIn(p, S) => \A x \in S : LastIn(q \o p, S, x) => LastIn(q, S, x)
           /\ NoneIn(q \o p, S) <=> NoneIn(q, S) /\ NoneIn(p, S)
           /\ \A x : LastIn(p, S, x) => LastIn(q \o p, S, x)
           /\ \A x, y \in S : LastIn(p, S, x) /\ LastIn(q \o p, S, y) => x = y
           /\ \A x : (\E i \in 1 .. Len(q) : q[i] = x) => \E i \in 1 .. Len(q \o p) : (q \o p)[i] = x
<1>1. /\ q \o p \in Seq(X) /\ Len(q) \in Nat /\ Len(p) \in Nat /\ Len(q \o p) = Len(q) + Len(p)
      /\ \A i \in 1 .. Len(q) : (q \o p)[i] = q[i]
  OBVIOUS
<1>2. \A i \in 1 .. Len(p) : (q \o p)[Len(q) + i] = p[i]
  OBVIOUS
<1>3. ASSUME NEW i \in 1 .. Len(q \o p)
      PROVE  i \in 1 .. Len(q) \/ (i - Len(q) \in 1 .. Len(p) /\ (q \o p)[i] = p[i - Len(q)])
  <2>1. CASE i > Len(q)
    <3>1. i - Len(q) \in 1 .. Len(p) /\ Len(q) + (i - Len(q)) = i
      BY <1>1, <2>1
    <3> QED
      BY <3>1, <1>2
  <2>2. CASE ~(i > Len(q))
    BY <1>1, <2>2
  <2> QED
    BY <2>1, <2>2
<1>4. /\ \A i \in 1 .. Len(q) : i \in 1 .. Len(q \o p)
      /\ \A i \in 1 .. Len(p) : Len(q) + i \in 1 .. Len(q \o p)
  BY <1>1
<1>5. NoneIn(q \o p, S) <=> NoneIn(q, S) /\ NoneIn(p, S)
  BY <1>1, <1>2, <1>3, <1>4 DEF NoneIn
<1>6. ASSUME NoneIn(p, S), NEW x, LastIn(q, S, x) PROVE LastIn(q \o p, S, x)
  <2>1. PICK i \in 1 .. Len(q) : q[i] = x /\ \A j \in 1 .. Len(q) : j > i => q[j] \notin S
    BY <1>6 DEF LastIn
  <2>2. i \in 1 .. Len(q \o p) /\ (q \o p)[i] = x
    BY <2>1, <1>1, <1>4
  <2>3. ASSUME NEW j \in 1 .. Len(q \o p), j > i PROVE (q \o p)[j] \notin S
    BY <2>1, <2>3, <1>1, <1>3, <1>6 DEF NoneIn
  <2> QED
    BY <2>2, <2>3 DEF LastIn
<1>7. ASSUME NoneIn(p, S), NEW x \in S, LastIn(q \o p, S, x) PROVE LastIn(q, S, x)
  <2>1. PICK i \in 1 .. Len(q \o p) : (q \o p)[i] = x /\ \A j \in 1 .. Len(q \o p) : j > i => (q \o p)[j] \notin S
    BY <1>7 DEF LastIn
  <2>2. i \in 1 .. Len(q)
    BY <2>1, <1>3, <1>7 DEF NoneIn
  <2>3. q[i] = x /\ \A j \in 1 .. Len(q) : j > i => q[j] \notin S
    BY <2>1, <2>2, <1>1, <1>4
  <2> QED
    BY <2>2, <2>3 DEF LastIn
<1>8. ASSUME NEW x, LastIn(p, S, x) PROVE LastIn(q \o p, S, x)
  <2>1. PICK i \in 1 .. Len(p) : p[i] = x /\ \A j \in 1 .. Len(p) : j > i => p[j] \notin S
    BY <1>8 DEF LastIn
  <2>2. Len(q) + i \in 1 .. Len(q \o p) /\ (q \o p)[Len(q) + i] = x
    BY <2>1, <1>2, <1>4
  <2>3. ASSUME NEW j \in 1 .. Len(q \o p), j > Len(q) + i PROVE (q \o p)[j] \notin S
    <3>1. j - Len(q) \in 1 .. Len(p) /\ (q \o p)[j] = p[j - Len(q)] /\ j - Len(q) > i
      BY <2>3, <1>1, <1>3
    <3> QED
      BY <3>1, <2>1
  <2> QED
    BY <2>2, <2>3 DEF LastIn
<1>9. ASSUME NEW x \in S, NEW y \in S, LastIn(p, S, x), LastIn(q \o p, S, y) PROVE x = y
  <2>1. PICK i \in 1 .. Len(q \o p) : (q \o p)[i] = x /\ \A j \in 1 .. Len(q \o p) : j > i => (q \o p)[j] \notin S
    BY <1>8, <1>9 DEF LastIn
  <2>2. PICK k \in 1 .. Len(q \o p) : (q \o p)[k] = y /\ \A j \in 1 .. Len(q \o p) : j > k => (q \o p)[j] \notin S
    BY <1>9 DEF LastIn
  <2>3. ~(i > k) /\ ~(k > i) /\ i \in Int /\ k \in Int
    BY <2>1, <2>2, <1>1
  <2>4. i = k
    BY <2>3
  <2> QED
    BY <2>1, <2>2, <2>4
<1>10. \A x : (\E i \in 1 .. Len(q) : q[i] = x) => \E i \in 1 .. Len(q \o p) : (q \o p)[i] = x
  BY <1>1, <1>4
<1> QED
  BY <1>1, <1>5, <1>6, <1>7, <1>8, <1>9, <1>10

LEMMA EachIs ==
    ASSUME NEW D, IsFiniteSet(D), NEW verb
    PROVE  /\ Each(verb, D) \in Seq({verb} \X D)
           /\ DOMAIN Each(verb, D) = 1 .. Len(Each(verb, D))
           /\ Len(Each(verb, D)) = Cardinality(D)
           /\ \A r \in D : \E i \in 1 .. Len(Each(verb, D)) : Each(verb, D)[i] = <<verb, r>>
           /\ \A i \in 1 .. Len(Each(verb, D)) :
                Each(verb, D)[i] = <<verb, Each(verb, D)[i][2]>> /\ Each(verb, D)[i][2] \in D
<1>1. PICK n \in Nat : n = Cardinality(D)
  BY FS_CardinalityType
<1>2. ExistsBijection(1 .. n, D)
  BY <1>1, FS_NatBijection, FS_CountingElements
<1>3. PICK f \in Bijection(1 .. n, D) : TRUE
  BY <1>2 DEF ExistsBijection
<1>4. f \in [1 .. n -> D] /\ \A r \in D : \E i \in 1 .. n : f[i] = r
  BY <1>3 DEF Bijection, Injection, Surjection
<1> DEFINE q == [i \in 1 .. n |-> <<verb, f[i]>>]
<1>5. q \in [1 .. n -> {verb} \X D] /\ DOMAIN q = 1 .. n
  BY <1>4
<1>6. \A r \in D : \E i \in DOMAIN q : q[i][2] = r
  BY <1>4
<1>7. \E p \in [1 .. Cardinality(D) -> {verb} \X D] : \A r \in D : \E i \in DOMAIN p : p[i][2] = r
  BY <1>1, <1>5, <1>6
<1>8. PICK e : e = Each(verb, D)
  OBVIOUS
<1>9. e \in [1 .. n -> {verb} \X D] /\ \A r \in D : \E i \in DOMAIN e : e[i][2] = r
  BY <1>1, <1>7, <1>8 DEF Each
<1>10. e \in Seq({verb} \X D) /\ Len(e) = n /\ DOMAIN e = 1 .. n
  BY <1>1, <1>9
<1>11. \A i \in 1 .. n : e[i] = <<verb, e[i][2]>> /\ e[i][2] \in D
  BY <1>9
<1>12. \A r \in D : \E i \in 1 .. n : e[i] = <<verb, r>>
  BY <1>9, <1>10, <1>11, ZenonT(40)
<1> QED
  BY <1>1, <1>8, <1>10, <1>11, <1>12

LEMMA EachMoves ==
    ASSUME NEW D \in SUBSET Rooms, NEW verb \in {"join", "leave", "touch"}
    PROVE  /\ Each(verb, D) \in Seq(Requests)
           /\ \A r \in D : verb # "touch" => LastIn(Each(verb, D), Moves(r), <<verb, r>>)
           /\ \A r \in D : verb # "touch" => ~NoneIn(Each(verb, D), Moves(r))
           /\ \A r : r \notin D \/ verb = "touch" => NoneIn(Each(verb, D), Moves(r))
<1>0. IsFiniteSet(D)
  BY LiveConstants, FS_Subset
<1>1. PICK e : e = Each(verb, D)
  OBVIOUS
<1>2. /\ e \in Seq({verb} \X D)
      /\ \A r \in D : \E i \in 1 .. Len(e) : e[i] = <<verb, r>>
      /\ \A i \in 1 .. Len(e) : e[i] = <<verb, e[i][2]>> /\ e[i][2] \in D
  BY <1>0, <1>1, EachIs
<1>3. e \in Seq(Requests)
  <2>1. {verb} \X D \subseteq Requests
    BY DEF Requests
  <2> QED
    BY <1>2, <2>1
<1>4. ASSUME NEW r \in D, verb # "touch" PROVE LastIn(e, Moves(r), <<verb, r>>)
  <2>1. \A i \in 1 .. Len(e) : e[i] \in Moves(r) => e[i] = <<verb, r>>
    BY <1>2 DEF Moves
  <2>2. \E i \in 1 .. Len(e) : e[i] = <<verb, r>>
    BY <1>2
  <2> QED
    BY <1>3, <2>1, <2>2, LastOfOne
<1>5. ASSUME NEW r, r \notin D \/ verb = "touch", NEW i \in 1 .. Len(e) PROVE e[i] \notin Moves(r)
  <2>1. e[i] = <<verb, e[i][2]>> /\ e[i][2] \in D
    BY <1>2
  <2> QED
    BY <2>1, <1>5 DEF Moves
<1>6. ASSUME NEW r \in D, verb # "touch" PROVE ~NoneIn(e, Moves(r))
  <2>1. PICK i \in 1 .. Len(e) : e[i] = <<verb, r>>
    BY <1>2
  <2>2. <<verb, r>> \in Moves(r)
    BY <1>6 DEF Moves
  <2> QED
    BY <2>1, <2>2 DEF NoneIn
<1> QED
  BY <1>1, <1>3, <1>4, <1>5, <1>6 DEF NoneIn

\* A roster pushed is the one that shows, and does not touch other rooms.
LEMMA PushOne ==
    ASSUME NEW q \in Seq(Notices), NEW r \in Rooms, NEW ids \in SUBSET Sockets
    PROVE  /\ PushRoster(q, <<"roster", r, ids>>) \in Seq(Notices)
           /\ \A shown : Shows(PushRoster(q, <<"roster", r, ids>>), r, shown, ids)
           /\ \A r2 \in Rooms : r2 # r =>
                \A shown, x : Shows(q, r2, shown, x) => Shows(PushRoster(q, <<"roster", r, ids>>), r2, shown, x)
           /\ Greeted(q) => Greeted(PushRoster(q, <<"roster", r, ids>>))
<1>0. PICK m \in Notices : m = <<"roster", r, ids>>
  BY DEF Notices
<1>1. PICK p : p = PushRoster(q, m)
  OBVIOUS
<1>2. /\ Len(q) \in Nat /\ m \in Rosters(r) /\ m[1] = "roster" /\ m[2] = r /\ m # <<"ready">>
      /\ \A r2 : r2 # r => m \notin Rosters(r2)
  BY <1>0 DEF Rosters
<1>3. PICK n \in Nat :
        /\ p \in Seq(Notices) /\ Len(p) = n /\ n >= 1 /\ p[n] = m
        /\ \A i \in 1 .. Len(q) : i < n => p[i] = q[i]
        /\ n - 1 <= Len(q) /\ Len(q) <= n
        /\ Len(q) = n => q[n][1] = "roster" /\ q[n][2] = r
  <2>1. CASE q # <<>> /\ q[Len(q)][1] = "roster" /\ q[Len(q)][2] = m[2]
    <3>1. p = [q EXCEPT ![Len(q)] = m]
      BY <1>1, <2>1 DEF PushRoster
    <3>2. Len(q) >= 1
      BY <2>1
    <3>3. p \in Seq(Notices) /\ Len(p) = Len(q) /\ p[Len(q)] = m /\ \A i \in 1 .. Len(q) : i < Len(q) => p[i] = q[i]
      BY <3>1, <3>2
    <3> QED
      BY <3>2, <3>3, <2>1, <1>2
  <2>2. CASE ~(q # <<>> /\ q[Len(q)][1] = "roster" /\ q[Len(q)][2] = m[2])
    <3>1. p = Append(q, m)
      BY <1>1, <2>2 DEF PushRoster
    <3>2. p \in Seq(Notices) /\ Len(p) = Len(q) + 1 /\ p[Len(q) + 1] = m /\ \A i \in 1 .. Len(q) : p[i] = q[i]
      BY <3>1
    <3> QED
      BY <3>2, <1>2
  <2> QED
    BY <2>1, <2>2
<1>4. ASSUME NEW shown PROVE Shows(p, r, shown, ids)
  <2>1. n \in 1 .. Len(p) /\ p[n] = <<"roster", r, ids>> /\ \A j \in 1 .. Len(p) : ~(j > n)
    BY <1>0, <1>3
  <2> QED
    BY <2>1 DEF Shows, LastIn
<1>5. ASSUME NEW r2 \in Rooms, r2 # r, NEW shown, NEW x, Shows(q, r2, shown, x) PROVE Shows(p, r2, shown, x)
  <2>1. p[n] \notin Rosters(r2)
    BY <1>2, <1>3, <1>5
  <2>2. Len(q) = n => q[n] \notin Rosters(r2)
    BY <1>3, <1>5 DEF Rosters
  <2>3. \A j \in 1 .. Len(p) : p[j] \in Rosters(r2) => j \in 1 .. Len(q) /\ j < n /\ p[j] = q[j]
    BY <2>1, <1>2, <1>3
  <2>4. CASE LastIn(q, Rosters(r2), <<"roster", r2, x>>) /\ x \in SUBSET Sockets
    <3>1. PICK i \in 1 .. Len(q) : q[i] = <<"roster", r2, x>> /\ \A j \in 1 .. Len(q) : j > i => q[j] \notin Rosters(r2)
      BY <2>4 DEF LastIn
    <3>2. q[i] \in Rosters(r2)
      BY <3>1, <2>4 DEF Rosters
    <3>b. Len(q) \in Nat /\ i \in Nat
      BY <3>1, <1>2
    <3>a. i # n
      <4>1. ASSUME i = n PROVE FALSE
        <5>1. n \in 1 .. Len(q) /\ q[n] \in Rosters(r2)
          BY <3>1, <3>2, <4>1
        <5>2. Len(q) # n
          BY <5>1, <2>2
        <5> QED
          BY <5>1, <5>2, <3>b, <1>3
      <4> QED
        BY <4>1
    <3>3. i < n /\ i \in 1 .. Len(p) /\ p[i] = <<"roster", r2, x>>
      <4>1. i < n
        BY <3>1, <3>a, <3>b, <1>3
      <4>2. i \in 1 .. Len(p) /\ p[i] = q[i]
        BY <3>1, <4>1, <3>b, <1>3
      <4> QED
        BY <3>1, <4>1, <4>2
    <3>4. \A j \in 1 .. Len(p) : j > i => p[j] \notin Rosters(r2)
      BY <2>3, <3>1
    <3> QED
      BY <3>3, <3>4 DEF LastIn, Shows
  <2>5. CASE shown = x /\ NoneIn(q, Rosters(r2))
    BY <2>5, <2>3 DEF NoneIn, Shows
  <2>6. LastIn(q, Rosters(r2), <<"roster", r2, x>>) => x \in SUBSET Sockets
    <3>1. ASSUME LastIn(q, Rosters(r2), <<"roster", r2, x>>) PROVE x \in SUBSET Sockets
      <4>1. PICK i \in 1 .. Len(q) : q[i] = <<"roster", r2, x>>
        BY <3>1 DEF LastIn
      <4>2. q[i] \in Notices
        OBVIOUS
      <4> QED
        BY <4>1, <4>2 DEF Notices
    <3> QED
      BY <3>1
  <2> QED
    BY <2>4, <2>5, <2>6, <1>5 DEF Shows
<1>6. ASSUME Greeted(q) PROVE Greeted(p)
  <2>1. PICK i \in 1 .. Len(q) : q[i] = <<"ready">>
    BY <1>6 DEF Greeted
  <2>2. i < n
    BY <2>1, <1>2, <1>3
  <2>3. i \in 1 .. Len(p) /\ p[i] = <<"ready">>
    BY <2>1, <2>2, <1>2, <1>3
  <2> QED
    BY <2>3 DEF Greeted
<1> QED
  BY <1>0, <1>1, <1>3, <1>4, <1>5, <1>6

\* Rosters of several rooms pushed: each is the one that shows, no other room's
\* is touched.
LEMMA PushMany ==
    ASSUME NEW q \in Seq(Notices), NEW R \in SUBSET Rooms, NEW ids \in [Rooms -> SUBSET Sockets]
    PROVE  /\ PushRosters(q, R, ids) \in Seq(Notices)
           /\ R = {} => PushRosters(q, R, ids) = q
           /\ \A r \in R : \A shown : Shows(PushRosters(q, R, ids), r, shown, ids[r])
           /\ \A r \in Rooms \ R :
                \A shown, x : Shows(q, r, shown, x) => Shows(PushRosters(q, R, ids), r, shown, x)
           /\ Greeted(q) => Greeted(PushRosters(q, R, ids))
<1>1. CASE R = {}
  <2>1. PushRosters(q, R, ids) = q
    BY <1>1 DEF PushRosters
  <2> QED
    BY <1>1, <2>1
<1>2. CASE R # {}
  <2>0. IsFiniteSet(R)
    BY LiveConstants, FS_Subset
  <2>1. PICK e : e = Each("roster", R)
    OBVIOUS
  <2>2. PICK msgs : msgs = [i \in DOMAIN e |-> <<"roster", e[i][2], ids[e[i][2]]>>]
    OBVIOUS
  <2>3. /\ e \in Seq({"roster"} \X R) /\ DOMAIN e = 1 .. Len(e) /\ Len(e) \in Nat
        /\ \A r \in R : \E i \in 1 .. Len(e) : e[i] = <<"roster", r>>
        /\ \A i \in 1 .. Len(e) : e[i] = <<"roster", e[i][2]>> /\ e[i][2] \in R
    BY <2>0, <2>1, EachIs, SMTT(20)
  <2>4. \A i \in 1 .. Len(e) : <<"roster", e[i][2], ids[e[i][2]]>> \in Notices
    BY <2>3 DEF Notices
  <2>5. msgs \in [1 .. Len(e) -> Notices]
    BY <2>2, <2>3, <2>4
  <2>6. /\ msgs \in Seq(Notices) /\ Len(msgs) = Len(e)
        /\ \A i \in 1 .. Len(msgs) : msgs[i] = <<"roster", e[i][2], ids[e[i][2]]>> /\ e[i][2] \in R
    BY <2>2, <2>3, <2>5
  <2>7. PICK r0 \in R : TRUE
    BY <1>2
  <2>8. msgs # <<>>
    <3>1. Len(msgs) # 0
      BY <2>3, <2>6, <2>7
    <3> QED
      BY <3>1
  <2>9. PICK h \in R : Head(msgs) = <<"roster", h, ids[h]>>
    <3>1. Len(msgs) >= 1 /\ Head(msgs) = msgs[1]
      BY <2>6, <2>8
    <3>2. 1 \in 1 .. Len(msgs)
      BY <3>1, <2>6
    <3> QED
      BY <3>1, <3>2, <2>6
  <2>10. PICK p : p = PushRoster(q, <<"roster", h, ids[h]>>)
    OBVIOUS
  <2>11. h \in Rooms /\ ids[h] \in SUBSET Sockets
    OBVIOUS
  <2>12. /\ p \in Seq(Notices) /\ (\A shown : Shows(p, h, shown, ids[h])) /\ (Greeted(q) => Greeted(p))
         /\ \A r \in Rooms : r # h => \A shown, x : Shows(q, r, shown, x) => Shows(p, r, shown, x)
    BY <2>10, <2>11, PushOne
  <2>13. /\ Tail(msgs) \in Seq(Notices) /\ Len(Tail(msgs)) = Len(msgs) - 1
         /\ \A i \in 1 .. Len(Tail(msgs)) : Tail(msgs)[i] = msgs[i + 1] /\ i + 1 \in 1 .. Len(msgs)
    BY <2>6, <2>8
  <2>14. PICK tl \in Seq(Notices) : tl = Tail(msgs)
    BY <2>13
  <2>15. PushRosters(q, R, ids) = p \o tl
    BY <1>2, <2>1, <2>2, <2>9, <2>10, <2>14 DEF PushRosters
  <2>16. ASSUME NEW r \in Rooms, NEW i \in 1 .. Len(tl), tl[i] \in Rosters(r)
         PROVE  r \in R /\ tl[i] = <<"roster", r, ids[r]>>
    <3>1. tl[i] = <<"roster", e[i + 1][2], ids[e[i + 1][2]]>> /\ e[i + 1][2] \in R
      BY <2>6, <2>13, <2>14
    <3>2. e[i + 1][2] = r
      BY <3>1, <2>16 DEF Rosters
    <3> QED
      BY <3>1, <3>2
  <2>17. ASSUME NEW r \in R, NEW shown PROVE Shows(p \o tl, r, shown, ids[r])
    <3>1. CASE \E i \in 1 .. Len(tl) : tl[i] = <<"roster", r, ids[r]>>
      <4>1. LastIn(tl, Rosters(r), <<"roster", r, ids[r]>>)
        BY <2>16, <3>1, LastOfOne
      <4>2. LastIn(p \o tl, Rosters(r), <<"roster", r, ids[r]>>)
        BY <4>1, <2>12, LastCat, SMTT(20)
      <4> QED
        BY <4>2 DEF Shows
    <3>2. CASE ~\E i \in 1 .. Len(tl) : tl[i] = <<"roster", r, ids[r]>>
      <4>1. NoneIn(tl, Rosters(r))
        <5>1. ASSUME NEW i \in 1 .. Len(tl), tl[i] \in Rosters(r) PROVE FALSE
          BY <5>1, <2>16, <3>2
        <5> QED
          BY <5>1 DEF NoneIn
      <4>2. h = r
        <5>0. PICK i \in 1 .. Len(e) : e[i] = <<"roster", r>>
          BY <2>3
        <5>1. e[i][2] = r /\ i \in 1 .. Len(msgs) /\ msgs[i] = <<"roster", r, ids[r]>>
          BY <5>0, <2>6
        <5>2. i # 1 => i - 1 \in 1 .. Len(tl) /\ tl[i - 1] = msgs[i]
          <6>1. ASSUME i # 1 PROVE i - 1 \in 1 .. Len(tl) /\ (i - 1) + 1 = i
            BY <6>1, <2>6, <2>13, <2>14
          <6> QED
            BY <6>1, <2>13, <2>14
        <5>3. i = 1
          BY <5>1, <5>2, <3>2
        <5>4. Head(msgs) = msgs[1]
          BY <2>6, <2>8
        <5> QED
          BY <5>1, <5>3, <5>4, <2>9
      <4>3. Shows(p, r, shown, ids[r])
        BY <4>2, <2>12
      <4> QED
        BY <4>1, <4>3, <2>12, LastCat DEF Shows
    <3> QED
      BY <3>1, <3>2
  <2>18. ASSUME NEW r \in Rooms \ R, NEW shown, NEW x, Shows(q, r, shown, x)
         PROVE  Shows(p \o tl, r, shown, x)
    <3>1. NoneIn(tl, Rosters(r))
      BY <2>16, <2>18 DEF NoneIn
    <3>2. Shows(p, r, shown, x)
      BY <2>12, <2>18
    <3> QED
      BY <3>1, <3>2, <2>12, LastCat DEF Shows
  <2>19. ASSUME Greeted(q) PROVE Greeted(p \o tl)
    <3>1. PICK i \in 1 .. Len(p) : p[i] = <<"ready">>
      BY <2>19, <2>12 DEF Greeted
    <3>2. i \in 1 .. Len(p \o tl) /\ (p \o tl)[i] = <<"ready">>
      BY <3>1, <2>12
    <3> QED
      BY <3>2 DEF Greeted
  <2>20. p \o tl \in Seq(Notices)
    BY <2>12, LastCat
  <2> QED
    BY <1>2, <2>15, <2>17, <2>18, <2>19, <2>20
<1> QED
  BY <1>1, <1>2

\* What send changes.
LEMMA SendIs ==
    ASSUME LiveShape, NEW t \in Tabs, NEW msgs \in Seq(Requests)
    PROVE  /\ SendOn(t, msgs) \in [Sockets -> Seq(Requests)]
           /\ \A s \in Sockets : s[1] = t /\ Current(s) => SendOn(t, msgs)[s] = up[s] \o msgs
           /\ \A s \in Sockets : s[1] # t \/ s[2] # wsRef[t] \/ cli[s] # "open" => SendOn(t, msgs)[s] = up[s]
<1>0. up \in [Sockets -> Seq(Requests)] /\ wsRef[t] \in 0 .. MaxSockets
  BY DEF LiveShape
<1>1. CASE wsRef[t] # 0 /\ cli[<<t, wsRef[t]>>] = "open"
  <2>0. <<t, wsRef[t]>> \in Sockets
    BY <1>0, <1>1, LiveConstants DEF Sockets
  <2>1. PICK u \in Sockets : u = <<t, wsRef[t]>>
    BY <2>0
  <2>2. SendOn(t, msgs) = [up EXCEPT ![u] = @ \o msgs]
    BY <1>1, <2>1 DEF SendOn
  <2>3. up[u] \o msgs \in Seq(Requests)
    BY <1>0
  <2>4. \A s \in Sockets : s = u <=> (s[1] = t /\ s[2] = wsRef[t])
    BY <2>1 DEF Sockets
  <2> QED
    BY <2>2, <2>3, <2>4, <1>0, <1>1, <2>1, ZenonT(40) DEF Current
<1>2. CASE ~(wsRef[t] # 0 /\ cli[<<t, wsRef[t]>>] = "open")
  <2>1. SendOn(t, msgs) = up
    BY <1>2 DEF SendOn
  <2>2. ASSUME NEW s \in Sockets, s[1] = t, Current(s) PROVE FALSE
    <3>1. s = <<t, wsRef[t]>> /\ s[2] # 0
      BY <2>2, LiveConstants DEF Sockets, Current
    <3> QED
      BY <3>1, <2>2, <1>2 DEF Current
  <2> QED
    BY <2>1, <2>2, <1>0
<1> QED
  BY <1>1, <1>2

\* What a broadcast changes.
LEMMA BroadcastIs ==
    ASSUME LiveShape, NEW r \in Rooms, NEW ids \in SUBSET Sockets
    PROVE  /\ Broadcast(r, ids) \in [Sockets -> Seq(Notices)]
           /\ \A s \in Sockets :
                /\ s \in ids /\ IsOpen(s) => \A shown : Shows(Broadcast(r, ids)[s], r, shown, ids)
                /\ s \notin ids => Broadcast(r, ids)[s] = down[s]
                /\ \A r2 \in Rooms : r2 # r =>
                     \A shown, x : Shows(down[s], r2, shown, x) => Shows(Broadcast(r, ids)[s], r2, shown, x)
                /\ Greeted(down[s]) => Greeted(Broadcast(r, ids)[s])
<1>1. PICK b : b = Broadcast(r, ids)
  OBVIOUS
<1>2. /\ b = [s \in Sockets |-> IF s \in ids /\ IsOpen(s) THEN PushRoster(down[s], <<"roster", r, ids>>)
                                ELSE down[s]]
  BY <1>1 DEF Broadcast
<1>3. ASSUME NEW s \in Sockets
      PROVE  /\ b[s] \in Seq(Notices)
             /\ s \in ids /\ IsOpen(s) => \A shown : Shows(b[s], r, shown, ids)
             /\ s \notin ids => b[s] = down[s]
             /\ \A r2 \in Rooms : r2 # r => \A shown, x : Shows(down[s], r2, shown, x) => Shows(b[s], r2, shown, x)
             /\ Greeted(down[s]) => Greeted(b[s])
  <2>0. down[s] \in Seq(Notices)
    BY DEF LiveShape
  <2>1. CASE s \in ids /\ IsOpen(s)
    <3>1. b[s] = PushRoster(down[s], <<"roster", r, ids>>)
      BY <1>2, <2>1
    <3> QED
      BY <3>1, <2>0, <2>1, PushOne
  <2>2. CASE ~(s \in ids /\ IsOpen(s))
    <3>1. b[s] = down[s]
      BY <1>2, <2>2
    <3> QED
      BY <3>1, <2>0, <2>2
  <2> QED
    BY <2>1, <2>2
<1> QED
  BY <1>1, <1>2, <1>3

LEMMA DoomedCards ==
    ASSUME NEW A \in SUBSET (1 .. MaxSockets), NEW B \in SUBSET (1 .. MaxSockets)
    PROVE  /\ Cardinality(A) \in Nat /\ Cardinality(B) \in Nat
           /\ A \subseteq B => Cardinality(A) <= Cardinality(B)
           /\ \A k : A \subseteq B \cup {k} => Cardinality(A) <= Cardinality(B) + 1
           /\ \A k \in B : A \subseteq B \ {k} => Cardinality(A) + 1 <= Cardinality(B)
<1>1. IsFiniteSet(A) /\ IsFiniteSet(B)
  <2>1. IsFiniteSet(1 .. MaxSockets)
    BY LiveConstants, FS_Interval
  <2> QED
    BY <2>1, FS_Subset
<1>2. Cardinality(A) \in Nat /\ Cardinality(B) \in Nat
  BY <1>1, FS_CardinalityType
<1>3. A \subseteq B => Cardinality(A) <= Cardinality(B)
  BY <1>1, FS_Subset
<1>4. ASSUME NEW k, A \subseteq B \cup {k} PROVE Cardinality(A) <= Cardinality(B) + 1
  <2>1. IsFiniteSet(B \cup {k}) /\ Cardinality(B \cup {k}) <= Cardinality(B) + 1
    <3>1. /\ IsFiniteSet(B \cup {k})
          /\ Cardinality(B \cup {k}) = Cardinality(B) \/ Cardinality(B \cup {k}) = Cardinality(B) + 1
      BY <1>1, FS_AddElement
    <3> QED
      BY <3>1, <1>2
  <2>2. Cardinality(A) <= Cardinality(B \cup {k}) /\ Cardinality(B \cup {k}) \in Nat
    BY <2>1, <1>4, FS_Subset, FS_CardinalityType
  <2> QED
    BY <1>2, <2>1, <2>2
<1>5. ASSUME NEW k \in B, A \subseteq B \ {k} PROVE Cardinality(A) + 1 <= Cardinality(B)
  <2>1. IsFiniteSet(B \ {k}) /\ Cardinality(B \ {k}) = Cardinality(B) - 1
    BY <1>1, FS_RemoveElement
  <2>2. Cardinality(A) <= Cardinality(B \ {k})
    BY <2>1, <1>5, FS_Subset
  <2> QED
    BY <1>2, <2>1, <2>2
<1> QED
  BY <1>2, <1>3, <1>4, <1>5

\* Steps that leave the sockets and the session of every tab alone.
LEMMA StillKeeps ==
    ASSUME LiveInv,
           UNCHANGED <<signed, signIns, made, cancelled, wsRef, cli, hup, pending, timerRef,
                       hurried, faults>>,
           \A t \in Tabs : ~signed[t] => desired'[t] = {}
    PROVE  SocketsLeft' /\ TabsFollow' /\ OneSocket'
<1>1. \A t \in Tabs : Doomed(t)' = Doomed(t)
  BY DEF Doomed
<1>2. SocketsLeft'
  BY <1>1 DEF LiveInv, SocketsLeft
<1>3. TabsFollow'
  BY DEF LiveInv, TabsFollow
<1>4. OneSocket'
  BY DEF LiveInv, OneSocket
<1> QED
  BY <1>2, <1>3, <1>4

\* Steps after which the current sockets were current before, and are as they were.
LEMMA CurrentKeeps ==
    ASSUME LiveInv, UNCHANGED <<joined, members, roster>>,
           \A s \in Sockets : Current(s)' =>
               /\ Current(s) /\ up'[s] = up[s] /\ down'[s] = down[s] /\ srv'[s] = srv[s]
               /\ desired'[s[1]] = desired[s[1]] /\ (hurried[s[1]] => hurried'[s[1]])
    PROVE  RoomsFollow' /\ RostersFollow'
<1>1. ASSUME NEW s \in Sockets, NEW r \in Rooms, Current(s)'
      PROVE  /\ WillBe(s, r)' => r \in desired'[s[1]]
             /\ srv'[s] = "ready" /\ ~Greeted(down'[s]) /\ r \in desired'[s[1]] => WillBe(s, r)'
  <2>1. WillBe(s, r)' <=> WillBe(s, r)
    BY <1>1 DEF WillBe
  <2> QED
    BY <2>1, <1>1 DEF LiveInv, RoomsFollow
<1>2. RoomsFollow'
  BY <1>1 DEF RoomsFollow
<1>3. RostersFollow'
  BY DEF LiveInv, RostersFollow
<1> QED
  BY <1>2, <1>3

LEMMA LiveStarts == LiveInit => LiveInv
<1> SUFFICES ASSUME LiveInit PROVE LiveInv
  OBVIOUS
<1>0. PICK e : e = <<>>
  OBVIOUS
<1>1. e \in Seq(Requests) /\ e \in Seq(Notices) /\ Len(e) = 0
  BY <1>0
<1>2. PICK p \in Plans : signIns = p.signIns /\ visits = p.visits /\ faults = p.faults
  BY DEF LiveInit
<1>3. LiveShape
  BY <1>0, <1>1, <1>2, LiveConstants DEF LiveInit, LiveShape, SocketStates
<1>4. SocketsLeft
  <2> SUFFICES ASSUME NEW t \in Tabs
               PROVE  made[t] + pending[t] + 2 * signIns[t] + faults + Cardinality(Doomed(t))
                         + (IF signed[t] THEN 1 ELSE 0) <= MaxSockets
    BY DEF SocketsLeft
  <2>1. \A k \in 1 .. MaxSockets : <<t, k>> \in Sockets
    BY DEF Sockets
  <2>2. Doomed(t) = {}
    BY <2>1 DEF Doomed, LiveInit
  <2>3. Cardinality(Doomed(t)) = 0
    BY <2>2, FS_EmptySet
  <2>4. made[t] = 0 /\ pending[t] = 0 /\ signed[t] = FALSE
    BY DEF LiveInit
  <2> QED
    BY <2>3, <2>4, <1>2, LiveConstants
<1>5. BothSides
  BY DEF LiveInit, BothSides
<1>6. TabsFollow
  BY DEF LiveInit, TabsFollow
<1>7. OneSocket
  BY DEF LiveInit, OneSocket, Sockets
<1>8. RoomsFollow /\ RostersFollow
  BY DEF LiveInit, RoomsFollow, RostersFollow, Current
<1> QED
  BY <1>3, <1>4, <1>5, <1>6, <1>7, <1>8 DEF LiveInv

LEMMA ReadyKeeps == ASSUME LiveInv, NEW s \in Sockets, Ready(s) PROVE LiveInv'
<1>s. LiveShape /\ BothSides /\ RoomsFollow /\ RostersFollow
  BY DEF LiveInv
<1>0. s[1] \in Tabs /\ desired[s[1]] \in SUBSET Rooms /\ up[s] \in Seq(Requests) /\ down[s] \in Seq(Notices)
  BY <1>s DEF LiveShape, Sockets
<1>1. PICK e : e = Each("join", desired[s[1]])
  OBVIOUS
<1>2. /\ e \in Seq(Requests)
      /\ \A r \in desired[s[1]] : LastIn(e, Moves(r), <<"join", r>>) /\ ~NoneIn(e, Moves(r))
      /\ \A r : r \notin desired[s[1]] => NoneIn(e, Moves(r))
  BY <1>0, <1>1, EachMoves
<1>3. /\ up'[s] = up[s] \o e
      /\ \A z \in Sockets : z # s => up'[z] = up[z] /\ down'[z] = down[z]
      /\ up' \in [Sockets -> Seq(Requests)] /\ down' \in [Sockets -> Seq(Notices)]
  <2>1. up \in [Sockets -> Seq(Requests)] /\ down \in [Sockets -> Seq(Notices)]
    BY <1>s DEF LiveShape
  <2>2. up' = [up EXCEPT ![s] = up[s] \o e] /\ down' = [down EXCEPT ![s] = Tail(down[s])]
    BY <1>1 DEF Ready
  <2>3. up[s] \o e \in Seq(Requests) /\ Tail(down[s]) \in Seq(Notices)
    BY <1>0, <1>2 DEF Ready
  <2> QED
    BY <2>1, <2>2, <2>3
<1>4. LiveShape'
  BY <1>s, <1>3 DEF Ready, LiveShape, server
<1>5. SocketsLeft' /\ TabsFollow' /\ OneSocket'
  BY StillKeeps DEF LiveInv, TabsFollow, Ready, server
<1>6. BothSides'
  BY <1>s, <1>3 DEF BothSides, Ready, server
<1>7. ASSUME NEW z \in Sockets, NEW r \in Rooms, Current(z)'
      PROVE  /\ WillBe(z, r)' => r \in desired'[z[1]]
             /\ srv'[z] = "ready" /\ ~Greeted(down'[z]) /\ r \in desired'[z[1]] => WillBe(z, r)'
             /\ ~hurried'[z[1]] /\ r \in desired'[z[1]] /\ z \in members'[r] /\ NoneIn(up'[z], Moves(r))
                  => Shows(down'[z], r, roster'[z[1]][r], members'[r])
  <2>1. Current(z) /\ UNCHANGED <<joined, members, srv, desired, hurried, roster>>
    BY <1>7 DEF Current, Ready, server
  <2>2. CASE z # s
    <3>1. WillBe(z, r)' <=> WillBe(z, r)
      BY <2>1, <2>2, <1>3 DEF WillBe
    <3> QED
      BY <3>1, <2>1, <2>2, <1>3, <1>s DEF RoomsFollow, RostersFollow
  <2>3. CASE z = s /\ r \in desired[z[1]]
    <3>1. LastIn(up[s] \o e, Moves(r), <<"join", r>>) /\ ~NoneIn(up[s] \o e, Moves(r))
      BY <2>3, <1>0, <1>2, LastCat
    <3> QED
      BY <3>1, <2>1, <2>3, <1>3 DEF WillBe
  <2>4. CASE z = s /\ r \notin desired[z[1]]
    <3>0. <<"join", r>> \in Moves(r)
      BY DEF Moves
    <3>1. /\ LastIn(up[s] \o e, Moves(r), <<"join", r>>) => LastIn(up[s], Moves(r), <<"join", r>>)
          /\ NoneIn(up[s] \o e, Moves(r)) => NoneIn(up[s], Moves(r))
      BY <3>0, <2>4, <1>0, <1>2, LastCat
    <3>2. WillBe(z, r)' => WillBe(z, r)
      BY <3>1, <2>1, <2>4, <1>3 DEF WillBe
    <3> QED
      BY <3>2, <2>1, <2>4, <1>s DEF RoomsFollow
  <2> QED
    BY <2>2, <2>3, <2>4
<1>8. RoomsFollow' /\ RostersFollow'
  BY <1>7 DEF RoomsFollow, RostersFollow
<1> QED
  BY <1>4, <1>5, <1>6, <1>8 DEF LiveInv

LEMMA RosterKeeps == ASSUME LiveInv, NEW s \in Sockets, Roster(s) PROVE LiveInv'
<1>s. LiveShape /\ BothSides /\ TabsFollow /\ OneSocket /\ RoomsFollow /\ RostersFollow
  BY DEF LiveInv
<1>0. s[1] \in Tabs /\ down[s] \in Seq(Notices) /\ down[s] # <<>> /\ Head(down[s])[1] = "roster" /\ cli[s] = "open"
  BY <1>s DEF LiveShape, Sockets, Roster
<1>1. Head(down[s]) \in Notices /\ Tail(down[s]) \in Seq(Notices)
  BY <1>0
<1>2. PICK r0 \in Rooms, ids0 \in SUBSET Sockets : Head(down[s]) = <<"roster", r0, ids0>>
  BY <1>0, <1>1 DEF Notices
<1>3. /\ down'[s] = Tail(down[s]) /\ down' \in [Sockets -> Seq(Notices)]
      /\ \A z \in Sockets : z # s => down'[z] = down[z]
      /\ UNCHANGED <<joined, members, srv, desired, hurried, up, cli, wsRef, hup, made>>
  <2>1. down \in [Sockets -> Seq(Notices)]
    BY <1>s DEF LiveShape
  <2>2. down' = [down EXCEPT ![s] = Tail(down[s])]
    BY DEF Roster
  <2> QED
    BY <2>1, <2>2, <1>1 DEF Roster, server
<1>4. /\ roster' \in [Tabs -> [Rooms -> SUBSET Sockets]]
      /\ \A t \in Tabs, r \in Rooms :
           roster'[t][r] = IF t = s[1] /\ r = r0 /\ r \in desired[s[1]] THEN ids0 ELSE roster[t][r]
  <2>1. roster' = IF r0 \in desired[s[1]] THEN [roster EXCEPT ![s[1]][r0] = ids0] ELSE roster
    <3>1. Head(down[s])[2] = r0 /\ Head(down[s])[3] = ids0
      BY <1>2
    <3> QED
      BY <3>1 DEF Roster
  <2>2. roster \in [Tabs -> [Rooms -> SUBSET Sockets]]
    BY <1>s DEF LiveShape
  <2> QED
    BY <2>1, <2>2, <1>0
<1>5. LiveShape'
  BY <1>s, <1>1, <1>3, <1>4 DEF Roster, LiveShape, server
<1>6. SocketsLeft' /\ TabsFollow' /\ OneSocket'
  BY StillKeeps DEF LiveInv, TabsFollow, Roster, server
<1>7. BothSides'
  BY <1>s, <1>3, <1>0 DEF BothSides
<1>8. ASSUME NEW z \in Sockets, NEW r \in Rooms, Current(z)'
      PROVE  /\ WillBe(z, r)' => r \in desired'[z[1]]
             /\ srv'[z] = "ready" /\ ~Greeted(down'[z]) /\ r \in desired'[z[1]] => WillBe(z, r)'
  <2>1. Current(z) /\ (WillBe(z, r)' <=> WillBe(z, r))
    BY <1>8, <1>3 DEF Current, WillBe
  <2>2. Greeted(down[z]) => Greeted(down'[z])
    <3>1. CASE z = s
      <4>1. ASSUME Greeted(down[s]) PROVE Greeted(Tail(down[s]))
        <5>1. PICK i \in 1 .. Len(down[s]) : down[s][i] = <<"ready">>
          BY <4>1 DEF Greeted
        <5>2. Head(down[s]) = down[s][1] /\ Len(down[s]) \in Nat /\ Head(down[s]) # <<"ready">>
          BY <1>0
        <5>3. i # 1
          BY <5>1, <5>2
        <5>4. i - 1 \in 1 .. Len(Tail(down[s])) /\ Tail(down[s])[i - 1] = down[s][i]
          BY <5>2, <5>3, <1>0
        <5> QED
          BY <5>1, <5>4 DEF Greeted
      <4> QED
        BY <4>1, <3>1, <1>3
    <3>2. CASE z # s
      BY <3>2, <1>3
    <3> QED
      BY <3>1, <3>2
  <2> QED
    BY <2>1, <2>2, <1>3, <1>s DEF RoomsFollow
<1>9. ASSUME NEW z \in Sockets, NEW r \in Rooms, Current(z)', ~hurried'[z[1]], r \in desired'[z[1]],
             z \in members'[r], NoneIn(up'[z], Moves(r))
      PROVE  Shows(down'[z], r, roster'[z[1]][r], members'[r])
  <2>0. z[1] \in Tabs /\ z[2] \in 1 .. MaxSockets /\ z = <<z[1], z[2]>>
        /\ s[2] \in 1 .. MaxSockets /\ s = <<s[1], s[2]>>
    BY DEF Sockets
  <2>1. Current(z) /\ Shows(down[z], r, roster[z[1]][r], members[r])
    BY <1>9, <1>3, <1>s DEF Current, RostersFollow
  <2>2. CASE z # s
    <3>1. z[1] # s[1]
      <4>1. ASSUME z[1] = s[1] PROVE FALSE
        <5>1. wsRef[z[1]] = z[2] /\ z[2] # 0 /\ ~hurried[z[1]]
          BY <2>0, <2>1, <1>9, <1>3 DEF Current
        <5>2. signed[z[1]]
          BY <5>1, <2>0, <1>s DEF TabsFollow
        <5>3. wsRef[s[1]] = s[2]
          BY <5>1, <5>2, <4>1, <2>0, <1>0, <1>s DEF OneSocket
        <5> QED
          BY <5>1, <5>3, <4>1, <2>0, <2>2
      <4> QED
        BY <4>1
    <3> QED
      BY <3>1, <2>0, <2>1, <2>2, <1>3, <1>4
  <2>3. CASE z = s
    <3> DEFINE q == down[s]
    <3>1. /\ NoneIn(q, Rosters(r)) => NoneIn(Tail(q), Rosters(r)) /\ Head(q) \notin Rosters(r)
          /\ LastIn(q, Rosters(r), <<"roster", r, members[r]>>) =>
               \/ LastIn(Tail(q), Rosters(r), <<"roster", r, members[r]>>)
               \/ Head(q) = <<"roster", r, members[r]>> /\ NoneIn(Tail(q), Rosters(r))
      <4>1. PICK S : S = Rosters(r)
        OBVIOUS
      <4>2. /\ NoneIn(q, S) => NoneIn(Tail(q), S) /\ Head(q) \notin S
            /\ \A x : LastIn(q, S, x) => LastIn(Tail(q), S, x) \/ (Head(q) = x /\ NoneIn(Tail(q), S))
        BY <1>0, LastTail
      <4> QED
        BY <4>1, <4>2
    <3>2. r = r0 => Head(q) \in Rosters(r)
      BY <1>2 DEF Rosters
    <3>3. Head(q) = <<"roster", r, members[r]>> => r = r0 /\ ids0 = members[r]
      BY <1>2
    <3>4. CASE NoneIn(q, Rosters(r)) /\ roster[z[1]][r] = members[r]
      <4>1. r # r0 /\ NoneIn(Tail(q), Rosters(r))
        BY <3>1, <3>2, <3>4
      <4> QED
        BY <4>1, <3>4, <2>0, <2>3, <1>3, <1>4 DEF Shows
    <3>5. CASE LastIn(q, Rosters(r), <<"roster", r, members[r]>>)
      <4>1. CASE LastIn(Tail(q), Rosters(r), <<"roster", r, members[r]>>)
        BY <4>1, <2>3, <1>3 DEF Shows
      <4>2. CASE Head(q) = <<"roster", r, members[r]>> /\ NoneIn(Tail(q), Rosters(r))
        <5>1. roster'[z[1]][r] = members[r]
          BY <4>2, <3>3, <2>3, <1>9, <1>3, <1>4, <1>0
        <5> QED
          BY <5>1, <4>2, <2>3, <1>3 DEF Shows
      <4> QED
        BY <4>1, <4>2, <3>1, <3>5
    <3> QED
      BY <3>4, <3>5, <2>1, <2>3 DEF Shows
  <2> QED
    BY <2>2, <2>3
<1>10. RoomsFollow' /\ RostersFollow'
  BY <1>8, <1>9 DEF RoomsFollow, RostersFollow
<1> QED
  BY <1>5, <1>6, <1>7, <1>10 DEF LiveInv

LEMMA OpenRoomKeeps ==
    ASSUME LiveInv, NEW t \in Tabs, NEW r0 \in Rooms, OpenRoom(t, r0) PROVE LiveInv'
<1>s. LiveShape /\ BothSides /\ RoomsFollow /\ RostersFollow
  BY DEF LiveInv
<1>1. PICK m \in Requests : m = <<"join", r0>>
  BY DEF Requests
<1>2. /\ <<m>> \in Seq(Requests) /\ LastIn(<<m>>, Moves(r0), m) /\ ~NoneIn(<<m>>, Moves(r0))
      /\ \A r : r # r0 => NoneIn(<<m>>, Moves(r))
  <2>1. <<m>> \in Seq(Requests) /\ Len(<<m>>) = 1 /\ <<m>>[1] = m /\ m \in Moves(r0)
    BY <1>1 DEF Moves
  <2>2. \A r : r # r0 => m \notin Moves(r)
    BY <1>1 DEF Moves
  <2> QED
    BY <2>1, <2>2 DEF LastIn, NoneIn
<1>3. /\ up' \in [Sockets -> Seq(Requests)]
      /\ \A z \in Sockets : z[1] = t /\ Current(z) => up'[z] = up[z] \o <<m>>
      /\ \A z \in Sockets : z[1] # t \/ cli[z] # "open" => up'[z] = up[z]
  <2>1. up' = SendOn(t, <<m>>)
    BY <1>1 DEF OpenRoom
  <2> QED
    BY <2>1, <1>s, <1>2, SendIs
<1>4. /\ desired' \in [Tabs -> SUBSET Rooms] /\ desired'[t] = {r0} /\ desired[t] = {}
      /\ \A u \in Tabs : u # t => desired'[u] = desired[u] /\ roster'[u] = roster[u]
      /\ roster' \in [Tabs -> [Rooms -> SUBSET Sockets]]
  BY <1>s DEF OpenRoom, LiveShape
<1>v. visits' \in [Tabs -> Nat]
  BY <1>s DEF OpenRoom, LiveShape
<1>5. LiveShape'
  BY <1>s, <1>3, <1>4, <1>v DEF OpenRoom, LiveShape, server
<1>6. SocketsLeft' /\ TabsFollow' /\ OneSocket'
  <2>1. signed[t] /\ \A u \in Tabs : ~signed[u] => desired[u] = {}
    BY DEF OpenRoom, LiveInv, TabsFollow
  <2>2. \A u \in Tabs : ~signed[u] => desired'[u] = {}
    BY <2>1, <1>4
  <2> QED
    BY <2>2, StillKeeps DEF OpenRoom, server
<1>7. BothSides'
  BY <1>s, <1>3 DEF BothSides, OpenRoom, server
<1>8. ASSUME NEW z \in Sockets, NEW r \in Rooms, Current(z)'
      PROVE  /\ WillBe(z, r)' => r \in desired'[z[1]]
             /\ srv'[z] = "ready" /\ ~Greeted(down'[z]) /\ r \in desired'[z[1]] => WillBe(z, r)'
             /\ ~hurried'[z[1]] /\ r \in desired'[z[1]] /\ z \in members'[r] /\ NoneIn(up'[z], Moves(r))
                  => Shows(down'[z], r, roster'[z[1]][r], members'[r])
  <2>1. Current(z) /\ UNCHANGED <<joined, members, srv, down, hurried>>
    BY <1>8 DEF Current, OpenRoom, server
  <2>0. z[1] \in Tabs /\ up[z] \in Seq(Requests)
    BY <1>s DEF LiveShape, Sockets
  <2>2. CASE z[1] # t
    <3>1. WillBe(z, r)' <=> WillBe(z, r)
      BY <2>1, <2>2, <1>3 DEF WillBe
    <3> QED
      BY <3>1, <2>0, <2>1, <2>2, <1>3, <1>4, <1>s DEF RoomsFollow, RostersFollow
  <2>3. CASE z[1] = t /\ r = r0
    <3>1. LastIn(up[z] \o <<m>>, Moves(r), <<"join", r>>) /\ ~NoneIn(up[z] \o <<m>>, Moves(r))
      BY <2>0, <2>3, <1>1, <1>2, LastCat
    <3> QED
      BY <3>1, <2>1, <2>3, <1>3, <1>4 DEF WillBe
  <2>4. CASE z[1] = t /\ r # r0
    <3>0. <<"join", r>> \in Moves(r)
      BY DEF Moves
    <3>1. /\ LastIn(up[z] \o <<m>>, Moves(r), <<"join", r>>) => LastIn(up[z], Moves(r), <<"join", r>>)
          /\ NoneIn(up[z] \o <<m>>, Moves(r)) => NoneIn(up[z], Moves(r))
      BY <3>0, <2>0, <2>4, <1>2, LastCat, ZenonT(40)
    <3>2. WillBe(z, r)' => WillBe(z, r)
      BY <3>1, <2>1, <2>4, <1>3 DEF WillBe
    <3> QED
      BY <3>2, <2>1, <2>4, <1>4, <1>s DEF RoomsFollow
  <2> QED
    BY <2>2, <2>3, <2>4
<1>9. RoomsFollow' /\ RostersFollow'
  BY <1>8 DEF RoomsFollow, RostersFollow
<1> QED
  BY <1>5, <1>6, <1>7, <1>9 DEF LiveInv

\* What a tab sends about the rooms it has open: that it leaves them, or a touch.
LEMMA SendEachKeeps ==
    ASSUME LiveInv, NEW t \in Tabs, NEW verb \in {"leave", "touch"},
           up' = SendOn(t, Each(verb, desired[t])),
           desired' = [desired EXCEPT ![t] = IF verb = "leave" THEN {} ELSE @],
           visits' \in [Tabs -> Nat],
           UNCHANGED <<signed, signIns, cancelled, wsRef, made, pending, timerRef, roster, cli,
                       down, server, faults, hurried>>
    PROVE  LiveInv'
<1>s. LiveShape /\ BothSides /\ RoomsFollow /\ RostersFollow
  BY DEF LiveInv
<1>0. desired[t] \in SUBSET Rooms
  BY <1>s DEF LiveShape
<1>1. PICK e : e = Each(verb, desired[t])
  OBVIOUS
<1>2. /\ e \in Seq(Requests)
      /\ \A r \in desired[t] : verb = "leave" => LastIn(e, Moves(r), <<verb, r>>) /\ ~NoneIn(e, Moves(r))
      /\ \A r : r \notin desired[t] \/ verb = "touch" => NoneIn(e, Moves(r))
  BY <1>0, <1>1, EachMoves
<1>3. /\ up' \in [Sockets -> Seq(Requests)]
      /\ \A z \in Sockets : z[1] = t /\ Current(z) => up'[z] = up[z] \o e
      /\ \A z \in Sockets : z[1] # t \/ cli[z] # "open" => up'[z] = up[z]
  <2>1. up' = SendOn(t, e)
    BY <1>1
  <2> QED
    BY <2>1, <1>s, <1>2, SendIs, SMTT(20)
<1>4. /\ desired' \in [Tabs -> SUBSET Rooms]
      /\ desired'[t] = IF verb = "leave" THEN {} ELSE desired[t]
      /\ \A u \in Tabs : u # t => desired'[u] = desired[u]
  BY <1>s DEF LiveShape
<1>5. LiveShape'
  BY <1>s, <1>3, <1>4 DEF LiveShape, server
<1>6. SocketsLeft' /\ TabsFollow' /\ OneSocket'
  <2>1. \A u \in Tabs : ~signed[u] => desired'[u] = {}
    BY <1>4 DEF LiveInv, TabsFollow
  <2> QED
    BY <2>1, StillKeeps DEF server
<1>7. BothSides'
  BY <1>s, <1>3 DEF BothSides, server
<1>8. ASSUME NEW z \in Sockets, NEW r \in Rooms, Current(z)'
      PROVE  /\ WillBe(z, r)' => r \in desired'[z[1]]
             /\ srv'[z] = "ready" /\ ~Greeted(down'[z]) /\ r \in desired'[z[1]] => WillBe(z, r)'
             /\ ~hurried'[z[1]] /\ r \in desired'[z[1]] /\ z \in members'[r] /\ NoneIn(up'[z], Moves(r))
                  => Shows(down'[z], r, roster'[z[1]][r], members'[r])
  <2>1. Current(z) /\ UNCHANGED <<joined, members, srv, down, hurried, roster>>
    BY <1>8 DEF Current, server
  <2>0. z[1] \in Tabs /\ up[z] \in Seq(Requests) /\ <<"join", r>> \in Moves(r) /\ <<"leave", r>> \in Moves(r)
    BY <1>s DEF LiveShape, Sockets, Moves
  <2>2. CASE z[1] # t
    <3>1. WillBe(z, r)' <=> WillBe(z, r)
      BY <2>1, <2>2, <1>3 DEF WillBe
    <3> QED
      BY <3>1, <2>0, <2>1, <2>2, <1>3, <1>4, <1>s DEF RoomsFollow, RostersFollow
  <2>3. CASE z[1] = t /\ verb = "leave" /\ r \in desired[t]
    <3>0. LastIn(e, Moves(r), <<"leave", r>>) /\ ~NoneIn(e, Moves(r))
      BY <2>3, <1>2
    <3>1. ~NoneIn(up[z] \o e, Moves(r))
      BY <3>0, <2>0, <1>2, LastCat
    <3>2. ASSUME LastIn(up[z] \o e, Moves(r), <<"join", r>>) PROVE FALSE
      <4>1. <<"leave", r>> = <<"join", r>>
        BY <3>0, <3>2, <2>0, <1>2, LastCat
      <4> QED
        BY <4>1
    <3> QED
      BY <3>1, <3>2, <2>1, <2>3, <1>3, <1>4 DEF WillBe
  <2>4. CASE z[1] = t /\ (verb = "touch" \/ r \notin desired[t])
    <3>0. NoneIn(e, Moves(r))
      BY <2>4, <1>2
    <3>1. /\ LastIn(up[z] \o e, Moves(r), <<"join", r>>) <=> LastIn(up[z], Moves(r), <<"join", r>>)
          /\ NoneIn(up[z] \o e, Moves(r)) <=> NoneIn(up[z], Moves(r))
      BY <3>0, <2>0, <1>2, LastCat
    <3>2. (WillBe(z, r)' <=> WillBe(z, r)) /\ (NoneIn(up'[z], Moves(r)) => NoneIn(up[z], Moves(r)))
      BY <3>1, <2>1, <2>4, <1>3 DEF WillBe
    <3>3. r \in desired'[z[1]] <=> r \in desired[z[1]]
      BY <2>4, <1>4
    <3> QED
      BY <3>2, <3>3, <2>1, <1>s DEF RoomsFollow, RostersFollow
  <2> QED
    BY <2>2, <2>3, <2>4
<1>9. RoomsFollow' /\ RostersFollow'
  BY <1>8 DEF RoomsFollow, RostersFollow
<1> QED
  BY <1>5, <1>6, <1>7, <1>9 DEF LiveInv

\* A frame read before the authentication is through changes no room.
LEMMA DropKeeps ==
    ASSUME LiveInv, NEW s \in Sockets, HandleAuth(s) \/ Unauthenticated(s) PROVE LiveInv'
<1>s. LiveShape /\ BothSides /\ RoomsFollow /\ RostersFollow
  BY DEF LiveInv
<1>0. /\ up[s] \in Seq(Requests) /\ up[s] # <<>> /\ srv[s] \in {"new", "authing"}
      /\ joined[s] = {} /\ cli[s] \notin {"none", "connecting"}
  BY <1>s DEF LiveShape, HandleAuth, Unauthenticated, BothSides
<1>1. /\ up' \in [Sockets -> Seq(Requests)] /\ up'[s] = Tail(up[s])
      /\ \A z \in Sockets : z # s => up'[z] = up[z] /\ srv'[z] = srv[z]
      /\ srv'[s] \in {"new", "authing"}
      /\ srv' \in [Sockets -> {"none", "new", "authing", "ready", "gone"}]
      /\ UNCHANGED <<browser, down, hup, joined, members, faults>>
  <2>1. up \in [Sockets -> Seq(Requests)] /\ srv \in [Sockets -> {"none", "new", "authing", "ready", "gone"}]
    BY <1>s DEF LiveShape
  <2>2. up' = [up EXCEPT ![s] = Tail(up[s])] /\ Tail(up[s]) \in Seq(Requests)
    BY <1>0 DEF HandleAuth, Unauthenticated
  <2>3. srv' = srv \/ srv' = [srv EXCEPT ![s] = "authing"]
    BY DEF HandleAuth, Unauthenticated, server
  <2> QED
    BY <2>1, <2>2, <2>3, <1>0 DEF HandleAuth, Unauthenticated, server
<1>2. LiveShape'
  BY <1>s, <1>1 DEF LiveShape, browser
<1>3. SocketsLeft' /\ TabsFollow' /\ OneSocket'
  BY <1>1, StillKeeps DEF LiveInv, TabsFollow, browser
<1>4. BothSides'
  BY <1>s, <1>0, <1>1 DEF BothSides, browser
<1>5. ASSUME NEW z \in Sockets, NEW r \in Rooms, Current(z)'
      PROVE  /\ WillBe(z, r)' => r \in desired'[z[1]]
             /\ srv'[z] = "ready" /\ ~Greeted(down'[z]) /\ r \in desired'[z[1]] => WillBe(z, r)'
             /\ ~hurried'[z[1]] /\ r \in desired'[z[1]] /\ z \in members'[r] /\ NoneIn(up'[z], Moves(r))
                  => Shows(down'[z], r, roster'[z[1]][r], members'[r])
  <2>1. Current(z) /\ UNCHANGED <<joined, members, down, hurried, roster, desired>>
    BY <1>5, <1>1 DEF Current, browser
  <2>2. CASE z # s
    <3>1. WillBe(z, r)' <=> WillBe(z, r)
      BY <2>1, <2>2, <1>1 DEF WillBe
    <3> QED
      BY <3>1, <2>1, <2>2, <1>1, <1>s DEF RoomsFollow, RostersFollow
  <2>3. CASE z = s
    <3>1. LastIn(Tail(up[s]), Moves(r), <<"join", r>>) => LastIn(up[s], Moves(r), <<"join", r>>)
      <4>1. PICK S : S = Moves(r)
        OBVIOUS
      <4>2. \A x : LastIn(Tail(up[s]), S, x) => LastIn(up[s], S, x)
        BY <1>0, LastTail, ZenonT(40)
      <4> QED
        BY <4>1, <4>2
    <3>2. WillBe(z, r)' => WillBe(z, r)
      BY <3>1, <2>1, <2>3, <1>0, <1>1 DEF WillBe
    <3>3. z \notin members[r]
      BY <2>3, <1>0, <1>s DEF BothSides
    <3> QED
      BY <3>2, <3>3, <2>1, <2>3, <1>1, <1>s DEF RoomsFollow
  <2> QED
    BY <2>2, <2>3
<1>6. RoomsFollow' /\ RostersFollow'
  BY <1>5 DEF RoomsFollow, RostersFollow
<1> QED
  BY <1>2, <1>3, <1>4, <1>6 DEF LiveInv

\* The authentication is through: the tab will be told, and join again.
LEMMA AuthedKeeps ==
    ASSUME LiveInv, NEW s \in Sockets, AuthDone(s), srv' = [srv EXCEPT ![s] = "ready"],
           down' = (IF IsOpen(s) THEN [down EXCEPT ![s] = Append(@, <<"ready">>)] ELSE down),
           UNCHANGED <<hup, faults>>
    PROVE  LiveInv'
<1>s. LiveShape /\ BothSides /\ RoomsFollow /\ RostersFollow
  BY DEF LiveInv
<1>0. srv[s] = "authing" /\ joined[s] = {} /\ cli[s] \notin {"none", "connecting"} /\ down[s] \in Seq(Notices)
  BY <1>s DEF LiveShape, AuthDone, BothSides
<1>1. PICK m \in Notices : m = <<"ready">>
  BY DEF Notices
<1>2. /\ down' \in [Sockets -> Seq(Notices)]
      /\ \A z \in Sockets : z # s => down'[z] = down[z] /\ srv'[z] = srv[z]
      /\ IsOpen(s) => down'[s] = Append(down[s], m)
      /\ srv' \in [Sockets -> {"none", "new", "authing", "ready", "gone"}] /\ srv'[s] = "ready"
      /\ UNCHANGED <<browser, up, hup, joined, members, faults>>
  <2>1. down \in [Sockets -> Seq(Notices)] /\ srv \in [Sockets -> {"none", "new", "authing", "ready", "gone"}]
    BY <1>s DEF LiveShape
  <2>2. Append(down[s], m) \in Seq(Notices)
    BY <1>0
  <2>3. down' = (IF IsOpen(s) THEN [down EXCEPT ![s] = Append(down[s], m)] ELSE down)
    BY <1>1
  <2> QED
    BY <2>1, <2>2, <2>3 DEF AuthDone
<1>3. LiveShape'
  BY <1>s, <1>2 DEF LiveShape, browser
<1>4. SocketsLeft' /\ TabsFollow' /\ OneSocket'
  BY <1>2, StillKeeps DEF LiveInv, TabsFollow, browser
<1>5. BothSides'
  BY <1>s, <1>0, <1>2 DEF BothSides, browser
<1>6. ASSUME NEW z \in Sockets, NEW r \in Rooms, Current(z)'
      PROVE  /\ WillBe(z, r)' => r \in desired'[z[1]]
             /\ srv'[z] = "ready" /\ ~Greeted(down'[z]) /\ r \in desired'[z[1]] => WillBe(z, r)'
             /\ ~hurried'[z[1]] /\ r \in desired'[z[1]] /\ z \in members'[r] /\ NoneIn(up'[z], Moves(r))
                  => Shows(down'[z], r, roster'[z[1]][r], members'[r])
  <2>1. Current(z) /\ UNCHANGED <<up, joined, members, hurried, roster, desired>> /\ (WillBe(z, r)' <=> WillBe(z, r))
    BY <1>6, <1>2 DEF Current, browser, WillBe
  <2>2. CASE z # s
    BY <2>1, <2>2, <1>2, <1>s DEF RoomsFollow, RostersFollow
  <2>3. CASE z = s
    <3>1. IsOpen(s)
      BY <2>1, <2>3, <1>0 DEF IsOpen, Current
    <3>2. Len(down[s]) + 1 \in 1 .. Len(down'[s]) /\ down'[s][Len(down[s]) + 1] = <<"ready">>
      BY <3>1, <1>0, <1>1, <1>2
    <3>3. Greeted(down'[s])
      BY <3>2 DEF Greeted
    <3>4. z \notin members[r]
      BY <2>3, <1>0, <1>s DEF BothSides
    <3> QED
      BY <3>3, <3>4, <2>1, <2>3, <1>s DEF RoomsFollow
  <2> QED
    BY <2>2, <2>3
<1>7. RoomsFollow' /\ RostersFollow'
  BY <1>6 DEF RoomsFollow, RostersFollow
<1> QED
  BY <1>3, <1>4, <1>5, <1>7 DEF LiveInv

\* A frame the server reads from an authenticated socket: with the room and the
\* members as they are afterwards.
LEMMA ReadKeeps ==
    ASSUME LiveInv, NEW s \in Sockets, NEW r0 \in Rooms, NEW m, srv[s] = "ready",
           up[s] # <<>>, Head(up[s]) = m, up' = [up EXCEPT ![s] = Tail(@)],
           UNCHANGED <<browser, srv, hup, faults>>,
           \/ m = <<"join", r0>> /\ joined' = [joined EXCEPT ![s] = @ \cup {r0}]
                                 /\ members' = [members EXCEPT ![r0] = @ \cup {s}]
           \/ m = <<"leave", r0>> /\ joined' = [joined EXCEPT ![s] = @ \ {r0}]
                                  /\ members' = [members EXCEPT ![r0] = @ \ {s}]
           \/ m = <<"touch", r0>> /\ UNCHANGED <<joined, members>>,
           down' = Broadcast(r0, members'[r0]) \/ (m[1] # "join" /\ UNCHANGED <<down, members>>)
    PROVE  LiveInv'
<1>s. LiveShape /\ BothSides /\ RoomsFollow /\ RostersFollow
  BY DEF LiveInv
<1>0. up[s] \in Seq(Requests) /\ cli[s] \notin {"none", "connecting"}
  BY <1>s DEF LiveShape, BothSides
<1>1. /\ joined' \in [Sockets -> SUBSET Rooms] /\ members' \in [Rooms -> SUBSET Sockets]
      /\ \A z \in Sockets : z # s => joined'[z] = joined[z]
      /\ \A r \in Rooms : r # r0 => members'[r] = members[r] /\ (r \in joined'[s] <=> r \in joined[s])
      /\ members'[r0] \subseteq members[r0] \cup {s}
      /\ \A r \in Rooms, z \in Sockets : z \in members'[r] <=> r \in joined'[z]
  <2>1. joined \in [Sockets -> SUBSET Rooms] /\ members \in [Rooms -> SUBSET Sockets]
    BY <1>s DEF LiveShape
  <2>2. \A r \in Rooms, z \in Sockets : z \in members[r] <=> r \in joined[z]
    BY <1>s DEF BothSides
  <2> QED
    BY <2>1, <2>2
<1>2. /\ up' \in [Sockets -> Seq(Requests)] /\ up'[s] = Tail(up[s])
      /\ \A z \in Sockets : z # s => up'[z] = up[z]
  <2>1. up \in [Sockets -> Seq(Requests)] /\ Tail(up[s]) \in Seq(Requests)
    BY <1>0, <1>s DEF LiveShape
  <2> QED
    BY <2>1
<1>3. /\ down' \in [Sockets -> Seq(Notices)]
      /\ \A z \in Sockets :
           /\ z \notin members'[r0] => down'[z] = down[z]
           /\ Greeted(down[z]) => Greeted(down'[z])
           /\ \A r \in Rooms : r # r0 =>
                \A shown, x : Shows(down[z], r, shown, x) => Shows(down'[z], r, shown, x)
           /\ z \in members'[r0] /\ IsOpen(z) =>
                \/ \A shown : Shows(down'[z], r0, shown, members'[r0])
                \/ m # <<"join", r0>> /\ down'[z] = down[z] /\ UNCHANGED members
  <2>1. members'[r0] \in SUBSET Sockets /\ down \in [Sockets -> Seq(Notices)]
    BY <1>1, <1>s DEF LiveShape
  <2>2. PICK ids \in SUBSET Sockets : ids = members'[r0]
    BY <2>1
  <2>3. CASE m[1] # "join" /\ UNCHANGED <<down, members>>
    BY <2>1, <2>3
  <2>4. CASE down' = Broadcast(r0, ids)
    BY <2>2, <2>4, <1>s, BroadcastIs
  <2> QED
    BY <2>2, <2>3, <2>4
<1>4. LiveShape'
  BY <1>s, <1>1, <1>2, <1>3 DEF LiveShape, browser
<1>5. SocketsLeft' /\ TabsFollow' /\ OneSocket'
  BY StillKeeps DEF LiveInv, TabsFollow, browser
<1>6. BothSides'
  <2>1. ASSUME NEW z \in Sockets, cli[z] \in {"none", "connecting"} PROVE z # s /\ z \notin members'[r0]
    BY <2>1, <1>0, <1>1, <1>s DEF BothSides
  <2>2. \A z \in Sockets : cli[z] \in {"none", "connecting"} =>
          srv[z] = "none" /\ joined'[z] = {} /\ up'[z] = <<>> /\ down'[z] = <<>>
    BY <2>1, <1>1, <1>2, <1>3, <1>s, ZenonT(40) DEF BothSides
  <2>3. \A z \in Sockets : joined'[z] # {} => srv[z] = "ready"
    BY <1>1, <1>s DEF BothSides
  <2> QED
    BY <2>2, <2>3, <1>1, <1>s DEF BothSides, browser
<1>7. ASSUME NEW r \in Rooms
      PROVE  /\ WillBe(s, r)' <=> WillBe(s, r)
             /\ r # r0 => (NoneIn(up'[s], Moves(r)) => NoneIn(up[s], Moves(r)))
             /\ m = <<"touch", r0>> => (NoneIn(up'[s], Moves(r)) => NoneIn(up[s], Moves(r)))
  <2>0. <<"join", r>> \in Moves(r) /\ <<"leave", r>> \in Moves(r) /\ <<"touch", r0>> \notin Moves(r)
    BY DEF Moves
  <2>a. PICK S : S = Moves(r)
    OBVIOUS
  <2>b. PICK q : q = Tail(up[s])
    OBVIOUS
  <2>1. /\ NoneIn(up[s], S) <=> NoneIn(q, S) /\ m \notin S
        /\ \A x : LastIn(q, S, x) => LastIn(up[s], S, x)
        /\ \A x : LastIn(up[s], S, x) => LastIn(q, S, x) \/ (m = x /\ NoneIn(q, S))
        /\ NoneIn(q, S) => LastIn(up[s], S, m)
    BY <1>0, <2>b, LastTail
  <2>2. CASE r # r0 \/ m = <<"touch", r0>>
    <3>1. m \notin S /\ m # <<"join", r>> /\ (r \in joined'[s] <=> r \in joined[s])
      BY <2>2, <2>a, <1>1 DEF Moves
    <3> QED
      BY <3>1, <2>1, <2>a, <2>b, <1>2 DEF WillBe
  <2>3. CASE r = r0 /\ m = <<"join", r0>>
    <3>1. m \in S /\ r \in joined'[s]
      BY <2>0, <2>3, <2>a, <1>s DEF LiveShape
    <3> QED
      BY <3>1, <2>1, <2>3, <2>a, <2>b, <1>2 DEF WillBe
  <2>4. CASE r = r0 /\ m = <<"leave", r0>>
    <3>1. m \in S /\ r \notin joined'[s] /\ m # <<"join", r>>
      BY <2>0, <2>4, <2>a, <1>s DEF LiveShape
    <3> QED
      BY <3>1, <2>1, <2>4, <2>a, <2>b, <1>2 DEF WillBe
  <2> QED
    BY <2>2, <2>3, <2>4
<1>8. ASSUME NEW z \in Sockets, NEW r \in Rooms, Current(z)'
      PROVE  /\ WillBe(z, r)' => r \in desired'[z[1]]
             /\ srv'[z] = "ready" /\ ~Greeted(down'[z]) /\ r \in desired'[z[1]] => WillBe(z, r)'
  <2>1. Current(z) /\ UNCHANGED <<srv, desired>>
    BY <1>8 DEF Current, browser
  <2>2. WillBe(z, r)' <=> WillBe(z, r)
    <3>1. CASE z = s
      BY <3>1, <1>7
    <3>2. CASE z # s
      BY <3>2, <1>1, <1>2 DEF WillBe
    <3> QED
      BY <3>1, <3>2
  <2> QED
    BY <2>1, <2>2, <1>3, <1>s DEF RoomsFollow
<1>9. ASSUME NEW z \in Sockets, NEW r \in Rooms, Current(z)', ~hurried'[z[1]], r \in desired'[z[1]],
             z \in members'[r], NoneIn(up'[z], Moves(r))
      PROVE  Shows(down'[z], r, roster'[z[1]][r], members'[r])
  <2>1. Current(z) /\ UNCHANGED <<desired, hurried, roster, hup>>
    BY <1>9 DEF Current, browser
  <2>2. CASE r = r0 /\ ~(m # <<"join", r0>> /\ down'[z] = down[z] /\ UNCHANGED members)
    <3>1. srv[z] = "ready"
      BY <1>9, <2>2, <1>1, <1>s DEF BothSides
    <3>2. IsOpen(z)
      BY <3>1, <2>1 DEF IsOpen, Current
    <3> QED
      BY <3>2, <2>2, <1>3, <1>9
  <2>3. CASE r # r0 \/ (m # <<"join", r0>> /\ down'[z] = down[z] /\ UNCHANGED members)
    <3>0. z \in members[r] /\ members'[r] = members[r]
      BY <2>3, <1>9, <1>1
    <3>1. NoneIn(up[z], Moves(r))
      <4>1. CASE z # s
        BY <4>1, <1>2, <1>9
      <4>2. CASE z = s /\ r # r0
        BY <4>2, <1>7, <1>9
      <4>3. CASE z = s /\ r = r0 /\ m = <<"touch", r0>>
        BY <4>3, <1>7, <1>9
      <4>4. CASE z = s /\ r = r0 /\ m = <<"leave", r0>>
        <5>1. s \notin members'[r0]
          BY <4>4, <1>s DEF LiveShape
        <5> QED
          BY <5>1, <4>4, <1>9
      <4> QED
        BY <4>1, <4>2, <4>3, <4>4, <2>3
    <3>2. Shows(down[z], r, roster[z[1]][r], members[r])
      BY <3>0, <3>1, <2>1, <1>9, <1>s DEF RostersFollow
    <3> QED
      BY <3>0, <3>2, <2>1, <2>3, <1>3
  <2> QED
    BY <2>2, <2>3
<1>10. RoomsFollow' /\ RostersFollow'
  BY <1>8, <1>9 DEF RoomsFollow, RostersFollow
<1> QED
  BY <1>4, <1>5, <1>6, <1>10 DEF LiveInv

LEMMA RoomFramesKeep ==
    ASSUME LiveInv, NEW s \in Sockets, Join(s) \/ Leave(s) \/ Presence(s) PROVE LiveInv'
<1>s. LiveShape /\ BothSides
  BY DEF LiveInv
<1>0. up[s] \in Seq(Requests) /\ up[s] # <<>> /\ srv[s] = "ready" /\ Head(up[s]) \in Requests
  BY <1>s DEF LiveShape, Join, Leave, Presence
<1>1. PICK m \in Requests : m = Head(up[s])
  BY <1>0
<1>2. PICK r0 \in Rooms : m \in {<<"join", r0>>, <<"leave", r0>>, <<"touch", r0>>}
  BY <1>1 DEF Requests, Join, Leave, Presence
<1>3. m[2] = r0 /\ m = <<m[1], r0>>
  BY <1>2
<1>4. UNCHANGED <<browser, srv, hup, faults>> /\ up' = [up EXCEPT ![s] = Tail(@)]
  BY DEF Join, Leave, Presence
<1>5. CASE Join(s)
  <2>1. /\ m = <<"join", r0>> /\ joined' = [joined EXCEPT ![s] = @ \cup {r0}]
        /\ members' = [members EXCEPT ![r0] = @ \cup {s}]
        /\ down' = Broadcast(r0, members'[r0])
    BY <1>1, <1>3, <1>5 DEF Join
  <2> QED
    BY <2>1, <1>0, <1>1, <1>4, ReadKeeps
<1>6. CASE Leave(s)
  <2>1. m = <<"leave", r0>> /\ m[1] # "join"
    BY <1>1, <1>3, <1>6 DEF Leave
  <2>2. CASE s \in members[r0]
    <3>1. /\ joined' = [joined EXCEPT ![s] = @ \ {r0}]
          /\ members' = [members EXCEPT ![r0] = @ \ {s}]
          /\ down' = Broadcast(r0, members'[r0])
      BY <1>1, <1>3, <1>6, <2>2 DEF Leave
    <3> QED
      BY <3>1, <2>1, <1>0, <1>1, <1>4, ReadKeeps
  <2>3. CASE s \notin members[r0]
    <3>1. UNCHANGED <<joined, members, down>>
      BY <1>1, <1>3, <1>6, <2>3 DEF Leave
    <3>2. /\ joined[s] \ {r0} = joined[s] /\ members[r0] \ {s} = members[r0]
          /\ joined \in [Sockets -> SUBSET Rooms] /\ members \in [Rooms -> SUBSET Sockets]
      BY <2>3, <1>s DEF BothSides, LiveShape
    <3>3. joined' = [joined EXCEPT ![s] = @ \ {r0}] /\ members' = [members EXCEPT ![r0] = @ \ {s}]
      BY <3>1, <3>2
    <3> QED
      BY <3>1, <3>3, <2>1, <1>0, <1>1, <1>4, ReadKeeps
  <2> QED
    BY <2>2, <2>3
<1>7. CASE Presence(s)
  <2>1. m = <<"touch", r0>> /\ m[1] # "join"
    BY <1>1, <1>3, <1>7 DEF Presence
  <2>2. UNCHANGED <<joined, members>> /\ (down' = Broadcast(r0, members'[r0]) \/ down' = down)
    BY <1>1, <1>3, <1>7 DEF Presence
  <2> QED
    BY <2>1, <2>2, <1>0, <1>1, <1>4, ReadKeeps
<1> QED
  BY <1>5, <1>6, <1>7

LEMMA CloseKeeps == ASSUME LiveInv, NEW s \in Sockets, Close(s) PROVE LiveInv'
<1>s. LiveShape /\ BothSides /\ RoomsFollow /\ RostersFollow
  BY DEF LiveInv
<1>0. srv[s] \in {"new", "authing", "ready"} /\ (cli[s] \in {"closing", "closed"} \/ hup[s])
      /\ UNCHANGED <<browser, up, hup, faults>>
  BY DEF Close
<1>1. /\ members' \in [Rooms -> SUBSET Sockets] /\ joined' \in [Sockets -> SUBSET Rooms]
      /\ srv' \in [Sockets -> {"none", "new", "authing", "ready", "gone"}]
      /\ \A r \in Rooms : members'[r] = members[r] \ {s}
      /\ joined'[s] = {} /\ srv'[s] = "gone"
      /\ \A z \in Sockets : z # s => joined'[z] = joined[z] /\ srv'[z] = srv[z]
  BY <1>s DEF Close, LiveShape
<1> DEFINE R(d) == {r \in joined[s] : IsOpen(d) /\ d \in members'[r]}
<1>2. ASSUME NEW d \in Sockets
      PROVE  R(d) \in SUBSET Rooms /\ down'[d] = PushRosters(down[d], R(d), members') /\ down[d] \in Seq(Notices)
  BY <1>s DEF Close, LiveShape
<1>3. down' \in [Sockets -> Seq(Notices)]
  <2>1. \A d \in Sockets : PushRosters(down[d], R(d), members') \in Seq(Notices)
    BY <1>1, <1>2, PushMany
  <2> QED
    BY <2>1 DEF Close
<1>4. ASSUME NEW d \in Sockets
      PROVE  /\ R(d) = {} => down'[d] = down[d]
             /\ \A r \in R(d) : \A shown : Shows(down'[d], r, shown, members'[r])
             /\ \A r \in Rooms \ R(d) :
                  \A shown, x : Shows(down[d], r, shown, x) => Shows(down'[d], r, shown, x)
             /\ Greeted(down[d]) => Greeted(down'[d])
  <2>1. PICK D \in SUBSET Rooms : D = R(d)
    BY <1>2
  <2>2. PICK ids \in [Rooms -> SUBSET Sockets] : ids = members'
    BY <1>1
  <2>3. PICK q \in Seq(Notices) : q = down[d]
    BY <1>2
  <2>4. PICK p : p = PushRosters(q, D, ids)
    OBVIOUS
  <2>5. down'[d] = p
    BY <1>2, <2>1, <2>2, <2>3, <2>4
  <2>6. /\ D = {} => p = q
        /\ \A r \in D : \A shown : Shows(p, r, shown, ids[r])
        /\ \A r \in Rooms \ D : \A shown, x : Shows(q, r, shown, x) => Shows(p, r, shown, x)
        /\ Greeted(q) => Greeted(p)
    BY <2>4, PushMany
  <2> QED
    BY <2>1, <2>2, <2>3, <2>5, <2>6
<1>5. LiveShape'
  BY <1>s, <1>0, <1>1, <1>3 DEF LiveShape, browser
<1>6. SocketsLeft' /\ TabsFollow' /\ OneSocket'
  BY <1>0, StillKeeps DEF LiveInv, TabsFollow, browser
<1>7. BothSides'
  <2>1. ASSUME NEW z \in Sockets, cli[z] \in {"none", "connecting"}
        PROVE  srv'[z] = "none" /\ joined'[z] = {} /\ up[z] = <<>> /\ down'[z] = <<>>
    <3>1. srv[z] = "none" /\ joined[z] = {} /\ up[z] = <<>> /\ down[z] = <<>>
      BY <2>1, <1>s DEF BothSides
    <3>2. z # s /\ R(z) = {}
      BY <3>1, <1>0 DEF IsOpen
    <3> QED
      BY <3>1, <3>2, <1>1, <1>4
  <2>2. \A r \in Rooms, z \in Sockets : z \in members'[r] <=> r \in joined'[z]
    BY <1>1, <1>s DEF BothSides
  <2>3. \A z \in Sockets : joined'[z] # {} => srv'[z] = "ready"
    BY <1>1, <1>s DEF BothSides
  <2>4. \A z \in Sockets : (cli[z] = "none" => ~hup[z]) /\ (cli[z] # "none" => z[2] <= made[z[1]])
    BY <1>s DEF BothSides
  <2> QED
    BY <2>1, <2>2, <2>3, <2>4, <1>0 DEF BothSides, browser
<1>8. ASSUME NEW z \in Sockets, NEW r \in Rooms, Current(z)'
      PROVE  /\ WillBe(z, r)' => r \in desired'[z[1]]
             /\ srv'[z] = "ready" /\ ~Greeted(down'[z]) /\ r \in desired'[z[1]] => WillBe(z, r)'
             /\ ~hurried'[z[1]] /\ r \in desired'[z[1]] /\ z \in members'[r] /\ NoneIn(up'[z], Moves(r))
                  => Shows(down'[z], r, roster'[z[1]][r], members'[r])
  <2>1. Current(z) /\ UNCHANGED <<up, hurried, roster, desired, hup, cli>>
    BY <1>8, <1>0 DEF Current, browser
  <2>2. z # s
    BY <2>1, <1>0 DEF Current
  <2>3. srv'[z] = srv[z] /\ joined'[z] = joined[z]
    BY <2>2, <1>1
  <2>4. WillBe(z, r)' <=> WillBe(z, r)
    BY <2>1, <2>3 DEF WillBe
  <2>5. /\ WillBe(z, r)' => r \in desired'[z[1]]
        /\ srv'[z] = "ready" /\ ~Greeted(down'[z]) /\ r \in desired'[z[1]] => WillBe(z, r)'
    BY <2>1, <2>3, <2>4, <1>4, <1>s DEF RoomsFollow
  <2>6. ASSUME ~hurried[z[1]], r \in desired[z[1]], z \in members'[r], NoneIn(up[z], Moves(r))
        PROVE  Shows(down'[z], r, roster[z[1]][r], members'[r])
    <3>1. z \in members[r] /\ srv[z] = "ready"
      BY <2>6, <1>1, <1>s DEF BothSides
    <3>2. IsOpen(z)
      BY <3>1, <2>1 DEF IsOpen, Current
    <3>3. CASE r \in joined[s]
      <4>1. r \in R(z)
        BY <3>2, <3>3, <2>6
      <4> QED
        BY <4>1, <1>4
    <3>4. CASE r \notin joined[s]
      <4>0. s \notin members[r]
        BY <3>4, <1>s DEF BothSides
      <4>1. r \in Rooms \ R(z)
        BY <3>4
      <4>2. members'[r] = members[r]
        <5>1. members[r] \ {s} = members[r]
          BY <4>0
        <5> QED
          BY <5>1, <1>1
      <4>3. Shows(down[z], r, roster[z[1]][r], members[r])
        BY <3>1, <2>1, <2>6, <1>s DEF RostersFollow
      <4> QED
        BY <4>1, <4>2, <4>3, <1>4
    <3> QED
      BY <3>3, <3>4
  <2> QED
    BY <2>1, <2>5, <2>6
<1>9. RoomsFollow' /\ RostersFollow'
  BY <1>8 DEF RoomsFollow, RostersFollow
<1> QED
  BY <1>5, <1>6, <1>7, <1>9 DEF LiveInv

-----------------------------------------------------------------------------
\* The steps by which sockets come and go.

\* A new socket of a tab that has not one more than it is paid for.
LEMMA NewSocket ==
    ASSUME LiveInv, NEW t \in Tabs, Connect(t), made[t] + 1 <= MaxSockets
    PROVE  /\ <<t, made[t] + 1>> \in Sockets /\ cli[<<t, made[t] + 1>>] = "none"
           /\ made' \in [Tabs -> Nat] /\ made'[t] = made[t] + 1
           /\ \A u \in Tabs : u # t => made'[u] = made[u] /\ wsRef'[u] = wsRef[u]
           /\ wsRef' \in [Tabs -> 0 .. MaxSockets] /\ wsRef'[t] = made[t] + 1
           /\ cli' \in [Sockets -> SocketStates] /\ cli'[<<t, made[t] + 1>>] = "connecting"
           /\ \A z \in Sockets : z # <<t, made[t] + 1>> => cli'[z] = cli[z]
           /\ \A u \in Tabs : hup' = hup => Doomed(u)' = Doomed(u)
<1>1. /\ made \in [Tabs -> Nat] /\ wsRef \in [Tabs -> 0 .. MaxSockets] /\ cli \in [Sockets -> SocketStates]
  BY DEF LiveInv, LiveShape
<1>2. PICK n \in 1 .. MaxSockets : n = made[t] + 1
  BY <1>1, LiveConstants
<1>3. PICK s \in Sockets : s = <<t, n>>
  BY DEF Sockets
<1>4. cli[s] = "none"
  BY <1>1, <1>2, <1>3 DEF LiveInv, BothSides
<1>5. /\ made' = [made EXCEPT ![t] = n] /\ wsRef' = [wsRef EXCEPT ![t] = n]
      /\ cli' = [cli EXCEPT ![s] = "connecting"]
  BY <1>2, <1>3 DEF Connect
<1>6. "connecting" \in SocketStates /\ n \in Nat /\ n \in 0 .. MaxSockets
  BY <1>2, LiveConstants DEF SocketStates
<1>7. /\ made' \in [Tabs -> Nat] /\ made'[t] = n /\ wsRef' \in [Tabs -> 0 .. MaxSockets] /\ wsRef'[t] = n
      /\ \A u \in Tabs : u # t => made'[u] = made[u] /\ wsRef'[u] = wsRef[u]
      /\ cli' \in [Sockets -> SocketStates] /\ cli'[s] = "connecting"
      /\ \A z \in Sockets : z # s => cli'[z] = cli[z]
  BY <1>1, <1>5, <1>6
<1>8. ASSUME NEW u \in Tabs, hup' = hup PROVE Doomed(u)' = Doomed(u)
  <2>1. ~hup[s]
    BY <1>4 DEF LiveInv, BothSides
  <2>2. ASSUME NEW k \in 1 .. MaxSockets
        PROVE  (cli'[<<u, k>>] = "closing" \/ (cli'[<<u, k>>] \notin {"none", "closed"} /\ hup[<<u, k>>]))
               <=> (cli[<<u, k>>] = "closing" \/ (cli[<<u, k>>] \notin {"none", "closed"} /\ hup[<<u, k>>]))
    <3>1. <<u, k>> \in Sockets
      BY DEF Sockets
    <3> QED
      BY <3>1, <2>1, <1>4, <1>7
  <2> QED
    BY <2>2, <1>8 DEF Doomed
<1> QED
  BY <1>2, <1>3, <1>4, <1>7, <1>8

LEMMA SignInKeeps == ASSUME LiveInv, NEW t \in Tabs, SignIn(t) PROVE LiveInv'
<1>s. LiveShape /\ SocketsLeft /\ BothSides /\ TabsFollow /\ OneSocket
  BY DEF LiveInv
<1>0. /\ UNCHANGED <<visits, desired, pending, timerRef, roster, up, down, srv, hup, joined, members, faults>>
      /\ ~signed[t] /\ signIns[t] > 0 /\ Connect(t)
  BY DEF SignIn, server
<1>1. /\ signed' \in [Tabs -> BOOLEAN] /\ signed'[t] /\ \A u \in Tabs : u # t => signed'[u] = signed[u]
      /\ cancelled' \in [Tabs -> BOOLEAN] /\ ~cancelled'[t] /\ \A u \in Tabs : u # t => cancelled'[u] = cancelled[u]
      /\ signIns' \in [Tabs -> Nat] /\ signIns'[t] = signIns[t] - 1
      /\ \A u \in Tabs : u # t => signIns'[u] = signIns[u] /\ hurried'[u] = hurried[u]
      /\ hurried' \in [Tabs -> BOOLEAN]
      /\ ~hurried'[t] => ~hurried[t] /\ \A k \in 1 .. MaxSockets : cli[<<t, k>>] \in {"none", "closed"}
  <2>1. /\ signed \in [Tabs -> BOOLEAN] /\ cancelled \in [Tabs -> BOOLEAN] /\ signIns \in [Tabs -> Nat]
        /\ hurried \in [Tabs -> BOOLEAN]
    BY <1>s DEF LiveShape
  <2>2. signIns[t] - 1 \in Nat
    BY <2>1, <1>0
  <2>3. PICK b \in BOOLEAN : b = \E k \in 1 .. MaxSockets : cli[<<t, k>>] \notin {"none", "closed"}
    OBVIOUS
  <2>4. hurried' = [hurried EXCEPT ![t] = hurried[t] \/ b]
    BY <2>3 DEF SignIn
  <2>5. hurried' \in [Tabs -> BOOLEAN] /\ (hurried'[t] <=> hurried[t] \/ b)
        /\ \A u \in Tabs : u # t => hurried'[u] = hurried[u]
    BY <2>1, <2>4
  <2> QED
    BY <2>1, <2>2, <2>3, <2>5 DEF SignIn
<1>2. made[t] \in Nat /\ pending[t] \in Nat /\ signIns[t] \in Nat /\ faults \in Nat
      /\ \A u \in Tabs : Cardinality(Doomed(u)) \in Nat
  <2>1. \A u \in Tabs : Doomed(u) \in SUBSET (1 .. MaxSockets)
    BY DEF Doomed
  <2> QED
    BY <2>1, <1>s, DoomedCards DEF LiveShape
<1>3. made[t] + pending[t] + 2 * signIns[t] + faults + Cardinality(Doomed(t)) <= MaxSockets
  <2>1. made[t] + pending[t] + 2 * signIns[t] + faults + Cardinality(Doomed(t))
          + (IF signed[t] THEN 1 ELSE 0) <= MaxSockets
    BY <1>s DEF SocketsLeft
  <2>2. (IF signed[t] THEN 1 ELSE 0) = 0
    BY <1>0
  <2> QED
    BY <2>1, <2>2, <1>2, LiveConstants
<1>4. made[t] + 1 <= MaxSockets
  BY <1>0, <1>2, <1>3, LiveConstants
<1> DEFINE new == <<t, made[t] + 1>>
<1>5. /\ new \in Sockets /\ cli[new] = "none"
      /\ made' \in [Tabs -> Nat] /\ made'[t] = made[t] + 1
      /\ \A u \in Tabs : u # t => made'[u] = made[u] /\ wsRef'[u] = wsRef[u]
      /\ wsRef' \in [Tabs -> 0 .. MaxSockets] /\ wsRef'[t] = made[t] + 1
      /\ cli' \in [Sockets -> SocketStates] /\ cli'[new] = "connecting"
      /\ \A z \in Sockets : z # new => cli'[z] = cli[z]
      /\ \A u \in Tabs : Doomed(u)' = Doomed(u)
  BY <1>0, <1>4, NewSocket
<1>6. LiveShape'
  BY <1>s, <1>0, <1>1, <1>5 DEF LiveShape
<1>7. SocketsLeft'
  <2> SUFFICES ASSUME NEW u \in Tabs
               PROVE  made'[u] + pending'[u] + 2 * signIns'[u] + faults' + Cardinality(Doomed(u)')
                         + (IF signed'[u] THEN 1 ELSE 0) <= MaxSockets
    BY DEF SocketsLeft
  <2>1. CASE u # t
    BY <2>1, <1>s, <1>0, <1>1, <1>5 DEF SocketsLeft
  <2>2. CASE u = t
    <3>1. Cardinality(Doomed(t)') = Cardinality(Doomed(t)) /\ Cardinality(Doomed(t)) \in Nat
      BY <1>2, <1>5
    <3>2. made'[t] + pending'[t] + 2 * signIns'[t] + faults' + Cardinality(Doomed(t)) + 1 <= MaxSockets
      BY <1>0, <1>1, <1>2, <1>3, <1>5, <3>1, LiveConstants
    <3> QED
      BY <2>2, <3>1, <3>2, <1>1
  <2> QED
    BY <2>1, <2>2
<1>8. BothSides'
  <2>1. ASSUME NEW z \in Sockets, cli'[z] \in {"none", "connecting"}
        PROVE  cli[z] \in {"none", "connecting"} /\ (cli'[z] = "none" => cli[z] = "none")
    BY <2>1, <1>5
  <2>2. ASSUME NEW z \in Sockets, cli'[z] # "none" PROVE z[2] <= made'[z[1]]
    <3>1. CASE z = new
      BY <3>1, <1>2, <1>5
    <3>2. CASE z # new
      <4>0. z[1] \in Tabs /\ z[2] \in Nat
        BY LiveConstants DEF Sockets
      <4>1. z[2] <= made[z[1]] /\ z[1] \in Tabs /\ z[2] \in Nat /\ made[z[1]] \in Nat
        BY <4>0, <2>2, <3>2, <1>5, <1>s DEF BothSides, LiveShape
      <4> QED
        BY <4>1, <1>2, <1>5
    <3> QED
      BY <3>1, <3>2
  <2> QED
    BY <2>1, <2>2, <1>0, <1>s DEF BothSides
<1>a. \A u \in Tabs, k \in 1 .. MaxSockets : <<u, k>> \in Sockets /\ (<<u, k>> = new <=> u = t /\ k = made[t] + 1)
  BY DEF Sockets
<1>9. TabsFollow'
  <2> SUFFICES ASSUME NEW u \in Tabs
               PROVE  /\ signed'[u] <=> ~cancelled'[u]
                      /\ ~signed'[u] => wsRef'[u] = 0 /\ desired'[u] = {}
                      /\ wsRef'[u] # 0 => cli'[<<u, wsRef'[u]>>] \notin {"none", "closed"}
                      /\ timerRef'[u] => pending'[u] > 0
    BY DEF TabsFollow
  <2>1. CASE u # t
    <3>1. wsRef[u] # 0 => <<u, wsRef[u]>> \in Sockets /\ <<u, wsRef[u]>> # new
      BY <2>1, <1>s, <1>a, LiveConstants DEF LiveShape, Sockets
    <3> QED
      BY <2>1, <3>1, <1>s, <1>0, <1>1, <1>5 DEF TabsFollow
  <2>2. CASE u = t
    BY <2>2, <1>s, <1>0, <1>1, <1>5 DEF TabsFollow
  <2> QED
    BY <2>1, <2>2
<1>10. OneSocket'
  <2> SUFFICES ASSUME NEW u \in Tabs, ~hurried'[u]
               PROVE  /\ pending'[u] <= 1
                      /\ pending'[u] > 0 => timerRef'[u]
                      /\ ~signed'[u] => pending'[u] = 0
                      /\ \A k \in 1 .. MaxSockets :
                           /\ ~signed'[u] => cli'[<<u, k>>] \notin {"connecting", "open"}
                           /\ signed'[u] /\ cli'[<<u, k>>] \notin {"none", "closed"} =>
                                wsRef'[u] = k /\ pending'[u] = 0
    BY DEF OneSocket
  <2>1. CASE u # t
    BY <2>1, <1>s, <1>a, <1>0, <1>1, <1>5 DEF OneSocket
  <2>2. CASE u = t
    BY <2>2, <1>s, <1>a, <1>0, <1>1, <1>5 DEF OneSocket
  <2> QED
    BY <2>1, <2>2
<1>11. RoomsFollow' /\ RostersFollow'
  <2>1. ASSUME NEW z \in Sockets, Current(z)' PROVE Current(z) /\ z[1] # t
    <3>1. z # new /\ z[1] \in Tabs /\ z = <<z[1], z[2]>>
      BY <2>1, <1>5 DEF Current, Sockets
    <3> QED
      BY <3>1, <2>1, <1>0, <1>5 DEF Current
  <2>2. \A z \in Sockets : Current(z)' => hurried'[z[1]] = hurried[z[1]]
    BY <2>1, <1>1 DEF Sockets
  <2> QED
    BY <2>1, <2>2, <1>0, CurrentKeeps
<1> QED
  BY <1>6, <1>7, <1>8, <1>9, <1>10, <1>11 DEF LiveInv

LEMMA TimerKeeps == ASSUME LiveInv, NEW t \in Tabs, TimerFires(t) PROVE LiveInv'
<1>s. LiveShape /\ SocketsLeft /\ BothSides /\ TabsFollow /\ OneSocket
  BY DEF LiveInv
<1>0. /\ UNCHANGED <<signed, signIns, visits, desired, cancelled, roster, up, down, srv, hup, joined,
                     members, faults, hurried>>
      /\ pending[t] > 0
  BY DEF TimerFires, server
<1>1. /\ pending' \in [Tabs -> Nat] /\ pending'[t] = pending[t] - 1
      /\ timerRef' \in [Tabs -> BOOLEAN] /\ ~timerRef'[t]
      /\ \A u \in Tabs : u # t => pending'[u] = pending[u] /\ timerRef'[u] = timerRef[u]
  <2>1. pending \in [Tabs -> Nat] /\ timerRef \in [Tabs -> BOOLEAN]
    BY <1>s DEF LiveShape
  <2>2. pending[t] - 1 \in Nat
    BY <2>1, <1>0
  <2> QED
    BY <2>1, <2>2 DEF TimerFires
<1>2. made[t] \in Nat /\ pending[t] \in Nat /\ signIns[t] \in Nat /\ faults \in Nat
      /\ \A u \in Tabs : Cardinality(Doomed(u)) \in Nat
  <2>1. \A u \in Tabs : Doomed(u) \in SUBSET (1 .. MaxSockets)
    BY DEF Doomed
  <2> QED
    BY <2>1, <1>s, DoomedCards DEF LiveShape
<1>3. made[t] + pending[t] + 2 * signIns[t] + faults + Cardinality(Doomed(t)) + (IF signed[t] THEN 1 ELSE 0)
        <= MaxSockets
  BY <1>s DEF SocketsLeft
<1>4. CASE cancelled[t]
  <2>0. UNCHANGED <<made, wsRef, cli>>
    BY <1>4 DEF TimerFires
  <2>1. LiveShape'
    BY <2>0, <1>s, <1>0, <1>1 DEF LiveShape
  <2>2. SocketsLeft'
    <3>1. \A u \in Tabs : Doomed(u)' = Doomed(u)
      BY <2>0, <1>0 DEF Doomed
    <3> SUFFICES ASSUME NEW u \in Tabs
                 PROVE  made'[u] + pending'[u] + 2 * signIns'[u] + faults' + Cardinality(Doomed(u)')
                           + (IF signed'[u] THEN 1 ELSE 0) <= MaxSockets
      BY DEF SocketsLeft
    <3>2. CASE u # t
      BY <3>1, <3>2, <2>0, <1>s, <1>0, <1>1 DEF SocketsLeft
    <3>3. CASE u = t
      <4>1. Cardinality(Doomed(t)') = Cardinality(Doomed(t)) /\ Cardinality(Doomed(t)) \in Nat
        BY <3>1, <1>2
      <4>2. made[t] + pending'[t] + 2 * signIns[t] + faults + Cardinality(Doomed(t))
              + (IF signed[t] THEN 1 ELSE 0) <= MaxSockets
        BY <4>1, <1>0, <1>1, <1>2, <1>3, LiveConstants
      <4> QED
        BY <3>3, <4>1, <4>2, <2>0, <1>0
    <3> QED
      BY <3>2, <3>3
  <2>3. BothSides'
    BY <2>0, <1>0, <1>s DEF BothSides
  <2>4. TabsFollow' /\ OneSocket'
    <3>0. ~signed[t]
      BY <1>4, <1>s DEF TabsFollow
    <3>1. hurried[t]
      <4>1. ~hurried[t] => pending[t] = 0
        BY <3>0, <1>s DEF OneSocket
      <4> QED
        BY <4>1, <1>0
    <3>2. TabsFollow'
      BY <3>0, <2>0, <1>0, <1>1, <1>s DEF TabsFollow
    <3>3. OneSocket'
      BY <3>1, <2>0, <1>0, <1>1, <1>s DEF OneSocket
    <3> QED
      BY <3>2, <3>3
  <2>5. RoomsFollow' /\ RostersFollow'
    BY <2>0, <1>0, CurrentKeeps DEF Current
  <2> QED
    BY <2>1, <2>2, <2>3, <2>4, <2>5 DEF LiveInv
<1>5. CASE ~cancelled[t]
  <2>0. Connect(t) /\ signed[t]
    BY <1>5, <1>s DEF TimerFires, TabsFollow
  <2>1. made[t] + 1 <= MaxSockets
    BY <1>0, <1>2, <1>3, <2>0, LiveConstants
  <2> DEFINE new == <<t, made[t] + 1>>
  <2>2. /\ new \in Sockets /\ cli[new] = "none"
        /\ made' \in [Tabs -> Nat] /\ made'[t] = made[t] + 1
        /\ \A u \in Tabs : u # t => made'[u] = made[u] /\ wsRef'[u] = wsRef[u]
        /\ wsRef' \in [Tabs -> 0 .. MaxSockets] /\ wsRef'[t] = made[t] + 1
        /\ cli' \in [Sockets -> SocketStates] /\ cli'[new] = "connecting"
        /\ \A z \in Sockets : z # new => cli'[z] = cli[z]
        /\ \A u \in Tabs : Doomed(u)' = Doomed(u)
    BY <1>0, <2>0, <2>1, NewSocket
  <2>3. LiveShape'
    BY <2>2, <1>s, <1>0, <1>1 DEF LiveShape
  <2>4. SocketsLeft'
    <3> SUFFICES ASSUME NEW u \in Tabs
                 PROVE  made'[u] + pending'[u] + 2 * signIns'[u] + faults' + Cardinality(Doomed(u)')
                           + (IF signed'[u] THEN 1 ELSE 0) <= MaxSockets
      BY DEF SocketsLeft
    <3>2. CASE u # t
      BY <3>2, <2>2, <1>s, <1>0, <1>1 DEF SocketsLeft
    <3>3. CASE u = t
      <4>1. Cardinality(Doomed(t)') = Cardinality(Doomed(t)) /\ Cardinality(Doomed(t)) \in Nat
        BY <2>2, <1>2
      <4>2. made'[t] + pending'[t] + 2 * signIns[t] + faults + Cardinality(Doomed(t))
              + (IF signed[t] THEN 1 ELSE 0) <= MaxSockets
        BY <4>1, <2>2, <1>0, <1>1, <1>2, <1>3, LiveConstants
      <4> QED
        BY <3>3, <4>1, <4>2, <1>0
    <3> QED
      BY <3>2, <3>3
  <2>5. BothSides'
    <3>1. ASSUME NEW z \in Sockets, cli'[z] \in {"none", "connecting"}
          PROVE  cli[z] \in {"none", "connecting"} /\ (cli'[z] = "none" => cli[z] = "none")
      BY <3>1, <2>2
    <3>2. ASSUME NEW z \in Sockets, cli'[z] # "none" PROVE z[2] <= made'[z[1]]
      <4>1. CASE z = new
        BY <4>1, <1>2, <2>2
      <4>2. CASE z # new
        <5>0. z[1] \in Tabs /\ z[2] \in Nat
          BY LiveConstants DEF Sockets
        <5>1. z[2] <= made[z[1]] /\ z[1] \in Tabs /\ z[2] \in Nat /\ made[z[1]] \in Nat
          BY <5>0, <3>2, <4>2, <2>2, <1>s DEF BothSides, LiveShape
        <5> QED
          BY <5>1, <1>2, <2>2
      <4> QED
        BY <4>1, <4>2
    <3> QED
      BY <3>1, <3>2, <1>0, <1>s DEF BothSides
  <2>a. \A u \in Tabs, k \in 1 .. MaxSockets : <<u, k>> \in Sockets /\ (<<u, k>> = new <=> u = t /\ k = made[t] + 1)
    BY DEF Sockets
  <2>6. TabsFollow'
    <3> SUFFICES ASSUME NEW u \in Tabs
                 PROVE  /\ signed'[u] <=> ~cancelled'[u]
                        /\ ~signed'[u] => wsRef'[u] = 0 /\ desired'[u] = {}
                        /\ wsRef'[u] # 0 => cli'[<<u, wsRef'[u]>>] \notin {"none", "closed"}
                        /\ timerRef'[u] => pending'[u] > 0
      BY DEF TabsFollow
    <3>1. CASE u # t
      <4>1. wsRef[u] # 0 => <<u, wsRef[u]>> \in Sockets /\ <<u, wsRef[u]>> # new
        BY <3>1, <1>s, <2>a, LiveConstants DEF LiveShape, Sockets
      <4> QED
        BY <3>1, <4>1, <1>s, <1>0, <1>1, <2>2 DEF TabsFollow
    <3>2. CASE u = t
      BY <3>2, <1>s, <1>0, <1>1, <2>0, <2>2 DEF TabsFollow
    <3> QED
      BY <3>1, <3>2
  <2>7. OneSocket'
    <3> SUFFICES ASSUME NEW u \in Tabs, ~hurried'[u]
                 PROVE  /\ pending'[u] <= 1
                        /\ pending'[u] > 0 => timerRef'[u]
                        /\ ~signed'[u] => pending'[u] = 0
                        /\ \A k \in 1 .. MaxSockets :
                             /\ ~signed'[u] => cli'[<<u, k>>] \notin {"connecting", "open"}
                             /\ signed'[u] /\ cli'[<<u, k>>] \notin {"none", "closed"} =>
                                  wsRef'[u] = k /\ pending'[u] = 0
      BY DEF OneSocket
    <3>1. CASE u # t
      BY <3>1, <1>s, <2>a, <1>0, <1>1, <2>2 DEF OneSocket
    <3>2. CASE u = t
      <4>1. pending[t] = 1 /\ \A k \in 1 .. MaxSockets : cli[<<t, k>>] \in {"none", "closed"}
        BY <3>2, <1>s, <1>0, <1>2, <2>0 DEF OneSocket
      <4>2. pending'[t] = 0
        BY <4>1, <1>1
      <4> QED
        BY <3>2, <4>1, <4>2, <2>a, <1>0, <2>0, <2>2
    <3> QED
      BY <3>1, <3>2
  <2>8. RoomsFollow' /\ RostersFollow'
    <3>1. ASSUME NEW z \in Sockets, Current(z)' PROVE Current(z)
      <4>1. z # new /\ z[1] \in Tabs /\ z = <<z[1], z[2]>>
        BY <3>1, <2>2 DEF Current, Sockets
      <4> QED
        BY <4>1, <3>1, <1>0, <2>2 DEF Current
    <3> QED
      BY <3>1, <1>0, CurrentKeeps
  <2> QED
    BY <2>3, <2>4, <2>5, <2>6, <2>7, <2>8 DEF LiveInv
<1> QED
  BY <1>4, <1>5

\* The budget of sockets after a step that trades timers, faults and doomed sockets
\* for one another.
LEMMA LeftKeeps ==
    ASSUME LiveInv, UNCHANGED <<signed, signIns, made>>, faults' \in Nat,
           \A u \in Tabs :
             pending'[u] + faults' + Cardinality(Doomed(u)') <= pending[u] + faults + Cardinality(Doomed(u)),
           pending' \in [Tabs -> Nat]
    PROVE  SocketsLeft'
<1> SUFFICES ASSUME NEW u \in Tabs
             PROVE  made'[u] + pending'[u] + 2 * signIns'[u] + faults' + Cardinality(Doomed(u)')
                       + (IF signed'[u] THEN 1 ELSE 0) <= MaxSockets
  BY DEF SocketsLeft
<1>0. Doomed(u) \in SUBSET (1 .. MaxSockets) /\ Doomed(u)' \in SUBSET (1 .. MaxSockets)
  BY DEF Doomed
<1>1. PICK b \in Nat : b = IF signed[u] THEN 1 ELSE 0
  OBVIOUS
<1>2. PICK c \in Nat : c = Cardinality(Doomed(u))
  BY <1>0, DoomedCards
<1>3. PICK c2 \in Nat : c2 = Cardinality(Doomed(u)')
  BY <1>0, DoomedCards
<1>4. PICK m \in Nat, p \in Nat, i \in Nat, f \in Nat, p2 \in Nat, f2 \in Nat :
        m = made[u] /\ p = pending[u] /\ i = signIns[u] /\ f = faults /\ p2 = pending'[u] /\ f2 = faults'
  BY DEF LiveInv, LiveShape
<1>5. m + p + 2 * i + f + c + b <= MaxSockets
  BY <1>1, <1>2, <1>4 DEF LiveInv, SocketsLeft
<1>6. p2 + f2 + c2 <= p + f + c
  BY <1>2, <1>3, <1>4
<1>7. m + p2 + 2 * i + f2 + c2 + b <= MaxSockets
  BY <1>5, <1>6, LiveConstants
<1>8. made'[u] = m /\ signIns'[u] = i /\ (IF signed'[u] THEN 1 ELSE 0) = b
  BY <1>1, <1>4
<1> QED
  BY <1>3, <1>4, <1>7, <1>8

LEMMA SignOutKeeps == ASSUME LiveInv, NEW t \in Tabs, SignOut(t) PROVE LiveInv'
<1>s. LiveShape /\ SocketsLeft /\ BothSides /\ TabsFollow /\ OneSocket
  BY DEF LiveInv
<1>0. /\ UNCHANGED <<signIns, visits, made, roster, down, srv, hup, joined, members, faults, hurried>>
      /\ signed[t] /\ desired[t] \in SUBSET Rooms
  BY <1>s DEF SignOut, server, LiveShape
<1>1. /\ signed' \in [Tabs -> BOOLEAN] /\ ~signed'[t]
      /\ cancelled' \in [Tabs -> BOOLEAN] /\ cancelled'[t]
      /\ desired' \in [Tabs -> SUBSET Rooms] /\ desired'[t] = {}
      /\ timerRef' \in [Tabs -> BOOLEAN] /\ ~timerRef'[t]
      /\ wsRef' \in [Tabs -> 0 .. MaxSockets] /\ wsRef'[t] = 0
      /\ \A u \in Tabs : u # t =>
           /\ signed'[u] = signed[u] /\ cancelled'[u] = cancelled[u] /\ desired'[u] = desired[u]
           /\ timerRef'[u] = timerRef[u] /\ wsRef'[u] = wsRef[u]
  BY <1>s, LiveConstants DEF SignOut, LiveShape
<1>2. /\ pending' \in [Tabs -> Nat] /\ pending'[t] = (IF timerRef[t] THEN pending[t] - 1 ELSE pending[t])
      /\ \A u \in Tabs : u # t => pending'[u] = pending[u]
  <2>1. pending \in [Tabs -> Nat] /\ pending' = [pending EXCEPT ![t] = IF timerRef[t] THEN pending[t] - 1 ELSE pending[t]]
    BY <1>s DEF LiveShape, SignOut
  <2>2. (IF timerRef[t] THEN pending[t] - 1 ELSE pending[t]) \in Nat
    <3>1. pending[t] \in Nat /\ (timerRef[t] => pending[t] > 0)
      BY <2>1, <1>s DEF TabsFollow
    <3>2. CASE timerRef[t]
      BY <3>1, <3>2
    <3>3. CASE ~timerRef[t]
      BY <3>1, <3>3
    <3> QED
      BY <3>2, <3>3
  <2> QED
    BY <2>1, <2>2
<1>3. /\ up' \in [Sockets -> Seq(Requests)]
      /\ \A z \in Sockets : z[1] # t \/ cli[z] # "open" => up'[z] = up[z]
  <2>1. PICK e \in Seq(Requests) : e = Each("leave", desired[t])
    BY <1>0, EachMoves
  <2>2. up' = SendOn(t, e)
    BY <2>1 DEF SignOut
  <2> QED
    BY <2>2, <1>s, SendIs
<1>4. /\ cli' \in [Sockets -> SocketStates]
      /\ \A z \in Sockets : z[1] # t \/ z[2] # wsRef[t] => cli'[z] = cli[z]
      /\ \A z \in Sockets : z[1] = t /\ z[2] = wsRef[t] => cli'[z] = "closing"
  <2>0. cli \in [Sockets -> SocketStates] /\ "closing" \in SocketStates /\ wsRef[t] \in 0 .. MaxSockets
    BY <1>s DEF LiveShape, SocketStates
  <2>1. CASE wsRef[t] = 0
    <3>1. \A z \in Sockets : z[2] # 0
      BY LiveConstants DEF Sockets
    <3> QED
      BY <2>0, <2>1, <3>1 DEF SignOut
  <2>2. CASE wsRef[t] # 0
    <3>0. wsRef[t] \in 1 .. MaxSockets
      BY <2>0, <2>2, LiveConstants
    <3>1. PICK s \in Sockets : s = <<t, wsRef[t]>>
      BY <3>0 DEF Sockets
    <3>2. cli' = [cli EXCEPT ![s] = "closing"]
      BY <2>2, <3>1 DEF SignOut
    <3>3. \A z \in Sockets : z = s <=> (z[1] = t /\ z[2] = wsRef[t])
      BY <3>1 DEF Sockets
    <3> QED
      BY <2>0, <3>2, <3>3
  <2> QED
    BY <2>1, <2>2
<1>a. \A u \in Tabs, k \in 1 .. MaxSockets : <<u, k>> \in Sockets
  BY DEF Sockets
<1>b. wsRef[t] # 0 => wsRef[t] \in 1 .. MaxSockets /\ cli[<<t, wsRef[t]>>] \notin {"none", "closed"}
  BY <1>s, LiveConstants DEF LiveShape, TabsFollow
<1>5. LiveShape'
  BY <1>s, <1>0, <1>1, <1>2, <1>3, <1>4 DEF LiveShape
<1>6. SocketsLeft'
  <2> SUFFICES ASSUME NEW u \in Tabs
               PROVE  made'[u] + pending'[u] + 2 * signIns'[u] + faults' + Cardinality(Doomed(u)')
                         + (IF signed'[u] THEN 1 ELSE 0) <= MaxSockets
    BY DEF SocketsLeft
  <2>0. /\ made[u] \in Nat /\ pending[u] \in Nat /\ signIns[u] \in Nat /\ faults \in Nat
        /\ made[u] + pending[u] + 2 * signIns[u] + faults + Cardinality(Doomed(u))
             + (IF signed[u] THEN 1 ELSE 0) <= MaxSockets
    BY <1>s DEF LiveShape, SocketsLeft
  <2>a. Doomed(u) \in SUBSET (1 .. MaxSockets) /\ Doomed(u)' \in SUBSET (1 .. MaxSockets)
    BY DEF Doomed
  <2>1. CASE u # t
    <3>1. Doomed(u)' = Doomed(u)
      BY <2>1, <1>0, <1>4, <1>a DEF Doomed
    <3> QED
      BY <3>1, <2>0, <2>1, <1>0, <1>1, <1>2
  <2>2. CASE u = t
    <3>1. Doomed(t)' \subseteq Doomed(t) \cup {wsRef[t]}
      BY <1>0, <1>4, <1>a DEF Doomed
    <3>2. Cardinality(Doomed(t)') <= Cardinality(Doomed(t)) + 1 /\ Cardinality(Doomed(t)') \in Nat
          /\ Cardinality(Doomed(t)) \in Nat
      BY <3>1, <2>2, <2>a, DoomedCards
    <3>3. pending'[t] <= pending[t] /\ pending'[t] \in Nat
      BY <1>2, <2>0, <2>2
    <3>4. made[t] + pending[t] + 2 * signIns[t] + faults + Cardinality(Doomed(t)) + 1 <= MaxSockets
      BY <2>0, <2>2, <1>0
    <3>5. made[t] + pending'[t] + 2 * signIns[t] + faults + Cardinality(Doomed(t)') + 0 <= MaxSockets
      BY <3>2, <3>3, <3>4, <2>0, <2>2, LiveConstants
    <3>6. (IF signed'[u] THEN 1 ELSE 0) = 0
      BY <2>2, <1>1
    <3> QED
      BY <3>5, <3>6, <2>2, <1>0
  <2> QED
    BY <2>1, <2>2
<1>7. BothSides'
  <2>1. ASSUME NEW z \in Sockets
        PROVE  /\ cli'[z] \in {"none", "connecting"} => cli'[z] = cli[z] /\ up'[z] = up[z]
               /\ cli'[z] # "none" => cli[z] # "none"
    <3>1. CASE z[1] = t /\ z[2] = wsRef[t]
      <4>1. z = <<t, wsRef[t]>> /\ z[2] # 0
        BY <3>1, LiveConstants DEF Sockets
      <4> QED
        BY <4>1, <3>1, <1>4, <1>b
    <3>2. CASE ~(z[1] = t /\ z[2] = wsRef[t])
      BY <3>2, <1>3, <1>4
    <3> QED
      BY <3>1, <3>2
  <2> QED
    BY <2>1, <1>0, <1>s DEF BothSides
<1>8. TabsFollow'
  <2> SUFFICES ASSUME NEW u \in Tabs
               PROVE  /\ signed'[u] <=> ~cancelled'[u]
                      /\ ~signed'[u] => wsRef'[u] = 0 /\ desired'[u] = {}
                      /\ wsRef'[u] # 0 => cli'[<<u, wsRef'[u]>>] \notin {"none", "closed"}
                      /\ timerRef'[u] => pending'[u] > 0
    BY DEF TabsFollow
  <2>1. CASE u # t
    <3>1. wsRef[u] # 0 => <<u, wsRef[u]>> \in Sockets
      BY <1>s, <1>a, LiveConstants DEF LiveShape
    <3>2. wsRef[u] # 0 => cli'[<<u, wsRef[u]>>] = cli[<<u, wsRef[u]>>]
      BY <2>1, <3>1, <1>4
    <3> QED
      BY <2>1, <3>2, <1>s, <1>1, <1>2 DEF TabsFollow
  <2>2. CASE u = t
    BY <2>2, <1>1
  <2> QED
    BY <2>1, <2>2
<1>9. OneSocket'
  <2> SUFFICES ASSUME NEW u \in Tabs, ~hurried'[u]
               PROVE  /\ pending'[u] <= 1
                      /\ pending'[u] > 0 => timerRef'[u]
                      /\ ~signed'[u] => pending'[u] = 0
                      /\ \A k \in 1 .. MaxSockets :
                           /\ ~signed'[u] => cli'[<<u, k>>] \notin {"connecting", "open"}
                           /\ signed'[u] /\ cli'[<<u, k>>] \notin {"none", "closed"} =>
                                wsRef'[u] = k /\ pending'[u] = 0
    BY DEF OneSocket
  <2>1. CASE u # t
    <3>1. \A k \in 1 .. MaxSockets : cli'[<<u, k>>] = cli[<<u, k>>]
      BY <2>1, <1>4, <1>a
    <3> QED
      BY <2>1, <3>1, <1>s, <1>0, <1>1, <1>2 DEF OneSocket
  <2>2. CASE u = t
    <3>1. pending[t] \in Nat /\ pending[t] <= 1 /\ (pending[t] > 0 => timerRef[t]) /\ (timerRef[t] => pending[t] > 0)
      BY <2>2, <1>0, <1>s DEF OneSocket, TabsFollow, LiveShape
    <3>2. pending'[t] = 0
      BY <3>1, <1>2
    <3>3. ASSUME NEW k \in 1 .. MaxSockets PROVE cli'[<<t, k>>] \notin {"connecting", "open"}
      <4>1. cli[<<t, k>>] \notin {"none", "closed"} => wsRef[t] = k
        BY <2>2, <1>0, <1>s DEF OneSocket
      <4>2. wsRef[t] = k => cli'[<<t, k>>] = "closing"
        BY <1>4, <1>a
      <4>3. wsRef[t] # k => cli'[<<t, k>>] = cli[<<t, k>>]
        BY <1>4, <1>a
      <4> QED
        BY <4>1, <4>2, <4>3
    <3> QED
      BY <2>2, <3>2, <3>3, <1>1
  <2> QED
    BY <2>1, <2>2
<1>10. RoomsFollow' /\ RostersFollow'
  <2>1. ASSUME NEW z \in Sockets, Current(z)' PROVE Current(z) /\ z[1] # t /\ z[1] \in Tabs
    <3>1. z[1] \in Tabs /\ z[2] # 0
      BY LiveConstants DEF Sockets
    <3>2. z[1] # t
      BY <3>1, <2>1, <1>1 DEF Current
    <3> QED
      BY <3>1, <3>2, <2>1, <1>0, <1>1, <1>4 DEF Current
  <2>2. \A z \in Sockets : Current(z)' =>
          /\ Current(z) /\ up'[z] = up[z] /\ desired'[z[1]] = desired[z[1]]
    BY <2>1, <1>1, <1>3
  <2> QED
    BY <2>2, <1>0, CurrentKeeps
<1> QED
  BY <1>5, <1>6, <1>7, <1>8, <1>9, <1>10 DEF LiveInv

LEMMA HandshakeKeeps == ASSUME LiveInv, NEW s \in Sockets, Handshake(s) PROVE LiveInv'
<1>s. LiveShape /\ SocketsLeft /\ BothSides /\ TabsFollow /\ OneSocket /\ RoomsFollow /\ RostersFollow
  BY DEF LiveInv
<1>0. /\ UNCHANGED <<signed, signIns, visits, desired, cancelled, wsRef, made, pending, timerRef,
                     roster, down, hup, joined, members, hurried>>
      /\ cli[s] = "connecting" /\ ~hup[s]
  BY DEF Handshake
<1>1. PICK first : first = <<<<"auth">>>>
  OBVIOUS
<1>2. /\ first \in Seq(Requests) /\ \A r : ~LastIn(first, Moves(r), <<"join", r>>)
  <2>1. <<"auth">> \in Requests /\ Len(first) = 1 /\ first[1] = <<"auth">>
    BY <1>1 DEF Requests
  <2>2. \A r : first[1] # <<"join", r>>
    BY <2>1
  <2> QED
    BY <1>1, <2>1, <2>2 DEF LastIn
<1>3. /\ cli' \in [Sockets -> SocketStates] /\ cli'[s] \in {"open", "closing"}
      /\ srv' \in [Sockets -> {"none", "new", "authing", "ready", "gone"}] /\ srv'[s] = "new"
      /\ up' \in [Sockets -> Seq(Requests)]
      /\ \A z \in Sockets : z # s => cli'[z] = cli[z] /\ srv'[z] = srv[z] /\ up'[z] = up[z]
      /\ faults' \in Nat
      /\ \/ faults' = faults /\ cli'[s] = "open" /\ up'[s] = first
         \/ faults > 0 /\ faults' = faults - 1 /\ cli'[s] = "closing"
  <2>1. /\ cli \in [Sockets -> SocketStates] /\ {"open", "closing"} \subseteq SocketStates
        /\ srv \in [Sockets -> {"none", "new", "authing", "ready", "gone"}]
        /\ up \in [Sockets -> Seq(Requests)] /\ faults \in Nat
    BY <1>s DEF LiveShape, SocketStates
  <2>2. srv' = [srv EXCEPT ![s] = "new"]
    BY DEF Handshake
  <2>3. \/ cli' = [cli EXCEPT ![s] = "open"] /\ up' = [up EXCEPT ![s] = first] /\ faults' = faults
        \/ faults > 0 /\ faults' = faults - 1 /\ cli' = [cli EXCEPT ![s] = "closing"] /\ up' = up
    BY <1>1 DEF Handshake
  <2>4. CASE cli' = [cli EXCEPT ![s] = "open"] /\ up' = [up EXCEPT ![s] = first] /\ faults' = faults
    BY <2>1, <2>2, <2>4, <1>2
  <2>5. CASE faults > 0 /\ faults' = faults - 1 /\ cli' = [cli EXCEPT ![s] = "closing"] /\ up' = up
    BY <2>1, <2>2, <2>5
  <2> QED
    BY <2>3, <2>4, <2>5
<1>4. joined[s] = {} /\ \A r \in Rooms : s \notin members[r]
  BY <1>0, <1>s DEF BothSides
<1>5. LiveShape'
  BY <1>s, <1>0, <1>3 DEF LiveShape
<1>a. \A u \in Tabs, k \in 1 .. MaxSockets : <<u, k>> \in Sockets
  BY DEF Sockets
<1>6. SocketsLeft'
  <2>1. ASSUME NEW u \in Tabs
        PROVE  pending'[u] + faults' + Cardinality(Doomed(u)') <= pending[u] + faults + Cardinality(Doomed(u))
    <3>0. pending'[u] = pending[u] /\ pending[u] \in Nat /\ faults \in Nat
      BY <1>0, <1>s DEF LiveShape
    <3>a. Doomed(u) \in SUBSET (1 .. MaxSockets) /\ Doomed(u)' \in SUBSET (1 .. MaxSockets)
      BY DEF Doomed
    <3>b. Cardinality(Doomed(u)) \in Nat /\ Cardinality(Doomed(u)') \in Nat
      BY <3>a, DoomedCards
    <3>1. CASE faults' = faults /\ cli'[s] = "open"
      <4>1. Doomed(u)' \subseteq Doomed(u)
        BY <3>1, <1>0, <1>3, <1>a DEF Doomed
      <4>2. Cardinality(Doomed(u)') <= Cardinality(Doomed(u))
        BY <4>1, <3>a, DoomedCards
      <4> QED
        BY <4>2, <3>1, <3>0, <3>b
    <3>2. CASE faults > 0 /\ faults' = faults - 1
      <4>1. Doomed(u)' \subseteq Doomed(u) \cup {s[2]}
        <5>1. \A k \in 1 .. MaxSockets : <<u, k>> = s => k = s[2]
          OBVIOUS
        <5> QED
          BY <5>1, <1>0, <1>3, <1>a DEF Doomed
      <4>2. Cardinality(Doomed(u)') <= Cardinality(Doomed(u)) + 1
        BY <4>1, <3>a, DoomedCards
      <4> QED
        BY <4>2, <3>2, <3>0, <3>b
    <3> QED
      BY <3>1, <3>2, <1>3
  <2> QED
    <3>1. pending' \in [Tabs -> Nat]
      BY <1>0, <1>s DEF LiveShape
    <3> QED
      BY <3>1, <2>1, <1>0, <1>3, LeftKeeps
<1>7. BothSides'
  BY <1>s, <1>0, <1>3, <1>4, ZenonT(40) DEF BothSides
<1>8. TabsFollow'
  <2>1. \A u \in Tabs : wsRef[u] # 0 => cli'[<<u, wsRef[u]>>] \notin {"none", "closed"}
    <3>1. \A u \in Tabs : wsRef[u] # 0 => <<u, wsRef[u]>> \in Sockets
      BY <1>s, <1>a, LiveConstants DEF LiveShape
    <3> QED
      BY <3>1, <1>s, <1>3 DEF TabsFollow
  <2> QED
    BY <2>1, <1>s, <1>0 DEF TabsFollow
<1>9. OneSocket'
  <2>1. \A u \in Tabs, k \in 1 .. MaxSockets :
          /\ cli'[<<u, k>>] \in {"connecting", "open"} => cli[<<u, k>>] \in {"connecting", "open"}
          /\ cli'[<<u, k>>] \notin {"none", "closed"} => cli[<<u, k>>] \notin {"none", "closed"}
    BY <1>0, <1>3, <1>a
  <2> QED
    BY <2>1, <1>0, <1>s DEF OneSocket
<1>10. ASSUME NEW z \in Sockets, NEW r \in Rooms, Current(z)'
      PROVE  /\ WillBe(z, r)' => r \in desired'[z[1]]
             /\ srv'[z] = "ready" /\ ~Greeted(down'[z]) /\ r \in desired'[z[1]] => WillBe(z, r)'
             /\ ~hurried'[z[1]] /\ r \in desired'[z[1]] /\ z \in members'[r] /\ NoneIn(up'[z], Moves(r))
                  => Shows(down'[z], r, roster'[z[1]][r], members'[r])
  <2>1. CASE z = s
    <3>1. up'[s] = first
      BY <1>10, <2>1, <1>3 DEF Current
    <3> QED
      BY <3>1, <2>1, <1>0, <1>2, <1>3, <1>4 DEF WillBe
  <2>2. CASE z # s
    <3>1. Current(z) /\ (WillBe(z, r)' <=> WillBe(z, r))
      BY <1>10, <2>2, <1>0, <1>3 DEF Current, WillBe
    <3> QED
      BY <3>1, <2>2, <1>0, <1>3, <1>s DEF RoomsFollow, RostersFollow
  <2> QED
    BY <2>1, <2>2
<1>11. RoomsFollow' /\ RostersFollow'
  BY <1>10 DEF RoomsFollow, RostersFollow
<1> QED
  BY <1>5, <1>6, <1>7, <1>8, <1>9, <1>11 DEF LiveInv

LEMMA CloseEventKeeps == ASSUME LiveInv, NEW s \in Sockets, CloseEvent(s) PROVE LiveInv'
<1>s. LiveShape /\ SocketsLeft /\ BothSides /\ TabsFollow /\ OneSocket
  BY DEF LiveInv
<1> DEFINE t == s[1]
<1>0. /\ UNCHANGED <<signed, signIns, visits, desired, cancelled, made, roster, up, srv, hup, joined,
                     members, faults, hurried>>
      /\ t \in Tabs /\ s[2] \in 1 .. MaxSockets /\ s = <<t, s[2]>>
      /\ cli[s] \notin {"none", "closed"} /\ (cli[s] = "closing" \/ hup[s])
  BY DEF CloseEvent, server, Sockets
<1>1. /\ cli' \in [Sockets -> SocketStates] /\ cli'[s] = "closed"
      /\ down' \in [Sockets -> Seq(Notices)] /\ down'[s] = <<>>
      /\ \A z \in Sockets : z # s => cli'[z] = cli[z] /\ down'[z] = down[z]
      /\ wsRef' \in [Tabs -> 0 .. MaxSockets]
      /\ wsRef'[t] = (IF wsRef[t] = s[2] THEN 0 ELSE wsRef[t])
      /\ \A u \in Tabs : u # t => wsRef'[u] = wsRef[u]
  <2>1. cli \in [Sockets -> SocketStates] /\ down \in [Sockets -> Seq(Notices)] /\ "closed" \in SocketStates
        /\ <<>> \in Seq(Notices) /\ wsRef \in [Tabs -> 0 .. MaxSockets] /\ 0 \in 0 .. MaxSockets
    BY <1>s, LiveConstants DEF LiveShape, SocketStates
  <2>2. cli' = [cli EXCEPT ![s] = "closed"] /\ down' = [down EXCEPT ![s] = <<>>]
    BY DEF CloseEvent
  <2>3. wsRef' = IF wsRef[t] = s[2] THEN [wsRef EXCEPT ![t] = 0] ELSE wsRef
    BY DEF CloseEvent
  <2>4. /\ cli' \in [Sockets -> SocketStates] /\ cli'[s] = "closed"
        /\ down' \in [Sockets -> Seq(Notices)] /\ down'[s] = <<>>
        /\ \A z \in Sockets : z # s => cli'[z] = cli[z] /\ down'[z] = down[z]
    BY <2>1, <2>2
  <2>5. /\ wsRef' \in [Tabs -> 0 .. MaxSockets]
        /\ wsRef'[t] = (IF wsRef[t] = s[2] THEN 0 ELSE wsRef[t])
        /\ \A u \in Tabs : u # t => wsRef'[u] = wsRef[u]
    BY <2>1, <2>3, <1>0
  <2> QED
    BY <2>4, <2>5
<1>2. /\ pending' \in [Tabs -> Nat] /\ timerRef' \in [Tabs -> BOOLEAN]
      /\ \A u \in Tabs : u # t => pending'[u] = pending[u] /\ timerRef'[u] = timerRef[u]
      /\ cancelled[t] => pending'[t] = pending[t] /\ timerRef'[t] = timerRef[t]
      /\ ~cancelled[t] => pending'[t] = pending[t] + 1 /\ timerRef'[t]
  <2>1. pending \in [Tabs -> Nat] /\ timerRef \in [Tabs -> BOOLEAN]
    BY <1>s DEF LiveShape
  <2>2. CASE cancelled[t]
    <3>1. UNCHANGED <<pending, timerRef>>
      BY <2>2 DEF CloseEvent
    <3> QED
      BY <2>1, <2>2, <3>1
  <2>3. CASE ~cancelled[t]
    <3>1. pending' = [pending EXCEPT ![t] = pending[t] + 1] /\ timerRef' = [timerRef EXCEPT ![t] = TRUE]
      BY <2>3 DEF CloseEvent
    <3>2. pending[t] + 1 \in Nat
      BY <2>1, <1>0
    <3> QED
      BY <2>1, <2>3, <3>1, <3>2, <1>0
  <2> QED
    BY <2>2, <2>3
<1>a. \A u \in Tabs, k \in 1 .. MaxSockets : <<u, k>> \in Sockets /\ (<<u, k>> = s <=> u = t /\ k = s[2])
  BY <1>0 DEF Sockets
<1> HIDE DEF t
<1>3. LiveShape'
  BY <1>s, <1>0, <1>1, <1>2 DEF LiveShape
<1>4. SocketsLeft'
  <2>1. ASSUME NEW u \in Tabs
        PROVE  pending'[u] + faults' + Cardinality(Doomed(u)') <= pending[u] + faults + Cardinality(Doomed(u))
    <3>0. faults' = faults /\ pending[u] \in Nat /\ faults \in Nat
      BY <1>0, <1>s DEF LiveShape
    <3>a. Doomed(u) \in SUBSET (1 .. MaxSockets) /\ Doomed(u)' \in SUBSET (1 .. MaxSockets)
      BY DEF Doomed
    <3>b. Cardinality(Doomed(u)) \in Nat /\ Cardinality(Doomed(u)') \in Nat
      BY <3>a, DoomedCards
    <3>1. CASE u # t
      <4>1. Doomed(u)' \subseteq Doomed(u)
        BY <3>1, <1>0, <1>1, <1>a DEF Doomed
      <4>2. Cardinality(Doomed(u)') <= Cardinality(Doomed(u))
        BY <4>1, <3>a, DoomedCards
      <4> QED
        BY <4>2, <3>1, <3>0, <3>b, <1>2
    <3>2. CASE u = t
      <4>1. s[2] \in Doomed(u)
        BY <3>2, <1>0, <1>a DEF Doomed
      <4>2. Doomed(u)' \subseteq Doomed(u) \ {s[2]}
        BY <3>2, <1>0, <1>1, <1>a DEF Doomed
      <4>3. Cardinality(Doomed(u)') + 1 <= Cardinality(Doomed(u))
        BY <4>1, <4>2, <3>a, DoomedCards
      <4>4. pending'[u] \in Nat /\ pending'[u] <= pending[u] + 1
        BY <3>2, <3>0, <1>2
      <4> QED
        BY <4>3, <4>4, <3>0, <3>b
    <3> QED
      BY <3>1, <3>2
  <2>2. faults' \in Nat
    BY <1>0, <1>s DEF LiveShape
  <2> QED
    BY <2>1, <2>2, <1>0, <1>2, LeftKeeps
<1>5. BothSides'
  BY <1>s, <1>0, <1>1 DEF BothSides
<1>6. TabsFollow'
  <2> SUFFICES ASSUME NEW u \in Tabs
               PROVE  /\ signed'[u] <=> ~cancelled'[u]
                      /\ ~signed'[u] => wsRef'[u] = 0 /\ desired'[u] = {}
                      /\ wsRef'[u] # 0 => cli'[<<u, wsRef'[u]>>] \notin {"none", "closed"}
                      /\ timerRef'[u] => pending'[u] > 0
    BY DEF TabsFollow
  <2>0. /\ signed[u] <=> ~cancelled[u]
        /\ ~signed[u] => wsRef[u] = 0 /\ desired[u] = {}
        /\ wsRef[u] # 0 => cli[<<u, wsRef[u]>>] \notin {"none", "closed"}
        /\ timerRef[u] => pending[u] > 0
        /\ wsRef[u] \in 0 .. MaxSockets /\ pending[u] \in Nat
    BY <1>s DEF TabsFollow, LiveShape
  <2>1. wsRef'[u] # 0 => wsRef'[u] = wsRef[u] /\ wsRef[u] \in 1 .. MaxSockets /\ (u = t => wsRef[u] # s[2])
    BY <2>0, <1>1, LiveConstants
  <2>2. wsRef'[u] # 0 => cli'[<<u, wsRef'[u]>>] = cli[<<u, wsRef[u]>>]
    BY <2>1, <1>1, <1>a
  <2>3. ~signed[u] => wsRef'[u] = 0
    BY <2>0, <2>1
  <2>4. timerRef'[u] => pending'[u] > 0
    BY <2>0, <1>2
  <2> QED
    BY <2>0, <2>1, <2>2, <2>3, <2>4, <1>0
<1>7. OneSocket'
  <2> SUFFICES ASSUME NEW u \in Tabs, ~hurried'[u]
               PROVE  /\ pending'[u] <= 1
                      /\ pending'[u] > 0 => timerRef'[u]
                      /\ ~signed'[u] => pending'[u] = 0
                      /\ \A k \in 1 .. MaxSockets :
                           /\ ~signed'[u] => cli'[<<u, k>>] \notin {"connecting", "open"}
                           /\ signed'[u] /\ cli'[<<u, k>>] \notin {"none", "closed"} =>
                                wsRef'[u] = k /\ pending'[u] = 0
    BY DEF OneSocket
  <2>0. /\ pending[u] <= 1 /\ (pending[u] > 0 => timerRef[u]) /\ (~signed[u] => pending[u] = 0)
        /\ \A k \in 1 .. MaxSockets :
             /\ ~signed[u] => cli[<<u, k>>] \notin {"connecting", "open"}
             /\ signed[u] /\ cli[<<u, k>>] \notin {"none", "closed"} => wsRef[u] = k /\ pending[u] = 0
        /\ signed[u] <=> ~cancelled[u]
    BY <1>0, <1>s DEF OneSocket, TabsFollow
  <2>1. CASE u # t
    <3>1. \A k \in 1 .. MaxSockets : cli'[<<u, k>>] = cli[<<u, k>>]
      BY <2>1, <1>1, <1>a
    <3> QED
      BY <2>0, <2>1, <3>1, <1>0, <1>1, <1>2
  <2>2. CASE u = t /\ ~signed[u]
    <3>1. \A k \in 1 .. MaxSockets : cli'[<<u, k>>] \notin {"connecting", "open"}
      BY <2>0, <2>2, <1>1, <1>a
    <3> QED
      BY <2>0, <2>2, <3>1, <1>0, <1>2
  <2>3. CASE u = t /\ signed[u]
    <3>1. wsRef[u] = s[2] /\ pending[u] = 0
      BY <2>0, <2>3, <1>0
    <3>2. ASSUME NEW k \in 1 .. MaxSockets PROVE cli'[<<u, k>>] \in {"none", "closed"}
      <4>1. k # s[2] => cli[<<u, k>>] \in {"none", "closed"} /\ cli'[<<u, k>>] = cli[<<u, k>>]
        BY <2>0, <2>3, <3>1, <1>1, <1>a
      <4>2. k = s[2] => cli'[<<u, k>>] = "closed"
        BY <2>3, <1>1, <1>a
      <4> QED
        BY <4>1, <4>2
    <3>3. pending'[u] = 1 /\ timerRef'[u]
      BY <2>0, <2>3, <3>1, <1>2
    <3> QED
      BY <2>3, <3>2, <3>3, <1>0
  <2> QED
    BY <2>1, <2>2, <2>3
<1>8. RoomsFollow' /\ RostersFollow'
  <2>1. ASSUME NEW z \in Sockets, Current(z)' PROVE Current(z) /\ z # s
    <3>1. z # s /\ z[1] \in Tabs /\ z[2] # 0
      BY <2>1, <1>1, LiveConstants DEF Current, Sockets
    <3>2. wsRef[z[1]] = z[2]
      BY <3>1, <2>1, <1>1 DEF Current
    <3> QED
      BY <3>1, <3>2, <2>1, <1>0, <1>1 DEF Current
  <2>2. \A z \in Sockets : Current(z)' => Current(z) /\ down'[z] = down[z]
    BY <2>1, <1>1
  <2> QED
    BY <2>2, <1>0, CurrentKeeps
<1> QED
  BY <1>3, <1>4, <1>5, <1>6, <1>7, <1>8 DEF LiveInv

\* The server hangs up on a socket, or the network does, and a fault is spent.
LEMMA HangUpKeeps ==
    ASSUME LiveInv, NEW s \in Sockets, cli[s] # "none", faults > 0, faults' = faults - 1,
           hup' = [hup EXCEPT ![s] = TRUE], UNCHANGED <<browser, joined, members>>,
           srv' = srv \/ (srv[s] = "authing" /\ srv' = [srv EXCEPT ![s] = "new"]),
           up' = up \/ up' = [up EXCEPT ![s] = <<>>],
           down' = down \/ down' = [down EXCEPT ![s] = <<>>]
    PROVE  LiveInv'
<1>s. LiveShape /\ SocketsLeft /\ BothSides /\ TabsFollow /\ OneSocket
  BY DEF LiveInv
<1>1. /\ hup' \in [Sockets -> BOOLEAN] /\ hup'[s] /\ faults' \in Nat
      /\ srv' \in [Sockets -> {"none", "new", "authing", "ready", "gone"}]
      /\ srv'[s] = srv[s] \/ (srv[s] = "authing" /\ srv'[s] = "new")
      /\ up' \in [Sockets -> Seq(Requests)] /\ (up'[s] = up[s] \/ up'[s] = <<>>)
      /\ down' \in [Sockets -> Seq(Notices)] /\ (down'[s] = down[s] \/ down'[s] = <<>>)
      /\ \A z \in Sockets : z # s => hup'[z] = hup[z] /\ srv'[z] = srv[z] /\ up'[z] = up[z] /\ down'[z] = down[z]
  <2>1. /\ hup \in [Sockets -> BOOLEAN] /\ faults \in Nat
        /\ srv \in [Sockets -> {"none", "new", "authing", "ready", "gone"}]
        /\ up \in [Sockets -> Seq(Requests)] /\ down \in [Sockets -> Seq(Notices)]
        /\ <<>> \in Seq(Requests) /\ <<>> \in Seq(Notices)
    BY <1>s DEF LiveShape
  <2>2. hup' \in [Sockets -> BOOLEAN] /\ hup'[s] /\ \A z \in Sockets : z # s => hup'[z] = hup[z]
    BY <2>1
  <2>3. /\ srv' \in [Sockets -> {"none", "new", "authing", "ready", "gone"}]
        /\ srv'[s] = srv[s] \/ (srv[s] = "authing" /\ srv'[s] = "new")
        /\ \A z \in Sockets : z # s => srv'[z] = srv[z]
    BY <2>1
  <2>4. /\ up' \in [Sockets -> Seq(Requests)] /\ (up'[s] = up[s] \/ up'[s] = <<>>)
        /\ \A z \in Sockets : z # s => up'[z] = up[z]
    BY <2>1
  <2>5. /\ down' \in [Sockets -> Seq(Notices)] /\ (down'[s] = down[s] \/ down'[s] = <<>>)
        /\ \A z \in Sockets : z # s => down'[z] = down[z]
    BY <2>1
  <2>6. faults' \in Nat
    BY <2>1
  <2> QED
    BY <2>2, <2>3, <2>4, <2>5, <2>6
<1>2. LiveShape'
  BY <1>s, <1>1 DEF LiveShape, browser
<1>3. SocketsLeft'
  <2>1. ASSUME NEW u \in Tabs
        PROVE  pending'[u] + faults' + Cardinality(Doomed(u)') <= pending[u] + faults + Cardinality(Doomed(u))
    <3>0. pending'[u] = pending[u] /\ pending[u] \in Nat /\ faults \in Nat
      BY <1>s DEF LiveShape, browser
    <3>a. Doomed(u) \in SUBSET (1 .. MaxSockets) /\ Doomed(u)' \in SUBSET (1 .. MaxSockets)
      BY DEF Doomed
    <3>b. Cardinality(Doomed(u)) \in Nat /\ Cardinality(Doomed(u)') \in Nat
      BY <3>a, DoomedCards
    <3>1. Doomed(u)' \subseteq Doomed(u) \cup {s[2]}
      <4>1. \A k \in 1 .. MaxSockets : <<u, k>> \in Sockets /\ (<<u, k>> = s => k = s[2])
        BY DEF Sockets
      <4> QED
        BY <4>1, <1>1 DEF Doomed, browser
    <3>2. Cardinality(Doomed(u)') <= Cardinality(Doomed(u)) + 1
      BY <3>1, <3>a, DoomedCards
    <3> QED
      BY <3>2, <3>0, <3>b
  <2>2. pending' \in [Tabs -> Nat]
    BY <1>s DEF LiveShape, browser
  <2> QED
    BY <2>1, <2>2, <1>1, LeftKeeps DEF browser
<1>4. BothSides'
  <2>1. joined[s] # {} => srv'[s] = "ready"
    BY <1>1, <1>s DEF BothSides
  <2>2. srv[s] = "none" => srv'[s] = "none"
    BY <1>1
  <2> QED
    BY <2>1, <2>2, <1>1, <1>s DEF BothSides, browser
<1>5. TabsFollow'
  BY <1>s DEF TabsFollow, browser
<1>6. OneSocket'
  BY <1>s DEF OneSocket, browser
<1>7. RoomsFollow' /\ RostersFollow'
  <2>1. \A z \in Sockets : Current(z)' => z # s /\ Current(z)
    BY <1>1 DEF Current, browser
  <2>2. \A z \in Sockets : Current(z)' =>
          Current(z) /\ up'[z] = up[z] /\ down'[z] = down[z] /\ srv'[z] = srv[z]
    BY <2>1, <1>1
  <2> QED
    BY <2>2, CurrentKeeps DEF browser
<1> QED
  BY <1>2, <1>3, <1>4, <1>5, <1>6, <1>7 DEF LiveInv

LEMMA SentKeeps == ASSUME LiveInv, NEW t \in Tabs, LeaveRoom(t) \/ Touch(t) PROVE LiveInv'
<1>1. /\ visits \in [Tabs -> Nat] /\ desired \in [Tabs -> SUBSET Rooms]
  BY DEF LiveInv, LiveShape
<1>2. visits[t] > 0 /\ visits' = [visits EXCEPT ![t] = @ - 1]
  BY DEF LeaveRoom, Touch
<1>3. visits' \in [Tabs -> Nat]
  <2>1. visits[t] - 1 \in Nat
    BY <1>1, <1>2
  <2> QED
    BY <2>1, <1>1, <1>2
<1>4. CASE LeaveRoom(t)
  <2>1. up' = SendOn(t, Each("leave", desired[t]))
    BY <1>4 DEF LeaveRoom
  <2>2. desired' = [desired EXCEPT ![t] = IF "leave" = "leave" THEN {} ELSE @]
    BY <1>4 DEF LeaveRoom
  <2>3. UNCHANGED <<signed, signIns, cancelled, wsRef, made, pending, timerRef, roster, cli,
                    down, server, faults, hurried>>
    BY <1>4 DEF LeaveRoom
  <2> QED
    BY <2>1, <2>2, <2>3, <1>3, SendEachKeeps
<1>5. CASE Touch(t)
  <2>1. up' = SendOn(t, Each("touch", desired[t]))
    BY <1>5 DEF Touch
  <2>2. desired' = desired
    BY <1>5 DEF Touch
  <2>3. desired' = [desired EXCEPT ![t] = IF "touch" = "leave" THEN {} ELSE @]
    BY <2>2, <1>1
  <2>4. UNCHANGED <<signed, signIns, cancelled, wsRef, made, pending, timerRef, roster, cli,
                    down, server, faults, hurried>>
    BY <1>5 DEF Touch
  <2> QED
    BY <2>1, <2>3, <2>4, <1>3, SendEachKeeps
<1> QED
  BY <1>4, <1>5

LEMMA HungUpKeeps ==
    ASSUME LiveInv, NEW s \in Sockets, ServerCloses(s) \/ NetworkDrop(s) PROVE LiveInv'
<1>1. cli[s] # "none"
  <2>1. CASE ServerCloses(s)
    <3>1. srv[s] # "none"
      BY <2>1 DEF ServerCloses, IsOpen
    <3>2. cli[s] \in {"none", "connecting"} => srv[s] = "none"
      BY DEF LiveInv, BothSides
    <3> QED
      BY <3>1, <3>2
  <2>2. CASE NetworkDrop(s)
    BY <2>2 DEF NetworkDrop
  <2> QED
    BY <2>1, <2>2
<1>2. faults > 0 /\ faults' = faults - 1 /\ hup' = [hup EXCEPT ![s] = TRUE]
  BY DEF ServerCloses, NetworkDrop
<1>3. UNCHANGED <<browser, joined, members>> /\ srv' = srv
  BY DEF ServerCloses, NetworkDrop
<1>4. /\ up' = up \/ up' = [up EXCEPT ![s] = <<>>]
      /\ down' = down \/ down' = [down EXCEPT ![s] = <<>>]
  BY DEF ServerCloses, NetworkDrop
<1> QED
  BY <1>1, <1>2, <1>3, <1>4, HangUpKeeps

LEMMA AuthKeeps == ASSUME LiveInv, NEW s \in Sockets, AuthDone(s) PROVE LiveInv'
<1>1. CASE /\ srv' = [srv EXCEPT ![s] = "ready"]
           /\ down' = (IF IsOpen(s) THEN [down EXCEPT ![s] = Append(@, <<"ready">>)] ELSE down)
           /\ UNCHANGED <<hup, faults>>
  BY <1>1, AuthedKeeps
<1>2. CASE /\ faults > 0
           /\ faults' = faults - 1
           /\ hup' = [hup EXCEPT ![s] = TRUE]
           /\ srv' = [srv EXCEPT ![s] = "new"]
           /\ UNCHANGED down
  <2>1. srv[s] = "authing" /\ UNCHANGED <<browser, up, joined, members>>
    BY DEF AuthDone
  <2>2. cli[s] # "none"
    BY <2>1 DEF LiveInv, BothSides
  <2>3. up' = up /\ down' = down /\ UNCHANGED <<browser, joined, members>>
    BY <2>1, <1>2
  <2> QED
    BY <2>1, <2>2, <2>3, <1>2, HangUpKeeps
<1> QED
  BY <1>1, <1>2 DEF AuthDone

LEMMA LiveStays == ASSUME LiveInv, UNCHANGED liveVars PROVE LiveInv'
<1>1. LiveShape' /\ SocketsLeft' /\ BothSides' /\ TabsFollow' /\ OneSocket'
  <2>1. LiveShape'
    BY DEF LiveInv, LiveShape, liveVars
  <2>2. SocketsLeft'
    BY DEF LiveInv, SocketsLeft, Doomed, liveVars
  <2>3. BothSides'
    BY DEF LiveInv, BothSides, liveVars
  <2>4. TabsFollow'
    BY DEF LiveInv, TabsFollow, liveVars
  <2>5. OneSocket'
    BY DEF LiveInv, OneSocket, liveVars
  <2> QED
    BY <2>1, <2>2, <2>3, <2>4, <2>5
<1>2. \A s \in Sockets : Current(s)' =>
        /\ Current(s) /\ up'[s] = up[s] /\ down'[s] = down[s] /\ srv'[s] = srv[s]
        /\ desired'[s[1]] = desired[s[1]] /\ (hurried[s[1]] => hurried'[s[1]])
  BY DEF Current, liveVars
<1>3. UNCHANGED <<joined, members, roster>>
  BY DEF liveVars
<1>4. RoomsFollow' /\ RostersFollow'
  BY <1>2, <1>3, CurrentKeeps
<1> QED
  BY <1>1, <1>4 DEF LiveInv

LEMMA LiveStep == LiveInv /\ [LiveNext]_liveVars => LiveInv'
<1> SUFFICES ASSUME LiveInv, [LiveNext]_liveVars PROVE LiveInv'
  OBVIOUS
<1>1. CASE \E t \in Tabs : SignIn(t) \/ SignOut(t) \/ LeaveRoom(t) \/ Touch(t) \/ TabSteps(t)
  <2>1. PICK t \in Tabs : SignIn(t) \/ SignOut(t) \/ LeaveRoom(t) \/ Touch(t) \/ TabSteps(t)
    BY <1>1
  <2>2. CASE SignIn(t)
    BY <2>2, SignInKeeps
  <2>3. CASE SignOut(t)
    BY <2>3, SignOutKeeps
  <2>4. CASE LeaveRoom(t) \/ Touch(t)
    BY <2>4, SentKeeps
  <2>5. CASE TimerFires(t)
    BY <2>5, TimerKeeps
  <2>6. CASE \E k \in 1 .. MaxSockets : LET s == <<t, k>>
               IN  Handshake(s) \/ Ready(s) \/ Roster(s) \/ CloseEvent(s)
    <3>1. PICK s \in Sockets : Handshake(s) \/ Ready(s) \/ Roster(s) \/ CloseEvent(s)
      BY <2>6 DEF Sockets
    <3> QED
      BY <3>1, HandshakeKeeps, ReadyKeeps, RosterKeeps, CloseEventKeeps
  <2> QED
    BY <2>1, <2>2, <2>3, <2>4, <2>5, <2>6 DEF TabSteps
<1>2. CASE \E t \in Tabs, r \in Rooms : OpenRoom(t, r)
  BY <1>2, OpenRoomKeeps
<1>3. CASE \E s \in Sockets : ServerSteps(s) \/ ServerCloses(s) \/ NetworkDrop(s)
  <2>1. PICK s \in Sockets : ServerSteps(s) \/ ServerCloses(s) \/ NetworkDrop(s)
    BY <1>3
  <2>2. CASE HandleAuth(s) \/ Unauthenticated(s)
    BY <2>2, DropKeeps
  <2>3. CASE AuthDone(s)
    BY <2>3, AuthKeeps
  <2>4. CASE Join(s) \/ Leave(s) \/ Presence(s)
    BY <2>4, RoomFramesKeep
  <2>5. CASE Close(s)
    BY <2>5, CloseKeeps
  <2>6. CASE ServerCloses(s) \/ NetworkDrop(s)
    BY <2>6, HungUpKeeps
  <2> QED
    BY <2>1, <2>2, <2>3, <2>4, <2>5, <2>6 DEF ServerSteps
<1>4. CASE UNCHANGED liveVars
  BY <1>4, LiveStays
<1> QED
  BY <1>1, <1>2, <1>3, <1>4 DEF LiveNext

LEMMA LiveInvIsSafe == LiveInv => LiveSafe
<1> SUFFICES ASSUME LiveInv PROVE LiveSafe
  OBVIOUS
<1>s. LiveShape /\ SocketsLeft /\ BothSides /\ TabsFollow /\ OneSocket /\ RoomsFollow /\ RostersFollow
  BY DEF LiveInv
<1>1. LiveTypeOK
  <2>1. ASSUME NEW t \in Tabs PROVE made[t] \in 0 .. MaxSockets /\ pending[t] \in 0 .. MaxSockets
    <3>1. Doomed(t) \in SUBSET (1 .. MaxSockets)
      BY DEF Doomed
    <3>2. PICK c \in Nat : c = Cardinality(Doomed(t))
      BY <3>1, DoomedCards
    <3>3. PICK b \in Nat : b = IF signed[t] THEN 1 ELSE 0
      OBVIOUS
    <3>4. made[t] + pending[t] + 2 * signIns[t] + faults + c + b <= MaxSockets
      BY <1>s, <3>2, <3>3 DEF SocketsLeft
    <3>5. made[t] \in Nat /\ pending[t] \in Nat /\ signIns[t] \in Nat /\ faults \in Nat /\ MaxSockets \in Nat
      BY <1>s, LiveConstants DEF LiveShape
    <3> QED
      BY <3>4, <3>5
  <2>2. made \in [Tabs -> 0 .. MaxSockets] /\ pending \in [Tabs -> 0 .. MaxSockets]
    BY <1>s, <2>1 DEF LiveShape
  <2>3. \A s \in Sockets : \A i \in DOMAIN up[s] : up[s][i] \in Requests
    <3>1. \A s \in Sockets : up[s] \in Seq(Requests)
      BY <1>s DEF LiveShape
    <3> QED
      BY <3>1
  <2> QED
    BY <2>2, <2>3, <1>s DEF LiveShape, LiveTypeOK, SocketStates
<1>2. OneUnlessHurried
  <2> SUFFICES ASSUME NEW t \in Tabs, ~hurried[t]
               PROVE  Cardinality(LiveSockets(t)) + pending[t] <= 1
    BY DEF OneUnlessHurried
  <2>0. LiveSockets(t) \in SUBSET (1 .. MaxSockets) /\ pending[t] \in Nat /\ pending[t] <= 1
    BY <1>s DEF LiveSockets, LiveShape, OneSocket
  <2>1. CASE LiveSockets(t) = {}
    <3>1. Cardinality(LiveSockets(t)) = 0
      BY <2>1, FS_EmptySet
    <3> QED
      BY <3>1, <2>0
  <2>2. CASE LiveSockets(t) # {}
    <3>1. \A k \in LiveSockets(t) : wsRef[t] = k /\ pending[t] = 0
      <4>1. ASSUME NEW k \in LiveSockets(t) PROVE wsRef[t] = k /\ pending[t] = 0
        <5>1. k \in 1 .. MaxSockets /\ cli[<<t, k>>] \in {"connecting", "open"}
          BY DEF LiveSockets
        <5>2. signed[t]
          BY <5>1, <1>s DEF OneSocket
        <5> QED
          BY <5>1, <5>2, <1>s DEF OneSocket
      <4> QED
        BY <4>1
    <3>2. LiveSockets(t) = {wsRef[t]} /\ pending[t] = 0
      BY <3>1, <2>2
    <3>3. Cardinality(LiveSockets(t)) = 1
      BY <3>2, FS_Singleton
    <3> QED
      BY <3>2, <3>3
  <2> QED
    BY <2>1, <2>2
<1>3. RoomsAreLive
  BY <1>s DEF RoomsAreLive, BothSides
<1>4. ASSUME NEW t \in Tabs, WireQuiet(t), Connected(t)
      PROVE  LET s == <<t, wsRef[t]>>
             IN  /\ s \in Sockets /\ Current(s) /\ srv[s] = "ready" /\ s[1] = t
                 /\ up[s] = <<>> /\ down[s] = <<>>
  <2>1. wsRef[t] \in 1 .. MaxSockets
    BY <1>4, <1>s, LiveConstants DEF Connected, LiveShape
  <2> QED
    BY <2>1, <1>4 DEF Connected, Current, WireQuiet, Sockets
<1>5. \A S, x : NoneIn(<<>>, S) /\ ~LastIn(<<>>, S, x)
  BY DEF NoneIn, LastIn
<1>6. ~Greeted(<<>>)
  BY DEF Greeted
<1>7. MembershipSettles
  <2> SUFFICES ASSUME NEW t \in Tabs, NEW r \in Rooms, WireQuiet(t), Connected(t)
               PROVE  <<t, wsRef[t]>> \in members[r] <=> r \in desired[t]
    BY DEF MembershipSettles
  <2>1. PICK s \in Sockets : /\ s = <<t, wsRef[t]>> /\ Current(s) /\ srv[s] = "ready" /\ s[1] = t
                             /\ up[s] = <<>> /\ down[s] = <<>>
    BY <1>4
  <2>2. WillBe(s, r) <=> r \in joined[s]
    BY <2>1, <1>5 DEF WillBe
  <2>3. s \in members[r] <=> r \in joined[s]
    BY <1>s DEF BothSides
  <2> QED
    BY <2>1, <2>2, <2>3, <1>6, <1>s DEF RoomsFollow
<1>8. RosterSettles
  <2> SUFFICES ASSUME NEW t \in Tabs, NEW r \in desired[t], ~hurried[t], WireQuiet(t), Connected(t)
               PROVE  roster[t][r] = members[r]
    BY DEF RosterSettles
  <2>1. PICK s \in Sockets : /\ s = <<t, wsRef[t]>> /\ Current(s) /\ srv[s] = "ready" /\ s[1] = t
                             /\ up[s] = <<>> /\ down[s] = <<>>
    BY <1>4
  <2>2. r \in Rooms
    BY <1>s DEF LiveShape
  <2>3. s \in members[r]
    BY <2>1, <2>2, <1>7 DEF MembershipSettles
  <2>4. Shows(down[s], r, roster[t][r], members[r])
    BY <2>1, <2>2, <2>3, <1>5, <1>s DEF RostersFollow
  <2> QED
    BY <2>1, <2>4, <1>5 DEF Shows
<1> QED
  BY <1>1, <1>2, <1>3, <1>7, <1>8 DEF LiveSafe

\* However sockets open, close, are refused, time out and reconnect under it, a
\* tab that has come to rest is, for the server, in the rooms it has open and in
\* no other, shows their members, and keeps one socket or one timer
\* (EventsProvider, mountWebsocket).
THEOREM LiveIsSafe == LiveSpec => []LiveSafe
<1>1. LiveSpec => []LiveInv
  BY LiveStarts, LiveStep, PTL DEF LiveSpec
<1> QED
  BY <1>1, LiveInvIsSafe, PTL
=============================================================================
