------------------------- MODULE FailureWindow_proofs -------------------------
(***************************************************************************)
(* Proofs about FailureWindow, for any thresholds, any window, any number  *)
(* of buckets and any load: the types and running totals of the tracker,   *)
(* Rolling, Bounded and Justified.                                         *)
(***************************************************************************)
EXTENDS FailureWindow, Integers, FiniteSetTheorems, WellFoundedInduction, TLAPS

\* Most leaves are first-order; those that need arithmetic or records name SMT.
USE Zenon

Bucket == [age : 0 .. Window, requests : 1 .. MaxLoad, failures : 0 .. MaxLoad]
Entry == [age : 0 .. Window - 1, failed : BOOLEAN]

\* The least element of a set of numbers.
LEMMA Least ==
  ASSUME NEW S \in SUBSET Nat, S # {}
  PROVE  \E n \in S : \A m \in S : n <= m
<1>1. PICK n \in S : \A m \in S : <<m, n>> \notin OpToRel(<, Nat)
  BY WFMin, NatLessThanWellFounded
<1>2. \A m \in S : ~(m < n)
  BY <1>1 DEF OpToRel
<1> QED
  BY SMT, <1>2

\* The constants, and what else is used of the width of a bucket.
LEMMA Constants ==
  /\ Failures \in Nat /\ Failures >= 1 /\ Window \in Nat /\ Window >= 1 /\ Rate \in Nat
  /\ MaxLoad \in Nat /\ MaxLoad >= 1 /\ Width \in Nat /\ Width >= 1
<1>1. /\ Failures \in Nat /\ Failures >= 1 /\ Window \in Nat /\ Window >= 1 /\ Rate \in Nat
      /\ MaxLoad \in Nat /\ MaxLoad >= 1 /\ MaxBuckets \in Nat /\ MaxBuckets >= 1
  BY SMT, TrackerAssumption, LoadAssumption
<1>2. Window \div MaxBuckets \in Nat
  BY SMT, <1>1
<1> QED
  BY SMT, <1>1, <1>2 DEF Width

\* Total adds up.
LEMMA TotalIs ==
  ASSUME NEW n \in Nat, NEW c \in [1 .. n -> Nat], NEW S \in [0 .. n -> Int], S[0] = 0,
         \A i \in 1 .. n : S[i] = S[i - 1] + c[i]
  PROVE  Total(c) = S[n]
<1>. DEFINE Adds(f) == f = [i \in 0 .. n |-> IF i = 0 THEN 0 ELSE f[i - 1] + c[i]]
            total == CHOOSE f : Adds(f)
<1>1. Len(c) = n
  BY SMT
<1>2. Total(c) = total[n]
  BY <1>1 DEF Total
<1>3. Adds(S)
  BY SMT
<1>4. Adds(total)
  BY <1>3
<1>. HIDE DEF total
<1>5. \A i \in 0 .. n : total[i] = IF i = 0 THEN 0 ELSE total[i - 1] + c[i]
  BY <1>4
<1>6. \A i \in 0 .. n : total[i] = S[i]
  <2>. DEFINE Wrong == {i \in 0 .. n : total[i] # S[i]}
  <2>. SUFFICES ASSUME Wrong # {} PROVE FALSE
    OBVIOUS
  <2>0. Wrong \in SUBSET Nat
    BY SMT
  <2>1. PICK i \in Wrong : \A j \in Wrong : i <= j
    <3>. HIDE DEF Wrong
    <3> QED
      BY <2>0, Least
  <2>2. CASE i = 0
    BY <1>5, <2>1, <2>2
  <2>3. CASE i # 0
    <3>1. i - 1 \in 0 .. n /\ i - 1 \notin Wrong
      <4>1. i - 1 \in 0 .. n /\ i - 1 < i
        BY SMT, <2>3
      <4>2. i - 1 \in Wrong => i <= i - 1
        BY <2>1
      <4> QED
        BY SMT, <4>1, <4>2
    <3> QED
      BY SMT, <1>5, <2>1, <2>3, <3>1
  <2> QED
    BY <2>2, <2>3
<1> QED
  BY SMT, <1>2, <1>6

\* It adds up what a running total loses on the way.
LEMMA TotalFalls ==
  ASSUME NEW n \in Nat, NEW k \in 0 .. n, NEW R \in [0 .. n -> Nat], NEW c \in [1 .. k -> Nat],
         \A i \in 1 .. k : R[i - 1] = R[i] + c[i]
  PROVE  Total(c) = R[0] - R[k]
<1>. DEFINE S == [i \in 0 .. k |-> R[0] - R[i]]
<1>1. S \in [0 .. k -> Int] /\ S[0] = 0 /\ S[k] = R[0] - R[k]
  BY SMT
<1>2. \A i \in 1 .. k : S[i] = S[i - 1] + c[i]
  BY SMT
<1>. HIDE DEF S
<1>3. k \in Nat
  BY SMT
<1>4. Total(c) = S[k]
  BY <1>1, <1>2, <1>3, TotalIs
<1> QED
  BY <1>1, <1>4

-----------------------------------------------------------------------------
(* How the buckets b and the log s fit together.  R[i] and G[i] are the    *)
(* requests and the failures in the buckets after the i-th, so that these  *)
(* requests are the last R[i] of the log, as far as the log has them still.*)

\* Two buckets are apart by the width of those between them, except that the age
\* of an expired one is not known.
Spaced(b) ==
    \A i, j \in 1 .. Len(b) : i < j => b[i].age = Window \/ b[i].age >= b[j].age + (j - i) * Width

Sums(b, R, G) ==
    /\ R \in [0 .. Len(b) -> Nat] /\ G \in [0 .. Len(b) -> Nat]
    /\ R[Len(b)] = 0 /\ G[Len(b)] = 0
    /\ \A i \in 1 .. Len(b) : R[i - 1] = R[i] + b[i].requests /\ G[i - 1] = G[i] + b[i].failures

FailedFrom(s, p) == {q \in p .. Len(s) : s[q].failed}

\* The requests of a bucket are at most as old as the bucket and younger by less
\* than its width; those of pruned buckets are almost as old as the window.
Ages(b, s, R) ==
    \A p \in 1 .. Len(s) :
        /\ \A i \in 1 .. Len(b) : /\ p > Len(s) - R[i - 1] => s[p].age <= b[i].age
                                  /\ p <= Len(s) - R[i] => s[p].age + Width > b[i].age
        /\ p <= Len(s) - R[0] => s[p].age + Width > Window

\* From a bucket that is not expired on, the log has all requests.
Counts(b, s, R, G) ==
    \A i \in 0 .. Len(b) :
        (i < Len(b) => b[i + 1].age < Window) =>
            R[i] <= Len(s) /\ G[i] = Cardinality(FailedFrom(s, Len(s) - R[i] + 1))

Sorted(s) == \A p, q \in 1 .. Len(s) : p < q => s[p].age >= s[q].age

Typed(b, s) ==
    /\ b \in Seq(Bucket) /\ \A i \in 1 .. Len(b) : b[i].failures <= b[i].requests
    /\ s \in Seq(Entry) /\ Sorted(s)

Fits(b, s, R, G) == Typed(b, s) /\ Spaced(b) /\ Sums(b, R, G) /\ Ages(b, s, R) /\ Counts(b, s, R, G)

\* Products of distances and widths.
LEMMA Products ==
  /\ \A x, y \in Nat : x * y \in Nat
  /\ \A x, y \in Nat : x >= 1 => x * y >= y
  /\ \A x, y \in Nat : (x + 1) * y = x * y + y
BY SMT

\* What the type of the buckets says of one of them.
LEMMA BucketFields ==
  ASSUME NEW b \in Seq(Bucket), NEW i \in 1 .. Len(b)
  PROVE  /\ b[i] \in Bucket /\ b[i].age \in 0 .. Window /\ b[i].requests \in 1 .. MaxLoad
         /\ b[i].failures \in 0 .. MaxLoad /\ b[i].requests \in Nat /\ b[i].failures \in Nat
<1>1. b[i] \in Bucket
  BY SMT
<1> QED
  BY SMT, <1>1, Constants DEF Bucket

\* The buckets are in the order of their age.
LEMMA Ordered ==
  ASSUME NEW b \in Seq(Bucket), Spaced(b), NEW i \in 1 .. Len(b), NEW j \in 1 .. Len(b), i < j
  PROVE  b[i].age >= b[j].age
<1>1. b[i].age \in 0 .. Window /\ b[j].age \in 0 .. Window
  BY BucketFields
<1>2. j - i \in Nat /\ (j - i) * Width \in Nat
  BY SMT, Constants, Products
<1>3. b[i].age = Window \/ b[i].age >= b[j].age + (j - i) * Width
  BY DEF Spaced
<1> QED
  BY SMT, <1>1, <1>2, <1>3, Constants

\* prune finds all buckets that are expired, although it stops at the first that
\* is not.
LEMMA ExpiredIs ==
  ASSUME NEW b \in Seq(Bucket), Spaced(b)
  PROVE  /\ Expired(b) \in 0 .. Len(b)
         /\ \A i \in 1 .. Expired(b) : b[i].age = Window
         /\ \A i \in Expired(b) + 1 .. Len(b) : b[i].age < Window
<1>. DEFINE First(k) == /\ \A i \in 1 .. k : b[i].age >= Window
                        /\ k < Len(b) => b[k + 1].age < Window
            fresh == {i \in 1 .. Len(b) : b[i].age < Window}
<1>0. \A i \in 1 .. Len(b) : b[i].age \in 0 .. Window
  BY BucketFields
<1>1. \E k \in 0 .. Len(b) : First(k)
  <2>1. CASE fresh = {}
    <3>1. First(Len(b))
      BY SMT, <1>0, <2>1, Constants
    <3> QED
      BY SMT, <3>1
  <2>2. CASE fresh # {}
    <3>1. fresh \in SUBSET Nat
      BY SMT
    <3>2. PICK m \in fresh : \A i \in fresh : m <= i
      <4>. HIDE DEF fresh
      <4> QED
        BY <2>2, <3>1, Least
    <3>3. \A i \in 1 .. m - 1 : i \notin fresh
      BY SMT, <3>2
    <3>4. m - 1 \in 0 .. Len(b) /\ First(m - 1)
      BY SMT, <1>0, <3>2, <3>3, Constants
    <3> QED
      BY <3>4
  <2> QED
    BY <2>1, <2>2
<1>2. PICK k \in 0 .. Len(b) : k = Expired(b) /\ First(k)
  BY <1>1 DEF Expired
<1>3. \A i \in k + 1 .. Len(b) : b[i].age < Window
  <2> SUFFICES ASSUME NEW i \in k + 1 .. Len(b) PROVE b[i].age < Window
    OBVIOUS
  <2>1. b[k + 1].age < Window
    BY SMT, <1>2
  <2>2. CASE i = k + 1
    BY <2>1, <2>2
  <2>3. CASE i # k + 1
    <3>1. b[k + 1].age >= b[i].age
      BY SMT, <2>3, Ordered
    <3> QED
      BY SMT, <1>0, <2>1, <3>1, Constants
  <2> QED
    BY <2>2, <2>3
<1>4. \A i \in 1 .. k : b[i].age = Window
  BY SMT, <1>0, <1>2, Constants
<1> QED
  BY <1>2, <1>3, <1>4

\* What prune leaves: the other buckets, and the totals of these.
Tracker == [buckets : Seq(Bucket), requests : Nat, failures : Nat, consecutive : Nat, since : 0 .. Window]

\* prune keeps the buckets from the first that is not expired, and the running totals
\* at that bucket: its subtractions never go below zero.
LEMMA PruneIs ==
  ASSUME NEW t \in Tracker, NEW R, NEW G, Sums(t.buckets, R, G), t.requests = R[0], t.failures = G[0],
         NEW k \in 0 .. Len(t.buckets), k = Expired(t.buckets)
  PROVE  prune(t) = [buckets |-> SubSeq(t.buckets, k + 1, Len(t.buckets)), requests |-> R[k],
                     failures |-> G[k], consecutive |-> t.consecutive, since |-> t.since]
<1>. DEFINE b == t.buckets
            gone == SubSeq(b, 1, k)
<1>1. /\ b \in Seq(Bucket) /\ Len(b) \in Nat /\ k \in 0 .. Len(b) /\ R \in [0 .. Len(b) -> Nat] /\ G \in [0 .. Len(b) -> Nat]
      /\ \A i \in 1 .. Len(b) : R[i - 1] = R[i] + b[i].requests /\ G[i - 1] = G[i] + b[i].failures
  BY SMT DEF Tracker, Sums
<1>2. Len(gone) = k /\ \A i \in 1 .. k : gone[i] = b[i]
  BY SMT, <1>1
<1>3. \A i \in 1 .. k : b[i].requests \in Nat /\ b[i].failures \in Nat
  BY SMT, <1>1, BucketFields
<1>. HIDE DEF b, gone
<1>4. RequestsIn(gone) = R[0] - R[k]
  <2>. DEFINE c == [i \in 1 .. k |-> gone[i].requests]
  <2>1. c \in [1 .. k -> Nat] /\ \A i \in 1 .. k : c[i] = b[i].requests
    BY <1>2, <1>3
  <2>. HIDE DEF c
  <2>2. \A i \in 1 .. k : R[i - 1] = R[i] + c[i]
    <3> TAKE i \in 1 .. k
    <3>1. i \in 1 .. Len(b)
      BY SMT, <1>1
    <3> QED
      BY <1>1, <2>1, <3>1
  <2>3. Total(c) = R[0] - R[k]
    BY <1>1, <2>1, <2>2, TotalFalls
  <2> QED
    BY <1>2, <2>3 DEF RequestsIn, c
<1>5. FailuresIn(gone) = G[0] - G[k]
  <2>. DEFINE c == [i \in 1 .. k |-> gone[i].failures]
  <2>1. c \in [1 .. k -> Nat] /\ \A i \in 1 .. k : c[i] = b[i].failures
    BY <1>2, <1>3
  <2>. HIDE DEF c
  <2>2. \A i \in 1 .. k : G[i - 1] = G[i] + c[i]
    <3> TAKE i \in 1 .. k
    <3>1. i \in 1 .. Len(b)
      BY SMT, <1>1
    <3> QED
      BY <1>1, <2>1, <3>1
  <2>3. Total(c) = G[0] - G[k]
    BY <1>1, <2>1, <2>2, TotalFalls
  <2> QED
    BY <1>2, <2>3 DEF FailuresIn, c
<1>6. t.requests - RequestsIn(gone) = R[k] /\ t.failures - FailuresIn(gone) = G[k]
  BY SMT, <1>1, <1>4, <1>5 DEF b
<1> QED
  BY <1>6 DEF prune, Tracker, b, gone

\* Positions after the first k.
LEMMA Shifted ==
  ASSUME NEW n \in Nat, NEW k \in 0 .. n
  PROVE  /\ n - k \in Nat
         /\ \A i \in 1 .. n - k : i + k \in k + 1 .. n /\ i + k \in 1 .. n
         /\ \A i \in 0 .. n - k : i + k \in 0 .. n /\ (i + k < n => i + k + 1 \in k + 1 .. n)
BY SMT

\* The end of a running total.
LEMMA ShiftedFunction ==
  ASSUME NEW n \in Nat, NEW k \in 0 .. n, NEW R \in [0 .. n -> Nat],
         NEW Q, Q = [i \in 0 .. n - k |-> R[i + k]]
  PROVE  Q \in [0 .. n - k -> Nat] /\ \A i \in 0 .. n - k : Q[i] = R[i + k]
<1>1. \A i \in 0 .. n - k : R[i + k] \in Nat
  BY Shifted
<1> QED
  BY <1>1

\* The end of a sequence.
LEMMA Dropped ==
  ASSUME NEW S, NEW b \in Seq(S), NEW k \in 0 .. Len(b), NEW c, c = SubSeq(b, k + 1, Len(b))
  PROVE  c \in Seq(S) /\ Len(c) = Len(b) - k /\ \A i \in 1 .. Len(b) - k : c[i] = b[i + k]
<1>1. Len(b) \in Nat
  BY SMT
<1>2. Len(c) = Len(b) - k /\ \A i \in 1 .. Len(b) - k : c[i] = b[i + k]
  BY SMT, <1>1
<1>3. c \in Seq(S)
  BY SMT, <1>1
<1> QED
  BY <1>2, <1>3

\* What is left fits the same log.
Fresh(b) == \A i \in 1 .. Len(b) : b[i].age < Window
Gone(b, k) == (\A i \in 1 .. k : b[i].age = Window) /\ \A i \in k + 1 .. Len(b) : b[i].age < Window
From(R, n, k) == [i \in 0 .. n - k |-> R[i + k]]

\* What prune keeps still fits the log, and none of it is expired.
LEMMA PruneFits ==
  ASSUME NEW b, NEW s, NEW R, NEW G, Fits(b, s, R, G), NEW k \in 0 .. Len(b), Gone(b, k)
  PROVE  /\ Fits(SubSeq(b, k + 1, Len(b)), s, From(R, Len(b), k), From(G, Len(b), k))
         /\ Fresh(SubSeq(b, k + 1, Len(b)))
<1> SUFFICES ASSUME NEW c, c = SubSeq(b, k + 1, Len(b)),
                    NEW Q, Q = From(R, Len(b), k), NEW H, H = From(G, Len(b), k)
             PROVE  Fits(c, s, Q, H) /\ Fresh(c)
  OBVIOUS
<1> USE DEF Gone, From
<1>1. /\ b \in Seq(Bucket) /\ Len(b) \in Nat /\ s \in Seq(Entry) /\ Len(s) \in Nat
      /\ R \in [0 .. Len(b) -> Nat] /\ G \in [0 .. Len(b) -> Nat]
  BY SMT DEF Fits, Typed, Sums
<1>2. /\ c \in Seq(Bucket) /\ Len(c) \in Nat /\ Len(c) = Len(b) - k
      /\ \A i \in 1 .. Len(c) : i + k \in k + 1 .. Len(b) /\ i + k \in 1 .. Len(b) /\ c[i] = b[i + k]
  <2>1. c \in Seq(Bucket) /\ Len(c) = Len(b) - k /\ \A i \in 1 .. Len(b) - k : c[i] = b[i + k]
    BY SMT, <1>1, Dropped
  <2> QED
    BY <1>1, <2>1, Shifted
<1>3. /\ Q \in [0 .. Len(c) -> Nat] /\ H \in [0 .. Len(c) -> Nat]
      /\ \A i \in 0 .. Len(c) : i + k \in 0 .. Len(b) /\ Q[i] = R[i + k] /\ H[i] = G[i + k]
  <2>1. /\ Q \in [0 .. Len(b) - k -> Nat] /\ \A i \in 0 .. Len(b) - k : Q[i] = R[i + k]
        /\ H \in [0 .. Len(b) - k -> Nat] /\ \A i \in 0 .. Len(b) - k : H[i] = G[i + k]
    BY <1>1, ShiftedFunction
  <2> QED
    BY <1>1, <1>2, <2>1, Shifted
<1>4. \A i \in 1 .. Len(c) : c[i].age < Window
  BY <1>2
<1>5. Typed(c, s)
  BY <1>2 DEF Fits, Typed
<1>6. Spaced(c)
  <2> SUFFICES ASSUME NEW i \in 1 .. Len(c), NEW j \in 1 .. Len(c), i < j
               PROVE  c[i].age = Window \/ c[i].age >= c[j].age + (j - i) * Width
    BY DEF Spaced
  <2>1. i + k \in 1 .. Len(b) /\ j + k \in 1 .. Len(b) /\ i + k < j + k /\ (j + k) - (i + k) = j - i
    BY SMT, <1>2
  <2>2. b[i + k].age = Window \/ b[i + k].age >= b[j + k].age + ((j + k) - (i + k)) * Width
    BY <2>1 DEF Fits, Spaced
  <2> QED
    BY <1>2, <2>1, <2>2
<1>7. Sums(c, Q, H)
  <2>1. Q[Len(c)] = 0 /\ H[Len(c)] = 0
    BY SMT, <1>1, <1>2, <1>3 DEF Fits, Sums
  <2>2. ASSUME NEW i \in 1 .. Len(c)
        PROVE  Q[i - 1] = Q[i] + c[i].requests /\ H[i - 1] = H[i] + c[i].failures
    <3>1. i - 1 \in 0 .. Len(c) /\ (i - 1) + k = (i + k) - 1 /\ i \in 0 .. Len(c) /\ i + k \in 1 .. Len(b)
      BY SMT, <1>2
    <3>2. R[(i + k) - 1] = R[i + k] + b[i + k].requests /\ G[(i + k) - 1] = G[i + k] + b[i + k].failures
      BY <3>1 DEF Fits, Sums
    <3> QED
      BY <1>2, <1>3, <3>1, <3>2
  <2> QED
    BY <1>3, <2>1, <2>2 DEF Sums
<1>8. Ages(c, s, Q)
  <2> SUFFICES ASSUME NEW p \in 1 .. Len(s)
               PROVE  /\ \A i \in 1 .. Len(c) : /\ p > Len(s) - Q[i - 1] => s[p].age <= c[i].age
                                                /\ p <= Len(s) - Q[i] => s[p].age + Width > c[i].age
                      /\ p <= Len(s) - Q[0] => s[p].age + Width > Window
    BY DEF Ages
  <2>1. ASSUME NEW i \in 1 .. Len(c)
        PROVE  /\ p > Len(s) - Q[i - 1] => s[p].age <= c[i].age
               /\ p <= Len(s) - Q[i] => s[p].age + Width > c[i].age
    <3>1. i - 1 \in 0 .. Len(c) /\ (i - 1) + k = (i + k) - 1 /\ i \in 0 .. Len(c) /\ i + k \in 1 .. Len(b)
      BY SMT, <1>2
    <3>2. /\ p > Len(s) - R[(i + k) - 1] => s[p].age <= b[i + k].age
          /\ p <= Len(s) - R[i + k] => s[p].age + Width > b[i + k].age
      BY <3>1 DEF Fits, Ages
    <3> QED
      BY <1>2, <1>3, <3>1, <3>2
  <2>2. p <= Len(s) - Q[0] => s[p].age + Width > Window
    <3>1. Q[0] = R[k] /\ 0 \in 0 .. Len(c)
      BY SMT, <1>1, <1>2, <1>3
    <3>2. CASE k = 0
      BY <3>1, <3>2 DEF Fits, Ages
    <3>3. CASE k # 0
      <4>1. k \in 1 .. Len(b) /\ k \in 1 .. k /\ b[k].age = Window
        BY SMT, <3>3
      <4> QED
        BY <3>1, <4>1 DEF Fits, Ages
    <3> QED
      BY <3>2, <3>3
  <2> QED
    BY <2>1, <2>2
<1>9. Counts(c, s, Q, H)
  <2> SUFFICES ASSUME NEW i \in 0 .. Len(c)
               PROVE  Q[i] <= Len(s) /\ H[i] = Cardinality(FailedFrom(s, Len(s) - Q[i] + 1))
    BY DEF Counts
  <2>1. i + k \in 0 .. Len(b) /\ (i + k < Len(b) => b[i + k + 1].age < Window)
    BY <1>1, <1>2, Shifted
  <2>2. R[i + k] <= Len(s) /\ G[i + k] = Cardinality(FailedFrom(s, Len(s) - R[i + k] + 1))
    BY <2>1 DEF Fits, Counts
  <2> QED
    BY <1>3, <2>2
<1> QED
  BY <1>4, <1>5, <1>6, <1>7, <1>8, <1>9 DEF Fits, Fresh

-----------------------------------------------------------------------------
(* A request is recorded.                                                  *)

\* The failed requests from a place in the log on are finitely many.
LEMMA FailedFinite ==
  ASSUME NEW s \in Seq(Entry), NEW p \in Int
  PROVE  /\ IsFiniteSet(FailedFrom(s, p)) /\ Cardinality(FailedFrom(s, p)) \in Nat
         /\ p > Len(s) => Cardinality(FailedFrom(s, p)) = 0
<1>1. IsFiniteSet(p .. Len(s)) /\ FailedFrom(s, p) \subseteq p .. Len(s)
  BY SMT, FS_Interval DEF FailedFrom
<1>2. p > Len(s) => FailedFrom(s, p) = {}
  BY SMT DEF FailedFrom
<1> QED
  BY <1>1, <1>2, FS_Subset, FS_CardinalityType, FS_EmptySet

\* One more request in the log.
Longer(s, failed) == Append(s, [age |-> 0, failed |-> failed])

\* The log after a request.
LEMMA LogAppend ==
  ASSUME NEW s \in Seq(Entry), Sorted(s),
         NEW failed \in BOOLEAN
  PROVE  LET r == Longer(s, failed) IN
         /\ r \in Seq(Entry) /\ Len(r) = Len(s) + 1 /\ r[Len(s) + 1].age = 0
         /\ r[Len(s) + 1].failed = failed /\ \A p \in 1 .. Len(s) : r[p] = s[p]
         /\ Sorted(r)
<1> DEFINE r == Longer(s, failed)
<1>0. [age |-> 0, failed |-> failed] \in Entry
  BY SMT, Constants DEF Entry
<1>1. /\ r \in Seq(Entry) /\ Len(r) = Len(s) + 1 /\ r[Len(s) + 1] = [age |-> 0, failed |-> failed]
      /\ \A p \in 1 .. Len(s) : r[p] = s[p]
  BY SMT, <1>0 DEF Longer
<1> HIDE DEF r
<1>2. ASSUME NEW p \in 1 .. Len(r), NEW q \in 1 .. Len(r), p < q
      PROVE  r[p].age >= r[q].age
  <2>1. p \in 1 .. Len(s) /\ r[p] = s[p] /\ s[p] \in Entry
    BY SMT, <1>1, <1>2
  <2>2. CASE q = Len(s) + 1
    BY SMT, <1>1, <2>1, <2>2, Constants DEF Entry
  <2>3. CASE q # Len(s) + 1
    <3>1. q \in 1 .. Len(s) /\ r[q] = s[q]
      BY SMT, <1>1, <2>3
    <3> QED
      BY <1>2, <2>1, <3>1 DEF Sorted
  <2> QED
    BY <2>2, <2>3
<1> QED
  <2>1. Sorted(r)
    BY <1>2 DEF Sorted
  <2> QED
    BY SMT, <1>1, <2>1 DEF r

\* A request adds its failure, if it is one, to those counted from any place on.
LEMMA FailedAppend ==
  ASSUME NEW s \in Seq(Entry), NEW p \in 1 .. Len(s) + 1,
         NEW failed \in BOOLEAN, NEW r, r = Longer(s, failed)
  PROVE  Cardinality(FailedFrom(r, p)) = Cardinality(FailedFrom(s, p)) + One(failed)
<1>1. /\ Len(s) \in Nat /\ Len(r) = Len(s) + 1 /\ r[Len(s) + 1].failed = failed
      /\ \A q \in 1 .. Len(s) : r[q] = s[q]
  BY SMT DEF Longer
<1>2. IsFiniteSet(FailedFrom(s, p)) /\ Cardinality(FailedFrom(s, p)) \in Nat
  BY SMT, FailedFinite
<1>3. Len(s) + 1 \notin FailedFrom(s, p)
  BY SMT, <1>1 DEF FailedFrom
<1>4. CASE failed
  <2>0. \A q : q \in p .. Len(r) <=> q \in p .. Len(s) \/ q = Len(s) + 1
    BY SMT, <1>1
  <2>q. \A q \in p .. Len(s) : r[q] = s[q]
    BY SMT, <1>1
  <2>1. FailedFrom(r, p) = FailedFrom(s, p) \union {Len(s) + 1}
    BY <1>1, <1>4, <2>0, <2>q DEF FailedFrom
  <2> QED
    BY <1>2, <1>3, <1>4, <2>1, FS_AddElement DEF One
<1>5. CASE ~failed
  <2>1. FailedFrom(r, p) = FailedFrom(s, p)
    BY SMT, <1>1, <1>5 DEF FailedFrom
  <2> QED
    BY SMT, <1>2, <1>5, <2>1 DEF One
<1> QED
  BY <1>4, <1>5

\* The buckets after a request: the same ages, maybe a new bucket, and one request
\* more from every place but the end.
Grows(b, R, G, failed, c, Q, H) ==
    /\ c \in Seq(Bucket) /\ Len(c) >= 1 /\ Len(c) - 1 <= Len(b)
    /\ \A i \in 1 .. Len(c) : c[i].failures <= c[i].requests
    /\ Spaced(c) /\ Sums(c, Q, H) /\ c[Len(c)].age < Width
    /\ \A i \in 1 .. Len(c) : i <= Len(b) => c[i].age = b[i].age
    /\ \A i \in 0 .. Len(c) - 1 : Q[i] = R[i] + 1 /\ H[i] = G[i] + One(failed)

\* record_sample keeps the fit, whether it opens a bucket or fills the last one.
LEMMA GrowFits ==
  ASSUME NEW b, NEW s, NEW R, NEW G, Fits(b, s, R, G), Fresh(b), NEW failed \in BOOLEAN,
         NEW r, r = Longer(s, failed), NEW c, NEW Q, NEW H, Grows(b, R, G, failed, c, Q, H)
  PROVE  Fits(c, r, Q, H)
<1>0. PICK n \in Nat : n = Len(c) /\ n >= 1 /\ n - 1 <= Len(b)
  BY SMT DEF Grows
<1>1. /\ b \in Seq(Bucket) /\ Len(b) \in Nat /\ s \in Seq(Entry) /\ Len(s) \in Nat
      /\ R \in [0 .. Len(b) -> Nat] /\ G \in [0 .. Len(b) -> Nat] /\ R[Len(b)] = 0
      /\ Q \in [0 .. n -> Nat] /\ H \in [0 .. n -> Nat] /\ Q[n] = 0 /\ H[n] = 0
  BY SMT, <1>0 DEF Fits, Typed, Sums, Grows
<1>2. /\ r \in Seq(Entry) /\ Len(r) = Len(s) + 1 /\ r[Len(s) + 1].age = 0
      /\ \A p \in 1 .. Len(s) : r[p] = s[p]
      /\ Sorted(r)
  BY <1>1, LogAppend DEF Fits, Typed
<1>a. Len(s) \in Nat /\ Len(r) = Len(s) + 1
  BY <1>1, <1>2
<1>b. \A i \in 0 .. n - 1 : i \in 0 .. Len(b)
  BY SMT, <1>0, <1>1
<1>3. \A p \in 1 .. Len(r) : r[p].age \in Nat
  <2> TAKE p \in 1 .. Len(r)
  <2>1. r[p] \in Entry
    BY SMT, <1>2
  <2> QED
    BY SMT, <2>1, Constants DEF Entry
<1>4. \A i \in 1 .. n : c[i].age \in Nat
  BY SMT, <1>0, BucketFields, Constants DEF Grows
<1>g. /\ c[n].age < Width /\ \A i \in 1 .. n : i <= Len(b) => c[i].age = b[i].age
      /\ \A i \in 0 .. n - 1 : Q[i] = R[i] + 1 /\ H[i] = G[i] + One(failed)
  BY <1>0 DEF Grows
<1>r. \A i \in 0 .. n - 1 : R[i] \in Nat /\ G[i] \in Nat /\ Q[i] = R[i] + 1 /\ H[i] = G[i] + One(failed)
  BY <1>1, <1>b, <1>g
<1>5. Ages(c, r, Q)
  <2> SUFFICES ASSUME NEW p \in 1 .. Len(r)
               PROVE  /\ \A i \in 1 .. n : /\ p > Len(r) - Q[i - 1] => r[p].age <= c[i].age
                                           /\ p <= Len(r) - Q[i] => r[p].age + Width > c[i].age
                      /\ p <= Len(r) - Q[0] => r[p].age + Width > Window
    BY <1>0 DEF Ages
  <2>1. ASSUME NEW i \in 1 .. n, p > Len(r) - Q[i - 1]
        PROVE  r[p].age <= c[i].age
    <3>0. i - 1 \in 0 .. n - 1 /\ i - 1 \in 0 .. Len(b)
      BY SMT, <1>0, <1>1
    <3>r. R[i - 1] \in Nat /\ Q[i - 1] = R[i - 1] + 1
      BY <1>r, <3>0
    <3>p. p > Len(s) - R[i - 1]
      BY SMT, <1>a, <2>1, <3>r
    <3>l. i = Len(b) + 1 => R[i - 1] = 0
      BY SMT, <1>1
    <3>1. R[i - 1] \in Nat /\ p > Len(s) - R[i - 1] /\ (i = Len(b) + 1 => R[i - 1] = 0)
      BY <3>r, <3>p, <3>l
    <3>2. CASE p = Len(s) + 1
      BY SMT, <1>2, <1>4, <3>2
    <3>3. CASE p # Len(s) + 1
      <4>1. p \in 1 .. Len(s) /\ i \in 1 .. Len(b)
        BY SMT, <1>0, <1>1, <1>a, <3>1, <3>3
      <4>2. s[p].age <= b[i].age
        BY <3>1, <4>1 DEF Fits, Ages
      <4>3. r[p] = s[p] /\ c[i].age = b[i].age
        BY SMT, <1>2, <1>g, <4>1
      <4> QED
        BY <4>2, <4>3
    <3> QED
      BY <3>2, <3>3
  <2>2. ASSUME NEW i \in 1 .. n, p <= Len(r) - Q[i]
        PROVE  r[p].age + Width > c[i].age
    <3>1. CASE i = n
      BY SMT, <1>3, <1>4, <1>g, <3>1, Constants
    <3>2. CASE i # n
      <4>0. i \in 0 .. n - 1 /\ i \in 0 .. Len(b) /\ i \in 1 .. Len(b)
        BY SMT, <1>0, <1>1, <3>2
      <4>1. i \in 1 .. Len(b) /\ R[i] \in Nat /\ Q[i] = R[i] + 1
        BY <1>r, <4>0
      <4>2. p \in 1 .. Len(s) /\ p <= Len(s) - R[i]
        BY SMT, <1>a, <2>2, <4>1
      <4>3. s[p].age + Width > b[i].age
        BY <4>1, <4>2 DEF Fits, Ages
      <4>4. r[p] = s[p] /\ c[i].age = b[i].age
        BY SMT, <1>2, <1>g, <4>1, <4>2
      <4> QED
        BY <4>3, <4>4
    <3> QED
      BY <3>1, <3>2
  <2>3. ASSUME p <= Len(r) - Q[0]
        PROVE  r[p].age + Width > Window
    <3>1. R[0] \in Nat /\ Q[0] = R[0] + 1
      BY SMT, <1>0, <1>1, <1>g
    <3>2. p \in 1 .. Len(s) /\ p <= Len(s) - R[0]
      BY SMT, <1>a, <2>3, <3>1
    <3>3. s[p].age + Width > Window /\ r[p] = s[p]
      BY <1>2, <3>2 DEF Fits, Ages
    <3> QED
      BY <3>3
  <2> QED
    BY <2>1, <2>2, <2>3
<1>6. Counts(c, r, Q, H)
  <2> SUFFICES ASSUME NEW i \in 0 .. n
               PROVE  Q[i] <= Len(r) /\ H[i] = Cardinality(FailedFrom(r, Len(r) - Q[i] + 1))
    BY <1>0 DEF Counts
  <2>1. CASE i = n
    <3>1. Q[i] = 0 /\ H[i] = 0 /\ r \in Seq(Entry)
      BY <1>1, <1>2, <2>1
    <3>2. Len(r) - 0 + 1 \in Int /\ Len(r) - 0 + 1 > Len(r) /\ 0 <= Len(r)
      BY SMT, <1>a
    <3>3. Cardinality(FailedFrom(r, Len(r) - 0 + 1)) = 0
      BY <3>1, <3>2, FailedFinite
    <3> QED
      BY <3>1, <3>2, <3>3
  <2>2. CASE i # n
    <3>1. i \in 0 .. n - 1 /\ i \in 0 .. Len(b) /\ (i < Len(b) => i + 1 \in 1 .. Len(b))
      BY SMT, <1>0, <1>1, <2>2
    <3>2. R[i] <= Len(s) /\ G[i] = Cardinality(FailedFrom(s, Len(s) - R[i] + 1))
      BY <3>1 DEF Fits, Counts, Fresh
    <3>r. R[i] \in Nat /\ Q[i] = R[i] + 1 /\ H[i] = G[i] + One(failed)
      BY <1>r, <3>1
    <3>l. R[i] <= Len(s)
      BY <3>2
    <3>3. PICK p \in 1 .. Len(s) + 1 : p = Len(s) - R[i] + 1
      BY SMT, <1>a, <3>r, <3>l
    <3>4. Len(r) - Q[i] + 1 = p /\ Q[i] <= Len(r)
      BY SMT, <1>a, <3>r, <3>l, <3>3
    <3>5. Cardinality(FailedFrom(r, p)) = Cardinality(FailedFrom(s, p)) + One(failed)
      BY <1>1, FailedAppend
    <3> QED
      BY <3>r, <3>2, <3>3, <3>4, <3>5
  <2> QED
    BY <2>1, <2>2
<1>7. Typed(c, r)
  BY <1>2 DEF Typed, Grows
<1> QED
  BY <1>5, <1>6, <1>7 DEF Fits, Grows

\* The buckets of record_sample.
Opened(b, failed) == Append(b, [age |-> 0, requests |-> 1, failures |-> One(failed)])
Filled(b, failed) ==
    [b EXCEPT ![Len(b)] = [age |-> b[Len(b)].age, requests |-> b[Len(b)].requests + 1,
                           failures |-> b[Len(b)].failures + One(failed)]]
Grown(b, failed) == IF Len(b) = 0 \/ b[Len(b)].age >= Width THEN Opened(b, failed) ELSE Filled(b, failed)

\* The requests after each bucket of n, when they were R before.
Raised(n, R, x) == [i \in 0 .. n |-> IF i < n THEN R[i] + x ELSE 0]

Rises(n, R, x, Q) ==
    Q \in [0 .. n -> Nat] /\ Q[n] = 0 /\ \A i \in 0 .. n - 1 : Q[i] = R[i] + x

\* A running total after record_sample.
LEMMA RaisedIs ==
  ASSUME NEW n \in Nat, NEW m \in Nat, n - 1 <= m, NEW R \in [0 .. m -> Nat], NEW x \in Nat
  PROVE  Rises(n, R, x, Raised(n, R, x))
<1>1. \A i \in 0 .. n : i < n => R[i] \in Nat
  BY SMT
<1> QED
  BY SMT, <1>1 DEF Raised, Rises

\* A new bucket.
LEMMA NewBucket ==
  ASSUME NEW b, NEW s, NEW R, NEW G, Fits(b, s, R, G), NEW failed \in BOOLEAN,
         Len(b) = 0 \/ b[Len(b)].age >= Width, Fresh(b),
         NEW c, c = Opened(b, failed)
  PROVE  Grows(b, R, G, failed, c, Raised(Len(c), R, 1), Raised(Len(c), G, One(failed)))
<1>0. One(failed) \in {0, 1}
  BY DEF One
<1>1. [age |-> 0, requests |-> 1, failures |-> One(failed)] \in Bucket
  BY SMT, <1>0, Constants DEF Bucket
<1>2. /\ b \in Seq(Bucket) /\ Len(b) \in Nat /\ R \in [0 .. Len(b) -> Nat] /\ G \in [0 .. Len(b) -> Nat]
      /\ R[Len(b)] = 0 /\ G[Len(b)] = 0
  BY SMT DEF Fits, Typed, Sums
<1>3. PICK n \in Nat : n = Len(b)
  BY <1>2
<1>4. /\ c \in Seq(Bucket) /\ Len(c) = n + 1 /\ \A i \in 1 .. n : c[i] = b[i]
      /\ c[n + 1] = [age |-> 0, requests |-> 1, failures |-> One(failed)]
  BY SMT, <1>1, <1>2, <1>3 DEF Opened
<1>5. \A i \in 1 .. n : b[i].age \in Nat
  BY SMT, <1>2, <1>3, BucketFields
<1>6. \A i \in 1 .. n + 1 : i <= n \/ i = n + 1
  BY SMT
<1>7. \A i \in 1 .. n + 1 : c[i].failures <= c[i].requests
  <2> TAKE i \in 1 .. n + 1
  <2>1. CASE i = n + 1
    BY SMT, <1>0, <1>4, <2>1
  <2>2. CASE i # n + 1
    <3>1. i \in 1 .. n
      BY SMT, <2>2
    <3> QED
      BY <1>3, <1>4, <3>1 DEF Fits, Typed
  <2> QED
    BY <2>1, <2>2
<1>8. Spaced(c)
  <2> SUFFICES ASSUME NEW i \in 1 .. n + 1, NEW j \in 1 .. n + 1, i < j
               PROVE  c[i].age = Window \/ c[i].age >= c[j].age + (j - i) * Width
    BY <1>4 DEF Spaced
  <2>0. i \in 1 .. n /\ c[i] = b[i] /\ b[i].age \in Nat
    BY SMT, <1>4, <1>5
  <2>1. CASE j # n + 1
    <3>1. j \in 1 .. n
      BY SMT, <2>1
    <3> QED
      BY <1>3, <1>4, <2>0, <3>1 DEF Fits, Spaced
  <2>2. CASE j = n + 1
    <3>1. n # 0 /\ b[n].age >= Width /\ b[n].age \in Nat /\ c[j].age = 0 /\ n \in 1 .. n
      BY SMT, <1>3, <1>4, <1>5, <2>0, <2>2
    <3>2. PICK k \in Nat : k = n - i
      BY SMT, <2>0
    <3>3. j - i = k + 1 /\ (j - i) * Width = k * Width + Width /\ k * Width \in Nat
      <4>1. j - i = k + 1
        BY SMT, <2>0, <2>2, <3>2
      <4>2. (k + 1) * Width = k * Width + Width /\ k * Width \in Nat
        BY Products, Constants
      <4> QED
        BY <4>1, <4>2
    <3>4. b[i].age = Window \/ b[i].age >= b[n].age + k * Width
      <4>1. CASE i = n
        <5>1. k = 0
          BY SMT, <3>2, <4>1
        <5>2. k * Width = 0
          BY SMT, <5>1, Constants
        <5> QED
          BY SMT, <3>1, <4>1, <5>2
      <4>2. CASE i # n
        <5>1. i < n
          BY SMT, <2>0, <4>2
        <5> QED
          BY <1>3, <2>0, <3>1, <3>2, <5>1 DEF Fits, Spaced
      <4> QED
        BY <4>1, <4>2
    <3>5. b[i].age = Window \/ b[i].age >= (j - i) * Width
      <4>1. PICK x \in Nat, y \in Nat, w \in Nat : x = b[i].age /\ y = b[n].age /\ w = k * Width
        BY <2>0, <3>1, <3>3
      <4>2. y >= Width /\ (x = Window \/ x >= y + w)
        BY <3>1, <3>4, <4>1
      <4>3. x = Window \/ x >= w + Width
        BY SMT, <4>2, Constants
      <4> QED
        BY <3>3, <4>1, <4>3
    <3>6. 0 + (j - i) * Width = (j - i) * Width
      BY SMT, <3>3, Constants
    <3> QED
      BY <2>0, <3>1, <3>5, <3>6
  <2> QED
    BY <2>1, <2>2
<1> DEFINE Q == Raised(Len(c), R, 1)
           H == Raised(Len(c), G, One(failed))
<1>9. /\ Q \in [0 .. n + 1 -> Nat] /\ H \in [0 .. n + 1 -> Nat] /\ Q[n + 1] = 0 /\ H[n + 1] = 0
      /\ \A i \in 0 .. n : Q[i] = R[i] + 1 /\ H[i] = G[i] + One(failed)
  <2>1. PICK k \in Nat : k = n + 1 /\ k - 1 <= n /\ k - 1 = n
    BY SMT
  <2>x. PICK x \in Nat, u \in Nat : x = One(failed) /\ u = 1
    BY <1>0
  <2>k. k - 1 <= n
    BY <2>1
  <2>r. R \in [0 .. n -> Nat]
    BY <1>2, <1>3
  <2>g. G \in [0 .. n -> Nat]
    BY <1>2, <1>3
  <2>3. Rises(k, R, u, Raised(k, R, u))
    BY <2>k, <2>r, RaisedIs
  <2>4. Rises(k, G, x, Raised(k, G, x))
    BY <2>k, <2>g, RaisedIs
  <2> QED
    BY <1>4, <2>1, <2>x, <2>3, <2>4 DEF Rises
<1> HIDE DEF Q, H
<1>10. ASSUME NEW i \in 1 .. n + 1
       PROVE  Q[i - 1] = Q[i] + c[i].requests /\ H[i - 1] = H[i] + c[i].failures
  <2>0. i - 1 \in 0 .. n /\ Q[i - 1] = R[i - 1] + 1 /\ H[i - 1] = G[i - 1] + One(failed)
    <3>1. i - 1 \in 0 .. n
      BY SMT
    <3> QED
      BY <1>9, <3>1
  <2>1. CASE i = n + 1
    <3>1. i - 1 = n /\ R[n] = 0 /\ G[n] = 0
      BY SMT, <1>2, <1>3, <2>1
    <3>2. c[i].requests = 1 /\ c[i].failures = One(failed) /\ Q[i] = 0 /\ H[i] = 0
      BY SMT, <1>4, <1>9, <2>1
    <3> QED
      BY <2>0, <3>1, <3>2
  <2>2. CASE i # n + 1
    <3>1. i \in 1 .. n /\ i \in 0 .. n
      BY SMT, <2>2
    <3>2. R[i - 1] = R[i] + b[i].requests /\ G[i - 1] = G[i] + b[i].failures /\ c[i] = b[i]
      BY <1>3, <1>4, <3>1 DEF Fits, Sums
    <3>3. Q[i] = R[i] + 1 /\ H[i] = G[i] + One(failed) /\ R[i] \in Nat /\ G[i] \in Nat
      BY <1>2, <1>3, <1>9, <3>1
    <3>4. b[i].requests \in Nat /\ b[i].failures \in Nat
      BY <1>2, <1>3, <3>1, BucketFields
    <3>5. /\ (R[i] + b[i].requests) + 1 = (R[i] + 1) + b[i].requests
          /\ (G[i] + b[i].failures) + One(failed) = (G[i] + One(failed)) + b[i].failures
      <4>1. One(failed) \in Nat /\ 1 \in Nat
        BY SMT, <1>0
      <4>2. R[i] \in Nat /\ G[i] \in Nat
        BY <3>3
      <4>3. (R[i] + b[i].requests) + 1 = (R[i] + 1) + b[i].requests
        BY SMT, <3>4, <4>2
      <4>4. (G[i] + b[i].failures) + One(failed) = (G[i] + One(failed)) + b[i].failures
        BY SMT, <3>4, <4>1, <4>2
      <4> QED
        BY <4>3, <4>4
    <3> QED
      BY <2>0, <3>2, <3>3, <3>5
  <2> QED
    BY <2>1, <2>2
<1>11. Sums(c, Q, H)
  BY <1>4, <1>9, <1>10 DEF Sums
<1>12. Len(c) >= 1 /\ Len(c) - 1 <= Len(b) /\ Len(c) - 1 = n /\ c[Len(c)].age < Width
  BY SMT, <1>3, <1>4, Constants
<1>13. \A i \in 1 .. Len(c) : i <= Len(b) => c[i].age = b[i].age
  BY SMT, <1>3, <1>4
<1>14. Grows(b, R, G, failed, c, Q, H)
  BY <1>3, <1>4, <1>7, <1>8, <1>9, <1>11, <1>12, <1>13 DEF Grows
<1> QED
  BY <1>14 DEF Q, H

\* One request more in the last bucket.
LEMMA LastBucket ==
  ASSUME NEW b, NEW s, NEW R, NEW G, Fits(b, s, R, G), NEW failed \in BOOLEAN,
         Len(b) # 0, b[Len(b)].age < Width, Fresh(b), Len(s) < MaxLoad,
         NEW c, c = Filled(b, failed)
  PROVE  Grows(b, R, G, failed, c, Raised(Len(c), R, 1), Raised(Len(c), G, One(failed)))
<1>0. One(failed) \in {0, 1} /\ One(failed) \in Nat
  BY DEF One
<1>2. /\ b \in Seq(Bucket) /\ Len(b) \in Nat /\ R \in [0 .. Len(b) -> Nat] /\ G \in [0 .. Len(b) -> Nat]
      /\ R[Len(b)] = 0 /\ G[Len(b)] = 0 /\ Len(s) \in Nat
  BY SMT DEF Fits, Typed, Sums
<1>3. PICK n \in Nat : n = Len(b) /\ n >= 1 /\ n \in 1 .. n
  BY SMT, <1>2
<1> DEFINE x == b[n].requests
           y == b[n].failures
           d == [age |-> b[n].age, requests |-> x + 1, failures |-> y + One(failed)]
<1>a. x \in Nat /\ y \in Nat /\ b[n].age \in 0 .. Window /\ y <= x
  <2>1. x \in Nat /\ y \in Nat /\ b[n].age \in 0 .. Window
    BY <1>2, <1>3, BucketFields
  <2>2. y <= x
    BY <1>3 DEF Fits, Typed
  <2> QED
    BY <2>1, <2>2
<1>b. R[n - 1] = R[n] + x /\ G[n - 1] = G[n] + y /\ R[n] = 0 /\ G[n] = 0
  <2>1. R[n - 1] = R[n] + x /\ G[n - 1] = G[n] + y
    BY <1>3 DEF Fits, Sums
  <2> QED
    BY <1>2, <1>3, <2>1
<1>c. x < MaxLoad
  <2>1. n - 1 \in 0 .. n /\ (n - 1) + 1 = n
    BY SMT, <1>3
  <2>2. b[n].age < Window
    BY <1>3 DEF Fresh
  <2>3. R[n - 1] <= Len(s)
    BY <1>3, <2>1, <2>2 DEF Fits, Counts
  <2>4. R[n - 1] = x
    BY SMT, <1>a, <1>b
  <2> QED
    BY SMT, <1>2, <1>a, <2>3, <2>4, Constants
<1> HIDE DEF x, y
<1>1. d \in Bucket /\ d.failures <= d.requests
  <2>1. x + 1 \in 1 .. MaxLoad /\ y + One(failed) \in 0 .. MaxLoad /\ y + One(failed) <= x + 1
    BY SMT, <1>0, <1>a, <1>c, Constants
  <2> QED
    BY SMT, <1>a, <2>1 DEF Bucket
<1>4. c \in Seq(Bucket) /\ Len(c) = n /\ c[n] = d /\ \A i \in 1 .. n : i # n => c[i] = b[i]
  BY SMT, <1>1, <1>2, <1>3 DEF x, y, Filled
<1>5. \A i \in 1 .. n : c[i].age = b[i].age
  BY SMT, <1>4
<1>7. \A i \in 1 .. n : c[i].failures <= c[i].requests
  <2> TAKE i \in 1 .. n
  <2>1. CASE i = n
    BY <1>1, <1>4, <2>1
  <2>2. CASE i # n
    BY <1>3, <1>4, <2>2 DEF Fits, Typed
  <2> QED
    BY <2>1, <2>2
<1>8. Spaced(c)
  BY <1>3, <1>4, <1>5 DEF Fits, Spaced
<1>y. /\ d.requests = x + 1 /\ d.failures = y + One(failed)
  OBVIOUS
<1> HIDE DEF d
<1> DEFINE Q == Raised(Len(c), R, 1)
           H == Raised(Len(c), G, One(failed))
<1>9. /\ Q \in [0 .. n -> Nat] /\ H \in [0 .. n -> Nat] /\ Q[n] = 0 /\ H[n] = 0
      /\ \A i \in 0 .. n - 1 : Q[i] = R[i] + 1 /\ H[i] = G[i] + One(failed)
  <2>1. n - 1 <= n /\ 1 \in Nat
    BY SMT
  <2>2. R \in [0 .. n -> Nat] /\ G \in [0 .. n -> Nat]
    BY <1>2, <1>3
  <2>3. Rises(n, R, 1, Raised(n, R, 1))
    BY <2>1, <2>2, RaisedIs
  <2>z. PICK z \in Nat : z = One(failed)
    BY <1>0
  <2>4. Rises(n, G, z, Raised(n, G, z))
    BY <2>1, <2>2, RaisedIs
  <2> QED
    BY <1>4, <2>z, <2>3, <2>4 DEF Rises
<1> HIDE DEF Q, H
<1>10. ASSUME NEW i \in 1 .. n
       PROVE  Q[i - 1] = Q[i] + c[i].requests /\ H[i - 1] = H[i] + c[i].failures
  <2>0. i - 1 \in 0 .. n - 1 /\ Q[i - 1] = R[i - 1] + 1 /\ H[i - 1] = G[i - 1] + One(failed)
    <3>1. i - 1 \in 0 .. n - 1
      BY SMT
    <3> QED
      BY <1>9, <3>1
  <2>1. CASE i = n
    <3>1. c[i].requests = x + 1 /\ c[i].failures = y + One(failed) /\ Q[i] = 0 /\ H[i] = 0
      BY <1>4, <1>9, <1>y, <2>1
    <3>2. R[i - 1] = 0 + x /\ G[i - 1] = 0 + y
      BY <1>b, <2>1
    <3>3. (0 + x) + 1 = 0 + (x + 1) /\ (0 + y) + One(failed) = 0 + (y + One(failed))
      BY SMT, <1>0, <1>a
    <3> QED
      BY <2>0, <3>1, <3>2, <3>3
  <2>2. CASE i # n
    <3>1. i \in 0 .. n - 1 /\ i \in 0 .. n
      BY SMT, <2>2
    <3>2. R[i - 1] = R[i] + b[i].requests /\ G[i - 1] = G[i] + b[i].failures /\ c[i] = b[i]
      BY <1>3, <1>4, <2>2 DEF Fits, Sums
    <3>3. Q[i] = R[i] + 1 /\ H[i] = G[i] + One(failed) /\ R[i] \in Nat /\ G[i] \in Nat
      BY <1>2, <1>3, <1>9, <3>1
    <3>4. b[i].requests \in Nat /\ b[i].failures \in Nat
      BY <1>2, <1>3, BucketFields
    <3>5. /\ (R[i] + b[i].requests) + 1 = (R[i] + 1) + b[i].requests
          /\ (G[i] + b[i].failures) + One(failed) = (G[i] + One(failed)) + b[i].failures
      <4>1. One(failed) \in Nat /\ 1 \in Nat
        BY SMT, <1>0
      <4>2. R[i] \in Nat /\ G[i] \in Nat
        BY <3>3
      <4>3. (R[i] + b[i].requests) + 1 = (R[i] + 1) + b[i].requests
        BY SMT, <3>4, <4>2
      <4>4. (G[i] + b[i].failures) + One(failed) = (G[i] + One(failed)) + b[i].failures
        BY SMT, <3>4, <4>1, <4>2
      <4> QED
        BY <4>3, <4>4
    <3> QED
      BY <2>0, <3>2, <3>3, <3>5
  <2> QED
    BY <2>1, <2>2
<1>11. Sums(c, Q, H)
  BY <1>4, <1>9, <1>10 DEF Sums
<1>12. Len(c) >= 1 /\ Len(c) - 1 <= Len(b)
  BY SMT, <1>3, <1>4
<1>13. c[Len(c)].age < Width
  BY <1>3, <1>4, <1>5
<1>14. Grows(b, R, G, failed, c, Q, H)
  BY <1>3, <1>4, <1>5, <1>7, <1>8, <1>9, <1>11, <1>12, <1>13 DEF Grows
<1> QED
  BY <1>14 DEF Q, H

\* The buckets after record fit the longer log.
LEMMA GrownFits ==
  ASSUME NEW b, NEW s, NEW R, NEW G, Fits(b, s, R, G), NEW failed \in BOOLEAN, Fresh(b), Len(s) < MaxLoad,
         NEW c, c = Grown(b, failed)
  PROVE  /\ Fits(c, Longer(s, failed), Raised(Len(c), R, 1), Raised(Len(c), G, One(failed)))
         /\ Len(c) >= 1 /\ Fresh(c) /\ (Len(c) - 1) * Width < Window
<1>1. Grows(b, R, G, failed, c, Raised(Len(c), R, 1), Raised(Len(c), G, One(failed)))
  <2>1. CASE Len(b) = 0 \/ b[Len(b)].age >= Width
    BY <2>1, NewBucket DEF Grown
  <2>2. CASE ~(Len(b) = 0 \/ b[Len(b)].age >= Width)
    <3>1. b \in Seq(Bucket) /\ Len(b) \in 1 .. Len(b)
      BY SMT, <2>2 DEF Fits, Typed
    <3>2. b[Len(b)].age < Width
      BY SMT, <2>2, <3>1, BucketFields, Constants
    <3> QED
      BY <2>2, <3>2, LastBucket DEF Grown
  <2> QED
    BY <2>1, <2>2
<1>2. Fits(c, Longer(s, failed), Raised(Len(c), R, 1), Raised(Len(c), G, One(failed)))
  BY <1>1, GrowFits
<1>3. c \in Seq(Bucket) /\ Len(c) \in Nat /\ Len(c) >= 1 /\ c[Len(c)].age < Width /\ Spaced(c)
  BY SMT, <1>1 DEF Grows
<1>4. \A i \in 1 .. Len(c) : c[i].age \in 0 .. Window
  BY <1>3, BucketFields
<1>5. Fresh(c)
  <2> SUFFICES ASSUME NEW i \in 1 .. Len(c) PROVE c[i].age < Window
    BY DEF Fresh
  <2>1. CASE i <= Len(b)
    <3>1. i \in 1 .. Len(b)
      BY SMT, <2>1 DEF Fits, Typed
    <3> QED
      BY <1>1, <2>1, <3>1 DEF Grows, Fresh
  <2>2. CASE ~(i <= Len(b))
    <3>1. i = Len(c) /\ Len(b) # Len(c)
      <4>1. Len(b) \in Nat /\ Len(c) - 1 <= Len(b)
        BY SMT, <1>1 DEF Fits, Typed, Grows
      <4> QED
        BY SMT, <1>3, <2>2, <4>1
    <3>2. c = Append(b, [age |-> 0, requests |-> 1, failures |-> One(failed)]) /\ b \in Seq(Bucket)
      BY SMT, <3>1 DEF Grown, Opened, Filled, Fits, Typed
    <3>3. c[Len(c)].age = 0
      BY SMT, <3>2
    <3> QED
      BY SMT, <3>1, <3>3, Constants
  <2> QED
    BY <2>1, <2>2
<1>6. (Len(c) - 1) * Width < Window
  <2>1. 1 \in 1 .. Len(c) /\ Len(c) \in 1 .. Len(c) /\ Len(c) - 1 \in Nat
    BY SMT, <1>3
  <2>2. (Len(c) - 1) * Width \in Nat /\ c[1].age < Window /\ c[1].age \in Nat /\ c[Len(c)].age \in Nat
    <3>1. c[1].age < Window /\ c[1].age \in 0 .. Window /\ c[Len(c)].age \in 0 .. Window
      BY <1>4, <1>5, <2>1 DEF Fresh
    <3> QED
      BY SMT, <2>1, <3>1, Products, Constants
  <2>3. CASE Len(c) = 1
    BY SMT, <2>3, Constants
  <2>4. CASE Len(c) # 1
    <3>0. Len(c) \in Nat /\ Len(c) >= 1
      BY <1>3
    <3>1. 1 < Len(c)
      BY SMTT(30), <2>4, <3>0
    <3>2. c[1].age = Window \/ c[1].age >= c[Len(c)].age + (Len(c) - 1) * Width
      BY <1>3, <2>1, <3>1 DEF Spaced
    <3> QED
      BY SMT, <2>2, <3>2, Constants
  <2> QED
    BY <2>3, <2>4
<1> QED
  BY <1>2, <1>3, <1>5, <1>6

-----------------------------------------------------------------------------
(* Time passes.                                                            *)

\* The entries that leave the log are its first.
LEMMA OldIs ==
  ASSUME NEW s \in Seq(Entry), Sorted(s)
  PROVE  \E d \in 0 .. Len(s) :
            /\ Cardinality({i \in 1 .. Len(s) : s[i].age + 1 >= Window}) = d
            /\ \A i \in 1 .. Len(s) : s[i].age + 1 >= Window <=> i <= d
<1>0. Len(s) \in Nat /\ \A i \in 1 .. Len(s) : s[i].age \in Nat
  <2>1. \A i \in 1 .. Len(s) : s[i] \in Entry
    BY SMT
  <2> QED
    BY SMT, <2>1, Constants DEF Entry
<1>1. PICK m \in Nat : m = Len(s)
  BY <1>0
<1> DEFINE Old(i) == s[i].age + 1 >= Window
           young == {i \in 1 .. m : ~Old(i)}
<1>2. ASSUME NEW i \in 1 .. m, NEW j \in 1 .. m, i < j, Old(j)
      PROVE  Old(i)
  <2>1. s[i].age >= s[j].age
    BY <1>1, <1>2 DEF Sorted
  <2> QED
    BY SMT, <1>0, <1>1, <1>2, <2>1, Constants
<1>3. \E d \in 0 .. m : \A i \in 1 .. m : Old(i) <=> i <= d
  <2> HIDE DEF Old
  <2>1. CASE young = {}
    <3>1. \A i \in 1 .. m : Old(i) <=> i <= m
      BY SMT, <2>1
    <3> QED
      BY SMT, <3>1
  <2>2. CASE young # {}
    <3>1. young \in SUBSET Nat
      BY SMT
    <3>2. PICK k \in young : \A i \in young : k <= i
      <4> HIDE DEF young
      <4> QED
        BY <2>2, <3>1, Least
    <3>3. k - 1 \in 0 .. m /\ k \in 1 .. m /\ ~Old(k)
      BY SMT, <3>2
    <3>4. \A i \in 1 .. m : Old(i) <=> i <= k - 1
      <4> TAKE i \in 1 .. m
      <4>1. CASE Old(i)
        <5>1. i # k /\ ~(k < i)
          BY <1>2, <3>3, <4>1
        <5> QED
          BY SMT, <3>3, <4>1, <5>1
      <4>2. CASE ~Old(i)
        <5>1. i \in young
          BY <4>2
        <5>2. k <= i
          BY <3>2, <5>1
        <5> QED
          BY SMT, <3>3, <4>2, <5>2
      <4> QED
        BY <4>1, <4>2
    <3> QED
      BY <3>3, <3>4
  <2> QED
    BY <2>1, <2>2
<1>4. PICK d \in 0 .. m : \A i \in 1 .. m : Old(i) <=> i <= d
  BY <1>3
<1>5. {i \in 1 .. m : Old(i)} = 1 .. d
  <2> HIDE DEF Old
  <2> QED
    BY SMT, <1>4
<1>6. Cardinality(1 .. d) = d
  <2>1. d \in Nat /\ 1 \in Int /\ d \in Int
    BY SMT
  <2>2. Cardinality(1 .. d) = IF 1 > d THEN 0 ELSE d - 1 + 1
    BY <2>1, FS_Interval
  <2> QED
    BY SMT, <2>1, <2>2
<1> QED
  BY <1>1, <1>4, <1>5, <1>6

\* An entry of the log that stays in it for another unit of time.
LEMMA EntryLater ==
  ASSUME NEW e \in Entry, ~(e.age + 1 >= Window), NEW f, f = [e EXCEPT !.age = @ + 1]
  PROVE  f \in Entry /\ f.age = e.age + 1 /\ f.failed = e.failed
<1>1. e.age \in 0 .. Window - 1 /\ e.failed \in BOOLEAN /\ e = [age |-> e.age, failed |-> e.failed]
  BY DEF Entry
<1>2. e.age + 1 \in 0 .. Window - 1
  BY SMT, <1>1, Constants
<1>3. f = [age |-> e.age + 1, failed |-> e.failed]
  BY <1>1
<1> QED
  BY <1>1, <1>2, <1>3 DEF Entry

\* The log a unit later.
LEMMA LaterIs ==
  ASSUME NEW s \in Seq(Entry), Sorted(s)
  PROVE  \E d \in 0 .. Len(s) :
            /\ Later(s) \in Seq(Entry) /\ Len(Later(s)) = Len(s) - d /\ Sorted(Later(s))
            /\ \A i \in 1 .. Len(s) : s[i].age + 1 >= Window <=> i <= d
            /\ \A i \in 1 .. Len(s) - d : /\ Later(s)[i].age = s[i + d].age + 1
                                            /\ Later(s)[i].failed = s[i + d].failed
<1>1. PICK d \in 0 .. Len(s) :
            /\ Cardinality({i \in 1 .. Len(s) : s[i].age + 1 >= Window}) = d
            /\ \A i \in 1 .. Len(s) : s[i].age + 1 >= Window <=> i <= d
  BY OldIs
<1>2. PICK n \in Nat : n = Len(s) - d
  BY SMT
<1> DEFINE r == [i \in 1 .. n |-> [s[i + d] EXCEPT !.age = @ + 1]]
<1>3. Later(s) = r
  BY <1>1, <1>2 DEF Later
<1>4. \A i \in 1 .. n : i + d \in 1 .. Len(s) /\ i + d \in d + 1 .. Len(s)
  BY SMT, <1>2
<1>5. ASSUME NEW i \in 1 .. n
      PROVE  r[i] \in Entry /\ r[i].age = s[i + d].age + 1 /\ r[i].failed = s[i + d].failed
  <2>1. s[i + d] \in Entry
    BY SMT, <1>4
  <2>2. ~(i + d <= d) /\ i + d \in 1 .. Len(s)
    BY SMT, <1>4
  <2>3. ~(s[i + d].age + 1 >= Window)
    BY <1>1, <2>2
  <2>4. r[i] = [s[i + d] EXCEPT !.age = @ + 1]
    OBVIOUS
  <2> HIDE DEF r
  <2> QED
    BY <2>1, <2>3, <2>4, EntryLater
<1> HIDE DEF r
<1>6. r \in Seq(Entry) /\ Len(r) = n
  <2>1. r = [i \in 1 .. n |-> r[i]]
    BY DEF r
  <2> QED
    BY SMT, <1>5, <2>1
<1>7. Sorted(r)
  <2> SUFFICES ASSUME NEW p \in 1 .. n, NEW q \in 1 .. n, p < q
               PROVE  r[p].age >= r[q].age
    BY <1>6 DEF Sorted
  <2>1. p + d \in 1 .. Len(s) /\ q + d \in 1 .. Len(s) /\ p + d < q + d
    BY SMT, <1>4
  <2>2. s[p + d].age >= s[q + d].age
    BY <2>1 DEF Sorted
  <2>3. s[p + d] \in Entry /\ s[q + d] \in Entry
    BY SMT, <2>1
  <2>4. s[p + d].age \in Nat /\ s[q + d].age \in Nat
    BY SMT, <2>3, Constants DEF Entry
  <2>5. r[p].age = s[p + d].age + 1 /\ r[q].age = s[q + d].age + 1
    BY <1>5
  <2> QED
    BY SMTT(30), <2>2, <2>4, <2>5
<1> QED
  BY <1>1, <1>2, <1>3, <1>5, <1>6, <1>7

\* The buckets a unit later.
AgedBuckets(b) == [i \in DOMAIN b |-> [b[i] EXCEPT !.age = Older(@)]]

\* An age a unit of time later; it stops at the window.
LEMMA OlderIs ==
  ASSUME NEW x \in 0 .. Window
  PROVE  /\ Older(x) \in 0 .. Window /\ Older(x) >= x /\ Older(x) <= x + 1
         /\ x < Window => Older(x) = x + 1
         /\ x = Window => Older(x) = Window
BY SMT, Constants DEF Older

\* A bucket a unit of time later.
LEMMA BucketLater ==
  ASSUME NEW e \in Bucket, NEW f, f = [e EXCEPT !.age = Older(@)]
  PROVE  f \in Bucket /\ f.age = Older(e.age) /\ f.requests = e.requests /\ f.failures = e.failures
<1>1. /\ e = [age |-> e.age, requests |-> e.requests, failures |-> e.failures]
      /\ e.age \in 0 .. Window /\ e.requests \in 1 .. MaxLoad /\ e.failures \in 0 .. MaxLoad
  BY DEF Bucket
<1>2. Older(e.age) \in 0 .. Window
  BY <1>1, OlderIs
<1>3. f = [age |-> Older(e.age), requests |-> e.requests, failures |-> e.failures]
  BY <1>1
<1> QED
  BY <1>1, <1>2, <1>3 DEF Bucket

\* The buckets a unit of time later.
LEMMA BucketsLater ==
  ASSUME NEW b \in Seq(Bucket)
  PROVE  /\ AgedBuckets(b) \in Seq(Bucket) /\ Len(AgedBuckets(b)) = Len(b)
         /\ \A i \in 1 .. Len(b) : /\ AgedBuckets(b)[i].age = Older(b[i].age)
                                    /\ AgedBuckets(b)[i].requests = b[i].requests
                                    /\ AgedBuckets(b)[i].failures = b[i].failures
<1>1. Len(b) \in Nat /\ DOMAIN b = 1 .. Len(b)
  BY SMT
<1>2. ASSUME NEW i \in 1 .. Len(b)
      PROVE  /\ AgedBuckets(b)[i] \in Bucket /\ AgedBuckets(b)[i].age = Older(b[i].age)
             /\ AgedBuckets(b)[i].requests = b[i].requests /\ AgedBuckets(b)[i].failures = b[i].failures
  <2>1. b[i] \in Bucket
    BY SMT
  <2>2. AgedBuckets(b)[i] = [b[i] EXCEPT !.age = Older(@)]
    BY <1>1 DEF AgedBuckets
  <2> QED
    BY <2>1, <2>2, BucketLater
<1>3. AgedBuckets(b) = [i \in 1 .. Len(b) |-> AgedBuckets(b)[i]]
  BY <1>1 DEF AgedBuckets
<1>4. AgedBuckets(b) \in Seq(Bucket) /\ Len(AgedBuckets(b)) = Len(b)
  <2> DEFINE c == AgedBuckets(b)
  <2>1. c = [i \in 1 .. Len(b) |-> c[i]] /\ \A i \in 1 .. Len(b) : c[i] \in Bucket
    BY <1>2, <1>3
  <2> HIDE DEF c
  <2>2. c \in Seq(Bucket) /\ Len(c) = Len(b)
    BY SMT, <1>1, <2>1
  <2> QED
    BY <2>2 DEF c
<1> QED
  BY <1>2, <1>4

\* The failed requests at the end of the log are as many, a few places earlier.
LEMMA FailedMoved ==
  ASSUME NEW s \in Seq(Entry), NEW r \in Seq(Entry), NEW d \in 0 .. Len(s), Len(r) = Len(s) - d,
         \A i \in 1 .. Len(s) - d : r[i].failed = s[i + d].failed,
         NEW p \in 1 .. Len(r) + 1
  PROVE  Cardinality(FailedFrom(r, p)) = Cardinality(FailedFrom(s, p + d))
<1>1. Len(s) \in Nat /\ Len(r) \in Nat /\ p \in Int
  BY SMT
<1> DEFINE A == FailedFrom(r, p)
           B == FailedFrom(s, p + d)
           f == [q \in A |-> q + d]
<1>2. IsFiniteSet(A)
  BY <1>1, FailedFinite
<1>3. \A q \in A : q \in Int /\ q \in p .. Len(r) /\ q + d \in B
  BY SMT, <1>1 DEF FailedFrom
<1>4. \A q \in B : q - d \in A /\ (q - d) + d = q
  BY SMT, <1>1 DEF FailedFrom
<1> HIDE DEF A, B
<1>5. f \in Bijection(A, B)
  <2>1. f \in [A -> B]
    BY <1>3
  <2>2. \A x, y \in A : f[x] = f[y] => x = y
    BY SMT, <1>3
  <2>3. \A t \in B : \E q \in A : f[q] = t
    BY <1>4
  <2>4. DOMAIN f = A
    OBVIOUS
  <2> HIDE DEF f
  <2> QED
    BY <2>1, <2>2, <2>3, <2>4 DEF Bijection, Injection, Surjection, IsInjective
<1>6. ExistsBijection(A, B)
  BY <1>5 DEF ExistsBijection
<1> QED
  BY <1>2, <1>6, FS_Bijection DEF A, B

\* Buckets and log fit after a unit of time.
LEMMA AgedFits ==
  ASSUME NEW b, NEW s, NEW R, NEW G, Fits(b, s, R, G), NEW c, c = AgedBuckets(b), NEW r, r = Later(s)
  PROVE  Fits(c, r, R, G) /\ Len(c) = Len(b) /\ Len(r) <= Len(s)
<1>1. /\ b \in Seq(Bucket) /\ Len(b) \in Nat /\ s \in Seq(Entry) /\ Len(s) \in Nat /\ Sorted(s)
      /\ R \in [0 .. Len(b) -> Nat] /\ G \in [0 .. Len(b) -> Nat] /\ R[Len(b)] = 0
  BY SMT DEF Fits, Typed, Sums
<1>2. /\ c \in Seq(Bucket) /\ Len(c) = Len(b)
      /\ \A i \in 1 .. Len(b) : /\ c[i].age = Older(b[i].age)
                                 /\ c[i].requests = b[i].requests /\ c[i].failures = b[i].failures
  BY <1>1, BucketsLater
<1>3. PICK d \in 0 .. Len(s) :
            /\ r \in Seq(Entry) /\ Len(r) = Len(s) - d /\ Sorted(r)
            /\ \A i \in 1 .. Len(s) : s[i].age + 1 >= Window <=> i <= d
            /\ \A i \in 1 .. Len(s) - d : r[i].age = s[i + d].age + 1 /\ r[i].failed = s[i + d].failed
  BY <1>1, LaterIs
<1>4. PICK m \in Nat, n \in Nat : m = Len(s) /\ n = Len(b) /\ d \in 0 .. m
  BY <1>1
<1>5. Len(r) = m - d /\ \A p \in 1 .. m - d : p + d \in 1 .. m
  BY SMT, <1>3, <1>4
<1>b. \A i \in 1 .. n : b[i].age \in 0 .. Window /\ b[i].age \in Nat
  BY SMT, <1>1, <1>4, BucketFields
<1>s. \A p \in 1 .. m : s[p].age \in 0 .. Window - 1 /\ s[p].age \in Nat
  <2> TAKE p \in 1 .. m
  <2>1. s[p] \in Entry
    BY SMT, <1>1, <1>4
  <2> QED
    BY SMT, <2>1, Constants DEF Entry
<1>6. Typed(c, r)
  <2>1. \A i \in 1 .. Len(c) : c[i].failures <= c[i].requests
    BY <1>2 DEF Fits, Typed
  <2> QED
    BY <1>2, <1>3, <2>1 DEF Typed
<1>7. Spaced(c)
  <2> SUFFICES ASSUME NEW i \in 1 .. n, NEW j \in 1 .. n, i < j
               PROVE  c[i].age = Window \/ c[i].age >= c[j].age + (j - i) * Width
    BY <1>2, <1>4 DEF Spaced
  <2>1. b[i].age = Window \/ b[i].age >= b[j].age + (j - i) * Width
    BY <1>4 DEF Fits, Spaced
  <2>2. (j - i) * Width \in Nat
    <3>1. j - i \in Nat
      BY SMT
    <3> QED
      BY <3>1, Products, Constants
  <2>3. PICK x \in 0 .. Window, y \in 0 .. Window, w \in Nat : x = b[i].age /\ y = b[j].age /\ w = (j - i) * Width
    BY <1>b, <2>2
  <2>4. c[i].age = Older(x) /\ c[j].age = Older(y)
    BY <1>2, <1>4, <2>3
  <2>5. Older(x) = Window \/ Older(x) >= Older(y) + w
    <3>1. x = Window \/ x >= y + w
      BY <2>1, <2>3
    <3>2. /\ x < Window => Older(x) = x + 1
          /\ x = Window => Older(x) = Window
          /\ Older(y) <= y + 1 /\ Older(y) \in Nat
      BY SMT, OlderIs, Constants
    <3> QED
      BY SMT, <3>1, <3>2, Constants
  <2> QED
    BY <2>3, <2>4, <2>5
<1>8. Sums(c, R, G)
  BY <1>2 DEF Fits, Sums
<1>9. Ages(c, r, R)
  <2> SUFFICES ASSUME NEW p \in 1 .. m - d
               PROVE  /\ \A i \in 1 .. n : /\ p > Len(r) - R[i - 1] => r[p].age <= c[i].age
                                           /\ p <= Len(r) - R[i] => r[p].age + Width > c[i].age
                      /\ p <= Len(r) - R[0] => r[p].age + Width > Window
    BY <1>2, <1>4, <1>5 DEF Ages
  <2>0. p + d \in 1 .. m
    BY <1>5
  <2>p. PICK a \in Nat : a = s[p + d].age /\ a + 1 <= Window /\ r[p].age = a + 1 /\ a + 1 < Window
    <3>1. s[p + d].age \in Nat /\ s[p + d].age \in 0 .. Window - 1
      BY <1>s, <2>0
    <3>2. r[p].age = s[p + d].age + 1
      BY <1>3, <1>4
    <3>3. ~(p + d <= d)
      BY SMT, <1>4
    <3>4. ~(s[p + d].age + 1 >= Window)
      BY <1>3, <1>4, <2>0, <3>3
    <3> QED
      BY SMT, <3>1, <3>2, <3>4, Constants
  <2>m. \A x \in Nat : /\ p > (m - d) - x <=> p + d > m - x
                       /\ p <= (m - d) - x <=> p + d <= m - x
    BY SMT, <1>4
  <2>1. ASSUME NEW i \in 1 .. n
        PROVE  /\ p > Len(r) - R[i - 1] => r[p].age <= c[i].age
               /\ p <= Len(r) - R[i] => r[p].age + Width > c[i].age
    <3>0. i - 1 \in 0 .. n /\ i \in 0 .. n /\ R \in [0 .. n -> Nat]
      BY SMT, <1>1, <1>4
    <3>1. R[i - 1] \in Nat /\ R[i] \in Nat
      BY <3>0
    <3>2. PICK x \in 0 .. Window : x = b[i].age /\ c[i].age = Older(x)
      BY <1>2, <1>4, <1>b
    <3>3. /\ p + d > m - R[i - 1] => s[p + d].age <= b[i].age
          /\ p + d <= m - R[i] => s[p + d].age + Width > b[i].age
      BY <1>4, <2>0 DEF Fits, Ages
    <3>4. /\ p > Len(r) - R[i - 1] => a <= x
          /\ p <= Len(r) - R[i] => a + Width > x
      BY <1>5, <2>p, <2>m, <3>1, <3>2, <3>3
    <3>5. /\ x < Window => Older(x) = x + 1
          /\ x = Window => Older(x) = Window
          /\ Older(x) <= x + 1 /\ Older(x) \in Nat
      BY SMT, OlderIs, Constants
    <3>6. a <= x => a + 1 <= Older(x)
      BY SMTT(30), <2>p, <3>5, Constants
    <3>7. a + Width > x => (a + 1) + Width > Older(x)
      BY SMT, <3>5, Constants
    <3> QED
      BY <2>p, <3>2, <3>4, <3>6, <3>7
  <2>2. p <= Len(r) - R[0] => r[p].age + Width > Window
    <3>1. R[0] \in Nat
      BY SMTT(30), <1>1, <1>4
    <3>2. p + d <= m - R[0] => s[p + d].age + Width > Window
      BY <1>4, <2>0 DEF Fits, Ages
    <3>3. a + Width > Window => (a + 1) + Width > Window
      BY SMT, Constants
    <3> QED
      BY <1>5, <2>p, <2>m, <3>1, <3>2, <3>3
  <2> QED
    BY <2>1, <2>2
<1>10. Counts(c, r, R, G)
  <2> SUFFICES ASSUME NEW i \in 0 .. n, i < n => c[i + 1].age < Window
               PROVE  R[i] <= Len(r) /\ G[i] = Cardinality(FailedFrom(r, Len(r) - R[i] + 1))
    BY <1>2, <1>4 DEF Counts
  <2>0. PICK x \in Nat : x = R[i]
    BY <1>1, <1>4
  <2>1. i < n => i + 1 \in 1 .. n /\ b[i + 1].age < Window /\ b[i + 1].age + 1 < Window /\ (i + 1) - 1 = i
    <3> SUFFICES ASSUME i < n PROVE i + 1 \in 1 .. n /\ b[i + 1].age < Window /\ b[i + 1].age + 1 < Window /\ (i + 1) - 1 = i
      OBVIOUS
    <3>1. i + 1 \in 1 .. n /\ (i + 1) - 1 = i
      BY SMT
    <3>2. PICK y \in 0 .. Window : y = b[i + 1].age /\ Older(y) < Window
      BY <1>2, <1>4, <1>b, <3>1
    <3>3. y < Window /\ y + 1 < Window
      <4>1. /\ y < Window => Older(y) = y + 1
            /\ y = Window => Older(y) = Window
        BY OlderIs
      <4>2. Older(y) < Window
        BY <3>2
      <4> QED
        BY SMT, <4>1, <4>2, Constants
    <3> QED
      BY <3>1, <3>2, <3>3
  <2>2. x <= m /\ G[i] = Cardinality(FailedFrom(s, m - x + 1))
    BY <1>4, <2>0, <2>1 DEF Fits, Counts
  <2>3. x <= m - d
    <3> SUFFICES ASSUME ~(x <= m - d) PROVE FALSE
      OBVIOUS
    <3>0. x <= m
      BY <2>2
    <3>1. d \in 1 .. m /\ d > m - x
      BY SMT, <1>4, <3>0
    <3>2. i < n
      <4>1. i = n => x = 0
        BY <1>1, <1>4, <2>0
      <4> QED
        BY SMT, <1>4, <3>1, <4>1
    <3>3. s[d].age <= b[i + 1].age
      BY <1>4, <2>0, <2>1, <3>1, <3>2 DEF Fits, Ages
    <3>4. s[d].age + 1 >= Window
      <4>1. d <= d
        BY SMT
      <4> QED
        BY <1>3, <1>4, <3>1, <4>1
    <3>5. s[d].age \in Nat
      BY <1>s, <3>1
    <3>6. b[i + 1].age \in Nat /\ b[i + 1].age + 1 < Window
      BY <1>b, <2>1, <3>2
    <3> QED
      BY SMT, <3>3, <3>4, <3>5, <3>6, Constants
  <2>4. PICK p \in 1 .. Len(r) + 1 : p = Len(r) - x + 1 /\ p + d = m - x + 1 /\ x <= Len(r)
    <3>1. Len(r) = m - d
      BY <1>5
    <3>2. m - d - x + 1 \in 1 .. (m - d) + 1 /\ (m - d - x + 1) + d = m - x + 1
      BY SMT, <1>4, <2>3
    <3> QED
      BY <2>3, <3>1, <3>2
  <2>5. Cardinality(FailedFrom(r, p)) = Cardinality(FailedFrom(s, p + d))
    BY <1>1, <1>3, FailedMoved
  <2> QED
    BY <2>0, <2>2, <2>4, <2>5
<1>11. Len(r) <= Len(s)
  BY SMT, <1>4, <1>5
<1> QED
  BY <1>2, <1>6, <1>7, <1>8, <1>9, <1>10, <1>11 DEF Fits

-----------------------------------------------------------------------------
(* What the buckets say of the log.                                        *)

\* No buckets fit an empty log.
LEMMA EmptyFits ==
  ASSUME NEW Z, Z = [i \in 0 .. 0 |-> 0]
  PROVE  Fits(<<>>, <<>>, Z, Z) /\ Z[0] = 0
<1>1. Z \in [0 .. 0 -> Nat] /\ Z[0] = 0 /\ \A i \in 0 .. 0 : Z[i] = 0
  BY SMT
<1>2. Typed(<<>>, <<>>) /\ Spaced(<<>>)
  BY SMT DEF Typed, Spaced, Sorted
<1>3. Sums(<<>>, Z, Z) /\ Ages(<<>>, <<>>, Z)
  BY SMT, <1>1 DEF Sums, Ages
<1>4. Counts(<<>>, <<>>, Z, Z)
  <2>1. <<>> \in Seq(Entry) /\ Len(<<>>) = 0 /\ 0 - 0 + 1 = 1 /\ 1 \in Int /\ 1 > 0 /\ 0 <= 0
    BY SMT
  <2>2. Cardinality(FailedFrom(<<>>, 1)) = 0
    BY <2>1, FailedFinite
  <2> QED
    BY <1>1, <2>1, <2>2 DEF Counts
<1> QED
  BY <1>1, <1>2, <1>3, <1>4 DEF Fits

\* A tracker whose running totals are those of buckets that fit the log.
Agrees(t, s) == \E R, G : Fits(t.buckets, s, R, G) /\ t.requests = R[0] /\ t.failures = G[0]

\* Buckets that are not expired stand for an end of the log that Recent allows.
LEMMA FitsRecent ==
  ASSUME NEW t, NEW s, Agrees(t, s), Fresh(t.buckets)
  PROVE  \E e \in Recent(s) : t.requests = Len(e) /\ t.failures = Failed(e)
<1>0. PICK R, G : Fits(t.buckets, s, R, G) /\ t.requests = R[0] /\ t.failures = G[0]
  BY DEF Agrees
<1> SUFFICES ASSUME NEW b, Fits(b, s, R, G), Fresh(b)
             PROVE  \E e \in Recent(s) : R[0] = Len(e) /\ G[0] = Failed(e)
  BY <1>0
<1>1. b \in Seq(Bucket) /\ Len(b) \in Nat /\ s \in Seq(Entry) /\ R \in [0 .. Len(b) -> Nat]
  BY SMT DEF Fits, Typed, Sums
<1>2. PICK m \in Nat, x \in Nat : m = Len(s) /\ x = R[0]
  BY SMT, <1>1
<1>3. x <= m /\ G[0] = Cardinality(FailedFrom(s, m - x + 1))
  <2>1. 0 \in 0 .. Len(b) /\ (0 < Len(b) => 0 + 1 \in 1 .. Len(b))
    BY SMT, <1>1
  <2> QED
    BY <1>2, <2>1 DEF Fits, Counts, Fresh
<1>4. PICK d \in 0 .. m : d = m - x /\ d + 1 = m - x + 1 /\ d + 1 \in 1 .. m + 1 /\ m - d = x /\ 1 + d = d + 1
  BY SMT, <1>3
<1> DEFINE e == SubSeq(s, d + 1, Len(s))
<1>5. e \in Seq(Entry) /\ Len(e) = Len(s) - d /\ \A i \in 1 .. Len(s) - d : e[i] = s[i + d]
  BY SMT, <1>1, <1>2, Dropped
<1> HIDE DEF e
<1>6. Failed(e) = G[0]
  <2>1. 1 \in 1 .. Len(e) + 1
    BY SMT, <1>1, <1>2, <1>5
  <2>2. Cardinality(FailedFrom(e, 1)) = Cardinality(FailedFrom(s, 1 + d))
    BY <1>1, <1>2, <1>5, <2>1, FailedMoved
  <2>3. FailedFrom(e, 1) = {i \in DOMAIN e : e[i].failed}
    BY SMT, <1>5 DEF FailedFrom
  <2> QED
    BY <1>3, <1>4, <2>2, <2>3 DEF Failed
<1>7. \A i \in 1 .. (d + 1) - 1 : s[i].age > Window - Width
  <2> SUFFICES ASSUME NEW i \in 1 .. (d + 1) - 1 PROVE s[i].age > Window - Width
    OBVIOUS
  <2>1. i \in 1 .. m /\ i <= m - x
    BY SMT, <1>4
  <2>2. s[i].age + Width > Window
    BY <1>2, <2>1 DEF Fits, Ages
  <2>3. s[i] \in Entry
    BY SMT, <1>1, <1>2, <2>1
  <2>4. s[i].age \in Nat
    BY SMT, <2>3, Constants DEF Entry
  <2> QED
    BY SMT, <2>2, <2>4, Constants
<1>8. e \in Recent(s)
  <2>1. d + 1 \in 1 .. Len(s) + 1
    BY <1>2, <1>4
  <2> QED
    BY <1>7, <2>1 DEF Recent, e
<1> QED
  BY <1>2, <1>4, <1>5, <1>6, <1>8

\* The running totals are the sums.
LEMMA SumsAre ==
  ASSUME NEW b \in Seq(Bucket), NEW R, NEW G, Sums(b, R, G)
  PROVE  RequestsIn(b) = R[0] /\ FailuresIn(b) = G[0]
<1>1. /\ Len(b) \in Nat /\ Len(b) \in 0 .. Len(b) /\ R \in [0 .. Len(b) -> Nat] /\ G \in [0 .. Len(b) -> Nat]
      /\ \A i \in 1 .. Len(b) : R[i - 1] = R[i] + b[i].requests /\ G[i - 1] = G[i] + b[i].failures
      /\ R[Len(b)] = 0 /\ G[Len(b)] = 0
  BY SMT DEF Sums
<1>2. \A i \in 1 .. Len(b) : b[i].requests \in Nat /\ b[i].failures \in Nat
  BY BucketFields
<1>3. RequestsIn(b) = R[0] - R[Len(b)]
  <2> DEFINE c == [i \in 1 .. Len(b) |-> b[i].requests]
  <2>1. c \in [1 .. Len(b) -> Nat] /\ \A i \in 1 .. Len(b) : c[i] = b[i].requests
    BY <1>2
  <2> HIDE DEF c
  <2>2. \A i \in 1 .. Len(b) : R[i - 1] = R[i] + c[i]
    BY <1>1, <2>1
  <2>3. Total(c) = R[0] - R[Len(b)]
    BY <1>1, <2>1, <2>2, TotalFalls
  <2> QED
    BY <2>3 DEF RequestsIn, c
<1>4. FailuresIn(b) = G[0] - G[Len(b)]
  <2> DEFINE c == [i \in 1 .. Len(b) |-> b[i].failures]
  <2>1. c \in [1 .. Len(b) -> Nat] /\ \A i \in 1 .. Len(b) : c[i] = b[i].failures
    BY <1>2
  <2> HIDE DEF c
  <2>2. \A i \in 1 .. Len(b) : G[i - 1] = G[i] + c[i]
    BY <1>1, <2>1
  <2>3. Total(c) = G[0] - G[Len(b)]
    BY <1>1, <2>1, <2>2, TotalFalls
  <2> QED
    BY <2>3 DEF FailuresIn, c
<1>5. R[0] \in Nat /\ G[0] \in Nat
  BY SMT, <1>1
<1> QED
  BY SMT, <1>1, <1>3, <1>4, <1>5

-----------------------------------------------------------------------------
(* The inductive invariant.                                                *)

\* A tracker that fits a log.
Keeps(t, s) ==
    /\ t \in Tracker /\ Agrees(t, s)
    /\ Len(t.buckets) > 0 => (Len(t.buckets) - 1) * Width < Window

\* The counter of failures in a row is what the latest outcomes end with.
InARow(c, f) ==
    /\ f \in [1 .. Failures - 1 -> BOOLEAN]
    /\ \A k \in 1 .. Failures - 1 : k <= c => f[k]
    /\ c + 1 \in 1 .. Failures - 1 => ~f[c + 1]

WindowInv ==
    /\ Keeps(tracker, log) /\ tracker.consecutive < Failures
    /\ InARow(tracker.consecutive, latest)
    /\ tracker.since = quiet /\ Len(log) <= MaxLoad /\ outcome \in Outcomes

\* No failure in a row when the samples are cleared.
LEMMA NoRow ==
  InARow(0, NoFailure)
<1>1. NoFailure \in [1 .. Failures - 1 -> BOOLEAN] /\ \A k \in 1 .. Failures - 1 : ~NoFailure[k]
  BY DEF NoFailure
<1>2. \A k \in 1 .. Failures - 1 : ~(k <= 0)
  BY SMT, Constants
<1>3. 0 + 1 \in 1 .. Failures - 1 => ~NoFailure[0 + 1]
  BY <1>1
<1> QED
  BY <1>1, <1>2, <1>3 DEF InARow

\* One more outcome: record's counter is at the threshold exactly when the outcome
\* and all the latest ones are failures; otherwise it still counts the row.
LEMMA NextInRow ==
  ASSUME NEW c \in Nat, c < Failures, InARow(c, latest), NEW failed \in BOOLEAN,
         NEW d, d = IF failed THEN c + 1 ELSE 0
  PROVE  /\ d >= Failures <=> failed /\ \A k \in 1 .. Failures - 1 : latest[k]
         /\ d < Failures => InARow(d, Latest(failed))
<1> DEFINE K == 1 .. Failures - 1
<1>1. /\ latest \in [K -> BOOLEAN] /\ \A k \in K : k <= c => latest[k]
      /\ c + 1 \in K => ~latest[c + 1]
  BY DEF InARow
<1>2. d >= Failures <=> failed /\ \A k \in K : latest[k]
  <2>1. CASE ~failed
    BY SMT, <2>1, Constants
  <2>2. CASE failed /\ c + 1 < Failures
    <3>1. c + 1 \in K /\ d = c + 1 /\ ~(d >= Failures)
      BY SMT, <2>2, Constants
    <3> QED
      BY <1>1, <3>1
  <2>3. CASE failed /\ ~(c + 1 < Failures)
    <3>1. d >= Failures /\ \A k \in K : k <= c
      BY SMT, <2>3, Constants
    <3> QED
      BY <1>1, <2>3, <3>1
  <2> QED
    BY <2>1, <2>2, <2>3
<1>3. ASSUME d < Failures
      PROVE  InARow(d, Latest(failed))
  <2>1. \A k \in K : k # 1 => k - 1 \in K /\ k - 1 \in Nat
    BY SMT, Constants
  <2>2. /\ Latest(failed) \in [K -> BOOLEAN]
        /\ \A k \in K : Latest(failed)[k] = IF k = 1 THEN failed ELSE latest[k - 1]
    BY <1>1, <2>1 DEF Latest
  <2>3. CASE ~failed
    <3>1. d = 0 /\ d + 1 = 1 /\ \A k \in K : ~(k <= d)
      BY SMT, <2>3, Constants
    <3> QED
      BY <2>2, <2>3, <3>1 DEF InARow
  <2>4. CASE failed
    <3>1. \A k \in K : k # 1 /\ k <= d => k - 1 <= c
      BY SMT, <2>4, Constants
    <3>2. \A k \in K : k <= d => Latest(failed)[k]
      BY <1>1, <2>1, <2>2, <2>4, <3>1
    <3>3. d + 1 # 1 /\ (d + 1) - 1 = c + 1
      BY SMT, <2>4
    <3>4. d + 1 \in K => ~Latest(failed)[d + 1]
      BY <1>1, <2>1, <2>2, <3>3
    <3> QED
      BY <2>2, <3>2, <3>4 DEF InARow
  <2> QED
    BY <2>3, <2>4
<1> QED
  BY <1>2, <1>3

\* The samples are cleared.
LEMMA ClearedKeeps ==
  ASSUME NEW x \in 0 .. Window, NEW t,
         t = [buckets |-> <<>>, requests |-> 0, failures |-> 0, consecutive |-> 0, since |-> x]
  PROVE  Keeps(t, <<>>) /\ t.consecutive = 0 /\ t.consecutive < Failures /\ t.since = x /\ t.buckets = <<>>
<1>1. t \in Tracker /\ t.buckets = <<>> /\ t.requests = 0 /\ t.failures = 0 /\ t.consecutive = 0 /\ t.since = x
  BY SMT DEF Tracker
<1> DEFINE Z == [i \in 0 .. 0 |-> 0]
<1>2. Fits(<<>>, <<>>, Z, Z) /\ Z[0] = 0
  BY EmptyFits
<1> HIDE DEF Z
<1>3. Len(<<>>) = 0
  OBVIOUS
<1>4. ~(Len(t.buckets) > 0)
  BY SMT, <1>1, <1>3
<1>5. Keeps(t, <<>>)
  BY <1>1, <1>2, <1>4 DEF Keeps, Agrees
<1> QED
  BY SMT, <1>1, <1>5, Constants

\* Time passes.
LEMMA AgedKeeps ==
  ASSUME NEW t, NEW s, Keeps(t, s)
  PROVE  /\ Keeps(Aged(t), Later(s)) /\ Len(Later(s)) <= Len(s)
         /\ Aged(t).consecutive = t.consecutive /\ Aged(t).since = Older(t.since)
<1>1. /\ t \in Tracker /\ t.buckets \in Seq(Bucket) /\ t.requests \in Nat /\ t.failures \in Nat
      /\ t.consecutive \in Nat /\ t.since \in 0 .. Window
  BY DEF Keeps, Tracker
<1> DEFINE u == [buckets |-> AgedBuckets(t.buckets), requests |-> t.requests, failures |-> t.failures,
                 consecutive |-> t.consecutive, since |-> Older(t.since)]
<1>2. Aged(t) = u
  BY <1>1 DEF Aged, AgedBuckets, Tracker
<1>3. AgedBuckets(t.buckets) \in Seq(Bucket) /\ Older(t.since) \in 0 .. Window
  BY <1>1, BucketsLater, OlderIs
<1>4. u \in Tracker
  BY <1>1, <1>3 DEF Tracker
<1>5. PICK R, G : Fits(t.buckets, s, R, G) /\ t.requests = R[0] /\ t.failures = G[0]
  BY DEF Keeps, Agrees
<1>6. /\ Fits(AgedBuckets(t.buckets), Later(s), R, G) /\ Len(AgedBuckets(t.buckets)) = Len(t.buckets)
      /\ Len(Later(s)) <= Len(s)
  <2>1. PICK c, r : c = AgedBuckets(t.buckets) /\ r = Later(s)
    OBVIOUS
  <2>2. Fits(c, r, R, G) /\ Len(c) = Len(t.buckets) /\ Len(r) <= Len(s)
    BY SMT, <1>5, <2>1, AgedFits
  <2> QED
    BY <2>1, <2>2
<1>7. /\ u.buckets = AgedBuckets(t.buckets) /\ u.requests = t.requests /\ u.failures = t.failures
      /\ u.consecutive = t.consecutive /\ u.since = Older(t.since)
  OBVIOUS
<1> HIDE DEF u
<1>8. Keeps(u, Later(s))
  BY <1>4, <1>5, <1>6, <1>7 DEF Keeps, Agrees
<1> QED
  BY <1>2, <1>6, <1>7, <1>8

\* What prune leaves keeps the log, and has no expired bucket.
LEMMA PruneKeeps ==
  ASSUME NEW t, NEW s, Keeps(t, s)
  PROVE  /\ prune(t) \in Tracker /\ Fresh(prune(t).buckets)
         /\ prune(t).consecutive = t.consecutive /\ prune(t).since = t.since
         /\ Agrees(prune(t), s)
<1>1. t \in Tracker /\ t.buckets \in Seq(Bucket) /\ t.consecutive \in Nat /\ t.since \in 0 .. Window
  BY DEF Keeps, Tracker
<1>2. PICK R, G : Fits(t.buckets, s, R, G) /\ t.requests = R[0] /\ t.failures = G[0]
  BY DEF Keeps, Agrees
<1> DEFINE b == t.buckets
<1>3. Spaced(b) /\ Sums(b, R, G) /\ R \in [0 .. Len(b) -> Nat] /\ G \in [0 .. Len(b) -> Nat] /\ Len(b) \in Nat
  BY SMT, <1>1, <1>2 DEF Fits, Sums
<1>4. PICK k \in 0 .. Len(b) : /\ k = Expired(b)
                               /\ \A i \in 1 .. k : b[i].age = Window
                               /\ \A i \in k + 1 .. Len(b) : b[i].age < Window
  BY <1>1, <1>3, ExpiredIs
<1> DEFINE c == SubSeq(b, k + 1, Len(b))
           Q == From(R, Len(b), k)
           H == From(G, Len(b), k)
<1>5. prune(t) = [buckets |-> c, requests |-> R[k], failures |-> G[k],
                  consecutive |-> t.consecutive, since |-> t.since]
  BY <1>1, <1>2, <1>3, <1>4, PruneIs
<1>6. Q[0] = R[k] /\ H[0] = G[k] /\ R[k] \in Nat /\ G[k] \in Nat
  BY SMT, <1>3, <1>4 DEF From
<1>7. Fits(c, s, Q, H) /\ Fresh(c)
  <2>1. Gone(b, k) /\ Fits(b, s, R, G)
    BY <1>2, <1>4 DEF Gone
  <2> HIDE DEF b
  <2> QED
    BY <2>1, PruneFits
<1> HIDE DEF b, c, Q, H
<1>8. c \in Seq(Bucket)
  BY <1>7 DEF Fits, Typed
<1>9. /\ prune(t) \in Tracker /\ prune(t).buckets = c /\ prune(t).requests = R[k] /\ prune(t).failures = G[k]
      /\ prune(t).consecutive = t.consecutive /\ prune(t).since = t.since
  BY SMT, <1>1, <1>5, <1>6, <1>8 DEF Tracker
<1> QED
  BY <1>6, <1>7, <1>9 DEF Agrees

\* The tracker once a request is counted.
LEMMA CountedKeeps ==
  ASSUME NEW t, NEW s, Keeps(t, s), Len(s) < MaxLoad, NEW failed \in BOOLEAN, NEW c, c = Counted(t, failed)
  PROVE  /\ Keeps(c, Longer(s, failed)) /\ Fresh(c.buckets) /\ Len(c.buckets) >= 1
         /\ c.consecutive = IF failed THEN t.consecutive + 1 ELSE 0
         /\ c.since = t.since
<1> DEFINE p == prune(t)
<1>1. /\ p \in Tracker /\ Fresh(p.buckets) /\ p.consecutive = t.consecutive /\ p.since = t.since
      /\ Agrees(p, s)
  BY PruneKeeps
<1> HIDE DEF p
<1>2. PICK R, G : Fits(p.buckets, s, R, G) /\ p.requests = R[0] /\ p.failures = G[0]
  BY <1>1 DEF Agrees
<1>3. /\ p.buckets \in Seq(Bucket) /\ p.requests \in Nat /\ p.failures \in Nat /\ p.consecutive \in Nat
      /\ p.since \in 0 .. Window
      /\ p = [buckets |-> p.buckets, requests |-> p.requests, failures |-> p.failures,
              consecutive |-> p.consecutive, since |-> p.since]
  BY <1>1 DEF Tracker
<1> DEFINE g == Grown(p.buckets, failed)
           streak == IF failed THEN p.consecutive + 1 ELSE 0
           u == [buckets |-> g, requests |-> p.requests + 1, failures |-> p.failures + One(failed),
                 consecutive |-> streak, since |-> p.since]
<1>4. record_sample(p, failed) = [buckets |-> g, requests |-> p.requests, failures |-> p.failures,
                                  consecutive |-> p.consecutive, since |-> p.since]
  BY <1>3 DEF record_sample, Grown, Opened, Filled
<1>5. c = u
  BY SMT, <1>4 DEF Counted, p
<1> DEFINE Q == Raised(Len(g), R, 1)
           H == Raised(Len(g), G, One(failed))
<1>6. Fits(g, Longer(s, failed), Q, H) /\ Len(g) >= 1 /\ Fresh(g) /\ (Len(g) - 1) * Width < Window
  BY <1>1, <1>2, GrownFits
<1>7. Q[0] = R[0] + 1 /\ H[0] = G[0] + One(failed)
  <2>1. g \in Seq(Bucket)
    BY <1>6 DEF Fits, Typed
  <2> HIDE DEF g
  <2>2. 0 \in 0 .. Len(g) /\ 0 < Len(g)
    BY SMT, <1>6, <2>1
  <2> QED
    BY <2>2 DEF Raised
<1>8. One(failed) \in Nat /\ streak \in Nat
  BY SMT, <1>3 DEF One
<1>9. g \in Seq(Bucket)
  BY <1>6 DEF Fits, Typed
<1> HIDE DEF g, Q, H, streak
<1>10. /\ u \in Tracker /\ u.buckets = g /\ u.requests = p.requests + 1 /\ u.failures = p.failures + One(failed)
       /\ u.consecutive = streak /\ u.since = p.since
  BY SMT, <1>3, <1>8, <1>9 DEF Tracker
<1> HIDE DEF u
<1>11. Keeps(u, Longer(s, failed))
  BY <1>2, <1>6, <1>7, <1>10 DEF Keeps, Agrees
<1>12. streak = IF failed THEN t.consecutive + 1 ELSE 0
  BY <1>1 DEF streak
<1> QED
  BY <1>1, <1>5, <1>6, <1>10, <1>11, <1>12

\* The result r of record for a tracker that counts to c: it fits the log, or is
\* cleared and fits the empty one.
Recorded(t, s, failed, r, c) ==
    /\ r.triggered = (Reached(c) /\ c.since >= Window)
    /\ Keeps(r.tracker, IF r.tracker.buckets = <<>> THEN <<>> ELSE Longer(s, failed))
    /\ r.tracker.consecutive < Failures
    /\ r.tracker.consecutive = IF r.tracker.buckets = <<>> THEN 0 ELSE c.consecutive
    /\ r.tracker.since = IF r.triggered THEN 0 ELSE t.since

\* record either keeps what it counted or clears it.
LEMMA RecordKeeps ==
  ASSUME NEW t, NEW s, Keeps(t, s), Len(s) < MaxLoad, NEW failed \in BOOLEAN,
         NEW r, r = record(t, failed), NEW c, c = Counted(t, failed)
  PROVE  Recorded(t, s, failed, r, c)
<1>1. /\ Keeps(c, Longer(s, failed)) /\ Fresh(c.buckets) /\ Len(c.buckets) >= 1
      /\ c.consecutive = (IF failed THEN t.consecutive + 1 ELSE 0) /\ c.since = t.since
  BY CountedKeeps
<1>2. c \in Tracker /\ c.since \in 0 .. Window /\ c.consecutive \in Nat
  BY <1>1 DEF Keeps, Tracker
<1> DEFINE triggered == Reached(c) /\ c.since >= Window
<1>3. /\ r.triggered = triggered
      /\ r.tracker = IF triggered THEN [clear_samples(c) EXCEPT !.since = 0]
                     ELSE IF Reached(c) THEN clear_samples(c) ELSE c
  BY DEF record
<1>4. clear_samples(c) = [buckets |-> <<>>, requests |-> 0, failures |-> 0, consecutive |-> 0, since |-> c.since]
  BY SMT DEF clear_samples, NewTracker
<1> HIDE DEF triggered
<1>5. CASE triggered
  <2>1. r.tracker = [buckets |-> <<>>, requests |-> 0, failures |-> 0, consecutive |-> 0, since |-> 0]
    BY SMT, <1>3, <1>4, <1>5
  <2>2. 0 \in 0 .. Window
    BY SMT, Constants
  <2>3. /\ Keeps(r.tracker, <<>>) /\ r.tracker.consecutive < Failures /\ r.tracker.since = 0
        /\ r.tracker.consecutive = 0
        /\ r.tracker.buckets = <<>>
    BY <2>1, <2>2, ClearedKeeps
  <2> QED
    BY <1>3, <1>5, <2>3 DEF triggered, Recorded
<1>6. CASE ~triggered /\ Reached(c)
  <2>1. r.tracker = [buckets |-> <<>>, requests |-> 0, failures |-> 0, consecutive |-> 0, since |-> c.since]
    BY <1>3, <1>4, <1>6
  <2>3. /\ Keeps(r.tracker, <<>>) /\ r.tracker.consecutive < Failures /\ r.tracker.since = c.since
        /\ r.tracker.consecutive = 0
        /\ r.tracker.buckets = <<>>
    BY <1>2, <2>1, ClearedKeeps
  <2> QED
    BY <1>1, <1>3, <1>6, <2>3 DEF triggered, Recorded
<1>7. CASE ~triggered /\ ~Reached(c)
  <2>1. r.tracker = c
    BY <1>3, <1>7
  <2>2. c.buckets # <<>>
    BY SMT, <1>1
  <2>3. ~(c.consecutive >= Failures)
    BY <1>7 DEF Reached
  <2>4. c.consecutive < Failures
    BY SMT, <1>2, <2>3, Constants
  <2> QED
    BY <1>1, <1>3, <1>7, <2>1, <2>2, <2>4 DEF triggered, Recorded
<1> QED
  BY <1>5, <1>6, <1>7

\* The tracker of FailureTracker::default fits the empty log.
LEMMA InitInv ==
  Init => WindowInv
<1> SUFFICES ASSUME Init PROVE WindowInv
  OBVIOUS
<1>1. tracker = [buckets |-> <<>>, requests |-> 0, failures |-> 0, consecutive |-> 0, since |-> Window]
  BY DEF Init, NewTracker
<1>2. Window \in 0 .. Window
  BY SMT, Constants
<1>3. /\ Keeps(tracker, <<>>) /\ tracker.consecutive < Failures /\ tracker.since = Window
      /\ tracker.consecutive = 0
  BY <1>1, <1>2, ClearedKeeps
<1>4. Len(<<>>) <= MaxLoad /\ None \in Outcomes
  BY SMT, Constants DEF None, Outcomes
<1> QED
  BY <1>3, <1>4, NoRow DEF Init, WindowInv

\* Every step preserves the invariant: a tick, a report of either outcome, and both
\* ends of a check.
LEMMA StepInv ==
  WindowInv /\ [Next]_vars => WindowInv'
<1> SUFFICES ASSUME WindowInv, [Next]_vars PROVE WindowInv'
  OBVIOUS
<1>0. None \in Outcomes /\ Len(<<>>) <= MaxLoad /\ Len(<<>>) = 0
  BY SMT, Constants DEF None, Outcomes
<1>1. tracker \in Tracker /\ tracker.since \in 0 .. Window /\ quiet \in 0 .. Window /\ tracker.consecutive \in Nat
  BY DEF WindowInv, Keeps, Tracker
<1>2. log \in Seq(Entry) /\ Len(log) \in Nat
  <2>1. log \in Seq(Entry)
    BY DEF WindowInv, Keeps, Agrees, Fits, Typed
  <2> QED
    BY SMT, <2>1
<1>3. CASE Tick
  <2>1. /\ Keeps(tracker', log') /\ Len(log') <= Len(log) /\ tracker'.consecutive = tracker.consecutive
        /\ tracker'.since = quiet'
    BY <1>3, AgedKeeps DEF WindowInv, Tick
  <2>2. log' \in Seq(Entry)
    BY <2>1 DEF Keeps, Agrees, Fits, Typed
  <2>3. Len(log') <= MaxLoad
    BY SMT, <1>2, <2>1, <2>2, Constants DEF WindowInv
  <2> QED
    BY <1>0, <1>3, <2>1, <2>3 DEF WindowInv, Tick
<1>4. ASSUME NEW failed \in BOOLEAN, Report(failed)
      PROVE  WindowInv'
  <2>0. PICK r, c : r = record(tracker, failed) /\ c = Counted(tracker, failed)
    OBVIOUS
  <2>1. /\ Len(log) < MaxLoad /\ tracker' = r.tracker
        /\ log' = IF r.tracker.buckets = <<>> THEN <<>> ELSE Longer(log, failed)
        /\ latest' = IF r.tracker.buckets = <<>> THEN NoFailure ELSE Latest(failed)
        /\ quiet' = IF r.triggered THEN 0 ELSE quiet
        /\ outcome' = [of |-> IF failed THEN "failed" ELSE "ok", triggered |-> r.triggered]
    BY <1>4, <2>0 DEF Report, Longer
  <2>2. /\ r.triggered = (Reached(c) /\ c.since >= Window)
        /\ Keeps(r.tracker, IF r.tracker.buckets = <<>> THEN <<>> ELSE Longer(log, failed))
        /\ r.tracker.consecutive < Failures
        /\ r.tracker.consecutive = IF r.tracker.buckets = <<>> THEN 0 ELSE c.consecutive
        /\ r.tracker.since = IF r.triggered THEN 0 ELSE tracker.since
    <3>1. Keeps(tracker, log) /\ Len(log) < MaxLoad
      BY <2>1 DEF WindowInv
    <3>2. Recorded(tracker, log, failed, r, c)
      BY <2>0, <3>1, RecordKeeps
    <3> QED
      BY <3>2 DEF Recorded
  <2>6. c.consecutive = IF failed THEN tracker.consecutive + 1 ELSE 0
    BY <2>0, <2>1, CountedKeeps DEF WindowInv
  <2>7. InARow(tracker'.consecutive, latest')
    <3>1. CASE r.tracker.buckets = <<>>
      BY <2>1, <2>2, <3>1, NoRow
    <3>2. CASE r.tracker.buckets # <<>>
      <4>1. c.consecutive < Failures => InARow(c.consecutive, Latest(failed))
        BY <1>1, <2>6, NextInRow DEF WindowInv
      <4> QED
        BY <2>1, <2>2, <3>2, <4>1
    <3> QED
      BY <3>1, <3>2
  <2>3. Len(Longer(log, failed)) = Len(log) + 1
    BY SMT, <1>2 DEF Longer
  <2>4. Len(log') <= MaxLoad
    <3>1. Len(Longer(log, failed)) <= MaxLoad
      BY SMT, <1>2, <2>1, <2>3, Constants
    <3> QED
      BY <1>0, <2>1, <3>1
  <2>5. outcome' \in Outcomes
    <3>1. r.triggered \in BOOLEAN
      BY <2>2
    <3> QED
      BY <2>1, <3>1 DEF Outcomes
  <2> QED
    BY <2>1, <2>2, <2>4, <2>5, <2>7 DEF WindowInv
<1>5. CASE CheckKept
  <2>1. tracker' = [buckets |-> <<>>, requests |-> 0, failures |-> 0, consecutive |-> 0, since |-> tracker.since]
    BY <1>5 DEF CheckKept, clear_samples, NewTracker
  <2>2. /\ Keeps(tracker', <<>>) /\ tracker'.consecutive < Failures /\ tracker'.since = tracker.since
        /\ tracker'.consecutive = 0
    BY <1>1, <2>1, ClearedKeeps
  <2> QED
    BY <1>0, <1>5, <2>2, NoRow DEF WindowInv, CheckKept
<1>6. CASE CheckSwitched
  <2>1. tracker' = [buckets |-> <<>>, requests |-> 0, failures |-> 0, consecutive |-> 0, since |-> Window]
    BY <1>6 DEF CheckSwitched, NewTracker
  <2>2. Window \in 0 .. Window
    BY SMT, Constants
  <2>3. /\ Keeps(tracker', <<>>) /\ tracker'.consecutive < Failures /\ tracker'.since = Window
        /\ tracker'.consecutive = 0
    BY <2>1, <2>2, ClearedKeeps
  <2> QED
    BY <1>0, <1>6, <2>3, NoRow DEF WindowInv, CheckSwitched
<1>7. CASE UNCHANGED vars
  BY <1>7 DEF WindowInv, vars
<1> QED
  BY <1>3, <1>4, <1>5, <1>6, <1>7 DEF Next

-----------------------------------------------------------------------------
(* The theorems.                                                           *)

\* The tracker always fits the log: record, prune and the clearing of samples keep
\* buckets, running totals and requests together.
THEOREM Invariance ==
  Spec => []WindowInv
  BY InitInv, StepInv, PTL DEF Spec

\* The types hold and the running totals are the sums over the buckets, so that
\* the subtractions of prune never underflow.
THEOREM TypeCorrect ==
  Spec => []TypeOK
<1>1. WindowInv => TypeOK
  <2> SUFFICES ASSUME WindowInv PROVE TypeOK
    OBVIOUS
  <2>1. /\ tracker.buckets \in Seq(Bucket) /\ tracker.consecutive \in Nat /\ tracker.since \in 0 .. Window
        /\ tracker.consecutive < Failures /\ quiet \in 0 .. Window /\ outcome \in Outcomes
    BY DEF WindowInv, Keeps, Tracker
  <2>2. PICK R, G : Fits(tracker.buckets, log, R, G) /\ tracker.requests = R[0] /\ tracker.failures = G[0]
    BY DEF WindowInv, Keeps, Agrees
  <2>3. RequestsIn(tracker.buckets) = R[0] /\ FailuresIn(tracker.buckets) = G[0]
    BY <2>1, <2>2, SumsAre DEF Fits
  <2>4. log \in Seq(Entry)
    BY <2>2 DEF Fits, Typed
  <2>5. tracker.consecutive \in 0 .. Failures - 1
    BY SMT, <2>1, Constants
  <2>6. latest \in [1 .. Failures - 1 -> BOOLEAN]
    BY DEF WindowInv, InARow
  <2> QED
    BY <2>1, <2>2, <2>3, <2>4, <2>5, <2>6 DEF TypeOK, Bucket, Entry
<1> QED
  BY <1>1, Invariance, PTL

\* What record counts is the end of the log: prune drops whole buckets, and neither
\* counts a request older than the window nor loses one younger by a bucket.
THEOREM RollingWindow ==
  Spec => []Rolling
<1>1. WindowInv => Rolling
  <2> SUFFICES ASSUME WindowInv PROVE Rolling
    OBVIOUS
  <2>1. Fresh(prune(tracker).buckets) /\ Agrees(prune(tracker), log)
    BY PruneKeeps DEF WindowInv
  <2>2. \E e \in Recent(log) : prune(tracker).requests = Len(e) /\ prune(tracker).failures = Failed(e)
    BY <2>1, FitsRecent
  <2> QED
    BY <2>2 DEF Rolling
<1> QED
  BY <1>1, Invariance, PTL

\* record_sample never has more buckets than a window has room for, whatever the
\* load.
THEOREM BoundedMemory ==
  Spec => []Bounded
<1>1. WindowInv => Bounded
  BY DEF WindowInv, Keeps, Bounded
<1> QED
  BY <1>1, Invariance, PTL

\* record triggers a check exactly when a threshold is reached (failures in a row,
\* counted over the outcomes themselves and not by consecutive_failures, or the rate
\* in the window) and the last trigger is a window ago.
THEOREM TriggersRightly ==
  Spec => Justified
<1> DEFINE Right ==
      outcome'.of # "none" =>
        LET failed == outcome'.of = "failed"
            streak == failed /\ \A k \in 1 .. Failures - 1 : latest[k]
        IN  \E s \in Recent(Append(log, [age |-> 0, failed |-> failed])) :
                (outcome'.triggered <=>
                    /\ quiet = Window
                    /\ \/ streak
                       \/ Failed(s) >= Failures /\ Failed(s) * 100 >= Rate * Len(s))
<1>1. ASSUME WindowInv, NEW failed \in BOOLEAN, Report(failed)
      PROVE  Right
  <2>1. PICK r, c : r = record(tracker, failed) /\ c = Counted(tracker, failed)
    OBVIOUS
  <2>2. /\ Len(log) < MaxLoad
        /\ outcome' = [of |-> IF failed THEN "failed" ELSE "ok", triggered |-> r.triggered]
    BY <1>1, <2>1 DEF Report
  <2>3. r.triggered = (Reached(c) /\ c.since >= Window)
    <3>1. Recorded(tracker, log, failed, r, c)
      BY <1>1, <2>1, <2>2, RecordKeeps DEF WindowInv
    <3> QED
      BY <3>1 DEF Recorded
  <2>4. /\ Keeps(c, Longer(log, failed)) /\ Fresh(c.buckets) /\ c.since = tracker.since
        /\ c.consecutive = IF failed THEN tracker.consecutive + 1 ELSE 0
    BY <1>1, <2>1, <2>2, CountedKeeps DEF WindowInv
  <2>5. Agrees(c, Longer(log, failed))
    BY <2>4 DEF Keeps
  <2>6. PICK e \in Recent(Longer(log, failed)) : c.requests = Len(e) /\ c.failures = Failed(e)
    BY <2>4, <2>5, FitsRecent
  <2>7. c.since >= Window <=> quiet = Window
    <3>1. tracker.since \in 0 .. Window /\ tracker.since = quiet
      BY <1>1 DEF WindowInv, Keeps, Tracker
    <3>2. c.since = quiet /\ quiet \in 0 .. Window
      BY <2>4, <3>1
    <3> QED
      BY SMT, <3>2, Constants
  <2>8. Reached(c) <=> \/ c.consecutive >= Failures
                       \/ Failed(e) >= Failures /\ Failed(e) * 100 >= Rate * Len(e)
    BY <2>6 DEF Reached
  <2>9. outcome'.triggered = r.triggered /\ (outcome'.of = "failed") = failed
    BY <2>2
  <2> DEFINE streak == failed /\ \A k \in 1 .. Failures - 1 : latest[k]
  <2>11. c.consecutive >= Failures <=> streak
    <3>1. tracker.consecutive \in Nat
      BY <1>1 DEF WindowInv, Keeps, Tracker
    <3> QED
      BY <1>1, <2>4, <3>1, NextInRow DEF WindowInv
  <2>10. \E s \in Recent(Append(log, [age |-> 0, failed |-> failed])) :
            (outcome'.triggered <=>
                /\ quiet = Window
                /\ \/ streak
                   \/ Failed(s) >= Failures /\ Failed(s) * 100 >= Rate * Len(s))
    BY <2>3, <2>6, <2>7, <2>8, <2>9, <2>11 DEF Longer
  <2> QED
    BY <2>9, <2>10
<1>2. WindowInv /\ [Next]_vars => [Right]_vars
  <2> SUFFICES ASSUME WindowInv, Next PROVE Right
    OBVIOUS
  <2>1. CASE Tick \/ CheckKept \/ CheckSwitched
    <3>1. outcome'.of = "none"
      BY SMT, <2>1 DEF Tick, CheckKept, CheckSwitched, None
    <3> QED
      BY <3>1
  <2> HIDE DEF Right
  <2> QED
    BY <1>1, <2>1 DEF Next
<1> QED
  BY <1>2, Invariance, PTL DEF Spec, Justified
===============================================================================
