----------------------------- MODULE SetLemmas ------------------------------
(***************************************************************************)
(* Facts about sets and sequences of numbers that the proofs of several    *)
(* components rest on.                                                     *)
(***************************************************************************)
EXTENDS Integers, Sequences, FiniteSetsExt, Sums, WellFoundedInduction, TLAPS

Less == {ss \in Nat \X Nat : ss[1] < ss[2]}
(* A set of natural numbers has a least one, and Min picks it. *)
LEMMA MinNat ==
  ASSUME NEW S \in SUBSET Nat, S # {}
  PROVE  Min(S) \in S /\ \A y \in S : Min(S) <= y
<1>1. IsWellFoundedOn(Less, Nat)
  BY NatLessThanWellFounded DEF OpToRel, Less
<1>2. PICK x \in S : \A y \in S : ~(<<y, x>> \in Less)
  BY <1>1, WFMin
<1>3. ASSUME NEW y \in S PROVE x <= y
  <2>1. <<y, x>> \in Nat \X Nat /\ <<y, x>>[1] = y /\ <<y, x>>[2] = x
    OBVIOUS
  <2>2. ~(y < x)
    BY <1>2, <2>1 DEF Less
  <2>3. x \in Nat /\ y \in Nat
    OBVIOUS
  <2> QED BY <2>2, <2>3
<1>4. \E z \in S : \A y \in S : z <= y
  BY <1>3
<1> QED BY <1>4 DEF Min

(* Of two or of three integers Min and Max pick one, and the least or the  *)
(* largest.                                                                *)
LEMMA MinTwo ==
  ASSUME NEW a \in Int, NEW b \in Int
  PROVE  Min({a, b}) \in {a, b} /\ Min({a, b}) <= a /\ Min({a, b}) <= b
<1>1. \E z \in {a, b} : \A y \in {a, b} : z <= y
  <2>1. CASE a <= b
    BY <2>1
  <2>2. CASE b <= a
    BY <2>2
  <2> QED BY <2>1, <2>2
<1> QED BY <1>1 DEF Min

(* The same of three. *)
LEMMA MinThree ==
  ASSUME NEW a \in Int, NEW b \in Int, NEW c \in Int
  PROVE  /\ Min({a, b, c}) \in {a, b, c}
         /\ Min({a, b, c}) <= a /\ Min({a, b, c}) <= b /\ Min({a, b, c}) <= c
<1>1. \E z \in {a, b, c} : \A y \in {a, b, c} : z <= y
  <2>1. CASE a <= b /\ a <= c
    BY <2>1
  <2>2. CASE b <= a /\ b <= c
    BY <2>2
  <2>3. CASE c <= a /\ c <= b
    BY <2>3
  <2> QED BY <2>1, <2>2, <2>3
<1> QED BY <1>1 DEF Min

(* The larger of two integers. *)
LEMMA MaxTwo ==
  ASSUME NEW a \in Int, NEW b \in Int
  PROVE  Max({a, b}) \in {a, b} /\ Max({a, b}) >= a /\ Max({a, b}) >= b
<1>1. \E z \in {a, b} : \A y \in {a, b} : z >= y
  <2>1. CASE a <= b
    BY <2>1
  <2>2. CASE b <= a
    BY <2>2
  <2> QED BY <2>1, <2>2
<1> QED BY <1>1 DEF Max

(* A set of numbers up to one has a largest. *)
LEMMA MaxUpTo ==
  ASSUME NEW N \in Nat, NEW S \in SUBSET (0..N), S # {}
  PROVE  Max(S) \in S /\ \A y \in S : Max(S) >= y
<1> DEFINE D == {N - x : x \in S}
<1>1. D \in SUBSET Nat /\ D # {}
  <2>1. \A x \in S : N - x \in Nat
    OBVIOUS
  <2> QED BY <2>1
<1>2. Min(D) \in D /\ \A y \in D : Min(D) <= y
  BY <1>1, MinNat
<1>3. PICK x \in S : \A y \in S : N - x <= N - y
  BY <1>2
<1>4. \A y \in S : x >= y
  BY <1>3
<1>5. \E z \in S : \A y \in S : z >= y
  BY <1>4
<1> QED BY <1>5 DEF Max

(* Induction up to a number, over the set of those for which a fact holds. *)
LEMMA UpTo ==
  ASSUME NEW N \in Nat, NEW T, 0 \in T,
         \A k \in 1..N : k - 1 \in T => k \in T
  PROVE  \A k \in 0..N : k \in T
<1> DEFINE U == {k \in 0..N : k \notin T}
<1> SUFFICES ASSUME U # {} PROVE FALSE
  OBVIOUS
<1>1. U \in SUBSET Nat
  OBVIOUS
<1>2. Min(U) \in U /\ \A y \in U : Min(U) <= y
  BY <1>1, MinNat
<1>3. PICK k \in U : \A y \in U : k <= y
  BY <1>2
<1>4. k \in 1..N /\ k - 1 \in 0..N
  OBVIOUS
<1>5. k - 1 \notin U
  BY <1>3, <1>4
<1> QED BY <1>3, <1>4, <1>5

-----------------------------------------------------------------------------
(* The sums of a sequence's first i members, for each i up to n. *)
Adds(s, n, f) ==
    f \in [0..n -> Int] /\ f[0] = 0 /\ \A i \in 1..n : f[i] = f[i - 1] + s[i]

(* There are such sums, however far they go. *)
LEMMA AddsExist ==
  ASSUME NEW s, NEW N \in Nat, \A i \in 1..N : s[i] \in Int
  PROVE  \E f : Adds(s, N, f)
<1> DEFINE T == {n \in 0..N : \E f : Adds(s, n, f)}
<1>1. 0 \in T
  <2> DEFINE f == [k \in 0..0 |-> 0]
  <2>1. Adds(s, 0, f)
    BY DEF Adds
  <2> HIDE DEF f
  <2> QED BY <2>1
<1>2. ASSUME NEW n \in 1..N, n - 1 \in T PROVE n \in T
  <2>1. PICK f : Adds(s, n - 1, f)
    BY <1>2
  <2> DEFINE g == [k \in 0..n |-> IF k = n THEN f[n - 1] + s[n] ELSE f[k]]
  <2>2. f \in [0..(n - 1) -> Int] /\ f[0] = 0 /\ \A i \in 1..(n - 1) : f[i] = f[i - 1] + s[i]
    BY <2>1 DEF Adds
  <2>3. f[n - 1] \in Int /\ s[n] \in Int
    BY <2>2
  <2>4. g \in [0..n -> Int]
    BY <2>2, <2>3
  <2>5. \A k \in 0..(n - 1) : g[k] = f[k]
    OBVIOUS
  <2>6. g[n] = f[n - 1] + s[n]
    OBVIOUS
  <2> HIDE DEF g
  <2>7. ASSUME NEW i \in 1..n PROVE g[i] = g[i - 1] + s[i]
    <3>1. CASE i = n
      BY <2>5, <2>6, <3>1
    <3>2. CASE i # n
      <4>1. i \in 1..(n - 1) /\ i \in 0..(n - 1) /\ i - 1 \in 0..(n - 1)
        BY <3>2
      <4> QED BY <2>2, <2>5, <4>1
    <3> QED BY <3>1, <3>2
  <2>8. g[0] = 0
    BY <2>2, <2>5
  <2>9. Adds(s, n, g)
    BY <2>4, <2>7, <2>8 DEF Adds
  <2> QED BY <2>9
<1> HIDE DEF T
<1>3. \A n \in 0..N : n \in T
  BY <1>1, <1>2, UpTo
<1> QED BY <1>3 DEF T

(* SumSeq is the last of them. *)
LEMMA SumIs ==
  ASSUME NEW s \in Seq(Int)
  PROVE  \E f : Adds(s, Len(s), f) /\ SumSeq(s) = f[Len(s)]
<1> DEFINE N == Len(s)
           Rec(f) == f = [i \in 0..N |-> IF i = 0 THEN 0 ELSE f[i - 1] + s[i]]
           sum == CHOOSE f : Rec(f)
<1>1. N \in Nat /\ \A i \in 1..N : s[i] \in Int
  OBVIOUS
<1>2. SumSeq(s) = sum[N]
  BY DEF SumSeq
<1> HIDE DEF N
<1>3. PICK f : Adds(s, N, f)
  BY <1>1, AddsExist
<1>4. Rec(f)
  <2>1. f = [i \in 0..N |-> f[i]]
    BY <1>3 DEF Adds
  <2>2. \A i \in 0..N : f[i] = IF i = 0 THEN 0 ELSE f[i - 1] + s[i]
    BY <1>1, <1>3 DEF Adds
  <2> QED BY <2>1, <2>2
<1>5. Rec(sum)
  BY <1>4
<1> HIDE DEF sum
<1>6. sum[0] = 0 /\ \A i \in 1..N : sum[i] = sum[i - 1] + s[i]
  BY <1>1, <1>5
<1>7. \A k \in 0..N : k \in {i \in 0..N : sum[i] \in Int}
  <2> DEFINE T == {i \in 0..N : sum[i] \in Int}
  <2>1. 0 \in T
    BY <1>1, <1>6
  <2>2. ASSUME NEW k \in 1..N, k - 1 \in T PROVE k \in T
    BY <1>1, <1>6, <2>2, SMTT(30)
  <2> HIDE DEF T
  <2>3. \A k \in 0..N : k \in T
    BY <1>1, <2>1, <2>2, UpTo
  <2> QED BY <2>3 DEF T
<1>8. sum \in [0..N -> Int]
  BY <1>5, <1>7
<1>9. Adds(s, N, sum)
  BY <1>6, <1>8 DEF Adds
<1> QED BY <1>2, <1>9 DEF N

(* The sum is a number, and of natural numbers a natural number. *)
LEMMA SumType ==
  ASSUME NEW s \in Seq(Int)
  PROVE  SumSeq(s) \in Int /\ ((\A i \in 1..Len(s) : s[i] \in Nat) => SumSeq(s) \in Nat)
<1>1. PICK f : Adds(s, Len(s), f) /\ SumSeq(s) = f[Len(s)]
  BY SumIs
<1> DEFINE N == Len(s)
           T == {i \in 0..N : f[i] \in Nat}
<1>2. N \in Nat /\ f[N] \in Int
  BY <1>1 DEF Adds
<1>3. ASSUME \A i \in 1..N : s[i] \in Nat PROVE f[N] \in Nat
  <2>1. 0 \in T
    BY <1>1, <1>2 DEF Adds
  <2>2. ASSUME NEW k \in 1..N, k - 1 \in T PROVE k \in T
    <3>1. f[k] = f[k - 1] + s[k] /\ s[k] \in Nat /\ f[k - 1] \in Nat
      BY <1>1, <1>3, <2>2 DEF Adds
    <3> QED BY <3>1
  <2> HIDE DEF T, N
  <2>3. \A k \in 0..N : k \in T
    BY <1>2, <2>1, <2>2, UpTo
  <2> QED BY <1>2, <2>3 DEF T
<1> QED BY <1>1, <1>2, <1>3

(* Nothing sums to nothing. *)
LEMMA SumEmpty == SumSeq(<< >>) = 0
<1> DEFINE s == << >>
<1>1. s \in Seq(Int) /\ Len(s) = 0
  OBVIOUS
<1>2. PICK f : Adds(s, Len(s), f) /\ SumSeq(s) = f[Len(s)]
  BY <1>1, SumIs
<1> QED BY <1>1, <1>2 DEF Adds

(* One more at the end adds itself. *)
LEMMA SumAppend ==
  ASSUME NEW s \in Seq(Int), NEW v \in Int
  PROVE  SumSeq(Append(s, v)) = SumSeq(s) + v
<1> DEFINE t == Append(s, v)
           N == Len(s)
<1>1. t \in Seq(Int) /\ Len(t) = N + 1 /\ N \in Nat /\ t[N + 1] = v
      /\ \A i \in 1..N : t[i] = s[i]
  OBVIOUS
<1> HIDE DEF t
<1>2. PICK f : Adds(s, N, f) /\ SumSeq(s) = f[N]
  BY SumIs
<1>3. PICK g : Adds(t, Len(t), g) /\ SumSeq(t) = g[Len(t)]
  BY <1>1, SumIs
<1> HIDE DEF N
<1> DEFINE T == {i \in 0..N : g[i] = f[i]}
<1>4. 0 \in T
  BY <1>1, <1>2, <1>3 DEF Adds
<1>5. ASSUME NEW k \in 1..N, k - 1 \in T PROVE k \in T
  <2>1. f[k] = f[k - 1] + s[k]
    BY <1>2 DEF Adds
  <2>2. k \in 1..(N + 1)
    BY <1>1
  <2>3. g[k] = g[k - 1] + t[k]
    BY <1>1, <1>3, <2>2 DEF Adds
  <2> QED BY <1>1, <1>5, <2>1, <2>3
<1> HIDE DEF T
<1>6. \A k \in 0..N : k \in T
  BY <1>1, <1>4, <1>5, UpTo
<1>7. g[N] = f[N]
  BY <1>1, <1>6 DEF T
<1>8. N + 1 \in 1..(N + 1)
  BY <1>1
<1>9. g[N + 1] = g[(N + 1) - 1] + t[N + 1]
  BY <1>1, <1>3, <1>8 DEF Adds
<1>10. (N + 1) - 1 = N
  BY <1>1
<1> QED BY <1>1, <1>2, <1>3, <1>7, <1>9, <1>10 DEF t

(* One replaced changes the sum by the difference. *)
LEMMA SumReplace ==
  ASSUME NEW s \in Seq(Int), NEW i \in 1..Len(s), NEW v \in Int
  PROVE  SumSeq([s EXCEPT ![i] = v]) = SumSeq(s) - s[i] + v
<1> DEFINE t == [s EXCEPT ![i] = v]
           N == Len(s)
           d == v - s[i]
<1>1. /\ t \in Seq(Int) /\ Len(t) = N /\ N \in Nat /\ t[i] = v /\ s[i] \in Int
      /\ \A k \in 1..N : k # i => t[k] = s[k]
      /\ \A k \in 1..N : s[k] \in Int
  OBVIOUS
<1>a. d \in Int /\ v = s[i] + d
  BY <1>1
<1>b. i \in 1..N
  OBVIOUS
<1> HIDE DEF t
<1>2. PICK f : Adds(s, N, f) /\ SumSeq(s) = f[N]
  BY SumIs
<1>3. PICK g : Adds(t, N, g) /\ SumSeq(t) = g[N]
  BY <1>1, SumIs
<1> HIDE DEF N, d
<1> DEFINE T == {k \in 0..N : g[k] = IF k < i THEN f[k] ELSE f[k] + d}
<1>4. 0 \in T
  BY <1>1, <1>2, <1>3, <1>b DEF Adds
<1>5. ASSUME NEW k \in 1..N, k - 1 \in T PROVE k \in T
  <2>a. k - 1 \in 0..N /\ k \in 0..N
    BY <1>1
  <2>1. f[k] = f[k - 1] + s[k] /\ f[k - 1] \in Int /\ s[k] \in Int
    BY <1>1, <1>2, <2>a DEF Adds
  <2>2. g[k] = g[k - 1] + t[k]
    BY <1>3 DEF Adds
  <2>3. CASE k < i
    <3>1. k - 1 < i /\ k # i
      BY <1>1, <1>b, <2>3
    <3> QED BY <1>1, <1>5, <2>1, <2>2, <2>3, <3>1
  <2>4. CASE k = i
    <3>1. k - 1 < i /\ ~(k < i)
      BY <1>1, <1>b, <2>4
    <3> QED BY <1>1, <1>a, <1>5, <2>1, <2>2, <2>4, <3>1, SMTT(30)
  <2>5. CASE k > i
    <3>1. ~(k - 1 < i) /\ ~(k < i) /\ k # i
      BY <1>1, <1>b, <2>5
    <3>2. g[k - 1] = f[k - 1] + d
      BY <1>5, <3>1
    <3>3. t[k] = s[k]
      BY <1>1, <3>1
    <3>4. g[k] = f[k] + d
      BY <1>a, <2>1, <2>2, <3>2, <3>3
    <3> QED BY <2>a, <3>1, <3>4
  <2> QED BY <1>b, <2>3, <2>4, <2>5
<1> HIDE DEF T
<1>6. \A k \in 0..N : k \in T
  BY <1>1, <1>4, <1>5, UpTo
<1>7. g[N] = f[N] + d /\ f[N] \in Int
  BY <1>1, <1>2, <1>6, <1>b DEF T, Adds
<1> QED BY <1>1, <1>2, <1>3, <1>7 DEF t, d

(* Without the first it is less by that. *)
LEMMA SumTail ==
  ASSUME NEW s \in Seq(Int), s # << >>
  PROVE  SumSeq(Tail(s)) = SumSeq(s) - Head(s)
<1> DEFINE t == Tail(s)
           N == Len(t)
<1>1. /\ t \in Seq(Int) /\ N \in Nat /\ Len(s) = N + 1 /\ s[1] = Head(s) /\ s[1] \in Int
      /\ \A k \in 1..N : t[k] = s[k + 1]
  OBVIOUS
<1> HIDE DEF t
<1>2. PICK f : Adds(s, Len(s), f) /\ SumSeq(s) = f[Len(s)]
  BY SumIs
<1>3. PICK g : Adds(t, N, g) /\ SumSeq(t) = g[N]
  BY <1>1, SumIs
<1> HIDE DEF N
<1> DEFINE T == {k \in 0..N : g[k] = f[k + 1] - s[1]}
<1>4. 0 \in T
  <2>1. 1 \in 1..(N + 1) /\ 0 \in 0..N
    BY <1>1
  <2>2. f[1] = f[1 - 1] + s[1] /\ f[0] = 0 /\ g[0] = 0
    BY <1>1, <1>2, <1>3, <2>1 DEF Adds
  <2> QED BY <1>1, <2>1, <2>2
<1>5. ASSUME NEW k \in 1..N, k - 1 \in T PROVE k \in T
  <2>1. k + 1 \in 1..(N + 1) /\ (k + 1) - 1 = k /\ (k - 1) + 1 = k /\ k \in 0..(N + 1)
    BY <1>1
  <2>2. f[k + 1] = f[k] + s[k + 1] /\ f[k] \in Int
    BY <1>1, <1>2, <2>1 DEF Adds
  <2>3. g[k] = g[k - 1] + t[k]
    BY <1>3 DEF Adds
  <2>4. s[k + 1] \in Int
    BY <1>1, <2>1
  <2> QED BY <1>1, <1>5, <2>1, <2>2, <2>3, <2>4, SMTT(30)
<1> HIDE DEF T
<1>6. \A k \in 0..N : k \in T
  BY <1>1, <1>4, <1>5, UpTo
<1>7. g[N] = f[N + 1] - s[1]
  BY <1>1, <1>6 DEF T
<1> QED BY <1>1, <1>2, <1>3, <1>7 DEF t

(* Without one of them it is less by that. *)
LEMMA SumRemove ==
  ASSUME NEW s \in Seq(Int), NEW i \in 1..Len(s), NEW t \in Seq(Int), Len(t) = Len(s) - 1,
         \A k \in 1..Len(t) : t[k] = IF k < i THEN s[k] ELSE s[k + 1]
  PROVE  SumSeq(t) = SumSeq(s) - s[i]
<1> DEFINE N == Len(t)
<1>1. /\ N \in Nat /\ Len(s) = N + 1 /\ i \in 1..(N + 1)
      /\ \A k \in 1..(N + 1) : s[k] \in Int
      /\ \A k \in 1..N : t[k] = IF k < i THEN s[k] ELSE s[k + 1]
  OBVIOUS
<1>2. PICK f : Adds(s, Len(s), f) /\ SumSeq(s) = f[Len(s)]
  BY SumIs
<1>3. PICK g : Adds(t, N, g) /\ SumSeq(t) = g[N]
  BY SumIs
<1> HIDE DEF N
<1> DEFINE T == {k \in 0..N : g[k] = IF k < i THEN f[k] ELSE f[k + 1] - s[i]}
<1>4. 0 \in T
  BY <1>1, <1>2, <1>3 DEF Adds
<1>5. ASSUME NEW k \in 1..N, k - 1 \in T PROVE k \in T
  <2>1. k \in 1..(N + 1) /\ k + 1 \in 1..(N + 1) /\ (k + 1) - 1 = k /\ (k - 1) + 1 = k
        /\ k \in 0..(N + 1) /\ k - 1 \in 0..(N + 1) /\ k \in 0..N
    BY <1>1
  <2>2. f[k + 1] = f[k] + s[k + 1] /\ f[k] = f[k - 1] + s[k] /\ f[k] \in Int /\ f[k - 1] \in Int
    BY <1>1, <1>2, <2>1 DEF Adds
  <2>3. g[k] = g[k - 1] + t[k]
    BY <1>3 DEF Adds
  <2>4. s[k + 1] \in Int /\ s[k] \in Int /\ s[i] \in Int
    BY <1>1, <2>1
  <2>5. CASE k < i
    <3>1. k - 1 < i
      BY <1>1, <2>5
    <3>2. g[k - 1] = f[k - 1] /\ t[k] = s[k]
      BY <1>1, <1>5, <2>5, <3>1
    <3> QED BY <2>1, <2>2, <2>3, <2>5, <3>2
  <2>6. CASE k = i
    <3>1. k - 1 < i /\ ~(k < i)
      BY <1>1, <2>6
    <3>2. g[k - 1] = f[k - 1] /\ t[k] = s[k + 1]
      BY <1>1, <1>5, <3>1
    <3>3. g[k] = f[k + 1] - s[i]
      BY <2>2, <2>3, <2>4, <2>6, <3>2, SMTT(30)
    <3> QED BY <2>1, <3>1, <3>3
  <2>7. CASE k > i
    <3>1. ~(k - 1 < i) /\ ~(k < i)
      BY <1>1, <2>7
    <3>2. g[k - 1] = f[k] - s[i] /\ t[k] = s[k + 1]
      BY <1>1, <1>5, <2>1, <3>1
    <3>3. g[k] = f[k + 1] - s[i]
      BY <2>2, <2>3, <2>4, <3>2, SMTT(30)
    <3> QED BY <2>1, <3>1, <3>3
  <2> QED BY <1>1, <2>5, <2>6, <2>7
<1> HIDE DEF T
<1>6. \A k \in 0..N : k \in T
  BY <1>1, <1>4, <1>5, UpTo
<1>7. CASE i = N + 1
  <2>1. g[N] = f[N] /\ f[N + 1] = f[(N + 1) - 1] + s[N + 1] /\ f[N] \in Int /\ (N + 1) - 1 = N /\ s[N + 1] \in Int
    BY <1>1, <1>2, <1>6, <1>7 DEF T, Adds
  <2> QED BY <1>1, <1>2, <1>3, <1>7, <2>1
<1>8. CASE i # N + 1
  <2>1. g[N] = f[N + 1] - s[i]
    BY <1>1, <1>6, <1>8 DEF T
  <2> QED BY <1>1, <1>2, <1>3, <2>1
<1> QED BY <1>7, <1>8

(* Sums of lesser numbers are less. *)
LEMMA SumLess ==
  ASSUME NEW s \in Seq(Int), NEW t \in Seq(Int), Len(t) = Len(s), \A i \in 1..Len(s) : s[i] <= t[i]
  PROVE  SumSeq(s) <= SumSeq(t)
<1> DEFINE N == Len(s)
<1>1. N \in Nat /\ Len(t) = N /\ \A i \in 1..N : s[i] <= t[i] /\ s[i] \in Int /\ t[i] \in Int
  OBVIOUS
<1>2. PICK f : Adds(s, N, f) /\ SumSeq(s) = f[N]
  BY SumIs
<1>3. PICK g : Adds(t, Len(t), g) /\ SumSeq(t) = g[Len(t)]
  BY SumIs
<1> HIDE DEF N
<1> DEFINE T == {k \in 0..N : f[k] <= g[k]}
<1>4. 0 \in T
  BY <1>1, <1>2, <1>3 DEF Adds
<1>5. ASSUME NEW k \in 1..N, k - 1 \in T PROVE k \in T
  <2>1. k \in 0..N /\ k - 1 \in 0..N
    BY <1>1
  <2>2. f[k] = f[k - 1] + s[k] /\ g[k] = g[k - 1] + t[k] /\ f[k - 1] \in Int /\ g[k - 1] \in Int
    BY <1>1, <1>2, <1>3, <2>1 DEF Adds
  <2> QED BY <1>1, <1>5, <2>1, <2>2, SMTT(30)
<1> HIDE DEF T
<1>6. \A k \in 0..N : k \in T
  BY <1>1, <1>4, <1>5, UpTo
<1> QED BY <1>1, <1>2, <1>3, <1>6 DEF T

(* The sum of nothing but zeros is zero. *)
LEMMA SumZero ==
  ASSUME NEW s \in Seq(Int), \A i \in 1..Len(s) : s[i] = 0
  PROVE  SumSeq(s) = 0
<1> DEFINE N == Len(s)
<1>1. N \in Nat /\ \A i \in 1..N : s[i] = 0
  OBVIOUS
<1>2. PICK f : Adds(s, N, f) /\ SumSeq(s) = f[N]
  BY SumIs
<1> HIDE DEF N
<1> DEFINE T == {k \in 0..N : f[k] = 0}
<1>3. 0 \in T
  BY <1>1, <1>2 DEF Adds
<1>4. ASSUME NEW k \in 1..N, k - 1 \in T PROVE k \in T
  <2>1. f[k] = f[k - 1] + s[k] /\ s[k] = 0 /\ f[k - 1] = 0 /\ k \in 0..N
    BY <1>1, <1>2, <1>4 DEF Adds
  <2> QED BY <2>1
<1> HIDE DEF T
<1>5. \A k \in 0..N : k \in T
  BY <1>1, <1>3, <1>4, UpTo
<1> QED BY <1>1, <1>2, <1>5 DEF T

(* No member of a sum of natural numbers exceeds it. *)
LEMMA SumHas ==
  ASSUME NEW s \in Seq(Int), NEW i \in 1..Len(s), \A k \in 1..Len(s) : s[k] \in Nat
  PROVE  s[i] <= SumSeq(s)
<1> DEFINE t == [s EXCEPT ![i] = 0]
<1>1. t \in Seq(Int) /\ Len(t) = Len(s) /\ \A k \in 1..Len(t) : t[k] \in Nat
  OBVIOUS
<1>2. SumSeq(t) = SumSeq(s) - s[i] + 0
  BY SumReplace
<1> HIDE DEF t
<1>3. SumSeq(t) \in Nat /\ SumSeq(s) \in Int
  BY <1>1, SumType
<1> QED BY <1>2, <1>3

(* A sequence in two parts sums to the two sums. *)
LEMMA SumSplit ==
  ASSUME NEW s \in Seq(Int), NEW t \in Seq(Int), NEW u \in Seq(Int), Len(u) = Len(s) + Len(t),
         \A i \in 1..Len(s) : u[i] = s[i], \A i \in 1..Len(t) : u[Len(s) + i] = t[i]
  PROVE  SumSeq(u) = SumSeq(s) + SumSeq(t)
<1> DEFINE M == Len(s)
           N == Len(t)
<1>1. /\ M \in Nat /\ N \in Nat /\ Len(u) = M + N
      /\ \A i \in 1..M : u[i] = s[i] /\ s[i] \in Int
      /\ \A i \in 1..N : u[M + i] = t[i] /\ t[i] \in Int
  OBVIOUS
<1>2. PICK f : Adds(s, M, f) /\ SumSeq(s) = f[M]
  BY SumIs
<1>3. PICK g : Adds(t, N, g) /\ SumSeq(t) = g[N]
  BY SumIs
<1>4. PICK h : Adds(u, Len(u), h) /\ SumSeq(u) = h[Len(u)]
  BY SumIs
<1> HIDE DEF M, N
<1>5. Adds(u, M + N, h)
  BY <1>1, <1>4
<1> DEFINE T == {k \in 0..M : h[k] = f[k]}
           U == {k \in 0..N : h[M + k] = f[M] + g[k]}
<1>6. 0 \in T
  BY <1>1, <1>2, <1>5 DEF Adds
<1>7. ASSUME NEW k \in 1..M, k - 1 \in T PROVE k \in T
  <2>1. f[k] = f[k - 1] + s[k]
    BY <1>2 DEF Adds
  <2>2. k \in 1..(M + N)
    BY <1>1
  <2>3. h[k] = h[k - 1] + u[k]
    BY <1>5, <2>2 DEF Adds
  <2> QED BY <1>1, <1>7, <2>1, <2>3
<1>8. \A k \in 0..M : k \in T
  <2> HIDE DEF T
  <2> QED BY <1>1, <1>6, <1>7, UpTo
<1>9. h[M] = f[M] /\ f[M] \in Int
  BY <1>1, <1>2, <1>8 DEF Adds
<1>10. 0 \in U
  <2>1. M + 0 = M /\ g[0] = 0 /\ 0 \in 0..N
    BY <1>1, <1>3 DEF Adds
  <2> QED BY <1>9, <2>1
<1>11. ASSUME NEW k \in 1..N, k - 1 \in U PROVE k \in U
  <2>1. g[k] = g[k - 1] + t[k] /\ g[k - 1] \in Int
    BY <1>1, <1>3, SMTT(30) DEF Adds
  <2>2. M + k \in 1..(M + N) /\ (M + k) - 1 = M + (k - 1) /\ k \in 0..N
    BY <1>1
  <2>3. h[M + k] = h[(M + k) - 1] + u[M + k]
    BY <1>5, <2>2 DEF Adds
  <2>4. h[M + (k - 1)] = f[M] + g[k - 1]
    BY <1>11
  <2>5. u[M + k] = t[k] /\ t[k] \in Int
    BY <1>1
  <2>6. h[M + k] = f[M] + g[k - 1] + t[k]
    BY <2>2, <2>3, <2>4, <2>5
  <2>7. h[M + k] = f[M] + g[k]
    BY <1>9, <2>1, <2>5, <2>6, SMTT(30)
  <2> QED BY <2>2, <2>7
<1>12. \A k \in 0..N : k \in U
  <2> HIDE DEF U
  <2> QED BY <1>1, <1>10, <1>11, UpTo
<1>13. h[M + N] = f[M] + g[N]
  BY <1>1, <1>12
<1> QED BY <1>1, <1>2, <1>3, <1>4, <1>13
=============================================================================
