-------------------------- MODULE DesignSpaceProofs --------------------------
(***************************************************************************)
(* Theorems about DesignSpaceScan, for every list of architectures, every  *)
(* number of ports and of candidates and whatever the simulations report.  *)
(***************************************************************************)
EXTENDS DesignSpaceScan, FiniteSetTheorems, NaturalsInduction, WellFoundedInduction, TLAPS

(* Induction on the numbers up to n. *)
LEMMA LeastNumber ==
  ASSUME NEW T \in SUBSET Nat, T # {}
  PROVE  \E m \in T : \A n \in T : m <= n
<1>1. PICK x \in T : \A y \in T : ~(<<y, x>> \in OpToRel(<, Nat))
  BY NatLessThanWellFounded, WFMin
<1>2. \A x1, y1 \in Nat : x1 < y1 => <<x1, y1>> \in OpToRel(<, Nat)
  BY DEF OpToRel
<1>3. \A y \in T : ~(y < x)
  BY <1>1, <1>2
<1> QED
  BY <1>3

LEMMA Induct ==
  ASSUME NEW n \in Nat, NEW T, 0 \in T, \A k \in 0 .. n - 1 : k \in T => k + 1 \in T
  PROVE  \A k \in 0 .. n : k \in T
<1> DEFINE U == {k \in 0 .. n : k \notin T}
<1>1. SUFFICES ASSUME U # {} PROVE FALSE
  OBVIOUS
<1>2. PICK m \in U : \A k \in U : m <= k
  <2>1. U \in SUBSET Nat
    OBVIOUS
  <2> HIDE DEF U
  <2> QED
    BY <1>1, <2>1, LeastNumber
<1>3. m # 0 /\ m - 1 \in 0 .. n - 1 /\ (m - 1) + 1 = m
  OBVIOUS
<1>4. m - 1 \in T
  BY <1>2, <1>3
<1> QED
  BY <1>3, <1>4

-------------------------------------------------------------------------------
(* Powers of two. *)
Doubles(f, n) == f \in [0 .. n -> Nat] /\ f[0] = 1 /\ \A k \in 1 .. n : f[k] = 2 * f[k - 1]

LEMMA DoublesExist ==
  ASSUME NEW n \in Nat
  PROVE  \E f : Doubles(f, n)
<1> DEFINE T == {m \in Nat : \E f : Doubles(f, m)}
<1>1. 0 \in T
  <2>1. Doubles([k \in 0 .. 0 |-> 1], 0)
    BY DEF Doubles
  <2> QED
    BY <2>1
<1>2. ASSUME NEW m \in Nat, m \in T PROVE m + 1 \in T
  <2>1. PICK f : Doubles(f, m)
    BY <1>2
  <2> DEFINE g == [k \in 0 .. m + 1 |-> IF k = m + 1 THEN 2 * f[m] ELSE f[k]]
  <2>2. Doubles(g, m + 1)
    BY <2>1 DEF Doubles
  <2> HIDE DEF g
  <2> QED
    BY <2>2
<1> HIDE DEF T
<1>3. \A k \in 0 .. n : k \in T
  BY <1>1, <1>2, Induct
<1> QED
  BY <1>3 DEF T

LEMMA DoublesAgree ==
  ASSUME NEW n \in Nat, NEW m \in 0 .. n, NEW f, NEW g, Doubles(f, m), Doubles(g, n)
  PROVE  \A k \in 0 .. m : f[k] = g[k]
<1> DEFINE T == {k \in 0 .. m : f[k] = g[k]}
<1>1. 0 \in T
  BY DEF Doubles
<1>2. ASSUME NEW k \in 0 .. m - 1, k \in T PROVE k + 1 \in T
  <2>1. k + 1 \in 1 .. m /\ k + 1 \in 1 .. n /\ (k + 1) - 1 = k
    OBVIOUS
  <2> QED
    BY <1>2, <2>1 DEF Doubles
<1> HIDE DEF T
<1>3. \A k \in 0 .. m : k \in T
  BY <1>1, <1>2, Induct
<1> QED
  BY <1>3 DEF T

LEMMA PowerOf2Equation ==
  /\ PowerOf2 \in [Nat -> Nat] /\ PowerOf2[0] = 1
  /\ \A k \in Nat : PowerOf2[k + 1] = 2 * PowerOf2[k]
<1> DEFINE upTo(n) == CHOOSE f : Doubles(f, n)
           h == [n \in Nat |-> upTo(n)[n]]
<1>1. \A n \in Nat : Doubles(upTo(n), n)
  BY DoublesExist
<1> HIDE DEF upTo
<1>2. h \in [Nat -> Nat] /\ h[0] = 1
  BY <1>1 DEF Doubles
<1>3. ASSUME NEW k \in Nat PROVE h[k + 1] = 2 * h[k]
  <2>1. k \in 0 .. k + 1 /\ k \in 0 .. k /\ k + 1 \in 1 .. k + 1 /\ (k + 1) - 1 = k
    OBVIOUS
  <2>2. upTo(k)[k] = upTo(k + 1)[k]
    BY <1>1, <2>1, DoublesAgree
  <2>3. upTo(k + 1)[k + 1] = 2 * upTo(k + 1)[k]
    BY <1>1, <2>1 DEF Doubles
  <2> QED
    BY <2>2, <2>3
<1> DEFINE E(f) == f = [k \in Nat |-> IF k = 0 THEN 1 ELSE 2 * f[k - 1]]
<1>4. \A n \in Nat : h[n] = IF n = 0 THEN 1 ELSE 2 * h[n - 1]
  <2>1. SUFFICES ASSUME NEW n \in Nat, n # 0 PROVE h[n] = 2 * h[n - 1]
    BY <1>2
  <2>2. n - 1 \in Nat /\ (n - 1) + 1 = n
    BY <2>1
  <2> QED
    BY <1>3, <2>2
<1>5. E(h)
  <2> HIDE DEF h
  <2>1. h = [n \in Nat |-> h[n]]
    BY <1>2
  <2> QED
    BY <1>4, <2>1
<1>6. PowerOf2 = CHOOSE f : E(f)
  BY DEF PowerOf2
<1> HIDE DEF E, h
<1>7. E(PowerOf2)
  BY <1>5, <1>6
<1>8. \A k \in Nat : PowerOf2[k] = IF k = 0 THEN 1 ELSE 2 * PowerOf2[k - 1]
  BY <1>7 DEF E
<1>9. PowerOf2[0] = 1 /\ \A k \in Nat : PowerOf2[k + 1] = 2 * PowerOf2[k]
  <2>1. ASSUME NEW k \in Nat PROVE k + 1 \in Nat /\ k + 1 # 0 /\ (k + 1) - 1 = k
    OBVIOUS
  <2> QED
    BY <1>8, <2>1
<1>10. DOMAIN PowerOf2 = Nat
  BY <1>7 DEF E
<1>11. ASSUME NEW n \in Nat PROVE PowerOf2[n] \in Nat
  <2> DEFINE T == {k \in Nat : PowerOf2[k] \in Nat}
  <2>1. 0 \in T /\ \A k \in 0 .. n - 1 : k \in T => k + 1 \in T
    BY <1>9
  <2> HIDE DEF T
  <2>2. n \in T
    BY <2>1, Induct
  <2> QED
    BY <2>2 DEF T
<1>12. PowerOf2 = [k \in Nat |-> PowerOf2[k]]
  BY <1>7, <1>10 DEF E
<1> QED
  BY <1>9, <1>11, <1>12

LEMMA PowerOf2Grows ==
  /\ \A k \in Nat : PowerOf2[k] > k
  /\ \A j, k \in Nat : j <= k => PowerOf2[j] <= PowerOf2[k]
<1>1. ASSUME NEW n \in Nat PROVE PowerOf2[n] > n
  <2> DEFINE T == {k \in Nat : PowerOf2[k] > k}
  <2>1. 0 \in T /\ \A k \in 0 .. n - 1 : k \in T => k + 1 \in T
    BY PowerOf2Equation
  <2> HIDE DEF T
  <2>2. n \in T
    BY <2>1, Induct
  <2> QED
    BY <2>2 DEF T
<1>2. ASSUME NEW j \in Nat, NEW n \in Nat PROVE j <= n => PowerOf2[j] <= PowerOf2[n]
  <2> DEFINE T == {k \in Nat : j <= k => PowerOf2[j] <= PowerOf2[k]}
  <2>1. 0 \in T
    BY PowerOf2Equation
  <2>2. ASSUME NEW k \in 0 .. n - 1, k \in T PROVE k + 1 \in T
    <3>1. PowerOf2[j] \in Nat /\ PowerOf2[k] \in Nat /\ PowerOf2[k + 1] = 2 * PowerOf2[k]
      BY PowerOf2Equation
    <3> QED
      BY <2>2, <3>1
  <2> HIDE DEF T
  <2>3. n \in T
    BY <2>1, <2>2, Induct
  <2> QED
    BY <2>3 DEF T
<1> QED
  BY <1>1, <1>2

LEMMA BitLengthIs ==
  ASSUME NEW x \in Nat
  PROVE  /\ BitLength(x) \in Nat /\ x < PowerOf2[BitLength(x)]
         /\ \A j \in 0 .. BitLength(x) - 1 : PowerOf2[j] <= x
<1> DEFINE T == {k \in 0 .. x : x < PowerOf2[k]}
<1>1. x \in T /\ T \in SUBSET Nat
  BY PowerOf2Grows
<1>2. PICK k \in T : \A j \in T : k <= j
  <2> HIDE DEF T
  <2> QED
    BY <1>1, LeastNumber
<1>3. \A j \in 0 .. k - 1 : PowerOf2[j] <= x
  BY <1>2, PowerOf2Equation
<1> QED
  BY <1>2, <1>3 DEF BitLength

(* next_power_of_2 rounds up, by less than a factor of two, and never      *)
(* beyond a power of two that is large enough.                             *)
LEMMA NextPowerOf2Is ==
  ASSUME NEW x \in Nat, NEW minimum \in Nat \ {0}, NEW e \in Nat,
         minimum <= PowerOf2[e], x <= PowerOf2[e]
  PROVE  LET y == NextPowerOf2(x, minimum)
         IN y \in Nat /\ x <= y /\ minimum <= y /\ y <= PowerOf2[e] /\ (y = minimum \/ y < 2 * x)
<1>1. CASE x <= minimum
  BY <1>1, PowerOf2Equation DEF NextPowerOf2
<1>2. CASE x > minimum
  <2> DEFINE b == BitLength(x - 1)
  <2>1. x - 1 \in Nat
    BY <1>2
  <2>2. b \in Nat /\ x - 1 < PowerOf2[b] /\ \A j \in 0 .. b - 1 : PowerOf2[j] <= x - 1
    BY <2>1, BitLengthIs
  <2>3. NextPowerOf2(x, minimum) = PowerOf2[b]
    BY <1>2 DEF NextPowerOf2
  <2> HIDE DEF b
  <2>4. PowerOf2[b] \in Nat /\ PowerOf2[e] \in Nat
    BY <2>2, PowerOf2Equation
  <2>5. b # 0
    BY <1>2, <2>2, PowerOf2Equation
  <2>6. PowerOf2[b] < 2 * x
    <3>1. b - 1 \in 0 .. b - 1 /\ (b - 1) + 1 = b /\ b - 1 \in Nat
      BY <2>2, <2>5
    <3>2. PowerOf2[b - 1] <= x - 1 /\ PowerOf2[b] = 2 * PowerOf2[b - 1] /\ PowerOf2[b - 1] \in Nat
      BY <2>2, <3>1, PowerOf2Equation
    <3> QED
      BY <3>2
  <2>7. PowerOf2[b] <= PowerOf2[e]
    <3>1. b <= e
      <4>1. SUFFICES ASSUME e < b PROVE FALSE
        BY <2>2
      <4>2. PowerOf2[e] <= x - 1
        BY <2>2, <4>1
      <4> QED
        BY <2>4, <4>2
    <3> QED
      BY <2>2, <3>1, PowerOf2Grows
  <2> QED
    BY <1>2, <2>2, <2>3, <2>4, <2>6, <2>7
<1> QED
  BY <1>1, <1>2
-------------------------------------------------------------------------------
(* Sequences of any elements. *)
IsSeq(s) == s \in Seq(Range(s))

LEMMA SeqType ==
  ASSUME NEW s, IsSeq(s)
  PROVE  Len(s) \in Nat /\ DOMAIN s = 1 .. Len(s)
  BY DEF IsSeq

LEMMA SeqIsFunction ==
  ASSUME NEW s, IsSeq(s)
  PROVE  s = [k \in 1 .. Len(s) |-> s[k]]
  BY DEF IsSeq

LEMMA SeqTyped ==
  ASSUME NEW S, NEW s \in Seq(S)
  PROVE  IsSeq(s)
<1>1. s \in [1 .. Len(s) -> Range(s)] /\ Len(s) \in Nat
  BY DEF Range
<1> QED
  BY <1>1 DEF IsSeq

LEMMA FunctionIsSeq ==
  ASSUME NEW n \in Nat, NEW S, NEW s \in [1 .. n -> S]
  PROVE  IsSeq(s) /\ Len(s) = n
<1>1. s \in Seq(S) /\ Len(s) = n
  <2>1. s = [k \in 1 .. n |-> s[k]] /\ \A k \in 1 .. n : s[k] \in S
    OBVIOUS
  <2>2. [k \in 1 .. n |-> s[k]] \in Seq(S) /\ Len([k \in 1 .. n |-> s[k]]) = n
    BY <2>1
  <2> QED
    BY <2>1, <2>2
<1>2. IsSeq(s)
  BY <1>1, SeqTyped
<1> QED
  BY <1>1, <1>2

LEMMA EmptyIsSeq ==
  /\ IsSeq(<<>>) /\ Len(<<>>) = 0
  /\ \A s : IsSeq(s) /\ Len(s) = 0 => s = <<>>
  BY DEF IsSeq

LEMMA AppendIs ==
  ASSUME NEW s, IsSeq(s), NEW e
  PROVE  LET t == Append(s, e)
         IN /\ IsSeq(t) /\ Len(t) = Len(s) + 1 /\ DOMAIN t = 1 .. Len(s) + 1
            /\ t[Len(s) + 1] = e /\ \A k \in 1 .. Len(s) : t[k] = s[k]
<1> DEFINE S == Range(s) \cup {e}
           t == Append(s, e)
<1>1. s \in Seq(S) /\ e \in S /\ Len(s) \in Nat
  <2>1. \A k \in 1 .. Len(s) : s[k] \in S
    BY SeqType DEF Range
  <2> HIDE DEF S
  <2> QED
    BY <2>1, SeqType DEF IsSeq, S
<1> HIDE DEF S
<1>2. t \in Seq(S) /\ Len(t) = Len(s) + 1 /\ DOMAIN t = 1 .. Len(s) + 1
  BY <1>1
<1>3. t[Len(s) + 1] = e /\ \A k \in 1 .. Len(s) : t[k] = s[k]
  BY <1>1
<1> HIDE DEF t
<1>5. IsSeq(t)
  BY <1>2, SeqTyped
<1> QED
  BY <1>2, <1>3, <1>5 DEF t

-------------------------------------------------------------------------------
(* Sums of sizes. *)
Sums(f, s, n) == f \in [0 .. n -> Nat] /\ f[0] = 0 /\ \A k \in 1 .. n : f[k] = f[k - 1] + s[k]

LEMMA SumOfIs ==
  ASSUME NEW s, IsSeq(s), \A k \in 1 .. Len(s) : s[k] \in Nat
  PROVE  \E f : Sums(f, s, Len(s)) /\ SumOf(s) = f[Len(s)]
<1> DEFINE N == Len(s)
           T == {m \in 0 .. N : \E f : Sums(f, s, m)}
<1>0. N \in Nat
  BY SeqType
<1>1. 0 \in T
  <2>1. Sums([k \in 0 .. 0 |-> 0], s, 0)
    BY DEF Sums
  <2> QED
    BY <1>0, <2>1
<1>2. ASSUME NEW m \in 0 .. N - 1, m \in T PROVE m + 1 \in T
  <2>1. PICK f : Sums(f, s, m)
    BY <1>2
  <2> DEFINE g == [k \in 0 .. m + 1 |-> IF k = m + 1 THEN f[m] + s[m + 1] ELSE f[k]]
  <2>2. Sums(g, s, m + 1)
    BY <2>1, <1>0 DEF Sums
  <2> HIDE DEF g
  <2> QED
    BY <2>2, <1>0
<1>3. N \in T
  <2> HIDE DEF T, N
  <2>1. \A k \in 0 .. N : k \in T
    BY <1>0, <1>1, <1>2, Induct
  <2> QED
    BY <1>0, <2>1
<1>4. PICK f : Sums(f, s, N)
  BY <1>3
<1> DEFINE E(g) == g = [n \in 0 .. N |-> IF n = 0 THEN 0 ELSE g[n - 1] + s[n]]
<1>5. E(f)
  BY <1>0, <1>4 DEF Sums
<1>6. SumOf(s) = (CHOOSE g : E(g))[N]
  BY DEF SumOf
<1> DEFINE h == CHOOSE g : E(g)
<1>7. E(h)
  <2> HIDE DEF E
  <2> QED
    BY <1>5
<1> HIDE DEF h
<1>8. \A k \in 0 .. N : h[k] = f[k]
  <2> DEFINE U == {k \in 0 .. N : h[k] = f[k]}
  <2>1. 0 \in U
    BY <1>0, <1>4, <1>7 DEF Sums
  <2>2. ASSUME NEW k \in 0 .. N - 1, k \in U PROVE k + 1 \in U
    <3>1. k + 1 \in 1 .. N /\ k + 1 \in 0 .. N /\ (k + 1) - 1 = k /\ k + 1 # 0
      BY <1>0
    <3>2. h[k + 1] = h[k] + s[k + 1]
      BY <1>7, <3>1
    <3> QED
      BY <1>4, <2>2, <3>1, <3>2 DEF Sums
  <2> HIDE DEF U
  <2>3. \A k \in 0 .. N : k \in U
    BY <1>0, <2>1, <2>2, Induct
  <2> QED
    BY <2>3 DEF U
<1>9. SumOf(s) = f[N]
  BY <1>0, <1>6, <1>8 DEF h
<1> QED
  BY <1>4, <1>9

(* Sizes of at most b in a list. *)
LEMMA SumBounded ==
  ASSUME NEW s, IsSeq(s), NEW b \in Nat, \A k \in 1 .. Len(s) : s[k] \in 0 .. b
  PROVE  SumOf(s) <= b * Len(s)
<1> DEFINE N == Len(s)
<1>1. PICK f : Sums(f, s, N) /\ SumOf(s) = f[N]
  BY SumOfIs
<1>2. N \in Nat
  BY SeqType
<1> DEFINE T == {n \in 0 .. N : f[n] <= b * n}
<1>3. 0 \in T
  BY <1>1, <1>2 DEF Sums
<1>4. ASSUME NEW n \in 0 .. N - 1, n \in T PROVE n + 1 \in T
  <2>1. n + 1 \in 1 .. N /\ n + 1 \in 0 .. N /\ (n + 1) - 1 = n /\ n \in 0 .. N
    BY <1>2
  <2>2. f[n + 1] = f[n] + s[n + 1] /\ f[n] \in Nat /\ s[n + 1] \in 0 .. b
    BY <1>1, <2>1 DEF Sums
  <2>3. b * (n + 1) = b * n + b
    OBVIOUS
  <2>4. b * n \in Nat
    OBVIOUS
  <2> QED
    BY <1>4, <2>1, <2>2, <2>3, <2>4
<1> HIDE DEF T
<1>5. N \in T
  <2> HIDE DEF N
  <2>1. \A k \in 0 .. N : k \in T
    BY <1>2, <1>3, <1>4, Induct
  <2> QED
    BY <1>2, <2>1
<1> QED
  BY <1>1, <1>5 DEF T

(* Numbers times a common factor. *)
LEMMA TimesMonotone ==
  ASSUME NEW i \in Nat, NEW j \in Nat, NEW p \in Nat, i <= j
  PROVE  i * p <= j * p
<1>1. PICK t \in Nat : j = i + t
  <2>1. j - i \in Nat /\ j = i + (j - i)
    OBVIOUS
  <2> QED
    BY <2>1
<1>2. j * p = i * p + t * p /\ t * p \in Nat /\ i * p \in Nat
  BY <1>1
<1> QED
  BY <1>2

LEMMA RowsApart ==
  ASSUME NEW p \in Nat, NEW i \in Nat, NEW j \in Nat, NEW x \in 0 .. p - 1, NEW y \in 0 .. p - 1,
         i * p + x = j * p + y
  PROVE  i = j /\ x = y
<1>0. i * p \in Nat /\ j * p \in Nat
  OBVIOUS
<1>1. ASSUME i < j PROVE FALSE
  <2>1. (i + 1) * p <= j * p
    BY <1>1, TimesMonotone
  <2>2. (i + 1) * p = i * p + p
    OBVIOUS
  <2> QED
    BY <1>0, <2>1, <2>2
<1>2. ASSUME j < i PROVE FALSE
  <2>1. (j + 1) * p <= i * p
    BY <1>2, TimesMonotone
  <2>2. (j + 1) * p = j * p + p
    OBVIOUS
  <2> QED
    BY <1>0, <2>1, <2>2
<1> QED
  BY <1>0, <1>1, <1>2

(* A square of sizes of at most b with an empty diagonal. *)
LEMMA SquareBounded ==
  ASSUME NEW p \in Nat \ {0}, NEW s, IsSeq(s), Len(s) = p * p,
         NEW b \in Nat, \A k \in 1 .. Len(s) : s[k] \in 0 .. b,
         \A d \in 0 .. p - 1 : s[d * (p + 1) + 1] = 0
  PROVE  SumOf(s) <= b * p * (p - 1)
<1> DEFINE N == p * p
           Passed(n, d) == d * (p + 1) <= n + p /\ n + p < (d + 1) * (p + 1)
<1>1. PICK f : Sums(f, s, N) /\ SumOf(s) = f[N]
  BY SumOfIs
<1>2. N \in Nat
  OBVIOUS
<1> DEFINE T == {n \in 0 .. N : \E d \in Nat : Passed(n, d) /\ d <= n /\ f[n] <= b * (n - d)}
<1>3. 0 \in T
  <2>1. Passed(0, 0) /\ f[0] <= b * (0 - 0)
    BY <1>1 DEF Sums
  <2> QED
    BY <1>2, <2>1
<1>4. ASSUME NEW n \in 0 .. N - 1, n \in T PROVE n + 1 \in T
  <2>1. PICK d \in Nat : Passed(n, d) /\ d <= n /\ f[n] <= b * (n - d)
    BY <1>4
  <2>2. n + 1 \in 1 .. N /\ n + 1 \in 0 .. N /\ (n + 1) - 1 = n /\ n \in 0 .. N
    BY <1>2
  <2>3. f[n + 1] = f[n] + s[n + 1] /\ f[n] \in Nat /\ s[n + 1] \in 0 .. b
    BY <1>1, <2>2 DEF Sums
  <2>4. (d + 1) * (p + 1) = d * (p + 1) + p + 1 /\ (d + 2) * (p + 1) = d * (p + 1) + 2 * p + 2
    OBVIOUS
  <2>5. d * (p + 1) \in Nat
    OBVIOUS
  <2>6. CASE n + 1 + p < (d + 1) * (p + 1)
    <3>1. Passed(n + 1, d)
      BY <2>1, <2>5, <2>6
    <3>2. b * (n + 1 - d) = b * (n - d) + b /\ b * (n - d) \in Nat
      BY <2>1
    <3>3. f[n + 1] <= b * (n + 1 - d) /\ d <= n + 1
      <4> DEFINE c == b * (n - d)
      <4>1. f[n] <= c /\ c \in Nat /\ b * (n + 1 - d) = c + b
        BY <2>1, <3>2
      <4>2. n \in Nat /\ d <= n + 1
        BY <2>1, <2>2
      <4> HIDE DEF c
      <4>3. f[n + 1] <= c + b
        BY <2>3, <4>1
      <4> QED
        BY <4>1, <4>2, <4>3
    <3> HIDE DEF Passed
    <3> QED
      BY <2>2, <3>1, <3>3
  <2>7. CASE n + 1 + p >= (d + 1) * (p + 1)
    <3>1. n = d * (p + 1)
      BY <2>1, <2>4, <2>5, <2>7
    <3>2. d < p
      <4>1. SUFFICES ASSUME p <= d PROVE FALSE
        OBVIOUS
      <4>2. p * (p + 1) <= d * (p + 1)
        BY <4>1, TimesMonotone
      <4>3. p * (p + 1) = p * p + p
        OBVIOUS
      <4> QED
        BY <1>2, <2>2, <3>1, <4>2, <4>3
    <3>3. s[n + 1] = 0
      <4>1. d \in 0 .. p - 1 /\ n + 1 = d * (p + 1) + 1
        BY <3>1, <3>2
      <4> QED
        BY <4>1
    <3>4. Passed(n + 1, d + 1)
      <4>1. (d + 1) + 1 = d + 2
        OBVIOUS
      <4> QED
        BY <2>4, <2>5, <3>1, <4>1
    <3>5. (n + 1) - (d + 1) = n - d
      OBVIOUS
    <3>6. f[n + 1] <= b * ((n + 1) - (d + 1)) /\ d + 1 <= n + 1
      BY <2>1, <2>3, <3>3, <3>5
    <3> HIDE DEF Passed
    <3> QED
      BY <2>2, <3>4, <3>6
  <2>8. (d + 1) * (p + 1) \in Nat
    OBVIOUS
  <2> QED
    BY <2>6, <2>7, <2>8
<1> HIDE DEF T
<1>5. N \in T
  <2> HIDE DEF N
  <2>1. \A k \in 0 .. N : k \in T
    BY <1>2, <1>3, <1>4, Induct
  <2> QED
    BY <1>2, <2>1
<1>6. PICK d \in Nat : Passed(N, d) /\ f[N] <= b * (N - d)
  BY <1>5 DEF T
<1>7. d = p
  <2>0. N + p = p * (p + 1)
    OBVIOUS
  <2>1. ASSUME d < p PROVE FALSE
    <3>1. (d + 1) * (p + 1) <= p * (p + 1)
      BY <2>1, TimesMonotone
    <3> QED
      BY <1>6, <2>0, <3>1
  <2>2. ASSUME p < d PROVE FALSE
    <3>1. (p + 1) * (p + 1) <= d * (p + 1)
      BY <2>2, TimesMonotone
    <3>2. (p + 1) * (p + 1) = p * (p + 1) + p + 1
      OBVIOUS
    <3> QED
      BY <1>6, <2>0, <3>1, <3>2
  <2> QED
    BY <2>1, <2>2
<1>8. b * (N - p) = b * p * (p - 1)
  OBVIOUS
<1> QED
  BY <1>1, <1>6, <1>7, <1>8
-------------------------------------------------------------------------------
(* Queues and their sizes. *)
SizeCount(cfg) == IF PerPort(cfg) THEN cfg.ports ELSE cfg.ports * cfg.ports

LEMMA SizeIndexIs ==
  ASSUME NEW cfg, cfg.ports \in Nat \ {0}
  PROVE  /\ \A q \in Queues(cfg) : SizeIndex(cfg, q) \in 1 .. SizeCount(cfg)
         /\ \A q, r \in Queues(cfg) : SizeIndex(cfg, q) = SizeIndex(cfg, r) => q = r
         /\ ~PerPort(cfg) =>
              \A d \in 0 .. cfg.ports - 1 : \A q \in Queues(cfg) :
                SizeIndex(cfg, q) # d * (cfg.ports + 1) + 1
<1> DEFINE p == cfg.ports
<1>1. CASE PerPort(cfg)
  <2>1. \A q \in Queues(cfg) : q = <<0, q[2]>> /\ q[2] \in 0 .. p - 1 /\ SizeIndex(cfg, q) = q[2] + 1
    BY <1>1 DEF Queues, SizeIndex
  <2>0. p \in Nat
    OBVIOUS
  <2> HIDE DEF p
  <2>2. \A q \in Queues(cfg) : SizeIndex(cfg, q) \in 1 .. p
    BY <2>0, <2>1
  <2>3. \A q, r \in Queues(cfg) : SizeIndex(cfg, q) = SizeIndex(cfg, r) => q = r
    <3>1. SUFFICES ASSUME NEW q \in Queues(cfg), NEW r \in Queues(cfg),
                          SizeIndex(cfg, q) = SizeIndex(cfg, r)
                   PROVE  q = r
      OBVIOUS
    <3>2. q[2] = r[2]
      BY <2>1, <3>1
    <3> QED
      BY <2>1, <3>2
  <2> QED
    BY <1>1, <2>2, <2>3 DEF SizeCount, p
<1>2. CASE ~PerPort(cfg)
  <2>1. \A q \in Queues(cfg) :
          /\ q = <<q[1], q[2]>> /\ q[1] \in 0 .. p - 1 /\ q[2] \in 0 .. p - 1 /\ q[1] # q[2]
          /\ SizeIndex(cfg, q) = q[1] * p + q[2] + 1
    BY <1>2 DEF Queues, SizeIndex
  <2>0. p \in Nat \ {0} /\ SizeCount(cfg) = p * p
    BY <1>2 DEF SizeCount
  <2> HIDE DEF p
  <2>2. ASSUME NEW q \in Queues(cfg) PROVE SizeIndex(cfg, q) \in 1 .. p * p
    <3>1. q[1] \in Nat /\ q[1] <= p - 1 /\ q[2] \in 0 .. p - 1 /\ p - 1 \in Nat
      BY <2>0, <2>1
    <3>2. q[1] * p <= (p - 1) * p
      BY <2>0, <3>1, TimesMonotone
    <3>3. (p - 1) * p = p * p - p /\ q[1] * p \in Nat /\ p * p \in Nat
      BY <2>0, <3>1
    <3> QED
      BY <2>0, <2>1, <3>1, <3>2, <3>3
  <2>3. ASSUME NEW q \in Queues(cfg), NEW r \in Queues(cfg), SizeIndex(cfg, q) = SizeIndex(cfg, r)
        PROVE  q = r
    <3>1. /\ q[1] \in Nat /\ r[1] \in Nat /\ q[2] \in 0 .. p - 1 /\ r[2] \in 0 .. p - 1
          /\ q = <<q[1], q[2]>> /\ r = <<r[1], r[2]>>
      BY <2>1
    <3>2. q[1] * p + q[2] + 1 = r[1] * p + r[2] + 1 /\ q[1] * p \in Nat /\ r[1] * p \in Nat
      BY <2>0, <2>1, <2>3, <3>1
    <3>3. q[1] * p + q[2] = r[1] * p + r[2]
      BY <3>1, <3>2
    <3>4. q[1] = r[1] /\ q[2] = r[2]
      BY <2>0, <3>1, <3>3, RowsApart
    <3> QED
      BY <3>1, <3>4
  <2>4. ASSUME NEW d \in 0 .. p - 1, NEW q \in Queues(cfg), SizeIndex(cfg, q) = d * (p + 1) + 1
        PROVE  FALSE
    <3>1. q[1] \in Nat /\ q[2] \in 0 .. p - 1 /\ d \in Nat /\ d \in 0 .. p - 1 /\ q[1] # q[2]
      BY <2>0, <2>1
    <3>2. d * (p + 1) = d * p + d /\ d * p \in Nat /\ q[1] * p \in Nat
      BY <2>0, <3>1
    <3>3. q[1] * p + q[2] = d * p + d
      BY <2>1, <2>4, <3>1, <3>2
    <3>4. ASSUME NEW i \in Nat, NEW x \in 0 .. p - 1, NEW j \in Nat, NEW y \in 0 .. p - 1,
                 i * p + x = j * p + y
          PROVE  i = j /\ x = y
      BY <2>0, <3>4, RowsApart
    <3>5. q[1] = d /\ q[2] = d
      BY <3>1, <3>3, <3>4
    <3> QED
      BY <3>1, <3>5
  <2> QED
    BY <2>0, <1>2, <2>2, <2>3, <2>4 DEF p
<1> QED
  BY <1>1, <1>2

(* What compute_optimized_voq_sizes makes of the peaks. *)
LEMMA OptimizedSizes ==
  ASSUME NEW cfg, cfg.ports \in Nat \ {0},
         NEW peaks, \A q \in Queues(cfg) : peaks[q] \in 0 .. LargeVoqSize
  PROVE  LET s == ComputeOptimizedVoqSizes(cfg, peaks)
         IN /\ IsSeq(s) /\ Len(s) = SizeCount(cfg) /\ s # <<>>
            /\ \A k \in 1 .. Len(s) : s[k] \in 0 .. LargeVoqSize
            /\ \A q \in Queues(cfg) :
                 LET size == s[SizeIndex(cfg, q)]
                 IN /\ SizeIndex(cfg, q) \in DOMAIN s /\ peaks[q] <= size
                    /\ size = MinVoqSize \/ size < 2 * peaks[q]
            /\ SumOf(s) <= IF PerPort(cfg) THEN LargeVoqSize * cfg.ports
                           ELSE LargeVoqSize * cfg.ports * (cfg.ports - 1)
<1> DEFINE s == ComputeOptimizedVoqSizes(cfg, peaks)
           p == cfg.ports
           at(k) == {q \in Queues(cfg) : SizeIndex(cfg, q) = k}
           Size(x) == NextPowerOf2(x, MinVoqSize)
<1>1. MinVoqSize \in Nat \ {0} /\ LargeVoqSize \in Nat /\ MinVoqSize <= LargeVoqSize
  BY ScanAssumption
<1>2. PICK e \in Nat : LargeVoqSize = PowerOf2[e]
  BY ScanAssumption
<1>3. ASSUME NEW x \in 0 .. LargeVoqSize
      PROVE  /\ Size(x) \in 0 .. LargeVoqSize /\ x <= Size(x)
             /\ Size(x) = MinVoqSize \/ Size(x) < 2 * x
  <2>1. x \in Nat /\ x <= PowerOf2[e] /\ MinVoqSize <= PowerOf2[e]
    BY <1>1, <1>2
  <2> QED
    BY <1>1, <1>2, <2>1, NextPowerOf2Is
<1>4. SizeCount(cfg) \in Nat \ {0}
  <2>1. p * p \in Nat \ {0}
    OBVIOUS
  <2> QED
    BY <2>1 DEF SizeCount
<1>5. s = [k \in 1 .. SizeCount(cfg) |->
             IF at(k) = {} THEN 0 ELSE Size(peaks[CHOOSE q \in at(k) : TRUE])]
  BY DEF ComputeOptimizedVoqSizes, SizeCount
<1> HIDE DEF s, Size
<1>6. \A k \in 1 .. SizeCount(cfg) : s[k] \in 0 .. LargeVoqSize
  <2>1. ASSUME NEW k \in 1 .. SizeCount(cfg), at(k) = {} PROVE s[k] \in 0 .. LargeVoqSize
    <3>1. s[k] = 0
      BY <1>5, <2>1
    <3> QED
      BY <1>1, <3>1
  <2>2. ASSUME NEW k \in 1 .. SizeCount(cfg), at(k) # {} PROVE s[k] \in 0 .. LargeVoqSize
    <3>1. (CHOOSE q \in at(k) : TRUE) \in Queues(cfg)
      BY <2>2
    <3> QED
      BY <1>3, <1>5, <2>2, <3>1
  <2> QED
    BY <2>1, <2>2
<1>7. IsSeq(s) /\ Len(s) = SizeCount(cfg) /\ DOMAIN s = 1 .. SizeCount(cfg)
  <2>1. s \in [1 .. SizeCount(cfg) -> 0 .. LargeVoqSize]
    BY <1>5, <1>6
  <2>2. SizeCount(cfg) \in Nat
    BY <1>4
  <2> QED
    BY <2>1, <2>2, FunctionIsSeq
<1>8. s # <<>>
  BY <1>4, <1>7, EmptyIsSeq
<1>9. ASSUME NEW q \in Queues(cfg)
      PROVE  SizeIndex(cfg, q) \in DOMAIN s /\ s[SizeIndex(cfg, q)] = Size(peaks[q])
  <2>1. SizeIndex(cfg, q) \in 1 .. SizeCount(cfg)
    BY SizeIndexIs
  <2>2. at(SizeIndex(cfg, q)) = {q}
    BY SizeIndexIs
  <2> QED
    BY <1>5, <1>7, <2>1, <2>2
<1>10. SumOf(s) <= IF PerPort(cfg) THEN LargeVoqSize * p ELSE LargeVoqSize * p * (p - 1)
  <2>1. CASE PerPort(cfg)
    <3>1. Len(s) = p
      BY <1>7, <2>1 DEF SizeCount
    <3>2. SumOf(s) <= LargeVoqSize * Len(s)
      BY <1>1, <1>6, <1>7, SumBounded
    <3> QED
      BY <2>1, <3>1, <3>2
  <2>2. CASE ~PerPort(cfg)
    <3>1. Len(s) = p * p /\ p \in Nat \ {0}
      BY <1>7, <2>2 DEF SizeCount
    <3>2. ASSUME NEW d \in 0 .. p - 1 PROVE s[d * (p + 1) + 1] = 0
      <4>1. at(d * (p + 1) + 1) = {}
        BY <2>2, SizeIndexIs
      <4>2. d * (p + 1) + 1 \in 1 .. p * p
        <5>1. d * (p + 1) <= (p - 1) * (p + 1)
          BY TimesMonotone
        <5>2. (p - 1) * (p + 1) = p * p - 1 /\ d * (p + 1) \in Nat /\ p * p \in Nat
          OBVIOUS
        <5> QED
          BY <5>1, <5>2
      <4> QED
        BY <1>5, <1>7, <3>1, <4>1, <4>2
    <3>3. \A k \in 1 .. Len(s) : s[k] \in 0 .. LargeVoqSize
      BY <1>6, <1>7
    <3> HIDE DEF p
    <3>4. SumOf(s) <= LargeVoqSize * p * (p - 1)
      BY <1>1, <1>7, <3>1, <3>2, <3>3, SquareBounded
    <3> QED
      BY <2>2, <3>4
  <2> QED
    BY <2>1, <2>2
<1>11. ASSUME NEW q \in Queues(cfg)
       PROVE  LET size == s[SizeIndex(cfg, q)]
              IN /\ SizeIndex(cfg, q) \in DOMAIN s /\ peaks[q] <= size
                 /\ size = MinVoqSize \/ size < 2 * peaks[q]
  BY <1>3, <1>9
<1>12. \A k \in 1 .. Len(s) : s[k] \in 0 .. LargeVoqSize
  BY <1>6, <1>7
<1> QED
  BY <1>7, <1>8, <1>10, <1>11, <1>12 DEF s

-------------------------------------------------------------------------------
(* candidates.sort: an order by the figures, then by the place in the list. *)
Ordered(K) ==
  /\ \A a \in K : ~SortsBefore(a, a)
  /\ \A a, b \in K : a = b \/ SortsBefore(a, b) \/ SortsBefore(b, a)
  /\ \A a, b, c \in K : SortsBefore(a, b) /\ SortsBefore(b, c) => SortsBefore(a, c)

LEMMA OrderedByFigures ==
  ASSUME NEW K \in SUBSET Nat,
         \A k \in K : results[k].latency \in Nat /\ results[k].throughput \in Nat
  PROVE  Ordered(K)
<1>1. ASSUME NEW a \in K PROVE ~SortsBefore(a, a)
  <2>1. a \in Nat /\ results[a].latency \in Nat /\ results[a].throughput \in Nat
    OBVIOUS
  <2> QED
    BY <2>1 DEF SortsBefore, Better
<1>2. \A a, b \in K : a = b \/ SortsBefore(a, b) \/ SortsBefore(b, a)
  BY DEF SortsBefore, Better
<1>3. \A a, b, c \in K : SortsBefore(a, b) /\ SortsBefore(b, c) => SortsBefore(a, c)
  BY DEF SortsBefore, Better
<1> QED
  BY <1>1, <1>2, <1>3 DEF Ordered

InOrder(order, K) ==
  /\ order \in [1 .. Cardinality(K) -> K]
  /\ \A m, n \in DOMAIN order : m < n => SortsBefore(order[m], order[n])

(* The place of an element is the number of those before it. *)
LEMMA SortedExists ==
  ASSUME NEW K, IsFiniteSet(K), Ordered(K)
  PROVE  \E order : InOrder(order, K)
<1> DEFINE N == Cardinality(K)
           Before(k) == {m \in K : SortsBefore(m, k)}
           rank == [k \in K |-> Cardinality(Before(k)) + 1]
<1>1. N \in Nat
  BY FS_CardinalityType
<1>2. ASSUME NEW k \in K
      PROVE  IsFiniteSet(Before(k)) /\ Cardinality(Before(k)) \in Nat /\ Cardinality(Before(k)) < N
  <2>1. Before(k) \in SUBSET K /\ Before(k) # K
    BY DEF Ordered
  <2> HIDE DEF Before
  <2>2. IsFiniteSet(Before(k)) /\ Cardinality(Before(k)) <= N /\ Cardinality(Before(k)) # N
    BY <2>1, FS_Subset
  <2> QED
    BY <1>1, <2>2, FS_CardinalityType
<1>3. ASSUME NEW a \in K, NEW b \in K, SortsBefore(a, b) PROVE rank[a] < rank[b]
  <2>1. Before(a) \in SUBSET Before(b) /\ Before(a) # Before(b)
    BY <1>3 DEF Ordered
  <2>2. IsFiniteSet(Before(b)) /\ Cardinality(Before(a)) \in Nat /\ Cardinality(Before(b)) \in Nat
    BY <1>2
  <2>3. rank[a] = Cardinality(Before(a)) + 1 /\ rank[b] = Cardinality(Before(b)) + 1
    OBVIOUS
  <2> HIDE DEF Before, rank
  <2>4. Cardinality(Before(a)) <= Cardinality(Before(b)) /\ Cardinality(Before(a)) # Cardinality(Before(b))
    BY <2>1, <2>2, FS_Subset
  <2> QED
    BY <2>2, <2>3, <2>4
<1>4. rank \in [K -> 1 .. N]
  BY <1>1, <1>2
<1> HIDE DEF rank, Before, N
<1>5. rank \in Injection(K, 1 .. N)
  <2>1. ASSUME NEW a \in K, NEW b \in K, rank[a] = rank[b] PROVE a = b
    <3>1. rank[a] \in 1 .. N /\ rank[b] \in 1 .. N
      BY <1>4
    <3>2. ~(rank[a] < rank[b]) /\ ~(rank[b] < rank[a])
      BY <1>1, <2>1, <3>1
    <3>3. ~SortsBefore(a, b) /\ ~SortsBefore(b, a)
      BY <1>3, <3>2
    <3> QED
      BY <3>3 DEF Ordered
  <2> QED
    BY <1>4, <2>1 DEF Injection, IsInjective
<1>6. rank \in Surjection(K, 1 .. N)
  <2>1. IsFiniteSet(1 .. N) /\ Cardinality(1 .. N) = N
    <3>1. Cardinality(1 .. N) = IF 1 > N THEN 0 ELSE N - 1 + 1
      BY <1>1, FS_Interval
    <3> QED
      BY <1>1, <3>1, FS_Interval
  <2>2. Cardinality(K) = Cardinality(1 .. N)
    BY <2>1 DEF N
  <2> QED
    BY <1>5, <2>1, <2>2, FS_Injection
<1>7. \A n \in 1 .. N : \E k \in K : rank[k] = n
  BY <1>6 DEF Surjection
<1> DEFINE order == [n \in 1 .. N |-> CHOOSE k \in K : rank[k] = n]
<1>8. \A n \in 1 .. N : order[n] \in K /\ rank[order[n]] = n
  BY <1>7
<1>9. order \in [1 .. N -> K] /\ DOMAIN order = 1 .. N
  BY <1>8
<1> HIDE DEF order
<1>10. ASSUME NEW m \in 1 .. N, NEW n \in 1 .. N, m < n PROVE SortsBefore(order[m], order[n])
  <2>1. ASSUME order[m] = order[n] PROVE FALSE
    BY <1>8, <1>10, <2>1
  <2>2. ASSUME SortsBefore(order[n], order[m]) PROVE FALSE
    <3>1. rank[order[n]] < rank[order[m]]
      BY <1>3, <1>8, <2>2
    <3> QED
      BY <1>1, <1>8, <1>10, <3>1
  <2> QED
    BY <1>8, <2>1, <2>2 DEF Ordered
<1> QED
  BY <1>9, <1>10 DEF InOrder, N

LEMMA SortedIs ==
  ASSUME NEW K, IsFiniteSet(K), Ordered(K)
  PROVE  /\ InOrder(Sorted(K), K)
         /\ Sorted(K) \in Bijection(1 .. Cardinality(K), K)
<1> DEFINE N == Cardinality(K)
           order == Sorted(K)
<1>1. InOrder(order, K)
  <2>1. order = CHOOSE s \in [1 .. N -> K] : InOrder(s, K)
    BY DEF Sorted, InOrder
  <2>2. \E s \in [1 .. N -> K] : InOrder(s, K)
    BY SortedExists DEF InOrder
  <2> HIDE DEF order
  <2> QED
    BY <2>1, <2>2
<1>2. N \in Nat
  BY FS_CardinalityType
<1>3. order \in [1 .. N -> K] /\ DOMAIN order = 1 .. N
  BY <1>1 DEF InOrder
<1>0. IsFiniteSet(1 .. N) /\ Cardinality(1 .. N) = N
  <2>1. Cardinality(1 .. N) = IF 1 > N THEN 0 ELSE N - 1 + 1
    BY <1>2, FS_Interval
  <2> QED
    BY <1>2, <2>1, FS_Interval
<1> HIDE DEF order
<1>4. order \in Injection(1 .. N, K)
  <2>1. ASSUME NEW m \in 1 .. N, NEW n \in 1 .. N, order[m] = order[n] PROVE m = n
    <3>1. ~SortsBefore(order[m], order[n]) /\ ~SortsBefore(order[n], order[m])
      BY <1>3, <2>1 DEF Ordered
    <3>2. ~(m < n) /\ ~(n < m)
      BY <1>1, <1>3, <3>1 DEF InOrder
    <3> QED
      BY <1>2, <3>2
  <2> QED
    BY <1>3, <2>1 DEF Injection, IsInjective
<1>5. order \in Surjection(1 .. N, K)
  BY <1>0, <1>4, FS_Injection
<1> QED
  BY <1>1, <1>4, <1>5 DEF Bijection, order
-------------------------------------------------------------------------------
(* The inductive invariant. *)
Ran(k) == demand[k] # Raised

Reports(n, k) ==
  /\ configsRan[n] = Configs[k]
  /\ \E outcome \in Outcomes(Configs[k], demand[k]) :
       results[n] = Result(Configs[k], demand[k], outcome) /\ simResults[n] = outcome.peaks

DemandsKnown ==
  /\ scanned \in 0 .. Len(Configs)
  /\ IsSeq(demand) /\ Len(demand) = scanned
  /\ \A k \in 1 .. scanned : demand[k] = Raised \/ demand[k] \in Demands(Configs[k])

(* The three lists hold the runs that did not raise, each once. *)
Lists ==
  /\ IsSeq(results) /\ IsSeq(simResults) /\ IsSeq(configsRan)
  /\ Len(simResults) = Len(results) /\ Len(configsRan) = Len(results)
FromARun(n) == \E k \in 1 .. scanned : Ran(k) /\ Reports(n, k)
IsListed(k) == \E n \in 1 .. Len(results) : Reports(n, k)

ListsAligned ==
  /\ Lists
  /\ \A n \in 1 .. Len(results) : FromARun(n)
  /\ \A k \in 1 .. scanned : Ran(k) => IsListed(k)
  /\ \A m, n \in 1 .. Len(results) : results[m].key = results[n].key => m = n

Resized(was, list) == [was EXCEPT !.global = MinVoqSize, !.sizes = list]
SizedFor(n) == ComputeOptimizedVoqSizes(selected[n].config, selected[n].peaks)

(* Phase 2 is done with a candidate after one iteration. *)
ServedBy(r, n) ==
  /\ r.key = selected[n].config.key /\ r.drops = "none" /\ r.sizes = SizedFor(n)
  /\ r.memory = GetTotalBufferSize(Resized(selected[n].config, SizedFor(n)))

StageInStep ==
  /\ stage = "phase 1" => handled = 0 /\ phase2 = <<>> /\ sizes = <<>>
  /\ stage # "phase 1" =>
       /\ scanned = Len(Configs) /\ selected = SelectTopN
       /\ IsSeq(phase2) /\ handled \in 0 .. Len(selected) /\ Len(phase2) = handled
       /\ \A n \in 1 .. handled : ServedBy(phase2[n], n)
       /\ sizes # <<>> => handled < Len(selected) /\ sizes = SizedFor(handled + 1)
  /\ stage = "written" => handled = Len(selected)

ScanInvariant == DemandsKnown /\ ListsAligned /\ StageInStep

-------------------------------------------------------------------------------
(* The loops of select_top_n_candidates: as no two candidates share an     *)
(* architecture, the first takes the head of the list and the second finds *)
(* nothing to add.                                                         *)
Distinct(list) ==
  /\ IsSeq(list)
  /\ \A m, n \in 1 .. Len(list) : list[m].result.key = list[n].result.key => m = n

Shorter(m, n) == IF m <= n THEN m ELSE n
First(list, n) == [k \in 1 .. Shorter(n, TopN) |-> list[k]]

LEMMA FirstIs ==
  ASSUME NEW list, IsSeq(list), NEW n \in 0 .. Len(list)
  PROVE  /\ IsSeq(First(list, n)) /\ Len(First(list, n)) = Shorter(n, TopN)
         /\ Shorter(n, TopN) \in Nat
         /\ \A k \in 1 .. Shorter(n, TopN) : First(list, n)[k] = list[k]
<1>0. TopN \in Nat \ {0} /\ Len(list) \in Nat /\ DOMAIN list = 1 .. Len(list)
  BY ScanAssumption, SeqType
<1>1. Shorter(n, TopN) \in Nat /\ Shorter(n, TopN) <= Len(list)
  BY <1>0 DEF Shorter
<1>2. First(list, n) \in [1 .. Shorter(n, TopN) -> Range(list)]
  BY <1>0, <1>1 DEF First, Range
<1>3. IsSeq(First(list, n)) /\ Len(First(list, n)) = Shorter(n, TopN)
  BY <1>1, <1>2, FunctionIsSeq
<1> QED
  BY <1>1, <1>3 DEF First

LEMMA FirstStep ==
  ASSUME NEW list, Distinct(list), NEW n \in 1 .. Len(list)
  PROVE  First(list, n) = IF Picks(First(list, n - 1), list[n])
                          THEN Append(First(list, n - 1), list[n]) ELSE First(list, n - 1)
<1> DEFINE f == First(list, n - 1)
           g == First(list, n)
<1>0. TopN \in Nat \ {0} /\ IsSeq(list) /\ Len(list) \in Nat /\ n \in Nat /\ n # 0
  BY ScanAssumption, SeqType DEF Distinct
<1>1. n - 1 \in 0 .. Len(list) /\ n \in 0 .. Len(list)
  BY <1>0
<1>2. IsSeq(f) /\ Len(f) = Shorter(n - 1, TopN) /\ \A k \in 1 .. Len(f) : f[k] = list[k]
  BY <1>0, <1>1, FirstIs
<1>3. CASE n <= TopN
  <2>1. Shorter(n - 1, TopN) = n - 1 /\ Shorter(n, TopN) = n
    BY <1>0, <1>3 DEF Shorter
  <2>2. Picks(f, list[n])
    <3>1. ASSUME NEW k \in DOMAIN f PROVE f[k].result.key # list[n].result.key
      <4>1. k \in 1 .. n - 1 /\ f[k] = list[k]
        BY <1>2, <2>1, SeqType
      <4>2. k \in 1 .. Len(list) /\ k # n
        BY <1>0, <4>1
      <4> QED
        BY <4>1, <4>2 DEF Distinct
    <3>2. Len(f) < TopN
      BY <1>0, <1>2, <1>3, <2>1
    <3> QED
      BY <3>1, <3>2 DEF Picks
  <2>3. g = Append(f, list[n])
    <3> DEFINE t == Append(f, list[n])
    <3>1. IsSeq(t) /\ Len(t) = n /\ t[n] = list[n] /\ \A k \in 1 .. n - 1 : t[k] = list[k]
      <4>1. Len(f) = n - 1 /\ (n - 1) + 1 = n
        BY <1>0, <1>2, <2>1
      <4> QED
        BY <1>2, <4>1, AppendIs
    <3>2. t = [k \in 1 .. n |-> t[k]]
      <4> HIDE DEF t
      <4> QED
        BY <3>1, SeqIsFunction
    <3>3. g = [k \in 1 .. n |-> list[k]]
      BY <2>1 DEF First
    <3> HIDE DEF t, g
    <3>4. \A k \in 1 .. n : t[k] = list[k]
      BY <1>0, <3>1
    <3>5. t = g
      BY <3>2, <3>3, <3>4
    <3> QED
      BY <3>5 DEF t
  <2> QED
    BY <2>2, <2>3
<1>4. CASE n > TopN
  <2>1. Shorter(n - 1, TopN) = TopN /\ Shorter(n, TopN) = TopN
    BY <1>0, <1>4 DEF Shorter
  <2>2. ~Picks(f, list[n])
    BY <1>0, <1>2, <2>1 DEF Picks
  <2>3. f = g
    BY <2>1 DEF First
  <2> QED
    BY <2>2, <2>3
<1> QED
  BY <1>0, <1>3, <1>4

LEMMA PickedIs ==
  ASSUME Distinct(Candidates)
  PROVE  Picked = First(Candidates, Len(Candidates))
<1> DEFINE C == Candidates
           N == Len(C)
           E(g) == g = [n \in 0 .. N |->
                          IF n = 0 THEN <<>>
                          ELSE IF Picks(g[n - 1], C[n]) THEN Append(g[n - 1], C[n]) ELSE g[n - 1]]
           h == CHOOSE g : E(g)
           w == [n \in 0 .. N |-> First(C, n)]
<1>1. Picked = h[N]
  BY DEF Picked
<1>2. N \in Nat /\ IsSeq(C)
  BY SeqType DEF Distinct
<1>3. First(C, 0) = <<>>
  <2>1. 0 \in 0 .. N /\ Shorter(0, TopN) = 0
    BY <1>2, ScanAssumption DEF Shorter
  <2>2. IsSeq(First(C, 0)) /\ Len(First(C, 0)) = 0
    BY <1>2, <2>1, FirstIs
  <2> HIDE DEF C
  <2> QED
    BY <2>2, EmptyIsSeq
<1>4. \A n \in 1 .. N : First(C, n) = IF Picks(First(C, n - 1), C[n])
                                      THEN Append(First(C, n - 1), C[n]) ELSE First(C, n - 1)
  BY FirstStep
<1> HIDE DEF C
<1>5. E(w)
  <2>1. ASSUME NEW n \in 0 .. N, n # 0
        PROVE  w[n] = IF Picks(w[n - 1], C[n]) THEN Append(w[n - 1], C[n]) ELSE w[n - 1]
    <3>1. n \in 1 .. N /\ n - 1 \in 0 .. N
      BY <1>2, <2>1
    <3>2. w[n] = First(C, n) /\ w[n - 1] = First(C, n - 1)
      BY <3>1
    <3> HIDE DEF w
    <3> QED
      BY <1>4, <3>1, <3>2
  <2>2. w[0] = <<>> /\ w = [n \in 0 .. N |-> w[n]]
    BY <1>2, <1>3
  <2> HIDE DEF w, N
  <2> QED
    BY <2>1, <2>2
<1>6. E(h)
  <2> HIDE DEF E, w
  <2> QED
    BY <1>5
<1> HIDE DEF h
<1>7. h[0] = <<>> /\ \A n \in 1 .. N : h[n] = IF Picks(h[n - 1], C[n])
                                              THEN Append(h[n - 1], C[n]) ELSE h[n - 1]
  <2> HIDE DEF N
  <2>1. 0 \in 0 .. N /\ \A n \in 1 .. N : n \in 0 .. N /\ n # 0
    BY <1>2
  <2> QED
    BY <1>6, <2>1
<1> HIDE DEF E
<1> DEFINE T == {n \in 0 .. N : h[n] = First(C, n)}
<1>8. 0 \in T
  BY <1>2, <1>3, <1>7
<1>9. ASSUME NEW n \in 0 .. N - 1, n \in T PROVE n + 1 \in T
  <2>1. n + 1 \in 1 .. N /\ n + 1 \in 0 .. N /\ (n + 1) - 1 = n
    BY <1>2
  <2>2. h[n + 1] = First(C, n + 1)
    BY <1>4, <1>7, <1>9, <2>1
  <2> QED
    BY <2>1, <2>2
<1> HIDE DEF T, N
<1>10. \A n \in 0 .. N : n \in T
  BY <1>2, <1>8, <1>9, Induct
<1>11. h[N] = First(C, N)
  BY <1>2, <1>10 DEF T
<1> QED
  BY <1>1, <1>11 DEF C, N

LEMMA NothingToFill ==
  ASSUME NEW list, IsSeq(list), NEW n \in 1 .. Len(list)
  PROVE  ~Fills(First(list, Len(list)), list[n])
<1> DEFINE f == First(list, Len(list))
<1>0. TopN \in Nat \ {0} /\ Len(list) \in Nat /\ Len(list) \in 0 .. Len(list)
  BY ScanAssumption, SeqType
<1>1. Len(f) = Shorter(Len(list), TopN) /\ \A k \in 1 .. Len(f) : f[k] = list[k]
  BY <1>0, FirstIs
<1>2. CASE TopN <= Len(list)
  <2>1. Len(f) = TopN
    BY <1>0, <1>1, <1>2 DEF Shorter
  <2> QED
    BY <1>0, <2>1 DEF Fills
<1>3. CASE Len(list) < TopN
  <2>1. Len(f) = Len(list)
    BY <1>0, <1>1, <1>3 DEF Shorter
  <2>2. n \in 1 .. Len(f) /\ f[n] = list[n]
    BY <1>1, <2>1
  <2> QED
    BY <2>2 DEF Fills, Contains
<1> QED
  BY <1>0, <1>2, <1>3

LEMMA SelectTopNIs ==
  ASSUME Distinct(Candidates)
  PROVE  SelectTopN = First(Candidates, Len(Candidates))
<1> DEFINE C == Candidates
           N == Len(C)
           p == Picked
           E(g) == g = [n \in 0 .. N |->
                          IF n = 0 THEN p
                          ELSE IF Fills(g[n - 1], C[n]) THEN Append(g[n - 1], C[n]) ELSE g[n - 1]]
           h == CHOOSE g : E(g)
           w == [n \in 0 .. N |-> p]
<1>1. SelectTopN = h[N]
  BY DEF SelectTopN
<1>2. N \in Nat /\ IsSeq(C)
  BY SeqType DEF Distinct
<1>3. p = First(C, N)
  BY PickedIs
<1>4. \A n \in 1 .. N : ~Fills(p, C[n])
  BY <1>2, <1>3, NothingToFill
<1> HIDE DEF C, p
<1>5. E(w)
  <2>1. ASSUME NEW n \in 0 .. N, n # 0
        PROVE  w[n] = IF Fills(w[n - 1], C[n]) THEN Append(w[n - 1], C[n]) ELSE w[n - 1]
    <3>1. n \in 1 .. N /\ n - 1 \in 0 .. N
      BY <1>2, <2>1
    <3>2. w[n] = p /\ w[n - 1] = p
      BY <3>1
    <3> HIDE DEF w
    <3> QED
      BY <1>4, <3>1, <3>2
  <2>2. w[0] = p /\ w = [n \in 0 .. N |-> w[n]]
    BY <1>2
  <2> HIDE DEF w, N
  <2> QED
    BY <2>1, <2>2
<1>6. E(h)
  <2> HIDE DEF E, w
  <2> QED
    BY <1>5
<1> HIDE DEF h
<1>7. h[0] = p /\ \A n \in 1 .. N : h[n] = IF Fills(h[n - 1], C[n])
                                           THEN Append(h[n - 1], C[n]) ELSE h[n - 1]
  <2> HIDE DEF N
  <2>1. 0 \in 0 .. N /\ \A n \in 1 .. N : n \in 0 .. N /\ n # 0
    BY <1>2
  <2> QED
    BY <1>6, <2>1
<1> HIDE DEF E
<1> DEFINE T == {n \in 0 .. N : h[n] = p}
<1>8. 0 \in T
  BY <1>2, <1>7
<1>9. ASSUME NEW n \in 0 .. N - 1, n \in T PROVE n + 1 \in T
  <2>1. n + 1 \in 1 .. N /\ n + 1 \in 0 .. N /\ (n + 1) - 1 = n
    BY <1>2
  <2>2. h[n + 1] = p
    BY <1>4, <1>7, <1>9, <2>1
  <2> QED
    BY <2>1, <2>2
<1> HIDE DEF T, N
<1>10. \A n \in 0 .. N : n \in T
  BY <1>2, <1>8, <1>9, Induct
<1>11. h[N] = p
  BY <1>2, <1>10 DEF T
<1> QED
  BY <1>1, <1>3, <1>11 DEF C, N

-------------------------------------------------------------------------------
(* Configurations and what is reported of them. *)
LEMMA ConfigIs ==
  /\ IsSeq(Configs) /\ Len(Configs) \in Nat /\ DOMAIN Configs = 1 .. Len(Configs)
  /\ \A k \in 1 .. Len(Configs) :
       Configs[k] = [key |-> Architectures[k].key, buffer |-> Architectures[k].buffer,
                     ports |-> NumPorts, global |-> LargeVoqSize, sizes |-> <<>>]
  /\ \A k, m \in 1 .. Len(Configs) : Configs[k].key = Configs[m].key => k = m
<1> DEFINE N == Len(Architectures)
           S == {[key |-> Architectures[k].key, buffer |-> Architectures[k].buffer,
                  ports |-> NumPorts, global |-> LargeVoqSize, sizes |-> <<>>] : k \in 1 .. N}
<1>1. N \in Nat /\ DOMAIN Architectures = 1 .. N
  BY ScanAssumption, SeqType DEF IsSeq
<1>2. Configs \in [1 .. N -> S] /\ DOMAIN Configs = 1 .. N
  BY <1>1 DEF Configs
<1>3. IsSeq(Configs) /\ Len(Configs) = N
  <2> HIDE DEF S, N
  <2> QED
    BY <1>1, <1>2, FunctionIsSeq
<1>4. \A k \in 1 .. N :
        Configs[k] = [key |-> Architectures[k].key, buffer |-> Architectures[k].buffer,
                      ports |-> NumPorts, global |-> LargeVoqSize, sizes |-> <<>>]
  BY <1>1 DEF Configs
<1>5. \A k, m \in 1 .. N : Configs[k].key = Configs[m].key => k = m
  <2>1. ASSUME NEW k \in 1 .. N PROVE Configs[k].key = Architectures[k].key
    <3> HIDE DEF N
    <3>1. Configs[k] = [key |-> Architectures[k].key, buffer |-> Architectures[k].buffer,
                        ports |-> NumPorts, global |-> LargeVoqSize, sizes |-> <<>>]
      BY <1>4
    <3> QED
      BY <3>1
  <2> HIDE DEF N
  <2> QED
    BY <1>1, <2>1, ScanAssumption
<1> QED
  BY <1>1, <1>2, <1>3, <1>4, <1>5

LEMMA IndexOfIs ==
  ASSUME NEW k \in 1 .. Len(Configs), NEW cfg, cfg.key = Configs[k].key
  PROVE  IndexOf(cfg) = k
  BY ConfigIs DEF IndexOf

LEMMA PortsIs ==
  ASSUME NEW k \in 1 .. Len(Configs)
  PROVE  /\ Configs[k].ports = NumPorts /\ NumPorts \in Nat \ {0}
         /\ Configs[k].global = LargeVoqSize /\ Configs[k].sizes = <<>>
  BY ConfigIs, ScanAssumption

(* A run of an architecture, and what its report has in common with it. *)
RanWith(k) == k \in 1 .. scanned /\ Ran(k) /\ demand[k] \in Demands(Configs[k])

LEMMA RunIs ==
  ASSUME DemandsKnown, NEW k \in 1 .. scanned, Ran(k)
  PROVE  /\ RanWith(k) /\ k \in 1 .. Len(Configs)
         /\ demand[k].need \in [Queues(Configs[k]) -> Nat]
         /\ demand[k].latency \in Nat /\ demand[k].throughput \in Nat
<1>1. scanned \in Nat /\ Len(Configs) \in Nat /\ scanned <= Len(Configs)
  BY ConfigIs DEF DemandsKnown
<1>2. demand[k] \in Demands(Configs[k])
  BY DEF DemandsKnown, Ran
<1>3. Amounts \subseteq Nat /\ Latencies \subseteq Nat /\ Throughputs \subseteq Nat
  BY ScanAssumption
<1>4. /\ demand[k].need \in [Queues(Configs[k]) -> Amounts]
      /\ demand[k].latency \in Latencies /\ demand[k].throughput \in Throughputs
  BY <1>2 DEF Demands
<1>5. demand[k].need \in [Queues(Configs[k]) -> Nat]
  BY <1>3, <1>4
<1>6. demand[k].latency \in Nat /\ demand[k].throughput \in Nat
  BY <1>3, <1>4
<1>7. RanWith(k) /\ k \in 1 .. Len(Configs)
  BY <1>1, <1>2 DEF RanWith
<1> QED
  BY <1>5, <1>6, <1>7

ReportOf(n, k) ==
  /\ configsRan[n] = Configs[k] /\ results[n].key = Configs[k].key
  /\ results[n].latency = demand[k].latency /\ results[n].throughput = demand[k].throughput
  /\ results[n].drops = "none" <=> Fits(Configs[k], demand[k].need)
  /\ results[n].drops = "none" => simResults[n] = demand[k].need

LEMMA ReportIs ==
  ASSUME DemandsKnown, NEW k \in 1 .. scanned, Ran(k), NEW n, Reports(n, k)
  PROVE  ReportOf(n, k)
<1> DEFINE cfg == Configs[k]
           d == demand[k]
<1>1. PICK outcome \in Outcomes(cfg, d) :
        results[n] = Result(cfg, d, outcome) /\ simResults[n] = outcome.peaks
  BY DEF Reports
<1>2. /\ outcome.drops = "none" <=> Fits(cfg, d.need)
      /\ outcome.peaks = [q \in Queues(cfg) |->
           IF d.need[q] <= GetVoqSize(cfg, q) THEN d.need[q] ELSE GetVoqSize(cfg, q)]
  BY <1>1 DEF Outcomes
<1>3. d.need = [q \in Queues(cfg) |-> d.need[q]]
  BY RunIs
<1>4. Fits(cfg, d.need) => outcome.peaks = d.need
  <2> HIDE DEF cfg, d
  <2> QED
    BY <1>2, <1>3 DEF Fits
<1>5. /\ results[n].key = cfg.key /\ results[n].drops = outcome.drops
      /\ results[n].latency = d.latency /\ results[n].throughput = d.throughput
  BY <1>1 DEF Result
<1> QED
  BY <1>1, <1>2, <1>4, <1>5 DEF Reports, ReportOf

-------------------------------------------------------------------------------
(* The candidates, and those that are selected. *)
Clean == {n \in DOMAIN results : results[n].drops = "none"}

LEMMA ResultsAre ==
  ASSUME DemandsKnown, ListsAligned
  PROVE  /\ Len(results) \in Nat /\ DOMAIN results = 1 .. Len(results)
         /\ \A n \in 1 .. Len(results) : \E k \in 1 .. scanned : Ran(k) /\ ReportOf(n, k)
         /\ \A n \in 1 .. Len(results) :
              results[n].latency \in Nat /\ results[n].throughput \in Nat
<1>1. Len(results) \in Nat /\ DOMAIN results = 1 .. Len(results)
  BY SeqType DEF ListsAligned, Lists
<1>2. ASSUME NEW n \in 1 .. Len(results)
      PROVE  /\ \E k \in 1 .. scanned : Ran(k) /\ ReportOf(n, k)
             /\ results[n].latency \in Nat /\ results[n].throughput \in Nat
  <2>1. PICK k \in 1 .. scanned : Ran(k) /\ Reports(n, k)
    BY DEF ListsAligned, FromARun
  <2>2. ReportOf(n, k)
    BY <2>1, ReportIs
  <2>3. demand[k].latency \in Nat /\ demand[k].throughput \in Nat
    BY <2>1, RunIs
  <2>4. results[n].latency \in Nat /\ results[n].throughput \in Nat
    BY <2>2, <2>3 DEF ReportOf
  <2> QED
    BY <2>1, <2>2, <2>4
<1> QED
  BY <1>1, <1>2

LEMMA CleanIs ==
  ASSUME DemandsKnown, ListsAligned
  PROVE  /\ IsFiniteSet(Clean) /\ Ordered(Clean) /\ Cardinality(Clean) \in Nat
         /\ Clean \subseteq 1 .. Len(results)
<1>1. Clean \subseteq 1 .. Len(results) /\ Clean \in SUBSET Nat
  BY ResultsAre DEF Clean
<1>2. IsFiniteSet(Clean)
  <2>1. IsFiniteSet(1 .. Len(results))
    BY ResultsAre, FS_Interval
  <2> QED
    BY <1>1, <2>1, FS_Subset
<1>3. \A n \in Clean : results[n].latency \in Nat /\ results[n].throughput \in Nat
  BY <1>1, ResultsAre
<1> QED
  BY <1>1, <1>2, <1>3, OrderedByFigures, FS_CardinalityType

Place(n) == Sorted(Clean)[n]

LEMMA PlacesAre ==
  ASSUME DemandsKnown, ListsAligned
  PROVE  /\ \A n \in 1 .. Cardinality(Clean) : Place(n) \in Clean
         /\ \A k \in Clean : \E n \in 1 .. Cardinality(Clean) : Place(n) = k
         /\ \A m, n \in 1 .. Cardinality(Clean) : Place(m) = Place(n) => m = n
         /\ \A m, n \in 1 .. Cardinality(Clean) :
              m < n => ~Better(results[Place(n)], results[Place(m)])
<1> DEFINE N == Cardinality(Clean)
           order == Sorted(Clean)
<1>1. InOrder(order, Clean) /\ order \in Bijection(1 .. N, Clean)
  BY CleanIs, SortedIs
<1> HIDE DEF order
<1>2. order \in [1 .. N -> Clean] /\ DOMAIN order = 1 .. N
  BY <1>1 DEF InOrder
<1>3. \A k \in Clean : \E n \in 1 .. N : order[n] = k
  BY <1>1 DEF Bijection, Surjection
<1>4. \A m, n \in 1 .. N : order[m] = order[n] => m = n
  BY <1>1 DEF Bijection, Injection, IsInjective
<1>5. ASSUME NEW m \in 1 .. N, NEW n \in 1 .. N, m < n
      PROVE  ~Better(results[order[n]], results[order[m]])
  <2>1. SortsBefore(order[m], order[n])
    BY <1>1, <1>2, <1>5 DEF InOrder
  <2>2. order[m] \in 1 .. Len(results) /\ order[n] \in 1 .. Len(results)
    BY <1>2, CleanIs
  <2>3. /\ results[order[m]].latency \in Nat /\ results[order[m]].throughput \in Nat
        /\ results[order[n]].latency \in Nat /\ results[order[n]].throughput \in Nat
    BY <2>2, ResultsAre
  <2> QED
    BY <2>1, <2>3 DEF SortsBefore, Better
<1> QED
  BY <1>2, <1>3, <1>4, <1>5 DEF order, Place

LEMMA CandidatesAre ==
  ASSUME DemandsKnown, ListsAligned
  PROVE  /\ Distinct(Candidates) /\ Len(Candidates) = Cardinality(Clean)
         /\ \A n \in 1 .. Cardinality(Clean) : Candidates[n] = Candidate(Place(n))
<1> DEFINE N == Cardinality(Clean)
           S == {Candidate(k) : k \in Clean}
<1>0. N \in Nat
  BY CleanIs
<1>1. Sorted(Clean) \in [1 .. N -> Clean]
  BY CleanIs, SortedIs DEF InOrder
<1>2. Candidates = [n \in 1 .. N |-> Candidate(Place(n))]
  BY <1>1 DEF Candidates, Clean, Place
<1>3. Candidates \in [1 .. N -> S] /\ \A n \in 1 .. N : Candidates[n] = Candidate(Place(n))
  BY <1>2, PlacesAre
<1> HIDE DEF N, S
<1>4. IsSeq(Candidates) /\ Len(Candidates) = N
  BY <1>0, <1>3, FunctionIsSeq
<1>5. ASSUME NEW m \in 1 .. N, NEW n \in 1 .. N,
             Candidates[m].result.key = Candidates[n].result.key
      PROVE  m = n
  <2>1. results[Place(m)].key = results[Place(n)].key
    BY <1>3, <1>5 DEF Candidate
  <2>2. Place(m) \in 1 .. Len(results) /\ Place(n) \in 1 .. Len(results)
    BY PlacesAre, CleanIs DEF N
  <2>3. Place(m) = Place(n)
    BY <2>1, <2>2 DEF ListsAligned
  <2> QED
    BY <2>3, PlacesAre DEF N
<1> QED
  BY <1>3, <1>4, <1>5 DEF Distinct, N

LEMMA SelectionIs ==
  ASSUME DemandsKnown, ListsAligned
  PROVE  /\ IsSeq(SelectTopN) /\ Len(SelectTopN) = Shorter(Cardinality(Clean), TopN)
         /\ \A n \in 1 .. Len(SelectTopN) :
              n \in 1 .. Cardinality(Clean) /\ SelectTopN[n] = Candidate(Place(n))
<1> DEFINE N == Cardinality(Clean)
<1>1. N \in Nat /\ N \in 0 .. N /\ TopN \in Nat \ {0}
  BY CleanIs, ScanAssumption
<1>2. Distinct(Candidates) /\ Len(Candidates) = N
  BY CandidatesAre
<1>3. SelectTopN = First(Candidates, N)
  BY <1>2, SelectTopNIs
<1>4. IsSeq(Candidates)
  BY <1>2 DEF Distinct
<1>5. /\ IsSeq(SelectTopN) /\ Len(SelectTopN) = Shorter(N, TopN)
      /\ \A k \in 1 .. Shorter(N, TopN) : SelectTopN[k] = Candidates[k]
  <2> HIDE DEF N
  <2> QED
    BY <1>1, <1>2, <1>3, <1>4, FirstIs
<1>6. \A k \in 1 .. Shorter(N, TopN) : k \in 1 .. N
  BY <1>1 DEF Shorter
<1> QED
  BY <1>5, <1>6, CandidatesAre

(* A candidate is an architecture that ran without drops. *)
Chosen(c, k) ==
  /\ k \in 1 .. Len(Configs) /\ RanWith(k) /\ Fits(Configs[k], demand[k].need)
  /\ c.config = Configs[k] /\ c.peaks = demand[k].need

LEMMA ChosenIs ==
  ASSUME DemandsKnown, ListsAligned, NEW n \in 1 .. Len(SelectTopN)
  PROVE  \E k \in 1 .. scanned : Chosen(SelectTopN[n], k) /\ ReportOf(Place(n), k)
<1>1. n \in 1 .. Cardinality(Clean) /\ SelectTopN[n] = Candidate(Place(n))
  BY SelectionIs
<1>2. Place(n) \in 1 .. Len(results) /\ results[Place(n)].drops = "none"
  BY <1>1, PlacesAre, CleanIs DEF Clean
<1>3. PICK k \in 1 .. scanned : Ran(k) /\ ReportOf(Place(n), k)
  BY <1>2, ResultsAre
<1>4. RanWith(k) /\ k \in 1 .. Len(Configs)
  BY <1>3, RunIs
<1>5. /\ SelectTopN[n].config = configsRan[Place(n)]
      /\ SelectTopN[n].peaks = simResults[Place(n)]
  BY <1>1 DEF Candidate
<1> QED
  BY <1>2, <1>3, <1>4, <1>5 DEF Chosen, ReportOf

(* Whichever runs raised, the best are selected. *)
LEMMA Best ==
  ASSUME DemandsKnown, ListsAligned, scanned = Len(Configs), selected = SelectTopN
  PROVE  SelectedAreBest
<1> DEFINE L == Len(selected)
           N == Cardinality(Clean)
           ix(n) == IndexOf(selected[n].config)
           taken == {ix(n) : n \in DOMAIN selected}
           passed == {k \in DOMAIN Configs : RanWithoutDrops(k)} \ taken
<1>1. /\ N \in Nat /\ L \in Nat /\ DOMAIN selected = 1 .. L /\ L = Shorter(N, TopN)
      /\ TopN \in Nat \ {0} /\ L <= N
  <2>1. N \in Nat /\ TopN \in Nat \ {0}
    BY CleanIs, ScanAssumption
  <2>2. IsSeq(selected) /\ L = Shorter(N, TopN)
    BY SelectionIs
  <2>3. L \in Nat /\ DOMAIN selected = 1 .. L
    BY <2>2, SeqType
  <2> HIDE DEF L, N
  <2> QED
    BY <2>1, <2>2, <2>3 DEF Shorter
<1>2. ASSUME NEW n \in 1 .. L
      PROVE  /\ ix(n) \in 1 .. scanned /\ Chosen(selected[n], ix(n)) /\ ReportOf(Place(n), ix(n))
             /\ n \in 1 .. N
  <2>1. PICK k \in 1 .. scanned : Chosen(selected[n], k) /\ ReportOf(Place(n), k)
    BY ChosenIs
  <2>2. ix(n) = k
    BY <2>1, IndexOfIs DEF Chosen
  <2> QED
    BY <1>1, <2>1, <2>2
<1>3. ASSUME NEW m \in 1 .. L, NEW n \in 1 .. L, ix(m) = ix(n) PROVE m = n
  <2>1. results[Place(m)].key = results[Place(n)].key /\ m \in 1 .. N /\ n \in 1 .. N
    BY <1>2, <1>3 DEF ReportOf
  <2>2. Place(m) \in 1 .. Len(results) /\ Place(n) \in 1 .. Len(results)
    BY <2>1, PlacesAre, CleanIs
  <2>3. Place(m) = Place(n)
    BY <2>1, <2>2 DEF ListsAligned
  <2> QED
    BY <2>1, <2>3, PlacesAre
<1>4. ASSUME NEW k \in passed
      PROVE  \E j \in 1 .. N : L < j /\ ReportOf(Place(j), k)
  <2>1. k \in 1 .. scanned /\ k \in 1 .. Len(Configs) /\ Ran(k) /\ Fits(Configs[k], demand[k].need)
    BY ConfigIs DEF RanWithoutDrops, Ran
  <2>2. PICK r \in 1 .. Len(results) : Reports(r, k)
    BY <2>1 DEF ListsAligned, IsListed
  <2>3. ReportOf(r, k)
    BY <2>1, <2>2, ReportIs
  <2>4. r \in Clean
    BY <2>1, <2>3, ResultsAre DEF Clean, ReportOf
  <2>5. PICK j \in 1 .. N : Place(j) = r
    BY <2>4, PlacesAre
  <2>6. ASSUME j \in 1 .. L PROVE FALSE
    <3>1. ReportOf(r, ix(j)) /\ ix(j) \in 1 .. Len(Configs)
      BY <1>2, <2>5, <2>6
    <3>2. Configs[ix(j)].key = Configs[k].key
      BY <2>3, <3>1 DEF ReportOf
    <3>3. ix(j) = k
      BY <2>1, <3>1, <3>2, ConfigIs
    <3> QED
      BY <1>1, <2>6, <3>3
  <2>7. L < j
    BY <1>1, <2>6
  <2> QED
    BY <2>3, <2>5, <2>7
<1>5. ASSUME NEW n \in 1 .. L, NEW m \in passed PROVE ~Better(demand[m], demand[ix(n)])
  <2>1. PICK j \in 1 .. N : L < j /\ ReportOf(Place(j), m)
    BY <1>4
  <2>2. ReportOf(Place(n), ix(n)) /\ n \in 1 .. N /\ n < j
    BY <1>1, <1>2, <2>1
  <2>3. ~Better(results[Place(j)], results[Place(n)])
    BY <2>2, PlacesAre
  <2> HIDE DEF ix
  <2> QED
    BY <2>1, <2>2, <2>3 DEF ReportOf, Better
<1>6. ASSUME NEW n \in 1 .. L
      PROVE RanWithoutDrops(ix(n)) /\ selected[n].peaks = demand[ix(n)].need
  BY <1>2 DEF Chosen, RanWith, Ran, RanWithoutDrops
<1>7. ASSUME passed # {} PROVE Cardinality(taken) = TopN
  <2>1. L = TopN
    <3>1. PICK k \in passed : TRUE
      BY <1>7
    <3>2. PICK j \in 1 .. N : L < j
      BY <1>4
    <3> HIDE DEF L, N
    <3> QED
      BY <1>1, <3>2 DEF Shorter
  <2> DEFINE f == [n \in 1 .. L |-> ix(n)]
  <2>2. f \in Bijection(1 .. L, taken)
    <3>1. f \in [1 .. L -> taken] /\ \A k \in taken : \E n \in 1 .. L : f[n] = k
      BY <1>1
    <3>2. \A m, n \in 1 .. L : f[m] = f[n] => m = n
      BY <1>3
    <3> HIDE DEF f, taken, L
    <3> QED
      BY <3>1, <3>2 DEF Bijection, Injection, IsInjective, Surjection
  <2>3. ExistsBijection(1 .. L, taken)
    BY <2>2 DEF ExistsBijection
  <2>4. Cardinality(taken) = L
    BY <1>1, <2>3, FS_CountingElements
  <2> QED
    BY <2>1, <2>4
<1>8. \A n \in DOMAIN selected :
        LET k == ix(n)
        IN RanWithoutDrops(k) /\ selected[n].peaks = demand[k].need
           /\ \A m \in passed : ~Better(demand[m], demand[k])
  BY <1>1, <1>5, <1>6
<1> QED
  BY <1>7, <1>8 DEF SelectedAreBest

-------------------------------------------------------------------------------
(* Phase 2. *)
LEMMA ResizedIs ==
  ASSUME NEW k \in 1 .. Len(Configs), NEW list
  PROVE  LET was == Configs[k]
             cfg == Resized(was, list)
         IN /\ cfg.key = was.key /\ cfg.sizes = list /\ cfg.global = MinVoqSize
            /\ cfg.ports = NumPorts /\ cfg.buffer = was.buffer
            /\ Queues(cfg) = Queues(was) /\ SizeCount(cfg) = SizeCount(was)
            /\ PerPort(cfg) <=> PerPort(was)
            /\ \A q : SizeIndex(cfg, q) = SizeIndex(was, q)
<1> DEFINE was == Configs[k]
           cfg == Resized(was, list)
<1>1. was = [key |-> Architectures[k].key, buffer |-> Architectures[k].buffer,
             ports |-> NumPorts, global |-> LargeVoqSize, sizes |-> <<>>]
  BY ConfigIs
<1>2. cfg = [key |-> Architectures[k].key, buffer |-> Architectures[k].buffer,
             ports |-> NumPorts, global |-> MinVoqSize, sizes |-> list]
  <2>1. cfg = [was EXCEPT !.global = MinVoqSize, !.sizes = list]
    BY DEF Resized
  <2> HIDE DEF was, cfg
  <2> QED
    BY <1>1, <2>1
<1>3. /\ cfg.key = was.key /\ cfg.sizes = list /\ cfg.global = MinVoqSize
      /\ cfg.ports = NumPorts /\ was.ports = NumPorts /\ cfg.buffer = was.buffer
  BY <1>1, <1>2
<1> HIDE DEF was, cfg
<1>4. PerPort(cfg) <=> PerPort(was)
  BY <1>3 DEF PerPort
<1>5. Queues(cfg) = Queues(was) /\ SizeCount(cfg) = SizeCount(was)
  BY <1>3, <1>4 DEF Queues, SizeCount
<1>6. \A q : SizeIndex(cfg, q) = SizeIndex(was, q)
  BY <1>3, <1>4 DEF SizeIndex
<1> QED
  BY <1>3, <1>4, <1>5, <1>6 DEF cfg, was

(* A list of sizes that suffices. *)
Suffices(was, list, need) ==
  LET cfg == Resized(was, list)
  IN /\ list # <<>> /\ ValidateVoqSizes(cfg) /\ Fits(cfg, need)
     /\ \A q \in Queues(cfg) : \/ GetVoqSize(cfg, q) = MinVoqSize
                               \/ GetVoqSize(cfg, q) < 2 * need[q]
     /\ GetTotalBufferSize(cfg) <= GetTotalBufferSize(was)

LEMMA OptimizedIsEnough ==
  ASSUME DemandsKnown, NEW k \in 1 .. Len(Configs), RanWith(k), Fits(Configs[k], demand[k].need)
  PROVE  LET list == ComputeOptimizedVoqSizes(Configs[k], demand[k].need)
         IN IsSeq(list) /\ Suffices(Configs[k], list, demand[k].need)
<1> DEFINE was == Configs[k]
           need == demand[k].need
           list == ComputeOptimizedVoqSizes(was, need)
           cfg == Resized(was, list)
<1>1. was.ports = NumPorts /\ NumPorts \in Nat \ {0} /\ was.global = LargeVoqSize /\ was.sizes = <<>>
  BY PortsIs
<1>2. \A q \in Queues(was) : need[q] \in 0 .. LargeVoqSize
  <2>1. \A q \in Queues(was) : need[q] \in Nat
    BY RunIs DEF RanWith
  <2>2. \A q \in Queues(was) : GetVoqSize(was, q) = LargeVoqSize
    BY <1>1 DEF GetVoqSize
  <2>3. LargeVoqSize \in Nat
    BY ScanAssumption
  <2>4. Fits(was, need)
    OBVIOUS
  <2> HIDE DEF was, need
  <2> QED
    BY <2>1, <2>2, <2>3, <2>4 DEF Fits
<1>3. /\ cfg.sizes = list /\ cfg.ports = NumPorts
      /\ Queues(cfg) = Queues(was) /\ SizeCount(cfg) = SizeCount(was)
      /\ PerPort(cfg) <=> PerPort(was)
      /\ \A q : SizeIndex(cfg, q) = SizeIndex(was, q)
  BY ResizedIs
<1> HIDE DEF was, need
<1>4. /\ IsSeq(list) /\ Len(list) = SizeCount(was) /\ list # <<>>
      /\ \A i \in 1 .. Len(list) : list[i] \in 0 .. LargeVoqSize
      /\ \A q \in Queues(was) :
           LET size == list[SizeIndex(was, q)]
           IN /\ SizeIndex(was, q) \in DOMAIN list /\ need[q] <= size
              /\ size = MinVoqSize \/ size < 2 * need[q]
      /\ SumOf(list) <= IF PerPort(was) THEN LargeVoqSize * was.ports
                        ELSE LargeVoqSize * was.ports * (was.ports - 1)
  BY <1>1, <1>2, OptimizedSizes
<1> HIDE DEF list, cfg
<1>5. \A q \in Queues(cfg) : GetVoqSize(cfg, q) = list[SizeIndex(was, q)]
  BY <1>3, <1>4 DEF GetVoqSize
<1>6. ValidateVoqSizes(cfg)
  <2>1. DOMAIN list = 1 .. Len(list) /\ Len(list) = SizeCount(cfg)
    BY <1>3, <1>4, SeqType
  <2>2. \A i \in DOMAIN list : list[i] >= 0
    BY <1>4, <2>1
  <2> QED
    BY <1>3, <2>1, <2>2 DEF ValidateVoqSizes, SizeCount
<1>7. Fits(cfg, need)
  BY <1>3, <1>4, <1>5 DEF Fits
<1>8. \A q \in Queues(cfg) : GetVoqSize(cfg, q) = MinVoqSize \/ GetVoqSize(cfg, q) < 2 * need[q]
  BY <1>3, <1>4, <1>5
<1>9. GetTotalBufferSize(cfg) <= GetTotalBufferSize(was)
  <2>1. GetTotalBufferSize(cfg) = SumOf(list)
    BY <1>3, <1>4 DEF GetTotalBufferSize
  <2>2. GetTotalBufferSize(was) = IF PerPort(was) THEN LargeVoqSize * was.ports
                                  ELSE LargeVoqSize * was.ports * (was.ports - 1)
    BY <1>1 DEF GetTotalBufferSize
  <2> QED
    BY <1>4, <2>1, <2>2
<1>10. Suffices(was, list, need)
  BY <1>4, <1>6, <1>7, <1>8, <1>9 DEF Suffices, cfg
<1> QED
  BY <1>4, <1>10 DEF was, need, list

LEMMA Sufficient ==
  ASSUME DemandsKnown, ListsAligned, StageInStep
  PROVE  OptimizedSuffices
<1>1. SUFFICES ASSUME stage = "written" PROVE OptimizedSuffices
  BY DEF OptimizedSuffices
<1>2. /\ selected = SelectTopN /\ handled = Len(selected) /\ IsSeq(phase2) /\ Len(phase2) = handled
      /\ \A n \in 1 .. handled : ServedBy(phase2[n], n)
  BY <1>1 DEF StageInStep
<1>3. DOMAIN phase2 = 1 .. Len(selected)
  BY <1>2, SeqType
<1>4. ASSUME NEW n \in DOMAIN phase2
      PROVE  LET was == selected[n].config
                 cfg == [was EXCEPT !.global = MinVoqSize, !.sizes = phase2[n].sizes]
             IN /\ phase2[n].key = was.key /\ phase2[n].drops = "none"
                /\ ValidateVoqSizes(cfg)
                /\ \A q \in Queues(cfg) :
                     \/ GetVoqSize(cfg, q) = MinVoqSize
                     \/ GetVoqSize(cfg, q) < 2 * demand[IndexOf(was)].need[q]
                /\ phase2[n].memory <= GetTotalBufferSize(was)
  <2> DEFINE was == selected[n].config
             list == SizedFor(n)
             cfg == Resized(was, phase2[n].sizes)
  <2>1. n \in 1 .. Len(SelectTopN) /\ ServedBy(phase2[n], n)
    BY <1>2, <1>3
  <2>2. PICK k : Chosen(selected[n], k)
    BY <1>2, <2>1, ChosenIs
  <2>3. was = Configs[k] /\ IndexOf(was) = k /\ list = ComputeOptimizedVoqSizes(Configs[k], demand[k].need)
    BY <2>2, IndexOfIs DEF Chosen, SizedFor
  <2>4. Suffices(was, list, demand[k].need)
    BY <2>2, <2>3, OptimizedIsEnough DEF Chosen
  <2>5. /\ phase2[n].key = was.key /\ phase2[n].drops = "none" /\ phase2[n].sizes = list
        /\ phase2[n].memory = GetTotalBufferSize(cfg)
    BY <2>1 DEF ServedBy
  <2> HIDE DEF list, was
  <2>6. /\ ValidateVoqSizes(cfg) /\ GetTotalBufferSize(cfg) <= GetTotalBufferSize(was)
        /\ \A q \in Queues(cfg) : \/ GetVoqSize(cfg, q) = MinVoqSize
                                  \/ GetVoqSize(cfg, q) < 2 * demand[k].need[q]
    BY <2>4, <2>5 DEF Suffices
  <2>7. cfg = [was EXCEPT !.global = MinVoqSize, !.sizes = phase2[n].sizes]
    BY DEF Resized
  <2> HIDE DEF cfg
  <2> QED
    BY <2>3, <2>5, <2>6, <2>7 DEF was
<1> QED
  BY <1>1, <1>2, <1>4 DEF OptimizedSuffices

-------------------------------------------------------------------------------
(* The invariant is inductive. *)
LEMMA SelectionFixed ==
  ASSUME UNCHANGED scan
  PROVE  SelectTopN' = SelectTopN
<1>1. results' = results /\ simResults' = simResults /\ configsRan' = configsRan
  BY DEF scan
<1>2. Candidates' = Candidates
  BY <1>1 DEF Candidates, Sorted, SortsBefore, Better, Candidate
<1>3. Picked' = Picked
  BY <1>2 DEF Picked, Picks
<1> QED
  BY <1>2, <1>3 DEF SelectTopN, Fills

LEMMA ScanStarts ==
  ASSUME ScanInit
  PROVE  ScanInvariant
<1>1. DemandsKnown
  <2>0. Len(Configs) \in Nat
    BY ConfigIs
  <2>1. demand = <<>> /\ scanned = 0
    BY DEF ScanInit
  <2>2. IsSeq(demand) /\ Len(demand) = 0
    BY <2>1, EmptyIsSeq
  <2>3. scanned \in 0 .. Len(Configs) /\ 1 .. 0 = {}
    BY <2>0, <2>1
  <2> QED
    BY <2>1, <2>2, <2>3 DEF DemandsKnown
<1>2. ListsAligned
  <2>1. Lists /\ Len(results) = 0 /\ scanned = 0
    BY EmptyIsSeq DEF ScanInit, Lists
  <2> QED
    BY <2>1 DEF ListsAligned
<1>3. StageInStep
  BY DEF ScanInit, StageInStep
<1> QED
  BY <1>1, <1>2, <1>3 DEF ScanInvariant

(* What a step of phase 1 leaves of the architectures tried before. *)
LEMMA Tried ==
  ASSUME DemandsKnown, NEW d, demand' = Append(demand, d), scanned' = scanned + 1,
         scanned < Len(Configs), d = Raised \/ d \in Demands(Configs[scanned + 1])
  PROVE  /\ DemandsKnown' /\ scanned \in Nat /\ demand'[scanned + 1] = d
         /\ \A k \in 1 .. scanned : demand'[k] = demand[k]
<1>1. scanned \in Nat /\ Len(Configs) \in Nat /\ IsSeq(demand) /\ Len(demand) = scanned
  BY ConfigIs DEF DemandsKnown
<1>2. /\ IsSeq(demand') /\ Len(demand') = scanned + 1 /\ demand'[scanned + 1] = d
      /\ \A k \in 1 .. scanned : demand'[k] = demand[k]
  BY <1>1, AppendIs
<1>3. \A k \in 1 .. scanned + 1 : demand'[k] = Raised \/ demand'[k] \in Demands(Configs[k])
  <2>1. SUFFICES ASSUME NEW k \in 1 .. scanned + 1
                 PROVE  demand'[k] = Raised \/ demand'[k] \in Demands(Configs[k])
    OBVIOUS
  <2>2. CASE k = scanned + 1
    BY <1>2, <2>2
  <2>3. CASE k \in 1 .. scanned
    BY <1>2, <2>3 DEF DemandsKnown
  <2> QED
    BY <1>1, <2>2, <2>3
<1>4. DemandsKnown'
  BY <1>1, <1>2, <1>3 DEF DemandsKnown
<1> QED
  BY <1>1, <1>2, <1>4

LEMMA RunConfigStep ==
  ASSUME ScanInvariant, RunConfig
  PROVE  ScanInvariant'
<1> PICK k0 : k0 = scanned + 1
  OBVIOUS
<1> PICK n0 : n0 = Len(results) + 1
  OBVIOUS
<1> DEFINE cfg == Configs[k0]
<1>0. PICK d \in Demands(cfg) : \E outcome \in Outcomes(cfg, d) :
        /\ demand' = Append(demand, d)
        /\ results' = Append(results, Result(cfg, d, outcome))
        /\ simResults' = Append(simResults, outcome.peaks)
        /\ configsRan' = Append(configsRan, cfg)
  BY DEF RunConfig
<1>1. PICK outcome \in Outcomes(cfg, d) :
        /\ demand' = Append(demand, d)
        /\ results' = Append(results, Result(cfg, d, outcome))
        /\ simResults' = Append(simResults, outcome.peaks)
        /\ configsRan' = Append(configsRan, cfg)
  BY <1>0
<1>2. DemandsKnown /\ ListsAligned /\ Lists /\ StageInStep /\ scanned < Len(Configs)
  BY DEF ScanInvariant, ListsAligned, RunConfig
<1>3. /\ DemandsKnown' /\ scanned \in Nat /\ demand'[k0] = d /\ scanned' = k0
      /\ \A k \in 1 .. scanned : demand'[k] = demand[k]
  BY <1>1, <1>2, Tried DEF RunConfig
<1>4. Len(results) \in Nat
  BY ResultsAre, <1>2
<1>5. /\ IsSeq(results') /\ Len(results') = n0 /\ results'[n0] = Result(cfg, d, outcome)
      /\ \A n \in 1 .. Len(results) : results'[n] = results[n]
  BY <1>1, <1>2, AppendIs DEF Lists
<1>6. /\ IsSeq(simResults') /\ Len(simResults') = n0 /\ simResults'[n0] = outcome.peaks
      /\ \A n \in 1 .. Len(results) : simResults'[n] = simResults[n]
  BY <1>1, <1>2, AppendIs DEF Lists
<1>7. /\ IsSeq(configsRan') /\ Len(configsRan') = n0 /\ configsRan'[n0] = cfg
      /\ \A n \in 1 .. Len(results) : configsRan'[n] = configsRan[n]
  BY <1>1, <1>2, AppendIs DEF Lists
<1>8. Lists'
  BY <1>5, <1>6, <1>7 DEF Lists
<1>9. Ran(k0)' /\ Reports(n0, k0)'
  <2>1. Reports(n0, k0)'
    BY <1>1, <1>3, <1>5, <1>6, <1>7 DEF Reports
  <2>2. d # Raised
    <3>1. d.latency \in Nat
      BY <1>1, ScanAssumption DEF Demands
    <3> QED
      BY <3>1 DEF Raised
  <2> QED
    BY <1>3, <2>1, <2>2 DEF Ran
<1>10. ASSUME NEW k \in 1 .. scanned
       PROVE  /\ Ran(k)' <=> Ran(k)
              /\ \A n \in 1 .. Len(results) : Reports(n, k) => Reports(n, k)'
  <2>1. demand'[k] = demand[k]
    BY <1>3
  <2> QED
    BY <1>5, <1>6, <1>7, <2>1 DEF Ran, Reports
<1>11. 1 .. k0 = (1 .. scanned) \cup {k0} /\ 1 .. n0 = (1 .. Len(results)) \cup {n0}
  BY <1>3, <1>4
<1> HIDE DEF cfg
<1>12. ASSUME NEW n \in 1 .. n0 PROVE FromARun(n)'
  <2>1. CASE n = n0
    BY <1>3, <1>9, <1>11, <2>1 DEF FromARun
  <2>2. CASE n \in 1 .. Len(results)
    <3>1. PICK k \in 1 .. scanned : Ran(k) /\ Reports(n, k)
      BY <1>2, <2>2 DEF ListsAligned, FromARun
    <3>2. Ran(k)' /\ Reports(n, k)' /\ k \in 1 .. scanned'
      BY <1>3, <1>10, <1>11, <2>2, <3>1
    <3> QED
      BY <3>2 DEF FromARun
  <2> QED
    BY <1>11, <2>1, <2>2
<1>13. ASSUME NEW k \in 1 .. k0, Ran(k)' PROVE IsListed(k)'
  <2>1. CASE k = k0
    BY <1>5, <1>9, <1>11, <2>1 DEF IsListed
  <2>2. CASE k \in 1 .. scanned
    <3>1. PICK n \in 1 .. Len(results) : Reports(n, k)
      BY <1>2, <1>10, <1>13, <2>2 DEF ListsAligned, IsListed
    <3>2. Reports(n, k)' /\ n \in 1 .. Len(results')
      BY <1>5, <1>10, <1>11, <2>2, <3>1
    <3> QED
      BY <3>2 DEF IsListed
  <2> QED
    BY <1>11, <2>1, <2>2
<1>14. ASSUME NEW n \in 1 .. Len(results) PROVE results[n].key # results'[n0].key
  <2>1. PICK k \in 1 .. scanned : ReportOf(n, k)
    BY <1>2, ResultsAre
  <2>2. k \in 1 .. Len(Configs) /\ k0 \in 1 .. Len(Configs) /\ k # k0
    BY <1>2, <1>3, ConfigIs
  <2>3. results[n].key = Configs[k].key /\ results'[n0].key = Configs[k0].key
    BY <1>5, <2>1 DEF ReportOf, Result, cfg
  <2> QED
    BY <2>2, <2>3, ConfigIs
<1>15. ASSUME NEW m \in 1 .. n0, NEW n \in 1 .. n0, results'[m].key = results'[n].key
       PROVE  m = n
  <2>1. CASE m \in 1 .. Len(results) /\ n \in 1 .. Len(results)
    BY <1>2, <1>5, <1>15, <2>1 DEF ListsAligned
  <2>2. CASE m = n0 \/ n = n0
    BY <1>5, <1>11, <1>14, <1>15, <2>2
  <2> QED
    BY <1>11, <2>1, <2>2
<1>16. ListsAligned'
  BY <1>3, <1>5, <1>8, <1>12, <1>13, <1>15 DEF ListsAligned
<1>17. StageInStep'
  BY <1>2 DEF StageInStep, RunConfig
<1> QED
  BY <1>3, <1>16, <1>17 DEF ScanInvariant

LEMMA ConfigRaisesStep ==
  ASSUME ScanInvariant, ConfigRaises
  PROVE  ScanInvariant'
<1> DEFINE k0 == scanned + 1
<1>1. DemandsKnown /\ ListsAligned /\ Lists /\ StageInStep
  BY DEF ScanInvariant, ListsAligned
<1>2. results' = results /\ simResults' = simResults /\ configsRan' = configsRan
  BY DEF ConfigRaises, scan
<1>3. /\ DemandsKnown' /\ scanned \in Nat /\ demand'[k0] = Raised /\ scanned' = k0
      /\ \A k \in 1 .. scanned : demand'[k] = demand[k]
  BY <1>1, Tried DEF ConfigRaises
<1>4. Lists'
  BY <1>1, <1>2 DEF Lists
<1>5. ASSUME NEW k \in 1 .. scanned
      PROVE  /\ Ran(k)' <=> Ran(k)
             /\ \A n : Reports(n, k)' <=> Reports(n, k)
  <2>1. demand'[k] = demand[k]
    BY <1>3
  <2> QED
    BY <1>2, <2>1 DEF Ran, Reports
<1>6. 1 .. k0 = (1 .. scanned) \cup {k0}
  BY <1>3
<1> HIDE DEF k0
<1>7. ASSUME NEW n \in 1 .. Len(results) PROVE FromARun(n)'
  <2>1. PICK k \in 1 .. scanned : Ran(k) /\ Reports(n, k)
    BY <1>1 DEF ListsAligned, FromARun
  <2>2. Ran(k)' /\ Reports(n, k)' /\ k \in 1 .. scanned'
    BY <1>3, <1>5, <1>6, <2>1
  <2> QED
    BY <2>2 DEF FromARun
<1>8. ASSUME NEW k \in 1 .. k0, Ran(k)' PROVE IsListed(k)'
  <2>1. k \in 1 .. scanned
    BY <1>3, <1>6, <1>8 DEF Ran
  <2>2. PICK n \in 1 .. Len(results) : Reports(n, k)
    BY <1>1, <1>5, <1>8, <2>1 DEF ListsAligned, IsListed
  <2>3. Reports(n, k)'
    BY <1>5, <2>1, <2>2
  <2> QED
    BY <1>2, <2>3 DEF IsListed
<1>9. ListsAligned'
  BY <1>1, <1>2, <1>3, <1>4, <1>7, <1>8 DEF ListsAligned
<1>10. StageInStep'
  BY <1>1 DEF StageInStep, ConfigRaises
<1> QED
  BY <1>3, <1>9, <1>10 DEF ScanInvariant

(* After phase 1 the lists stay as they are. *)
LEMMA ListsFixed ==
  ASSUME DemandsKnown, ListsAligned, UNCHANGED <<scanned, scan, demand>>
  PROVE  DemandsKnown' /\ ListsAligned'
<1>1. /\ results' = results /\ simResults' = simResults /\ configsRan' = configsRan
      /\ scanned' = scanned /\ demand' = demand
  BY DEF scan
<1>2. DemandsKnown' /\ Lists'
  BY <1>1 DEF DemandsKnown, ListsAligned, Lists
<1>3. \A k : Ran(k)' = Ran(k)
  BY <1>1 DEF Ran
<1>4. \A n, k : Reports(n, k)' = Reports(n, k)
  BY <1>1 DEF Reports
<1> QED
  BY <1>1, <1>2, <1>3, <1>4 DEF ListsAligned, FromARun, IsListed

LEMMA SelectStep ==
  ASSUME ScanInvariant, SelectCandidates
  PROVE  ScanInvariant'
<1>1. DemandsKnown /\ ListsAligned /\ StageInStep
  BY DEF ScanInvariant
<1>2. DemandsKnown' /\ ListsAligned'
  BY <1>1, ListsFixed DEF SelectCandidates
<1>3. /\ selected' = SelectTopN' /\ scanned' = Len(Configs) /\ stage' = "phase 2"
      /\ phase2' = <<>> /\ handled' = 0 /\ sizes' = <<>>
  BY <1>1, SelectionFixed DEF SelectCandidates, StageInStep
<1>4. Len(selected') \in Nat
  <2>1. IsSeq(SelectTopN)
    BY <1>1, SelectionIs
  <2>2. Len(SelectTopN) \in Nat
    BY <2>1, SeqType
  <2> QED
    BY <2>2 DEF SelectCandidates
<1>5. (IsSeq(phase2) /\ handled \in 0 .. Len(selected) /\ Len(phase2) = handled)'
  <2>1. IsSeq(phase2') /\ Len(phase2') = 0
    BY <1>3, EmptyIsSeq
  <2>2. 0 \in 0 .. Len(selected')
    BY <1>4
  <2> QED
    BY <1>3, <2>1, <2>2
<1>6. (\A n \in 1 .. handled : ServedBy(phase2[n], n))'
  <2>1. handled' = 0
    BY <1>3
  <2>2. 1 .. handled' = {}
    BY <2>1
  <2> QED
    BY <2>2
<1>7. StageInStep'
  BY <1>3, <1>5, <1>6 DEF StageInStep
<1> QED
  BY <1>2, <1>7 DEF ScanInvariant

LEMMA SizeQueuesStep ==
  ASSUME ScanInvariant, SizeQueues
  PROVE  ScanInvariant'
<1>1. DemandsKnown /\ ListsAligned /\ StageInStep
  BY DEF ScanInvariant
<1>2. DemandsKnown' /\ ListsAligned'
  BY <1>1, ListsFixed DEF SizeQueues
<1>3. /\ UNCHANGED <<stage, scanned, selected, phase2, handled>> /\ SelectTopN' = SelectTopN
      /\ stage = "phase 2" /\ handled < Len(selected)
  BY SelectionFixed DEF SizeQueues
<1>4. sizes' = SizedFor(handled + 1)' /\ \A n : SizedFor(n)' = SizedFor(n)
  BY <1>3 DEF SizeQueues, SizedFor, InHand
<1>5. \A r, n : ServedBy(r, n)' = ServedBy(r, n)
  BY <1>3, <1>4 DEF ServedBy
<1>6. StageInStep'
  BY <1>1, <1>3, <1>4, <1>5 DEF StageInStep
<1> QED
  BY <1>2, <1>6 DEF ScanInvariant

LEMMA IterateStep ==
  ASSUME ScanInvariant, Iterate
  PROVE  ScanInvariant'
<1> DEFINE n0 == handled + 1
           was == InHand.config
           cfg == [was EXCEPT !.global = MinVoqSize, !.sizes = sizes]
           d == demand[IndexOf(cfg)]
<1>1. DemandsKnown /\ ListsAligned /\ StageInStep
  BY DEF ScanInvariant
<1>2. DemandsKnown' /\ ListsAligned'
  BY <1>1, ListsFixed DEF Iterate
<1>3. UNCHANGED <<stage, scanned, selected>> /\ SelectTopN' = SelectTopN /\ stage = "phase 2"
  BY SelectionFixed DEF Iterate
<1>4. /\ selected = SelectTopN /\ scanned = Len(Configs) /\ IsSeq(phase2)
      /\ handled \in 0 .. Len(selected) /\ Len(phase2) = handled
      /\ \A n \in 1 .. handled : ServedBy(phase2[n], n)
      /\ handled < Len(selected) /\ sizes = SizedFor(n0)
  BY <1>1, <1>3 DEF StageInStep, Iterate
<1>5. n0 \in 1 .. Len(SelectTopN) /\ handled \in Nat
  BY <1>4
<1>6. PICK k : Chosen(selected[n0], k)
  BY <1>1, <1>4, <1>5, ChosenIs
<1>7. was = Configs[k] /\ was = selected[n0].config /\ cfg = Resized(was, SizedFor(n0))
  BY <1>4, <1>6 DEF Chosen, InHand, Resized
<1>8. Fits(cfg, demand[k].need) /\ cfg.key = was.key /\ cfg.sizes = SizedFor(n0) /\ IndexOf(cfg) = k
  <2>1. SizedFor(n0) = ComputeOptimizedVoqSizes(Configs[k], demand[k].need)
    BY <1>6 DEF Chosen, SizedFor
  <2>2. Suffices(Configs[k], SizedFor(n0), demand[k].need)
    BY <1>1, <1>6, <2>1, OptimizedIsEnough DEF Chosen
  <2>3. Fits(cfg, demand[k].need)
    BY <1>7, <2>2 DEF Suffices
  <2>4. k \in 1 .. Len(Configs)
    BY <1>6 DEF Chosen
  <2>5. cfg.key = Configs[k].key /\ cfg.sizes = SizedFor(n0)
    <3>1. cfg = Resized(Configs[k], SizedFor(n0))
      BY <1>7
    <3> HIDE DEF cfg
    <3> QED
      BY <2>4, <3>1, ResizedIs
  <2> HIDE DEF cfg
  <2> QED
    BY <1>7, <2>3, <2>4, <2>5, IndexOfIs
<1> HIDE DEF cfg, was
<1>9. PICK outcome \in Outcomes(cfg, d) :
        /\ phase2' = Append(phase2, Result(cfg, d, outcome))
        /\ LET last == outcome.drops # "many" \/ Iterations + 1 = MaxIterations
           IN /\ sizes' = IF last THEN <<>> ELSE Grown(cfg, outcome.peaks)
              /\ handled' = IF last THEN handled + 1 ELSE handled
  BY DEF Iterate, cfg, was
<1>10. outcome.drops = "none"
  BY <1>8, <1>9 DEF Outcomes
<1>11. sizes' = <<>> /\ handled' = n0
  BY <1>9, <1>10
<1>12. ServedBy(Result(cfg, d, outcome), n0)
  BY <1>7, <1>8, <1>10 DEF ServedBy, Result
<1>13. /\ IsSeq(phase2') /\ Len(phase2') = n0 /\ phase2'[n0] = Result(cfg, d, outcome)
       /\ \A n \in 1 .. handled : phase2'[n] = phase2[n]
  BY <1>4, <1>9, AppendIs
<1>14. \A r, n : ServedBy(r, n)' = ServedBy(r, n)
  BY <1>3 DEF ServedBy, SizedFor
<1>15. ASSUME NEW n \in 1 .. n0 PROVE ServedBy(phase2'[n], n)
  <2>1. CASE n = n0
    BY <1>12, <1>13, <2>1
  <2>2. CASE n \in 1 .. handled
    BY <1>4, <1>13, <2>2
  <2> QED
    BY <1>5, <2>1, <2>2
<1>16. n0 \in 0 .. Len(selected)
  BY <1>4, <1>5
<1> HIDE DEF n0
<1>17. (\A n \in 1 .. handled : ServedBy(phase2[n], n))'
  BY <1>3, <1>11, <1>15 DEF ServedBy, SizedFor
<1>18. StageInStep'
  BY <1>3, <1>4, <1>11, <1>13, <1>16, <1>17 DEF StageInStep
<1> QED
  BY <1>2, <1>18 DEF ScanInvariant

LEMMA WriteStep ==
  ASSUME ScanInvariant, WriteResults \/ UNCHANGED scanVars
  PROVE  ScanInvariant'
<1>1. DemandsKnown /\ ListsAligned /\ StageInStep
  BY DEF ScanInvariant
<1>2. UNCHANGED <<scanned, scan, selected, sizes, phase2, handled, demand>>
  BY DEF WriteResults, scanVars
<1>3. DemandsKnown' /\ ListsAligned' /\ SelectTopN' = SelectTopN
  BY <1>1, <1>2, ListsFixed, SelectionFixed
<1>4. \A r, n : ServedBy(r, n)' = ServedBy(r, n)
  BY <1>2 DEF ServedBy, SizedFor
<1>5. SizedFor(handled + 1)' = SizedFor(handled + 1)
  BY <1>2 DEF SizedFor
<1>6. StageInStep'
  <2>1. CASE WriteResults
    BY <1>1, <1>2, <1>3, <1>4, <1>5, <2>1 DEF StageInStep, WriteResults
  <2>2. CASE UNCHANGED scanVars
    BY <1>1, <1>2, <1>3, <1>4, <1>5, <2>2 DEF StageInStep, scanVars
  <2> QED
    BY <2>1, <2>2
<1> QED
  BY <1>3, <1>6 DEF ScanInvariant

LEMMA ScanInvariantStep ==
  ScanInvariant /\ [ScanNext]_scanVars => ScanInvariant'
<1>1. SUFFICES ASSUME ScanInvariant, [ScanNext]_scanVars PROVE ScanInvariant'
  OBVIOUS
<1>2. CASE RunConfig
  BY <1>1, <1>2, RunConfigStep
<1>3. CASE ConfigRaises
  BY <1>1, <1>3, ConfigRaisesStep
<1>4. CASE SelectCandidates
  BY <1>1, <1>4, SelectStep
<1>5. CASE SizeQueues
  BY <1>1, <1>5, SizeQueuesStep
<1>6. CASE Iterate
  BY <1>1, <1>6, IterateStep
<1>7. CASE WriteResults \/ UNCHANGED scanVars
  BY <1>1, <1>7, WriteStep
<1> QED
  BY <1>1, <1>2, <1>3, <1>4, <1>5, <1>6, <1>7 DEF ScanNext

(* The lists of phase 1 hold the runs that did not raise, each with its    *)
(* own configuration and peaks; the selection is what the order of their   *)
(* figures makes it, and each candidate takes one iteration.               *)
THEOREM ScanInvariantHolds == ScanSpec => []ScanInvariant
<1>1. ScanInit => ScanInvariant
  BY ScanStarts
<1> QED
  BY <1>1, ScanInvariantStep, PTL DEF ScanSpec

(* Whichever runs of phase 1 raise and whatever the others report, phase 2 *)
(* is given the best TopN designs that dropped nothing, each with its own  *)
(* peaks (select_top_n_candidates).                                        *)
THEOREM BestSelected == ScanSpec => []SelectedAreBest
<1>1. ScanInvariant => SelectedAreBest
  <2>1. CASE stage = "phase 1"
    BY <2>1 DEF SelectedAreBest
  <2>2. CASE stage # "phase 1"
    BY <2>2, Best DEF ScanInvariant, StageInStep
  <2> QED
    BY <2>1, <2>2
<1> QED
  BY <1>1, ScanInvariantHolds, PTL

(* The sizes that compute_optimized_voq_sizes makes of the peaks serve     *)
(* each candidate in one iteration without a drop, with less than twice    *)
(* its demand or the least size in every queue, and never take more memory *)
(* than the large queues of phase 1.                                       *)
THEOREM SizingSuffices == ScanSpec => []OptimizedSuffices
<1>1. ScanInvariant => OptimizedSuffices
  BY Sufficient DEF ScanInvariant
<1> QED
  BY <1>1, ScanInvariantHolds, PTL
===============================================================================
