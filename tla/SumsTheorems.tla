---------------------------- MODULE SumsTheorems ----------------------------
(***************************************************************************)
(* Facts about SumTo.  Induction is stated over a set of numbers and comes *)
(* from the well-foundedness of the subset order on finite sets.           *)
(***************************************************************************)
EXTENDS Sums, TLAPS, FiniteSetTheorems

\* A set with 0 that is closed under +1 holds every natural number.
LEMMA NatSetInduction ==
  ASSUME NEW S, 0 \in S, \A n \in Nat : n \in S => n + 1 \in S
  PROVE  Nat \subseteq S
<1> DEFINE T == Nat \ S
           F == {0 .. n : n \in T}
<1>1. SUFFICES ASSUME T # {} PROVE FALSE
  OBVIOUS
<1>2. F \subseteq FiniteSubsetsOf(Nat)
  <2>1. SUFFICES ASSUME NEW n \in Nat PROVE 0 .. n \in FiniteSubsetsOf(Nat)
    OBVIOUS
  <2>2. IsFiniteSet(0 .. n)
    BY FS_Interval
  <2>3. 0 .. n \subseteq Nat
    OBVIOUS
  <2>4. QED
    BY <2>2, <2>3 DEF FiniteSubsetsOf
<1>3. \E s \in F : \A t \in F : ~ (<<t, s>> \in StrictSubsetOrdering(Nat))
  <2>1. F # {}
    BY <1>1
  <2> HIDE DEF F
  <2>2. QED
    BY <1>2, <2>1, FS_StrictSubsetOrderingWellFounded, WFMin
<1>4. PICK n \in T : \A t \in F : ~ (<<t, 0 .. n>> \in StrictSubsetOrdering(Nat))
  BY <1>3
<1>5. n \in Nat /\ n # 0 /\ n - 1 \in Nat
  OBVIOUS
<1>6. n - 1 \notin T
  <2>1. SUFFICES ASSUME n - 1 \in T PROVE FALSE
    OBVIOUS
  <2>2. 0 .. (n - 1) \in F
    BY <2>1
  <2>3. <<0 .. (n - 1), 0 .. n>> \in StrictSubsetOrdering(Nat)
    <3>1. n \in 0 .. n /\ n \notin 0 .. (n - 1) /\ 0 .. (n - 1) \subseteq 0 .. n
      BY <1>5
    <3>2. QED
      BY <3>1, <1>5 DEF StrictSubsetOrdering
  <2>4. QED
    BY <2>2, <2>3, <1>4
<1>7. QED
  BY <1>5, <1>6

\* s is the list of partial sums of f.
PartialSums(f, n, s) ==
  /\ s \in [0 .. n -> Int]
  /\ s[0] = 0
  /\ \A i \in 1 .. n : s[i] = s[i - 1] + f[i]

\* Partial sums exist.
LEMMA PartialSumsExist ==
  ASSUME NEW N \in Nat, NEW f \in [1 .. N -> Int]
  PROVE  \E s : PartialSums(f, N, s)
<1> DEFINE S == {n \in Nat : n <= N => \E s : PartialSums(f, n, s)}
<1>1. 0 \in S
  <2>1. PartialSums(f, 0, [i \in 0 .. 0 |-> 0])
    BY DEF PartialSums
  <2>2. QED
    BY <2>1
<1>2. ASSUME NEW n \in Nat, n \in S PROVE n + 1 \in S
  <2>1. SUFFICES ASSUME n + 1 <= N PROVE \E s : PartialSums(f, n + 1, s)
    OBVIOUS
  <2>2. PICK s : PartialSums(f, n, s)
    BY <1>2, <2>1
  <2> DEFINE t == [i \in 0 .. n + 1 |-> IF i = n + 1 THEN s[n] + f[n + 1] ELSE s[i]]
  <2>3. f[n + 1] \in Int /\ s[n] \in Int
    BY <2>1, <2>2 DEF PartialSums
  <2>4. t \in [0 .. n + 1 -> Int] /\ t[0] = 0
    BY <2>2, <2>3 DEF PartialSums
  <2>5. ASSUME NEW i \in 1 .. n + 1 PROVE t[i] = t[i - 1] + f[i]
    <3>1. CASE i = n + 1
      BY <3>1
    <3>2. CASE i \in 1 .. n
      BY <3>2, <2>2 DEF PartialSums
    <3>3. QED
      BY <3>1, <3>2
  <2>6. QED
    BY <2>4, <2>5 DEF PartialSums
<1>3. Nat \subseteq S
  <2> HIDE DEF S
  <2>1. QED
    BY <1>1, <1>2, NatSetInduction
<1>4. QED
  BY <1>3

\* SumTo is the last of the partial sums.
LEMMA SumToPartialSums ==
  ASSUME NEW N \in Nat, NEW f \in [1 .. N -> Int]
  PROVE  \E s : PartialSums(f, N, s) /\ SumTo(f, N) = s[N]
<1> DEFINE Body(s) == [i \in 0 .. N |-> IF i = 0 THEN 0 ELSE s[i - 1] + f[i]]
           sum == CHOOSE s : s = Body(s)
<1>1. PICK s : PartialSums(f, N, s)
  BY PartialSumsExist
<1>2. s = Body(s)
  BY <1>1 DEF PartialSums
<1>3. sum = Body(sum)
  <2> HIDE DEF Body
  <2>1. QED
    BY <1>2
<1>4. SumTo(f, N) = sum[N]
  BY DEF SumTo
<1>5. sum[0] = 0 /\ \A i \in 1 .. N : sum[i] = sum[i - 1] + f[i]
  <2> HIDE DEF sum
  <2>1. QED
    BY <1>3
<1>6. DOMAIN sum = 0 .. N /\ sum = [i \in 0 .. N |-> sum[i]]
  <2> HIDE DEF sum
  <2>1. QED
    BY <1>3
<1>7. \A i \in 0 .. N : sum[i] \in Int
  <2> HIDE DEF sum
  <2> DEFINE S == {n \in Nat : n <= N => sum[n] \in Int}
  <2>1. 0 \in S
    BY <1>5
  <2>2. ASSUME NEW n \in Nat, n \in S PROVE n + 1 \in S
    <3>1. SUFFICES ASSUME n + 1 <= N PROVE sum[n + 1] \in Int
      OBVIOUS
    <3>2. sum[n + 1] = sum[n] + f[n + 1] /\ sum[n] \in Int /\ f[n + 1] \in Int
      BY <1>5, <2>2, <3>1
    <3>3. QED
      BY <3>2
  <2>3. Nat \subseteq S
    <3> HIDE DEF S
    <3>1. QED
      BY <2>1, <2>2, NatSetInduction
  <2>4. QED
    BY <2>3
<1>8. QED
  <2> HIDE DEF sum
  <2>1. sum \in [0 .. N -> Int]
    BY <1>6, <1>7
  <2>2. QED
    BY <1>4, <1>5, <2>1 DEF PartialSums

\* A sum of integers is an integer.
LEMMA SumToInt ==
  ASSUME NEW N \in Nat, NEW f \in [1 .. N -> Int]
  PROVE  SumTo(f, N) \in Int
BY SumToPartialSums DEF PartialSums

\* Changing one row changes the sum by as much.
LEMMA SumToUpdate ==
  ASSUME NEW N \in Nat, NEW f, f \in [1 .. N -> Int],
         NEW g, g \in [1 .. N -> Int], NEW k \in 1 .. N,
         \A i \in 1 .. N : i # k => g[i] = f[i]
  PROVE  SumTo(g, N) = SumTo(f, N) + g[k] - f[k]
<1>1. PICK s : PartialSums(f, N, s) /\ SumTo(f, N) = s[N]
  BY SumToPartialSums
<1>2. PICK t : PartialSums(g, N, t) /\ SumTo(g, N) = t[N]
  BY SumToPartialSums
<1> DEFINE S == {n \in Nat : n <= N =>
                   t[n] = s[n] + (IF n < k THEN 0 ELSE g[k] - f[k])}
<1>3. 0 \in S
  BY <1>1, <1>2 DEF PartialSums
<1>4. ASSUME NEW n \in Nat, n \in S PROVE n + 1 \in S
  <2>1. SUFFICES ASSUME n + 1 <= N
                 PROVE  t[n + 1] = s[n + 1] + (IF n + 1 < k THEN 0 ELSE g[k] - f[k])
    OBVIOUS
  <2>2. t[n + 1] = t[n] + g[n + 1] /\ s[n + 1] = s[n] + f[n + 1]
    BY <1>1, <1>2, <2>1 DEF PartialSums
  <2>3. t[n] = s[n] + (IF n < k THEN 0 ELSE g[k] - f[k])
    BY <1>4, <2>1
  <2>4. /\ s[n] \in Int /\ t[n] \in Int /\ s[n + 1] \in Int /\ t[n + 1] \in Int
        /\ f[n + 1] \in Int /\ g[n + 1] \in Int /\ f[k] \in Int /\ g[k] \in Int
    <3>1. n \in 0 .. N /\ n + 1 \in 0 .. N /\ n + 1 \in 1 .. N
      BY <2>1
    <3>2. s \in [0 .. N -> Int] /\ t \in [0 .. N -> Int]
      BY <1>1, <1>2 DEF PartialSums
    <3>3. QED
      BY <3>1, <3>2
  <2> HIDE DEF S
  <2>5. CASE n + 1 = k
    BY ONLY <2>2, <2>3, <2>4, <2>5
  <2>6. CASE n + 1 # k
    <3>1. g[n + 1] = f[n + 1]
      BY <2>1, <2>6
    <3>2. QED
      BY ONLY <2>2, <2>3, <2>4, <2>6, <3>1
  <2>7. QED
    BY <2>5, <2>6
<1>5. N \in S
  <2> HIDE DEF S
  <2>1. QED
    BY <1>3, <1>4, NatSetInduction
<1>6. /\ t[N] = s[N] + (g[k] - f[k])
      /\ t[N] \in Int /\ s[N] \in Int /\ f[k] \in Int /\ g[k] \in Int
  BY <1>5, <1>1, <1>2 DEF PartialSums
<1>7. QED
  BY <1>1, <1>2, <1>6

\* Three columns that cancel row by row cancel in total.
LEMMA SumToCancel ==
  ASSUME NEW N \in Nat, NEW f, f \in [1 .. N -> Int],
         NEW g, g \in [1 .. N -> Int], NEW h, h \in [1 .. N -> Int],
         \A i \in 1 .. N : f[i] + g[i] + h[i] = 0
  PROVE  SumTo(f, N) + SumTo(g, N) + SumTo(h, N) = 0
<1>1. PICK r : PartialSums(f, N, r) /\ SumTo(f, N) = r[N]
  BY SumToPartialSums
<1>2. PICK s : PartialSums(g, N, s) /\ SumTo(g, N) = s[N]
  BY SumToPartialSums
<1>3. PICK t : PartialSums(h, N, t) /\ SumTo(h, N) = t[N]
  BY SumToPartialSums
<1> DEFINE S == {n \in Nat : n <= N => r[n] + s[n] + t[n] = 0}
<1>4. 0 \in S
  BY <1>1, <1>2, <1>3 DEF PartialSums
<1>5. ASSUME NEW n \in Nat, n \in S PROVE n + 1 \in S
  <2>1. SUFFICES ASSUME n + 1 <= N PROVE r[n + 1] + s[n + 1] + t[n + 1] = 0
    OBVIOUS
  <2>2. /\ r[n + 1] = r[n] + f[n + 1]
        /\ s[n + 1] = s[n] + g[n + 1]
        /\ t[n + 1] = t[n] + h[n + 1]
    <3>1. n + 1 \in 1 .. N /\ (n + 1) - 1 = n
      BY <2>1
    <3>2. r[n + 1] = r[n] + f[n + 1]
      BY <1>1, <3>1 DEF PartialSums
    <3>3. s[n + 1] = s[n] + g[n + 1]
      BY <1>2, <3>1 DEF PartialSums
    <3>4. t[n + 1] = t[n] + h[n + 1]
      BY <1>3, <3>1 DEF PartialSums
    <3>5. QED
      BY <3>2, <3>3, <3>4
  <2>3. r[n] + s[n] + t[n] = 0 /\ f[n + 1] + g[n + 1] + h[n + 1] = 0
    BY <1>5, <2>1
  <2>4. /\ r[n] \in Int /\ s[n] \in Int /\ t[n] \in Int
        /\ r[n + 1] \in Int /\ s[n + 1] \in Int /\ t[n + 1] \in Int
        /\ f[n + 1] \in Int /\ g[n + 1] \in Int /\ h[n + 1] \in Int
    <3>1. n \in 0 .. N /\ n + 1 \in 0 .. N /\ n + 1 \in 1 .. N
      BY <2>1
    <3>2. r \in [0 .. N -> Int] /\ s \in [0 .. N -> Int] /\ t \in [0 .. N -> Int]
      BY <1>1, <1>2, <1>3 DEF PartialSums
    <3>3. QED
      BY <3>1, <3>2
  <2> HIDE DEF S
  <2>5. QED
    BY ONLY <2>2, <2>3, <2>4
<1>6. N \in S
  <2> HIDE DEF S
  <2>1. QED
    BY <1>4, <1>5, NatSetInduction
<1>7. QED
  BY <1>1, <1>2, <1>3, <1>6
=============================================================================
