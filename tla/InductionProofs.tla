---------------------------- MODULE InductionProofs ----------------------------
(***************************************************************************)
(* Induction over numbers, and what it says of sums and of lists.  The     *)
(* library's theorem about it takes the claim as an operator, which the    *)
(* provers cannot instantiate; here it is the existence of a least         *)
(* counterexample, which they can use.                                     *)
(***************************************************************************)
EXTENDS Sums, SequencesExt, NaturalsInduction, WellFoundedInduction, SequenceTheorems, TLAPS

\* A nonempty set of numbers has a least element.
LEMMA Least ==
  ASSUME NEW T, T \subseteq Nat, T # {}
  PROVE  \E x \in T : \A y \in T : x <= y
<1> DEFINE R == {ss \in Nat \X Nat : ss[1] < ss[2]}
<1>1. IsWellFoundedOn(R, Nat)
  BY NatLessThanWellFounded DEF OpToRel
<1> HIDE DEF R
<1>2. PICK x \in T : \A y \in T : ~(<<y, x>> \in R)
  BY <1>1, WFMin
<1>3. \A y \in T : x <= y
  <2> TAKE y \in T
  <2>1. <<y, x>> \in Nat \X Nat /\ <<y, x>>[1] = y /\ <<y, x>>[2] = x
    OBVIOUS
  <2>2. ~(y < x)
    BY <1>2, <2>1 DEF R
  <2>3. x \in Nat /\ y \in Nat
    OBVIOUS
  <2>4. QED
    BY <2>2, <2>3
<1>4. QED
  BY <1>3

-----------------------------------------------------------------------------
(* Sums.                                                                   *)

\* The partial sums of f.
AreSums(s, f, n) ==
  /\ s \in [0 .. n -> Int]
  /\ s[0] = 0
  /\ \A k \in 1 .. n : s[k] = s[k - 1] + f[k]

\* A list of numbers has partial sums.
LEMMA SumsExist ==
  ASSUME NEW n \in Nat, NEW f, \A i \in 1 .. n : f[i] \in Int
  PROVE  \E s : AreSums(s, f, n)
<1> DEFINE T == {m \in 0 .. n : ~ \E s : AreSums(s, f, m)}
<1>1. SUFFICES ASSUME T # {} PROVE FALSE
  OBVIOUS
<1>2. T \subseteq Nat
  OBVIOUS
<1>3. PICK m \in T : \A y \in T : m <= y
  BY <1>1, <1>2, Least
<1>4. m \in 0 .. n /\ m \in Nat /\ ~ \E s : AreSums(s, f, m)
  BY <1>3
<1>5. CASE m = 0
  <2>1. AreSums([k \in 0 .. 0 |-> 0], f, 0)
    BY DEF AreSums
  <2>2. QED
    BY <1>4, <1>5, <2>1
<1>6. CASE m # 0
  <2>1. m - 1 \in 0 .. n /\ m - 1 \notin T
    BY <1>3, <1>4, <1>6
  <2>2. PICK s : AreSums(s, f, m - 1)
    BY <2>1
  <2> DEFINE t == [k \in 0 .. m |-> IF k = m THEN s[m - 1] + f[m] ELSE s[k]]
  <2>3. s[m - 1] + f[m] \in Int /\ \A k \in 0 .. m - 1 : s[k] \in Int
    BY <1>4, <1>6, <2>2 DEF AreSums
  <2>4. t \in [0 .. m -> Int] /\ t[0] = 0
    BY <1>4, <1>6, <2>2, <2>3 DEF AreSums
  <2>5. \A k \in 1 .. m : t[k] = t[k - 1] + f[k]
    <3> TAKE k \in 1 .. m
    <3>1. CASE k = m
      BY <1>4, <1>6, <3>1
    <3>2. CASE k # m
      <4>1. k \in 1 .. m - 1 /\ k - 1 \in 0 .. m - 1 /\ k - 1 # m /\ k \in 0 .. m /\ k - 1 \in 0 .. m
        BY <1>4, <3>2
      <4>2. t[k] = s[k] /\ t[k - 1] = s[k - 1]
        BY <3>2, <4>1
      <4>3. QED
        BY <2>2, <4>1, <4>2 DEF AreSums
    <3>3. QED
      BY <3>1, <3>2
  <2>6. AreSums(t, f, m)
    BY <2>4, <2>5 DEF AreSums
  <2>7. QED
    BY <1>4, <2>6
<1>7. QED
  BY <1>5, <1>6

\* SumTo is the last of the partial sums.
LEMMA SumIsLast ==
  ASSUME NEW n \in Nat, NEW f, \A i \in 1 .. n : f[i] \in Int
  PROVE  \E s : AreSums(s, f, n) /\ SumTo(f, n) = s[n]
<1> DEFINE Body(g) == [k \in 0 .. n |-> IF k = 0 THEN 0 ELSE g[k - 1] + f[k]]
           s == CHOOSE g : g = Body(g)
<1>1. PICK t : AreSums(t, f, n)
  BY SumsExist
<1>2. t = Body(t)
  <2>1. t = [k \in 0 .. n |-> t[k]]
    BY <1>1 DEF AreSums
  <2>2. \A k \in 0 .. n : t[k] = IF k = 0 THEN 0 ELSE t[k - 1] + f[k]
    BY <1>1 DEF AreSums
  <2>3. QED
    BY <2>1, <2>2
<1>3. s = Body(s)
  BY <1>2
<1>4. SumTo(f, n) = s[n]
  BY DEF SumTo
<1> HIDE DEF s
<1>5. AreSums(s, f, n)
  <2>1. s[0] = 0 /\ \A k \in 1 .. n : s[k] = s[k - 1] + f[k]
    BY <1>3
  <2> DEFINE T == {m \in 0 .. n : s[m] \notin Int}
  <2>2. T = {}
    <3>1. SUFFICES ASSUME T # {} PROVE FALSE
      OBVIOUS
    <3>2. PICK m \in T : \A y \in T : m <= y
      <4>1. T \subseteq Nat
        OBVIOUS
      <4>2. QED
        BY <3>1, <4>1, Least
    <3>3. m \in 0 .. n /\ s[m] \notin Int /\ m # 0
      BY <2>1, <3>2
    <3>4. m - 1 \in 0 .. n /\ m - 1 \notin T /\ m \in 1 .. n
      BY <3>2, <3>3
    <3>5. QED
      BY <2>1, <3>3, <3>4
  <2>3. s \in [0 .. n -> Int]
    BY <1>3, <2>2
  <2>4. QED
    BY <2>1, <2>3 DEF AreSums
<1>6. QED
  BY <1>4, <1>5

\* Any partial sums end with the same sum.
LEMMA SumIs ==
  ASSUME NEW n \in Nat, NEW f, \A i \in 1 .. n : f[i] \in Int, NEW t, AreSums(t, f, n)
  PROVE  SumTo(f, n) = t[n]
<1>1. PICK s : AreSums(s, f, n) /\ SumTo(f, n) = s[n]
  BY SumIsLast
<1> DEFINE T == {m \in 0 .. n : s[m] # t[m]}
<1>2. T = {}
  <2>1. SUFFICES ASSUME T # {} PROVE FALSE
    OBVIOUS
  <2>2. PICK m \in T : \A y \in T : m <= y
    <3>1. T \subseteq Nat
      OBVIOUS
    <3>2. QED
      BY <2>1, <3>1, Least
  <2>3. m \in 0 .. n /\ s[m] # t[m] /\ m # 0
    BY <1>1, <2>2 DEF AreSums
  <2>4. m - 1 \in 0 .. n /\ m - 1 \notin T /\ m \in 1 .. n
    BY <2>2, <2>3
  <2>5. s[m - 1] = t[m - 1]
    BY <2>4
  <2>6. QED
    BY <1>1, <2>3, <2>4, <2>5 DEF AreSums
<1>3. n \in 0 .. n /\ n \notin T
  BY <1>2
<1>4. QED
  BY <1>1, <1>3

\* The empty sum, and the next one.
LEMMA SumSteps ==
  ASSUME NEW n \in Nat, NEW f, \A i \in 1 .. n + 1 : f[i] \in Int
  PROVE  /\ SumTo(f, 0) = 0 /\ SumTo(f, n) \in Int
         /\ SumTo(f, n + 1) = SumTo(f, n) + f[n + 1]
<1>1. \A i \in 1 .. n : f[i] \in Int
  OBVIOUS
<1>2. PICK s : AreSums(s, f, n + 1)
  BY SumsExist
<1> DEFINE t == [k \in 0 .. n |-> s[k]]
<1>3. AreSums(t, f, n) /\ t[n] = s[n]
  <2>1. t \in [0 .. n -> Int] /\ t[0] = 0 /\ t[n] = s[n]
    BY <1>2 DEF AreSums
  <2>2. \A k \in 1 .. n : t[k] = t[k - 1] + f[k]
    <3> TAKE k \in 1 .. n
    <3>1. k \in 0 .. n /\ k - 1 \in 0 .. n /\ k \in 1 .. n + 1
      OBVIOUS
    <3>2. QED
      BY <1>2, <3>1 DEF AreSums
  <2>3. QED
    BY <2>1, <2>2 DEF AreSums
<1>4. SumTo(f, n) = s[n]
  BY <1>1, <1>3, SumIs
<1>5. SumTo(f, n + 1) = s[n + 1] /\ n + 1 \in Nat
  BY <1>2, SumIs
<1>6. n + 1 \in 1 .. n + 1 /\ (n + 1) - 1 = n
  OBVIOUS
<1>7. s[n + 1] = s[n] + f[n + 1] /\ s[n] \in Int
  BY <1>2, <1>6 DEF AreSums
<1>8. AreSums([k \in 0 .. 0 |-> 0], f, 0)
  BY DEF AreSums
<1>9. SumTo(f, 0) = 0
  BY <1>8, SumIs
<1>10. QED
  BY <1>4, <1>5, <1>7, <1>9

\* A sum is a number.
LEMMA SumType ==
  ASSUME NEW n \in Nat, NEW f, \A i \in 1 .. n : f[i] \in Int
  PROVE  SumTo(f, n) \in Int
<1>1. PICK s : AreSums(s, f, n) /\ SumTo(f, n) = s[n]
  BY SumIsLast
<1>2. QED
  BY <1>1 DEF AreSums

\* A sum changes by what one of its numbers does.
LEMMA SumChanged ==
  ASSUME NEW n \in Nat, NEW f, \A i \in 1 .. n : f[i] \in Int,
         NEW g, NEW j \in 1 .. n, g[j] \in Int, \A i \in 1 .. n : i # j => g[i] = f[i]
  PROVE  SumTo(g, n) = SumTo(f, n) + g[j] - f[j]
<1>1. PICK s : AreSums(s, f, n) /\ SumTo(f, n) = s[n]
  BY SumIsLast
<1> DEFINE t == [k \in 0 .. n |-> IF k < j THEN s[k] ELSE s[k] + g[j] - f[j]]
<1>2. f[j] \in Int /\ \A k \in 0 .. n : s[k] \in Int
  BY <1>1 DEF AreSums
<1>3. t \in [0 .. n -> Int] /\ t[0] = 0 /\ t[n] = s[n] + g[j] - f[j]
  <2>1. \A k \in 0 .. n : t[k] \in Int
    BY <1>2
  <2>2. t[0] = 0
    BY <1>1 DEF AreSums
  <2>3. QED
    BY <2>1, <2>2
<1>4. \A k \in 1 .. n : t[k] = t[k - 1] + g[k]
  <2> TAKE k \in 1 .. n
  <2>1. k \in 0 .. n /\ k - 1 \in 0 .. n /\ s[k] = s[k - 1] + f[k] /\ s[k - 1] \in Int /\ f[k] \in Int
    BY <1>1, <1>2 DEF AreSums
  <2>2. CASE k < j
    BY <2>1, <2>2
  <2>3. CASE k = j
    <3>1. t[k] = s[k] + g[j] - f[j] /\ t[k - 1] = s[k - 1]
      BY <2>1, <2>3
    <3>2. QED
      BY <1>2, <2>1, <2>3, <3>1
  <2>4. CASE k > j
    <3>1. t[k] = s[k] + g[j] - f[j] /\ t[k - 1] = s[k - 1] + g[j] - f[j] /\ g[k] = f[k]
      BY <2>1, <2>4
    <3>2. QED
      BY <1>2, <2>1, <3>1
  <2>5. QED
    BY <2>2, <2>3, <2>4
<1>5. \A i \in 1 .. n : g[i] \in Int
  OBVIOUS
<1> HIDE DEF t
<1>6. AreSums(t, g, n)
  BY <1>3, <1>4 DEF AreSums
<1>7. QED
  BY <1>1, <1>3, <1>5, <1>6, SumIs

\* Sums of the same numbers are the same.
LEMMA SumSame ==
  ASSUME NEW n \in Nat, NEW f, \A i \in 1 .. n : f[i] \in Int,
         NEW g, \A i \in 1 .. n : g[i] = f[i]
  PROVE  SumTo(g, n) = SumTo(f, n)
<1>1. PICK s : AreSums(s, f, n) /\ SumTo(f, n) = s[n]
  BY SumIsLast
<1>2. AreSums(s, g, n)
  BY <1>1 DEF AreSums
<1>3. \A i \in 1 .. n : g[i] \in Int
  OBVIOUS
<1>4. QED
  BY <1>1, <1>2, <1>3, SumIs

\* The numbers move on by one place, with a zero before them.
LEMMA SumShifted ==
  ASSUME NEW n \in Nat \ {0}, NEW f, \A i \in 1 .. n : f[i] \in Int,
         NEW g, g[1] = 0, \A i \in 2 .. n : g[i] = f[i - 1]
  PROVE  SumTo(g, n) = SumTo(f, n - 1)
<1>1. n - 1 \in Nat /\ \A i \in 1 .. n - 1 : f[i] \in Int
  OBVIOUS
<1>2. PICK s : AreSums(s, f, n - 1) /\ SumTo(f, n - 1) = s[n - 1]
  BY <1>1, SumIsLast
<1> DEFINE t == [k \in 0 .. n |-> IF k = 0 THEN 0 ELSE s[k - 1]]
<1>3. t \in [0 .. n -> Int] /\ t[0] = 0 /\ t[n] = s[n - 1]
  <2>1. \A k \in 1 .. n : s[k - 1] \in Int
    BY <1>2 DEF AreSums
  <2>2. QED
    BY <2>1
<1>4. \A k \in 1 .. n : t[k] = t[k - 1] + g[k]
  <2> TAKE k \in 1 .. n
  <2>1. k \in 0 .. n /\ k - 1 \in 0 .. n
    OBVIOUS
  <2>2. CASE k = 1
    BY <1>2, <2>2 DEF AreSums
  <2>3. CASE k # 1
    <3>1. k \in 2 .. n /\ k - 1 \in 1 .. n - 1 /\ k - 1 # 0
      BY <2>3
    <3>2. t[k] = s[k - 1] /\ t[k - 1] = s[(k - 1) - 1] /\ g[k] = f[k - 1]
      BY <2>1, <3>1
    <3>3. s[k - 1] = s[(k - 1) - 1] + f[k - 1]
      BY <1>2, <3>1 DEF AreSums
    <3>4. QED
      BY <3>2, <3>3
  <2>4. QED
    BY <2>2, <2>3
<1>5. \A i \in 1 .. n : g[i] \in Int
  <2> TAKE i \in 1 .. n
  <2>1. i = 1 \/ (i \in 2 .. n /\ i - 1 \in 1 .. n)
    OBVIOUS
  <2>2. QED
    BY <2>1
<1> HIDE DEF t
<1>6. AreSums(t, g, n)
  BY <1>3, <1>4 DEF AreSums
<1>7. QED
  BY <1>2, <1>3, <1>5, <1>6, SumIs

\* A sum of naturals is one, and a sum of zeros is none.
LEMMA SumNatural ==
  ASSUME NEW n \in Nat, NEW f, \A i \in 1 .. n : f[i] \in Nat
  PROVE  SumTo(f, n) \in Nat
<1>1. PICK s : AreSums(s, f, n) /\ SumTo(f, n) = s[n]
  BY SumIsLast
<1> DEFINE T == {m \in 0 .. n : s[m] \notin Nat}
<1>2. T = {}
  <2>1. SUFFICES ASSUME T # {} PROVE FALSE
    OBVIOUS
  <2>2. PICK m \in T : \A y \in T : m <= y
    <3>1. T \subseteq Nat
      OBVIOUS
    <3>2. QED
      BY <2>1, <3>1, Least
  <2>3. m \in 0 .. n /\ s[m] \notin Nat /\ m # 0
    BY <1>1, <2>2 DEF AreSums
  <2>4. m - 1 \in 0 .. n /\ m - 1 \notin T /\ m \in 1 .. n
    BY <2>2, <2>3
  <2>5. s[m - 1] \in Nat /\ f[m] \in Nat /\ s[m] = s[m - 1] + f[m]
    BY <1>1, <2>4 DEF AreSums
  <2>6. QED
    BY <2>3, <2>5
<1>3. n \in 0 .. n /\ n \notin T
  BY <1>2
<1>4. QED
  BY <1>1, <1>3

LEMMA SumOfNone ==
  ASSUME NEW n \in Nat, NEW f, \A i \in 1 .. n : f[i] = 0
  PROVE  SumTo(f, n) = 0
<1> DEFINE t == [k \in 0 .. n |-> 0]
<1>1. AreSums(t, f, n) /\ t[n] = 0
  BY DEF AreSums
<1> HIDE DEF t
<1>2. QED
  BY <1>1, SumIs

-----------------------------------------------------------------------------
(* Lists.                                                                  *)

\* A list behind another one.
LEMMA ConcatOnce ==
  ASSUME NEW T, NEW a \in Seq(T), NEW b \in Seq(T)
  PROVE  /\ a \o b \in Seq(T) /\ ToSet(a \o b) = ToSet(a) \cup ToSet(b)
         /\ IsInjective(a) /\ IsInjective(b) /\ ToSet(a) \cap ToSet(b) = {} => IsInjective(a \o b)
<1> DEFINE c == a \o b
           m == Len(a)
           n == Len(b)
<1>1. /\ c \in Seq(T) /\ m \in Nat /\ n \in Nat /\ DOMAIN c = 1 .. m + n
      /\ DOMAIN a = 1 .. m /\ DOMAIN b = 1 .. n
      /\ \A i \in 1 .. m : c[i] = a[i]
      /\ \A i \in m + 1 .. m + n : c[i] = b[i - m]
  BY LenProperties
<1> HIDE DEF c, m, n
<1>2. \A i \in 1 .. m + n : i \in 1 .. m \/ (i \in m + 1 .. m + n /\ i - m \in 1 .. n)
  BY <1>1
<1>3. \A i \in 1 .. n : m + i \in m + 1 .. m + n /\ (m + i) - m = i
  BY <1>1
<1>4. ToSet(c) = ToSet(a) \cup ToSet(b)
  <2>1. ASSUME NEW x \in ToSet(c) PROVE x \in ToSet(a) \cup ToSet(b)
    BY <1>1, <1>2, <2>1 DEF ToSet
  <2>2. ASSUME NEW x \in ToSet(a) PROVE x \in ToSet(c)
    <3>1. PICK i \in 1 .. m : x = a[i]
      BY <1>1, <2>2 DEF ToSet
    <3>2. i \in DOMAIN c /\ c[i] = x
      BY <1>1, <3>1
    <3>3. QED
      BY <3>2 DEF ToSet
  <2>3. ASSUME NEW x \in ToSet(b) PROVE x \in ToSet(c)
    <3>1. PICK i \in 1 .. n : x = b[i]
      BY <1>1, <2>3 DEF ToSet
    <3>2. m + i \in DOMAIN c /\ c[m + i] = x
      BY <1>1, <1>3, <3>1
    <3>3. QED
      BY <3>2 DEF ToSet
  <2>4. QED
    BY <2>1, <2>2, <2>3
<1>5. ASSUME IsInjective(a), IsInjective(b), ToSet(a) \cap ToSet(b) = {}
      PROVE  IsInjective(c)
  <2>1. \A i \in 1 .. m : \A j \in 1 .. n : a[i] # b[j]
    BY <1>1, <1>5 DEF ToSet
  <2>2. ASSUME NEW i \in 1 .. m + n, NEW j \in 1 .. m + n, c[i] = c[j] PROVE i = j
    <3>1. CASE i \in 1 .. m /\ j \in 1 .. m
      BY <1>1, <1>5, <2>2, <3>1 DEF IsInjective
    <3>2. CASE i \in 1 .. m /\ j \notin 1 .. m
      BY <1>1, <1>2, <2>1, <2>2, <3>2
    <3>3. CASE i \notin 1 .. m /\ j \in 1 .. m
      BY <1>1, <1>2, <2>1, <2>2, <3>3
    <3>4. CASE i \notin 1 .. m /\ j \notin 1 .. m
      <4>1. i - m \in 1 .. n /\ j - m \in 1 .. n /\ b[i - m] = b[j - m]
        BY <1>1, <1>2, <2>2, <3>4
      <4>2. i - m = j - m
        BY <1>1, <1>5, <4>1 DEF IsInjective
      <4>3. QED
        BY <1>1, <4>2
    <3>5. QED
      BY <3>1, <3>2, <3>3, <3>4
  <2>3. QED
    BY <1>1, <2>2 DEF IsInjective
<1>6. QED
  BY <1>1, <1>4, <1>5 DEF c

\* The first lists of ss, one behind the other.
AreFlat(g, ss, n) ==
  /\ DOMAIN g = 1 .. n
  /\ \A k \in 1 .. n : g[k] = IF k = 1 THEN ss[1] ELSE g[k - 1] \o ss[k]

LEMMA FlatExist ==
  ASSUME NEW n \in Nat, NEW ss PROVE \E g : AreFlat(g, ss, n)
<1> DEFINE T == {m \in 0 .. n : ~ \E g : AreFlat(g, ss, m)}
<1>1. SUFFICES ASSUME T # {} PROVE FALSE
  OBVIOUS
<1>2. PICK m \in T : \A y \in T : m <= y
  <2>1. T \subseteq Nat
    OBVIOUS
  <2>2. QED
    BY <1>1, <2>1, Least
<1>3. m \in 0 .. n /\ m \in Nat /\ ~ \E g : AreFlat(g, ss, m)
  BY <1>2
<1>4. CASE m = 0
  <2>1. AreFlat([k \in 1 .. 0 |-> <<>>], ss, 0)
    BY DEF AreFlat
  <2>2. QED
    BY <1>3, <1>4, <2>1
<1>5. CASE m # 0
  <2>1. m - 1 \in 0 .. n /\ m - 1 \notin T
    BY <1>2, <1>3, <1>5
  <2>2. PICK g : AreFlat(g, ss, m - 1)
    BY <2>1
  <2> DEFINE last == IF m = 1 THEN ss[1] ELSE g[m - 1] \o ss[m]
             h == [k \in 1 .. m |-> IF k = m THEN last ELSE g[k]]
  <2>3. ASSUME NEW k \in 1 .. m PROVE h[k] = IF k = 1 THEN ss[1] ELSE h[k - 1] \o ss[k]
    <3>1. CASE k = m
      <4>1. CASE m = 1
        BY <3>1, <4>1
      <4>2. CASE m # 1
        <5>1. m - 1 \in 1 .. m /\ m - 1 # m
          BY <1>3, <1>5, <4>2
        <5>2. QED
          BY <3>1, <4>2, <5>1
      <4>3. QED
        BY <4>1, <4>2
    <3>2. CASE k # m
      <4>1. k \in 1 .. m - 1 /\ (k = 1 \/ (k - 1 \in 1 .. m /\ k - 1 # m))
        BY <1>3, <3>2
      <4>2. g[k] = IF k = 1 THEN ss[1] ELSE g[k - 1] \o ss[k]
        BY <2>2, <4>1 DEF AreFlat
      <4>3. QED
        BY <3>2, <4>1, <4>2
    <3>3. QED
      BY <3>1, <3>2
  <2>4. DOMAIN h = 1 .. m
    OBVIOUS
  <2> HIDE DEF h
  <2>5. AreFlat(h, ss, m)
    BY <2>3, <2>4 DEF AreFlat
  <2>6. QED
    BY <1>3, <2>5
<1>6. QED
  BY <1>4, <1>5

\* FlattenSeq is the last of them.
LEMMA FlattenIsLast ==
  ASSUME NEW T, NEW ss \in Seq(Seq(T)), Len(ss) # 0
  PROVE  \E g : AreFlat(g, ss, Len(ss)) /\ FlattenSeq(ss) = g[Len(ss)]
<1> DEFINE n == Len(ss)
           Body(g) == [k \in 1 .. n |-> IF k = 1 THEN ss[k] ELSE g[k - 1] \o ss[k]]
           flat == CHOOSE g : g = Body(g)
<1>1. n \in Nat
  OBVIOUS
<1>2. PICK h : AreFlat(h, ss, n)
  BY <1>1, FlatExist
<1> DEFINE t == [k \in 1 .. n |-> h[k]]
<1>3. t = Body(t)
  <2>1. \A k \in 1 .. n : k = 1 \/ k - 1 \in 1 .. n
    BY <1>1
  <2>2. \A k \in 1 .. n : h[k] = IF k = 1 THEN ss[k] ELSE t[k - 1] \o ss[k]
    BY <1>2, <2>1 DEF AreFlat
  <2>3. QED
    BY <2>2
<1>4. flat = Body(flat)
  <2> HIDE DEF t
  <2>1. QED
    BY <1>3
<1>5. FlattenSeq(ss) = flat[n]
  BY DEF FlattenSeq
<1> HIDE DEF flat
<1>6. AreFlat(flat, ss, n)
  <2>1. DOMAIN flat = 1 .. n
    BY <1>4
  <2>2. \A k \in 1 .. n : flat[k] = IF k = 1 THEN ss[k] ELSE flat[k - 1] \o ss[k]
    BY <1>4
  <2>3. QED
    BY <2>1, <2>2 DEF AreFlat
<1>7. QED
  BY <1>5, <1>6

\* What the first lists of ss hold, and that it is each thing once if no list has
\* anything twice and no two lists share anything.
HeldBy(ss, k) == UNION {ToSet(ss[i]) : i \in 1 .. k}
ListsApart(ss) ==
  /\ \A i \in 1 .. Len(ss) : IsInjective(ss[i])
  /\ \A i, j \in 1 .. Len(ss) : i # j => ToSet(ss[i]) \cap ToSet(ss[j]) = {}
IsFlat(T, ss, f, k) ==
  /\ f \in Seq(T)
  /\ ToSet(f) = HeldBy(ss, k)
  /\ ListsApart(ss) => IsInjective(f)

\* One list more.
LEMMA FlatStep ==
  ASSUME NEW T, NEW ss \in Seq(Seq(T)), NEW f, NEW j \in Nat, j + 1 \in 1 .. Len(ss),
         IsFlat(T, ss, f, j)
  PROVE  IsFlat(T, ss, f \o ss[j + 1], j + 1)
<1> DEFINE k == j + 1
<1>1. f \in Seq(T) /\ ss[k] \in Seq(T)
  BY DEF IsFlat
<1>2. HeldBy(ss, k) = HeldBy(ss, j) \cup ToSet(ss[k])
  <2>1. 1 .. k = 1 .. j \cup {k}
    OBVIOUS
  <2> HIDE DEF k
  <2>2. QED
    BY <2>1 DEF HeldBy
<1>3. \A i \in 1 .. j : i \in 1 .. Len(ss) /\ i # k
  OBVIOUS
<1>4. k \in 1 .. Len(ss)
  OBVIOUS
<1> HIDE DEF k
<1>5. ToSet(f \o ss[k]) = HeldBy(ss, k) /\ f \o ss[k] \in Seq(T)
  BY <1>1, <1>2, ConcatOnce DEF IsFlat
<1>6. ASSUME ListsApart(ss) PROVE IsInjective(f \o ss[k])
  <2>1. HeldBy(ss, j) \cap ToSet(ss[k]) = {}
    BY <1>3, <1>4, <1>6 DEF HeldBy, ListsApart
  <2>2. IsInjective(f) /\ IsInjective(ss[k]) /\ ToSet(f) = HeldBy(ss, j)
    BY <1>4, <1>6 DEF IsFlat, ListsApart
  <2>3. QED
    BY <1>1, <2>1, <2>2, ConcatOnce
<1>7. QED
  BY <1>5, <1>6 DEF IsFlat, k

\* What FlattenSeq makes of the lists: all that they hold, each thing once if they
\* are apart.
LEMMA FlattenOnce ==
  ASSUME NEW T, NEW ss \in Seq(Seq(T))
  PROVE  IsFlat(T, ss, FlattenSeq(ss), Len(ss))
<1> DEFINE n == Len(ss)
<1>1. n \in Nat /\ \A i \in 1 .. n : ss[i] \in Seq(T)
  OBVIOUS
<1>2. CASE n = 0
  <2>1. FlattenSeq(ss) = <<>>
    BY <1>2 DEF FlattenSeq
  <2>2. ToSet(<<>>) = {} /\ IsInjective(<<>>) /\ <<>> \in Seq(T)
    BY DEF ToSet, IsInjective
  <2>3. HeldBy(ss, 0) = {}
    BY DEF HeldBy
  <2>4. QED
    BY <1>2, <2>1, <2>2, <2>3 DEF IsFlat
<1>3. CASE n # 0
  <2>1. PICK g : AreFlat(g, ss, n) /\ FlattenSeq(ss) = g[n]
    BY <1>3, FlattenIsLast
  <2> DEFINE Bad == {k \in 1 .. n : ~IsFlat(T, ss, g[k], k)}
  <2>2. Bad = {}
    <3>1. SUFFICES ASSUME Bad # {} PROVE FALSE
      OBVIOUS
    <3>2. PICK k \in Bad : \A y \in Bad : k <= y
      <4>1. Bad \subseteq Nat
        BY <1>1
      <4> HIDE DEF Bad
      <4>2. QED
        BY <3>1, <4>1, Least
    <3>3. k \in 1 .. n /\ ~IsFlat(T, ss, g[k], k)
      BY <3>2
    <3>4. CASE k = 1
      <4>1. g[1] = ss[1] /\ ss[1] \in Seq(T) /\ 1 \in 1 .. n
        BY <1>1, <2>1, <3>3, <3>4 DEF AreFlat
      <4>2. HeldBy(ss, 1) = ToSet(ss[1])
        BY DEF HeldBy
      <4>3. ListsApart(ss) => IsInjective(ss[1])
        BY <4>1 DEF ListsApart
      <4>4. QED
        BY <3>3, <3>4, <4>1, <4>2, <4>3 DEF IsFlat
    <3>5. CASE k # 1
      <4> DEFINE j == k - 1
      <4>1. j \in 1 .. n /\ j \notin Bad /\ j \in Nat /\ k = j + 1
        BY <1>1, <3>2, <3>3, <3>5
      <4>2. IsFlat(T, ss, g[j], j)
        BY <4>1
      <4>3. g[k] = g[j] \o ss[k]
        BY <2>1, <3>3, <3>5 DEF AreFlat
      <4> HIDE DEF j
      <4>4. IsFlat(T, ss, g[j] \o ss[j + 1], j + 1)
        BY <3>3, <4>1, <4>2, FlatStep
      <4>5. QED
        BY <3>3, <4>1, <4>3, <4>4
    <3>6. QED
      BY <3>4, <3>5
  <2>3. n \in 1 .. n
    BY <1>1, <1>3
  <2>4. IsFlat(T, ss, g[n], n)
    BY <2>2, <2>3
  <2>5. QED
    BY <2>1, <2>4
<1>4. QED
  BY <1>2, <1>3
-----------------------------------------------------------------------------
(* Division, and the places of a table of L rows and R columns.            *)

\* What a quotient and a remainder are.
LEMMA DivModIs ==
  ASSUME NEW q \in Nat, NEW R \in Nat \ {0}, NEW r \in 0 .. R - 1
  PROVE  (R * q + r) \div R = q /\ (R * q + r) % R = r
BY SMT

\* Every number has them.
LEMMA DivModExist ==
  ASSUME NEW x \in Nat, NEW R \in Nat \ {0}
  PROVE  \E q \in Nat, r \in 0 .. R - 1 : x = R * q + r
<1> DEFINE T == {y \in Nat : ~ \E q \in Nat, r \in 0 .. R - 1 : y = R * q + r}
<1>1. SUFFICES ASSUME T # {} PROVE FALSE
  OBVIOUS
<1>2. PICK y \in T : \A z \in T : y <= z
  <2>1. T \subseteq Nat
    OBVIOUS
  <2>2. QED
    BY <1>1, <2>1, Least
<1>3. y \in Nat /\ ~ \E q \in Nat, r \in 0 .. R - 1 : y = R * q + r
  OBVIOUS
<1>4. CASE y < R
  <2>1. y = R * 0 + y /\ y \in 0 .. R - 1
    BY <1>3, <1>4
  <2>2. QED
    BY <1>3, <2>1
<1>5. CASE y >= R
  <2>1. y - R \in Nat /\ ~(y <= y - R)
    BY <1>3, <1>5
  <2>2. PICK q \in Nat, r \in 0 .. R - 1 : y - R = R * q + r
    BY <1>2, <2>1
  <2>3. y = R * (q + 1) + r /\ q + 1 \in Nat
    BY <1>3, <2>2
  <2>4. QED
    BY <1>3, <2>3
<1>6. QED
  BY <1>3, <1>4, <1>5

RowAt(k, R) == ((k - 1) \div R) + 1
ColumnAt(k, R) == ((k - 1) % R) + 1

\* The places of the table, counted row by row.
LEMMA Places ==
  ASSUME NEW L \in Nat, NEW R \in Nat \ {0}
  PROVE  /\ L * R \in Nat
         /\ \A k \in 1 .. L * R : RowAt(k, R) \in 1 .. L /\ ColumnAt(k, R) \in 1 .. R
         /\ \A k, l \in 1 .. L * R :
              RowAt(k, R) = RowAt(l, R) /\ ColumnAt(k, R) = ColumnAt(l, R) => k = l
         /\ \A a \in 1 .. L, b \in 1 .. R : \E k \in 1 .. L * R :
              RowAt(k, R) = a /\ ColumnAt(k, R) = b
<1>1. L * R \in Nat
  OBVIOUS
<1>2. ASSUME NEW k \in 1 .. L * R
      PROVE  /\ RowAt(k, R) \in 1 .. L /\ ColumnAt(k, R) \in 1 .. R
             /\ k = R * (RowAt(k, R) - 1) + ColumnAt(k, R)
  <2>1. k - 1 \in Nat /\ k - 1 < L * R
    BY <1>1
  <2>2. PICK q \in Nat, r \in 0 .. R - 1 : k - 1 = R * q + r
    BY <2>1, DivModExist
  <2>3. (k - 1) \div R = q /\ (k - 1) % R = r
    BY <2>2, DivModIs
  <2>4. q < L
    <3>1. CASE q >= L
      <4>1. PICK d \in Nat : q = L + d
        <5>1. q - L \in Nat /\ q = L + (q - L)
          BY <3>1
        <5>2. QED
          BY <5>1
      <4>2. R * q = L * R + R * d /\ R * d \in Nat
        BY <4>1
      <4>3. QED
        BY <1>1, <2>1, <2>2, <4>2
    <3>2. QED
      BY <3>1
  <2>5. k = R * (q + 1 - 1) + r + 1 /\ q + 1 \in 1 .. L /\ r + 1 \in 1 .. R
    BY <2>1, <2>2, <2>4
  <2>6. QED
    BY <2>3, <2>5 DEF RowAt, ColumnAt
<1>3. ASSUME NEW a \in 1 .. L, NEW b \in 1 .. R
      PROVE  \E k \in 1 .. L * R : RowAt(k, R) = a /\ ColumnAt(k, R) = b
  <2> DEFINE k == R * (a - 1) + b
  <2>1. a - 1 \in Nat /\ b - 1 \in 0 .. R - 1 /\ k - 1 = R * (a - 1) + (b - 1)
    OBVIOUS
  <2>2. (k - 1) \div R = a - 1 /\ (k - 1) % R = b - 1
    <3> DEFINE q == a - 1
               r == b - 1
    <3>1. q \in Nat /\ r \in 0 .. R - 1 /\ k - 1 = R * q + r
      BY <2>1
    <3> HIDE DEF k, q, r
    <3>2. (R * q + r) \div R = q /\ (R * q + r) % R = r
      BY <3>1, DivModIs
    <3>3. QED
      BY <3>1, <3>2 DEF q, r
  <2>3. k \in 1 .. L * R
    <3>1. PICK d \in Nat : L = a + d
      <4>1. L - a \in Nat /\ L = a + (L - a)
        OBVIOUS
      <4>2. QED
        BY <4>1
    <3>2. L * R = R * (a - 1) + R + R * d /\ R * d \in Nat
      BY <3>1
    <3>3. R * (a - 1) \in Nat
      BY <2>1
    <3>4. QED
      BY <3>2, <3>3
  <2> HIDE DEF k
  <2>4. RowAt(k, R) = a /\ ColumnAt(k, R) = b
    BY <2>2 DEF RowAt, ColumnAt
  <2>5. QED
    BY <2>3, <2>4
<1>4. ASSUME NEW k \in 1 .. L * R, NEW l \in 1 .. L * R,
             RowAt(k, R) = RowAt(l, R), ColumnAt(k, R) = ColumnAt(l, R)
      PROVE  k = l
  BY <1>2, <1>4
<1>5. QED
  BY <1>1, <1>2, <1>3, <1>4
=============================================================================
