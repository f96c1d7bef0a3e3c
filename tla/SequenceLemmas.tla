--------------------------- MODULE SequenceLemmas ---------------------------
(***************************************************************************)
(* What the models' operators on sequences do: sequences given by their    *)
(* elements, the set a fold runs over, and the sum FoldLeft computes, for  *)
(* every sequence of natural numbers.  The induction is over an explicit   *)
(* set of numbers, from the fact that < is well founded on Nat.            *)
(***************************************************************************)
EXTENDS Integers, Sequences, SequencesExt, SequenceTheorems, WellFoundedInduction, TLAPS

-----------------------------------------------------------------------------
(* Quotient and remainder, by any number. *)

LEMMA DivisionFacts ==
  ASSUME NEW P \in Nat \ {0}, NEW g \in Nat
  PROVE  /\ g \div P \in Nat /\ g % P \in 0 .. P - 1
         /\ g = P * (g \div P) + (g % P)
  <1> DEFINE q == g \div P
             r == g % P
  <1>1. q \in Nat /\ r \in 0 .. P - 1 /\ r = g - P * q
    OBVIOUS
  <1> HIDE DEF q, r
  <1>2. P * q \in Int
    BY <1>1
  <1>3. g = P * q + r
    BY <1>1, <1>2
  <1> QED
    BY <1>1, <1>3 DEF q, r

LEMMA ProductsApart ==
  ASSUME NEW P \in Nat \ {0}, NEW q \in Int, NEW d \in Int, q > d
  PROVE  P * q >= P * d + P
  <1>1. P * (q - d - 1) >= 0
    OBVIOUS
  <1>2. P * (q - d - 1) = P * q - P * d - P
    OBVIOUS
  <1> QED
    BY <1>1, <1>2

LEMMA DivisionUnique ==
  ASSUME NEW P \in Nat \ {0}, NEW g \in Nat, NEW q \in Int, NEW r \in 0 .. P - 1,
         g = P * q + r
  PROVE  g \div P = q /\ g % P = r
  <1> DEFINE d == g \div P
             m == g % P
  <1>1. d \in Nat /\ m \in 0 .. P - 1 /\ g = P * d + m
    BY DivisionFacts
  <1> HIDE DEF d, m
  <1>2. P * d \in Int /\ P * q \in Int
    BY <1>1
  <1>3. ~(q > d)
    BY <1>1, <1>2, ProductsApart
  <1>4. ~(d > q)
    BY <1>1, <1>2, ProductsApart
  <1>5. q = d
    BY <1>1, <1>3, <1>4
  <1>6. m = r
    BY <1>1, <1>2, <1>5
  <1> QED
    BY <1>5, <1>6 DEF d, m

-----------------------------------------------------------------------------
(* Sequences given by their elements. *)

LEMMA FunctionIsSeq ==
  ASSUME NEW S, NEW n \in Nat, NEW f \in [1 .. n -> S]
  PROVE  f \in Seq(S) /\ Len(f) = n
  OBVIOUS

LEMMA TailByElements ==
  ASSUME NEW S, NEW s \in Seq(S), NEW t \in Seq(S),
         Len(s) /= 0, Len(t) = Len(s) - 1,
         \A j \in 1 .. Len(t) : t[j] = s[j + 1]
  PROVE  s /= <<>> /\ Head(s) = s[1] /\ t = Tail(s)
  <1>1. s /= <<>>
    OBVIOUS
  <1>2. /\ Tail(s) \in Seq(S) /\ Len(Tail(s)) = Len(s) - 1
        /\ \A j \in 1 .. Len(Tail(s)) : Tail(s)[j] = s[j + 1]
    BY <1>1, HeadTailProperties
  <1>3. t = Tail(s)
    BY <1>2, SeqEqual
  <1> QED
    BY <1>1, <1>3

LEMMA AppendByElements ==
  ASSUME NEW S, NEW s \in Seq(S), NEW t \in Seq(S), NEW e \in S,
         Len(t) = Len(s) + 1, t[Len(t)] = e,
         \A j \in 1 .. Len(s) : t[j] = s[j]
  PROVE  t = Append(s, e)
  <1>1. /\ Append(s, e) \in Seq(S) /\ Len(Append(s, e)) = Len(s) + 1
        /\ \A j \in 1 .. Len(s) : Append(s, e)[j] = s[j]
        /\ Append(s, e)[Len(s) + 1] = e
    BY AppendProperties
  <1>2. Len(s) \in Nat
    BY LenProperties
  <1>3. \A j \in 1 .. Len(t) : t[j] = Append(s, e)[j]
    BY <1>1, <1>2
  <1> QED
    BY <1>1, <1>3, SeqEqual

LEMMA ExceptByElements ==
  ASSUME NEW S, NEW s \in Seq(S), NEW t \in Seq(S), NEW e \in S,
         NEW i \in 1 .. Len(s), Len(t) = Len(s),
         \A j \in 1 .. Len(s) : t[j] = IF j = i THEN e ELSE s[j]
  PROVE  t = [s EXCEPT ![i] = e]
  <1>1. /\ [s EXCEPT ![i] = e] \in Seq(S)
        /\ Len([s EXCEPT ![i] = e]) = Len(s)
        /\ \A j \in 1 .. Len(s) : [s EXCEPT ![i] = e][j] = IF j = i THEN e ELSE s[j]
    BY ExceptSeq
  <1> QED
    BY <1>1, SeqEqual

LEMMA TailOfConcat ==
  ASSUME NEW S, NEW e \in S, NEW s \in Seq(S)
  PROVE  /\ Tail(<<e>> \o s) = s /\ Head(<<e>> \o s) = e /\ <<e>> \o s /= <<>>
         /\ Len(<<e>> \o s) = 1 + Len(s) /\ Len(s) \in Nat
  OBVIOUS

LEMMA TailOfAppend ==
  ASSUME NEW S, NEW s \in Seq(S), s /= <<>>, NEW e \in S
  PROVE  Tail(Append(s, e)) = Append(Tail(s), e)
  OBVIOUS

LEMMA ConcatOfAppend ==
  ASSUME NEW S, NEW s \in Seq(S), NEW t \in Seq(S), NEW e \in S
  PROVE  s \o Append(t, e) = Append(s \o t, e)
  OBVIOUS

-----------------------------------------------------------------------------
(* Induction. *)

\* A set of natural numbers that is not empty has a least element.
LEMMA LeastElement ==
  ASSUME NEW S \in SUBSET Nat, S /= {}
  PROVE  \E n \in S : \A m \in S : n <= m
  <1>1. IsWellFoundedOn(OpToRel(<, Nat), Nat)
    BY NatLessThanWellFounded
  <1>2. PICK n \in S : \A m \in S : ~(<<m, n>> \in OpToRel(<, Nat))
    BY <1>1, WFMin
  <1>3. ASSUME NEW m \in S PROVE n <= m
    <2>1. ~(<<m, n>> \in OpToRel(<, Nat))
      BY <1>2
    <2>2. ~(m < n)
      BY <2>1 DEF OpToRel
    <2> QED
      BY <2>2
  <1> QED
    BY <1>3

\* A set of natural numbers that is not empty and bounded has a greatest element.
LEMMA GreatestBelow ==
  ASSUME NEW S \in SUBSET Nat, S /= {}, NEW N \in Nat, \A y \in S : y < N
  PROVE  Max(S) \in S /\ \A y \in S : y <= Max(S)
  <1> DEFINE D == {N - y : y \in S}
  <1>1. D \in SUBSET Nat /\ D /= {}
    <2>1. \A y \in S : N - y \in Nat
      OBVIOUS
    <2> QED
      BY <2>1
  <1>2. PICK d \in D : \A m \in D : d <= m
    BY <1>1, LeastElement
  <1>3. PICK x \in S : d = N - x
    BY <1>2
  <1>4. \A y \in S : x >= y
    <2> TAKE y \in S
    <2>1. N - y \in D
      OBVIOUS
    <2>2. N - x <= N - y
      BY <2>1, <1>2, <1>3
    <2>3. x \in Nat /\ y \in Nat
      OBVIOUS
    <2> QED
      BY <2>2, <2>3
  <1>5. Max(S) \in S /\ \A y \in S : Max(S) >= y
    BY <1>3, <1>4 DEF Max
  <1> QED
    BY <1>5

\* Induction: the numbers a fact holds of are all numbers.
LEMMA SetInduction ==
  ASSUME NEW S \in SUBSET Nat, 0 \in S, \A n \in S : n + 1 \in S
  PROVE  S = Nat
  <1> SUFFICES ASSUME Nat \ S /= {} PROVE FALSE
    OBVIOUS
  <1>1. PICK n \in Nat \ S : \A m \in Nat \ S : n <= m
    BY LeastElement, Nat \ S \in SUBSET Nat
  <1>2. n - 1 \in Nat /\ ~(n <= n - 1)
    OBVIOUS
  <1>3. n - 1 \in S
    BY <1>1, <1>2
  <1> QED
    BY <1>3, (n - 1) + 1 = n

-----------------------------------------------------------------------------
(* The set FoldLeft takes the elements from, last one first. *)

LEMMA LastIsMax ==
  ASSUME NEW n \in Nat, NEW s \in SUBSET (1 .. n + 1)
  PROVE  /\ n + 1 \in s => Max(s) = n + 1 /\ s \ {Max(s)} \in SUBSET (1 .. n)
         /\ n + 1 \notin s => s \in SUBSET (1 .. n)
         /\ s \in SUBSET (1 .. n) => n + 1 \notin s
         /\ s /= {} => Max(s) \in s /\ s \ {Max(s)} \in SUBSET (1 .. n + 1)
         /\ s /= {} /\ n + 1 \notin s => s \ {Max(s)} \in SUBSET (1 .. n)
  <1>1. n + 1 \in s => Max(s) = n + 1
    <2> SUFFICES ASSUME n + 1 \in s PROVE Max(s) = n + 1
      OBVIOUS
    <2>1. \A y \in s : n + 1 >= y
      OBVIOUS
    <2>2. \A x \in s : (\A y \in s : x >= y) => x = n + 1
      OBVIOUS
    <2> QED
      BY <2>1, <2>2 DEF Max
  <1>2. n + 1 \notin s => s \in SUBSET (1 .. n)
    <2> SUFFICES ASSUME n + 1 \notin s, NEW y \in s PROVE y \in 1 .. n
      OBVIOUS
    <2> QED
      BY y /= n + 1, y \in 1 .. n + 1
  <1>3. n + 1 \in s => s \ {Max(s)} \in SUBSET (1 .. n)
    <2> SUFFICES ASSUME n + 1 \in s, NEW y \in s \ {n + 1} PROVE y \in 1 .. n
      BY <1>1
    <2> QED
      BY y /= n + 1, y \in 1 .. n + 1
  <1>4. s /= {} => Max(s) \in s
    <2> SUFFICES ASSUME s /= {} PROVE Max(s) \in s
      OBVIOUS
    <2> DEFINE T == {m \in Nat : \A y \in s : m >= y}
    <2>1. PICK m \in T : \A k \in T : m <= k
      <3>1. n + 1 \in T
        OBVIOUS
      <3> QED
        BY <3>1, LeastElement, T \in SUBSET Nat
    <2>2. m \in s
      <3> SUFFICES ASSUME m \notin s PROVE FALSE
        OBVIOUS
      <3>1. m /= 0
        <4>1. PICK y \in s : TRUE
          OBVIOUS
        <4> QED
          BY <4>1, m >= y, y >= 1
      <3>2. m - 1 \in T
        BY <3>1, <2>1
      <3> QED
        BY <2>1, <3>2
    <2> QED
      BY <2>1, <2>2 DEF Max
  <1>5. s \in SUBSET (1 .. n) => n + 1 \notin s
    BY n + 1 \notin 1 .. n
  <1>6. s /= {} /\ n + 1 \notin s => s \ {Max(s)} \in SUBSET (1 .. n)
    BY <1>2
  <1> QED
    BY <1>1, <1>2, <1>3, <1>4, <1>5, <1>6

LEMMA FirstNumbers ==
  \A m \in Nat : (1 .. m + 1) \ {m + 1} = 1 .. m /\ 1 .. m + 1 /= {} /\ (m + 1) - 1 = m
  <1> SUFFICES ASSUME NEW m \in Nat
               PROVE  (1 .. m + 1) \ {m + 1} = 1 .. m /\ 1 .. m + 1 /= {}
    OBVIOUS
  <1>1. \A x \in 1 .. m + 1 : x /= m + 1 => x \in 1 .. m
    OBVIOUS
  <1>2. \A x \in 1 .. m : x \in 1 .. m + 1 /\ x /= m + 1
    OBVIOUS
  <1>3. 1 \in 1 .. m + 1
    OBVIOUS
  <1> QED
    BY <1>1, <1>2, <1>3, Zenon

\* The recursion FoldLeft is defined by, for a sum of n elements.
SumIter(f, n, w) ==
  f = [s \in SUBSET (1 .. n) |-> IF s = {} THEN 0 ELSE f[s \ {Max(s)}] + w[Max(s)]]

\* A function that satisfies it exists.
LEMMA SumIterExists ==
  ASSUME NEW n \in Nat, NEW w \in [1 .. n -> Nat]
  PROVE  \E f : SumIter(f, n, w)
  <1> DEFINE Iter(f, k) ==
               \A s \in SUBSET (1 .. k) :
                 f[s] = IF s = {} THEN 0 ELSE f[s \ {Max(s)}] + w[Max(s)]
             Exists(k) == \E f \in [SUBSET (1 .. k) -> Nat] : Iter(f, k)
             S == {k \in Nat : k <= n => Exists(k)}
  <1>1. 0 \in S
    <2> DEFINE g == [s \in SUBSET (1 .. 0) |-> 0]
    <2>1. \A s \in SUBSET (1 .. 0) : s = {}
      OBVIOUS
    <2> QED
      BY <2>1, g \in [SUBSET (1 .. 0) -> Nat], Iter(g, 0)
  <1>2. ASSUME NEW k \in S PROVE k + 1 \in S
    <2> SUFFICES ASSUME k + 1 <= n, Exists(k) PROVE Exists(k + 1)
      <3> HIDE DEF Exists
      <3> QED
        OBVIOUS
    <2>1. PICK f \in [SUBSET (1 .. k) -> Nat] : Iter(f, k)
      BY Zenon
    <2>2. w[k + 1] \in Nat
      OBVIOUS
    <2> DEFINE g == [s \in SUBSET (1 .. k + 1) |->
                       IF k + 1 \in s THEN f[s \ {Max(s)}] + w[k + 1] ELSE f[s]]
    <2>3. g \in [SUBSET (1 .. k + 1) -> Nat]
      BY <2>2, LastIsMax
    <2>4. ASSUME NEW s \in SUBSET (1 .. k + 1)
          PROVE  g[s] = IF s = {} THEN 0 ELSE g[s \ {Max(s)}] + w[Max(s)]
      <3>1. CASE k + 1 \in s
        <4>1. /\ Max(s) = k + 1 /\ s \ {Max(s)} \in SUBSET (1 .. k)
              /\ k + 1 \notin s \ {Max(s)} /\ s \ {Max(s)} \in SUBSET (1 .. k + 1)
          BY <3>1, LastIsMax
        <4>2. g[s \ {Max(s)}] = f[s \ {Max(s)}]
          BY <4>1
        <4> QED
          BY <3>1, <4>1, <4>2
      <3>2. CASE k + 1 \notin s
        <4>1. s \in SUBSET (1 .. k) /\ g[s] = f[s]
          BY <3>2, LastIsMax
        <4>2. s /= {} => s \ {Max(s)} \in SUBSET (1 .. k) /\ s \ {Max(s)} \in SUBSET (1 .. k + 1)
          BY <3>2, LastIsMax
        <4>3. s /= {} => g[s \ {Max(s)}] = f[s \ {Max(s)}]
          BY <3>2, <4>2
        <4> HIDE DEF g
        <4> QED
          BY <4>1, <4>3, <2>1
      <3> QED
        BY <3>1, <3>2
    <2> HIDE DEF g
    <2>5. Iter(g, k + 1)
      BY <2>4
    <2> HIDE DEF Iter
    <2> QED
      BY <2>3, <2>5
  <1> HIDE DEF S
  <1>3. S = Nat
    BY <1>1, <1>2, SetInduction, S \in SUBSET Nat DEF S
  <1>4. Exists(n)
    <2> HIDE DEF Exists
    <2> QED
      BY <1>3, n \in S DEF S
  <1>5. PICK f \in [SUBSET (1 .. n) -> Nat] : Iter(f, n)
    BY <1>4, Zenon
  <1>6. SumIter(f, n, w)
    BY <1>5 DEF SumIter
  <1> QED
    BY <1>6

-----------------------------------------------------------------------------
(* Sums of sequences of natural numbers. *)

Total(w) == FoldLeft(LAMBDA x, y : x + y, 0, w)

RunningSum(sum, w) ==
  /\ sum \in [0 .. Len(w) -> Nat]
  /\ sum[0] = 0
  /\ \A k \in 1 .. Len(w) : sum[k] = sum[k - 1] + w[k]

\* There is one running sum only.
LEMMA RunningSumUnique ==
  ASSUME NEW w, Len(w) \in Nat, NEW a, NEW b, RunningSum(a, w), RunningSum(b, w)
  PROVE  a[Len(w)] = b[Len(w)]
  <1> DEFINE S == {k \in Nat : k <= Len(w) => a[k] = b[k]}
  <1>1. 0 \in S
    BY DEF RunningSum
  <1>2. ASSUME NEW k \in S PROVE k + 1 \in S
    <2> SUFFICES ASSUME k + 1 <= Len(w) PROVE a[k + 1] = b[k + 1]
      OBVIOUS
    <2>1. k + 1 \in 1 .. Len(w) /\ (k + 1) - 1 = k /\ a[k] = b[k]
      OBVIOUS
    <2> QED
      BY <2>1 DEF RunningSum
  <1> HIDE DEF S
  <1>3. S = Nat
    BY <1>1, <1>2, SetInduction, S \in SUBSET Nat DEF S
  <1> QED
    BY <1>3, Len(w) \in S DEF S

\* The first elements make up the running sum.
LEMMA IterIsRunningSum ==
  ASSUME NEW n \in Nat, NEW w \in [1 .. n -> Nat], NEW f, SumIter(f, n, w)
  PROVE  /\ f[1 .. 0] = 0
         /\ \A k \in 0 .. n : f[1 .. k] \in Nat
         /\ \A k \in 1 .. n : f[1 .. k] = f[1 .. k - 1] + w[k]
  <1>1. f[1 .. 0] = 0
    <2>1. 1 .. 0 = {} /\ {} \in SUBSET (1 .. n)
      OBVIOUS
    <2> QED
      BY <2>1 DEF SumIter
  <1>2. ASSUME NEW k \in 1 .. n PROVE f[1 .. k] = f[1 .. k - 1] + w[k]
    <2>1. PICK m \in Nat : k = m + 1
      BY k - 1 \in Nat, (k - 1) + 1 = k
    <2>2. 1 .. k \in SUBSET (1 .. n) /\ 1 .. k \in SUBSET (1 .. m + 1) /\ m + 1 \in 1 .. k
      BY <2>1
    <2>3. Max(1 .. k) = k
      BY <2>1, <2>2, LastIsMax
    <2>4. (1 .. k) \ {k} = 1 .. k - 1 /\ 1 .. k /= {}
      OBVIOUS
    <2> QED
      BY <2>2, <2>3, <2>4 DEF SumIter
  <1> DEFINE S == {k \in Nat : k <= n => f[1 .. k] \in Nat}
  <1>3. 0 \in S
    BY <1>1
  <1>4. ASSUME NEW k \in S PROVE k + 1 \in S
    <2> SUFFICES ASSUME k + 1 <= n PROVE f[1 .. k + 1] \in Nat
      OBVIOUS
    <2>1. k + 1 \in 1 .. n /\ (k + 1) - 1 = k /\ f[1 .. k] \in Nat
      OBVIOUS
    <2> QED
      BY <1>2, <2>1
  <1> HIDE DEF S
  <1>5. S = Nat
    BY <1>3, <1>4, SetInduction, S \in SUBSET Nat DEF S
  <1>6. ASSUME NEW k \in 0 .. n PROVE f[1 .. k] \in Nat
    BY <1>5, k \in S DEF S
  <1> QED
    BY <1>1, <1>2, <1>6

\* The fold is the last of the running sums.
LEMMA TotalIsRunningSum ==
  ASSUME NEW w \in Seq(Nat)
  PROVE  /\ \E sum : RunningSum(sum, w) /\ Total(w) = sum[Len(w)]
         /\ \A sum : RunningSum(sum, w) => Total(w) = sum[Len(w)]
         /\ Total(w) \in Nat
  <1> DEFINE n == Len(w)
             g == CHOOSE f : f = [s \in SUBSET DOMAIN w |->
                                    IF s = {} THEN 0 ELSE f[s \ {Max(s)}] + w[Max(s)]]
             sum == [k \in 0 .. n |-> g[1 .. k]]
  <1>1. n \in Nat /\ w \in [1 .. n -> Nat] /\ DOMAIN w = 1 .. n
    OBVIOUS
  <1>2. Total(w) = g[DOMAIN w]
    BY Zenon DEF Total, FoldLeft, MapThenFoldSet
  <1>3. g = [s \in SUBSET DOMAIN w |->
               IF s = {} THEN 0 ELSE g[s \ {Max(s)}] + w[Max(s)]]
    <2> HIDE DEF n
    <2>1. \E f : SumIter(f, n, w)
      BY <1>1, SumIterExists
    <2>2. \E f : f = [s \in SUBSET DOMAIN w |->
                        IF s = {} THEN 0 ELSE f[s \ {Max(s)}] + w[Max(s)]]
      BY <1>1, <2>1, Zenon DEF SumIter
    <2> QED
      BY <2>2, Zenon
  <1> HIDE DEF g, n, sum
  <1>4. /\ g[1 .. 0] = 0
        /\ \A k \in 0 .. n : g[1 .. k] \in Nat
        /\ \A k \in 1 .. n : g[1 .. k] = g[1 .. k - 1] + w[k]
    <2>1. SumIter(g, n, w)
      BY <1>1, <1>3, Zenon DEF SumIter
    <2> QED
      BY <1>1, <2>1, IterIsRunningSum
  <1>5. RunningSum(sum, w)
    BY <1>1, <1>4 DEF RunningSum, n, sum
  <1>6. sum[Len(w)] = Total(w) /\ Total(w) \in Nat
    BY <1>1, <1>2, <1>4 DEF n, sum
  <1>7. ASSUME NEW s, RunningSum(s, w) PROVE Total(w) = s[Len(w)]
    BY <1>5, <1>6, <1>7, <1>1, RunningSumUnique DEF n
  <1> QED
    BY <1>5, <1>6, <1>7

\* A fold that adds up a field of each element is the sum of those fields.
LEMMA IterIsTotal ==
  ASSUME NEW w \in Seq(Nat)
  PROVE  /\ \E f : SumIter(f, Len(w), w)
         /\ \A f : SumIter(f, Len(w), w) => f[1 .. Len(w)] = Total(w)
  <1>1. Len(w) \in Nat /\ w \in [1 .. Len(w) -> Nat]
    OBVIOUS
  <1>2. ASSUME NEW f, SumIter(f, Len(w), w) PROVE f[1 .. Len(w)] = Total(w)
    <2> DEFINE n == Len(w)
               sum == [k \in 0 .. n |-> f[1 .. k]]
    <2>1. n \in Nat /\ w \in [1 .. n -> Nat] /\ SumIter(f, n, w)
      BY <1>1, <1>2
    <2> HIDE DEF n
    <2>2. /\ f[1 .. 0] = 0
          /\ \A k \in 0 .. n : f[1 .. k] \in Nat
          /\ \A k \in 1 .. n : f[1 .. k] = f[1 .. k - 1] + w[k]
      BY <2>1, IterIsRunningSum
    <2>3. RunningSum(sum, w)
      BY <2>1, <2>2 DEF RunningSum, n
    <2>4. sum[n] = f[1 .. n]
      BY <2>1
    <2> HIDE DEF sum
    <2> QED
      BY <2>3, <2>4, TotalIsRunningSum DEF n
  <1> QED
    BY <1>1, <1>2, SumIterExists

\* Laws of sums, for the ways in which the models change a sequence.
LEMMA TotalOfConcat ==
  ASSUME NEW v \in Seq(Nat), NEW w \in Seq(Nat)
  PROVE  v \o w \in Seq(Nat) /\ Total(v \o w) = Total(v) + Total(w)
  <1>1. PICK a : RunningSum(a, v) /\ Total(v) = a[Len(v)]
    BY TotalIsRunningSum
  <1>2. PICK b : RunningSum(b, w) /\ Total(w) = b[Len(w)]
    BY TotalIsRunningSum
  <1> DEFINE c == [k \in 0 .. Len(v) + Len(w) |->
                     IF k <= Len(v) THEN a[k] ELSE a[Len(v)] + b[k - Len(v)]]
  <1>3. /\ v \o w \in Seq(Nat) /\ Len(v \o w) = Len(v) + Len(w)
        /\ \A k \in 1 .. Len(v) : (v \o w)[k] = v[k]
        /\ \A k \in 1 .. Len(w) : (v \o w)[Len(v) + k] = w[k]
        /\ Len(v) \in Nat /\ Len(w) \in Nat
    OBVIOUS
  <1>9. /\ a[0] = 0 /\ b[0] = 0
        /\ \A k \in 0 .. Len(v) : a[k] \in Nat
        /\ \A k \in 0 .. Len(w) : b[k] \in Nat
        /\ \A k \in 1 .. Len(v) : a[k] = a[k - 1] + v[k]
        /\ \A k \in 1 .. Len(w) : b[k] = b[k - 1] + w[k] /\ w[k] \in Nat
        /\ a[Len(v)] \in Nat
    <2>1. /\ a[0] = 0 /\ \A k \in 0 .. Len(v) : a[k] \in Nat
          /\ \A k \in 1 .. Len(v) : a[k] = a[k - 1] + v[k]
      BY <1>1 DEF RunningSum
    <2>2. /\ b[0] = 0 /\ \A k \in 0 .. Len(w) : b[k] \in Nat
          /\ \A k \in 1 .. Len(w) : b[k] = b[k - 1] + w[k]
      BY <1>2 DEF RunningSum
    <2>3. \A k \in 1 .. Len(w) : w[k] \in Nat
      OBVIOUS
    <2> QED
      BY <2>1, <2>2, <2>3, <1>3
  <1>4. c \in [0 .. Len(v \o w) -> Nat]
    <2>1. ASSUME NEW k \in 0 .. Len(v) + Len(w), ~(k <= Len(v))
          PROVE  k - Len(v) \in 0 .. Len(w)
      BY <1>3, <2>1
    <2>2. ASSUME NEW k \in 0 .. Len(v) + Len(w), k <= Len(v)
          PROVE  k \in 0 .. Len(v)
      BY <1>3, <2>2
    <2>3. ASSUME NEW k \in 0 .. Len(v) + Len(w) PROVE c[k] \in Nat
      <3>1. CASE k <= Len(v)
        BY <1>9, <2>2, <3>1
      <3>2. CASE ~(k <= Len(v))
        <4>1. a[Len(v)] \in Nat /\ b[k - Len(v)] \in Nat
          BY <1>9, <2>1, <3>2
        <4>2. c[k] = a[Len(v)] + b[k - Len(v)]
          BY <3>2
        <4> HIDE DEF c
        <4> QED
          BY <4>1, <4>2
      <3> QED
        BY <3>1, <3>2
    <2> QED
      BY <1>3, <2>3
  <1>5. c[0] = 0
    BY <1>3, <1>9
  <1>6. ASSUME NEW k \in 1 .. Len(v \o w)
        PROVE  c[k] = c[k - 1] + (v \o w)[k]
    <2>1. CASE k <= Len(v)
      BY <1>1, <1>3, <2>1 DEF RunningSum
    <2>2. CASE k = Len(v) + 1
      <3>1. c[k] = a[Len(v)] + b[1] /\ c[k - 1] = a[Len(v)] /\ (v \o w)[k] = w[1]
        BY <1>3, <2>2
      <3>2. b[1] = w[1]
        <4>1. 1 \in 1 .. Len(w) /\ b[1] = b[0] + w[1] /\ w[1] \in Nat
          BY <1>2, <1>3, <2>2 DEF RunningSum
        <4> QED
          BY <4>1, <1>2 DEF RunningSum
      <3> QED
        BY <3>1, <3>2
    <2>3. CASE k > Len(v) + 1
      <3> DEFINE j == k - Len(v)
      <3>1. j \in 1 .. Len(w) /\ j - 1 \in 0 .. Len(w) /\ k = Len(v) + j
        BY <1>3, <2>3
      <3>2. b[j] = b[j - 1] + w[j] /\ b[j - 1] \in Nat /\ w[j] \in Nat
        <4> HIDE DEF j
        <4> QED
          BY <1>9, <3>1
      <3>5. a[Len(v)] \in Nat
        BY <1>9
      <3>3. c[k] = a[Len(v)] + b[j] /\ c[k - 1] = a[Len(v)] + b[j - 1]
        BY <1>3, <2>3, <3>1
      <3>4. (v \o w)[k] = w[j]
        BY <1>3, <3>1
      <3> HIDE DEF j, c
      <3>6. a[Len(v)] + (b[j - 1] + w[j]) = (a[Len(v)] + b[j - 1]) + w[j]
        BY <3>2, <3>5
      <3> QED
        BY <3>2, <3>3, <3>4, <3>6, Zenon
    <2> QED
      BY <2>1, <2>2, <2>3, <1>3
  <1>7. RunningSum(c, v \o w)
    BY <1>4, <1>5, <1>6 DEF RunningSum
  <1>8. c[Len(v \o w)] = a[Len(v)] + b[Len(w)]
    <2>1. b[0] = 0 /\ a[Len(v)] \in Nat
      BY <1>9
    <2>2. Len(v) + Len(w) \in 0 .. Len(v) + Len(w) /\ (Len(v) + Len(w)) - Len(v) = Len(w)
      BY <1>3
    <2>3. CASE Len(w) = 0
      BY <1>3, <2>1, <2>2, <2>3
    <2>4. CASE Len(w) > 0
      BY <1>3, <2>1, <2>2, <2>4
    <2> QED
      BY <2>3, <2>4, <1>3
  <1> QED
    BY <1>1, <1>2, <1>3, <1>7, <1>8, TotalIsRunningSum

LEMMA TotalOfOne ==
  /\ <<>> \in Seq(Nat) /\ Total(<<>>) = 0
  /\ \A x \in Nat : <<x>> \in Seq(Nat) /\ Total(<<x>>) = x
  <1>1. <<>> \in Seq(Nat) /\ Total(<<>>) = 0
    BY TotalIsRunningSum, <<>> \in Seq(Nat) DEF RunningSum
  <1>2. ASSUME NEW x \in Nat PROVE <<x>> \in Seq(Nat) /\ Total(<<x>>) = x
    <2>1. <<x>> \in Seq(Nat) /\ Len(<<x>>) = 1 /\ <<x>>[1] = x
      OBVIOUS
    <2>2. PICK a : RunningSum(a, <<x>>) /\ Total(<<x>>) = a[1]
      BY <2>1, TotalIsRunningSum
    <2>3. a[1] = a[0] + x /\ a[0] = 0
      BY <2>1, <2>2 DEF RunningSum
    <2> QED
      BY <2>1, <2>2, <2>3
  <1> QED
    BY <1>1, <1>2

LEMMA TotalOfTail ==
  ASSUME NEW w \in Seq(Nat), w /= <<>>
  PROVE  /\ Tail(w) \in Seq(Nat) /\ w[1] \in Nat
         /\ Total(w) = w[1] + Total(Tail(w))
  <1>1. w = <<w[1]>> \o Tail(w) /\ w[1] \in Nat /\ Tail(w) \in Seq(Nat)
    OBVIOUS
  <1>2. <<w[1]>> \in Seq(Nat) /\ Total(<<w[1]>>) = w[1]
    BY <1>1, TotalOfOne
  <1>3. Total(<<w[1]>> \o Tail(w)) = Total(<<w[1]>>) + Total(Tail(w))
    BY <1>1, <1>2, TotalOfConcat
  <1> QED
    BY <1>1, <1>2, <1>3, Zenon

\* RemoveAt moves the elements after the one removed.
LEMMA RemoveAtElements ==
  ASSUME NEW T, NEW q \in Seq(T), NEW k \in 1 .. Len(q)
  PROVE  /\ RemoveAt(q, k) \in Seq(T) /\ Len(RemoveAt(q, k)) = Len(q) - 1
         /\ \A i \in 1 .. k - 1 : RemoveAt(q, k)[i] = q[i]
         /\ \A i \in k .. Len(q) - 1 : RemoveAt(q, k)[i] = q[i + 1]
  <1> DEFINE a == SubSeq(q, 1, k - 1)
             b == SubSeq(q, k + 1, Len(q))
  <1>1. /\ a \in Seq(T) /\ Len(a) = k - 1 /\ \A i \in 1 .. k - 1 : a[i] = q[i]
        /\ b \in Seq(T) /\ Len(b) = Len(q) - k
        /\ \A i \in 1 .. Len(q) - k : b[i] = q[k + i]
    <2>1. /\ Len(q) \in Nat /\ k \in Nat
          /\ \A i \in 1 .. k - 1 : q[i] \in T
          /\ \A i \in k + 1 .. Len(q) : q[i] \in T
      OBVIOUS
    <2>2. /\ a \in Seq(T) /\ Len(a) = IF 1 <= k - 1 THEN (k - 1) - 1 + 1 ELSE 0
          /\ \A i \in 1 .. (k - 1) - 1 + 1 : a[i] = q[1 + i - 1]
      BY <2>1, SubSeqProperties
    <2>3. /\ b \in Seq(T)
          /\ Len(b) = IF k + 1 <= Len(q) THEN Len(q) - (k + 1) + 1 ELSE 0
          /\ \A i \in 1 .. Len(q) - (k + 1) + 1 : b[i] = q[(k + 1) + i - 1]
      BY <2>1, SubSeqProperties
    <2> HIDE DEF a, b
    <2>4. \A i \in 1 .. k - 1 : a[i] = q[i]
      BY <2>1, <2>2
    <2>5. ASSUME NEW i \in 1 .. Len(q) - k PROVE b[i] = q[k + i]
      <3>1. Len(q) - (k + 1) + 1 = Len(q) - k /\ (k + 1) + i - 1 = k + i
        BY <2>1
      <3> QED
        BY <2>3, <3>1
    <2>6. Len(a) = k - 1 /\ Len(b) = Len(q) - k
      BY <2>1, <2>2, <2>3
    <2> QED
      BY <2>2, <2>3, <2>4, <2>5, <2>6
  <1>2. RemoveAt(q, k) = a \o b
    BY DEF RemoveAt
  <1> HIDE DEF a, b
  <1>3. /\ a \o b \in Seq(T) /\ Len(a \o b) = Len(q) - 1
        /\ \A i \in 1 .. k - 1 : (a \o b)[i] = a[i]
    <2>1. k - 1 \in Nat /\ Len(q) - k \in Nat /\ (k - 1) + (Len(q) - k) = Len(q) - 1
          /\ Len(q) \in Nat
      OBVIOUS
    <2>2. /\ a \o b \in Seq(T) /\ Len(a \o b) = (k - 1) + (Len(q) - k)
          /\ \A i \in 1 .. (k - 1) + (Len(q) - k) :
               (a \o b)[i] = IF i <= k - 1 THEN a[i] ELSE b[i - (k - 1)]
      <3>1. a \in Seq(T) /\ b \in Seq(T) /\ Len(a) = k - 1 /\ Len(b) = Len(q) - k
        BY <1>1
      <3>2. /\ a \o b \in Seq(T) /\ Len(a \o b) = Len(a) + Len(b)
            /\ \A i \in 1 .. Len(a) + Len(b) :
                 (a \o b)[i] = IF i <= Len(a) THEN a[i] ELSE b[i - Len(a)]
        BY <3>1, ConcatProperties, Zenon
      <3> QED
        BY <3>1, <3>2, Zenon
    <2>3. \A i \in 1 .. k - 1 : (a \o b)[i] = a[i]
      BY <2>1, <2>2
    <2> QED
      BY <2>1, <2>2, <2>3, Zenon
  <1>4. ASSUME NEW i \in k .. Len(q) - 1 PROVE (a \o b)[i] = q[i + 1]
    <2>1. i - (k - 1) \in 1 .. Len(q) - k /\ k + (i - (k - 1)) = i + 1 /\ i - (k - 1) = i - k + 1
      OBVIOUS
    <2>2. (a \o b)[i] = b[i - (k - 1)]
      BY <1>1, <2>1
    <2> QED
      BY <1>1, <2>1, <2>2
  <1> QED
    BY <1>1, <1>2, <1>3, <1>4

LEMMA TotalOfRemoveAt ==
  ASSUME NEW w \in Seq(Nat), NEW k \in 1 .. Len(w)
  PROVE  /\ RemoveAt(w, k) \in Seq(Nat) /\ w[k] \in Nat
         /\ Total(w) = w[k] + Total(RemoveAt(w, k))
  <1> DEFINE a == SubSeq(w, 1, k - 1)
             b == SubSeq(w, k + 1, Len(w))
  <1>1. a \in Seq(Nat) /\ b \in Seq(Nat) /\ <<w[k]>> \in Seq(Nat) /\ w[k] \in Nat
    OBVIOUS
  <1>2. w = a \o (<<w[k]>> \o b)
    <2>1. SubSeq(w, 1, k - 1) \o SubSeq(w, (k - 1) + 1, Len(w)) = SubSeq(w, 1, Len(w))
      BY ConcatAdjacentSubSeq, 1 \in 1 .. Len(w) + 1, k - 1 \in 1 - 1 .. Len(w),
         Len(w) \in k - 1 .. Len(w)
    <2>2. SubSeq(w, k, Len(w)) = <<w[k]>> \o SubSeq(w, k + 1, Len(w))
      BY SubSeqRecursiveFirst, k \in 1 .. Len(w), Len(w) \in k .. Len(w)
    <2>3. SubSeq(w, 1, Len(w)) = w
      BY SubSeqFull
    <2> QED
      BY <2>1, <2>2, <2>3, (k - 1) + 1 = k
  <1>3. RemoveAt(w, k) = a \o b
    BY DEF RemoveAt
  <1> HIDE DEF a, b
  <1>8. Total(<<w[k]>>) = w[k]
    BY <1>1, TotalOfOne
  <1>4. <<w[k]>> \o b \in Seq(Nat) /\ Total(<<w[k]>> \o b) = w[k] + Total(b)
    BY <1>1, <1>8, TotalOfConcat
  <1>5. Total(w) = Total(a) + Total(<<w[k]>> \o b)
    <2> DEFINE c == <<w[k]>> \o b
    <2>1. w = a \o c /\ c \in Seq(Nat)
      BY <1>2, <1>4
    <2> HIDE DEF c
    <2>2. Total(a \o c) = Total(a) + Total(c)
      BY <1>1, <2>1, TotalOfConcat
    <2>3. Total(w) = Total(a) + Total(c)
      BY <2>1, <2>2, Zenon
    <2> QED
      BY <2>3 DEF c
  <1>6. a \o b \in Seq(Nat) /\ Total(a \o b) = Total(a) + Total(b)
    BY <1>1, TotalOfConcat
  <1>7. Total(a) \in Nat /\ Total(b) \in Nat
    BY <1>1, TotalIsRunningSum
  <1> HIDE DEF a, b
  <1> QED
    BY <1>1, <1>3, <1>4, <1>5, <1>6, <1>7
=============================================================================
