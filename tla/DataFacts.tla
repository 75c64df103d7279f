----------------------------- MODULE DataFacts ------------------------------
(***************************************************************************)
(* Facts about natural numbers and sequences that the proofs of several    *)
(* components need: the least and the greatest member of a set, induction, *)
(* runs of consecutive numbers, by which the models name the bytes and     *)
(* units of a text, and FlattenSeq of the community modules.               *)
(***************************************************************************)
EXTENDS Integers, SequencesExt, WellFoundedInduction, SequenceTheorems, TLAPS

Below == {ss \in Nat \X Nat : ss[1] < ss[2]}

\* A set of natural numbers that has a member has a least one: what open() hands out
\* as a descriptor and strlen() returns as a length.
LEMMA MinOfNats ==
  ASSUME NEW S, S \subseteq Nat, S # {}
  PROVE  Min(S) \in S /\ \A x \in S : Min(S) <= x
<1>1. OpToRel(<, Nat) = Below
  BY Zenon DEF OpToRel, Below
<1>2. IsWellFoundedOn(Below, Nat)
  BY <1>1, NatLessThanWellFounded, Zenon
<1>3. PICK x \in S : \A y \in S : ~(<<y, x>> \in Below)
  BY <1>2, WFMin, Zenon
<1>4. ASSUME NEW y \in S PROVE x <= y
  <2>1. x \in Nat /\ y \in Nat
    OBVIOUS
  <2>2. <<y, x>> \notin Below
    BY <1>3
  <2>3. ~(y < x)
    BY <2>1, <2>2 DEF Below
  <2> QED
    BY <2>1, <2>3
<1> QED
  BY <1>4, Zenon DEF Min

\* And a greatest one, when the set has a bound: how far iconv() gets.
LEMMA MaxOfBounded ==
  ASSUME NEW n \in Nat, NEW S, S \subseteq 0 .. n, S # {}
  PROVE  Max(S) \in S /\ \A x \in S : x <= Max(S)
<1> DEFINE T == {n - x : x \in S}
<1>1. T \subseteq Nat /\ T # {}
  <2>1. \A x \in S : x \in 0 .. n /\ n - x \in Nat
    OBVIOUS
  <2>2. PICK x : x \in S
    OBVIOUS
  <2> QED
    BY <2>1, <2>2
<1> HIDE DEF T
<1>2. PICK m \in T : \A y \in T : m <= y
  BY <1>1, MinOfNats
<1> USE DEF T
<1>3. PICK x \in S : m = n - x
  OBVIOUS
<1>4. ASSUME NEW y \in S PROVE x >= y
  <2>1. m <= n - y
    BY <1>2
  <2> QED
    BY <1>3, <2>1
<1>5. \E z \in S : \A y \in S : z >= y
  BY <1>4
<1>6. Max(S) \in S /\ \A y \in S : Max(S) >= y
  BY <1>5, Zenon DEF Max
<1> QED
  BY <1>6

\* Induction, with a set in the place of the property.
LEMMA NatInSet ==
  ASSUME NEW T, 0 \in T, \A n \in Nat : n \in T => n + 1 \in T
  PROVE  Nat \subseteq T
<1> DEFINE Bad == Nat \ T
<1>1. SUFFICES ASSUME Bad # {} PROVE FALSE
  OBVIOUS
<1>2. PICK m \in Bad : \A y \in Bad : m <= y
  <2> HIDE DEF Bad
  <2> QED
    BY <1>1, MinOfNats DEF Bad
<1>3. m \in Nat /\ m # 0
  BY <1>2
<1>4. m - 1 \in Nat /\ m - 1 \in T
  BY <1>2, <1>3
<1>5. (m - 1) + 1 \in T
  BY <1>4
<1> QED
  BY <1>2, <1>3, <1>5

-----------------------------------------------------------------------------
\* The numbers a + 1, ..., b, in order (Span of Iconv and of CharStream).
Consecutive(a, b) == [i \in 1 .. (b - a) |-> a + i]

LEMMA ConsecutiveFacts ==
  ASSUME NEW a \in Int, NEW b \in Int, a <= b
  PROVE  /\ Consecutive(a, b) \in Seq(Int)
         /\ Len(Consecutive(a, b)) = b - a
         /\ \A i \in 1 .. (b - a) : Consecutive(a, b)[i] = a + i
BY DEF Consecutive

\* The same, counted from its first number.
LEMMA RunFacts ==
  ASSUME NEW a \in Int, NEW n \in Nat
  PROVE  /\ Consecutive(a, a + n) \in Seq(Int)
         /\ Len(Consecutive(a, a + n)) = n
         /\ \A i \in 1 .. n : Consecutive(a, a + n)[i] = a + i
<1>1. a + n \in Int /\ a <= a + n /\ (a + n) - a = n
  OBVIOUS
<1> QED
  BY <1>1 DEF Consecutive

LEMMA ConsecutiveOf ==
  ASSUME NEW a \in Int, NEW b \in Int, a <= b,
         NEW S, \A x \in a + 1 .. b : x \in S
  PROVE  Consecutive(a, b) \in Seq(S)
<1>1. \A i \in 1 .. (b - a) : a + i \in S
  OBVIOUS
<1> QED
  BY <1>1 DEF Consecutive

LEMMA ConsecutiveEmpty ==
  ASSUME NEW a \in Int
  PROVE  Consecutive(a, a) = <<>>
BY DEF Consecutive

\* Two runs that meet make one.
LEMMA ConsecutiveJoin ==
  ASSUME NEW a \in Int, NEW b \in Int, NEW c \in Int, a <= b, b <= c
  PROVE  Consecutive(a, b) \o Consecutive(b, c) = Consecutive(a, c)
<1> DEFINE s == Consecutive(a, b)
           t == Consecutive(b, c)
           u == Consecutive(a, c)
<1>1. /\ s \in Seq(Int) /\ Len(s) = b - a /\ \A i \in 1 .. (b - a) : s[i] = a + i
      /\ t \in Seq(Int) /\ Len(t) = c - b /\ \A i \in 1 .. (c - b) : t[i] = b + i
      /\ u \in Seq(Int) /\ Len(u) = c - a /\ \A i \in 1 .. (c - a) : u[i] = a + i
  <2>1. s \in Seq(Int) /\ Len(s) = b - a /\ \A i \in 1 .. (b - a) : s[i] = a + i
    BY ConsecutiveFacts
  <2>2. t \in Seq(Int) /\ Len(t) = c - b /\ \A i \in 1 .. (c - b) : t[i] = b + i
    BY ConsecutiveFacts
  <2>3. u \in Seq(Int) /\ Len(u) = c - a /\ \A i \in 1 .. (c - a) : u[i] = a + i
    <3>1. a <= c
      OBVIOUS
    <3> QED
      BY <3>1, ConsecutiveFacts
  <2> QED
    BY <2>1, <2>2, <2>3
<1> HIDE DEF s, t, u
<1> DEFINE w == s \o t
<1>2. s \in Seq(Int) /\ t \in Seq(Int) /\ u \in Seq(Int)
  BY <1>1
<1>3. /\ w \in Seq(Int) /\ Len(w) = Len(s) + Len(t)
      /\ \A i \in 1 .. Len(s) + Len(t) :
           w[i] = IF i <= Len(s) THEN s[i] ELSE t[i - Len(s)]
  BY <1>2, ConcatProperties, Zenon
<1> HIDE DEF w
<1>4. Len(w) = Len(u) /\ Len(u) = c - a
  BY <1>1, <1>3
<1>5. ASSUME NEW i \in 1 .. Len(w)
      PROVE  w[i] = u[i]
  <2>1. i \in 1 .. (c - a) /\ u[i] = a + i
    BY <1>1, <1>4
  <2>2. CASE i <= b - a
    <3>1. w[i] = s[i]
      BY <1>1, <1>3, <2>1, <2>2
    <3> QED
      BY <1>1, <2>1, <2>2, <3>1
  <2>3. CASE ~(i <= b - a)
    <3>1. i - (b - a) \in 1 .. (c - b)
      BY <2>1, <2>3
    <3>2. w[i] = t[i - (b - a)]
      BY <1>1, <1>3, <2>1, <2>3
    <3> QED
      BY <1>1, <2>1, <3>1, <3>2
  <2> QED
    BY <2>2, <2>3
<1>6. w = u
  BY <1>2, <1>3, <1>4, <1>5, SeqEqual
<1> QED
  BY <1>6 DEF s, t, u, w

\* A part of a run is a run.
LEMMA ConsecutivePart ==
  ASSUME NEW a \in Int, NEW c \in Int, NEW i \in Int, NEW k \in Int,
         1 <= i, i - 1 <= k, k <= c - a
  PROVE  SubSeq(Consecutive(a, c), i, k) = Consecutive(a + i - 1, a + k)
<1> DEFINE s == Consecutive(a, c)
           t == Consecutive(a + i - 1, a + k)
<1>1. /\ s \in Seq(Int) /\ Len(s) = c - a /\ \A j \in 1 .. (c - a) : s[j] = a + j
      /\ t \in Seq(Int) /\ Len(t) = k - i + 1
      /\ \A j \in 1 .. (k - i + 1) : t[j] = a + i - 1 + j
  <2>1. a + i - 1 \in Int /\ a + k \in Int /\ a + i - 1 <= a + k
        /\ (a + k) - (a + i - 1) = k - i + 1 /\ a <= c
    OBVIOUS
  <2> QED
    BY <2>1, ConsecutiveFacts
<1> HIDE DEF s, t
<1>2. /\ SubSeq(s, i, k) \in Seq(Int)
      /\ Len(SubSeq(s, i, k)) = k - i + 1
      /\ \A j \in 1 .. k - i + 1 : SubSeq(s, i, k)[j] = s[i + j - 1]
  <2>1. \A j \in i .. k : s[j] \in Int
    BY <1>1
  <2>2. SubSeq(s, i, k) \in Seq(Int)
        /\ Len(SubSeq(s, i, k)) = (IF i <= k THEN k - i + 1 ELSE 0)
        /\ \A j \in 1 .. k - i + 1 : SubSeq(s, i, k)[j] = s[i + j - 1]
    BY <2>1, SubSeqProperties
  <2> QED
    BY <2>2
<1>3. ASSUME NEW j \in 1 .. Len(t)
      PROVE  SubSeq(s, i, k)[j] = t[j]
  BY <1>1, <1>2
<1>4. SubSeq(s, i, k) = t
  BY <1>1, <1>2, <1>3, SeqEqual
<1> QED
  BY <1>4 DEF s, t

-----------------------------------------------------------------------------
(* FlattenSeq.  Its definition is by recursion on the length, so each fact *)
(* is proved by induction on how far the recursion has got.                *)

\* f is the function that FlattenSeq(ss) reads off at the length of ss.
Flattens(f, ss, n) ==
  f = [i \in 1 .. n |-> IF i = 1 THEN ss[i] ELSE f[i - 1] \o ss[i]]

LEMMA FlattensFirst ==
  ASSUME NEW f, NEW ss, NEW n \in Nat, n # 0, Flattens(f, ss, n)
  PROVE  f[1] = ss[1]
<1> DEFINE F == [j \in 1 .. n |-> IF j = 1 THEN ss[j] ELSE f[j - 1] \o ss[j]]
<1>1. f = F
  BY DEF Flattens
<1>2. F[1] = ss[1]
  OBVIOUS
<1> HIDE DEF F
<1> QED
  BY <1>1, <1>2

LEMMA FlattensNext ==
  ASSUME NEW f, NEW ss, NEW n \in Nat, Flattens(f, ss, n), NEW k \in 1 .. n - 1
  PROVE  f[k + 1] = f[k] \o ss[k + 1]
<1> DEFINE F == [j \in 1 .. n |-> IF j = 1 THEN ss[j] ELSE f[j - 1] \o ss[j]]
<1>1. f = F
  BY DEF Flattens
<1>2. k + 1 \in 1 .. n /\ k + 1 # 1 /\ (k + 1) - 1 = k
  OBVIOUS
<1>3. F[k + 1] = f[(k + 1) - 1] \o ss[k + 1]
  BY <1>2
<1> HIDE DEF F
<1> QED
  BY <1>1, <1>2, <1>3

LEMMA FlattensExists ==
  ASSUME NEW ss, NEW n \in Nat
  PROVE  \E f : Flattens(f, ss, n)
<1> DEFINE T == {k \in Nat : \E f : Flattens(f, ss, k)}
<1>1. 0 \in T
  <2>1. Flattens(<<>>, ss, 0)
    BY DEF Flattens
  <2> QED
    BY <2>1 DEF T
<1> HIDE DEF T
<1>2. ASSUME NEW k \in Nat, k \in T
      PROVE  k + 1 \in T
  <2>1. PICK f : Flattens(f, ss, k)
    BY <1>2 DEF T
  <2> DEFINE g == [i \in 1 .. k + 1 |->
                     IF i <= k THEN f[i] ELSE IF i = 1 THEN ss[i] ELSE f[i - 1] \o ss[i]]
             h == [i \in 1 .. k + 1 |-> IF i = 1 THEN ss[i] ELSE g[i - 1] \o ss[i]]
  <2>2. ASSUME NEW i \in 1 .. k + 1
        PROVE  g[i] = h[i]
    <3>1. CASE i = 1
      <4>1. h[i] = ss[i]
        BY <3>1
      <4>2. i <= k => f[1] = ss[1]
        <5>1. SUFFICES ASSUME i <= k PROVE f[1] = ss[1]
          OBVIOUS
        <5>2. k # 0
          BY <3>1, <5>1
        <5> HIDE DEF g, h
        <5> QED
          BY <2>1, <5>2, FlattensFirst
      <4>3. g[i] = IF i <= k THEN f[1] ELSE ss[i]
        BY <3>1
      <4> QED
        BY <3>1, <4>1, <4>2, <4>3
    <3>2. CASE i # 1
      <4>1. i - 1 \in 1 .. k /\ i - 1 \in 1 .. k + 1 /\ i - 1 <= k /\ (i - 1) + 1 = i
        BY <3>2
      <4>2. h[i] = f[i - 1] \o ss[i]
        BY <3>2, <4>1
      <4>3. i <= k => f[i] = f[i - 1] \o ss[i]
        <5>1. SUFFICES ASSUME i <= k
                       PROVE  f[i] = f[i - 1] \o ss[i]
          OBVIOUS
        <5>2. i - 1 \in 1 .. k - 1
          BY <4>1, <5>1
        <5>3. f[(i - 1) + 1] = f[i - 1] \o ss[(i - 1) + 1]
          BY <2>1, <5>2, FlattensNext, Zenon
        <5> QED
          BY <4>1, <5>3
      <4>4. g[i] = IF i <= k THEN f[i] ELSE f[i - 1] \o ss[i]
        BY <3>2
      <4> QED
        BY <4>2, <4>3, <4>4
    <3> QED
      BY <3>1, <3>2
  <2>3. g = h
    <3>1. g = [i \in 1 .. k + 1 |-> g[i]] /\ h = [i \in 1 .. k + 1 |-> h[i]]
      OBVIOUS
    <3> HIDE DEF g, h
    <3> QED
      BY <2>2, <3>1
  <2>4. Flattens(g, ss, k + 1)
    BY <2>3 DEF Flattens
  <2> HIDE DEF g
  <2> QED
    BY <2>4 DEF T
<1>3. Nat \subseteq T
  BY <1>1, <1>2, NatInSet
<1> QED
  BY <1>3 DEF T

\* What FlattenSeq returns, without its CHOOSE.
LEMMA FlattenIs ==
  ASSUME NEW ss, Len(ss) \in Nat, Len(ss) # 0
  PROVE  \E f : Flattens(f, ss, Len(ss)) /\ FlattenSeq(ss) = f[Len(ss)]
<1>1. \E f : f = [i \in 1 .. Len(ss) |-> IF i = 1 THEN ss[i] ELSE f[i - 1] \o ss[i]]
  BY FlattensExists DEF Flattens
<1> QED
  BY <1>1 DEF FlattenSeq, Flattens

LEMMA FlattenEmpty == FlattenSeq(<<>>) = <<>>
BY DEF FlattenSeq

\* A sequence of sequences makes one sequence.
LEMMA FlattensType ==
  ASSUME NEW S, NEW ss \in Seq(Seq(S)), NEW f, Flattens(f, ss, Len(ss))
  PROVE  \A i \in 1 .. Len(ss) : f[i] \in Seq(S)
<1> DEFINE T == {k \in Nat : k + 1 \in 1 .. Len(ss) => f[k + 1] \in Seq(S)}
<1>1. Len(ss) \in Nat /\ \A i \in 1 .. Len(ss) : ss[i] \in Seq(S)
  OBVIOUS
<1>2. 0 \in T
  <2>1. 0 + 1 = 1 /\ (0 + 1 \in 1 .. Len(ss) => Len(ss) # 0)
    BY <1>1
  <2>2. ASSUME Len(ss) # 0 PROVE f[1] = ss[1]
    <3> HIDE DEF T
    <3>1. Len(ss) \in Nat
      BY <1>1
    <3> QED
      BY <2>2, <3>1, FlattensFirst
  <2> QED
    BY <1>1, <2>1, <2>2
<1>3. ASSUME NEW k \in Nat, k \in T
      PROVE  k + 1 \in T
  <2>1. SUFFICES ASSUME (k + 1) + 1 \in 1 .. Len(ss)
                 PROVE  f[(k + 1) + 1] \in Seq(S)
    BY DEF T
  <2>2. k + 1 \in 1 .. Len(ss) /\ k + 1 \in 1 .. Len(ss) - 1
    BY <1>1, <2>1
  <2>3. f[k + 1] \in Seq(S)
    BY <1>3, <2>2
  <2>4. f[(k + 1) + 1] = f[k + 1] \o ss[(k + 1) + 1]
    BY <1>1, <2>2, FlattensNext, Zenon
  <2> QED
    BY <1>1, <2>1, <2>3, <2>4
<1> HIDE DEF T
<1>4. Nat \subseteq T
  BY <1>2, <1>3, NatInSet
<1>5. ASSUME NEW i \in 1 .. Len(ss)
      PROVE  f[i] \in Seq(S)
  <2>1. i - 1 \in Nat /\ (i - 1) + 1 = i
    BY <1>1
  <2>2. (i - 1) + 1 \in 1 .. Len(ss) => f[(i - 1) + 1] \in Seq(S)
    BY <1>4, <2>1 DEF T
  <2> QED
    BY <2>1, <2>2
<1> QED
  BY <1>5

LEMMA FlattenType ==
  ASSUME NEW S, NEW ss \in Seq(Seq(S))
  PROVE  FlattenSeq(ss) \in Seq(S)
<1>1. CASE Len(ss) = 0
  <2>1. ss = <<>> /\ <<>> \in Seq(S)
    BY <1>1
  <2> QED
    BY <2>1, FlattenEmpty
<1>2. CASE Len(ss) # 0
  <2>1. Len(ss) \in Nat /\ Len(ss) \in 1 .. Len(ss)
    BY <1>2
  <2>2. PICK f : Flattens(f, ss, Len(ss)) /\ FlattenSeq(ss) = f[Len(ss)]
    BY <1>2, <2>1, FlattenIs
  <2> QED
    BY <2>1, <2>2, FlattensType
<1> QED
  BY <1>1, <1>2

\* The recursion only looks at the sequence up to where it is.
LEMMA FlattensAgree ==
  ASSUME NEW ss, NEW tt, NEW f, NEW g, NEW m \in Nat, NEW n \in Nat, m <= n,
         Flattens(f, ss, m), Flattens(g, tt, n), \A i \in 1 .. m : ss[i] = tt[i]
  PROVE  m # 0 => f[m] = g[m]
<1> DEFINE T == {k \in Nat : k + 1 \in 1 .. m => f[k + 1] = g[k + 1]}
<1>1. 0 \in T
  <2>1. 0 + 1 = 1 /\ (0 + 1 \in 1 .. m => m # 0 /\ n # 0 /\ 1 \in 1 .. m)
    OBVIOUS
  <2>2. m # 0 => f[1] = ss[1]
    BY FlattensFirst, Zenon
  <2>3. n # 0 => g[1] = tt[1]
    BY FlattensFirst, Zenon
  <2> QED
    BY <2>1, <2>2, <2>3
<1>2. ASSUME NEW k \in Nat, k \in T
      PROVE  k + 1 \in T
  <2>1. SUFFICES ASSUME (k + 1) + 1 \in 1 .. m
                 PROVE  f[(k + 1) + 1] = g[(k + 1) + 1]
    BY DEF T
  <2>2. k + 1 \in 1 .. m /\ k + 1 \in 1 .. m - 1 /\ k + 1 \in 1 .. n - 1
    BY <2>1
  <2>3. f[k + 1] = g[k + 1] /\ ss[(k + 1) + 1] = tt[(k + 1) + 1]
    BY <1>2, <2>1, <2>2
  <2>4. f[(k + 1) + 1] = f[k + 1] \o ss[(k + 1) + 1]
    BY <2>2, FlattensNext, Zenon
  <2>5. g[(k + 1) + 1] = g[k + 1] \o tt[(k + 1) + 1]
    BY <2>2, FlattensNext, Zenon
  <2> QED
    BY <2>3, <2>4, <2>5
<1> HIDE DEF T
<1>3. Nat \subseteq T
  BY <1>1, <1>2, NatInSet
<1>4. SUFFICES ASSUME m # 0 PROVE f[m] = g[m]
  OBVIOUS
<1>5. m - 1 \in Nat /\ (m - 1) + 1 = m /\ m \in 1 .. m
  BY <1>4
<1>6. (m - 1) + 1 \in 1 .. m => f[(m - 1) + 1] = g[(m - 1) + 1]
  BY <1>3, <1>5 DEF T
<1> QED
  BY <1>5, <1>6

LEMMA FlattenAppend ==
  ASSUME NEW S, NEW ss \in Seq(Seq(S)), NEW x \in Seq(S)
  PROVE  FlattenSeq(Append(ss, x)) = FlattenSeq(ss) \o x
<1> DEFINE n == Len(ss)
           tt == Append(ss, x)
<1>1. /\ n \in Nat /\ Len(tt) = n + 1 /\ tt[n + 1] = x
      /\ \A i \in 1 .. n : ss[i] = tt[i]
  OBVIOUS
<1>2. n = 0 => ss = <<>>
  OBVIOUS
<1>3. <<>> \o x = x
  OBVIOUS
<1> HIDE DEF tt, n
<1>4. PICK g : Flattens(g, tt, n + 1) /\ FlattenSeq(tt) = g[n + 1]
  <2>1. Len(tt) \in Nat /\ Len(tt) # 0
    BY <1>1
  <2> QED
    BY <1>1, <2>1, FlattenIs
<1>5. n + 1 \in Nat /\ n + 1 # 0 /\ n <= n + 1 /\ (n # 0 => n \in 1 .. (n + 1) - 1)
  BY <1>1
<1>6. CASE n = 0
  <2>1. g[1] = tt[1]
    BY <1>4, <1>5, FlattensFirst, Zenon
  <2>2. n + 1 = 1
    BY <1>6
  <2> QED
    BY <1>1, <1>2, <1>3, <1>4, <1>6, <2>1, <2>2, FlattenEmpty DEF tt
<1>7. CASE n # 0
  <2>1. PICK f : Flattens(f, ss, n) /\ FlattenSeq(ss) = f[n]
    BY <1>1, <1>7, FlattenIs DEF n
  <2>2. f[n] = g[n]
    <3>1. \A i \in 1 .. n : ss[i] = tt[i]
      BY <1>1
    <3>2. n \in Nat
      BY <1>1
    <3>3. n # 0 => f[n] = g[n]
      BY <1>4, <1>5, <2>1, <3>1, <3>2, FlattensAgree
    <3> QED
      BY <1>7, <3>3
  <2>3. g[n + 1] = g[n] \o tt[n + 1]
    BY <1>4, <1>5, <1>7, FlattensNext, Zenon
  <2> QED
    BY <1>1, <1>4, <2>1, <2>2, <2>3 DEF tt
<1> QED
  BY <1>6, <1>7

LEMMA FlattenOne ==
  ASSUME NEW S, NEW x \in Seq(S)
  PROVE  FlattenSeq(<<x>>) = x
<1>1. <<>> \in Seq(Seq(S)) /\ <<x>> = Append(<<>>, x) /\ <<>> \o x = x
  OBVIOUS
<1> QED
  BY <1>1, FlattenAppend, FlattenEmpty

\* The first of the sequences comes first.
LEMMA FlattenHead ==
  ASSUME NEW S, NEW ss \in Seq(Seq(S)), ss # <<>>
  PROVE  FlattenSeq(ss) = Head(ss) \o FlattenSeq(Tail(ss))
<1> DEFINE n == Len(ss)
           tt == Tail(ss)
<1>1. /\ n \in Nat /\ n # 0 /\ tt \in Seq(Seq(S)) /\ Len(tt) = n - 1 /\ Head(ss) = ss[1]
      /\ \A i \in 1 .. n - 1 : tt[i] = ss[i + 1]
      /\ \A i \in 1 .. n : ss[i] \in Seq(S)
  OBVIOUS
<1>2. n = 1 => tt = <<>>
  <2>1. n = 1 => Len(tt) = 0 /\ tt \in Seq(Seq(S))
    BY <1>1
  <2> HIDE DEF tt, n
  <2> QED
    BY <2>1
<1> HIDE DEF n, tt
<1>3. PICK f : Flattens(f, ss, n) /\ FlattenSeq(ss) = f[n]
  BY <1>1, FlattenIs DEF n
<1>4. f[1] = ss[1] /\ ss[1] \in Seq(S)
  <2>1. f[1] = ss[1]
    BY <1>1, <1>3, FlattensFirst, Zenon
  <2>2. 1 \in 1 .. n
    BY <1>1
  <2> QED
    BY <1>1, <2>1, <2>2
<1>5. CASE n = 1
  <2>1. ss[1] \o <<>> = ss[1]
    BY <1>4
  <2> QED
    BY <1>1, <1>2, <1>3, <1>4, <1>5, <2>1, FlattenEmpty DEF tt
<1>6. CASE n # 1
  <2>1. n - 1 \in Nat /\ n - 1 # 0 /\ n - 1 \in 1 .. n - 1
    BY <1>1, <1>6
  <2>2. PICK g : Flattens(g, tt, n - 1) /\ FlattenSeq(tt) = g[n - 1]
    BY <1>1, <2>1, FlattenIs
  <2>3. \A i \in 1 .. n - 1 : g[i] \in Seq(S)
    BY <1>1, <2>2, FlattensType
  <2> DEFINE T == {k \in Nat : k + 1 \in 1 .. n - 1 => f[(k + 1) + 1] = ss[1] \o g[k + 1]}
  <2>4. 0 \in T
    <3>1. 1 \in 1 .. n - 1 /\ 0 + 1 = 1 /\ (0 + 1) + 1 = 1 + 1
      BY <2>1
    <3>2. g[1] = tt[1]
      BY <2>1, <2>2, FlattensFirst, Zenon
    <3>3. f[1 + 1] = f[1] \o ss[1 + 1]
      <4> HIDE DEF T
      <4>1. n \in Nat
        BY <1>1
      <4> QED
        BY <1>3, <3>1, <4>1, FlattensNext, Zenon
    <3>4. tt[1] = ss[1 + 1]
      BY <1>1, <3>1
    <3>5. f[(0 + 1) + 1] = ss[1] \o g[0 + 1]
      BY <1>4, <3>1, <3>2, <3>3, <3>4
    <3> QED
      BY <3>5
  <2>5. ASSUME NEW k \in Nat, k \in T
        PROVE  k + 1 \in T
    <3> DEFINE i == k + 1
    <3>1. SUFFICES ASSUME i + 1 \in 1 .. n - 1
                   PROVE  f[(i + 1) + 1] = ss[1] \o g[i + 1]
      <4>1. k + 1 \in Nat
        OBVIOUS
      <4> QED
        BY <4>1 DEF T
    <3>2. /\ i \in 1 .. n - 1 /\ i \in 1 .. (n - 1) - 1 /\ i + 1 \in 1 .. n - 1
          /\ (i + 1) + 1 \in 1 .. n
      BY <1>1, <3>1
    <3>3. f[i + 1] = ss[1] \o g[i]
      BY <2>5, <3>2 DEF T
    <3> HIDE DEF i, T
    <3>4. f[(i + 1) + 1] = f[i + 1] \o ss[(i + 1) + 1]
      <4>1. i + 1 \in 1 .. n - 1
        BY <3>2
      <4> QED
        BY <1>1, <1>3, <4>1, FlattensNext, Zenon
    <3>5. g[i + 1] = g[i] \o tt[i + 1]
      BY <2>1, <2>2, <3>2, FlattensNext, Zenon
    <3>6. g[i] \in Seq(S) /\ ss[(i + 1) + 1] \in Seq(S) /\ tt[i + 1] = ss[(i + 1) + 1]
      BY <1>1, <2>3, <3>2
    <3>7. (ss[1] \o g[i]) \o ss[(i + 1) + 1] = ss[1] \o (g[i] \o ss[(i + 1) + 1])
      <4>1. ASSUME NEW a \in Seq(S), NEW b \in Seq(S), NEW c \in Seq(S)
            PROVE  (a \o b) \o c = a \o (b \o c)
        BY ConcatAssociative
      <4> QED
        BY <1>4, <3>6, <4>1
    <3> QED
      BY <3>3, <3>4, <3>5, <3>6, <3>7
  <2> HIDE DEF T
  <2>6. Nat \subseteq T
    BY <2>4, <2>5, NatInSet
  <2>7. f[n] = ss[1] \o g[n - 1]
    <3>1. n - 2 \in Nat /\ (n - 2) + 1 = n - 1 /\ ((n - 2) + 1) + 1 = n
      BY <1>1, <2>1
    <3>2. (n - 2) + 1 \in 1 .. n - 1 => f[((n - 2) + 1) + 1] = ss[1] \o g[(n - 2) + 1]
      BY <2>6, <3>1 DEF T
    <3> QED
      BY <2>1, <3>1, <3>2
  <2> QED
    BY <1>1, <1>3, <2>2, <2>7 DEF tt
<1> QED
  BY <1>5, <1>6
=============================================================================
