----------------------------- MODULE DataLemmas -----------------------------
(***************************************************************************)
(* Facts about numbers and sequences that the proofs about data rest on.   *)
(*                                                                         *)
(* Induction is stated for a set, not for a predicate: what is to hold of  *)
(* every number defines the set of the numbers that it holds of.           *)
(***************************************************************************)
EXTENDS Integers, SequencesExt, SequenceTheorems, WellFoundedInduction, TLAPS

(* A set that holds 0, and with each number the next one, holds them all:  *)
(* of the numbers outside of it none would be the least.                   *)
LEMMA SetInduction ==
    ASSUME NEW T, T \subseteq Nat, 0 \in T, \A n \in T : n + 1 \in T
    PROVE  T = Nat
<1> SUFFICES ASSUME Nat \ T # {} PROVE FALSE
  OBVIOUS
<1>1. Nat \ T \subseteq Nat
  OBVIOUS
<1>2. \E x \in Nat \ T : \A y \in Nat \ T : ~(<<y, x>> \in OpToRel(<, Nat))
  BY <1>1, NatLessThanWellFounded, WFMin
<1>3. PICK x \in Nat \ T : \A y \in Nat \ T : ~(y < x)
  BY <1>2 DEF OpToRel
<1>4. x # 0 /\ x - 1 \in Nat /\ x - 1 < x /\ (x - 1) + 1 = x
  OBVIOUS
<1>5. x - 1 \in T
  BY <1>3, <1>4
<1>6. (x - 1) + 1 \in T
  BY <1>5
<1> QED
  BY <1>4, <1>6

(* The same up to a bound. *)
LEMMA BoundedInduction ==
    ASSUME NEW N \in Nat, NEW T, 0 \in T, \A n \in 0..(N - 1) : n \in T => n + 1 \in T
    PROVE  \A n \in 0..N : n \in T
<1> DEFINE U == {n \in Nat : n <= N => n \in T}
<1>1. U \subseteq Nat /\ 0 \in U
  OBVIOUS
<1>2. ASSUME NEW n \in U PROVE n + 1 \in U
  <2>1. CASE n + 1 <= N
    <3>1. n \in 0..(N - 1) /\ n \in T
      BY <2>1
    <3> QED
      BY <3>1
  <2>2. CASE ~(n + 1 <= N)
    BY <2>2
  <2> QED
    BY <2>1, <2>2
<1> HIDE DEF U
<1>3. U = Nat
  BY <1>1, <1>2, SetInduction
<1> QED
  BY <1>3 DEF U

(* Of numbers up to a bound one is the largest, and one the least. *)
LEMMA HasMaximum ==
    ASSUME NEW N \in Nat, NEW U, U \subseteq 0..N, U # {}
    PROVE  \E x \in U : \A y \in U : x >= y
<1> DEFINE T == {n \in Nat : (\E x \in U : x >= N - n) => \E x \in U : \A y \in U : x >= y}
<1>1. 0 \in T
  <2>1. ASSUME NEW x \in U, x >= N - 0 PROVE \A y \in U : x >= y
    BY <2>1
  <2> QED
    BY <2>1
<1>2. ASSUME NEW n \in T PROVE n + 1 \in T
  <2>1. ASSUME NEW x \in U, x >= N - (n + 1) PROVE \E z \in U : \A y \in U : z >= y
    <3>1. CASE \E z \in U : z >= N - n
      BY <3>1
    <3>2. CASE \A z \in U : ~(z >= N - n)
      <4>1. \A y \in U : x >= y
        BY <2>1, <3>2
      <4> QED
        BY <4>1
    <3> QED
      BY <3>1, <3>2
  <2> QED
    BY <2>1
<1>3. T \subseteq Nat
  OBVIOUS
<1> HIDE DEF T
<1>4. N \in T
  BY <1>1, <1>2, <1>3, SetInduction
<1>5. \E x \in U : x >= N - N
  <2>1. \A x \in U : x \in Nat
    OBVIOUS
  <2>2. PICK x \in U : TRUE
    OBVIOUS
  <2> QED
    BY <2>1, <2>2
<1> QED
  BY <1>4, <1>5 DEF T

LEMMA HasMinimum ==
    ASSUME NEW U, U \subseteq Nat, U # {}
    PROVE  \E x \in U : \A y \in U : x <= y
<1>1. PICK x \in U : \A y \in U : ~(<<y, x>> \in OpToRel(<, Nat))
  BY NatLessThanWellFounded, WFMin
<1>2. \A y \in U : y \in Nat /\ x \in Nat /\ ~(y < x)
  BY <1>1 DEF OpToRel
<1> QED
  BY <1>2

(* A function that is defined step by step, each from the one before it,   *)
(* exists.                                                                 *)
LEMMA StepsExist ==
    ASSUME NEW S, NEW base \in S, NEW N \in Nat, NEW more \in [1..N -> [S -> S]]
    PROVE  \E f \in [0..N -> S] : f[0] = base /\ \A i \in 1..N : f[i] = more[i][f[i - 1]]
<1> DEFINE Upto(n, f) == /\ f \in [0..n -> S] /\ f[0] = base
                         /\ \A i \in 1..n : f[i] = more[i][f[i - 1]]
           T == {n \in Nat : \E f : Upto(n, f)}
<1>1. 0 \in T
  <2>1. Upto(0, [i \in 0..0 |-> base])
    OBVIOUS
  <2> HIDE DEF Upto
  <2> QED
    BY <2>1
<1>2. ASSUME NEW n \in 0..(N - 1), n \in T PROVE n + 1 \in T
  <2>1. PICK f : Upto(n, f)
    BY <1>2
  <2> DEFINE next == more[n + 1][f[n]]
             g == [i \in 0..(n + 1) |-> IF i = n + 1 THEN next ELSE f[i]]
  <2>2. n + 1 \in 1..N /\ f[n] \in S
    BY <2>1
  <2>3. next \in S
    BY <2>2
  <2> HIDE DEF next
  <2>4. /\ g \in [0..(n + 1) -> S] /\ g[n + 1] = next
        /\ \A i \in 0..n : g[i] = f[i]
    BY <2>1, <2>3
  <2> HIDE DEF g
  <2>5. ASSUME NEW i \in 1..(n + 1) PROVE g[i] = more[i][g[i - 1]]
    <3>1. i - 1 \in 0..n /\ g[i - 1] = f[i - 1]
      BY <2>4
    <3>2. CASE i = n + 1
      BY <2>4, <3>1, <3>2 DEF next
    <3>3. CASE i # n + 1
      <4>1. i \in 1..n /\ i \in 0..n
        BY <3>3
      <4> QED
        BY <2>1, <2>4, <3>1, <4>1
    <3> QED
      BY <3>2, <3>3
  <2>6. g[0] = base /\ n + 1 \in Nat
    BY <2>1, <2>4
  <2>7. Upto(n + 1, g)
    BY <2>4, <2>5, <2>6
  <2> HIDE DEF Upto
  <2> QED
    BY <2>6, <2>7
<1> HIDE DEF T
<1>3. \A n \in 0..N : n \in T
  BY <1>1, <1>2, BoundedInduction
<1>4. N \in T
  BY <1>3
<1> QED
  BY <1>4 DEF T

-----------------------------------------------------------------------------
(* Multiplication, as far as the solver has to be told. *)
LEMMA Distributes ==
    ASSUME NEW a \in Int, NEW b \in Int, NEW c \in Int
    PROVE  a * (b + c) = a * b + a * c /\ a * (b * c) = (a * b) * c /\ a * b = b * a
  OBVIOUS

LEMMA TimesMonotonic ==
    ASSUME NEW a \in Nat, NEW b \in Int, NEW c \in Int, b <= c
    PROVE  a * b <= a * c
  OBVIOUS

LEMMA DivMod ==
    ASSUME NEW n \in Nat, NEW p \in Nat \ {0}
    PROVE  n \div p \in Nat /\ n % p \in 0..(p - 1) /\ n = p * (n \div p) + (n % p)
  OBVIOUS

(* Quotient and remainder are determined. *)
LEMMA DivUnique ==
    ASSUME NEW p \in Nat \ {0}, NEW q \in Int, NEW s \in Int,
           NEW r \in 0..(p - 1), NEW t \in 0..(p - 1), p * q + r = p * s + t
    PROVE  q = s
<1>1. ASSUME NEW x \in Int, NEW y \in Int, x < y PROVE p * x + p <= p * y
  <2>1. p * (x + 1) <= p * y
    BY <1>1, TimesMonotonic
  <2>2. p * (x + 1) = p * x + p
    OBVIOUS
  <2> QED
    BY <2>1, <2>2
<1>2. ~(q < s)
  BY <1>1
<1>3. ~(s < q)
  BY <1>1
<1> QED
  BY <1>2, <1>3

(* Dividing in two steps. *)
LEMMA DivDiv ==
    ASSUME NEW n \in Nat, NEW p \in Nat \ {0}, NEW b \in Nat \ {0}
    PROVE  (n \div p) \div b = n \div (b * p)
<1> DEFINE q == n \div p
           r == n % p
           s == q \div b
           t == q % b
<1>1. q \in Nat /\ r \in 0..(p - 1) /\ n = p * q + r
  BY DivMod
<1>2. s \in Nat /\ t \in 0..(b - 1) /\ q = b * s + t
  BY <1>1, DivMod
<1>3. b * p \in Nat \ {0}
  OBVIOUS
<1> HIDE DEF q, r, s, t
<1>4. n = (b * p) * s + (p * t + r)
  <2>1. p * (b * s + t) = p * (b * s) + p * t
    BY <1>2, Distributes
  <2>2. p * (b * s) = (b * p) * s
    BY <1>2, Distributes
  <2>3. p * q = (b * p) * s + p * t
    BY <1>2, <2>1, <2>2
  <2>4. (b * p) * s \in Int /\ p * t \in Int
    BY <1>2
  <2> QED
    BY ONLY <1>1, <2>3, <2>4
<1>5. p * t + r \in 0..((b * p) - 1)
  <2>1. p * t <= p * (b - 1)
    BY <1>2, TimesMonotonic
  <2>2. p * (b - 1) = b * p - p
    OBVIOUS
  <2>3. p * t \in Nat
    BY <1>2
  <2>4. b * p \in Nat
    OBVIOUS
  <2> QED
    BY <1>1, <2>1, <2>2, <2>3, <2>4
<1>6. /\ n \div (b * p) \in Nat /\ n % (b * p) \in 0..((b * p) - 1)
      /\ n = (b * p) * (n \div (b * p)) + (n % (b * p))
  BY <1>3, DivMod
<1>7. s = n \div (b * p)
  <2> DEFINE m == b * p
             w == p * t + r
             q1 == n \div m
             r1 == n % m
  <2>1. /\ m \in Nat \ {0} /\ s \in Int /\ q1 \in Int
        /\ w \in 0..(m - 1) /\ r1 \in 0..(m - 1)
        /\ m * s + w = m * q1 + r1
    BY <1>2, <1>3, <1>4, <1>5, <1>6
  <2> HIDE DEF m, w, q1, r1
  <2>2. s = q1
    BY ONLY <2>1, DivUnique
  <2> QED
    BY <2>2 DEF q1, m
<1> QED
  BY <1>7 DEF q, s

-----------------------------------------------------------------------------
(* What is where in a concatenation. *)
LEMMA ConcatParts ==
    ASSUME NEW S, NEW s \in Seq(S), NEW t \in Seq(S)
    PROVE  /\ s \o t \in Seq(S) /\ Len(s \o t) = Len(s) + Len(t)
           /\ \A k \in 1..Len(s) : (s \o t)[k] = s[k]
           /\ \A k \in 1..Len(t) : (s \o t)[Len(s) + k] = t[k]
<1>1. Len(s) \in Nat /\ Len(t) \in Nat
  OBVIOUS
<1>2. s \o t \in Seq(S) /\ Len(s \o t) = Len(s) + Len(t)
  OBVIOUS
<1>3. ASSUME NEW k \in 1..Len(s) PROVE (s \o t)[k] = s[k]
  BY <1>1
<1>4. ASSUME NEW k \in 1..Len(t) PROVE (s \o t)[Len(s) + k] = t[k]
  <2>1. /\ Len(s) + k \in 1..(Len(s) + Len(t)) /\ ~(Len(s) + k <= Len(s))
        /\ (Len(s) + k) - Len(s) = k
    BY <1>1
  <2> QED
    BY <2>1
<1> QED
  BY <1>2, <1>3, <1>4

(* Two sequences of one length with the same elements are one. *)
LEMMA SameElements ==
    ASSUME NEW S, NEW s \in Seq(S), NEW t \in Seq(S), Len(s) = Len(t),
           \A k \in 1..Len(s) : s[k] = t[k]
    PROVE  s = t
  BY SeqEqual

LEMMA AppendAsConcat ==
    ASSUME NEW S, NEW s \in Seq(S), NEW x \in S
    PROVE  Append(s, x) = s \o <<x>> /\ s \o << >> = s /\ << >> \o s = s
  OBVIOUS

LEMMA ConcatAssociates ==
    ASSUME NEW S, NEW s \in Seq(S), NEW t \in Seq(S), NEW u \in Seq(S)
    PROVE  (s \o t) \o u = s \o (t \o u)
  BY ConcatAssociative

LEMMA PrefixGrows ==
    ASSUME NEW S, NEW s \in Seq(S), NEW k \in 0..(Len(s) - 1)
    PROVE  /\ SubSeq(s, 1, k) \in Seq(S) /\ s[k + 1] \in S
           /\ SubSeq(s, 1, k + 1) = Append(SubSeq(s, 1, k), s[k + 1])
  OBVIOUS

LEMMA AppendToConcat ==
    ASSUME NEW S, NEW s \in Seq(S), NEW t \in Seq(S), NEW x \in S
    PROVE  s \o Append(t, x) = Append(s \o t, x)
<1>1. <<x>> \in Seq(S) /\ s \o t \in Seq(S)
  BY ConcatParts
<1>2. (s \o t) \o <<x>> = s \o (t \o <<x>>)
  BY <1>1, ConcatAssociates
<1>3. Append(t, x) = t \o <<x>>
  BY AppendAsConcat
<1>4. Append(s \o t, x) = (s \o t) \o <<x>>
  BY <1>1, AppendAsConcat
<1> QED
  BY <1>2, <1>3, <1>4

(* What is behind the first of two. *)
LEMMA RestOfConcat ==
    ASSUME NEW S, NEW s \in Seq(S), NEW t \in Seq(S)
    PROVE  SubSeq(s \o t, Len(s) + 1, Len(s \o t)) = t /\ SubSeq(s \o t, 1, Len(s)) = s
  OBVIOUS

LEMMA PrefixOfConcat ==
    ASSUME NEW S, NEW s \in Seq(S), NEW r \in Seq(S)
    PROVE  IsPrefix(s, s \o r)
<1>1. Len(s) \in Nat /\ Len(r) \in Nat /\ Len(s \o r) = Len(s) + Len(r)
  OBVIOUS
<1>2. SubSeq(s \o r, 1, Len(s)) = s
  BY RestOfConcat
<1>3. SubSeq(s, 1, Len(s)) = s
  OBVIOUS
<1> QED
  BY <1>1, <1>2, <1>3 DEF IsPrefix

LEMMA PrefixHasRest ==
    ASSUME NEW S, NEW s \in Seq(S), NEW t \in Seq(S), IsPrefix(s, t)
    PROVE  \E r \in Seq(S) : t = s \o r
<1> DEFINE r == SubSeq(t, Len(s) + 1, Len(t))
<1>1. Len(s) \in Nat /\ Len(t) \in Nat /\ Len(s) <= Len(t)
  BY DEF IsPrefix
<1>2. \A k \in 1..Len(s) : t[k] = s[k]
  <2>1. SubSeq(s, 1, Len(s)) = SubSeq(t, 1, Len(s))
    BY DEF IsPrefix
  <2> SUFFICES ASSUME NEW k \in 1..Len(s) PROVE t[k] = s[k]
    OBVIOUS
  <2>2. SubSeq(s, 1, Len(s))[k] = s[k]
    BY <1>1
  <2>3. SubSeq(t, 1, Len(s))[k] = t[k]
    BY <1>1
  <2> QED
    BY <2>1, <2>2, <2>3
<1>3. r \in Seq(S)
  BY <1>1
<1>4. Len(r) = Len(t) - Len(s)
  BY <1>1
<1>5. \A k \in 1..(Len(t) - Len(s)) : r[k] = t[Len(s) + k]
  BY <1>1
<1> HIDE DEF r
<1>6. s \o r \in Seq(S) /\ Len(s \o r) = Len(t)
  BY <1>1, <1>3, <1>4
<1>7. ASSUME NEW k \in 1..Len(t) PROVE t[k] = (s \o r)[k]
  <2>1. CASE k <= Len(s)
    <3>1. k \in 1..Len(s)
      BY <1>1, <2>1
    <3> QED
      BY <1>2, <1>3, <3>1
  <2>2. CASE k > Len(s)
    <3>1. k - Len(s) \in 1..(Len(t) - Len(s)) /\ Len(s) + (k - Len(s)) = k /\ ~(k <= Len(s))
      BY <1>1, <2>2
    <3>2. r[k - Len(s)] = t[k]
      BY <1>5, <3>1
    <3>3. k \in 1..(Len(s) + Len(r))
      BY <1>1, <1>4
    <3>4. (s \o r)[k] = r[k - Len(s)]
      BY <1>1, <1>3, <3>1, <3>3
    <3> QED
      BY <3>2, <3>4
  <2>3. k <= Len(s) \/ k > Len(s)
    BY <1>1
  <2> QED
    BY <2>1, <2>2, <2>3
<1>8. t = s \o r
  BY <1>6, <1>7, SameElements
<1> QED
  BY <1>3, <1>8

-----------------------------------------------------------------------------
(***************************************************************************)
(* FlattenSeq: all sequences of a sequence behind one another.             *)
(***************************************************************************)
LEMMA FlattenIsDefined ==
    ASSUME NEW seqs, Len(seqs) \in Nat \ {0}
    PROVE  \E flatten :
              /\ flatten = [i \in 1..Len(seqs) |->
                               IF i = 1 THEN seqs[i] ELSE flatten[i - 1] \o seqs[i]]
              /\ FlattenSeq(seqs) = flatten[Len(seqs)]
<1> DEFINE Upto(n, f) ==
               f = [i \in 1..n |-> IF i = 1 THEN seqs[i] ELSE f[i - 1] \o seqs[i]]
           T == {n \in Nat : \E f : Upto(n + 1, f)}
<1>1. 0 \in T
  <2>1. Upto(0 + 1, [i \in 1..1 |-> seqs[1]])
    OBVIOUS
  <2> QED
    BY <2>1
<1>2. ASSUME NEW n \in T PROVE n + 1 \in T
  <2>1. PICK f : Upto(n + 1, f)
    OBVIOUS
  <2> DEFINE m == n + 1
             last == f[m] \o seqs[m + 1]
             g == [i \in 1..(m + 1) |-> IF i = m + 1 THEN last ELSE f[i]]
  <2>a. m \in Nat \ {0} 
    OBVIOUS
  <2>b. Upto(m, f)
    BY <2>1
  <2>2. m \in Nat \ {0} /\ Upto(m, f)
    BY <2>a, <2>b
  <2> HIDE DEF m
  <2>3. ASSUME NEW i \in 1..(m + 1)
        PROVE  g[i] = IF i = 1 THEN seqs[i] ELSE g[i - 1] \o seqs[i]
    <3>1. CASE i = m + 1
      <4>1. i - 1 = m /\ i # 1 /\ m \in 1..(m + 1) /\ m # m + 1
        BY <2>2, <3>1
      <4>2. g[i] = last /\ g[m] = f[m]
        BY <3>1, <4>1, Zenon
      <4> QED
        BY <3>1, <4>1, <4>2
    <3>2. CASE i # m + 1
      <4>1. i \in 1..m /\ g[i] = f[i]
        BY <2>2, <3>2
      <4>2. CASE i = 1
        BY <2>2, <4>1, <4>2
      <4>3. CASE i # 1
        <5>1. i - 1 \in 1..m /\ i - 1 # m + 1 /\ i - 1 \in 1..(m + 1)
          BY <2>2, <4>1, <4>3
        <5>2. g[i - 1] = f[i - 1]
          BY <5>1
        <5>3. f[i] = f[i - 1] \o seqs[i]
          BY <2>2, <4>1, <4>3
        <5> QED
          BY <4>1, <4>3, <5>2, <5>3
      <4> QED
        BY <4>2, <4>3
    <3> QED
      BY <3>1, <3>2
  <2>4. g = [i \in 1..(m + 1) |-> g[i]]
    OBVIOUS
  <2>5. Upto(m + 1, g)
    <3>1. [i \in 1..(m + 1) |-> g[i]]
            = [i \in 1..(m + 1) |-> IF i = 1 THEN seqs[i] ELSE g[i - 1] \o seqs[i]]
      <4> HIDE DEF g
      <4> QED
        BY <2>3, Zenon
    <3> HIDE DEF g
    <3> QED
      BY <2>4, <3>1
  <2>6. \E h : Upto(m + 1, h)
    <3> HIDE DEF g
    <3> QED
      BY <2>5
  <2>7. \E h : Upto((n + 1) + 1, h)
    BY <2>6 DEF m
  <2>8. n + 1 \in Nat
    OBVIOUS
  <2> HIDE DEF Upto
  <2> QED
    BY <2>7, <2>8
<1>3. T \subseteq Nat
  OBVIOUS
<1> HIDE DEF T
<1>4. T = Nat
  BY <1>1, <1>2, <1>3, SetInduction
<1>5. \E f : Upto(Len(seqs), f)
  <2>1. Len(seqs) - 1 \in T /\ (Len(seqs) - 1) + 1 = Len(seqs)
    BY <1>4
  <2> QED
    BY <2>1 DEF T
<1>6. Upto(Len(seqs), CHOOSE f : Upto(Len(seqs), f))
  BY <1>5
<1>7. FlattenSeq(seqs) = (CHOOSE f : Upto(Len(seqs), f))[Len(seqs)]
  BY DEF FlattenSeq
<1> QED
  BY <1>6, <1>7

LEMMA FlattenNothing == FlattenSeq(<< >>) = << >>
  BY DEF FlattenSeq

LEMMA FlattenType ==
    ASSUME NEW S, NEW seqs \in Seq(Seq(S))
    PROVE  FlattenSeq(seqs) \in Seq(S)
<1> DEFINE L == Len(seqs)
<1>1. CASE L = 0
  <2>1. seqs = << >>
    BY <1>1
  <2>2. << >> \in Seq(S)
    OBVIOUS
  <2> QED
    BY <2>1, <2>2, FlattenNothing, Zenon
<1>2. CASE L # 0
  <2>0. L \in Nat \ {0}
    BY <1>2
  <2>1. PICK f : /\ f = [i \in 1..L |-> IF i = 1 THEN seqs[i] ELSE f[i - 1] \o seqs[i]]
                 /\ FlattenSeq(seqs) = f[L]
    BY <2>0, FlattenIsDefined
  <2> DEFINE T == {n \in Nat : n + 1 <= L => f[n + 1] \in Seq(S)}
  <2>2. 0 \in T
    <3>1. 1 \in 1..L /\ seqs[1] \in Seq(S)
      BY <2>0
    <3>2. f[1] = seqs[1]
      BY <2>1, <3>1
    <3> QED
      BY <3>1, <3>2
  <2>3. ASSUME NEW n \in T PROVE n + 1 \in T
    <3> SUFFICES ASSUME (n + 1) + 1 <= L PROVE f[(n + 1) + 1] \in Seq(S)
      OBVIOUS
    <3> DEFINE m == n + 1
    <3>1. m \in Nat \ {0} /\ m + 1 \in 1..L /\ f[m] \in Seq(S)
      BY <2>0
    <3>2. seqs[m + 1] \in Seq(S) /\ m + 1 # 1 /\ (m + 1) - 1 = m
      BY <3>1
    <3> HIDE DEF m
    <3>3. f[m + 1] = f[m] \o seqs[m + 1]
      BY <2>1, <3>1, <3>2
    <3>4. f[m + 1] \in Seq(S)
      BY <3>1, <3>2, <3>3
    <3> QED
      BY <3>4 DEF m
  <2>4. T \subseteq Nat
    OBVIOUS
  <2> HIDE DEF T
  <2>5. T = Nat
    BY <2>2, <2>3, <2>4, SetInduction
  <2>6. L - 1 \in T /\ (L - 1) + 1 = L
    BY <2>0, <2>5
  <2>7. f[L] \in Seq(S)
    <3> HIDE DEF L
    <3> QED
      BY <2>0, <2>6 DEF T
  <2> QED
    BY <2>1, <2>7
<1> QED
  BY <1>1, <1>2

LEMMA FlattenAppend ==
    ASSUME NEW S, NEW seqs \in Seq(Seq(S)), NEW x \in Seq(S)
    PROVE  FlattenSeq(Append(seqs, x)) = FlattenSeq(seqs) \o x
<1> DEFINE L == Len(seqs)
           more == Append(seqs, x)
<1>1. /\ L \in Nat /\ more \in Seq(Seq(S)) /\ Len(more) = L + 1
      /\ \A k \in 1..L : more[k] = seqs[k]
      /\ more[L + 1] = x
  OBVIOUS
<1> HIDE DEF more
<1>2. PICK g : /\ g = [i \in 1..Len(more) |-> IF i = 1 THEN more[i] ELSE g[i - 1] \o more[i]]
               /\ FlattenSeq(more) = g[Len(more)]
  <2>1. Len(more) \in Nat \ {0}
    BY <1>1
  <2> QED
    BY <2>1, FlattenIsDefined, Zenon
<1>3. CASE L = 0
  <2>1. seqs = << >> /\ FlattenSeq(seqs) = << >>
    BY <1>3, FlattenNothing
  <2>2. g[1] = x
    BY <1>1, <1>2, <1>3
  <2> QED
    BY <1>1, <1>2, <1>3, <2>1, <2>2 DEF more
<1>4. CASE L # 0
  <2>0. L \in Nat \ {0}
    BY <1>4
  <2>1. PICK f : /\ f = [i \in 1..L |-> IF i = 1 THEN seqs[i] ELSE f[i - 1] \o seqs[i]]
                 /\ FlattenSeq(seqs) = f[L]
    BY <2>0, FlattenIsDefined
  <2> DEFINE T == {n \in Nat : n + 1 <= L => g[n + 1] = f[n + 1]}
  <2>2. 0 \in T
    <3>1. 1 \in 1..L /\ 1 \in 1..Len(more)
      BY <1>1, <2>0
    <3>2. f[1] = seqs[1] /\ g[1] = more[1]
      BY <1>2, <2>1, <3>1
    <3> QED
      BY <1>1, <3>1, <3>2
  <2>3. ASSUME NEW n \in T PROVE n + 1 \in T
    <3> SUFFICES ASSUME (n + 1) + 1 <= L PROVE g[(n + 1) + 1] = f[(n + 1) + 1]
      OBVIOUS
    <3> DEFINE m == n + 1
    <3>1. m \in Nat \ {0} /\ m + 1 \in 1..L /\ g[m] = f[m]
      BY <2>0
    <3>2. m + 1 \in 1..Len(more) /\ m + 1 # 1 /\ (m + 1) - 1 = m
      BY <1>1, <3>1
    <3> HIDE DEF m
    <3>3. f[m + 1] = f[m] \o seqs[m + 1] /\ g[m + 1] = g[m] \o more[m + 1]
      BY <1>2, <2>1, <3>1, <3>2
    <3>4. g[m + 1] = f[m + 1]
      BY <1>1, <3>1, <3>3
    <3> QED
      BY <3>4 DEF m
  <2>4. T \subseteq Nat
    OBVIOUS
  <2> HIDE DEF T
  <2>5. T = Nat
    BY <2>2, <2>3, <2>4, SetInduction
  <2>6. L - 1 \in T /\ (L - 1) + 1 = L
    BY <2>0, <2>5
  <2> HIDE DEF L
  <2>7. g[L] = f[L]
    BY <2>0, <2>6 DEF T
  <2>8. g[L + 1] = g[L] \o more[L + 1]
    <3>1. L + 1 \in 1..Len(more) /\ L + 1 # 1 /\ (L + 1) - 1 = L
      BY <1>1, <2>0
    <3> QED
      BY <1>2, <3>1
  <2> QED
    BY <1>1, <1>2, <2>1, <2>7, <2>8 DEF more
<1> QED
  BY <1>3, <1>4

(* The same, told by elements. *)
LEMMA FlattenOneMore ==
    ASSUME NEW S, NEW parts \in Seq(Seq(S)), NEW more \in Seq(Seq(S)),
           Len(more) = Len(parts) + 1,
           \A i \in 1..Len(parts) : more[i] = parts[i]
    PROVE  FlattenSeq(more) = FlattenSeq(parts) \o more[Len(parts) + 1]
<1> DEFINE L == Len(parts)
           y == more[L + 1]
<1>1. L \in Nat /\ y \in Seq(S)
  OBVIOUS
<1> HIDE DEF y
<1>2. Append(parts, y) \in Seq(Seq(S)) /\ Len(Append(parts, y)) = L + 1
  BY <1>1
<1>3. \A i \in 1..(L + 1) : Append(parts, y)[i] = IF i = L + 1 THEN y ELSE parts[i]
  BY <1>1
<1>4. \A i \in 1..Len(more) : more[i] = Append(parts, y)[i]
  BY <1>3 DEF y
<1>5. more = Append(parts, y)
  BY <1>2, <1>4, SameElements
<1> QED
  BY <1>1, <1>5, FlattenAppend DEF y

(* What is in a concatenation is in one of its parts. *)
(* A concatenation grows by one part after the other. *)
LEMMA FlattenPrefixes ==
    ASSUME NEW S, NEW parts \in Seq(Seq(S))
    PROVE  \E pre \in [0..Len(parts) -> Seq(S)] :
              /\ pre[0] = << >>
              /\ \A i \in 1..Len(parts) : pre[i] = pre[i - 1] \o parts[i]
              /\ FlattenSeq(parts) = pre[Len(parts)]
<1> DEFINE N == Len(parts)
           first(i) == SubSeq(parts, 1, i)
           pre == [i \in 0..N |-> FlattenSeq(first(i))]
<1>1. N \in Nat /\ first(0) = << >> /\ first(N) = parts
  OBVIOUS
<1>2. ASSUME NEW i \in 0..N
      PROVE  /\ first(i) \in Seq(Seq(S)) /\ Len(first(i)) = i
             /\ \A j \in 1..i : first(i)[j] = parts[j]
  OBVIOUS
<1> HIDE DEF first
<1>3. ASSUME NEW i \in 0..N PROVE FlattenSeq(first(i)) \in Seq(S)
  BY <1>2, FlattenType
<1>4. pre \in [0..N -> Seq(S)]
  BY <1>3
<1>5. ASSUME NEW i \in 1..N PROVE pre[i] = pre[i - 1] \o parts[i]
  <2> DEFINE h == i - 1
  <2>1. h \in 0..N /\ i \in 0..N /\ h + 1 = i
    BY <1>1
  <2> HIDE DEF h
  <2>2. /\ Len(first(i)) = Len(first(h)) + 1 /\ first(i)[Len(first(h)) + 1] = parts[i]
        /\ \A j \in 1..Len(first(h)) : first(i)[j] = first(h)[j]
    BY <1>1, <1>2, <2>1
  <2>3. first(i) \in Seq(Seq(S)) /\ first(h) \in Seq(Seq(S))
    BY <1>2, <2>1
  <2>4. FlattenSeq(first(i)) = FlattenSeq(first(h)) \o parts[i]
    BY <2>2, <2>3, FlattenOneMore
  <2>5. pre[i] = pre[h] \o parts[i]
    BY <2>1, <2>4
  <2> QED
    BY <2>5 DEF h
<1>6. pre[0] = << >> /\ FlattenSeq(parts) = pre[N]
  BY <1>1, FlattenNothing
<1> QED
  BY <1>4, <1>5, <1>6

LEMMA ConcatRange ==
    ASSUME NEW S, NEW R, NEW s \in Seq(S), NEW t \in Seq(S), s \o t \in Seq(R)
    PROVE  s \in Seq(R) /\ t \in Seq(R)
<1>1. ASSUME NEW k \in 1..Len(s) PROVE s[k] \in R
  <2>1. k \in 1..Len(s \o t) /\ (s \o t)[k] = s[k]
    OBVIOUS
  <2> QED
    BY <2>1
<1>2. ASSUME NEW k \in 1..Len(t) PROVE t[k] \in R
  <2>1. Len(s) + k \in 1..Len(s \o t) /\ (s \o t)[Len(s) + k] = t[k]
    BY ConcatParts
  <2> QED
    BY <2>1
<1> QED
  BY <1>1, <1>2
=============================================================================
