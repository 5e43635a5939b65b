-------------------------- MODULE CommandLineProofs --------------------------
(***************************************************************************)
(* Proofs about CommandLine, for all upstreams, paths, filters and files,  *)
(* and command lines of any length.                                        *)
(***************************************************************************)
EXTENDS CommandLine, DataLemmas, FiniteSetTheorems

LEMMA ArgType ==
    ASSUME NEW t \in Args
    PROVE  /\ t.kind \in {"upstream", "socket", "word", "option"}
           /\ t.kind = "upstream" => t.arg \in Upstreams
           /\ t.kind = "socket" => t.arg \in Paths /\ t = [kind |-> "socket", arg |-> t.arg]
           /\ t.kind = "word" => t.arg \in Words
  BY DEF Args

LEMMA LineAppend ==
    ASSUME NEW line \in Seq(Args), NEW t \in Args
    PROVE  /\ Append(line, t) \in Seq(Args) /\ Len(line) \in Nat
           /\ Len(Append(line, t)) = Len(line) + 1
           /\ \A i \in 1..Len(line) : Append(line, t)[i] = line[i]
           /\ Append(line, t)[Len(line) + 1] = t
  OBVIOUS

-----------------------------------------------------------------------------
(***************************************************************************)
(* A command line read as a whole, and what one argument more changes.     *)
(***************************************************************************)
DeclaredSocket == [upstream : Upstreams, path : Paths, filters : Seq(Words)]

(* A word behind all of the line would still belong to a socket at i. *)
Open(line, i) == \A k \in (i + 1)..Len(line) : line[k].kind \notin {"upstream", "socket"}

LEMMA UpstreamAppend ==
    ASSUME NEW first, NEW line \in Seq(Args), NEW t \in Args
    PROVE  /\ \A i \in 1..(Len(line) + 1) :
                 UpstreamFor(first, Append(line, t), i) = UpstreamFor(first, line, i)
           /\ UpstreamFor(first, Append(line, t), Len(line) + 2)
                = IF t.kind = "upstream" THEN t.arg ELSE UpstreamFor(first, line, Len(line) + 1)
<1> DEFINE N == Len(line)
           more == Append(line, t)
           Earlier(l, i) == {j \in 1..(i - 1) : l[j].kind = "upstream"}
<1>1. /\ N \in Nat /\ \A i \in 1..N : more[i] = line[i]
      /\ more[N + 1] = t
  BY LineAppend
<1> HIDE DEF more
<1>2. ASSUME NEW i \in 1..(N + 1)
      PROVE  UpstreamFor(first, more, i) = UpstreamFor(first, line, i)
  <2>1. Earlier(more, i) = Earlier(line, i)
    BY <1>1
  <2>2. CASE Earlier(line, i) = {}
    BY <2>1, <2>2 DEF UpstreamFor
  <2>3. CASE Earlier(line, i) # {}
    <3> DEFINE last == Max(Earlier(line, i))
    <3>1. UpstreamFor(first, more, i) = more[last].arg /\ UpstreamFor(first, line, i) = line[last].arg
      BY <2>1, <2>3 DEF UpstreamFor
    <3>2. last \in Earlier(line, i)
      <4>1. Earlier(line, i) \subseteq 0..N
        BY <1>1
      <4> HIDE DEF Earlier
      <4>3. \E x \in Earlier(line, i) : \A y \in Earlier(line, i) : x >= y
        BY <1>1, <2>3, <4>1, HasMaximum
      <4> QED
        BY <4>3 DEF Max
    <3>3. last \in 1..N
      BY <1>1, <3>2
    <3> HIDE DEF last
    <3> QED
      BY <1>1, <3>1, <3>3
  <2> QED
    BY <2>2, <2>3
<1>3. UpstreamFor(first, more, N + 2)
        = IF t.kind = "upstream" THEN t.arg ELSE UpstreamFor(first, line, N + 1)
  <2>1. CASE t.kind = "upstream"
    <3>1. N + 1 \in Earlier(more, N + 2) /\ \A j \in Earlier(more, N + 2) : j <= N + 1 /\ j \in Nat
      BY <1>1, <2>1
    <3>2. Max(Earlier(more, N + 2)) = N + 1
      <4> HIDE DEF Earlier
      <4>1. \E x \in Earlier(more, N + 2) : \A y \in Earlier(more, N + 2) : x >= y
        BY <1>1, <3>1
      <4>2. /\ Max(Earlier(more, N + 2)) \in Earlier(more, N + 2)
            /\ \A y \in Earlier(more, N + 2) : Max(Earlier(more, N + 2)) >= y
        BY <4>1 DEF Max
      <4>3. Max(Earlier(more, N + 2)) >= N + 1 /\ Max(Earlier(more, N + 2)) <= N + 1
        BY <3>1, <4>2
      <4> DEFINE m == Max(Earlier(more, N + 2))
      <4>4. m \in Nat /\ m >= N + 1 /\ m <= N + 1
        BY <3>1, <4>2, <4>3
      <4> HIDE DEF m
      <4>5. m = N + 1
        BY <1>1, <4>4
      <4> QED
        BY <4>5 DEF m
    <3>3. Earlier(more, N + 2) # {}
      BY <3>1
    <3> QED
      BY <1>1, <2>1, <3>2, <3>3 DEF UpstreamFor
  <2>2. CASE t.kind # "upstream"
    <3>1. Earlier(more, N + 2) = Earlier(more, N + 1)
      BY <1>1, <2>2
    <3>2. UpstreamFor(first, more, N + 2) = UpstreamFor(first, more, N + 1)
      BY <3>1 DEF UpstreamFor
    <3>3. N + 1 \in 1..(N + 1)
      BY <1>1
    <3> QED
      BY <1>2, <2>2, <3>2, <3>3
  <2> QED
    BY <2>1, <2>2
<1> QED
  BY <1>2, <1>3 DEF more

LEMMA FilterSteps ==
    ASSUME NEW line \in Seq(Args), NEW i \in Nat
    PROVE  \E upto \in [0..Len(line) -> Seq(Words)] :
              /\ upto[0] = << >>
              /\ \A j \in 1..Len(line) :
                    upto[j] = IF j <= i THEN << >>
                              ELSE IF BelongsTo(line, i, j) THEN Append(upto[j - 1], line[j].arg)
                              ELSE upto[j - 1]
              /\ FiltersFor(line, i) = upto[Len(line)]
<1> DEFINE N == Len(line)
           Rule(x, j) == IF j <= i THEN << >>
                         ELSE IF BelongsTo(line, i, j) THEN Append(x, line[j].arg)
                         ELSE x
           Pred(f) == f = [j \in 0..N |-> Rule(f[j - 1], j)]
           more == [j \in 1..N |-> [x \in Seq(Words) |-> Rule(x, j)]]
<1>1. N \in Nat /\ << >> \in Seq(Words) /\ \A x \in Seq(Words) : \A w \in Words : Append(x, w) \in Seq(Words)
  OBVIOUS
<1>2. ASSUME NEW j \in 1..N, NEW x \in Seq(Words) PROVE Rule(x, j) \in Seq(Words)
  <2>1. line[j] \in Args
    BY <1>1
  <2>2. BelongsTo(line, i, j) => line[j].arg \in Words
    BY <2>1, ArgType DEF BelongsTo
  <2> QED
    BY <1>1, <2>2
<1>3. FiltersFor(line, i) = (CHOOSE f : Pred(f))[N]
  BY DEF FiltersFor
<1>4. \A x : Rule(x, 0) = << >>
  OBVIOUS
<1> HIDE DEF Rule, N
<1>5. more \in [1..N -> [Seq(Words) -> Seq(Words)]]
  BY <1>2
<1>6. \A j \in 1..N : \A x \in Seq(Words) : more[j][x] = Rule(x, j)
  OBVIOUS
<1> HIDE DEF more
<1>7. PICK f \in [0..N -> Seq(Words)] :
         f[0] = << >> /\ \A j \in 1..N : f[j] = more[j][f[j - 1]]
  <2> DEFINE S == Seq(Words)
             base == << >>
  <2>1. N \in Nat /\ base \in S /\ more \in [1..N -> [S -> S]]
    BY <1>1, <1>5
  <2> HIDE DEF S, base
  <2>2. \E f \in [0..N -> S] : f[0] = base /\ \A j \in 1..N : f[j] = more[j][f[j - 1]]
    BY <2>1, StepsExist
  <2> QED
    BY <2>2 DEF S, base
<1>8. Pred(f)
  <2>1. ASSUME NEW j \in 0..N PROVE f[j] = Rule(f[j - 1], j)
    <3>1. CASE j = 0
      BY <1>4, <1>7, <3>1
    <3>2. CASE j # 0
      <4>1. j \in 1..N /\ j - 1 \in 0..N
        BY <1>1, <3>2
      <4>2. f[j - 1] \in Seq(Words)
        BY <4>1
      <4> QED
        BY <1>6, <1>7, <4>1, <4>2
    <3> QED
      BY <3>1, <3>2
  <2> QED
    BY <2>1
<1> DEFINE g == CHOOSE h : Pred(h)
<1>9. Pred(g)
  BY <1>8
<1>10. FiltersFor(line, i) = g[N]
  BY <1>3
<1> HIDE DEF g
<1>11. \A j \in 0..N : g[j] = Rule(g[j - 1], j)
  BY <1>9
<1>12. g[0] = << >>
  BY <1>1, <1>4, <1>11
<1>13. \A j \in 0..N : g[j] \in Seq(Words)
  <2> DEFINE T == {j \in 0..N : g[j] \in Seq(Words)}
  <2>1. 0 \in T
    <3>1. 0 \in 0..N /\ g[0] \in Seq(Words)
      BY <1>1, <1>12
    <3> QED
      BY <3>1
  <2>2. ASSUME NEW j \in 0..(N - 1), j \in T PROVE j + 1 \in T
    <3>1. j + 1 \in 1..N /\ (j + 1) - 1 = j /\ j + 1 \in 0..N /\ g[j] \in Seq(Words)
      BY <1>1, <2>2
    <3>2. g[j + 1] = Rule(g[j], j + 1)
      BY <1>11, <3>1
    <3> QED
      BY <1>2, <3>1, <3>2
  <2> HIDE DEF T
  <2>3. \A j \in 0..N : j \in T
    BY <1>1, <2>1, <2>2, BoundedInduction
  <2> QED
    BY <2>3 DEF T
<1>14. g \in [0..N -> Seq(Words)]
  <2>1. g = [j \in 0..N |-> g[j]]
    BY <1>9
  <2> QED
    BY <1>13, <2>1
<1>15. \A j \in 1..N : g[j] = Rule(g[j - 1], j)
  BY <1>1, <1>11
<1> QED
  BY <1>10, <1>12, <1>14, <1>15 DEF Rule, N

LEMMA FiltersType ==
    ASSUME NEW line \in Seq(Args), NEW i \in Nat
    PROVE  FiltersFor(line, i) \in Seq(Words)
<1>1. PICK upto \in [0..Len(line) -> Seq(Words)] : FiltersFor(line, i) = upto[Len(line)]
  BY FilterSteps
<1> QED
  BY <1>1

LEMMA FiltersAppend ==
    ASSUME NEW line \in Seq(Args), NEW t \in Args, NEW i \in 1..Len(line)
    PROVE  FiltersFor(Append(line, t), i)
             = IF t.kind = "word" /\ Open(line, i) THEN Append(FiltersFor(line, i), t.arg)
               ELSE FiltersFor(line, i)
<1> DEFINE N == Len(line)
           more == Append(line, t)
<1>1. /\ N \in Nat /\ Len(more) = N + 1 /\ more \in Seq(Args)
      /\ \A k \in 1..N : more[k] = line[k]
      /\ more[N + 1] = t /\ i \in Nat /\ i \in 1..N
  BY LineAppend
<1> HIDE DEF more
<1>2. PICK f \in [0..N -> Seq(Words)] :
         /\ f[0] = << >>
         /\ \A j \in 1..N :
               f[j] = IF j <= i THEN << >>
                      ELSE IF BelongsTo(line, i, j) THEN Append(f[j - 1], line[j].arg)
                      ELSE f[j - 1]
         /\ FiltersFor(line, i) = f[N]
  BY <1>1, FilterSteps
<1>3. PICK g \in [0..(N + 1) -> Seq(Words)] :
         /\ g[0] = << >>
         /\ \A j \in 1..(N + 1) :
               g[j] = IF j <= i THEN << >>
                      ELSE IF BelongsTo(more, i, j) THEN Append(g[j - 1], more[j].arg)
                      ELSE g[j - 1]
         /\ FiltersFor(more, i) = g[N + 1]
  <2>1. \E g \in [0..Len(more) -> Seq(Words)] :
         /\ g[0] = << >>
         /\ \A j \in 1..Len(more) :
               g[j] = IF j <= i THEN << >>
                      ELSE IF BelongsTo(more, i, j) THEN Append(g[j - 1], more[j].arg)
                      ELSE g[j - 1]
         /\ FiltersFor(more, i) = g[Len(more)]
    BY <1>1, FilterSteps
  <2> QED
    BY <1>1, <2>1, Zenon
<1>4. ASSUME NEW j \in 1..N, i < j
      PROVE  BelongsTo(more, i, j) <=> BelongsTo(line, i, j)
  <2>1. \A k \in (i + 1)..(j - 1) : k \in 1..N
    BY <1>1
  <2> QED
    BY <1>1, <2>1 DEF BelongsTo
<1>5. BelongsTo(more, i, N + 1) <=> t.kind = "word" /\ Open(line, i)
  <2>1. \A k \in (i + 1)..N : k \in 1..N
    BY <1>1
  <2>2. (N + 1) - 1 = N
    BY <1>1
  <2> QED
    BY <1>1, <2>1, <2>2 DEF BelongsTo, Open
<1>6. \A j \in 0..N : g[j] = f[j]
  <2> DEFINE T == {j \in 0..N : g[j] = f[j]}
  <2>1. 0 \in T
    BY <1>1, <1>2, <1>3
  <2>2. ASSUME NEW j \in 0..(N - 1), j \in T PROVE j + 1 \in T
    <3>1. /\ j + 1 \in 1..N /\ (j + 1) - 1 = j /\ j + 1 \in 0..N /\ j + 1 \in 1..(N + 1)
          /\ g[j] = f[j]
      <4>1. g[j] = f[j]
        BY <2>2
      <4> QED
        BY <1>1, <4>1
    <3>2. CASE j + 1 <= i
      BY <1>2, <1>3, <3>1, <3>2
    <3>3. CASE i < j + 1
      <4>1. ~(j + 1 <= i) /\ more[j + 1] = line[j + 1]
        BY <1>1, <3>1, <3>3
      <4>2. BelongsTo(more, i, j + 1) <=> BelongsTo(line, i, j + 1)
        BY <1>4, <3>1, <3>3
      <4>3. f[j + 1] = IF BelongsTo(line, i, j + 1) THEN Append(f[j], line[j + 1].arg) ELSE f[j]
        BY <1>2, <3>1, <4>1
      <4>4. g[j + 1] = IF BelongsTo(more, i, j + 1) THEN Append(g[j], more[j + 1].arg) ELSE g[j]
        BY <1>3, <3>1, <4>1
      <4> QED
        BY <3>1, <4>1, <4>2, <4>3, <4>4
    <3> QED
      BY <1>1, <3>2, <3>3
  <2> HIDE DEF T
  <2>3. \A j \in 0..N : j \in T
    BY <1>1, <2>1, <2>2, BoundedInduction
  <2> QED
    BY <2>3 DEF T
<1>7. g[N] = f[N] /\ N + 1 \in 1..(N + 1) /\ ~(N + 1 <= i) /\ (N + 1) - 1 = N
  BY <1>1, <1>6
<1>8. g[N + 1] = IF BelongsTo(more, i, N + 1) THEN Append(g[N], more[N + 1].arg) ELSE g[N]
  BY <1>3, <1>7
<1> QED
  BY <1>1, <1>2, <1>3, <1>5, <1>7, <1>8 DEF more

(* Behind the last argument there is nothing. *)
LEMMA NoFilters ==
    ASSUME NEW line \in Seq(Args)
    PROVE  FiltersFor(line, Len(line)) = << >>
<1>1. Len(line) \in Nat
  OBVIOUS
<1>2. PICK upto \in [0..Len(line) -> Seq(Words)] :
         /\ upto[0] = << >>
         /\ \A j \in 1..Len(line) : j <= Len(line) => upto[j] = << >>
         /\ FiltersFor(line, Len(line)) = upto[Len(line)]
  BY <1>1, FilterSteps
<1> QED
  BY <1>1, <1>2

LEMMA UpstreamType ==
    ASSUME NEW first \in Upstreams \cup {NoUpstream}, NEW line \in Seq(Args),
           NEW i \in 1..(Len(line) + 1)
    PROVE  UpstreamFor(first, line, i) \in Upstreams \cup {first}
<1> DEFINE N == Len(line)
           earlier == {j \in 1..(i - 1) : line[j].kind = "upstream"}
<1>1. N \in Nat
  OBVIOUS
<1>2. CASE earlier = {}
  BY <1>2 DEF UpstreamFor
<1>3. CASE earlier # {}
  <2> DEFINE last == Max(earlier)
  <2>1. UpstreamFor(first, line, i) = line[last].arg
    BY <1>3 DEF UpstreamFor
  <2>2. earlier \subseteq 0..N
    BY <1>1
  <2>3. \A j \in earlier : j \in 1..N /\ line[j].kind = "upstream"
    BY <1>1
  <2> HIDE DEF earlier
  <2>4. \E x \in earlier : \A y \in earlier : x >= y
    BY <1>1, <1>3, <2>2, HasMaximum
  <2>5. last \in earlier
    BY <2>4 DEF Max
  <2> HIDE DEF last
  <2>6. line[last] \in Args /\ line[last].kind = "upstream"
    BY <2>3, <2>5
  <2> QED
    BY <2>1, <2>6, ArgType
<1> QED
  BY <1>2, <1>3

(* Between two places without an upstream in between it is the same. *)
LEMMA UpstreamStays ==
    ASSUME NEW first, NEW line \in Seq(Args), NEW i \in 1..Len(line),
           \A k \in i..Len(line) : line[k].kind # "upstream"
    PROVE  UpstreamFor(first, line, i) = UpstreamFor(first, line, Len(line) + 1)
<1> DEFINE Earlier(n) == {j \in 1..(n - 1) : line[j].kind = "upstream"}
<1>1. Earlier(i) = Earlier(Len(line) + 1)
  OBVIOUS
<1> QED
  BY <1>1 DEF UpstreamFor

SocketAt(first, line, i) ==
    [upstream |-> UpstreamFor(first, line, i), path |-> line[i].arg, filters |-> FiltersFor(line, i)]

IsDeclared(first, line, i) == line[i].kind = "socket" /\ UpstreamFor(first, line, i) # NoUpstream

LEMMA SocketAtType ==
    ASSUME NEW first \in Upstreams \cup {NoUpstream}, NEW line \in Seq(Args),
           NEW i \in 1..Len(line), IsDeclared(first, line, i)
    PROVE  SocketAt(first, line, i) \in DeclaredSocket
<1>1. i \in Nat /\ i \in 1..(Len(line) + 1) /\ line[i] \in Args
  OBVIOUS
<1>2. UpstreamFor(first, line, i) \in Upstreams
  <2>1. UpstreamFor(first, line, i) \in Upstreams \cup {first}
    BY <1>1, UpstreamType
  <2> QED
    BY <2>1 DEF IsDeclared
<1>3. line[i].arg \in Paths
  BY <1>1, ArgType DEF IsDeclared
<1>4. FiltersFor(line, i) \in Seq(Words)
  BY <1>1, FiltersType
<1> QED
  BY <1>2, <1>3, <1>4 DEF SocketAt, DeclaredSocket

LEMMA DeclaredSteps ==
    ASSUME NEW first \in Upstreams \cup {NoUpstream}, NEW line \in Seq(Args)
    PROVE  /\ DeclaredUpto(first, line) \in [0..Len(line) -> Seq(DeclaredSocket)]
           /\ DeclaredUpto(first, line)[0] = << >>
           /\ \A i \in 1..Len(line) :
                 DeclaredUpto(first, line)[i] =
                     IF IsDeclared(first, line, i)
                     THEN Append(DeclaredUpto(first, line)[i - 1], SocketAt(first, line, i))
                     ELSE DeclaredUpto(first, line)[i - 1]
<1> DEFINE N == Len(line)
           S == Seq(DeclaredSocket)
           base == << >>
           Rule(x, i) == IF IsDeclared(first, line, i) THEN Append(x, SocketAt(first, line, i))
                         ELSE x
           Pred(f) == f = [i \in 0..N |-> IF i = 0 THEN << >> ELSE Rule(f[i - 1], i)]
           more == [i \in 1..N |-> [x \in S |-> Rule(x, i)]]
<1>1. N \in Nat /\ base \in S
  OBVIOUS
<1>2. ASSUME NEW i \in 1..N, NEW x \in S PROVE Rule(x, i) \in S
  <2>1. CASE IsDeclared(first, line, i)
    <3>1. SocketAt(first, line, i) \in DeclaredSocket
      BY <2>1, SocketAtType
    <3> QED
      BY <2>1, <3>1
  <2>2. CASE ~IsDeclared(first, line, i)
    BY <2>2
  <2> QED
    BY <2>1, <2>2
<1>3. DeclaredUpto(first, line) = CHOOSE h : Pred(h)
  BY DEF DeclaredUpto, IsDeclared, SocketAt
<1> HIDE DEF Rule, N, S
<1>4. more \in [1..N -> [S -> S]]
  BY <1>2
<1>5. \A i \in 1..N : \A x \in S : more[i][x] = Rule(x, i)
  OBVIOUS
<1> HIDE DEF more
<1>6. PICK f \in [0..N -> S] : f[0] = base /\ \A j \in 1..N : f[j] = more[j][f[j - 1]]
  <2> DEFINE X == S
             start == base
  <2>1. N \in Nat /\ start \in X /\ more \in [1..N -> [X -> X]]
    BY ONLY <1>1, <1>4
  <2> HIDE DEF base, start, X
  <2>2. \E f \in [0..N -> X] : f[0] = start /\ \A j \in 1..N : f[j] = more[j][f[j - 1]]
    BY ONLY <2>1, StepsExist, Z3T(30)
  <2> QED
    BY <2>2 DEF start, base, X
<1>7. Pred(f)
  <2>1. ASSUME NEW i \in 0..N PROVE f[i] = IF i = 0 THEN << >> ELSE Rule(f[i - 1], i)
    <3>1. CASE i = 0
      BY <1>6, <3>1
    <3>2. CASE i # 0
      <4>1. i \in 1..N /\ i - 1 \in 0..N
        BY <1>1, <3>2
      <4>2. f[i - 1] \in S
        BY <4>1
      <4> QED
        BY <1>5, <1>6, <3>2, <4>1, <4>2
    <3> QED
      BY <3>1, <3>2
  <2> QED
    BY <2>1
<1> DEFINE g == CHOOSE h : Pred(h)
<1>8. Pred(g)
  BY <1>7
<1> HIDE DEF g
<1>9. /\ g[0] = << >>
      /\ \A i \in 1..N : g[i] = Rule(g[i - 1], i)
  BY <1>1, <1>8
<1>10. \A i \in 0..N : g[i] \in S
  <2> DEFINE T == {i \in 0..N : g[i] \in S}
  <2>1. 0 \in T
    <3>1. 0 \in 0..N /\ g[0] \in S
      BY <1>1, <1>9
    <3> QED
      BY <3>1
  <2>2. ASSUME NEW i \in 0..(N - 1), i \in T PROVE i + 1 \in T
    <3>1. i + 1 \in 1..N /\ (i + 1) - 1 = i /\ i + 1 \in 0..N /\ g[i] \in S
      <4>1. g[i] \in S
        BY <2>2
      <4> QED
        BY <1>1, <4>1
    <3>2. g[i + 1] = Rule(g[i], i + 1)
      BY <1>9, <3>1
    <3> QED
      BY <1>2, <3>1, <3>2
  <2> HIDE DEF T
  <2>3. \A i \in 0..N : i \in T
    BY <1>1, <2>1, <2>2, BoundedInduction
  <2> QED
    BY <2>3 DEF T
<1>11. g \in [0..N -> S]
  <2>1. g = [i \in 0..N |-> g[i]]
    BY <1>8
  <2> QED
    BY <1>10, <2>1
<1> QED
  BY <1>3, <1>9, <1>11 DEF Rule, N, S, g

(* One argument more changes nothing before it, but for the filters of a   *)
(* socket that is still open.                                              *)
LEMMA DeclaredFrame ==
    ASSUME NEW first \in Upstreams \cup {NoUpstream}, NEW line \in Seq(Args), NEW t \in Args,
           NEW n \in 0..Len(line),
           \A i \in 1..n : line[i].kind = "socket" => t.kind # "word" \/ ~Open(line, i)
    PROVE  \A i \in 0..n : DeclaredUpto(first, Append(line, t))[i] = DeclaredUpto(first, line)[i]
<1> DEFINE N == Len(line)
           more == Append(line, t)
           d == DeclaredUpto(first, line)
           e == DeclaredUpto(first, more)
<1>1. /\ N \in Nat /\ Len(more) = N + 1 /\ more \in Seq(Args) /\ n \in 0..N
      /\ \A i \in 1..N : more[i] = line[i]
  BY LineAppend
<1>2. \A i \in 1..(N + 1) : UpstreamFor(first, more, i) = UpstreamFor(first, line, i)
  BY UpstreamAppend
<1>3. \A i \in 1..n : line[i].kind = "socket" => FiltersFor(more, i) = FiltersFor(line, i)
  <2>1. ASSUME NEW i \in 1..n, line[i].kind = "socket" PROVE FiltersFor(more, i) = FiltersFor(line, i)
    <3>1. i \in 1..N /\ ~(t.kind = "word" /\ Open(line, i))
      BY <1>1, <2>1
    <3> QED
      BY <3>1, FiltersAppend
  <2> QED
    BY <2>1
<1> HIDE DEF more
<1>4. /\ d[0] = << >>
      /\ \A i \in 1..N : d[i] = IF IsDeclared(first, line, i)
                                THEN Append(d[i - 1], SocketAt(first, line, i)) ELSE d[i - 1]
  BY DeclaredSteps
<1>5. /\ e[0] = << >>
      /\ \A i \in 1..Len(more) : e[i] = IF IsDeclared(first, more, i)
                                THEN Append(e[i - 1], SocketAt(first, more, i)) ELSE e[i - 1]
  BY <1>1, DeclaredSteps
<1> HIDE DEF d, e
<1> DEFINE T == {i \in 0..n : e[i] = d[i]}
<1>6. 0 \in T
  BY <1>1, <1>4, <1>5
<1>7. ASSUME NEW i \in 0..(n - 1), i \in T PROVE i + 1 \in T
  <2> DEFINE j == i + 1
  <2>1. e[i] = d[i]
    BY <1>7
  <2>2. /\ j \in 1..n /\ j \in 1..N /\ j \in 1..(N + 1) /\ j - 1 = i /\ j \in 0..n
        /\ j \in 1..Len(more)
    BY <1>1
  <2> HIDE DEF j
  <2>3. d[j] = IF IsDeclared(first, line, j) THEN Append(d[i], SocketAt(first, line, j)) ELSE d[i]
    BY <1>4, <2>2
  <2>4. e[j] = IF IsDeclared(first, more, j) THEN Append(e[i], SocketAt(first, more, j)) ELSE e[i]
    BY <1>5, <2>2
  <2>5. more[j] = line[j] /\ UpstreamFor(first, more, j) = UpstreamFor(first, line, j)
    BY <1>1, <1>2, <2>2
  <2>6. IsDeclared(first, more, j) <=> IsDeclared(first, line, j)
    BY <2>5 DEF IsDeclared
  <2>7. IsDeclared(first, line, j) => SocketAt(first, more, j) = SocketAt(first, line, j)
    BY <1>3, <2>2, <2>5 DEF IsDeclared, SocketAt
  <2>8. e[j] = d[j]
    BY <2>1, <2>3, <2>4, <2>6, <2>7
  <2>9. j \in T
    BY <2>2, <2>8
  <2> QED
    BY <2>9 DEF j
<1> HIDE DEF T
<1>8. \A i \in 0..n : i \in T
  <2>1. n \in Nat
    BY <1>1
  <2> QED
    BY <1>6, <1>7, <2>1, BoundedInduction
<1> QED
  BY <1>8 DEF T, d, e, more

(* What the last argument itself declares. *)
LEMMA DeclaredNext ==
    ASSUME NEW first \in Upstreams \cup {NoUpstream}, NEW line \in Seq(Args), NEW t \in Args,
           NEW up, up = UpstreamFor(first, line, Len(line) + 1),
           NEW e, e = DeclaredUpto(first, Append(line, t))
    PROVE  e[Len(line) + 1] =
              IF t.kind = "socket" /\ up # NoUpstream
              THEN Append(e[Len(line)], [upstream |-> up, path |-> t.arg, filters |-> << >>])
              ELSE e[Len(line)]
<1> DEFINE N == Len(line)
           more == Append(line, t)
           j == N + 1
<1>1. /\ N \in Nat /\ Len(more) = j /\ more \in Seq(Args) /\ more[j] = t
      /\ j \in 1..Len(more) /\ j - 1 = N /\ j \in 1..(N + 1)
  BY LineAppend
<1>2. UpstreamFor(first, more, j) = up
  BY <1>1, UpstreamAppend
<1> HIDE DEF more, j
<1>3. FiltersFor(more, j) = << >>
  <2>1. FiltersFor(more, Len(more)) = << >>
    BY <1>1, NoFilters
  <2> QED
    BY <1>1, <2>1
<1>4. e[j] = IF IsDeclared(first, more, j) THEN Append(e[j - 1], SocketAt(first, more, j)) ELSE e[j - 1]
  BY <1>1, DeclaredSteps DEF more
<1>5. IsDeclared(first, more, j) <=> t.kind = "socket" /\ up # NoUpstream
  BY <1>1, <1>2 DEF IsDeclared
<1>6. SocketAt(first, more, j) = [upstream |-> up, path |-> t.arg, filters |-> << >>]
  BY <1>1, <1>2, <1>3 DEF SocketAt
<1>7. e[j] = IF t.kind = "socket" /\ up # NoUpstream
             THEN Append(e[N], [upstream |-> up, path |-> t.arg, filters |-> << >>]) ELSE e[N]
  BY <1>1, <1>4, <1>5, <1>6
<1> QED
  BY <1>7 DEF j

(* Behind an open socket nothing is declared. *)
LEMMA OpenIsLast ==
    ASSUME NEW first \in Upstreams \cup {NoUpstream}, NEW line \in Seq(Args),
           NEW b \in 1..Len(line), Open(line, b)
    PROVE  DeclaredUpto(first, line)[Len(line)] = DeclaredUpto(first, line)[b]
<1> DEFINE N == Len(line)
           d == DeclaredUpto(first, line)
           T == {i \in Nat : b + i <= N => d[b + i] = d[b]}
<1>1. N \in Nat /\ b \in 1..N
  OBVIOUS
<1>2. \A i \in 1..N : d[i] = IF IsDeclared(first, line, i)
                             THEN Append(d[i - 1], SocketAt(first, line, i)) ELSE d[i - 1]
  BY DeclaredSteps
<1> HIDE DEF d
<1>3. 0 \in T
  BY <1>1
<1>4. ASSUME NEW i \in T PROVE i + 1 \in T
  <2>1. ASSUME b + (i + 1) <= N PROVE d[b + (i + 1)] = d[b]
    <3> DEFINE j == b + (i + 1)
    <3>1. j \in 1..N /\ j - 1 = b + i /\ j \in (b + 1)..N /\ b + i <= N
      BY <1>1, <2>1
    <3> HIDE DEF j
    <3>2. line[j].kind # "socket"
      BY <3>1 DEF Open
    <3>3. d[j] = d[j - 1]
      BY <1>2, <3>1, <3>2 DEF IsDeclared
    <3>4. d[b + i] = d[b]
      BY <3>1
    <3> QED
      BY <3>1, <3>3, <3>4 DEF j
  <2> QED
    BY <2>1
<1>5. T \subseteq Nat
  OBVIOUS
<1> HIDE DEF T
<1>6. T = Nat
  BY <1>3, <1>4, <1>5, SetInduction
<1>7. N - b \in T /\ b + (N - b) = N
  BY <1>1, <1>6
<1> QED
  BY <1>7 DEF T, d

-----------------------------------------------------------------------------
(***************************************************************************)
(* What the printers give.                                                 *)
(***************************************************************************)
LEMMA LineType ==
    ASSUME NEW path \in Paths, NEW words \in Seq(Words)
    PROVE  <<[kind |-> "socket", arg |-> path]>>
             \o [i \in 1..Len(words) |-> [kind |-> "word", arg |-> words[i]]] \in Seq(Args)
<1> DEFINE t == [kind |-> "socket", arg |-> path]
           ws == [i \in 1..Len(words) |-> [kind |-> "word", arg |-> words[i]]]
<1>1. t \in Args
  BY DEF Args
<1>2. ws \in Seq(Args)
  <2>1. ASSUME NEW i \in 1..Len(words) PROVE [kind |-> "word", arg |-> words[i]] \in Args
    <3>1. words[i] \in Words
      OBVIOUS
    <3> QED
      BY <3>1 DEF Args
  <2>2. Len(words) \in Nat
    OBVIOUS
  <2> QED
    BY <2>1, <2>2
<1> HIDE DEF t, ws
<1> QED
  BY <1>1, <1>2 DEF t, ws

LEMMA SocketArgsType ==
    ASSUME NEW e \in SocketEntry
    PROVE  SocketArgs(e) \in Seq(Args)
<1> DEFINE Line(words) == <<[kind |-> "socket", arg |-> e.path]>>
                            \o [i \in 1..Len(words) |-> [kind |-> "word", arg |-> words[i]]]
           lines == [k \in 1..Len(e.filters) |-> Line(e.filters[k])]
<1>1. e.path \in Paths /\ e.filters \in Seq(Seq(Words)) /\ Len(e.filters) \in Nat
  BY DEF SocketEntry
<1>2. \A words \in Seq(Words) : Line(words) \in Seq(Args)
  BY <1>1, LineType
<1>3. << >> \in Seq(Words) /\ \A k \in 1..Len(e.filters) : e.filters[k] \in Seq(Words)
  BY <1>1
<1>4. SocketArgs(e) = IF e.filters = << >> THEN Line(<< >>) ELSE FlattenSeq(lines)
  BY DEF SocketArgs
<1> HIDE DEF Line
<1>5. lines \in Seq(Seq(Args))
  BY <1>1, <1>2, <1>3
<1>6. FlattenSeq(lines) \in Seq(Args)
  BY <1>5, FlattenType
<1> QED
  BY <1>2, <1>3, <1>4, <1>6

LEMMA UpstreamArgsType ==
    ASSUME NEW c, NEW u \in Upstreams, IsConfig(c), NEW names \in Seq(DOMAIN c.sockets)
    PROVE  UpstreamArgs(c, u, names) \in Seq(Args)
<1> DEFINE lines == [i \in 1..Len(names) |-> SocketArgs(c.sockets[names[i]])]
           t == [kind |-> "upstream", arg |-> u]
<1>1. ASSUME NEW i \in 1..Len(names) PROVE SocketArgs(c.sockets[names[i]]) \in Seq(Args)
  <2>1. names[i] \in DOMAIN c.sockets
    OBVIOUS
  <2>2. c.sockets[names[i]] \in SocketEntry
    BY <2>1 DEF IsConfig
  <2> QED
    BY <2>2, SocketArgsType
<1>2. Len(names) \in Nat
  OBVIOUS
<1>3. lines \in Seq(Seq(Args))
  BY <1>1, <1>2
<1>4. FlattenSeq(lines) \in Seq(Args)
  BY <1>3, FlattenType
<1>5. t \in Args
  BY DEF Args
<1>6. UpstreamArgs(c, u, names) = <<t>> \o FlattenSeq(lines)
  BY DEF UpstreamArgs
<1> HIDE DEF t, lines
<1> QED
  BY <1>4, <1>5, <1>6

(* Written and read again, filters are what they were. *)
LEMMA SerializeRoundTrip ==
    ASSUME NEW filters \in Seq(Seq(Words))
    PROVE  Deserialize(Serialize(filters)) = filters
<1> DEFINE values == Serialize(filters)
<1>1. Len(filters) \in Nat /\ filters = [i \in 1..Len(filters) |-> filters[i]]
  OBVIOUS
<1>2. values = [i \in 1..Len(filters) |->
                  IF Len(filters[i]) = 1 THEN [string |-> TRUE, value |-> filters[i][1]]
                  ELSE [string |-> FALSE, value |-> filters[i]]]
  BY DEF Serialize
<1>3. Len(values) = Len(filters)
  BY <1>1, <1>2
<1>4. ASSUME NEW i \in 1..Len(filters)
      PROVE  (IF values[i].string THEN <<values[i].value>> ELSE values[i].value) = filters[i]
  <2>1. filters[i] \in Seq(Words)
    OBVIOUS
  <2>2. CASE Len(filters[i]) = 1
    <3>1. values[i] = [string |-> TRUE, value |-> filters[i][1]]
      BY <1>2, <2>2
    <3>2. filters[i] = <<filters[i][1]>>
      BY <2>1, <2>2
    <3> QED
      BY <3>1, <3>2
  <2>3. CASE Len(filters[i]) # 1
    <3>1. values[i] = [string |-> FALSE, value |-> filters[i]]
      BY <1>2, <2>3
    <3> QED
      BY <3>1
  <2> QED
    BY <2>2, <2>3
<1>5. Deserialize(values)
        = [i \in 1..Len(values) |-> IF values[i].string THEN <<values[i].value>> ELSE values[i].value]
  BY DEF Deserialize
<1> HIDE DEF values
<1>6. Deserialize(values) = [i \in 1..Len(filters) |-> filters[i]]
  BY <1>3, <1>4, <1>5
<1> QED
  BY <1>1, <1>6 DEF values

(* The enumerations of a finite set. *)
LEMMA EnumerationType ==
    ASSUME NEW S, IsFiniteSet(S), NEW s \in SetToSeqs(S)
    PROVE  s \in Seq(S) /\ Len(s) = Cardinality(S) /\ Len(s) \in Nat
<1>1. Cardinality(S) \in Nat
  BY FS_CardinalityType
<1>2. s \in [1..Cardinality(S) -> S]
  BY DEF SetToSeqs
<1> QED
  BY <1>1, <1>2

LEMMA UpstreamOfType ==
    ASSUME NEW c, IsConfig(c), c.upstream \in Upstreams, NEW n \in DOMAIN c.sockets
    PROVE  UpstreamOf(c, n) \in Upstreams
  BY DEF IsConfig, UpstreamOf, SocketEntry

(* What `config command` prints. *)
Printed(c, us, order) == FlattenSeq([i \in 1..Len(us) |-> UpstreamArgs(c, us[i], order[us[i]])])

Used(c) == {UpstreamOf(c, n) : n \in DOMAIN c.sockets}
Named(c, u) == {n \in DOMAIN c.sockets : UpstreamOf(c, n) = u}

LEMMA PrintedType ==
    ASSUME NEW c, IsConfig(c), c.upstream \in Upstreams,
           NEW us \in SetToSeqs(Used(c)), NEW order, \A u \in Used(c) : order[u] \in SetToSeqs(Named(c, u))
    PROVE  Printed(c, us, order) \in Seq(Args)
<1>1. IsFiniteSet(DOMAIN c.sockets)
  BY DEF IsConfig
<1>2. IsFiniteSet(Used(c))
  <2> DEFINE f == [n \in DOMAIN c.sockets |-> UpstreamOf(c, n)]
  <2>1. f \in Surjection(DOMAIN c.sockets, Used(c))
    BY DEF Used, Surjection
  <2> QED
    BY <1>1, <2>1, FS_Surjection
<1>3. us \in Seq(Used(c)) /\ Len(us) \in Nat
  BY <1>2, EnumerationType
<1>4. ASSUME NEW i \in 1..Len(us) PROVE UpstreamArgs(c, us[i], order[us[i]]) \in Seq(Args)
  <2>1. us[i] \in Used(c)
    BY <1>3
  <2>2. us[i] \in Upstreams
    BY <2>1, UpstreamOfType DEF Used
  <2>3. Named(c, us[i]) \subseteq DOMAIN c.sockets
    BY DEF Named
  <2>4. IsFiniteSet(Named(c, us[i]))
    BY <1>1, <2>3, FS_Subset
  <2>5. order[us[i]] \in Seq(Named(c, us[i]))
    BY <2>1, <2>4, EnumerationType
  <2>6. order[us[i]] \in Seq(DOMAIN c.sockets)
    BY <2>3, <2>5
  <2> QED
    BY <2>2, <2>6, UpstreamArgsType
<1>5. [i \in 1..Len(us) |-> UpstreamArgs(c, us[i], order[us[i]])] \in Seq(Seq(Args))
  BY <1>3, <1>4
<1> QED
  BY <1>5, FlattenType DEF Printed

-----------------------------------------------------------------------------
(***************************************************************************)
(* The types.                                                              *)
(***************************************************************************)
FullGroups == Seq({g \in UpstreamGroup : g.sockets # << >>})

LEMMA WithSpecType ==
    ASSUME TypeOK
    PROVE  WithSpec \in UpstreamGroup \cup {NoGroup}
<1>1. CASE spec = NoSpec \/ group = NoGroup
  BY <1>1 DEF TypeOK, WithSpec
<1>2. CASE spec # NoSpec /\ group # NoGroup
  <2>1. group \in UpstreamGroup /\ spec \in SocketSpec
    BY <1>2 DEF TypeOK
  <2>2. group.upstream \in Upstreams /\ group.sockets \in Seq(SocketSpec)
    BY <2>1 DEF UpstreamGroup
  <2>3. [group EXCEPT !.sockets = Append(@, spec)]
          = [upstream |-> group.upstream, sockets |-> Append(group.sockets, spec)]
    BY <2>1 DEF UpstreamGroup
  <2>4. Append(group.sockets, spec) \in Seq(SocketSpec)
    BY <2>1, <2>2
  <2> QED
    BY <1>2, <2>2, <2>3, <2>4 DEF WithSpec, UpstreamGroup
<1> QED
  BY <1>1, <1>2

LEMMA WithGroupType ==
    ASSUME TypeOK, NEW g \in UpstreamGroup \cup {NoGroup}
    PROVE  WithGroup(g) \in FullGroups
<1>1. groups \in FullGroups
  BY DEF TypeOK, FullGroups
<1>2. CASE g = NoGroup \/ g.sockets = << >>
  BY <1>1, <1>2 DEF WithGroup
<1>3. CASE g # NoGroup /\ g.sockets # << >>
  <2>1. g \in {x \in UpstreamGroup : x.sockets # << >>}
    BY <1>3
  <2>2. Append(groups, g) \in FullGroups
    BY <1>1, <2>1 DEF FullGroups
  <2> QED
    BY <1>3, <2>2 DEF WithGroup
<1> QED
  BY <1>2, <1>3

LEMMA SocketsOfType ==
    ASSUME NEW g \in UpstreamGroup
    PROVE  SocketsOf(g) \in Seq(DeclaredSocket) /\ Len(SocketsOf(g)) = Len(g.sockets)
<1>1. g.upstream \in Upstreams /\ g.sockets \in Seq(SocketSpec) /\ Len(g.sockets) \in Nat
  BY DEF UpstreamGroup
<1>2. ASSUME NEW s \in 1..Len(g.sockets)
      PROVE  [upstream |-> g.upstream, path |-> g.sockets[s].path, filters |-> g.sockets[s].filters]
               \in DeclaredSocket
  <2>1. g.sockets[s] \in SocketSpec
    BY <1>1
  <2> QED
    BY <1>1, <2>1 DEF SocketSpec, DeclaredSocket
<1> QED
  BY <1>1, <1>2 DEF SocketsOf

(* The sockets of finished groups, one behind the other. *)
Sockets(gs) == FlattenSeq([g \in 1..Len(gs) |-> SocketsOf(gs[g])])

LEMMA SocketsType ==
    ASSUME NEW gs \in FullGroups
    PROVE  /\ [g \in 1..Len(gs) |-> SocketsOf(gs[g])] \in Seq(Seq(DeclaredSocket))
           /\ Sockets(gs) \in Seq(DeclaredSocket)
<1>1. Len(gs) \in Nat /\ \A g \in 1..Len(gs) : gs[g] \in UpstreamGroup
  BY DEF FullGroups
<1>2. \A g \in 1..Len(gs) : SocketsOf(gs[g]) \in Seq(DeclaredSocket)
  BY <1>1, SocketsOfType
<1>3. [g \in 1..Len(gs) |-> SocketsOf(gs[g])] \in Seq(Seq(DeclaredSocket))
  BY <1>1, <1>2
<1> QED
  BY <1>3, FlattenType DEF Sockets

LEMMA SetEntrySets ==
    ASSUME NEW name, NEW entry \in SocketEntry, IsConfig(config), SetEntry(name, entry)
    PROVE  /\ IsConfig(config') /\ config'.upstream = config.upstream
           /\ DOMAIN config'.sockets = DOMAIN config.sockets \cup {name}
           /\ config'.sockets[name] = entry
           /\ \A n \in DOMAIN config.sockets \ {name} : config'.sockets[n] = config.sockets[n]
<1> DEFINE names == DOMAIN config.sockets \cup {name}
           table == [n \in names |-> IF n = name THEN entry ELSE config.sockets[n]]
<1>1. /\ config = [upstream |-> config.upstream, sockets |-> config.sockets]
      /\ \A n \in DOMAIN config.sockets : config.sockets[n] \in SocketEntry
      /\ IsFiniteSet(DOMAIN config.sockets)
  BY DEF IsConfig
<1>2. config' = [upstream |-> config.upstream, sockets |-> table]
  BY <1>1 DEF SetEntry
<1>3. table \in [names -> SocketEntry]
  BY <1>1
<1>4. IsFiniteSet(names)
  BY <1>1, FS_AddElement
<1>5. /\ DOMAIN table = names /\ table[name] = entry
      /\ \A n \in DOMAIN config.sockets \ {name} : table[n] = config.sockets[n]
  OBVIOUS
<1> HIDE DEF table, names
<1>6. config'.upstream = config.upstream /\ config'.sockets = table
  BY <1>2
<1>7. IsConfig(config')
  BY <1>2, <1>3, <1>4, <1>5, <1>6 DEF IsConfig
<1> QED
  BY <1>5, <1>6, <1>7 DEF names

(* A socket that has no filters adds none. *)
LEMMA AsGroupsType ==
    ASSUME NEW filters \in Seq(Words)
    PROVE  AsGroups(filters) \in Seq(Seq(Words))
  BY DEF AsGroups

(* What MergeSpec and AddSpec enter. *)
MergedEntry(name) ==
    [config.sockets[name] EXCEPT !.filters = @ \o AsGroups(Head(pending).filters)]

NewEntry ==
    [path |-> Head(pending).path,
     upstream |-> IF Head(pending).upstream = config.upstream THEN NoUpstream
                  ELSE Head(pending).upstream,
     filters |-> AsGroups(Head(pending).filters)]

LEMMA EntryTypes ==
    ASSUME TypeOK, pending # << >>
    PROVE  /\ Head(pending) \in DeclaredSocket /\ Tail(pending) \in Seq(DeclaredSocket)
           /\ NewEntry \in SocketEntry
           /\ \A name \in DOMAIN config.sockets :
                 /\ MergedEntry(name) \in SocketEntry
                 /\ MergedEntry(name) =
                       [path |-> config.sockets[name].path,
                        upstream |-> config.sockets[name].upstream,
                        filters |-> config.sockets[name].filters \o AsGroups(Head(pending).filters)]
<1>1. Head(pending) \in DeclaredSocket /\ Tail(pending) \in Seq(DeclaredSocket)
  <2>1. pending \in Seq(DeclaredSocket)
    BY DEF TypeOK, DeclaredSocket
  <2> QED
    BY <2>1
<1>2. /\ Head(pending).path \in Paths /\ Head(pending).upstream \in Upstreams
      /\ Head(pending).filters \in Seq(Words)
  BY <1>1 DEF DeclaredSocket
<1>3. AsGroups(Head(pending).filters) \in Seq(Seq(Words))
  BY <1>2, AsGroupsType
<1>4. NewEntry \in SocketEntry
  BY <1>2, <1>3 DEF NewEntry, SocketEntry
<1>5. ASSUME NEW name \in DOMAIN config.sockets
      PROVE  /\ MergedEntry(name) \in SocketEntry
             /\ MergedEntry(name) =
                   [path |-> config.sockets[name].path,
                    upstream |-> config.sockets[name].upstream,
                    filters |-> config.sockets[name].filters \o AsGroups(Head(pending).filters)]
  <2> DEFINE e == config.sockets[name]
  <2>1. e \in SocketEntry
    BY DEF TypeOK, IsConfig
  <2>2. e.filters \o AsGroups(Head(pending).filters) \in Seq(Seq(Words))
    <3>1. e.filters \in Seq(Seq(Words))
      BY <2>1 DEF SocketEntry
    <3> QED
      BY <1>3, <3>1, ConcatParts
  <2>3. MergedEntry(name) = [e EXCEPT !.filters = @ \o AsGroups(Head(pending).filters)]
    BY DEF MergedEntry
  <2> HIDE DEF e
  <2>4. MergedEntry(name) = [path |-> e.path, upstream |-> e.upstream,
                             filters |-> e.filters \o AsGroups(Head(pending).filters)]
    BY <2>1, <2>3 DEF SocketEntry
  <2>5. MergedEntry(name) \in SocketEntry
    BY <2>1, <2>2, <2>4 DEF SocketEntry
  <2> QED
    BY <2>4, <2>5 DEF e
<1> QED
  BY <1>1, <1>4, <1>5

LEMMA PrintConfigKeeps ==
    ASSUME TypeOK, PrintConfig
    PROVE  config' = config /\ before' = config
<1>1. IsConfig(config)
  BY DEF TypeOK
<1>2. CASE groups = << >>
  BY <1>2 DEF PrintConfig
<1>3. CASE groups # << >>
  <2> DEFINE table == [n \in DOMAIN config.sockets |-> Reread(config.sockets[n])]
  <2>1. config = [upstream |-> config.upstream, sockets |-> config.sockets]
    BY <1>1 DEF IsConfig
  <2>2. ASSUME NEW n \in DOMAIN config.sockets
        PROVE  Reread(config.sockets[n]) = config.sockets[n]
    <3> DEFINE e == config.sockets[n]
    <3>1. e \in SocketEntry
      BY <1>1 DEF IsConfig
    <3> HIDE DEF e
    <3>2. e.filters \in Seq(Seq(Words))
      BY <3>1 DEF SocketEntry
    <3>3. Deserialize(Serialize(e.filters)) = e.filters
      BY <3>2, SerializeRoundTrip
    <3>4. Reread(e) = e
      BY <3>1, <3>3 DEF SocketEntry, Reread
    <3> QED
      BY <3>4 DEF e
  <2>3. table = [n \in DOMAIN config.sockets |-> config.sockets[n]]
    BY <2>2
  <2>4. config.sockets = [n \in DOMAIN config.sockets |-> config.sockets[n]]
    BY <1>1 DEF IsConfig
  <2>5. config' = [config EXCEPT !.sockets = table]
    BY <1>3 DEF PrintConfig
  <2> HIDE DEF table
  <2>6. config' = config
    BY <2>1, <2>3, <2>4, <2>5
  <2> QED
    BY <2>6 DEF PrintConfig
<1> QED
  BY <1>2, <1>3

LEMMA NoConfigType == IsConfig(NoConfig) /\ NoConfig.upstream = NoUpstream
<1>1. DOMAIN << >> = {} /\ << >> \in [{} -> SocketEntry]
  OBVIOUS
<1>2. NoConfig.sockets = << >> /\ NoConfig.upstream = NoUpstream
  BY DEF NoConfig
<1>3. IsFiniteSet({})
  BY FS_EmptySet
<1>4. NoConfig = [upstream |-> NoConfig.upstream, sockets |-> NoConfig.sockets]
  BY <1>2 DEF NoConfig
<1> QED
  BY <1>1, <1>2, <1>3, <1>4 DEF IsConfig

LEMMA TypeInit == Init => TypeOK
<1> SUFFICES ASSUME Init PROVE TypeOK
  OBVIOUS
<1>1. << >> \in Seq({g \in UpstreamGroup : g.sockets # << >>})
  OBVIOUS
<1> QED
  BY <1>1, NoConfigType DEF Init, TypeOK

LEMMA NextArgType ==
    ASSUME TypeOK, NEW t \in Args, NextArg(t)
    PROVE  /\ args' = Append(args, t) /\ args' \in Seq(Args) /\ input' \in Seq(Args)
           /\ phase = "parse" /\ UNCHANGED <<phase, round, env, pending, config, before>>
<1>1. args \in Seq(Args) /\ input \in Seq(Args)
  BY DEF TypeOK
<1>2. input # << >> => Tail(input) \in Seq(Args)
  BY <1>1
<1> QED
  BY <1>1, <1>2 DEF NextArg

(***************************************************************************)
(* The types hold at every step.                                           *)
(***************************************************************************)
LEMMA TypeStep == TypeOK /\ [Next]_vars => TypeOK'
<1> SUFFICES ASSUME TypeOK, [Next]_vars PROVE TypeOK'
  OBVIOUS
<1>1. /\ IsConfig(config) /\ IsConfig(before)
      /\ config.upstream \in Upstreams \cup {NoUpstream}
      /\ before.upstream \in Upstreams \cup {NoUpstream}
      /\ groups \in FullGroups /\ env \in Upstreams \cup {NoUpstream}
      /\ input \in Seq(Args) /\ args \in Seq(Args) /\ round \in {1, 2}
      /\ group \in UpstreamGroup \cup {NoGroup} /\ spec \in SocketSpec \cup {NoSpec}
      /\ pending \in Seq(DeclaredSocket)
  BY DEF TypeOK, FullGroups, DeclaredSocket
<1>2. WithSpec \in UpstreamGroup \cup {NoGroup} /\ WithGroup(WithSpec) \in FullGroups
  BY WithSpecType, WithGroupType
<1>3. ASSUME NEW u \in Upstreams PROVE NewGroup(u) \in UpstreamGroup
  BY DEF NewGroup, UpstreamGroup
<1>4. ASSUME NEW t \in Args, TakeUpstream(t) PROVE TypeOK'
  <2>1. t.arg \in Upstreams
    BY <1>4, ArgType DEF TakeUpstream
  <2>2. groups' \in FullGroups /\ group' \in UpstreamGroup /\ spec' = NoSpec
    BY <1>2, <1>3, <1>4, <2>1 DEF TakeUpstream
  <2>3. NextArg(t)
    BY <1>4 DEF TakeUpstream
  <2> QED
    BY <2>2, <2>3, NextArgType DEF TypeOK, FullGroups
<1>5. ASSUME NEW t \in Args, TakeSocket(t) PROVE TypeOK'
  <2>1. t.arg \in Paths
    BY <1>5, ArgType DEF TakeSocket
  <2>2. spec' \in SocketSpec
    BY <1>5, <2>1 DEF TakeSocket, SocketSpec
  <2>3. group' \in UpstreamGroup \cup {NoGroup}
    BY <1>1, <1>2, <1>3, <1>5 DEF TakeSocket
  <2>4. NextArg(t) /\ groups' = groups
    BY <1>5 DEF TakeSocket
  <2> QED
    BY <2>2, <2>3, <2>4, NextArgType DEF TypeOK
<1>6. ASSUME NEW t \in Args, TakeWord(t) PROVE TypeOK'
  <2>1. t.arg \in Words
    BY <1>6, ArgType DEF TakeWord
  <2>2. spec \in SocketSpec
    BY <1>1, <1>6 DEF TakeWord
  <2>3. spec' = [path |-> spec.path, filters |-> Append(spec.filters, t.arg)]
    BY <1>6, <2>2 DEF TakeWord, SocketSpec
  <2>4. spec.path \in Paths /\ spec.filters \in Seq(Words)
    BY <2>2 DEF SocketSpec
  <2>5. Append(spec.filters, t.arg) \in Seq(Words)
    BY <2>1, <2>4
  <2>6. spec' \in SocketSpec
    BY <2>3, <2>4, <2>5 DEF SocketSpec
  <2>7. NextArg(t) /\ UNCHANGED <<group, groups>>
    BY <1>6 DEF TakeWord
  <2> QED
    BY <2>6, <2>7, NextArgType DEF TypeOK
<1>7. ASSUME NEW t \in Args, SkipArg(t) PROVE TypeOK'
  BY <1>7, NextArgType DEF SkipArg, TypeOK, parserVars
<1>8. CASE EndOfArgs
  <2>1. groups' \in FullGroups /\ groups' # << >>
    BY <1>2, <1>8 DEF EndOfArgs
  <2>2. groups'[1].upstream \in Upstreams
    <3>1. 1 \in 1..Len(groups')
      BY <2>1 DEF FullGroups
    <3>2. groups'[1] \in UpstreamGroup
      BY <2>1, <3>1 DEF FullGroups
    <3> QED
      BY <3>2 DEF UpstreamGroup
  <2>3. config' = [NoConfig EXCEPT !.upstream = groups'[1].upstream]
    BY <1>8 DEF EndOfArgs, NoConfig
  <2>4. config'.upstream = groups'[1].upstream /\ IsConfig(config')
    BY <2>3, NoConfigType DEF IsConfig, NoConfig
  <2>5. pending' \in Seq(DeclaredSocket)
    <3>1. pending' = Sockets(groups')
      BY <1>8 DEF EndOfArgs, Sockets
    <3> QED
      BY <2>1, <3>1, SocketsType
  <2>6. /\ group' = NoGroup /\ spec' = NoSpec /\ phase' = "load"
        /\ UNCHANGED <<round, env, args, input, before>>
    BY <1>8 DEF EndOfArgs
  <2> QED
    BY <1>1, <2>1, <2>2, <2>4, <2>5, <2>6 DEF TypeOK, FullGroups, DeclaredSocket
<1>9. ASSUME NextSpec, IsConfig(config'), config'.upstream = config.upstream PROVE TypeOK'
  <2>1. pending' \in Seq(DeclaredSocket) /\ phase' = "load" /\ config.upstream \in Upstreams
    BY <1>9, EntryTypes DEF NextSpec, TypeOK
  <2>2. UNCHANGED <<round, env, args, input, group, spec, groups, before>>
    BY <1>9 DEF NextSpec
  <2> QED
    BY <1>1, <1>9, <2>1, <2>2 DEF TypeOK, DeclaredSocket, FullGroups
<1>10. CASE MergeSpec
  <2>1. PICK name \in EntriesAt(Head(pending).path) : SetEntry(name, MergedEntry(name))
    BY <1>10 DEF MergeSpec, MergedEntry
  <2>2. NextSpec /\ pending # << >>
    BY <1>10 DEF MergeSpec, NextSpec
  <2>3. MergedEntry(name) \in SocketEntry
    BY <2>2, EntryTypes DEF EntriesAt
  <2>4. IsConfig(config') /\ config'.upstream = config.upstream
    BY <1>1, <2>1, <2>3, SetEntrySets
  <2> QED
    BY <1>9, <2>2, <2>4
<1>11. CASE AddSpec
  <2> DEFINE name == FreshName(Stem[Head(pending).path])
  <2>1. NextSpec /\ pending # << >> /\ SetEntry(name, NewEntry)
    BY <1>11 DEF AddSpec, NextSpec, NewEntry
  <2> HIDE DEF name
  <2>2. NewEntry \in SocketEntry
    BY <2>1, EntryTypes
  <2>3. IsConfig(config') /\ config'.upstream = config.upstream
    BY <1>1, <2>1, <2>2, SetEntrySets
  <2> QED
    BY <1>9, <2>1, <2>3
<1>12. CASE Loaded
  BY <1>12 DEF Loaded, TypeOK
<1>13. CASE LoadFile
  <2>1. config' \in FileConfigs
    BY <1>13 DEF LoadFile
  <2>2. IsConfig(config') /\ config'.upstream \in Upstreams
    BY <2>1, CommandLineAssumption
  <2>3. /\ phase' = "loaded" /\ args' = << >> /\ group' = NoGroup /\ spec' = NoSpec
        /\ UNCHANGED <<round, env, input, groups, pending, before>>
    BY <1>13 DEF LoadFile
  <2>4. << >> \in Seq(Args)
    OBVIOUS
  <2> QED
    BY <1>1, <2>2, <2>3, <2>4 DEF TypeOK, FullGroups, DeclaredSocket
<1>14. CASE PrintConfig
  <2>1. config' = config /\ before' = config
    BY <1>14, PrintConfigKeeps
  <2>2. /\ phase = "loaded" /\ phase' = "saved"
        /\ UNCHANGED <<round, env, args, input, group, spec, groups, pending>>
    BY <1>14 DEF PrintConfig
  <2> QED
    BY <1>1, <2>1, <2>2 DEF TypeOK, FullGroups, DeclaredSocket
<1>15. CASE ConfigCommand
  <2>1. PICK us, order :
           /\ us \in SetToSeqs(Used(config))
           /\ \A u \in Used(config) : order[u] \in SetToSeqs(Named(config, u))
           /\ input' = Printed(config, us, order)
    BY <1>15 DEF ConfigCommand, Used, Named, Printed
  <2>2. config.upstream \in Upstreams
    BY <1>15 DEF ConfigCommand, TypeOK
  <2>3. input' \in Seq(Args)
    BY <1>1, <2>1, <2>2, PrintedType
  <2>4. /\ group' = NoGroup /\ spec' = NoSpec /\ groups' = << >> /\ pending' = << >>
        /\ config' = NoConfig /\ args' = << >> /\ phase' = "parse" /\ round' = 2
        /\ UNCHANGED <<env, before>>
    BY <1>15 DEF ConfigCommand, ParserStart
  <2>5. << >> \in FullGroups /\ << >> \in Seq(DeclaredSocket) /\ << >> \in Seq(Args)
    BY DEF FullGroups
  <2> QED
    BY <1>1, <2>3, <2>4, <2>5, NoConfigType DEF TypeOK, FullGroups, DeclaredSocket
<1>16. CASE UNCHANGED vars
  BY <1>16 DEF vars, TypeOK
<1> QED
  BY <1>4, <1>5, <1>6, <1>7, <1>8, <1>10, <1>11, <1>12, <1>13, <1>14, <1>15, <1>16 DEF Next

(***************************************************************************)
(* Every variable keeps its type; in particular a configuration that is    *)
(* loaded or saved has a default upstream.                                 *)
(***************************************************************************)
THEOREM TypeCorrect == Spec => []TypeOK
<1> QED
  BY TypeInit, TypeStep, PTL DEF Spec

-----------------------------------------------------------------------------
(***************************************************************************)
(* Reading the arguments: what the groups hold is what has been declared   *)
(* so far, and a socket that is being read is the last of the line.        *)
(***************************************************************************)
InGroup(g) == IF g = NoGroup THEN << >> ELSE SocketsOf(g)

Listed == Sockets(groups) \o InGroup(group)

IsBeingRead(b) ==
    /\ args[b].kind = "socket" /\ args[b].arg = spec.path /\ Open(args, b)
    /\ DeclaredUpto(env, args)[b - 1] = Listed
    /\ FiltersFor(args, b) = spec.filters

ReadInv ==
    phase = "parse" =>
        /\ UpstreamFor(env, args, Len(args) + 1) = IF group = NoGroup THEN env ELSE group.upstream
        /\ group = NoGroup => groups = << >> /\ (env # NoUpstream => spec = NoSpec)
        /\ spec = NoSpec =>
              /\ Declared(env, args) = Listed
              /\ \A b \in 1..Len(args) : args[b].kind = "socket" => ~Open(args, b)
        /\ spec # NoSpec => \E b \in 1..Len(args) : IsBeingRead(b)

LEMMA SocketsAssociate ==
    ASSUME NEW s \in Seq(DeclaredSocket), NEW t \in Seq(DeclaredSocket), NEW u \in Seq(DeclaredSocket)
    PROVE  (s \o t) \o u = s \o (t \o u)
  BY ConcatAssociates

LEMMA InGroupType ==
    ASSUME NEW g \in UpstreamGroup \cup {NoGroup}
    PROVE  InGroup(g) \in Seq(DeclaredSocket)
<1>1. << >> \in Seq(DeclaredSocket)
  OBVIOUS
<1> QED
  BY <1>1, SocketsOfType DEF InGroup

LEMMA SocketsOfNothing == Sockets(<< >>) = << >>
<1>1. [g \in 1..Len(<< >>) |-> SocketsOf(<< >>[g])] = << >>
  OBVIOUS
<1> QED
  BY <1>1, FlattenNothing DEF Sockets

LEMMA WithGroupSockets ==
    ASSUME TypeOK, NEW g \in UpstreamGroup \cup {NoGroup}
    PROVE  Sockets(WithGroup(g)) = Sockets(groups) \o InGroup(g)
<1>1. groups \in FullGroups /\ Len(groups) \in Nat
  BY DEF TypeOK, FullGroups
<1>2. Sockets(groups) \in Seq(DeclaredSocket)
  BY <1>1, SocketsType
<1>3. CASE g = NoGroup
  BY <1>2, <1>3 DEF WithGroup, InGroup
<1>4. CASE g # NoGroup /\ g.sockets = << >>
  <2>1. SocketsOf(g) = << >>
    BY <1>4 DEF SocketsOf
  <2> QED
    BY <1>2, <1>4, <2>1 DEF WithGroup, InGroup
<1>5. CASE g # NoGroup /\ g.sockets # << >>
  <2> DEFINE more == WithGroup(g)
             parts == [i \in 1..Len(groups) |-> SocketsOf(groups[i])]
             all == [i \in 1..Len(more) |-> SocketsOf(more[i])]
  <2>1. more \in FullGroups
    BY WithGroupType
  <2>2. more = Append(groups, g)
    BY <1>5 DEF WithGroup
  <2>3. /\ Len(more) = Len(groups) + 1 /\ more[Len(groups) + 1] = g
        /\ \A i \in 1..Len(groups) : more[i] = groups[i]
    BY <1>1, <2>2 DEF FullGroups
  <2>4. parts \in Seq(Seq(DeclaredSocket)) /\ all \in Seq(Seq(DeclaredSocket))
    BY <1>1, <2>1, SocketsType
  <2> HIDE DEF more
  <2>5. /\ Len(parts) = Len(groups) /\ Len(all) = Len(parts) + 1
        /\ \A i \in 1..Len(parts) : all[i] = parts[i]
        /\ all[Len(parts) + 1] = SocketsOf(g)
    BY <1>1, <2>3
  <2>6. Sockets(more) = FlattenSeq(all) /\ Sockets(groups) = FlattenSeq(parts)
    BY DEF Sockets
  <2> HIDE DEF all, parts
  <2>7. FlattenSeq(all) = FlattenSeq(parts) \o SocketsOf(g)
    BY <2>4, <2>5, FlattenOneMore
  <2> QED
    BY <1>5, <2>6, <2>7 DEF InGroup, more
<1> QED
  BY <1>3, <1>4, <1>5

LEMMA WithSpecSockets ==
    ASSUME TypeOK, spec # NoSpec, group # NoGroup
    PROVE  InGroup(WithSpec)
             = InGroup(group) \o <<[upstream |-> group.upstream, path |-> spec.path,
                                    filters |-> spec.filters]>>
<1>1. group \in UpstreamGroup /\ spec \in SocketSpec
  BY DEF TypeOK
<1> DEFINE g == WithSpec
           n == Len(group.sockets)
           x == [upstream |-> group.upstream, path |-> spec.path, filters |-> spec.filters]
<1>2. n \in Nat /\ group.sockets \in Seq(SocketSpec)
  BY <1>1 DEF UpstreamGroup
<1>3. g = [upstream |-> group.upstream, sockets |-> Append(group.sockets, spec)]
  BY <1>1 DEF WithSpec, UpstreamGroup
<1>4. /\ g.upstream = group.upstream /\ Len(g.sockets) = n + 1 /\ g.sockets[n + 1] = spec
      /\ \A i \in 1..n : g.sockets[i] = group.sockets[i]
  BY <1>1, <1>2, <1>3
<1>5. g \in UpstreamGroup /\ g # NoGroup
  <2>1. g \in UpstreamGroup
    BY <1>1, <1>2, <1>3 DEF UpstreamGroup
  <2> QED
    BY <2>1, CommandLineAssumption
<1> HIDE DEF g
<1>6. SocketsOf(g) \in Seq(DeclaredSocket) /\ SocketsOf(group) \in Seq(DeclaredSocket)
  BY <1>1, <1>5, SocketsOfType
<1>7. Len(SocketsOf(g)) = n + 1 /\ Len(SocketsOf(group)) = n
  BY <1>1, <1>4, <1>5, SocketsOfType
<1>8. x \in DeclaredSocket
  BY <1>1 DEF SocketSpec, UpstreamGroup, DeclaredSocket
<1>9. ASSUME NEW i \in 1..(n + 1) PROVE SocketsOf(g)[i] = Append(SocketsOf(group), x)[i]
  <2>1. SocketsOf(g)[i] = [upstream |-> g.upstream, path |-> g.sockets[i].path,
                           filters |-> g.sockets[i].filters]
    BY <1>4 DEF SocketsOf
  <2>2. CASE i = n + 1
    <3>1. SocketsOf(g)[i] = x
      BY <1>4, <2>1, <2>2
    <3>2. Append(SocketsOf(group), x)[i] = x
      BY <1>2, <1>6, <1>7, <2>2
    <3> QED
      BY <3>1, <3>2
  <2>3. CASE i # n + 1
    <3>1. i \in 1..n
      BY <1>2, <2>3
    <3>2. SocketsOf(group)[i] = [upstream |-> group.upstream, path |-> group.sockets[i].path,
                                 filters |-> group.sockets[i].filters]
      BY <3>1 DEF SocketsOf
    <3>3. Append(SocketsOf(group), x)[i] = SocketsOf(group)[i]
      BY <1>2, <1>6, <1>7, <3>1
    <3> QED
      BY <1>4, <2>1, <3>1, <3>2, <3>3
  <2> QED
    BY <2>2, <2>3
<1> HIDE DEF x
<1>10. Append(SocketsOf(group), x) \in Seq(DeclaredSocket) /\ Len(Append(SocketsOf(group), x)) = n + 1
  BY <1>2, <1>6, <1>7, <1>8
<1>11. SocketsOf(g) = Append(SocketsOf(group), x)
  BY <1>6, <1>7, <1>9, <1>10, SameElements
<1>12. Append(SocketsOf(group), x) = SocketsOf(group) \o <<x>>
  BY <1>6, <1>8
<1> QED
  BY <1>5, <1>11, <1>12 DEF InGroup, g, x

(***************************************************************************)
(* Whatever has been read, to finish it gives what the line declares.      *)
(***************************************************************************)
LEMMA FinishedAreDeclared ==
    ASSUME TypeOK, ReadInv, phase = "parse"
    PROVE  Sockets(WithGroup(WithSpec)) = Declared(env, args)
<1> DEFINE N == Len(args)
           d == DeclaredUpto(env, args)
<1>1. /\ args \in Seq(Args) /\ N \in Nat /\ env \in Upstreams \cup {NoUpstream}
      /\ group \in UpstreamGroup \cup {NoGroup} /\ groups \in FullGroups
  BY DEF TypeOK, FullGroups
<1>2. Sockets(WithGroup(WithSpec)) = Sockets(groups) \o InGroup(WithSpec)
  BY WithSpecType, WithGroupSockets
<1>3. Declared(env, args) = d[N]
  BY DEF Declared
<1>4. CASE spec = NoSpec
  BY <1>2, <1>4 DEF ReadInv, WithSpec, Listed
<1>5. CASE spec # NoSpec
  <2>1. PICK b \in 1..N : IsBeingRead(b)
    BY <1>5 DEF ReadInv
  <2>2. b \in Nat /\ Open(args, b) /\ d[b - 1] = Listed /\ args[b].kind = "socket"
    BY <1>1, <2>1 DEF IsBeingRead
  <2>3. d[N] = d[b]
    BY <1>1, <2>2, OpenIsLast
  <2>4. UpstreamFor(env, args, b) = UpstreamFor(env, args, N + 1)
    <3>1. \A k \in b..N : args[k].kind # "upstream"
      <4>1. ASSUME NEW k \in b..N PROVE args[k].kind # "upstream"
        <5>1. k = b \/ k \in (b + 1)..N
          BY <1>1, <2>2
        <5> QED
          BY <2>2, <5>1 DEF Open
      <4> QED
        BY <4>1
    <3> QED
      BY <1>1, <3>1, UpstreamStays
  <2>5. d[b] = IF IsDeclared(env, args, b) THEN Append(d[b - 1], SocketAt(env, args, b)) ELSE d[b - 1]
    BY <1>1, DeclaredSteps
  <2> HIDE DEF d
  <2>6. CASE group = NoGroup
    <3>1. UpstreamFor(env, args, b) = NoUpstream
      BY <1>5, <2>4, <2>6 DEF ReadInv
    <3>2. d[N] = Listed
      BY <2>2, <2>3, <2>5, <3>1 DEF IsDeclared
    <3>3. WithSpec = group
      BY <2>6 DEF WithSpec
    <3> QED
      BY <1>2, <1>3, <3>2, <3>3 DEF Listed
  <2>7. CASE group # NoGroup
    <3> DEFINE x == [upstream |-> group.upstream, path |-> spec.path, filters |-> spec.filters]
    <3>1. UpstreamFor(env, args, b) = group.upstream
      BY <2>4, <2>7 DEF ReadInv
    <3>2. group.upstream \in Upstreams
      BY <1>1, <2>7 DEF UpstreamGroup
    <3>3. IsDeclared(env, args, b)
      BY <2>2, <3>1, <3>2, CommandLineAssumption DEF IsDeclared
    <3>4. SocketAt(env, args, b) = x
      BY <2>1, <3>1 DEF SocketAt, IsBeingRead
    <3>5. x \in DeclaredSocket
      BY <1>1, <3>3, <3>4, SocketAtType
    <3>6. InGroup(WithSpec) = InGroup(group) \o <<x>>
      BY <1>5, <2>7, WithSpecSockets
    <3> HIDE DEF x
    <3>7. d[N] = Append(Listed, x)
      BY <2>2, <2>3, <2>5, <3>3, <3>4
    <3>8. /\ Sockets(groups) \in Seq(DeclaredSocket) /\ InGroup(group) \in Seq(DeclaredSocket)
          /\ <<x>> \in Seq(DeclaredSocket)
      BY <1>1, <3>5, SocketsType, InGroupType
    <3>9. Listed \in Seq(DeclaredSocket)
      BY <3>8, ConcatParts DEF Listed
    <3>10. Append(Listed, x) = Listed \o <<x>>
      BY <3>5, <3>9
    <3>11. Listed \o <<x>> = Sockets(groups) \o (InGroup(group) \o <<x>>)
      BY <3>8, SocketsAssociate, Zenon DEF Listed
    <3> QED
      BY <1>2, <1>3, <3>6, <3>7, <3>10, <3>11
  <2> QED
    BY <2>6, <2>7
<1> QED
  BY <1>4, <1>5

LEMMA OpenAppend ==
    ASSUME NEW line \in Seq(Args), NEW t \in Args
    PROVE  /\ \A b \in 1..Len(line) :
                 Open(Append(line, t), b) <=> Open(line, b) /\ t.kind \notin {"upstream", "socket"}
           /\ Open(Append(line, t), Len(line) + 1)
<1> DEFINE N == Len(line)
           more == Append(line, t)
<1>1. /\ N \in Nat /\ Len(more) = N + 1 /\ more[N + 1] = t
      /\ \A i \in 1..N : more[i] = line[i]
  BY LineAppend
<1> HIDE DEF more
<1>2. ASSUME NEW b \in 1..N
      PROVE  Open(more, b) <=> Open(line, b) /\ t.kind \notin {"upstream", "socket"}
  <2>1. \A k \in (b + 1)..(N + 1) : k \in (b + 1)..N \/ k = N + 1
    BY <1>1
  <2>2. N + 1 \in (b + 1)..(N + 1) /\ \A k \in (b + 1)..N : k \in 1..N /\ k \in (b + 1)..(N + 1)
    BY <1>1
  <2> QED
    BY <1>1, <2>1, <2>2 DEF Open
<1>3. Open(more, N + 1)
  BY <1>1 DEF Open
<1> QED
  BY <1>2, <1>3 DEF more

(* What one argument more changes in what is declared. *)
LEMMA TakenNext ==
    ASSUME TypeOK, NEW t \in Args, NEW line, line = Append(args, t),
           t.kind # "word" \/ \A b \in 1..Len(args) : args[b].kind = "socket" => ~Open(args, b)
    PROVE  /\ DeclaredUpto(env, line)[Len(args)] = Declared(env, args)
           /\ t.kind # "socket" => Declared(env, line) = Declared(env, args)
<1> DEFINE N == Len(args)
           up == UpstreamFor(env, args, N + 1)
           e == DeclaredUpto(env, Append(args, t))
<1>1. args \in Seq(Args) /\ env \in Upstreams \cup {NoUpstream} /\ N \in Nat /\ N \in 0..N
  BY DEF TypeOK
<1>2. \A i \in 0..N : DeclaredUpto(env, Append(args, t))[i] = DeclaredUpto(env, args)[i]
  <2>1. \A i \in 1..N : args[i].kind = "socket" => t.kind # "word" \/ ~Open(args, i)
    OBVIOUS
  <2> QED
    BY <1>1, <2>1, DeclaredFrame
<1>3. e[N] = Declared(env, args)
  BY <1>1, <1>2 DEF Declared
<1>4. e[N + 1] = IF t.kind = "socket" /\ up # NoUpstream
                 THEN Append(e[N], [upstream |-> up, path |-> t.arg, filters |-> << >>])
                 ELSE e[N]
  <2> HIDE DEF e, up
  <2>1. up = UpstreamFor(env, args, N + 1) /\ e = DeclaredUpto(env, Append(args, t))
    BY DEF e, up
  <2> QED
    BY <1>1, <2>1, DeclaredNext
<1>5. Len(line) = N + 1
  BY <1>1
<1>6. Declared(env, line) = e[N + 1]
  BY <1>5 DEF Declared
<1> QED
  BY <1>3, <1>4, <1>6

LEMMA ReadUpstream ==
    ASSUME TypeOK, ReadInv, NEW t \in Args, TakeUpstream(t)
    PROVE  ReadInv'
<1> DEFINE N == Len(args)
<1>1. /\ args' = Append(args, t) /\ args' \in Seq(Args) /\ phase = "parse" /\ phase' = phase
      /\ env' = env
  BY NextArgType DEF TakeUpstream
<1>2. /\ t.kind = "upstream" /\ groups' = WithGroup(WithSpec) /\ group' = NewGroup(t.arg)
      /\ spec' = NoSpec
  BY DEF TakeUpstream
<1>3. args \in Seq(Args) /\ N \in Nat /\ Len(args') = N + 1 /\ t.arg \in Upstreams
  BY <1>1, <1>2, ArgType, LineAppend DEF TypeOK
<1>4. UpstreamFor(env, args', N + 2) = t.arg
  BY <1>1, <1>2, <1>3, UpstreamAppend
<1>5. group' # NoGroup /\ group'.upstream = t.arg /\ InGroup(group') = << >>
  <2>1. NewGroup(t.arg) \in UpstreamGroup
    BY <1>3 DEF NewGroup, UpstreamGroup
  <2>2. group' # NoGroup
    BY <1>2, <2>1, CommandLineAssumption
  <2>3. group'.sockets = << >> /\ group'.upstream = t.arg
    BY <1>2 DEF NewGroup
  <2>4. SocketsOf(group') = << >>
    BY <2>3 DEF SocketsOf
  <2> QED
    BY <2>2, <2>3, <2>4 DEF InGroup
<1>6. Listed' = Sockets(groups')
  <2>1. Sockets(groups') \in Seq(DeclaredSocket)
    BY <1>2, WithSpecType, WithGroupType, SocketsType
  <2>2. Sockets(groups') \o << >> = Sockets(groups')
    BY <2>1
  <2> QED
    BY <1>5, <2>2 DEF Listed
<1>7. Declared(env, args') = Listed'
  <2>1. Declared(env, args') = Declared(env, args)
    BY <1>1, <1>2, TakenNext
  <2> QED
    BY <1>1, <1>2, <1>6, <2>1, FinishedAreDeclared
<1>8. ASSUME NEW b \in 1..(N + 1), args'[b].kind = "socket" PROVE ~Open(args', b)
  <2>1. b # N + 1
    BY <1>1, <1>2, <1>3, <1>8, LineAppend
  <2>2. b \in 1..N
    BY <1>3, <2>1
  <2> QED
    BY <1>1, <1>2, <1>3, <2>2, OpenAppend
<1>9. Len(args') + 1 = N + 2
  BY <1>3
<1> QED
  BY <1>1, <1>2, <1>3, <1>4, <1>5, <1>7, <1>8, <1>9 DEF ReadInv

LEMMA ReadSocket ==
    ASSUME TypeOK, ReadInv, NEW t \in Args, TakeSocket(t)
    PROVE  ReadInv'
<1> DEFINE N == Len(args)
<1>1. /\ args' = Append(args, t) /\ args' \in Seq(Args) /\ phase = "parse" /\ phase' = phase
      /\ env' = env
  BY NextArgType DEF TakeSocket
<1>2. /\ t.kind = "socket" /\ groups' = groups
      /\ group' = IF group = NoGroup /\ env # NoUpstream THEN NewGroup(env) ELSE WithSpec
      /\ spec' = [path |-> t.arg, filters |-> << >>]
  BY DEF TakeSocket
<1>3. /\ args \in Seq(Args) /\ N \in Nat /\ Len(args') = N + 1 /\ t.arg \in Paths
      /\ args'[N + 1] = t /\ groups \in FullGroups /\ group \in UpstreamGroup \cup {NoGroup}
      /\ env \in Upstreams \cup {NoUpstream}
  BY <1>1, <1>2, ArgType, LineAppend DEF TypeOK, FullGroups
<1>4. spec' # NoSpec /\ spec'.path = t.arg /\ spec'.filters = << >>
  <2>1. [path |-> t.arg, filters |-> << >>] \in SocketSpec
    BY <1>3 DEF SocketSpec
  <2> QED
    BY <1>2, <2>1, CommandLineAssumption
<1>5. UpstreamFor(env, args', N + 2) = UpstreamFor(env, args, N + 1)
  BY <1>1, <1>2, <1>3, UpstreamAppend
<1>6. /\ UpstreamFor(env, args, N + 1) = IF group = NoGroup THEN env ELSE group.upstream
      /\ group = NoGroup => groups = << >> /\ (env # NoUpstream => spec = NoSpec)
  BY <1>1 DEF ReadInv
<1>7. /\ UpstreamFor(env, args', N + 2) = IF group' = NoGroup THEN env ELSE group'.upstream
      /\ group' = NoGroup => groups' = << >> /\ env = NoUpstream
      /\ Declared(env, args) = Listed'
  <2>1. CASE group = NoGroup /\ env # NoUpstream
    <3>1. NewGroup(env) \in UpstreamGroup /\ NewGroup(env).upstream = env /\ NewGroup(env).sockets = << >>
      BY <1>3, <2>1 DEF NewGroup, UpstreamGroup
    <3>2. NewGroup(env) # NoGroup /\ group' = NewGroup(env)
      BY <1>2, <2>1, <3>1, CommandLineAssumption
    <3>3. InGroup(NewGroup(env)) = << >>
      BY <3>1, <3>2 DEF InGroup, SocketsOf
    <3>4. Listed' = Listed
      BY <1>2, <2>1, <3>2, <3>3 DEF Listed, InGroup
    <3>5. Declared(env, args) = Listed
      BY <1>1, <1>6, <2>1 DEF ReadInv
    <3> QED
      BY <1>5, <1>6, <2>1, <3>1, <3>2, <3>4, <3>5
  <2>2. CASE ~(group = NoGroup /\ env # NoUpstream)
    <3>1. group' = WithSpec
      BY <1>2, <2>2
    <3>2. Declared(env, args) = Sockets(WithGroup(WithSpec))
      BY <1>1, FinishedAreDeclared
    <3>3. Sockets(WithGroup(WithSpec)) = Sockets(groups) \o InGroup(WithSpec)
      BY WithSpecType, WithGroupSockets
    <3>4. Listed' = Sockets(groups) \o InGroup(WithSpec)
      BY <1>2, <3>1 DEF Listed
    <3>5. CASE group = NoGroup
      BY <1>2, <1>5, <1>6, <2>2, <3>1, <3>2, <3>3, <3>4, <3>5 DEF WithSpec
    <3>6. CASE group # NoGroup
      <4>1. WithSpec # NoGroup /\ WithSpec.upstream = group.upstream
        <5>1. CASE spec = NoSpec
          BY <3>6, <5>1 DEF WithSpec
        <5>2. CASE spec # NoSpec
          <6>1. group \in UpstreamGroup /\ spec \in SocketSpec
            BY <3>6, <5>2 DEF TypeOK
          <6>2. WithSpec = [upstream |-> group.upstream, sockets |-> Append(group.sockets, spec)]
            BY <3>6, <5>2, <6>1 DEF WithSpec, UpstreamGroup
          <6>3. WithSpec \in UpstreamGroup
            BY <6>1, <6>2 DEF UpstreamGroup
          <6> QED
            BY <6>2, <6>3, CommandLineAssumption
        <5> QED
          BY <5>1, <5>2
      <4> QED
        BY <1>5, <1>6, <3>1, <3>2, <3>3, <3>4, <3>6, <4>1
    <3> QED
      BY <3>5, <3>6
  <2> QED
    BY <2>1, <2>2
<1>8. ASSUME NEW b, b = N + 1 PROVE IsBeingRead(b)'
  <2>1. Open(args', b)
    BY <1>1, <1>3, <1>8, OpenAppend
  <2>2. DeclaredUpto(env, args')[N] = Declared(env, args)
    BY <1>1, <1>2, TakenNext
  <2>3. FiltersFor(args', b) = << >>
    <3>1. FiltersFor(args', Len(args')) = << >>
      BY <1>1, NoFilters
    <3> QED
      BY <1>3, <1>8, <3>1
  <2>4. b - 1 = N
    BY <1>3, <1>8
  <2>5. args'[b].kind = "socket" /\ args'[b].arg = spec'.path
    BY <1>2, <1>3, <1>4, <1>8
  <2>6. DeclaredUpto(env, args')[b - 1] = Listed'
    BY <1>7, <2>2, <2>4
  <2> QED
    BY <1>1, <1>4, <2>1, <2>3, <2>5, <2>6 DEF IsBeingRead
<1>9. Len(args') + 1 = N + 2 /\ N + 1 \in 1..Len(args')
  BY <1>3
<1>10. \E b \in 1..Len(args') : IsBeingRead(b)'
  BY <1>8, <1>9
<1> QED
  BY <1>1, <1>4, <1>5, <1>6, <1>7, <1>9, <1>10 DEF ReadInv

LEMMA StillBeingRead ==
    ASSUME TypeOK, NEW b \in 1..Len(args), IsBeingRead(b), NEW t \in Args,
           t.kind \in {"word", "option"}, NEW line, line = Append(args, t)
    PROVE  /\ b \in 1..Len(line) /\ line[b] = args[b] /\ Open(line, b)
           /\ DeclaredUpto(env, line)[b - 1] = Listed
           /\ FiltersFor(line, b) = IF t.kind = "word" THEN Append(spec.filters, t.arg)
                                    ELSE spec.filters
<1> DEFINE N == Len(args)
<1>1. /\ args \in Seq(Args) /\ env \in Upstreams \cup {NoUpstream} /\ N \in Nat /\ Len(line) = N + 1
      /\ b \in 1..N /\ b \in 1..(N + 1) /\ line[b] = args[b]
  <2>1. args \in Seq(Args) /\ env \in Upstreams \cup {NoUpstream}
    BY DEF TypeOK
  <2> QED
    BY <2>1, LineAppend
<1>2. /\ args[b].kind = "socket" /\ Open(args, b) /\ FiltersFor(args, b) = spec.filters
      /\ DeclaredUpto(env, args)[b - 1] = Listed
  BY DEF IsBeingRead
<1>3. Open(line, b)
  BY <1>1, <1>2, OpenAppend
<1>4. FiltersFor(line, b) = IF t.kind = "word" THEN Append(spec.filters, t.arg) ELSE spec.filters
  BY <1>1, <1>2, FiltersAppend
<1>5. DeclaredUpto(env, line)[b - 1] = DeclaredUpto(env, args)[b - 1]
  <2> DEFINE n == b - 1
  <2>1. n \in 0..N /\ n \in 0..n
    BY <1>1
  <2>2. ASSUME NEW i \in 1..n, args[i].kind = "socket" PROVE ~Open(args, i)
    <3>1. b \in (i + 1)..N
      BY <1>1
    <3> QED
      BY <1>2, <3>1 DEF Open
  <2> HIDE DEF n
  <2>3. \A i \in 0..n : DeclaredUpto(env, Append(args, t))[i] = DeclaredUpto(env, args)[i]
    BY <1>1, <2>1, <2>2, DeclaredFrame
  <2>4. DeclaredUpto(env, line)[n] = DeclaredUpto(env, args)[n]
    BY <2>1, <2>3
  <2> QED
    BY <2>4 DEF n
<1> QED
  BY <1>1, <1>2, <1>3, <1>4, <1>5

LEMMA ReadWord ==
    ASSUME TypeOK, ReadInv, NEW t \in Args, TakeWord(t)
    PROVE  ReadInv'
<1> DEFINE N == Len(args)
<1>1. /\ args' = Append(args, t) /\ phase = "parse" /\ phase' = phase /\ env' = env
  BY NextArgType DEF TakeWord
<1>2. /\ t.kind = "word" /\ UNCHANGED <<group, groups>> /\ spec # NoSpec
      /\ spec' = [spec EXCEPT !.filters = Append(@, t.arg)]
  BY DEF TakeWord
<1>3. args \in Seq(Args) /\ N \in Nat /\ Len(args') = N + 1 /\ t.arg \in Words
  BY <1>1, <1>2, ArgType, LineAppend DEF TypeOK
<1>4. spec' # NoSpec /\ spec'.path = spec.path /\ spec'.filters = Append(spec.filters, t.arg)
  <2>1. spec \in SocketSpec
    BY <1>2 DEF TypeOK
  <2>2. spec' = [path |-> spec.path, filters |-> Append(spec.filters, t.arg)]
    BY <1>2, <2>1 DEF SocketSpec
  <2>3. spec' \in SocketSpec
    BY <1>3, <2>1, <2>2 DEF SocketSpec
  <2> QED
    BY <2>2, <2>3, CommandLineAssumption
<1>5. UpstreamFor(env, args', N + 2) = UpstreamFor(env, args, N + 1)
  BY <1>1, <1>2, <1>3, UpstreamAppend
<1>6. Listed' = Listed
  BY <1>2 DEF Listed, InGroup
<1>7. PICK b \in 1..N : IsBeingRead(b)
  BY <1>1, <1>2 DEF ReadInv
<1>8. /\ b \in 1..Len(args') /\ args'[b] = args[b] /\ Open(args', b)
      /\ DeclaredUpto(env, args')[b - 1] = Listed
      /\ FiltersFor(args', b) = Append(spec.filters, t.arg)
  BY <1>1, <1>2, <1>7, StillBeingRead
<1>9. IsBeingRead(b)'
  BY <1>1, <1>4, <1>6, <1>7, <1>8 DEF IsBeingRead
<1>10. \E c \in 1..Len(args') : IsBeingRead(c)'
  BY <1>8, <1>9
<1>11. Len(args') + 1 = N + 2
  BY <1>3
<1> QED
  BY <1>1, <1>2, <1>4, <1>5, <1>10, <1>11 DEF ReadInv

LEMMA ReadSkip ==
    ASSUME TypeOK, ReadInv, NEW t \in Args, SkipArg(t)
    PROVE  ReadInv'
<1> DEFINE N == Len(args)
<1>1. /\ args' = Append(args, t) /\ phase = "parse" /\ phase' = phase /\ env' = env
  BY NextArgType DEF SkipArg
<1>2. /\ t.kind = "option" \/ (t.kind = "word" /\ spec = NoSpec)
      /\ UNCHANGED <<group, groups, spec>>
  BY DEF SkipArg, parserVars
<1>3. args \in Seq(Args) /\ N \in Nat /\ Len(args') = N + 1 /\ Len(args') + 1 = N + 2
  BY <1>1, LineAppend DEF TypeOK
<1>4. UpstreamFor(env, args', N + 2) = UpstreamFor(env, args, N + 1)
  BY <1>1, <1>2, <1>3, UpstreamAppend
<1>5. Listed' = Listed
  BY <1>2 DEF Listed, InGroup
<1>6. CASE spec = NoSpec
  <2>1. /\ Declared(env, args) = Listed
        /\ \A b \in 1..N : args[b].kind = "socket" => ~Open(args, b)
    BY <1>1, <1>6 DEF ReadInv
  <2>2. Declared(env, args') = Declared(env, args)
    BY <1>1, <1>2, <2>1, TakenNext
  <2>3. ASSUME NEW b \in 1..(N + 1), args'[b].kind = "socket" PROVE ~Open(args', b)
    <3>1. b # N + 1
      BY <1>1, <1>2, <1>3, <2>3, LineAppend
    <3>2. b \in 1..N
      BY <1>3, <3>1
    <3>3. args'[b] = args[b]
      BY <1>1, <1>3, <3>2, LineAppend
    <3> QED
      BY <1>1, <1>3, <2>1, <2>3, <3>2, <3>3, OpenAppend
  <2> QED
    BY <1>1, <1>2, <1>3, <1>4, <1>5, <1>6, <2>1, <2>2, <2>3 DEF ReadInv
<1>7. CASE spec # NoSpec
  <2>1. PICK b \in 1..N : IsBeingRead(b)
    BY <1>1, <1>7 DEF ReadInv
  <2>2. /\ b \in 1..Len(args') /\ args'[b] = args[b] /\ Open(args', b)
        /\ DeclaredUpto(env, args')[b - 1] = Listed
        /\ FiltersFor(args', b) = spec.filters
    BY <1>1, <1>2, <1>7, <2>1, StillBeingRead
  <2>3. IsBeingRead(b)'
    BY <1>1, <1>2, <1>5, <2>1, <2>2 DEF IsBeingRead
  <2>4. \E c \in 1..Len(args') : IsBeingRead(c)'
    BY <2>2, <2>3
  <2> QED
    BY <1>1, <1>2, <1>3, <1>4, <1>7, <2>4 DEF ReadInv
<1> QED
  BY <1>6, <1>7

LEMMA ReadNothing ==
    ASSUME NEW first \in Upstreams \cup {NoUpstream}
    PROVE  UpstreamFor(first, << >>, 1) = first /\ Declared(first, << >>) = << >>
<1>1. Len(<< >>) = 0 /\ << >> \in Seq(Args)
  OBVIOUS
<1>2. {j \in 1..(1 - 1) : (<< >>)[j].kind = "upstream"} = {}
  OBVIOUS
<1>3. UpstreamFor(first, << >>, 1) = first
  BY <1>2 DEF UpstreamFor
<1>4. DeclaredUpto(first, << >>)[0] = << >>
  BY <1>1, DeclaredSteps
<1> QED
  BY <1>1, <1>3, <1>4 DEF Declared

LEMMA ReadInit == Init => ReadInv
<1> SUFFICES ASSUME Init PROVE ReadInv
  OBVIOUS
<1>1. /\ env \in Upstreams \cup {NoUpstream} /\ args = << >> /\ group = NoGroup
      /\ spec = NoSpec /\ groups = << >>
  BY DEF Init
<1>2. Listed = << >>
  BY <1>1, SocketsOfNothing DEF Listed, InGroup
<1>3. Len(args) = 0 /\ Len(args) + 1 = 1 /\ 1..Len(args) = {}
  BY <1>1
<1> QED
  BY <1>1, <1>2, <1>3, ReadNothing DEF ReadInv

LEMMA ReadStep == TypeOK /\ ReadInv /\ [Next]_vars => ReadInv'
<1> SUFFICES ASSUME TypeOK, ReadInv, [Next]_vars PROVE ReadInv'
  OBVIOUS
<1>1. ASSUME phase' # "parse" PROVE ReadInv'
  BY <1>1 DEF ReadInv
<1>2. CASE EndOfArgs
  BY <1>1, <1>2 DEF EndOfArgs
<1>3. ASSUME NextSpec PROVE ReadInv'
  <2>1. phase' # "parse"
    BY <1>3 DEF NextSpec
  <2> QED
    BY <1>1, <2>1
<1>4. CASE MergeSpec \/ AddSpec
  BY <1>3, <1>4 DEF MergeSpec, AddSpec
<1>5. CASE Loaded \/ LoadFile
  BY <1>1, <1>5 DEF Loaded, LoadFile
<1>6. CASE PrintConfig
  BY <1>1, <1>6 DEF PrintConfig
<1>7. CASE ConfigCommand
  <2>1. /\ env' = env /\ args' = << >> /\ group' = NoGroup /\ spec' = NoSpec /\ groups' = << >>
    BY <1>7 DEF ConfigCommand, ParserStart
  <2>2. env' \in Upstreams \cup {NoUpstream}
    BY <2>1 DEF TypeOK
  <2> QED
    <3>1. Listed' = << >>
      BY <2>1, SocketsOfNothing DEF Listed, InGroup
    <3>2. Len(args') = 0 /\ Len(args') + 1 = 1 /\ 1..Len(args') = {}
      BY <2>1
    <3> QED
      BY <2>1, <2>2, <3>1, <3>2, ReadNothing DEF ReadInv
<1>8. CASE UNCHANGED vars
  BY <1>8 DEF vars, ReadInv, Listed, InGroup, IsBeingRead
<1> QED
  BY <1>2, <1>4, <1>5, <1>6, <1>7, <1>8, ReadUpstream, ReadSocket, ReadWord, ReadSkip DEF Next

-----------------------------------------------------------------------------
(***************************************************************************)
(* What a list of sockets asks for at a path, and what one more changes.   *)
(***************************************************************************)
LEMMA AllFiltersSteps ==
    ASSUME NEW list \in Seq(DeclaredSocket), NEW path
    PROVE  \E upto \in [0..Len(list) -> Seq(Seq(Words))] :
              /\ upto[0] = << >>
              /\ \A i \in 1..Len(list) :
                    upto[i] = IF list[i].path = path /\ list[i].filters # << >>
                              THEN Append(upto[i - 1], list[i].filters) ELSE upto[i - 1]
              /\ AllFilters(list, path) = upto[Len(list)]
<1> DEFINE N == Len(list)
           S == Seq(Seq(Words))
           base == << >>
           Rule(x, i) == IF list[i].path = path /\ list[i].filters # << >>
                         THEN Append(x, list[i].filters) ELSE x
           Pred(f) == f = [i \in 0..N |-> IF i = 0 THEN << >> ELSE Rule(f[i - 1], i)]
           more == [i \in 1..N |-> [x \in S |-> Rule(x, i)]]
<1>1. N \in Nat /\ base \in S
  OBVIOUS
<1>2. ASSUME NEW i \in 1..N, NEW x \in S PROVE Rule(x, i) \in S
  <2>1. list[i].filters \in Seq(Words)
    <3>1. list[i] \in DeclaredSocket
      BY <1>1
    <3> QED
      BY <3>1 DEF DeclaredSocket
  <2> QED
    BY <2>1
<1>3. AllFilters(list, path) = (CHOOSE h : Pred(h))[N]
  BY DEF AllFilters
<1> HIDE DEF Rule, N, S
<1>4. more \in [1..N -> [S -> S]]
  BY <1>2
<1>5. \A i \in 1..N : \A x \in S : more[i][x] = Rule(x, i)
  OBVIOUS
<1> HIDE DEF more
<1>6. PICK f \in [0..N -> S] : f[0] = base /\ \A j \in 1..N : f[j] = more[j][f[j - 1]]
  <2> DEFINE X == S
             start == base
  <2>1. N \in Nat /\ start \in X /\ more \in [1..N -> [X -> X]]
    BY ONLY <1>1, <1>4
  <2> HIDE DEF base, start, X
  <2>2. \E f \in [0..N -> X] : f[0] = start /\ \A j \in 1..N : f[j] = more[j][f[j - 1]]
    BY ONLY <2>1, StepsExist, Z3T(30)
  <2> QED
    BY <2>2 DEF start, base, X
<1>7. Pred(f)
  <2>1. ASSUME NEW i \in 0..N PROVE f[i] = IF i = 0 THEN << >> ELSE Rule(f[i - 1], i)
    <3>1. CASE i = 0
      BY <1>6, <3>1
    <3>2. CASE i # 0
      <4>1. i \in 1..N /\ i - 1 \in 0..N
        BY <1>1, <3>2
      <4>2. f[i - 1] \in S
        BY <4>1
      <4> QED
        BY <1>5, <1>6, <3>2, <4>1, <4>2
    <3> QED
      BY <3>1, <3>2
  <2> QED
    BY <2>1
<1> DEFINE g == CHOOSE h : Pred(h)
<1>8. Pred(g)
  BY <1>7
<1> HIDE DEF g
<1>9. /\ g[0] = << >>
      /\ \A i \in 1..N : g[i] = Rule(g[i - 1], i)
  BY <1>1, <1>8
<1>10. \A i \in 0..N : g[i] \in S
  <2> DEFINE T == {i \in 0..N : g[i] \in S}
  <2>1. 0 \in T
    <3>1. 0 \in 0..N /\ g[0] \in S
      BY <1>1, <1>9
    <3> QED
      BY <3>1
  <2>2. ASSUME NEW i \in 0..(N - 1), i \in T PROVE i + 1 \in T
    <3>1. i + 1 \in 1..N /\ (i + 1) - 1 = i /\ i + 1 \in 0..N /\ g[i] \in S
      <4>1. g[i] \in S
        BY <2>2
      <4> QED
        BY <1>1, <4>1
    <3>2. g[i + 1] = Rule(g[i], i + 1)
      BY <1>9, <3>1
    <3> QED
      BY <1>2, <3>1, <3>2
  <2> HIDE DEF T
  <2>3. \A i \in 0..N : i \in T
    BY <1>1, <2>1, <2>2, BoundedInduction
  <2> QED
    BY <2>3 DEF T
<1>11. g \in [0..N -> S]
  <2>1. g = [i \in 0..N |-> g[i]]
    BY <1>8
  <2> QED
    BY <1>10, <2>1
<1> QED
  BY <1>3, <1>9, <1>11 DEF Rule, N, S, g

LEMMA AllFiltersType ==
    ASSUME NEW list \in Seq(DeclaredSocket), NEW path
    PROVE  AllFilters(list, path) \in Seq(Seq(Words))
<1>1. PICK upto \in [0..Len(list) -> Seq(Seq(Words))] : AllFilters(list, path) = upto[Len(list)]
  BY AllFiltersSteps
<1> QED
  BY <1>1

(* A path that nobody asks for has no filters. *)
LEMMA AllFiltersOfNone ==
    ASSUME NEW list \in Seq(DeclaredSocket), NEW path, \A i \in 1..Len(list) : list[i].path # path
    PROVE  AllFilters(list, path) = << >>
<1> DEFINE N == Len(list)
<1>1. PICK f \in [0..N -> Seq(Seq(Words))] :
         /\ f[0] = << >>
         /\ \A i \in 1..N : f[i] = IF list[i].path = path /\ list[i].filters # << >>
                                   THEN Append(f[i - 1], list[i].filters) ELSE f[i - 1]
         /\ AllFilters(list, path) = f[N]
  BY AllFiltersSteps
<1>2. \A i \in 1..N : f[i] = f[i - 1]
  BY <1>1
<1> DEFINE T == {i \in 0..N : f[i] = << >>}
<1>3. N \in Nat /\ 0 \in T
  BY <1>1
<1>4. ASSUME NEW i \in 0..(N - 1), i \in T PROVE i + 1 \in T
  <2>1. i + 1 \in 1..N /\ (i + 1) - 1 = i /\ i + 1 \in 0..N
    BY <1>3
  <2> QED
    BY <1>2, <1>4, <2>1
<1> HIDE DEF T
<1>5. \A i \in 0..N : i \in T
  BY <1>3, <1>4, BoundedInduction
<1> QED
  BY <1>1, <1>3, <1>5 DEF T

LEMMA AllFiltersAppend ==
    ASSUME NEW list \in Seq(DeclaredSocket), NEW x \in DeclaredSocket, NEW path
    PROVE  AllFilters(Append(list, x), path)
             = IF x.path = path THEN AllFilters(list, path) \o AsGroups(x.filters)
               ELSE AllFilters(list, path)
<1> DEFINE N == Len(list)
           more == Append(list, x)
<1>1. /\ N \in Nat /\ Len(more) = N + 1 /\ more \in Seq(DeclaredSocket)
      /\ \A i \in 1..N : more[i] = list[i]
      /\ more[N + 1] = x
  OBVIOUS
<1> HIDE DEF more
<1>2. PICK f \in [0..N -> Seq(Seq(Words))] :
         /\ f[0] = << >>
         /\ \A i \in 1..N : f[i] = IF list[i].path = path /\ list[i].filters # << >>
                                   THEN Append(f[i - 1], list[i].filters) ELSE f[i - 1]
         /\ AllFilters(list, path) = f[N]
  BY AllFiltersSteps
<1>3. PICK g \in [0..(N + 1) -> Seq(Seq(Words))] :
         /\ g[0] = << >>
         /\ \A i \in 1..(N + 1) : g[i] = IF more[i].path = path /\ more[i].filters # << >>
                                         THEN Append(g[i - 1], more[i].filters) ELSE g[i - 1]
         /\ AllFilters(more, path) = g[N + 1]
  <2>1. \E g \in [0..Len(more) -> Seq(Seq(Words))] :
         /\ g[0] = << >>
         /\ \A i \in 1..Len(more) : g[i] = IF more[i].path = path /\ more[i].filters # << >>
                                           THEN Append(g[i - 1], more[i].filters) ELSE g[i - 1]
         /\ AllFilters(more, path) = g[Len(more)]
    BY <1>1, AllFiltersSteps
  <2> QED
    BY <1>1, <2>1, Zenon
<1>4. \A i \in 0..N : g[i] = f[i]
  <2> DEFINE T == {i \in 0..N : g[i] = f[i]}
  <2>1. 0 \in T
    BY <1>1, <1>2, <1>3
  <2>2. ASSUME NEW i \in 0..(N - 1), i \in T PROVE i + 1 \in T
    <3>1. g[i] = f[i]
      BY <2>2
    <3> DEFINE j == i + 1
    <3>2. j \in 1..N /\ j \in 1..(N + 1) /\ j - 1 = i /\ j \in 0..N
      BY <1>1
    <3> HIDE DEF j
    <3>3. g[j] = f[j]
      BY <1>1, <1>2, <1>3, <3>1, <3>2
    <3> QED
      BY <3>2, <3>3 DEF j
  <2> HIDE DEF T
  <2>3. \A i \in 0..N : i \in T
    BY <1>1, <2>1, <2>2, BoundedInduction
  <2> QED
    BY <2>3 DEF T
<1>5. g[N] = f[N] /\ f[N] \in Seq(Seq(Words)) /\ N + 1 \in 1..(N + 1) /\ (N + 1) - 1 = N
  BY <1>1, <1>4
<1>6. g[N + 1] = IF x.path = path /\ x.filters # << >> THEN Append(f[N], x.filters) ELSE f[N]
  BY <1>1, <1>3, <1>5
<1>7. x.filters \in Seq(Words)
  BY DEF DeclaredSocket
<1>8. Append(f[N], x.filters) = f[N] \o <<x.filters>> /\ f[N] \o << >> = f[N]
  BY <1>5, <1>7, AppendAsConcat
<1> QED
  BY <1>2, <1>3, <1>6, <1>8 DEF AsGroups, more

(***************************************************************************)
(* What load_configuration makes of a list of sockets, at a path: one      *)
(* socket, with the upstream of the first and the filters of all.          *)
(***************************************************************************)
Merged(list, path) ==
    IF AskedAt(list, path) = {} THEN {}
    ELSE {[path |-> path, upstream |-> list[Min(AskedAt(list, path))].upstream,
           filters |-> AllFilters(list, path)]}

LEMMA MergedNothing ==
    ASSUME NEW path
    PROVE  Merged(<< >>, path) = {}
<1>1. AskedAt(<< >>, path) = {}
  BY DEF AskedAt
<1> QED
  BY <1>1 DEF Merged, AskedAt

(* Below one upstream, it does not matter which of the sockets is the first. *)
LEMMA MergedIsWanted ==
    ASSUME NEW list \in Seq(DeclaredSocket), NEW path, Unambiguous(list, path)
    PROVE  Wanted(list, path) = Merged(list, path)
<1>1. CASE AskedAt(list, path) = {}
  BY <1>1 DEF Wanted, Merged
<1>2. CASE AskedAt(list, path) # {}
  <2> DEFINE where == AskedAt(list, path)
             first == Min(where)
  <2>1. where \subseteq Nat /\ where # {}
    BY <1>2 DEF AskedAt
  <2> HIDE DEF where
  <2>2. \E i \in where : \A j \in where : i <= j
    BY <2>1, HasMinimum
  <2>3. first \in where
    BY <2>2 DEF Min
  <2> HIDE DEF first
  <2>4. \A i \in where : list[i].upstream = list[first].upstream
    BY <2>3 DEF Unambiguous, where
  <2>5. Wanted(list, path) =
           {[path |-> path, upstream |-> list[first].upstream,
             filters |-> AllFilters(list, path)]}
    BY <2>3, <2>4 DEF Wanted, where
  <2> QED
    BY <1>2, <2>5 DEF Merged, where, first
<1> QED
  BY <1>1, <1>2

LEMMA MergedAppend ==
    ASSUME NEW list \in Seq(DeclaredSocket), NEW x \in DeclaredSocket
    PROVE  /\ \A path : path # x.path => Merged(Append(list, x), path) = Merged(list, path)
           /\ Merged(list, x.path) = {} =>
                 Merged(Append(list, x), x.path) =
                    {[path |-> x.path, upstream |-> x.upstream, filters |-> AsGroups(x.filters)]}
           /\ \A m \in Merged(list, x.path) :
                 Merged(Append(list, x), x.path) =
                    {[path |-> x.path, upstream |-> m.upstream,
                      filters |-> m.filters \o AsGroups(x.filters)]}
<1> DEFINE N == Len(list)
           more == Append(list, x)
<1>1. /\ N \in Nat /\ Len(more) = N + 1 /\ more \in Seq(DeclaredSocket)
      /\ \A i \in 1..N : more[i] = list[i]
      /\ more[N + 1] = x
  OBVIOUS
<1> HIDE DEF more
<1>2. AllFilters(more, x.path) = AllFilters(list, x.path) \o AsGroups(x.filters)
  BY AllFiltersAppend DEF more
<1>3. \A path : path # x.path => AllFilters(more, path) = AllFilters(list, path)
  BY AllFiltersAppend DEF more
<1>4. ASSUME NEW path PROVE
        /\ Merged(list, path) = IF AskedAt(list, path) = {} THEN {}
              ELSE {[path |-> path, upstream |-> list[Min(AskedAt(list, path))].upstream,
                     filters |-> AllFilters(list, path)]}
        /\ Merged(more, path) = IF AskedAt(more, path) = {} THEN {}
              ELSE {[path |-> path, upstream |-> more[Min(AskedAt(more, path))].upstream,
                     filters |-> AllFilters(more, path)]}
  BY DEF Merged, AskedAt
<1>5. ASSUME NEW path, AskedAt(list, path) # {}
      PROVE  /\ AskedAt(more, path) # {} /\ Min(AskedAt(more, path)) = Min(AskedAt(list, path))
             /\ more[Min(AskedAt(more, path))] = list[Min(AskedAt(list, path))]
  <2> DEFINE old == AskedAt(list, path)
             new == AskedAt(more, path)
  <2>1. old \subseteq 1..N /\ old \subseteq new /\ \A i \in new : i \in old \/ i = N + 1
    BY <1>1 DEF AskedAt
  <2>2. old # {} /\ new # {} /\ new \subseteq Nat /\ old \subseteq Nat
    BY <1>1, <1>5, <2>1
  <2> HIDE DEF old, new
  <2>3. /\ \E i \in old : \A j \in old : i <= j
        /\ \E i \in new : \A j \in new : i <= j
    BY <2>2, HasMinimum
  <2>4. /\ Min(old) \in old /\ \A j \in old : Min(old) <= j
        /\ Min(new) \in new /\ \A j \in new : Min(new) <= j
    BY <2>3 DEF Min
  <2>5. Min(new) = Min(old)
    <3> DEFINE p == Min(old)
               q == Min(new)
    <3>1. p \in 1..N /\ p \in new /\ q <= p /\ (q \in old \/ q = N + 1) /\ q \in Nat
      BY <2>1, <2>2, <2>4
    <3>2. q \in old => p <= q
      BY <2>4
    <3> HIDE DEF p, q
    <3>3. p = q
      BY <1>1, <3>1, <3>2
    <3> QED
      BY <3>3 DEF p, q
  <2>6. Min(old) \in 1..N
    BY <2>1, <2>4
  <2> QED
    BY <1>1, <2>2, <2>5, <2>6 DEF old, new
<1>6. ASSUME NEW path, path # x.path PROVE Merged(more, path) = Merged(list, path)
  <2>1. CASE AskedAt(list, path) = {}
    <3>1. AskedAt(more, path) = {}
      <4>1. ASSUME NEW i \in 1..(N + 1) PROVE more[i].path # path
        <5>1. CASE i = N + 1
          BY <1>1, <1>6, <5>1
        <5>2. CASE i # N + 1
          <6>1. i \in 1..N
            BY <1>1, <5>2
          <6> QED
            BY <1>1, <2>1, <6>1 DEF AskedAt
        <5> QED
          BY <5>1, <5>2
      <4> QED
        BY <1>1, <4>1 DEF AskedAt
    <3> QED
      BY <1>4, <2>1, <3>1
  <2>2. CASE AskedAt(list, path) # {}
    BY <1>3, <1>4, <1>5, <1>6, <2>2
  <2> QED
    BY <2>1, <2>2
<1>7. ASSUME Merged(list, x.path) = {}
      PROVE  Merged(more, x.path) =
                {[path |-> x.path, upstream |-> x.upstream, filters |-> AsGroups(x.filters)]}
  <2>1. AskedAt(list, x.path) = {}
    BY <1>4, <1>7
  <2>2. AskedAt(more, x.path) = {N + 1}
    <3>1. \A i \in 1..N : more[i].path # x.path
      BY <1>1, <2>1 DEF AskedAt
    <3>2. N + 1 \in 1..(N + 1) /\ \A i \in 1..(N + 1) : i \in 1..N \/ i = N + 1
      BY <1>1
    <3> QED
      BY <1>1, <3>1, <3>2 DEF AskedAt
  <2>3. Min({N + 1}) = N + 1
    <3>1. \E i \in {N + 1} : \A j \in {N + 1} : i <= j
      BY <1>1
    <3>2. Min({N + 1}) \in {N + 1}
      BY <3>1 DEF Min
    <3> QED
      BY <3>2
  <2>4. AllFilters(list, x.path) = << >>
    BY <2>1, AllFiltersOfNone DEF AskedAt
  <2>5. AllFilters(more, x.path) = AsGroups(x.filters)
    <3>1. AsGroups(x.filters) \in Seq(Seq(Words))
      BY AsGroupsType DEF DeclaredSocket
    <3>2. << >> \o AsGroups(x.filters) = AsGroups(x.filters)
      BY <3>1
    <3> QED
      BY <1>2, <2>4, <3>2
  <2>6. AskedAt(more, x.path) # {} /\ Min(AskedAt(more, x.path)) = N + 1
    BY <2>2, <2>3
  <2> QED
    BY <1>1, <1>4, <2>5, <2>6
<1>8. ASSUME NEW m \in Merged(list, x.path)
      PROVE  Merged(more, x.path) =
                {[path |-> x.path, upstream |-> m.upstream,
                  filters |-> m.filters \o AsGroups(x.filters)]}
  <2>1. AskedAt(list, x.path) # {}
    BY <1>4
  <2>2. m = [path |-> x.path, upstream |-> list[Min(AskedAt(list, x.path))].upstream,
             filters |-> AllFilters(list, x.path)]
    BY <1>4, <2>1
  <2>3. /\ m.upstream = list[Min(AskedAt(list, x.path))].upstream
        /\ m.filters = AllFilters(list, x.path)
    BY <2>2
  <2>4. AskedAt(more, x.path) # {}
        /\ more[Min(AskedAt(more, x.path))] = list[Min(AskedAt(list, x.path))]
    BY <1>5, <2>1
  <2> QED
    BY <1>2, <1>4, <2>3, <2>4
<1> QED
  BY <1>6, <1>7, <1>8 DEF more

-----------------------------------------------------------------------------
(***************************************************************************)
(* load_configuration: the table that has been built is what the sockets   *)
(* taken so far ask for.                                                   *)
(***************************************************************************)
ServedBy(c, n) ==
    [path |-> c.sockets[n].path, upstream |-> UpstreamOf(c, n), filters |-> c.sockets[n].filters]

MeaningAt(c, path) == {m \in Meaning(c) : m.path = path}

OneEntryPerPath ==
    \A m, n \in DOMAIN config.sockets : config.sockets[m].path = config.sockets[n].path => m = n

BuiltFrom(taken) == \A path \in Paths : MeaningAt(config, path) = Merged(taken, path)

LoadInv ==
    /\ phase = "load" => groups # << >>
    /\ phase \in {"load", "loaded"} /\ groups # << >> =>
          /\ OneEntryPerPath
          /\ \E taken \in Seq(DeclaredSocket) : Declared(env, args) = taken \o pending /\ BuiltFrom(taken)
          /\ phase = "loaded" => pending = << >>

LEMMA MeaningAtIs ==
    ASSUME NEW c, NEW path
    PROVE  MeaningAt(c, path)
             = {ServedBy(c, n) : n \in {k \in DOMAIN c.sockets : c.sockets[k].path = path}}
<1>1. Meaning(c) = {ServedBy(c, n) : n \in DOMAIN c.sockets}
  BY DEF Meaning, ServedBy
<1>2. \A n : ServedBy(c, n).path = c.sockets[n].path
  BY DEF ServedBy
<1> QED
  BY <1>1, <1>2 DEF MeaningAt

(* A number behind the stem that no name of the table has. *)
LEMMA SomeNumberIsFree ==
    ASSUME NEW taken, IsFiniteSet(taken), NEW S, NEW stem \in Seq(S)
    PROVE  \E i \in 2..(2 + Cardinality(taken)) :
              /\ Append(stem, i) \notin taken
              /\ \A j \in 2..(i - 1) : ~(Append(stem, j) \notin taken)
<1> DEFINE n == Cardinality(taken)
           numbers == 2..(2 + n)
           free == {i \in numbers : Append(stem, i) \notin taken}
           f == [i \in numbers |-> Append(stem, i)]
<1>1. n \in Nat
  BY FS_CardinalityType
<1>2. \A i, j : Append(stem, i) = Append(stem, j) => i = j
  <2>1. \A i : Append(stem, i)[Len(stem) + 1] = i
    OBVIOUS
  <2> QED
    BY <2>1
<1>3. free # {}
  <2>1. SUFFICES ASSUME free = {} PROVE FALSE
    OBVIOUS
  <2>2. f \in [numbers -> taken]
    BY <2>1
  <2>3. IsInjective(f)
    BY <1>2 DEF IsInjective
  <2>4. f \in Injection(numbers, taken)
    BY <2>2, <2>3 DEF Injection
  <2>5. Cardinality(numbers) <= n
    BY <2>4, FS_Injection
  <2>6. Cardinality(numbers) = n + 1
    BY <1>1, FS_Interval
  <2> QED
    BY <1>1, <2>5, <2>6
<1>4. free \subseteq Nat
  BY <1>1
<1> HIDE DEF free
<1>5. PICK i \in free : \A j \in free : i <= j
  BY <1>3, <1>4, HasMinimum
<1>6. i \in numbers /\ Append(stem, i) \notin taken /\ i \in Nat
  BY <1>4, <1>5 DEF free
<1>7. ASSUME NEW j \in 2..(i - 1) PROVE Append(stem, j) \in taken
  <2>1. j \in numbers /\ ~(i <= j)
    BY <1>1, <1>6
  <2> QED
    BY <1>5, <2>1 DEF free
<1> QED
  BY <1>6, <1>7

(* A new entry never displaces another one. *)
LEMMA FreshNameIsFree ==
    ASSUME TypeOK, NEW path \in Paths
    PROVE  FreshName(Stem[path]) \notin DOMAIN config.sockets
<1> DEFINE taken == DOMAIN config.sockets
           stem == Stem[path]
<1>1. IsFiniteSet(taken)
  BY DEF TypeOK, IsConfig
<1>2. stem \in Seq(ToSet(stem))
  BY CommandLineAssumption
<1> DEFINE Smallest(i) == /\ Append(stem, i) \notin taken
                          /\ \A j \in 2..(i - 1) : ~(Append(stem, j) \notin taken)
<1>3. FreshName(stem) = IF stem \notin taken THEN stem
                        ELSE Append(stem, CHOOSE i \in 2..(2 + Cardinality(taken)) : Smallest(i))
  BY DEF FreshName
<1> HIDE DEF taken, stem
<1>4. \E i \in 2..(2 + Cardinality(taken)) : Smallest(i)
  BY <1>1, <1>2, SomeNumberIsFree
<1>5. Append(stem, CHOOSE i \in 2..(2 + Cardinality(taken)) : Smallest(i)) \notin taken
  BY <1>4
<1> QED
  BY <1>3, <1>5 DEF taken, stem

(* An entry that a step leaves alone serves what it served. *)
LEMMA ServedByKept ==
    ASSUME NEW name, NEW entry \in SocketEntry, IsConfig(config), SetEntry(name, entry),
           NEW n \in DOMAIN config.sockets, n # name
    PROVE  ServedBy(config', n) = ServedBy(config, n) /\ config'.sockets[n] = config.sockets[n]
<1>1. config'.sockets[n] = config.sockets[n] /\ config'.upstream = config.upstream
  BY SetEntrySets
<1> QED
  BY <1>1 DEF ServedBy, UpstreamOf

(* A step that enters a socket's path under one name changes nothing at    *)
(* another path.                                                           *)
LEMMA OtherPathsKept ==
    ASSUME NEW name, NEW entry \in SocketEntry, IsConfig(config), SetEntry(name, entry),
           NEW path, path # entry.path,
           name \in DOMAIN config.sockets => config.sockets[name].path = entry.path
    PROVE  MeaningAt(config', path) = MeaningAt(config, path)
<1> DEFINE old == {k \in DOMAIN config.sockets : config.sockets[k].path = path}
           new == {k \in DOMAIN config'.sockets : config'.sockets[k].path = path}
<1>1. /\ DOMAIN config'.sockets = DOMAIN config.sockets \cup {name}
      /\ config'.sockets[name] = entry
      /\ \A n \in DOMAIN config.sockets \ {name} : config'.sockets[n] = config.sockets[n]
  BY SetEntrySets
<1>2. old = new /\ name \notin old
  BY <1>1
<1>3. \A n \in old : ServedBy(config', n) = ServedBy(config, n)
  BY <1>2, ServedByKept
<1>4. /\ MeaningAt(config, path) = {ServedBy(config, n) : n \in old}
      /\ MeaningAt(config', path) = {ServedBy(config', n) : n \in new}
  BY MeaningAtIs
<1> HIDE DEF old, new
<1> QED
  BY <1>2, <1>3, <1>4

LEMMA TakenOne ==
    ASSUME NEW taken \in Seq(DeclaredSocket), NEW rest \in Seq(DeclaredSocket), rest # << >>
    PROVE  /\ Append(taken, Head(rest)) \in Seq(DeclaredSocket)
           /\ taken \o rest = Append(taken, Head(rest)) \o Tail(rest)
<1>1. Head(rest) \in DeclaredSocket /\ Tail(rest) \in Seq(DeclaredSocket)
  OBVIOUS
<1>2. <<Head(rest)>> \in Seq(DeclaredSocket) /\ rest = <<Head(rest)>> \o Tail(rest)
  BY <1>1
<1>3. Append(taken, Head(rest)) = taken \o <<Head(rest)>>
  BY <1>1, AppendAsConcat
<1>4. (taken \o <<Head(rest)>>) \o Tail(rest) = taken \o (<<Head(rest)>> \o Tail(rest))
  BY <1>1, <1>2, SocketsAssociate, Zenon
<1>5. Append(taken, Head(rest)) \in Seq(DeclaredSocket)
  BY <1>1
<1>6. taken \o rest = taken \o (<<Head(rest)>> \o Tail(rest))
  BY <1>2, Zenon
<1> QED
  BY <1>3, <1>4, <1>5, <1>6, Zenon

(* One socket taken, under whatever name: what is left to show is the      *)
(* entry itself, and that the table has no other one at its path.          *)
LEMMA OneMoreTaken ==
    ASSUME TypeOK, LoadInv, NextSpec, NEW name, NEW entry \in SocketEntry,
           SetEntry(name, entry), entry.path = Head(pending).path,
           EntriesAt(Head(pending).path) \subseteq {name},
           name \in DOMAIN config.sockets => name \in EntriesAt(Head(pending).path),
           \A taken \in Seq(DeclaredSocket) :
               BuiltFrom(taken) => Merged(Append(taken, Head(pending)), entry.path) = {ServedBy(config', name)}
    PROVE  LoadInv'
<1> DEFINE x == Head(pending)
<1>1. /\ phase = "load" /\ phase' = "load" /\ pending # << >> /\ pending' = Tail(pending)
      /\ env' = env /\ args' = args /\ groups' = groups /\ groups # << >>
  BY DEF NextSpec, LoadInv
<1>2. IsConfig(config) /\ pending \in Seq(DeclaredSocket) /\ x \in DeclaredSocket
  BY <1>1, EntryTypes DEF TypeOK, DeclaredSocket
<1>3. /\ DOMAIN config'.sockets = DOMAIN config.sockets \cup {name}
      /\ config'.sockets[name] = entry
      /\ \A n \in DOMAIN config.sockets \ {name} : config'.sockets[n] = config.sockets[n]
  BY <1>2, SetEntrySets
<1>4. PICK taken \in Seq(DeclaredSocket) : Declared(env, args) = taken \o pending /\ BuiltFrom(taken)
  BY <1>1 DEF LoadInv
<1>5. \A n \in DOMAIN config.sockets \ {name} : config.sockets[n].path # x.path
  BY DEF EntriesAt
<1>6. OneEntryPerPath'
  <2>1. OneEntryPerPath
    BY <1>1 DEF LoadInv
  <2> QED
    BY <1>3, <1>5, <2>1 DEF OneEntryPerPath
<1>7. ASSUME NEW path \in Paths
      PROVE  MeaningAt(config', path) = Merged(Append(taken, x), path)
  <2>1. CASE path = x.path
    <3>1. {k \in DOMAIN config'.sockets : config'.sockets[k].path = path} = {name}
      BY <1>3, <1>5, <2>1
    <3>2. MeaningAt(config', path) = {ServedBy(config', n) : n \in {name}}
      BY <3>1, MeaningAtIs
    <3>3. Merged(Append(taken, x), path) = {ServedBy(config', name)}
      BY <1>4, <2>1
    <3> QED
      BY <3>2, <3>3
  <2>2. CASE path # x.path
    <3>1. name \in DOMAIN config.sockets => config.sockets[name].path = entry.path
      BY DEF EntriesAt
    <3>2. MeaningAt(config', path) = MeaningAt(config, path)
      BY <1>2, <2>2, <3>1, OtherPathsKept
    <3>3. Merged(Append(taken, x), path) = Merged(taken, path)
      BY <1>2, <2>2, MergedAppend
    <3> QED
      BY <1>4, <3>2, <3>3 DEF BuiltFrom
  <2> QED
    BY <2>1, <2>2
<1>8. Append(taken, x) \in Seq(DeclaredSocket) /\ taken \o pending = Append(taken, x) \o Tail(pending)
  BY <1>1, <1>2, TakenOne
<1>9. \E more \in Seq(DeclaredSocket) : Declared(env, args) = more \o pending' /\ BuiltFrom(more)'
  <2> DEFINE more == Append(taken, x)
  <2>1. more \in Seq(DeclaredSocket) /\ Declared(env, args) = more \o pending'
    BY <1>1, <1>4, <1>8
  <2>2. \A path \in Paths : MeaningAt(config', path) = Merged(more, path)
    BY <1>7
  <2> HIDE DEF more
  <2> QED
    BY <2>1, <2>2 DEF BuiltFrom
<1> QED
  BY <1>1, <1>6, <1>9 DEF LoadInv

LEMMA LoadMerge == TypeOK /\ LoadInv /\ MergeSpec => LoadInv'
<1> SUFFICES ASSUME TypeOK, LoadInv, MergeSpec PROVE LoadInv'
  OBVIOUS
<1> DEFINE x == Head(pending)
<1>1. NextSpec /\ pending # << >> /\ phase = "load" /\ groups # << >>
  BY DEF MergeSpec, NextSpec, LoadInv
<1>2. PICK name \in EntriesAt(x.path) : SetEntry(name, MergedEntry(name))
  BY DEF MergeSpec, MergedEntry
<1>3. name \in DOMAIN config.sockets /\ config.sockets[name].path = x.path /\ IsConfig(config)
  BY <1>2 DEF EntriesAt, TypeOK
<1>4. /\ x \in DeclaredSocket /\ MergedEntry(name) \in SocketEntry
      /\ MergedEntry(name) = [path |-> config.sockets[name].path,
                              upstream |-> config.sockets[name].upstream,
                              filters |-> config.sockets[name].filters \o AsGroups(x.filters)]
  BY <1>1, <1>3, EntryTypes
<1> DEFINE entry == MergedEntry(name)
<1> HIDE DEF entry
<1>5. /\ entry.path = x.path /\ entry.upstream = config.sockets[name].upstream
      /\ entry.filters = config.sockets[name].filters \o AsGroups(x.filters)
  <2>1. entry = [path |-> config.sockets[name].path,
                 upstream |-> config.sockets[name].upstream,
                 filters |-> config.sockets[name].filters \o AsGroups(x.filters)]
    BY <1>4, Zenon DEF entry
  <2> QED
    BY <1>3, <2>1
<1>6. EntriesAt(x.path) \subseteq {name}
  BY <1>1, <1>2 DEF EntriesAt, LoadInv, OneEntryPerPath
<1>7. config'.sockets[name] = entry /\ config'.upstream = config.upstream
  BY <1>2, <1>3, <1>4, SetEntrySets DEF entry
<1>8. ASSUME NEW taken \in Seq(DeclaredSocket), BuiltFrom(taken)
      PROVE  Merged(Append(taken, x), entry.path) = {ServedBy(config', name)}
  <2> DEFINE m == ServedBy(config, name)
  <2>1. m \in MeaningAt(config, x.path)
    BY <1>3, MeaningAtIs
  <2>2. x.path \in Paths
    BY <1>4 DEF DeclaredSocket
  <2>3. m \in Merged(taken, x.path)
    BY <1>8, <2>1, <2>2 DEF BuiltFrom
  <2>4. /\ m.upstream = UpstreamOf(config, name) /\ m.filters = config.sockets[name].filters
    BY DEF ServedBy
  <2>5. UpstreamOf(config', name) = UpstreamOf(config, name)
    BY <1>5, <1>7 DEF UpstreamOf
  <2>6. ServedBy(config', name) = [path |-> x.path, upstream |-> m.upstream,
                                   filters |-> m.filters \o AsGroups(x.filters)]
    BY <1>5, <1>7, <2>4, <2>5 DEF ServedBy
  <2> HIDE DEF m
  <2>7. Merged(Append(taken, x), x.path)
          = {[path |-> x.path, upstream |-> m.upstream, filters |-> m.filters \o AsGroups(x.filters)]}
    BY <1>4, <2>3, MergedAppend, Zenon
  <2> QED
    BY <1>5, <2>6, <2>7
<1> QED
  BY <1>1, <1>2, <1>4, <1>5, <1>6, <1>8, OneMoreTaken DEF entry

LEMMA LoadAdd == TypeOK /\ LoadInv /\ AddSpec => LoadInv'
<1> SUFFICES ASSUME TypeOK, LoadInv, AddSpec PROVE LoadInv'
  OBVIOUS
<1> DEFINE x == Head(pending)
           name == FreshName(Stem[x.path])
<1>1. /\ NextSpec /\ pending # << >> /\ EntriesAt(x.path) = {} /\ IsConfig(config)
      /\ config.upstream \in Upstreams
  BY DEF AddSpec, NextSpec, TypeOK
<1>2. SetEntry(name, NewEntry)
  BY DEF AddSpec, NewEntry
<1>3. x \in DeclaredSocket /\ NewEntry \in SocketEntry
  BY <1>1, EntryTypes
<1>4. x.path \in Paths /\ x.upstream \in Upstreams
  BY <1>3 DEF DeclaredSocket
<1>5. name \notin DOMAIN config.sockets
  BY <1>4, FreshNameIsFree
<1> HIDE DEF name
<1>6. /\ NewEntry.path = x.path /\ NewEntry.filters = AsGroups(x.filters)
      /\ NewEntry.upstream = IF x.upstream = config.upstream THEN NoUpstream ELSE x.upstream
  BY DEF NewEntry
<1>7. config'.sockets[name] = NewEntry /\ config'.upstream = config.upstream
  BY <1>1, <1>2, <1>3, SetEntrySets
<1>8. ServedBy(config', name) = [path |-> x.path, upstream |-> x.upstream,
                                 filters |-> AsGroups(x.filters)]
  <2>1. UpstreamOf(config', name) = x.upstream
    BY <1>1, <1>4, <1>6, <1>7, CommandLineAssumption DEF UpstreamOf
  <2> QED
    BY <1>6, <1>7, <2>1 DEF ServedBy
<1>9. ASSUME NEW taken \in Seq(DeclaredSocket), BuiltFrom(taken)
      PROVE  Merged(Append(taken, x), NewEntry.path) = {ServedBy(config', name)}
  <2>1. MeaningAt(config, x.path) = {}
    BY <1>1, MeaningAtIs DEF EntriesAt
  <2>2. Merged(taken, x.path) = {}
    BY <1>4, <1>9, <2>1 DEF BuiltFrom
  <2> HIDE DEF x
  <2>3. Merged(Append(taken, x), x.path)
           = {[path |-> x.path, upstream |-> x.upstream, filters |-> AsGroups(x.filters)]}
    BY ONLY <1>3, <2>2, MergedAppend
  <2> QED
    BY ONLY <1>6, <1>8, <2>3
<1> QED
  BY <1>1, <1>2, <1>3, <1>5, <1>6, <1>9, OneMoreTaken

LEMMA LoadStart == TypeOK /\ ReadInv /\ EndOfArgs => LoadInv'
<1> SUFFICES ASSUME TypeOK, ReadInv, EndOfArgs PROVE LoadInv'
  OBVIOUS
<1>1. /\ phase = "parse" /\ phase' = "load" /\ groups' = WithGroup(WithSpec) /\ groups' # << >>
      /\ env' = env /\ args' = args /\ pending' = Sockets(groups')
      /\ config' = [upstream |-> groups'[1].upstream, sockets |-> << >>]
  BY DEF EndOfArgs, Sockets
<1>2. Declared(env, args) = pending' /\ pending' \in Seq(DeclaredSocket)
  <2>1. groups' \in FullGroups
    BY <1>1, WithSpecType, WithGroupType
  <2> QED
    BY <1>1, <2>1, FinishedAreDeclared, SocketsType
<1>3. DOMAIN config'.sockets = {}
  BY <1>1
<1>4. OneEntryPerPath'
  BY <1>3 DEF OneEntryPerPath
<1>5. \A path \in Paths : MeaningAt(config', path) = Merged(<< >>, path)
  <2>1. \A path \in Paths : MeaningAt(config', path) = {}
    BY <1>3, MeaningAtIs
  <2> QED
    BY <2>1, MergedNothing
<1>6. << >> \in Seq(DeclaredSocket) /\ << >> \o pending' = pending'
  BY <1>2, AppendAsConcat
<1>7. \E taken \in Seq(DeclaredSocket) : Declared(env, args) = taken \o pending' /\ BuiltFrom(taken)'
  <2> DEFINE none == << >>
  <2>1. none \in Seq(DeclaredSocket) /\ Declared(env, args) = none \o pending'
    BY <1>2, <1>6
  <2>2. \A path \in Paths : MeaningAt(config', path) = Merged(none, path)
    BY <1>5
  <2> HIDE DEF none
  <2> QED
    BY <2>1, <2>2 DEF BuiltFrom
<1> QED
  BY <1>1, <1>4, <1>7 DEF LoadInv

LEMMA LoadStep == TypeOK /\ ReadInv /\ LoadInv /\ [Next]_vars => LoadInv'
<1> SUFFICES ASSUME TypeOK, ReadInv, LoadInv, [Next]_vars PROVE LoadInv'
  OBVIOUS
<1>1. ASSUME phase' \notin {"load", "loaded"} PROVE LoadInv'
  BY <1>1 DEF LoadInv
<1>2. ASSUME NEW t \in Args, NextArg(t) PROVE LoadInv'
  BY <1>1, <1>2 DEF NextArg
<1>3. ASSUME NEW t \in Args, TakeUpstream(t) \/ TakeSocket(t) \/ TakeWord(t) \/ SkipArg(t)
      PROVE  LoadInv'
  BY <1>2, <1>3 DEF TakeUpstream, TakeSocket, TakeWord, SkipArg
<1>4. CASE Loaded
  <2>1. /\ phase = "load" /\ phase' = "loaded" /\ pending = << >>
        /\ UNCHANGED <<env, args, groups, pending, config>>
    BY <1>4 DEF Loaded
  <2> QED
    BY <2>1 DEF LoadInv, OneEntryPerPath, BuiltFrom
<1>5. CASE LoadFile
  <2>1. phase' = "loaded" /\ groups' = groups /\ WithGroup(WithSpec) = << >>
    BY <1>5 DEF LoadFile
  <2>2. groups = << >>
    <3>1. groups \in FullGroups
      BY DEF TypeOK, FullGroups
    <3>2. \A g \in UpstreamGroup \cup {NoGroup} :
             WithGroup(g) = groups
               \/ (g \in UpstreamGroup /\ g.sockets # << >> /\ WithGroup(g) = Append(groups, g))
      BY DEF WithGroup
    <3>3. \A g \in UpstreamGroup : g.sockets # << >> => Append(groups, g) # << >>
      <4>1. ASSUME NEW g \in UpstreamGroup, g.sockets # << >> PROVE Append(groups, g) # << >>
        <5>1. Append(groups, g)[Len(groups) + 1] = g /\ Len(Append(groups, g)) = Len(groups) + 1
          BY <3>1, <4>1 DEF FullGroups
        <5>2. Len(groups) \in Nat /\ Len(<< >>) = 0
          BY <3>1 DEF FullGroups
        <5> QED
          BY <5>1, <5>2
      <4> QED
        BY <4>1
    <3> QED
      BY <2>1, <3>2, <3>3, WithSpecType
  <2> QED
    BY <2>1, <2>2 DEF LoadInv
<1>6. CASE PrintConfig \/ ConfigCommand
  BY <1>1, <1>6 DEF PrintConfig, ConfigCommand
<1>7. CASE UNCHANGED vars
  BY <1>7 DEF vars, LoadInv, OneEntryPerPath, BuiltFrom
<1> QED
  BY <1>3, <1>4, <1>5, <1>6, <1>7, LoadStart, LoadMerge, LoadAdd DEF Next

IInv == TypeOK /\ ReadInv /\ LoadInv

LEMMA IInvHolds == Spec => []IInv
<1>1. Init => IInv
  BY TypeInit, ReadInit DEF IInv, LoadInv, Init
<1>2. IInv /\ [Next]_vars => IInv'
  BY TypeStep, ReadStep, LoadStep DEF IInv
<1> QED
  BY <1>1, <1>2, PTL DEF Spec

(***************************************************************************)
(* Whatever the order of the arguments, and whichever file stems the paths *)
(* share: the table that load_configuration builds serves, at each path,   *)
(* what the command line as a whole asks for there, and nothing elsewhere, *)
(* if the path is below one upstream only and no "-v" is among its filters. *)
(***************************************************************************)
THEOREM ConfigDeclared == Spec => []ConfigIsAsDeclared
<1>1. IInv => ConfigIsAsDeclared
  <2> SUFFICES ASSUME TypeOK, LoadInv, phase = "loaded", groups # << >>,
                      NEW path \in Paths, Unambiguous(Declared(env, args), path)
               PROVE  {m \in Meaning(config) : m.path = path} = Wanted(Declared(env, args), path)
    BY DEF IInv, ConfigIsAsDeclared
  <2>1. PICK taken \in Seq(DeclaredSocket) : Declared(env, args) = taken \o pending /\ BuiltFrom(taken)
    BY DEF LoadInv
  <2>2. pending = << >>
    BY DEF LoadInv
  <2>3. Declared(env, args) = taken
    BY <2>1, <2>2, AppendAsConcat
  <2>4. Wanted(taken, path) = Merged(taken, path)
    BY <2>3, MergedIsWanted
  <2> QED
    BY <2>1, <2>3, <2>4 DEF BuiltFrom, MeaningAt
<1> QED
  BY <1>1, IInvHolds, PTL

-----------------------------------------------------------------------------
(***************************************************************************)
(* What a printed line declares.                                           *)
(***************************************************************************)

(* The upstream in force behind all of a line. *)
UpstreamAfter(first, line) == UpstreamFor(first, line, Len(line) + 1)

Line(path, words) ==
    <<[kind |-> "socket", arg |-> path]>>
        \o [i \in 1..Len(words) |-> [kind |-> "word", arg |-> words[i]]]

(* `line` is `begin`, a socket of `path`, and its filters. *)
Continues(first, begin, path, line, filters) ==
    LET b == Len(begin) + 1
    IN  /\ line \in Seq(Args) /\ b \in 1..Len(line) /\ line[b] = [kind |-> "socket", arg |-> path]
        /\ Open(line, b)
        /\ DeclaredUpto(first, line)[b - 1] = Declared(first, begin)
        /\ FiltersFor(line, b) = filters
        /\ UpstreamFor(first, line, b) = UpstreamAfter(first, begin)
        /\ UpstreamAfter(first, line) = UpstreamAfter(first, begin)

LEMMA SocketBegins ==
    ASSUME NEW first \in Upstreams \cup {NoUpstream}, NEW begin \in Seq(Args), NEW path \in Paths
    PROVE  Continues(first, begin, path, Append(begin, [kind |-> "socket", arg |-> path]), << >>)
<1> DEFINE t == [kind |-> "socket", arg |-> path]
           line == Append(begin, t)
           N == Len(begin)
<1>1. t \in Args /\ t.kind = "socket"
  BY DEF Args
<1> HIDE DEF t
<1>2. /\ line \in Seq(Args) /\ N \in Nat /\ Len(line) = N + 1 /\ line[N + 1] = t
      /\ N + 1 \in 1..Len(line) /\ (N + 1) - 1 = N /\ Len(line) + 1 = N + 2
      /\ N + 1 \in 1..(N + 1)
  BY <1>1, LineAppend
<1>3. Open(line, N + 1)
  BY <1>1, OpenAppend
<1>4. DeclaredUpto(first, line)[N] = Declared(first, begin)
  <2>1. \A i \in 1..N : begin[i].kind = "socket" => t.kind # "word" \/ ~Open(begin, i)
    BY <1>1
  <2>2. N \in 0..N
    BY <1>2
  <2>3. \A i \in 0..N : DeclaredUpto(first, Append(begin, t))[i] = DeclaredUpto(first, begin)[i]
    BY <1>1, <2>1, <2>2, DeclaredFrame
  <2> QED
    BY <2>2, <2>3 DEF Declared
<1>5. FiltersFor(line, N + 1) = << >>
  <2>1. FiltersFor(line, Len(line)) = << >>
    BY <1>2, NoFilters
  <2> QED
    BY <1>2, <2>1
<1>6. /\ UpstreamFor(first, line, N + 1) = UpstreamFor(first, begin, N + 1)
      /\ UpstreamFor(first, line, N + 2) = UpstreamFor(first, begin, N + 1)
  BY <1>1, <1>2, UpstreamAppend
<1> HIDE DEF line
<1>7. Continues(first, begin, path, line, << >>)
  BY <1>2, <1>3, <1>4, <1>5, <1>6 DEF Continues, UpstreamAfter, t
<1> QED
  BY <1>7 DEF line, t

LEMMA WordContinues ==
    ASSUME NEW first \in Upstreams \cup {NoUpstream}, NEW begin \in Seq(Args), NEW path \in Paths,
           NEW line, NEW filters, Continues(first, begin, path, line, filters), NEW w \in Words
    PROVE  Continues(first, begin, path, Append(line, [kind |-> "word", arg |-> w]), Append(filters, w))
<1> DEFINE t == [kind |-> "word", arg |-> w]
           more == Append(line, t)
           b == Len(begin) + 1
           N == Len(line)
<1>1. t \in Args /\ t.kind = "word" /\ t.arg = w
  BY DEF Args
<1> HIDE DEF t
<1>2. /\ line \in Seq(Args) /\ b \in 1..N /\ line[b] = [kind |-> "socket", arg |-> path]
      /\ Open(line, b) /\ DeclaredUpto(first, line)[b - 1] = Declared(first, begin)
      /\ FiltersFor(line, b) = filters
      /\ UpstreamFor(first, line, b) = UpstreamAfter(first, begin)
      /\ UpstreamFor(first, line, N + 1) = UpstreamAfter(first, begin)
  BY DEF Continues, UpstreamAfter
<1>3. b \in Nat /\ b # 0
  BY DEF b
<1> HIDE DEF b
<1>4. /\ more \in Seq(Args) /\ N \in Nat /\ Len(more) = N + 1 /\ more[b] = line[b]
      /\ b \in 1..Len(more) /\ Len(more) + 1 = N + 2 /\ b \in 1..(N + 1)
  BY <1>1, <1>2, LineAppend
<1>5. Open(more, b)
  BY <1>1, <1>2, OpenAppend
<1>6. FiltersFor(more, b) = Append(filters, w)
  BY <1>1, <1>2, FiltersAppend
<1>7. /\ UpstreamFor(first, more, b) = UpstreamFor(first, line, b)
      /\ UpstreamFor(first, more, N + 2) = UpstreamFor(first, line, N + 1)
  BY <1>1, <1>2, <1>4, UpstreamAppend
<1>8. DeclaredUpto(first, more)[b - 1] = DeclaredUpto(first, line)[b - 1]
  <2> DEFINE n == b - 1
  <2>1. n \in 0..N /\ n \in 0..n
    BY <1>2, <1>4
  <2>2. ASSUME NEW i \in 1..n, line[i].kind = "socket" PROVE ~Open(line, i)
    <3>1. b \in (i + 1)..N
      BY <1>2, <1>4
    <3> QED
      BY <1>2, <3>1 DEF Open
  <2> HIDE DEF n
  <2>3. \A i \in 0..n : DeclaredUpto(first, Append(line, t))[i] = DeclaredUpto(first, line)[i]
    BY <1>1, <1>2, <2>1, <2>2, DeclaredFrame
  <2> QED
    BY <2>1, <2>3 DEF n
<1> HIDE DEF more
<1>9. Continues(first, begin, path, more, Append(filters, w))
  BY <1>2, <1>4, <1>5, <1>6, <1>7, <1>8 DEF Continues, UpstreamAfter, b
<1> QED
  BY <1>9 DEF more, t

LEMMA LineContinues ==
    ASSUME NEW first \in Upstreams \cup {NoUpstream}, NEW begin \in Seq(Args), NEW path \in Paths,
           NEW words \in Seq(Words)
    PROVE  Continues(first, begin, path, begin \o Line(path, words), words)
<1> DEFINE t == [kind |-> "socket", arg |-> path]
           ws == [i \in 1..Len(words) |-> [kind |-> "word", arg |-> words[i]]]
           head == Append(begin, t)
           n == Len(words)
           T == {k \in 0..n : Continues(first, begin, path, head \o SubSeq(ws, 1, k), SubSeq(words, 1, k))}
<1>1. n \in Nat /\ t \in Args
  BY DEF Args
<1>2. ws \in Seq(Args) /\ Len(ws) = n /\ \A k \in 1..n : ws[k] = [kind |-> "word", arg |-> words[k]]
  <2>1. ASSUME NEW i \in 1..n PROVE [kind |-> "word", arg |-> words[i]] \in Args
    <3>1. words[i] \in Words
      OBVIOUS
    <3> QED
      BY <3>1 DEF Args
  <2> QED
    BY <1>1, <2>1
<1>3. head \in Seq(Args)
  BY <1>1
<1> HIDE DEF ws, t
<1>4. 0 \in T
  <2>1. SubSeq(ws, 1, 0) = << >> /\ SubSeq(words, 1, 0) = << >>
    BY <1>2
  <2>2. head \o << >> = head
    BY <1>3, AppendAsConcat
  <2>3. Continues(first, begin, path, head, << >>)
    BY SocketBegins DEF t
  <2> HIDE DEF head
  <2>4. Continues(first, begin, path, head \o SubSeq(ws, 1, 0), SubSeq(words, 1, 0))
    BY <2>1, <2>2, <2>3
  <2> QED
    BY <1>1, <2>4
<1> HIDE DEF head
<1>5. ASSUME NEW k \in 0..(n - 1), k \in T PROVE k + 1 \in T
  <2>1. k + 1 \in 1..n /\ k + 1 \in 0..n /\ k \in 0..(Len(ws) - 1)
    BY <1>1, <1>2
  <2>2. Continues(first, begin, path, head \o SubSeq(ws, 1, k), SubSeq(words, 1, k))
    BY <1>5
  <2>3. /\ SubSeq(ws, 1, k) \in Seq(Args) /\ ws[k + 1] \in Args
        /\ SubSeq(ws, 1, k + 1) = Append(SubSeq(ws, 1, k), ws[k + 1])
    BY <1>2, <2>1, PrefixGrows
  <2>4. words[k + 1] \in Words /\ SubSeq(words, 1, k + 1) = Append(SubSeq(words, 1, k), words[k + 1])
    BY <1>1, <2>1, PrefixGrows
  <2>5. head \o SubSeq(ws, 1, k + 1) = Append(head \o SubSeq(ws, 1, k), ws[k + 1])
    BY <1>3, <2>3, AppendToConcat
  <2>6. ws[k + 1] = [kind |-> "word", arg |-> words[k + 1]]
    BY <1>2, <2>1
  <2>7. Continues(first, begin, path, head \o SubSeq(ws, 1, k + 1), SubSeq(words, 1, k + 1))
    BY <2>2, <2>4, <2>5, <2>6, WordContinues
  <2> QED
    BY <2>1, <2>7
<1> HIDE DEF T
<1>6. n \in T
  <2>1. \A k \in 0..n : k \in T
    BY <1>1, <1>4, <1>5, BoundedInduction
  <2> QED
    BY <1>1, <2>1
<1>7. SubSeq(ws, 1, n) = ws /\ SubSeq(words, 1, n) = words
  BY <1>1, <1>2
<1>8. head \o ws = begin \o Line(path, words)
  <2>1. <<t>> \in Seq(Args)
    BY <1>1
  <2>2. (begin \o <<t>>) \o ws = begin \o (<<t>> \o ws)
    BY <1>2, <2>1, ConcatAssociates
  <2>3. head = begin \o <<t>>
    BY <1>1, AppendAsConcat DEF head
  <2>4. Line(path, words) = <<t>> \o ws
    BY DEF Line, t, ws
  <2> QED
    BY <2>2, <2>3, <2>4
<1>9. Continues(first, begin, path, head \o SubSeq(ws, 1, n), SubSeq(words, 1, n))
  BY <1>6 DEF T
<1> QED
  BY <1>7, <1>8, <1>9

(* One printed line more is one socket more. *)
LEMMA LineDeclares ==
    ASSUME NEW first \in Upstreams \cup {NoUpstream}, NEW begin \in Seq(Args), NEW path \in Paths,
           NEW words \in Seq(Words), NEW u \in Upstreams, UpstreamAfter(first, begin) = u
    PROVE  /\ begin \o Line(path, words) \in Seq(Args)
           /\ UpstreamAfter(first, begin \o Line(path, words)) = u
           /\ Declared(first, begin \o Line(path, words))
                = Append(Declared(first, begin), [upstream |-> u, path |-> path, filters |-> words])
<1> DEFINE line == begin \o Line(path, words)
           b == Len(begin) + 1
           d == DeclaredUpto(first, line)
<1>1. Continues(first, begin, path, line, words)
  BY LineContinues
<1> HIDE DEF line
<1>2. /\ line \in Seq(Args) /\ b \in 1..Len(line) /\ line[b] = [kind |-> "socket", arg |-> path]
      /\ Open(line, b) /\ d[b - 1] = Declared(first, begin) /\ FiltersFor(line, b) = words
      /\ UpstreamFor(first, line, b) = u /\ UpstreamAfter(first, line) = u
  BY <1>1 DEF Continues
<1> HIDE DEF b
<1>3. d[Len(line)] = d[b]
  BY <1>2, OpenIsLast
<1>4. d[b] = IF IsDeclared(first, line, b) THEN Append(d[b - 1], SocketAt(first, line, b)) ELSE d[b - 1]
  BY <1>2, DeclaredSteps
<1>5. IsDeclared(first, line, b)
  BY <1>2, CommandLineAssumption DEF IsDeclared
<1>6. SocketAt(first, line, b) = [upstream |-> u, path |-> path, filters |-> words]
  BY <1>2 DEF SocketAt
<1>7. Declared(first, line) = Append(Declared(first, begin), [upstream |-> u, path |-> path, filters |-> words])
  BY <1>2, <1>3, <1>4, <1>5, <1>6 DEF Declared
<1> QED
  BY <1>2, <1>7 DEF line

(***************************************************************************)
(* A line covers some of the entries of a configuration: at each path it   *)
(* asks for what those of them serve that have this path.                  *)
(***************************************************************************)
Covers(first, c, line, done) ==
    \A path : Merged(Declared(first, line), path)
                = {ServedBy(c, n) : n \in {k \in done : c.sockets[k].path = path}}

LEMMA DeclaredType ==
    ASSUME NEW first \in Upstreams \cup {NoUpstream}, NEW line \in Seq(Args)
    PROVE  Declared(first, line) \in Seq(DeclaredSocket)
<1>1. DeclaredUpto(first, line) \in [0..Len(line) -> Seq(DeclaredSocket)] /\ Len(line) \in 0..Len(line)
  BY DeclaredSteps
<1> QED
  BY <1>1 DEF Declared

(* What one printed line more asks for. *)
Asked(first, begin, line, path, u, words) ==
    /\ line \in Seq(Args) /\ UpstreamAfter(first, line) = u
    /\ \A other : other # path =>
          Merged(Declared(first, line), other) = Merged(Declared(first, begin), other)
    /\ Merged(Declared(first, begin), path) = {} =>
          Merged(Declared(first, line), path) =
             {[path |-> path, upstream |-> u, filters |-> AsGroups(words)]}
    /\ \A m \in Merged(Declared(first, begin), path) :
          Merged(Declared(first, line), path) =
             {[path |-> path, upstream |-> m.upstream, filters |-> m.filters \o AsGroups(words)]}

LEMMA LineAsks ==
    ASSUME NEW first \in Upstreams \cup {NoUpstream}, NEW begin \in Seq(Args), NEW path \in Paths,
           NEW words \in Seq(Words), NEW u \in Upstreams, UpstreamAfter(first, begin) = u
    PROVE  Asked(first, begin, begin \o Line(path, words), path, u, words)
<1> DEFINE x == [upstream |-> u, path |-> path, filters |-> words]
           list == Declared(first, begin)
           line == begin \o Line(path, words)
<1>1. x \in DeclaredSocket /\ x.path = path /\ x.upstream = u /\ x.filters = words
  BY DEF DeclaredSocket
<1>2. list \in Seq(DeclaredSocket)
  BY DeclaredType
<1>3. line \in Seq(Args) /\ UpstreamAfter(first, line) = u /\ Declared(first, line) = Append(list, x)
  <2> HIDE DEF x, list, line
  <2>1. /\ begin \o Line(path, words) \in Seq(Args)
        /\ UpstreamAfter(first, begin \o Line(path, words)) = u
        /\ Declared(first, begin \o Line(path, words))
             = Append(Declared(first, begin), [upstream |-> u, path |-> path, filters |-> words])
    <3>1. /\ first \in Upstreams \cup {NoUpstream} /\ begin \in Seq(Args) /\ path \in Paths
          /\ words \in Seq(Words) /\ u \in Upstreams /\ UpstreamAfter(first, begin) = u
      OBVIOUS
    <3> QED
      BY ONLY <3>1, LineDeclares, Z3T(60)
  <2> QED
    BY ONLY <2>1 DEF x, list, line
<1> HIDE DEF x, list, line
<1>4. /\ \A other : other # x.path => Merged(Append(list, x), other) = Merged(list, other)
      /\ Merged(list, x.path) = {} =>
            Merged(Append(list, x), x.path) =
               {[path |-> x.path, upstream |-> x.upstream, filters |-> AsGroups(x.filters)]}
      /\ \A m \in Merged(list, x.path) :
            Merged(Append(list, x), x.path) =
               {[path |-> x.path, upstream |-> m.upstream, filters |-> m.filters \o AsGroups(x.filters)]}
  BY <1>1, <1>2, MergedAppend
<1>5. /\ \A other : other # path => Merged(Append(list, x), other) = Merged(list, other)
      /\ Merged(list, path) = {} =>
            Merged(Append(list, x), path) =
               {[path |-> path, upstream |-> u, filters |-> AsGroups(words)]}
      /\ \A m \in Merged(list, path) :
            Merged(Append(list, x), path) =
               {[path |-> path, upstream |-> m.upstream, filters |-> m.filters \o AsGroups(words)]}
  BY <1>1, <1>4
<1> QED
  BY <1>3, <1>5 DEF Asked, list, line

LEMMA ArgsAssociate ==
    ASSUME NEW s \in Seq(Args), NEW t \in Seq(Args), NEW u \in Seq(Args)
    PROVE  (s \o t) \o u = s \o (t \o u)
  BY ConcatAssociates

(* The lines of one socket. *)
AskedAll(first, begin, line, e, u) ==
    /\ line \in Seq(Args) /\ UpstreamAfter(first, line) = u
    /\ \A other : other # e.path =>
          Merged(Declared(first, line), other) = Merged(Declared(first, begin), other)
    /\ Merged(Declared(first, line), e.path) =
          {[path |-> e.path, upstream |-> u, filters |-> e.filters]}

LEMMA SocketArgsAsk ==
    ASSUME NEW first \in Upstreams \cup {NoUpstream}, NEW begin \in Seq(Args), NEW e \in SocketEntry,
           << >> \notin ToSet(e.filters), NEW u \in Upstreams, UpstreamAfter(first, begin) = u,
           Merged(Declared(first, begin), e.path) = {},
           NEW line, line = begin \o SocketArgs(e)
    PROVE  AskedAll(first, begin, line, e, u)
<1> DEFINE p == e.path
           fs == e.filters
           n == Len(fs)
           parts == [k \in 1..n |-> Line(p, fs[k])]
<1>1. p \in Paths /\ fs \in Seq(Seq(Words)) /\ n \in Nat
  BY DEF SocketEntry
<1>2. SocketArgs(e) = IF fs = << >> THEN Line(p, << >>) ELSE FlattenSeq(parts)
  BY DEF SocketArgs, Line
<1>3. CASE fs = << >>
  <2>1. << >> \in Seq(Words) /\ AsGroups(<< >>) = << >>
    BY DEF AsGroups
  <2>2. line = begin \o Line(p, << >>)
    BY <1>2, <1>3
  <2> DEFINE none == << >>
  <2> HIDE DEF none, p
  <2>3. none \in Seq(Words) /\ line = begin \o Line(p, none) /\ AsGroups(none) = fs
    BY <1>3, <2>1, <2>2 DEF none
  <2>4. Merged(Declared(first, begin), p) = {}
    BY DEF p
  <2> HIDE DEF fs, n
  <2>5. p \in Paths
    BY <1>1
  <2>6. Asked(first, begin, line, p, u, none)
    BY <2>3, <2>5, LineAsks
  <2>7. /\ line \in Seq(Args) /\ UpstreamAfter(first, line) = u
        /\ \A other : other # p =>
              Merged(Declared(first, line), other) = Merged(Declared(first, begin), other)
        /\ Merged(Declared(first, line), p) = {[path |-> p, upstream |-> u, filters |-> fs]}
    BY <2>3, <2>4, <2>6 DEF Asked
  <2> QED
    BY <2>7 DEF p, fs, AskedAll
<1>4. CASE fs # << >>
  <2>1. n \in Nat \ {0}
    BY <1>1, <1>4
  <2>2. ASSUME NEW k \in 1..n PROVE fs[k] \in Seq(Words) /\ AsGroups(fs[k]) = <<fs[k]>> /\ Line(p, fs[k]) \in Seq(Args)
    <3>1. fs[k] \in Seq(Words)
      BY <1>1
    <3>2. fs[k] # << >>
      BY <1>1 DEF ToSet
    <3>3. Line(p, fs[k]) \in Seq(Args)
      BY <1>1, <3>1, LineType DEF Line
    <3> QED
      BY <3>1, <3>2, <3>3 DEF AsGroups
  <2>3. parts \in Seq(Seq(Args)) /\ Len(parts) = n /\ \A k \in 1..n : parts[k] = Line(p, fs[k])
    BY <1>1, <2>2
  <2> HIDE DEF parts
  <2>4. PICK pre \in [0..n -> Seq(Args)] :
           /\ pre[0] = << >>
           /\ \A k \in 1..n : pre[k] = pre[k - 1] \o parts[k]
           /\ FlattenSeq(parts) = pre[n]
    <3>1. \E pre \in [0..Len(parts) -> Seq(Args)] :
             /\ pre[0] = << >>
             /\ \A k \in 1..Len(parts) : pre[k] = pre[k - 1] \o parts[k]
             /\ FlattenSeq(parts) = pre[Len(parts)]
      BY <2>3, FlattenPrefixes
    <3> QED
      BY <2>3, <3>1, Zenon
  <2> DEFINE at(k) == begin \o pre[k]
             Done(k) ==
                /\ at(k) \in Seq(Args) /\ UpstreamAfter(first, at(k)) = u
                /\ \A other : other # p =>
                      Merged(Declared(first, at(k)), other) = Merged(Declared(first, begin), other)
                /\ Merged(Declared(first, at(k)), p) =
                      IF k = 0 THEN {} ELSE {[path |-> p, upstream |-> u, filters |-> SubSeq(fs, 1, k)]}
             T == {k \in 0..n : Done(k)}
  <2>5. 0 \in T
    <3>1. at(0) = begin
      BY <2>4, AppendAsConcat
    <3> HIDE DEF at
    <3>2. Done(0)
      BY <3>1
    <3> HIDE DEF Done
    <3> QED
      BY <2>1, <3>2
  <2>6. ASSUME NEW h \in 0..(n - 1), h \in T PROVE h + 1 \in T
    <3> DEFINE k == h + 1
    <3>1. Done(h)
      BY <2>6
    <3>2. k \in 1..n /\ k \in 0..n /\ k - 1 = h /\ k # 0 /\ h \in 0..n
      BY <2>1
    <3>3. SubSeq(fs, 1, h) \in Seq(Seq(Words)) /\ SubSeq(fs, 1, k) = Append(SubSeq(fs, 1, h), fs[k])
      BY <1>1, PrefixGrows
    <3> HIDE DEF k
    <3>4. at(k) = at(h) \o Line(p, fs[k])
      <4>1. pre[k] = pre[h] \o Line(p, fs[k])
        BY <2>3, <2>4, <3>2
      <4>2. pre[h] \in Seq(Args) /\ Line(p, fs[k]) \in Seq(Args)
        BY <2>2, <3>2
      <4> DEFINE new == Line(p, fs[k])
      <4> HIDE DEF new
      <4>3. pre[k] = pre[h] \o new /\ new \in Seq(Args)
        BY <4>1, <4>2 DEF new
      <4>4. (begin \o pre[h]) \o new = begin \o (pre[h] \o new)
        BY <4>2, <4>3, ArgsAssociate
      <4>5. at(k) = at(h) \o new
        BY <4>3, <4>4
      <4> QED
        BY <4>5 DEF new
    <3> HIDE DEF at
    <3>5. Asked(first, at(h), at(k), p, u, fs[k])
      <4> HIDE DEF p, fs, n
      <4>1. at(h) \in Seq(Args) /\ UpstreamAfter(first, at(h)) = u /\ fs[k] \in Seq(Words) /\ p \in Paths
        BY <1>1, <2>2, <3>1, <3>2
      <4> QED
        BY <3>4, <4>1, LineAsks
    <3>6. Merged(Declared(first, at(k)), p) = {[path |-> p, upstream |-> u, filters |-> SubSeq(fs, 1, k)]}
      <4>1. CASE h = 0
        <5>1. SubSeq(fs, 1, h) = << >> /\ fs[k] \in Seq(Words)
          BY <1>1, <2>2, <3>2, <4>1
        <5>2. SubSeq(fs, 1, k) = <<fs[k]>>
          <6>1. SubSeq(fs, 1, k) = Append(<< >>, fs[k])
            BY <3>3, <5>1, Zenon
          <6>2. \A x : Append(<< >>, x) = <<x>>
            OBVIOUS
          <6> QED
            BY <6>1, <6>2, Zenon
        <5>3. Merged(Declared(first, at(h)), p) = {}
          BY <3>1, <4>1
        <5> QED
          BY <2>2, <3>2, <3>5, <5>2, <5>3, Zenon DEF Asked
      <4>2. CASE h # 0
        <5> DEFINE m == [path |-> p, upstream |-> u, filters |-> SubSeq(fs, 1, h)]
        <5>1. Merged(Declared(first, at(h)), p) = {m}
          BY <3>1, <4>2
        <5>2. m.upstream = u /\ m.filters = SubSeq(fs, 1, h)
          OBVIOUS
        <5> HIDE DEF m
        <5>3. Merged(Declared(first, at(k)), p) =
                 {[path |-> p, upstream |-> u, filters |-> SubSeq(fs, 1, h) \o AsGroups(fs[k])]}
          BY <3>5, <5>1, <5>2 DEF Asked
        <5>4. SubSeq(fs, 1, h) \o <<fs[k]>> = SubSeq(fs, 1, k)
          BY <2>2, <3>2, <3>3, AppendAsConcat
        <5> QED
          BY <2>2, <3>2, <5>3, <5>4, Zenon
      <4> QED
        BY <4>1, <4>2
    <3>7. Done(k)
      BY <3>1, <3>2, <3>5, <3>6 DEF Asked
    <3> HIDE DEF Done
    <3>8. k \in T
      BY <3>2, <3>7
    <3> QED
      BY <3>8 DEF k
  <2> HIDE DEF T
  <2>7. n \in T
    <3>1. \A k \in 0..n : k \in T
      BY <1>1, <2>5, <2>6, BoundedInduction
    <3> QED
      BY <1>1, <3>1
  <2>8. Done(n)
    BY <2>7 DEF T
  <2>9. line = at(n) /\ SubSeq(fs, 1, n) = fs
    BY <1>1, <1>2, <1>4, <2>4
  <2> HIDE DEF at
  <2> QED
    BY <2>1, <2>8, <2>9 DEF AskedAll
<1> QED
  BY <1>3, <1>4

LEMMA SocketCovers ==
    ASSUME NEW first \in Upstreams \cup {NoUpstream}, NEW c, IsConfig(c), Printable(c),
           NEW done, done \subseteq DOMAIN c.sockets, NEW n \in DOMAIN c.sockets, n \notin done,
           NEW u \in Upstreams, u = UpstreamOf(c, n),
           NEW begin \in Seq(Args), UpstreamAfter(first, begin) = u, Covers(first, c, begin, done),
           NEW line, line = begin \o SocketArgs(c.sockets[n])
    PROVE  line \in Seq(Args) /\ UpstreamAfter(first, line) = u /\ Covers(first, c, line, done \cup {n})
<1> DEFINE e == c.sockets[n]
           At(d, path) == {k \in d : c.sockets[k].path = path}
<1>1. e \in SocketEntry /\ << >> \notin ToSet(e.filters)
  BY DEF IsConfig, Printable
<1>2. At(done, e.path) = {}
  BY DEF Printable
<1>3. \A path : Merged(Declared(first, begin), path) = {ServedBy(c, k) : k \in At(done, path)}
  BY DEF Covers
<1>4. ServedBy(c, n) = [path |-> e.path, upstream |-> u, filters |-> e.filters]
  BY DEF ServedBy
<1>5. /\ At(done \cup {n}, e.path) = {n}
      /\ \A other : other # e.path => At(done \cup {n}, other) = At(done, other)
  BY <1>2
<1>6. Merged(Declared(first, begin), e.path) = {}
  BY <1>2, <1>3
<1> DEFINE p == e.path
           fs == e.filters
<1>7. /\ line \in Seq(Args) /\ UpstreamAfter(first, line) = u
      /\ \A other : other # p =>
            Merged(Declared(first, line), other) = Merged(Declared(first, begin), other)
      /\ Merged(Declared(first, line), p) = {[path |-> p, upstream |-> u, filters |-> fs]}
  <2> HIDE DEF e
  <2>1. line = begin \o SocketArgs(e)
    BY DEF e
  <2>2. AskedAll(first, begin, line, e, u)
    BY <1>1, <1>6, <2>1, SocketArgsAsk
  <2> QED
    BY <2>2 DEF AskedAll
<1> HIDE DEF At, e
<1>8. \A path : Merged(Declared(first, line), path) = {ServedBy(c, k) : k \in At(done \cup {n}, path)}
  <2>1. ASSUME NEW path PROVE Merged(Declared(first, line), path) = {ServedBy(c, k) : k \in At(done \cup {n}, path)}
    <3>1. CASE path = e.path
      BY <1>4, <1>5, <1>7, <3>1
    <3>2. CASE path # e.path
      BY <1>3, <1>5, <1>7, <3>2
    <3> QED
      BY <3>1, <3>2
  <2> QED
    BY <2>1
<1> QED
  BY <1>7, <1>8 DEF Covers, At

(* An enumeration names each element, and once. *)
LEMMA EnumerationOnto ==
    ASSUME NEW S, IsFiniteSet(S), NEW s \in SetToSeqs(S)
    PROVE  /\ \A x \in S : \E i \in 1..Len(s) : s[i] = x
           /\ \A i, j \in 1..Len(s) : s[i] = s[j] => i = j
<1> DEFINE n == Cardinality(S)
<1>1. n \in Nat /\ s \in [1..n -> S] /\ Len(s) = n /\ \A i, j \in 1..n : i # j => s[i] # s[j]
  BY FS_CardinalityType, EnumerationType DEF SetToSeqs
<1>2. s \in Injection(1..n, S)
  BY <1>1 DEF Injection, IsInjective
<1>3. Cardinality(1..n) = n
  BY <1>1, FS_Interval
<1>4. s \in Surjection(1..n, S)
  BY <1>2, <1>3, FS_Injection
<1>5. \A x \in S : \E i \in 1..n : s[i] = x
  BY <1>4 DEF Surjection
<1> QED
  BY <1>1, <1>5

LEMMA UpstreamDeclaresNothing ==
    ASSUME NEW first \in Upstreams \cup {NoUpstream}, NEW begin \in Seq(Args), NEW u \in Upstreams,
           NEW line, line = Append(begin, [kind |-> "upstream", arg |-> u])
    PROVE  line \in Seq(Args) /\ UpstreamAfter(first, line) = u /\ Declared(first, line) = Declared(first, begin)
<1> DEFINE t == [kind |-> "upstream", arg |-> u]
           N == Len(begin)
           up == UpstreamFor(first, begin, N + 1)
           e == DeclaredUpto(first, Append(begin, t))
<1>1. t \in Args /\ t.kind = "upstream" /\ t.arg = u
  BY DEF Args
<1> HIDE DEF t
<1>2. line = Append(begin, t)
  BY DEF t
<1>3. line \in Seq(Args) /\ N \in Nat /\ Len(line) = N + 1 /\ Len(line) + 1 = N + 2 /\ N \in 0..N
  BY <1>1, <1>2, LineAppend
<1>4. UpstreamFor(first, line, N + 2) = u
  BY <1>1, <1>2, UpstreamAppend
<1>5. e[N] = DeclaredUpto(first, begin)[N]
  <2>1. \A i \in 1..N : begin[i].kind = "socket" => t.kind # "word" \/ ~Open(begin, i)
    BY <1>1
  <2>2. \A i \in 0..N : DeclaredUpto(first, Append(begin, t))[i] = DeclaredUpto(first, begin)[i]
    BY <1>1, <1>3, <2>1, DeclaredFrame
  <2> QED
    BY <1>3, <2>2
<1>6. e[N + 1] = e[N]
  <2> HIDE DEF e, up
  <2>1. up = UpstreamFor(first, begin, N + 1) /\ e = DeclaredUpto(first, Append(begin, t))
    BY DEF e, up
  <2>2. e[N + 1] = IF t.kind = "socket" /\ up # NoUpstream
                   THEN Append(e[N], [upstream |-> up, path |-> t.arg, filters |-> << >>]) ELSE e[N]
    BY <1>1, <2>1, DeclaredNext
  <2> QED
    BY <1>1, <2>2
<1> QED
  BY <1>2, <1>3, <1>4, <1>5, <1>6 DEF Declared, UpstreamAfter

(* The lines of one upstream. *)
LEMMA UpstreamCovers ==
    ASSUME NEW first \in Upstreams \cup {NoUpstream}, NEW c, IsConfig(c), Printable(c),
           NEW u \in Upstreams, NEW names \in SetToSeqs(Named(c, u)),
           NEW done, done \subseteq DOMAIN c.sockets, done \cap Named(c, u) = {},
           NEW begin \in Seq(Args), Covers(first, c, begin, done),
           NEW line, line = begin \o UpstreamArgs(c, u, names)
    PROVE  line \in Seq(Args) /\ Covers(first, c, line, done \cup Named(c, u))
<1> DEFINE n == Len(names)
           t == [kind |-> "upstream", arg |-> u]
           head == Append(begin, t)
           parts == [i \in 1..n |-> SocketArgs(c.sockets[names[i]])]
           these(i) == {names[j] : j \in 1..i}
<1>1. IsFiniteSet(Named(c, u)) /\ Named(c, u) \subseteq DOMAIN c.sockets
  <2>1. IsFiniteSet(DOMAIN c.sockets) /\ Named(c, u) \subseteq DOMAIN c.sockets
    BY DEF IsConfig, Named
  <2> QED
    BY <2>1, FS_Subset
<1>2. /\ names \in Seq(Named(c, u)) /\ n \in Nat
      /\ \A x \in Named(c, u) : \E i \in 1..n : names[i] = x
      /\ \A i, j \in 1..n : names[i] = names[j] => i = j
  BY <1>1, EnumerationType, EnumerationOnto
<1>3. ASSUME NEW i \in 1..n
      PROVE  /\ names[i] \in Named(c, u) /\ names[i] \in DOMAIN c.sockets /\ names[i] \notin done
             /\ UpstreamOf(c, names[i]) = u /\ SocketArgs(c.sockets[names[i]]) \in Seq(Args)
  <2>1. names[i] \in Named(c, u)
    BY <1>2
  <2>2. names[i] \in DOMAIN c.sockets /\ names[i] \notin done /\ UpstreamOf(c, names[i]) = u
    BY <1>1, <2>1 DEF Named
  <2>3. c.sockets[names[i]] \in SocketEntry
    BY <2>2 DEF IsConfig
  <2> QED
    BY <2>1, <2>2, <2>3, SocketArgsType
<1>4. parts \in Seq(Seq(Args)) /\ Len(parts) = n
      /\ \A i \in 1..n : parts[i] = SocketArgs(c.sockets[names[i]])
  <2>1. ASSUME NEW i \in 1..n PROVE SocketArgs(c.sockets[names[i]]) \in Seq(Args)
    BY <1>3
  <2> HIDE DEF n
  <2> QED
    BY <1>2, <2>1
<1>5. /\ head \in Seq(Args) /\ UpstreamAfter(first, head) = u
      /\ Declared(first, head) = Declared(first, begin)
  BY UpstreamDeclaresNothing
<1>6. t \in Args
  BY DEF Args
<1>7. line = head \o FlattenSeq(parts)
  <2>1. UpstreamArgs(c, u, names) = <<t>> \o FlattenSeq(parts)
    BY DEF UpstreamArgs
  <2> HIDE DEF parts, t
  <2>2. FlattenSeq(parts) \in Seq(Args) /\ <<t>> \in Seq(Args)
    BY <1>4, <1>6, FlattenType
  <2>3. (begin \o <<t>>) \o FlattenSeq(parts) = begin \o (<<t>> \o FlattenSeq(parts))
    BY <2>2, ArgsAssociate
  <2>4. head = begin \o <<t>>
    BY <1>6, AppendAsConcat
  <2> HIDE DEF head
  <2> QED
    BY <2>1, <2>3, <2>4, Zenon
<1> HIDE DEF parts, t, head
<1>8. PICK pre \in [0..n -> Seq(Args)] :
         /\ pre[0] = << >>
         /\ \A i \in 1..n : pre[i] = pre[i - 1] \o parts[i]
         /\ FlattenSeq(parts) = pre[n]
  <2>1. \E pre \in [0..Len(parts) -> Seq(Args)] :
           /\ pre[0] = << >>
           /\ \A i \in 1..Len(parts) : pre[i] = pre[i - 1] \o parts[i]
           /\ FlattenSeq(parts) = pre[Len(parts)]
    BY <1>4, FlattenPrefixes
  <2> QED
    BY <1>4, <2>1, Zenon
<1> DEFINE at(i) == head \o pre[i]
           Done(i) == /\ at(i) \in Seq(Args) /\ UpstreamAfter(first, at(i)) = u
                      /\ Covers(first, c, at(i), done \cup these(i))
           T == {i \in 0..n : Done(i)}
<1>9. 0 \in T
  <2>1. at(0) = head
    BY <1>5, <1>8, AppendAsConcat
  <2>2. done \cup these(0) = done
    OBVIOUS
  <2>3. Covers(first, c, head, done)
    BY <1>5 DEF Covers
  <2> HIDE DEF at, these
  <2>4. Done(0)
    BY <1>5, <2>1, <2>2, <2>3
  <2> HIDE DEF Done
  <2> QED
    BY <1>2, <2>4
<1>10. ASSUME NEW h \in 0..(n - 1), h \in T PROVE h + 1 \in T
  <2> DEFINE i == h + 1
             part == SocketArgs(c.sockets[names[i]])
  <2>1. Done(h)
    BY <1>10
  <2>2. i \in 1..n /\ i \in 0..n /\ i - 1 = h /\ h \in 0..n
    BY <1>2
  <2>3. these(i) = these(h) \cup {names[i]}
    <3>1. \A j : j \in 1..i <=> j \in 1..h \/ j = i
      BY <1>2
    <3> HIDE DEF i
    <3> QED
      BY <3>1
  <2>4. names[i] \notin these(h)
    <3>1. \A j \in 1..h : j \in 1..n /\ j # i
      BY <1>2
    <3> HIDE DEF i
    <3> QED
      BY <1>2, <2>2, <3>1
  <2>5. done \cup these(h) \subseteq DOMAIN c.sockets
    <3>1. \A j \in 1..h : j \in 1..n
      BY <1>2
    <3> QED
      BY <1>3, <3>1
  <2> HIDE DEF i
  <2>6. at(i) = at(h) \o part
    <3>1. pre[i] = pre[h] \o part /\ pre[h] \in Seq(Args) /\ part \in Seq(Args)
      BY <1>3, <1>4, <1>8, <2>2
    <3> HIDE DEF part
    <3>2. (head \o pre[h]) \o part = head \o (pre[h] \o part)
      BY <1>5, <3>1, ArgsAssociate
    <3> QED
      BY <3>1, <3>2
  <2> HIDE DEF at, these
  <2>7. /\ at(i) \in Seq(Args) /\ UpstreamAfter(first, at(i)) = u
        /\ Covers(first, c, at(i), (done \cup these(h)) \cup {names[i]})
    <3> DEFINE so_far == done \cup these(h)
               name == names[i]
    <3>1. /\ so_far \subseteq DOMAIN c.sockets /\ name \in DOMAIN c.sockets /\ name \notin so_far
          /\ UpstreamOf(c, name) = u
      BY <1>3, <2>2, <2>4, <2>5
    <3>2. /\ at(h) \in Seq(Args) /\ UpstreamAfter(first, at(h)) = u /\ Covers(first, c, at(h), so_far)
          /\ at(i) = at(h) \o SocketArgs(c.sockets[name])
      BY <2>1, <2>6
    <3> HIDE DEF so_far, name
    <3>3. /\ at(i) \in Seq(Args) /\ UpstreamAfter(first, at(i)) = u
          /\ Covers(first, c, at(i), so_far \cup {name})
      BY <3>1, <3>2, SocketCovers
    <3> QED
      BY <3>3 DEF so_far, name
  <2>8. (done \cup these(h)) \cup {names[i]} = done \cup these(i)
    BY <2>3
  <2>9. Done(i)
    BY <2>7, <2>8
  <2> HIDE DEF Done
  <2>10. i \in T
    BY <2>2, <2>9
  <2> QED
    BY <2>10 DEF i
<1> HIDE DEF T
<1>11. n \in T
  <2>1. \A i \in 0..n : i \in T
    BY <1>2, <1>9, <1>10, BoundedInduction
  <2> QED
    BY <1>2, <2>1
<1>12. Done(n)
  BY <1>11 DEF T
<1>13. these(n) = Named(c, u)
  <2>1. ASSUME NEW x \in these(n) PROVE x \in Named(c, u)
    BY <1>3
  <2>2. ASSUME NEW x \in Named(c, u) PROVE x \in these(n)
    BY <1>2
  <2> HIDE DEF these
  <2> QED
    BY <2>1, <2>2
<1> HIDE DEF these
<1> QED
  BY <1>7, <1>8, <1>12, <1>13

(* The whole line, upstream by upstream. *)
LEMMA PrintedCovers ==
    ASSUME NEW first \in Upstreams \cup {NoUpstream}, NEW c, IsConfig(c), c.upstream \in Upstreams,
           Printable(c), NEW us \in SetToSeqs(Used(c)), NEW order,
           \A u \in Used(c) : order[u] \in SetToSeqs(Named(c, u))
    PROVE  Covers(first, c, Printed(c, us, order), DOMAIN c.sockets)
<1> DEFINE n == Len(us)
           parts == [i \in 1..n |-> UpstreamArgs(c, us[i], order[us[i]])]
           these(i) == UNION {Named(c, us[j]) : j \in 1..i}
<1>1. IsFiniteSet(DOMAIN c.sockets) /\ \A u : Named(c, u) \subseteq DOMAIN c.sockets
  BY DEF IsConfig, Named
<1>2. IsFiniteSet(Used(c))
  <2> DEFINE f == [k \in DOMAIN c.sockets |-> UpstreamOf(c, k)]
  <2>1. f \in Surjection(DOMAIN c.sockets, Used(c))
    BY DEF Used, Surjection
  <2> QED
    BY <1>1, <2>1, FS_Surjection
<1>3. /\ us \in Seq(Used(c)) /\ n \in Nat
      /\ \A x \in Used(c) : \E i \in 1..n : us[i] = x
      /\ \A i, j \in 1..n : us[i] = us[j] => i = j
  BY <1>2, EnumerationType, EnumerationOnto
<1>4. ASSUME NEW i \in 1..n
      PROVE  us[i] \in Upstreams /\ order[us[i]] \in SetToSeqs(Named(c, us[i]))
  <2>1. us[i] \in Used(c)
    BY <1>3
  <2> QED
    BY <2>1, UpstreamOfType DEF Used
<1>5. ASSUME NEW i \in 1..n PROVE UpstreamArgs(c, us[i], order[us[i]]) \in Seq(Args)
  <2>1. IsFiniteSet(Named(c, us[i]))
    BY <1>1, FS_Subset
  <2>2. order[us[i]] \in Seq(Named(c, us[i]))
    BY <1>4, <2>1, EnumerationType
  <2>3. order[us[i]] \in Seq(DOMAIN c.sockets)
    BY <1>1, <2>2
  <2> QED
    BY <1>4, <2>3, UpstreamArgsType
<1>6. parts \in Seq(Seq(Args)) /\ Len(parts) = n
      /\ \A i \in 1..n : parts[i] = UpstreamArgs(c, us[i], order[us[i]])
  <2> HIDE DEF n
  <2> QED
    BY <1>3, <1>5
<1>7. Printed(c, us, order) = FlattenSeq(parts)
  BY DEF Printed
<1> HIDE DEF parts
<1>8. PICK pre \in [0..n -> Seq(Args)] :
         /\ pre[0] = << >>
         /\ \A i \in 1..n : pre[i] = pre[i - 1] \o parts[i]
         /\ FlattenSeq(parts) = pre[n]
  <2>1. \E pre \in [0..Len(parts) -> Seq(Args)] :
           /\ pre[0] = << >>
           /\ \A i \in 1..Len(parts) : pre[i] = pre[i - 1] \o parts[i]
           /\ FlattenSeq(parts) = pre[Len(parts)]
    BY <1>6, FlattenPrefixes
  <2> QED
    BY <1>6, <2>1, Zenon
<1> DEFINE T == {i \in 0..n : Covers(first, c, pre[i], these(i))}
<1>9. 0 \in T
  <2>1. these(0) = {}
    OBVIOUS
  <2>2. \A path : Merged(<< >>, path) = {}
    BY MergedNothing
  <2>3. Declared(first, << >>) = << >>
    BY ReadNothing
  <2>4. Covers(first, c, << >>, {})
    BY <2>2, <2>3 DEF Covers
  <2> HIDE DEF these
  <2>5. Covers(first, c, pre[0], these(0))
    BY <1>8, <2>1, <2>4, Zenon
  <2> QED
    BY <1>3, <2>5
<1>10. ASSUME NEW h \in 0..(n - 1), h \in T PROVE h + 1 \in T
  <2> DEFINE i == h + 1
             u == us[i]
  <2>1. Covers(first, c, pre[h], these(h))
    BY <1>10
  <2>2. i \in 1..n /\ i \in 0..n /\ i - 1 = h /\ h \in 0..n
    BY <1>3
  <2>3. these(i) = these(h) \cup Named(c, us[i])
    <3>1. \A j : j \in 1..i <=> j \in 1..h \/ j = i
      BY <1>3
    <3> HIDE DEF i
    <3> QED
      BY <3>1
  <2>4. these(h) \cap Named(c, us[i]) = {}
    <3>1. \A j \in 1..h : j \in 1..n /\ j # i
      BY <1>3
    <3> HIDE DEF i
    <3>2. \A j \in 1..h : us[j] # us[i]
      BY <1>3, <2>2, <3>1
    <3> QED
      BY <3>2 DEF Named
  <2>5. these(h) \subseteq DOMAIN c.sockets
    BY <1>1
  <2> HIDE DEF i
  <2>6. /\ pre[i] = pre[h] \o UpstreamArgs(c, u, order[u]) /\ pre[h] \in Seq(Args)
        /\ u \in Upstreams /\ order[u] \in SetToSeqs(Named(c, u))
    BY <1>4, <1>6, <1>8, <2>2
  <2> HIDE DEF these
  <2>7. Covers(first, c, pre[i], these(h) \cup Named(c, u))
    <3> HIDE DEF u
    <3>1. these(h) \cap Named(c, u) = {}
      BY <2>4 DEF u
    <3> QED
      BY <2>1, <2>5, <2>6, <3>1, UpstreamCovers
  <2>8. i \in T
    BY <2>2, <2>3, <2>7
  <2> QED
    BY <2>8 DEF i
<1> HIDE DEF T
<1>11. n \in T
  <2>1. \A i \in 0..n : i \in T
    BY <1>3, <1>9, <1>10, BoundedInduction
  <2> QED
    BY <1>3, <2>1
<1>12. Covers(first, c, pre[n], these(n))
  BY <1>11 DEF T
<1>13. these(n) = DOMAIN c.sockets
  <2>1. ASSUME NEW k \in DOMAIN c.sockets PROVE k \in these(n)
    <3>1. UpstreamOf(c, k) \in Used(c)
      BY DEF Used
    <3>2. PICK i \in 1..n : us[i] = UpstreamOf(c, k)
      BY <1>3, <3>1
    <3> QED
      BY <3>2 DEF Named
  <2>2. these(n) \subseteq DOMAIN c.sockets
    BY <1>1
  <2> HIDE DEF these
  <2> QED
    BY <2>1, <2>2
<1> HIDE DEF these
<1> QED
  BY <1>7, <1>8, <1>12, <1>13

-----------------------------------------------------------------------------
(***************************************************************************)
(* Round 2 reads what was printed for the configuration of round 1.        *)
(***************************************************************************)
Prints(c, line) ==
    \E us, order :
        /\ us \in SetToSeqs(Used(c)) /\ \A u \in Used(c) : order[u] \in SetToSeqs(Named(c, u))
        /\ line = Printed(c, us, order)

RoundInv ==
    /\ phase = "saved" => round = 1 /\ before = config
    /\ round = 2 =>
          /\ before.upstream \in Upstreams
          /\ Prints(before, args \o input)
          /\ phase # "parse" => input = << >> /\ groups # << >>

LEMMA RoundReads ==
    ASSUME TypeOK, RoundInv, NEW t \in Args, NextArg(t)
    PROVE  RoundInv'
<1>1. /\ args' = Append(args, t) /\ phase = "parse" /\ phase' = "parse" /\ round' = round
      /\ before' = before
  BY NextArgType
<1>2. args \in Seq(Args) /\ input \in Seq(Args)
  BY DEF TypeOK
<1>3. CASE round = 2
  <2>1. input # << >> /\ t = Head(input) /\ input' = Tail(input)
    BY <1>3 DEF NextArg
  <2>2. args' \o input' = args \o input
    <3>1. input = <<t>> \o Tail(input) /\ Tail(input) \in Seq(Args) /\ <<t>> \in Seq(Args)
      BY <1>2, <2>1
    <3>2. args' = args \o <<t>>
      BY <1>1, <1>2, AppendAsConcat
    <3>3. (args \o <<t>>) \o Tail(input) = args \o (<<t>> \o Tail(input))
      BY <1>2, <3>1, ArgsAssociate
    <3> QED
      BY <2>1, <3>1, <3>2, <3>3, Zenon
  <2> QED
    BY <1>1, <1>3, <2>2 DEF RoundInv
<1>4. CASE round # 2
  BY <1>1, <1>4 DEF RoundInv
<1> QED
  BY <1>3, <1>4

LEMMA RoundStep == TypeOK /\ LoadInv /\ RoundInv /\ [Next]_vars => RoundInv'
<1> SUFFICES ASSUME TypeOK, LoadInv, RoundInv, [Next]_vars PROVE RoundInv'
  OBVIOUS
<1>1. ASSUME NEW t \in Args, TakeUpstream(t) \/ TakeSocket(t) \/ TakeWord(t) \/ SkipArg(t)
      PROVE  RoundInv'
  <2>1. NextArg(t)
    BY <1>1 DEF TakeUpstream, TakeSocket, TakeWord, SkipArg
  <2> QED
    BY <2>1, RoundReads
<1>2. CASE EndOfArgs
  <2>1. /\ phase = "parse" /\ phase' = "load" /\ (round = 2 => input = << >>) /\ groups' # << >>
        /\ UNCHANGED <<round, args, input, before>>
    BY <1>2 DEF EndOfArgs
  <2> QED
    BY <2>1 DEF RoundInv
<1>3. CASE MergeSpec \/ AddSpec
  <2>1. /\ phase = "load" /\ phase' = "load" /\ UNCHANGED <<round, args, input, groups, before>>
    BY <1>3 DEF MergeSpec, AddSpec, NextSpec
  <2> QED
    BY <2>1 DEF RoundInv
<1>4. CASE Loaded
  <2>1. /\ phase = "load" /\ phase' = "loaded" /\ UNCHANGED <<round, args, input, groups, before>>
    BY <1>4 DEF Loaded
  <2> QED
    BY <2>1 DEF RoundInv
<1>5. CASE LoadFile
  <2>1. round = 1 /\ round' = 1 /\ phase' = "loaded"
    BY <1>5 DEF LoadFile
  <2> QED
    BY <2>1 DEF RoundInv
<1>6. CASE PrintConfig
  <2>1. round = 1 /\ round' = 1 /\ config' = config /\ before' = config
    BY <1>6, PrintConfigKeeps DEF PrintConfig
  <2> QED
    BY <2>1 DEF RoundInv
<1>7. CASE ConfigCommand
  <2>1. PICK us, order :
           /\ us \in SetToSeqs(Used(config))
           /\ \A u \in Used(config) : order[u] \in SetToSeqs(Named(config, u))
           /\ input' = Printed(config, us, order)
    BY <1>7 DEF ConfigCommand, Used, Named, Printed
  <2>2. /\ phase = "saved" /\ phase' = "parse" /\ args' = << >> /\ before' = before
        /\ before = config /\ config.upstream \in Upstreams
    BY <1>7 DEF ConfigCommand, ParserStart, RoundInv, TypeOK
  <2>3. input' \in Seq(Args)
    BY <2>1, <2>2, PrintedType DEF TypeOK
  <2>4. args' \o input' = input'
    BY <2>2, <2>3, AppendAsConcat
  <2>5. Prints(config, input')
    BY <2>1 DEF Prints
  <2>6. Prints(before, args' \o input')
    BY <2>2, <2>4, <2>5
  <2> QED
    BY <2>2, <2>6 DEF RoundInv
<1>8. CASE UNCHANGED vars
  BY <1>8 DEF vars, RoundInv
<1> QED
  BY <1>1, <1>2, <1>3, <1>4, <1>5, <1>6, <1>7, <1>8 DEF Next

(***************************************************************************)
(* The command line that `config command` prints for a configuration, read *)
(* again, gives a configuration that serves the same paths from the same   *)
(* upstreams through the same filters, in whichever order upstreams and    *)
(* sockets are printed and whatever SSH_AUTH_SOCK is.                      *)
(***************************************************************************)
THEOREM ConversionFaithful == Spec => []ConversionKeepsMeaning
<1>1. Init => RoundInv
  BY DEF Init, RoundInv
<1>2. IInv /\ RoundInv /\ [Next]_vars => RoundInv'
  BY RoundStep DEF IInv
<1>3. IInv /\ RoundInv => ConversionKeepsMeaning
  <2> SUFFICES ASSUME TypeOK, LoadInv, RoundInv, phase = "loaded", round = 2, Printable(before)
               PROVE  Meaning(config) = Meaning(before)
    BY DEF IInv, ConversionKeepsMeaning
  <2>1. /\ input = << >> /\ groups # << >> /\ before.upstream \in Upstreams /\ IsConfig(before)
        /\ IsConfig(config) /\ env \in Upstreams \cup {NoUpstream} /\ args \in Seq(Args)
    BY DEF RoundInv, TypeOK
  <2>2. PICK us, order :
           /\ us \in SetToSeqs(Used(before))
           /\ \A u \in Used(before) : order[u] \in SetToSeqs(Named(before, u))
           /\ args \o input = Printed(before, us, order)
    BY DEF RoundInv, Prints
  <2>3. args = Printed(before, us, order)
    BY <2>1, <2>2, AppendAsConcat
  <2>4. Covers(env, before, args, DOMAIN before.sockets)
    BY <2>1, <2>2, <2>3, PrintedCovers
  <2>5. PICK taken \in Seq(DeclaredSocket) : Declared(env, args) = taken \o pending /\ BuiltFrom(taken)
    BY <2>1 DEF LoadInv
  <2>6. Declared(env, args) = taken
    BY <2>1, <2>5, AppendAsConcat DEF LoadInv
  <2>7. \A path \in Paths : MeaningAt(config, path) = MeaningAt(before, path)
    BY <2>4, <2>5, <2>6, MeaningAtIs DEF BuiltFrom, Covers
  <2>8. ASSUME NEW c, IsConfig(c) PROVE \A m : m \in Meaning(c) <=> \E path \in Paths : m \in MeaningAt(c, path)
    <3>1. \A n \in DOMAIN c.sockets : c.sockets[n].path \in Paths
      BY <2>8 DEF IsConfig, SocketEntry
    <3>2. \A m \in Meaning(c) : m.path \in Paths
      BY <3>1 DEF Meaning
    <3> QED
      BY <3>2 DEF MeaningAt
  <2>9. \A m : m \in Meaning(config) <=> m \in Meaning(before)
    <3>1. /\ \A m : m \in Meaning(config) <=> \E path \in Paths : m \in MeaningAt(config, path)
          /\ \A m : m \in Meaning(before) <=> \E path \in Paths : m \in MeaningAt(before, path)
      BY <2>1, <2>8
    <3> QED
      BY <2>7, <3>1
  <2> HIDE DEF Meaning
  <2> QED
    BY <2>9
<1> QED
  BY <1>1, <1>2, <1>3, IInvHolds, PTL DEF Spec
=============================================================================
