------------------------- MODULE CompactRelayProofs -------------------------
(***************************************************************************)
(* Theorems about CompactRelay, for every set of signals: what a compact   *)
(* peer gets is what was sent exactly if that is regular, it has the same  *)
(* code again, and the lines that a connection needs are always in it.     *)
(*                                                                         *)
(* The loops over lines and words are functions of the number of rounds,   *)
(* or of the position, from the end; what they compute is proved by        *)
(* induction on it (CountUp, CountDown).  A text that is rewritten is cut  *)
(* before each phrase: no phrase arises where two pieces of the result     *)
(* meet (NothingNew), so that it is rewritten to itself again              *)
(* (ReplacedAgain) and its codes are taken back (PhrasesComeBack).  From   *)
(* there the argument goes by the candidate (CandidateComesBack,           *)
(* RegularComesBack, OnlyRegularComeBack), by the line (LineComesBack), by *)
(* the text (RestoredLines, RestoredAgain) to whole signals (CodeBack).    *)
(***************************************************************************)
EXTENDS CompactRelay, SequenceTheorems, FiniteSetTheorems, WellFoundedInduction, TLAPS

-----------------------------------------------------------------------------
(* Induction and loops.                                                    *)

(* What holds of 0 and of the successor of each number it holds of, holds  *)
(* of every number: a counterexample would have a least one.               *)
LEMMA CountUp ==
    ASSUME NEW T, 0 \in T, \A k \in T : k \in Nat => k + 1 \in T
    PROVE  Nat \subseteq T
<1> DEFINE U == {k \in Nat : k \notin T}
<1>1. SUFFICES ASSUME U # {} PROVE FALSE
  OBVIOUS
<1>2. U \subseteq Nat
  OBVIOUS
<1>3. PICK x \in U : \A y \in U : ~(<<y, x>> \in OpToRel(<, Nat))
  <2> HIDE DEF U
  <2> QED
    BY <1>1, <1>2, NatLessThanWellFounded, WFMin
<1>4. \A y \in U : ~(y < x)
  BY <1>2, <1>3 DEF OpToRel
<1>5. x # 0 /\ x \in Nat
  OBVIOUS
<1>6. x - 1 \in Nat /\ x - 1 < x /\ x = (x - 1) + 1
  BY <1>5
<1>7. x - 1 \in T
  BY <1>4, <1>6
<1> QED
  BY <1>6, <1>7

(* f has the states of a loop of n rounds, each computed from the last.    *)
IsLoop(f, n, S, start, round) ==
    /\ f \in [0 .. n -> S]
    /\ f[0] = start
    /\ \A i \in 1 .. n : f[i] = round[<<f[i - 1], i>>]

(* Such a loop ends.                                                       *)
LEMMA LoopEnds ==
    ASSUME NEW n \in Nat, NEW S, NEW start \in S, NEW round \in [S \X (1 .. n) -> S]
    PROVE  \E f : IsLoop(f, n, S, start, round)
<1> USE DEF IsLoop
<1> DEFINE T == {k \in Nat : k <= n => \E f : IsLoop(f, k, S, start, round)}
<1>1. 0 \in T
  <2>1. IsLoop([i \in 0 .. 0 |-> start], 0, S, start, round)
    OBVIOUS
  <2> QED
    BY <2>1
<1>2. ASSUME NEW k \in T, k \in Nat PROVE k + 1 \in T
  <2>1. SUFFICES ASSUME k + 1 <= n PROVE \E f : IsLoop(f, k + 1, S, start, round)
    OBVIOUS
  <2>2. PICK f : IsLoop(f, k, S, start, round)
    BY <1>2, <2>1
  <2> DEFINE g == [i \in 0 .. k + 1 |-> IF i = k + 1 THEN round[<<f[k], k + 1>>] ELSE f[i]]
  <2>3. round[<<f[k], k + 1>>] \in S
    <3>1. f[k] \in S /\ k + 1 \in 1 .. n
      BY <1>2, <2>1, <2>2
    <3> QED
      BY <3>1
  <2>4. g \in [0 .. k + 1 -> S]
    <3>1. \A i \in 0 .. k + 1 : i # k + 1 => i \in 0 .. k
      BY <1>2
    <3> QED
      BY <2>2, <2>3, <3>1
  <2>5. g[0] = start
    BY <1>2, <2>2
  <2>6. ASSUME NEW i \in 1 .. k + 1 PROVE g[i] = round[<<g[i - 1], i>>]
    <3>1. CASE i = k + 1
      <4>1. g[i] = round[<<f[k], k + 1>>]
        BY <1>2, <3>1
      <4>2. i - 1 = k /\ k \in 0 .. k + 1 /\ k # k + 1
        BY <1>2, <3>1
      <4> QED
        BY <3>1, <4>1, <4>2
    <3>2. CASE i # k + 1
      <4>1. i \in 1 .. k /\ i \in 0 .. k + 1 /\ i - 1 \in 0 .. k + 1 /\ i - 1 # k + 1
        BY <1>2, <3>2
      <4> QED
        BY <2>2, <3>2, <4>1
    <3> QED
      BY <3>1, <3>2
  <2> QED
    BY <2>4, <2>5, <2>6
<1>3. n \in T
  <2> HIDE DEF T
  <2> QED
    BY <1>1, <1>2, CountUp
<1> QED
  BY <1>3

(* The same downwards: what holds of a position if it holds of all later   *)
(* ones, holds of every position.                                          *)
LEMMA CountDown ==
    ASSUME NEW n \in Nat, NEW T,
           \A i \in 1 .. n + 1 : (\A j \in i + 1 .. n + 1 : j \in T) => i \in T
    PROVE  1 .. n + 1 \subseteq T
<1> DEFINE U == {k \in Nat : \A j \in 1 .. n + 1 : j > n + 1 - k => j \in T}
<1>1. 0 \in U
  OBVIOUS
<1>2. ASSUME NEW k \in U, k \in Nat PROVE k + 1 \in U
  <2>1. ASSUME NEW j \in 1 .. n + 1, j > n + 1 - (k + 1) PROVE j \in T
    <3>1. CASE j > n + 1 - k
      BY <3>1
    <3>2. CASE ~(j > n + 1 - k)
      <4>1. \A m \in j + 1 .. n + 1 : m \in 1 .. n + 1 /\ m > n + 1 - k
        BY <2>1, <3>2
      <4>2. \A m \in j + 1 .. n + 1 : m \in T
        BY <4>1
      <4> QED
        BY <4>2
    <3> QED
      BY <3>1, <3>2
  <2> QED
    BY <2>1
<1>3. n + 1 \in U
  <2> HIDE DEF U
  <2> QED
    BY <1>1, <1>2, CountUp
<1> QED
  BY <1>3

(* f has the states of a loop that goes back from the end and computes     *)
(* each state from a later one.                                            *)
IsLoopBack(f, n, S, end, jump, round) ==
    /\ f \in [1 .. n + 1 -> S]
    /\ f[n + 1] = end
    /\ \A i \in 1 .. n : f[i] = round[<<f[jump[i]], i>>]

(* Such a loop ends, too.                                                  *)
LEMMA LoopBackEnds ==
    ASSUME NEW n \in Nat, NEW S, NEW end \in S, NEW round \in [S \X (1 .. n) -> S],
           NEW jump, \A i \in 1 .. n : jump[i] \in i + 1 .. n + 1
    PROVE  \E f : IsLoopBack(f, n, S, end, jump, round)
<1> DEFINE P(f, k) == /\ f \in [n + 1 - k .. n + 1 -> S]
                      /\ f[n + 1] = end
                      /\ \A i \in n + 1 - k .. n : f[i] = round[<<f[jump[i]], i>>]
           T == {k \in Nat : k <= n => \E f : P(f, k)}
<1>1. 0 \in T
  <2>1. P([i \in n + 1 .. n + 1 |-> end], 0)
    OBVIOUS
  <2> QED
    BY <2>1
<1>2. ASSUME NEW k \in T, k \in Nat PROVE k + 1 \in T
  <2>1. SUFFICES ASSUME k + 1 <= n PROVE \E f : P(f, k + 1)
    OBVIOUS
  <2>2. PICK f : P(f, k)
    BY <1>2, <2>1
  <2> DEFINE m == n - k
             g == [i \in m .. n + 1 |-> IF i = m THEN round[<<f[jump[m]], m>>] ELSE f[i]]
  <2>3. m \in 1 .. n /\ n + 1 - k = m + 1 /\ n + 1 - (k + 1) = m
    BY <1>2, <2>1
  <2>4. jump[m] \in m + 1 .. n + 1 /\ f \in [m + 1 .. n + 1 -> S]
    BY <2>2, <2>3
  <2>5. f[jump[m]] \in S
    BY <2>4
  <2>6. round[<<f[jump[m]], m>>] \in S
    BY <2>3, <2>5
  <2>7. g \in [m .. n + 1 -> S]
    <3> HIDE DEF m
    <3>1. \A i \in m .. n + 1 : i # m => i \in m + 1 .. n + 1
      BY <2>3
    <3> QED
      BY <2>4, <2>6, <3>1
  <2>8. g[n + 1] = end
    <3> HIDE DEF m
    <3> QED
      BY <2>2, <2>3
  <2>9. ASSUME NEW i \in m .. n PROVE g[i] = round[<<g[jump[i]], i>>]
    <3> HIDE DEF m
    <3>1. i \in 1 .. n /\ i \in m .. n + 1
      BY <2>3
    <3>2. jump[i] \in i + 1 .. n + 1
      BY <3>1
    <3>3. jump[i] \in m .. n + 1 /\ jump[i] # m
      BY <2>3, <3>1, <3>2
    <3>4. g[jump[i]] = f[jump[i]]
      BY <3>3
    <3>5. CASE i = m
      BY <3>1, <3>4, <3>5
    <3>6. CASE i # m
      <4>1. i \in m + 1 .. n
        BY <2>3, <3>6
      <4>2. f[i] = round[<<f[jump[i]], i>>]
        BY <2>2, <2>3, <4>1
      <4> QED
        BY <3>1, <3>4, <3>6, <4>2
    <3> QED
      BY <3>5, <3>6
  <2> HIDE DEF g, m
  <2>10. P(g, k + 1)
    BY <2>3, <2>7, <2>8, <2>9
  <2> QED
    BY <2>10
<1>3. n \in T
  <2> HIDE DEF T
  <2> QED
    BY <1>1, <1>2, CountUp
<1>4. PICK f : P(f, n)
  BY <1>3
<1>5. n + 1 - n = 1
  OBVIOUS
<1> QED
  BY <1>4, <1>5 DEF IsLoopBack

-----------------------------------------------------------------------------
(* FlattenSeq.                                                             *)

IsFlattening(f, ss, X) ==
    /\ f \in [0 .. Len(ss) -> Seq(X)]
    /\ f[0] = <<>>
    /\ \A i \in 1 .. Len(ss) : f[i] = f[i - 1] \o ss[i]

(* FlattenSeq is a loop that joins one sequence after the other.           *)
LEMMA FlatteningExists ==
    ASSUME NEW X, NEW ss \in Seq(Seq(X))
    PROVE  \E f : IsFlattening(f, ss, X)
<1> DEFINE n == Len(ss)
           S == Seq(X)
           round == [p \in S \X (1 .. n) |-> p[1] \o ss[p[2]]]
<1>1. n \in Nat /\ DOMAIN ss = 1 .. n /\ <<>> \in S
  BY LenProperties
<1>2. \A i \in 1 .. n : ss[i] \in S
  BY <1>1
<1>3. round \in [S \X (1 .. n) -> S]
  <2> HIDE DEF n
  <2> QED
    BY <1>2
<1>4. PICK f : IsLoop(f, n, S, <<>>, round)
  <2> HIDE DEF round, S, n
  <2> QED
    BY <1>1, <1>3, LoopEnds
<1>5. ASSUME NEW i \in 1 .. n PROVE f[i] = f[i - 1] \o ss[i]
  <2> HIDE DEF S, n
  <2>1. i - 1 \in 0 .. n
    BY <1>1
  <2>2. <<f[i - 1], i>> \in S \X (1 .. n)
    BY <1>4, <2>1 DEF IsLoop
  <2> QED
    BY <1>4, <2>2 DEF IsLoop
<1>6. IsFlattening(f, ss, X)
  <2> HIDE DEF round
  <2> QED
    BY <1>4, <1>5 DEF IsLoop, IsFlattening
<1> QED
  BY <1>6

(* Whoever makes that loop has what FlattenSeq returns.                    *)
LEMMA FlatteningIs ==
    ASSUME NEW X, NEW ss \in Seq(Seq(X)), NEW f, IsFlattening(f, ss, X)
    PROVE  FlattenSeq(ss) = f[Len(ss)] /\ FlattenSeq(ss) \in Seq(X)
<1> DEFINE n == Len(ss)
           Body(g) == [i \in 1 .. n |-> IF i = 1 THEN ss[i] ELSE g[i - 1] \o ss[i]]
           flatten == CHOOSE g : g = Body(g)
<1>1. n \in Nat /\ DOMAIN ss = 1 .. n
  BY LenProperties
<1>2. f[n] \in Seq(X)
  BY <1>1 DEF IsFlattening
<1>3. CASE n = 0
  BY <1>1, <1>2, <1>3 DEF FlattenSeq, IsFlattening
<1>5. n # 0 => f[1] = ss[1]
  <2>1. SUFFICES ASSUME n # 0 PROVE f[1] = ss[1]
    OBVIOUS
  <2>2. 1 \in 1 .. n /\ 1 - 1 = 0
    BY <1>1, <2>1
  <2>3. f[1] = f[1 - 1] \o ss[1]
    BY <2>2 DEF IsFlattening
  <2>4. f[1] = <<>> \o ss[1] /\ ss[1] \in Seq(X)
    BY <1>1, <2>2, <2>3 DEF IsFlattening
  <2> QED
    BY <2>4
<1>4. CASE n # 0
  <2>1. FlattenSeq(ss) = flatten[n]
    BY <1>4 DEF FlattenSeq
  <2> DEFINE h == [i \in 1 .. n |-> f[i]]
  <2>2. h = Body(h)
    <3>1. ASSUME NEW i \in 1 .. n PROVE h[i] = IF i = 1 THEN ss[i] ELSE h[i - 1] \o ss[i]
      <4>1. CASE i = 1
        <5> QED
          BY <1>5, <4>1
      <4>2. CASE i # 1
        <5>1. i - 1 \in 1 .. n
          BY <1>1, <4>2
        <5> QED
          BY <4>2, <5>1 DEF IsFlattening
      <4> QED
        BY <4>1, <4>2
    <3> HIDE DEF n
    <3> QED
      BY <3>1
  <2>3. flatten = Body(flatten)
    <3>1. \E g : g = Body(g)
      BY <2>2
    <3> HIDE DEF Body
    <3> QED
      BY <3>1
  <2> HIDE DEF flatten
  <2> DEFINE T == {k \in Nat : k + 1 <= n => flatten[k + 1] = f[k + 1]}
  <2>4. 0 \in T
    <3>1. flatten[1] = ss[1]
      BY <1>1, <1>4, <2>3
    <3> QED
      BY <1>4, <1>5, <3>1
  <2>5. ASSUME NEW k \in T, k \in Nat PROVE k + 1 \in T
    <3>1. SUFFICES ASSUME (k + 1) + 1 <= n PROVE flatten[(k + 1) + 1] = f[(k + 1) + 1]
      OBVIOUS
    <3>2. flatten[k + 1] = f[k + 1]
      BY <1>1, <2>5, <3>1
    <3>3. /\ (k + 1) + 1 \in 1 .. n /\ (k + 1) + 1 # 1 /\ ((k + 1) + 1) - 1 = k + 1
      BY <1>1, <2>5, <3>1
    <3>4. flatten[(k + 1) + 1] = flatten[k + 1] \o ss[(k + 1) + 1]
      <4> HIDE DEF n
      <4> QED
        BY <2>3, <3>3
    <3> QED
      BY <3>2, <3>3, <3>4 DEF IsFlattening
  <2>6. n - 1 \in T
    <3>1. n - 1 \in Nat
      BY <1>1, <1>4
    <3> HIDE DEF T
    <3> QED
      BY <2>4, <2>5, <3>1, CountUp
  <2>7. flatten[n] = f[n]
    <3>1. (n - 1) + 1 = n
      BY <1>1
    <3> HIDE DEF n
    <3> QED
      BY <1>1, <2>6, <3>1
  <2> QED
    BY <1>2, <2>1, <2>7
<1> QED
  BY <1>3, <1>4

(* Joining two lists of sequences joins what they make.                    *)
LEMMA FlattenConcat ==
    ASSUME NEW X, NEW p \in Seq(Seq(X)), NEW q \in Seq(Seq(X))
    PROVE  /\ FlattenSeq(p \o q) = FlattenSeq(p) \o FlattenSeq(q)
           /\ FlattenSeq(p) \in Seq(X) /\ FlattenSeq(q) \in Seq(X)
<1> DEFINE k == Len(p)
           n == Len(q)
           r == p \o q
<1>1. k \in Nat /\ n \in Nat
  BY LenProperties
<1>2. /\ r \in Seq(Seq(X)) /\ Len(r) = k + n
      /\ \A i \in 1 .. k + n : r[i] = IF i <= k THEN p[i] ELSE q[i - k]
  BY ConcatProperties
<1> HIDE DEF r
<1>3. PICK f : IsFlattening(f, p, X)
  BY FlatteningExists
<1>4. PICK g : IsFlattening(g, q, X)
  BY FlatteningExists
<1> DEFINE h == [i \in 0 .. k + n |-> IF i <= k THEN f[i] ELSE f[k] \o g[i - k]]
<1>5. /\ \A i \in 0 .. k : f[i] \in Seq(X)
      /\ \A i \in 0 .. n : g[i] \in Seq(X)
  BY <1>3, <1>4 DEF IsFlattening
<1>6. h \in [0 .. k + n -> Seq(X)]
  <2>1. ASSUME NEW i \in 0 .. k + n PROVE (IF i <= k THEN f[i] ELSE f[k] \o g[i - k]) \in Seq(X)
    <3> HIDE DEF k, n
    <3>1. CASE i <= k
      <4>1. i \in 0 .. k
        BY <1>1, <3>1
      <4> QED
        BY <1>5, <3>1, <4>1
    <3>2. CASE ~(i <= k)
      <4>1. i - k \in 0 .. n /\ k \in 0 .. k
        BY <1>1, <3>2
      <4>2. f[k] \in Seq(X) /\ g[i - k] \in Seq(X)
        BY <1>5, <4>1
      <4> QED
        BY <3>2, <4>2, ConcatProperties
    <3> QED
      BY <3>1, <3>2
  <2> HIDE DEF k, n
  <2> QED
    BY <2>1
<1>7. h[0] = <<>>
  BY <1>1, <1>3 DEF IsFlattening
<1>8. ASSUME NEW i \in 1 .. k + n PROVE h[i] = h[i - 1] \o r[i]
  <2>1. i \in 0 .. k + n /\ i - 1 \in 0 .. k + n
    BY <1>1
  <2>2. CASE i <= k
    <3>1. i \in 1 .. k /\ i - 1 <= k
      BY <1>1, <2>2
    <3>2. f[i] = f[i - 1] \o p[i]
      BY <1>3, <3>1 DEF IsFlattening
    <3> HIDE DEF k, n
    <3> QED
      BY <1>2, <2>1, <2>2, <3>1, <3>2
  <2>3. CASE i = k + 1
    <3>1. 1 \in 1 .. n /\ i - k = 1 /\ i - 1 = k /\ ~(i <= k) /\ 1 - 1 = 0 /\ k \in 0 .. k + n
      BY <1>1, <2>3
    <3>2. g[1] = <<>> \o q[1]
      BY <1>4, <3>1 DEF IsFlattening
    <3>3. q[1] \in Seq(X)
      BY <1>1, <3>1, LenProperties
    <3>4. g[1] = q[1]
      BY <3>2, <3>3
    <3>5. r[i] = q[1]
      BY <1>2, <3>1
    <3>6. h[i] = f[k] \o g[1]
      <4> HIDE DEF k, n
      <4> QED
        BY <2>1, <3>1
    <3>7. h[i - 1] = f[k]
      <4> HIDE DEF k, n
      <4> QED
        BY <1>1, <3>1
    <3> QED
      BY <3>4, <3>5, <3>6, <3>7
  <2>4. CASE i > k + 1
    <3>1. i - k \in 1 .. n /\ ~(i <= k) /\ ~(i - 1 <= k) /\ (i - 1) - k = (i - k) - 1 /\ (i - k) - 1 \in 0 .. n
          /\ k \in 0 .. k
      BY <1>1, <2>4
    <3>2. g[i - k] = g[(i - k) - 1] \o q[i - k]
      BY <1>4, <3>1 DEF IsFlattening
    <3>3. r[i] = q[i - k] /\ q[i - k] \in Seq(X)
      BY <1>1, <1>2, <3>1, LenProperties
    <3>4. h[i] = f[k] \o g[i - k] /\ h[i - 1] = f[k] \o g[(i - k) - 1]
      <4> HIDE DEF k, n
      <4> QED
        BY <2>1, <3>1
    <3>5. f[k] \in Seq(X) /\ g[(i - k) - 1] \in Seq(X)
      BY <1>5, <3>1
    <3> DEFINE a == f[k]
               b == g[(i - k) - 1]
               c == q[i - k]
    <3>6. a \in Seq(X) /\ b \in Seq(X) /\ c \in Seq(X)
      BY <3>3, <3>5
    <3>7. a \o (b \o c) = (a \o b) \o c
      <4> HIDE DEF a, b, c
      <4> QED
        BY <3>6, ConcatAssociative, SMTT(40)
    <3> QED
      BY <3>2, <3>3, <3>4, <3>7
  <2>5. i <= k \/ i = k + 1 \/ i > k + 1
    <3> HIDE DEF k, n, h
    <3> QED
      BY <1>1
  <2> QED
    BY <2>2, <2>3, <2>4, <2>5, Zenon
<1>9. IsFlattening(h, r, X)
  <2> HIDE DEF h, k, n
  <2> QED
    BY <1>2, <1>6, <1>7, <1>8 DEF IsFlattening
<1>10. h[k + n] = f[k] \o g[n]
  <2>1. CASE n = 0
    <3>1. g[n] = <<>> /\ f[k] \in Seq(X) /\ k + n = k
      BY <1>1, <1>4, <1>5, <2>1 DEF IsFlattening
    <3>2. h[k + n] = f[k]
      <4> HIDE DEF k, n
      <4> QED
        BY <1>1, <3>1
    <3> QED
      BY <3>1, <3>2, ConcatEmptySeq
  <2>2. CASE n # 0
    <3>1. k + n \in 0 .. k + n /\ ~(k + n <= k) /\ (k + n) - k = n
      BY <1>1, <2>2
    <3> HIDE DEF k, n
    <3> QED
      BY <3>1
  <2> QED
    BY <2>1, <2>2
<1> QED
  <2>1. FlattenSeq(r) = h[k + n]
    <3> HIDE DEF h, k, n
    <3> QED
      BY <1>2, <1>9, FlatteningIs
  <2>2. FlattenSeq(p) = f[k] /\ FlattenSeq(q) = g[n] /\ FlattenSeq(p) \in Seq(X) /\ FlattenSeq(q) \in Seq(X)
    BY <1>3, <1>4, FlatteningIs
  <2> HIDE DEF h
  <2> QED
    BY <1>10, <2>1, <2>2 DEF r

(* Single elements make the sequence of them.                              *)
LEMMA FlattenSingles ==
    ASSUME NEW X, NEW v \in Seq(X)
    PROVE  FlattenSeq([i \in DOMAIN v |-> <<v[i]>>]) = v
<1> DEFINE n == Len(v)
           ss == [i \in DOMAIN v |-> <<v[i]>>]
           f == [k \in 0 .. n |-> SubSeq(v, 1, k)]
<1>1. n \in Nat /\ DOMAIN v = 1 .. n
  BY LenProperties
<1>2. ss \in Seq(Seq(X)) /\ Len(ss) = n
  <2>1. \A i \in 1 .. n : <<v[i]>> \in Seq(X)
    BY <1>1
  <2> HIDE DEF n
  <2> QED
    BY <1>1, <2>1
<1>3. f \in [0 .. n -> Seq(X)]
  BY <1>1
<1>4. f[0] = <<>>
  BY <1>1
<1>5. ASSUME NEW i \in 1 .. n PROVE f[i] = f[i - 1] \o ss[i]
  <2>1. i \in 0 .. n /\ i - 1 \in 0 .. n
    BY <1>1
  <2>2. f[i] = SubSeq(v, 1, i) /\ f[i - 1] = SubSeq(v, 1, i - 1)
    <3> HIDE DEF n
    <3> QED
      BY <2>1
  <2>3. SubSeq(v, 1, i) = SubSeq(v, 1, i - 1) \o <<v[i]>>
    BY <1>1
  <2>4. ss[i] = <<v[i]>>
    BY <1>1
  <2> QED
    BY <2>2, <2>3, <2>4
<1>6. IsFlattening(f, ss, X)
  <2> HIDE DEF f, ss, n
  <2> QED
    BY <1>2, <1>3, <1>4, <1>5 DEF IsFlattening
<1>7. FlattenSeq(ss) = f[n]
  <2> HIDE DEF f, ss, n
  <2> QED
    BY <1>2, <1>6, FlatteningIs
<1>8. SubSeq(v, 1, n) = v
  BY <1>1
<1>9. f[n] = SubSeq(v, 1, n)
  <2> HIDE DEF n
  <2> QED
    BY <1>1
<1> QED
  BY <1>7, <1>8, <1>9

-----------------------------------------------------------------------------
(* The phrases of candidates and what their codes stand for.               *)

(* All pieces.  The provers do not know that a literal is in STRING.       *)
PhraseWords == {"typ", "host", "srflx", "generation", "0", "network-cost", "999", "rport", "raddr",
                "0.0.0.0", "ufrag", "network-id", "tcptype", "active", Blank}
CodeOf == <<"P", "W", "H", "S", "R", "A", "V", "F", "G", "N", "E", "C", "Q">>
PhraseOf(k) == candidateEncodeMap[k].words
Texts == STRING \cup PhraseWords
            \cup {"P", "W", "H", "S", "R", "A", "V", "F", "G", "N", "E", "C", "Q",
                  "U", "T", "UDP", "TCP", "udp", "tcp", "undefined"}

(* Everything that is written on either side is one of them.               *)
LEMMA TextsAre ==
    /\ STRING \subseteq Texts /\ Seq(STRING) \subseteq Seq(Texts)
    /\ PhraseWords \subseteq Texts /\ Seq(PhraseWords) \subseteq Seq(Texts)
    /\ {"U", "T", "UDP", "TCP", "udp", "tcp", "undefined", Blank} \subseteq Texts
    /\ \A k \in 1 .. 13 : CodeOf[k] \in Texts
<1>1. STRING \subseteq Texts /\ PhraseWords \subseteq Texts
  BY DEF Texts
<1>2. {"U", "T", "UDP", "TCP", "udp", "tcp", "undefined", Blank} \subseteq Texts
  BY DEF Texts, PhraseWords
<1>3. \A k \in 1 .. 13 : CodeOf[k] \in Texts
  BY DEF Texts, CodeOf
<1>4. Seq(STRING) \subseteq Seq(Texts) /\ Seq(PhraseWords) \subseteq Seq(Texts)
  BY <1>1, SeqMonotonic
<1> QED
  BY <1>1, <1>2, <1>3, <1>4

(* The phrases one by one: their length, and where they have a piece that  *)
(* begins a phrase, too.                                                   *)
Beginnings == {"typ", "rport", "raddr", "0.0.0.0", "ufrag", "network-cost", "network-id",
               "tcptype", "generation"}
IsPhrase(k) ==
    LET p == PhraseOf(k)
    IN  /\ p \in Seq(PhraseWords) /\ Len(p) > 0
        /\ p[1] \in Beginnings /\ p[Len(p)] # Blank
        /\ \A m \in 2 .. Len(p) : p[m] \in Beginnings =>
              \/ k \in {1, 2, 9} /\ m = 5 /\ p[4] = Blank /\ p[5] = "generation" /\ p[6] = Blank /\ p[7] = "0"
                    /\ (k \in {1, 2} => Len(p) = 11 /\ p[8] = Blank) /\ (k = 9 => Len(p) = 7)
              \/ k \in {1, 2} /\ m = 9 /\ Len(p) = 11 /\ p[8] = Blank /\ p[9] = "network-cost" /\ p[10] = Blank
        /\ p[1] = "generation" => k = 13 /\ Len(p) = 3
        /\ p[1] = "network-cost" => k = 10 /\ Len(p) = 1

(* Each of the thirteen entries has its code and its pieces.               *)
LEMMA Phrases ==
    /\ DOMAIN candidateEncodeMap = 1 .. 13
    /\ \A k \in 1 .. 13 : candidateEncodeMap[k].code = CodeOf[k]
    /\ \A k \in 1 .. 13 : IsPhrase(k)
<1>1. DOMAIN candidateEncodeMap = 1 .. 13
  BY DEF candidateEncodeMap
<1>2. \A k \in 1 .. 13 : candidateEncodeMap[k].code = CodeOf[k]
  <2>1. candidateEncodeMap[1].code = "P"
    BY DEF candidateEncodeMap
  <2>2. candidateEncodeMap[2].code = "W"
    BY DEF candidateEncodeMap
  <2>3. candidateEncodeMap[3].code = "H"
    BY DEF candidateEncodeMap
  <2>4. candidateEncodeMap[4].code = "S"
    BY DEF candidateEncodeMap
  <2>5. candidateEncodeMap[5].code = "R"
    BY DEF candidateEncodeMap
  <2>6. candidateEncodeMap[6].code = "A"
    BY DEF candidateEncodeMap
  <2>7. candidateEncodeMap[7].code = "V"
    BY DEF candidateEncodeMap
  <2>8. candidateEncodeMap[8].code = "F"
    BY DEF candidateEncodeMap
  <2>9. candidateEncodeMap[9].code = "G"
    BY DEF candidateEncodeMap
  <2>10. candidateEncodeMap[10].code = "N"
    BY DEF candidateEncodeMap
  <2>11. candidateEncodeMap[11].code = "E"
    BY DEF candidateEncodeMap
  <2>12. candidateEncodeMap[12].code = "C"
    BY DEF candidateEncodeMap
  <2>13. candidateEncodeMap[13].code = "Q"
    BY DEF candidateEncodeMap
  <2> QED
    BY <2>1, <2>2, <2>3, <2>4, <2>5, <2>6, <2>7, <2>8, <2>9, <2>10, <2>11, <2>12, <2>13 DEF CodeOf
<1>0. Blank \notin {"typ", "host", "srflx", "generation", "0", "network-cost", "999", "rport", "raddr",
                    "0.0.0.0", "ufrag", "network-id", "tcptype", "active"}
  BY DEF Blank
<1> USE <1>0 DEF PhraseWords, Beginnings
<1>33. /\ \A x \in {"host", "0", "999"} : x \notin Beginnings /\ x # Blank /\ x \in PhraseWords
       /\ Blank \notin Beginnings /\ "typ" \in Beginnings /\ "rport" \in Beginnings
       /\ \A x \in Beginnings : x \in PhraseWords
  OBVIOUS
<1> HIDE DEF PhraseWords, Beginnings
<1>11. IsPhrase(1)
  <2> DEFINE p == PhraseOf(1)
  <2>1. p = <<"typ", Blank, "host", Blank, "generation", Blank, "0", Blank, "network-cost", Blank, "999">>
    BY DEF candidateEncodeMap, PhraseOf
  <2> HIDE DEF p
  <2>2. /\ Len(p) = 11
        /\ p[1] = "typ" /\ p[2] = Blank /\ p[3] = "host" /\ p[4] = Blank
        /\ p[5] = "generation" /\ p[6] = Blank /\ p[7] = "0" /\ p[8] = Blank
        /\ p[9] = "network-cost" /\ p[10] = Blank /\ p[11] = "999"
    BY <2>1
  <2>3. p \in Seq(PhraseWords)
    BY <2>1 DEF PhraseWords
  <2>4. \A m \in 2 .. 11 : m = 2 \/ m = 3 \/ m = 4 \/ m = 5 \/ m = 6 \/ m = 7 \/ m = 8 \/ m = 9 \/ m = 10 \/ m = 11
    OBVIOUS
  <2>5. \A m \in 2 .. 11 : p[m] \in Beginnings => m = 5 \/ m = 9
    BY <2>2, <2>4, <1>33
  <2>6. p[1] \in Beginnings /\ p[11] # Blank /\ p[1] # "generation" /\ p[1] # "network-cost"
    BY <2>2, <1>33
  <2> QED
    BY <2>2, <2>3, <2>5, <2>6, SMTT(40) DEF IsPhrase, p
<1>12. IsPhrase(2)
  <2> DEFINE p == PhraseOf(2)
  <2>1. p = <<"rport", Blank, "0", Blank, "generation", Blank, "0", Blank, "network-cost", Blank, "999">>
    BY DEF candidateEncodeMap, PhraseOf
  <2> HIDE DEF p
  <2>2. /\ Len(p) = 11
        /\ p[1] = "rport" /\ p[2] = Blank /\ p[3] = "0" /\ p[4] = Blank
        /\ p[5] = "generation" /\ p[6] = Blank /\ p[7] = "0" /\ p[8] = Blank
        /\ p[9] = "network-cost" /\ p[10] = Blank /\ p[11] = "999"
    BY <2>1
  <2>3. p \in Seq(PhraseWords)
    BY <2>1 DEF PhraseWords
  <2>4. \A m \in 2 .. 11 : m = 2 \/ m = 3 \/ m = 4 \/ m = 5 \/ m = 6 \/ m = 7 \/ m = 8 \/ m = 9 \/ m = 10 \/ m = 11
    OBVIOUS
  <2>5. \A m \in 2 .. 11 : p[m] \in Beginnings => m = 5 \/ m = 9
    BY <2>2, <2>4, <1>33
  <2>6. p[1] \in Beginnings /\ p[11] # Blank /\ p[1] # "generation" /\ p[1] # "network-cost"
    BY <2>2, <1>33
  <2> QED
    BY <2>2, <2>3, <2>5, <2>6, SMTT(40) DEF IsPhrase, p
<1>30. Beginnings \subseteq PhraseWords /\ Blank \notin Beginnings /\ Blank \in PhraseWords
  BY DEF PhraseWords, Beginnings
<1>31. ASSUME NEW k \in {5, 6, 7, 8, 10, 11}, NEW x \in Beginnings, PhraseOf(k) = <<x>>,
              x # "generation", x = "network-cost" => k = 10
       PROVE  IsPhrase(k)
  <2> DEFINE p == PhraseOf(k)
  <2>1. Len(p) = 1 /\ p[1] = x /\ p \in Seq(PhraseWords)
    BY <1>30, <1>31
  <2> HIDE DEF p
  <2>2. \A m \in 2 .. Len(p) : FALSE
    BY <2>1
  <2>3. p[Len(p)] # Blank
    BY <2>1, <1>30
  <2> QED
    BY <2>1, <2>2, <2>3, <1>31 DEF IsPhrase, p
<1>32. ASSUME NEW k \in {3, 4, 12, 13}, NEW x \in Beginnings, NEW y \in PhraseWords,
              y # Blank, y \notin Beginnings, PhraseOf(k) = <<x, Blank, y>>,
              x = "generation" => k = 13, x # "network-cost"
       PROVE  IsPhrase(k)
  <2> DEFINE p == PhraseOf(k)
  <2>1. Len(p) = 3 /\ p[1] = x /\ p[2] = Blank /\ p[3] = y /\ p \in Seq(PhraseWords)
    BY <1>30, <1>32
  <2> HIDE DEF p
  <2>2. \A m \in 2 .. Len(p) : p[m] \notin Beginnings
    <3>1. \A m \in 2 .. Len(p) : m = 2 \/ m = 3
      BY <2>1
    <3> QED
      BY <3>1, <2>1, <1>30, <1>32
  <2>3. p[Len(p)] # Blank
    BY <2>1, <1>32
  <2> QED
    BY <2>1, <2>2, <2>3, <1>32 DEF IsPhrase, p
<1>13. IsPhrase(3)
  <2>1. PhraseOf(3) = <<"typ", Blank, "host">>
    BY DEF candidateEncodeMap, PhraseOf
  <2> QED
    BY <2>1, <1>32 DEF PhraseWords, Beginnings
<1>14. IsPhrase(4)
  <2>1. PhraseOf(4) = <<"typ", Blank, "srflx">>
    BY DEF candidateEncodeMap, PhraseOf
  <2> QED
    BY <2>1, <1>32 DEF PhraseWords, Beginnings
<1>15. IsPhrase(5)
  <2>1. PhraseOf(5) = <<"rport">>
    BY DEF candidateEncodeMap, PhraseOf
  <2> QED
    BY <2>1, <1>31 DEF PhraseWords, Beginnings
<1>16. IsPhrase(6)
  <2>1. PhraseOf(6) = <<"raddr">>
    BY DEF candidateEncodeMap, PhraseOf
  <2> QED
    BY <2>1, <1>31 DEF PhraseWords, Beginnings
<1>17. IsPhrase(7)
  <2>1. PhraseOf(7) = <<"0.0.0.0">>
    BY DEF candidateEncodeMap, PhraseOf
  <2> QED
    BY <2>1, <1>31 DEF PhraseWords, Beginnings
<1>18. IsPhrase(8)
  <2>1. PhraseOf(8) = <<"ufrag">>
    BY DEF candidateEncodeMap, PhraseOf
  <2> QED
    BY <2>1, <1>31 DEF PhraseWords, Beginnings
<1>19. IsPhrase(9)
  <2> DEFINE p == PhraseOf(9)
  <2>1. p = <<"rport", Blank, "0", Blank, "generation", Blank, "0">>
    BY DEF candidateEncodeMap, PhraseOf
  <2> HIDE DEF p
  <2>2. /\ Len(p) = 7
        /\ p[1] = "rport" /\ p[2] = Blank /\ p[3] = "0" /\ p[4] = Blank
        /\ p[5] = "generation" /\ p[6] = Blank /\ p[7] = "0"
    BY <2>1
  <2>3. p \in Seq(PhraseWords)
    BY <2>1 DEF PhraseWords
  <2>4. \A m \in 2 .. 7 : m = 2 \/ m = 3 \/ m = 4 \/ m = 5 \/ m = 6 \/ m = 7
    OBVIOUS
  <2>5. \A m \in 2 .. 7 : p[m] \in Beginnings => m = 5
    BY <2>2, <2>4, <1>33
  <2>6. p[1] \in Beginnings /\ p[7] # Blank /\ p[1] # "generation" /\ p[1] # "network-cost"
    BY <2>2, <1>33
  <2> QED
    BY <2>2, <2>3, <2>5, <2>6 DEF IsPhrase, p
<1>20. IsPhrase(10)
  <2>1. PhraseOf(10) = <<"network-cost">>
    BY DEF candidateEncodeMap, PhraseOf
  <2> QED
    BY <2>1, <1>31 DEF PhraseWords, Beginnings
<1>21. IsPhrase(11)
  <2>1. PhraseOf(11) = <<"network-id">>
    BY DEF candidateEncodeMap, PhraseOf
  <2> QED
    BY <2>1, <1>31 DEF PhraseWords, Beginnings
<1>22. IsPhrase(12)
  <2>1. PhraseOf(12) = <<"tcptype", Blank, "active">>
    BY DEF candidateEncodeMap, PhraseOf
  <2> QED
    BY <2>1, <1>32 DEF PhraseWords, Beginnings
<1>23. IsPhrase(13)
  <2>1. PhraseOf(13) = <<"generation", Blank, "0">>
    BY DEF candidateEncodeMap, PhraseOf
  <2> QED
    BY <2>1, <1>32 DEF PhraseWords, Beginnings
<1>3. ASSUME NEW k \in 1 .. 13 PROVE IsPhrase(k)
  <2>1. k = 1 \/ k = 2 \/ k = 3 \/ k = 4 \/ k = 5 \/ k = 6 \/ k = 7 \/ k = 8 \/ k = 9 \/ k = 10
        \/ k = 11 \/ k = 12 \/ k = 13
    BY <1>3
  <2> QED
    BY <2>1, <1>11, <1>12, <1>13, <1>14, <1>15, <1>16, <1>17, <1>18, <1>19, <1>20, <1>21, <1>22, <1>23
<1> QED
  BY <1>1, <1>2, <1>3

(* No two phrases share a code, and no code is a piece of a phrase.        *)
LEMMA CodesDiffer ==
    /\ \A j, k \in 1 .. 13 : CodeOf[j] = CodeOf[k] => j = k
    /\ \A k \in 1 .. 13 : CodeOf[k] \notin {"U", "T", Blank, "undefined"} \cup PhraseWords
    /\ "U" \notin PhraseWords /\ "T" \notin PhraseWords /\ "undefined" \notin PhraseWords
    /\ Blank \notin Beginnings /\ Beginnings \subseteq PhraseWords
BY DEF CodeOf, PhraseWords, Beginnings, Blank

(* All codes of candidates.                                                *)
AllCodes == {CodeOf[k] : k \in 1 .. 13} \cup {"U", "T"}

(* A code is decoded to its phrase, and a piece that is no code to itself; *)
(* what is taken for the wildcard address is none of these.                *)
LEMMA ItemsDecoded ==
    /\ \A k \in 1 .. 13 : DecodeItem(CodeOf[k]) = PhraseOf(k)
    /\ DecodeItem("U") = <<"UDP">> /\ DecodeItem("T") = <<"TCP">>
    /\ \A item : item \notin AllCodes => DecodeItem(item) = <<item>>
    /\ \A words : IsCandidate(words) <=> ToSet(words) \cap AllCodes = {}
    /\ AllCodes \cap Lookalikes = {} /\ PhraseWords \cap Lookalikes \subseteq {}
    /\ "undefined" \notin AllCodes \cup Lookalikes /\ Blank \notin AllCodes \cup Lookalikes
    /\ \A x : x \in {"udp", "UDP", "tcp", "TCP"} => x \notin AllCodes \cup Lookalikes
<1> DEFINE udp == [words |-> <<"UDP">>, code |-> "U"]
           tcp == [words |-> <<"TCP">>, code |-> "T"]
           coded == {candidateEncodeMap[k] : k \in 1 .. 13}
<1>1. candidateDecodeMap = coded \cup {udp, tcp}
  <2>1. ToSet(candidateEncodeMap) = coded
    BY Phrases DEF ToSet
  <2> HIDE DEF coded
  <2> QED
    BY <2>1 DEF candidateDecodeMap
<1>2. udp.code = "U" /\ tcp.code = "T" /\ udp.words = <<"UDP">> /\ tcp.words = <<"TCP">>
  OBVIOUS
<1> HIDE DEF udp, tcp
<1>3. \A k \in 1 .. 13 : candidateEncodeMap[k] \in candidateDecodeMap /\ candidateEncodeMap[k].code = CodeOf[k]
  BY <1>1, Phrases
<1>4. \A p \in candidateDecodeMap :
         \/ p = udp \/ p = tcp \/ \E k \in 1 .. 13 : p = candidateEncodeMap[k] /\ p.code = CodeOf[k]
  BY <1>1, Phrases
<1>5. ASSUME NEW p \in candidateDecodeMap, NEW q \in candidateDecodeMap, p.code = q.code PROVE p = q
  BY <1>2, <1>4, <1>5, CodesDiffer
<1>6. ASSUME NEW p \in candidateDecodeMap PROVE DecodeItem(p.code) = p.words
  BY <1>5 DEF DecodeItem
<1>7. udp \in candidateDecodeMap /\ tcp \in candidateDecodeMap
  BY <1>1
<1>8. AllCodes = {p.code : p \in candidateDecodeMap}
  <2>1. \A x \in AllCodes : \E p \in candidateDecodeMap : x = p.code
    BY <1>2, <1>3, <1>7 DEF AllCodes
  <2>2. \A p \in candidateDecodeMap : p.code \in AllCodes
    BY <1>2, <1>4 DEF AllCodes
  <2> QED
    BY <2>1, <2>2
<1>9. \A item : item \notin AllCodes => DecodeItem(item) = <<item>>
  BY <1>8 DEF DecodeItem
<1>10. \A words : IsCandidate(words) <=> ToSet(words) \cap AllCodes = {}
  BY <1>8 DEF IsCandidate
<1>11. AllCodes \cap Lookalikes = {}
  BY <1>8, LookalikesAssumption
<1>12. Lookalikes \cap {"udp", "UDP", "tcp", "TCP", "undefined", Blank} = {}
  <2>1. Keys(protocolEncodeMap) = {"udp", "UDP", "tcp", "TCP"}
    BY DEF Keys, protocolEncodeMap
  <2> QED
    BY <2>1, LookalikesAssumption
<1>13. AllCodes \cap {"udp", "UDP", "tcp", "TCP", "undefined", Blank} = {}
  <2>1. AllCodes \cap {"udp", "UDP", "tcp", "TCP", "undefined"} = {}
    BY DEF AllCodes, CodeOf
  <2>2. Blank \notin {"U", "T"}
    BY DEF Blank
  <2> QED
    BY <2>1, <2>2, CodesDiffer DEF AllCodes
<1>14. ASSUME NEW x \in PhraseWords PROVE x \notin Lookalikes
  <2>1. \A k \in 1 .. 13 : ToSet(PhraseOf(k)) \cap Lookalikes = {}
    BY <1>3, LookalikesAssumption DEF PhraseOf
  <2>2. \A k \in 1 .. 13 : \A m : m \in DOMAIN PhraseOf(k) => PhraseOf(k)[m] \notin Lookalikes
    BY <2>1 DEF ToSet
  <2>3. /\ PhraseOf(1) = <<"typ", Blank, "host", Blank, "generation", Blank, "0", Blank, "network-cost", Blank, "999">>
        /\ PhraseOf(4) = <<"typ", Blank, "srflx">> /\ PhraseOf(5) = <<"rport">>
        /\ PhraseOf(6) = <<"raddr">> /\ PhraseOf(7) = <<"0.0.0.0">> /\ PhraseOf(8) = <<"ufrag">>
        /\ PhraseOf(11) = <<"network-id">> /\ PhraseOf(12) = <<"tcptype", Blank, "active">>
    BY DEF candidateEncodeMap, PhraseOf
  <2>4. \E k \in 1 .. 13 : \E m : m \in DOMAIN PhraseOf(k) /\ PhraseOf(k)[m] = x
    <3>1. x \in {"typ", Blank, "host", "generation", "0", "network-cost", "999"} =>
             \E m : m \in DOMAIN PhraseOf(1) /\ PhraseOf(1)[m] = x
      <4>1. DOMAIN PhraseOf(1) = 1 .. 11
        BY <2>3
      <4>2. /\ PhraseOf(1)[1] = "typ" /\ PhraseOf(1)[2] = Blank /\ PhraseOf(1)[3] = "host"
            /\ PhraseOf(1)[5] = "generation" /\ PhraseOf(1)[7] = "0"
            /\ PhraseOf(1)[9] = "network-cost" /\ PhraseOf(1)[11] = "999"
        BY <2>3
      <4> QED
        BY <4>1, <4>2
    <3>2. x = "srflx" => 3 \in DOMAIN PhraseOf(4) /\ PhraseOf(4)[3] = x
      BY <2>3
    <3>3. x = "rport" => 1 \in DOMAIN PhraseOf(5) /\ PhraseOf(5)[1] = x
      BY <2>3
    <3>4. x = "raddr" => 1 \in DOMAIN PhraseOf(6) /\ PhraseOf(6)[1] = x
      BY <2>3
    <3>5. x = "0.0.0.0" => 1 \in DOMAIN PhraseOf(7) /\ PhraseOf(7)[1] = x
      BY <2>3
    <3>6. x = "ufrag" => 1 \in DOMAIN PhraseOf(8) /\ PhraseOf(8)[1] = x
      BY <2>3
    <3>7. x = "network-id" => 1 \in DOMAIN PhraseOf(11) /\ PhraseOf(11)[1] = x
      BY <2>3
    <3>8. x = "tcptype" => 1 \in DOMAIN PhraseOf(12) /\ PhraseOf(12)[1] = x
      BY <2>3
    <3>9. x = "active" => 3 \in DOMAIN PhraseOf(12) /\ PhraseOf(12)[3] = x
      BY <2>3
    <3>10. 1 \in 1 .. 13 /\ 4 \in 1 .. 13 /\ 5 \in 1 .. 13 /\ 6 \in 1 .. 13 /\ 7 \in 1 .. 13
           /\ 8 \in 1 .. 13 /\ 11 \in 1 .. 13 /\ 12 \in 1 .. 13
      OBVIOUS
    <3>11. \/ x \in {"typ", Blank, "host", "generation", "0", "network-cost", "999"}
           \/ x \in {"srflx", "rport", "raddr", "0.0.0.0", "ufrag", "network-id", "tcptype", "active"}
      BY DEF PhraseWords
    <3> HIDE DEF PhraseWords
    <3> QED
      BY <3>1, <3>2, <3>3, <3>4, <3>5, <3>6, <3>7, <3>8, <3>9, <3>10, <3>11
  <2> QED
    BY <2>2, <2>4
<1>15. \A k \in 1 .. 13 : DecodeItem(CodeOf[k]) = PhraseOf(k)
  BY <1>3, <1>6 DEF PhraseOf
<1>16. DecodeItem("U") = <<"UDP">> /\ DecodeItem("T") = <<"TCP">>
  BY <1>2, <1>6, <1>7
<1> QED
  BY <1>9, <1>10, <1>11, <1>12, <1>13, <1>14, <1>15, <1>16

-----------------------------------------------------------------------------
(* Texts.                                                                  *)

(* What holds of a text if it holds of all shorter ones holds of all.      *)
LEMMA TextInduction ==
    ASSUME NEW T,
           \A t \in Seq(Texts) : (\A s \in Seq(Texts) : Len(s) < Len(t) => s \in T) => t \in T
    PROVE  Seq(Texts) \subseteq T
<1> DEFINE U == {k \in Nat : \A t \in Seq(Texts) : Len(t) < k => t \in T}
<1>1. 0 \in U
  <2>1. \A t \in Seq(Texts) : ~(Len(t) < 0)
    BY LenProperties
  <2> QED
    BY <2>1
<1>2. ASSUME NEW k \in U, k \in Nat PROVE k + 1 \in U
  <2>1. ASSUME NEW t \in Seq(Texts), Len(t) < k + 1 PROVE t \in T
    <3>1. \A s \in Seq(Texts) : Len(s) < Len(t) => Len(s) < k
      BY <1>2, <2>1, LenProperties
    <3>2. \A s \in Seq(Texts) : Len(s) < Len(t) => s \in T
      BY <1>2, <3>1
    <3> QED
      BY <3>2
  <2> QED
    BY <1>2, <2>1
<1>3. Nat \subseteq U
  <2> HIDE DEF U
  <2> QED
    BY <1>1, <1>2, CountUp
<1>4. ASSUME NEW t \in Seq(Texts) PROVE t \in T
  <2>1. Len(t) \in Nat /\ Len(t) + 1 \in Nat /\ Len(t) < Len(t) + 1
    BY LenProperties
  <2> QED
    BY <1>3, <2>1
<1> QED
  BY <1>4

(* A piece before a text, and a text as its first piece before the rest.   *)
LEMMA ConsIs ==
    ASSUME NEW x \in Texts, NEW s \in Seq(Texts)
    PROVE  /\ <<x>> \o s \in Seq(Texts) /\ Len(<<x>> \o s) = Len(s) + 1 /\ Len(s) \in Nat
           /\ DOMAIN (<<x>> \o s) = 1 .. Len(s) + 1 /\ <<x>> \o s # <<>>
           /\ (<<x>> \o s)[1] = x
           /\ \A i \in 1 .. Len(s) : (<<x>> \o s)[i + 1] = s[i]
           /\ \A i \in 2 .. Len(s) + 1 : (<<x>> \o s)[i] = s[i - 1]
           /\ SubSeq(<<x>> \o s, 2, Len(s) + 1) = s
<1> DEFINE t == <<x>> \o s
<1>1. Len(s) \in Nat /\ DOMAIN s = 1 .. Len(s) /\ <<x>> \in Seq(Texts) /\ Len(<<x>>) = 1 /\ <<x>>[1] = x
  BY LenProperties
<1>2. /\ t \in Seq(Texts) /\ Len(t) = 1 + Len(s)
      /\ \A i \in 1 .. 1 + Len(s) : t[i] = IF i <= 1 THEN <<x>>[i] ELSE s[i - 1]
  BY <1>1, ConcatProperties
<1> HIDE DEF t
<1>3. t[1] = x /\ \A i \in 2 .. Len(s) + 1 : t[i] = s[i - 1]
  BY <1>1, <1>2
<1>4. \A i \in 1 .. Len(s) : t[i + 1] = s[i]
  BY <1>1, <1>2
<1>5. DOMAIN t = 1 .. Len(s) + 1 /\ t # <<>>
  BY <1>1, <1>2, LenProperties
<1>6. SubSeq(t, 2, Len(s) + 1) = s
  <2> DEFINE r == SubSeq(t, 2, Len(s) + 1)
  <2>1. r \in Seq(Texts) /\ Len(r) = Len(s) /\ \A i \in 1 .. Len(s) : r[i] = t[i + 1]
    BY <1>1, <1>2
  <2> HIDE DEF r
  <2>2. r = s
    BY <1>4, <2>1, SeqEqual
  <2> QED
    BY <2>2 DEF r
<1> QED
  BY <1>1, <1>2, <1>3, <1>4, <1>5, <1>6 DEF t

(* A text that is not empty has a first piece and a rest.                  *)
LEMMA Uncons ==
    ASSUME NEW t \in Seq(Texts), t # <<>>
    PROVE  \E x \in Texts, s \in Seq(Texts) : t = <<x>> \o s /\ x = t[1] /\ Len(s) = Len(t) - 1
<1>1. Len(t) \in Nat /\ Len(t) > 0
  BY EmptySeq
<1> DEFINE s == SubSeq(t, 2, Len(t))
<1>2. 1 \in 1 .. Len(t) /\ Len(t) \in 1 .. Len(t)
  BY <1>1
<1>3. t[1] \in Texts
  BY <1>2, LenProperties
<1>4. t = <<t[1]>> \o s
  <2>1. SubSeq(t, 1, Len(t)) = <<t[1]>> \o SubSeq(t, 1 + 1, Len(t))
    BY <1>2, SubSeqRecursiveFirst
  <2>2. SubSeq(t, 1, Len(t)) = t
    BY SubSeqFull, SMTT(40)
  <2> QED
    BY <2>1, <2>2
<1>5. s \in Seq(Texts) /\ Len(s) = Len(t) - 1
  <2>1. Tail(t) = s
    BY TailIsSubSeq
  <2>2. Tail(t) \in Seq(Texts) /\ Len(Tail(t)) = Len(t) - 1
    BY HeadTailProperties
  <2> HIDE DEF s
  <2> QED
    BY <2>1, <2>2
<1> HIDE DEF s
<1> QED
  BY <1>3, <1>4, <1>5

(* Equal texts have the same first piece and the same rest.                *)
LEMMA ConsEqual ==
    ASSUME NEW x \in Texts, NEW s \in Seq(Texts), NEW y \in Texts, NEW t \in Seq(Texts),
           <<x>> \o s = <<y>> \o t
    PROVE  x = y /\ s = t
<1>1. x = y
  BY ConsIs
<1>2. Len(s) = Len(t)
  BY ConsIs
<1>3. s = t
  BY <1>2, ConsIs
<1> QED
  BY <1>1, <1>3

(* A text that begins in two ways: the shorter beginning begins the longer.*)
SameText(a, b, c, d) == a \o b = c \o d
Between(a, b, c, d, q) == a = c \o q /\ d = q \o b /\ Len(q) = Len(a) - Len(c)

(* Of two starts of one text, the longer one goes on from the shorter one. *)
LEMMA TwoStarts ==
    ASSUME NEW a \in Seq(Texts), NEW b \in Seq(Texts), NEW c \in Seq(Texts), NEW d \in Seq(Texts),
           SameText(a, b, c, d), Len(c) <= Len(a)
    PROVE  \E q \in Seq(Texts) : Between(a, b, c, d, q)
<1> USE DEF SameText
<1> DEFINE q == SubSeq(a, Len(c) + 1, Len(a))
<1>1. /\ Len(a) \in Nat /\ Len(b) \in Nat /\ Len(c) \in Nat /\ Len(d) \in Nat
      /\ Len(a) + Len(b) = Len(c) + Len(d)
  BY LenProperties, ConcatProperties
<1>2. /\ \A i \in 1 .. Len(a) + Len(b) : (a \o b)[i] = IF i <= Len(a) THEN a[i] ELSE b[i - Len(a)]
      /\ \A i \in 1 .. Len(a) + Len(b) : (a \o b)[i] = IF i <= Len(c) THEN c[i] ELSE d[i - Len(c)]
  BY <1>1, ConcatProperties
<1>3. q \in Seq(Texts) /\ Len(q) = Len(a) - Len(c) /\ \A i \in 1 .. Len(a) - Len(c) : q[i] = a[Len(c) + i]
  BY <1>1
<1> HIDE DEF q
<1>4. /\ c \o q \in Seq(Texts) /\ Len(c \o q) = Len(a)
      /\ \A i \in 1 .. Len(a) : (c \o q)[i] = IF i <= Len(c) THEN c[i] ELSE q[i - Len(c)]
  BY <1>1, <1>3, ConcatProperties
<1>5. \A i \in 1 .. Len(a) : (c \o q)[i] = a[i]
  <2>1. ASSUME NEW i \in 1 .. Len(a), i <= Len(c) PROVE c[i] = a[i]
    BY <1>1, <1>2, <2>1
  <2>2. ASSUME NEW i \in 1 .. Len(a), ~(i <= Len(c)) PROVE q[i - Len(c)] = a[i]
    <3>1. i - Len(c) \in 1 .. Len(a) - Len(c) /\ Len(c) + (i - Len(c)) = i
      BY <1>1, <2>2
    <3> QED
      BY <1>3, <3>1
  <2> QED
    BY <1>4, <2>1, <2>2
<1>6. c \o q = a
  BY <1>4, <1>5, SeqEqual
<1>7. /\ q \o b \in Seq(Texts) /\ Len(q \o b) = Len(d)
      /\ \A i \in 1 .. Len(d) : (q \o b)[i] = IF i <= Len(q) THEN q[i] ELSE b[i - Len(q)]
  BY <1>1, <1>3, ConcatProperties, SMTT(40)
<1>8. \A i \in 1 .. Len(d) : (q \o b)[i] = d[i]
  <2>1. ASSUME NEW i \in 1 .. Len(d) PROVE (q \o b)[i] = d[i]
    <3>1. Len(c) + i \in 1 .. Len(a) + Len(b) /\ ~(Len(c) + i <= Len(c)) /\ (Len(c) + i) - Len(c) = i
      BY <1>1
    <3>2. d[i] = (a \o b)[Len(c) + i]
      BY <1>2, <3>1
    <3>3. CASE i <= Len(q)
      <4>1. Len(c) + i <= Len(a) /\ i \in 1 .. Len(a) - Len(c)
        BY <1>1, <1>3, <3>3
      <4> QED
        BY <1>2, <1>3, <1>7, <3>1, <3>2, <3>3, <4>1
    <3>4. CASE ~(i <= Len(q))
      <4>1. ~(Len(c) + i <= Len(a)) /\ (Len(c) + i) - Len(a) = i - Len(q)
        BY <1>1, <1>3, <3>4
      <4> QED
        BY <1>2, <1>7, <3>1, <3>2, <3>4, <4>1
    <3> QED
      BY <3>3, <3>4
  <2> QED
    BY <2>1
<1>9. q \o b = d
  BY <1>7, <1>8, SeqEqual
<1> QED
  <2> HIDE DEF SameText
  <2>1. Between(a, b, c, d, q)
    BY <1>3, <1>6, <1>9 DEF Between
  <2> QED
    BY <1>3, <2>1

(* Pieces before a text: (<<x>> \o s) \o t = <<x>> \o (s \o t).             *)
LEMMA ConsConcat ==
    ASSUME NEW x \in Texts, NEW s \in Seq(Texts), NEW t \in Seq(Texts)
    PROVE  (<<x>> \o s) \o t = <<x>> \o (s \o t) /\ s \o t \in Seq(Texts)
<1>1. <<x>> \in Seq(Texts)
  OBVIOUS
<1> QED
  BY <1>1, ConcatAssociative, ConcatProperties

(* Joining texts is associative.                                           *)
LEMMA Regroup ==
    ASSUME NEW a \in Seq(Texts), NEW b \in Seq(Texts), NEW c \in Seq(Texts)
    PROVE  (a \o b) \o c = a \o (b \o c)
BY ConcatAssociative

(* Joined texts are empty only if both are, and as long as both together.  *)
LEMMA ConcatNil ==
    ASSUME NEW s \in Seq(Texts), NEW t \in Seq(Texts)
    PROVE  (s \o t = <<>> <=> s = <<>> /\ t = <<>>) /\ <<>> \o t = t /\ s \o <<>> = s
           /\ s \o t \in Seq(Texts) /\ Len(s \o t) = Len(s) + Len(t)
BY ConcatProperties, ConcatEmptySeq, ConcatEqualIffEmpty

(* Pieces of a set make a text of the set.                                 *)
LEMMA TextOf ==
    ASSUME NEW X, NEW s \in Seq(Texts), \A i \in 1 .. Len(s) : s[i] \in X
    PROVE  s \in Seq(X)
BY LenProperties

(* What the pieces of a joined text are.                                   *)
LEMMA ConsSet ==
    ASSUME NEW x \in Texts, NEW s \in Seq(Texts)
    PROVE  ToSet(<<x>> \o s) = {x} \cup ToSet(s)
<1> DEFINE t == <<x>> \o s
<1>1. /\ DOMAIN t = 1 .. Len(s) + 1 /\ t[1] = x /\ Len(s) \in Nat /\ DOMAIN s = 1 .. Len(s)
      /\ \A i \in 2 .. Len(s) + 1 : t[i] = s[i - 1]
      /\ \A i \in 1 .. Len(s) : t[i + 1] = s[i]
  BY ConsIs, LenProperties
<1> HIDE DEF t
<1>2. ASSUME NEW i \in DOMAIN t PROVE t[i] \in {x} \cup ToSet(s)
  <2>1. i = 1 \/ (i \in 2 .. Len(s) + 1 /\ i - 1 \in DOMAIN s)
    BY <1>1
  <2> QED
    BY <1>1, <2>1 DEF ToSet
<1>3. x \in ToSet(t)
  BY <1>1 DEF ToSet
<1>4. ASSUME NEW i \in DOMAIN s PROVE s[i] \in ToSet(t)
  <2>1. i + 1 \in DOMAIN t /\ t[i + 1] = s[i]
    BY <1>1
  <2> QED
    BY <2>1 DEF ToSet
<1> QED
  BY <1>2, <1>3, <1>4 DEF ToSet, t

-----------------------------------------------------------------------------
(* candidateDecode, piece by piece.                                        *)

(* A piece is decoded to pieces, of which neither the first nor the last   *)
(* is a blank unless it is one.                                            *)
LEMMA ItemType ==
    ASSUME NEW x \in Texts
    PROVE  /\ DecodeItem(x) \in Seq(Texts) /\ Len(DecodeItem(x)) \in Nat /\ Len(DecodeItem(x)) > 0
           /\ DecodeItem(x)[1] = Blank <=> x = Blank
           /\ DecodeItem(x)[Len(DecodeItem(x))] = Blank <=> x = Blank
<1>1. CASE x \notin AllCodes
  <2>1. DecodeItem(x) = <<x>>
    BY <1>1, ItemsDecoded
  <2> QED
    BY <2>1
<1>2. CASE x \in AllCodes
  <2>0. x # Blank
    BY <1>2, ItemsDecoded
  <2>1. CASE x = "U"
    <3>1. DecodeItem(x) = <<"UDP">>
      BY <2>1, ItemsDecoded
    <3>2. "UDP" \in Texts /\ "UDP" # Blank
      BY TextsAre DEF Blank
    <3> QED
      BY <2>0, <3>1, <3>2
  <2>2. CASE x = "T"
    <3>1. DecodeItem(x) = <<"TCP">>
      BY <2>2, ItemsDecoded
    <3>2. "TCP" \in Texts /\ "TCP" # Blank
      BY TextsAre DEF Blank
    <3> QED
      BY <2>0, <3>1, <3>2
  <2>3. CASE x \notin {"U", "T"}
    <3>1. PICK k \in 1 .. 13 : x = CodeOf[k]
      BY <1>2, <2>3 DEF AllCodes
    <3> DEFINE p == PhraseOf(k)
    <3>2. DecodeItem(x) = p
      BY <3>1, ItemsDecoded
    <3> HIDE DEF p
    <3>3. p \in Seq(PhraseWords) /\ Len(p) > 0 /\ p[1] \in Beginnings /\ p[Len(p)] # Blank
      BY <3>1, Phrases DEF IsPhrase, p
    <3>4. p \in Seq(Texts)
      BY <3>3, TextsAre
    <3>5. Len(p) \in Nat
      BY <3>4, LenProperties
    <3>6. p[1] # Blank
      BY <3>3, CodesDiffer
    <3> QED
      BY <2>0, <3>2, <3>3, <3>4, <3>5, <3>6
  <2> QED
    BY <2>1, <2>2, <2>3
<1> QED
  BY <1>1, <1>2

(* candidateDecode, where f tells if the first piece is decoded, too.      *)
Item(f, t, i) ==
    IF (f \/ i > 1) /\ Whole(t, i, i) THEN DecodeItem(t[i]) ELSE <<t[i]>>
Items(f, t) == [i \in DOMAIN t |-> Item(f, t, i)]
Decoded(f, t) == FlattenSeq(Items(f, t))

(* candidateDecode decodes a text whose first piece opens it.              *)
LEMMA DecodeIs ==
    ASSUME NEW t \in Seq(Texts) PROVE candidateDecode(t) = Decoded(FALSE, t)
BY DEF candidateDecode, Decoded, Items, Item

(* What the first piece is decoded to.                                     *)
Opening(f, x, s) == IF f /\ (s = <<>> \/ s[1] = Blank) THEN DecodeItem(x) ELSE <<x>>

(* Decoding a piece gives at least one piece, and blanks at its ends only  *)
(* if it is one.                                                           *)
LEMMA OpeningIs ==
    ASSUME NEW f \in BOOLEAN, NEW x \in Texts, NEW s \in Seq(Texts)
    PROVE  /\ Opening(f, x, s) \in Seq(Texts) /\ Len(Opening(f, x, s)) \in Nat /\ Len(Opening(f, x, s)) > 0
           /\ Opening(f, x, s)[1] = Blank <=> x = Blank
           /\ Opening(f, x, s)[Len(Opening(f, x, s))] = Blank <=> x = Blank
<1>1. <<x>> \in Seq(Texts) /\ Len(<<x>>) = 1 /\ <<x>>[1] = x
  OBVIOUS
<1> QED
  BY <1>1, ItemType DEF Opening

(* A sequence of one sequence is that one.                                 *)
LEMMA FlattenOne ==
    ASSUME NEW a \in Seq(Texts) PROVE FlattenSeq(<<a>>) = a
<1> DEFINE ss == <<a>>
           f == [i \in 0 .. 1 |-> IF i = 0 THEN <<>> ELSE a]
<1>3. ss \in Seq(Seq(Texts)) /\ Len(ss) = 1 /\ ss[1] = a
  OBVIOUS
<1>4. IsFlattening(f, ss, Texts)
  <2>1. \A i \in 1 .. 1 : i = 1 /\ i - 1 = 0
    OBVIOUS
  <2>2. f \in [0 .. 1 -> Seq(Texts)]
    OBVIOUS
  <2>3. f[0] = <<>> /\ f[1] = a
    OBVIOUS
  <2>4. f[1] = f[0] \o ss[1]
    <3> HIDE DEF f, ss
    <3> QED
      BY <1>3, <2>3, ConcatEmptySeq
  <2> HIDE DEF f, ss
  <2> QED
    BY <1>3, <2>1, <2>2, <2>3, <2>4 DEF IsFlattening
<1>5. FlattenSeq(ss) = f[1]
  <2> HIDE DEF f, ss
  <2> QED
    BY <1>3, <1>4, FlatteningIs
<1> QED
  BY <1>5

(* There is one decoded item for each piece.                               *)
LEMMA ItemsType ==
    ASSUME NEW f \in BOOLEAN, NEW t \in Seq(Texts)
    PROVE  Items(f, t) \in Seq(Seq(Texts)) /\ Len(Items(f, t)) = Len(t)
<1>1. Len(t) \in Nat /\ DOMAIN t = 1 .. Len(t) /\ \A i \in 1 .. Len(t) : t[i] \in Texts
  BY LenProperties
<1>2. \A i \in 1 .. Len(t) : Item(f, t, i) \in Seq(Texts)
  <2>1. ASSUME NEW i \in 1 .. Len(t) PROVE Item(f, t, i) \in Seq(Texts)
    <3>1. <<t[i]>> \in Seq(Texts) /\ DecodeItem(t[i]) \in Seq(Texts)
      BY <1>1, ItemType
    <3> QED
      BY <3>1 DEF Item
  <2> QED
    BY <2>1
<1> QED
  BY <1>1, <1>2 DEF Items

(* What is decoded is a text.                                              *)
LEMMA DecodedType ==
    ASSUME NEW f \in BOOLEAN, NEW t \in Seq(Texts)
    PROVE  Decoded(f, t) \in Seq(Texts)
<1> DEFINE ss == Items(f, t)
<1>1. ss \in Seq(Seq(Texts))
  BY ItemsType
<1> HIDE DEF ss
<1>2. FlattenSeq(ss \o <<>>) = FlattenSeq(ss) \o FlattenSeq(<<>>) /\ FlattenSeq(ss) \in Seq(Texts)
  <2>1. <<>> \in Seq(Seq(Texts))
    OBVIOUS
  <2> QED
    BY <1>1, <2>1, FlattenConcat
<1> QED
  BY <1>2 DEF Decoded, ss

(* Nothing is decoded to nothing.                                          *)
LEMMA DecodedNil == \A f \in BOOLEAN : Decoded(f, <<>>) = <<>>
<1> SUFFICES ASSUME NEW f \in BOOLEAN PROVE Decoded(f, <<>>) = <<>>
  OBVIOUS
<1>1. Items(f, <<>>) = <<>>
  BY DEF Items
<1>2. FlattenSeq([i \in DOMAIN <<>> |-> <<(<<>>)[i]>>]) = <<>>
  <2>1. <<>> \in Seq(Texts)
    OBVIOUS
  <2> QED
    BY <2>1, FlattenSingles
<1>3. [i \in DOMAIN <<>> |-> <<(<<>>)[i]>>] = <<>>
  OBVIOUS
<1> QED
  BY <1>1, <1>2, <1>3 DEF Decoded

(* Decoding goes piece by piece: all that the rest needs to know is        *)
(* whether a blank is before it.                                           *)
LEMMA DecodedCons ==
    ASSUME NEW f \in BOOLEAN, NEW x \in Texts, NEW s \in Seq(Texts),
           NEW g \in BOOLEAN, g <=> x = Blank
    PROVE  Decoded(f, <<x>> \o s) = Opening(f, x, s) \o Decoded(g, s)
<1> DEFINE t == <<x>> \o s
           a == Items(f, t)
           b == Items(g, s)
           o == Opening(f, x, s)
           n == Len(s)
<1>1. /\ t \in Seq(Texts) /\ Len(t) = n + 1 /\ n \in Nat
      /\ DOMAIN t = 1 .. n + 1 /\ DOMAIN s = 1 .. n
      /\ t[1] = x /\ \A i \in 1 .. n : t[i + 1] = s[i]
  BY ConsIs, LenProperties
<1> HIDE DEF t, n
<1>3. /\ a \in Seq(Seq(Texts)) /\ Len(a) = n + 1
      /\ b \in Seq(Seq(Texts)) /\ Len(b) = n
  BY <1>1, ItemsType DEF n
<1>4. o \in Seq(Texts)
  BY OpeningIs
<1>5. a[1] = o
  <2>1. a[1] = Item(f, t, 1)
    BY <1>1 DEF Items
  <2>2. n + 1 = 1 <=> s = <<>>
    BY <1>1 DEF n
  <2>3. ~(1 = n + 1) => t[1 + 1] = s[1]
    <3>1. ~(1 = n + 1) => 1 \in 1 .. n
      BY <1>1
    <3> QED
      BY <1>1, <3>1
  <2>4. Whole(t, 1, 1) <=> s = <<>> \/ s[1] = Blank
    BY <1>1, <2>2, <2>3 DEF Whole
  <2>5. (f \/ 1 > 1) <=> f
    OBVIOUS
  <2> QED
    BY <1>1, <2>1, <2>4, <2>5 DEF Item, Opening
<1>6. ASSUME NEW i \in 1 .. n PROVE a[i + 1] = b[i]
  <2>1. a[i + 1] = Item(f, t, i + 1) /\ b[i] = Item(g, s, i)
    BY <1>1 DEF Items
  <2>2. t[i + 1] = s[i] /\ i + 1 > 1 /\ i + 1 # 1 /\ (i + 1) - 1 = i
    BY <1>1
  <2>3. i + 1 = Len(t) \/ t[(i + 1) + 1] = Blank <=> i = n \/ s[i + 1] = Blank
    <3>1. i # n => i + 1 \in 1 .. n
      BY <1>1
    <3> QED
      BY <1>1, <3>1
  <2>4. t[i] = Blank <=> IF i = 1 THEN x = Blank ELSE s[i - 1] = Blank
    <3>1. i # 1 => i - 1 \in 1 .. n /\ (i - 1) + 1 = i
      BY <1>1
    <3> QED
      BY <1>1, <3>1
  <2>5. (f \/ i + 1 > 1) /\ Whole(t, i + 1, i + 1) <=> (g \/ i > 1) /\ Whole(s, i, i)
    <3>1. Whole(t, i + 1, i + 1) <=> t[i] = Blank /\ (i = n \/ s[i + 1] = Blank)
      BY <2>2, <2>3 DEF Whole
    <3>2. Whole(s, i, i) <=> (i = 1 \/ s[i - 1] = Blank) /\ (i = n \/ s[i + 1] = Blank)
      BY DEF Whole, n
    <3>3. i # 1 => i > 1
      BY <1>1
    <3> QED
      BY <2>2, <2>4, <3>1, <3>2, <3>3
  <2> QED
    BY <2>1, <2>2, <2>5 DEF Item
<1> HIDE DEF a, b, o
<1>7. a = <<o>> \o b
  <2> DEFINE c == <<o>> \o b
  <2>1. /\ c \in Seq(Seq(Texts)) /\ Len(c) = 1 + n
        /\ \A i \in 1 .. 1 + n : c[i] = IF i <= 1 THEN <<o>>[i] ELSE b[i - 1]
    <3>1. <<o>> \in Seq(Seq(Texts)) /\ Len(<<o>>) = 1
      BY <1>4
    <3> QED
      BY <1>3, <3>1, ConcatProperties
  <2> HIDE DEF c
  <2>2. \A i \in 1 .. n + 1 : a[i] = c[i]
    <3>1. ASSUME NEW i \in 1 .. n + 1, i # 1 PROVE a[i] = c[i]
      <4>1. i - 1 \in 1 .. n /\ (i - 1) + 1 = i /\ ~(i <= 1)
        BY <1>1, <3>1
      <4>2. a[i] = b[i - 1]
        BY <1>6, <4>1
      <4> QED
        BY <1>1, <2>1, <4>1, <4>2
    <3>2. a[1] = c[1]
      BY <1>1, <1>5, <2>1
    <3> QED
      BY <3>1, <3>2
  <2>3. a = c
    BY <1>1, <1>3, <2>1, <2>2, SeqEqual
  <2> QED
    BY <2>3 DEF c
<1>8. FlattenSeq(<<o>> \o b) = FlattenSeq(<<o>>) \o FlattenSeq(b)
  <2>1. <<o>> \in Seq(Seq(Texts))
    BY <1>4
  <2> QED
    BY <1>3, <2>1, FlattenConcat
<1> QED
  BY <1>4, <1>7, <1>8, FlattenOne DEF Decoded, a, b, o, t

(* A text without codes is decoded to itself.                              *)
LEMMA DecodedFull ==
    ASSUME NEW f \in BOOLEAN, NEW t \in Seq(Texts), IsCandidate(t)
    PROVE  Decoded(f, t) = t
<1>1. \A i \in DOMAIN t : t[i] \notin AllCodes
  <2>1. ToSet(t) \cap AllCodes = {}
    BY ItemsDecoded
  <2> QED
    BY <2>1 DEF ToSet
<1>2. \A i \in DOMAIN t : Item(f, t, i) = <<t[i]>>
  BY <1>1, ItemsDecoded DEF Item
<1>3. Items(f, t) = [i \in DOMAIN t |-> <<t[i]>>]
  BY <1>2 DEF Items
<1> QED
  BY <1>3, FlattenSingles DEF Decoded

-----------------------------------------------------------------------------
(* ReplacePhrases, which goes on after each phrase.                        *)

(* What ReplacePhrases writes and skips at position i.                     *)
Written(v, i) == IF Found(v, i) = {} THEN Replaced(v[i]) ELSE CodeOf[Min(Found(v, i))]
Following(v, i) ==
    IF Found(v, i) = {} THEN i + 1 ELSE i + Len(candidateEncodeMap[Min(Found(v, i))].words)

(* A phrase has at least one word.                                         *)
LEMMA PhraseIs ==
    ASSUME NEW k \in 1 .. 13
    PROVE  LET p == candidateEncodeMap[k].words
           IN  p \in Seq(Texts) /\ Len(p) \in Nat /\ Len(p) > 0
<1>1. PhraseOf(k) \in Seq(PhraseWords) /\ Len(PhraseOf(k)) > 0
  BY Phrases DEF IsPhrase
<1> QED
  BY <1>1, TextsAre, LenProperties DEF PhraseOf

(* A phrase is found where all its words are.                              *)
LEMMA FoundIs ==
    ASSUME NEW v \in Seq(Texts), NEW i \in 1 .. Len(v), NEW k \in 1 .. 13
    PROVE  LET p == candidateEncodeMap[k].words
           IN  k \in Found(v, i) <=>
                  /\ i + Len(p) <= Len(v) + 1
                  /\ SubSeq(v, i, i + Len(p) - 1) = p
<1> DEFINE p == candidateEncodeMap[k].words
           n == Len(v)
           s == SubSeq(v, i, n)
<1>1. p \in Seq(Texts) /\ Len(p) \in Nat /\ Len(p) > 0
  BY PhraseIs
<1>2. k \in Found(v, i) <=> Len(p) <= Len(s) /\ SubSeq(p, 1, Len(p)) = SubSeq(s, 1, Len(p))
  BY Phrases DEF Found, IsPrefix
<1> HIDE DEF p
<1>3. n \in Nat /\ s \in Seq(Texts) /\ Len(s) = n - i + 1
  BY LenProperties
<1>4. SubSeq(p, 1, Len(p)) = p
  BY <1>1
<1>5. ASSUME Len(p) <= Len(s) PROVE SubSeq(s, 1, Len(p)) = SubSeq(v, i, i + Len(p) - 1)
  <2>1. i + Len(p) - 1 <= n
    BY <1>1, <1>3, <1>5
  <2> QED
    BY <1>1, <1>3, <2>1
<1>6. Len(p) <= Len(s) <=> i + Len(p) <= n + 1
  BY <1>1, <1>3
<1> QED
  BY <1>2, <1>4, <1>5, <1>6 DEF p

(* What is written is a code or the word itself, and it goes forward.      *)
LEMMA FirstFound ==
    ASSUME NEW v \in Seq(Texts), NEW i \in 1 .. Len(v)
    PROVE  /\ Following(v, i) \in i + 1 .. Len(v) + 1
           /\ Written(v, i) \in Texts
           /\ \/ /\ Found(v, i) = {} /\ Written(v, i) = Replaced(v[i]) /\ Following(v, i) = i + 1
              \/ \E k \in Found(v, i) :
                    /\ Written(v, i) = CodeOf[k] /\ \A j \in Found(v, i) : k <= j
                    /\ Following(v, i) = i + Len(candidateEncodeMap[k].words)
<1> DEFINE F == Found(v, i)
           n == Len(v)
<1>1. F \subseteq 1 .. 13 /\ n \in Nat
  BY LenProperties, Phrases DEF Found
<1>2. CASE F = {}
  <2>1. Replaced(v[i]) \in Texts
    BY LenProperties, TextsAre DEF Replaced
  <2> QED
    BY <1>1, <1>2, <2>1 DEF Written, Following
<1>3. CASE F # {}
  <2>1. \E k \in F : \A j \in F : k <= j
    <3> DEFINE T == {m \in Nat : (\E k \in F : k <= m) => \E k \in F : \A j \in F : k <= j}
    <3>1. 0 \in T
      BY <1>1
    <3>2. ASSUME NEW m \in T, m \in Nat PROVE m + 1 \in T
      <4>1. SUFFICES ASSUME \E k \in F : k <= m + 1, ~ \E k \in F : k <= m
                     PROVE  \E k \in F : \A j \in F : k <= j
        <5> HIDE DEF F
        <5> QED
          BY <3>2
      <4>2. PICK k \in F : k <= m + 1
        BY <4>1
      <4>3. \A j \in F : ~(j <= m) /\ j \in Nat
        BY <1>1, <4>1
      <4> HIDE DEF F
      <4> QED
        BY <4>2, <4>3, <3>2
    <3>3. 13 \in T
      <4> HIDE DEF T
      <4> QED
        BY <3>1, <3>2, CountUp
    <3>4. \E k \in F : k <= 13
      <4>1. PICK k : k \in F
        BY <1>3
      <4> HIDE DEF F
      <4>2. k \in 1 .. 13
        BY <1>1, <4>1
      <4> QED
        BY <4>1, <4>2
    <3> HIDE DEF F
    <3> QED
      BY <3>3, <3>4
  <2>2. Min(F) \in F /\ \A j \in F : Min(F) <= j
    <3> HIDE DEF F
    <3> QED
      BY <2>1 DEF Min
  <2> DEFINE k == Min(F)
             p == candidateEncodeMap[k].words
  <2>3. k \in 1 .. 13
    BY <1>1, <2>2
  <2>4. Written(v, i) = CodeOf[k] /\ Following(v, i) = i + Len(p)
    BY <1>3 DEF Written, Following
  <2> HIDE DEF F, k
  <2>5. CodeOf[k] \in Texts
    BY <2>3, TextsAre
  <2>6. Len(p) \in Nat /\ Len(p) > 0
    BY <2>3, PhraseIs
  <2>7. i + Len(p) <= n + 1
    BY <2>2, <2>3, FoundIs DEF F, k
  <2> HIDE DEF p
  <2>8. Following(v, i) \in i + 1 .. n + 1
    BY <1>1, <2>4, <2>6, <2>7
  <2>9. k \in F /\ \A j \in F : k <= j
    BY <2>2 DEF k
  <2> QED
    BY <2>4, <2>5, <2>8, <2>9 DEF F, p
<1> QED
  BY <1>2, <1>3

IsReplacing(from, v) ==
    /\ from \in [1 .. Len(v) + 1 -> Seq(Texts)]
    /\ from[Len(v) + 1] = <<>>
    /\ \A i \in 1 .. Len(v) : from[i] = <<Written(v, i)>> \o from[Following(v, i)]

(* ReplacePhrases computes it from the end.                                *)
LEMMA ReplacingIs ==
    ASSUME NEW v \in Seq(Texts)
    PROVE  \E from : IsReplacing(from, v) /\ ReplacePhrases(v) = from[1]
<1> DEFINE n == Len(v)
           S == Seq(Texts)
           Body(f) == [i \in 1 .. n + 1 |->
                IF i > n THEN <<>>
                ELSE IF Found(v, i) = {} THEN <<Replaced(v[i])>> \o f[i + 1]
                ELSE LET phrase == candidateEncodeMap[Min(Found(v, i))]
                     IN  <<phrase.code>> \o f[i + Len(phrase.words)]]
           loop == CHOOSE f : f = Body(f)
           Step(f, i) == <<Written(v, i)>> \o f[Following(v, i)]
           round == [p \in S \X (1 .. n) |-> <<Written(v, p[2])>> \o p[1]]
           jump == [i \in 1 .. n |-> Following(v, i)]
<1>1. n \in Nat
  BY LenProperties
<1>2. ASSUME NEW i \in 1 .. n, NEW f
      PROVE  Step(f, i) = IF Found(v, i) = {} THEN <<Replaced(v[i])>> \o f[i + 1]
                ELSE LET phrase == candidateEncodeMap[Min(Found(v, i))]
                     IN  <<phrase.code>> \o f[i + Len(phrase.words)]
  <2>2. CASE Found(v, i) = {}
    BY <2>2 DEF Written, Following
  <2>3. CASE Found(v, i) # {}
    <3> DEFINE k == Min(Found(v, i))
    <3>1. k \in Found(v, i)
      <4>1. PICK j \in Found(v, i) : \A m \in Found(v, i) : j <= m
        BY <2>3, FirstFound
      <4> HIDE DEF Found
      <4> QED
        BY <4>1 DEF Min
    <3>2. k \in 1 .. 13
      BY <3>1, Phrases DEF Found
    <3> HIDE DEF k
    <3>3. candidateEncodeMap[k].code = CodeOf[k]
      BY <3>2, Phrases
    <3>4. Written(v, i) = CodeOf[k] /\ Following(v, i) = i + Len(candidateEncodeMap[k].words)
      BY <2>3 DEF Written, Following, k
    <3> QED
      BY <2>3, <3>3, <3>4 DEF k
  <2> QED
    BY <2>2, <2>3
<1>3. \A i \in 1 .. n : Following(v, i) \in i + 1 .. n + 1 /\ Written(v, i) \in Texts
  BY FirstFound
<1>4. \E from : IsLoopBack(from, n, S, <<>>, jump, round)
  <2>1. round \in [S \X (1 .. n) -> S]
    <3>1. ASSUME NEW x \in S, NEW i \in 1 .. n PROVE <<Written(v, i)>> \o x \in S
      <4>1. <<Written(v, i)>> \in Seq(Texts)
        BY <1>3
      <4> QED
        BY <4>1, ConcatProperties
    <3> HIDE DEF S, n
    <3> QED
      BY <3>1
  <2>2. <<>> \in S
    OBVIOUS
  <2>3. \A i \in 1 .. n : jump[i] \in i + 1 .. n + 1
    BY <1>3
  <2> HIDE DEF S, n, round, jump
  <2> QED
    BY <1>1, <2>1, <2>2, <2>3, LoopBackEnds
<1>5. ASSUME NEW from, IsLoopBack(from, n, S, <<>>, jump, round) PROVE IsReplacing(from, v)
  <2>1. ASSUME NEW i \in 1 .. n PROVE from[i] = Step(from, i)
    <3>1. from[i] = round[<<from[jump[i]], i>>] /\ jump[i] = Following(v, i)
      <4> HIDE DEF n, S, round
      <4> QED
        BY <1>5 DEF IsLoopBack
    <3>2. jump[i] \in 1 .. n + 1
      BY <1>1, <1>3, <3>1
    <3>3. <<from[jump[i]], i>> \in S \X (1 .. n)
      <4> HIDE DEF n, S, jump, round
      <4> QED
        BY <1>5, <3>2 DEF IsLoopBack
    <3>4. round[<<from[jump[i]], i>>] = <<Written(v, i)>> \o from[jump[i]]
      <4> HIDE DEF n, S, jump
      <4> QED
        BY <3>3
    <3> HIDE DEF jump, round
    <3> QED
      BY <3>1, <3>4
  <2> HIDE DEF jump, round
  <2> QED
    BY <1>5, <2>1 DEF IsLoopBack, IsReplacing
<1>6. ASSUME NEW from, IsReplacing(from, v) PROVE from = Body(from)
  <2>1. ASSUME NEW i \in 1 .. n + 1
        PROVE  from[i] = IF i > n THEN <<>> ELSE Step(from, i)
    <3>1. CASE i > n
      <4>1. i = n + 1
        BY <1>1, <3>1
      <4> QED
        BY <1>6, <3>1, <4>1 DEF IsReplacing
    <3>2. CASE ~(i > n)
      <4>1. i \in 1 .. n
        BY <1>1, <3>2
      <4> QED
        BY <1>6, <3>2, <4>1 DEF IsReplacing
    <3> QED
      BY <3>1, <3>2
  <2>2. ASSUME NEW i \in 1 .. n + 1
        PROVE  from[i] = Body(from)[i]
    <3>1. CASE i > n
      BY <2>1, <3>1
    <3>2. CASE ~(i > n)
      <4>1. i \in 1 .. n
        BY <1>1, <3>2
      <4> HIDE DEF n
      <4> QED
        BY <1>2, <2>1, <3>2, <4>1
    <3> QED
      BY <3>1, <3>2
  <2>3. DOMAIN Body(from) = 1 .. n + 1 /\ from \in [1 .. n + 1 -> S]
    BY <1>6 DEF IsReplacing
  <2>4. Body(from) \in [1 .. n + 1 -> S]
    <3>1. Body(from) = [i \in 1 .. n + 1 |-> Body(from)[i]]
      OBVIOUS
    <3> HIDE DEF Body, n, S
    <3> QED
      BY <2>2, <2>3, <3>1
  <2> DEFINE body == Body(from)
             D == 1 .. n + 1
  <2>5. /\ body \in [D -> S] /\ from \in [D -> S]
        /\ \A i \in D : from[i] = body[i]
    BY <2>2, <2>3, <2>4
  <2> HIDE DEF D, S, body
  <2>6. from = body
    BY <2>5
  <2> QED
    BY <2>6 DEF body
<1>7. loop = Body(loop)
  <2>1. \E f : f = Body(f)
    <3> HIDE DEF Body, n, S, jump, round
    <3> QED
      BY <1>4, <1>5, <1>6
  <2> HIDE DEF Body
  <2> QED
    BY <2>1
<1>8. PICK from : IsReplacing(from, v)
  <2> HIDE DEF n, S, jump, round
  <2> QED
    BY <1>4, <1>5
<1>9. from = Body(from)
  <2> HIDE DEF Body
  <2> QED
    BY <1>6, <1>8
<1>10. loop[1] = from[1]
  <2> DEFINE T == {i \in 1 .. n + 1 : loop[i] = from[i]}
  <2>1. ASSUME NEW i \in 1 .. n + 1, \A j \in i + 1 .. n + 1 : j \in T PROVE i \in T
    <3>1. CASE i > n
      <4>1. loop[i] = <<>> /\ from[i] = <<>>
        <5> HIDE DEF loop, n
        <5> QED
          BY <1>7, <1>9, <3>1
      <4> QED
        BY <4>1
    <3>2. CASE ~(i > n)
      <4>1. i \in 1 .. n
        BY <1>1, <3>2
      <4>2. \A f : Body(f)[i] = Step(f, i)
        <5> HIDE DEF n
        <5> QED
          BY <1>2, <3>2, <4>1
      <4>3. loop[i] = Step(loop, i) /\ from[i] = Step(from, i)
        <5> HIDE DEF Body, Step, loop
        <5> QED
          BY <1>7, <1>9, <4>2
      <4>4. loop[Following(v, i)] = from[Following(v, i)]
        <5> HIDE DEF loop
        <5> QED
          BY <1>3, <2>1, <4>1
      <4> HIDE DEF loop
      <4> QED
        BY <4>3, <4>4
    <3> QED
      BY <3>1, <3>2
  <2>2. 1 .. n + 1 \subseteq T
    <3> HIDE DEF T, n
    <3> QED
      BY <1>1, <2>1, CountDown
  <2>3. 1 \in 1 .. n + 1
    BY <1>1
  <2> HIDE DEF loop
  <2> QED
    BY <2>2, <2>3
<1>11. ReplacePhrases(v) = loop[1]
  BY DEF ReplacePhrases
<1> QED
  <2> HIDE DEF loop
  <2> QED
    BY <1>8, <1>10, <1>11

-----------------------------------------------------------------------------
(* ReplacePhrases, piece by piece.                                         *)

(* Nothing is replaced by nothing.                                         *)
LEMMA ReplacedNil == ReplacePhrases(<<>>) = <<>>
<1>1. <<>> \in Seq(Texts) /\ Len(<<>>) = 0
  OBVIOUS
<1>2. PICK from : IsReplacing(from, <<>>) /\ ReplacePhrases(<<>>) = from[1]
  BY <1>1, ReplacingIs
<1> QED
  BY <1>1, <1>2 DEF IsReplacing

(* The same is found, written and skipped in the rest of a text.           *)
IsRest(s, t, d) == Len(s) = Len(t) - d /\ \A j \in 1 .. Len(s) : s[j] = t[j + d]

(* What is found in a text depends on nothing before it.                   *)
LEMMA SameLater ==
    ASSUME NEW t \in Seq(Texts), NEW s \in Seq(Texts), NEW d \in 0 .. Len(t), IsRest(s, t, d),
           NEW i \in 1 .. Len(s)
    PROVE  /\ Found(s, i) = Found(t, i + d)
           /\ Written(s, i) = Written(t, i + d) /\ Following(s, i) + d = Following(t, i + d)
           /\ Following(s, i) \in i + 1 .. Len(s) + 1
<1> DEFINE n == Len(t)
           a == SubSeq(s, i, Len(s))
           b == SubSeq(t, i + d, n)
<1>0. n \in Nat /\ Len(s) \in Nat
  BY LenProperties
<1>1. n \in Nat /\ Len(s) \in Nat /\ Len(s) = n - d /\ d \in Nat /\ i + d \in 1 .. n
  BY <1>0 DEF IsRest
<1>2. a \in Seq(Texts) /\ Len(a) = n - d - i + 1 /\ \A j \in 1 .. n - d - i + 1 : a[j] = s[i + j - 1]
  BY <1>1
<1>3. b \in Seq(Texts) /\ Len(b) = n - d - i + 1 /\ \A j \in 1 .. n - d - i + 1 : b[j] = t[i + d + j - 1]
  BY <1>1
<1>4. \A j \in 1 .. n - d - i + 1 : i + j - 1 \in 1 .. Len(s) /\ (i + j - 1) + d = i + d + j - 1
  BY <1>1
<1>5. a = b
  <2> HIDE DEF a, b, n
  <2>1. \A j \in 1 .. n - d - i + 1 : a[j] = b[j]
    BY <1>2, <1>3, <1>4 DEF IsRest
  <2> QED
    BY <1>2, <1>3, <2>1, SeqEqual
<1>6. Found(s, i) = Found(t, i + d)
  BY <1>5 DEF Found
<1>7. Following(s, i) \in i + 1 .. Len(s) + 1
  BY FirstFound
<1>8. Written(s, i) = Written(t, i + d)
  <2>1. s[i] = t[i + d]
    BY DEF IsRest
  <2> QED
    BY <1>6, <2>1 DEF Written
<1>9. Following(s, i) + d = Following(t, i + d)
  <2>1. CASE Found(s, i) = {}
    <3>1. Following(s, i) = i + 1 /\ Following(t, i + d) = (i + d) + 1
      BY <1>6, <2>1 DEF Following
    <3> QED
      BY <1>1, <3>1
  <2>2. CASE Found(s, i) # {}
    <3> DEFINE p == candidateEncodeMap[Min(Found(s, i))].words
    <3>1. Following(s, i) = i + Len(p) /\ Following(t, i + d) = i + d + Len(p)
      BY <1>6, <2>2 DEF Following
    <3>2. Len(p) \in Int
      <4>1. PICK k \in Found(s, i) : \A j \in Found(s, i) : k <= j
        BY <2>2, FirstFound
      <4>2. Min(Found(s, i)) \in Found(s, i)
        BY <4>1 DEF Min
      <4>3. Min(Found(s, i)) \in 1 .. 13
        BY <4>2, Phrases DEF Found
      <4> QED
        BY <4>3, PhraseIs
    <3> HIDE DEF p
    <3> QED
      BY <1>1, <3>1, <3>2
  <2> QED
    BY <2>1, <2>2
<1> QED
  BY <1>6, <1>7, <1>8, <1>9

(* It goes on after what it found first with a text of its own.            *)
LEMMA ReplacedRest ==
    ASSUME NEW t \in Seq(Texts), t # <<>>
    PROVE  /\ ReplacePhrases(t) \in Seq(Texts)
           /\ ReplacePhrases(t) =
                 <<Written(t, 1)>> \o ReplacePhrases(SubSeq(t, Following(t, 1), Len(t)))
<1> DEFINE n == Len(t)
           d == Following(t, 1) - 1
           s == SubSeq(t, Following(t, 1), n)
<1>1. n \in Nat /\ n > 0 /\ 1 \in 1 .. n
  BY EmptySeq
<1>2. d \in 1 .. n /\ Following(t, 1) = d + 1
  <2>1. Following(t, 1) \in 1 + 1 .. n + 1
    BY <1>1, FirstFound
  <2> HIDE DEF n
  <2> QED
    BY <1>1, <2>1
<1> HIDE DEF d
<1>3. s \in Seq(Texts) /\ Len(s) = n - d /\ \A i \in 1 .. n - d : s[i] = t[i + d]
  BY <1>1, <1>2
<1>4. PICK from : IsReplacing(from, t) /\ ReplacePhrases(t) = from[1]
  BY ReplacingIs
<1>5. PICK rest : IsReplacing(rest, s) /\ ReplacePhrases(s) = rest[1]
  BY <1>3, ReplacingIs
<1>7. ASSUME NEW i \in 1 .. n - d
      PROVE  Written(s, i) = Written(t, i + d) /\ Following(s, i) + d = Following(t, i + d)
             /\ Following(s, i) \in i + 1 .. n - d + 1
  <2>1. d \in 0 .. Len(t)
    BY <1>1, <1>2
  <2>2. i \in 1 .. Len(s)
    BY <1>3
  <2>3. IsRest(s, t, d)
    <3> HIDE DEF s
    <3> QED
      BY <1>3 DEF IsRest
  <2> HIDE DEF s
  <2>4. /\ Written(s, i) = Written(t, i + d) /\ Following(s, i) + d = Following(t, i + d)
        /\ Following(s, i) \in i + 1 .. Len(s) + 1
    BY <1>3, <2>1, <2>2, <2>3, SameLater
  <2> QED
    BY <1>3, <2>4
<1> HIDE DEF s
<1>8. rest[1] = from[1 + d]
  <2> DEFINE m == n - d
             T == {i \in 1 .. m + 1 : rest[i] = from[i + d]}
  <2>1. m \in Nat /\ Len(s) = m
    BY <1>1, <1>2, <1>3
  <2>2. ASSUME NEW i \in 1 .. m + 1, \A j \in i + 1 .. m + 1 : j \in T PROVE i \in T
    <3>1. CASE i = m + 1
      <4>1. rest[i] = <<>>
        BY <1>5, <2>1, <3>1 DEF IsReplacing
      <4>2. i + d = n + 1
        BY <1>1, <1>2, <3>1
      <4>3. from[n + 1] = <<>>
        BY <1>4 DEF IsReplacing
      <4> QED
        BY <4>1, <4>2, <4>3
    <3>2. CASE i # m + 1
      <4>1. i \in 1 .. m /\ i + d \in 1 .. n
        BY <1>1, <1>2, <2>1, <3>2
      <4>2. rest[i] = <<Written(s, i)>> \o rest[Following(s, i)]
        BY <1>5, <2>1, <4>1 DEF IsReplacing
      <4>3. from[i + d] = <<Written(t, i + d)>> \o from[Following(t, i + d)]
        BY <1>4, <4>1 DEF IsReplacing
      <4>4. /\ Written(s, i) = Written(t, i + d) /\ Following(s, i) + d = Following(t, i + d)
            /\ Following(s, i) \in i + 1 .. m + 1
        BY <1>7, <4>1
      <4>5. rest[Following(s, i)] = from[Following(s, i) + d]
        BY <2>2, <4>4
      <4> QED
        BY <4>2, <4>3, <4>4, <4>5
    <3> QED
      BY <3>1, <3>2
  <2>3. 1 .. m + 1 \subseteq T
    <3> HIDE DEF T, m
    <3> QED
      BY <2>1, <2>2, CountDown
  <2>4. 1 \in 1 .. m + 1
    BY <2>1
  <2> HIDE DEF m
  <2> QED
    BY <2>3, <2>4
<1>9. from[1] = <<Written(t, 1)>> \o from[Following(t, 1)]
  BY <1>1, <1>4 DEF IsReplacing
<1>10. from[1] \in Seq(Texts)
  BY <1>1, <1>4 DEF IsReplacing
<1>11. from[Following(t, 1)] = from[1 + d]
  BY <1>2
<1> QED
  BY <1>4, <1>5, <1>8, <1>9, <1>10, <1>11 DEF s

(* What is written for a text is a text.                                   *)
LEMMA ReplacedType == ASSUME NEW t \in Seq(Texts) PROVE ReplacePhrases(t) \in Seq(Texts)
<1>1. <<>> \in Seq(Texts)
  OBVIOUS
<1> QED
  BY <1>1, ReplacedNil, ReplacedRest

(* A phrase is found where the text goes on with it.                       *)
Begins(t, p) == \E s \in Seq(Texts) : t = p \o s

(* A phrase is found at the start of a text that begins with it.           *)
LEMMA FoundBegins ==
    ASSUME NEW t \in Seq(Texts), t # <<>>, NEW k \in 1 .. 13
    PROVE  /\ k \in Found(t, 1) <=> Begins(t, PhraseOf(k))
           /\ \A s \in Seq(Texts) : t = PhraseOf(k) \o s => s = SubSeq(t, Len(PhraseOf(k)) + 1, Len(t))
<1> DEFINE p == PhraseOf(k)
           n == Len(t)
           r == SubSeq(t, Len(p) + 1, n)
<1>1. p \in Seq(Texts) /\ Len(p) \in Nat /\ Len(p) > 0
  BY PhraseIs DEF PhraseOf
<1>2. n \in Nat /\ n > 0 /\ 1 \in 1 .. n
  BY EmptySeq
<1>3. k \in Found(t, 1) <=> 1 + Len(p) <= n + 1 /\ SubSeq(t, 1, 1 + Len(p) - 1) = p
  BY <1>2, FoundIs DEF PhraseOf
<1> HIDE DEF p
<1>4. ASSUME k \in Found(t, 1) PROVE r \in Seq(Texts) /\ t = p \o r
  <2>1. Len(p) <= n /\ SubSeq(t, 1, Len(p)) = p
    <3>1. 1 + Len(p) - 1 = Len(p)
      BY <1>1
    <3>2. 1 + Len(p) <= n + 1 /\ SubSeq(t, 1, Len(p)) = p
      BY <1>3, <1>4, <3>1
    <3> HIDE DEF n
    <3>3. Len(p) <= n
      BY <1>1, <1>2, <3>2
    <3> QED
      BY <3>2, <3>3
  <2>2. SubSeq(t, 1, Len(p)) \o SubSeq(t, Len(p) + 1, n) = SubSeq(t, 1, n)
    <3>1. 1 \in 1 .. n + 1 /\ Len(p) \in 1 - 1 .. n /\ n \in Len(p) .. n
      BY <1>1, <1>2, <2>1
    <3>2. 1 \in 1 .. Len(t) + 1 /\ Len(p) \in 1 - 1 .. Len(t) /\ n \in Len(p) .. Len(t)
      BY <3>1
    <3> HIDE DEF n
    <3> QED
      BY <3>2, ConcatAdjacentSubSeq
  <2>3. SubSeq(t, 1, n) = t
    BY SubSeqFull
  <2>4. r \in Seq(Texts)
    BY <1>1, <1>2, <2>1
  <2>5. t = p \o SubSeq(t, Len(p) + 1, n)
    BY <2>1, <2>2, <2>3
  <2> QED
    BY <2>4, <2>5
<1>5. ASSUME NEW s \in Seq(Texts), t = p \o s PROVE k \in Found(t, 1) /\ s = r
  <2>1. /\ n = Len(p) + Len(s) /\ Len(s) \in Nat
        /\ \A i \in 1 .. Len(p) + Len(s) : t[i] = IF i <= Len(p) THEN p[i] ELSE s[i - Len(p)]
    BY <1>1, <1>5, ConcatProperties, LenProperties
  <2>2. SubSeq(t, 1, Len(p)) = p
    <3> DEFINE q == SubSeq(t, 1, Len(p))
    <3>1. q \in Seq(Texts) /\ Len(q) = Len(p) /\ \A i \in 1 .. Len(p) : q[i] = t[i]
      BY <1>1, <1>2, <2>1
    <3> HIDE DEF q
    <3>2. \A i \in 1 .. Len(p) : q[i] = p[i]
      BY <1>1, <2>1, <3>1
    <3>3. q = p
      BY <1>1, <3>1, <3>2, SeqEqual
    <3> QED
      BY <3>3 DEF q
  <2>3. s = r
    <3>1. r \in Seq(Texts) /\ Len(r) = Len(s) /\ \A i \in 1 .. Len(s) : r[i] = t[i + Len(p)]
      BY <1>1, <1>2, <2>1
    <3> HIDE DEF r
    <3>2. \A i \in 1 .. Len(s) : r[i] = s[i]
      <4>1. ASSUME NEW i \in 1 .. Len(s) PROVE r[i] = s[i]
        <5>1. i + Len(p) \in 1 .. Len(p) + Len(s) /\ ~(i + Len(p) <= Len(p)) /\ (i + Len(p)) - Len(p) = i
          BY <1>1, <2>1
        <5> QED
          BY <2>1, <3>1, <5>1
      <4> QED
        BY <4>1
    <3> QED
      BY <3>1, <3>2, SeqEqual
  <2>4. 1 + Len(p) <= n + 1 /\ 1 + Len(p) - 1 = Len(p)
    BY <1>1, <2>1
  <2> QED
    BY <1>3, <2>2, <2>3, <2>4
<1> HIDE DEF r
<1>6. \A s \in Seq(Texts) : t = p \o s => s = r
  BY <1>5
<1>7. k \in Found(t, 1) <=> Begins(t, p)
  BY <1>4, <1>5 DEF Begins
<1> QED
  BY <1>6, <1>7 DEF p, r, n

(* k is the first phrase that text t begins with.                          *)
IsFirst(k, t) == k \in Found(t, 1) /\ \A j \in Found(t, 1) : k <= j

(* Of the phrases found at the start, one comes first in the dictionary.   *)
LEMMA FoundFirst ==
    ASSUME NEW t \in Seq(Texts), t # <<>>
    PROVE  /\ Found(t, 1) \subseteq 1 .. 13
           /\ Found(t, 1) # {} => \E k \in 1 .. 13 : IsFirst(k, t)
<1>1. 1 \in 1 .. Len(t)
  BY EmptySeq
<1> QED
  BY <1>1, FirstFound, Phrases DEF Found, IsFirst

(* The piece before a text is in no phrase.                                *)
LEMMA ReplacedPiece ==
    ASSUME NEW x \in Texts, NEW s \in Seq(Texts), Found(<<x>> \o s, 1) = {}
    PROVE  ReplacePhrases(<<x>> \o s) = <<Replaced(x)>> \o ReplacePhrases(s)
<1> DEFINE t == <<x>> \o s
<1>1. t \in Seq(Texts) /\ t # <<>> /\ t[1] = x /\ SubSeq(t, 2, Len(t)) = s
  BY ConsIs
<1>2. Found(t, 1) = {}
  OBVIOUS
<1> HIDE DEF t
<1>3. Written(t, 1) = Replaced(x) /\ Following(t, 1) = 2
  BY <1>1, <1>2 DEF Written, Following
<1>4. ReplacePhrases(t) = <<Replaced(x)>> \o ReplacePhrases(s)
  BY <1>1, <1>3, ReplacedRest
<1> QED
  BY <1>4 DEF t

(* There is a phrase before the text.                                      *)
LEMMA ReplacedPhrase ==
    ASSUME NEW k \in 1 .. 13, NEW s \in Seq(Texts), IsFirst(k, PhraseOf(k) \o s)
    PROVE  ReplacePhrases(PhraseOf(k) \o s) = <<CodeOf[k]>> \o ReplacePhrases(s)
<1> DEFINE p == PhraseOf(k)
           t == p \o s
<1>1. p \in Seq(Texts) /\ Len(p) \in Nat /\ Len(p) > 0
  BY PhraseIs DEF PhraseOf
<1>2. t \in Seq(Texts) /\ Len(t) = Len(p) + Len(s) /\ Len(s) \in Nat
  BY <1>1, ConcatProperties, LenProperties
<1>3. t # <<>>
  BY <1>1, <1>2
<1>4. SubSeq(t, Len(p) + 1, Len(t)) = s
  <2> HIDE DEF t
  <2>1. \A r \in Seq(Texts) : t = p \o r => r = SubSeq(t, Len(p) + 1, Len(t))
    BY <1>2, <1>3, FoundBegins
  <2> QED
    BY <2>1 DEF t
<1> HIDE DEF t
<1>5. k \in Found(t, 1) /\ \A j \in Found(t, 1) : k <= j
  BY DEF t, IsFirst
<1>6. Found(t, 1) \subseteq 1 .. 13
  BY <1>2, <1>3, FoundFirst
<1>7. Min(Found(t, 1)) = k
  <2>1. \A j \in Found(t, 1) : (\A i \in Found(t, 1) : j <= i) => j = k
    BY <1>5, <1>6
  <2>2. Min(Found(t, 1)) \in Found(t, 1) /\ \A i \in Found(t, 1) : Min(Found(t, 1)) <= i
    BY <1>5 DEF Min
  <2> QED
    BY <2>1, <2>2
<1>8. Written(t, 1) = CodeOf[k] /\ Following(t, 1) = Len(p) + 1
  BY <1>1, <1>5, <1>7 DEF Written, Following, PhraseOf
<1>9. ReplacePhrases(t) = <<CodeOf[k]>> \o ReplacePhrases(s)
  BY <1>2, <1>3, <1>4, <1>8, ReplacedRest
<1> QED
  BY <1>9 DEF t

(* A text begins with a phrase, or with a piece that is in none.           *)
LEMMA TextIs ==
    ASSUME NEW t \in Seq(Texts), t # <<>>
    PROVE  \/ \E x \in Texts, s \in Seq(Texts) :
                 /\ t = <<x>> \o s /\ Len(s) < Len(t) /\ Found(t, 1) = {}
                 /\ ReplacePhrases(t) = <<Replaced(x)>> \o ReplacePhrases(s)
           \/ \E k \in 1 .. 13, s \in Seq(Texts) :
                 /\ t = PhraseOf(k) \o s /\ Len(s) < Len(t) /\ IsFirst(k, t)
                 /\ ReplacePhrases(t) = <<CodeOf[k]>> \o ReplacePhrases(s)
<1>1. CASE Found(t, 1) = {}
  <2>1. PICK x \in Texts, s \in Seq(Texts) : t = <<x>> \o s /\ Len(s) = Len(t) - 1
    BY Uncons
  <2>2. Len(s) < Len(t)
    BY <2>1, LenProperties
  <2>3. ReplacePhrases(t) = <<Replaced(x)>> \o ReplacePhrases(s)
    BY <1>1, <2>1, ReplacedPiece
  <2> QED
    BY <1>1, <2>1, <2>2, <2>3
<1>2. CASE Found(t, 1) # {}
  <2>1. PICK k \in 1 .. 13 : IsFirst(k, t)
    BY <1>2, FoundFirst
  <2>2. PICK s \in Seq(Texts) : t = PhraseOf(k) \o s
    BY <2>1, FoundBegins DEF IsFirst, Begins
  <2>3. Len(s) < Len(t)
    <3>1. PhraseOf(k) \in Seq(Texts) /\ Len(PhraseOf(k)) \in Nat /\ Len(PhraseOf(k)) > 0
      BY PhraseIs DEF PhraseOf
    <3> QED
      BY <2>2, <3>1, ConcatProperties, LenProperties
  <2>4. ReplacePhrases(t) = <<CodeOf[k]>> \o ReplacePhrases(s)
    BY <2>1, <2>2, ReplacedPhrase
  <2> QED
    BY <2>1, <2>2, <2>3, <2>4
<1> QED
  BY <1>1, <1>2

-----------------------------------------------------------------------------
(* What is decoded again has no phrase that was not there before.          *)

(* A phrase and its code.                                                  *)
LEMMA PhraseHas ==
    ASSUME NEW k \in 1 .. 13
    PROVE  /\ PhraseOf(k) \in Seq(PhraseWords) /\ PhraseOf(k) \in Seq(Texts)
           /\ Len(PhraseOf(k)) \in Nat /\ Len(PhraseOf(k)) > 0
           /\ PhraseOf(k)[1] \in Beginnings /\ PhraseOf(k)[1] # Blank
           /\ PhraseOf(k)[Len(PhraseOf(k))] # Blank
           /\ CodeOf[k] \in Texts /\ CodeOf[k] # Blank /\ CodeOf[k] \notin PhraseWords
           /\ CodeOf[k] \in AllCodes /\ CodeOf[k] \notin Lookalikes
           /\ DecodeItem(CodeOf[k]) = PhraseOf(k)
<1>1. /\ PhraseOf(k) \in Seq(PhraseWords) /\ Len(PhraseOf(k)) > 0
      /\ PhraseOf(k)[1] \in Beginnings /\ PhraseOf(k)[Len(PhraseOf(k))] # Blank
  BY Phrases DEF IsPhrase
<1>2. PhraseOf(k) \in Seq(Texts) /\ Len(PhraseOf(k)) \in Nat
  BY <1>1, TextsAre, LenProperties
<1>3. CodeOf[k] \in AllCodes
  BY DEF AllCodes
<1> QED
  BY <1>1, <1>2, <1>3, TextsAre, CodesDiffer, ItemsDecoded

(* A piece that is no code is written as it is, or as none of a phrase.    *)
LEMMA ReplacedIs ==
    ASSUME NEW x \in Texts, x \notin AllCodes
    PROVE  /\ Replaced(x) \in Texts /\ Replaced(x) \notin AllCodes
           /\ Replaced(x) \in PhraseWords => Replaced(x) = x
           /\ Replaced(Replaced(x)) = Replaced(x)
           /\ Replaced(x) = x <=> x \notin Lookalikes
           /\ Replaced(x) = Blank <=> x = Blank
<1>1. "undefined" \notin AllCodes /\ "undefined" \notin Lookalikes /\ "undefined" \in Texts
      /\ "undefined" \notin PhraseWords /\ Blank \notin Lookalikes /\ Blank \in PhraseWords
  BY ItemsDecoded, TextsAre, CodesDiffer DEF PhraseWords
<1> QED
  BY <1>1 DEF Replaced

(* The rest of a candidate without codes has none.                         *)
LEMMA CandidateCons ==
    ASSUME NEW x \in Texts, NEW s \in Seq(Texts), IsCandidate(<<x>> \o s)
    PROVE  x \notin AllCodes /\ IsCandidate(s)
BY ItemsDecoded, ConsSet

(* The pieces of a joined text are those of its two parts.                 *)
LEMMA ConcatHas ==
    ASSUME NEW p \in Seq(Texts), NEW s \in Seq(Texts)
    PROVE  /\ p \o s \in Seq(Texts) /\ Len(p \o s) = Len(p) + Len(s)
           /\ Len(p) \in Nat /\ Len(s) \in Nat /\ DOMAIN (p \o s) = 1 .. Len(p) + Len(s)
           /\ \A i \in 1 .. Len(p) : (p \o s)[i] = p[i]
           /\ \A i \in 1 .. Len(s) : (p \o s)[i + Len(p)] = s[i]
<1> DEFINE t == p \o s
<1>1. /\ t \in Seq(Texts) /\ Len(t) = Len(p) + Len(s) /\ Len(p) \in Nat /\ Len(s) \in Nat
      /\ DOMAIN t = 1 .. Len(p) + Len(s)
      /\ \A i \in 1 .. Len(p) + Len(s) : t[i] = IF i <= Len(p) THEN p[i] ELSE s[i - Len(p)]
  BY ConcatProperties, LenProperties
<1> HIDE DEF t
<1>2. \A i \in 1 .. Len(p) : t[i] = p[i]
  BY <1>1
<1>3. ASSUME NEW i \in 1 .. Len(s) PROVE t[i + Len(p)] = s[i]
  <2>1. i + Len(p) \in 1 .. Len(p) + Len(s) /\ ~(i + Len(p) <= Len(p)) /\ (i + Len(p)) - Len(p) = i
    BY <1>1
  <2> QED
    BY <1>1, <2>1
<1> QED
  BY <1>1, <1>2, <1>3 DEF t

(* The second part of a candidate without codes has none.                  *)
LEMMA CandidateConcat ==
    ASSUME NEW p \in Seq(Texts), NEW s \in Seq(Texts), IsCandidate(p \o s)
    PROVE  IsCandidate(s)
<1>1. ToSet(s) \subseteq ToSet(p \o s)
  <2>1. ASSUME NEW i \in DOMAIN s PROVE s[i] \in ToSet(p \o s)
    <3>1. i \in 1 .. Len(s) /\ i + Len(p) \in DOMAIN (p \o s) /\ (p \o s)[i + Len(p)] = s[i]
      BY ConcatHas, LenProperties
    <3> QED
      BY <3>1 DEF ToSet
  <2> QED
    BY <2>1 DEF ToSet
<1> QED
  BY <1>1, ItemsDecoded

(* Nothing that is made of pieces of phrases begins what is decoded        *)
(* without beginning the text: no phrase arises where a code meets its     *)
(* neighbours.                                                             *)
LEMMA NothingNew ==
    ASSUME NEW t \in Seq(Texts), IsCandidate(t), NEW f \in BOOLEAN, NEW p \in Seq(PhraseWords),
           Begins(Decoded(f, ReplacePhrases(t)), p)
    PROVE  Begins(t, p)
<1> DEFINE T == {r \in Seq(Texts) : IsCandidate(r) =>
                    \A g \in BOOLEAN : \A q \in Seq(PhraseWords) :
                       Begins(Decoded(g, ReplacePhrases(r)), q) => Begins(r, q)}
<1>1. ASSUME NEW r \in Seq(Texts), \A s \in Seq(Texts) : Len(s) < Len(r) => s \in T
      PROVE  r \in T
  <2>1. SUFFICES ASSUME IsCandidate(r), NEW g \in BOOLEAN, NEW q \in Seq(PhraseWords),
                        Begins(Decoded(g, ReplacePhrases(r)), q)
                 PROVE  Begins(r, q)
    OBVIOUS
  <2>2. q \in Seq(Texts)
    BY TextsAre
  <2>10. ASSUME NEW s \in Seq(Texts), Len(s) < Len(r), IsCandidate(s), NEW h \in BOOLEAN,
                NEW m \in Seq(PhraseWords), Begins(Decoded(h, ReplacePhrases(s)), m)
         PROVE  Begins(s, m)
    <3>1. s \in T
      BY <1>1, <2>10
    <3> QED
      BY <2>10, <3>1
  <2> HIDE DEF T
  <2>3. CASE q = <<>>
    BY <2>3, ConcatNil DEF Begins
  <2>4. ASSUME q # <<>> PROVE q[1] \in PhraseWords /\ Len(q) \in Nat /\ Len(q) > 0
    BY <2>4, EmptySeq, LenProperties
  <2>5. PICK rest \in Seq(Texts) : Decoded(g, ReplacePhrases(r)) = q \o rest
    BY <2>1 DEF Begins
  <2>6. CASE r = <<>>
    <3>1. Decoded(g, ReplacePhrases(r)) = <<>>
      BY <2>6, ReplacedNil, DecodedNil
    <3>2. q = <<>>
      BY <2>2, <2>5, <3>1, ConcatNil
    <3> QED
      BY <2>3, <3>2
  <2>7. ASSUME q # <<>>, NEW x \in Texts, NEW s \in Seq(Texts),
               r = <<x>> \o s, Len(s) < Len(r),
               ReplacePhrases(r) = <<Replaced(x)>> \o ReplacePhrases(s)
        PROVE  Begins(r, q)
    <3> DEFINE y == Replaced(x)
    <3>0. PICK h \in BOOLEAN : h <=> y = Blank
      OBVIOUS
    <3> DEFINE d == Decoded(h, ReplacePhrases(s))
    <3>1. x \notin AllCodes /\ IsCandidate(s)
      BY <2>1, <2>7, CandidateCons
    <3>2. y \in Texts /\ y \notin AllCodes /\ (y \in PhraseWords => y = x)
      BY <3>1, ReplacedIs
    <3> HIDE DEF y
    <3>3. ReplacePhrases(s) \in Seq(Texts) /\ d \in Seq(Texts)
      BY ReplacedType, DecodedType
    <3>4. Decoded(g, ReplacePhrases(r)) = <<y>> \o d
      <4>1. Opening(g, y, ReplacePhrases(s)) = <<y>>
        BY <3>2, ItemsDecoded DEF Opening
      <4> QED
        <5> DEFINE u == ReplacePhrases(s)
        <5> HIDE DEF u
        <5>1. Decoded(g, <<y>> \o u) = Opening(g, y, u) \o Decoded(h, u)
          BY <3>0, <3>2, <3>3, DecodedCons, ZenonT(60) DEF u
        <5>2. ReplacePhrases(r) = <<y>> \o u
          BY <2>7 DEF u, y
        <5> QED
          BY <4>1, <5>1, <5>2 DEF u
    <3> HIDE DEF d
    <3>5. PICK z \in Texts, q1 \in Seq(Texts) : q = <<z>> \o q1 /\ z = q[1] /\ Len(q1) = Len(q) - 1
      BY <2>2, <2>7, Uncons
    <3>6. q1 \in Seq(PhraseWords)
      <4>1. \A i \in 1 .. Len(q1) : (<<z>> \o q1)[i + 1] = q1[i]
        BY ConsIs
      <4>2. Len(q) \in Nat /\ \A i \in 1 .. Len(q1) : i + 1 \in 1 .. Len(q)
        BY <2>4, <2>7, <3>5
      <4>3. \A i \in 1 .. Len(q1) : q1[i] \in PhraseWords
        BY <3>5, <4>1, <4>2, ElementOfSeq
      <4> QED
        BY <4>3, TextOf
    <3>7. <<y>> \o d = <<z>> \o (q1 \o rest) /\ q1 \o rest \in Seq(Texts)
      BY <2>5, <3>4, <3>5, ConsConcat
    <3>8. y = z /\ d = q1 \o rest
      BY <3>2, <3>3, <3>7, ConsEqual
    <3>9. y = x
      BY <2>4, <2>7, <3>2, <3>5, <3>8
    <3>10. Begins(s, q1)
      <4>1. Begins(Decoded(h, ReplacePhrases(s)), q1)
        BY <3>8 DEF Begins, d
      <4> QED
        BY <2>7, <2>10, <3>1, <3>6, <4>1
    <3>11. PICK s1 \in Seq(Texts) : s = q1 \o s1
      BY <3>10 DEF Begins
    <3>12. r = q \o s1
      <4>1. (<<z>> \o q1) \o s1 = <<z>> \o (q1 \o s1)
        BY ConsConcat
      <4>2. r = <<z>> \o s
        BY <2>7, <3>8, <3>9
      <4> QED
        BY <3>5, <3>11, <4>1, <4>2
    <3> QED
      BY <3>12 DEF Begins
  <2>8. ASSUME q # <<>>, NEW k \in 1 .. 13, NEW s \in Seq(Texts),
               r = PhraseOf(k) \o s, Len(s) < Len(r),
               ReplacePhrases(r) = <<CodeOf[k]>> \o ReplacePhrases(s)
        PROVE  Begins(r, q)
    <3> DEFINE p1 == PhraseOf(k)
               y == CodeOf[k]
               d == Decoded(FALSE, ReplacePhrases(s))
    <3>1. IsCandidate(s)
      BY <2>1, <2>8, PhraseHas, CandidateConcat
    <3>2. /\ y \in Texts /\ y # Blank /\ y \notin PhraseWords /\ DecodeItem(y) = p1
          /\ p1 \in Seq(Texts) /\ Len(p1) \in Nat
      BY PhraseHas
    <3> HIDE DEF y, p1
    <3>3. ReplacePhrases(s) \in Seq(Texts) /\ d \in Seq(Texts)
      BY ReplacedType, DecodedType
    <3>4. Decoded(g, ReplacePhrases(r)) = Opening(g, y, ReplacePhrases(s)) \o d
      <4> DEFINE u == ReplacePhrases(s)
      <4> HIDE DEF u
      <4>1. Decoded(g, <<y>> \o u) = Opening(g, y, u) \o Decoded(FALSE, u)
        BY <3>2, <3>3, DecodedCons DEF u
      <4>2. ReplacePhrases(r) = <<y>> \o u
        BY <2>8 DEF u, y
      <4> QED
        BY <4>1, <4>2 DEF u
    <3> HIDE DEF d
    <3>5. Opening(g, y, ReplacePhrases(s)) # <<y>>
      <4>1. ASSUME Opening(g, y, ReplacePhrases(s)) = <<y>> PROVE FALSE
        <5>1. (<<y>> \o d)[1] = y
          BY <3>2, <3>3, ConsIs
        <5>2. (q \o rest)[1] = q[1]
          BY <2>2, <2>4, <2>8, ConcatHas
        <5> QED
          BY <2>4, <2>5, <2>8, <3>2, <3>4, <4>1, <5>1, <5>2
      <4> QED
        BY <4>1
    <3>6. p1 \o d = q \o rest
      BY <2>5, <3>2, <3>4, <3>5 DEF Opening
    <3>7. CASE Len(q) <= Len(p1)
      <4>0. PICK m \in Seq(Texts) : Between(p1, d, q, rest, m)
        <5>1. SameText(p1, d, q, rest)
          BY <3>6 DEF SameText
        <5> QED
          BY <2>2, <3>2, <3>3, <3>7, <5>1, TwoStarts
      <4>1. p1 = q \o m
        BY <4>0 DEF Between
      <4>2. r = q \o (m \o s) /\ m \o s \in Seq(Texts)
        BY <2>2, <2>8, <4>1, ConcatAssociative, ConcatNil, SMTT(40) DEF p1
      <4> QED
        BY <4>2 DEF Begins
    <3>8. CASE ~(Len(q) <= Len(p1))
      <4>1. Len(p1) <= Len(q)
        BY <2>4, <2>8, <3>2, <3>8
      <4>0. PICK m \in Seq(Texts) : Between(q, rest, p1, d, m)
        <5>1. SameText(q, rest, p1, d)
          BY <3>6 DEF SameText
        <5> QED
          BY <2>2, <3>2, <3>3, <4>1, <5>1, TwoStarts
      <4>2. q = p1 \o m /\ d = m \o rest /\ Len(m) = Len(q) - Len(p1)
        BY <4>0 DEF Between
      <4>3. m \in Seq(PhraseWords)
        <5>1. Len(m) \in Nat /\ \A i \in 1 .. Len(m) : (p1 \o m)[i + Len(p1)] = m[i]
          BY <3>2, ConcatHas
        <5>2. \A i \in 1 .. Len(m) : i + Len(p1) \in 1 .. Len(q)
          BY <2>4, <2>8, <3>2, <4>2, <5>1
        <5>3. \A i \in 1 .. Len(m) : m[i] \in PhraseWords
          BY <4>2, <5>1, <5>2, ElementOfSeq
        <5> QED
          BY <5>3, TextOf
      <4>4. Begins(s, m)
        <5>1. Begins(Decoded(FALSE, ReplacePhrases(s)), m)
          BY <4>2 DEF Begins, d
        <5> QED
          BY <2>8, <2>10, <3>1, <4>3, <5>1
      <4>5. PICK s1 \in Seq(Texts) : s = m \o s1
        BY <4>4 DEF Begins
      <4>6. r = q \o s1
        <5>1. (p1 \o m) \o s1 = p1 \o (m \o s1)
          <6>1. p1 \in Seq(Texts)
            BY <3>2
          <6> QED
            BY <6>1, Regroup, ZenonT(60)
        <5>2. r = p1 \o s
          BY <2>8 DEF p1
        <5> QED
          BY <4>2, <4>5, <5>1, <5>2
      <4> QED
        BY <4>6 DEF Begins
    <3> QED
      BY <3>7, <3>8
  <2>9. CASE r # <<>> /\ q # <<>>
    BY <2>7, <2>8, <2>9, TextIs
  <2> QED
    BY <2>3, <2>6, <2>9
<1>2. Seq(Texts) \subseteq T
  <2> HIDE DEF T
  <2> QED
    BY <1>1, TextInduction
<1> QED
  BY <1>2

-----------------------------------------------------------------------------
(* What is decoded again has the same code again.                          *)

(* No phrase is found where there was none before.                         *)
LEMMA NothingFound ==
    ASSUME NEW t \in Seq(Texts), t # <<>>, IsCandidate(t), NEW f \in BOOLEAN,
           NEW d \in Seq(Texts), d # <<>>, d = Decoded(f, ReplacePhrases(t)),
           NEW k \in Found(d, 1)
    PROVE  k \in Found(t, 1)
<1>1. k \in 1 .. 13
  BY FoundFirst
<1>2. Begins(d, PhraseOf(k))
  BY <1>1, FoundBegins
<1>3. PhraseOf(k) \in Seq(PhraseWords)
  BY <1>1, PhraseHas
<1>4. Begins(t, PhraseOf(k))
  BY <1>2, <1>3, NothingNew
<1> QED
  BY <1>1, <1>4, FoundBegins

(* What becomes of the first piece or phrase of a text.                    *)
LEMMA PieceDecoded ==
    ASSUME NEW f \in BOOLEAN, NEW x \in Texts, x \notin AllCodes, NEW s \in Seq(Texts)
    PROVE  \E g \in BOOLEAN : (g <=> x = Blank) /\ Decoded(f, <<x>> \o s) = <<x>> \o Decoded(g, s)
<1>1. PICK g \in BOOLEAN : g <=> x = Blank
  OBVIOUS
<1>2. Opening(f, x, s) = <<x>>
  BY ItemsDecoded DEF Opening
<1>3. Decoded(f, <<x>> \o s) = Opening(f, x, s) \o Decoded(g, s)
  BY <1>1, DecodedCons
<1> QED
  BY <1>1, <1>2, <1>3

(* A code is decoded where it is a word of its own, and stays elsewhere.   *)
LEMMA CodeDecoded ==
    ASSUME NEW f \in BOOLEAN, NEW k \in 1 .. 13, NEW s \in Seq(Texts)
    PROVE  IF f /\ (s = <<>> \/ s[1] = Blank)
           THEN Decoded(f, <<CodeOf[k]>> \o s) = PhraseOf(k) \o Decoded(FALSE, s)
           ELSE Decoded(f, <<CodeOf[k]>> \o s) = <<CodeOf[k]>> \o Decoded(FALSE, s)
<1>1. CodeOf[k] \in Texts /\ CodeOf[k] # Blank /\ DecodeItem(CodeOf[k]) = PhraseOf(k)
  BY PhraseHas
<1>2. Decoded(f, <<CodeOf[k]>> \o s) = Opening(f, CodeOf[k], s) \o Decoded(FALSE, s)
  BY <1>1, DecodedCons
<1> QED
  BY <1>1, <1>2 DEF Opening

(* A decoded text is replaced to the same codes again.                     *)
LEMMA ReplacedAgain ==
    ASSUME NEW t \in Seq(Texts), IsCandidate(t), NEW f \in BOOLEAN
    PROVE  ReplacePhrases(Decoded(f, ReplacePhrases(t))) = ReplacePhrases(t)
<1> DEFINE T == {r \in Seq(Texts) : IsCandidate(r) => \A g \in BOOLEAN :
                    ReplacePhrases(Decoded(g, ReplacePhrases(r))) = ReplacePhrases(r)}
<1>1. ASSUME NEW r \in Seq(Texts), \A s \in Seq(Texts) : Len(s) < Len(r) => s \in T
      PROVE  r \in T
  <2>1. SUFFICES ASSUME IsCandidate(r), NEW g \in BOOLEAN
                 PROVE  ReplacePhrases(Decoded(g, ReplacePhrases(r))) = ReplacePhrases(r)
    OBVIOUS
  <2>2. ASSUME NEW s \in Seq(Texts), Len(s) < Len(r), IsCandidate(s), NEW h \in BOOLEAN
        PROVE  ReplacePhrases(Decoded(h, ReplacePhrases(s))) = ReplacePhrases(s)
    <3>1. s \in T
      BY <1>1, <2>2
    <3> QED
      BY <2>2, <3>1
  <2> HIDE DEF T
  <2>3. CASE r = <<>>
    BY <2>3, ReplacedNil, DecodedNil
  <2>4. ASSUME r # <<>>, NEW x \in Texts, NEW s \in Seq(Texts),
               r = <<x>> \o s, Len(s) < Len(r), Found(r, 1) = {},
               ReplacePhrases(r) = <<Replaced(x)>> \o ReplacePhrases(s)
        PROVE  ReplacePhrases(Decoded(g, ReplacePhrases(r))) = ReplacePhrases(r)
    <3> DEFINE y == Replaced(x)
               u == ReplacePhrases(s)
               all == Decoded(g, ReplacePhrases(r))
    <3>1. x \notin AllCodes /\ IsCandidate(s)
      BY <2>1, <2>4, CandidateCons
    <3>2. y \in Texts /\ y \notin AllCodes /\ Replaced(y) = y
      BY <3>1, ReplacedIs
    <3>3. u \in Seq(Texts) /\ ReplacePhrases(r) = <<y>> \o u
      BY <2>4, ReplacedType
    <3> HIDE DEF y, u
    <3>4. PICK h \in BOOLEAN : all = <<y>> \o Decoded(h, u)
      <4>0. g \in BOOLEAN /\ y \in Texts /\ y \notin AllCodes /\ u \in Seq(Texts)
        BY <3>2, <3>3
      <4>1. PICK h \in BOOLEAN : h <=> y = Blank
        OBVIOUS
      <4>2. Opening(g, y, u) = <<y>>
        BY <4>0, ItemsDecoded DEF Opening
      <4>3. Decoded(g, <<y>> \o u) = Opening(g, y, u) \o Decoded(h, u)
        BY <4>0, <4>1, DecodedCons, ZenonT(60)
      <4> QED
        BY <3>3, <4>1, <4>2, <4>3
    <3> DEFINE d == Decoded(h, u)
    <3>5. d \in Seq(Texts) /\ ReplacePhrases(d) = u
      BY <2>2, <2>4, <3>1, <3>3, DecodedType DEF u
    <3>6. all = <<y>> \o d
      BY <3>4
    <3> HIDE DEF d
    <3>7. all \in Seq(Texts) /\ all # <<>>
      BY <3>2, <3>5, <3>6, ConsIs
    <3>8. Found(all, 1) = {}
      <4> HIDE DEF all
      <4>1. \A k \in Found(all, 1) : k \in Found(r, 1)
        BY <2>1, <2>4, <3>7, NothingFound DEF all
      <4> QED
        BY <2>4, <4>1
    <3> HIDE DEF all
    <3>9. ReplacePhrases(<<y>> \o d) = <<Replaced(y)>> \o ReplacePhrases(d)
      BY <3>2, <3>5, <3>6, <3>8, ReplacedPiece
    <3> QED
      BY <3>2, <3>3, <3>5, <3>6, <3>9 DEF all
  <2>5. ASSUME r # <<>>, NEW k \in 1 .. 13, NEW s \in Seq(Texts),
               r = PhraseOf(k) \o s, Len(s) < Len(r), IsFirst(k, r),
               ReplacePhrases(r) = <<CodeOf[k]>> \o ReplacePhrases(s)
        PROVE  ReplacePhrases(Decoded(g, ReplacePhrases(r))) = ReplacePhrases(r)
    <3> DEFINE y == CodeOf[k]
               p == PhraseOf(k)
               u == ReplacePhrases(s)
               d == Decoded(FALSE, u)
               all == Decoded(g, ReplacePhrases(r))
    <3>1. IsCandidate(s)
      BY <2>1, <2>5, PhraseHas, CandidateConcat
    <3>2. /\ y \in Texts /\ y # Blank /\ y \notin PhraseWords /\ Replaced(y) = y
          /\ p \in Seq(Texts) /\ Len(p) \in Nat /\ Len(p) > 0
      BY PhraseHas DEF Replaced
    <3>3. u \in Seq(Texts) /\ ReplacePhrases(r) = <<y>> \o u
      BY <2>5, ReplacedType
    <3> HIDE DEF u
    <3>4. all = p \o d \/ all = <<y>> \o d
      <4>1. Decoded(g, <<CodeOf[k]>> \o u) = p \o d \/ Decoded(g, <<CodeOf[k]>> \o u) = <<y>> \o d
        BY <3>3, CodeDecoded
      <4> QED
        BY <3>3, <4>1
    <3>5. d \in Seq(Texts) /\ ReplacePhrases(d) = u
      BY <2>2, <2>5, <3>1, <3>3, DecodedType DEF u
    <3> HIDE DEF d, y, p
    <3>6. all \in Seq(Texts) /\ all # <<>>
      <4>1. p \o d \in Seq(Texts) /\ p \o d # <<>>
        <5>1. p # <<>>
          BY <3>2
        <5> QED
          BY <3>2, <3>5, <5>1, ConcatNil
      <4>2. <<y>> \o d \in Seq(Texts) /\ <<y>> \o d # <<>>
        BY <3>2, <3>5, ConsIs
      <4> QED
        BY <3>4, <4>1, <4>2
    <3>7. \A j \in Found(all, 1) : j \in Found(r, 1) /\ k <= j
      <4> HIDE DEF all
      <4>1. \A j \in Found(all, 1) : j \in Found(r, 1)
        BY <2>1, <2>5, <3>6, NothingFound DEF all
      <4> QED
        BY <2>5, <4>1 DEF IsFirst
    <3>8. CASE all = p \o d
      <4> HIDE DEF all
      <4>1. k \in Found(all, 1)
        BY <3>5, <3>6, <3>8, FoundBegins DEF p, Begins
      <4>2. IsFirst(k, PhraseOf(k) \o d)
        BY <3>7, <3>8, <4>1 DEF IsFirst, p
      <4>3. ReplacePhrases(PhraseOf(k) \o d) = <<CodeOf[k]>> \o ReplacePhrases(d)
        BY <3>5, <4>2, ReplacedPhrase
      <4> QED
        BY <3>3, <3>5, <3>8, <4>3 DEF all, y, p
    <3>9. CASE all = <<y>> \o d
      <4> HIDE DEF all
      <4>1. ASSUME NEW j \in Found(all, 1) PROVE FALSE
        <5>1. j \in 1 .. 13
          BY <3>6, FoundFirst
        <5>2. PICK m \in Seq(Texts) : all = PhraseOf(j) \o m
          <6>1. Begins(all, PhraseOf(j))
            BY <3>6, <5>1, FoundBegins
          <6> QED
            BY <6>1 DEF Begins
        <5>3. /\ PhraseOf(j) \in Seq(Texts) /\ Len(PhraseOf(j)) \in Nat /\ Len(PhraseOf(j)) > 0
              /\ PhraseOf(j)[1] \in PhraseWords
          BY <5>1, PhraseHas, CodesDiffer
        <5>4. all[1] = PhraseOf(j)[1]
          BY <5>2, <5>3, ConcatHas
        <5>5. all[1] = y
          BY <3>2, <3>5, <3>9, ConsIs
        <5> QED
          BY <3>2, <5>3, <5>4, <5>5
      <4>2. Found(<<y>> \o d, 1) = {}
        BY <3>9, <4>1
      <4>3. ReplacePhrases(<<y>> \o d) = <<Replaced(y)>> \o ReplacePhrases(d)
        BY <3>2, <3>5, <4>2, ReplacedPiece
      <4> QED
        BY <3>2, <3>3, <3>5, <3>9, <4>3 DEF all
    <3> QED
      BY <3>4, <3>8, <3>9
  <2> QED
    BY <2>3, <2>4, <2>5, TextIs
<1>2. Seq(Texts) \subseteq T
  <2> HIDE DEF T
  <2> QED
    BY <1>1, TextInduction
<1> QED
  BY <1>2

-----------------------------------------------------------------------------
(* What is decoded again is what was encoded exactly if it is regular.     *)

(* RegularPhrases, where f tells if there may be a phrase at the beginning.*)
RegularAt(f, t, i) ==
    /\ t[i] \notin Lookalikes
    /\ Found(t, i) # {} => (f \/ i > 1) /\ Whole(t, i, Following(t, i) - 1)
RegularText(f, t) == \A i \in DOMAIN t : RegularAt(f, t, i)

(* RegularPhrases, piece by piece from a start that opens a word.          *)
LEMMA RegularIs ==
    ASSUME NEW t \in Seq(Texts) PROVE RegularPhrases(t) <=> RegularText(TRUE, t)
<1>1. ASSUME NEW i \in DOMAIN t
      PROVE  RegularAt(TRUE, t, i) <=>
                /\ t[i] \notin Lookalikes
                /\ Found(t, i) # {} =>
                      Whole(t, i, i + Len(candidateEncodeMap[Min(Found(t, i))].words) - 1)
  <2>1. CASE Found(t, i) = {}
    BY <2>1 DEF RegularAt
  <2>2. CASE Found(t, i) # {}
    <3>1. Following(t, i) = i + Len(candidateEncodeMap[Min(Found(t, i))].words)
      BY <2>2 DEF Following
    <3> QED
      BY <2>2, <3>1 DEF RegularAt
  <2> QED
    BY <2>1, <2>2
<1> QED
  BY <1>1 DEF RegularPhrases, RegularText

(* A joined text is regular if its second part is, and the pieces of the   *)
(* first are in it.                                                        *)
LEMMA RegularSplit ==
    ASSUME NEW f \in BOOLEAN, NEW p \in Seq(Texts), Len(p) > 0, NEW s \in Seq(Texts),
           NEW g \in BOOLEAN, g <=> p[Len(p)] = Blank
    PROVE  RegularText(f, p \o s) <=>
              (\A i \in 1 .. Len(p) : RegularAt(f, p \o s, i)) /\ RegularText(g, s)
<1> DEFINE t == p \o s
           d == Len(p)
<1>1. /\ t \in Seq(Texts) /\ Len(t) = d + Len(s) /\ d \in Nat /\ Len(s) \in Nat
      /\ DOMAIN t = 1 .. d + Len(s) /\ DOMAIN s = 1 .. Len(s)
      /\ \A i \in 1 .. d : t[i] = p[i] /\ \A m \in 1 .. Len(s) : t[m + d] = s[m]
  <2>1. d \in Nat /\ Len(s) \in Nat /\ DOMAIN s = 1 .. Len(s)
    BY LenProperties
  <2> QED
    BY <2>1, ConcatHas
<1>2. d > 0
  OBVIOUS
<1>12. \A m \in 1 .. Len(s) : s[m] = t[m + d]
  BY ConcatHas
<1>11. t[d] = p[d]
  BY <1>1, <1>2
<1> HIDE DEF t, d
<1>15. d \in Nat /\ Len(s) \in Nat /\ Len(t) = d + Len(s)
  BY <1>1
<1>3. ASSUME NEW i \in 1 .. Len(s) PROVE RegularAt(f, t, i + d) <=> RegularAt(g, s, i)
  <2>1. /\ Found(s, i) = Found(t, i + d) /\ Following(s, i) + d = Following(t, i + d)
        /\ Following(s, i) \in i + 1 .. Len(s) + 1
    <3>1. d \in 0 .. Len(t) /\ Len(s) = Len(t) - d
      BY <1>15
    <3>2. IsRest(s, t, d)
      BY <1>12, <3>1 DEF IsRest
    <3> QED
      BY <1>1, <3>1, <3>2, SameLater
  <2>2. t[i + d] = s[i]
    BY <1>12
  <2> DEFINE j == Following(s, i) - 1
  <2>3. j \in i .. Len(s) /\ Following(t, i + d) - 1 = j + d
    BY <1>15, <2>1
  <2> HIDE DEF j
  <2>4. (j + d = Len(t) \/ t[(j + d) + 1] = Blank) <=> (j = Len(s) \/ s[j + 1] = Blank)
    <3>0. j \in Nat /\ j >= 1 /\ j <= Len(s)
      BY <1>15, <2>3
    <3>1. j + d = Len(t) <=> j = Len(s)
      BY <1>15, <3>0
    <3>2. j # Len(s) => j + 1 \in 1 .. Len(s) /\ (j + 1) + d = (j + d) + 1
      BY <1>15, <3>0
    <3> QED
      BY <1>12, <3>1, <3>2
  <2>5. t[(i + d) - 1] = Blank <=> IF i = 1 THEN g ELSE s[i - 1] = Blank
    <3>1. i = 1 => (i + d) - 1 = d
      BY <1>1
    <3>2. i # 1 => i - 1 \in 1 .. Len(s) /\ (i - 1) + d = (i + d) - 1
      BY <1>1
    <3> QED
      BY <1>11, <1>12, <3>1, <3>2 DEF d
  <2>6. i + d > 1 /\ i + d # 1 /\ (i # 1 <=> i > 1)
    BY <1>1, <1>2
  <2>7. Whole(t, i + d, j + d) <=> t[(i + d) - 1] = Blank /\ (j + d = Len(t) \/ t[(j + d) + 1] = Blank)
    BY <2>6 DEF Whole
  <2>8. Whole(s, i, j) <=> (i = 1 \/ s[i - 1] = Blank) /\ (j = Len(s) \/ s[j + 1] = Blank)
    BY DEF Whole
  <2>9. (f \/ i + d > 1) /\ Whole(t, i + d, j + d) <=> (g \/ i > 1) /\ Whole(s, i, j)
    BY <2>4, <2>5, <2>6, <2>7, <2>8
  <2> QED
    BY <2>1, <2>2, <2>3, <2>9 DEF RegularAt, j
<1>4. ASSUME RegularText(f, t) PROVE (\A i \in 1 .. d : RegularAt(f, t, i)) /\ RegularText(g, s)
  <2>1. \A i \in 1 .. d : i \in DOMAIN t
    BY <1>1
  <2>2. \A i \in DOMAIN s : i \in 1 .. Len(s) /\ i + d \in DOMAIN t
    BY <1>1
  <2> QED
    BY <1>3, <1>4, <2>1, <2>2 DEF RegularText
<1>5. ASSUME \A i \in 1 .. d : RegularAt(f, t, i), RegularText(g, s) PROVE RegularText(f, t)
  <2>1. ASSUME NEW i \in DOMAIN t, ~(i \in 1 .. d) PROVE RegularAt(f, t, i)
    <3>1. i - d \in DOMAIN s /\ i - d \in 1 .. Len(s) /\ (i - d) + d = i
      BY <1>1, <2>1
    <3>2. RegularAt(g, s, i - d)
      BY <1>5, <3>1 DEF RegularText
    <3>3. RegularAt(f, t, (i - d) + d)
      BY <1>3, <3>1, <3>2
    <3> QED
      BY <3>1, <3>3
  <2> QED
    BY <1>5, <2>1 DEF RegularText
<1> QED
  BY <1>4, <1>5 DEF t, d

(* A piece that begins no phrase is regular unless it is a lookalike.      *)
LEMMA RegularPiece ==
    ASSUME NEW f \in BOOLEAN, NEW x \in Texts, NEW s \in Seq(Texts), Found(<<x>> \o s, 1) = {},
           NEW g \in BOOLEAN, g <=> x = Blank
    PROVE  RegularText(f, <<x>> \o s) <=> x \notin Lookalikes /\ RegularText(g, s)
<1> DEFINE p == <<x>>
<1>1. p \in Seq(Texts) /\ Len(p) = 1 /\ p[1] = x
  OBVIOUS
<1> HIDE DEF p
<1>2. RegularText(f, p \o s) <=> (\A i \in 1 .. Len(p) : RegularAt(f, p \o s, i)) /\ RegularText(g, s)
  BY <1>1, RegularSplit
<1>3. \A i \in 1 .. Len(p) : i = 1
  BY <1>1
<1>4. RegularAt(f, p \o s, 1) <=> x \notin Lookalikes
  <2>1. (p \o s)[1] = x
    BY ConsIs DEF p
  <2>2. Found(p \o s, 1) = {}
    BY DEF p
  <2> QED
    BY <2>1, <2>2 DEF RegularAt
<1>5. 1 \in 1 .. Len(p)
  BY <1>1
<1>6. RegularText(f, p \o s) <=> x \notin Lookalikes /\ RegularText(g, s)
  BY <1>2, <1>3, <1>4, <1>5
<1> QED
  BY <1>6 DEF p

(* The phrases within a phrase are whole words if it is.                   *)
LEMMA RegularPhrase ==
    ASSUME NEW f \in BOOLEAN, NEW k \in 1 .. 13, NEW s \in Seq(Texts), IsFirst(k, PhraseOf(k) \o s)
    PROVE  RegularText(f, PhraseOf(k) \o s) <=>
              f /\ (s = <<>> \/ s[1] = Blank) /\ RegularText(FALSE, s)
<1> DEFINE p == PhraseOf(k)
           t == p \o s
           d == Len(p)
<1>1. /\ p \in Seq(PhraseWords) /\ p \in Seq(Texts) /\ Len(p) \in Nat /\ Len(p) > 0
      /\ p[Len(p)] # Blank
  BY PhraseHas
<1>2. /\ IsFirst(k, t)
      /\ \A m \in 2 .. d : p[m] \in Beginnings =>
              \/ k \in {1, 2, 9} /\ m = 5 /\ p[4] = Blank /\ p[5] = "generation" /\ p[6] = Blank /\ p[7] = "0"
                    /\ (k \in {1, 2} => d = 11 /\ p[8] = Blank) /\ (k = 9 => d = 7)
              \/ k \in {1, 2} /\ m = 9 /\ d = 11 /\ p[8] = Blank /\ p[9] = "network-cost" /\ p[10] = Blank
  <2>1. IsPhrase(k)
    BY Phrases
  <2> QED
    BY <2>1 DEF IsPhrase
<1> HIDE DEF p
<1>3. /\ t \in Seq(Texts) /\ Len(t) = d + Len(s) /\ d \in Nat /\ d > 0 /\ Len(s) \in Nat
      /\ \A i \in 1 .. d : t[i] = p[i] 
  BY <1>1, ConcatHas
<1>13. \A i \in 1 .. Len(s) : t[i + d] = s[i]
  BY <1>1, ConcatHas
<1> HIDE DEF t
<1>14. \A i \in 1 .. d : p[i] \in PhraseWords
  BY <1>1, ElementOfSeq
<1> HIDE DEF d
<1>4. \A i \in 1 .. d : t[i] \notin Lookalikes
  BY <1>3, <1>14, ItemsDecoded
<1>5. (d = Len(t) \/ t[d + 1] = Blank) <=> s = <<>> \/ s[1] = Blank
  <2>1. d = Len(t) <=> Len(s) = 0
    BY <1>3
  <2>2. Len(s) = 0 <=> s = <<>>
    BY EmptySeq
  <2>3. Len(s) # 0 => t[d + 1] = s[1]
    <3>1. Len(s) # 0 => 1 \in 1 .. Len(s) /\ 1 + d = d + 1
      BY <1>3
    <3> QED
      BY <1>13, <3>1
  <2> QED
    BY <2>1, <2>2, <2>3
<1>6. RegularAt(f, t, 1) <=> f /\ (s = <<>> \/ s[1] = Blank)
  <2>1. 1 \in 1 .. Len(t) /\ 1 \in 1 .. d
    BY <1>3
  <2>2. PICK j \in Found(t, 1) :
              (\A i \in Found(t, 1) : j <= i) /\ Following(t, 1) = 1 + Len(candidateEncodeMap[j].words)
    BY <1>2, <1>3, <2>1, FirstFound DEF IsFirst
  <2>3. j \in 1 .. 13 /\ k \in Found(t, 1) /\ j <= k /\ k <= j
    BY <1>2, <2>2, Phrases DEF IsFirst, Found
  <2>4. j = k
    BY <2>3
  <2>5. Following(t, 1) - 1 = d
    BY <1>3, <2>2, <2>4 DEF d, p, PhraseOf
  <2>6. Whole(t, 1, d) <=> d = Len(t) \/ t[d + 1] = Blank
    BY DEF Whole
  <2>7. Found(t, 1) # {} /\ ~(1 > 1) /\ t[1] \notin Lookalikes
    BY <1>4, <2>1, <2>3
  <2> QED
    BY <1>5, <2>5, <2>6, <2>7 DEF RegularAt
<1>7. ASSUME s = <<>> \/ s[1] = Blank, NEW i \in 2 .. d PROVE RegularAt(f, t, i)
  <2>1. i \in 1 .. d /\ i \in 1 .. Len(t) /\ i > 1
    BY <1>3
  <2>2. SUFFICES ASSUME Found(t, i) # {} PROVE Whole(t, i, Following(t, i) - 1)
    BY <1>4, <2>1 DEF RegularAt
  <2>3. PICK j \in Found(t, i) : Following(t, i) = i + Len(candidateEncodeMap[j].words)
    BY <1>3, <2>1, <2>2, FirstFound
  <2>4. j \in 1 .. 13
    BY <2>3, Phrases DEF Found
  <2> DEFINE q == PhraseOf(j)
  <2>5. /\ i + Len(q) <= Len(t) + 1 /\ SubSeq(t, i, i + Len(q) - 1) = q
        /\ Following(t, i) = i + Len(q)
    BY <1>3, <2>1, <2>3, <2>4, FoundIs DEF PhraseOf
  <2>6. Len(q) \in Nat /\ Len(q) > 0 /\ q[1] \in Beginnings
    BY <2>4, PhraseHas
  <2>7. q[1] = "generation" => j = 13 /\ Len(q) = 3
    BY <2>4, Phrases DEF IsPhrase
  <2>8. q[1] = "network-cost" => j = 10 /\ Len(q) = 1
    BY <2>4, Phrases DEF IsPhrase
  <2> HIDE DEF q
  <2>9. t[i] = q[1]
    <3>1. SubSeq(t, i, i + Len(q) - 1)[1] = t[i]
      BY <1>3, <2>1, <2>5, <2>6
    <3> QED
      BY <2>5, <3>1
  <2>10. p[i] \in Beginnings /\ p[i] = q[1]
    BY <1>3, <2>1, <2>6, <2>9
  <2>11. CASE k \in {1, 2, 9} /\ i = 5 /\ p[4] = Blank /\ p[5] = "generation"
              /\ (k \in {1, 2} => d = 11 /\ p[8] = Blank) /\ (k = 9 => d = 7)
    <3>1. Following(t, i) - 1 = 7
      <4>1. Len(q) = 3
        BY <2>7, <2>10, <2>11
      <4>2. Following(t, i) = 5 + 3
        BY <2>5, <2>11, <4>1
      <4> QED
        BY <4>2
    <3>2. t[4] = Blank
      BY <1>3, <2>1, <2>11
    <3>3. 7 = Len(t) \/ t[8] = Blank
      <4>1. CASE k \in {1, 2}
        <5>1. 8 \in 1 .. d /\ p[8] = Blank
          BY <2>11, <4>1
        <5> QED
          BY <1>3, <5>1
      <4>2. CASE k = 9
        <5>1. d = 7
          BY <2>11, <4>2
        <5> QED
          BY <1>5, <1>7, <5>1
      <4> QED
        BY <2>11, <4>1, <4>2
    <3>4. Whole(t, 5, 7)
      BY <3>2, <3>3 DEF Whole
    <3> QED
      BY <2>11, <3>1, <3>4
  <2>12. CASE i = 9 /\ d = 11 /\ p[8] = Blank /\ p[9] = "network-cost" /\ p[10] = Blank
    <3>1. Following(t, i) - 1 = 9
      BY <2>5, <2>8, <2>10, <2>12, SMTT(40)
    <3>2. t[8] = Blank /\ t[10] = Blank
      BY <1>3, <2>12
    <3>3. Whole(t, 9, 9)
      BY <3>2 DEF Whole
    <3> QED
      BY <2>12, <3>1, <3>3
  <2> QED
    BY <1>2, <2>10, <2>11, <2>12
<1>8. RegularText(f, t) <=> (\A i \in 1 .. d : RegularAt(f, t, i)) /\ RegularText(FALSE, s)
  BY <1>1, RegularSplit DEF t, d
<1>9. \A i \in 1 .. d : i = 1 \/ i \in 2 .. d
  BY <1>3
<1>10. 1 \in 1 .. d
  BY <1>3
<1>11. RegularText(f, t) <=> f /\ (s = <<>> \/ s[1] = Blank) /\ RegularText(FALSE, s)
  BY <1>6, <1>7, <1>8, <1>9, <1>10
<1> QED
  BY <1>11 DEF t, p

(* The first piece of what is written is a blank if it was.                *)
LEMMA ReplacedHead ==
    ASSUME NEW s \in Seq(Texts), IsCandidate(s)
    PROVE  LET u == ReplacePhrases(s)
           IN  (u = <<>> \/ u[1] = Blank) <=> (s = <<>> \/ s[1] = Blank)
<1> DEFINE u == ReplacePhrases(s)
<1>1. CASE s = <<>>
  BY <1>1, ReplacedNil
<1>2. ASSUME s # <<>>, NEW x \in Texts, NEW r \in Seq(Texts), s = <<x>> \o r,
             u = <<Replaced(x)>> \o ReplacePhrases(r)
      PROVE  (u = <<>> \/ u[1] = Blank) <=> (s = <<>> \/ s[1] = Blank)
  <2> HIDE DEF u
  <2>1. x \notin AllCodes
    BY <1>2, CandidateCons
  <2>2. Replaced(x) \in Texts /\ (Replaced(x) = Blank <=> x = Blank)
    BY <2>1, ReplacedIs
  <2>3. s[1] = x
    BY <1>2, ConsIs
  <2>4. u # <<>> /\ u[1] = Replaced(x)
    BY <1>2, <2>2, ReplacedType, ConsIs
  <2> QED
    BY <1>2, <2>2, <2>3, <2>4
<1>3. ASSUME s # <<>>, NEW k \in 1 .. 13, NEW r \in Seq(Texts), s = PhraseOf(k) \o r,
             u = <<CodeOf[k]>> \o ReplacePhrases(r)
      PROVE  (u = <<>> \/ u[1] = Blank) <=> (s = <<>> \/ s[1] = Blank)
  <2> HIDE DEF u
  <2>1. CodeOf[k] \in Texts /\ CodeOf[k] # Blank
    BY PhraseHas
  <2>2. u # <<>> /\ u[1] = CodeOf[k]
    BY <1>3, <2>1, ReplacedType, ConsIs
  <2>3. s[1] # Blank
    <3>1. /\ PhraseOf(k) \in Seq(Texts) /\ Len(PhraseOf(k)) \in Nat /\ Len(PhraseOf(k)) > 0
          /\ PhraseOf(k)[1] # Blank
      BY PhraseHas
    <3>2. (PhraseOf(k) \o r)[1] = PhraseOf(k)[1]
      BY <3>1, ConcatHas
    <3> QED
      BY <1>3, <3>1, <3>2
  <2> QED
    BY <1>3, <2>1, <2>2, <2>3
<1> QED
  BY <1>1, <1>2, <1>3, TextIs

(* What is replaced is decoded to what it was exactly if it is regular.    *)
LEMMA PhrasesComeBack ==
    ASSUME NEW t \in Seq(Texts), IsCandidate(t), NEW f \in BOOLEAN
    PROVE  Decoded(f, ReplacePhrases(t)) = t <=> RegularText(f, t)
<1> DEFINE T == {r \in Seq(Texts) : IsCandidate(r) => \A g \in BOOLEAN :
                    Decoded(g, ReplacePhrases(r)) = r <=> RegularText(g, r)}
<1>1. ASSUME NEW r \in Seq(Texts), \A s \in Seq(Texts) : Len(s) < Len(r) => s \in T
      PROVE  r \in T
  <2>1. SUFFICES ASSUME IsCandidate(r), NEW g \in BOOLEAN
                 PROVE  Decoded(g, ReplacePhrases(r)) = r <=> RegularText(g, r)
    OBVIOUS
  <2>2. ASSUME NEW s \in Seq(Texts), Len(s) < Len(r), IsCandidate(s), NEW h \in BOOLEAN
        PROVE  Decoded(h, ReplacePhrases(s)) = s <=> RegularText(h, s)
    <3>1. s \in T
      BY <1>1, <2>2
    <3> QED
      BY <2>2, <3>1
  <2> HIDE DEF T
  <2>3. CASE r = <<>>
    <3>1. Decoded(g, ReplacePhrases(r)) = <<>>
      BY <2>3, ReplacedNil, DecodedNil
    <3>2. RegularText(g, <<>>)
      BY DEF RegularText
    <3> QED
      BY <2>3, <3>1, <3>2
  <2>4. ASSUME r # <<>>, NEW x \in Texts, NEW s \in Seq(Texts),
               r = <<x>> \o s, Len(s) < Len(r), Found(r, 1) = {},
               ReplacePhrases(r) = <<Replaced(x)>> \o ReplacePhrases(s)
        PROVE  Decoded(g, ReplacePhrases(r)) = r <=> RegularText(g, r)
    <3> DEFINE y == Replaced(x)
               u == ReplacePhrases(s)
    <3>1. x \notin AllCodes /\ IsCandidate(s)
      BY <2>1, <2>4, CandidateCons
    <3>2. y \in Texts /\ y \notin AllCodes /\ (y = x <=> x \notin Lookalikes) /\ (y = Blank <=> x = Blank)
      BY <3>1, ReplacedIs
    <3>3. u \in Seq(Texts) /\ ReplacePhrases(r) = <<y>> \o u
      BY <2>4, ReplacedType
    <3> HIDE DEF y, u
    <3>4. PICK h \in BOOLEAN : (h <=> y = Blank) /\ Decoded(g, <<y>> \o u) = <<y>> \o Decoded(h, u)
      BY <3>2, <3>3, PieceDecoded, ZenonT(60)
    <3> DEFINE d == Decoded(h, u)
    <3>5. d \in Seq(Texts) /\ (d = s <=> RegularText(h, s))
      BY <2>2, <2>4, <3>1, <3>3, DecodedType DEF u
    <3> HIDE DEF d
    <3>6. Decoded(g, ReplacePhrases(r)) = <<y>> \o d
      BY <3>3, <3>4 DEF d
    <3>7. <<y>> \o d = <<x>> \o s <=> y = x /\ d = s
      BY <3>2, <3>5, ConsEqual
    <3>8. RegularText(g, r) <=> x \notin Lookalikes /\ RegularText(h, s)
      <4>1. Found(<<x>> \o s, 1) = {} /\ (h <=> x = Blank)
        BY <2>4, <3>2, <3>4
      <4>2. RegularText(g, <<x>> \o s) <=> x \notin Lookalikes /\ RegularText(h, s)
        BY <4>1, RegularPiece
      <4> QED
        BY <2>4, <4>2
    <3> QED
      BY <2>4, <3>2, <3>5, <3>6, <3>7, <3>8
  <2>5. ASSUME r # <<>>, NEW k \in 1 .. 13, NEW s \in Seq(Texts),
               r = PhraseOf(k) \o s, Len(s) < Len(r), IsFirst(k, r),
               ReplacePhrases(r) = <<CodeOf[k]>> \o ReplacePhrases(s)
        PROVE  Decoded(g, ReplacePhrases(r)) = r <=> RegularText(g, r)
    <3> DEFINE y == CodeOf[k]
               p == PhraseOf(k)
               u == ReplacePhrases(s)
               d == Decoded(FALSE, u)
    <3>1. IsCandidate(s)
      BY <2>1, <2>5, PhraseHas, CandidateConcat
    <3>2. /\ y \in Texts /\ y \notin PhraseWords
          /\ p \in Seq(Texts) /\ Len(p) \in Nat /\ Len(p) > 0 /\ p[1] \in PhraseWords
      BY PhraseHas, CodesDiffer
    <3>3. u \in Seq(Texts) /\ ReplacePhrases(r) = <<y>> \o u
      BY <2>5, ReplacedType
    <3>4. (u = <<>> \/ u[1] = Blank) <=> (s = <<>> \/ s[1] = Blank)
      BY <3>1, ReplacedHead
    <3>5. RegularText(g, r) <=> g /\ (s = <<>> \/ s[1] = Blank) /\ RegularText(FALSE, s)
      <4>1. IsFirst(k, PhraseOf(k) \o s)
        BY <2>5
      <4>2. RegularText(g, PhraseOf(k) \o s) <=> g /\ (s = <<>> \/ s[1] = Blank) /\ RegularText(FALSE, s)
        BY <4>1, RegularPhrase
      <4> QED
        BY <2>5, <4>2
    <3> HIDE DEF u
    <3>6. IF g /\ (u = <<>> \/ u[1] = Blank)
          THEN Decoded(g, ReplacePhrases(r)) = p \o d
          ELSE Decoded(g, ReplacePhrases(r)) = <<y>> \o d
      <4>1. IF g /\ (u = <<>> \/ u[1] = Blank)
            THEN Decoded(g, <<CodeOf[k]>> \o u) = p \o d
            ELSE Decoded(g, <<CodeOf[k]>> \o u) = <<y>> \o d
        BY <3>3, CodeDecoded
      <4> QED
        BY <3>3, <4>1
    <3>7. d \in Seq(Texts) /\ (d = s <=> RegularText(FALSE, s))
      BY <2>2, <2>5, <3>1, <3>3, DecodedType DEF u
    <3> HIDE DEF d, y, p
    <3>8. r = p \o s /\ r[1] = p[1]
      <4>1. (p \o s)[1] = p[1]
        BY <3>2, ConcatHas
      <4> QED
        BY <2>5, <4>1 DEF p
    <3>9. CASE g /\ (u = <<>> \/ u[1] = Blank)
      <4>1. p \o d = p \o s <=> d = s
        BY <3>2, <3>7, ConcatSimplifications
      <4>2. Decoded(g, ReplacePhrases(r)) = p \o d
        BY <3>6, <3>9
      <4> QED
        BY <3>4, <3>5, <3>7, <3>8, <3>9, <4>1, <4>2
    <3>10. CASE ~(g /\ (u = <<>> \/ u[1] = Blank))
      <4>1. (<<y>> \o d)[1] = y
        BY <3>2, <3>7, ConsIs
      <4>2. Decoded(g, ReplacePhrases(r)) # r
        BY <3>2, <3>6, <3>8, <3>10, <4>1
      <4> QED
        BY <3>4, <3>5, <3>10, <4>2
    <3> QED
      BY <3>9, <3>10
  <2> QED
    BY <2>3, <2>4, <2>5, TextIs
<1>2. Seq(Texts) \subseteq T
  <2> HIDE DEF T
  <2> QED
    BY <1>1, TextInduction
<1> QED
  BY <1>2

-----------------------------------------------------------------------------
(* The dictionaries.                                                       *)

OneToOne(map) ==
    \A p, q \in map : p = <<p[1], p[2]>> /\ (p[1] = q[1] <=> p[2] = q[2])

(* A word of a dictionary without clashes is decoded to what it was, and   *)
(* so is one that is neither a word nor a code of it.                      *)
LEMMA DecodeEncode ==
    ASSUME NEW map, OneToOne(map), NEW w, w \in Keys(map) \/ w \notin Codes(map)
    PROVE  Decode(map, Encode(map, w)) = w
<1>1. CASE w \in Keys(map)
  <2>1. PICK p \in map : p[1] = w
    BY <1>1 DEF Keys
  <2>2. Encode(map, w) = p[2]
    BY <1>1, <2>1 DEF Encode, OneToOne
  <2> DEFINE back == Reversed(map)
  <2>3. <<p[2], p[1]>> \in back /\ \A q \in back : q[1] = p[2] => q[2] = p[1]
    BY DEF Reversed, OneToOne
  <2>4. p[2] \in Keys(back)
    BY <2>3 DEF Keys
  <2>5. Encode(back, p[2]) = p[1]
    <3> HIDE DEF back
    <3> QED
      BY <2>3, <2>4 DEF Encode
  <2> QED
    BY <2>1, <2>2, <2>5 DEF Decode
<1>2. CASE w \notin Keys(map)
  <2>1. Encode(map, w) = w
    BY <1>2 DEF Encode
  <2>2. w \notin Keys(Reversed(map))
    BY <1>2 DEF Keys, Codes, Reversed
  <2> QED
    BY <2>1, <2>2 DEF Decode, Encode
<1> QED
  BY <1>1, <1>2

(* A word of a dictionary becomes a code, and another one stays.           *)
LEMMA EncodeGives ==
    ASSUME NEW map, NEW w
    PROVE  IF w \in Keys(map) THEN Encode(map, w) \in Codes(map) ELSE Encode(map, w) = w
BY DEF Encode, Keys, Codes

(* The ones that lines need have no clashes.                               *)
LEMMA NoClashes ==
    /\ OneToOne(FieldReplaceMap)
    /\ OneToOne(AttributeRepalceMap)
    /\ OneToOne(HashFuncMap)
    /\ OneToOne(MediaConnectionAddressTypeMap)
    /\ OneToOne(MediaConnectionIPMap)
    /\ OneToOne(LineCodes)
    /\ OneToOne(mediaEncodeMap)
<1>1. OneToOne(FieldReplaceMap)
  BY DEF OneToOne, FieldReplaceMap
<1>2. OneToOne(AttributeRepalceMap)
  BY DEF OneToOne, AttributeRepalceMap
<1>3. OneToOne(HashFuncMap)
  BY DEF OneToOne, HashFuncMap
<1>4. OneToOne(MediaConnectionAddressTypeMap) /\ OneToOne(MediaConnectionIPMap)
  BY DEF OneToOne, MediaConnectionAddressTypeMap, MediaConnectionIPMap
<1>5. OneToOne(LineCodes)
  <2> DEFINE trickle == Line("a", "ice-options", <<"trickle">>)
             ice2 == Line("a", "ice-options", <<"ice2,trickle">>)
             sendrecv == Line("a", "sendrecv", <<>>)
  <2>1. LineCodes = {<<trickle, "I">>, <<ice2, "Z">>, <<sendrecv, "B">>}
    BY DEF LineCodes
  <2>2. trickle.words[1] = "trickle" /\ ice2.words[1] = "ice2,trickle"
    BY DEF Line
  <2>3. trickle.attr = "ice-options" /\ ice2.attr = "ice-options" /\ sendrecv.attr = "sendrecv"
    BY DEF Line
  <2>4. trickle # ice2 /\ trickle # sendrecv /\ ice2 # sendrecv
    <3> HIDE DEF trickle, ice2, sendrecv
    <3> QED
      BY <2>2, <2>3
  <2> HIDE DEF trickle, ice2, sendrecv
  <2> QED
    BY <2>1, <2>4 DEF OneToOne
<1>6. OneToOne(mediaEncodeMap)
  BY DEF OneToOne, mediaEncodeMap
<1> QED
  BY <1>1, <1>2, <1>3, <1>4, <1>5, <1>6

(* The letters that stand for whole lines.                                 *)
LEMMA LetterCodes == Codes(LineCodes) = {"I", "Z", "B"}
<1> DEFINE trickle == Line("a", "ice-options", <<"trickle">>)
           ice2 == Line("a", "ice-options", <<"ice2,trickle">>)
           sendrecv == Line("a", "sendrecv", <<>>)
<1>1. LineCodes = {<<trickle, "I">>, <<ice2, "Z">>, <<sendrecv, "B">>}
  BY DEF LineCodes
<1> HIDE DEF trickle, ice2, sendrecv
<1> QED
  BY <1>1 DEF Codes

(* A word, its code, and what the code stands for, have the same code, if  *)
(* no code is also a word.                                                 *)
LEMMA EncodeDecode ==
    ASSUME NEW map, OneToOne(map), Keys(map) \cap Codes(map) = {}, NEW w
    PROVE  /\ Encode(map, Decode(map, Encode(map, w))) = Encode(map, w)
           /\ Decode(map, Encode(map, w)) \notin Codes(map)
<1>1. CASE w \in Keys(map) \/ w \notin Codes(map)
  <2>1. Decode(map, Encode(map, w)) = w
    BY <1>1, DecodeEncode
  <2> QED
    BY <1>1, <2>1
<1>2. CASE w \in Codes(map)
  <2>1. w \notin Keys(map)
    BY <1>2
  <2>2. Encode(map, w) = w
    BY <2>1, EncodeGives
  <2>3. PICK p \in map : p[2] = w
    BY <1>2 DEF Codes
  <2> DEFINE back == Reversed(map)
  <2>4. <<w, p[1]>> \in back /\ \A q \in back : q[1] = w => q[2] = p[1]
    BY <2>3 DEF Reversed, OneToOne
  <2>5. Encode(back, w) = p[1]
    <3>1. w \in Keys(back)
      BY <2>4 DEF Keys
    <3> HIDE DEF back
    <3> QED
      BY <2>4, <3>1 DEF Encode
  <2>6. Decode(map, w) = p[1] /\ p[1] \in Keys(map)
    BY <2>5 DEF Decode, Keys
  <2>7. Encode(map, p[1]) = w
    BY <2>3, <2>6 DEF Encode, OneToOne
  <2> QED
    BY <2>2, <2>6, <2>7
<1> QED
  BY <1>1, <1>2

(* The words of media lines and protocols.                                 *)
LEMMA MediaWords ==
    /\ Keys(mediaEncodeMap) = {"application", "UDP/DTLS/SCTP", "DTLS/SCTP", "webrtc-datachannel"}
    /\ Codes(mediaEncodeMap) = {"P", "U", "S", "D"}
    /\ Keys(mediaEncodeMap) \cap Codes(mediaEncodeMap) = {}
BY DEF Keys, Codes, mediaEncodeMap

(* The protocols have one code in both cases.                              *)
LEMMA Protocols ==
    /\ Keys(protocolEncodeMap) = {"udp", "UDP", "tcp", "TCP"}
    /\ \A x : Encode(protocolEncodeMap, x) =
            CASE x \in {"udp", "UDP"} -> "U" [] x \in {"tcp", "TCP"} -> "T" [] OTHER -> x
<1>1. Keys(protocolEncodeMap) = {"udp", "UDP", "tcp", "TCP"}
  BY DEF Keys, protocolEncodeMap
<1>2. ASSUME NEW x, x \in {"udp", "UDP"} PROVE Encode(protocolEncodeMap, x) = "U"
  <2> DEFINE map == protocolEncodeMap
  <2>1. x \in Keys(map)
    BY <1>1, <1>2
  <2>2. \A p \in map : p[1] = x => p[2] = "U"
    BY <1>2 DEF protocolEncodeMap
  <2>3. \E p \in map : p[1] = x
    BY <2>1 DEF Keys
  <2> HIDE DEF map
  <2>4. Encode(map, x) = "U"
    BY <2>1, <2>2, <2>3 DEF Encode
  <2> QED
    BY <2>4 DEF map
<1>3. ASSUME NEW x, x \in {"tcp", "TCP"} PROVE Encode(protocolEncodeMap, x) = "T"
  <2> DEFINE map == protocolEncodeMap
  <2>1. x \in Keys(map)
    BY <1>1, <1>3
  <2>2. \A p \in map : p[1] = x => p[2] = "T"
    BY <1>3 DEF protocolEncodeMap
  <2>3. \E p \in map : p[1] = x
    BY <2>1 DEF Keys
  <2> HIDE DEF map
  <2>4. Encode(map, x) = "T"
    BY <2>1, <2>2, <2>3 DEF Encode
  <2> QED
    BY <2>4 DEF map
<1>4. ASSUME NEW x, x \notin {"udp", "UDP", "tcp", "TCP"} PROVE Encode(protocolEncodeMap, x) = x
  BY <1>1, <1>4 DEF Encode
<1> QED
  BY <1>1, <1>2, <1>3, <1>4

-----------------------------------------------------------------------------
(* Where the words of a text end.                                          *)

(* A set of numbers has a least one.                                       *)
LEMMA MinIs ==
    ASSUME NEW F \in SUBSET Nat, F # {}
    PROVE  Min(F) \in F /\ \A j \in F : Min(F) <= j
<1> DEFINE T == {m \in Nat : (\E k \in F : k <= m) => \E k \in F : \A j \in F : k <= j}
<1>1. 0 \in T
  OBVIOUS
<1>2. ASSUME NEW m \in T, m \in Nat PROVE m + 1 \in T
  <2>1. SUFFICES ASSUME \E k \in F : k <= m + 1, ~ \E k \in F : k <= m
                 PROVE  \E k \in F : \A j \in F : k <= j
    BY <1>2
  <2>2. PICK k \in F : k <= m + 1
    BY <2>1
  <2>3. \A j \in F : ~(j <= m) /\ j \in Nat
    BY <2>1
  <2> QED
    BY <2>2, <2>3, <1>2
<1>3. Nat \subseteq T
  <2> HIDE DEF T
  <2> QED
    BY <1>1, <1>2, CountUp
<1>4. PICK k : k \in F
  OBVIOUS
<1>5. k \in T
  BY <1>3, <1>4
<1>6. \E m \in F : \A j \in F : m <= j
  BY <1>4, <1>5
<1> QED
  BY <1>6 DEF Min

IsNext(t, i, m) ==
    /\ m \in i + 1 .. Len(t) + 1
    /\ m <= Len(t) => t[m] = Blank
    /\ \A j \in i + 1 .. m - 1 : t[j] # Blank

(* NextBlank is the next blank, and only that is.                          *)
LEMMA NextIs ==
    ASSUME NEW t \in Seq(Texts), NEW i \in 0 .. Len(t)
    PROVE  /\ IsNext(t, i, NextBlank(t, i))
           /\ \A m : IsNext(t, i, m) => m = NextBlank(t, i)
<1> DEFINE n == Len(t)
           B == {j \in i + 1 .. n : t[j] = Blank}
           S == B \cup {n + 1}
           b == NextBlank(t, i)
<1>1. n \in Nat
  BY LenProperties
<1>2. S \in SUBSET Nat /\ S # {}
  BY <1>1
<1>3. b = Min(S)
  BY DEF NextBlank
<1> HIDE DEF S, b, n
<1>4. b \in S /\ \A j \in S : b <= j
  BY <1>2, <1>3, MinIs
<1>5. b \in i + 1 .. n + 1 /\ (b <= n => t[b] = Blank)
  BY <1>1, <1>4 DEF S, n
<1>6. \A j \in i + 1 .. b - 1 : t[j] # Blank
  <2>1. ASSUME NEW j \in i + 1 .. b - 1, t[j] = Blank PROVE FALSE
    <3>1. j \in i + 1 .. n /\ ~(b <= j)
      BY <1>1, <1>5, <2>1
    <3>2. j \in S
      BY <2>1, <3>1 DEF S
    <3> QED
      BY <1>4, <3>1, <3>2
  <2> QED
    BY <2>1
<1>7. ASSUME NEW m, IsNext(t, i, m) PROVE m = b
  <2>1. /\ m \in i + 1 .. n + 1 /\ (m <= n => t[m] = Blank)
        /\ \A j \in i + 1 .. m - 1 : t[j] # Blank
    BY <1>7 DEF IsNext, n
  <2>2. ~(m < b)
    <3>1. m < b => m \in i + 1 .. b - 1 /\ m <= n
      BY <1>1, <1>5, <2>1
    <3> QED
      BY <1>6, <2>1, <3>1
  <2>3. ~(b < m)
    <3>1. b < m => b \in i + 1 .. m - 1 /\ b <= n
      BY <1>1, <1>5, <2>1
    <3> QED
      BY <1>5, <2>1, <3>1
  <2> QED
    BY <1>1, <1>5, <2>1, <2>2, <2>3
<1> QED
  BY <1>5, <1>6, <1>7 DEF IsNext, b, n

(* If there is none, it is past the end.                                   *)
LEMMA NoNext ==
    ASSUME NEW t \in Seq(Texts), NEW i \in 0 .. Len(t) + 1
    PROVE  /\ NextBlank(t, i) \in Nat /\ NextBlank(t, i) <= Len(t) + 1
           /\ NextBlank(t, i) <= Len(t) => i < NextBlank(t, i)
<1> DEFINE n == Len(t)
<1>1. n \in Nat
  BY LenProperties
<1>2. CASE i <= n
  <2>1. IsNext(t, i, NextBlank(t, i))
    BY <1>1, <1>2, NextIs
  <2> QED
    BY <1>1, <2>1 DEF IsNext
<1>3. CASE i = n + 1
  <2> DEFINE S == {j \in i + 1 .. n : t[j] = Blank} \cup {n + 1}
  <2>1. S = {n + 1} /\ S \in SUBSET Nat
    BY <1>1, <1>3
  <2>2. NextBlank(t, i) = Min(S)
    BY DEF NextBlank
  <2> HIDE DEF S
  <2>3. Min(S) \in S
    BY <2>1, MinIs
  <2> QED
    BY <1>1, <2>1, <2>2, <2>3
<1> QED
  BY <1>1, <1>2, <1>3

(* The first four words end at blanks, the fifth at e.                     *)
Blanks(t, a, b, c, d, e) ==
    /\ a \in 1 .. Len(t) /\ b \in 1 .. Len(t) /\ c \in 1 .. Len(t) /\ d \in 1 .. Len(t)
    /\ IsNext(t, 0, a) /\ IsNext(t, a, b) /\ IsNext(t, b, c) /\ IsNext(t, c, d)
    /\ IsNext(t, d, e)

(* The fourth and the fifth blank are where one finds them one after the   *)
(* other.                                                                  *)
LEMMA BlanksAre ==
    ASSUME NEW t \in Seq(Texts)
    PROVE  /\ FourthBlank(t) <= Len(t) =>
                 \E a, b, c : Blanks(t, a, b, c, FourthBlank(t), FifthBlank(t))
           /\ \A a, b, c, d, e : Blanks(t, a, b, c, d, e) =>
                 FourthBlank(t) = d /\ FifthBlank(t) = e
           /\ FourthBlank(t) \in Nat
<1> DEFINE n == Len(t)
           A == NextBlank(t, 0)
           B == NextBlank(t, A)
           C == NextBlank(t, B)
           D == NextBlank(t, C)
           F == NextBlank(t, D)
<1>1. n \in Nat
  BY LenProperties
<1>2. FourthBlank(t) = D /\ FifthBlank(t) = F
  BY DEF FourthBlank, FifthBlank
<1>3. A \in 0 .. n + 1
  BY <1>1, NoNext
<1> HIDE DEF A
<1>4. B \in 0 .. n + 1 /\ (B <= n => A < B)
  BY <1>1, <1>3, NoNext
<1> HIDE DEF B
<1>5. C \in 0 .. n + 1 /\ (C <= n => B < C)
  BY <1>1, <1>4, NoNext
<1> HIDE DEF C
<1>6. D \in 0 .. n + 1 /\ (D <= n => C < D)
  BY <1>1, <1>5, NoNext
<1> HIDE DEF D
<1>7. ASSUME D <= n PROVE Blanks(t, A, B, C, D, F)
  <2>1. C \in 0 .. n
    BY <1>1, <1>5, <1>6, <1>7
  <2>2. B \in 0 .. n
    BY <1>1, <1>4, <1>5, <2>1
  <2>3. A \in 0 .. n
    BY <1>1, <1>3, <1>4, <2>2
  <2>4. D \in 0 .. n /\ 0 \in 0 .. n
    BY <1>1, <1>6, <1>7
  <2>5. IsNext(t, 0, A)
    BY <2>4, NextIs DEF A
  <2>6. IsNext(t, A, B)
    BY <2>3, NextIs DEF B
  <2>7. IsNext(t, B, C)
    BY <2>2, NextIs DEF C
  <2>8. IsNext(t, C, D)
    BY <2>1, NextIs DEF D
  <2>9. IsNext(t, D, F)
    BY <2>4, NextIs
  <2>10. A >= 1 /\ B >= 1 /\ C >= 1 /\ D >= 1
    BY <1>1, <2>1, <2>2, <2>3, <2>5, <2>6, <2>7, <2>8 DEF IsNext
  <2> HIDE DEF F
  <2> QED
    BY <2>1, <2>2, <2>3, <2>4, <2>5, <2>6, <2>7, <2>8, <2>9, <2>10 DEF Blanks
<1>8. ASSUME NEW a, NEW b, NEW c, NEW d, NEW e, Blanks(t, a, b, c, d, e)
      PROVE  D = d /\ F = e
  <2>1. a \in 0 .. n /\ b \in 0 .. n /\ c \in 0 .. n /\ d \in 0 .. n /\ 0 \in 0 .. n
    BY <1>1, <1>8 DEF Blanks
  <2>2. A = a
    BY <1>8, <2>1, NextIs DEF Blanks, A
  <2>3. B = b
    BY <1>8, <2>1, <2>2, NextIs DEF Blanks, B
  <2>4. C = c
    BY <1>8, <2>1, <2>3, NextIs DEF Blanks, C
  <2>5. D = d
    BY <1>8, <2>1, <2>4, NextIs DEF Blanks, D
  <2>6. F = e
    BY <1>8, <2>1, <2>5, NextIs DEF Blanks
  <2> QED
    BY <2>5, <2>6
<1> HIDE DEF F
<1> QED
  BY <1>1, <1>2, <1>6, <1>7, <1>8

(* Texts with blanks in the same places up to the fifth have it there.     *)
LEMMA SameBlanks ==
    ASSUME NEW t \in Seq(Texts), FourthBlank(t) <= Len(t),
           NEW s \in Seq(Texts), NEW e, e = FifthBlank(t), e \in 1 .. Len(s) + 1,
           e <= Len(s) => s[e] = Blank,
           \A i \in 1 .. e - 1 : s[i] = Blank <=> t[i] = Blank
    PROVE  FourthBlank(s) = FourthBlank(t) /\ FifthBlank(s) = e
<1> DEFINE n == Len(t)
           l == Len(s)
           d == FourthBlank(t)
<1>1. n \in Nat /\ l \in Nat
  BY LenProperties
<1>2. PICK a, b, c : Blanks(t, a, b, c, d, e)
  BY BlanksAre
<1> HIDE DEF d
<1>3. /\ a \in 1 .. n /\ b \in 1 .. n /\ c \in 1 .. n /\ d \in 1 .. n /\ e \in 1 .. n + 1
      /\ a < b /\ b < c /\ c < d /\ d < e
      /\ IsNext(t, 0, a) /\ IsNext(t, a, b) /\ IsNext(t, b, c) /\ IsNext(t, c, d) /\ IsNext(t, d, e)
  BY <1>1, <1>2 DEF Blanks, IsNext
<1>4. ASSUME NEW i \in 0 .. n, NEW m \in 1 .. n, m < e, IsNext(t, i, m) PROVE IsNext(s, i, m)
  <2>1. m \in i + 1 .. l + 1 /\ m \in 1 .. e - 1 /\ m <= n
    BY <1>1, <1>3, <1>4 DEF IsNext
  <2>2. s[m] = Blank
    BY <1>4, <2>1 DEF IsNext
  <2>3. \A j \in i + 1 .. m - 1 : s[j] # Blank
    <3>1. \A j \in i + 1 .. m - 1 : j \in 1 .. e - 1
      BY <1>1, <1>3, <1>4
    <3> QED
      BY <1>4, <3>1 DEF IsNext
  <2> QED
    BY <2>1, <2>2, <2>3 DEF IsNext
<1>5. IsNext(s, d, e)
  <2>1. e \in d + 1 .. l + 1
    BY <1>1, <1>3
  <2>2. \A j \in d + 1 .. e - 1 : j \in 1 .. e - 1
    BY <1>1, <1>3
  <2> QED
    BY <1>3, <2>1, <2>2 DEF IsNext
<1>6. Blanks(s, a, b, c, d, e)
  <2>1. a \in 1 .. l /\ b \in 1 .. l /\ c \in 1 .. l /\ d \in 1 .. l
    BY <1>1, <1>3
  <2>2. a < e /\ b < e /\ c < e /\ 0 \in 0 .. n /\ a \in 0 .. n /\ b \in 0 .. n /\ c \in 0 .. n
    BY <1>1, <1>3
  <2> QED
    BY <1>3, <1>4, <1>5, <2>1, <2>2 DEF Blanks
<1> QED
  BY <1>6, BlanksAre DEF d

-----------------------------------------------------------------------------
(* What becomes of a candidate on its way.                                 *)

Worn(w) == candidateDecode(candidateEncode(w))
Capital(x) ==
    CASE x \in {"udp", "UDP"} -> "UDP" [] x \in {"tcp", "TCP"} -> "TCP" [] OTHER -> x

(* A piece before the address.                                             *)
LEMMA ProtocolComesBack ==
    ASSUME NEW x \in Texts, x \notin AllCodes, NEW y, y = Encode(protocolEncodeMap, x)
    PROVE  /\ y \in Texts /\ Capital(x) \in Texts /\ Capital(x) \notin AllCodes
           /\ DecodeItem(y) = <<Capital(x)>>
           /\ Encode(protocolEncodeMap, Capital(x)) = y /\ Encode(protocolEncodeMap, y) = y
           /\ y = Blank <=> x = Blank
           /\ Capital(x) = Blank <=> x = Blank
           /\ x \in Keys(protocolEncodeMap) => y \in AllCodes
           /\ x \notin Keys(protocolEncodeMap) => y = x /\ Capital(x) = x
           /\ LowerCase(Capital(x)) = LowerCase(x)
<1>1. /\ DecodeItem(x) = <<x>> /\ DecodeItem("U") = <<"UDP">> /\ DecodeItem("T") = <<"TCP">>
      /\ \A z : z \in {"udp", "UDP", "tcp", "TCP"} => z \notin AllCodes
      /\ "U" \in AllCodes /\ "T" \in AllCodes
  BY ItemsDecoded DEF AllCodes
<1>2. CASE x \in {"udp", "UDP"}
  <2>1. Capital(x) = "UDP"
    BY <1>2 DEF Capital
  <2>2. y = "U" /\ Encode(protocolEncodeMap, "UDP") = "U" /\ Encode(protocolEncodeMap, "U") = "U"
    BY <1>2, Protocols
  <2>3. x # Blank /\ "U" # Blank /\ "UDP" # Blank /\ x \in Keys(protocolEncodeMap)
    BY <1>2, Protocols DEF Blank
  <2>4. LowerCase("UDP") = "udp" /\ LowerCase(x) = "udp"
    BY <1>2 DEF LowerCase
  <2> QED
    BY <1>1, <2>1, <2>2, <2>3, <2>4, TextsAre
<1>3. CASE x \in {"tcp", "TCP"}
  <2>1. Capital(x) = "TCP"
    BY <1>3 DEF Capital
  <2>2. y = "T" /\ Encode(protocolEncodeMap, "TCP") = "T" /\ Encode(protocolEncodeMap, "T") = "T"
    BY <1>3, Protocols
  <2>3. x # Blank /\ "T" # Blank /\ "TCP" # Blank /\ x \in Keys(protocolEncodeMap)
    BY <1>3, Protocols DEF Blank
  <2>4. LowerCase("TCP") = "tcp" /\ LowerCase(x) = "tcp"
    BY <1>3 DEF LowerCase
  <2> QED
    BY <1>1, <2>1, <2>2, <2>3, <2>4, TextsAre
<1>4. CASE x \notin {"udp", "UDP", "tcp", "TCP"}
  <2>1. Capital(x) = x
    BY <1>4 DEF Capital
  <2>2. y = x
    BY <1>4, Protocols
  <2>3. x \notin Keys(protocolEncodeMap)
    BY <1>4, Protocols
  <2> QED
    BY <1>1, <2>1, <2>2, <2>3
<1> QED
  BY <1>2, <1>3, <1>4

(* A candidate is its pieces up to the address, a blank and the rest.      *)
Joined(h, s) == (h \o <<Blank>>) \o s

(* The pieces of two texts with a blank between them.                      *)
LEMMA JoinedIs ==
    ASSUME NEW h \in Seq(Texts), NEW s \in Seq(Texts)
    PROVE  /\ Joined(h, s) \in Seq(Texts) /\ Len(Joined(h, s)) = Len(h) + 1 + Len(s)
           /\ Len(h) \in Nat /\ Len(s) \in Nat
           /\ DOMAIN Joined(h, s) = 1 .. Len(h) + 1 + Len(s)
           /\ \A i \in 1 .. Len(h) : Joined(h, s)[i] = h[i]
           /\ Joined(h, s)[Len(h) + 1] = Blank
           /\ \A i \in 1 .. Len(s) : Joined(h, s)[i + (Len(h) + 1)] = s[i]
           /\ SubSeq(Joined(h, s), Len(h) + 2, Len(Joined(h, s))) = s
<1> DEFINE one == <<Blank>>
           p == h \o one
           j == p \o s
           r == SubSeq(j, Len(h) + 2, Len(j))
<1>1. one \in Seq(Texts) /\ Len(one) = 1 /\ one[1] = Blank
  BY TextsAre
<1> HIDE DEF one
<1>2. /\ p \in Seq(Texts) /\ Len(p) = Len(h) + 1 /\ Len(h) \in Nat
      /\ \A i \in 1 .. Len(h) : p[i] = h[i]
      /\ \A i \in 1 .. 1 : p[i + Len(h)] = one[i]
  <2>1. /\ p \in Seq(Texts) /\ Len(p) = Len(h) + Len(one) /\ Len(h) \in Nat
        /\ \A i \in 1 .. Len(h) : p[i] = h[i]
        /\ \A i \in 1 .. Len(one) : p[i + Len(h)] = one[i]
    BY <1>1, ConcatHas
  <2> HIDE DEF p
  <2> QED
    BY <1>1, <2>1
<1>3. p[Len(h) + 1] = Blank
  <2>1. p[1 + Len(h)] = one[1] /\ 1 + Len(h) = Len(h) + 1
    BY <1>2
  <2> QED
    BY <1>1, <2>1
<1> HIDE DEF p
<1>4. /\ j \in Seq(Texts) /\ Len(j) = Len(h) + 1 + Len(s) /\ Len(s) \in Nat
      /\ DOMAIN j = 1 .. Len(h) + 1 + Len(s)
      /\ \A i \in 1 .. Len(h) + 1 : j[i] = p[i]
      /\ \A i \in 1 .. Len(s) : j[i + (Len(h) + 1)] = s[i]
  <2>1. /\ j \in Seq(Texts) /\ Len(j) = Len(p) + Len(s) /\ Len(s) \in Nat
        /\ DOMAIN j = 1 .. Len(p) + Len(s)
        /\ \A i \in 1 .. Len(p) : j[i] = p[i]
        /\ \A i \in 1 .. Len(s) : j[i + Len(p)] = s[i]
    BY <1>2, ConcatHas
  <2>2. Len(p) = Len(h) + 1
    BY <1>2
  <2> HIDE DEF j
  <2> QED
    BY <2>1, <2>2
<1> HIDE DEF j
<1>5. \A i \in 1 .. Len(h) : i \in 1 .. Len(h) + 1
  BY <1>2
<1>6. Len(h) + 1 \in 1 .. Len(h) + 1
  BY <1>2
<1>7. r = s
  <2>1. \A i \in Len(h) + 2 .. Len(j) : j[i] \in Texts
    <3>1. \A i \in Len(h) + 2 .. Len(j) : i \in 1 .. Len(j)
      BY <1>2, <1>4
    <3> QED
      BY <1>4, <3>1
  <2>2. Len(h) + 2 \in Int /\ Len(j) \in Int
    BY <1>2, <1>4
  <2>3. /\ r \in Seq(Texts)
        /\ Len(r) = IF Len(h) + 2 <= Len(j) THEN Len(j) - (Len(h) + 2) + 1 ELSE 0
        /\ \A i \in 1 .. Len(j) - (Len(h) + 2) + 1 : r[i] = j[(Len(h) + 2) + i - 1]
    BY <2>1, <2>2, SubSeqProperties
  <2> HIDE DEF r
  <2>4. Len(r) = Len(s)
    BY <1>2, <1>4, <2>3
  <2>5. \A i \in 1 .. Len(s) : /\ i \in 1 .. Len(j) - (Len(h) + 2) + 1
                               /\ (Len(h) + 2) + i - 1 = i + (Len(h) + 1)
    BY <1>2, <1>4
  <2>6. \A i \in 1 .. Len(s) : r[i] = s[i]
    BY <1>4, <2>3, <2>5
  <2> QED
    BY <2>3, <2>4, <2>6, SeqEqual
<1> QED
  BY <1>2, <1>3, <1>4, <1>5, <1>6, <1>7 DEF Joined, j, p, one, r

(* The pieces before the blank n are encoded.                              *)
Coded(h, n) ==
    [i \in DOMAIN h |-> IF i < n THEN Encode(protocolEncodeMap, h[i]) ELSE h[i]]
(* And what a peer sees of them.                                           *)
Shown(h, n) ==
    [i \in DOMAIN h |->
        IF i < n THEN IF i > 1 /\ Whole(h, i, i) THEN Capital(h[i])
                      ELSE Encode(protocolEncodeMap, h[i])
        ELSE h[i]]

(* A candidate is encoded in its two parts, of which only the second has   *)
(* phrases.                                                                *)
LEMMA EncodedIs ==
    ASSUME NEW w \in Seq(Texts), FourthBlank(w) <= Len(w),
           NEW h \in Seq(Texts), FifthBlank(w) = Len(h) + 1,
           \A i \in 1 .. Len(h) : w[i] = h[i]
    PROVE  candidateEncode(w) =
              Joined(Coded(h, FourthBlank(w)), ReplacePhrases(SubSeq(w, Len(h) + 2, Len(w))))
<1> DEFINE n == FourthBlank(w)
           e == FifthBlank(w)
           c == [i \in 1 .. e - 1 |->
                    IF i < n THEN Encode(protocolEncodeMap, w[i]) ELSE w[i]]
<1>1. DOMAIN h = 1 .. Len(h) /\ Len(h) \in Nat
  BY LenProperties
<1>2. e - 1 = Len(h) /\ e + 1 = Len(h) + 2
  BY <1>1
<1>3. candidateEncode(w) = (c \o <<Blank>>) \o ReplacePhrases(SubSeq(w, e + 1, Len(w)))
  <2>1. FourthBlank(w) \in Nat /\ Len(w) \in Nat
    BY BlanksAre, LenProperties
  <2>2. ~(FourthBlank(w) > Len(w))
    BY <2>1
  <2> QED
    BY <2>2 DEF candidateEncode
<1> HIDE DEF n, e
<1>4. c = Coded(h, n)
  BY <1>1, <1>2 DEF Coded
<1> QED
  BY <1>2, <1>3, <1>4 DEF Joined, n

(* The lines of joined lists are those of the two.                         *)
LEMMA ListsConcat ==
    ASSUME NEW a \in Seq(Seq(Texts)), NEW b \in Seq(Seq(Texts))
    PROVE  /\ a \o b \in Seq(Seq(Texts)) /\ Len(a \o b) = Len(a) + Len(b)
           /\ \A i \in 1 .. Len(a) + Len(b) :
                 (a \o b)[i] = IF i <= Len(a) THEN a[i] ELSE b[i - Len(a)]
BY ConcatProperties

(* It is decoded in its two parts.                                         *)
LEMMA JoinedDecoded ==
    ASSUME NEW h \in Seq(Texts), NEW s \in Seq(Texts)
    PROVE  candidateDecode(Joined(h, s)) = Joined(Decoded(FALSE, h), Decoded(TRUE, s))
<1> DEFINE t == Joined(h, s)
           l == Len(h)
           m == Len(s)
           one == <<Blank>>
           a == Items(FALSE, t)
           b == Items(FALSE, h)
           o == <<one>>
           c == Items(TRUE, s)
           bo == b \o o
           all == bo \o c
<1>1. /\ t \in Seq(Texts) /\ Len(t) = l + 1 + m /\ l \in Nat /\ m \in Nat
      /\ DOMAIN t = 1 .. l + 1 + m
      /\ \A i \in 1 .. l : t[i] = h[i]
      /\ t[l + 1] = Blank
      /\ \A i \in 1 .. m : t[i + (l + 1)] = s[i]
  BY JoinedIs
<1> HIDE DEF t
<1>2. DOMAIN h = 1 .. l /\ DOMAIN s = 1 .. m
  BY LenProperties
<1>3. /\ a \in Seq(Seq(Texts)) /\ Len(a) = l + 1 + m
      /\ b \in Seq(Seq(Texts)) /\ Len(b) = l
      /\ c \in Seq(Seq(Texts)) /\ Len(c) = m
  BY <1>1, ItemsType
<1>4. one \in Seq(Texts) /\ o \in Seq(Seq(Texts)) /\ Len(o) = 1 /\ o[1] = one
  <2>1. one \in Seq(Texts)
    BY TextsAre
  <2> HIDE DEF one
  <2> QED
    BY <2>1
<1>5. ASSUME NEW i \in 1 .. l PROVE a[i] = b[i]
  <2>1. a[i] = Item(FALSE, t, i) /\ b[i] = Item(FALSE, h, i)
    <3>1. i \in 1 .. l + 1 + m
      BY <1>1
    <3> QED
      BY <1>1, <1>2, <3>1 DEF Items
  <2>2. t[i] = h[i]
    BY <1>1
  <2>3. (i = 1 \/ t[i - 1] = Blank) <=> (i = 1 \/ h[i - 1] = Blank)
    <3>1. i # 1 => i - 1 \in 1 .. l
      BY <1>1
    <3> QED
      BY <1>1, <3>1
  <2>4. (i = Len(t) \/ t[i + 1] = Blank) <=> (i = l \/ h[i + 1] = Blank)
    <3>1. i # Len(t) /\ (i # l => i + 1 \in 1 .. l) /\ (i = l => t[i + 1] = Blank)
      BY <1>1
    <3>2. i # l => t[i + 1] = h[i + 1]
      BY <1>1, <3>1
    <3> QED
      BY <3>1, <3>2
  <2>5. Whole(t, i, i) <=> Whole(h, i, i)
    BY <2>3, <2>4 DEF Whole
  <2> QED
    BY <2>1, <2>2, <2>5 DEF Item
<1>6. a[l + 1] = one
  <2>1. a[l + 1] = Item(FALSE, t, l + 1)
    <3>1. l + 1 \in 1 .. l + 1 + m
      BY <1>1
    <3> QED
      BY <1>1, <3>1 DEF Items
  <2>2. DecodeItem(Blank) = <<Blank>>
    BY ItemsDecoded
  <2> QED
    BY <1>1, <2>1, <2>2 DEF Item
<1>7. ASSUME NEW i \in 1 .. m PROVE a[i + (l + 1)] = c[i]
  <2>1. a[i + (l + 1)] = Item(FALSE, t, i + (l + 1)) /\ c[i] = Item(TRUE, s, i)
    <3>1. i + (l + 1) \in 1 .. l + 1 + m
      BY <1>1
    <3> QED
      BY <1>1, <1>2, <3>1 DEF Items
  <2>2. t[i + (l + 1)] = s[i]
    BY <1>1
  <2>3. t[(i + (l + 1)) - 1] = Blank <=> (i = 1 \/ s[i - 1] = Blank)
    <3>1. CASE i = 1
      <4>1. (i + (l + 1)) - 1 = l + 1
        BY <1>1, <3>1
      <4> QED
        BY <1>1, <3>1, <4>1
    <3>2. CASE i # 1
      <4>1. i - 1 \in 1 .. m /\ (i + (l + 1)) - 1 = (i - 1) + (l + 1)
        BY <1>1, <3>2
      <4> QED
        BY <1>1, <3>2, <4>1
    <3> QED
      BY <3>1, <3>2
  <2>4. (i + (l + 1) = Len(t) \/ t[(i + (l + 1)) + 1] = Blank) <=> (i = m \/ s[i + 1] = Blank)
    <3>1. (i + (l + 1) = Len(t) <=> i = m) /\ (i # m => i + 1 \in 1 .. m)
          /\ (i + (l + 1)) + 1 = (i + 1) + (l + 1)
      <4>1. Len(t) = l + 1 + m /\ l \in Nat /\ m \in Nat
        BY <1>1
      <4> HIDE DEF l, m
      <4> QED
        BY <4>1
    <3>2. i # m => t[(i + (l + 1)) + 1] = s[i + 1]
      BY <1>1, <3>1
    <3> QED
      BY <3>1, <3>2
  <2>5. i + (l + 1) > 1 /\ i + (l + 1) # 1
    BY <1>1
  <2>6. Whole(t, i + (l + 1), i + (l + 1)) <=> Whole(s, i, i)
    BY <2>3, <2>4, <2>5 DEF Whole
  <2> QED
    BY <2>1, <2>2, <2>5, <2>6 DEF Item
<1> HIDE DEF a, b, c, o, one
<1>8. /\ bo \in Seq(Seq(Texts)) /\ Len(bo) = l + 1
      /\ \A i \in 1 .. l + 1 : bo[i] = IF i <= l THEN b[i] ELSE o[i - l]
  <2>1. /\ bo \in Seq(Seq(Texts)) /\ Len(bo) = Len(b) + Len(o)
        /\ \A i \in 1 .. Len(b) + Len(o) : bo[i] = IF i <= Len(b) THEN b[i] ELSE o[i - Len(b)]
    BY <1>3, <1>4, ListsConcat
  <2>2. Len(b) = l /\ Len(o) = 1
    BY <1>3, <1>4
  <2> HIDE DEF bo, l
  <2> QED
    BY <2>1, <2>2
<1> HIDE DEF bo
<1>9. /\ all \in Seq(Seq(Texts)) /\ Len(all) = l + 1 + m
      /\ \A i \in 1 .. l + 1 + m : all[i] = IF i <= l + 1 THEN bo[i] ELSE c[i - (l + 1)]
  <2>1. /\ all \in Seq(Seq(Texts)) /\ Len(all) = Len(bo) + Len(c)
        /\ \A i \in 1 .. Len(bo) + Len(c) : all[i] = IF i <= Len(bo) THEN bo[i] ELSE c[i - Len(bo)]
    BY <1>3, <1>8, ListsConcat
  <2>2. Len(bo) = l + 1 /\ Len(c) = m
    BY <1>3, <1>8
  <2> HIDE DEF all, l, m
  <2> QED
    BY <2>1, <2>2
<1> HIDE DEF all
<1>10. ASSUME NEW i \in 1 .. l + 1 + m PROVE a[i] = all[i]
  <2>1. CASE i \in 1 .. l
    <3>1. i <= l + 1 /\ i \in 1 .. l + 1 /\ i <= l
      BY <1>1, <2>1
    <3> QED
      BY <1>5, <1>8, <1>9, <2>1, <3>1
  <2>2. CASE i = l + 1
    <3>1. i <= l + 1 /\ i \in 1 .. l + 1 /\ ~(i <= l) /\ i - l = 1
      BY <1>1, <2>2
    <3> QED
      BY <1>4, <1>6, <1>8, <1>9, <2>2, <3>1
  <2>3. CASE i > l + 1
    <3>1. i - (l + 1) \in 1 .. m /\ ~(i <= l + 1) /\ (i - (l + 1)) + (l + 1) = i
      BY <1>1, <2>3
    <3>2. a[(i - (l + 1)) + (l + 1)] = c[i - (l + 1)]
      BY <1>7, <3>1
    <3> QED
      BY <1>9, <3>1, <3>2
  <2> QED
    BY <1>1, <2>1, <2>2, <2>3
<1>11. a = all
  BY <1>3, <1>9, <1>10, SeqEqual
<1>12. FlattenSeq(all) = FlattenSeq(bo) \o FlattenSeq(c)
  BY <1>3, <1>8, FlattenConcat DEF all
<1>13. FlattenSeq(bo) = FlattenSeq(b) \o FlattenSeq(o)
  BY <1>3, <1>4, FlattenConcat DEF bo
<1>14. FlattenSeq(o) = one
  BY <1>4, FlattenOne DEF o
<1>15. candidateDecode(t) = FlattenSeq(a)
  BY <1>1, DecodeIs DEF Decoded, a
<1> QED
  BY <1>11, <1>12, <1>13, <1>14, <1>15 DEF Joined, Decoded, a, b, c, t, one

(* The part before the address is decoded to the protocol in capitals,     *)
(* which has the same code.                                                *)
LEMMA FrontIs ==
    ASSUME NEW h \in Seq(Texts), \A i \in 1 .. Len(h) : h[i] \notin AllCodes, NEW n \in Nat
    PROVE  /\ Coded(h, n) \in Seq(Texts)
           /\ Shown(h, n) \in Seq(Texts) /\ Len(Shown(h, n)) = Len(h)
           /\ Decoded(FALSE, Coded(h, n)) = Shown(h, n)
           /\ Coded(Shown(h, n), n) = Coded(h, n)
           /\ \A i \in 1 .. Len(h) : Shown(h, n)[i] = Blank <=> h[i] = Blank
<1> DEFINE l == Len(h)
           E(x) == Encode(protocolEncodeMap, x)
           c == Coded(h, n)
           d == Shown(h, n)
<1>1. l \in Nat /\ DOMAIN h = 1 .. l /\ \A i \in 1 .. l : h[i] \in Texts
  BY LenProperties
<1>2. \A i \in 1 .. l :
        LET x == h[i]
        IN  /\ E(x) \in Texts /\ Capital(x) \in Texts
            /\ DecodeItem(E(x)) = <<Capital(x)>> /\ DecodeItem(x) = <<x>>
            /\ E(Capital(x)) = E(x) /\ E(E(x)) = E(x)
            /\ E(x) = Blank <=> x = Blank
            /\ Capital(x) = Blank <=> x = Blank
  BY <1>1, ProtocolComesBack, ItemsDecoded
<1>3. /\ c \in Seq(Texts) /\ Len(c) = l /\ DOMAIN c = 1 .. l
      /\ \A i \in 1 .. l : c[i] = IF i < n THEN E(h[i]) ELSE h[i]
  <2> DEFINE A(i) == IF i < n THEN E(h[i]) ELSE h[i]
  <2>1. \A i \in 1 .. l : A(i) \in Texts
    BY <1>1, <1>2
  <2>2. c = [i \in 1 .. l |-> A(i)]
    BY <1>1 DEF Coded
  <2> HIDE DEF A, c, l
  <2>3. c \in Seq(Texts) /\ Len(c) = l /\ DOMAIN c = 1 .. l /\ \A i \in 1 .. l : c[i] = A(i)
    BY <1>1, <2>1, <2>2
  <2> QED
    BY <2>3 DEF A
<1>4. /\ d \in Seq(Texts) /\ Len(d) = l /\ DOMAIN d = 1 .. l
      /\ \A i \in 1 .. l :
            d[i] = IF i < n THEN IF i > 1 /\ Whole(h, i, i) THEN Capital(h[i]) ELSE E(h[i]) ELSE h[i]
  <2> DEFINE A(i) ==
        IF i < n THEN IF i > 1 /\ Whole(h, i, i) THEN Capital(h[i]) ELSE E(h[i]) ELSE h[i]
  <2>1. \A i \in 1 .. l : A(i) \in Texts
    BY <1>1, <1>2
  <2>2. d = [i \in 1 .. l |-> A(i)]
    BY <1>1 DEF Shown
  <2> HIDE DEF A, d, l
  <2>3. d \in Seq(Texts) /\ Len(d) = l /\ DOMAIN d = 1 .. l /\ \A i \in 1 .. l : d[i] = A(i)
    BY <1>1, <2>1, <2>2
  <2> QED
    BY <2>3 DEF A
<1>5. \A i \in 1 .. l : (c[i] = Blank <=> h[i] = Blank) /\ (d[i] = Blank <=> h[i] = Blank)
  <2> HIDE DEF c, d, E
  <2> QED
    BY <1>2, <1>3, <1>4
<1>6. ASSUME NEW i \in 1 .. l PROVE Item(FALSE, c, i) = <<d[i]>>
  <2>1. Whole(c, i, i) <=> Whole(h, i, i)
    <3>1. (i # 1 => i - 1 \in 1 .. l) /\ (i # l => i + 1 \in 1 .. l)
      <4>1. l \in Nat
        BY <1>1
      <4> HIDE DEF l
      <4> QED
        BY <4>1
    <3>2. (i # 1 => (c[i - 1] = Blank <=> h[i - 1] = Blank))
          /\ (i # l => (c[i + 1] = Blank <=> h[i + 1] = Blank))
      BY <1>5, <3>1
    <3> QED
      BY <1>3, <3>2 DEF Whole
  <2>2. Item(FALSE, c, i) = IF i > 1 /\ Whole(h, i, i) THEN DecodeItem(c[i]) ELSE <<c[i]>>
    BY <2>1 DEF Item
  <2> HIDE DEF c, d, E
  <2> QED
    BY <1>2, <1>3, <1>4, <2>2
<1>7. Decoded(FALSE, c) = d
  <2>1. Items(FALSE, c) = [i \in DOMAIN d |-> <<d[i]>>]
    <3> HIDE DEF c, d
    <3> QED
      BY <1>3, <1>4, <1>6 DEF Items
  <2> QED
    BY <1>4, <2>1, FlattenSingles DEF Decoded
<1>8. Coded(d, n) = c
  <2>1. \A i \in 1 .. l : (IF i < n THEN E(d[i]) ELSE d[i]) = IF i < n THEN E(h[i]) ELSE h[i]
    <3> HIDE DEF c, d, E
    <3> QED
      BY <1>2, <1>4
  <2>2. Coded(d, n) = [i \in 1 .. l |-> IF i < n THEN E(d[i]) ELSE d[i]]
    <3> HIDE DEF d, l
    <3> QED
      BY <1>4 DEF Coded
  <2>3. c = [i \in 1 .. l |-> IF i < n THEN E(h[i]) ELSE h[i]]
    BY <1>1 DEF Coded
  <2> HIDE DEF c, d, E, l
  <2> QED
    BY <2>1, <2>2, <2>3
<1> QED
  BY <1>3, <1>4, <1>5, <1>7, <1>8

(* A candidate of five words or more, in parts.                            *)
Parts(w, h, s) ==
    /\ h \in Seq(Texts) /\ s \in Seq(Texts) /\ Len(h) \in Nat
    /\ FourthBlank(w) \in 1 .. Len(h) /\ FifthBlank(w) = Len(h) + 1
    /\ Len(h) <= Len(w)
    /\ \A i \in 1 .. Len(h) : h[i] = w[i] /\ h[i] \notin AllCodes
    /\ s = SubSeq(w, Len(h) + 2, Len(w)) /\ IsCandidate(s)

(* A candidate with four blanks has two parts.                             *)
LEMMA PartsAre ==
    ASSUME NEW w \in Seq(Texts), IsCandidate(w), FourthBlank(w) <= Len(w)
    PROVE  \E h, s : Parts(w, h, s)
<1> DEFINE n == Len(w)
           e == FifthBlank(w)
           d == FourthBlank(w)
           h == SubSeq(w, 1, e - 1)
           s == SubSeq(w, e + 1, n)
<1>1. n \in Nat /\ DOMAIN w = 1 .. n /\ \A i \in 1 .. n : w[i] \in Texts
  BY LenProperties
<1>2. \A i \in 1 .. n : w[i] \notin AllCodes
  <2>1. ToSet(w) \cap AllCodes = {}
    BY ItemsDecoded
  <2> QED
    BY <1>1, <2>1 DEF ToSet
<1>3. PICK a, b, c : Blanks(w, a, b, c, d, e)
  BY BlanksAre
<1> HIDE DEF d, e
<1>4. d \in 1 .. n /\ e \in d + 1 .. n + 1
  BY <1>3 DEF Blanks, IsNext
<1>5. h \in Seq(Texts) /\ Len(h) = e - 1 /\ \A i \in 1 .. e - 1 : h[i] = w[i]
  <2>1. \A i \in 1 .. e - 1 : i \in 1 .. n
    BY <1>1, <1>4
  <2> HIDE DEF n
  <2> QED
    BY <1>1, <1>4, <2>1
<1>6. s \in Seq(Texts) /\ IsCandidate(s)
  <2>1. \A i \in e + 1 .. n : i \in 1 .. n
    BY <1>1, <1>4
  <2>2. /\ s \in Seq(Texts)
        /\ Len(s) = IF e + 1 <= n THEN n - (e + 1) + 1 ELSE 0
        /\ \A i \in 1 .. n - (e + 1) + 1 : s[i] = w[(e + 1) + i - 1]
    BY <1>1, <1>4, <2>1, SubSeqProperties
  <2> HIDE DEF s
  <2>3. Len(s) \in Nat /\ DOMAIN s = 1 .. Len(s)
    BY <2>2, LenProperties
  <2>4. \A i \in 1 .. Len(s) : i \in 1 .. n - (e + 1) + 1 /\ (e + 1) + i - 1 \in 1 .. n
    <3>1. n \in Nat /\ e \in 1 .. n + 1
      BY <1>1, <1>4
    <3>2. Len(s) = IF e + 1 <= n THEN n - (e + 1) + 1 ELSE 0
      BY <2>2
    <3> HIDE DEF n
    <3> QED
      BY <3>1, <3>2
  <2>5. \A i \in 1 .. Len(s) : s[i] \notin AllCodes
    BY <1>2, <2>2, <2>4
  <2>6. ToSet(s) \cap AllCodes = {}
    BY <2>3, <2>5 DEF ToSet
  <2> QED
    BY <2>2, <2>6, ItemsDecoded
<1> HIDE DEF h
<1>7. /\ Len(h) \in Nat /\ d \in 1 .. Len(h) /\ e = Len(h) + 1 /\ Len(h) <= n
      /\ \A i \in 1 .. Len(h) : i \in 1 .. n
  BY <1>1, <1>4, <1>5
<1>8. s = SubSeq(w, Len(h) + 2, n)
  <2>1. e + 1 = Len(h) + 2
    BY <1>7
  <2> QED
    BY <2>1
<1>9. \A i \in 1 .. Len(h) : h[i] = w[i] /\ h[i] \notin AllCodes
  BY <1>2, <1>5, <1>7
<1> HIDE DEF s
<1> QED
  BY <1>5, <1>6, <1>7, <1>8, <1>9 DEF Parts, d, e

WornAs(w, h, s) ==
    LET n == FourthBlank(w)
    IN  /\ candidateEncode(w) = Joined(Coded(h, n), ReplacePhrases(s))
        /\ Worn(w) = Joined(Shown(h, n), Decoded(TRUE, ReplacePhrases(s)))
        /\ Shown(h, n) \in Seq(Texts) /\ Len(Shown(h, n)) = Len(h)
        /\ ReplacePhrases(s) \in Seq(Texts) /\ Decoded(TRUE, ReplacePhrases(s)) \in Seq(Texts)
        /\ Worn(w) \in Seq(Texts)
        /\ FourthBlank(Worn(w)) = n /\ FifthBlank(Worn(w)) = Len(h) + 1
        /\ Len(h) + 1 <= Len(Worn(w))

(* It is restored in these parts.                                          *)
LEMMA WornParts ==
    ASSUME NEW w \in Seq(Texts), IsCandidate(w), FourthBlank(w) <= Len(w),
           NEW h, NEW s, Parts(w, h, s)
    PROVE  WornAs(w, h, s)
<1> DEFINE n == FourthBlank(w)
           r == ReplacePhrases(s)
           d == Decoded(TRUE, r)
           g == Shown(h, n)
           c == Coded(h, n)
           x == Joined(g, d)
<1>1. /\ h \in Seq(Texts) /\ s \in Seq(Texts) /\ Len(h) \in Nat
      /\ n \in 1 .. Len(h) /\ FifthBlank(w) = Len(h) + 1 /\ n \in Nat
      /\ \A i \in 1 .. Len(h) : h[i] = w[i] /\ h[i] \notin AllCodes
      /\ s = SubSeq(w, Len(h) + 2, Len(w))
  BY DEF Parts
<1>2. candidateEncode(w) = Joined(c, r)
  BY <1>1, EncodedIs
<1>3. r \in Seq(Texts) /\ d \in Seq(Texts)
  <2>1. r \in Seq(Texts)
    BY <1>1, ReplacedType
  <2> HIDE DEF r
  <2> QED
    BY <2>1, DecodedType
<1>4. /\ c \in Seq(Texts) /\ g \in Seq(Texts) /\ Len(g) = Len(h) /\ Decoded(FALSE, c) = g
      /\ \A i \in 1 .. Len(h) : g[i] = Blank <=> h[i] = Blank
  BY <1>1, FrontIs
<1> HIDE DEF c, g, r, n
<1>5. Worn(w) = x
  <2>1. candidateDecode(Joined(c, r)) = Joined(Decoded(FALSE, c), Decoded(TRUE, r))
    BY <1>3, <1>4, JoinedDecoded
  <2> QED
    BY <1>2, <1>4, <2>1 DEF Worn
<1> HIDE DEF d
<1>6. /\ x \in Seq(Texts) /\ Len(x) = Len(g) + 1 + Len(d) /\ Len(d) \in Nat
      /\ \A i \in 1 .. Len(g) : x[i] = g[i]
      /\ x[Len(g) + 1] = Blank
  BY <1>3, <1>4, JoinedIs
<1> HIDE DEF x
<1>7. Len(h) + 1 \in 1 .. Len(x) + 1 /\ Len(h) + 1 <= Len(x) /\ (Len(h) + 1) - 1 = Len(h)
  BY <1>1, <1>4, <1>6
<1>8. FourthBlank(x) = n /\ FifthBlank(x) = Len(h) + 1
  <2>1. \A i \in 1 .. Len(h) : x[i] = Blank <=> w[i] = Blank
    BY <1>1, <1>4, <1>6
  <2>2. x[Len(h) + 1] = Blank
    BY <1>4, <1>6
  <2>3. \A i \in 1 .. (Len(h) + 1) - 1 : x[i] = Blank <=> w[i] = Blank
    BY <1>7, <2>1
  <2> DEFINE e == Len(h) + 1
  <2>4. e = FifthBlank(w) /\ e \in 1 .. Len(x) + 1 /\ (e <= Len(x) => x[e] = Blank)
        /\ \A i \in 1 .. e - 1 : x[i] = Blank <=> w[i] = Blank
    BY <1>1, <1>7, <2>2, <2>3
  <2> HIDE DEF e
  <2>5. FourthBlank(x) = FourthBlank(w) /\ FifthBlank(x) = e
    BY <1>6, <2>4, SameBlanks
  <2> QED
    BY <2>5 DEF e, n
<1> QED
  BY <1>2, <1>3, <1>4, <1>5, <1>6, <1>7, <1>8 DEF WornAs, n, c, g, r, d, x

(* A candidate has the same code when it comes back.                       *)
LEMMA CandidateComesBack ==
    ASSUME NEW w \in Seq(Texts), IsCandidate(w)
    PROVE  /\ Worn(w) \in Seq(Texts)
           /\ candidateEncode(Worn(w)) = candidateEncode(w)
<1>0. FourthBlank(w) \in Nat /\ Len(w) \in Nat
  BY BlanksAre, LenProperties
<1>1. CASE FourthBlank(w) > Len(w)
  <2>1. candidateEncode(w) = w
    BY <1>1 DEF candidateEncode
  <2>2. Worn(w) = w
    BY <2>1, DecodeIs, DecodedFull DEF Worn
  <2> QED
    BY <2>2
<1>2. CASE FourthBlank(w) <= Len(w)
  <2>1. PICK h, s : Parts(w, h, s)
    BY <1>2, PartsAre
  <2> DEFINE n == FourthBlank(w)
             x == Worn(w)
             r == ReplacePhrases(s)
             d == Decoded(TRUE, r)
             g == Shown(h, n)
  <2>2. /\ candidateEncode(w) = Joined(Coded(h, n), r) /\ x = Joined(g, d)
        /\ g \in Seq(Texts) /\ Len(g) = Len(h) /\ d \in Seq(Texts) /\ x \in Seq(Texts)
        /\ FourthBlank(x) = n /\ FifthBlank(x) = Len(h) + 1 /\ Len(h) + 1 <= Len(x)
    <3>1. WornAs(w, h, s)
      BY <1>2, <2>1, WornParts
    <3> QED
      BY <3>1 DEF WornAs
  <2>3. /\ h \in Seq(Texts) /\ s \in Seq(Texts) /\ IsCandidate(s) /\ n \in 1 .. Len(h) /\ Len(h) \in Nat
        /\ \A i \in 1 .. Len(h) : h[i] \notin AllCodes
    BY <2>1 DEF Parts
  <2>4. Coded(g, n) = Coded(h, n)
    BY <1>0, <2>3, FrontIs
  <2>5. ReplacePhrases(d) = r
    BY <2>3, ReplacedAgain
  <2> HIDE DEF g, d, r, x, n
  <2>6. /\ \A i \in 1 .. Len(g) : x[i] = g[i]
        /\ SubSeq(x, Len(g) + 2, Len(x)) = d
    <3>1. /\ \A i \in 1 .. Len(g) : Joined(g, d)[i] = g[i]
          /\ SubSeq(Joined(g, d), Len(g) + 2, Len(Joined(g, d))) = d
      BY <2>2, JoinedIs
    <3> QED
      BY <2>2, <3>1
  <2>7. n <= Len(x) /\ Len(x) \in Nat
    BY <2>2, <2>3, LenProperties
  <2>8. candidateEncode(x) = Joined(Coded(g, n), ReplacePhrases(SubSeq(x, Len(g) + 2, Len(x))))
    BY <2>2, <2>6, <2>7, EncodedIs
  <2> QED
    BY <2>2, <2>4, <2>5, <2>6, <2>8 DEF x
<1> QED
  BY <1>0, <1>1, <1>2

Lows(words) == [i \in DOMAIN words |-> LowerCase(words[i])]

(* Texts are the same in lower case if all their pieces are.               *)
LEMMA LowsSame ==
    ASSUME NEW v \in Seq(Texts), NEW w \in Seq(Texts)
    PROVE  Lows(v) = Lows(w) <=>
              Len(v) = Len(w) /\ \A i \in 1 .. Len(w) : LowerCase(v[i]) = LowerCase(w[i])
<1>1. /\ DOMAIN v = 1 .. Len(v) /\ DOMAIN w = 1 .. Len(w) /\ Len(v) \in Nat /\ Len(w) \in Nat
  BY LenProperties
<1>2. ASSUME Lows(v) = Lows(w)
      PROVE  Len(v) = Len(w) /\ \A i \in 1 .. Len(w) : LowerCase(v[i]) = LowerCase(w[i])
  <2>1. DOMAIN Lows(v) = 1 .. Len(v) /\ DOMAIN Lows(w) = 1 .. Len(w)
    BY <1>1 DEF Lows
  <2>2. \A i : i \in 1 .. Len(v) <=> i \in 1 .. Len(w)
    BY <1>2, <2>1
  <2>3. Len(v) = Len(w)
    <3> DEFINE a == Len(v)
               b == Len(w)
    <3>1. a \in Nat /\ b \in Nat /\ \A i : i \in 1 .. a <=> i \in 1 .. b
      BY <1>1, <2>2
    <3> HIDE DEF a, b
    <3>2. (a \in 1 .. a <=> a \in 1 .. b) /\ (b \in 1 .. a <=> b \in 1 .. b)
      BY <3>1
    <3>3. a = b
      BY <3>1, <3>2
    <3> QED
      BY <3>3 DEF a, b
  <2>4. \A i \in 1 .. Len(w) : Lows(v)[i] = LowerCase(v[i]) /\ Lows(w)[i] = LowerCase(w[i])
    BY <1>1, <2>3 DEF Lows
  <2> QED
    BY <1>2, <2>3, <2>4
<1>3. ASSUME Len(v) = Len(w), \A i \in 1 .. Len(w) : LowerCase(v[i]) = LowerCase(w[i])
      PROVE  Lows(v) = Lows(w)
  BY <1>1, <1>3 DEF Lows
<1> QED
  BY <1>2, <1>3

(* Pieces that are one in lower case are in the same dictionaries.         *)
LEMMA SamePiece ==
    ASSUME NEW a, NEW b, LowerCase(a) = LowerCase(b)
    PROVE  /\ a = Blank <=> b = Blank
           /\ a \in Keys(protocolEncodeMap) <=> b \in Keys(protocolEncodeMap)
           /\ a \in Lookalikes <=> b \in Lookalikes
           /\ a \in AllCodes <=> b \in AllCodes
           /\ \A y \in PhraseWords : a = y <=> b = y
<1>1. /\ "udp" # Blank /\ "UDP" # Blank /\ "tcp" # Blank /\ "TCP" # Blank
      /\ \A x : x \in {"udp", "UDP", "tcp", "TCP"} => x \notin AllCodes \cup Lookalikes \cup PhraseWords
  <2>1. \A x : x \in {"udp", "UDP", "tcp", "TCP"} => x \notin PhraseWords
    BY DEF PhraseWords, Blank
  <2> QED
    BY <2>1, ItemsDecoded DEF Blank
<1>2. Keys(protocolEncodeMap) = {"udp", "UDP", "tcp", "TCP"}
  BY Protocols
<1>3. a = b \/ (a \in {"udp", "UDP", "tcp", "TCP"} /\ b \in {"udp", "UDP", "tcp", "TCP"})
  <2>1. \A x : LowerCase(x) = x \/ (x \in {"UDP", "TCP"} /\ LowerCase(x) \in {"udp", "tcp"})
    BY DEF LowerCase
  <2> QED
    BY <2>1
<1> QED
  BY <1>1, <1>2, <1>3

(* The pieces of a part of a text.                                         *)
LEMMA CutIs ==
    ASSUME NEW v \in Seq(Texts), NEW i \in Int, NEW j \in Int, \A m \in i .. j : m \in 1 .. Len(v)
    PROVE  /\ SubSeq(v, i, j) \in Seq(Texts)
           /\ Len(SubSeq(v, i, j)) = IF i <= j THEN j - i + 1 ELSE 0
           /\ \A m \in 1 .. j - i + 1 : SubSeq(v, i, j)[m] = v[i + m - 1]
<1>1. \A m \in i .. j : v[m] \in Texts
  BY LenProperties
<1> QED
  BY <1>1, SubSeqProperties

(* Case does not matter to what is found.                                  *)
LEMMA SameFound ==
    ASSUME NEW v \in Seq(Texts), NEW w \in Seq(Texts), Len(v) = Len(w),
           \A i \in 1 .. Len(w) : LowerCase(v[i]) = LowerCase(w[i]),
           NEW i \in 1 .. Len(w)
    PROVE  Found(v, i) = Found(w, i)
<1> DEFINE n == Len(w)
<1>1. n \in Nat
  BY LenProperties
<1>2. Found(v, i) \subseteq 1 .. 13 /\ Found(w, i) \subseteq 1 .. 13
  BY Phrases DEF Found
<1>3. ASSUME NEW k \in 1 .. 13 PROVE k \in Found(v, i) <=> k \in Found(w, i)
  <2> DEFINE p == candidateEncodeMap[k].words
             l == Len(p)
             a == SubSeq(v, i, i + l - 1)
             b == SubSeq(w, i, i + l - 1)
  <2>1. p \in Seq(PhraseWords) /\ l \in Nat /\ p \in Seq(Texts)
    BY PhraseHas DEF PhraseOf
  <2>2. /\ k \in Found(v, i) <=> i + l <= n + 1 /\ a = p
        /\ k \in Found(w, i) <=> i + l <= n + 1 /\ b = p
    BY FoundIs
  <2>3. ASSUME i + l <= n + 1 PROVE a = p <=> b = p
    <3>1. \A m \in i .. i + l - 1 : m \in 1 .. n
      BY <1>1, <2>1, <2>3
    <3>2. /\ a \in Seq(Texts) /\ Len(a) = (IF i <= i + l - 1 THEN (i + l - 1) - i + 1 ELSE 0)
          /\ \A m \in 1 .. (i + l - 1) - i + 1 : a[m] = v[i + m - 1]
      <4> DEFINE z == i + l - 1
      <4>1. i \in Int /\ z \in Int /\ \A m \in i .. z : m \in 1 .. Len(v)
        BY <2>1, <3>1
      <4> HIDE DEF z
      <4>2. /\ SubSeq(v, i, z) \in Seq(Texts)
            /\ Len(SubSeq(v, i, z)) = (IF i <= z THEN z - i + 1 ELSE 0)
            /\ \A m \in 1 .. z - i + 1 : SubSeq(v, i, z)[m] = v[i + m - 1]
        BY <4>1, CutIs
      <4> QED
        BY <4>2 DEF z
    <3>3. /\ b \in Seq(Texts) /\ Len(b) = (IF i <= i + l - 1 THEN (i + l - 1) - i + 1 ELSE 0)
          /\ \A m \in 1 .. (i + l - 1) - i + 1 : b[m] = w[i + m - 1]
      <4> DEFINE z == i + l - 1
      <4>1. i \in Int /\ z \in Int /\ \A m \in i .. z : m \in 1 .. Len(w)
        BY <2>1, <3>1
      <4> HIDE DEF z
      <4>2. /\ SubSeq(w, i, z) \in Seq(Texts)
            /\ Len(SubSeq(w, i, z)) = (IF i <= z THEN z - i + 1 ELSE 0)
            /\ \A m \in 1 .. z - i + 1 : SubSeq(w, i, z)[m] = w[i + m - 1]
        BY <4>1, CutIs
      <4> QED
        BY <4>2 DEF z
    <3>4. (i + l - 1) - i + 1 = l /\ (i <= i + l - 1 \/ l = 0)
      BY <2>1
    <3>5. \A m \in 1 .. l : i + m - 1 \in 1 .. n /\ p[m] \in PhraseWords
      <4>1. \A m \in 1 .. l : i + m - 1 \in 1 .. n
        BY <1>1, <2>1, <2>3
      <4>2. \A m \in 1 .. l : p[m] \in PhraseWords
        BY <2>1, LenProperties
      <4> QED
        BY <4>1, <4>2
    <3> HIDE DEF a, b, p, l, n
    <3>6. Len(a) = l /\ Len(b) = l /\ \A m \in 1 .. l : a[m] = v[i + m - 1] /\ b[m] = w[i + m - 1]
      BY <2>1, <3>2, <3>3, <3>4
    <3>7. \A m \in 1 .. l : a[m] = p[m] <=> b[m] = p[m]
      <4>1. SUFFICES ASSUME NEW m \in 1 .. l PROVE a[m] = p[m] <=> b[m] = p[m]
        OBVIOUS
      <4>2. PICK j : j = i + m - 1
        OBVIOUS
      <4>3. j \in 1 .. n /\ p[m] \in PhraseWords /\ a[m] = v[j] /\ b[m] = w[j]
        BY <3>5, <3>6, <4>2
      <4>4. v[j] \in Texts /\ w[j] \in Texts /\ LowerCase(v[j]) = LowerCase(w[j])
        BY <4>3, LenProperties DEF n
      <4> QED
        BY <4>3, <4>4, SamePiece
    <3>8. ASSUME NEW c \in Seq(Texts), Len(c) = l
          PROVE  c = p <=> \A m \in 1 .. l : c[m] = p[m]
      <4>1. Len(p) = l
        BY DEF l
      <4>2. (\A m \in 1 .. l : c[m] = p[m]) => c = p
        BY <2>1, <3>8, <4>1, SeqEqual
      <4> QED
        BY <4>2
    <3> QED
      BY <3>2, <3>3, <3>6, <3>7, <3>8
  <2> QED
    BY <2>2, <2>3
<1> QED
  BY <1>2, <1>3

(* Nor to whether a text is regular.                                       *)
LEMMA SameRegular ==
    ASSUME NEW v \in Seq(Texts), NEW w \in Seq(Texts), Len(v) = Len(w),
           \A i \in 1 .. Len(w) : LowerCase(v[i]) = LowerCase(w[i]),
           RegularPhrases(v)
    PROVE  RegularPhrases(w)
<1>1. Len(w) \in Nat /\ DOMAIN v = 1 .. Len(w) /\ DOMAIN w = 1 .. Len(w)
  BY LenProperties
<1>2. RegularText(TRUE, v)
  BY RegularIs
<1>3. ASSUME NEW i \in 1 .. Len(w) PROVE RegularAt(TRUE, w, i)
  <2>1. RegularAt(TRUE, v, i)
    BY <1>1, <1>2 DEF RegularText
  <2>2. Found(v, i) = Found(w, i)
    BY SameFound
  <2>3. Following(v, i) = Following(w, i) /\ Following(v, i) \in i + 1 .. Len(w) + 1
    <3>1. Following(v, i) \in i + 1 .. Len(w) + 1
      <4>1. i \in 1 .. Len(v)
        OBVIOUS
      <4>2. Following(v, i) \in i + 1 .. Len(v) + 1
        BY <4>1, FirstFound
      <4> QED
        BY <4>2
    <3> QED
      BY <2>2, <3>1 DEF Following
  <2> DEFINE j == Following(v, i) - 1
  <2>4. Whole(v, i, j) <=> Whole(w, i, j)
    <3>1. (i # 1 => i - 1 \in 1 .. Len(w)) /\ (j # Len(w) => j + 1 \in 1 .. Len(w))
      <4>1. j \in i .. Len(w)
        BY <1>1, <2>3
      <4> HIDE DEF j
      <4> QED
        BY <1>1, <4>1
    <3> HIDE DEF j
    <3>2. (i # 1 => (v[i - 1] = Blank <=> w[i - 1] = Blank))
          /\ (j # Len(w) => (v[j + 1] = Blank <=> w[j + 1] = Blank))
      BY <3>1, SamePiece
    <3> QED
      BY <3>2 DEF Whole
  <2>5. v[i] \in Lookalikes <=> w[i] \in Lookalikes
    BY SamePiece
  <2> HIDE DEF j
  <2>6. j = Following(w, i) - 1 /\ j = Following(v, i) - 1
    BY <2>3 DEF j
  <2> QED
    BY <2>1, <2>2, <2>4, <2>5, <2>6 DEF RegularAt
<1>4. RegularText(TRUE, w)
  BY <1>1, <1>3 DEF RegularText
<1> QED
  BY <1>4, RegularIs

(* Neither case nor protocol matters to whether a candidate is regular.    *)
LEMMA RegularLows ==
    ASSUME NEW v \in Seq(Texts), NEW w \in Seq(Texts), Lows(v) = Lows(w), RegularCandidate(v)
    PROVE  RegularCandidate(w)
<1> DEFINE n == Len(w)
           d == FourthBlank(w)
           e == FifthBlank(w)
           a == SubSeq(v, e + 1, n)
           b == SubSeq(w, e + 1, n)
<1>1. n \in Nat /\ Len(v) = n /\ \A i \in 1 .. n : LowerCase(v[i]) = LowerCase(w[i])
  BY LowsSame, LenProperties
<1>2. \A i \in 1 .. n : /\ v[i] = Blank <=> w[i] = Blank
                        /\ v[i] \in Keys(protocolEncodeMap) <=> w[i] \in Keys(protocolEncodeMap)
  BY <1>1, SamePiece
<1>3. SUFFICES ASSUME d <= n
               PROVE  /\ e <= n
                      /\ \A i \in 1 .. d - 1 :
                            w[i] \in Keys(protocolEncodeMap) => i > 1 /\ Whole(w, i, i)
                      /\ RegularPhrases(b)
  BY DEF RegularCandidate
<1>4. d \in 1 .. n /\ e \in d + 1 .. n + 1 /\ (e <= n => w[e] = Blank)
  <2>1. PICK x, y, z : Blanks(w, x, y, z, d, e)
    BY <1>3, BlanksAre
  <2> QED
    BY <2>1 DEF Blanks, IsNext
<1>5. FourthBlank(v) = d /\ FifthBlank(v) = e
  <2>1. \A i \in 1 .. e - 1 : i \in 1 .. n
    BY <1>1, <1>4
  <2>2. /\ e \in 1 .. Len(v) + 1 /\ (e <= Len(v) => v[e] = Blank)
        /\ \A i \in 1 .. e - 1 : v[i] = Blank <=> w[i] = Blank
    <3>1. e \in 1 .. n + 1 /\ (e <= n => e \in 1 .. n)
      BY <1>1, <1>4
    <3> QED
      BY <1>1, <1>2, <1>4, <2>1, <3>1
  <2> QED
    BY <1>3, <2>2, SameBlanks
<1> HIDE DEF d, e
<1>6. /\ e <= n
      /\ \A i \in 1 .. d - 1 :
            v[i] \in Keys(protocolEncodeMap) => i > 1 /\ Whole(v, i, i)
      /\ RegularPhrases(a)
  BY <1>1, <1>3, <1>5 DEF RegularCandidate
<1>7. ASSUME NEW i \in 1 .. d - 1, w[i] \in Keys(protocolEncodeMap)
      PROVE  i > 1 /\ Whole(w, i, i)
  <2>1. i \in 1 .. n /\ i + 1 \in 1 .. n
    BY <1>1, <1>4
  <2>2. i > 1 /\ Whole(v, i, i)
    BY <1>2, <1>6, <1>7, <2>1
  <2>3. i - 1 \in 1 .. n
    BY <1>1, <2>1, <2>2
  <2>4. (v[i - 1] = Blank <=> w[i - 1] = Blank) /\ (v[i + 1] = Blank <=> w[i + 1] = Blank)
    BY <1>2, <2>1, <2>3
  <2> QED
    BY <1>1, <2>2, <2>4 DEF Whole
<1>8. RegularPhrases(b)
  <2>1. e + 1 \in Int /\ n \in Int /\ \A i \in e + 1 .. n : i \in 1 .. n
    BY <1>1, <1>4
  <2>2. \A i \in e + 1 .. n : v[i] \in Texts /\ w[i] \in Texts
    BY <1>1, <2>1, LenProperties
  <2>3. /\ a \in Seq(Texts)
        /\ Len(a) = IF e + 1 <= n THEN n - (e + 1) + 1 ELSE 0
        /\ \A i \in 1 .. n - (e + 1) + 1 : a[i] = v[(e + 1) + i - 1]
    BY <2>1, <2>2, SubSeqProperties
  <2>4. /\ b \in Seq(Texts)
        /\ Len(b) = IF e + 1 <= n THEN n - (e + 1) + 1 ELSE 0
        /\ \A i \in 1 .. n - (e + 1) + 1 : b[i] = w[(e + 1) + i - 1]
    BY <2>1, <2>2, SubSeqProperties
  <2> HIDE DEF a, b
  <2>5. Len(a) = Len(b) /\ \A i \in 1 .. Len(b) : i \in 1 .. n - (e + 1) + 1 /\ (e + 1) + i - 1 \in 1 .. n
    <3>1. n \in Nat /\ e \in 1 .. n + 1
      BY <1>1, <1>4
    <3>2. Len(b) = IF e + 1 <= n THEN n - (e + 1) + 1 ELSE 0
      BY <2>4
    <3>3. Len(a) = Len(b)
      BY <2>3, <2>4
    <3> HIDE DEF n
    <3> QED
      BY <3>1, <3>2, <3>3
  <2>6. \A i \in 1 .. Len(b) : LowerCase(a[i]) = LowerCase(b[i])
    <3> HIDE DEF n
    <3> QED
      BY <1>1, <2>3, <2>4, <2>5
  <2> QED
    BY <1>6, <2>3, <2>4, <2>5, <2>6, SameRegular
<1> QED
  BY <1>6, <1>7, <1>8

(* Nor to whether it has codes.                                            *)
LEMMA CandidateLows ==
    ASSUME NEW v \in Seq(Texts), NEW w \in Seq(Texts), Lows(v) = Lows(w), IsCandidate(w)
    PROVE  IsCandidate(v)
<1>1. /\ Len(v) = Len(w) /\ DOMAIN v = 1 .. Len(w) /\ DOMAIN w = 1 .. Len(w)
      /\ \A i \in 1 .. Len(w) : LowerCase(v[i]) = LowerCase(w[i])
  <2>1. DOMAIN v = 1 .. Len(v) /\ DOMAIN w = 1 .. Len(w)
    BY LenProperties
  <2> QED
    BY <2>1, LowsSame
<1>2. ToSet(w) \cap AllCodes = {}
  BY ItemsDecoded
<1>3. \A i \in 1 .. Len(w) : w[i] \notin AllCodes
  BY <1>1, <1>2 DEF ToSet
<1>4. \A i \in 1 .. Len(w) : v[i] \notin AllCodes
  BY <1>1, <1>3, SamePiece
<1>5. ToSet(v) \cap AllCodes = {}
  BY <1>1, <1>4 DEF ToSet
<1> QED
  BY <1>5, ItemsDecoded, SMTT(40)

(* The pieces before the address of a regular candidate.                   *)
LEMMA FrontRegular ==
    ASSUME NEW w \in Seq(Texts), NEW h, NEW s, Parts(w, h, s), NEW i \in 1 .. FourthBlank(w) - 1
    PROVE  /\ i \in 1 .. Len(h)
           /\ Whole(h, i, i) <=> Whole(w, i, i)
<1> DEFINE d == FourthBlank(w)
           l == Len(h)
           n == Len(w)
<1>1. l \in Nat /\ n \in Nat /\ d \in 1 .. l /\ l <= n /\ \A j \in 1 .. l : h[j] = w[j]
  BY LenProperties DEF Parts
<1>2. i \in 1 .. d - 1
  OBVIOUS
<1> HIDE DEF d, l, n
<1>3. /\ i \in 1 .. l /\ i + 1 \in 1 .. l /\ i # l /\ i # n /\ (i # 1 => i - 1 \in 1 .. l)
  BY <1>1, <1>2
<1>4. h[i + 1] = w[i + 1] /\ (i # 1 => h[i - 1] = w[i - 1])
  BY <1>1, <1>3
<1> QED
  BY <1>3, <1>4 DEF Whole, l, n

(* It is what it was, but for the case of its protocols.                   *)
LEMMA RegularComesBack ==
    ASSUME NEW w \in Seq(Texts), IsCandidate(w), RegularCandidate(w)
    PROVE  Lows(Worn(w)) = Lows(w)
<1>0. FourthBlank(w) \in Nat /\ Len(w) \in Nat
  BY BlanksAre, LenProperties
<1>1. CASE FourthBlank(w) > Len(w)
  <2>1. candidateEncode(w) = w
    BY <1>1 DEF candidateEncode
  <2>2. Worn(w) = w
    BY <2>1, DecodeIs, DecodedFull DEF Worn
  <2> QED
    BY <2>2
<1>2. CASE FourthBlank(w) <= Len(w)
  <2>1. PICK h, s : Parts(w, h, s)
    BY <1>2, PartsAre
  <2> DEFINE n == FourthBlank(w)
             l == Len(h)
             k == Len(w)
             x == Worn(w)
             r == ReplacePhrases(s)
             d == Decoded(TRUE, r)
             g == Shown(h, n)
  <2>2. x = Joined(g, d) /\ g \in Seq(Texts) /\ Len(g) = l /\ d \in Seq(Texts) /\ x \in Seq(Texts)
    <3>1. WornAs(w, h, s)
      BY <1>2, <2>1, WornParts
    <3> QED
      BY <3>1 DEF WornAs
  <2>3. /\ h \in Seq(Texts) /\ s \in Seq(Texts) /\ IsCandidate(s) /\ n \in 1 .. l /\ l \in Nat
        /\ DOMAIN h = 1 .. l /\ FifthBlank(w) = l + 1
        /\ \A i \in 1 .. l : h[i] \notin AllCodes /\ h[i] = w[i] /\ h[i] \in Texts
        /\ s = SubSeq(w, l + 2, k)
    BY <2>1, LenProperties DEF Parts
  <2>4. /\ l + 1 <= k
        /\ \A i \in 1 .. n - 1 : w[i] \in Keys(protocolEncodeMap) => i > 1 /\ Whole(w, i, i)
        /\ RegularPhrases(SubSeq(w, (l + 1) + 1, k))
    BY <1>2, <2>3 DEF RegularCandidate
  <2>5. w[l + 1] = Blank
    <3>1. PICK a, b, c : Blanks(w, a, b, c, n, l + 1)
      BY <1>2, <2>3, BlanksAre
    <3>2. IsNext(w, n, l + 1)
      BY <3>1 DEF Blanks
    <3> QED
      BY <2>4, <3>2 DEF IsNext
  <2>6. d = s
    <3>1. (l + 1) + 1 = l + 2
      BY <2>3
    <3>2. RegularPhrases(s)
      BY <2>3, <2>4, <3>1
    <3> HIDE DEF l, k
    <3>3. RegularText(TRUE, s)
      BY <2>3, <3>2, RegularIs
    <3> QED
      BY <2>3, <3>3, PhrasesComeBack
  <2>7. Len(s) = k - (l + 1) /\ \A i \in 1 .. k - (l + 1) : s[i] = w[i + (l + 1)]
    <3> DEFINE y == SubSeq(w, l + 2, k)
    <3>1. l + 2 \in Int /\ k \in Int /\ \A m \in l + 2 .. k : m \in 1 .. Len(w)
      BY <1>0, <2>3
    <3>2. /\ Len(y) = (IF l + 2 <= k THEN k - (l + 2) + 1 ELSE 0)
          /\ \A m \in 1 .. k - (l + 2) + 1 : y[m] = w[(l + 2) + m - 1]
      BY <3>1, CutIs
    <3>3. l \in Nat /\ k \in Nat /\ l + 1 <= k
      BY <1>0, <2>3, <2>4
    <3> HIDE DEF y, l, k
    <3>4. k - (l + 2) + 1 = k - (l + 1) /\ (~(l + 2 <= k) => k - (l + 1) = 0)
      BY <3>3
    <3>5. \A m \in 1 .. k - (l + 1) : (l + 2) + m - 1 = m + (l + 1)
      BY <3>3
    <3>6. Len(y) = k - (l + 1) /\ \A m \in 1 .. k - (l + 1) : y[m] = w[m + (l + 1)]
      BY <3>2, <3>3, <3>4, <3>5
    <3> QED
      BY <2>3, <3>6 DEF y
  <2>8. ASSUME NEW i \in 1 .. l PROVE LowerCase(g[i]) = LowerCase(w[i])
    <3>1. g[i] = IF i < n THEN IF i > 1 /\ Whole(h, i, i) THEN Capital(h[i])
                               ELSE Encode(protocolEncodeMap, h[i])
                 ELSE h[i]
      BY <2>3 DEF Shown
    <3>2. LowerCase(Capital(h[i])) = LowerCase(h[i])
      BY <2>3, ProtocolComesBack
    <3>3. ASSUME i < n, ~(i > 1 /\ Whole(h, i, i)) PROVE Encode(protocolEncodeMap, h[i]) = h[i]
      <4>1. i \in 1 .. n - 1
        BY <2>3, <3>3
      <4>2. ~(i > 1 /\ Whole(w, i, i))
        BY <2>1, <3>3, <4>1, FrontRegular
      <4>3. h[i] \notin Keys(protocolEncodeMap)
        BY <2>3, <2>4, <4>1, <4>2
      <4> QED
        BY <2>3, <4>3, ProtocolComesBack
    <3> QED
      BY <2>3, <3>1, <3>2, <3>3
  <2> HIDE DEF g, d, r, x, n
  <2>9. /\ Len(x) = l + 1 + Len(s)
        /\ \A i \in 1 .. l : x[i] = g[i]
        /\ x[l + 1] = Blank
        /\ \A i \in 1 .. Len(s) : x[i + (l + 1)] = s[i]
    <3>1. /\ Len(Joined(g, d)) = Len(g) + 1 + Len(d)
          /\ \A i \in 1 .. Len(g) : Joined(g, d)[i] = g[i]
          /\ Joined(g, d)[Len(g) + 1] = Blank
          /\ \A i \in 1 .. Len(d) : Joined(g, d)[i + (Len(g) + 1)] = d[i]
      BY <2>2, JoinedIs
    <3> QED
      BY <2>2, <2>6, <3>1
  <2>10. ASSUME NEW i \in 1 .. k PROVE LowerCase(x[i]) = LowerCase(w[i])
    <3>1. CASE i \in 1 .. l
      BY <2>8, <2>9, <3>1
    <3>2. CASE i = l + 1
      BY <2>5, <2>9, <3>2
    <3>3. CASE i > l + 1
      <4>1. i - (l + 1) \in 1 .. k - (l + 1) /\ (i - (l + 1)) + (l + 1) = i
        <5>1. l \in Nat /\ k \in Nat
          BY <1>0, <2>3
        <5> HIDE DEF l, k
        <5> QED
          BY <3>3, <5>1
      <4>2. x[(i - (l + 1)) + (l + 1)] = s[i - (l + 1)]
        BY <2>7, <2>9, <4>1
      <4>3. s[i - (l + 1)] = w[(i - (l + 1)) + (l + 1)]
        BY <2>7, <4>1
      <4> QED
        BY <4>1, <4>2, <4>3
    <3> QED
      BY <2>3, <3>1, <3>2, <3>3
  <2>11. Len(x) = k
    <3>1. l \in Nat /\ k \in Nat /\ Len(s) = k - (l + 1) /\ Len(x) = l + 1 + Len(s)
      BY <1>0, <2>3, <2>7, <2>9
    <3> HIDE DEF l, k
    <3> QED
      BY <3>1
  <2>12. Lows(x) = Lows(w)
    BY <2>2, <2>10, <2>11, LowsSame
  <2> QED
    BY <2>12 DEF x
<1> QED
  BY <1>0, <1>1, <1>2

(* What comes back as it was is regular.                                   *)
LEMMA WornRegular ==
    ASSUME NEW x \in Seq(Texts), IsCandidate(x), Worn(x) = x
    PROVE  RegularCandidate(x)
<1>1. SUFFICES ASSUME FourthBlank(x) <= Len(x)
               PROVE  /\ FifthBlank(x) <= Len(x)
                      /\ \A i \in 1 .. FourthBlank(x) - 1 :
                            x[i] \in Keys(protocolEncodeMap) => i > 1 /\ Whole(x, i, i)
                      /\ RegularPhrases(SubSeq(x, FifthBlank(x) + 1, Len(x)))
  BY DEF RegularCandidate
<1>2. PICK h, s : Parts(x, h, s)
  BY <1>1, PartsAre
<1> DEFINE n == FourthBlank(x)
           l == Len(h)
           r == ReplacePhrases(s)
           d == Decoded(TRUE, r)
           g == Shown(h, n)
<1>3. /\ x = Joined(g, d) /\ g \in Seq(Texts) /\ Len(g) = l /\ d \in Seq(Texts)
      /\ FifthBlank(x) = l + 1 /\ l + 1 <= Len(x)
  <2>1. WornAs(x, h, s)
    BY <1>1, <1>2, WornParts
  <2> QED
    BY <2>1 DEF WornAs
<1>4. /\ h \in Seq(Texts) /\ s \in Seq(Texts) /\ IsCandidate(s) /\ n \in 1 .. l /\ l \in Nat
      /\ DOMAIN h = 1 .. l
      /\ \A i \in 1 .. l : h[i] \notin AllCodes /\ h[i] = x[i] /\ h[i] \in Texts
      /\ s = SubSeq(x, l + 2, Len(x))
  BY <1>2, LenProperties DEF Parts
<1>5. /\ \A i \in 1 .. l : x[i] = g[i]
      /\ SubSeq(x, l + 2, Len(x)) = d
  <2> HIDE DEF g, d
  <2>1. /\ \A i \in 1 .. Len(g) : Joined(g, d)[i] = g[i]
        /\ SubSeq(Joined(g, d), Len(g) + 2, Len(Joined(g, d))) = d
    BY <1>3, JoinedIs
  <2> QED
    BY <1>3, <2>1
<1>6. RegularPhrases(s)
  <2>1. d = s
    BY <1>4, <1>5
  <2>2. RegularText(TRUE, s)
    BY <1>4, <2>1, PhrasesComeBack
  <2> QED
    BY <1>4, <2>2, RegularIs
<1>7. SubSeq(x, FifthBlank(x) + 1, Len(x)) = s
  <2>1. FifthBlank(x) + 1 = l + 2
    BY <1>3, <1>4
  <2> QED
    BY <1>4, <2>1
<1>8. ASSUME NEW i \in 1 .. n - 1, x[i] \in Keys(protocolEncodeMap)
      PROVE  i > 1 /\ Whole(x, i, i)
  <2>1. i \in 1 .. l /\ (Whole(h, i, i) <=> Whole(x, i, i)) /\ i < n
    <3>1. i \in 1 .. l /\ (Whole(h, i, i) <=> Whole(x, i, i))
      BY <1>2, FrontRegular
    <3> QED
      BY <1>4, <3>1
  <2>2. ASSUME ~(i > 1 /\ Whole(h, i, i)) PROVE FALSE
    <3>1. g[i] = Encode(protocolEncodeMap, h[i])
      BY <1>4, <2>1, <2>2 DEF Shown
    <3>2. Encode(protocolEncodeMap, h[i]) \in AllCodes
      BY <1>4, <1>8, <2>1, ProtocolComesBack
    <3>3. g[i] = h[i]
      BY <1>4, <1>5, <2>1
    <3> HIDE DEF g
    <3> QED
      BY <1>4, <2>1, <3>1, <3>2, <3>3
  <2> QED
    BY <2>1, <2>2
<1> QED
  BY <1>3, <1>6, <1>7, <1>8

(* Whose code is read as a candidate, up to case, is regular: so is that   *)
(* one, because it comes back as it is.                                    *)
LEMMA OnlyRegularComeBack ==
    ASSUME NEW v \in Seq(Texts), NEW w \in Seq(Texts), IsCandidate(v), IsCandidate(w),
           Lows(Worn(v)) = Lows(w)
    PROVE  RegularCandidate(w)
<1> DEFINE x == Worn(v)
<1>1. x \in Seq(Texts) /\ candidateEncode(x) = candidateEncode(v)
  BY CandidateComesBack
<1>2. Worn(x) = x
  BY <1>1 DEF Worn
<1> HIDE DEF x
<1>3. Lows(x) = Lows(w)
  BY DEF x
<1>4. IsCandidate(x)
  BY <1>1, <1>3, CandidateLows
<1>5. RegularCandidate(x)
  BY <1>1, <1>2, <1>4, WornRegular
<1> QED
  BY <1>1, <1>3, <1>5, RegularLows

-----------------------------------------------------------------------------
(* One line.                                                               *)

Lines == [field : STRING, attr : STRING, words : Seq(STRING)]

(* What a line is after both rewritings.                                   *)
Back(line) == decompactLine(compactLine(line))

Loopback(w) == w[5] = "IP4" /\ w[6] = "127.0.0.1"
OriginBack(w) ==
    <<"-", w[2], IF Loopback(w) /\ w[3] \in VersionsEndingIn2 THEN "2" ELSE w[3], "IN", w[5], w[6]>>
BackWords(line) ==
    CASE line.field = "o" -> OriginBack(line.words)
      [] line.field = "m" -> mediaDecode(mediaEncode(line.words))
      [] line.attr = "candidate" -> Worn(line.words)
      [] OTHER -> line.words

(* A line is made of its three parts.                                      *)
LEMMA LineIs ==
    ASSUME NEW line \in Lines
    PROVE  /\ line = Line(line.field, line.attr, line.words)
           /\ line.words \in Seq(STRING) /\ line.words \in Seq(Texts)
BY TextsAre DEF Lines, Line

(* The parts of a line.                                                    *)
LEMMA LineHas ==
    ASSUME NEW f, NEW a, NEW w
    PROVE  Line(f, a, w).field = f /\ Line(f, a, w).attr = a /\ Line(f, a, w).words = w
BY DEF Line

(* The last three words of an origin.                                      *)
LEMMA LastThree ==
    ASSUME NEW X, NEW v \in Seq(X), Len(v) = 6
    PROVE  SubSeq(v, 4, 6) = <<v[4], v[5], v[6]>>
<1> DEFINE s == SubSeq(v, 4, 6)
           t == <<v[4], v[5], v[6]>>
<1>1. s \in Seq(X) /\ Len(s) = 3 /\ s[1] = v[4] /\ s[2] = v[5] /\ s[3] = v[6]
  <2>1. \A i \in 4 .. 6 : v[i] \in X
    <3>1. \A i \in 4 .. 6 : i \in 1 .. Len(v)
      OBVIOUS
    <3> QED
      BY <3>1, LenProperties
  <2>2. s \in Seq(X) /\ Len(s) = 6 - 4 + 1 /\ \A i \in 1 .. 6 - 4 + 1 : s[i] = v[4 + i - 1]
    BY <2>1, SubSeqProperties
  <2> HIDE DEF s
  <2> QED
    BY <2>2
<1>2. v[4] \in X /\ v[5] \in X /\ v[6] \in X
  <2>1. \A i \in 1 .. 6 : v[i] \in X
    BY LenProperties
  <2> QED
    BY <2>1
<1>3. t \in Seq(X) /\ Len(t) = 3 /\ t[1] = v[4] /\ t[2] = v[5] /\ t[3] = v[6]
  BY <1>2
<1> HIDE DEF s, t
<1>4. \A i \in 1 .. 3 : i = 1 \/ i = 2 \/ i = 3
  OBVIOUS
<1>5. \A i \in 1 .. 3 : s[i] = t[i]
  BY <1>1, <1>3, <1>4
<1>6. s = t
  BY <1>1, <1>3, <1>5, SeqEqual
<1> QED
  BY <1>6 DEF s, t

(* An origin comes back but for its user and the tens of its version.      *)
LEMMA OriginComesBack ==
    ASSUME NEW X, NEW w \in Seq(X), Len(w) = 6, w[4] = "IN"
    PROVE  /\ decompactOrigin(compactOrigin(w)) = OriginBack(w)
           /\ compactOrigin(OriginBack(w)) = compactOrigin(w)
<1>1. SubSeq(w, 4, 6) = <<w[4], w[5], w[6]>>
  BY LastThree
<1>3. SubSeq(w, 4, 6) = <<"IN", "IP4", "127.0.0.1">> <=> Loopback(w)
  BY <1>1 DEF Loopback
<1> DEFINE v == OriginBack(w)
           version == IF Loopback(w) /\ w[3] \in VersionsEndingIn2 THEN "2" ELSE w[3]
<1>4. /\ v[1] = "-" /\ v[2] = w[2] /\ v[3] = version /\ v[4] = "IN" /\ v[5] = w[5] /\ v[6] = w[6]
      /\ v = <<"-", w[2], version, "IN", w[5], w[6]>>
  BY DEF OriginBack
<1>5. SubSeq(v, 4, 6) = <<"IN", w[5], w[6]>>
  <2> DEFINE Y == {"-", w[2], version, "IN", w[5], w[6]}
  <2>1. v \in Seq(Y) /\ Len(v) = 6
    <3> HIDE DEF version
    <3>1. <<"-", w[2], version, "IN", w[5], w[6]>> \in Seq(Y)
      OBVIOUS
    <3> HIDE DEF v, Y
    <3> QED
      BY <1>4, <3>1
  <2> HIDE DEF v, Y
  <2> QED
    BY <1>4, <2>1, LastThree
<1>6. SubSeq(v, 4, 6) = <<"IN", "IP4", "127.0.0.1">> <=> Loopback(w)
  <2> HIDE DEF v
  <2> QED
    BY <1>5 DEF Loopback
<1> HIDE DEF v, version
<1>7. CASE ~Loopback(w)
  <2>1. compactOrigin(w) = <<w[2], w[3], w[5], w[6]>>
    BY <1>3, <1>7 DEF compactOrigin
  <2>2. decompactOrigin(compactOrigin(w)) = <<"-", w[2], w[3], "IN", w[5], w[6]>>
    BY <2>1 DEF decompactOrigin
  <2>3. version = w[3]
    BY <1>7 DEF version
  <2>4. compactOrigin(v) = <<v[2], v[3], v[5], v[6]>>
    BY <1>6, <1>7 DEF compactOrigin
  <2> QED
    BY <1>4, <2>1, <2>2, <2>3, <2>4 DEF v
<1>8. CASE Loopback(w) /\ w[3] \in VersionsEndingIn2
  <2>1. compactOrigin(w) = <<w[2]>>
    BY <1>3, <1>8 DEF compactOrigin
  <2>2. decompactOrigin(compactOrigin(w)) = <<"-", w[2], "2", "IN", "IP4", "127.0.0.1">>
    BY <2>1 DEF decompactOrigin
  <2>3. version = "2"
    BY <1>8 DEF version
  <2>4. compactOrigin(v) = <<v[2]>>
    BY <1>4, <1>6, <1>8, <2>3, VersionsAssumption DEF compactOrigin
  <2> QED
    BY <1>4, <1>8, <2>1, <2>2, <2>3, <2>4 DEF v, Loopback
<1>9. CASE Loopback(w) /\ w[3] \notin VersionsEndingIn2
  <2>1. compactOrigin(w) = <<w[2], w[3]>>
    BY <1>3, <1>9 DEF compactOrigin
  <2>2. decompactOrigin(compactOrigin(w)) = <<"-", w[2], w[3], "IN", "IP4", "127.0.0.1">>
    BY <2>1 DEF decompactOrigin
  <2>3. version = w[3]
    BY <1>9 DEF version
  <2>4. compactOrigin(v) = <<v[2], v[3]>>
    BY <1>4, <1>6, <1>9, <2>3 DEF compactOrigin
  <2> QED
    BY <1>4, <1>9, <2>1, <2>2, <2>3, <2>4 DEF v, Loopback
<1> QED
  BY <1>7, <1>8, <1>9

(* The words of a media line come back unless one of them was a code.      *)
LEMMA MediaComesBack ==
    ASSUME NEW w
    PROVE  /\ mediaEncode(mediaDecode(mediaEncode(w))) = mediaEncode(w)
           /\ DOMAIN mediaDecode(mediaEncode(w)) = DOMAIN w
           /\ \A i \in DOMAIN w :
                 /\ w[i] \notin Codes(mediaEncodeMap) => mediaDecode(mediaEncode(w))[i] = w[i]
                 /\ mediaDecode(mediaEncode(w))[i] \notin Codes(mediaEncodeMap)
<1> DEFINE x == mediaEncode(w)
           y == mediaDecode(x)
<1>1. DOMAIN x = DOMAIN w /\ \A i \in DOMAIN w : x[i] = Encode(mediaEncodeMap, w[i])
  BY DEF mediaEncode
<1>2. DOMAIN y = DOMAIN w /\ \A i \in DOMAIN w : y[i] = Decode(mediaEncodeMap, x[i])
  <2> HIDE DEF x
  <2> QED
    BY <1>1 DEF mediaDecode
<1>3. OneToOne(mediaEncodeMap) /\ Keys(mediaEncodeMap) \cap Codes(mediaEncodeMap) = {}
  BY NoClashes, MediaWords
<1>4. x = [i \in DOMAIN w |-> Encode(mediaEncodeMap, w[i])]
  BY DEF mediaEncode
<1> HIDE DEF x, y
<1>5. mediaEncode(y) = x
  <2>1. \A i \in DOMAIN w : Encode(mediaEncodeMap, y[i]) = x[i]
    BY <1>1, <1>2, <1>3, EncodeDecode
  <2>2. mediaEncode(y) = [i \in DOMAIN w |-> Encode(mediaEncodeMap, y[i])]
    BY <1>2 DEF mediaEncode
  <2> QED
    BY <1>1, <1>4, <2>1, <2>2
<1>6. ASSUME NEW i \in DOMAIN w
      PROVE  /\ w[i] \notin Codes(mediaEncodeMap) => y[i] = w[i]
             /\ y[i] \notin Codes(mediaEncodeMap)
  BY <1>1, <1>2, <1>3, DecodeEncode, EncodeDecode
<1> QED
  BY <1>2, <1>5, <1>6 DEF x, y

(* The words of a line.                                                    *)
LEMMA WordsComeBack ==
    ASSUME NEW line \in Lines, IsLine(line)
    PROVE  decompactWords(line.field, line.attr, compactWords(line)) = BackWords(line)
<1> DEFINE v == line.words
           w == compactWords(line)
<1>1. v \in Seq(STRING) /\ v \in Seq(Texts)
  BY LineIs
<1>2. line.attr # "" => line.field = "a"
  BY DEF IsLine
<1>3. CASE line.field = "o"
  <2>0. line.attr = ""
    BY <1>2, <1>3
  <2>1. Len(v) = 6 /\ v[4] = "IN"
    BY <1>3 DEF IsLine
  <2>2. w = compactOrigin(v)
    BY <1>3, <2>0 DEF compactWords
  <2>3. decompactWords(line.field, line.attr, w) = decompactOrigin(w)
    <3> HIDE DEF w
    <3> QED
      BY <1>3, <2>0 DEF decompactWords
  <2>4. BackWords(line) = OriginBack(v)
    BY <1>3, <2>0 DEF BackWords
  <2> QED
    BY <1>1, <2>1, <2>2, <2>3, <2>4, OriginComesBack
<1>4. CASE line.field = "m"
  <2>0. line.attr = ""
    BY <1>2, <1>4
  <2>1. w = mediaEncode(v)
    BY <1>4, <2>0 DEF compactWords
  <2>2. decompactWords(line.field, line.attr, w) = mediaDecode(w)
    <3> HIDE DEF w
    <3> QED
      BY <1>4, <2>0 DEF decompactWords
  <2>3. BackWords(line) = mediaDecode(mediaEncode(v))
    BY <1>4, <2>0 DEF BackWords
  <2> QED
    BY <2>1, <2>2, <2>3
<1>5. CASE line.field = "c"
  <2>1. line.attr = ""
    BY <1>2, <1>5
  <2>2. w = <<Encode(MediaConnectionAddressTypeMap, v[2]), Encode(MediaConnectionIPMap, v[3])>>
    BY <1>5, <2>1 DEF compactWords
  <2>3. decompactWords(line.field, line.attr, w) =
          <<"IN", Decode(MediaConnectionAddressTypeMap, w[1]), Decode(MediaConnectionIPMap, w[2])>>
    <3> HIDE DEF w
    <3> QED
      BY <1>5, <2>1 DEF decompactWords
  <2>4. /\ Decode(MediaConnectionAddressTypeMap, Encode(MediaConnectionAddressTypeMap, v[2])) = v[2]
        /\ Decode(MediaConnectionIPMap, Encode(MediaConnectionIPMap, v[3])) = v[3]
    BY <1>5, DecodeEncode, NoClashes DEF IsLine
  <2>5. decompactWords(line.field, line.attr, w) = <<"IN", v[2], v[3]>>
    <3> HIDE DEF v
    <3> QED
      BY <2>2, <2>3, <2>4
  <2>6. Len(v) = 3 /\ v[1] = "IN"
    BY <1>5 DEF IsLine
  <2>7. v = <<"IN", v[2], v[3]>>
    BY <1>1, <2>6
  <2>8. BackWords(line) = v
    BY <1>5, <2>1 DEF BackWords
  <2> QED
    BY <2>5, <2>7, <2>8
<1>6. CASE line.attr = "candidate"
  <2>1. line.field = "a" /\ IsCandidate(v)
    BY <1>2, <1>6 DEF IsLine
  <2>2. w = candidateEncode(v)
    BY <1>6, <2>1 DEF compactWords
  <2>3. decompactWords(line.field, line.attr, w) = candidateDecode(w)
    <3> HIDE DEF w
    <3> QED
      BY <1>6, <2>1 DEF decompactWords
  <2>4. BackWords(line) = Worn(v)
    BY <1>6, <2>1 DEF BackWords
  <2> QED
    BY <2>2, <2>3, <2>4 DEF Worn
<1>7. CASE line.attr = "fingerprint"
  <2>1. line.field = "a"
    BY <1>2, <1>7
  <2>2. w = <<Encode(HashFuncMap, v[1]), v[2]>>
    BY <1>7, <2>1 DEF compactWords
  <2>3. decompactWords(line.field, line.attr, w) = <<Decode(HashFuncMap, w[1]), w[2]>>
    <3> HIDE DEF w
    <3> QED
      BY <1>7, <2>1 DEF decompactWords
  <2>4. Decode(HashFuncMap, Encode(HashFuncMap, v[1])) = v[1]
    BY <1>7, DecodeEncode, NoClashes DEF IsLine
  <2>5. decompactWords(line.field, line.attr, w) = <<v[1], v[2]>>
    <3> HIDE DEF v
    <3> QED
      BY <2>2, <2>3, <2>4
  <2>6. Len(v) = 2
    BY <1>7 DEF IsLine
  <2>7. v = <<v[1], v[2]>>
    BY <1>1, <2>6
  <2>8. BackWords(line) = v
    BY <1>7, <2>1 DEF BackWords
  <2> QED
    BY <2>5, <2>7, <2>8
<1>8. CASE line.field \notin {"o", "m", "c"} /\ line.attr \notin {"candidate", "fingerprint"}
  <2>1. w = v
    BY <1>8 DEF compactWords
  <2>2. decompactWords(line.field, line.attr, w) = w
    <3> HIDE DEF w
    <3> QED
      BY <1>8 DEF decompactWords
  <2>3. BackWords(line) = v
    BY <1>8 DEF BackWords
  <2> QED
    BY <2>1, <2>2, <2>3
<1> QED
  BY <1>3, <1>4, <1>5, <1>6, <1>7, <1>8

(* Lines that become a letter are attributes.                              *)
LEMMA LettersAre ==
    \A x \in Keys(LineCodes) : x.field = "a" /\ x.attr \in {"ice-options", "sendrecv"}
<1> DEFINE trickle == Line("a", "ice-options", <<"trickle">>)
           ice2 == Line("a", "ice-options", <<"ice2,trickle">>)
           sendrecv == Line("a", "sendrecv", <<>>)
<1>1. LineCodes = {<<trickle, "I">>, <<ice2, "Z">>, <<sendrecv, "B">>}
  BY DEF LineCodes
<1>2. /\ trickle.field = "a" /\ trickle.attr = "ice-options"
      /\ ice2.field = "a" /\ ice2.attr = "ice-options"
      /\ sendrecv.field = "a" /\ sendrecv.attr = "sendrecv"
  BY DEF Line
<1> HIDE DEF trickle, ice2, sendrecv
<1>3. Keys(LineCodes) = {trickle, ice2, sendrecv}
  BY <1>1 DEF Keys
<1> QED
  BY <1>2, <1>3

(* A line comes back as a line of its kind, with these words, and has the  *)
(* same code again.                                                        *)
LEMMA LineComesBack ==
    ASSUME NEW line \in Lines, IsLine(line)
    PROVE  /\ Back(line) = Line(line.field, line.attr, BackWords(line))
           /\ Back(line).field = line.field /\ Back(line).attr = line.attr
           /\ Back(line).words = BackWords(line)
           /\ compactLine(Back(line)) = compactLine(line)
<1> DEFINE code == compactLine(line)
           back == decompactLine(code)
<1>0. Back(line) = back
  BY DEF Back
<1>1. CASE line \in Keys(LineCodes)
  <2>1. code = Line(Encode(LineCodes, line), "", <<>>)
    BY <1>1 DEF compactLine
  <2>2. code.field = Encode(LineCodes, line) /\ code.field \in Codes(LineCodes)
    <3>1. Encode(LineCodes, line) \in Codes(LineCodes)
      BY <1>1, EncodeGives
    <3> HIDE DEF code
    <3> QED
      BY <2>1, <3>1 DEF Line
  <2>3. back = Decode(LineCodes, Encode(LineCodes, line))
    <3> HIDE DEF code
    <3> QED
      BY <2>2 DEF decompactLine
  <2>4. back = line
    BY <1>1, <2>3, DecodeEncode, NoClashes
  <2>5. line.field = "a" /\ line.attr # "candidate"
    BY <1>1, LettersAre
  <2>6. BackWords(line) = line.words
    BY <2>5 DEF BackWords
  <2>7. line = Line(line.field, line.attr, line.words)
    BY LineIs
  <2> HIDE DEF back
  <2> QED
    BY <1>0, <2>4, <2>6, <2>7
<1>2. CASE line \notin Keys(LineCodes)
  <2> DEFINE field == Encode(FieldReplaceMap, line.field)
             attr == Encode(AttributeRepalceMap, line.attr)
             w == compactWords(line)
  <2>0. code = Line(field, attr, w)
    BY <1>2 DEF compactLine
  <2>1. code.field = field /\ code.attr = attr /\ code.words = w
    <3> HIDE DEF code, field, attr, w
    <3> QED
      BY <2>0, LineHas
  <2>2. field \notin Codes(LineCodes)
    <3>1. CASE line.field \in Keys(FieldReplaceMap)
      <4>1. field \in Codes(FieldReplaceMap)
        BY <3>1, EncodeGives
      <4>2. Codes(FieldReplaceMap) = {"V", "O", "S", "C", "A", "M", "T"}
        BY DEF Codes, FieldReplaceMap
      <4>3. Codes(LineCodes) = {"I", "Z", "B"}
        BY LetterCodes
      <4> HIDE DEF field
      <4> QED
        BY <4>1, <4>2, <4>3
    <3>2. CASE line.field \notin Keys(FieldReplaceMap)
      BY <3>2, EncodeGives DEF IsLine
    <3> QED
      BY <3>1, <3>2
  <2>3. Decode(FieldReplaceMap, field) = line.field
    BY DecodeEncode, NoClashes DEF IsLine
  <2>4. Decode(AttributeRepalceMap, attr) = line.attr
    <3>1. line.attr \notin Codes(AttributeRepalceMap)
      BY NamesAssumption DEF IsLine
    <3> QED
      BY <3>1, DecodeEncode, NoClashes
  <2>5. decompactWords(line.field, line.attr, w) = BackWords(line)
    BY WordsComeBack
  <2>6. back = Line(line.field, line.attr, BackWords(line))
    <3> HIDE DEF code, field, attr, w
    <3> QED
      BY <2>1, <2>2, <2>3, <2>4, <2>5 DEF decompactLine
  <2> HIDE DEF back
  <2>7. back.field = line.field /\ back.attr = line.attr /\ back.words = BackWords(line)
    BY <2>6, LineHas
  <2>8. back \notin Keys(LineCodes) /\ compactWords(back) = compactWords(line)
    <3>0. line.attr # "" => line.field = "a"
      BY DEF IsLine
    <3>1. CASE line.field = "o"
      <4>0. line.attr = ""
        BY <3>0, <3>1
      <4>1. back.field = "o" /\ back.attr = "" /\ back.words = OriginBack(line.words)
        BY <2>7, <3>1, <4>0 DEF BackWords
      <4>2. Len(line.words) = 6 /\ line.words[4] = "IN" /\ line.words \in Seq(STRING)
        BY <3>1, LineIs DEF IsLine
      <4>3. compactWords(back) = compactOrigin(OriginBack(line.words))
        BY <4>1 DEF compactWords
      <4>4. compactWords(line) = compactOrigin(line.words)
        BY <3>1, <4>0 DEF compactWords
      <4>5. \A x \in Keys(LineCodes) : x.field = "a"
        BY LettersAre
      <4> QED
        BY <4>1, <4>2, <4>3, <4>4, <4>5, OriginComesBack
    <3>2. CASE line.field = "m"
      <4>0. line.attr = ""
        BY <3>0, <3>2
      <4>1. back.field = "m" /\ back.attr = "" /\ back.words = mediaDecode(mediaEncode(line.words))
        BY <2>7, <3>2, <4>0 DEF BackWords
      <4>3. compactWords(back) = mediaEncode(back.words)
        BY <4>1 DEF compactWords
      <4>4. compactWords(line) = mediaEncode(line.words)
        BY <3>2, <4>0 DEF compactWords
      <4>5. \A x \in Keys(LineCodes) : x.field = "a"
        BY LettersAre
      <4> QED
        BY <4>1, <4>3, <4>4, <4>5, MediaComesBack
    <3>3. CASE line.attr = "candidate"
      <4>0. line.field = "a" /\ IsCandidate(line.words) /\ line.words \in Seq(Texts)
        BY <3>0, <3>3, LineIs DEF IsLine
      <4>1. back.field = "a" /\ back.attr = "candidate" /\ back.words = Worn(line.words)
        BY <2>7, <3>3, <4>0 DEF BackWords
      <4>3. compactWords(back) = candidateEncode(back.words)
        BY <4>1 DEF compactWords
      <4>4. compactWords(line) = candidateEncode(line.words)
        BY <3>3, <4>0 DEF compactWords
      <4>5. \A x \in Keys(LineCodes) : x.attr # "candidate"
        BY LettersAre
      <4> QED
        BY <4>0, <4>1, <4>3, <4>4, <4>5, CandidateComesBack
    <3>4. CASE line.field \notin {"o", "m"} /\ line.attr # "candidate"
      <4>1. BackWords(line) = line.words
        BY <3>4 DEF BackWords
      <4>2. back = line
        BY <2>6, <4>1, LineIs
      <4> QED
        BY <1>2, <4>2
    <3> QED
      BY <3>1, <3>2, <3>3, <3>4
  <2>9. compactLine(back) = code
    <3>1. compactLine(back) =
            Line(Encode(FieldReplaceMap, back.field), Encode(AttributeRepalceMap, back.attr), compactWords(back))
      BY <2>8 DEF compactLine
    <3> QED
      BY <2>0, <2>7, <2>8, <3>1
  <2> QED
    BY <1>0, <2>6, <2>7, <2>9
<1> QED
  BY <1>1, <1>2

-----------------------------------------------------------------------------
(* compactSDPStr.                                                          *)

(* What compactSDPStr writes for a line.                                   *)
Kept(line) == IF Dropped(line) THEN <<>> ELSE <<compactLine(line)>>

(* compactSDPStr joins what it writes for each line.                       *)
LEMMA CompactIs ==
    ASSUME NEW X, NEW Y, {compactLine(x) : x \in X} \subseteq Y, NEW lines \in Seq(X)
    PROVE  LET ss == [i \in DOMAIN lines |-> Kept(lines[i])]
           IN  /\ ss \in Seq(Seq(Y)) /\ Len(ss) = Len(lines)
               /\ compactSDPStr(lines) = FlattenSeq(ss)
               /\ compactSDPStr(lines) \in Seq(Y)
<1> DEFINE n == Len(lines)
           ss == [i \in DOMAIN lines |-> Kept(lines[i])]
           Step(acc, i) == IF Dropped(lines[i]) THEN acc ELSE Append(acc, compactLine(lines[i]))
           Body(f) == [i \in 0 .. n |-> IF i = 0 THEN <<>> ELSE Step(f[i - 1], i)]
           loop == CHOOSE f : f = Body(f)
<1>1. n \in Nat /\ DOMAIN lines = 1 .. n /\ \A i \in 1 .. n : lines[i] \in X
  BY LenProperties
<1>2. ss \in Seq(Seq(Y)) /\ Len(ss) = n /\ \A i \in 1 .. n : ss[i] = Kept(lines[i])
  <2>1. ASSUME NEW i \in 1 .. n PROVE Kept(lines[i]) \in Seq(Y)
    <3>1. compactLine(lines[i]) \in Y
      BY <1>1
    <3>2. <<compactLine(lines[i])>> \in Seq(Y) /\ <<>> \in Seq(Y)
      BY <3>1
    <3> QED
      BY <3>2 DEF Kept
  <2>2. ss = [i \in 1 .. n |-> Kept(lines[i])]
    BY <1>1
  <2> HIDE DEF n, ss
  <2>3. ss \in Seq(Seq(Y)) /\ Len(ss) = n /\ \A i \in 1 .. n : ss[i] = Kept(lines[i])
    BY <1>1, <2>1, <2>2
  <2> QED
    BY <2>3
<1> HIDE DEF ss
<1>3. PICK f : IsFlattening(f, ss, Y)
  BY <1>2, FlatteningExists
<1>4. ASSUME NEW i \in 1 .. n PROVE f[i] = Step(f[i - 1], i)
  <2>1. f[i] = f[i - 1] \o Kept(lines[i]) /\ f[i - 1] \in Seq(Y)
    <3>1. i - 1 \in 0 .. n
      BY <1>1
    <3> QED
      BY <1>2, <1>3, <3>1 DEF IsFlattening
  <2>2. compactLine(lines[i]) \in Y
    BY <1>1
  <2>3. CASE Dropped(lines[i])
    BY <2>1, <2>3, ConcatEmptySeq DEF Kept
  <2>4. CASE ~Dropped(lines[i])
    <3>1. Append(f[i - 1], compactLine(lines[i])) = f[i - 1] \o <<compactLine(lines[i])>>
      BY <2>1, <2>2, AppendIsConcat
    <3> QED
      BY <2>1, <2>4, <3>1 DEF Kept
  <2> QED
    BY <2>3, <2>4
<1>5. f[0] = <<>> /\ f \in [0 .. n -> Seq(Y)]
  BY <1>2, <1>3 DEF IsFlattening
<1>6. f = Body(f)
  <2>1. \A i \in 0 .. n : i = 0 \/ i \in 1 .. n
    BY <1>1
  <2> HIDE DEF Step, n
  <2> QED
    BY <1>4, <1>5, <2>1
<1>7. loop = Body(loop)
  <2> HIDE DEF Body
  <2> QED
    BY <1>6
<1>8. compactSDPStr(lines) = loop[n]
  BY DEF compactSDPStr
<1> HIDE DEF loop
<1> DEFINE T == {k \in Nat : k <= n => loop[k] = f[k]}
<1>9. 0 \in T
  <2>1. loop[0] = <<>>
    <3> HIDE DEF Step, n
    <3> QED
      BY <1>1, <1>7
  <2> QED
    BY <1>5, <2>1
<1>10. ASSUME NEW k \in T, k \in Nat PROVE k + 1 \in T
  <2>1. SUFFICES ASSUME k + 1 <= n PROVE loop[k + 1] = f[k + 1]
    BY <1>10
  <2>2. loop[k] = f[k]
    BY <1>1, <1>10, <2>1
  <2>3. k + 1 \in 1 .. n /\ k + 1 \in 0 .. n /\ k + 1 # 0 /\ (k + 1) - 1 = k
    BY <1>1, <1>10, <2>1
  <2>4. loop[k + 1] = Step(loop[k], k + 1)
    <3> HIDE DEF Step, n
    <3> QED
      BY <1>7, <2>3
  <2> HIDE DEF Step, n
  <2> QED
    BY <1>4, <2>2, <2>3, <2>4
<1>11. n \in T
  <2> HIDE DEF T, n
  <2> QED
    BY <1>1, <1>9, <1>10, CountUp
<1>12. loop[n] = f[n]
  BY <1>1, <1>11
<1>13. FlattenSeq(ss) = f[n] /\ FlattenSeq(ss) \in Seq(Y)
  BY <1>2, <1>3, FlatteningIs
<1> QED
  BY <1>2, <1>8, <1>12, <1>13 DEF ss

(* So the codes of two texts are those of the one they make.               *)
LEMMA CompactConcat ==
    ASSUME NEW X, NEW Y, {compactLine(x) : x \in X} \subseteq Y, NEW p \in Seq(X), NEW q \in Seq(X)
    PROVE  compactSDPStr(p \o q) = compactSDPStr(p) \o compactSDPStr(q)
<1> DEFINE items(s) == [i \in DOMAIN s |-> Kept(s[i])]
           r == p \o q
<1>1. \A s \in Seq(X) :
         items(s) \in Seq(Seq(Y)) /\ Len(items(s)) = Len(s) /\ compactSDPStr(s) = FlattenSeq(items(s))
  BY CompactIs
<1>2. /\ r \in Seq(X) /\ Len(r) = Len(p) + Len(q) /\ DOMAIN r = 1 .. Len(p) + Len(q)
      /\ \A i \in 1 .. Len(p) + Len(q) : r[i] = IF i <= Len(p) THEN p[i] ELSE q[i - Len(p)]
      /\ Len(p) \in Nat /\ DOMAIN p = 1 .. Len(p)
      /\ Len(q) \in Nat /\ DOMAIN q = 1 .. Len(q)
  BY LenProperties, ConcatProperties
<1>3. items(r) = items(p) \o items(q)
  <2> DEFINE Z == Seq(Y)
             a == items(p)
             b == items(q)
             c == items(r)
  <2>1. /\ a \in Seq(Z) /\ Len(a) = Len(p)
        /\ b \in Seq(Z) /\ Len(b) = Len(q)
        /\ c \in Seq(Z) /\ Len(c) = Len(p) + Len(q)
    <3> HIDE DEF r
    <3> QED
      BY <1>1, <1>2
  <2>2. \A i \in 1 .. Len(p) : a[i] = Kept(p[i])
    BY <1>2
  <2>3. \A i \in 1 .. Len(q) : b[i] = Kept(q[i])
    BY <1>2
  <2>4. \A i \in 1 .. Len(p) + Len(q) : c[i] = Kept(r[i])
    <3> HIDE DEF r
    <3> QED
      BY <1>2
  <2> HIDE DEF a, b, c, r, Z
  <2>5. /\ a \o b \in Seq(Z) /\ Len(a \o b) = Len(p) + Len(q)
        /\ \A i \in 1 .. Len(p) + Len(q) : (a \o b)[i] = IF i <= Len(p) THEN a[i] ELSE b[i - Len(p)]
    <3>1. a \in Seq(Z) /\ b \in Seq(Z)
      BY <2>1
    <3>2. /\ a \o b \in Seq(Z) /\ Len(a \o b) = Len(a) + Len(b)
          /\ \A i \in 1 .. Len(a) + Len(b) : (a \o b)[i] = IF i <= Len(a) THEN a[i] ELSE b[i - Len(a)]
      BY <3>1, ConcatProperties
    <3> QED
      BY <2>1, <3>2
  <2>6. ASSUME NEW i \in 1 .. Len(p) + Len(q) PROVE c[i] = (a \o b)[i]
    <3>1. CASE i <= Len(p)
      <4>1. i \in 1 .. Len(p)
        BY <1>2, <3>1
      <4> QED
        BY <1>2, <2>2, <2>4, <2>5, <3>1, <4>1
    <3>2. CASE ~(i <= Len(p))
      <4>1. i - Len(p) \in 1 .. Len(q)
        BY <1>2, <3>2
      <4> QED
        BY <1>2, <2>3, <2>4, <2>5, <3>2, <4>1
    <3> QED
      BY <3>1, <3>2
  <2>7. Len(c) = Len(a \o b)
    BY <2>1, <2>5
  <2>8. c = a \o b
    BY <2>1, <2>5, <2>6, <2>7, SeqEqual
  <2> QED
    BY <2>8 DEF a, b, c
<1>4. FlattenSeq(items(p) \o items(q)) = FlattenSeq(items(p)) \o FlattenSeq(items(q))
  <2>1. items(p) \in Seq(Seq(Y)) /\ items(q) \in Seq(Seq(Y))
    BY <1>1
  <2> HIDE DEF items
  <2> QED
    BY <2>1, FlattenConcat
<1>5. /\ compactSDPStr(r) = FlattenSeq(items(r)) /\ compactSDPStr(p) = FlattenSeq(items(p))
      /\ compactSDPStr(q) = FlattenSeq(items(q))
  <2> HIDE DEF items, r
  <2> QED
    BY <1>1, <1>2
<1> HIDE DEF items
<1> QED
  BY <1>3, <1>4, <1>5

(* No lines have no codes.                                                 *)
LEMMA CompactEmpty == compactSDPStr(<<>>) = <<>>
<1> DEFINE p == <<>>
           ss == [i \in DOMAIN p |-> Kept(p[i])]
<1>1. p \in Seq({}) /\ {compactLine(x) : x \in {}} \subseteq {} /\ Len(p) = 0
  OBVIOUS
<1>2. /\ ss \in Seq(Seq({})) /\ Len(ss) = Len(p) /\ compactSDPStr(p) = FlattenSeq(ss)
  BY <1>1, CompactIs
<1>3. FlattenSeq(ss) = ss /\ ss = <<>>
  <2> HIDE DEF ss
  <2> QED
    BY <1>1, <1>2 DEF FlattenSeq
<1> QED
  BY <1>2, <1>3

(* One line.                                                               *)
LEMMA CompactOne == ASSUME NEW x PROVE compactSDPStr(<<x>>) = Kept(x)
<1> DEFINE p == <<x>>
           Y == {compactLine(x)}
           ss == [i \in DOMAIN p |-> Kept(p[i])]
           f == [k \in 0 .. 1 |-> IF k = 0 THEN <<>> ELSE Kept(x)]
<1>1. p \in Seq({x}) /\ {compactLine(y) : y \in {x}} \subseteq Y /\ Len(p) = 1
  OBVIOUS
<1>2. ss \in Seq(Seq(Y)) /\ Len(ss) = Len(p) /\ compactSDPStr(p) = FlattenSeq(ss)
  <2> HIDE DEF p, Y
  <2> QED
    BY <1>1, CompactIs
<1>3. ss[1] = Kept(x)
  OBVIOUS
<1>4. Kept(x) \in Seq(Y)
  <2>1. <<>> \in Seq(Y) /\ <<compactLine(x)>> \in Seq(Y)
    OBVIOUS
  <2> QED
    BY <2>1 DEF Kept
<1> HIDE DEF ss, Y
<1>5. IsFlattening(f, ss, Y)
  <2>1. \A i \in 1 .. 1 : i = 1 /\ i - 1 = 0
    OBVIOUS
  <2>2. f \in [0 .. 1 -> Seq(Y)]
    BY <1>4
  <2>3. f[0] = <<>> /\ f[1] = Kept(x)
    OBVIOUS
  <2>4. f[1] = f[0] \o ss[1]
    <3> HIDE DEF f
    <3> QED
      BY <1>3, <1>4, <2>3, ConcatEmptySeq
  <2> HIDE DEF f
  <2> QED
    BY <1>1, <1>2, <2>1, <2>2, <2>3, <2>4 DEF IsFlattening
<1>6. FlattenSeq(ss) = f[1]
  <2> HIDE DEF f
  <2> QED
    BY <1>1, <1>2, <1>5, FlatteningIs
<1> QED
  BY <1>2, <1>6

-----------------------------------------------------------------------------
(* Sequences and the sets of their elements.                               *)

(* Two sequences have the elements of both.                                *)
LEMMA ConcatAdds ==
    ASSUME NEW X, NEW p \in Seq(X), NEW q \in Seq(X)
    PROVE  /\ p \o q \in Seq(X) /\ Len(p \o q) = Len(p) + Len(q)
           /\ ToSet(p \o q) = ToSet(p) \cup ToSet(q)
<1> DEFINE r == p \o q
<1>1. /\ Len(p) \in Nat /\ DOMAIN p = 1 .. Len(p)
      /\ Len(q) \in Nat /\ DOMAIN q = 1 .. Len(q)
      /\ r \in Seq(X) /\ Len(r) = Len(p) + Len(q) /\ DOMAIN r = 1 .. Len(p) + Len(q)
      /\ \A i \in 1 .. Len(p) + Len(q) :
            r[i] = IF i <= Len(p) THEN p[i] ELSE q[i - Len(p)]
  BY LenProperties, ConcatProperties
<1> HIDE DEF r
<1>2. ASSUME NEW i \in DOMAIN r PROVE r[i] \in ToSet(p) \cup ToSet(q)
  <2>1. CASE i <= Len(p)
    <3>1. i \in DOMAIN p /\ r[i] = p[i]
      BY <1>1, <2>1
    <3> QED
      BY <3>1 DEF ToSet
  <2>2. CASE ~(i <= Len(p))
    <3>1. i - Len(p) \in DOMAIN q /\ r[i] = q[i - Len(p)]
      BY <1>1, <2>2
    <3> QED
      BY <3>1 DEF ToSet
  <2> QED
    BY <2>1, <2>2
<1>3. ASSUME NEW i \in DOMAIN p PROVE p[i] \in ToSet(r)
  <2>1. i \in DOMAIN r /\ r[i] = p[i]
    BY <1>1
  <2> QED
    BY <2>1 DEF ToSet
<1>4. ASSUME NEW i \in DOMAIN q PROVE q[i] \in ToSet(r)
  <2>1. PICK k \in Nat, n \in Nat : k = Len(p) /\ n = Len(q)
    BY <1>1
  <2>2. i \in 1 .. n /\ DOMAIN r = 1 .. k + n
    BY <1>1, <2>1
  <2>3. i + k \in 1 .. k + n /\ ~(i + k <= k) /\ (i + k) - k = i
    BY <2>2
  <2>4. i + k \in DOMAIN r /\ r[i + k] = q[i]
    BY <1>1, <2>1, <2>2, <2>3
  <2> QED
    BY <2>4, SMTT(40) DEF ToSet
<1>5. ToSet(r) \subseteq ToSet(p) \cup ToSet(q)
  BY <1>2 DEF ToSet
<1>6. ToSet(p) \subseteq ToSet(r) /\ ToSet(q) \subseteq ToSet(r)
  BY <1>3, <1>4 DEF ToSet
<1> QED
  BY <1>1, <1>5, <1>6 DEF r

(* One more element.                                                       *)
LEMMA AppendAdds ==
    ASSUME NEW X, NEW p \in Seq(X), NEW x \in X
    PROVE  /\ Append(p, x) \in Seq(X) /\ Append(p, x) # <<>>
           /\ ToSet(Append(p, x)) = ToSet(p) \cup {x}
<1> DEFINE q == <<x>>
<1>1. Append(p, x) = p \o q /\ Append(p, x) # <<>>
  BY AppendIsConcat
<1>2. q \in Seq(X) /\ ToSet(q) = {x}
  BY DEF ToSet
<1> HIDE DEF q
<1>3. p \o q \in Seq(X) /\ ToSet(p \o q) = ToSet(p) \cup ToSet(q)
  BY <1>2, ConcatAdds
<1> QED
  BY <1>1, <1>2, <1>3

(* Three elements are one and two.                                         *)
LEMMA ThreeLines ==
    ASSUME NEW x, NEW y, NEW z
    PROVE  <<x, y, z>> = <<x>> \o (<<y>> \o <<z>>)
<1> DEFINE X == {x, y, z}
           b == <<y>>
           c == <<z>>
           bc == b \o c
           s == <<x, y, z>>
           a == <<x>>
           t == a \o bc
<1>1. /\ a \in Seq(X) /\ b \in Seq(X) /\ c \in Seq(X) /\ s \in Seq(X)
      /\ Len(a) = 1 /\ Len(b) = 1 /\ Len(c) = 1 /\ Len(s) = 3
      /\ a[1] = x /\ b[1] = y /\ c[1] = z /\ s[1] = x /\ s[2] = y /\ s[3] = z
  OBVIOUS
<1> HIDE DEF X, a, b, c, s
<1>2. /\ bc \in Seq(X) /\ Len(bc) = 2
      /\ \A i \in 1 .. 2 : bc[i] = IF i <= 1 THEN b[i] ELSE c[i - 1]
  <2>1. /\ bc \in Seq(X) /\ Len(bc) = Len(b) + Len(c)
        /\ \A i \in 1 .. Len(b) + Len(c) : bc[i] = IF i <= Len(b) THEN b[i] ELSE c[i - Len(b)]
    BY <1>1, ConcatProperties
  <2> HIDE DEF bc
  <2> QED
    BY <1>1, <2>1
<1> HIDE DEF bc
<1>3. /\ t \in Seq(X) /\ Len(t) = 3
      /\ \A i \in 1 .. 3 : t[i] = IF i <= 1 THEN a[i] ELSE bc[i - 1]
  <2>1. /\ t \in Seq(X) /\ Len(t) = Len(a) + Len(bc)
        /\ \A i \in 1 .. Len(a) + Len(bc) : t[i] = IF i <= Len(a) THEN a[i] ELSE bc[i - Len(a)]
    BY <1>1, <1>2, ConcatProperties
  <2> HIDE DEF t
  <2> QED
    BY <1>1, <1>2, <2>1
<1> HIDE DEF t
<1>4. t[1] = x /\ t[2] = y /\ t[3] = z
  BY <1>1, <1>2, <1>3
<1>5. \A i \in 1 .. 3 : i = 1 \/ i = 2 \/ i = 3
  OBVIOUS
<1>6. \A i \in 1 .. 3 : s[i] = t[i]
  BY <1>1, <1>4, <1>5
<1>7. s = t
  BY <1>1, <1>3, <1>6, SeqEqual
<1> QED
  BY <1>7 DEF s, t, a, bc, b, c

(* A piece of one element.                                                 *)
LEMMA SubSeqOne ==
    ASSUME NEW X, NEW s \in Seq(X), NEW i \in 1 .. Len(s)
    PROVE  SubSeq(s, i, i) = <<s[i]>>
<1>1. Len(s) \in Nat /\ i \in i .. Len(s) /\ i \in Int /\ i < i + 1 /\ i + 1 \in Int
  BY LenProperties
<1>2. SubSeq(s, i, i) = <<s[i]>> \o SubSeq(s, i + 1, i)
  BY <1>1, SubSeqRecursiveFirst
<1>3. SubSeq(s, i + 1, i) = <<>>
  BY <1>1, SubSeqEmpty
<1>4. <<s[i]>> \in Seq(X)
  BY <1>1, LenProperties
<1> QED
  BY <1>2, <1>3, <1>4, ConcatEmptySeq

(* An element in between.                                                  *)
LEMMA InsertAdds ==
    ASSUME NEW X, NEW p \in Seq(X), NEW i \in 1 .. Len(p) + 1, NEW x \in X
    PROVE  /\ InsertAt(p, i, x) \in Seq(X) /\ InsertAt(p, i, x) # <<>>
           /\ ToSet(InsertAt(p, i, x)) = ToSet(p) \cup {x}
<1> DEFINE front == SubSeq(p, 1, i - 1)
           back == SubSeq(p, i, Len(p))
<1>1. front \in Seq(X) /\ back \in Seq(X) /\ Len(p) \in Nat /\ DOMAIN p = 1 .. Len(p)
  BY LenProperties
<1>2. ToSet(front) = {p[j] : j \in 1 .. i - 1}
  <2>1. DOMAIN front = 1 .. i - 1 /\ \A j \in 1 .. i - 1 : front[j] = p[j]
    BY <1>1
  <2> HIDE DEF front
  <2> QED
    BY <2>1, SMTT(40) DEF ToSet
<1>3. ToSet(back) = {p[j] : j \in i .. Len(p)}
  <2>1. PICK n \in Nat : n = Len(p)
    BY <1>1
  <2>2. DOMAIN back = 1 .. n - i + 1 /\ \A j \in 1 .. n - i + 1 : back[j] = p[i + j - 1]
    BY <1>1, <2>1
  <2>3. ASSUME NEW j \in i .. n PROVE p[j] \in ToSet(back)
    <3>1. j - i + 1 \in DOMAIN back /\ back[j - i + 1] = p[j]
      BY <2>1, <2>2
    <3> QED
      BY <3>1 DEF ToSet
  <2>4. ASSUME NEW j \in DOMAIN back PROVE back[j] \in {p[k] : k \in i .. n}
    <3>1. i + j - 1 \in i .. n /\ back[j] = p[i + j - 1]
      BY <2>1, <2>2
    <3> QED
      BY <3>1
  <2>5. ToSet(back) \subseteq {p[k] : k \in i .. n}
    BY <2>4 DEF ToSet
  <2> HIDE DEF back
  <2> QED
    BY <2>1, <2>3, <2>5
<1>4. ToSet(p) = ToSet(front) \cup ToSet(back)
  <2>1. 1 .. Len(p) = (1 .. i - 1) \cup (i .. Len(p))
    BY <1>1
  <2> HIDE DEF front, back
  <2> QED
    BY <1>1, <1>2, <1>3, <2>1 DEF ToSet
<1> DEFINE one == <<x>>
<1>5. one \in Seq(X) /\ ToSet(one) = {x} /\ Len(one) = 1
  BY DEF ToSet
<1>6. InsertAt(p, i, x) = (front \o one) \o back
  BY DEF InsertAt
<1> DEFINE start == front \o one
<1> HIDE DEF front, back, one
<1>7. start \in Seq(X) /\ Len(start) = Len(front) + Len(one) /\ ToSet(start) = ToSet(front) \cup ToSet(one)
  <2>1. front \in Seq(X) /\ one \in Seq(X)
    BY <1>1, <1>5
  <2> QED
    BY <2>1, ConcatAdds
<1> HIDE DEF start
<1>8. /\ start \o back \in Seq(X) /\ Len(start \o back) = Len(start) + Len(back)
      /\ ToSet(start \o back) = ToSet(start) \cup ToSet(back)
  <2>1. start \in Seq(X) /\ back \in Seq(X)
    BY <1>1, <1>7
  <2> QED
    BY <2>1, ConcatAdds
<1>9. start \o back # <<>>
  <2>1. Len(front) \in Nat /\ Len(back) \in Nat
    BY <1>1
  <2>2. Len(start \o back) # 0
    BY <1>5, <1>7, <1>8, <2>1
  <2> QED
    BY <2>2
<1> QED
  BY <1>4, <1>5, <1>6, <1>7, <1>8, <1>9 DEF start

(* What is inserted after the first line leaves it first.                  *)
LEMMA InsertKeepsFirst ==
    ASSUME NEW X, NEW p \in Seq(X), NEW i \in 2 .. Len(p) + 1, NEW x \in X
    PROVE  Len(InsertAt(p, i, x)) = Len(p) + 1 /\ InsertAt(p, i, x)[1] = p[1]
<1> DEFINE front == SubSeq(p, 1, i - 1)
           one == <<x>>
           back == SubSeq(p, i, Len(p))
<1>1. Len(p) \in Nat /\ \A j \in 1 .. Len(p) : p[j] \in X
  BY LenProperties
<1>2. front \in Seq(X) /\ Len(front) = i - 1 /\ front[1] = p[1]
  BY <1>1
<1>3. back \in Seq(X) /\ Len(back) = Len(p) - i + 1
  BY <1>1
<1>4. one \in Seq(X) /\ Len(one) = 1
  OBVIOUS
<1>5. InsertAt(p, i, x) = (front \o one) \o back
  BY DEF InsertAt
<1> HIDE DEF front, one, back
<1> DEFINE start == front \o one
<1>6. start \in Seq(X) /\ Len(start) = i /\ start[1] = p[1]
  <2>1. front \in Seq(X) /\ one \in Seq(X)
    BY <1>2, <1>4
  <2>2. /\ start \in Seq(X) /\ Len(start) = Len(front) + Len(one)
        /\ \A j \in 1 .. Len(front) + Len(one) :
              start[j] = IF j <= Len(front) THEN front[j] ELSE one[j - Len(front)]
    BY <2>1, ConcatProperties
  <2>3. 1 \in 1 .. Len(front) + Len(one) /\ 1 <= Len(front)
    BY <1>1, <1>2, <1>4
  <2> HIDE DEF start
  <2> QED
    BY <1>1, <1>2, <1>4, <2>2, <2>3
<1> HIDE DEF start
<1>7. Len(start \o back) = Len(start) + Len(back) /\ (start \o back)[1] = start[1]
  <2>1. /\ Len(start \o back) = Len(start) + Len(back)
        /\ \A j \in 1 .. Len(start) + Len(back) :
              (start \o back)[j] = IF j <= Len(start) THEN start[j] ELSE back[j - Len(start)]
    BY <1>3, <1>6, ConcatProperties
  <2>2. 1 \in 1 .. Len(start) + Len(back) /\ 1 <= Len(start)
    BY <1>1, <1>3, <1>6
  <2> QED
    BY <2>1, <2>2
<1> QED
  BY <1>1, <1>3, <1>5, <1>6, <1>7 DEF start

-----------------------------------------------------------------------------
(* The loop of decompactSDPStr.                                            *)

First == Line("v", "", <<"0">>)
Setup(isOffer) == Line("a", "setup", <<IF isOffer THEN "actpass" ELSE "active">>)
Mid(k) == Line("a", "mid", <<ToString(k)>>)
Group(n) == Line("a", "group", <<"BUNDLE">> \o [i \in 1 .. n |-> ToString(i - 1)])
MadeUp(isOffer) == {Setup(isOffer)} \cup {Mid(k) : k \in Nat}

(* Its state: the text so far, and the number of the next section.         *)
Restored(X) == {acc \in [sdp : Seq(X), mediaID : Nat] : Len(acc.sdp) > 1 /\ acc.sdp[1] = First}

(* Such a state is one.                                                    *)
LEMMA RestoredState ==
    ASSUME NEW X, NEW text \in Seq(X), Len(text) > 1, text[1] = First, NEW k \in Nat
    PROVE  [sdp |-> text, mediaID |-> k] \in Restored(X)
BY DEF Restored

(* All lines that are made up.                                             *)
Around(n, isOffer) ==
    ToSet(Header) \cup {Setup(isOffer) : j \in 1 .. n} \cup {Mid(j - 1) : j \in 1 .. n}

(* The header's lines are about the session, and dropped again.            *)
LEMMA HeaderIs ==
    /\ Header \in Seq(ToSet(Header)) /\ Len(Header) = 5 /\ Header[1] = First
    /\ First \in ToSet(Header) /\ Dropped(First)
    /\ \A line \in ToSet(Header) :
          /\ Dropped(line)
          /\ \/ line.field \in {"v", "s", "t"} /\ line.attr = ""
             \/ line.field = "a" /\ line.attr \in {"extmap-allow-mixed", "msid-semantic"}
          /\ line = Line(line.field, line.attr, line.words)
<1> DEFINE v == Line("v", "", <<"0">>)
           s == Line("s", "", <<"-">>)
           t == Line("t", "", <<"0", "0">>)
           extmap == Line("a", "extmap-allow-mixed", <<>>)
           msid == Line("a", "msid-semantic", <<"WMS">>)
<1>1. Header = <<v, s, t, extmap, msid>> /\ First = v
  BY DEF Header, First
<1>2. /\ v.field = "v" /\ s.field = "s" /\ t.field = "t" /\ v.attr = "" /\ s.attr = "" /\ t.attr = ""
      /\ extmap.field = "a" /\ extmap.attr = "extmap-allow-mixed"
      /\ msid.field = "a" /\ msid.attr = "msid-semantic"
      /\ \A line \in {v, s, t, extmap, msid} : line = Line(line.field, line.attr, line.words)
  <2>1. \A f, a, w : Line(f, a, w) = Line(Line(f, a, w).field, Line(f, a, w).attr, Line(f, a, w).words)
    BY LineHas
  <2>2. \A line \in {v, s, t, extmap, msid} : \E f, a, w : line = Line(f, a, w)
    OBVIOUS
  <2>3. \A line \in {v, s, t, extmap, msid} : line = Line(line.field, line.attr, line.words)
    <3> HIDE DEF v, s, t, extmap, msid
    <3> QED
      BY <2>1, <2>2
  <2>4. /\ v.field = "v" /\ s.field = "s" /\ t.field = "t" /\ v.attr = "" /\ s.attr = "" /\ t.attr = ""
        /\ extmap.field = "a" /\ extmap.attr = "extmap-allow-mixed"
        /\ msid.field = "a" /\ msid.attr = "msid-semantic"
    BY DEF Line
  <2> QED
    BY <2>3, <2>4
<1> HIDE DEF v, s, t, extmap, msid
<1>3. ToSet(Header) = {v, s, t, extmap, msid}
  BY <1>1 DEF ToSet
<1>4. Header \in Seq(ToSet(Header)) /\ Len(Header) = 5 /\ Header[1] = First /\ First \in ToSet(Header)
  BY <1>1, <1>3
<1>5. \A line \in {v, s, t, extmap, msid} :
          /\ Dropped(line)
          /\ \/ line.field \in {"v", "s", "t"} /\ line.attr = ""
             \/ line.field = "a" /\ line.attr \in {"extmap-allow-mixed", "msid-semantic"}
          /\ line = Line(line.field, line.attr, line.words)
  BY <1>2 DEF Dropped
<1> QED
  BY <1>3, <1>4, <1>5

(* So are the ones that are made up.                                       *)
LEMMA MadeUpIs ==
    ASSUME NEW isOffer
    PROVE  /\ \A line \in MadeUp(isOffer) :
                 line.field = "a" /\ line.attr \in {"setup", "mid"} /\ Dropped(line)
           /\ \A n : Group(n).field = "a" /\ Group(n).attr = "group" /\ Dropped(Group(n))
<1>1. \A w : /\ Line("a", "setup", w).field = "a" /\ Line("a", "setup", w).attr = "setup"
             /\ Line("a", "mid", w).field = "a" /\ Line("a", "mid", w).attr = "mid"
             /\ Line("a", "group", w).field = "a" /\ Line("a", "group", w).attr = "group"
  BY DEF Line
<1>2. \A n : Group(n).field = "a" /\ Group(n).attr = "group"
  BY <1>1 DEF Group
<1>3. ASSUME NEW line \in MadeUp(isOffer) PROVE line.field = "a" /\ line.attr \in {"setup", "mid"}
  <2>1. PICK w : line = Line("a", "setup", w) \/ line = Line("a", "mid", w)
    BY Zenon DEF MadeUp, Setup, Mid
  <2> QED
    BY <1>1, <2>1
<1> QED
  BY <1>2, <1>3 DEF Dropped

(* What a round adds to the lines, the k-th section being the next one.    *)
Added(line, isOffer, k) ==
    {line} \cup (IF line.field = "m" THEN {Setup(isOffer), Mid(k)} ELSE {})

(* A round, and what it does to the text and to its codes.                 *)
Adds(next, acc, line, isOffer, X) ==
    /\ next \in Restored(X)
    /\ next.mediaID = IF line.field = "m" THEN acc.mediaID + 1 ELSE acc.mediaID
    /\ ToSet(next.sdp) = ToSet(acc.sdp) \cup Added(line, isOffer, acc.mediaID)
    /\ line.field = "o" => compactSDPStr(next.sdp) = Kept(line) \o compactSDPStr(acc.sdp)
    /\ line.field # "o" => compactSDPStr(next.sdp) = compactSDPStr(acc.sdp) \o Kept(line)

(* Each round does that.                                                   *)
LEMMA RestoreAdds ==
    ASSUME NEW isOffer, NEW X, MadeUp(isOffer) \subseteq X,
           NEW acc \in Restored(X), NEW line \in X
    PROVE  Adds(Restore(acc, line, isOffer), acc, line, isOffer, X)
<1> DEFINE next == Restore(acc, line, isOffer)
           text == acc.sdp
           k == acc.mediaID
           Y == {compactLine(x) : x \in X}
<1>1. acc = [sdp |-> text, mediaID |-> k] /\ text \in Seq(X) /\ k \in Nat /\ Len(text) > 1 /\ text[1] = First
  BY DEF Restored
<1>2. Len(text) \in Nat /\ DOMAIN text = 1 .. Len(text)
  BY <1>1, LenProperties
<1>3. ASSUME NEW new \in Seq(X), NEW j \in Nat, next = [sdp |-> new, mediaID |-> j],
             Len(new) > 1, new[1] = First
      PROVE  next \in Restored(X) /\ next.sdp = new /\ next.mediaID = j
  <2> HIDE DEF next
  <2> QED
    BY <1>3 DEF Restored
<1>4. compactSDPStr(text) \in Seq(Y) /\ Kept(line) \in Seq(Y)
  <2>1. <<>> \in Seq(Y) /\ <<compactLine(line)>> \in Seq(Y)
    OBVIOUS
  <2>2. Kept(line) \in Seq(Y)
    BY <2>1 DEF Kept
  <2> HIDE DEF Y, text
  <2>3. {compactLine(x) : x \in X} \subseteq Y
    BY DEF Y
  <2> QED
    BY <1>1, <2>2, <2>3, CompactIs
<1> DEFINE one == <<line>>
<1>5. one \in Seq(X) /\ Len(one) = 1 /\ ToSet(one) = {line} /\ compactSDPStr(one) = Kept(line)
  BY CompactOne DEF ToSet
<1>6. CASE line.field = "o"
  <2> DEFINE new == InsertAt(text, 2, line)
             front == SubSeq(text, 1, 1)
             back == SubSeq(text, 2, Len(text))
  <2>1. next = [sdp |-> new, mediaID |-> k]
    BY <1>1, <1>6 DEF Restore
  <2> HIDE DEF next, k
  <2>2. 2 \in 1 .. Len(text) + 1 /\ 2 \in 2 .. Len(text) + 1
    BY <1>1, <1>2
  <2>3. new \in Seq(X) /\ ToSet(new) = ToSet(text) \cup {line} /\ Len(new) = Len(text) + 1 /\ new[1] = text[1]
    <3> HIDE DEF text
    <3> QED
      BY <1>1, <2>2, InsertAdds, InsertKeepsFirst
  <2>4. front \in Seq(X) /\ back \in Seq(X) /\ front = <<First>> /\ front \o back = text
    <3>1. front = <<text[1]>>
      <4>1. 1 \in 1 .. Len(text)
        BY <1>1, <1>2
      <4> QED
        BY <1>1, <4>1, SubSeqOne
    <3>2. SubSeq(text, 1, 1) \o SubSeq(text, 1 + 1, Len(text)) = SubSeq(text, 1, Len(text))
      <4>1. 1 \in 1 .. Len(text) + 1 /\ 1 \in 1 - 1 .. Len(text) /\ Len(text) \in 1 .. Len(text)
        BY <1>1, <1>2
      <4> HIDE DEF text
      <4> QED
        BY <1>1, <4>1, ConcatAdjacentSubSeq
    <3>3. SubSeq(text, 1, Len(text)) = text
      BY <1>1, SubSeqFull
    <3>4. front \in Seq(X) /\ back \in Seq(X)
      BY <1>1, <1>2
    <3> HIDE DEF text
    <3> QED
      BY <1>1, <3>1, <3>2, <3>3, <3>4
  <2>5. compactSDPStr(front) = <<>>
    <3>1. Dropped(First)
      BY HeaderIs
    <3> HIDE DEF front
    <3> QED
      BY <2>4, <3>1, CompactOne DEF Kept
  <2>6. compactSDPStr(new) = Kept(line) \o compactSDPStr(text)
    <3>1. new = (front \o one) \o back
      BY DEF InsertAt
    <3> HIDE DEF new, front, back, one, text, Y
    <3>2. {compactLine(x) : x \in X} \subseteq Y
      BY DEF Y
    <3>3. front \o one \in Seq(X) /\ compactSDPStr(front \o one) = compactSDPStr(front) \o compactSDPStr(one)
      BY <1>5, <2>4, <3>2, CompactConcat, ConcatProperties
    <3>4. compactSDPStr(front \o one) = Kept(line)
      BY <1>4, <1>5, <2>5, <3>3, ConcatEmptySeq
    <3> DEFINE start == front \o one
    <3>5. compactSDPStr(start \o back) = compactSDPStr(start) \o compactSDPStr(back)
      <4>1. start \in Seq(X)
        BY <3>3
      <4> HIDE DEF start
      <4> QED
        BY <2>4, <3>2, <4>1, CompactConcat
    <3>6. compactSDPStr(front \o back) = compactSDPStr(front) \o compactSDPStr(back)
      BY <2>4, <3>2, CompactConcat
    <3>7. compactSDPStr(back) \in Seq(Y)
      BY <2>4, <3>2, CompactIs
    <3>8. compactSDPStr(text) = compactSDPStr(back)
      BY <2>4, <2>5, <3>6, <3>7, ConcatEmptySeq
    <3> QED
      BY <3>1, <3>4, <3>5, <3>8
  <2>7. next \in Restored(X) /\ next.sdp = new /\ next.mediaID = k
    <3> HIDE DEF new, text
    <3>1. Len(new) > 1 /\ new[1] = First /\ k \in Nat
      BY <1>1, <1>2, <2>3
    <3> QED
      BY <1>3, <2>1, <2>3, <3>1 DEF next
  <2> HIDE DEF new, text
  <2> QED
    BY <1>6, <2>3, <2>6, <2>7 DEF next, text, k, Added, Adds
<1>7. CASE line.field = "m"
  <2> DEFINE setup == Setup(isOffer)
             mid == Mid(k)
             section == <<line, setup, mid>>
             two == <<setup, mid>>
             new == text \o section
  <2>1. next = [sdp |-> new, mediaID |-> k + 1]
    BY <1>7 DEF Restore, Setup, Mid
  <2>2. setup \in MadeUp(isOffer) /\ mid \in MadeUp(isOffer)
    BY <1>1 DEF MadeUp
  <2>3. setup \in X /\ mid \in X /\ Dropped(setup) /\ Dropped(mid)
    BY <2>2, MadeUpIs
  <2> HIDE DEF setup, mid, next, k
  <2>4. section \in Seq(X) /\ ToSet(section) = {line, setup, mid} /\ Len(section) = 3
    BY <2>3 DEF ToSet
  <2>5. compactSDPStr(section) = Kept(line)
    <3> DEFINE a == <<setup>>
               b == <<mid>>
    <3>1. a \in Seq(X) /\ b \in Seq(X) /\ a \o b \in Seq(X)
      BY <2>3
    <3>2. compactSDPStr(a) = <<>> /\ compactSDPStr(b) = <<>>
      BY <2>3, CompactOne DEF Kept
    <3>3. section = one \o (a \o b)
      BY ThreeLines
    <3> HIDE DEF section, one, a, b, Y
    <3>4. {compactLine(x) : x \in X} \subseteq Y
      BY DEF Y
    <3>5. compactSDPStr(a \o b) = compactSDPStr(a) \o compactSDPStr(b)
      BY <3>1, <3>4, CompactConcat
    <3>6. compactSDPStr(a \o b) = <<>>
      BY <3>2, <3>5
    <3> DEFINE ab == a \o b
    <3>7. compactSDPStr(one \o ab) = compactSDPStr(one) \o compactSDPStr(ab)
      <4>1. ab \in Seq(X)
        BY <3>1
      <4> HIDE DEF ab
      <4> QED
        BY <1>5, <3>4, <4>1, CompactConcat
    <3> QED
      BY <1>4, <1>5, <3>3, <3>6, <3>7, ConcatEmptySeq
  <2> HIDE DEF section, text, one, Y
  <2>6. /\ new \in Seq(X) /\ Len(new) = Len(text) + Len(section) /\ ToSet(new) = ToSet(text) \cup ToSet(section)
        /\ new[1] = text[1]
        /\ compactSDPStr(new) = compactSDPStr(text) \o compactSDPStr(section)
    <3>1. text \in Seq(X) /\ section \in Seq(X) /\ {compactLine(x) : x \in X} \subseteq Y
      BY <1>1, <2>4 DEF Y
    <3>2. 1 \in 1 .. Len(text) + Len(section) /\ 1 <= Len(text)
      BY <1>1, <1>2, <2>4
    <3>3. new[1] = text[1]
      BY <3>1, <3>2, ConcatProperties
    <3> QED
      BY <3>1, <3>3, ConcatAdds, CompactConcat, ZenonT(60)
  <2>7. next \in Restored(X) /\ next.sdp = new /\ next.mediaID = k + 1
    <3> HIDE DEF new
    <3>1. Len(new) > 1 /\ new[1] = First /\ k + 1 \in Nat
      BY <1>1, <1>2, <2>4, <2>6
    <3> QED
      BY <1>3, <2>1, <2>6, <3>1 DEF next
  <2> HIDE DEF new
  <2> QED
    BY <1>7, <2>4, <2>5, <2>6, <2>7 DEF next, text, k, setup, mid, Added, Adds
<1>8. CASE line.field # "o" /\ line.field # "m"
  <2> DEFINE new == Append(text, line)
  <2>1. next = [sdp |-> new, mediaID |-> k]
    BY <1>1, <1>8 DEF Restore
  <2>2. new \in Seq(X) /\ ToSet(new) = ToSet(text) \cup {line} /\ new = text \o one
        /\ Len(new) = Len(text) + 1 /\ new[1] = text[1]
    <3>1. text \in Seq(X) /\ 1 \in 1 .. Len(text)
      BY <1>1, <1>2
    <3> HIDE DEF text
    <3> QED
      BY <3>1, AppendAdds, AppendProperties, AppendIsConcat
  <2> HIDE DEF next, new, text, k, one, Y
  <2>3. compactSDPStr(text \o one) = compactSDPStr(text) \o compactSDPStr(one)
    <3>1. text \in Seq(X) /\ one \in Seq(X) /\ {compactLine(x) : x \in X} \subseteq Y
      BY <1>1, <1>5 DEF Y
    <3> QED
      BY <3>1, CompactConcat
  <2>4. next \in Restored(X) /\ next.sdp = new /\ next.mediaID = k
    <3>1. Len(new) > 1 /\ new[1] = First /\ k \in Nat
      BY <1>1, <1>2, <2>2
    <3> QED
      BY <1>3, <2>1, <2>2, <3>1 DEF next
  <2> QED
    BY <1>5, <1>8, <2>2, <2>3, <2>4 DEF next, text, k, Added, Adds
<1> QED
  BY <1>6, <1>7, <1>8

(* The rounds, and what is made of them in the end.                        *)
IsRestoring(after, codes, isOffer, X) ==
    /\ after \in [0 .. Len(codes) -> Restored(X)]
    /\ after[0] = [sdp |-> Header, mediaID |-> 0]
    /\ \A i \in 1 .. Len(codes) :
          after[i] = Restore(after[i - 1], decompactLine(codes[i]), isOffer)

(* decompactSDPStr goes through such rounds, and adds the group.           *)
LEMMA RestoringIs ==
    ASSUME NEW C, NEW codes \in Seq(C), NEW isOffer, NEW X,
           {decompactLine(c) : c \in C} \subseteq X, ToSet(Header) \subseteq X, MadeUp(isOffer) \subseteq X
    PROVE  \E after :
              /\ IsRestoring(after, codes, isOffer, X)
              /\ LET all == after[Len(codes)]
                 IN  decompactSDPStr(codes, isOffer) = InsertAt(all.sdp, Len(all.sdp), Group(all.mediaID))
<1> DEFINE n == Len(codes)
           S == Restored(X)
           start == [sdp |-> Header, mediaID |-> 0]
           Step(acc, i) == Restore(acc, decompactLine(codes[i]), isOffer)
           Body(f) == [i \in 0 .. n |-> IF i = 0 THEN start ELSE Step(f[i - 1], i)]
           loop == CHOOSE f : f = Body(f)
<1>1. n \in Nat /\ DOMAIN codes = 1 .. n /\ \A i \in 1 .. n : codes[i] \in C
  BY LenProperties
<1>2. ASSUME NEW acc \in S, NEW i \in 1 .. n PROVE Step(acc, i) \in S
  <2>1. decompactLine(codes[i]) \in X
    BY <1>1
  <2> QED
    BY <2>1, RestoreAdds DEF Adds
<1>3. start \in S
  <2>0. Header \in Seq(X) /\ Len(Header) = 5 /\ Header[1] = First
    BY HeaderIs, SeqMonotonic
  <2>1. Header \in Seq(X) /\ Len(Header) > 1 /\ Header[1] = First /\ 0 \in Nat
    BY <2>0
  <2> QED
    BY <2>1, RestoredState
<1>4. \E f : f = Body(f)
  <2> DEFINE round == [p \in S \X (1 .. n) |-> Step(p[1], p[2])]
  <2>1. round \in [S \X (1 .. n) -> S]
    <3> HIDE DEF Step, S, n
    <3> QED
      BY <1>2
  <2>2. PICK f : IsLoop(f, n, S, start, round)
    <3> HIDE DEF round, S, n, start
    <3> QED
      BY <1>1, <1>3, <2>1, LoopEnds
  <2>3. ASSUME NEW i \in 1 .. n PROVE f[i] = Step(f[i - 1], i)
    <3>1. i - 1 \in 0 .. n
      BY <1>1
    <3>2. <<f[i - 1], i>> \in S \X (1 .. n)
      BY <2>2, <3>1 DEF IsLoop
    <3> HIDE DEF Step, S, n
    <3> QED
      BY <2>2, <3>2 DEF IsLoop
  <2>4. \A i \in 0 .. n : i = 0 \/ i \in 1 .. n
    BY <1>1
  <2>5. f = Body(f)
    <3> HIDE DEF Step, S, n, start
    <3> QED
      BY <2>2, <2>3, <2>4 DEF IsLoop
  <2> QED
    BY <2>5
<1>5. loop = Body(loop)
  <2> HIDE DEF Body
  <2> QED
    BY <1>4
<1>6. decompactSDPStr(codes, isOffer) = InsertAt(loop[n].sdp, Len(loop[n].sdp), Group(loop[n].mediaID))
  BY DEF decompactSDPStr, Group
<1> HIDE DEF loop
<1>7. loop[0] = start /\ \A i \in 1 .. n : loop[i] = Step(loop[i - 1], i)
  <2>1. \A i \in 1 .. n : i \in 0 .. n /\ i # 0
    BY <1>1
  <2>2. 0 \in 0 .. n
    BY <1>1
  <2> HIDE DEF Step, n, start
  <2> QED
    BY <1>5, <2>1, <2>2
<1> DEFINE T == {k \in Nat : k <= n => loop[k] \in S}
<1>8. 0 \in T
  BY <1>3, <1>7
<1>9. ASSUME NEW k \in T, k \in Nat PROVE k + 1 \in T
  <2>1. SUFFICES ASSUME k + 1 <= n PROVE loop[k + 1] \in S
    <3> HIDE DEF S, n
    <3> QED
      BY <1>9
  <2>2. loop[k] \in S
    <3> HIDE DEF S, n
    <3> QED
      BY <1>1, <1>9, <2>1
  <2>3. k + 1 \in 1 .. n /\ (k + 1) - 1 = k
    BY <1>1, <1>9, <2>1
  <2>4. loop[k + 1] = Step(loop[k], k + 1)
    <3> HIDE DEF Step, n
    <3> QED
      BY <1>7, <2>3
  <2> HIDE DEF Step, n, S
  <2> QED
    BY <1>2, <2>2, <2>3, <2>4
<1>10. Nat \subseteq T
  <2> HIDE DEF T
  <2> QED
    BY <1>8, <1>9, CountUp
<1>11. \A k \in 0 .. n : loop[k] \in S
  <2> SUFFICES ASSUME NEW k \in 0 .. n PROVE loop[k] \in S
    OBVIOUS
  <2>1. k \in Nat /\ k <= n
    BY <1>1
  <2>2. k \in T
    <3> HIDE DEF T
    <3> QED
      BY <1>10, <2>1
  <2> HIDE DEF S, n
  <2> QED
    BY <2>1, <2>2
<1>12. loop \in [0 .. n -> S]
  <2>1. loop = [i \in 0 .. n |-> loop[i]]
    <3> HIDE DEF Step, n, start
    <3> QED
      BY <1>5
  <2> HIDE DEF S, n
  <2> QED
    BY <1>11, <2>1
<1>13. IsRestoring(loop, codes, isOffer, X)
  <2> HIDE DEF S
  <2> QED
    BY <1>7, <1>12 DEF IsRestoring, S
<1> QED
  BY <1>6, <1>13

-----------------------------------------------------------------------------
(* The text that is restored, its lines and its codes.                     *)

(* Numbers of positions, one after the other.                              *)
LEMMA CountNext ==
    ASSUME NEW M, NEW k \in Nat
    PROVE  LET C(j) == Cardinality({i \in 1 .. j : i \in M})
           IN  /\ C(0) = 0 /\ C(k) \in Nat
               /\ C(k + 1) = IF k + 1 \in M THEN C(k) + 1 ELSE C(k)
<1> DEFINE P(j) == {i \in 1 .. j : i \in M}
<1>1. IsFiniteSet(P(k)) /\ Cardinality(P(k)) \in Nat
  <2>1. IsFiniteSet(1 .. k)
    BY FS_Interval
  <2>2. P(k) \in SUBSET (1 .. k)
    OBVIOUS
  <2>3. IsFiniteSet(P(k))
    BY <2>1, <2>2, FS_Subset
  <2> QED
    BY <2>3, FS_CardinalityType
<1>2. P(0) = {} /\ Cardinality({}) = 0
  BY FS_EmptySet
<1>3. CASE k + 1 \in M
  <2>1. P(k + 1) = P(k) \cup {k + 1} /\ k + 1 \notin P(k)
    BY <1>3
  <2> HIDE DEF P
  <2> QED
    BY <1>1, <1>2, <1>3, <2>1, FS_AddElement DEF P
<1>4. CASE k + 1 \notin M
  <2>1. P(k + 1) = P(k)
    BY <1>4
  <2> QED
    BY <1>1, <1>2, <1>4, <2>1
<1> QED
  BY <1>3, <1>4

(* The media lines among codes.                                            *)
Media(codes) == {i \in DOMAIN codes : decompactLine(codes[i]).field = "m"}

(* The usual lines are those that the rounds make up, and the group.       *)
LEMMA UsualLinesAre ==
    ASSUME NEW n \in Nat, NEW isOffer
    PROVE  UsualLines(n, isOffer) = Around(n, isOffer) \cup {Group(n)}
<1> DEFINE mids == [k \in 1 .. n |-> ToString(k - 1)]
           setup == Setup(isOffer)
<1>1. ToSet(mids) = {ToString(k - 1) : k \in 1 .. n}
  BY DEF ToSet
<1>2. UsualLines(n, isOffer) =
        ToSet(Header) \cup {setup : m \in ToSet(mids)} \cup {Line("a", "mid", <<m>>) : m \in ToSet(mids)}
            \cup {Group(n)}
  BY DEF UsualLines, Setup, Group
<1> HIDE DEF setup, mids
<1>3. {setup : m \in ToSet(mids)} = {setup : j \in 1 .. n}
  BY <1>1
<1>4. {Line("a", "mid", <<m>>) : m \in ToSet(mids)} = {Mid(j - 1) : j \in 1 .. n}
  BY <1>1 DEF Mid
<1> QED
  BY <1>2, <1>3, <1>4 DEF Around, setup

(* One section more.                                                       *)
LEMMA AroundNext ==
    ASSUME NEW n \in Nat, NEW isOffer
    PROVE  Around(n + 1, isOffer) = Around(n, isOffer) \cup {Setup(isOffer), Mid(n)}
<1>1. 1 .. n + 1 = (1 .. n) \cup {n + 1} /\ (n + 1) - 1 = n
  OBVIOUS
<1> DEFINE S(j) == Setup(isOffer)
           M(j) == Mid(j - 1)
<1>2. {S(j) : j \in 1 .. n + 1} = {S(j) : j \in 1 .. n} \cup {S(n + 1)}
  <2> HIDE DEF S
  <2> QED
    BY <1>1
<1>3. {M(j) : j \in 1 .. n + 1} = {M(j) : j \in 1 .. n} \cup {M(n + 1)}
  <2> HIDE DEF M
  <2> QED
    BY <1>1
<1>4. M(n + 1) = Mid(n)
  BY <1>1
<1> QED
  BY <1>2, <1>3, <1>4 DEF Around

(* The text that decompactSDPStr makes has exactly the usual lines of its  *)
(* sections and those that the codes stand for.                            *)
LEMMA RestoredLines ==
    ASSUME NEW C, NEW codes \in Seq(C), NEW isOffer
    PROVE  ToSet(decompactSDPStr(codes, isOffer)) =
              UsualLines(Cardinality(Media(codes)), isOffer)
                  \cup {decompactLine(c) : c \in ToSet(codes)}
<1> DEFINE n == Len(codes)
           Sent(k) == {decompactLine(codes[i]) : i \in 1 .. k}
           N(k) == Cardinality({i \in 1 .. k : i \in Media(codes)})
           X == {decompactLine(c) : c \in C} \cup ToSet(Header) \cup MadeUp(isOffer)
<1>1. n \in Nat /\ DOMAIN codes = 1 .. n /\ \A i \in 1 .. n : codes[i] \in C
  BY LenProperties
<1>2. {decompactLine(c) : c \in C} \subseteq X /\ ToSet(Header) \subseteq X /\ MadeUp(isOffer) \subseteq X
  OBVIOUS
<1> HIDE DEF X
<1>3. PICK after :
         /\ IsRestoring(after, codes, isOffer, X)
         /\ LET all == after[n]
            IN  decompactSDPStr(codes, isOffer) = InsertAt(all.sdp, Len(all.sdp), Group(all.mediaID))
  BY <1>2, RestoringIs
<1>4. /\ \A k \in 0 .. n : after[k] \in Restored(X)
      /\ after[0] = [sdp |-> Header, mediaID |-> 0]
      /\ \A i \in 1 .. n : after[i] = Restore(after[i - 1], decompactLine(codes[i]), isOffer)
  BY <1>3 DEF IsRestoring
<1>5. ASSUME NEW k \in Nat PROVE N(k) \in Nat
  BY CountNext
<1> DEFINE Text(k) == ToSet(after[k].sdp)
           T == {k \in Nat : k <= n =>
                    /\ after[k].mediaID = N(k)
                    /\ Text(k) = Around(N(k), isOffer) \cup Sent(k)}
<1>6. 0 \in T
  <2>1. after[0].mediaID = 0 /\ after[0].sdp = Header
    BY <1>4
  <2>2. N(0) = 0
    BY CountNext
  <2>3. Sent(0) = {} /\ Around(0, isOffer) = ToSet(Header)
    BY DEF Around
  <2> HIDE DEF N, Sent
  <2> QED
    BY <2>1, <2>2, <2>3
<1>7. ASSUME NEW k \in T, k \in Nat PROVE k + 1 \in T
  <2>1. SUFFICES ASSUME k + 1 <= n
                 PROVE  /\ after[k + 1].mediaID = N(k + 1)
                        /\ Text(k + 1) = Around(N(k + 1), isOffer) \cup Sent(k + 1)
    <3> HIDE DEF N, Text, n, Sent
    <3> QED
      BY <1>7
  <2>2. after[k].mediaID = N(k) /\ Text(k) = Around(N(k), isOffer) \cup Sent(k)
    <3> HIDE DEF N, Text, n, Sent
    <3> QED
      BY <1>1, <1>7, <2>1
  <2>3. k + 1 \in 1 .. n /\ (k + 1) - 1 = k /\ k \in 0 .. n
    BY <1>1, <1>7, <2>1
  <2> DEFINE line == decompactLine(codes[k + 1])
  <2>4. after[k + 1] = Restore(after[k], line, isOffer) /\ after[k] \in Restored(X) /\ line \in X
    <3>1. after[k + 1] = Restore(after[k], line, isOffer) /\ after[k] \in Restored(X)
      <4> HIDE DEF n
      <4> QED
        BY <1>4, <2>3
    <3>2. codes[k + 1] \in C
      <4> HIDE DEF n
      <4> QED
        BY <1>1, <2>3
    <3> QED
      BY <1>2, <3>1, <3>2
  <2>5. /\ after[k + 1].mediaID = IF line.field = "m" THEN N(k) + 1 ELSE N(k)
        /\ Text(k + 1) = Text(k) \cup {line} \cup (IF line.field = "m" THEN {Setup(isOffer), Mid(N(k))} ELSE {})
    <3> DEFINE acc == after[k]
    <3>1. MadeUp(isOffer) \subseteq X /\ acc \in Restored(X) /\ line \in X
      BY <1>2, <2>4
    <3> HIDE DEF acc, line, N
    <3>2. Adds(Restore(acc, line, isOffer), acc, line, isOffer, X)
      BY <3>1, RestoreAdds
    <3> QED
      BY <2>2, <2>4, <3>2 DEF acc, Added, Adds
  <2>6. Sent(k + 1) = Sent(k) \cup {line}
    <3>1. 1 .. k + 1 = (1 .. k) \cup {k + 1}
      BY <2>3
    <3> QED
      BY <3>1
  <2>7. k + 1 \in Media(codes) <=> line.field = "m"
    <3> HIDE DEF n
    <3> QED
      BY <1>1, <2>3 DEF Media
  <2>8. N(k + 1) = IF line.field = "m" THEN N(k) + 1 ELSE N(k)
    <3>1. N(k + 1) = IF k + 1 \in Media(codes) THEN N(k) + 1 ELSE N(k)
      BY <1>7, CountNext
    <3> HIDE DEF N, line
    <3> QED
      BY <2>7, <3>1
  <2>9. N(k) \in Nat
    BY <1>5, <2>3
  <2> HIDE DEF N, Text, line, Sent
  <2> QED
    BY <2>2, <2>5, <2>6, <2>8, <2>9, AroundNext
<1>8. n \in T
  <2> HIDE DEF T, n
  <2> QED
    BY <1>1, <1>6, <1>7, CountUp
<1>9. after[n].mediaID = N(n) /\ Text(n) = Around(N(n), isOffer) \cup Sent(n)
  <2> HIDE DEF N, Text, n, Sent
  <2> QED
    BY <1>1, <1>8
<1>10. N(n) = Cardinality(Media(codes)) /\ N(n) \in Nat
  <2>1. {i \in 1 .. n : i \in Media(codes)} = Media(codes)
    BY <1>1 DEF Media
  <2> QED
    BY <1>1, <1>5, <2>1
<1>11. Sent(n) = {decompactLine(c) : c \in ToSet(codes)}
  BY <1>1 DEF ToSet
<1> DEFINE text == after[n].sdp
           group == Group(N(n))
<1>12. ToSet(InsertAt(text, Len(text), group)) = ToSet(text) \cup {group}
  <2>1. text \in Seq(X) /\ Len(text) > 1
    <3>1. n \in 0 .. n
      BY <1>1
    <3> HIDE DEF n
    <3> QED
      BY <1>4, <3>1 DEF Restored
  <2> DEFINE G == X \cup {group}
  <2>2. text \in Seq(G) /\ group \in G
    <3>1. X \subseteq G
      OBVIOUS
    <3> HIDE DEF text
    <3> QED
      BY <2>1, <3>1, SeqMonotonic
  <2> HIDE DEF G, text, group
  <2>3. Len(text) \in 1 .. Len(text) + 1
    BY <2>1, LenProperties
  <2> QED
    BY <2>2, <2>3, InsertAdds
<1> HIDE DEF N, Sent
<1> QED
  BY <1>3, <1>9, <1>10, <1>11, <1>12, UsualLinesAre

(* The codes of the first k lines.                                         *)
CodesOf(lines, k) == compactSDPStr(SubSeq(lines, 1, k))

(* They grow by what is written for the next line.                         *)
LEMMA CodesNext ==
    ASSUME NEW X, NEW lines \in Seq(X)
    PROVE  /\ CodesOf(lines, 0) = <<>> /\ CodesOf(lines, Len(lines)) = compactSDPStr(lines)
           /\ \A k \in Nat : k + 1 <= Len(lines) =>
                 CodesOf(lines, k + 1) = CodesOf(lines, k) \o Kept(lines[k + 1])
           /\ \A k \in Nat : k <= Len(lines) =>
                 CodesOf(lines, k) \in Seq({compactLine(x) : x \in X})
<1> DEFINE Y == {compactLine(x) : x \in X}
<1>1. {compactLine(x) : x \in X} \subseteq Y /\ Len(lines) \in Nat
  BY LenProperties
<1>2. CodesOf(lines, 0) = <<>>
  <2>1. SubSeq(lines, 1, 0) = <<>>
    OBVIOUS
  <2> QED
    BY <2>1, CompactEmpty DEF CodesOf
<1>3. CodesOf(lines, Len(lines)) = compactSDPStr(lines)
  BY SubSeqFull DEF CodesOf
<1>4. ASSUME NEW k \in Nat, k <= Len(lines)
      PROVE  SubSeq(lines, 1, k) \in Seq(X) /\ CodesOf(lines, k) \in Seq(Y)
  <2>1. \A i \in 1 .. k : lines[i] \in X
    <3>1. \A i \in 1 .. k : i \in 1 .. Len(lines)
      BY <1>1, <1>4
    <3> QED
      BY <3>1, LenProperties
  <2>2. SubSeq(lines, 1, k) \in Seq(X)
    BY <2>1, SubSeqProperties
  <2> HIDE DEF Y
  <2> QED
    BY <1>1, <2>2, CompactIs DEF CodesOf
<1>5. ASSUME NEW k \in Nat, k + 1 <= Len(lines)
      PROVE  CodesOf(lines, k + 1) = CodesOf(lines, k) \o Kept(lines[k + 1])
  <2> DEFINE p == SubSeq(lines, 1, k)
             one == <<lines[k + 1]>>
  <2>1. SubSeq(lines, 1, k + 1) = p \o one
    <3>1. 1 \in 1 .. Len(lines) /\ k + 1 \in 1 .. Len(lines) /\ (k + 1) - 1 = k
      BY <1>1, <1>5
    <3> QED
      BY <3>1, SubSeqRecursiveSecond
  <2>2. one \in Seq(X)
    <3>1. k + 1 \in 1 .. Len(lines)
      BY <1>1, <1>5
    <3> QED
      BY <3>1, LenProperties
  <2>3. p \in Seq(X)
    BY <1>1, <1>4, <1>5
  <2>4. compactSDPStr(one) = Kept(lines[k + 1])
    BY CompactOne
  <2> HIDE DEF p, one, Y
  <2>5. compactSDPStr(p \o one) = compactSDPStr(p) \o compactSDPStr(one)
    BY <1>1, <2>2, <2>3, CompactConcat
  <2> QED
    BY <2>1, <2>4, <2>5 DEF CodesOf, p
<1> QED
  BY <1>2, <1>3, <1>4, <1>5

(* All lines of the header are dropped.                                    *)
LEMMA HeaderIsDropped == compactSDPStr(Header) = <<>>
<1> DEFINE X == ToSet(Header)
           T == {k \in Nat : k <= 5 => CodesOf(Header, k) = <<>>}
<1>1. Header \in Seq(X) /\ Len(Header) = 5 /\ \A x \in X : Dropped(x)
  BY HeaderIs
<1> HIDE DEF X
<1>2. 0 \in T
  BY <1>1, CodesNext
<1>3. ASSUME NEW k \in T, k \in Nat PROVE k + 1 \in T
  <2>1. SUFFICES ASSUME k + 1 <= 5 PROVE CodesOf(Header, k + 1) = <<>>
    BY <1>3
  <2>2. CodesOf(Header, k) = <<>>
    BY <1>3, <2>1
  <2>3. CodesOf(Header, k + 1) = CodesOf(Header, k) \o Kept(Header[k + 1])
    BY <1>1, <1>3, <2>1, CodesNext
  <2>4. Kept(Header[k + 1]) = <<>>
    <3>1. k + 1 \in 1 .. Len(Header)
      BY <1>1, <1>3, <2>1
    <3>2. Header[k + 1] \in X
      BY <1>1, <3>1, LenProperties
    <3> QED
      BY <1>1, <3>2 DEF Kept
  <2>5. <<>> \o <<>> = <<>>
    OBVIOUS
  <2> QED
    BY <2>2, <2>3, <2>4, <2>5
<1>4. 5 \in T
  <2> HIDE DEF T
  <2> QED
    BY <1>2, <1>3, CountUp
<1>5. CodesOf(Header, Len(Header)) = compactSDPStr(Header)
  BY <1>1, CodesNext
<1>6. CodesOf(Header, 5) = <<>>
  BY <1>4
<1> QED
  BY <1>1, <1>5, <1>6

(* If the codes have one origin, in the first place, and each is the code  *)
(* of the line it stands for, then the text has these codes again.         *)
LEMMA RestoredAgain ==
    ASSUME NEW C, NEW codes \in Seq(C), NEW isOffer,
           \A i \in DOMAIN codes :
              /\ ~Dropped(decompactLine(codes[i])) /\ compactLine(decompactLine(codes[i])) = codes[i]
              /\ decompactLine(codes[i]).field = "o" => i = 1
    PROVE  /\ compactSDPStr(decompactSDPStr(codes, isOffer)) = codes
           /\ decompactSDPStr(codes, isOffer) # <<>>
           /\ decompactSDPStr(codes, isOffer)[1] = First
<1> DEFINE n == Len(codes)
           X == {decompactLine(c) : c \in C} \cup ToSet(Header) \cup MadeUp(isOffer)
           Y == {compactLine(x) : x \in X \cup {Group(j) : j \in Nat}}
<1>1. n \in Nat /\ DOMAIN codes = 1 .. n /\ \A i \in 1 .. n : codes[i] \in C
  BY LenProperties
<1>2. /\ {decompactLine(c) : c \in C} \subseteq X /\ ToSet(Header) \subseteq X /\ MadeUp(isOffer) \subseteq X
      /\ {compactLine(x) : x \in X} \subseteq Y
  OBVIOUS
<1> HIDE DEF X, Y
<1>3. PICK after :
         /\ IsRestoring(after, codes, isOffer, X)
         /\ LET all == after[n]
            IN  decompactSDPStr(codes, isOffer) = InsertAt(all.sdp, Len(all.sdp), Group(all.mediaID))
  BY <1>2, RestoringIs
<1>4. /\ \A k \in 0 .. n : after[k] \in Restored(X)
      /\ after[0] = [sdp |-> Header, mediaID |-> 0]
      /\ \A i \in 1 .. n : after[i] = Restore(after[i - 1], decompactLine(codes[i]), isOffer)
  BY <1>3 DEF IsRestoring
<1> DEFINE K(k) == compactSDPStr(after[k].sdp)
           T == {k \in Nat : k <= n => K(k) = SubSeq(codes, 1, k)}
<1>5. 0 \in T
  <2>1. after[0].sdp = Header
    BY <1>4
  <2>2. compactSDPStr(Header) = <<>>
    BY HeaderIsDropped
  <2>3. SubSeq(codes, 1, 0) = <<>>
    OBVIOUS
  <2> QED
    BY <2>1, <2>2, <2>3
<1>6. ASSUME NEW k \in T, k \in Nat PROVE k + 1 \in T
  <2>1. SUFFICES ASSUME k + 1 <= n PROVE K(k + 1) = SubSeq(codes, 1, k + 1)
    <3> HIDE DEF K, n
    <3> QED
      BY <1>6
  <2>2. K(k) = SubSeq(codes, 1, k)
    <3> HIDE DEF K, n
    <3> QED
      BY <1>1, <1>6, <2>1
  <2>3. k + 1 \in 1 .. n /\ (k + 1) - 1 = k /\ k \in 0 .. n
    BY <1>1, <1>6, <2>1
  <2> DEFINE line == decompactLine(codes[k + 1])
  <2>4. after[k + 1] = Restore(after[k], line, isOffer) /\ after[k] \in Restored(X) /\ line \in X
    <3>1. after[k + 1] = Restore(after[k], line, isOffer) /\ after[k] \in Restored(X)
      <4> HIDE DEF n
      <4> QED
        BY <1>4, <2>3
    <3>2. codes[k + 1] \in C
      <4> HIDE DEF n
      <4> QED
        BY <1>1, <2>3
    <3> QED
      BY <1>2, <3>1, <3>2
  <2>5. Kept(line) = <<codes[k + 1]>> /\ (line.field = "o" => k = 0)
    <3>1. k + 1 \in DOMAIN codes
      BY <1>1, <2>3
    <3>2. /\ ~Dropped(line) /\ compactLine(line) = codes[k + 1]
          /\ line.field = "o" => k + 1 = 1
      BY <3>1
    <3> HIDE DEF line
    <3> QED
      BY <1>6, <3>2 DEF Kept
  <2>6. /\ line.field = "o" => K(k + 1) = Kept(line) \o K(k)
        /\ line.field # "o" => K(k + 1) = K(k) \o Kept(line)
    <3> DEFINE acc == after[k]
    <3>1. MadeUp(isOffer) \subseteq X /\ acc \in Restored(X) /\ line \in X
      BY <1>2, <2>4
    <3> HIDE DEF acc, line
    <3>2. Adds(Restore(acc, line, isOffer), acc, line, isOffer, X)
      BY <3>1, RestoreAdds
    <3> QED
      BY <2>4, <3>2 DEF acc, Adds
  <2>7. SubSeq(codes, 1, k + 1) = SubSeq(codes, 1, k) \o <<codes[k + 1]>>
    <3>1. 1 \in 1 .. Len(codes) /\ k + 1 \in 1 .. Len(codes) /\ (k + 1) - 1 = k
      BY <1>1, <2>3
    <3> QED
      BY <3>1, SubSeqRecursiveSecond
  <2>8. CASE k = 0
    <3>1. K(k) = <<>>
      <4>1. SubSeq(codes, 1, 0) = <<>>
        OBVIOUS
      <4> HIDE DEF K
      <4> QED
        BY <2>2, <2>8, <4>1
    <3>2. codes[k + 1] \in C
      BY <1>1, <2>3
    <3>3. <<>> \o <<codes[k + 1]>> = <<codes[k + 1]>> /\ <<codes[k + 1]>> \o <<>> = <<codes[k + 1]>>
      BY <3>2
    <3>4. K(k + 1) = <<codes[k + 1]>>
      <4> HIDE DEF K, line
      <4> QED
        BY <2>5, <2>6, <3>1, <3>3
    <3> HIDE DEF K, line
    <3> QED
      BY <2>2, <2>7, <3>1, <3>3, <3>4
  <2>9. CASE k # 0
    <3> HIDE DEF K, line
    <3> QED
      BY <2>2, <2>5, <2>6, <2>7, <2>9
  <2> QED
    BY <2>8, <2>9
<1>7. n \in T
  <2> HIDE DEF T, n
  <2> QED
    BY <1>1, <1>5, <1>6, CountUp
<1>8. K(n) = codes
  <2>1. K(n) = SubSeq(codes, 1, n)
    <3> HIDE DEF K, n
    <3> QED
      BY <1>1, <1>7
  <2> QED
    BY <2>1, SubSeqFull
<1> DEFINE text == after[n].sdp
           group == Group(after[n].mediaID)
           front == SubSeq(text, 1, Len(text) - 1)
           last == SubSeq(text, Len(text), Len(text))
           one == <<group>>
           Z == X \cup {group}
           W == {compactLine(x) : x \in Z}
<1>9. text \in Seq(X) /\ Len(text) > 1 /\ text[1] = First
  <2>1. n \in 0 .. n
    BY <1>1
  <2> HIDE DEF n
  <2> QED
    BY <1>4, <2>1 DEF Restored
<1>10. decompactSDPStr(codes, isOffer) = InsertAt(text, Len(text), group)
  BY <1>3
<1>11. Dropped(group)
  BY MadeUpIs
<1> HIDE DEF text, group
<1>12. text \in Seq(Z) /\ group \in Z /\ {compactLine(x) : x \in Z} \subseteq W
  BY <1>9, SeqMonotonic
<1> HIDE DEF Z, W
<1>13. Len(text) \in Nat
  BY <1>9, LenProperties
<1>14. InsertAt(text, Len(text), group) = (front \o one) \o last
  BY SMTT(40) DEF InsertAt
<1>15. front \in Seq(Z) /\ last \in Seq(Z) /\ one \in Seq(Z) /\ front \o last = text
  <2>1. SubSeq(text, 1, Len(text) - 1) \o SubSeq(text, (Len(text) - 1) + 1, Len(text)) =
          SubSeq(text, 1, Len(text))
    <3>1. /\ 1 \in 1 .. Len(text) + 1 /\ Len(text) - 1 \in 1 - 1 .. Len(text)
          /\ Len(text) \in Len(text) - 1 .. Len(text)
      BY <1>9, <1>13
    <3> QED
      BY <1>12, <3>1, ConcatAdjacentSubSeq
  <2>2. (Len(text) - 1) + 1 = Len(text) /\ SubSeq(text, 1, Len(text)) = text
    BY <1>12, <1>13, SubSeqFull
  <2>3. front \in Seq(Z) /\ last \in Seq(Z)
    BY <1>9, <1>12, <1>13
  <2>4. one \in Seq(Z)
    BY <1>12
  <2>5. front \o last = SubSeq(text, 1, Len(text))
    <3>1. last = SubSeq(text, (Len(text) - 1) + 1, Len(text))
      BY <2>2
    <3> HIDE DEF last
    <3> QED
      BY <2>1, <3>1
  <2> HIDE DEF front, last
  <2> QED
    BY <2>2, <2>3, <2>4, <2>5
<1>16. compactSDPStr(one) = <<>>
  BY <1>11, CompactOne DEF Kept
<1> HIDE DEF front, last, one
<1>17. compactSDPStr((front \o one) \o last) = compactSDPStr(text)
  <2> DEFINE start == front \o one
  <2>1. start \in Seq(Z) /\ compactSDPStr(start) = compactSDPStr(front) \o compactSDPStr(one)
    BY <1>12, <1>15, CompactConcat, ConcatProperties
  <2>2. compactSDPStr(front) \in Seq(W)
    BY <1>12, <1>15, CompactIs
  <2>3. compactSDPStr(start) = compactSDPStr(front)
    BY <1>16, <2>1, <2>2, ConcatEmptySeq
  <2> HIDE DEF start
  <2>4. compactSDPStr(start \o last) = compactSDPStr(start) \o compactSDPStr(last)
    BY <1>12, <1>15, <2>1, CompactConcat
  <2>5. compactSDPStr(front \o last) = compactSDPStr(front) \o compactSDPStr(last)
    BY <1>12, <1>15, CompactConcat
  <2> QED
    BY <1>15, <2>3, <2>4, <2>5 DEF start
<1>18. InsertAt(text, Len(text), group)[1] = First /\ InsertAt(text, Len(text), group) # <<>>
  <2>1. Len(text) \in 2 .. Len(text) + 1 /\ Len(text) \in 1 .. Len(text) + 1
    BY <1>9, <1>13
  <2> QED
    BY <1>9, <1>12, <2>1, InsertKeepsFirst, InsertAdds
<1> QED
  BY <1>8, <1>10, <1>14, <1>17, <1>18 DEF text

-----------------------------------------------------------------------------
(* The codes of a description.                                             *)

(* One code more.                                                          *)
LEMMA MediaNext ==
    ASSUME NEW C, NEW codes \in Seq(C), NEW c \in C
    PROVE  /\ Cardinality(Media(codes)) \in Nat
           /\ Cardinality(Media(codes \o <<c>>)) =
                 IF decompactLine(c).field = "m" THEN Cardinality(Media(codes)) + 1
                 ELSE Cardinality(Media(codes))
<1> DEFINE n == Len(codes)
           more == codes \o <<c>>
           M == Media(codes)
<1>1. n \in Nat /\ DOMAIN codes = 1 .. n
  BY LenProperties
<1>2. DOMAIN more = 1 .. n + 1 /\ more[n + 1] = c /\ \A i \in 1 .. n : more[i] = codes[i]
  <2>1. <<c>> \in Seq(C) /\ Len(<<c>>) = 1
    OBVIOUS
  <2>2. /\ more \in Seq(C) /\ Len(more) = n + 1
        /\ \A i \in 1 .. n + 1 : more[i] = IF i <= n THEN codes[i] ELSE <<c>>[i - n]
    BY <2>1, ConcatProperties
  <2>3. more[n + 1] = <<c>>[(n + 1) - n] /\ (n + 1) - n = 1
    <3> HIDE DEF more
    <3> QED
      BY <1>1, <2>2
  <2>4. DOMAIN more = 1 .. n + 1
    BY <2>2, LenProperties
  <2> HIDE DEF more
  <2> QED
    BY <1>1, <2>2, <2>3, <2>4
<1>3. IsFiniteSet(M) /\ Cardinality(M) \in Nat
  <2>1. IsFiniteSet(1 .. n)
    BY <1>1, FS_Interval
  <2>2. M \in SUBSET (1 .. n)
    BY <1>1 DEF Media
  <2>3. IsFiniteSet(M)
    BY <2>1, <2>2, FS_Subset
  <2> QED
    BY <2>3, FS_CardinalityType
<1>4. CASE decompactLine(c).field = "m"
  <2>1. Media(more) = M \cup {n + 1} /\ n + 1 \notin M
    <3> HIDE DEF more, n
    <3> QED
      BY <1>1, <1>2, <1>4 DEF Media
  <2> HIDE DEF M
  <2> QED
    BY <1>3, <1>4, <2>1, FS_AddElement DEF M
<1>5. CASE decompactLine(c).field # "m"
  <2>1. Media(more) = M
    <3> HIDE DEF more, n
    <3> QED
      BY <1>1, <1>2, <1>5 DEF Media
  <2> QED
    BY <1>3, <1>5, <2>1
<1> QED
  BY <1>3, <1>4, <1>5

(* The lines that are not dropped.                                         *)
KeptOf(lines) == {line \in ToSet(lines) : ~Dropped(line)}

(* The codes of a description are those of the lines that are kept, no     *)
(* section is lost, and the origin is the first.                           *)
CodesSo(codes, kept, sections) ==
    /\ ToSet(codes) = {compactLine(line) : line \in kept}
    /\ Cardinality(Media(codes)) = sections
    /\ \A j \in DOMAIN codes : decompactLine(codes[j]).field = "o" => j = 1

(* The codes of a description are those of the lines that are kept, as     *)
(* above.                                                                  *)
LEMMA CodesAre ==
    ASSUME NEW lines \in Seq(Lines), IsDescription(lines), lines[1] = First
    PROVE  /\ compactSDPStr(lines) \in Seq({compactLine(x) : x \in ToSet(lines)})
           /\ CodesSo(compactSDPStr(lines), KeptOf(lines), Sections(lines))
<1> DEFINE n == Len(lines)
           X == ToSet(lines)
           C == {compactLine(x) : x \in X}
           M == {i \in DOMAIN lines : lines[i].field = "m"}
           N(k) == Cardinality({i \in 1 .. k : i \in M})
           KeptTo(k) == {x \in X : ~Dropped(x) /\ \E i \in 1 .. k : lines[i] = x}
           codes(k) == CodesOf(lines, k)
           T == {k \in Nat : k <= n => CodesSo(codes(k), KeptTo(k), N(k)) /\ (k <= 1 => codes(k) = <<>>)}
<1>1. /\ n \in Nat /\ DOMAIN lines = 1 .. n /\ lines \in Seq(X)
      /\ \A i \in 1 .. n : lines[i] \in X /\ lines[i] \in Lines
  BY LenProperties DEF ToSet
<1>2. \A i \in 1 .. n : IsLine(lines[i]) /\ (lines[i].field = "o" <=> i = 2)
  BY <1>1 DEF IsDescription
<1>3. /\ codes(0) = <<>> /\ codes(n) = compactSDPStr(lines)
      /\ \A k \in Nat : k + 1 <= n => codes(k + 1) = codes(k) \o Kept(lines[k + 1])
      /\ \A k \in Nat : k <= n => codes(k) \in Seq(C)
  <2> HIDE DEF X
  <2> QED
    BY <1>1, CodesNext
<1> HIDE DEF n
<1>4. 0 \in T
  <2>1. ToSet(<<>>) = {} /\ DOMAIN <<>> = {}
    BY DEF ToSet
  <2>2. Media(<<>>) = {}
    BY <2>1 DEF Media
  <2>3. KeptTo(0) = {} /\ N(0) = 0 /\ Cardinality({}) = 0
    BY CountNext, FS_EmptySet
  <2> HIDE DEF N, codes, KeptTo
  <2> QED
    BY <1>3, <2>1, <2>2, <2>3 DEF CodesSo
<1>5. ASSUME NEW k \in T, k \in Nat PROVE k + 1 \in T
  <2>1. SUFFICES ASSUME k + 1 <= n
                 PROVE  CodesSo(codes(k + 1), KeptTo(k + 1), N(k + 1)) /\ (k + 1 <= 1 => codes(k + 1) = <<>>)
    <3> HIDE DEF N, codes, KeptTo
    <3> QED
      BY <1>5
  <2> DEFINE line == lines[k + 1]
  <2>2. CodesSo(codes(k), KeptTo(k), N(k)) /\ (k <= 1 => codes(k) = <<>>)
    <3> HIDE DEF N, codes, KeptTo
    <3> QED
      BY <1>1, <1>5, <2>1
  <2>3. k + 1 \in 1 .. n /\ k \in 0 .. n
    BY <1>1, <1>5, <2>1
  <2>4. line \in X /\ line \in Lines /\ IsLine(line) /\ (line.field = "o" <=> k + 1 = 2)
    BY <1>1, <1>2, <2>3
  <2>5. codes(k) \in Seq(C) /\ codes(k + 1) = codes(k) \o Kept(line)
    <3>1. k <= n
      BY <1>1, <1>5, <2>1
    <3> HIDE DEF codes, C
    <3> QED
      BY <1>3, <1>5, <2>1, <3>1
  <2>6. k + 1 \in M <=> line.field = "m"
    BY <1>1, <2>3
  <2>7. N(k + 1) = IF line.field = "m" THEN N(k) + 1 ELSE N(k)
    <3>1. N(k + 1) = IF k + 1 \in M THEN N(k) + 1 ELSE N(k)
      <4> HIDE DEF M
      <4> QED
        BY <1>5, CountNext
    <3> HIDE DEF N, line, M
    <3> QED
      BY <2>6, <3>1
  <2>8. KeptTo(k + 1) = KeptTo(k) \cup (IF Dropped(line) THEN {} ELSE {line})
    <3>1. 1 .. k + 1 = (1 .. k) \cup {k + 1}
      BY <2>3
    <3> HIDE DEF X
    <3> QED
      BY <2>4, <3>1
  <2>9. k = 0 => Dropped(line)
    <3>1. Dropped(First)
      BY HeaderIs
    <3> QED
      BY <3>1
  <2> HIDE DEF codes, KeptTo, N, M, line, X, C
  <2>10. CASE Dropped(line)
    <3>1. line.field # "m"
      BY <2>10 DEF Dropped
    <3>2. codes(k + 1) = codes(k)
      BY <2>5, <2>10, ConcatEmptySeq DEF Kept
    <3>3. KeptTo(k + 1) = KeptTo(k) /\ N(k + 1) = N(k)
      BY <2>7, <2>8, <2>10, <3>1
    <3> QED
      BY <1>5, <2>2, <3>2, <3>3
  <2>11. CASE ~Dropped(line)
    <3> DEFINE c == compactLine(line)
               old == codes(k)
    <3>1. codes(k + 1) = old \o <<c>> /\ k # 0
      BY <2>5, <2>9, <2>11 DEF Kept
    <3>2. c \in C
      BY <2>4 DEF C
    <3>3. decompactLine(c).field = line.field
      <4>1. Back(line).field = line.field
        BY <2>4, LineComesBack
      <4> QED
        BY <4>1 DEF Back
    <3> HIDE DEF c
    <3>4. ToSet(codes(k + 1)) = ToSet(old) \cup {c}
      <4> DEFINE one == <<c>>
      <4>1. one \in Seq(C) /\ ToSet(one) = {c}
        BY <3>2 DEF ToSet
      <4>2. old \in Seq(C) /\ codes(k + 1) = old \o one
        BY <2>5, <3>1
      <4> HIDE DEF old, one
      <4>3. ToSet(old \o one) = ToSet(old) \cup ToSet(one)
        BY <4>1, <4>2, ConcatAdds
      <4> QED
        BY <4>1, <4>2, <4>3
    <3>5. ToSet(codes(k + 1)) = {compactLine(x) : x \in KeptTo(k + 1)}
      <4>1. KeptTo(k + 1) = KeptTo(k) \cup {line}
        BY <2>8, <2>11
      <4>2. ToSet(old) = {compactLine(x) : x \in KeptTo(k)}
        BY <2>2 DEF CodesSo
      <4> QED
        BY <3>4, <4>1, <4>2 DEF c
    <3>6. Cardinality(Media(codes(k + 1))) = N(k + 1)
      <4>1. /\ Cardinality(Media(old)) \in Nat
            /\ Cardinality(Media(old \o <<c>>)) =
                  IF decompactLine(c).field = "m" THEN Cardinality(Media(old)) + 1
                  ELSE Cardinality(Media(old))
        BY <2>5, <3>2, MediaNext
      <4>2. Cardinality(Media(old)) = N(k)
        BY <2>2 DEF CodesSo
      <4> QED
        BY <2>7, <3>1, <3>3, <4>1, <4>2
    <3>7. ASSUME NEW j \in DOMAIN codes(k + 1), decompactLine(codes(k + 1)[j]).field = "o" PROVE j = 1
      <4> HIDE DEF old
      <4>1. Len(old) \in Nat /\ DOMAIN old = 1 .. Len(old) /\ old \in Seq(C)
        BY <2>5, LenProperties DEF old
      <4>2. /\ DOMAIN (old \o <<c>>) = 1 .. Len(old) + 1
            /\ \A i \in 1 .. Len(old) + 1 :
                  (old \o <<c>>)[i] = IF i <= Len(old) THEN old[i] ELSE c
        <5> DEFINE more == old \o <<c>>
        <5>1. <<c>> \in Seq(C) /\ Len(<<c>>) = 1 /\ <<c>>[1] = c
          BY <3>2
        <5>2. /\ more \in Seq(C) /\ Len(more) = Len(old) + 1
              /\ \A i \in 1 .. Len(old) + 1 : more[i] = IF i <= Len(old) THEN old[i] ELSE <<c>>[i - Len(old)]
          BY <4>1, <5>1, ConcatProperties
        <5>3. \A i \in 1 .. Len(old) + 1 : i <= Len(old) \/ i - Len(old) = 1
          BY <4>1
        <5>4. DOMAIN more = 1 .. Len(old) + 1
          BY <5>2, LenProperties
        <5> HIDE DEF more
        <5> QED
          BY <5>1, <5>2, <5>3, <5>4 DEF more
      <4>3. CASE j \in 1 .. Len(old)
        <5>1. codes(k + 1)[j] = old[j]
          BY <3>1, <4>1, <4>2, <4>3
        <5>2. \A i \in DOMAIN old : decompactLine(old[i]).field = "o" => i = 1
          BY <2>2 DEF CodesSo, old
        <5> QED
          BY <3>7, <4>1, <4>3, <5>1, <5>2
      <4>4. CASE j = Len(old) + 1
        <5>1. codes(k + 1)[j] = c
          BY <3>1, <4>1, <4>2, <4>4
        <5>2. k = 1
          BY <1>5, <2>4, <3>3, <3>7, <5>1
        <5>3. old = <<>>
          BY <2>2, <5>2 DEF old
        <5> QED
          BY <4>4, <5>3
      <4> QED
        BY <3>1, <3>7, <4>1, <4>2, <4>3, <4>4
    <3> QED
      BY <1>5, <3>1, <3>5, <3>6, <3>7 DEF CodesSo
  <2> QED
    BY <2>10, <2>11
<1>6. n \in T
  <2> HIDE DEF T
  <2> QED
    BY <1>1, <1>4, <1>5, CountUp
<1>7. CodesSo(codes(n), KeptTo(n), N(n))
  <2> HIDE DEF codes, KeptTo, N
  <2> QED
    BY <1>1, <1>6
<1>8. KeptTo(n) = KeptOf(lines)
  BY <1>1 DEF KeptOf, ToSet
<1>9. N(n) = Sections(lines)
  <2>1. {i \in 1 .. n : i \in M} = M
    BY <1>1
  <2> QED
    BY <2>1 DEF Sections
<1>10. codes(n) \in Seq(C)
  <2> HIDE DEF codes, C
  <2> QED
    BY <1>1, <1>3
<1> HIDE DEF codes, KeptTo, N
<1> QED
  BY <1>3, <1>7, <1>8, <1>9, <1>10

-----------------------------------------------------------------------------
(* What compareStringArrays says of what comes back.                       *)

(* A description whose codes are restored.                                 *)
LEMMA DescriptionBack ==
    ASSUME NEW lines \in Seq(Lines), IsDescription(lines), lines[1] = First, NEW isOffer
    PROVE  LET codes == compactSDPStr(lines)
               text == decompactSDPStr(codes, isOffer)
           IN  /\ ToSet(text) = UsualLines(Sections(lines), isOffer)
                                   \cup {Back(line) : line \in KeptOf(lines)}
               /\ compactSDPStr(text) = codes
               /\ text # <<>> /\ text[1] = First
<1> DEFINE codes == compactSDPStr(lines)
           C == {compactLine(x) : x \in ToSet(lines)}
<1>1. codes \in Seq(C) /\ CodesSo(codes, KeptOf(lines), Sections(lines))
  BY CodesAre
<1>2. ASSUME NEW line \in KeptOf(lines)
      PROVE  /\ decompactLine(compactLine(line)) = Back(line)
             /\ Back(line).field = line.field /\ ~Dropped(Back(line))
             /\ compactLine(Back(line)) = compactLine(line)
  <2>1. line \in Lines /\ IsLine(line) /\ ~Dropped(line)
    BY DEF KeptOf, ToSet, IsDescription
  <2>2. /\ Back(line).field = line.field /\ Back(line).attr = line.attr
        /\ compactLine(Back(line)) = compactLine(line)
    BY <2>1, LineComesBack
  <2> QED
    BY <2>1, <2>2 DEF Dropped, Back
<1> HIDE DEF codes, C
<1>3. {decompactLine(c) : c \in ToSet(codes)} = {Back(line) : line \in KeptOf(lines)}
  <2>1. ToSet(codes) = {compactLine(line) : line \in KeptOf(lines)}
    BY <1>1 DEF CodesSo
  <2> QED
    BY <1>2, <2>1
<1>4. ASSUME NEW i \in DOMAIN codes
      PROVE  /\ ~Dropped(decompactLine(codes[i])) /\ compactLine(decompactLine(codes[i])) = codes[i]
             /\ decompactLine(codes[i]).field = "o" => i = 1
  <2>1. codes[i] \in ToSet(codes)
    BY DEF ToSet
  <2>2. PICK line \in KeptOf(lines) : codes[i] = compactLine(line)
    BY <1>1, <2>1 DEF CodesSo
  <2> QED
    BY <1>1, <1>2, <2>2 DEF CodesSo
<1>5. /\ compactSDPStr(decompactSDPStr(codes, isOffer)) = codes
      /\ decompactSDPStr(codes, isOffer) # <<>>
      /\ decompactSDPStr(codes, isOffer)[1] = First
  BY <1>1, <1>4, RestoredAgain
<1>6. ToSet(decompactSDPStr(codes, isOffer)) =
        UsualLines(Cardinality(Media(codes)), isOffer) \cup {decompactLine(c) : c \in ToSet(codes)}
  BY <1>1, RestoredLines
<1>7. Cardinality(Media(codes)) = Sections(lines)
  BY <1>1 DEF CodesSo
<1> QED
  BY <1>3, <1>5, <1>6, <1>7 DEF codes

-----------------------------------------------------------------------------
(* Lines that compareStringArrays cannot tell apart.                       *)
IsRecord(x) == x = Line(x.field, x.attr, x.words)

(* Lower changes the words of a line only.                                 *)
LEMMA LowerIs ==
    ASSUME NEW x, IsRecord(x)
    PROVE  /\ Lower(x) = Line(x.field, x.attr, Lows(x.words))
           /\ Lower(x).field = x.field /\ Lower(x).attr = x.attr /\ Lower(x).words = Lows(x.words)
<1> DEFINE f == x.field
           a == x.attr
           w == x.words
           y == Line(f, a, w)
<1>1. x = y /\ y.words = w
  BY LineHas DEF IsRecord
<1>2. Lower(y) = Line(f, a, Lows(w))
  <2>1. Lower(y) = [y EXCEPT !.words = Lows(w)]
    BY <1>1 DEF Lower, Lows
  <2> QED
    BY <2>1 DEF Line
<1> HIDE DEF f, a, w, y
<1>3. Lower(x) = Line(f, a, Lows(w))
  BY <1>1, <1>2
<1> QED
  BY <1>3, LineHas DEF f, a, w

(* Words that are the same up to case.                                     *)
LEMMA LowsAre ==
    ASSUME NEW v, NEW w, Lows(v) = Lows(w)
    PROVE  DOMAIN v = DOMAIN w /\ \A i \in DOMAIN w : LowerCase(v[i]) = LowerCase(w[i])
<1>1. DOMAIN Lows(v) = DOMAIN v /\ DOMAIN Lows(w) = DOMAIN w
  BY DEF Lows
<1>2. /\ \A i \in DOMAIN v : Lows(v)[i] = LowerCase(v[i])
      /\ \A i \in DOMAIN w : Lows(w)[i] = LowerCase(w[i])
  BY DEF Lows
<1> QED
  BY <1>1, <1>2

(* The last two words of an origin.                                        *)
LEMMA LastTwo ==
    ASSUME NEW X, NEW v \in Seq(X), Len(v) = 6
    PROVE  SubSeq(v, 5, 6) = <<v[5], v[6]>>
<1> DEFINE s == SubSeq(v, 5, 6)
           t == <<v[5], v[6]>>
<1>1. \A i \in 1 .. 6 : v[i] \in X
  BY LenProperties
<1>2. s \in Seq(X) /\ Len(s) = 2 /\ s[1] = v[5] /\ s[2] = v[6]
  <2>1. \A i \in 5 .. 6 : v[i] \in X
    BY <1>1
  <2>2. s \in Seq(X) /\ Len(s) = 6 - 5 + 1 /\ \A i \in 1 .. 6 - 5 + 1 : s[i] = v[5 + i - 1]
    BY <2>1, SubSeqProperties
  <2> HIDE DEF s
  <2> QED
    BY <2>2
<1>3. t \in Seq(X) /\ Len(t) = 2 /\ t[1] = v[5] /\ t[2] = v[6]
  <2>1. v[5] \in X /\ v[6] \in X
    BY <1>1
  <2> QED
    BY <2>1
<1> HIDE DEF s, t
<1>4. \A i \in 1 .. 2 : i = 1 \/ i = 2
  OBVIOUS
<1>5. \A i \in 1 .. 2 : s[i] = t[i]
  BY <1>2, <1>3, <1>4
<1>6. s = t
  BY <1>2, <1>3, <1>5, SeqEqual
<1> QED
  BY <1>6 DEF s, t

(* What a line must be for its words to come back.                         *)
OriginIsUsual(w) ==
    /\ w[1] = "-"
    /\ SubSeq(w, 5, 6) = <<"IP4", "127.0.0.1">> => w[3] \notin VersionsEndingIn2 \ {"2"}
MediaIsUsual(w) == ToSet(w) \cap Codes(mediaEncodeMap) = {}
LineIsUsual(line) ==
    /\ line.field = "o" => OriginIsUsual(line.words)
    /\ line.field = "m" => MediaIsUsual(line.words)
    /\ line.attr = "candidate" => RegularCandidate(line.words)

(* An origin comes back exactly if it is usual.                            *)
LEMMA OriginSame ==
    ASSUME NEW X, NEW w \in Seq(X), Len(w) = 6, w[4] = "IN", ToSet(w) \cap Keys(protocolEncodeMap) = {}
    PROVE  Lows(OriginBack(w)) = Lows(w) <=> OriginIsUsual(w)
<1> DEFINE b == OriginBack(w)
           version == IF Loopback(w) /\ w[3] \in VersionsEndingIn2 THEN "2" ELSE w[3]
<1>1. DOMAIN w = 1 .. 6 /\ \A i \in 1 .. 6 : w[i] \in ToSet(w)
  BY DEF ToSet
<1>2. \A i \in 1 .. 6 : LowerCase(w[i]) = w[i]
  BY <1>1, Protocols DEF LowerCase
<1>3. /\ DOMAIN b = 1 .. 6 /\ b[1] = "-" /\ b[2] = w[2] /\ b[3] = version /\ b[4] = w[4]
      /\ b[5] = w[5] /\ b[6] = w[6]
  BY DEF OriginBack
<1>4. LowerCase("-") = "-" /\ LowerCase("2") = "2"
  BY DEF LowerCase
<1>5. LowerCase(version) = version
  BY <1>2, <1>4
<1>6. OriginIsUsual(w) <=> w[1] = "-" /\ version = w[3]
  <2>1. SubSeq(w, 5, 6) = <<w[5], w[6]>>
    BY LastTwo
  <2>2. SubSeq(w, 5, 6) = <<"IP4", "127.0.0.1">> <=> Loopback(w)
    BY <2>1 DEF Loopback
  <2> QED
    BY <2>2 DEF OriginIsUsual
<1> HIDE DEF b, version
<1>7. ASSUME Lows(b) = Lows(w) PROVE w[1] = "-" /\ version = w[3]
  <2>1. \A i \in 1 .. 6 : LowerCase(b[i]) = LowerCase(w[i])
    BY <1>1, <1>7, LowsAre
  <2>2. LowerCase(b[1]) = LowerCase(w[1]) /\ LowerCase(b[3]) = LowerCase(w[3])
    BY <2>1
  <2> QED
    BY <1>2, <1>3, <1>4, <1>5, <2>2
<1>8. ASSUME w[1] = "-", version = w[3] PROVE Lows(b) = Lows(w)
  <2>1. \A i \in 1 .. 6 : b[i] = w[i]
    BY <1>3, <1>8
  <2> QED
    BY <1>1, <1>3, <2>1 DEF Lows
<1> QED
  BY <1>6, <1>7, <1>8 DEF b

(* A media line with a code among its words is like none that comes back.  *)
LEMMA MediaSame ==
    ASSUME NEW X, NEW w \in Seq(X)
    PROVE  /\ MediaIsUsual(w) => mediaDecode(mediaEncode(w)) = w
           /\ \A v : Lows(mediaDecode(mediaEncode(v))) = Lows(w) => MediaIsUsual(w)
<1>1. ASSUME MediaIsUsual(w) PROVE mediaDecode(mediaEncode(w)) = w
  <2> DEFINE b == mediaDecode(mediaEncode(w))
  <2>1. \A i \in DOMAIN w : w[i] \notin Codes(mediaEncodeMap)
    BY <1>1 DEF MediaIsUsual, ToSet
  <2>2. DOMAIN b = DOMAIN w /\ \A i \in DOMAIN w : b[i] = w[i]
    BY <2>1, MediaComesBack
  <2>3. b = [i \in DOMAIN b |-> b[i]] /\ w = [i \in DOMAIN w |-> w[i]]
    BY DEF mediaDecode
  <2> HIDE DEF b
  <2>4. b = w
    BY <2>2, <2>3
  <2> QED
    BY <2>4 DEF b
<1>2. ASSUME NEW v, Lows(mediaDecode(mediaEncode(v))) = Lows(w) PROVE MediaIsUsual(w)
  <2> DEFINE b == mediaDecode(mediaEncode(v))
  <2>1. DOMAIN b = DOMAIN w /\ \A i \in DOMAIN w : LowerCase(b[i]) = LowerCase(w[i])
    BY <1>2, LowsAre
  <2>2. \A i \in DOMAIN w : b[i] \notin Codes(mediaEncodeMap)
    BY <2>1, MediaComesBack
  <2> HIDE DEF b
  <2>3. \A x : x \in Codes(mediaEncodeMap) => LowerCase(x) = x
    BY MediaWords DEF LowerCase
  <2>4. \A x : LowerCase(x) \in Codes(mediaEncodeMap) => LowerCase(x) = x
    BY MediaWords DEF LowerCase
  <2>5. \A i \in DOMAIN w : w[i] \notin Codes(mediaEncodeMap)
    BY <2>1, <2>2, <2>3, <2>4
  <2> QED
    BY <2>5 DEF MediaIsUsual, ToSet
<1> QED
  BY <1>1, <1>2

(* A line comes back, up to case, exactly if it is usual; and only a usual *)
(* one is like any that comes back.                                        *)
LEMMA LineSame ==
    ASSUME NEW line \in Lines, IsLine(line)
    PROVE  /\ LineIsUsual(line) => Lower(Back(line)) = Lower(line)
           /\ \A from \in Lines :
                 /\ IsLine(from) /\ Lower(Back(from)) = Lower(line)
                 /\ line.field = "o" => from = line
                 => LineIsUsual(line)
<1> DEFINE w == line.words
<1>1. line = Line(line.field, line.attr, w) /\ w \in Seq(STRING) /\ w \in Seq(Texts)
  BY LineIs
<1>2. /\ line.field = "o" => /\ Len(w) = 6 /\ w[4] = "IN"
                            /\ ToSet(w) \cap Keys(protocolEncodeMap) = {}
      /\ line.attr = "candidate" => line.field = "a" /\ IsCandidate(w)
  BY DEF IsLine
<1>3. ASSUME NEW x \in Lines, IsLine(x)
      PROVE  /\ Lower(x) = Line(x.field, x.attr, Lows(x.words))
             /\ Lower(x).field = x.field /\ Lower(x).attr = x.attr /\ Lower(x).words = Lows(x.words)
             /\ Lower(Back(x)) = Line(x.field, x.attr, Lows(BackWords(x)))
             /\ Lower(Back(x)).field = x.field /\ Lower(Back(x)).attr = x.attr
             /\ Lower(Back(x)).words = Lows(BackWords(x))
  <2>1. IsRecord(x)
    BY <1>3, LineIs DEF IsRecord
  <2>2. /\ Back(x) = Line(x.field, x.attr, BackWords(x))
        /\ Back(x).field = x.field /\ Back(x).attr = x.attr /\ Back(x).words = BackWords(x)
    BY <1>3, LineComesBack
  <2>3. IsRecord(Back(x))
    BY <2>2 DEF IsRecord
  <2> QED
    BY <2>1, <2>2, <2>3, LowerIs
<1> HIDE DEF w
<1>4. ASSUME LineIsUsual(line) PROVE Lows(BackWords(line)) = Lows(w)
  <2>1. CASE line.field = "o"
    <3>1. Lows(OriginBack(w)) = Lows(w)
      BY <1>1, <1>2, <1>4, <2>1, OriginSame DEF LineIsUsual, w
    <3> QED
      BY <1>2, <2>1, <3>1 DEF BackWords, w
  <2>2. CASE line.field = "m"
    <3>1. mediaDecode(mediaEncode(w)) = w
      BY <1>1, <1>4, <2>2, MediaSame DEF LineIsUsual, w
    <3> QED
      BY <1>2, <2>2, <3>1 DEF BackWords, w
  <2>3. CASE line.attr = "candidate"
    <3>1. Lows(Worn(w)) = Lows(w)
      BY <1>1, <1>2, <1>4, <2>3, RegularComesBack DEF LineIsUsual, w
    <3> QED
      BY <1>2, <2>3, <3>1 DEF BackWords, w
  <2>4. CASE line.field # "o" /\ line.field # "m" /\ line.attr # "candidate"
    BY <2>4 DEF BackWords, w
  <2> QED
    BY <2>1, <2>2, <2>3, <2>4
<1>5. ASSUME NEW from \in Lines, IsLine(from), Lower(Back(from)) = Lower(line),
             line.field = "o" => from = line
      PROVE  LineIsUsual(line)
  <2> DEFINE v == from.words
  <2>1. from.field = line.field /\ from.attr = line.attr /\ Lows(BackWords(from)) = Lows(w)
    BY <1>3, <1>5 DEF w
  <2>2. v \in Seq(Texts)
    BY LineIs
  <2> HIDE DEF v
  <2>3. ASSUME line.field = "o" PROVE OriginIsUsual(w)
    <3>1. Lows(OriginBack(w)) = Lows(w)
      BY <1>2, <1>5, <2>1, <2>3 DEF BackWords, w
    <3> QED
      BY <1>1, <1>2, <2>3, <3>1, OriginSame
  <2>4. ASSUME line.field = "m" PROVE MediaIsUsual(w)
    <3>1. Lows(mediaDecode(mediaEncode(v))) = Lows(w)
      BY <1>2, <2>1, <2>4 DEF BackWords, v
    <3> QED
      BY <1>1, <3>1, MediaSame
  <2>5. ASSUME line.attr = "candidate" PROVE RegularCandidate(w)
    <3>1. Lows(Worn(v)) = Lows(w)
      BY <1>2, <2>1, <2>5 DEF BackWords, v
    <3>2. IsCandidate(v)
      BY <1>5, <2>1, <2>5 DEF IsLine, v
    <3> QED
      BY <1>1, <1>2, <2>2, <2>5, <3>1, <3>2, OnlyRegularComeBack
  <2> QED
    BY <2>3, <2>4, <2>5 DEF LineIsUsual, w
<1>6. LineIsUsual(line) => Lower(Back(line)) = Lower(line)
  BY <1>3, <1>4 DEF w
<1> QED
  BY <1>5, <1>6

(* The lines that are kept come back exactly if each of them is usual.     *)
LEMMA KeptSame ==
    ASSUME NEW lines \in Seq(Lines), IsDescription(lines)
    PROVE  Comparable({Back(line) : line \in KeptOf(lines)}) = Comparable(KeptOf(lines))
              <=> \A line \in KeptOf(lines) : LineIsUsual(line)
<1> DEFINE kept == KeptOf(lines)
           back == {Back(line) : line \in kept}
<1>1. ASSUME NEW line \in kept PROVE line \in Lines /\ IsLine(line)
  BY DEF KeptOf, ToSet, IsDescription
<1>2. ASSUME NEW line \in kept, NEW from \in kept, line.field = "o", from.field = "o" PROVE from = line
  <2>1. PICK i \in DOMAIN lines : line = lines[i]
    BY DEF KeptOf, ToSet
  <2>2. PICK j \in DOMAIN lines : from = lines[j]
    BY DEF KeptOf, ToSet
  <2>3. i = 2 /\ j = 2
    BY <1>2, <2>1, <2>2 DEF IsDescription
  <2> QED
    BY <2>1, <2>2, <2>3
<1> HIDE DEF kept
<1>3. ASSUME \A line \in kept : LineIsUsual(line) PROVE Comparable(back) = Comparable(kept)
  <2>1. \A line \in kept : Lower(Back(line)) = Lower(line)
    BY <1>1, <1>3, LineSame
  <2> QED
    BY <2>1 DEF Comparable
<1>4. ASSUME Comparable(back) = Comparable(kept), NEW line \in kept PROVE LineIsUsual(line)
  <2>1. Lower(line) \in Comparable(back)
    BY <1>4 DEF Comparable
  <2>2. PICK from \in kept : Lower(Back(from)) = Lower(line)
    BY <2>1 DEF Comparable
  <2>3. line.field = "o" => from = line
    <3>1. /\ Back(from) = Line(from.field, from.attr, BackWords(from))
          /\ Back(from).field = from.field /\ Back(from).attr = from.attr
          /\ Back(from).words = BackWords(from)
      BY <1>1, LineComesBack
    <3>2. IsRecord(line) /\ IsRecord(Back(from))
      BY <1>1, <3>1, LineIs DEF IsRecord
    <3>3. from.field = line.field
      BY <2>2, <3>1, <3>2, LowerIs
    <3> QED
      BY <1>2, <3>3
  <2> QED
    BY <1>1, <2>2, <2>3, LineSame
<1> QED
  BY <1>3, <1>4 DEF kept

-----------------------------------------------------------------------------
(* The lines about the session, and the others.                            *)

IsEssential(line) ==
    line.field = "c" \/
        line.attr \in {"ice-ufrag", "ice-pwd", "fingerprint", "sctp-port", "max-message-size",
                       "ice-options"}
Essentials(E) == {line \in E : IsEssential(line)}

IsSession(line) ==
    \/ line.field \in {"v", "s", "t"}
    \/ line.attr \in {"extmap-allow-mixed", "msid-semantic", "sctpmap", "group", "mid",
                     "setup"}

(* Lines about the session are never taken for others.                     *)
SessionOnly(E) == \A x \in E : IsRecord(x) /\ IsSession(x)
NoSession(E) == \A x \in E : IsRecord(x) /\ ~IsSession(x)
SameByParts(A, B, C, D) ==
    Comparable(A \cup B) = Comparable(C \cup D)
        <=> Comparable(A) = Comparable(C) /\ Comparable(B) = Comparable(D)

(* Descriptions can be compared part by part, session lines and others.    *)
LEMMA ComparableSplit ==
    ASSUME NEW A, NEW B, NEW C, NEW D,
           SessionOnly(A), NoSession(B), SessionOnly(C), NoSession(D)
    PROVE  SameByParts(A, B, C, D)
<1>1. ASSUME NEW x \in A \cup B \cup C \cup D PROVE IsSession(Lower(x)) <=> IsSession(x)
  BY LowerIs DEF IsSession, SessionOnly, NoSession
<1>2. /\ Comparable(A \cup B) = Comparable(A) \cup Comparable(B)
      /\ Comparable(C \cup D) = Comparable(C) \cup Comparable(D)
  BY DEF Comparable
<1>3. /\ \A y \in Comparable(A) \cup Comparable(C) : IsSession(y)
      /\ \A y \in Comparable(B) \cup Comparable(D) : ~IsSession(y)
  BY <1>1 DEF Comparable, SessionOnly, NoSession
<1> QED
  BY <1>2, <1>3 DEF SameByParts

(* The usual lines are about the session, and not essential.               *)
LEMMA UsualIs ==
    ASSUME NEW n \in Nat, NEW isOffer, NEW x \in UsualLines(n, isOffer)
    PROVE  IsRecord(x) /\ IsSession(x) /\ ~IsEssential(x)
<1>1. x \in Around(n, isOffer) \cup {Group(n)}
  BY UsualLinesAre
<1>2. \A f, a, w : IsRecord(Line(f, a, w))
  BY LineHas DEF IsRecord
<1>3. CASE x \in ToSet(Header)
  BY <1>3, HeaderIs DEF IsRecord, IsSession, IsEssential
<1>4. CASE x \in MadeUp(isOffer)
  <2>1. IsRecord(x)
    BY <1>2, <1>4 DEF MadeUp, Setup, Mid
  <2> QED
    BY <1>4, <2>1, MadeUpIs DEF IsSession, IsEssential
<1>5. CASE x = Group(n)
  <2>1. IsRecord(x)
    BY <1>2, <1>5 DEF Group
  <2> QED
    BY <1>5, <2>1, MadeUpIs DEF IsSession, IsEssential
<1>6. Around(n, isOffer) \subseteq ToSet(Header) \cup MadeUp(isOffer)
  <2>1. \A j \in 1 .. n : j - 1 \in Nat
    OBVIOUS
  <2> QED
    BY <2>1 DEF Around, MadeUp
<1> QED
  BY <1>1, <1>3, <1>4, <1>5, <1>6

(* A description has a number of sections.                                 *)
LEMMA SectionsAre ==
    ASSUME NEW lines \in Seq(Lines) PROVE Sections(lines) \in Nat
<1> DEFINE M == {i \in DOMAIN lines : lines[i].field = "m"}
<1>1. IsFiniteSet(DOMAIN lines)
  BY LenProperties, FS_Interval
<1>2. M \in SUBSET DOMAIN lines
  OBVIOUS
<1>3. IsFiniteSet(M)
  BY <1>1, <1>2, FS_Subset
<1> QED
  BY <1>3, FS_CardinalityType DEF Sections

(* The lines of a description are about the session or kept.               *)
LEMMA DescriptionSplit ==
    ASSUME NEW lines \in Seq(Lines), IsDescription(lines)
    PROVE  /\ ToSet(lines) = {line \in ToSet(lines) : IsSession(line)} \cup KeptOf(lines)
           /\ \A line \in ToSet(lines) :
                 line \in Lines /\ IsLine(line) /\ IsRecord(line) /\ (Dropped(line) <=> IsSession(line))
<1>1. ASSUME NEW line \in ToSet(lines)
      PROVE  line \in Lines /\ IsLine(line) /\ IsRecord(line) /\ (Dropped(line) <=> IsSession(line))
  <2>1. line \in Lines /\ IsLine(line)
    BY DEF ToSet, IsDescription
  <2>2. IsRecord(line)
    BY <2>1, LineIs DEF IsRecord
  <2> QED
    BY <2>1, <2>2 DEF IsLine, Dropped, IsSession
<1> QED
  BY <1>1 DEF KeptOf

(* What the conditions on origins, media lines and candidates say of each  *)
(* line.                                                                   *)
LEMMA UsualMeans ==
    ASSUME NEW s, s.lines \in Seq(Lines), IsDescription(s.lines)
    PROVE  (\A line \in KeptOf(s.lines) : LineIsUsual(line)) <=>
              /\ \A line \in LinesOf(s, "o") : OriginIsUsual(line.words)
              /\ WordsOf(LinesOf(s, "m")) \cap Codes(mediaEncodeMap) = {}
              /\ RegularCandidates(s)
<1> DEFINE lines == s.lines
           kept == KeptOf(lines)
<1>1. ASSUME NEW line \in ToSet(lines)
      PROVE  IsLine(line) /\ (line.field \in {"o", "m"} \/ line.attr = "candidate" => line \in kept)
  <2>1. IsLine(line)
    BY DescriptionSplit
  <2> QED
    BY <2>1 DEF IsLine, Dropped, KeptOf
<1>2. kept \subseteq ToSet(lines)
  BY DEF KeptOf
<1>3. LinesOf(s, "o") = {line \in kept : line.field = "o"}
  BY <1>1, <1>2 DEF LinesOf
<1>4. LinesOf(s, "m") = {line \in kept : line.field = "m"}
  BY <1>1, <1>2 DEF LinesOf
<1>5. LinesWith(s, "candidate") = {line \in kept : line.attr = "candidate"}
  BY <1>1, <1>2 DEF LinesWith
<1> HIDE DEF kept, lines
<1>6. (\A line \in LinesOf(s, "o") : OriginIsUsual(line.words)) <=>
         \A line \in kept : line.field = "o" => OriginIsUsual(line.words)
  BY <1>3
<1>7. WordsOf(LinesOf(s, "m")) \cap Codes(mediaEncodeMap) = {} <=>
         \A line \in kept : line.field = "m" => MediaIsUsual(line.words)
  BY <1>4 DEF WordsOf, MediaIsUsual
<1>8. RegularCandidates(s) <=> \A line \in kept : line.attr = "candidate" => RegularCandidate(line.words)
  BY <1>5 DEF RegularCandidates
<1> QED
  BY <1>6, <1>7, <1>8 DEF LineIsUsual, kept, lines

-----------------------------------------------------------------------------
(* A whole signal.                                                         *)

(* The essential lines of a signal.                                        *)
LEMMA EssentialIs ==
    ASSUME NEW s PROVE Essential(s) = Essentials(ToSet(s.lines))
BY DEF Essential, LinesOf, LinesWith, Essentials, IsEssential

(* The codes of signals.                                                   *)
LEMMA CandidateCode ==
    ASSUME NEW s, s.lines # <<>>, s.type = "candidate"
    PROVE  /\ compact(s).form = "C" /\ compact(s).words = candidateEncode(s.lines[1].words)
           /\ compact(s) = [form |-> "C", words |-> candidateEncode(s.lines[1].words)]
<1>1. compact(s) = [form |-> "C", words |-> candidateEncode(s.lines[1].words)]
  BY DEF compact
<1> QED
  BY <1>1

(* The code of a description.                                              *)
LEMMA DescriptionCode ==
    ASSUME NEW s, s.lines # <<>>, s.type # "candidate", s.lines[1] = First
    PROVE  LET form == IF s.type = "offer" THEN "O" ELSE "A"
           IN  /\ compact(s).form = form /\ compact(s).lines = compactSDPStr(s.lines)
               /\ compact(s) = [form |-> form, lines |-> compactSDPStr(s.lines)]
<1> DEFINE form == IF s.type = "offer" THEN "O" ELSE "A"
<1>1. compact(s) = [form |-> form, lines |-> compactSDPStr(s.lines)]
  BY DEF compact, First
<1> HIDE DEF form
<1> QED
  BY <1>1 DEF form

(* The signals that have one.                                              *)
LEMMA NoCodeIs ==
    ASSUME NEW s
    PROVE  compact(s) # NoCode <=>
              s.lines # <<>> /\ (s.type = "candidate" \/ s.lines[1] = First)
<1>1. NoCode.form = "null"
  BY DEF NoCode
<1>2. CASE s.lines # <<>> /\ s.type = "candidate"
  BY <1>1, <1>2, CandidateCode
<1>3. CASE s.lines # <<>> /\ s.type # "candidate" /\ s.lines[1] = First
  <2>1. compact(s).form \in {"O", "A"}
    BY <1>3, DescriptionCode
  <2> QED
    BY <1>1, <1>3, <2>1
<1>4. CASE ~(s.lines # <<>> /\ (s.type = "candidate" \/ s.lines[1] = First))
  BY <1>4 DEF compact, First
<1> QED
  BY <1>2, <1>3, <1>4

(* A candidate that is restored.                                           *)
LEMMA CandidateBack ==
    ASSUME NEW s \in Signals, s.lines # <<>>, s.type = "candidate"
    PROVE  LET r == decompact(compact(s))
           IN  /\ Same(r, s) <=> Regular(s)
               /\ compact(r) = compact(s)
               /\ Essential(r) = Essential(s)
<1> DEFINE lines == s.lines
           line == lines[1]
           w == line.words
           back == Line("", "candidate", Worn(w))
           r == decompact(compact(s))
<1>1. /\ lines \in Seq(Lines) /\ Len(lines) = 1 /\ line.attr = "candidate"
      /\ line.field \in {"", "a"} /\ IsCandidate(w)
  BY SignalsAssumption DEF Lines
<1>2. line \in Lines /\ ToSet(lines) = {line}
  <2> HIDE DEF lines
  <2>1. DOMAIN lines = 1 .. 1 /\ lines[1] \in Lines
    <3>1. lines \in Seq(Lines) /\ Len(lines) = 1
      BY <1>1
    <3>2. DOMAIN lines = 1 .. Len(lines) /\ \A i \in 1 .. Len(lines) : lines[i] \in Lines
      BY <3>1, LenProperties
    <3> QED
      BY <3>1, <3>2
  <2>2. DOMAIN lines = {1}
    BY <2>1
  <2> QED
    BY <2>1, <2>2 DEF ToSet
<1> HIDE DEF lines
<1>3. IsRecord(line) /\ w \in Seq(Texts)
  BY <1>2, LineIs DEF IsRecord
<1>4. candidateDecode(candidateEncode(w)) = Worn(w) /\ candidateEncode(Worn(w)) = candidateEncode(w)
  BY <1>1, <1>3, CandidateComesBack DEF Worn
<1>5. IsRecord(back) /\ back.field = "" /\ back.attr = "candidate" /\ back.words = Worn(w)
  <2> DEFINE b == Worn(w)
  <2> HIDE DEF b
  <2>1. LET x == Line("", "candidate", b) IN x.field = "" /\ x.attr = "candidate" /\ x.words = b
    BY DEF Line
  <2> QED
    BY <2>1 DEF IsRecord, b
<1>6. compact(s).form = "C" /\ compact(s).words = candidateEncode(w)
      /\ compact(s) = [form |-> "C", words |-> candidateEncode(w)]
  BY CandidateCode DEF lines
<1> HIDE DEF line, w
<1>7. r = [type |-> "candidate", mid |-> "0", lines |-> <<back>>]
  BY <1>4, <1>6 DEF decompact
<1> HIDE DEF r, back
<1>8. r.type = "candidate" /\ r.mid = "0" /\ r.lines = <<back>> /\ r.lines # <<>> /\ r.lines[1] = back
  BY <1>7
<1>9. ToSet(r.lines) = {back}
  BY <1>8 DEF ToSet
<1>10. compact(r) = compact(s)
  <2>1. compact(r) = [form |-> "C", words |-> candidateEncode(back.words)]
    BY <1>8, CandidateCode
  <2> QED
    BY <1>4, <1>5, <1>6, <2>1
<1>11. Essential(r) = Essential(s)
  <2>1. ~IsEssential(back) /\ ~IsEssential(line)
    BY <1>1, <1>5 DEF IsEssential
  <2>2. Essentials(ToSet(r.lines)) = {} /\ Essentials(ToSet(lines)) = {}
    BY <1>2, <1>9, <2>1 DEF Essentials
  <2> QED
    BY <2>2, EssentialIs DEF lines
<1>12. Comparable(ToSet(r.lines)) = Comparable(ToSet(lines)) <=> Lower(back) = Lower(line)
  BY <1>2, <1>9 DEF Comparable
<1>13. Lower(back) = Lower(line) <=> line.field = "" /\ RegularCandidate(w)
  <2>1. /\ Lower(back) = Line("", "candidate", Lows(Worn(w))) /\ Lower(back).field = ""
        /\ Lower(back).words = Lows(Worn(w))
    BY <1>5, LowerIs
  <2>2. /\ Lower(line) = Line(line.field, "candidate", Lows(w)) /\ Lower(line).field = line.field
        /\ Lower(line).words = Lows(w)
    BY <1>1, <1>3, LowerIs DEF w
  <2>3. RegularCandidate(w) <=> Lows(Worn(w)) = Lows(w)
    BY <1>1, <1>3, RegularComesBack, OnlyRegularComeBack DEF w
  <2> QED
    BY <2>1, <2>2, <2>3
<1>14. RegularCandidates(s) <=> RegularCandidate(w)
  <2>1. LinesWith(s, "candidate") = {line}
    BY <1>1, <1>2 DEF LinesWith, lines
  <2> QED
    BY <2>1 DEF RegularCandidates, w
<1>15. Same(r, s) <=> s.mid = "0" /\ line.field = "" /\ RegularCandidate(w)
  BY <1>8, <1>12, <1>13 DEF Same, lines
<1>16. Regular(s) <=> s.mid = "0" /\ line.field = "" /\ RegularCandidate(w)
  BY <1>14 DEF Regular, line, lines
<1> QED
  BY <1>10, <1>11, <1>15, <1>16 DEF r

(* A description that is restored.                                         *)
LEMMA DescriptionRestored ==
    ASSUME NEW s \in Signals, s.lines # <<>>, s.type # "candidate", s.lines[1] = First
    PROVE  LET r == decompact(compact(s))
           IN  /\ Same(r, s) <=> Regular(s)
               /\ compact(r) = compact(s)
               /\ Essential(r) = Essential(s)
<1> DEFINE lines == s.lines
           isOffer == s.type = "offer"
           codes == compactSDPStr(lines)
           text == decompactSDPStr(codes, isOffer)
           r == decompact(compact(s))
           kept == KeptOf(lines)
           back == {Back(line) : line \in kept}
           usual == UsualLines(Sections(lines), isOffer)
           session == {line \in ToSet(lines) : IsSession(line)}
<1>1. lines \in Seq(Lines) /\ IsDescription(lines) /\ lines[1] = First /\ s.mid = ""
  BY SignalsAssumption DEF Lines
<1>2. ToSet(text) = usual \cup back /\ compactSDPStr(text) = codes /\ text # <<>> /\ text[1] = First
  BY <1>1, DescriptionBack
<1>3. /\ ToSet(lines) = session \cup kept
      /\ \A line \in ToSet(lines) :
            line \in Lines /\ IsLine(line) /\ IsRecord(line) /\ (Dropped(line) <=> IsSession(line))
  BY <1>1, DescriptionSplit
<1>4. \A line \in usual : IsRecord(line) /\ IsSession(line) /\ ~IsEssential(line)
  <2>1. Sections(lines) \in Nat
    BY <1>1, SectionsAre
  <2> QED
    BY <2>1, UsualIs
<1>5. ASSUME NEW line \in kept
      PROVE  /\ line \in ToSet(lines) /\ IsRecord(line) /\ ~IsSession(line)
             /\ IsRecord(Back(line)) /\ ~IsSession(Back(line))
             /\ IsEssential(Back(line)) <=> IsEssential(line)
             /\ IsEssential(line) => Back(line) = line
  <2>1. line \in ToSet(lines) /\ line \in Lines /\ IsLine(line) /\ IsRecord(line) /\ ~IsSession(line)
    BY <1>3 DEF KeptOf
  <2>2. /\ Back(line) = Line(line.field, line.attr, BackWords(line))
        /\ Back(line).field = line.field /\ Back(line).attr = line.attr
        /\ Back(line).words = BackWords(line)
    BY <2>1, LineComesBack
  <2>3. IsRecord(Back(line)) /\ (IsSession(Back(line)) <=> IsSession(line))
        /\ (IsEssential(Back(line)) <=> IsEssential(line))
    BY <2>2 DEF IsRecord, IsSession, IsEssential
  <2>4. IsEssential(line) => line.field # "o" /\ line.field # "m" /\ line.attr # "candidate"
    BY <2>1 DEF IsLine, IsEssential
  <2>5. IsEssential(line) => BackWords(line) = line.words
    BY <2>4 DEF BackWords
  <2> QED
    BY <2>1, <2>2, <2>3, <2>5 DEF IsRecord
<1> DEFINE form == IF s.type = "offer" THEN "O" ELSE "A"
<1>6. compact(s).form = form /\ compact(s).lines = codes /\ compact(s) = [form |-> form, lines |-> codes]
  BY <1>1, DescriptionCode
<1>7. r = [type |-> IF s.type = "offer" THEN "offer" ELSE "answer", mid |-> "", lines |-> text]
  <2>1. (form = "O") = isOffer /\ form # "C"
    OBVIOUS
  <2> HIDE DEF form, codes, isOffer
  <2>2. r = [type |-> IF isOffer THEN "offer" ELSE "answer", mid |-> "", lines |-> text]
    BY <1>6, <2>1 DEF decompact
  <2> QED
    BY <2>2 DEF isOffer
<1> HIDE DEF r, text, codes, kept, back, usual, session
<1>8. /\ r.type = IF s.type = "offer" THEN "offer" ELSE "answer"
      /\ r.mid = "" /\ r.lines = text
  BY <1>7
<1>9. compact(r) = compact(s)
  <2>1. r.lines # <<>> /\ r.type # "candidate" /\ r.lines[1] = First
        /\ (r.type = "offer" <=> s.type = "offer")
    BY <1>2, <1>8
  <2>2. compact(r) = [form |-> IF r.type = "offer" THEN "O" ELSE "A", lines |-> compactSDPStr(r.lines)]
    BY <2>1, DescriptionCode
  <2>3. compactSDPStr(r.lines) = codes /\ (IF r.type = "offer" THEN "O" ELSE "A") = form
    BY <1>2, <1>8, <2>1
  <2> HIDE DEF form
  <2> QED
    BY <1>6, <2>2, <2>3
<1>10. Essential(r) = Essential(s)
  <2>1. Essentials(ToSet(text)) = Essentials(back)
    BY <1>2, <1>4 DEF Essentials
  <2>2. Essentials(back) = Essentials(kept)
    BY <1>5 DEF Essentials, back
  <2>3. \A line \in session : ~IsEssential(line)
    <3>1. \A line \in session : IsLine(line) /\ IsSession(line)
      BY <1>3 DEF session
    <3> QED
      BY <3>1 DEF IsLine, IsSession, IsEssential
  <2>4. Essentials(ToSet(lines)) = Essentials(kept)
    BY <1>3, <2>3 DEF Essentials
  <2> QED
    BY <1>8, <2>1, <2>2, <2>4, EssentialIs
<1>11. Comparable(ToSet(text)) = Comparable(ToSet(lines))
          <=> Comparable(usual) = Comparable(session) /\ Comparable(back) = Comparable(kept)
  <2>1. SessionOnly(usual) /\ SessionOnly(session)
    BY <1>3, <1>4 DEF session, SessionOnly
  <2>2. NoSession(back) /\ NoSession(kept)
    BY <1>5 DEF back, NoSession
  <2>3. SameByParts(usual, back, session, kept)
    BY <2>1, <2>2, ComparableSplit
  <2> QED
    BY <1>2, <1>3, <2>3 DEF SameByParts
<1>12. Comparable(back) = Comparable(kept) <=>
          /\ \A line \in LinesOf(s, "o") : OriginIsUsual(line.words)
          /\ WordsOf(LinesOf(s, "m")) \cap Codes(mediaEncodeMap) = {}
          /\ RegularCandidates(s)
  BY <1>1, KeptSame, UsualMeans DEF back, kept
<1>13. SessionLines(s) = session
  BY DEF SessionLines, IsSession, session
<1>14. RegularDescription(s) <=>
          /\ s.type \in {"offer", "answer"}
          /\ Comparable(usual) = Comparable(session) /\ Comparable(back) = Comparable(kept)
  <2>1. (\A line \in LinesOf(s, "o") : OriginIsUsual(line.words)) <=>
          \A line \in LinesOf(s, "o") :
              /\ line.words[1] = "-"
              /\ SubSeq(line.words, 5, 6) = <<"IP4", "127.0.0.1">> =>
                    line.words[3] \notin VersionsEndingIn2 \ {"2"}
    BY DEF OriginIsUsual
  <2> QED
    BY <1>12, <1>13, <2>1 DEF RegularDescription, usual
<1>15. Same(r, s) <=>
          /\ s.type \in {"offer", "answer"}
          /\ Comparable(usual) = Comparable(session) /\ Comparable(back) = Comparable(kept)
  BY <1>1, <1>8, <1>11 DEF Same
<1>16. Regular(s) <=> RegularDescription(s)
  BY <1>1 DEF Regular, First
<1> QED
  BY <1>9, <1>10, <1>14, <1>15, <1>16 DEF r

(* A signal without code is regular.                                       *)
LEMMA WithoutCode ==
    ASSUME NEW s, compact(s) = NoCode
    PROVE  Regular(s)
BY NoCodeIs DEF Regular, First

(* What comes back of a signal that has a code.                            *)
LEMMA CodeBack ==
    ASSUME NEW s \in Signals, compact(s) # NoCode
    PROVE  /\ compact(s).form \in {"C", "O", "A"}
           /\ LET r == decompact(compact(s))
              IN  /\ Same(r, s) <=> Regular(s)
                  /\ compact(r) = compact(s)
                  /\ Essential(r) = Essential(s)
<1>1. s.lines # <<>> /\ (s.type = "candidate" \/ s.lines[1] = First)
  BY NoCodeIs
<1>2. compact(s).form \in {"C", "O", "A"}
  <2>1. CASE s.type = "candidate"
    BY <1>1, <2>1, CandidateCode
  <2>2. CASE s.type # "candidate"
    BY <1>1, <2>2, DescriptionCode
  <2> QED
    BY <2>1, <2>2
<1> QED
  BY <1>1, <1>2, CandidateBack, DescriptionRestored

-----------------------------------------------------------------------------
(* What is sent on is the code for a compact peer, if there is one, or the *)
(* signal; what is received is made of that.                               *)
RelayInv ==
    /\ signal \in Signals
    /\ data # Nothing =>
          \/ data = Full(signal) /\ (isCompact => compact(signal) = NoCode)
          \/ data = compact(signal) /\ compact(signal) # NoCode /\ isCompact
    /\ received # Nothing =>
          /\ data # Nothing
          /\ received = Full(IF data.form = "full" THEN data.signal ELSE decompact(data))

(* It holds at first,                                                      *)
LEMMA RelayInit == Init => RelayInv
BY DEF Init, RelayInv

(* and every step keeps it.                                                *)
LEMMA RelayNext == RelayInv /\ [Next]_vars => RelayInv'
<1>1. SUFFICES ASSUME RelayInv, [Next]_vars PROVE RelayInv'
  OBVIOUS
<1>2. CASE processJson
  <2>1. data = Nothing /\ UNCHANGED <<signal, isCompact, received>>
    BY <1>2 DEF processJson
  <2>2. \/ data' = Full(signal) /\ (isCompact => compact(signal) = NoCode)
        \/ data' = compact(signal) /\ compact(signal) # NoCode /\ isCompact
    BY <1>2 DEF processJson
  <2>3. signal \in Signals /\ received = Nothing
    BY <1>1, <2>1 DEF RelayInv
  <2> QED
    BY <2>1, <2>2, <2>3 DEF RelayInv
<1>3. CASE Receive
  <2>1. UNCHANGED <<signal, isCompact, data>> /\ data # Nothing
    BY <1>3 DEF Receive
  <2>2. received' = Full(IF data.form = "full" THEN data.signal ELSE decompact(data))
    BY <1>3 DEF Receive
  <2> QED
    BY <1>1, <2>1, <2>2 DEF RelayInv
<1>4. CASE UNCHANGED vars
  BY <1>1, <1>4 DEF vars, RelayInv
<1> QED
  BY <1>1, <1>2, <1>3, <1>4 DEF Next

(* What is received, by what was sent.                                     *)
LEMMA ReceivedIs ==
    ASSUME RelayInv, received # Nothing
    PROVE  /\ signal \in Signals
           /\ \/ /\ data.form = "full" /\ received.signal = signal
                 /\ isCompact => compact(signal) = NoCode
              \/ /\ isCompact /\ compact(signal) # NoCode
                 /\ data = compact(signal) /\ received.signal = decompact(compact(signal))
<1>1. \A x : Full(x).form = "full" /\ Full(x).signal = x
  BY DEF Full
<1>2. /\ signal \in Signals
      /\ \/ data = Full(signal) /\ (isCompact => compact(signal) = NoCode)
         \/ data = compact(signal) /\ compact(signal) # NoCode /\ isCompact
      /\ received = Full(IF data.form = "full" THEN data.signal ELSE decompact(data))
  BY DEF RelayInv
<1>3. CASE data = Full(signal) /\ (isCompact => compact(signal) = NoCode)
  <2>1. data.form = "full" /\ data.signal = signal
    BY <1>1, <1>3
  <2>2. received = Full(signal)
    BY <1>2, <2>1
  <2> QED
    BY <1>1, <1>2, <1>3, <2>1, <2>2
<1>4. CASE data = compact(signal) /\ compact(signal) # NoCode /\ isCompact
  <2>1. data.form \in {"C", "O", "A"}
    BY <1>2, <1>4, CodeBack
  <2>2. received = Full(decompact(compact(signal)))
    BY <1>2, <1>4, <2>1
  <2> QED
    BY <1>1, <1>2, <1>4, <2>2
<1> QED
  BY <1>2, <1>3, <1>4

(* In every behaviour, whatever description is sent, a compact peer gets   *)
(* exactly the connection data, credentials, fingerprints, ports and       *)
(* limits that were in it: compactSDPStr and decompactSDPStr lose none and *)
(* mix none up.                                                            *)
THEOREM EssentialsSurvive == Spec => []EssentialsArrive
<1>1. RelayInv => EssentialsArrive
  <2>1. SUFFICES ASSUME RelayInv, received # Nothing
                 PROVE  Essential(received.signal) = Essential(signal)
    BY DEF EssentialsArrive
  <2> QED
    BY <2>1, ReceivedIs, CodeBack
<1> QED
  BY <1>1, RelayInit, RelayNext, PTL DEF Spec

(* Whatever signal Hub._processJson passes on, the peer gets the same, up  *)
(* to order and case, exactly if it is regular or the peer is not compact: *)
(* the codes of dict.js are taken back word by word, what compactSDPStr    *)
(* drops is what decompactSDPStr makes up, and each of the losses that     *)
(* Regular names does show at the other end.                               *)
THEOREM RegularArrives == Spec => []RegularArrivesIntact
<1>1. RelayInv => RegularArrivesIntact
  <2>1. SUFFICES ASSUME RelayInv, received # Nothing
                 PROVE  Same(received.signal, signal) <=> Regular(signal) \/ ~isCompact
    BY DEF RegularArrivesIntact
  <2>2. \A s : Same(s, s)
    BY DEF Same
  <2>3. CASE received.signal = signal /\ (isCompact => compact(signal) = NoCode)
    BY <2>2, <2>3, WithoutCode
  <2>4. CASE /\ isCompact /\ compact(signal) # NoCode
             /\ received.signal = decompact(compact(signal))
    <3>1. signal \in Signals
      BY <2>1, ReceivedIs
    <3>2. Same(decompact(compact(signal)), signal) <=> Regular(signal)
      BY <2>4, <3>1, CodeBack
    <3> QED
      BY <2>4, <3>2
  <2> QED
    BY <2>1, <2>3, <2>4, ReceivedIs
<1> QED
  BY <1>1, RelayInit, RelayNext, PTL DEF Spec

(* What a peer that got a compact signal has is a fixed point: compact     *)
(* makes the same code of it, so however often it is passed on through the *)
(* codecs, nothing more is lost.                                           *)
THEOREM CompactAgain == Spec => []CompactAgainIsSame
<1>1. RelayInv => CompactAgainIsSame
  <2>1. SUFFICES ASSUME RelayInv, received # Nothing, data.form # "full"
                 PROVE  compact(received.signal) = data
    BY DEF CompactAgainIsSame
  <2> QED
    BY <2>1, ReceivedIs, CodeBack
<1> QED
  BY <1>1, RelayInit, RelayNext, PTL DEF Spec

=============================================================================
