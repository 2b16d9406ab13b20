----------------------------- MODULE FoldLemmas -----------------------------
(***************************************************************************)
(* What FoldLeft computes, for any sequence.  The library's induction      *)
(* theorems take an operator as a parameter, which the provers here cannot *)
(* instantiate, so this module takes the operator of the fold as a         *)
(* constant, to be instantiated with each operator that is folded, and     *)
(* goes by least elements of sets of numbers.  FoldLeft runs over the sets *)
(* of indices and takes the greatest one last.                             *)
(***************************************************************************)
EXTENDS Integers, Sequences, SequencesExt, WellFoundedInduction, TLAPS

CONSTANT Op(_, _, _)

\* A fold whose operator may look at something fixed, p, too.
Fold(base, seq, p) == FoldLeft(LAMBDA acc, x : Op(acc, x, p), base, seq)

\* The order of the numbers is well founded.
LEMMA LessWellFounded ==
    \E R : IsWellFoundedOn(R, Nat) /\ \A x, y \in Nat : x < y => <<x, y>> \in R
  <1> DEFINE R == OpToRel(<, Nat)
  <1>1. IsWellFoundedOn(R, Nat) BY NatLessThanWellFounded, Zenon
  <1>2. \A x, y \in Nat : x < y => <<x, y>> \in R BY Zenon DEF OpToRel
  <1> HIDE DEF R
  <1> QED BY <1>1, <1>2, Zenon

\* Every set of numbers has a least element.
LEMMA Least ==
    ASSUME NEW T, T \subseteq Nat, T # {}
    PROVE  \E n \in T : \A m \in T : n <= m
  <1>1. PICK R : IsWellFoundedOn(R, Nat) /\ \A x, y \in Nat : x < y => <<x, y>> \in R
    BY LessWellFounded
  <1>2. IsWellFoundedOn(R, Nat) BY <1>1
  <1>3. T \subseteq Nat /\ T # {} OBVIOUS
  <1> HIDE <1>1
  <1>4. \A S : IsWellFoundedOn(R, S) =>
           \A U : U \subseteq S /\ U # {} => \E x \in U : \A y \in U : ~ (<<y, x>> \in R)
    BY WFMin, Zenon
  <1>5. \E x \in T : \A y \in T : ~ (<<y, x>> \in R) BY <1>2, <1>3, <1>4, Zenon
  <1>6. PICK x \in T : \A y \in T : ~ (<<y, x>> \in R) BY <1>5
  <1>7. SUFFICES ASSUME NEW y \in T PROVE x <= y OBVIOUS
  <1>8. x \in Nat /\ y \in Nat OBVIOUS
  <1>9. ~ (y < x) BY <1>1, <1>6, <1>8
  <1> QED BY <1>8, <1>9

\* What holds at 0 and at the successor of every number where it holds, holds up
\* to the last one: as a set S of numbers, since no operator can be a parameter here.
LEMMA Induction ==
    ASSUME NEW S, 0 \in S, NEW last \in Nat,
           \A n \in 0 .. last - 1 : n \in S => n + 1 \in S
    PROVE  \A n \in 0 .. last : n \in S
  <1> DEFINE T == {n \in 0 .. last : n \notin S}
  <1>1. SUFFICES ASSUME T # {} PROVE FALSE OBVIOUS
  <1>2. T \subseteq Nat OBVIOUS
  <1>3. T # {} BY <1>1
  <1> HIDE DEF T
  <1>4. PICK n \in T : \A m \in T : n <= m BY <1>2, <1>3, Least
  <1> USE DEF T
  <1>5. n # 0 /\ n - 1 \in 0 .. last - 1 OBVIOUS
  <1>6. n - 1 \in S BY <1>4, <1>5
  <1> QED BY <1>5, <1>6

\* A set of numbers that is bounded has a maximum.
LEMMA MaxOf ==
    ASSUME NEW n \in Nat, NEW s \in SUBSET (1 .. n), s # {}
    PROVE  Max(s) \in s /\ \A y \in s : Max(s) >= y
  <1> DEFINE T == {m \in 0 .. n : n - m \in s}
  <1>1. PICK x : x \in s OBVIOUS
  <1>2. n - x \in T
    <2>1. x \in 1 .. n /\ n - x \in 0 .. n /\ n - (n - x) = x BY <1>1
    <2> QED BY <1>1, <2>1
  <1>3. T \subseteq Nat /\ T # {} BY <1>2
  <1>4. \A m \in T : m \in 0 .. n /\ n - m \in s OBVIOUS
  <1>5. \A y \in s : n - y \in T OBVIOUS
  <1> HIDE DEF T
  <1>6. PICK m \in T : \A k \in T : m <= k BY <1>3, Least
  <1>7. n - m \in s /\ m \in 0 .. n BY <1>4
  <1>8. \A y \in s : n - m >= y
    <2>1. SUFFICES ASSUME NEW y \in s PROVE n - m >= y OBVIOUS
    <2>2. m <= n - y BY <1>5, <1>6
    <2> QED BY <2>2, <1>7
  <1>9. \E z \in s : \A y \in s : z >= y BY <1>7, <1>8
  <1> QED BY <1>9 DEF Max

\* What is greatest is the maximum.
LEMMA MaxIs ==
    ASSUME NEW n \in Nat, NEW s \in SUBSET (1 .. n), NEW x \in s, \A y \in s : x >= y
    PROVE  Max(s) = x
  <1>1. Max(s) \in s /\ \A y \in s : Max(s) >= y BY MaxOf
  <1>2. Max(s) \in 1 .. n /\ x \in 1 .. n /\ Max(s) >= x /\ x >= Max(s) BY <1>1
  <1> QED BY <1>2

\* The recursive function by which the library defines a fold over n elements.
IterEq(f, base, seq, p, n) ==
    f = [s \in SUBSET (1 .. n) |->
            IF s = {} THEN base ELSE Op(f[s \ {Max(s)}], seq[Max(s)], p)]

\* The recursive function of a fold over n elements gives that over n + 1.
LEMMA IterStep ==
    ASSUME NEW f, NEW base, NEW seq, NEW p, NEW n \in Nat, IterEq(f, base, seq, p, n)
    PROVE  \E g : IterEq(g, base, seq, p, n + 1)
  <1> DEFINE g == [s \in SUBSET (1 .. n + 1) |->
                     IF n + 1 \in s THEN Op(f[s \ {n + 1}], seq[n + 1], p) ELSE f[s]]
             Val(s) == IF s = {} THEN base ELSE Op(g[s \ {Max(s)}], seq[Max(s)], p)
  <1>1. \A s \in SUBSET (1 .. n) :
           f[s] = IF s = {} THEN base ELSE Op(f[s \ {Max(s)}], seq[Max(s)], p)
    BY DEF IterEq
  <1>2. ASSUME NEW s \in SUBSET (1 .. n + 1), n + 1 \in s
        PROVE  Val(s) = Op(f[s \ {n + 1}], seq[n + 1], p)
    <2>1. Max(s) = n + 1 BY <1>2, MaxIs
    <2>2. s \ {n + 1} \in SUBSET (1 .. n) OBVIOUS
    <2>3. s \ {n + 1} \in SUBSET (1 .. n + 1) OBVIOUS
    <2>4. g[s \ {n + 1}] = f[s \ {n + 1}] BY <2>3
    <2> HIDE DEF g
    <2> QED BY <1>2, <2>1, <2>4
  <1>3. ASSUME NEW s \in SUBSET (1 .. n + 1), n + 1 \notin s
        PROVE  Val(s) = f[s]
    <2>1. s \in SUBSET (1 .. n) BY <1>3
    <2>2. CASE s = {} BY <2>2, <2>1, <1>1
    <2>3. CASE s # {}
      <3>1. Max(s) \in s BY <2>1, <2>3, MaxOf
      <3>2. s \ {Max(s)} \in SUBSET (1 .. n + 1) /\ n + 1 \notin s \ {Max(s)} BY <1>3
      <3>3. g[s \ {Max(s)}] = f[s \ {Max(s)}] BY <3>2
      <3> HIDE DEF g
      <3> QED BY <2>3, <3>3, <2>1, <1>1
    <2> QED BY <2>2, <2>3
  <1>4. \A s \in SUBSET (1 .. n + 1) :
           Val(s) = IF n + 1 \in s THEN Op(f[s \ {n + 1}], seq[n + 1], p) ELSE f[s]
    BY <1>2, <1>3, Zenon
  <1>5. g = [s \in SUBSET (1 .. n + 1) |-> Val(s)] BY <1>4, Zenon
  <1>6. IterEq(g, base, seq, p, n + 1) BY <1>5, Zenon DEF IterEq
  <1> QED BY <1>6, Zenon

\* So there is one for every length.
LEMMA IterExists ==
    ASSUME NEW base, NEW seq, NEW p, NEW last \in Nat
    PROVE  \E g : IterEq(g, base, seq, p, last)
  <1> DEFINE S == {n \in 0 .. last : \E g : IterEq(g, base, seq, p, n)}
  <1>1. 0 \in S
    <2> DEFINE g == [s \in SUBSET (1 .. 0) |-> base]
    <2>1. \A s \in SUBSET (1 .. 0) : s = {} OBVIOUS
    <2>2. IterEq(g, base, seq, p, 0) BY <2>1, Zenon DEF IterEq
    <2> QED BY <2>2
  <1>2. \A n \in 0 .. last - 1 : n \in S => n + 1 \in S
    <2>1. SUFFICES ASSUME NEW n \in 0 .. last - 1, n \in S PROVE n + 1 \in S BY Zenon
    <2>2. n \in Nat /\ n + 1 \in 0 .. last OBVIOUS
    <2>3. PICK f : IterEq(f, base, seq, p, n) BY <2>1, Zenon
    <2>4. \E g : IterEq(g, base, seq, p, n + 1) BY <2>2, <2>3, IterStep, Zenon
    <2> QED BY <2>2, <2>4, Zenon
  <1>3. last \in 0 .. last OBVIOUS
  <1>4. last \in S
    <2> HIDE DEF S
    <2> QED BY <1>1, <1>2, <1>3, Induction, Zenon
  <1> QED BY <1>4, Zenon

\* The accumulators of a fold, one behind the other.
IsRun(run, base, seq, p) ==
    /\ run[0] = base
    /\ \A i \in 1 .. Len(seq) : run[i] = Op(run[i - 1], seq[i], p)

\* A fold is the end of a run: base, then one step of Op for each element.
LEMMA FoldRuns ==
    ASSUME NEW base, NEW T, NEW seq \in Seq(T), NEW p
    PROVE  \E run : IsRun(run, base, seq, p) /\ Fold(base, seq, p) = run[Len(seq)]
  <1> DEFINE iter == CHOOSE g : IterEq(g, base, seq, p, Len(seq))
             run == [i \in 0 .. Len(seq) |-> iter[1 .. i]]
  <1>1. Len(seq) \in Nat /\ DOMAIN seq = 1 .. Len(seq) OBVIOUS
  <1>2. IterEq(iter, base, seq, p, Len(seq)) BY <1>1, IterExists, Zenon
  <1>3. Fold(base, seq, p) = iter[1 .. Len(seq)]
    BY <1>1, Zenon DEF Fold, FoldLeft, MapThenFoldSet, IterEq
  <1> HIDE DEF iter
  <1>4. \A s \in SUBSET (1 .. Len(seq)) :
           iter[s] = IF s = {} THEN base ELSE Op(iter[s \ {Max(s)}], seq[Max(s)], p)
    BY <1>2 DEF IterEq
  <1>5. run[0] = base
    <2>1. 1 .. 0 = {} /\ 0 \in 0 .. Len(seq) BY <1>1
    <2>2. iter[{}] = base BY <1>4
    <2> QED BY <2>1, <2>2
  <1>6. ASSUME NEW i \in 1 .. Len(seq) PROVE run[i] = Op(run[i - 1], seq[i], p)
    <2>1. i \in Nat /\ 1 .. i \in SUBSET (1 .. i) /\ i \in 1 .. i /\ 1 .. i # {} BY <1>1
    <2>2. Max(1 .. i) = i
      <3>1. \A y \in 1 .. i : i >= y BY <2>1
      <3> QED BY <2>1, <3>1, MaxIs
    <2>3. (1 .. i) \ {i} = 1 .. i - 1 BY <2>1
    <2>4. 1 .. i \in SUBSET (1 .. Len(seq)) BY <1>1
    <2>5. iter[1 .. i] = Op(iter[1 .. i - 1], seq[i], p) BY <1>4, <2>1, <2>2, <2>3, <2>4
    <2>6. i \in 0 .. Len(seq) /\ i - 1 \in 0 .. Len(seq) BY <1>1
    <2> QED BY <2>5, <2>6
  <1>7. run[Len(seq)] = iter[1 .. Len(seq)] BY <1>1
  <1>8. IsRun(run, base, seq, p) BY <1>5, <1>6, Zenon DEF IsRun
  <1> HIDE DEF run
  <1> QED BY <1>3, <1>7, <1>8, Zenon

\* The run is determined: a fold is what any run ends with.
LEMMA FoldIs ==
    ASSUME NEW base, NEW T, NEW seq \in Seq(T), NEW p, NEW h,
           IsRun(h, base, seq, p)
    PROVE  Fold(base, seq, p) = h[Len(seq)]
  <1>1. Len(seq) \in Nat OBVIOUS
  <1>2. PICK run : IsRun(run, base, seq, p) /\ Fold(base, seq, p) = run[Len(seq)]
    BY FoldRuns, Zenon
  <1> DEFINE S == {n \in 0 .. Len(seq) : run[n] = h[n]}
  <1>3. 0 \in S BY <1>1, <1>2 DEF IsRun
  <1>4. \A n \in 0 .. Len(seq) - 1 : n \in S => n + 1 \in S
    <2>1. SUFFICES ASSUME NEW n \in 0 .. Len(seq) - 1, n \in S PROVE n + 1 \in S
      BY Zenon
    <2>2. n + 1 \in 1 .. Len(seq) /\ n + 1 \in 0 .. Len(seq) /\ (n + 1) - 1 = n BY <1>1
    <2>3. run[n + 1] = Op(run[n], seq[n + 1], p) /\ h[n + 1] = Op(h[n], seq[n + 1], p)
      BY <1>2, <2>2 DEF IsRun
    <2> QED BY <2>1, <2>2, <2>3
  <1>5. Len(seq) \in 0 .. Len(seq) BY <1>1
  <1>6. Len(seq) \in S
    <2> HIDE DEF S
    <2> QED BY <1>1, <1>3, <1>4, <1>5, Induction, Zenon
  <1> QED BY <1>2, <1>6

\* The fold over no element.
LEMMA FoldEmpty ==
    ASSUME NEW base, NEW p
    PROVE  Fold(base, <<>>, p) = base
  <1>1. <<>> \in Seq({}) /\ Len(<<>>) = 0 OBVIOUS
  <1>2. PICK run : IsRun(run, base, <<>>, p) /\ Fold(base, <<>>, p) = run[Len(<<>>)]
    BY <1>1, FoldRuns, Zenon
  <1> QED BY <1>1, <1>2 DEF IsRun

\* The fold over one element.
LEMMA FoldOne ==
    ASSUME NEW base, NEW x, NEW p
    PROVE  Fold(base, <<x>>, p) = Op(base, x, p)
  <1>1. <<x>> \in Seq({x}) /\ Len(<<x>>) = 1 /\ <<x>>[1] = x OBVIOUS
  <1>2. PICK run : IsRun(run, base, <<x>>, p) /\ Fold(base, <<x>>, p) = run[Len(<<x>>)]
    BY <1>1, FoldRuns, Zenon
  <1> QED BY <1>1, <1>2 DEF IsRun

\* The fold over two elements.
LEMMA FoldTwo ==
    ASSUME NEW base, NEW x, NEW y, NEW p
    PROVE  Fold(base, <<x, y>>, p) = Op(Op(base, x, p), y, p)
  <1>1. <<x, y>> \in Seq({x, y}) /\ Len(<<x, y>>) = 2 /\ <<x, y>>[1] = x /\ <<x, y>>[2] = y
    OBVIOUS
  <1>2. PICK run : IsRun(run, base, <<x, y>>, p) /\ Fold(base, <<x, y>>, p) = run[Len(<<x, y>>)]
    BY <1>1, FoldRuns, Zenon
  <1>3. run[1] = Op(base, x, p) BY <1>1, <1>2 DEF IsRun
  <1>4. run[2] = Op(run[1], y, p) BY <1>1, <1>2 DEF IsRun
  <1> QED BY <1>1, <1>2, <1>3, <1>4

\* A fold over two sequences folds over one after the other.
LEMMA FoldConcat ==
    ASSUME NEW base, NEW T, NEW s \in Seq(T), NEW t \in Seq(T), NEW p
    PROVE  Fold(base, s \o t, p) = Fold(Fold(base, s, p), t, p)
  <1>1. PICK r : IsRun(r, base, s, p) /\ Fold(base, s, p) = r[Len(s)]
    BY FoldRuns, Zenon
  <1>2. PICK q : IsRun(q, Fold(base, s, p), t, p) /\ Fold(Fold(base, s, p), t, p) = q[Len(t)]
    BY FoldRuns, Zenon
  <1> DEFINE h == [i \in 0 .. Len(s) + Len(t) |->
                     IF i <= Len(s) THEN r[i] ELSE q[i - Len(s)]]
  <1>3. /\ s \o t \in Seq(T) /\ Len(s \o t) = Len(s) + Len(t)
        /\ Len(s) \in Nat /\ Len(t) \in Nat
        /\ \A i \in 1 .. Len(s) : (s \o t)[i] = s[i]
        /\ \A i \in Len(s) + 1 .. Len(s) + Len(t) : (s \o t)[i] = t[i - Len(s)]
    OBVIOUS
  <1>4. h[0] = base BY <1>1, <1>3 DEF IsRun
  <1>5. ASSUME NEW i \in 1 .. Len(s \o t) PROVE h[i] = Op(h[i - 1], (s \o t)[i], p)
    <2>1. i \in 0 .. Len(s) + Len(t) /\ i - 1 \in 0 .. Len(s) + Len(t) BY <1>3
    <2>2. CASE i <= Len(s) BY <1>1, <1>3, <2>1, <2>2 DEF IsRun
    <2>3. CASE i = Len(s) + 1
      <3>1. h[i] = q[1] /\ h[i - 1] = q[0] /\ 1 \in 1 .. Len(t) /\ 1 - 1 = 0
        BY <1>1, <1>2, <1>3, <2>1, <2>3 DEF IsRun
      <3> QED BY <1>2, <1>3, <2>3, <3>1 DEF IsRun
    <2>4. CASE i > Len(s) + 1
      <3>1. i - Len(s) \in 1 .. Len(t) /\ (i - Len(s)) - 1 = (i - 1) - Len(s) BY <1>3, <2>4
      <3>2. h[i] = q[i - Len(s)] /\ h[i - 1] = q[(i - Len(s)) - 1]
        BY <1>3, <2>1, <2>4, <3>1
      <3> QED BY <1>2, <1>3, <2>4, <3>1, <3>2 DEF IsRun
    <2> QED BY <1>3, <2>2, <2>3, <2>4
  <1>6. h[Len(s \o t)] = q[Len(t)]
    <2>1. CASE Len(t) = 0 BY <1>1, <1>2, <1>3, <2>1 DEF IsRun
    <2>2. CASE Len(t) # 0 BY <1>3, <2>2
    <2> QED BY <2>1, <2>2
  <1> HIDE DEF h
  <1>7. IsRun(h, base, s \o t, p) BY <1>4, <1>5, Zenon DEF IsRun
  <1>8. s \o t \in Seq(T) OBVIOUS
  <1>9. Fold(base, s \o t, p) = h[Len(s \o t)] BY <1>8, <1>7, FoldIs, Zenon
  <1> QED BY <1>2, <1>6, <1>9

\* What each step keeps holds all along a run.
LEMMA RunKeeps ==
    ASSUME NEW A, NEW base \in A, NEW T, NEW seq \in Seq(T), NEW p,
           \A a \in A, x \in T : Op(a, x, p) \in A,
           NEW run, IsRun(run, base, seq, p)
    PROVE  \A n \in 0 .. Len(seq) : run[n] \in A
  <1>1. Len(seq) \in Nat OBVIOUS
  <1> DEFINE S == {n \in 0 .. Len(seq) : run[n] \in A}
  <1>2. 0 \in S BY <1>1 DEF IsRun
  <1>3. \A n \in 0 .. Len(seq) - 1 : n \in S => n + 1 \in S
    <2>1. SUFFICES ASSUME NEW n \in 0 .. Len(seq) - 1, n \in S PROVE n + 1 \in S
      BY Zenon
    <2>2. n + 1 \in 1 .. Len(seq) /\ n + 1 \in 0 .. Len(seq) /\ (n + 1) - 1 = n BY <1>1
    <2>3. run[n + 1] = Op(run[n], seq[n + 1], p) /\ seq[n + 1] \in T BY <2>2 DEF IsRun
    <2> QED BY <2>1, <2>2, <2>3
  <1>4. \A n \in 0 .. Len(seq) : n \in S
    <2> HIDE DEF S
    <2> QED BY <1>1, <1>2, <1>3, Induction, Zenon
  <1> QED BY <1>4

\* What each step keeps, the fold keeps.
LEMMA FoldKeeps ==
    ASSUME NEW A, NEW base \in A, NEW T, NEW seq \in Seq(T), NEW p,
           \A a \in A, x \in T : Op(a, x, p) \in A
    PROVE  Fold(base, seq, p) \in A
  <1>1. Len(seq) \in Nat /\ Len(seq) \in 0 .. Len(seq) OBVIOUS
  <1>2. PICK run : IsRun(run, base, seq, p) /\ Fold(base, seq, p) = run[Len(seq)]
    BY FoldRuns, Zenon
  <1>3. run[Len(seq)] \in A BY <1>1, <1>2, RunKeeps, Zenon
  <1> QED BY <1>2, <1>3
=============================================================================
