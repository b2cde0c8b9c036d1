---------------------------- MODULE FoldTheorems ----------------------------
(***************************************************************************)
(* Folds over functions, as SumFunction of the community modules makes     *)
(* them: what they come to is proved by the smallest counterexample, for   *)
(* which the library has first-order facts about well-founded relations.   *)
(***************************************************************************)
EXTENDS Integers, FiniteSetsExt, SequencesExt, FiniteSetTheorems, SequenceTheorems, WellFoundedInduction, TLAPS

-----------------------------------------------------------------------------
(* Smallest counterexamples.  *)

\* A set of subsets of a finite set has a minimal element.
LEMMA MinimalSet ==
  ASSUME NEW S, IsFiniteSet(S), NEW T \in SUBSET SUBSET S, T # {}
  PROVE  \E x \in T : \A y \in T : y \subseteq x => y = x
<1>1. T \subseteq FiniteSubsetsOf(S)
  BY FS_Subset DEF FiniteSubsetsOf
<1>2. PICK x \in T : \A y \in T : ~(<<y, x>> \in StrictSubsetOrdering(S))
  BY <1>1, FS_StrictSubsetOrderingWellFounded, WFMin
<1> QED
  BY <1>2 DEF StrictSubsetOrdering

\* A set of natural numbers has a least element.
LEMMA LeastNatural ==
  ASSUME NEW T, T \subseteq Nat, T # {}
  PROVE  \E n \in T : \A m \in T : n <= m
<1>1. PICK k \in T : TRUE
  OBVIOUS
<1> DEFINE F == {1 .. t : t \in {u \in T : u <= k}}
<1> DEFINE U == 1 .. k
<1>2. F \in SUBSET SUBSET U /\ F # {}
  BY <1>1
<1>3. IsFiniteSet(U)
  BY <1>1, FS_Interval
<1>4. PICK x \in F : \A y \in F : y \subseteq x => y = x
  <2> HIDE DEF F, U
  <2> QED
    BY <1>2, <1>3, MinimalSet
<1>5. PICK n \in T : n <= k /\ x = 1 .. n
  BY <1>4
<1>6. ASSUME NEW m \in T, m < n
      PROVE  FALSE
  <2>1. 1 .. m \in F /\ 1 .. m \subseteq 1 .. n
    BY <1>1, <1>5, <1>6
  <2>2. 1 .. m = 1 .. n
    BY <1>4, <1>5, <2>1
  <2>3. n \in 1 .. n /\ n \notin 1 .. m
    BY <1>6
  <2> QED
    BY <2>2, <2>3
<1> QED
  BY <1>6

\* Counting up: what holds of 0, and of each number after the one before, holds.
LEMMA Counting ==
  ASSUME NEW n \in Nat, NEW T, 0 \in T, \A k \in 1 .. n : k - 1 \in T => k \in T
  PROVE  \A k \in 0 .. n : k \in T
<1> DEFINE F == {k \in 0 .. n : k \notin T}
<1> SUFFICES ASSUME F # {} PROVE FALSE
  OBVIOUS
<1>1. PICK k \in F : \A m \in F : k <= m
  <2>1. F \subseteq Nat
    OBVIOUS
  <2> HIDE DEF F
  <2> QED
    BY <2>1, LeastNatural
<1>2. k # 0 /\ k \in 1 .. n
  OBVIOUS
<1>3. k - 1 \in 0 .. n /\ k - 1 < k
  BY <1>2
<1>4. k - 1 \in T
  BY <1>1, <1>3
<1> QED
  BY <1>2, <1>4

\* A set of numbers from 1 to n has a largest element, which Max returns.
LEMMA MaxOfSome ==
  ASSUME NEW n \in Nat, NEW s \in SUBSET (1 .. n), s # {}
  PROVE  Max(s) \in s /\ \A y \in s : Max(s) >= y
<1> DEFINE T == {n - x : x \in s}
<1>1. T \subseteq Nat /\ T # {}
  <2>1. \A x \in s : x \in 1 .. n
    OBVIOUS
  <2>2. \A x \in s : n - x \in Nat
    BY <2>1
  <2>3. \E x \in s : n - x \in T
    OBVIOUS
  <2> QED
    BY <2>2, <2>3
<1>2. PICK t \in T : \A m \in T : t <= m
  <2> HIDE DEF T
  <2> QED
    BY <1>1, LeastNatural
<1>3. PICK x \in s : t = n - x
  BY <1>2
<1>4. \A y \in s : x >= y
  <2> TAKE y \in s
  <2>1. n - y \in T
    OBVIOUS
  <2>2. n - x <= n - y
    BY <1>2, <1>3, <2>1
  <2> QED
    BY <2>2
<1> QED
  BY <1>3, <1>4 DEF Max

\* An element of a set of numbers that no other exceeds is its maximum.
LEMMA IsMax ==
  ASSUME NEW S, S \subseteq Int, NEW x \in S, \A y \in S : x >= y
  PROVE  Max(S) = x
<1>1. Max(S) \in S /\ \A y \in S : Max(S) >= y
  BY DEF Max
<1>2. Max(S) >= x /\ x >= Max(S) /\ Max(S) \in Int
  BY <1>1
<1> QED
  BY <1>2

LEMMA IsMin ==
  ASSUME NEW S, S \subseteq Int, NEW x \in S, \A y \in S : x <= y
  PROVE  Min(S) = x
<1>1. Min(S) \in S /\ \A y \in S : Min(S) <= y
  BY DEF Min
<1>2. Min(S) <= x /\ x <= Min(S) /\ Min(S) \in Int
  BY <1>1
<1> QED
  BY <1>2

\* The last of the first k numbers.
LEMMA LastOfPrefix ==
  ASSUME NEW k \in Nat \ {0}
  PROVE  Max(1 .. k) = k /\ (1 .. k) \ {k} = 1 .. k - 1 /\ 1 .. k # {}
<1> DEFINE s == 1 .. k
<1>1. s \in SUBSET (1 .. k) /\ s # {} /\ k \in s /\ k \in Nat
  OBVIOUS
<1> HIDE DEF s
<1>2. Max(s) \in s /\ Max(s) >= k
  BY <1>1, MaxOfSome
<1>3. Max(s) = k
  BY <1>2 DEF s
<1>4. s \ {k} = 1 .. k - 1
  BY DEF s
<1> QED
  BY <1>1, <1>3, <1>4 DEF s

-----------------------------------------------------------------------------
(* Recursion over the subsets of a finite set: of each one element is      *)
(* taken, and the rest is folded before it.                                *)

\* ch chooses an element of each subset of S.
Chooses(ch, S) == \A s \in SUBSET S : s # {} => ch[s] \in s

Recurs(g, S, ch, st, base) ==
  g = [s \in SUBSET S |-> IF s = {} THEN base ELSE st[<<ch[s], g[s \ {ch[s]}]>>]]

Level(S, k) == {s \in SUBSET S : Cardinality(s) <= k}

RecursTo(g, S, ch, st, base, k) ==
  g = [s \in Level(S, k) |-> IF s = {} THEN base ELSE st[<<ch[s], g[s \ {ch[s]}]>>]]

LEMMA OneTaken ==
  ASSUME NEW S, IsFiniteSet(S), NEW s \in SUBSET S, NEW x \in s
  PROVE  Cardinality(s) \in Nat \ {0} /\ Cardinality(s \ {x}) = Cardinality(s) - 1
<1>1. IsFiniteSet(s) /\ Cardinality(s) \in Nat
  BY FS_Subset, FS_CardinalityType
<1>2. Cardinality(s) # 0
  BY <1>1, FS_EmptySet
<1>3. Cardinality(s \ {x}) = Cardinality(s) - 1
  BY <1>1, FS_RemoveElement
<1> QED
  BY <1>1, <1>2, <1>3

LEMMA RecursUpTo ==
  ASSUME NEW S, IsFiniteSet(S), NEW ch, Chooses(ch, S), NEW st, NEW base, NEW n \in Nat
  PROVE  \E g : RecursTo(g, S, ch, st, base, n)
<1> DEFINE T == {k \in Nat : \E g : RecursTo(g, S, ch, st, base, k)}
<1>1. 0 \in T
  <2>1. Level(S, 0) = {{}}
    <3>1. ASSUME NEW s \in SUBSET S, s # {}
          PROVE  ~(Cardinality(s) <= 0)
      <4>1. Cardinality(s) \in Nat \ {0}
        BY <3>1, OneTaken
      <4> QED
        BY <4>1
    <3>2. Cardinality({}) <= 0
      BY FS_EmptySet
    <3> QED
      BY <3>1, <3>2 DEF Level
  <2> DEFINE g == [s \in {{}} |-> base]
  <2>2. g = [s \in {{}} |-> IF s = {} THEN base ELSE st[<<ch[s], g[s \ {ch[s]}]>>]]
    OBVIOUS
  <2>3. RecursTo(g, S, ch, st, base, 0)
    BY <2>1, <2>2 DEF RecursTo
  <2> QED
    BY <2>3
<1>2. ASSUME NEW k \in 1 .. n, k - 1 \in T PROVE k \in T
  <2>1. PICK g : RecursTo(g, S, ch, st, base, k - 1)
    BY <1>2
  <2> DEFINE h == [s \in Level(S, k) |-> IF s = {} THEN base ELSE st[<<ch[s], g[s \ {ch[s]}]>>]]
  <2>2. \A s \in Level(S, k - 1) : s \in Level(S, k)
    BY FS_Subset, FS_CardinalityType DEF Level
  <2>3. \A s \in Level(S, k - 1) : g[s] = h[s]
    BY <2>1, <2>2 DEF RecursTo
  <2>4. \A s \in Level(S, k) : s # {} => s \ {ch[s]} \in Level(S, k - 1)
    BY OneTaken DEF Level, Chooses
  <2>5. RecursTo(h, S, ch, st, base, k)
    BY <2>3, <2>4, Zenon DEF RecursTo
  <2> QED
    BY <2>5
<1> HIDE DEF T
<1>3. \A k \in 0 .. n : k \in T
  BY <1>1, <1>2, Counting
<1> QED
  BY <1>3 DEF T

LEMMA RecursionDefined ==
  ASSUME NEW S, IsFiniteSet(S), NEW ch, Chooses(ch, S), NEW st, NEW base
  PROVE  \E g : Recurs(g, S, ch, st, base)
<1>1. PICK g : RecursTo(g, S, ch, st, base, Cardinality(S))
  BY RecursUpTo, FS_CardinalityType
<1>2. Level(S, Cardinality(S)) = SUBSET S
  BY FS_Subset DEF Level
<1>3. Recurs(g, S, ch, st, base)
  BY <1>1, <1>2 DEF RecursTo, Recurs
<1> QED
  BY <1>3

LEMMA RecursionTyped ==
  ASSUME NEW S, IsFiniteSet(S), NEW ch, Chooses(ch, S), NEW A, NEW base \in A,
         NEW st \in [S \X A -> A], NEW g, Recurs(g, S, ch, st, base)
  PROVE  \A s \in SUBSET S : g[s] \in A
<1> DEFINE T == {s \in SUBSET S : g[s] \notin A}
<1> SUFFICES ASSUME T # {} PROVE FALSE
  OBVIOUS
<1>1. PICK s \in T : \A y \in T : y \subseteq s => y = s
  <2>1. T \in SUBSET SUBSET S
    OBVIOUS
  <2> HIDE DEF T
  <2> QED
    BY <2>1, MinimalSet
<1>2. s \in SUBSET S /\ g[s] \notin A
  OBVIOUS
<1>3. s # {}
  BY <1>2 DEF Recurs
<1>4. ch[s] \in s
  BY <1>2, <1>3 DEF Chooses
<1> DEFINE r == s \ {ch[s]}
<1>5. r \in SUBSET S /\ r \subseteq s /\ r # s
  BY <1>2, <1>4
<1>6. g[r] \in A
  BY <1>1, <1>5
<1>7. g[s] = st[<<ch[s], g[r]>>]
  BY <1>2, <1>3 DEF Recurs
<1>8. <<ch[s], g[r]>> \in S \X A
  BY <1>2, <1>4, <1>6
<1> QED
  BY <1>2, <1>7, <1>8

-----------------------------------------------------------------------------
(* FoldLeft: the last element is taken first.  A step is the function st   *)
(* of an element and what the elements before it come to.                  *)

Folds(g, seq, st, base) ==
  g = [s \in SUBSET DOMAIN seq |->
         IF s = {} THEN base ELSE st[<<seq[Max(s)], g[s \ {Max(s)}]>>]]

Within(g, S, A) == \A s \in S : g[s] \in A

LEMMA LeftFoldDefined ==
  ASSUME NEW A, NEW base \in A, NEW X, NEW seq \in Seq(X), NEW st \in [X \X A -> A]
  PROVE  \E g : Folds(g, seq, st, base) /\ Within(g, SUBSET DOMAIN seq, A)
<1> DEFINE S == DOMAIN seq
           ch == [s \in SUBSET S |-> Max(s)]
           next == [p \in S \X A |-> st[<<seq[p[1]], p[2]>>]]
<1>1. S = 1 .. Len(seq) /\ Len(seq) \in Nat /\ \A i \in S : seq[i] \in X
  BY LenProperties
<1>2. IsFiniteSet(S)
  BY <1>1, FS_Interval
<1>3. Chooses(ch, S)
  BY <1>1, MaxOfSome DEF Chooses
<1>4. next \in [S \X A -> A]
  BY <1>1
<1> HIDE DEF next, S
<1>5. PICK g : Recurs(g, S, ch, next, base)
  BY <1>2, <1>3, RecursionDefined
<1>6. \A s \in SUBSET S : g[s] \in A
  <2> HIDE DEF ch
  <2> QED
    BY <1>2, <1>3, <1>4, <1>5, RecursionTyped
<1>7. \A s \in SUBSET S : s # {} =>
        next[<<ch[s], g[s \ {ch[s]}]>>] = st[<<seq[Max(s)], g[s \ {Max(s)}]>>]
  <2> TAKE s \in SUBSET S
  <2>1. SUFFICES ASSUME s # {}
        PROVE next[<<ch[s], g[s \ {ch[s]}]>>] = st[<<seq[Max(s)], g[s \ {Max(s)}]>>]
    OBVIOUS
  <2>2. ch[s] = Max(s) /\ Max(s) \in S /\ s \ {Max(s)} \in SUBSET S
    BY <2>1, <1>3 DEF Chooses
  <2>3. <<Max(s), g[s \ {Max(s)}]>> \in S \X A
    BY <1>6, <2>2
  <2> QED
    BY <2>2, <2>3 DEF next
<1>8. g = [s \in SUBSET S |-> IF s = {} THEN base ELSE st[<<seq[Max(s)], g[s \ {Max(s)}]>>]]
  BY <1>5, <1>7, Zenon DEF Recurs
<1> QED
  BY <1>6, <1>8 DEF S, Folds, Within

\* What the fold comes to on each prefix: the values of the loop's variables.
Steps(h, seq, st, base, A) ==
  /\ h[{}] = base
  /\ \A k \in 1 .. Len(seq) :
       h[1 .. k - 1] \in A => h[1 .. k] = st[<<seq[k], h[1 .. k - 1]>>]

Passes(r, h, seq, st, base, A) ==
  /\ r[0] = base
  /\ \A k \in 1 .. Len(seq) : r[k] = st[<<seq[k], r[k - 1]>>]
  /\ \A k \in 0 .. Len(seq) : r[k] \in A
  /\ h[DOMAIN seq] = r[Len(seq)]

LEMMA PrefixesUnfold ==
  ASSUME NEW A, NEW base \in A, NEW X, NEW seq \in Seq(X), NEW st \in [X \X A -> A],
         NEW h, Steps(h, seq, st, base, A)
  PROVE  \E r : Passes(r, h, seq, st, base, A)
<1> DEFINE n == Len(seq)
           r == [k \in 0 .. n |-> h[1 .. k]]
           T == {k \in 0 .. n : h[1 .. k] \in A}
<1>1. n \in Nat /\ DOMAIN seq = 1 .. n /\ \A k \in 1 .. n : seq[k] \in X
  BY LenProperties
<1>2. 1 .. 0 = {} /\ h[1 .. 0] = base
  <2>1. 1 .. 0 = {}
    OBVIOUS
  <2> QED
    BY <2>1 DEF Steps
<1>3. 0 \in T
  BY <1>1, <1>2
<1>4. ASSUME NEW k \in 1 .. n, k - 1 \in T PROVE k \in T
  <2>1. h[1 .. k - 1] \in A
    BY <1>4
  <2>2. h[1 .. k] = st[<<seq[k], h[1 .. k - 1]>>]
    BY <2>1 DEF Steps
  <2>3. <<seq[k], h[1 .. k - 1]>> \in X \X A
    BY <1>1, <2>1
  <2>4. h[1 .. k] \in A
    BY <2>2, <2>3
  <2> QED
    BY <1>1, <2>4
<1>5. \A k \in 0 .. n : k \in T
  <2> HIDE DEF T
  <2> QED
    BY <1>1, <1>3, <1>4, Counting
<1>6. \A k \in 0 .. n : h[1 .. k] \in A
  BY <1>5
<1>7. \A k \in 0 .. n : r[k] = h[1 .. k]
  OBVIOUS
<1>8. 0 \in 0 .. n /\ n \in 0 .. n /\ \A k \in 1 .. n : k \in 0 .. n /\ k - 1 \in 0 .. n
  BY <1>1
<1>9. r[0] = base /\ r[n] = h[1 .. n] /\ h[1 .. n] = h[DOMAIN seq]
  BY <1>1, <1>2, <1>7, <1>8
<1> HIDE DEF r, n
<1>10. \A k \in 1 .. n : r[k] = st[<<seq[k], r[k - 1]>>]
  <2> TAKE k \in 1 .. n
  <2>1. r[k] = h[1 .. k] /\ r[k - 1] = h[1 .. k - 1] /\ h[1 .. k - 1] \in A
    BY <1>6, <1>7, <1>8
  <2>2. h[1 .. k] = st[<<seq[k], h[1 .. k - 1]>>]
    BY <2>1 DEF n, Steps
  <2> QED
    BY <2>1, <2>2
<1>11. \A k \in 0 .. n : r[k] \in A
  BY <1>6, <1>7
<1> QED
  BY <1>9, <1>10, <1>11 DEF n, Passes

-----------------------------------------------------------------------------
(* Sums. *)

\* The element the community modules' folds take from a set.
Pick(s) == CHOOSE x \in s : TRUE

\* g holds the sums of f over all subsets of S.
Unfolds(g, f, S) ==
  g = [s \in SUBSET S |-> IF s = {} THEN 0 ELSE f[Pick(s)] + g[s \ {Pick(s)}]]

LEMMA SumsDefined ==
  ASSUME NEW S, IsFiniteSet(S), NEW f \in [S -> Int]
  PROVE  \E g : Unfolds(g, f, S) /\ \A s \in SUBSET S : g[s] \in Int
<1> DEFINE ch == [s \in SUBSET S |-> Pick(s)]
           st == [p \in S \X Int |-> f[p[1]] + p[2]]
<1>1. Chooses(ch, S)
  BY DEF Chooses, Pick
<1>2. st \in [S \X Int -> Int]
  OBVIOUS
<1> HIDE DEF st
<1>3. PICK g : Recurs(g, S, ch, st, 0)
  BY <1>1, RecursionDefined
<1>4. \A s \in SUBSET S : g[s] \in Int
  <2> DEFINE A == Int
  <2>1. st \in [S \X A -> A] /\ 0 \in A
    BY <1>2
  <2> HIDE DEF ch, A
  <2>2. \A s \in SUBSET S : g[s] \in A
    BY <1>1, <1>3, <2>1, RecursionTyped
  <2> QED
    BY <2>2 DEF A
<1>5. \A s \in SUBSET S : s # {} =>
        st[<<ch[s], g[s \ {ch[s]}]>>] = f[Pick(s)] + g[s \ {Pick(s)}]
  <2> TAKE s \in SUBSET S
  <2>1. SUFFICES ASSUME s # {} PROVE st[<<ch[s], g[s \ {ch[s]}]>>] = f[Pick(s)] + g[s \ {Pick(s)}]
    OBVIOUS
  <2>2. ch[s] = Pick(s) /\ Pick(s) \in S /\ s \ {Pick(s)} \in SUBSET S
    BY <2>1, <1>1 DEF Chooses
  <2>3. g[s \ {Pick(s)}] \in Int
    BY <1>4, <2>2
  <2> QED
    BY <2>2, <2>3 DEF st
<1>6. Unfolds(g, f, S)
  BY <1>3, <1>5, Zenon DEF Recurs, Unfolds
<1> QED
  BY <1>4, <1>6

\* All functions that unfold are the one: what unfolds is a number on each subset.
LEMMA SumsTyped ==
  ASSUME NEW S, IsFiniteSet(S), NEW f \in [S -> Int], NEW h, Unfolds(h, f, S)
  PROVE  \A s \in SUBSET S : h[s] \in Int
<1> DEFINE T == {s \in SUBSET S : h[s] \notin Int}
<1> SUFFICES ASSUME T # {} PROVE FALSE
  OBVIOUS
<1>1. PICK s \in T : \A y \in T : y \subseteq s => y = s
  <2>1. T \in SUBSET SUBSET S
    OBVIOUS
  <2> HIDE DEF T
  <2> QED
    BY <2>1, MinimalSet
<1>2. s \in SUBSET S /\ h[s] \notin Int
  OBVIOUS
<1>3. s # {}
  BY <1>2 DEF Unfolds
<1>4. Pick(s) \in s /\ f[Pick(s)] \in Int
  BY <1>2, <1>3 DEF Pick
<1> DEFINE r == s \ {Pick(s)}
<1>5. r \in SUBSET S /\ r \subseteq s /\ r # s
  BY <1>2, <1>4
<1>6. h[r] \in Int
  BY <1>1, <1>5
<1>7. h[s] = f[Pick(s)] + h[r]
  BY <1>2, <1>3 DEF Unfolds
<1> QED
  BY <1>2, <1>4, <1>6, <1>7

\* The order in which a sum is taken does not matter: any element may come first.
LEMMA SumTakesAny ==
  ASSUME NEW S, IsFiniteSet(S), NEW f \in [S -> Int], NEW h, Unfolds(h, f, S),
         NEW s \in SUBSET S, NEW x \in s
  PROVE  h[s] = f[x] + h[s \ {x}]
<1> DEFINE T == {t \in SUBSET S : \E y \in t : h[t] # f[y] + h[t \ {y}]}
<1> SUFFICES ASSUME T # {} PROVE FALSE
  OBVIOUS
<1>1. PICK t \in T : \A y \in T : y \subseteq t => y = t
  <2>1. T \in SUBSET SUBSET S
    OBVIOUS
  <2> HIDE DEF T
  <2> QED
    BY <2>1, MinimalSet
<1>2. PICK y \in t : h[t] # f[y] + h[t \ {y}]
  BY <1>1
<1> DEFINE p == Pick(t)
<1>3. t \in SUBSET S /\ p \in t
  BY <1>2 DEF Pick
<1>4. h[t] = f[p] + h[t \ {p}]
  BY <1>2, <1>3 DEF Unfolds
<1> HIDE DEF p
<1>5. p # y
  BY <1>2, <1>4
<1> DEFINE r == t \ {p, y}
<1>6. t \ {p} \in SUBSET S /\ t \ {y} \in SUBSET S /\ r \in SUBSET S
      /\ t \ {p} # t /\ t \ {y} # t /\ y \in t \ {p} /\ p \in t \ {y}
      /\ (t \ {p}) \ {y} = r /\ (t \ {y}) \ {p} = r
  BY <1>2, <1>3, <1>5
<1>7. h[t \ {p}] = f[y] + h[r]
  BY <1>1, <1>6
<1>8. h[t \ {y}] = f[p] + h[r]
  BY <1>1, <1>6
<1>9. h[r] \in Int /\ f[p] \in Int /\ f[y] \in Int
  BY <1>3, <1>6, SumsTyped
<1> QED
  BY <1>2, <1>4, <1>7, <1>8, <1>9

\* h holds the sums of f over all subsets of S, however they are taken.
AddsUp(h, f, S) ==
  /\ h[{}] = 0
  /\ \A s \in SUBSET S : h[s] \in Int
  /\ \A s \in SUBSET S : \A x \in s : h[s] = f[x] + h[s \ {x}]

LEMMA UnfoldsAddsUp ==
  ASSUME NEW S, IsFiniteSet(S), NEW f \in [S -> Int], NEW h, Unfolds(h, f, S)
  PROVE  AddsUp(h, f, S)
<1>1. h[{}] = 0
  BY DEF Unfolds
<1>2. \A s \in SUBSET S : h[s] \in Int
  BY SumsTyped
<1>3. \A s \in SUBSET S : \A x \in s : h[s] = f[x] + h[s \ {x}]
  <2> SUFFICES ASSUME NEW s \in SUBSET S, NEW x \in s PROVE h[s] = f[x] + h[s \ {x}]
    OBVIOUS
  <2> QED
    BY SumTakesAny
<1> QED
  BY <1>1, <1>2, <1>3 DEF AddsUp

LEMMA AddsUpDefined ==
  ASSUME NEW S, IsFiniteSet(S), NEW f \in [S -> Int]
  PROVE  \E h : AddsUp(h, f, S)
BY SumsDefined, UnfoldsAddsUp

LEMMA SumDefined ==
  ASSUME NEW S, IsFiniteSet(S), NEW f \in [S -> Int]
  PROVE  \E h : Unfolds(h, f, S) /\ SumFunction(f) = h[S]
<1> DEFINE h == CHOOSE k : Unfolds(k, f, S)
<1>1. Unfolds(h, f, S)
  BY SumsDefined
<1>2. SumFunction(f) = h[S]
  BY DEF SumFunction, SumFunctionOnSet, FoldFunctionOnSet, MapThenFoldSet, Unfolds, Pick
<1> QED
  BY <1>1, <1>2

\* The sums of the first k numbers, one after the other.
LEMMA PartialSums ==
  ASSUME NEW n \in Nat, NEW f \in [1 .. n -> Int]
  PROVE  \E r : /\ r[0] = 0
                /\ \A k \in 1 .. n : r[k] = r[k - 1] + f[k]
                /\ \A k \in 0 .. n : r[k] \in Int
<1> DEFINE S == 1 .. n
<1>1. IsFiniteSet(S)
  BY FS_Interval
<1>2. f \in [S -> Int]
  OBVIOUS
<1>3. PICK h : AddsUp(h, f, S)
  <2> HIDE DEF S
  <2> QED
    BY <1>1, <1>2, AddsUpDefined
<1>8. \A s \in SUBSET S : \A x \in s : h[s] = f[x] + h[s \ {x}]
  BY <1>3 DEF AddsUp
<1> DEFINE r == [k \in 0 .. n |-> h[1 .. k]]
<1>4. \A k \in 0 .. n : 1 .. k \in SUBSET S
  OBVIOUS
<1>5. \A k \in 0 .. n : r[k] \in Int
  BY <1>3, <1>4 DEF AddsUp
<1>6. r[0] = 0
  <2>1. 1 .. 0 = {} /\ r[0] = h[1 .. 0]
    OBVIOUS
  <2>2. h[{}] = 0
    BY <1>3 DEF AddsUp
  <2> QED
    BY <2>1, <2>2
<1>7. \A k \in 1 .. n : r[k] = r[k - 1] + f[k]
  <2> TAKE k \in 1 .. n
  <2> DEFINE s == 1 .. k
  <2>1. s \in SUBSET S /\ k \in s /\ s \ {k} = 1 .. k - 1
    OBVIOUS
  <2>2. h[s] = f[k] + h[s \ {k}]
    BY <1>8, <2>1
  <2>3. r[k] = h[s] /\ r[k - 1] = h[s \ {k}]
    <3>1. k \in 0 .. n /\ k - 1 \in 0 .. n
      OBVIOUS
    <3>2. r[k] = h[1 .. k] /\ r[k - 1] = h[1 .. k - 1]
      BY <3>1
    <3> QED
      BY <2>1, <3>2
  <2>4. h[s \ {k}] \in Int /\ f[k] \in Int
    BY <1>3, <2>1 DEF AddsUp
  <2> HIDE DEF r, s
  <2> QED
    BY <2>2, <2>3, <2>4
<1> QED
  BY <1>5, <1>6, <1>7

LEMMA SumOfAlmostConstant ==
  ASSUME NEW n \in Nat \ {0}, NEW a \in Int, NEW b \in Int
  PROVE  SumFunction([i \in 1 .. n |-> IF i = n THEN b ELSE a]) = (n - 1) * a + b
<1> DEFINE f == [i \in 1 .. n |-> IF i = n THEN b ELSE a]
<1> DEFINE S == 1 .. n
<1>1. IsFiniteSet(S) /\ Cardinality(S) = n /\ DOMAIN f = S /\ n \in S
  BY FS_Interval
<1>2. PICK h : Unfolds(h, f, S) /\ SumFunction(f) = h[S]
  <2>1. f \in [S -> Int]
    OBVIOUS
  <2> HIDE DEF f, S
  <2> QED
    BY <1>1, <2>1, SumDefined
<1> DEFINE Total(s) == IF n \in s THEN (Cardinality(s) - 1) * a + b ELSE Cardinality(s) * a
<1> DEFINE T == {s \in SUBSET S : h[s] # Total(s)}
<1>3. ASSUME T # {}
      PROVE  FALSE
  <2>1. PICK s \in T : \A y \in T : y \subseteq s => y = s
    <3>1. T \in SUBSET SUBSET S
      OBVIOUS
    <3>2. IsFiniteSet(S)
      BY <1>1
    <3> HIDE DEF T, S
    <3> QED
      BY <1>3, <3>1, <3>2, MinimalSet
  <2>2. s # {}
    <3>1. h[{}] = 0 /\ n \notin {}
      BY <1>2 DEF Unfolds
    <3>2. Cardinality({}) = 0
      BY FS_EmptySet
    <3>3. h[{}] = Total({})
      BY <3>1, <3>2
    <3> QED
      BY <2>1, <3>3
  <2> DEFINE r == s \ {Pick(s)}
  <2>3. Pick(s) \in s /\ Cardinality(s) \in Nat /\ Cardinality(r) = Cardinality(s) - 1
    <3>1. Pick(s) \in s
      BY <2>2 DEF Pick
    <3>2. IsFiniteSet(S) /\ s \in SUBSET S
      BY <1>1
    <3> HIDE DEF S
    <3> QED
      BY <3>1, <3>2, OneTaken
  <2>4. h[r] = Total(r)
    BY <2>1, <2>3
  <2>5. h[s] = f[Pick(s)] + h[r]
    BY <1>2, <2>1, <2>2 DEF Unfolds
  <2>6. f[Pick(s)] = IF Pick(s) = n THEN b ELSE a
    BY <2>1, <2>3
  <2>7. Pick(s) = n => n \notin r
    OBVIOUS
  <2>8. Pick(s) # n => (n \in s <=> n \in r)
    OBVIOUS
  <2> HIDE DEF r
  <2>9. h[s] = Total(s)
    <3> DEFINE c == Cardinality(s)
    <3>1. c \in Nat /\ (c - 1) * a \in Int /\ a + (c - 1) * a = c * a
      BY <2>3
    <3>2. a + (c - 1 - 1) * a = (c - 1) * a
      BY <2>3
    <3>3. (c - 1 - 1) * a \in Int
      BY <2>3
    <3> QED
      BY <2>3, <2>4, <2>5, <2>6, <2>7, <2>8, <3>1, <3>2, <3>3
  <2> QED
    BY <2>1, <2>9
<1>4. h[S] = Total(S)
  BY <1>3
<1> QED
  BY <1>1, <1>2, <1>4
=============================================================================
