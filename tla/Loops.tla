-------------------------------- MODULE Loops --------------------------------
(***************************************************************************)
(* Facts about loops that the proofs of the components share.  A loop of   *)
(* the code is a recursive function here: of the number of turns made, or  *)
(* of what is left to be worked on.  To the provers such a function is any *)
(* that solves its equation; that there is one, and what all its values    *)
(* have in common, takes induction.                                        *)
(*                                                                         *)
(* The induction is over a set of numbers, not over a formula: that a      *)
(* nonempty set of naturals has a least member is all it needs.            *)
(***************************************************************************)
EXTENDS Integers, WellFoundedInduction, TLAPS

\* A set of naturals with 0 and with the successor of each member is all of Nat.
LEMMA NatSetInduction ==
    ASSUME NEW S, 0 \in S, \A n \in Nat : n \in S => n + 1 \in S
    PROVE  Nat \subseteq S
<1> DEFINE R == {ss \in Nat \X Nat : ss[1] < ss[2]}
           T == Nat \ S
<1>1. IsWellFoundedOn(R, Nat)
  BY NatLessThanWellFounded DEF OpToRel
<1>2. SUFFICES ASSUME T # {} PROVE FALSE
  OBVIOUS
<1>3. T \subseteq Nat
  OBVIOUS
<1>4. PICK x \in T : \A y \in T : ~ (<<y, x>> \in R)
  <2> HIDE DEF R, T
  <2> QED BY <1>1, <1>2, <1>3, WFMin
<1>5. x \in Nat /\ x # 0 /\ x - 1 \in Nat /\ x - 1 < x
  OBVIOUS
<1>6. x - 1 \in S
  BY <1>4, <1>5
<1>7. (x - 1) + 1 \in S /\ (x - 1) + 1 = x
  BY <1>5, <1>6
<1> QED
  BY <1>7

\* The same for an interval.
LEMMA UpToInduction ==
    ASSUME NEW N \in Nat, NEW S, 0 \in S, \A n \in 1..N : n - 1 \in S => n \in S
    PROVE  0..N \subseteq S
<1> DEFINE T == {n \in Nat : n <= N => n \in S}
<1>1. 0 \in T
  OBVIOUS
<1>2. ASSUME NEW n \in Nat, n \in T PROVE n + 1 \in T
  BY <1>2
<1>3. Nat \subseteq T
  <2> HIDE DEF T
  <2> QED BY <1>1, <1>2, NatSetInduction
<1> QED
  BY <1>3

\* Of the naturals up to N any that there are have a greatest.
LEMMA GreatestExists ==
    ASSUME NEW N \in Nat, NEW T, T \subseteq 1..N, T # {}
    PROVE  \E i \in T : \A j \in T : j <= i
<1> DEFINE S == {n \in 0..N : (\E i \in T : i >= N - n) => \E i \in T : \A j \in T : j <= i}
<1>1. 0 \in S
  OBVIOUS
<1>2. ASSUME NEW n \in 1..N, n - 1 \in S PROVE n \in S
  <2>1. CASE \E i \in T : i >= N - (n - 1)
    BY <1>2, <2>1
  <2>2. CASE ~ \E i \in T : i >= N - (n - 1)
    <3>1. \A j \in T : j <= N - n
      BY <2>2
    <3>2. (\E i \in T : i >= N - n) => \E i \in T : \A j \in T : j <= i
      BY <3>1
    <3> QED BY <3>2
  <2> QED BY <2>1, <2>2
<1>3. N \in S
  <2> HIDE DEF S
  <2>1. 0..N \subseteq S
    BY <1>1, <1>2, UpToInduction
  <2> QED BY <2>1
<1>4. N - N = 0
  OBVIOUS
<1>5. PICK k \in T : TRUE
  OBVIOUS
<1>6. k >= N - N
  BY <1>4, <1>5
<1> QED
  BY <1>3, <1>6

\* N turns, each a function on A.
Turns(N, A) == [1..N -> [A -> A]]

\* g is the state from turn to turn of the loop that starts with a.
IsLoop(g, N, A, a, step) ==
    g \in [0..N -> A] /\ g[0] = a /\ \A i \in 1..N : g[i] = step[i][g[i - 1]]

\* A loop whose turns stay within A has a function of the turns made.
LEMMA LoopExists ==
    ASSUME NEW N \in Nat, NEW A, NEW a \in A, NEW step \in Turns(N, A)
    PROVE  \E g : IsLoop(g, N, A, a, step)
<1> USE DEF Turns
<1> DEFINE Reaches(n) == \E g \in [0..N -> A] :
                             g[0] = a /\ \A i \in 1..N : i <= n => g[i] = step[i][g[i - 1]]
           S == {n \in 0..N : Reaches(n)}
<1>1. 0 \in S
  <2>1. [i \in 0..N |-> a] \in [0..N -> A] /\ [i \in 0..N |-> a][0] = a
    OBVIOUS
  <2>2. \A i \in 1..N : ~(i <= 0)
    OBVIOUS
  <2>3. Reaches(0)
    BY <2>1, <2>2
  <2> QED BY <2>3
<1>2. ASSUME NEW n \in 1..N, n - 1 \in S PROVE n \in S
  <2>1. PICK g \in [0..N -> A] :
            g[0] = a /\ \A i \in 1..N : i <= n - 1 => g[i] = step[i][g[i - 1]]
    BY <1>2
  <2>2. n \in 0..N /\ n - 1 \in 0..N /\ n # 0 /\ n # n - 1
    OBVIOUS
  <2>3. step[n] \in [A -> A] /\ g[n - 1] \in A
    BY <2>2
  <2>4. step[n][g[n - 1]] \in A
    BY <2>3
  <2> DEFINE v == step[n][g[n - 1]]
             h == [g EXCEPT ![n] = v]
  <2>5. h \in [0..N -> A] /\ h[n] = v /\ \A i \in 0..N : i # n => h[i] = g[i]
    BY <2>2, <2>4
  <2>6. ASSUME NEW i \in 1..N, i <= n PROVE h[i] = step[i][h[i - 1]]
    <3> HIDE DEF h
    <3>1. i - 1 \in 0..N /\ i \in 0..N /\ i - 1 # n
      BY <2>6
    <3>2. h[i - 1] = g[i - 1]
      BY <2>5, <3>1
    <3>3. CASE i = n
      BY <3>2, <3>3, <2>5
    <3>4. CASE i # n
      <4>1. i <= n - 1
        BY <3>4, <2>6
      <4> QED BY <4>1, <3>1, <3>2, <3>4, <2>1, <2>5
    <3> QED BY <3>3, <3>4
  <2>7. h[0] = a
    BY <2>1, <2>2, <2>5
  <2> QED
    <3> HIDE DEF h
    <3> QED BY <2>2, <2>5, <2>6, <2>7
<1>3. 0..N \subseteq S
  <2> HIDE DEF S
  <2> QED BY <1>1, <1>2, UpToInduction
<1>4. Reaches(N)
  BY <1>3
<1> QED
  BY <1>4 DEF IsLoop

-----------------------------------------------------------------------------
(* Recursion over data: f is its own image under step, which at s only looks *)
(* at where a measure is smaller than at s.                                  *)

\* What turns functions from S to R into such functions.
Functionals(S, R) == [[S -> R] -> [S -> R]]

LooksBelow(step, S, R, measure) ==
    \A f, g \in [S -> R], s \in S :
        (\A u \in S : measure[u] < measure[s] => f[u] = g[u]) => step[f][s] = step[g][s]

\* f is its own image where the measure is below n.
Solves(f, n, step, S, measure) == \A s \in S : measure[s] < n => f[s] = step[f][s]

LEMMA SolutionsAgree ==
    ASSUME NEW S, NEW R, NEW measure \in [S -> Nat], NEW step \in Functionals(S, R),
           LooksBelow(step, S, R, measure),
           NEW n \in Nat, NEW f \in [S -> R], NEW g \in [S -> R],
           Solves(f, n, step, S, measure), Solves(g, n, step, S, measure)
    PROVE  \A s \in S : measure[s] < n => f[s] = g[s]
<1> DEFINE T == {k \in 0..n : \A s \in S : measure[s] < k => f[s] = g[s]}
<1>1. 0 \in T
  <2>1. \A s \in S : ~(measure[s] < 0)
    OBVIOUS
  <2> QED BY <2>1
<1>2. ASSUME NEW k \in 1..n, k - 1 \in T PROVE k \in T
  <2>1. \A s \in S : measure[s] < k - 1 => f[s] = g[s]
    BY <1>2
  <2>2. ASSUME NEW s \in S, measure[s] < k PROVE f[s] = g[s]
    <3>1. \A u \in S : measure[u] < measure[s] => measure[u] < k - 1
      BY <2>2
    <3>2. \A u \in S : measure[u] < measure[s] => f[u] = g[u]
      BY <2>1, <3>1
    <3>3. step[f][s] = step[g][s]
      BY <3>2 DEF LooksBelow
    <3>4. measure[s] < n
      BY <2>2
    <3> QED BY <3>3, <3>4 DEF Solves
  <2> QED BY <2>2
<1>3. 0..n \subseteq T
  <2> HIDE DEF T
  <2> QED BY <1>1, <1>2, UpToInduction
<1>4. n \in T
  BY <1>3
<1> QED
  BY <1>4

LEMMA SolutionsExist ==
    ASSUME NEW S, NEW R, NEW r \in R, NEW measure \in [S -> Nat], NEW step \in Functionals(S, R),
           LooksBelow(step, S, R, measure), NEW n \in Nat
    PROVE  \E f \in [S -> R] : Solves(f, n, step, S, measure)
<1> DEFINE T == {k \in Nat : \E f \in [S -> R] : Solves(f, k, step, S, measure)}
<1>1. 0 \in T
  <2>1. \A s \in S : ~(measure[s] < 0)
    OBVIOUS
  <2>2. [s \in S |-> r] \in [S -> R]
    OBVIOUS
  <2> QED BY <2>1, <2>2 DEF Solves
<1>2. ASSUME NEW k \in Nat, k \in T PROVE k + 1 \in T
  <2>1. PICK f \in [S -> R] : Solves(f, k, step, S, measure)
    BY <1>2
  <2>2. PICK g : g = step[f]
    OBVIOUS
  <2>3. g \in [S -> R]
    BY <2>2 DEF Functionals
  <2>4. ASSUME NEW s \in S, measure[s] < k + 1 PROVE g[s] = step[g][s]
    <3>1. \A u \in S : measure[u] < measure[s] => measure[u] < k
      BY <2>4
    <3>2. \A u \in S : measure[u] < measure[s] => f[u] = g[u]
      BY <2>1, <2>2, <3>1 DEF Solves
    <3>3. step[f][s] = step[g][s]
      BY <2>3, <3>2 DEF LooksBelow
    <3> QED BY <2>2, <3>3
  <2>5. Solves(g, k + 1, step, S, measure)
    BY <2>4 DEF Solves
  <2> QED BY <2>3, <2>5
<1>3. Nat \subseteq T
  <2> HIDE DEF T
  <2> QED BY <1>1, <1>2, NatSetInduction
<1> QED
  BY <1>3

\* There is a function that solves the equation.
LEMMA RecursionExists ==
    ASSUME NEW S, NEW R, NEW r \in R, NEW measure \in [S -> Nat], NEW step \in Functionals(S, R),
           LooksBelow(step, S, R, measure)
    PROVE  \E f \in [S -> R] : f = step[f]
<1> DEFINE Sol(n) == CHOOSE f \in [S -> R] : Solves(f, n, step, S, measure)
           h == [s \in S |-> Sol(measure[s] + 1)[s]]
<1>1. \A n \in Nat : Sol(n) \in [S -> R] /\ Solves(Sol(n), n, step, S, measure)
  BY SolutionsExist
<1>2. \A s \in S : measure[s] + 1 \in Nat
  OBVIOUS
<1> HIDE DEF Sol
<1>3. h \in [S -> R] /\ \A s \in S : h[s] = Sol(measure[s] + 1)[s]
  BY <1>1, <1>2
<1> HIDE DEF h
<1>4. ASSUME NEW s \in S PROVE h[s] = step[h][s]
  <2> DEFINE f == Sol(measure[s] + 1)
  <2>1. f \in [S -> R] /\ Solves(f, measure[s] + 1, step, S, measure)
    BY <1>1, <1>2
  <2>2. ASSUME NEW u \in S, measure[u] < measure[s] PROVE f[u] = h[u]
    <3> DEFINE g == Sol(measure[u] + 1)
    <3>1. g \in [S -> R] /\ Solves(g, measure[u] + 1, step, S, measure) /\ h[u] = g[u]
      BY <1>1, <1>2, <1>3
    <3> HIDE DEF f, g
    <3>2. Solves(f, measure[u] + 1, step, S, measure)
      <4>1. \A w \in S : measure[w] < measure[u] + 1 => measure[w] < measure[s] + 1
        BY <2>2
      <4> QED BY <2>1, <4>1 DEF Solves
    <3>3. measure[u] + 1 \in Nat /\ measure[u] < measure[u] + 1
      OBVIOUS
    <3>4. \A w \in S : measure[w] < measure[u] + 1 => f[w] = g[w]
      BY <2>1, <3>1, <3>2, <3>3, SolutionsAgree
    <3> QED BY <3>1, <3>3, <3>4
  <2>3. h[s] = f[s]
    BY <1>3
  <2> HIDE DEF f
  <2>4. step[f][s] = step[h][s]
    BY <1>3, <2>1, <2>2 DEF LooksBelow
  <2>5. measure[s] < measure[s] + 1
    OBVIOUS
  <2>6. f[s] = step[f][s]
    BY <2>1, <2>5 DEF Solves
  <2> QED BY <2>3, <2>4, <2>6
<1>5. step[h] \in [S -> R]
  BY <1>3 DEF Functionals
<1>6. h = step[h]
  BY <1>3, <1>4, <1>5
<1> QED
  BY <1>3, <1>6

\* What holds at s when it holds where the measure is smaller holds throughout.
LEMMA MeasureInduction ==
    ASSUME NEW S, NEW measure \in [S -> Nat], NEW G,
           \A s \in S : (\A u \in S : measure[u] < measure[s] => u \in G) => s \in G
    PROVE  S \subseteq G
<1> DEFINE T == {k \in Nat : \A s \in S : measure[s] < k => s \in G}
<1>1. 0 \in T
  <2>1. \A s \in S : ~(measure[s] < 0)
    OBVIOUS
  <2> QED BY <2>1
<1>2. ASSUME NEW k \in Nat, k \in T PROVE k + 1 \in T
  <2>1. ASSUME NEW s \in S, measure[s] < k + 1 PROVE s \in G
    <3>1. \A u \in S : measure[u] < measure[s] => measure[u] < k
      BY <2>1
    <3> QED BY <1>2, <3>1
  <2> QED BY <2>1
<1>3. Nat \subseteq T
  <2> HIDE DEF T
  <2> QED BY <1>1, <1>2, NatSetInduction
<1>4. \A s \in S : measure[s] + 1 \in T /\ measure[s] < measure[s] + 1
  BY <1>3
<1> QED
  BY <1>4
=============================================================================
