------------------------------ MODULE FoldFacts ------------------------------
(***************************************************************************)
(* Induction over a left fold, and the unfolding of a recursive function.  *)
(* Several handlers of the editor run a procedure once for each entity of  *)
(* a list; the models write them with FoldLeft.  The procedure and the     *)
(* claim are constants of this module: the proofs instantiate it once for  *)
(* each handler, because the provers cannot instantiate an operator that   *)
(* is a parameter of a theorem.                                            *)
(***************************************************************************)
EXTENDS SequencesExt, WellFoundedInduction, TLAPS

CONSTANTS
  Op(_, _),    \* what is done to the state for one element
  P(_, _, _)   \* the claim: of a state, the number of elements done, the list

LEMMA LessIsInOrder ==
  ASSUME NEW m \in Nat, NEW n \in Nat, m < n
  PROVE  <<m, n>> \in OpToRel(<, Nat)
<1>1. <<m, n>> \in Nat \X Nat
  OBVIOUS
<1>2. <<m, n>>[1] < <<m, n>>[2]
  OBVIOUS
<1> QED
  BY <1>1, <1>2, Zenon DEF OpToRel

\* Every non-empty set of numbers has a least element.
LEMMA LeastNumber ==
  ASSUME NEW T \in SUBSET Nat, T # {}
  PROVE  \E x \in T : \A y \in T : x <= y
<1>1. PICK x \in T : \A y \in T : ~ (<<y, x>> \in OpToRel(<, Nat))
  BY NatLessThanWellFounded, WFMin
<1>2. ASSUME NEW y \in T PROVE ~(y < x)
  BY <1>1, LessIsInOrder
<1> QED
  BY <1>2

\* Induction, for a set of numbers instead of a formula.
LEMMA SetInduction ==
  ASSUME NEW S \in SUBSET Nat, 0 \in S, \A n \in S : n + 1 \in S
  PROVE  S = Nat
<1> SUFFICES ASSUME Nat \ S # {} PROVE FALSE
  OBVIOUS
<1>1. PICK x \in Nat \ S : \A y \in Nat \ S : x <= y
  BY LeastNumber
<1>2. x # 0 /\ x - 1 \in Nat
  BY <1>1
<1>3. x - 1 \in S
  BY <1>1, <1>2
<1> QED
  BY <1>3

LEMMA MaxOfPrefix ==
  ASSUME NEW k \in Nat, NEW s \in SUBSET (1..(k+1)), k + 1 \in s
  PROVE  Max(s) = k + 1
<1>1. \A y \in s : k + 1 >= y
  OBVIOUS
<1>2. \A x \in s : (\A y \in s : x >= y) => x = k + 1
  OBVIOUS
<1>3. \E x \in s : \A y \in s : x >= y
  BY <1>1
<1>4. Max(s) \in s /\ \A y \in s : Max(s) >= y
  BY <1>3, Zenon DEF Max
<1> QED
  BY <1>2, <1>4

\* A fold is the end of a chain with one step for each element.
THEOREM FoldChain ==
  ASSUME NEW seq, NEW base, NEW n \in Nat, DOMAIN seq = 1..n
  PROVE  \E c : /\ c[0] = base
                /\ \A i \in 1..n : c[i] = Op(c[i-1], seq[i])
                /\ c[n] = FoldLeft(Op, base, seq)
<1> DEFINE Q(it, k) == it = [s \in SUBSET (1..k) |->
                               IF s = {} THEN base
                               ELSE Op(it[s \ {Max(s)}], seq[Max(s)])]
           Good == {k \in Nat : \E it : Q(it, k)}
           f == CHOOSE it : Q(it, n)
<1>1. FoldLeft(Op, base, seq) = f[1..n]
  BY DEF FoldLeft, MapThenFoldSet
\* The recursive definition behind the fold has a solution.
<1>2. 0 \in Good
  <2>1. SUBSET (1..0) = {{}}
    OBVIOUS
  <2>2. Q([s \in {{}} |-> base], 0)
    BY <2>1
  <2> QED
    BY <2>2
<1>3. ASSUME NEW k \in Good PROVE k + 1 \in Good
  <2>1. PICK it : Q(it, k)
    OBVIOUS
  <2> DEFINE g == [s \in SUBSET (1..(k+1)) |->
                     IF k + 1 \in s THEN Op(it[s \ {k+1}], seq[k+1]) ELSE it[s]]
  <2>2. \A s \in SUBSET (1..k) :
          it[s] = IF s = {} THEN base ELSE Op(it[s \ {Max(s)}], seq[Max(s)])
    BY <2>1
  <2>3. ASSUME NEW s \in SUBSET (1..(k+1))
        PROVE  g[s] = IF s = {} THEN base ELSE Op(g[s \ {Max(s)}], seq[Max(s)])
    <3>1. CASE k + 1 \in s
      <4>1. Max(s) = k + 1
        BY <3>1, MaxOfPrefix
      <4>2. s \ {k+1} \in SUBSET (1..(k+1)) /\ k + 1 \notin s \ {k+1}
        OBVIOUS
      <4>3. g[s \ {k+1}] = it[s \ {k+1}]
        BY <4>2
      <4> QED
        BY <4>1, <4>3, <3>1
    <3>2. CASE k + 1 \notin s
      <4>1. s \in SUBSET (1..k)
        BY <3>2
      <4>2. s \ {Max(s)} \in SUBSET (1..(k+1)) /\ k + 1 \notin s \ {Max(s)}
        BY <3>2
      <4>3. g[s \ {Max(s)}] = it[s \ {Max(s)}] /\ g[s] = it[s]
        BY <3>2, <4>2
      <4> QED
        BY <4>1, <4>3, <2>2
    <3> QED
      BY <3>1, <3>2
  <2>4. g = [s \in SUBSET (1..(k+1)) |-> g[s]]
    OBVIOUS
  <2> HIDE DEF g
  <2>5. Q(g, k+1)
    BY <2>3, <2>4
  <2>6. k + 1 \in Nat
    OBVIOUS
  <2> HIDE DEF Q
  <2> QED
    BY <2>5, <2>6
<1>4. n \in Good
  <2> HIDE DEF Good
  <2>1. Good \in SUBSET Nat
    BY DEF Good
  <2> QED
    BY <1>2, <1>3, <2>1, SetInduction
<1>5. \E it : Q(it, n)
  BY <1>4
<1>6. Q(f, n)
  <2> HIDE DEF Q
  <2> QED
    BY <1>5, Zenon
<1> HIDE DEF f
<1>7. /\ f[{}] = base
      /\ \A s \in SUBSET (1..n) : s # {} => f[s] = Op(f[s \ {Max(s)}], seq[Max(s)])
  BY <1>6
<1> DEFINE c == [i \in 0..n |-> f[1..i]]
<1>8. c[0] = base
  <2>1. 1..0 = {}
    OBVIOUS
  <2> QED
    BY <1>7, <2>1
<1>9. ASSUME NEW i \in 1..n PROVE c[i] = Op(c[i-1], seq[i])
  <2>1. 1..i \in SUBSET (1..n) /\ i \in 1..i
    OBVIOUS
  <2>2. (1..i) \ {i} = 1..(i-1)
    OBVIOUS
  <2>3. Max(1..i) = i
    <3>1. i - 1 \in Nat /\ 1..i = 1..((i-1)+1) /\ i = (i-1)+1 /\ i \in 1..i
      OBVIOUS
    <3> QED
      BY <3>1, MaxOfPrefix
  <2>4. f[1..i] = Op(f[1..(i-1)], seq[i])
    BY <1>7, <2>1, <2>2, <2>3
  <2>5. i \in 0..n /\ i - 1 \in 0..n
    OBVIOUS
  <2> QED
    BY <2>4, <2>5
<1>10. c[n] = FoldLeft(Op, base, seq)
  BY <1>1
<1> HIDE DEF c
<1> QED
  BY <1>8, <1>9, <1>10

FunctionFold(F, base, seq) == FoldLeft(LAMBDA u, x : F[u][x], base, seq)

\* The same for a procedure that is a value: a fold is the last of a chain of states, each
\* the result of the procedure for the next element.
THEOREM FunctionFoldChain ==
  ASSUME NEW F, NEW seq, NEW base, NEW n \in Nat, DOMAIN seq = 1..n
  PROVE  \E c : /\ c[0] = base
                /\ \A i \in 1..n : c[i] = F[c[i-1]][seq[i]]
                /\ c[n] = FunctionFold(F, base, seq)
<1> DEFINE App(u, x) == F[u][x]
<1> DEFINE Q(it, k) == it = [s \in SUBSET (1..k) |->
                               IF s = {} THEN base
                               ELSE App(it[s \ {Max(s)}], seq[Max(s)])]
           Good == {k \in Nat : \E it : Q(it, k)}
           f == CHOOSE it : Q(it, n)
<1>1. FunctionFold(F, base, seq) = f[1..n]
  BY DEF App, FunctionFold, FoldLeft, MapThenFoldSet
<1> HIDE DEF App
\* The recursive definition behind the fold has a solution.
<1>2. 0 \in Good
  <2>1. SUBSET (1..0) = {{}}
    OBVIOUS
  <2>2. Q([s \in {{}} |-> base], 0)
    BY <2>1
  <2> QED
    BY <2>2
<1>3. ASSUME NEW k \in Good PROVE k + 1 \in Good
  <2>1. PICK it : Q(it, k)
    OBVIOUS
  <2> DEFINE g == [s \in SUBSET (1..(k+1)) |->
                     IF k + 1 \in s THEN App(it[s \ {k+1}], seq[k+1]) ELSE it[s]]
  <2>2. \A s \in SUBSET (1..k) :
          it[s] = IF s = {} THEN base ELSE App(it[s \ {Max(s)}], seq[Max(s)])
    BY <2>1
  <2>3. ASSUME NEW s \in SUBSET (1..(k+1))
        PROVE  g[s] = IF s = {} THEN base ELSE App(g[s \ {Max(s)}], seq[Max(s)])
    <3>1. CASE k + 1 \in s
      <4>1. Max(s) = k + 1
        BY <3>1, MaxOfPrefix
      <4>2. s \ {k+1} \in SUBSET (1..(k+1)) /\ k + 1 \notin s \ {k+1}
        OBVIOUS
      <4>3. g[s \ {k+1}] = it[s \ {k+1}]
        BY <4>2
      <4> QED
        BY <4>1, <4>3, <3>1
    <3>2. CASE k + 1 \notin s
      <4>1. s \in SUBSET (1..k)
        BY <3>2
      <4>2. s \ {Max(s)} \in SUBSET (1..(k+1)) /\ k + 1 \notin s \ {Max(s)}
        BY <3>2
      <4>3. g[s \ {Max(s)}] = it[s \ {Max(s)}] /\ g[s] = it[s]
        BY <3>2, <4>2
      <4> QED
        BY <4>1, <4>3, <2>2
    <3> QED
      BY <3>1, <3>2
  <2>4. g = [s \in SUBSET (1..(k+1)) |-> g[s]]
    OBVIOUS
  <2> HIDE DEF g
  <2>5. Q(g, k+1)
    BY <2>3, <2>4
  <2>6. k + 1 \in Nat
    OBVIOUS
  <2> HIDE DEF Q
  <2> QED
    BY <2>5, <2>6
<1>4. n \in Good
  <2> HIDE DEF Good
  <2>1. Good \in SUBSET Nat
    BY DEF Good
  <2> QED
    BY <1>2, <1>3, <2>1, SetInduction
<1>5. \E it : Q(it, n)
  BY <1>4
<1>6. Q(f, n)
  <2> HIDE DEF Q
  <2> QED
    BY <1>5, Zenon
<1> HIDE DEF f
<1>7. /\ f[{}] = base
      /\ \A s \in SUBSET (1..n) : s # {} => f[s] = App(f[s \ {Max(s)}], seq[Max(s)])
  BY <1>6
<1> DEFINE c == [i \in 0..n |-> f[1..i]]
<1>8. c[0] = base
  <2>1. 1..0 = {}
    OBVIOUS
  <2> QED
    BY <1>7, <2>1
<1>9. ASSUME NEW i \in 1..n PROVE c[i] = App(c[i-1], seq[i])
  <2>1. 1..i \in SUBSET (1..n) /\ i \in 1..i
    OBVIOUS
  <2>2. (1..i) \ {i} = 1..(i-1)
    OBVIOUS
  <2>3. Max(1..i) = i
    <3>1. i - 1 \in Nat /\ 1..i = 1..((i-1)+1) /\ i = (i-1)+1 /\ i \in 1..i
      OBVIOUS
    <3> QED
      BY <3>1, MaxOfPrefix
  <2>4. f[1..i] = App(f[1..(i-1)], seq[i])
    BY <1>7, <2>1, <2>2, <2>3
  <2>5. i \in 0..n /\ i - 1 \in 0..n
    OBVIOUS
  <2> QED
    BY <2>4, <2>5
<1>10. c[n] = FunctionFold(F, base, seq)
  BY <1>1
<1> HIDE DEF c
<1>11. \A i \in 1..n : c[i] = F[c[i-1]][seq[i]]
  BY <1>9 DEF App
<1> QED
  BY <1>8, <1>10, <1>11

\* What one element keeps, the fold keeps.
THEOREM FoldInduction ==
  ASSUME NEW seq, NEW base, NEW n \in Nat, DOMAIN seq = 1..n,
         P(base, 0, seq),
         \A acc : \A i \in 1..n : P(acc, i-1, seq) => P(Op(acc, seq[i]), i, seq)
  PROVE  P(FoldLeft(Op, base, seq), n, seq)
<1>1. PICK c : /\ c[0] = base
               /\ \A i \in 1..n : c[i] = Op(c[i-1], seq[i])
               /\ c[n] = FoldLeft(Op, base, seq)
  BY FoldChain
<1> DEFINE S == {i \in Nat : i <= n => P(c[i], i, seq)}
<1>2. 0 \in S
  BY <1>1
<1>3. ASSUME NEW i \in S PROVE i + 1 \in S
  <2>1. ASSUME i + 1 <= n PROVE P(c[i+1], i+1, seq)
    <3>1. i + 1 \in 1..n /\ (i + 1) - 1 = i /\ P(c[i], i, seq)
      BY <2>1
    <3>2. c[i+1] = Op(c[i], seq[i+1])
      BY <1>1, <3>1
    <3> QED
      BY <3>1, <3>2
  <2> QED
    BY <2>1
<1>4. S = Nat
  <2> HIDE DEF S
  <2>1. S \in SUBSET Nat
    BY DEF S
  <2> QED
    BY <1>2, <1>3, <2>1, SetInduction
<1>5. P(c[n], n, seq)
  BY <1>4
<1> QED
  BY <1>1, <1>5

\* A function that calls itself for the number before its own is what its definition says.
THEOREM RecursionHasSolution ==
  ASSUME NEW base
  PROVE  \E g : g = [n \in Nat |-> IF n = 0 THEN base ELSE Op(g[n-1], n)]
<1> DEFINE Q(g, k) == g[0] = base /\ \A n \in 1..k : g[n] = Op(g[n-1], n)
           Good == {k \in Nat : \E g : Q(g, k)}
           part(k) == CHOOSE g : Q(g, k)
           whole == [n \in Nat |-> part(n)[n]]
           Agreed == {n \in Nat : \A k \in Nat : k >= n => part(k)[n] = part(n)[n]}
<1>1. 0 \in Good
  <2>1. Q([n \in {0} |-> base], 0)
    OBVIOUS
  <2> HIDE DEF Q
  <2> QED
    BY <2>1
<1>2. ASSUME NEW k \in Good PROVE k + 1 \in Good
  <2>1. PICK g : Q(g, k)
    OBVIOUS
  <2> DEFINE h == [n \in 0..(k+1) |-> IF n = k + 1 THEN Op(g[k], k+1) ELSE g[n]]
  <2>2. h[0] = base
    BY <2>1
  <2>3. ASSUME NEW n \in 1..(k+1) PROVE h[n] = Op(h[n-1], n)
    <3>1. n \in 0..(k+1) /\ n - 1 \in 0..(k+1) /\ n - 1 # k + 1
      OBVIOUS
    <3>2. CASE n = k + 1
      BY <3>1, <3>2
    <3>3. CASE n # k + 1
      <4>1. n \in 1..k
        BY <3>3
      <4> QED
        BY <2>1, <3>1, <3>3, <4>1
    <3> QED
      BY <3>2, <3>3
  <2> HIDE DEF h
  <2>4. Q(h, k+1) /\ k + 1 \in Nat
    BY <2>2, <2>3
  <2> HIDE DEF Q
  <2> QED
    BY <2>4
<1>3. Good = Nat
  <2> HIDE DEF Good
  <2>1. Good \in SUBSET Nat
    BY DEF Good
  <2> QED
    BY <1>1, <1>2, <2>1, SetInduction
<1>4. \A k \in Nat : Q(part(k), k)
  <2>1. \A k \in Nat : \E g : Q(g, k)
    BY <1>3
  <2> HIDE DEF Q
  <2> QED
    BY <2>1, Zenon
<1> HIDE DEF part
\* All solutions agree where they are defined.
<1>5. 0 \in Agreed
  BY <1>4
<1>6. ASSUME NEW n \in Agreed PROVE n + 1 \in Agreed
  <2>1. ASSUME NEW k \in Nat, k >= n + 1 PROVE part(k)[n+1] = Op(part(n)[n], n+1)
    <3>1. n + 1 \in 1..k /\ (n + 1) - 1 = n /\ k >= n
      BY <2>1
    <3>2. part(k)[n+1] = Op(part(k)[n], n+1)
      BY <1>4, <3>1
    <3>3. part(k)[n] = part(n)[n]
      BY <3>1
    <3> QED
      BY <3>2, <3>3
  <2>2. n + 1 \in Nat /\ n + 1 >= n + 1
    OBVIOUS
  <2> QED
    BY <2>1, <2>2
<1>7. Agreed = Nat
  <2> HIDE DEF Agreed
  <2>1. Agreed \in SUBSET Nat
    BY DEF Agreed
  <2> QED
    BY <1>5, <1>6, <2>1, SetInduction
<1>8. \A n \in Nat : whole[n+1] = Op(whole[n], n+1)
  <2>1. ASSUME NEW n \in Nat PROVE part(n+1)[n+1] = Op(part(n)[n], n+1)
    <3>1. n + 1 \in Nat /\ n + 1 \in 1..(n+1) /\ (n + 1) - 1 = n /\ n + 1 >= n
      OBVIOUS
    <3>2. part(n+1)[n+1] = Op(part(n+1)[n], n+1)
      BY <1>4, <3>1
    <3>3. part(n+1)[n] = part(n)[n]
      BY <1>7, <3>1
    <3> QED
      BY <3>2, <3>3
  <2> QED
    BY <2>1
<1>9. whole[0] = base
  BY <1>4
<1>10. whole = [n \in Nat |-> IF n = 0 THEN base ELSE Op(whole[n-1], n)]
  <2>1. ASSUME NEW n \in Nat
        PROVE  whole[n] = IF n = 0 THEN base ELSE Op(whole[n-1], n)
    <3>1. n # 0 => n - 1 \in Nat /\ (n - 1) + 1 = n
      OBVIOUS
    <3> HIDE DEF whole
    <3> QED
      BY <1>8, <1>9, <3>1
  <2>2. whole = [n \in Nat |-> whole[n]]
    OBVIOUS
  <2> HIDE DEF whole
  <2> QED
    BY <2>1, <2>2
<1> HIDE DEF whole
<1> QED
  BY <1>10
=============================================================================
