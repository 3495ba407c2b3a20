------------------------------ MODULE Induction ------------------------------
(***************************************************************************)
(* Induction over the naturals in the form the proofs here use it: about   *)
(* sets of naturals, so that a proof by induction names the set of those   *)
(* for which the claim holds, or fails, and cites a lemma below.           *)
(***************************************************************************)
EXTENDS Integers, FiniteSetTheorems, TLAPS

\* A set of naturals with an element has a least one.
LEMMA LeastOfNats ==
  ASSUME NEW S \in SUBSET Nat, S # {}
  PROVE  \E n \in S : \A m \in S : n <= m
<1>1. PICK n \in S : \A m \in S : ~ (<<m, n>> \in OpToRel(<, Nat))
  BY NatLessThanWellFounded, WFMin, Zenon
<1>2. \A m \in S : ~ (m < n)
  BY <1>1 DEF OpToRel
<1> QED
  BY <1>2

\* A set of naturals below a bound has a greatest one.
LEMMA GreatestOfNats ==
  ASSUME NEW N \in Nat, NEW S \in SUBSET (0..N), S # {}
  PROVE  \E n \in S : \A m \in S : m <= n
<1> DEFINE T == {N - n : n \in S}
<1>1. T \in SUBSET Nat /\ T # {}
  <2>1. \A n \in S : N - n \in Nat
    OBVIOUS
  <2> QED
    BY <2>1
<1>2. PICK t \in T : \A u \in T : t <= u
  BY <1>1, LeastOfNats
<1>3. PICK n \in S : t = N - n
  BY <1>2
<1>4. \A m \in S : N - n <= N - m
  BY <1>2, <1>3
<1> QED
  BY <1>3, <1>4

\* A set with 0 and the successor of each of its elements holds every natural.
LEMMA InductiveSet ==
  ASSUME NEW S \in SUBSET Nat, 0 \in S, \A n \in S : n + 1 \in S
  PROVE  S = Nat
<1> SUFFICES ASSUME Nat \ S # {}
             PROVE  FALSE
  OBVIOUS
<1>1. PICK n \in Nat \ S : \A m \in Nat \ S : n <= m
  BY LeastOfNats
<1>2. n - 1 \in S
  BY <1>1
<1> QED
  BY <1>1, <1>2

\* The same for the naturals up to a bound.
LEMMA InductiveUpTo ==
  ASSUME NEW N \in Nat, NEW S, 0 \in S, \A n \in 0..N : n \in S /\ n < N => n + 1 \in S
  PROVE  0..N \subseteq S
<1> DEFINE T == {n \in Nat : n <= N => n \in S}
<1>1. T \in SUBSET Nat /\ 0 \in T /\ \A n \in T : n + 1 \in T
  OBVIOUS
<1>2. T = Nat
  BY <1>1, InductiveSet
<1> QED
  BY <1>2

\* The same for the subsets of a finite set.
LEMMA InductiveSubsets ==
  ASSUME NEW D, IsFiniteSet(D), NEW Q,
         \A s \in SUBSET D : (\A x \in s : s \ {x} \in Q) => s \in Q
  PROVE  \A s \in SUBSET D : s \in Q
<1> DEFINE T == {n \in Nat : \A s \in SUBSET D : Cardinality(s) = n => s \in Q}
<1>1. \A s \in SUBSET D : IsFiniteSet(s) /\ Cardinality(s) \in Nat
  BY FS_Subset, FS_CardinalityType
<1>2. 0 \in T
  <2>1. ASSUME NEW s \in SUBSET D, Cardinality(s) = 0
        PROVE  s \in Q
    <3>1. s = {}
      BY <2>1, <1>1, FS_EmptySet
    <3> QED
      BY <3>1
  <2> QED
    BY <2>1
<1>3. ASSUME NEW n \in T
      PROVE  n + 1 \in T
  <2>1. ASSUME NEW s \in SUBSET D, Cardinality(s) = n + 1
        PROVE  s \in Q
    <3>1. ASSUME NEW x \in s
          PROVE  s \ {x} \in Q
      <4>1. Cardinality(s \ {x}) = n
        BY <2>1, <1>1, FS_RemoveElement
      <4> QED
        BY <4>1
    <3> QED
      BY <3>1
  <2> QED
    BY <2>1
<1>4. T = Nat
  BY <1>2, <1>3, InductiveSet
<1> QED
  BY <1>1, <1>4

----------------------------------------------------------------------------
(* Sums over finite sets *)

\* f adds up the weights of each subset of D, one chosen element after the other.
Sums(f, w, D) ==
  f = [s \in SUBSET D |->
         IF s = {} THEN 0
         ELSE w[CHOOSE x \in s : TRUE] + f[s \ {CHOOSE x \in s : TRUE}]]

LEMMA SumsExist ==
  ASSUME NEW D, IsFiniteSet(D), NEW w
  PROVE  \E f : Sums(f, w, D)
<1> DEFINE Upto(n) == {s \in SUBSET D : Cardinality(s) <= n}
           Ch(s) == CHOOSE x \in s : TRUE
           T == {n \in Nat : \E f : f = [s \in Upto(n) |->
                   IF s = {} THEN 0 ELSE w[Ch(s)] + f[s \ {Ch(s)}]]}
<1>1. \A s \in SUBSET D : IsFiniteSet(s) /\ Cardinality(s) \in Nat
  BY FS_Subset, FS_CardinalityType
<1>2. ASSUME NEW s \in SUBSET D, s # {}
      PROVE  Ch(s) \in s /\ Cardinality(s \ {Ch(s)}) = Cardinality(s) - 1
  <2>1. Ch(s) \in s
    BY <1>2
  <2> QED
    BY <2>1, <1>1, FS_RemoveElement
<1>3. 0 \in T
  <2>1. \A s \in Upto(0) : s = {}
    BY <1>1, FS_EmptySet
  <2> DEFINE f == [s \in Upto(0) |-> 0]
  <2>2. f = [s \in Upto(0) |-> IF s = {} THEN 0 ELSE w[Ch(s)] + f[s \ {Ch(s)}]]
    BY <2>1
  <2> QED
    BY <2>2
<1>4. ASSUME NEW n \in T
      PROVE  n + 1 \in T
  <2>1. PICK f : f = [s \in Upto(n) |->
                        IF s = {} THEN 0 ELSE w[Ch(s)] + f[s \ {Ch(s)}]]
    OBVIOUS
  <2> DEFINE g == [s \in Upto(n + 1) |->
                     IF s \in Upto(n) THEN f[s] ELSE w[Ch(s)] + f[s \ {Ch(s)}]]
  <2>2. \A s \in Upto(n + 1) : s # {} => s \ {Ch(s)} \in Upto(n)
    BY <1>1, <1>2
  <2>3. Upto(n) \subseteq Upto(n + 1) /\ ({} \in Upto(n + 1) => {} \in Upto(n))
    BY <1>1, FS_EmptySet
  <2>4. \A s \in Upto(n) : f[s] = IF s = {} THEN 0 ELSE w[Ch(s)] + f[s \ {Ch(s)}]
    BY <2>1
  <2>5. \A s \in Upto(n + 1) :
          g[s] = IF s = {} THEN 0 ELSE w[Ch(s)] + g[s \ {Ch(s)}]
    <3> HIDE DEF Upto, Ch
    <3> QED
      BY <2>2, <2>3, <2>4
  <2>6. g = [s \in Upto(n + 1) |-> g[s]]
    OBVIOUS
  <2>7. g = [s \in Upto(n + 1) |-> IF s = {} THEN 0 ELSE w[Ch(s)] + g[s \ {Ch(s)}]]
    <3> HIDE DEF Upto, Ch, g
    <3> QED
      BY <2>5, <2>6
  <2>8. \E h : h = [s \in Upto(n + 1) |->
                     IF s = {} THEN 0 ELSE w[Ch(s)] + h[s \ {Ch(s)}]]
    <3> HIDE DEF Upto, Ch, g
    <3> QED
      BY <2>7
  <2> HIDE DEF Upto, Ch, g
  <2> QED
    BY <2>8
<1>5. Cardinality(D) \in T
  <2> HIDE DEF T
  <2>1. T = Nat
    <3>1. T \in SUBSET Nat
      BY DEF T
    <3> QED
      BY <3>1, <1>3, <1>4, InductiveSet
  <2> QED
    BY <2>1, <1>1
<1>6. Upto(Cardinality(D)) = SUBSET D
  BY FS_Subset
<1> HIDE DEF Upto
<1> QED
  BY <1>5, <1>6 DEF Sums

LEMMA SumsType ==
  ASSUME NEW D, IsFiniteSet(D), NEW w \in [D -> Nat], NEW f, Sums(f, w, D)
  PROVE  \A s \in SUBSET D : f[s] \in Nat
<1> DEFINE Q == {s \in SUBSET D : f[s] \in Nat}
           Ch(s) == CHOOSE x \in s : TRUE
<1>1. ASSUME NEW s \in SUBSET D, \A x \in s : s \ {x} \in Q
      PROVE  s \in Q
  <2>1. f[s] = IF s = {} THEN 0 ELSE w[Ch(s)] + f[s \ {Ch(s)}]
    BY DEF Sums
  <2>2. s # {} => Ch(s) \in s
    OBVIOUS
  <2> HIDE DEF Ch
  <2>3. s # {} => w[Ch(s)] \in Nat /\ f[s \ {Ch(s)}] \in Nat
    BY <2>2, <1>1
  <2> QED
    BY <2>1, <2>3
<1> HIDE DEF Q
<1>2. \A s \in SUBSET D : s \in Q
  BY <1>1, InductiveSubsets
<1> QED
  BY <1>2 DEF Q

\* The order of the elements does not matter.
LEMMA SumsStep ==
  ASSUME NEW D, IsFiniteSet(D), NEW w \in [D -> Nat], NEW f, Sums(f, w, D)
  PROVE  \A s \in SUBSET D : \A x \in s : f[s] = w[x] + f[s \ {x}]
<1> DEFINE Q == {s \in SUBSET D : \A x \in s : f[s] = w[x] + f[s \ {x}]}
           Ch(s) == CHOOSE x \in s : TRUE
<1>1. ASSUME NEW s \in SUBSET D, \A x \in s : s \ {x} \in Q, NEW x \in s
      PROVE  f[s] = w[x] + f[s \ {x}]
  <2>1. PICK y \in s : f[s] = w[y] + f[s \ {y}]
    <3>1. Ch(s) \in s /\ f[s] = w[Ch(s)] + f[s \ {Ch(s)}]
      BY DEF Sums
    <3> QED
      BY <3>1
  <2>2. CASE x = y
    BY <2>1, <2>2
  <2>3. CASE x # y
    <3>1. s \ {y} \in Q /\ s \ {x} \in Q /\ x \in s \ {y} /\ y \in s \ {x}
      BY <2>3, <1>1
    <3>2. (s \ {y}) \ {x} = (s \ {x}) \ {y}
      OBVIOUS
    <3>3. /\ f[s \ {y}] = w[x] + f[(s \ {x}) \ {y}]
          /\ f[s \ {x}] = w[y] + f[(s \ {x}) \ {y}]
      BY <3>1, <3>2
    <3>4. f[(s \ {x}) \ {y}] \in Nat /\ w[x] \in Nat /\ w[y] \in Nat
      BY SumsType
    <3> QED
      BY <2>1, <3>3, <3>4
  <2> QED
    BY <2>2, <2>3
<1>2. \A s \in SUBSET D : (\A x \in s : s \ {x} \in Q) => s \in Q
  BY <1>1
<1> HIDE DEF Q
<1>3. \A s \in SUBSET D : s \in Q
  BY <1>2, InductiveSubsets
<1> QED
  BY <1>3 DEF Q

\* Nor do the weights of elements that are not in the set.
LEMMA SumsAgree ==
  ASSUME NEW D, NEW w, NEW f, Sums(f, w, D),
         NEW E \in SUBSET D, IsFiniteSet(E), NEW v, NEW g, Sums(g, v, E),
         \A x \in E : v[x] = w[x]
  PROVE  \A s \in SUBSET E : g[s] = f[s]
<1> DEFINE Q == {s \in SUBSET E : g[s] = f[s]}
           Ch(s) == CHOOSE x \in s : TRUE
<1>1. ASSUME NEW s \in SUBSET E, \A x \in s : s \ {x} \in Q
      PROVE  g[s] = f[s]
  <2>1. /\ f[s] = IF s = {} THEN 0 ELSE w[Ch(s)] + f[s \ {Ch(s)}]
        /\ g[s] = IF s = {} THEN 0 ELSE v[Ch(s)] + g[s \ {Ch(s)}]
    BY DEF Sums
  <2>2. s # {} => Ch(s) \in s
    OBVIOUS
  <2> HIDE DEF Ch
  <2>3. s # {} => g[s \ {Ch(s)}] = f[s \ {Ch(s)}]
    BY <2>2, <1>1
  <2> QED
    BY <2>1, <2>2, <2>3
<1>2. \A s \in SUBSET E : (\A x \in s : s \ {x} \in Q) => s \in Q
  BY <1>1
<1> HIDE DEF Q
<1>3. \A s \in SUBSET E : s \in Q
  BY <1>2, InductiveSubsets
<1> QED
  BY <1>3 DEF Q
----------------------------------------------------------------------------
(* Recursion *)

\* f takes the steps F, one after the other, from base.
Unfolds(f, base, N, F) == f[0] = base /\ \A k \in 1..N : f[k] = F[k][f[k - 1]]
Steps(F, N, S) == F \in [1..N -> [S -> S]]

\* There is such a function: with it the CHOOSE behind a recursive definition
\* is unfolded.
LEMMA RecursiveFunction ==
  ASSUME NEW S, NEW base \in S, NEW N \in Nat, NEW F, Steps(F, N, S)
  PROVE  \E f : f \in [0..N -> S] /\ Unfolds(f, base, N, F)
<1> DEFINE Made(f, m) == f[0] = base /\ \A k \in 1..m : f[k] = F[k][f[k - 1]]
           T == {m \in 0..N : \E f \in [0..m -> S] : Made(f, m)}
<1>1. 0 \in T
  <2> DEFINE f == [k \in 0..0 |-> base]
  <2>1. f \in [0..0 -> S] /\ Made(f, 0) /\ 0 \in 0..N
    OBVIOUS
  <2> HIDE DEF f, Made
  <2> QED
    BY <2>1
<1>2. ASSUME NEW m \in 0..N, m \in T, m < N
      PROVE  m + 1 \in T
  <2>1. PICK f \in [0..m -> S] : Made(f, m)
    BY <1>2
  <2> DEFINE g == [k \in 0..(m + 1) |-> IF k <= m THEN f[k] ELSE F[m + 1][f[m]]]
  <2>2. F[m + 1][f[m]] \in S
    BY <1>2 DEF Steps
  <2>3. g \in [0..(m + 1) -> S]
    BY <2>2
  <2>4. (\A k \in 0..m : g[k] = f[k]) /\ g[m + 1] = F[m + 1][f[m]]
    OBVIOUS
  <2>5. \A k \in 1..(m + 1) : k - 1 \in 0..m /\ (k = m + 1 \/ (k \in 1..m /\ k \in 0..m))
    OBVIOUS
  <2>6. Made(g, m + 1)
    <3> HIDE DEF g
    <3>1. g[0] = base
      BY <2>1, <2>4
    <3>2. ASSUME NEW k \in 1..(m + 1)
          PROVE  g[k] = F[k][g[k - 1]]
      <4>1. CASE k = m + 1
        BY <4>1, <2>4
      <4>2. CASE k # m + 1
        BY <4>2, <2>1, <2>4, <2>5
      <4> QED
        BY <4>1, <4>2
    <3> QED
      BY <3>1, <3>2
  <2> HIDE DEF g, Made
  <2> QED
    BY <1>2, <2>3, <2>6
<1>3. N \in T
  <2> HIDE DEF T
  <2>1. 0..N \subseteq T
    BY <1>1, <1>2, InductiveUpTo
  <2> QED
    BY <2>1
<1> QED
  BY <1>3 DEF Unfolds
----------------------------------------------------------------------------
(* Recursion along a well-founded order *)

\* R is a strict order of D in which every set has a minimal element.
Founded(R, D) ==
  /\ \A x, y, z \in D : <<x, y>> \in R /\ <<y, z>> \in R => <<x, z>> \in R
  /\ \A Q \in SUBSET D : Q # {} => \E x \in Q : \A y \in Q : <<y, x>> \notin R

\* The value F gives for x depends on those of elements before x only.
Local(F, R, D, S) ==
  /\ F \in [D -> [[D -> S] -> S]]
  /\ \A x \in D : \A f, g \in [D -> S] :
       (\A y \in D : <<y, x>> \in R => f[y] = g[y]) => F[x][f] = F[x][g]

Recursive(f, F, D) == \A x \in D : f[x] = F[x][f]

\* f is F's function as far as x.
Defines(f, F, R, D, x) ==
  \A y \in D : y = x \/ <<y, x>> \in R => f[y] = F[y][f]

LEMMA FoundedInduction ==
  ASSUME NEW D, NEW R, Founded(R, D), NEW Q,
         \A x \in D : (\A y \in D : <<y, x>> \in R => y \in Q) => x \in Q
  PROVE  \A x \in D : x \in Q
<1> SUFFICES ASSUME D \ Q # {}
             PROVE  FALSE
  OBVIOUS
<1>1. D \ Q \in SUBSET D
  OBVIOUS
<1>2. PICK x \in D \ Q : \A y \in D \ Q : <<y, x>> \notin R
  BY <1>1 DEF Founded
<1> QED
  BY <1>2

\* Two such functions agree.
LEMMA DefinesOnce ==
  ASSUME NEW D, NEW R, Founded(R, D), NEW S, NEW F, Local(F, R, D, S),
         NEW f \in [D -> S], NEW g \in [D -> S], NEW x \in D,
         Defines(f, F, R, D, x), Defines(g, F, R, D, x)
  PROVE  f[x] = g[x]
<1> DEFINE Q == {y \in D : y = x \/ <<y, x>> \in R => f[y] = g[y]}
<1>1. ASSUME NEW y \in D, \A z \in D : <<z, y>> \in R => z \in Q,
             y = x \/ <<y, x>> \in R
      PROVE  f[y] = g[y]
  <2>1. \A z \in D : <<z, y>> \in R => <<z, x>> \in R
    BY <1>1 DEF Founded
  <2>2. \A z \in D : <<z, y>> \in R => f[z] = g[z]
    BY <1>1, <2>1
  <2>3. F[y][f] = F[y][g]
    BY <2>2 DEF Local
  <2> QED
    BY <1>1, <2>3 DEF Defines
<1>2. \A y \in D : (\A z \in D : <<z, y>> \in R => z \in Q) => y \in Q
  BY <1>1
<1> HIDE DEF Q
<1>3. \A y \in D : y \in Q
  BY <1>2, FoundedInduction
<1> QED
  BY <1>3 DEF Q

LEMMA FoundedRecursion ==
  ASSUME NEW D, NEW R, Founded(R, D), NEW S, S # {}, NEW F, Local(F, R, D, S)
  PROVE  \E f \in [D -> S] : Recursive(f, F, D)
<1> DEFINE Part(x) == {f \in [D -> S] : Defines(f, F, R, D, x)}
           the(x) == CHOOSE f \in Part(x) : TRUE
           Q == {x \in D : Part(x) # {}}
<1>1. \A x \in D : x \in Q => the(x) \in [D -> S] /\ Defines(the(x), F, R, D, x)
  OBVIOUS
<1> HIDE DEF the
<1>2. ASSUME NEW x \in D, NEW y \in D, <<y, x>> \in R, NEW f, Defines(f, F, R, D, x)
      PROVE  Defines(f, F, R, D, y)
  BY <1>2 DEF Defines, Founded
<1>3. ASSUME NEW x \in D, \A y \in D : <<y, x>> \in R => y \in Q
      PROVE  x \in Q
  <2>1. PICK s \in S : TRUE
    OBVIOUS
  <2> DEFINE h == [y \in D |-> IF <<y, x>> \in R THEN the(y)[y] ELSE s]
             g == [y \in D |-> IF y = x THEN F[x][h] ELSE h[y]]
  <2>2. h \in [D -> S]
    BY <1>1, <1>3
  <2>3. F[x][h] \in S
    <3>1. F[x] \in [[D -> S] -> S]
      BY DEF Local
    <3> HIDE DEF h
    <3> QED
      BY <2>2, <3>1
  <2>4. <<x, x>> \notin R
    <3>1. {x} \in SUBSET D
      OBVIOUS
    <3> QED
      BY <3>1 DEF Founded
  <2>5. g \in [D -> S] /\ g[x] = F[x][h]
    BY <2>2, <2>3
  <2>6. \A y \in D : <<y, x>> \in R => g[y] = the(y)[y] /\ h[y] = g[y]
    BY <2>4
  <2> HIDE DEF g, h
  <2>7. F[x][g] = F[x][h]
    BY <2>2, <2>5, <2>6 DEF Local
  <2>8. ASSUME NEW y \in D, <<y, x>> \in R
        PROVE  g[y] = F[y][g]
    <3>1. the(y) \in [D -> S] /\ Defines(the(y), F, R, D, y)
      BY <1>1, <1>3, <2>8
    <3>2. ASSUME NEW z \in D, <<z, y>> \in R
          PROVE  g[z] = the(y)[z]
      <4>1. <<z, x>> \in R
        BY <2>8, <3>2 DEF Founded
      <4>2. the(z) \in [D -> S] /\ Defines(the(z), F, R, D, z)
        BY <1>1, <1>3, <4>1
      <4>3. Defines(the(y), F, R, D, z)
        BY <1>2, <3>1, <3>2
      <4>4. the(z)[z] = the(y)[z]
        BY <3>1, <4>2, <4>3, DefinesOnce
      <4> QED
        BY <2>6, <4>1, <4>4
    <3>3. F[y][g] = F[y][the(y)]
      BY <2>5, <3>1, <3>2 DEF Local
    <3>4. the(y)[y] = F[y][the(y)]
      BY <3>1 DEF Defines
    <3> QED
      BY <2>6, <2>8, <3>3, <3>4
  <2>9. Defines(g, F, R, D, x)
    BY <2>5, <2>7, <2>8 DEF Defines
  <2> QED
    BY <2>5, <2>9
<1>4. \A x \in D : x \in Q
  <2> HIDE DEF Q
  <2> QED
    BY <1>3, FoundedInduction
<1> DEFINE f == [x \in D |-> the(x)[x]]
<1>5. f \in [D -> S] /\ \A x \in D : f[x] = the(x)[x]
  BY <1>1, <1>4
<1> HIDE DEF f
<1>6. ASSUME NEW x \in D
      PROVE  f[x] = F[x][f]
  <2>1. the(x) \in [D -> S] /\ Defines(the(x), F, R, D, x)
    BY <1>1, <1>4
  <2>2. ASSUME NEW y \in D, <<y, x>> \in R
        PROVE  f[y] = the(x)[y]
    <3>1. the(y) \in [D -> S] /\ Defines(the(y), F, R, D, y)
      BY <1>1, <1>4
    <3>2. Defines(the(x), F, R, D, y)
      BY <1>2, <2>1, <2>2
    <3> QED
      BY <1>5, <2>1, <3>1, <3>2, DefinesOnce
  <2>3. F[x][f] = F[x][the(x)]
    BY <1>5, <2>1, <2>2 DEF Local
  <2> QED
    BY <1>5, <2>1, <2>3 DEF Defines
<1> QED
  BY <1>5, <1>6 DEF Recursive

\* Pairs of naturals, compared by the first and then by the second.
LexOrder(a, b, D) ==
  {p \in D \X D : \/ a[p[1]] < a[p[2]]
                  \/ a[p[1]] = a[p[2]] /\ b[p[1]] < b[p[2]]}

LEMMA LexFounded ==
  ASSUME NEW D, NEW a \in [D -> Nat], NEW b \in [D -> Nat]
  PROVE  Founded(LexOrder(a, b, D), D)
<1> DEFINE R == LexOrder(a, b, D)
<1>1. \A x, y \in D :
        <<x, y>> \in R <=> a[x] < a[y] \/ (a[x] = a[y] /\ b[x] < b[y])
  BY DEF LexOrder
<1> HIDE DEF R
<1>2. \A x, y, z \in D : <<x, y>> \in R /\ <<y, z>> \in R => <<x, z>> \in R
  BY <1>1
<1>3. ASSUME NEW Q \in SUBSET D, Q # {}
      PROVE  \E x \in Q : \A y \in Q : <<y, x>> \notin R
  <2>1. {a[x] : x \in Q} \in SUBSET Nat /\ {a[x] : x \in Q} # {}
    BY <1>3
  <2>2. PICK m \in {a[x] : x \in Q} : \A k \in {a[x] : x \in Q} : m <= k
    BY <2>1, LeastOfNats
  <2> DEFINE P == {x \in Q : a[x] = m}
  <2>3. {b[x] : x \in P} \in SUBSET Nat /\ {b[x] : x \in P} # {}
    BY <2>2
  <2>4. PICK k \in {b[x] : x \in P} : \A j \in {b[x] : x \in P} : k <= j
    BY <2>3, LeastOfNats
  <2>5. PICK x \in P : b[x] = k
    BY <2>4
  <2>6. ASSUME NEW y \in Q
        PROVE  <<y, x>> \notin R
    <3>1. a[x] = m /\ m <= a[y] /\ m \in Nat /\ a[y] \in Nat /\ b[y] \in Nat
          /\ b[x] \in Nat
      BY <2>2, <2>5
    <3>2. a[y] = m => b[x] <= b[y]
      BY <2>4, <2>5
    <3> QED
      BY <1>1, <2>5, <3>1, <3>2
  <2> QED
    BY <2>5, <2>6
<1> QED
  BY <1>2, <1>3 DEF Founded, R
=============================================================================
