----------------------------- MODULE SumsProofs -----------------------------
(***************************************************************************)
(* What the components' proofs need of sums: the counts that clients and   *)
(* loops keep for themselves are added up with SumFunctionOnSet, a fold    *)
(* over the subsets of a set that takes its elements in an order nobody    *)
(* knows.  The fold is shown to be defined on every finite set, by a       *)
(* smallest set on which it would not be, and from there on a sum is what  *)
(* one expects of it: the terms one by one, in any order.                  *)
(***************************************************************************)
EXTENDS Integers, Sequences, FiniteSets, FiniteSetsExt, Functions, FiniteSetTheorems,
        WellFoundedInduction, TLAPS

\* The element the fold takes first, and the function it is the value of.
First(s) == CHOOSE x \in s : TRUE

Iterates(it, f, S) ==
  it = [s \in SUBSET S |-> IF s = {} THEN 0 ELSE f[First(s)] + it[s \ {First(s)}]]

Iteration(f, S) == CHOOSE it : Iterates(it, f, S)

-----------------------------------------------------------------------------

\* Among subsets of a finite set there is one with none of them inside it.
LEMMA SmallestSubset ==
  ASSUME NEW S, IsFiniteSet(S), NEW X, X \subseteq SUBSET S, X # {}
  PROVE  \E s \in X : \A t \in X : t \subseteq s => t = s
<1>1. IsWellFoundedOn(StrictSubsetOrdering(S), SUBSET S)
  BY FS_StrictSubsetOrderingWellFounded, FS_FiniteSubsetsOfFinite
<1>2. PICK s \in X : \A t \in X : ~(<<t, s>> \in StrictSubsetOrdering(S))
  BY <1>1, WFMin, Zenon
<1>3. ASSUME NEW t \in X, t \subseteq s PROVE t = s
  <2>1. <<t, s>> \in (SUBSET S) \X (SUBSET S) /\ <<t, s>>[1] = t /\ <<t, s>>[2] = s
    OBVIOUS
  <2>2. QED
    BY <1>2, <1>3, <2>1 DEF StrictSubsetOrdering
<1>4. QED
  BY <1>2, <1>3

\* A set of natural numbers has a least one.
LEMMA LeastNumber ==
  ASSUME NEW S \in SUBSET Nat, S # {}
  PROVE  \E x \in S : \A y \in S : x <= y
<1> DEFINE Less == {ss \in Nat \X Nat : ss[1] < ss[2]}
<1>1. IsWellFoundedOn(Less, Nat)
  BY NatLessThanWellFounded DEF OpToRel
<1> HIDE DEF Less
<1>2. PICK x \in S : \A y \in S : ~(<<y, x>> \in Less)
  BY <1>1, WFMin, Zenon
<1>3. ASSUME NEW y \in S PROVE x <= y
  <2>1. <<y, x>> \in Nat \X Nat /\ <<y, x>>[1] = y /\ <<y, x>>[2] = x
    OBVIOUS
  <2>2. ~(y < x)
    BY <1>2, <2>1, Zenon DEF Less
  <2>3. QED
    BY <2>2
<1>4. QED
  BY <1>2, <1>3

LEMMA SumIsIteration ==
  ASSUME NEW f, NEW S
  PROVE  SumFunctionOnSet(f, S) = Iteration(f, S)[S]
BY Zenon DEF SumFunctionOnSet, FoldFunctionOnSet, MapThenFoldSet, Iteration, Iterates, First

LEMMA FirstIn == ASSUME NEW s, s # {} PROVE First(s) \in s
BY DEF First

LEMMA IteratesAt ==
  ASSUME NEW it, NEW f, NEW S, Iterates(it, f, S), NEW s, s \subseteq S
  PROVE  /\ s = {} => it[s] = 0
         /\ s # {} => it[s] = f[First(s)] + it[s \ {First(s)}]
BY SMT DEF Iterates

\* Two functions the fold goes through agree where both are defined.
LEMMA IteratesUnique ==
  ASSUME NEW f, NEW S, IsFiniteSet(S), NEW T, T \subseteq S,
         NEW a, Iterates(a, f, S), NEW b, Iterates(b, f, T)
  PROVE  \A s \in SUBSET T : a[s] = b[s]
<1> DEFINE X == {s \in SUBSET T : a[s] # b[s]}
<1> SUFFICES ASSUME X # {} PROVE FALSE
  OBVIOUS
<1>1. PICK s \in X : \A t \in X : t \subseteq s => t = s
  <2>1. IsFiniteSet(T)
    BY FS_Subset
  <2>2. X \subseteq SUBSET T
    OBVIOUS
  <2> HIDE DEF X
  <2>3. QED
    BY <2>1, <2>2, SmallestSubset
<1>2. s \subseteq T /\ s \subseteq S /\ a[s] # b[s]
  OBVIOUS
<1>3. s # {}
  BY <1>2, IteratesAt
<1>4. First(s) \in s
  BY <1>3, FirstIn
<1>5. /\ a[s] = f[First(s)] + a[s \ {First(s)}]
      /\ b[s] = f[First(s)] + b[s \ {First(s)}]
  BY <1>2, <1>3, IteratesAt
<1>6. a[s \ {First(s)}] = b[s \ {First(s)}]
  BY <1>1, <1>2, <1>4
<1>7. QED
  BY <1>2, <1>5, <1>6

\* One step of the fold, once it is defined below.
LEMMA SumStepBelow ==
  ASSUME NEW f, NEW S, IsFiniteSet(S), S # {},
         \E it : Iterates(it, f, S), \E it : Iterates(it, f, S \ {First(S)})
  PROVE  SumFunctionOnSet(f, S) = f[First(S)] + SumFunctionOnSet(f, S \ {First(S)})
<1> DEFINE x == First(S)
           a == Iteration(f, S)
           b == Iteration(f, S \ {x})
<1>1. Iterates(a, f, S) /\ Iterates(b, f, S \ {x})
  BY Zenon DEF Iteration
<1>2. S \subseteq S /\ S \ {x} \subseteq S /\ S \ {x} \in SUBSET (S \ {x})
  OBVIOUS
<1> HIDE DEF a, b
<1>3. a[S] = f[x] + a[S \ {x}]
  BY <1>1, <1>2, IteratesAt
<1>4. a[S \ {x}] = b[S \ {x}]
  BY <1>1, <1>2, IteratesUnique
<1>5. QED
  BY <1>3, <1>4, SumIsIteration DEF a, b

\* The fold is defined on every finite set.
LEMMA IterationExists ==
  ASSUME NEW f, NEW S, IsFiniteSet(S)
  PROVE  \E it : Iterates(it, f, S)
<1> DEFINE X == {s \in SUBSET S : ~\E it : Iterates(it, f, s)}
<1> SUFFICES ASSUME X # {} PROVE FALSE
  OBVIOUS
<1>1. PICK s \in X : \A t \in X : t \subseteq s => t = s
  <2>1. X \subseteq SUBSET S
    OBVIOUS
  <2> HIDE DEF X
  <2>2. QED
    BY <2>1, SmallestSubset
<1>2. /\ s \subseteq S /\ ~\E it : Iterates(it, f, s)
      /\ \A t \in SUBSET s : t # s => \E it : Iterates(it, f, t)
  BY <1>1
<1>3. IsFiniteSet(s) /\ \A t \in SUBSET s : IsFiniteSet(t)
  BY <1>2, FS_Subset
<1> HIDE DEF X
<1> DEFINE it == [t \in SUBSET s |->
                    IF t = {} THEN 0
                    ELSE f[First(t)] + SumFunctionOnSet(f, t \ {First(t)})]
<1>4. ASSUME NEW t \in SUBSET s, t # s
      PROVE  it[t] = SumFunctionOnSet(f, t)
  <2>1. PICK a : Iterates(a, f, t)
    BY <1>2, <1>4
  <2>2. CASE t = {}
    <3>1. Iterates(Iteration(f, t), f, t)
      BY <2>1, Zenon DEF Iteration
    <3>2. Iteration(f, t)[t] = 0
      BY <2>2, <3>1, IteratesAt
    <3>3. QED
      BY <2>2, <3>2, SumIsIteration
  <2>3. CASE t # {}
    <3>1. First(t) \in t /\ t \ {First(t)} \in SUBSET s /\ t \ {First(t)} # s
      BY <2>3, FirstIn
    <3>2. \E b : Iterates(b, f, t \ {First(t)})
      BY <1>2, <3>1
    <3>3. SumFunctionOnSet(f, t) = f[First(t)] + SumFunctionOnSet(f, t \ {First(t)})
      BY <1>3, <2>1, <2>3, <3>2, SumStepBelow
    <3>4. QED
      BY <2>3, <3>3
  <2>4. QED
    BY <2>2, <2>3
<1>5. \A t \in SUBSET s : t # {} => it[t \ {First(t)}] = SumFunctionOnSet(f, t \ {First(t)})
  <2>1. ASSUME NEW t \in SUBSET s, t # {}
        PROVE  t \ {First(t)} \in SUBSET s /\ t \ {First(t)} # s
    BY <2>1, FirstIn
  <2>2. QED
    BY <1>4, <2>1
<1>6. it = [t \in SUBSET s |-> IF t = {} THEN 0 ELSE f[First(t)] + it[t \ {First(t)}]]
  <2>1. \A t \in SUBSET s :
          (IF t = {} THEN 0 ELSE f[First(t)] + SumFunctionOnSet(f, t \ {First(t)}))
            = (IF t = {} THEN 0 ELSE f[First(t)] + it[t \ {First(t)}])
    BY <1>5
  <2>2. QED
    BY <2>1
<1>7. Iterates(it, f, s)
  BY <1>6, Zenon DEF Iterates
<1>8. QED
  BY <1>2, <1>7

-----------------------------------------------------------------------------
(* Sums, one term at a time.                                               *)

\* A sum of nothing, and a sum without the term the fold takes first.
LEMMA SumStep ==
  ASSUME NEW f, NEW S, IsFiniteSet(S)
  PROVE  /\ S = {} => SumFunctionOnSet(f, S) = 0
         /\ S # {} => SumFunctionOnSet(f, S) = f[First(S)] + SumFunctionOnSet(f, S \ {First(S)})
<1>1. \E it : Iterates(it, f, S)
  BY IterationExists
<1>2. ASSUME S = {} PROVE SumFunctionOnSet(f, S) = 0
  <2>1. Iterates(Iteration(f, S), f, S)
    BY <1>1, Zenon DEF Iteration
  <2>2. QED
    BY <1>2, <2>1, IteratesAt, SumIsIteration
<1>3. ASSUME S # {}
      PROVE  SumFunctionOnSet(f, S) = f[First(S)] + SumFunctionOnSet(f, S \ {First(S)})
  <2>1. IsFiniteSet(S \ {First(S)})
    BY FS_RemoveElement
  <2>2. \E it : Iterates(it, f, S \ {First(S)})
    BY <2>1, IterationExists
  <2>3. QED
    BY <1>1, <1>3, <2>2, SumStepBelow
<1>4. QED
  BY <1>2, <1>3

\* A family of sets that has the empty one, and every set it has without the
\* set's first element, has every finite set.
LEMMA FiniteSetsReached ==
  ASSUME NEW S, IsFiniteSet(S), NEW X, {} \in X,
         \A t \in SUBSET S : t # {} /\ t \ {First(t)} \in X => t \in X
  PROVE  S \in X
<1> DEFINE Y == {t \in SUBSET S : t \notin X}
<1> SUFFICES ASSUME Y # {} PROVE FALSE
  OBVIOUS
<1>1. PICK t \in Y : \A u \in Y : u \subseteq t => u = t
  <2>1. Y \subseteq SUBSET S
    OBVIOUS
  <2> HIDE DEF Y
  <2>2. QED
    BY <2>1, SmallestSubset
<1>2. t # {} /\ t \in SUBSET S /\ t \notin X
  BY <1>1
<1>3. First(t) \in t
  BY <1>2, FirstIn
<1>4. t \ {First(t)} \in X
  BY <1>1, <1>2, <1>3
<1>5. QED
  BY <1>2, <1>4

\* Terms that are integers have an integer for a sum.
LEMMA SumInt ==
  ASSUME NEW f, NEW S, IsFiniteSet(S), \A x \in S : f[x] \in Int
  PROVE  SumFunctionOnSet(f, S) \in Int
<1> DEFINE X == {t \in SUBSET S : SumFunctionOnSet(f, t) \in Int}
<1>1. {} \in X
  <2>1. SumFunctionOnSet(f, {}) = 0
    BY SumStep, FS_EmptySet
  <2>2. QED
    BY <2>1
<1>2. ASSUME NEW t \in SUBSET S, t # {}, t \ {First(t)} \in X PROVE t \in X
  <2>1. First(t) \in S
    BY <1>2, FirstIn
  <2>2. IsFiniteSet(t)
    BY FS_Subset
  <2>3. SumFunctionOnSet(f, t) = f[First(t)] + SumFunctionOnSet(f, t \ {First(t)})
    BY <1>2, <2>2, SumStep
  <2>4. QED
    BY <1>2, <2>1, <2>3
<1> HIDE DEF X
<1>3. S \in X
  BY <1>1, <1>2, FiniteSetsReached
<1>4. QED
  BY <1>3 DEF X

\* A sum is of its terms only.
LEMMA SumSame ==
  ASSUME NEW f, NEW g, NEW S, IsFiniteSet(S), \A x \in S : f[x] = g[x]
  PROVE  SumFunctionOnSet(f, S) = SumFunctionOnSet(g, S)
<1> DEFINE X == {t \in SUBSET S : SumFunctionOnSet(f, t) = SumFunctionOnSet(g, t)}
<1>1. {} \in X
  <2>1. SumFunctionOnSet(f, {}) = 0 /\ SumFunctionOnSet(g, {}) = 0
    BY SumStep, FS_EmptySet
  <2>2. QED
    BY <2>1
<1>2. ASSUME NEW t \in SUBSET S, t # {}, t \ {First(t)} \in X PROVE t \in X
  <2>1. First(t) \in S
    BY <1>2, FirstIn
  <2>2. IsFiniteSet(t)
    BY FS_Subset
  <2>3. /\ SumFunctionOnSet(f, t) = f[First(t)] + SumFunctionOnSet(f, t \ {First(t)})
        /\ SumFunctionOnSet(g, t) = g[First(t)] + SumFunctionOnSet(g, t \ {First(t)})
    BY <1>2, <2>2, SumStep
  <2>4. QED
    BY <1>2, <2>1, <2>3
<1> HIDE DEF X
<1>3. S \in X
  BY <1>1, <1>2, FiniteSetsReached
<1>4. QED
  BY <1>3 DEF X

\* The order is of no account: any term may be taken out first.
LEMMA SumTake ==
  ASSUME NEW f, NEW S, IsFiniteSet(S), \A x \in S : f[x] \in Int, NEW c \in S
  PROVE  SumFunctionOnSet(f, S) = f[c] + SumFunctionOnSet(f, S \ {c})
<1> DEFINE Take(t, x) == SumFunctionOnSet(f, t) = f[x] + SumFunctionOnSet(f, t \ {x})
           X == {t \in SUBSET S : \E x \in t : ~Take(t, x)}
<1> SUFFICES ASSUME X # {} PROVE FALSE
  OBVIOUS
<1>1. PICK t \in X : \A u \in X : u \subseteq t => u = t
  <2>1. X \subseteq SUBSET S
    OBVIOUS
  <2> HIDE DEF X
  <2>2. QED
    BY <2>1, SmallestSubset
<1>2. PICK x \in t : ~Take(t, x)
  BY <1>1
<1>3. t \in SUBSET S /\ \A u \in SUBSET S : u \subseteq t /\ u # t => \A z \in u : Take(u, z)
  BY <1>1
<1> HIDE DEF X
<1> DEFINE y == First(t)
           rest == (t \ {y}) \ {x}
<1>4. IsFiniteSet(t) /\ t # {} /\ y \in t
  BY <1>3, FS_Subset, FirstIn
<1>5. Take(t, y)
  BY <1>4, SumStep
<1>6. x # y
  BY <1>2, <1>5
<1>7. SumFunctionOnSet(f, t \ {y}) = f[x] + SumFunctionOnSet(f, rest)
  BY <1>3, <1>4, <1>6
<1>8. SumFunctionOnSet(f, t \ {x}) = f[y] + SumFunctionOnSet(f, rest)
  <2>1. (t \ {x}) \ {y} = rest
    OBVIOUS
  <2>2. Take(t \ {x}, y)
    BY <1>3, <1>4, <1>6
  <2>3. QED
    BY <2>1, <2>2
<1>9. f[x] \in Int /\ f[y] \in Int /\ SumFunctionOnSet(f, rest) \in Int
  <2>1. IsFiniteSet(rest) /\ rest \subseteq S
    BY <1>3, <1>4, FS_Subset
  <2>2. SumFunctionOnSet(f, rest) \in Int
    BY <2>1, SumInt
  <2>3. QED
    BY <1>3, <1>4, <2>2
<1>10. QED
  BY <1>2, <1>5, <1>7, <1>8, <1>9

\* One term changes and the sum changes by as much.
LEMMA SumChange ==
  ASSUME NEW f, NEW g, NEW S, IsFiniteSet(S), NEW c \in S,
         \A x \in S : f[x] \in Int /\ g[x] \in Int,
         \A x \in S \ {c} : f[x] = g[x]
  PROVE  SumFunctionOnSet(g, S) = SumFunctionOnSet(f, S) + (g[c] - f[c])
<1>1. IsFiniteSet(S \ {c})
  BY FS_RemoveElement
<1>2. SumFunctionOnSet(f, S \ {c}) = SumFunctionOnSet(g, S \ {c})
  BY <1>1, SumSame
<1>3. SumFunctionOnSet(f, S \ {c}) \in Int
  BY <1>1, SumInt
<1>4. /\ SumFunctionOnSet(f, S) = f[c] + SumFunctionOnSet(f, S \ {c})
      /\ SumFunctionOnSet(g, S) = g[c] + SumFunctionOnSet(g, S \ {c})
  BY SumTake
<1>5. QED
  BY <1>2, <1>3, <1>4

\* The sum of sums.
LEMMA SumPlus ==
  ASSUME NEW f, NEW g, NEW h, NEW S, IsFiniteSet(S),
         \A x \in S : f[x] \in Int /\ g[x] \in Int /\ h[x] = f[x] + g[x]
  PROVE  SumFunctionOnSet(h, S) = SumFunctionOnSet(f, S) + SumFunctionOnSet(g, S)
<1> DEFINE F(t) == SumFunctionOnSet(f, t)
           G(t) == SumFunctionOnSet(g, t)
           H(t) == SumFunctionOnSet(h, t)
           X == {t \in SUBSET S : H(t) = F(t) + G(t)}
<1>1. {} \in X
  <2>1. F({}) = 0 /\ G({}) = 0 /\ H({}) = 0
    BY SumStep, FS_EmptySet
  <2>2. QED
    BY <2>1
<1>2. ASSUME NEW t \in SUBSET S, t # {}, t \ {First(t)} \in X PROVE t \in X
  <2> DEFINE y == First(t)
             r == t \ {y}
  <2>1. y \in S
    BY <1>2, FirstIn
  <2>2. IsFiniteSet(t) /\ IsFiniteSet(r)
    BY FS_Subset
  <2>3. F(t) = f[y] + F(r) /\ G(t) = g[y] + G(r) /\ H(t) = h[y] + H(r)
    BY <1>2, <2>2, SumStep
  <2>4. F(r) \in Int /\ G(r) \in Int
    BY <2>2, SumInt
  <2>5. H(r) = F(r) + G(r)
    BY <1>2
  <2> HIDE DEF F, G, H
  <2>6. H(t) = F(t) + G(t)
    BY <2>1, <2>3, <2>4, <2>5
  <2>7. QED
    BY <2>6
<1> HIDE DEF X
<1>3. S \in X
  BY <1>1, <1>2, FiniteSetsReached
<1>4. QED
  BY <1>3 DEF X

\* A sum of larger terms is no smaller.
LEMMA SumAtMost ==
  ASSUME NEW f, NEW g, NEW S, IsFiniteSet(S),
         \A x \in S : f[x] \in Int /\ g[x] \in Int /\ f[x] <= g[x]
  PROVE  SumFunctionOnSet(f, S) <= SumFunctionOnSet(g, S)
<1> DEFINE F(t) == SumFunctionOnSet(f, t)
           G(t) == SumFunctionOnSet(g, t)
           X == {t \in SUBSET S : F(t) <= G(t)}
<1>1. {} \in X
  <2>1. F({}) = 0 /\ G({}) = 0
    BY SumStep, FS_EmptySet
  <2>2. QED
    BY <2>1
<1>2. ASSUME NEW t \in SUBSET S, t # {}, t \ {First(t)} \in X PROVE t \in X
  <2> DEFINE y == First(t)
             r == t \ {y}
  <2>1. y \in S
    BY <1>2, FirstIn
  <2>2. IsFiniteSet(t) /\ IsFiniteSet(r)
    BY FS_Subset
  <2>3. F(t) = f[y] + F(r) /\ G(t) = g[y] + G(r)
    BY <1>2, <2>2, SumStep
  <2>4. F(r) \in Int /\ G(r) \in Int
    BY <2>2, SumInt
  <2>5. F(r) <= G(r)
    BY <1>2
  <2> HIDE DEF F, G
  <2>6. F(t) <= G(t)
    BY <2>1, <2>3, <2>4, <2>5
  <2>7. QED
    BY <2>6
<1> HIDE DEF X
<1>3. S \in X
  BY <1>1, <1>2, FiniteSetsReached
<1>4. QED
  BY <1>3 DEF X

\* A sum of zeroes, and a sum of natural numbers.
LEMMA SumZero ==
  ASSUME NEW f, NEW S, IsFiniteSet(S), \A x \in S : f[x] = 0
  PROVE  SumFunctionOnSet(f, S) = 0
<1> DEFINE X == {t \in SUBSET S : SumFunctionOnSet(f, t) = 0}
<1>1. {} \in X
  BY SumStep, FS_EmptySet
<1>2. ASSUME NEW t \in SUBSET S, t # {}, t \ {First(t)} \in X PROVE t \in X
  <2>1. First(t) \in S
    BY <1>2, FirstIn
  <2>2. IsFiniteSet(t)
    BY FS_Subset
  <2>3. SumFunctionOnSet(f, t) = f[First(t)] + SumFunctionOnSet(f, t \ {First(t)})
    BY <1>2, <2>2, SumStep
  <2>4. QED
    BY <1>2, <2>1, <2>3
<1> HIDE DEF X
<1>3. S \in X
  BY <1>1, <1>2, FiniteSetsReached
<1>4. QED
  BY <1>3 DEF X

LEMMA SumNat ==
  ASSUME NEW f, NEW S, IsFiniteSet(S), \A x \in S : f[x] \in Nat
  PROVE  SumFunctionOnSet(f, S) \in Nat
<1> DEFINE z == [x \in S |-> 0]
<1>1. SumFunctionOnSet(z, S) = 0
  <2>1. \A x \in S : z[x] = 0
    OBVIOUS
  <2> HIDE DEF z
  <2>2. QED
    BY <2>1, SumZero
<1>2. SumFunctionOnSet(z, S) <= SumFunctionOnSet(f, S)
  <2>1. \A x \in S : z[x] \in Int /\ f[x] \in Int /\ z[x] <= f[x]
    OBVIOUS
  <2> HIDE DEF z
  <2>2. QED
    BY <2>1, SumAtMost
<1>3. SumFunctionOnSet(f, S) \in Int
  BY SumInt
<1>4. QED
  BY <1>1, <1>2, <1>3

\* No term is larger than a sum of natural numbers it is in.
LEMMA SumHas ==
  ASSUME NEW f, NEW S, IsFiniteSet(S), \A x \in S : f[x] \in Nat, NEW c \in S
  PROVE  f[c] <= SumFunctionOnSet(f, S)
<1>1. IsFiniteSet(S \ {c})
  BY FS_RemoveElement
<1>2. SumFunctionOnSet(f, S \ {c}) \in Nat
  BY <1>1, SumNat
<1>3. SumFunctionOnSet(f, S) = f[c] + SumFunctionOnSet(f, S \ {c})
  <2>1. \A x \in S : f[x] \in Int
    OBVIOUS
  <2>2. QED
    BY <2>1, SumTake
<1>4. QED
  BY <1>2, <1>3

\* One each is the number of them.
LEMMA SumOnes ==
  ASSUME NEW f, NEW S, IsFiniteSet(S), \A x \in S : f[x] = 1
  PROVE  SumFunctionOnSet(f, S) = Cardinality(S)
<1> DEFINE X == {t \in SUBSET S : SumFunctionOnSet(f, t) = Cardinality(t)}
<1>1. {} \in X
  BY SumStep, FS_EmptySet
<1>2. ASSUME NEW t \in SUBSET S, t # {}, t \ {First(t)} \in X PROVE t \in X
  <2>1. First(t) \in S /\ First(t) \in t
    BY <1>2, FirstIn
  <2>2. IsFiniteSet(t)
    BY FS_Subset
  <2>3. SumFunctionOnSet(f, t) = f[First(t)] + SumFunctionOnSet(f, t \ {First(t)})
    BY <1>2, <2>2, SumStep
  <2>4. Cardinality(t \ {First(t)}) = Cardinality(t) - 1 /\ Cardinality(t) \in Nat
    BY <2>1, <2>2, FS_RemoveElement, FS_CardinalityType
  <2>5. QED
    BY <1>2, <2>1, <2>3, <2>4
<1> HIDE DEF X
<1>3. S \in X
  BY <1>1, <1>2, FiniteSetsReached
<1>4. QED
  BY <1>3 DEF X

\* A sum over a sequence grows by what is appended.
LEMMA SumAppend ==
  ASSUME NEW s \in Seq(Int), NEW e \in Int
  PROVE  /\ SumFunction(s) \in Int
         /\ SumFunction(<<>>) = 0
         /\ SumFunction(Append(s, e)) = SumFunction(s) + e
<1> DEFINE n == Len(s)
           t == Append(s, e)
<1>1. n \in Nat /\ DOMAIN s = 1..n /\ DOMAIN t = 1..(n + 1) /\ DOMAIN <<>> = {}
  OBVIOUS
<1>2. /\ \A i \in 1..n : s[i] \in Int /\ t[i] = s[i]
      /\ t[n + 1] = e /\ \A i \in 1..(n + 1) : t[i] \in Int
  OBVIOUS
<1> HIDE DEF n, t
<1>3. IsFiniteSet(1..n) /\ IsFiniteSet(1..(n + 1))
  BY <1>1, FS_Interval
<1>4. SumFunctionOnSet(s, 1..n) \in Int
  BY <1>2, <1>3, SumInt
<1>5. SumFunctionOnSet(t, 1..(n + 1)) = e + SumFunctionOnSet(t, (1..(n + 1)) \ {n + 1})
  <2>1. n + 1 \in 1..(n + 1)
    BY <1>1
  <2>2. QED
    BY <1>2, <1>3, <2>1, SumTake
<1>6. (1..(n + 1)) \ {n + 1} = 1..n
  BY <1>1
<1>7. SumFunctionOnSet(t, 1..n) = SumFunctionOnSet(s, 1..n)
  BY <1>2, <1>3, SumSame
<1>8. SumFunctionOnSet(<<>>, {}) = 0
  BY SumStep, FS_EmptySet
<1>9. /\ SumFunction(s) = SumFunctionOnSet(s, 1..n)
      /\ SumFunction(t) = SumFunctionOnSet(t, 1..(n + 1))
      /\ SumFunction(<<>>) = SumFunctionOnSet(<<>>, {})
  BY <1>1, Zenon DEF SumFunction
<1>10. SumFunction(t) = SumFunction(s) + e
  <2>1. SumFunction(t) = e + SumFunction(s)
    BY <1>5, <1>6, <1>7, <1>9, Zenon
  <2>2. SumFunction(s) \in Int
    BY <1>4, <1>9, Zenon
  <2>3. QED
    BY <2>1, <2>2
<1>11. QED
  BY <1>4, <1>8, <1>9, <1>10 DEF t

\* A set is as large as its parts together.
Parts(W, S, c, g) ==
  /\ \A x \in W : c[x] \in S
  /\ \A s \in S : g[s] = Cardinality({x \in W : c[x] = s})

LEMMA SumParts ==
  ASSUME NEW W, IsFiniteSet(W), NEW S, IsFiniteSet(S), NEW c, NEW g, Parts(W, S, c, g)
  PROVE  Cardinality(W) = SumFunctionOnSet(g, S)
<1> USE DEF Parts
<1> DEFINE Within(T) == {x \in W : c[x] \in T}
           Only(s) == {x \in W : c[x] = s}
           X == {T \in SUBSET S : SumFunctionOnSet(g, T) = Cardinality(Within(T))}
<1>1. {} \in X
  <2>1. Within({}) = {}
    OBVIOUS
  <2>2. SumFunctionOnSet(g, {}) = 0
    BY SumStep, FS_EmptySet
  <2>3. Cardinality(Within({})) = 0
    BY <2>1, FS_EmptySet, Zenon
  <2> QED BY <2>2, <2>3
<1>2. ASSUME NEW T \in SUBSET S, T # {}, T \ {First(T)} \in X PROVE T \in X
  <2> DEFINE a == First(T)
             U == T \ {a}
  <2>1. a \in T /\ a \in S
    BY <1>2, FirstIn
  <2>2. IsFiniteSet(T)
    BY FS_Subset
  <2>3. SumFunctionOnSet(g, T) = g[a] + SumFunctionOnSet(g, U)
    BY <1>2, <2>2, SumStep
  <2>4. SumFunctionOnSet(g, U) = Cardinality(Within(U))
    BY <1>2
  <2>5. g[a] = Cardinality(Only(a))
    BY <2>1
  <2> HIDE DEF a
  <2>6. Within(T) = Only(a) \cup Within(U) /\ Only(a) \cap Within(U) = {}
    BY <2>1
  <2>7. IsFiniteSet(Only(a)) /\ IsFiniteSet(Within(U))
    <3>1. Only(a) \in SUBSET W /\ Within(U) \in SUBSET W
      OBVIOUS
    <3> HIDE DEF Only, Within
    <3> QED BY <3>1, FS_Subset
  <2> HIDE DEF Only, Within, U
  <2>8. Cardinality(Only(a) \cup Within(U)) = Cardinality(Only(a)) + Cardinality(Within(U))
    <3>1. Cardinality(Only(a)) \in Nat /\ Cardinality(Within(U)) \in Nat
      BY <2>7, FS_CardinalityType
    <3>2. Cardinality(Only(a) \cap Within(U)) = 0
      BY <2>6, FS_EmptySet, Zenon
    <3>3. Cardinality(Only(a) \cup Within(U)) =
            Cardinality(Only(a)) + Cardinality(Within(U)) - Cardinality(Only(a) \cap Within(U))
      BY <2>7, FS_Union
    <3> QED BY <3>1, <3>2, <3>3
  <2>9. SumFunctionOnSet(g, T) = Cardinality(Within(T))
    BY <2>3, <2>4, <2>5, <2>6, <2>8
  <2> QED BY <2>9
<1> HIDE DEF X
<1>3. S \in X
  BY <1>1, <1>2, FiniteSetsReached
<1>4. SumFunctionOnSet(g, S) = Cardinality(Within(S))
  BY <1>3 DEF X
<1>5. Within(S) = W
  OBVIOUS
<1> QED BY <1>4, <1>5, Zenon

\* Two sets that share nothing add up.
LEMMA SumUnion ==
  ASSUME NEW f, NEW A, NEW B, IsFiniteSet(A), IsFiniteSet(B), A \cap B = {},
         \A x \in A \cup B : f[x] \in Int
  PROVE  SumFunctionOnSet(f, A \cup B) = SumFunctionOnSet(f, A) + SumFunctionOnSet(f, B)
<1> DEFINE F(t) == SumFunctionOnSet(f, t)
           X == {t \in SUBSET B : F(A \cup t) = F(A) + F(t)}
<1>1. F(A) \in Int
  BY SumInt
<1>2. {} \in X
  <2>1. A \cup {} = A /\ F({}) = 0
    BY SumStep, FS_EmptySet
  <2> HIDE DEF F
  <2>2. F(A \cup {}) = F(A)
    BY <2>1
  <2> QED
    BY <1>1, <2>1, <2>2
<1>3. ASSUME NEW t \in SUBSET B, t # {}, t \ {First(t)} \in X PROVE t \in X
  <2> DEFINE y == First(t)
             r == t \ {y}
  <2>1. y \in t
    BY <1>3, FirstIn
  <2>2. IsFiniteSet(t) /\ IsFiniteSet(r)
    BY FS_Subset
  <2>3. IsFiniteSet(A \cup t)
    BY <2>2, FS_Union
  <2>4. F(t) = f[y] + F(r)
    BY <1>3, <2>2, SumStep
  <2>5. F(A \cup r) = F(A) + F(r)
    BY <1>3
  <2> HIDE DEF y
  <2>6. (A \cup t) \ {y} = A \cup r /\ y \in A \cup t /\ \A x \in A \cup t : f[x] \in Int
    BY <2>1
  <2> HIDE DEF r
  <2>7. F(A \cup t) = f[y] + F((A \cup t) \ {y})
    BY <2>3, <2>6, SumTake
  <2>8. F(A \cup t) = f[y] + F(A \cup r)
    BY <2>6, <2>7, Zenon
  <2>9. F(r) \in Int /\ f[y] \in Int
    BY <2>2, <2>6, SumInt DEF r
  <2> HIDE DEF F
  <2>10. F(A \cup t) = F(A) + F(t)
    BY <1>1, <2>4, <2>5, <2>8, <2>9
  <2> QED
    BY <2>10
<1> HIDE DEF X
<1>4. B \in X
  BY <1>2, <1>3, FiniteSetsReached
<1> QED
  BY <1>4 DEF X

\* Of terms that are not negative, more of them make no less.
LEMMA SumInside ==
  ASSUME NEW f, NEW A, NEW B, IsFiniteSet(B), A \subseteq B, \A x \in B : f[x] \in Nat
  PROVE  /\ SumFunctionOnSet(f, A) \in Nat /\ SumFunctionOnSet(f, B) \in Nat
         /\ SumFunctionOnSet(f, A) <= SumFunctionOnSet(f, B)
<1> DEFINE C == B \ A
<1>1. IsFiniteSet(A) /\ IsFiniteSet(C)
  BY FS_Subset
<1>2. A \cup C = B /\ A \cap C = {} /\ \A x \in A \cup C : f[x] \in Int
  OBVIOUS
<1>3. /\ SumFunctionOnSet(f, A) \in Nat /\ SumFunctionOnSet(f, C) \in Nat
      /\ SumFunctionOnSet(f, B) \in Nat
  BY <1>1, SumNat
<1> HIDE DEF C
<1>4. SumFunctionOnSet(f, A \cup C) = SumFunctionOnSet(f, A) + SumFunctionOnSet(f, C)
  BY <1>1, <1>2, SumUnion
<1>5. SumFunctionOnSet(f, B) = SumFunctionOnSet(f, A) + SumFunctionOnSet(f, C)
  BY <1>2, <1>4, Zenon
<1> QED
  BY <1>3, <1>5

\* The differences of neighbours leave the first and the last.
LEMMA Telescope ==
  ASSUME NEW n \in Nat, n >= 1, NEW e, \A i \in 1..n : e[i] \in Int,
         NEW f, \A i \in 2..n : f[i] = e[i] - e[i - 1]
  PROVE  SumFunctionOnSet(f, 2..n) = e[n] - e[1]
<1> DEFINE F(m) == SumFunctionOnSet(f, 2..m)
           Bad == {m \in 1..n : F(m) # e[m] - e[1]}
<1> SUFFICES ASSUME Bad # {} PROVE FALSE
  OBVIOUS
<1>1. PICK m \in Bad : \A k \in Bad : m <= k
  <2>1. Bad \in SUBSET Nat
    OBVIOUS
  <2> HIDE DEF Bad
  <2> QED
    BY <2>1, LeastNumber
<1>2. m \in 1..n /\ F(m) # e[m] - e[1] /\ e[m] \in Int /\ e[1] \in Int
  BY <1>1
<1>3. CASE m = 1
  <2>1. F(1) = 0
    <3>1. 2..1 = {}
      OBVIOUS
    <3>2. SumFunctionOnSet(f, {}) = 0
      BY SumStep, FS_EmptySet
    <3> QED
      BY <3>1, <3>2, Zenon
  <2> HIDE DEF F
  <2> QED
    BY <1>2, <1>3, <2>1
<1>4. CASE m # 1
  <2> DEFINE k == m - 1
  <2>1. k \in 1..n /\ k \notin Bad
    BY <1>1, <1>2, <1>4
  <2>2. F(k) = e[k] - e[1]
    BY <2>1
  <2>3. m \in 2..m /\ (2..m) \ {m} = 2..k /\ \A i \in 2..m : f[i] \in Int
    <3>1. m \in 2..m /\ (2..m) \ {m} = 2..k
      BY <1>2, <1>4
    <3>2. ASSUME NEW i \in 2..m PROVE f[i] \in Int
      <4>1. i \in 2..n /\ i \in 1..n /\ i - 1 \in 1..n
        BY <1>2
      <4>2. f[i] = e[i] - e[i - 1] /\ e[i] \in Int /\ e[i - 1] \in Int
        BY <4>1
      <4> QED
        BY <4>2
    <3> QED
      BY <3>1, <3>2
  <2>4. f[m] = e[m] - e[k] /\ e[k] \in Int
    BY <1>2, <1>4, <2>1
  <2> HIDE DEF k, Bad
  <2>5. F(m) = f[m] + SumFunctionOnSet(f, (2..m) \ {m})
    <3>1. IsFiniteSet(2..m)
      BY <1>2, FS_Interval
    <3> QED
      BY <2>3, <3>1, SumTake
  <2>6. F(m) = f[m] + F(k)
    BY <2>3, <2>5, Zenon
  <2> HIDE DEF F
  <2> QED
    BY <1>2, <2>2, <2>4, <2>6
<1> QED
  BY <1>3, <1>4

\* A finite set of numbers has a least and a largest one.
LEMMA Extremes ==
  ASSUME NEW S, IsFiniteSet(S), S \subseteq Int, S # {}
  PROVE  /\ Max(S) \in S /\ \A y \in S : y <= Max(S)
         /\ Min(S) \in S /\ \A y \in S : Min(S) <= y
<1> DEFINE Both(t) == /\ \E x \in t : \A y \in t : x >= y
                      /\ \E x \in t : \A y \in t : x <= y
           X == {t \in SUBSET S : t # {} => Both(t)}
<1>1. {} \in X
  OBVIOUS
<1>2. ASSUME NEW t \in SUBSET S, t # {}, t \ {First(t)} \in X PROVE t \in X
  <2> DEFINE a == First(t)
             r == t \ {a}
  <2>1. a \in t /\ a \in Int
    BY <1>2, FirstIn
  <2>2. r # {} => Both(r)
    BY <1>2
  <2> HIDE DEF a
  <2>3. CASE r = {}
    <3>1. t = {a}
      BY <2>1, <2>3
    <3> QED
      BY <2>1, <3>1
  <2>4. CASE r # {}
    <3>1. PICK x \in r : \A y \in r : x >= y
      BY <2>2, <2>4
    <3>2. PICK z \in r : \A y \in r : z <= y
      BY <2>2, <2>4
    <3>3. \A y \in t : y = a \/ y \in r
      OBVIOUS
    <3>4. \E u \in t : \A y \in t : u >= y
      BY <2>1, <3>1, <3>3
    <3>5. \E u \in t : \A y \in t : u <= y
      BY <2>1, <3>2, <3>3
    <3> QED
      BY <3>4, <3>5
  <2> QED
    BY <2>3, <2>4
<1> HIDE DEF X
<1>3. S \in X
  BY <1>1, <1>2, FiniteSetsReached
<1>4. Both(S)
  BY <1>3 DEF X
<1>5. Max(S) \in S /\ \A y \in S : Max(S) >= y
  BY <1>4 DEF Max
<1>6. Min(S) \in S /\ \A y \in S : Min(S) <= y
  BY <1>4 DEF Min
<1> QED
  BY <1>5, <1>6

\* Dividing with a remainder.
LEMMA Euclid ==
  ASSUME NEW n \in Nat, NEW d \in Nat \ {0}
  PROVE  /\ n \div d \in Nat /\ n % d \in 0..(d - 1)
         /\ n = d * (n \div d) + (n % d)
OBVIOUS

LEMMA EuclidUnique ==
  ASSUME NEW n \in Nat, NEW d \in Nat \ {0}, NEW q \in Nat, NEW r \in 0..(d - 1), n = d * q + r
  PROVE  n \div d = q /\ n % d = r
<1> DEFINE p == n \div d
           m == n % d
<1>1. p \in Nat /\ m \in 0..(d - 1) /\ n = d * p + m
  BY Euclid
<1> HIDE DEF p, m
<1>2. p = q
  <2>1. ASSUME p > q PROVE FALSE
    <3>1. PICK k \in Nat : p = q + 1 + k
      <4>1. p - q - 1 \in Nat /\ p = q + 1 + (p - q - 1)
        BY <1>1, <2>1
      <4> QED BY <4>1
    <3>2. d * p = d * q + d + d * k
      BY <3>1
    <3>3. d * k \in Nat /\ d * q \in Nat /\ d * p \in Nat
      BY <1>1, <3>1
    <3> QED BY <1>1, <3>2, <3>3
  <2>2. ASSUME q > p PROVE FALSE
    <3>1. PICK k \in Nat : q = p + 1 + k
      <4>1. q - p - 1 \in Nat /\ q = p + 1 + (q - p - 1)
        BY <1>1, <2>2
      <4> QED BY <4>1
    <3>2. d * q = d * p + d + d * k
      BY <1>1, <3>1
    <3>3. d * k \in Nat /\ d * q \in Nat /\ d * p \in Nat
      BY <1>1, <3>1
    <3> QED BY <1>1, <3>2, <3>3
  <2> QED BY <1>1, <2>1, <2>2
<1>3. m = r
  <2>1. d * p \in Nat
    BY <1>1
  <2> QED BY <1>1, <1>2, <2>1
<1> QED BY <1>2, <1>3 DEF p, m

\* A sum may be taken in groups.
Groups(W, S, f, c, g) ==
  /\ \A x \in W : f[x] \in Int /\ c[x] \in S
  /\ \A s \in S : g[s] = SumFunctionOnSet(f, {x \in W : c[x] = s})

LEMMA SumGroups ==
  ASSUME NEW W, IsFiniteSet(W), NEW S, IsFiniteSet(S), NEW f, NEW c, NEW g, Groups(W, S, f, c, g)
  PROVE  SumFunctionOnSet(f, W) = SumFunctionOnSet(g, S)
<1> USE DEF Groups
<1> DEFINE Within(T) == {x \in W : c[x] \in T}
           Only(s) == {x \in W : c[x] = s}
           X == {T \in SUBSET S : SumFunctionOnSet(g, T) = SumFunctionOnSet(f, Within(T))}
<1>1. {} \in X
  <2>1. Within({}) = {}
    OBVIOUS
  <2>2. SumFunctionOnSet(g, {}) = 0 /\ SumFunctionOnSet(f, {}) = 0
    BY SumStep, FS_EmptySet
  <2>3. SumFunctionOnSet(g, {}) = SumFunctionOnSet(f, Within({}))
    BY <2>1, <2>2, Zenon
  <2> QED BY <2>3
<1>2. ASSUME NEW T \in SUBSET S, T # {}, T \ {First(T)} \in X PROVE T \in X
  <2> DEFINE a == First(T)
             U == T \ {a}
  <2>1. a \in T /\ a \in S
    BY <1>2, FirstIn
  <2>2. IsFiniteSet(T)
    BY FS_Subset
  <2>3. SumFunctionOnSet(g, T) = g[a] + SumFunctionOnSet(g, U)
    BY <1>2, <2>2, SumStep
  <2>4. SumFunctionOnSet(g, U) = SumFunctionOnSet(f, Within(U))
    BY <1>2
  <2>5. g[a] = SumFunctionOnSet(f, Only(a))
    BY <2>1
  <2> HIDE DEF a
  <2>6. Within(T) = Only(a) \cup Within(U) /\ Only(a) \cap Within(U) = {}
    BY <2>1
  <2>7. IsFiniteSet(Only(a)) /\ IsFiniteSet(Within(U)) /\ \A x \in Only(a) \cup Within(U) : f[x] \in Int
    <3>1. Only(a) \in SUBSET W /\ Within(U) \in SUBSET W
      OBVIOUS
    <3> HIDE DEF Only, Within
    <3> QED BY <3>1, FS_Subset
  <2> HIDE DEF Only, Within, U
  <2>8. SumFunctionOnSet(f, Only(a) \cup Within(U)) =
          SumFunctionOnSet(f, Only(a)) + SumFunctionOnSet(f, Within(U))
    BY <2>6, <2>7, SumUnion
  <2>9. SumFunctionOnSet(g, T) = SumFunctionOnSet(f, Within(T))
    BY <2>3, <2>4, <2>5, <2>6, <2>8, Zenon
  <2> QED BY <2>9
<1> HIDE DEF X
<1>3. S \in X
  BY <1>1, <1>2, FiniteSetsReached
<1>4. SumFunctionOnSet(g, S) = SumFunctionOnSet(f, Within(S))
  BY <1>3 DEF X
<1>5. Within(S) = W
  OBVIOUS
<1> QED BY <1>4, <1>5, Zenon
=============================================================================
