------------------------------- MODULE Sums -------------------------------
(***************************************************************************)
(* Facts about the folds by which the models add up the names of a book    *)
(* and the returns of a readout: a sum has a value, of the right type, that *)
(* depends on no order, and sums add.  MapThenSumSet is defined by          *)
(* recursion over the subsets of a set.  The prover cannot instantiate the  *)
(* induction rules of its library, which take a predicate as a parameter,   *)
(* so induction is stated here with a set for the predicate, and proved by  *)
(* a smallest counterexample in a well-founded order.                       *)
(***************************************************************************)
EXTENDS Integers, FiniteSetsExt, FiniteSetTheorems, WellFoundedInduction, TLAPS

\* A set of naturals that holds 0 and every successor holds them all.
LEMMA EveryNatural ==
    ASSUME NEW P, 0 \in P, \A n \in Nat : n \in P => n + 1 \in P
    PROVE  Nat \subseteq P
<1> DEFINE missing == Nat \ P
<1>1. SUFFICES ASSUME missing # {} PROVE FALSE
    OBVIOUS
<1>2. PICK n \in missing : \A k \in missing : ~ (<<k, n>> \in OpToRel(<, Nat))
    <2>1. missing \subseteq Nat
        OBVIOUS
    <2> HIDE DEF missing
    <2> QED BY <1>1, <2>1, NatLessThanWellFounded, WFMin
<1>3. n \in Nat /\ n # 0
    BY <1>2
<1>4. n - 1 \in Nat /\ n - 1 < n
    BY <1>3
<1>5. n - 1 \notin missing
    BY <1>2, <1>3, <1>4 DEF OpToRel
<1>6. (n - 1) + 1 \in P
    BY <1>4, <1>5
<1>7. (n - 1) + 1 = n
    BY <1>3
<1> QED
    BY <1>2, <1>6, <1>7

\* One step of the recursion by which a sum is computed.
Summand(f, g, s) ==
    IF s = {} THEN 0 ELSE f[CHOOSE x \in s : TRUE] + g[s \ {CHOOSE x \in s : TRUE}]

\* The sums of f over the subsets of S.
SumOf(f, S) == CHOOSE g : g = [s \in SUBSET S |-> Summand(f, g, s)]

\* The library's sum of f over S is one of them.
LEMMA SumUnfolds ==
    ASSUME NEW f, NEW S
    PROVE  MapThenSumSet(LAMBDA s : f[s], S) = SumOf(f, S)[S]
BY DEF MapThenSumSet, MapThenFoldSet, SumOf, Summand

\* One step of a fold of the elements of a set, with the operation as a function.
FoldStep(op, base, h, s) ==
    IF s = {} THEN base ELSE op[<<CHOOSE x \in s : TRUE, h[s \ {CHOOSE x \in s : TRUE}]>>]

\* The operation keeps the results in T.
Combines(op, S, T) == \A x \in S, y \in T : op[<<x, y>>] \in T

\* The folds of the subsets of S, with results in T.
FoldsOf(op, base, S, T) ==
    {h \in [SUBSET S -> T] : \A s \in SUBSET S : h[s] = FoldStep(op, base, h, s)}

\* The recursion over the subsets of a finite set has a solution.
LEMMA FoldExists ==
    ASSUME NEW S, IsFiniteSet(S), NEW T, NEW op, Combines(op, S, T), NEW base \in T
    PROVE  FoldsOf(op, base, S, T) # {}
<1> DEFINE Up(n) == \E g \in [SUBSET S -> T] : \A s \in SUBSET S :
                        Cardinality(s) =< n => g[s] = FoldStep(op, base, g, s)
           P == {n \in Nat : Up(n)}
           Sub(s) == s \ {CHOOSE x \in s : TRUE}
<1>1. ASSUME NEW s \in SUBSET S
      PROVE  /\ IsFiniteSet(s) /\ Cardinality(s) \in Nat
             /\ Cardinality(s) =< Cardinality(S)
             /\ Sub(s) \in SUBSET S
             /\ s # {} => /\ Cardinality(Sub(s)) = Cardinality(s) - 1
                          /\ (CHOOSE x \in s : TRUE) \in S
    <2>1. IsFiniteSet(s) /\ Cardinality(s) =< Cardinality(S)
        BY FS_Subset
    <2>2. s # {} => (CHOOSE x \in s : TRUE) \in s
        OBVIOUS
    <2> QED BY <2>1, <2>2, FS_CardinalityType, FS_RemoveElement
<1>2. 0 \in P
    <2> DEFINE z == [s \in SUBSET S |-> base]
    <2>1. z \in [SUBSET S -> T]
        OBVIOUS
    <2>2. ASSUME NEW s \in SUBSET S, Cardinality(s) =< 0 PROVE z[s] = FoldStep(op, base, z, s)
        <3>1. s = {}
            BY <1>1, <2>2, FS_EmptySet
        <3> QED BY <3>1 DEF FoldStep
    <2> HIDE DEF z
    <2> QED BY <2>1, <2>2
<1>3. ASSUME NEW n \in Nat, n \in P PROVE n + 1 \in P
    <2>1. PICK g \in [SUBSET S -> T] :
              \A s \in SUBSET S : Cardinality(s) =< n => g[s] = FoldStep(op, base, g, s)
        BY <1>3
    <2> DEFINE h == [s \in SUBSET S |-> FoldStep(op, base, g, s)]
    <2>2. h \in [SUBSET S -> T]
        <3>1. ASSUME NEW s \in SUBSET S PROVE FoldStep(op, base, g, s) \in T
            BY <1>1 DEF FoldStep, Combines
        <3> QED BY <3>1
    <2>3. ASSUME NEW s \in SUBSET S, Cardinality(s) =< n + 1 PROVE h[s] = FoldStep(op, base, h, s)
        <3>1. CASE s = {}
            BY <3>1 DEF FoldStep
        <3>2. CASE s # {}
            <4>1. Sub(s) \in SUBSET S /\ Cardinality(Sub(s)) =< n
                BY <1>1, <2>3, <3>2
            <4>2. g[Sub(s)] = h[Sub(s)]
                BY <2>1, <4>1
            <4>3. h[s] = FoldStep(op, base, g, s)
                OBVIOUS
            <4> QED BY <3>2, <4>2, <4>3 DEF FoldStep
        <3> QED BY <3>1, <3>2
    <2> HIDE DEF h
    <2>4. Up(n + 1)
        BY <2>2, <2>3
    <2> QED BY <2>4
<1>4. Nat \subseteq P
    <2> HIDE DEF P
    <2> QED BY <1>2, <1>3, EveryNatural
<1>5. Cardinality(S) \in Nat
    BY FS_CardinalityType
<1>6. PICK g \in [SUBSET S -> T] :
          \A s \in SUBSET S : Cardinality(s) =< Cardinality(S) => g[s] = FoldStep(op, base, g, s)
    BY <1>4, <1>5
<1> QED
    BY <1>1, <1>6 DEF FoldsOf

\* That of a sum.
LEMMA SumExists ==
    ASSUME NEW S, IsFiniteSet(S), NEW f \in [S -> Int]
    PROVE  SumOf(f, S) = [s \in SUBSET S |-> Summand(f, SumOf(f, S), s)]
<1> DEFINE op == [z \in S \X Int |-> f[z[1]] + z[2]]
<1>1. op \in [S \X Int -> Int] /\ 0 \in Int
    OBVIOUS
<1>2. PICK h \in [SUBSET S -> Int] : \A s \in SUBSET S : h[s] = FoldStep(op, 0, h, s)
    <2>1. Combines(op, S, Int)
        BY DEF Combines
    <2> HIDE DEF op
    <2>2. FoldsOf(op, 0, S, Int) # {}
        BY <1>1, <2>1, FoldExists
    <2> QED BY <2>2 DEF FoldsOf
<1>3. ASSUME NEW s \in SUBSET S PROVE FoldStep(op, 0, h, s) = Summand(f, h, s)
    <2> DEFINE x == CHOOSE x \in s : TRUE
    <2>1. CASE s = {}
        BY <2>1 DEF FoldStep, Summand
    <2>2. CASE s # {}
        <3>1. x \in S /\ h[s \ {x}] \in Int
            BY <2>2
        <3>2. op[<<x, h[s \ {x}]>>] = f[x] + h[s \ {x}]
            <4> HIDE DEF x
            <4> QED BY <3>1
        <3> QED BY <2>2, <3>2 DEF FoldStep, Summand
    <2> QED BY <2>1, <2>2
<1>4. h = [s \in SUBSET S |-> Summand(f, h, s)]
    BY <1>2, <1>3
<1> QED
    BY <1>4 DEF SumOf

\* What holds of a subset whenever it holds of all smaller ones holds of every
\* subset.
LEMMA SubsetsBySize ==
    ASSUME NEW S, IsFiniteSet(S), NEW P,
           \A s \in SUBSET S :
               (\A t \in SUBSET S : t \subseteq s /\ t # s => t \in P) => s \in P
    PROVE  SUBSET S \subseteq P
<1> DEFINE missing == (SUBSET S) \ P
<1>1. SUFFICES ASSUME missing # {} PROVE FALSE
    OBVIOUS
<1>2. PICK s \in missing : \A t \in missing : ~ (<<t, s>> \in StrictSubsetOrdering(S))
    <2>1. missing \subseteq FiniteSubsetsOf(S)
        BY FS_Subset DEF FiniteSubsetsOf
    <2> HIDE DEF missing
    <2> QED BY <1>1, <2>1, FS_StrictSubsetOrderingWellFounded, WFMin
<1>3. s \in SUBSET S
    BY <1>2
<1>4. \A t \in SUBSET S : t \subseteq s /\ t # s => t \in P
    BY <1>2, <1>3 DEF StrictSubsetOrdering
<1> QED
    BY <1>2, <1>3, <1>4

\* A sum of integers is one.
LEMMA SumIsInt ==
    ASSUME NEW S, IsFiniteSet(S), NEW f \in [S -> Int]
    PROVE  \A s \in SUBSET S : SumOf(f, S)[s] \in Int
<1> DEFINE g == SumOf(f, S)
           P == {s \in SUBSET S : g[s] \in Int}
<1>1. \A s \in SUBSET S : g[s] = Summand(f, g, s)
    BY SumExists
<1> HIDE DEF g
<1>2. ASSUME NEW s \in SUBSET S,
             \A t \in SUBSET S : t \subseteq s /\ t # s => t \in P
      PROVE  g[s] \in Int
    <2> DEFINE c == CHOOSE x \in s : TRUE
    <2>1. CASE s = {}
        <3>1. g[s] = 0
            BY <1>1, <2>1 DEF Summand
        <3> QED BY <3>1
    <2>2. CASE s # {}
        <3>1. c \in s
            BY <2>2
        <3>2. g[s] = f[c] + g[s \ {c}]
            BY <1>1, <2>2 DEF Summand
        <3> HIDE DEF c
        <3>3. s \ {c} \in SUBSET S /\ s \ {c} \subseteq s /\ s \ {c} # s /\ c \in S
            BY <3>1
        <3>4. g[s \ {c}] \in Int
            BY <1>2, <3>3
        <3>5. f[c] \in Int
            BY <3>3
        <3> QED BY <3>2, <3>4, <3>5
    <2> QED BY <2>1, <2>2
<1>3. SUBSET S \subseteq P
    <2>1. \A s \in SUBSET S :
              (\A t \in SUBSET S : t \subseteq s /\ t # s => t \in P) => s \in P
        BY <1>2
    <2> HIDE DEF P
    <2> QED BY <2>1, SubsetsBySize
<1> QED BY <1>3 DEF g

\* The element taken first does not matter.
LEMMA SumAnyElement ==
    ASSUME NEW S, IsFiniteSet(S), NEW f \in [S -> Int]
    PROVE  \A s \in SUBSET S : \A y \in s :
               SumOf(f, S)[s] = f[y] + SumOf(f, S)[s \ {y}]
<1> DEFINE g == SumOf(f, S)
           P == {s \in SUBSET S : \A y \in s : g[s] = f[y] + g[s \ {y}]}
<1>1. \A s \in SUBSET S : g[s] = Summand(f, g, s)
    BY SumExists
<1>2. \A s \in SUBSET S : g[s] \in Int
    BY SumIsInt
<1> HIDE DEF g
<1>3. ASSUME NEW s \in SUBSET S,
             \A t \in SUBSET S : t \subseteq s /\ t # s => t \in P,
             NEW y \in s
      PROVE  g[s] = f[y] + g[s \ {y}]
    <2> DEFINE c == CHOOSE x \in s : TRUE
    <2>1. c \in s /\ g[s] = f[c] + g[s \ {c}]
        BY <1>1 DEF Summand
    <2> HIDE DEF c
    <2>2. CASE y = c
        BY <2>1, <2>2
    <2>3. CASE y # c
        <3>1. /\ s \ {c} \in P /\ y \in s \ {c}
              /\ s \ {y} \in P /\ c \in s \ {y}
            <4>1. s \ {c} \subseteq s /\ s \ {c} # s /\ s \ {y} \subseteq s /\ s \ {y} # s
                BY <2>1
            <4>2. s \ {c} \in SUBSET S /\ s \ {y} \in SUBSET S
                OBVIOUS
            <4> HIDE DEF P
            <4> QED BY <1>3, <2>1, <2>3, <4>1, <4>2
        <3>2. g[s \ {c}] = f[y] + g[(s \ {c}) \ {y}]
            BY <3>1
        <3>3. g[s \ {y}] = f[c] + g[(s \ {y}) \ {c}]
            BY <3>1
        <3>4. (s \ {y}) \ {c} = (s \ {c}) \ {y}
            OBVIOUS
        <3> DEFINE r == g[(s \ {c}) \ {y}]
        <3>5. f[y] \in Int /\ f[c] \in Int /\ r \in Int
            BY <1>2, <2>1
        <3>6. g[s] = f[c] + (f[y] + r) /\ g[s \ {y}] = f[c] + r
            BY <2>1, <3>2, <3>3, <3>4
        <3> HIDE DEF r
        <3> QED BY <3>5, <3>6
    <2> QED BY <2>2, <2>3
<1>4. SUBSET S \subseteq P
    <2>1. \A s \in SUBSET S :
              (\A t \in SUBSET S : t \subseteq s /\ t # s => t \in P) => s \in P
        BY <1>3
    <2> HIDE DEF P
    <2> QED BY <2>1, SubsetsBySize
<1> QED BY <1>4 DEF g

\* Sums add up, name by name.
LEMMA SumAdds ==
    ASSUME NEW S, IsFiniteSet(S),
           NEW f \in [S -> Int], NEW g \in [S -> Int], NEW h \in [S -> Int],
           \A x \in S : h[x] = f[x] + g[x]
    PROVE  \A s \in SUBSET S : SumOf(h, S)[s] = SumOf(f, S)[s] + SumOf(g, S)[s]
<1> DEFINE a == SumOf(f, S)
           b == SumOf(g, S)
           c == SumOf(h, S)
           P == {s \in SUBSET S : c[s] = a[s] + b[s]}
<1>1. \A s \in SUBSET S : /\ a[s] = Summand(f, a, s) /\ b[s] = Summand(g, b, s)
                           /\ c[s] = Summand(h, c, s)
    <2>1. \A s \in SUBSET S : a[s] = Summand(f, a, s)
        BY SumExists
    <2>2. \A s \in SUBSET S : b[s] = Summand(g, b, s)
        BY SumExists
    <2>3. \A s \in SUBSET S : c[s] = Summand(h, c, s)
        BY SumExists
    <2> HIDE DEF a, b, c
    <2> QED BY <2>1, <2>2, <2>3
<1>2. \A s \in SUBSET S : a[s] \in Int /\ b[s] \in Int
    BY SumIsInt
<1> HIDE DEF a, b, c
<1>3. ASSUME NEW s \in SUBSET S,
             \A t \in SUBSET S : t \subseteq s /\ t # s => t \in P
      PROVE  c[s] = a[s] + b[s]
    <2> DEFINE e == CHOOSE x \in s : TRUE
    <2>1. CASE s = {}
        <3>1. a[s] = 0 /\ b[s] = 0 /\ c[s] = 0
            BY <1>1, <2>1 DEF Summand
        <3> QED BY <3>1
    <2>2. CASE s # {}
        <3>1. e \in s
            BY <2>2
        <3>2. /\ a[s] = f[e] + a[s \ {e}] /\ b[s] = g[e] + b[s \ {e}]
              /\ c[s] = h[e] + c[s \ {e}]
            BY <1>1, <2>2 DEF Summand
        <3> HIDE DEF e
        <3>3. s \ {e} \in SUBSET S /\ s \ {e} \subseteq s /\ s \ {e} # s /\ e \in S
            BY <3>1
        <3>4. c[s \ {e}] = a[s \ {e}] + b[s \ {e}]
            BY <1>3, <3>3
        <3>5. a[s \ {e}] \in Int /\ b[s \ {e}] \in Int /\ f[e] \in Int /\ g[e] \in Int
              /\ h[e] = f[e] + g[e]
            BY <1>2, <3>3
        <3> QED BY <3>2, <3>4, <3>5
    <2> QED BY <2>1, <2>2
<1>4. SUBSET S \subseteq P
    <2>1. \A s \in SUBSET S :
              (\A t \in SUBSET S : t \subseteq s /\ t # s => t \in P) => s \in P
        BY <1>3
    <2> HIDE DEF P
    <2> QED BY <2>1, SubsetsBySize
<1> QED BY <1>4 DEF a, b, c

\* The recursion has one solution.
LEMMA SumIsUnique ==
    ASSUME NEW S, IsFiniteSet(S), NEW f \in [S -> Int],
           NEW h, h = [s \in SUBSET S |-> Summand(f, h, s)]
    PROVE  h = SumOf(f, S)
<1> DEFINE g == SumOf(f, S)
           P == {s \in SUBSET S : h[s] = g[s]}
<1>1. g = [s \in SUBSET S |-> Summand(f, g, s)]
    BY SumExists
<1> HIDE DEF g
<1>2. \A s \in SUBSET S : g[s] = Summand(f, g, s) /\ h[s] = Summand(f, h, s)
    <2>1. \A s \in SUBSET S : g[s] = Summand(f, g, s)
        BY <1>1
    <2>2. \A s \in SUBSET S : h[s] = Summand(f, h, s)
        OBVIOUS
    <2> QED BY <2>1, <2>2
<1>3. ASSUME NEW s \in SUBSET S,
             \A t \in SUBSET S : t \subseteq s /\ t # s => t \in P
      PROVE  h[s] = g[s]
    <2> DEFINE e == CHOOSE x \in s : TRUE
    <2>1. CASE s = {}
        <3>1. g[s] = 0 /\ h[s] = 0
            BY <1>2, <2>1 DEF Summand
        <3> QED BY <3>1
    <2>2. CASE s # {}
        <3>1. e \in s
            BY <2>2
        <3>2. g[s] = f[e] + g[s \ {e}] /\ h[s] = f[e] + h[s \ {e}]
            BY <1>2, <2>2 DEF Summand
        <3> HIDE DEF e
        <3>3. s \ {e} \in SUBSET S /\ s \ {e} \subseteq s /\ s \ {e} # s
            BY <3>1
        <3>4. h[s \ {e}] = g[s \ {e}]
            BY <1>3, <3>3
        <3> QED BY <3>2, <3>4
    <2> QED BY <2>1, <2>2
<1>4. SUBSET S \subseteq P
    <2>1. \A s \in SUBSET S :
              (\A t \in SUBSET S : t \subseteq s /\ t # s => t \in P) => s \in P
        BY <1>3
    <2> HIDE DEF P
    <2> QED BY <2>1, SubsetsBySize
<1>5. h = g
    <2>1. h = [s \in SUBSET S |-> h[s]] /\ g = [s \in SUBSET S |-> g[s]]
        BY <1>1
    <2> QED BY <1>4, <2>1
<1> QED BY <1>5 DEF g

\* A sum scales with its summands.
LEMMA SumScales ==
    ASSUME NEW S, IsFiniteSet(S), NEW k \in Int, NEW f \in [S -> Int], NEW g \in [S -> Int],
           \A x \in S : g[x] = k * f[x]
    PROVE  \A s \in SUBSET S : SumOf(g, S)[s] = k * SumOf(f, S)[s]
<1> DEFINE a == SumOf(f, S)
           b == SumOf(g, S)
           P == {s \in SUBSET S : b[s] = k * a[s]}
<1>1. \A s \in SUBSET S : a[s] = Summand(f, a, s) /\ b[s] = Summand(g, b, s)
    <2>1. \A s \in SUBSET S : a[s] = Summand(f, a, s)
        BY SumExists
    <2>2. \A s \in SUBSET S : b[s] = Summand(g, b, s)
        BY SumExists
    <2> HIDE DEF a, b
    <2> QED BY <2>1, <2>2
<1>2. \A s \in SUBSET S : a[s] \in Int
    BY SumIsInt
<1> HIDE DEF a, b
<1>3. ASSUME NEW s \in SUBSET S,
             \A t \in SUBSET S : t \subseteq s /\ t # s => t \in P
      PROVE  b[s] = k * a[s]
    <2> DEFINE e == CHOOSE x \in s : TRUE
    <2>1. CASE s = {}
        <3>1. a[s] = 0 /\ b[s] = 0
            BY <1>1, <2>1 DEF Summand
        <3>2. k * 0 = 0
            OBVIOUS
        <3> QED BY <3>1, <3>2
    <2>2. CASE s # {}
        <3>1. e \in s
            BY <2>2
        <3>2. a[s] = f[e] + a[s \ {e}] /\ b[s] = g[e] + b[s \ {e}]
            BY <1>1, <2>2 DEF Summand
        <3> HIDE DEF e
        <3>3. s \ {e} \in SUBSET S /\ s \ {e} \subseteq s /\ s \ {e} # s /\ e \in S
            BY <3>1
        <3>4. b[s \ {e}] = k * a[s \ {e}] /\ g[e] = k * f[e]
            BY <1>3, <3>3
        <3> DEFINE x == f[e]
                   y == a[s \ {e}]
        <3>5. x \in Int /\ y \in Int /\ a[s] = x + y /\ b[s] = k * x + k * y
            BY <1>2, <3>2, <3>3, <3>4
        <3> HIDE DEF x, y
        <3>6. k * (x + y) = k * x + k * y
            BY <3>5
        <3> QED BY <3>5, <3>6
    <2> QED BY <2>1, <2>2
<1>4. SUBSET S \subseteq P
    <2>1. \A s \in SUBSET S :
              (\A t \in SUBSET S : t \subseteq s /\ t # s => t \in P) => s \in P
        BY <1>3
    <2> HIDE DEF P
    <2> QED BY <2>1, SubsetsBySize
<1> QED BY <1>4 DEF a, b

\* A sum grows with its summands.
LEMMA SumGrows ==
    ASSUME NEW S, IsFiniteSet(S), NEW f \in [S -> Int], NEW g \in [S -> Int],
           \A x \in S : f[x] =< g[x]
    PROVE  \A s \in SUBSET S : SumOf(f, S)[s] =< SumOf(g, S)[s]
<1> DEFINE a == SumOf(f, S)
           b == SumOf(g, S)
           P == {s \in SUBSET S : a[s] =< b[s]}
<1>1. \A s \in SUBSET S : a[s] = Summand(f, a, s) /\ b[s] = Summand(g, b, s)
    <2>1. \A s \in SUBSET S : a[s] = Summand(f, a, s)
        BY SumExists
    <2>2. \A s \in SUBSET S : b[s] = Summand(g, b, s)
        BY SumExists
    <2> HIDE DEF a, b
    <2> QED BY <2>1, <2>2
<1>2. \A s \in SUBSET S : a[s] \in Int /\ b[s] \in Int
    BY SumIsInt
<1> HIDE DEF a, b
<1>3. ASSUME NEW s \in SUBSET S,
             \A t \in SUBSET S : t \subseteq s /\ t # s => t \in P
      PROVE  a[s] =< b[s]
    <2> DEFINE e == CHOOSE x \in s : TRUE
    <2>1. CASE s = {}
        <3>1. a[s] = 0 /\ b[s] = 0
            BY <1>1, <2>1 DEF Summand
        <3> QED BY <3>1
    <2>2. CASE s # {}
        <3>1. e \in s
            BY <2>2
        <3>2. a[s] = f[e] + a[s \ {e}] /\ b[s] = g[e] + b[s \ {e}]
            BY <1>1, <2>2 DEF Summand
        <3> HIDE DEF e
        <3>3. s \ {e} \in SUBSET S /\ s \ {e} \subseteq s /\ s \ {e} # s /\ e \in S
            BY <3>1
        <3>4. a[s \ {e}] =< b[s \ {e}] /\ f[e] =< g[e]
            BY <1>3, <3>3
        <3>5. f[e] \in Int /\ g[e] \in Int /\ a[s \ {e}] \in Int /\ b[s \ {e}] \in Int
            BY <1>2, <3>3
        <3> QED BY <3>2, <3>4, <3>5
    <2> QED BY <2>1, <2>2
<1>4. SUBSET S \subseteq P
    <2>1. \A s \in SUBSET S :
              (\A t \in SUBSET S : t \subseteq s /\ t # s => t \in P) => s \in P
        BY <1>3
    <2> HIDE DEF P
    <2> QED BY <2>1, SubsetsBySize
<1> QED BY <1>4 DEF a, b
=============================================================================
