-------------------------- MODULE AllocationProofs ---------------------------
(* No settled book is beyond a limit: for all symbols, weights, volumes,     *)
(* caps and scaling factors.  Fractions are pairs of whole numbers, reduced  *)
(* by Euclid's algorithm, and the gross is a fold: the first two sections    *)
(* say what these compute, the next two what each step of the limits does to *)
(* a book, the last is the invariant.                                        *)
EXTENDS Allocation, Sums

(* ----------------------- the common denominator -------------------------- *)
\* g divides n.
Divides(g, n) == \E k \in Int : n = g * k

\* A divisor of b and of what b leaves of a divides a,
LEMMA EuclidStep ==
    ASSUME NEW a \in Nat, NEW b \in Nat \ {0}, NEW g \in Nat, Divides(g, b), Divides(g, a % b)
    PROVE  Divides(g, a)
<1>1. PICK k \in Int : b = g * k
    BY DEF Divides
<1>2. PICK l \in Int : a % b = g * l
    BY DEF Divides
<1>3. a \div b \in Int /\ a = b * (a \div b) + (a % b)
    OBVIOUS
<1> DEFINE q == a \div b
<1>4. q \in Int /\ a = g * k * q + g * l
    BY <1>1, <1>2, <1>3
<1> HIDE DEF q
<1>5. k * q + l \in Int
    BY <1>4
<1>6. g * (k * q + l) = g * k * q + g * l
    BY <1>4
<1> QED
    BY <1>4, <1>5, <1>6 DEF Divides

\* and one of both divides what is left.
LEMMA EuclidBack ==
    ASSUME NEW a \in Nat, NEW b \in Nat \ {0}, NEW g \in Nat, Divides(g, b), Divides(g, a)
    PROVE  Divides(g, a % b)
<1>1. PICK k \in Int : b = g * k
    BY DEF Divides
<1>2. PICK l \in Int : a = g * l
    BY DEF Divides
<1>3. a \div b \in Int /\ a = b * (a \div b) + (a % b) /\ a % b \in Int
    OBVIOUS
<1> DEFINE q == a \div b
           r == a % b
<1>4. q \in Int /\ r \in Int /\ g * l = g * k * q + r
    BY <1>1, <1>2, <1>3
<1> HIDE DEF q, r
<1>5. l - k * q \in Int
    BY <1>4
<1>6. r = g * (l - k * q)
    BY <1>4
<1>7. r = a % b
    BY DEF r
<1> QED
    BY <1>5, <1>6, <1>7 DEF Divides

\* What Euclid's recursion asks of the greatest common divisors.
Euclid(h, p) == IF p[2] = 0 THEN p[1] ELSE h[<<p[2], p[1] % p[2]>>]

\* There are functions that satisfy it: the largest divisor of both.
LEMMA EuclidEnds ==
    Gcd = [p \in Nat \X Nat |-> Euclid(Gcd, p)]
<1> DEFINE Both(p) == {g \in Nat : Divides(g, p[1]) /\ Divides(g, p[2])}
           Most(D) == CHOOSE g \in D : \A f \in D : f =< g
           h == [p \in Nat \X Nat |-> IF p[1] = 0 /\ p[2] = 0 THEN 0 ELSE Most(Both(p))]
<1>1. ASSUME NEW p \in Nat \X Nat, p[2] # 0 PROVE h[p] = h[<<p[2], p[1] % p[2]>>]
    <2> DEFINE q == <<p[2], p[1] % p[2]>>
    <2>1. p[1] \in Nat /\ p[2] \in Nat \ {0} /\ p[1] % p[2] \in Nat
        BY <1>1
    <2>2. q \in Nat \X Nat /\ q[1] = p[2] /\ q[2] = p[1] % p[2]
        BY <2>1
    <2> HIDE DEF q
    <2>3. Both(p) = Both(q)
        BY <2>1, <2>2, EuclidStep, EuclidBack
    <2> QED BY <1>1, <2>1, <2>2, <2>3 DEF q
<1>2. ASSUME NEW p \in Nat \X Nat, p[2] = 0 PROVE h[p] = p[1]
    <2>1. CASE p[1] = 0
        BY <1>2, <2>1
    <2>2. CASE p[1] # 0
        <3>1. p[1] \in Nat \ {0}
            BY <2>2
        <3> DEFINE a == p[1]
        <3>2. a = a * 1 /\ 0 = a * 0
            BY <3>1
        <3>3. a \in Both(p)
            BY <1>2, <3>1, <3>2 DEF Divides
        <3>4. ASSUME NEW g \in Both(p) PROVE g =< a
            <4>1. PICK k \in Int : a = g * k
                BY DEF Divides
            <4> HIDE DEF a
            <4>2. g \in Nat /\ a \in Nat \ {0}
                BY <3>1 DEF a
            <4>3. k >= 1
                BY <4>1, <4>2
            <4>4. g * k >= g
                BY <4>2, <4>3
            <4> QED BY <4>1, <4>4
        <3>5. \A g \in Both(p) : (\A f \in Both(p) : f =< g) => g = a
            BY <3>1, <3>3, <3>4
        <3>6. Most(Both(p)) = a
            <4> HIDE DEF Both, a
            <4> QED BY <3>3, <3>4, <3>5
        <3> QED BY <2>2, <3>6
    <2> QED BY <2>1, <2>2
<1>3. h = [p \in Nat \X Nat |-> Euclid(h, p)]
    <2>1. \A p \in Nat \X Nat : h[p] = Euclid(h, p)
        <3> HIDE DEF h
        <3> QED BY <1>1, <1>2 DEF Euclid
    <2>2. h = [p \in Nat \X Nat |-> h[p]]
        OBVIOUS
    <2> HIDE DEF h
    <2> QED BY <2>1, <2>2
<1> HIDE DEF h
<1>4. Gcd = CHOOSE f : f = [p \in Nat \X Nat |-> Euclid(f, p)]
    BY DEF Gcd, Euclid
<1> QED
    BY <1>3, <1>4

\* The greatest common divisor is positive and divides both.
LEMMA GcdDivides ==
    ASSUME NEW a \in Nat, NEW b \in Nat, a # 0 \/ b # 0
    PROVE  /\ Gcd[<<a, b>>] \in Nat \ {0}
           /\ Divides(Gcd[<<a, b>>], a) /\ Divides(Gcd[<<a, b>>], b)
<1> DEFINE Good(x, y) == /\ Gcd[<<x, y>>] \in Nat \ {0}
                         /\ Divides(Gcd[<<x, y>>], x) /\ Divides(Gcd[<<x, y>>], y)
           P == {n \in Nat : \A x, y \in Nat : y =< n /\ (x # 0 \/ y # 0) => Good(x, y)}
<1>1. \A x, y \in Nat : Gcd[<<x, y>>] = IF y = 0 THEN x ELSE Gcd[<<y, x % y>>]
    <2>1. \A p \in Nat \X Nat : Gcd[p] = Euclid(Gcd, p)
        BY EuclidEnds
    <2> QED BY <2>1 DEF Euclid
<1>2. ASSUME NEW x \in Nat \ {0} PROVE Good(x, 0)
    <2>1. Gcd[<<x, 0>>] = x
        BY <1>1
    <2>2. x = x * 1 /\ 0 = x * 0
        OBVIOUS
    <2> QED BY <2>1, <2>2 DEF Divides
<1>3. 0 \in P
    <2>1. ASSUME NEW x \in Nat, NEW y \in Nat, y =< 0, x # 0 \/ y # 0 PROVE Good(x, y)
        <3>1. y = 0 /\ x \in Nat \ {0}
            BY <2>1
        <3> QED BY <1>2, <3>1
    <2> HIDE DEF Good
    <2> QED BY <2>1
<1>4. ASSUME NEW n \in Nat, n \in P PROVE n + 1 \in P
    <2>1. ASSUME NEW x \in Nat, NEW y \in Nat, y =< n + 1, x # 0 \/ y # 0 PROVE Good(x, y)
        <3>1. CASE y = 0
            <4>1. x \in Nat \ {0}
                BY <2>1, <3>1
            <4> HIDE DEF Good
            <4> QED BY <1>2, <3>1, <4>1
        <3>2. CASE y # 0
            <4>1. y \in Nat \ {0} /\ x % y \in Nat /\ x % y =< n
                BY <2>1, <3>2
            <4>2. Good(y, x % y)
                <5> HIDE DEF Good
                <5> QED BY <1>4, <4>1
            <4>3. Gcd[<<x, y>>] = Gcd[<<y, x % y>>]
                BY <1>1, <3>2
            <4> QED BY <4>1, <4>2, <4>3, EuclidStep
        <3> QED BY <3>1, <3>2
    <2> HIDE DEF Good
    <2> QED BY <2>1
<1>5. Nat \subseteq P
    <2> HIDE DEF P
    <2> QED BY <1>3, <1>4, EveryNatural
<1> QED
    BY <1>5

(* ------------------------------- Reduced --------------------------------- *)
\* A book: a whole weight of each symbol over a common denominator.
IsBook(b) == b \in [w : [Symbols -> Int], den : Nat \ {0}]

\* The size of a whole number.
LEMMA AbsIsNat ==
    ASSUME NEW x \in Int
    PROVE  Abs(x) \in Nat /\ (x >= 0 => Abs(x) = x) /\ (x < 0 => Abs(x) = -x)
BY DEF Abs

\* There are finitely many symbols.
LEMMA SymbolsAreFinite ==
    ASSUME AllocationBounds PROVE IsFiniteSet(Symbols)
BY FS_Union DEF AllocationBounds, Symbols

\* The common factor by which a book is reduced divides all of it.
LEMMA CommonFactor ==
    ASSUME AllocationBounds, NEW w \in [Symbols -> Int], NEW d \in Nat \ {0}
    PROVE  LET g == FoldFunction(LAMBDA x, y : Gcd[<<Abs(x), y>>], d, w)
           IN  g \in Nat \ {0} /\ Divides(g, d) /\ \A s \in Symbols : Divides(g, Abs(w[s]))
<1> DEFINE Euclid1(h, s) ==
               IF s = {} THEN d
               ELSE Gcd[<<Abs(w[CHOOSE x \in s : TRUE]), h[s \ {CHOOSE x \in s : TRUE}]>>]
           it == CHOOSE h : h = [s \in SUBSET Symbols |-> Euclid1(h, s)]
           op == [z \in Symbols \X (Nat \ {0}) |-> Gcd[<<Abs(w[z[1]]), z[2]>>]]
           P == {s \in SUBSET Symbols :
                    Divides(it[s], d) /\ \A x \in s : Divides(it[s], Abs(w[x]))}
<1>1. FoldFunction(LAMBDA x, y : Gcd[<<Abs(x), y>>], d, w) = it[Symbols]
    BY DEF FoldFunction, FoldFunctionOnSet, MapThenFoldSet
<1>2. \A a \in Nat, b \in Nat \ {0} : /\ Gcd[<<a, b>>] \in Nat \ {0}
                                      /\ Divides(Gcd[<<a, b>>], a) /\ Divides(Gcd[<<a, b>>], b)
    BY GcdDivides
<1>3. \A s \in Symbols : Abs(w[s]) \in Nat
    BY AbsIsNat
<1>4. op \in [Symbols \X (Nat \ {0}) -> Nat \ {0}]
    BY <1>2, <1>3
<1>5. \E h \in [SUBSET Symbols -> Nat \ {0}] :
          \A s \in SUBSET Symbols : h[s] = FoldStep(op, d, h, s)
    <2>1. Combines(op, Symbols, Nat \ {0})
        BY <1>4 DEF Combines
    <2> HIDE DEF op
    <2>2. FoldsOf(op, d, Symbols, Nat \ {0}) # {}
        BY <2>1, FoldExists, SymbolsAreFinite
    <2> QED BY <2>2 DEF FoldsOf
<1>6. ASSUME NEW h \in [SUBSET Symbols -> Nat \ {0}], NEW s \in SUBSET Symbols
      PROVE  FoldStep(op, d, h, s) = Euclid1(h, s)
    <2> DEFINE c == CHOOSE x \in s : TRUE
    <2>1. CASE s = {}
        BY <2>1 DEF FoldStep
    <2>2. CASE s # {}
        <3>1. c \in Symbols /\ h[s \ {c}] \in Nat \ {0}
            BY <2>2
        <3>2. op[<<c, h[s \ {c}]>>] = Gcd[<<Abs(w[c]), h[s \ {c}]>>]
            <4> HIDE DEF c
            <4> QED BY <3>1
        <3> QED BY <2>2, <3>2 DEF FoldStep
    <2> QED BY <2>1, <2>2
<1>7. \E h : h = [s \in SUBSET Symbols |-> Euclid1(h, s)]
    <2>1. PICK h \in [SUBSET Symbols -> Nat \ {0}] :
              \A s \in SUBSET Symbols : h[s] = FoldStep(op, d, h, s)
        BY <1>5
    <2> HIDE DEF op, Euclid1
    <2>2. h = [s \in SUBSET Symbols |-> Euclid1(h, s)]
        BY <1>6, <2>1
    <2> QED BY <2>2
<1>8. \A s \in SUBSET Symbols : it[s] = Euclid1(it, s)
    <2>1. it = [s \in SUBSET Symbols |-> Euclid1(it, s)]
        <3> HIDE DEF Euclid1
        <3> QED BY <1>7
    <2> HIDE DEF it, Euclid1
    <2> QED BY <2>1
<1> HIDE DEF it, op
<1>9. ASSUME NEW s \in SUBSET Symbols,
             \A t \in SUBSET Symbols : t \subseteq s /\ t # s => it[t] \in Nat \ {0} /\ t \in P
      PROVE  it[s] \in Nat \ {0} /\ s \in P
    <2> DEFINE c == CHOOSE x \in s : TRUE
               r == s \ {c}
    <2>1. CASE s = {}
        <3>1. it[s] = d
            BY <1>8, <2>1
        <3>2. d = d * 1
            OBVIOUS
        <3>3. Divides(d, d)
            BY <3>2 DEF Divides
        <3>4. s \in P
            BY <2>1, <3>1, <3>3
        <3> QED BY <3>1, <3>4
    <2>2. CASE s # {}
        <3>1. c \in s
            BY <2>2
        <3>2. it[s] = Gcd[<<Abs(w[c]), it[r]>>]
            BY <1>8, <2>2
        <3> HIDE DEF c
        <3>3. r \in SUBSET Symbols /\ r \subseteq s /\ r # s
            BY <3>1
        <3>4. it[r] \in Nat \ {0} /\ r \in P
            <4> HIDE DEF P, r
            <4> QED BY <1>9, <3>3
        <3>5. Abs(w[c]) \in Nat
            BY <1>3, <3>1
        <3>6. it[s] \in Nat \ {0} /\ Divides(it[s], Abs(w[c])) /\ Divides(it[s], it[r])
            BY <1>2, <3>2, <3>4, <3>5
        <3>7. ASSUME NEW n, Divides(it[r], n) PROVE Divides(it[s], n)
            <4>1. PICK k \in Int : n = it[r] * k
                BY <3>7 DEF Divides
            <4>2. PICK l \in Int : it[r] = it[s] * l
                BY <3>6 DEF Divides
            <4> DEFINE g == it[s]
            <4>3. g \in Nat /\ n = g * l * k
                BY <3>6, <4>1, <4>2
            <4> HIDE DEF g
            <4>4. l * k \in Int /\ g * l * k = g * (l * k)
                BY <4>3
            <4>5. n = g * (l * k)
                BY <4>3, <4>4
            <4> QED BY <4>4, <4>5 DEF Divides, g
        <3>8. Divides(it[s], d)
            BY <3>4, <3>7
        <3>9. ASSUME NEW x \in s PROVE Divides(it[s], Abs(w[x]))
            <4>1. CASE x = c
                BY <3>6, <4>1
            <4>2. CASE x # c
                BY <3>4, <3>7, <4>2
            <4> QED BY <4>1, <4>2
        <3> QED BY <3>6, <3>8, <3>9
    <2> QED BY <2>1, <2>2
<1>10. SUBSET Symbols \subseteq {s \in SUBSET Symbols : it[s] \in Nat \ {0} /\ s \in P}
    <2> DEFINE R == {s \in SUBSET Symbols : it[s] \in Nat \ {0} /\ s \in P}
    <2>1. \A s \in SUBSET Symbols :
              (\A t \in SUBSET Symbols : t \subseteq s /\ t # s => t \in R) => s \in R
        <3> HIDE DEF P
        <3> QED BY <1>9
    <2> HIDE DEF R
    <2>2. SUBSET Symbols \subseteq R
        BY <2>1, SubsetsBySize, SymbolsAreFinite
    <2> QED BY <2>2 DEF R
<1>11. it[Symbols] \in Nat \ {0} /\ Symbols \in P
    <2> HIDE DEF P
    <2> QED BY <1>10
<1> QED
    BY <1>1, <1>11

\* A reduced book is the same book, over a smaller denominator.
LEMMA ReducedIsSame ==
    ASSUME AllocationBounds, NEW b, IsBook(b)
    PROVE  /\ IsBook(Reduced(b))
           /\ \E g \in Nat \ {0} : /\ b.den = g * Reduced(b).den
                                   /\ \A s \in Symbols : b.w[s] = g * Reduced(b).w[s]
<1> DEFINE g == FoldFunction(LAMBDA x, y : Gcd[<<Abs(x), y>>], b.den, b.w)
           r == Reduced(b)
<1>1. b.w \in [Symbols -> Int] /\ b.den \in Nat \ {0}
    BY DEF IsBook
<1>2. g \in Nat \ {0} /\ Divides(g, b.den) /\ \A s \in Symbols : Divides(g, Abs(b.w[s]))
    BY <1>1, CommonFactor
<1>3. r = [w |-> [s \in Symbols |-> Signed(b.w[s], Abs(b.w[s]) \div g)], den |-> b.den \div g]
    BY DEF Reduced
<1> HIDE DEF g, r
<1>4. ASSUME NEW n \in Nat, Divides(g, n) PROVE n = g * (n \div g) /\ n \div g \in Nat
    <2>1. PICK k \in Int : n = g * k
        BY <1>4 DEF Divides
    <2>2. k >= 0
        BY <1>2, <2>1
    <2>3. n \div g = k
        BY <1>2, <2>1, <2>2
    <2> QED BY <2>1, <2>2, <2>3
<1>5. ASSUME NEW s \in Symbols PROVE r.w[s] \in Int /\ b.w[s] = g * r.w[s]
    <2> DEFINE x == b.w[s]
               q == Abs(x) \div g
    <2>1. x \in Int
        BY <1>1
    <2>2. Abs(x) \in Nat /\ (x >= 0 => Abs(x) = x) /\ (x < 0 => Abs(x) = -x)
        BY <2>1, AbsIsNat
    <2>3. Abs(x) = g * q /\ q \in Nat
        BY <1>2, <1>4, <2>2
    <2>4. r.w[s] = IF x < 0 THEN -q ELSE q
        BY <1>3 DEF Signed
    <2> HIDE DEF x, q
    <2>5. CASE x < 0
        <3>1. x = -(g * q) /\ r.w[s] = -q
            BY <2>1, <2>2, <2>3, <2>4, <2>5
        <3>2. g * (-q) = -(g * q)
            BY <1>2, <2>3
        <3> QED BY <2>3, <3>1, <3>2 DEF x
    <2>6. CASE ~(x < 0)
        <3>1. x = g * q /\ r.w[s] = q
            BY <2>1, <2>2, <2>3, <2>4, <2>6
        <3> QED BY <2>3, <3>1 DEF x
    <2> QED BY <2>5, <2>6
<1>6. b.den = g * r.den /\ r.den \in Nat \ {0}
    <2>1. b.den = g * (b.den \div g) /\ b.den \div g \in Nat
        BY <1>1, <1>2, <1>4
    <2>2. r.den = b.den \div g
        BY <1>3
    <2> DEFINE q == r.den
               n == b.den
    <2>3. n \in Nat \ {0} /\ n = g * q /\ q \in Nat
        BY <1>1, <2>1, <2>2
    <2> HIDE DEF n, q
    <2>4. q # 0
        BY <1>2, <2>3
    <2> QED BY <2>3, <2>4 DEF n, q
<1>7. IsBook(r)
    <2>1. r.w \in [Symbols -> Int]
        BY <1>3, <1>5
    <2> QED BY <1>3, <1>6, <2>1 DEF IsBook
<1> QED
    BY <1>2, <1>5, <1>6, <1>7 DEF r

(* -------------------------------- gross ---------------------------------- *)
\* The sizes of the weights, of which the gross is the sum.
Sizes(w) == [s \in Symbols |-> Abs(w[s])]

\* The library's fold over the weights is the sum of their sizes.
LEMMA GrossIsSum ==
    ASSUME AllocationBounds, NEW w \in [Symbols -> Int]
    PROVE  /\ Sizes(w) \in [Symbols -> Int]
           /\ Gross(w) = SumOf(Sizes(w), Symbols)[Symbols] /\ Gross(w) \in Nat
<1> DEFINE f == Sizes(w)
           Added(h, s) ==
               IF s = {} THEN 0 ELSE Abs(w[CHOOSE x \in s : TRUE]) + h[s \ {CHOOSE x \in s : TRUE}]
           it == CHOOSE h : h = [s \in SUBSET Symbols |-> Added(h, s)]
           zero == [s \in Symbols |-> 0]
<1>1. Gross(w) = it[Symbols]
    BY DEF Gross, FoldFunction, FoldFunctionOnSet, MapThenFoldSet
<1>2. f \in [Symbols -> Int] /\ \A s \in Symbols : f[s] = Abs(w[s]) /\ f[s] \in Nat
    BY AbsIsNat DEF Sizes
<1> HIDE DEF f
<1>3. ASSUME NEW h, NEW s \in SUBSET Symbols PROVE Added(h, s) = Summand(f, h, s)
    <2>1. s # {} => (CHOOSE x \in s : TRUE) \in Symbols
        OBVIOUS
    <2> QED BY <1>2, <2>1 DEF Summand
<1>4. \E h : h = [s \in SUBSET Symbols |-> Added(h, s)]
    <2> DEFINE h == SumOf(f, Symbols)
    <2>1. h = [s \in SUBSET Symbols |-> Summand(f, h, s)]
        BY <1>2, SymbolsAreFinite, SumExists
    <2> HIDE DEF h, Added
    <2>2. h = [s \in SUBSET Symbols |-> Added(h, s)]
        BY <1>3, <2>1
    <2> QED BY <2>2
<1>5. it = [s \in SUBSET Symbols |-> Added(it, s)]
    <2> HIDE DEF Added
    <2> QED BY <1>4
<1> HIDE DEF it, Added
<1>6. it = [s \in SUBSET Symbols |-> Summand(f, it, s)]
    BY <1>3, <1>5
<1>7. it = SumOf(f, Symbols)
    BY <1>2, <1>6, SymbolsAreFinite, SumIsUnique
<1>8. Symbols \in SUBSET Symbols
    OBVIOUS
<1>9. zero \in [Symbols -> Int] /\ \A s \in Symbols : zero[s] =< f[s] /\ zero[s] = 0 * zero[s]
    BY <1>2
<1> HIDE DEF zero
<1>10. SumOf(zero, Symbols)[Symbols] =< SumOf(f, Symbols)[Symbols]
    BY <1>2, <1>8, <1>9, SymbolsAreFinite, SumGrows
<1>11. SumOf(zero, Symbols)[Symbols] = 0 * SumOf(zero, Symbols)[Symbols]
    <2>1. 0 \in Int
        OBVIOUS
    <2> QED BY <1>8, <1>9, <2>1, SymbolsAreFinite, SumScales
<1>12. SumOf(zero, Symbols)[Symbols] \in Int /\ SumOf(f, Symbols)[Symbols] \in Int
    BY <1>2, <1>8, <1>9, SymbolsAreFinite, SumIsInt
<1>13. SumOf(f, Symbols)[Symbols] \in Nat
    BY <1>10, <1>11, <1>12
<1> QED
    BY <1>1, <1>2, <1>7, <1>13 DEF f

\* A book of k times the weights has k times the gross.
LEMMA GrossScales ==
    ASSUME AllocationBounds, NEW w \in [Symbols -> Int], NEW v \in [Symbols -> Int], NEW k \in Nat,
           \A s \in Symbols : v[s] = k * w[s]
    PROVE  Gross(v) = k * Gross(w)
<1>1. \A x \in Int : Abs(k * x) = k * Abs(x)
    <2>1. ASSUME NEW x \in Int PROVE Abs(k * x) = k * Abs(x)
        <3>1. CASE x >= 0
            <4>1. k * x >= 0
                BY <3>1
            <4> QED BY <3>1, <4>1 DEF Abs
        <3>2. CASE x < 0
            <4>1. k * x =< 0 /\ k * x \in Int /\ k * (-x) = -(k * x)
                BY <3>2
            <4> QED BY <3>2, <4>1 DEF Abs
        <3> QED BY <2>1, <3>1, <3>2
    <2> QED BY <2>1
<1>2. \A s \in Symbols : Sizes(v)[s] = k * Sizes(w)[s]
    BY <1>1 DEF Sizes
<1>3. Symbols \in SUBSET Symbols /\ k \in Int
    OBVIOUS
<1>4. SumOf(Sizes(v), Symbols)[Symbols] = k * SumOf(Sizes(w), Symbols)[Symbols]
    <2> DEFINE f == Sizes(w)
               g == Sizes(v)
    <2>1. f \in [Symbols -> Int] /\ g \in [Symbols -> Int] /\ IsFiniteSet(Symbols)
        BY GrossIsSum, SymbolsAreFinite
    <2>2. \A s \in Symbols : g[s] = k * f[s]
        BY <1>2
    <2> HIDE DEF f, g
    <2>3. \A s \in SUBSET Symbols : SumOf(g, Symbols)[s] = k * SumOf(f, Symbols)[s]
        BY <1>3, <2>1, <2>2, SumScales
    <2> QED BY <1>3, <2>3 DEF f, g
<1> QED
    BY <1>4, GrossIsSum

\* The gross of a sum is at most the sum of the grosses.
LEMMA GrossTriangle ==
    ASSUME AllocationBounds, NEW u \in [Symbols -> Int], NEW v \in [Symbols -> Int],
           NEW w \in [Symbols -> Int], \A s \in Symbols : u[s] = v[s] + w[s]
    PROVE  Gross(u) =< Gross(v) + Gross(w)
<1> DEFINE sum == [s \in Symbols |-> Abs(v[s]) + Abs(w[s])]
<1>1. ASSUME NEW s \in Symbols PROVE Abs(u[s]) =< Abs(v[s]) + Abs(w[s])
    BY DEF Abs
<1>2. Symbols \in SUBSET Symbols
    OBVIOUS
<1>3. /\ sum \in [Symbols -> Int]
      /\ \A s \in Symbols : sum[s] = Sizes(v)[s] + Sizes(w)[s] /\ Sizes(u)[s] =< sum[s]
    BY <1>1, AbsIsNat DEF Sizes
<1> HIDE DEF sum
<1>4. Sizes(u) \in [Symbols -> Int] /\ Sizes(v) \in [Symbols -> Int] /\ Sizes(w) \in [Symbols -> Int]
    BY GrossIsSum
<1>5. SumOf(sum, Symbols)[Symbols] = SumOf(Sizes(v), Symbols)[Symbols] + SumOf(Sizes(w), Symbols)[Symbols]
    BY <1>2, <1>3, <1>4, SymbolsAreFinite, SumAdds
<1>6. SumOf(Sizes(u), Symbols)[Symbols] =< SumOf(sum, Symbols)[Symbols]
    BY <1>2, <1>3, <1>4, SymbolsAreFinite, SumGrows
<1> QED
    BY <1>5, <1>6, GrossIsSum

(* ----------------------------- the limits -------------------------------- *)
\* What the limits let a name weigh, long and short.
Held(s) == input.current[s]
Long(s) ==
    IF input.adv[s] # Unknown THEN Lesser(MaxPosition, input.adv[s])
    ELSE IF Held(s) > 0 THEN Lesser(MaxPosition, Held(s)) ELSE 0
Short(s) ==
    IF s \in Crypto THEN 0
    ELSE IF input.adv[s] # Unknown THEN Lesser(MaxPosition, input.adv[s])
    ELSE IF Held(s) < 0 THEN Lesser(MaxPosition, -Held(s)) ELSE 0

\* Each weight of b is within the limits of its name.
Boxed(b) == \A s \in Symbols : -(Short(s) * b.den) =< b.w[s] /\ b.w[s] =< Long(s) * b.den

\* ... and their gross within the limit of the book.
Within(b) == IsBook(b) /\ Boxed(b) /\ Gross(b.w) =< MaxGross * b.den

\* What the proofs ask of an input,
InputIsTyped ==
    /\ input.current \in [Symbols -> Int] /\ input.adv \in [Symbols -> Nat]
    /\ input.proposal \in [Symbols -> Int]
    /\ input.factor[1] \in Nat /\ input.factor[2] \in Nat \ {0}
    /\ input.alphas \in {<<1, 1>>, <<1, 3>>}

\* which every input has.
LEMMA InputsAreTyped ==
    ASSUME AllocationBounds, input \in Inputs PROVE InputIsTyped
<1>1. /\ input.current \in [Symbols -> Weights] /\ input.adv \in [Symbols -> Adv \cup {Unknown}]
      /\ input.proposal \in [Symbols -> Weights \cup {NotFinite}] /\ input.factor \in Factors
      /\ input.alphas \in {<<1, 1>>, <<1, 3>>}
    BY DEF Inputs
<1>2. Weights \subseteq Int /\ Adv \subseteq Nat /\ Unknown \in Nat /\ NotFinite \in Int
    BY DEF AllocationBounds, Unknown, NotFinite
<1>3. input.factor[1] \in Nat /\ input.factor[2] \in Nat \ {0}
    BY <1>1 DEF AllocationBounds
<1>4. /\ input.current \in [Symbols -> Int] /\ input.adv \in [Symbols -> Nat]
      /\ input.proposal \in [Symbols -> Int]
    BY <1>1, <1>2
<1> QED BY <1>1, <1>3, <1>4 DEF InputIsTyped

\* Both limits of a name are whole, and within each cap that applies to it.
LEMMA LimitsAreNumbers ==
    ASSUME AllocationBounds, InputIsTyped, NEW s \in Symbols
    PROVE  /\ Held(s) \in Int /\ Long(s) \in Nat /\ Short(s) \in Nat
           /\ Long(s) =< MaxPosition /\ Short(s) =< MaxPosition
           /\ input.adv[s] # Unknown => Long(s) =< input.adv[s] /\ Short(s) =< input.adv[s]
           /\ input.adv[s] = Unknown => Long(s) =< Abs(Held(s)) /\ Short(s) =< Abs(Held(s))
           /\ s \in Crypto => Short(s) = 0
<1>1. Held(s) \in Int /\ input.adv[s] \in Nat /\ MaxPosition \in Nat
    BY DEF Held, InputIsTyped, AllocationBounds
<1> DEFINE a == input.adv[s]
           h == Held(s)
<1>2. a \in Nat /\ h \in Int
    BY <1>1
<1> HIDE DEF a, h
<1>3. Long(s) = IF a # 0 THEN Lesser(MaxPosition, a) ELSE IF h > 0 THEN Lesser(MaxPosition, h) ELSE 0
    BY DEF Long, a, h, Unknown
<1>4. Short(s) = IF s \in Crypto THEN 0 ELSE IF a # 0 THEN Lesser(MaxPosition, a)
                 ELSE IF h < 0 THEN Lesser(MaxPosition, -h) ELSE 0
    BY DEF Short, a, h, Unknown
<1>5. /\ Long(s) \in Nat /\ Long(s) =< MaxPosition
      /\ a # 0 => Long(s) =< a
      /\ a = 0 => Long(s) =< Abs(h)
    BY <1>1, <1>2, <1>3 DEF Lesser, Abs
<1>6. /\ Short(s) \in Nat /\ Short(s) =< MaxPosition
      /\ a # 0 => Short(s) =< a
      /\ a = 0 => Short(s) =< Abs(h)
    BY <1>1, <1>2, <1>4 DEF Lesser, Abs
<1> QED
    BY <1>1, <1>4, <1>5, <1>6 DEF a, h, Unknown

\* The sign of a product.
LEMMA ProductSign ==
    ASSUME NEW x \in Int, NEW y \in Int
    PROVE  x * y > 0 <=> (x > 0 /\ y > 0) \/ (x < 0 /\ y < 0)
<1>1. CASE x = 0 \/ y = 0
    <2>1. x * y = 0
        BY <1>1
    <2> QED BY <1>1, <2>1
<1>2. CASE x > 0 /\ y > 0
    <2>1. x * y > 0
        BY <1>2
    <2> QED BY <1>2, <2>1
<1>3. CASE x < 0 /\ y < 0
    <2>1. x * y > 0
        BY <1>3
    <2> QED BY <1>3, <2>1
<1>4. CASE x > 0 /\ y < 0
    <2>1. x * y < 0
        BY <1>4
    <2> QED BY <1>4, <2>1
<1>5. CASE x < 0 /\ y > 0
    <2>1. x * y < 0
        BY <1>5
    <2> QED BY <1>5, <2>1
<1> QED BY <1>1, <1>2, <1>3, <1>4, <1>5

\* What clip makes of one name.
ClipName(s, w, den) ==
    LET v == Spot(s, w) IN Signed(v, Lesser(Abs(v), CapOf(s, v, den)))

\* The code's cap, by the sign of what is wanted, is the limit on that side.
LEMMA CapIsLimit ==
    ASSUME AllocationBounds, InputIsTyped, NEW s \in Symbols, NEW v \in Int, NEW den \in Nat \ {0}
    PROVE  /\ CapOf(s, v, den) \in Nat
           /\ v > 0 => CapOf(s, v, den) = Long(s) * den
           /\ v < 0 /\ s \notin Crypto => CapOf(s, v, den) = Short(s) * den
<1> DEFINE a == input.adv[s]
           h == Held(s)
<1>1. a \in Nat /\ h \in Int /\ MaxPosition \in Nat
    BY DEF Held, InputIsTyped, AllocationBounds
<1>2. CapOf(s, v, den) = IF a # 0 THEN Lesser(MaxPosition, a) * den
                         ELSE IF v * h > 0 THEN Lesser(MaxPosition, Abs(h)) * den ELSE 0
    BY DEF CapOf, Held, Unknown
<1>3. Long(s) = IF a # 0 THEN Lesser(MaxPosition, a) ELSE IF h > 0 THEN Lesser(MaxPosition, h) ELSE 0
    BY DEF Long, Unknown
<1>4. Short(s) = IF s \in Crypto THEN 0 ELSE IF a # 0 THEN Lesser(MaxPosition, a)
                 ELSE IF h < 0 THEN Lesser(MaxPosition, -h) ELSE 0
    BY DEF Short, Unknown
<1> HIDE DEF a, h
<1>5. v * h > 0 <=> (v > 0 /\ h > 0) \/ (v < 0 /\ h < 0)
    BY <1>1, ProductSign
<1>6. 0 * den = 0
    OBVIOUS
<1>7. CASE a # 0
    <2>1. Lesser(MaxPosition, a) \in Nat
        BY <1>1 DEF Lesser
    <2> DEFINE m == Lesser(MaxPosition, a)
    <2>2. m * den \in Nat
        BY <2>1
    <2> QED BY <1>2, <1>3, <1>4, <1>7, <2>2
<1>8. CASE a = 0 /\ v * h > 0
    <2> DEFINE m == Lesser(MaxPosition, Abs(h))
    <2>1. m \in Nat
        BY <1>1 DEF Lesser, Abs
    <2>2. CapOf(s, v, den) = m * den /\ m * den \in Nat
        BY <1>2, <1>8, <2>1
    <2>3. v > 0 => Long(s) = m
        BY <1>1, <1>3, <1>5, <1>8 DEF Abs
    <2>4. v < 0 /\ s \notin Crypto => Short(s) = m
        BY <1>1, <1>4, <1>5, <1>8 DEF Abs
    <2> QED BY <2>2, <2>3, <2>4
<1>9. CASE a = 0 /\ ~(v * h > 0)
    <2>1. CapOf(s, v, den) = 0
        BY <1>2, <1>9
    <2>2. v > 0 => Long(s) = 0
        BY <1>1, <1>3, <1>5, <1>9
    <2>3. v < 0 /\ s \notin Crypto => Short(s) = 0
        BY <1>1, <1>4, <1>5, <1>9
    <2> QED BY <1>6, <2>1, <2>2, <2>3
<1> QED BY <1>7, <1>8, <1>9

\* Clip puts a name within its limits and leaves it alone there.
LEMMA ClipsName ==
    ASSUME AllocationBounds, InputIsTyped, NEW s \in Symbols, NEW w \in Int, NEW den \in Nat \ {0}
    PROVE  LET x == ClipName(s, w, den)
               lo == -(Short(s) * den)
               hi == Long(s) * den
           IN  /\ x \in Int /\ lo =< x /\ x =< hi
               /\ lo =< w /\ w =< hi => x = w
<1> DEFINE v == Spot(s, w)
           cap == CapOf(s, v, den)
           x == ClipName(s, w, den)
           hi == Long(s) * den
           low == Short(s) * den
<1>1. v \in Int /\ (s \in Crypto => v >= 0) /\ (s \notin Crypto => v = w) /\ (w >= 0 => v = w)
      /\ (s \in Crypto /\ w < 0 => v = 0)
    BY DEF Spot, Greater
<1>2. x = Signed(v, Lesser(Abs(v), cap))
    BY DEF ClipName
<1>3. Long(s) \in Nat /\ Short(s) \in Nat /\ (s \in Crypto => Short(s) = 0)
    BY LimitsAreNumbers
<1>4. hi \in Nat /\ low \in Nat /\ (s \in Crypto => low = 0)
    <2> DEFINE l == Long(s)
               m == Short(s)
    <2>1. l \in Nat /\ m \in Nat
        BY <1>3
    <2> HIDE DEF l, m
    <2>2. l * den \in Nat /\ m * den \in Nat /\ 0 * den = 0
        BY <2>1
    <2> QED BY <1>3, <2>2 DEF l, m
<1>5. cap \in Nat /\ (v > 0 => cap = hi) /\ (v < 0 /\ s \notin Crypto => cap = low)
    <2> HIDE DEF v
    <2> QED BY <1>1, CapIsLimit
<1> HIDE DEF v, cap, x, hi, low
<1>6. CASE v > 0
    <2>1. x = Lesser(v, hi) /\ w = v
        BY <1>1, <1>2, <1>5, <1>6 DEF Signed, Abs
    <2> QED BY <1>1, <1>4, <1>6, <2>1 DEF Lesser, x, hi, low
<1>7. CASE v = 0
    <2>1. x = 0
        BY <1>2, <1>5, <1>7 DEF Signed, Abs, Lesser
    <2>2. low >= 0 /\ hi >= 0 /\ (-low =< w => w = 0)
        BY <1>1, <1>4, <1>7
    <2> QED BY <1>4, <2>1, <2>2 DEF x, hi, low
<1>8. CASE v < 0
    <2>1. s \notin Crypto /\ w = v
        BY <1>1, <1>8
    <2>2. x = -Lesser(-v, low)
        BY <1>1, <1>2, <1>5, <1>8, <2>1 DEF Signed, Abs
    <2> QED BY <1>1, <1>4, <1>8, <2>1, <2>2 DEF Lesser, x, hi, low
<1> QED BY <1>1, <1>6, <1>7, <1>8

\* A common factor cancels from an inequality.
LEMMA Cancels ==
    ASSUME NEW g \in Nat \ {0}, NEW x \in Int, NEW y \in Int, g * x =< g * y
    PROVE  x =< y
<1>1. SUFFICES ASSUME y + 1 =< x PROVE FALSE
    OBVIOUS
<1>2. g * (y + 1) =< g * x
    BY <1>1
<1>3. g * (y + 1) = g * y + g
    OBVIOUS
<1>4. g * x \in Int /\ g * y \in Int
    OBVIOUS
<1> QED BY <1>2, <1>3, <1>4

\* A record of weights and a denominator is a book.
LEMMA BookOf ==
    ASSUME NEW w \in [Symbols -> Int], NEW d \in Nat \ {0}
    PROVE  /\ IsBook([w |-> w, den |-> d])
           /\ [w |-> w, den |-> d].w = w /\ [w |-> w, den |-> d].den = d
BY DEF IsBook

\* Reducing a book does not change what it holds.
LEMMA ReducedWithin ==
    ASSUME AllocationBounds, InputIsTyped, NEW b, IsBook(b)
    PROVE  LET r == Reduced(b)
           IN  /\ IsBook(r)
               /\ Boxed(b) => Boxed(r)
               /\ Gross(b.w) =< MaxGross * b.den => Gross(r.w) =< MaxGross * r.den
<1> DEFINE r == Reduced(b)
<1>1. IsBook(r)
    BY ReducedIsSame
<1>2. PICK g \in Nat \ {0} : b.den = g * r.den /\ \A s \in Symbols : b.w[s] = g * r.w[s]
    BY ReducedIsSame
<1> HIDE DEF r
<1>3. /\ b.w \in [Symbols -> Int] /\ b.den \in Nat \ {0}
      /\ r.w \in [Symbols -> Int] /\ r.den \in Nat \ {0}
    BY <1>1 DEF IsBook
<1>4. ASSUME Boxed(b), NEW s \in Symbols
      PROVE  -(Short(s) * r.den) =< r.w[s] /\ r.w[s] =< Long(s) * r.den
    <2> DEFINE l == Long(s)
               m == Short(s)
               x == r.w[s]
               d == r.den
    <2>1. l \in Nat /\ m \in Nat /\ x \in Int /\ d \in Nat
        BY <1>3, LimitsAreNumbers
    <2>2. -(m * (g * d)) =< g * x /\ g * x =< l * (g * d)
        BY <1>2, <1>4 DEF Boxed
    <2> HIDE DEF l, m, x, d
    <2>3. m * d \in Int /\ l * d \in Int /\ g * (l * d) = l * (g * d) /\ g * (-(m * d)) = -(m * (g * d))
        BY <2>1
    <2>4. x =< l * d
        BY <2>1, <2>2, <2>3, Cancels
    <2>5. -(m * d) =< x
        <3>1. -(m * d) \in Int /\ g * (-(m * d)) =< g * x
            BY <2>2, <2>3
        <3> QED BY <2>1, <3>1, Cancels
    <2> QED BY <2>4, <2>5 DEF l, m, x, d
<1>5. ASSUME Gross(b.w) =< MaxGross * b.den PROVE Gross(r.w) =< MaxGross * r.den
    <2> DEFINE G == Gross(r.w)
               d == r.den
    <2>1. Gross(b.w) = g * G
        BY <1>2, <1>3, GrossScales
    <2>2. G \in Nat /\ d \in Nat /\ MaxGross \in Nat
        BY <1>3, GrossIsSum DEF AllocationBounds
    <2>3. g * G =< MaxGross * (g * d)
        BY <1>2, <1>5, <2>1
    <2> HIDE DEF G, d
    <2>4. MaxGross * (g * d) = g * (MaxGross * d) /\ MaxGross * d \in Int
        BY <2>2
    <2>5. G =< MaxGross * d
        BY <2>2, <2>3, <2>4, Cancels
    <2> QED BY <2>5 DEF G, d
<1> QED
    BY <1>1, <1>4, <1>5 DEF Boxed, r

\* Scaling a book to the gross limit keeps it within the limits of its names.
LEMMA GrossCappedWithin ==
    ASSUME AllocationBounds, InputIsTyped, NEW b, IsBook(b)
    PROVE  /\ IsBook(GrossCapped(b))
           /\ Boxed(b) => Within(GrossCapped(b))
           /\ Gross(b.w) =< MaxGross * b.den => GrossCapped(b) = b
<1> DEFINE G == Gross(b.w)
           M == MaxGross
<1>1. b.w \in [Symbols -> Int] /\ b.den \in Nat \ {0}
    BY DEF IsBook
<1>2. G \in Nat /\ M \in Nat \ {0}
    BY <1>1, GrossIsSum DEF AllocationBounds
<1>3. CASE G =< M * b.den
    <2>1. ~(G > M * b.den)
        <3> DEFINE p == M * b.den
        <3>1. p \in Nat /\ G =< p
            BY <1>1, <1>2, <1>3
        <3> HIDE DEF p, G
        <3>2. ~(G > p)
            BY <1>2, <3>1
        <3> QED BY <3>2 DEF p
    <2>2. GrossCapped(b) = b
        BY <2>1 DEF GrossCapped
    <2> QED BY <1>3, <2>2 DEF Within
<1>4. CASE ~(G =< M * b.den)
    <2> DEFINE w == [s \in Symbols |-> b.w[s] * M]
               raw == [w |-> w, den |-> 1 * G]
    <2>1. M * b.den \in Nat /\ G > M * b.den /\ 1 * G = G /\ G \in Nat \ {0}
        <3> DEFINE p == M * b.den
        <3>1. p \in Nat /\ ~(G =< p)
            BY <1>1, <1>2, <1>4
        <3> HIDE DEF p, G
        <3>2. G > p /\ 1 * G = G /\ G \in Nat \ {0}
            BY <1>2, <3>1
        <3> QED BY <3>1, <3>2 DEF p
    <2>2. GrossCapped(b) = Reduced(raw)
        <3>1. [b EXCEPT !.den = 1].w = b.w /\ [b EXCEPT !.den = 1].den = 1
            BY DEF IsBook
        <3> QED BY <2>1, <3>1 DEF GrossCapped, Scaled
    <2>3. w \in [Symbols -> Int] /\ \A s \in Symbols : w[s] = M * b.w[s]
        BY <1>1, <1>2
    <2>4. IsBook(raw) /\ raw.w = w /\ raw.den = G
        BY <2>1, <2>3, BookOf
    <2>5. Gross(w) = M * G
        BY <1>1, <1>2, <2>3, GrossScales
    <2>6. Gross(raw.w) =< M * raw.den
        <3>1. M * G \in Nat
            BY <1>2
        <3> QED BY <2>4, <2>5, <3>1
    <2>7. ASSUME Boxed(b) PROVE Boxed(raw)
        <3>1. ASSUME NEW s \in Symbols
              PROVE  -(Short(s) * G) =< w[s] /\ w[s] =< Long(s) * G
            <4> DEFINE l == Long(s)
                       m == Short(s)
                       x == b.w[s]
                       d == b.den
            <4>1. l \in Nat /\ m \in Nat /\ x \in Int /\ d \in Nat \ {0}
                BY <1>1, LimitsAreNumbers
            <4>2. -(m * d) =< x /\ x =< l * d /\ w[s] = M * x /\ M * d =< G
                BY <2>1, <2>3, <2>7 DEF Boxed
            <4> HIDE DEF l, m, x, d, w, G, M
            <4>3. M * x =< M * (l * d)
                BY <1>2, <4>1, <4>2
            <4>4. M * (-(m * d)) =< M * x
                BY <1>2, <4>1, <4>2
            <4>5. l * (M * d) =< l * G /\ m * (M * d) =< m * G
                <5> DEFINE n == M * d
                <5>1. n \in Nat /\ n =< G
                    BY <1>2, <4>1, <4>2
                <5> HIDE DEF n
                <5>2. l * n =< l * G /\ m * n =< m * G
                    BY <1>2, <4>1, <5>1
                <5> QED BY <5>2 DEF n
            <4>6. M * (l * d) = l * (M * d) /\ M * (-(m * d)) = -(m * (M * d))
                BY <1>2, <4>1
            <4>7. l * (M * d) \in Int /\ m * (M * d) \in Int /\ l * G \in Int /\ m * G \in Int /\ M * x \in Int
                BY <1>2, <4>1
            <4>8. -(m * G) =< M * x /\ M * x =< l * G
                BY <4>3, <4>4, <4>5, <4>6, <4>7
            <4> QED BY <4>2, <4>8 DEF l, m
        <3> HIDE DEF raw, w, G
        <3> QED BY <2>4, <3>1 DEF Boxed
    <2> HIDE DEF raw
    <2>8. /\ IsBook(Reduced(raw)) /\ Boxed(b) => Within(Reduced(raw))
        BY <2>4, <2>6, <2>7, ReducedWithin DEF Within
    <2>9. IsBook(Reduced(raw))
        BY <2>4, ReducedWithin
    <2> QED BY <1>4, <2>2, <2>8, <2>9
<1> QED BY <1>3, <1>4

\* Clip puts a book within the limits and leaves it alone there.
LEMMA ClipWithin ==
    ASSUME AllocationBounds, InputIsTyped, NEW b, IsBook(b)
    PROVE  Within(Clip(b)) /\ (Within(b) => Clip(b) = b)
<1> DEFINE w == [s \in Symbols |-> ClipName(s, b.w[s], b.den)]
           c == [b EXCEPT !.w = w]
<1>1. b.w \in [Symbols -> Int] /\ b.den \in Nat \ {0} /\ b = [w |-> b.w, den |-> b.den]
    BY DEF IsBook
<1>2. Clip(b) = GrossCapped(c)
    BY DEF Clip, ClipName
<1>3. \A s \in Symbols : /\ w[s] \in Int /\ -(Short(s) * b.den) =< w[s] /\ w[s] =< Long(s) * b.den
                         /\ -(Short(s) * b.den) =< b.w[s] /\ b.w[s] =< Long(s) * b.den => w[s] = b.w[s]
    BY <1>1, ClipsName
<1>4. w \in [Symbols -> Int]
    BY <1>3
<1>5. c = [w |-> w, den |-> b.den]
    BY <1>1
<1>6. IsBook(c) /\ c.w = w /\ c.den = b.den
    BY <1>1, <1>4, <1>5, BookOf
<1>7. Boxed(c)
    <2> HIDE DEF c, w
    <2> QED BY <1>3, <1>6 DEF Boxed
<1>8. Within(Clip(b))
    <2> HIDE DEF c
    <2> QED BY <1>2, <1>6, <1>7, GrossCappedWithin
<1>9. ASSUME Within(b) PROVE Clip(b) = b
    <2>1. \A s \in Symbols : w[s] = b.w[s]
        <3> HIDE DEF w
        <3> QED BY <1>3, <1>9 DEF Within, Boxed
    <2>2. w = b.w
        <3> HIDE DEF w
        <3> QED BY <1>1, <1>4, <2>1
    <2>3. c = b
        <3> HIDE DEF w
        <3> QED BY <1>1, <1>5, <2>2
    <2> HIDE DEF c
    <2> QED BY <1>2, <1>9, <2>3, GrossCappedWithin DEF Within
<1> QED BY <1>8, <1>9

\* The part of the way from one book to another, over the product of their
\* denominators.
Way(a, b, n, d) == [w   |-> [s \in Symbols |-> a.w[s] * b.den * d + Apart(a, b)[s] * n],
                    den |-> a.den * b.den * d]

\* It mixes the two books, in these parts.
Mixes(x, a, b, p, q) ==
    /\ IsBook(x) /\ x.den = a.den * p + b.den * q
    /\ Apart(a, b) \in [Symbols -> Int]
    /\ \A s \in Symbols : /\ x.w[s] = p * a.w[s] + q * b.w[s]
                          /\ Apart(a, x)[s] = q * Apart(a, b)[s]

\* The way from one book to another mixes the two.
LEMMA WayMixes ==
    ASSUME NEW a, NEW b, IsBook(a), IsBook(b), NEW n \in Nat, NEW d \in Nat \ {0}
    PROVE  Mixes(Way(a, b, n, d), a, b, b.den * (d - n), a.den * n)
<1> DEFINE p == b.den * (d - n)
           q == a.den * n
<1> DEFINE x == Way(a, b, n, d)
           A == a.den
           B == b.den
<1>0. p = B * (d - n) /\ q = A * n /\ p = b.den * (d - n) /\ q = a.den * n
    OBVIOUS
<1>1. /\ a.w \in [Symbols -> Int] /\ A \in Nat \ {0}
      /\ b.w \in [Symbols -> Int] /\ B \in Nat \ {0}
    BY DEF IsBook
<1>2. x.den = A * B * d /\ \A s \in Symbols : x.w[s] = a.w[s] * B * d + Apart(a, b)[s] * n
    BY DEF Way
<1>3. \A s \in Symbols : Apart(a, b)[s] = b.w[s] * A - a.w[s] * B
    BY DEF Apart
<1>4. x = [w |-> [s \in Symbols |-> x.w[s]], den |-> x.den]
    BY DEF Way
<1>5. \A s \in Symbols : Apart(a, x)[s] = x.w[s] * A - a.w[s] * x.den
    BY DEF Apart
<1>6. Apart(a, b) = [s \in Symbols |-> Apart(a, b)[s]]
    BY DEF Apart
<1> HIDE DEF x, A, B, p, q
<1>7. ASSUME NEW s \in Symbols
      PROVE  /\ Apart(a, b)[s] \in Int /\ x.w[s] \in Int
             /\ x.w[s] = p * a.w[s] + q * b.w[s]
             /\ Apart(a, x)[s] = q * Apart(a, b)[s]
    <2> DEFINE u == a.w[s]
               v == b.w[s]
               t == Apart(a, b)[s]
               z == x.w[s]
    <2>1. u \in Int /\ v \in Int /\ t = v * A - u * B /\ z = u * B * d + t * n
        BY <1>1, <1>2, <1>3
    <2>2. Apart(a, x)[s] = z * A - u * (A * B * d)
        BY <1>2, <1>5
    <2> HIDE DEF u, v, t, z
    <2>3. t \in Int
        BY <1>1, <2>1
    <2>4. z \in Int
        BY <1>1, <2>1, <2>3
    <2>5. z = (B * (d - n)) * u + (A * n) * v
        <3>1. t * n = v * A * n - u * B * n
            BY <1>1, <2>1
        <3>2. (B * (d - n)) * u = u * B * d - u * B * n
            BY <1>1, <2>1
        <3>3. (A * n) * v = v * A * n
            BY <1>1, <2>1
        <3>4. u * B * d \in Int /\ u * B * n \in Int /\ v * A * n \in Int
            BY <1>1, <2>1
        <3> QED BY <2>1, <3>1, <3>2, <3>3, <3>4
    <2>6. z * A - u * (A * B * d) = (A * n) * t
        <3>1. z * A = u * (A * B * d) + (A * n) * t
            <4>1. z * A = (u * B * d) * A + (t * n) * A
                BY <1>1, <2>1, <2>3
            <4>2. (u * B * d) * A = u * (A * B * d) /\ (t * n) * A = (A * n) * t
                BY <1>1, <2>1, <2>3
            <4> QED BY <4>1, <4>2
        <3>2. u * (A * B * d) \in Int /\ (A * n) * t \in Int
            BY <1>1, <2>1, <2>3
        <3> QED BY <3>1, <3>2
    <2> QED BY <1>0, <2>2, <2>3, <2>4, <2>5, <2>6 DEF u, v, t, z
<1>8. x.den \in Nat \ {0} /\ x.den = A * p + B * q
    <2>1. A * B \in Nat \ {0}
        BY <1>1
    <2>2. A * B * d \in Nat \ {0}
        BY <2>1
    <2>3. A * (B * (d - n)) + B * (A * n) = A * B * d
        BY <1>1
    <2> QED BY <1>0, <1>2, <2>2, <2>3
<1>9. IsBook(x)
    <2>1. [s \in Symbols |-> x.w[s]] \in [Symbols -> Int]
        BY <1>7
    <2> QED BY <1>4, <1>8, <2>1, BookOf
<1>10. Apart(a, b) \in [Symbols -> Int]
    BY <1>6, <1>7
<1> QED BY <1>0, <1>7, <1>8, <1>9, <1>10 DEF Mixes, x, A, B

\* Part of the way between two books within the limits stays within them.
LEMMA BetweenIsWithin ==
    ASSUME AllocationBounds, InputIsTyped, NEW a, NEW b, Within(a), Within(b),
           NEW n \in Nat, NEW d \in Nat \ {0}, n =< d
    PROVE  Within(Towards(a, b, n, d))
<1> DEFINE x == Way(a, b, n, d)
           A == a.den
           B == b.den
           p == B * (d - n)
           q == A * n
<1>1. /\ IsBook(a) /\ IsBook(b)
      /\ a.w \in [Symbols -> Int] /\ A \in Nat \ {0}
      /\ b.w \in [Symbols -> Int] /\ B \in Nat \ {0}
    BY DEF Within, IsBook
<1>2. /\ IsBook(x) /\ x.den = A * p + B * q
      /\ \A s \in Symbols : x.w[s] = p * a.w[s] + q * b.w[s]
    <2>1. Mixes(x, a, b, p, q)
        BY <1>1, WayMixes
    <2> HIDE DEF x, p, q
    <2> QED BY <2>1 DEF Mixes
<1>3. Towards(a, b, n, d) = Reduced(x)
    BY DEF Towards, Way
<1>4. p \in Nat /\ q \in Nat
    <2>1. d - n \in Nat
        OBVIOUS
    <2> DEFINE m == d - n
    <2> HIDE DEF m, A, B
    <2>2. B * m \in Nat /\ A * n \in Nat
        BY <1>1, <2>1 DEF m
    <2> QED BY <2>2 DEF m
<1> HIDE DEF x, p, q
<1>5. Boxed(x)
    <2>1. ASSUME NEW s \in Symbols
          PROVE  -(Short(s) * x.den) =< x.w[s] /\ x.w[s] =< Long(s) * x.den
        <3> DEFINE l == Long(s)
                   m == Short(s)
                   u == a.w[s]
                   v == b.w[s]
        <3>1. l \in Nat /\ m \in Nat /\ u \in Int /\ v \in Int
            BY <1>1, LimitsAreNumbers
        <3>2. -(m * A) =< u /\ u =< l * A /\ -(m * B) =< v /\ v =< l * B
            BY DEF Within, Boxed
        <3>3. x.w[s] = p * u + q * v /\ x.den = A * p + B * q
            BY <1>2
        <3> HIDE DEF l, m, u, v, A, B
        <3>4. p * u =< p * (l * A) /\ p * (-(m * A)) =< p * u
            BY <1>1, <1>4, <3>1, <3>2
        <3>5. q * v =< q * (l * B) /\ q * (-(m * B)) =< q * v
            BY <1>1, <1>4, <3>1, <3>2
        <3>6. /\ l * (A * p + B * q) = p * (l * A) + q * (l * B)
              /\ -(m * (A * p + B * q)) = p * (-(m * A)) + q * (-(m * B))
            BY <1>1, <1>4, <3>1
        <3>7. /\ p * u \in Int /\ q * v \in Int /\ p * (l * A) \in Int /\ q * (l * B) \in Int
              /\ p * (-(m * A)) \in Int /\ q * (-(m * B)) \in Int
            BY <1>1, <1>4, <3>1
        <3>8. p * u + q * v =< l * (A * p + B * q) /\ -(m * (A * p + B * q)) =< p * u + q * v
            BY <3>4, <3>5, <3>6, <3>7
        <3> QED BY <3>3, <3>8 DEF l, m
    <2> QED BY <2>1 DEF Boxed
<1>6. Gross(x.w) =< MaxGross * x.den
    <2> DEFINE M == MaxGross
               f == [s \in Symbols |-> p * a.w[s]]
               h == [s \in Symbols |-> q * b.w[s]]
    <2>1. f \in [Symbols -> Int] /\ h \in [Symbols -> Int] /\ x.w \in [Symbols -> Int]
        BY <1>1, <1>2, <1>4 DEF IsBook
    <2>2. \A s \in Symbols : x.w[s] = f[s] + h[s] /\ f[s] = p * a.w[s] /\ h[s] = q * b.w[s]
        BY <1>2
    <2> HIDE DEF f, h
    <2>3. Gross(x.w) =< Gross(f) + Gross(h)
        BY <2>1, <2>2, GrossTriangle
    <2>4. Gross(f) = p * Gross(a.w) /\ Gross(h) = q * Gross(b.w)
        <3> DEFINE u == a.w
        <3>0. u \in [Symbols -> Int] /\ \A s \in Symbols : f[s] = p * u[s]
            BY <1>1, <2>2
        <3> HIDE DEF u
        <3>1. Gross(f) = p * Gross(u)
            BY <1>4, <2>1, <3>0, GrossScales
        <3>2. Gross(h) = q * Gross(b.w)
            BY <1>1, <1>4, <2>1, <2>2, GrossScales
        <3> QED BY <3>1, <3>2 DEF u
    <2>5. Gross(a.w) =< M * A /\ Gross(b.w) =< M * B
        BY DEF Within
    <2> DEFINE F == Gross(a.w)
               H == Gross(b.w)
               X == Gross(x.w)
    <2>6. F \in Nat /\ H \in Nat /\ M \in Nat /\ X \in Nat
        BY <1>1, <2>1, GrossIsSum DEF AllocationBounds
    <2>7. X =< p * F + q * H /\ x.den = A * p + B * q
        BY <1>2, <2>3, <2>4
    <2> HIDE DEF F, H, M, A, B, X
    <2>8. p * F =< p * (M * A) /\ q * H =< q * (M * B)
        BY <1>1, <1>4, <2>5, <2>6 DEF F, H
    <2>9. M * (A * p + B * q) = p * (M * A) + q * (M * B)
        BY <1>1, <1>4, <2>6
    <2>10. /\ p * F \in Int /\ q * H \in Int /\ p * (M * A) \in Int /\ q * (M * B) \in Int
        BY <1>1, <1>4, <2>6
    <2>11. X =< M * (A * p + B * q)
        BY <2>6, <2>7, <2>8, <2>9, <2>10
    <2> QED BY <2>7, <2>11 DEF M, X
<1> QED
    BY <1>2, <1>3, <1>5, <1>6, ReducedWithin DEF Within

\* What a book that goes part of the way is away from where it started.
LEMMA PartOfTheWay ==
    ASSUME AllocationBounds, NEW a, NEW b, IsBook(a), IsBook(b), NEW R \in Nat,
           Gross(Apart(a, b)) \in Nat \ {0}
    PROVE  LET r == Towards(a, b, R * b.den, Gross(Apart(a, b)))
           IN  IsBook(r) /\ Gross(Apart(a, r)) = R * r.den
<1> DEFINE C == Gross(Apart(a, b))
           A == a.den
           B == b.den
           n == R * B
           x == Way(a, b, n, C)
           r == Reduced(x)
<1>1. /\ a.w \in [Symbols -> Int] /\ A \in Nat \ {0} /\ B \in Nat \ {0} /\ C \in Nat \ {0}
    BY DEF IsBook
<1>2. n \in Nat
    BY <1>1
<1>3. Towards(a, b, R * b.den, C) = r
    BY DEF Towards, Way
<1> HIDE DEF n, C
<1>4. /\ IsBook(x) /\ x.den = A * B * C /\ Apart(a, b) \in [Symbols -> Int]
      /\ \A s \in Symbols : Apart(a, x)[s] = (A * n) * Apart(a, b)[s]
    <2> DEFINE p == b.den * (C - n)
               q == a.den * n
    <2>1. Mixes(x, a, b, p, q)
        BY <1>1, <1>2, WayMixes
    <2>2. x.den = A * B * C /\ q = A * n
        BY DEF Way
    <2> HIDE DEF x, p, q
    <2> QED BY <2>1, <2>2 DEF Mixes
<1> HIDE DEF x
<1>5. IsBook(r)
    BY <1>4, ReducedIsSame
<1>6. PICK g \in Nat \ {0} : x.den = g * r.den /\ \A s \in Symbols : x.w[s] = g * r.w[s]
    BY <1>4, ReducedIsSame
<1> HIDE DEF r
<1>7. r.w \in [Symbols -> Int] /\ r.den \in Nat \ {0} /\ x.w \in [Symbols -> Int] /\ x.den \in Nat \ {0}
    BY <1>4, <1>5 DEF IsBook
<1>8. ASSUME NEW s \in Symbols
      PROVE  Apart(a, r)[s] \in Int /\ Apart(a, x)[s] = g * Apart(a, r)[s]
    <2> DEFINE u == a.w[s]
               z == r.w[s]
               d == r.den
    <2>1. u \in Int /\ z \in Int /\ d \in Int
        BY <1>1, <1>7
    <2>2. Apart(a, r)[s] = z * A - u * d
        BY DEF Apart
    <2>3. Apart(a, x)[s] = (g * z) * A - u * (g * d)
        BY <1>6 DEF Apart
    <2> HIDE DEF u, z, d, A
    <2>4. z * A - u * d \in Int /\ (g * z) * A - u * (g * d) = g * (z * A - u * d)
        BY <1>1, <2>1
    <2> QED BY <2>2, <2>3, <2>4
<1>9. Apart(a, r) \in [Symbols -> Int]
    <2>1. Apart(a, r) = [s \in Symbols |-> Apart(a, r)[s]]
        BY DEF Apart
    <2> QED BY <1>8, <2>1
<1>10. Apart(a, x) \in [Symbols -> Int]
    <2>1. Apart(a, x) = [s \in Symbols |-> Apart(a, x)[s]]
        BY DEF Apart
    <2>2. \A s \in Symbols : Apart(a, x)[s] \in Int
        BY <1>8
    <2> QED BY <2>1, <2>2
<1>11. Gross(Apart(a, x)) = g * Gross(Apart(a, r))
    BY <1>8, <1>9, <1>10, GrossScales
<1>12. Gross(Apart(a, x)) = (A * n) * C
    <2>1. A * n \in Nat
        BY <1>1, <1>2
    <2> QED BY <1>4, <1>10, <2>1, GrossScales DEF C
<1> DEFINE G == Gross(Apart(a, r))
           d == r.den
<1>13. g * G = (A * n) * C /\ g * d = A * B * C /\ n = R * B
    BY <1>4, <1>6, <1>11, <1>12 DEF n
<1>14. G \in Nat /\ d \in Nat
    BY <1>7, <1>9, GrossIsSum
<1> HIDE DEF G, d, A, B
<1>15. (A * (R * B)) * C = R * (A * B * C)
    BY <1>1
<1>16. g * G = R * (g * d)
    BY <1>13, <1>15
<1>17. R * (g * d) = g * (R * d) /\ R * d \in Nat
    BY <1>14
<1>18. G = R * d
    <2>1. G =< R * d
        BY <1>14, <1>16, <1>17, Cancels
    <2>2. R * d =< G
        BY <1>14, <1>16, <1>17, Cancels
    <2> QED BY <1>14, <1>17, <2>1, <2>2
<1> QED
    BY <1>3, <1>5, <1>18 DEF G, d, C

(* ----------------------------- the turnover ------------------------------ *)
\* What is held, what the limits force to be traded, and what that leaves.
Now == Whole(input.current)
Forced == Gross(Apart(Now, Base))
Remaining == Greater(0, MaxTurnover * Base.den - Forced)

\* The difference of two books is whole, over the product of denominators.
LEMMA ApartIsTyped ==
    ASSUME NEW a, NEW b, IsBook(a), IsBook(b)
    PROVE  Apart(a, b) \in [Symbols -> Int]
BY DEF Apart, IsBook

\* The base of the limits is within them, and leaves the rest of the budget.
LEMMA BaseIsWithin ==
    ASSUME AllocationBounds, InputIsTyped
    PROVE  /\ IsBook(Now) /\ Now.den = 1 /\ Now.w = input.current
           /\ Within(Base) /\ IsBook(Base)
           /\ Forced \in Nat /\ Remaining \in Nat
           /\ Remaining + Forced = Greater(MaxTurnover * Base.den, Forced)
<1>1. IsBook(Now) /\ Now.den = 1 /\ Now.w = input.current
    BY BookOf DEF Now, Whole, InputIsTyped
<1>2. Within(Base) /\ IsBook(Base)
    <2>1. Base = Clip(Now)
        BY DEF Base, Now
    <2> QED BY <1>1, <2>1, ClipWithin DEF Within
<1>3. Forced \in Nat
    BY <1>1, <1>2, ApartIsTyped, GrossIsSum DEF Forced
<1>4. MaxTurnover * Base.den \in Nat
    BY <1>2 DEF IsBook, AllocationBounds
<1> DEFINE t == MaxTurnover * Base.den
<1>5. t \in Nat /\ Remaining = Greater(0, t - Forced)
    BY <1>4 DEF Remaining
<1> HIDE DEF t
<1>6. Remaining \in Nat /\ Remaining + Forced = Greater(t, Forced)
    BY <1>3, <1>5 DEF Greater
<1> QED BY <1>1, <1>2, <1>3, <1>6 DEF t

\* S3's limited book is within the limits, and chooses to trade no more than
\* what the forced exits leave of the budget.
LEMMA LimitedWithin ==
    ASSUME AllocationBounds, InputIsTyped, NEW t, IsBook(t)
    PROVE  LET b == Limited(t)
           IN  Within(b) /\ Gross(Apart(Base, b)) =< Remaining * b.den
<1> DEFINE D == Clip(t)
           C == Gross(Apart(Base, D))
           b == Limited(t)
           n == Remaining * D.den
<1>1. Within(D) /\ Within(Base) /\ IsBook(D) /\ IsBook(Base) /\ Remaining \in Nat
    BY BaseIsWithin, ClipWithin DEF Within
<1>2. C \in Nat /\ D.den \in Nat \ {0}
    BY <1>1, ApartIsTyped, GrossIsSum DEF IsBook
<1>3. n \in Nat
    BY <1>1, <1>2
<1>4. b = IF C > n THEN Towards(Base, D, n, C) ELSE D
    BY DEF Limited, Remaining, Forced, Now
<1> HIDE DEF D, b, C, n
<1>5. CASE C > n
    <2>1. C \in Nat \ {0} /\ n =< C /\ b = Towards(Base, D, n, C)
        BY <1>2, <1>3, <1>4, <1>5
    <2>2. Within(b)
        BY <1>1, <1>3, <2>1, BetweenIsWithin
    <2>3. b = Towards(Base, D, Remaining * D.den, Gross(Apart(Base, D))) /\ Gross(Apart(Base, D)) \in Nat \ {0}
        BY <2>1 DEF C, n
    <2>4. Gross(Apart(Base, b)) = Remaining * b.den
        BY <1>1, <2>3, PartOfTheWay
    <2>5. Remaining * b.den \in Nat
        BY <1>1, <2>2 DEF Within, IsBook
    <2> QED BY <2>2, <2>4, <2>5 DEF b
<1>6. CASE ~(C > n)
    <2>1. b = D /\ C =< n
        BY <1>2, <1>3, <1>4, <1>6
    <2>2. Gross(Apart(Base, b)) =< Remaining * b.den
        BY <2>1 DEF C, n
    <2> QED BY <1>1, <2>1, <2>2 DEF b
<1> QED BY <1>5, <1>6

\* A book that near to the clipped one is within the turnover of what is held.
LEMMA NearIsWithinTurnover ==
    ASSUME AllocationBounds, InputIsTyped, NEW b, IsBook(b),
           Gross(Apart(Base, b)) =< Remaining * b.den
    PROVE  WithinTurnover(b)
<1> DEFINE A == Base.den
           B == b.den
           toNow == Apart(Now, b)
           toBase == Apart(Base, b)
           exits == Apart(Now, Base)
           u == [s \in Symbols |-> A * toNow[s]]
           v == [s \in Symbols |-> B * exits[s]]
<1>1. /\ IsBook(Now) /\ Now.den = 1 /\ Now.w = input.current /\ IsBook(Base)
      /\ Forced \in Nat /\ Remaining \in Nat
      /\ Remaining + Forced = Greater(MaxTurnover * A, Forced)
    BY BaseIsWithin
<1>2. toNow \in [Symbols -> Int] /\ toBase \in [Symbols -> Int] /\ exits \in [Symbols -> Int]
    BY <1>1, ApartIsTyped
<1>3. A \in Nat \ {0} /\ B \in Nat \ {0}
    BY <1>1 DEF IsBook
<1>4. ASSUME NEW s \in Symbols PROVE A * toNow[s] = toBase[s] + B * exits[s]
    <2> DEFINE x == b.w[s]
               y == Base.w[s]
               h == input.current[s]
    <2>1. x \in Int /\ y \in Int /\ h \in Int
        BY <1>1 DEF IsBook, InputIsTyped
    <2>2. /\ toNow[s] = x * 1 - h * B
          /\ toBase[s] = x * A - y * B
          /\ exits[s] = y * 1 - h * A
        BY <1>1 DEF Apart
    <2> HIDE DEF x, y, h, A, B, toNow, toBase, exits
    <2>3. A * (x * 1 - h * B) = (x * A - y * B) + B * (y * 1 - h * A)
        BY <1>3, <2>1
    <2> QED BY <2>2, <2>3
<1> HIDE DEF toNow, toBase, exits, A, B
<1>5. u \in [Symbols -> Int] /\ v \in [Symbols -> Int]
    BY <1>2, <1>3
<1>6. \A s \in Symbols : u[s] = toBase[s] + v[s]
    BY <1>4
<1>7. Gross(u) =< Gross(toBase) + Gross(v)
    <2> HIDE DEF u, v
    <2> QED BY <1>2, <1>5, <1>6, GrossTriangle
<1>8. Gross(u) = A * Gross(toNow)
    <2>1. A \in Nat /\ \A s \in Symbols : u[s] = A * toNow[s]
        BY <1>3
    <2> HIDE DEF u
    <2> QED BY <1>2, <1>5, <2>1, GrossScales
<1>9. Gross(v) = B * Gross(exits)
    <2>1. B \in Nat /\ \A s \in Symbols : v[s] = B * exits[s]
        BY <1>3
    <2> HIDE DEF v
    <2> QED BY <1>2, <1>5, <2>1, GrossScales
<1> HIDE DEF u, v
<1> DEFINE G == Gross(toNow)
           E == Gross(exits)
           N == Gross(toBase)
           R == Remaining
<1>10. G \in Nat /\ E \in Nat /\ N \in Nat /\ R \in Nat
    BY <1>1, <1>2, GrossIsSum
<1>11. A * G =< N + B * E
    BY <1>7, <1>8, <1>9
<1>12. N =< R * B
    BY DEF toBase, B
<1>13. E = Forced
    BY DEF exits, Forced
<1> HIDE DEF G, E, N, R
<1>14. R * B + B * E = (R + E) * B
    BY <1>3, <1>10
<1>15. A * G = G * A
    BY <1>3, <1>10
<1>16. G * A =< (R + E) * B
    <2>1. A * G \in Int /\ B * E \in Int /\ R * B \in Int
        BY <1>3, <1>10
    <2> QED BY <1>10, <1>11, <1>12, <1>14, <1>15, <2>1
<1>17. Gross(Apart(Now, b)) * Base.den =< Greater(MaxTurnover * Base.den, Forced) * b.den
    <2>1. R + E = Greater(MaxTurnover * A, Forced)
        BY <1>1, <1>13 DEF R
    <2>2. G * A =< Greater(MaxTurnover * A, Forced) * B
        BY <1>16, <2>1
    <2> QED BY <2>2 DEF A, B, G, toNow
<1> QED
    BY <1>17 DEF WithinTurnover, Now, Forced

\* A book within the limits is feasible.
LEMMA WithinIsFeasible ==
    ASSUME AllocationBounds, InputIsTyped, NEW b, Within(b)
    PROVE  Feasible(b)
<1>1. b.w \in [Symbols -> Int] /\ b.den \in Nat \ {0}
    BY DEF Within, IsBook
<1>2. ASSUME NEW s \in Symbols
      PROVE  /\ Abs(b.w[s]) <= MaxPosition * b.den
             /\ input.adv[s] # Unknown => Abs(b.w[s]) <= input.adv[s] * b.den
             /\ input.adv[s] = Unknown => Abs(b.w[s]) <= Abs(input.current[s]) * b.den
             /\ s \in Crypto => b.w[s] >= 0
    <2> DEFINE x == b.w[s]
               d == b.den
               l == Long(s)
               m == Short(s)
    <2>1. x \in Int /\ d \in Nat /\ l \in Nat /\ m \in Nat
        BY <1>1, LimitsAreNumbers
    <2>2. -(m * d) =< x /\ x =< l * d
        BY DEF Within, Boxed
    <2> HIDE DEF x, d, l, m
    <2>3. ASSUME NEW k \in Nat, l =< k, m =< k PROVE Abs(x) =< k * d
        <3>1. l * d =< k * d /\ m * d =< k * d
            BY <2>1, <2>3
        <3>2. l * d \in Int /\ m * d \in Int /\ k * d \in Int
            BY <2>1
        <3> DEFINE p == l * d
                   q == m * d
                   r == k * d
        <3>3. p =< r /\ q =< r /\ p \in Int /\ q \in Int /\ r \in Int /\ -q =< x /\ x =< p
            BY <2>2, <3>1, <3>2
        <3> HIDE DEF p, q, r
        <3>4. Abs(x) =< r
            BY <2>1, <3>3 DEF Abs
        <3> QED BY <3>4 DEF r
    <2>4. /\ l =< MaxPosition /\ m =< MaxPosition /\ MaxPosition \in Nat
          /\ input.adv[s] # Unknown => l =< input.adv[s] /\ m =< input.adv[s]
          /\ input.adv[s] = Unknown => l =< Abs(Held(s)) /\ m =< Abs(Held(s))
          /\ s \in Crypto => m = 0
          /\ input.adv[s] \in Nat /\ Abs(Held(s)) \in Nat
        <3>1. Held(s) \in Int /\ input.adv[s] \in Nat
            BY DEF Held, InputIsTyped
        <3> QED BY <3>1, LimitsAreNumbers, AbsIsNat DEF AllocationBounds, l, m
    <2>5. s \in Crypto => x >= 0
        <3>1. 0 * d = 0
            BY <2>1
        <3> QED BY <2>1, <2>2, <2>4, <3>1
    <2>6. Abs(x) =< MaxPosition * d
        BY <2>3, <2>4
    <2>7. input.adv[s] # Unknown => Abs(x) =< input.adv[s] * d
        BY <2>3, <2>4
    <2>8. input.adv[s] = Unknown => Abs(x) =< Abs(Held(s)) * d
        BY <2>3, <2>4
    <2> QED BY <2>5, <2>6, <2>7, <2>8 DEF x, d, Held
<1> QED
    BY <1>2 DEF Feasible, Within

(* ---------------------------- the invariant ------------------------------ *)
\* From the limits on S3's book obeys them, and limiting it again is vain.
AllocationInv ==
    /\ input \in Inputs /\ IsBook(book) /\ IsBook(s3)
    /\ stage \in {"blend", "scale blend", "limit blend"} => Within(s3) /\ WithinTurnover(s3)
    /\ LimitsBind

\* Scaling a book makes a book,
LEMMA ScaledIsBook ==
    ASSUME AllocationBounds, NEW b, IsBook(b), NEW n \in Nat, NEW d \in Nat \ {0}
    PROVE  IsBook(Scaled(b, n, d))
<1>1. b.w \in [Symbols -> Int] /\ b.den \in Nat \ {0}
    BY DEF IsBook
<1>2. b.den * d \in Nat \ {0}
    BY <1>1
<1>3. [s \in Symbols |-> b.w[s] * n] \in [Symbols -> Int]
    BY <1>1
<1>4. IsBook([w |-> [s \in Symbols |-> b.w[s] * n], den |-> b.den * d])
    BY <1>2, <1>3, BookOf
<1> QED BY <1>4, ReducedIsSame DEF Scaled

\* and so does going from one towards another.
LEMMA TowardsIsBook ==
    ASSUME AllocationBounds, NEW a, NEW b, IsBook(a), IsBook(b), NEW n \in Nat, NEW d \in Nat \ {0}
    PROVE  IsBook(Towards(a, b, n, d))
<1>1. IsBook(Way(a, b, n, d))
    BY WayMixes DEF Mixes
<1> QED BY <1>1, ReducedIsSame DEF Towards, Way

\* What the caps of one name are made of stays whole.
LEMMA SignedIsInt ==
    ASSUME NEW x \in Int, NEW y \in Int, NEW z \in Int
    PROVE  Signed(x, y) \in Int /\ Lesser(y, z) \in Int /\ Greater(y, z) \in Int
BY DEF Signed, Lesser, Greater

\* What the wrapper makes is a book,
LEMMA WrappedIsBook ==
    ASSUME AllocationBounds, InputIsTyped PROVE IsBook(Wrapped)
<1> DEFINE zero == [s \in Symbols |-> 0]
           w == [s \in Symbols |-> IF s \in Sane THEN Clipped(s, input.proposal[s]) ELSE 0]
<1>1. IsBook(Whole(zero))
    BY BookOf DEF Whole
<1>2. \A s \in Symbols : Clipped(s, input.proposal[s]) \in Int
    <2>1. ASSUME NEW s \in Symbols PROVE Clipped(s, input.proposal[s]) \in Int
        <3>1. input.proposal[s] \in Int /\ input.adv[s] \in Int /\ MaxPosition \in Int
            BY DEF InputIsTyped, AllocationBounds
        <3> DEFINE x == input.proposal[s]
                   a == input.adv[s]
        <3>2. Clipped(s, x) = Signed(x, Lesser(Abs(x), IF a = Unknown THEN MaxPosition ELSE Lesser(MaxPosition, a)))
            BY DEF Clipped
        <3> HIDE DEF x, a
        <3>3. x \in Int /\ a \in Int /\ Abs(x) \in Int
            BY <3>1 DEF x, a, Abs
        <3>4. Clipped(s, x) \in Int
            BY <3>1, <3>2, <3>3 DEF Signed, Lesser
        <3> QED BY <3>4 DEF x
    <2> QED BY <2>1
<1>3. IsBook(Clean)
    <2>1. IsBook(Whole(w))
        <3>1. w \in [Symbols -> Int]
            BY <1>2
        <3> HIDE DEF w
        <3> QED BY <3>1, BookOf DEF Whole
    <2>2. Clean = GrossCapped(Whole(w))
        BY DEF Clean
    <2> HIDE DEF w
    <2> QED BY <2>1, <2>2, GrossCappedWithin
<1>4. IsBook(Throttled(Clean))
    <2> DEFINE b == Clean
               t == Gross(Apart(Now, b))
               n == MaxTurnover * b.den
    <2>1. IsBook(Now)
        BY BaseIsWithin
    <2>2. t \in Nat /\ n \in Nat
        BY <1>3, <2>1, ApartIsTyped, GrossIsSum DEF IsBook, AllocationBounds
    <2>3. Throttled(b) = IF t > n THEN Towards(Now, b, n, t) ELSE b
        BY DEF Throttled, Now
    <2> HIDE DEF b, t, n
    <2>4. CASE t > n
        <3>1. t \in Nat \ {0}
            BY <2>2, <2>4
        <3> QED BY <1>3, <2>1, <2>2, <2>3, <2>4, <3>1, TowardsIsBook DEF b
    <2>5. CASE ~(t > n)
        BY <1>3, <2>3, <2>5 DEF b
    <2> QED BY <2>4, <2>5
<1> QED
    BY <1>1, <1>4 DEF Wrapped

\* ... and the volatility target,
LEMMA VolScaledIsBook ==
    ASSUME AllocationBounds, InputIsTyped, NEW b, IsBook(b) PROVE IsBook(VolScaled(b))
<1> DEFINE k == Scaled(b, input.factor[1], input.factor[2])
           w == [s \in Symbols |-> Signed(k.w[s], Lesser(Abs(k.w[s]), MaxPosition * k.den))]
           c == [k EXCEPT !.w = w]
<1>1. IsBook(k)
    BY ScaledIsBook DEF InputIsTyped
<1>2. VolScaled(b) = GrossCapped(c)
    BY DEF VolScaled
<1> HIDE DEF k
<1>3. k.w \in [Symbols -> Int] /\ k.den \in Nat \ {0} /\ MaxPosition \in Nat
    BY <1>1 DEF IsBook, AllocationBounds
<1>4. ASSUME NEW s \in Symbols PROVE w[s] \in Int
    <2>1. k.w[s] \in Int /\ Abs(k.w[s]) \in Int /\ MaxPosition * k.den \in Int
        BY <1>3, AbsIsNat
    <2> QED BY <2>1, SignedIsInt
<1>5. w \in [Symbols -> Int]
    BY <1>4
<1> HIDE DEF w
<1>6. IsBook(c)
    BY <1>1, <1>5 DEF IsBook
<1> HIDE DEF c
<1> QED BY <1>2, <1>6, GrossCappedWithin

\* ... and the blend of S4.
LEMMA CombinedIsBook ==
    ASSUME AllocationBounds, InputIsTyped, NEW b, NEW c, IsBook(b), IsBook(c)
    PROVE  IsBook(Combined(b, c))
<1> DEFINE x == input.alphas[1]
           y == input.alphas[2]
           w == [s \in Symbols |-> x * b.w[s] * c.den + y * c.w[s] * b.den]
           d == (x + y) * b.den * c.den
           raw == [w |-> w, den |-> d]
<1>1. /\ b.w \in [Symbols -> Int] /\ b.den \in Nat \ {0}
      /\ c.w \in [Symbols -> Int] /\ c.den \in Nat \ {0}
    BY DEF IsBook
<1>2. x \in Nat \ {0} /\ y \in Nat \ {0}
    BY DEF InputIsTyped
<1>3. Combined(b, c) = GrossCapped(Reduced(raw))
    BY DEF Combined
<1> HIDE DEF x, y
<1>4. w \in [Symbols -> Int]
    <2>1. ASSUME NEW s \in Symbols PROVE x * b.w[s] * c.den + y * c.w[s] * b.den \in Int
        <3>1. b.w[s] \in Int /\ c.w[s] \in Int
            BY <1>1
        <3>2. x * b.w[s] * c.den \in Int /\ y * c.w[s] * b.den \in Int
            BY <1>1, <1>2, <3>1
        <3> QED BY <3>2
    <2> QED BY <2>1
<1>5. d \in Nat \ {0}
    <2>1. (x + y) * b.den \in Nat \ {0}
        BY <1>1, <1>2
    <2> DEFINE e == (x + y) * b.den
    <2>2. e \in Nat \ {0} /\ d = e * c.den
        BY <2>1
    <2> HIDE DEF e, d
    <2>3. e * c.den \in Nat \ {0}
        BY <1>1, <2>2
    <2> QED BY <2>2, <2>3
<1> HIDE DEF w, d
<1>6. IsBook(raw)
    BY <1>4, <1>5, BookOf
<1> HIDE DEF raw
<1>7. IsBook(Reduced(raw))
    BY <1>6, ReducedIsSame
<1> QED BY <1>3, <1>7, GrossCappedWithin

\* The limits are the input's: they stand while it does.
LEMMA LimitsStand ==
    ASSUME UNCHANGED input
    PROVE  /\ Feasible(book)' <=> Feasible(book')
           /\ Feasible(s3)' <=> Feasible(s3')
           /\ Within(s3)' <=> Within(s3')
           /\ WithinTurnover(s3)' <=> WithinTurnover(s3')
<1>1. \A s \in Symbols : Long(s)' = Long(s) /\ Short(s)' = Short(s)
    BY DEF Long, Short, Held
<1>2. Base' = Base
    BY DEF Base, Clip, CapOf, Whole
<1>3. Feasible(book)' <=> Feasible(book')
    BY DEF Feasible
<1>4. Feasible(s3)' <=> Feasible(s3')
    BY DEF Feasible
<1>5. Within(s3)' <=> Within(s3')
    BY <1>1 DEF Within, Boxed, IsBook
<1>6. WithinTurnover(s3)' <=> WithinTurnover(s3')
    BY <1>2 DEF WithinTurnover, Whole, Apart
<1> QED BY <1>3, <1>4, <1>5, <1>6

(* "A turnover budget must not be able to carry an invalid current book into *)
(* the settled weights" (core/risk/final_limits.py).                         *)
THEOREM LimitsBindHolds == ASSUME AllocationBounds PROVE AllocationSpec => []LimitsBind
<1>1. ASSUME AllocationInit PROVE AllocationInv
    <2>1. input \in Inputs /\ stage = "wrap" /\ s3 = book /\ book = Whole([s \in Symbols |-> 0])
        BY <1>1 DEF AllocationInit, Whole
    <2>2. IsBook(book)
        BY <2>1, BookOf DEF Whole
    <2> QED BY <2>1, <2>2 DEF AllocationInv, LimitsBind
<1>2. ASSUME AllocationInv, [AllocationNext]_allotVars PROVE AllocationInv'
    <2>1. /\ input \in Inputs /\ InputIsTyped /\ IsBook(book) /\ IsBook(s3)
          /\ stage \in {"blend", "scale blend", "limit blend"} => Within(s3) /\ WithinTurnover(s3)
          /\ LimitsBind
        BY <1>2, InputsAreTyped DEF AllocationInv
    <2>2. ASSUME UNCHANGED input, IsBook(book'), IsBook(s3'),
                 stage' \in {"blend", "scale blend", "limit blend"} => Within(s3') /\ WithinTurnover(s3'),
                 stage' = "settled" => Feasible(s3') /\ WithinTurnover(s3') /\ Feasible(book')
          PROVE  AllocationInv'
        <3>1. LimitsBind'
            BY <2>2, LimitsStand DEF LimitsBind
        <3>2. (stage \in {"blend", "scale blend", "limit blend"} => Within(s3) /\ WithinTurnover(s3))'
            BY <2>2, LimitsStand
        <3>3. (input \in Inputs /\ IsBook(book) /\ IsBook(s3))'
            BY <2>1, <2>2 DEF IsBook, Inputs
        <3> QED BY <3>1, <3>2, <3>3 DEF AllocationInv
    <2>3. CASE Wraps
        <3>1. UNCHANGED <<input, s3>> /\ stage' = "scale" /\ book' = Wrapped
            BY <2>3 DEF Wraps, Step
        <3> QED BY <2>1, <2>2, <3>1, WrappedIsBook
    <2>4. CASE Scales
        <3>1. UNCHANGED <<input, s3>> /\ stage' = "limit" /\ book' = VolScaled(book)
            BY <2>4 DEF Scales, Step
        <3> QED BY <2>1, <2>2, <3>1, VolScaledIsBook
    <2>5. CASE LimitsS3
        <3>1. UNCHANGED input /\ stage' = "blend" /\ book' = Limited(book) /\ s3' = Limited(book)
            BY <2>5 DEF LimitsS3, Step
        <3>2. Within(Limited(book)) /\ Gross(Apart(Base, Limited(book))) =< Remaining * Limited(book).den
            BY <2>1, LimitedWithin
        <3>3. IsBook(Limited(book))
            BY <3>2 DEF Within
        <3>4. WithinTurnover(Limited(book))
            BY <2>1, <3>2, <3>3, NearIsWithinTurnover
        <3> QED BY <2>2, <3>1, <3>2, <3>3, <3>4
    <2>6. CASE Blends
        <3>1. UNCHANGED <<input, s3>> /\ stage = "blend" /\ stage' = "scale blend" /\ book' = Combined(Base, book)
            BY <2>6 DEF Blends, Step
        <3> QED BY <2>1, <2>2, <3>1, BaseIsWithin, CombinedIsBook
    <2>7. CASE ScalesBlend
        <3>1. /\ UNCHANGED <<input, s3>> /\ stage = "scale blend" /\ stage' = "limit blend"
              /\ book' = VolScaled(book)
            BY <2>7 DEF ScalesBlend, Step
        <3> QED BY <2>1, <2>2, <3>1, VolScaledIsBook
    <2>8. CASE LimitsAll
        <3>1. /\ UNCHANGED input /\ stage = "limit blend" /\ stage' = "settled"
              /\ book' = Clip(book) /\ s3' = Clip(s3)
            BY <2>8 DEF LimitsAll, Step
        <3>2. Within(Clip(book)) /\ Clip(s3) = s3
            BY <2>1, <3>1, ClipWithin
        <3>3. IsBook(Clip(book))
            BY <3>2 DEF Within
        <3>4. Feasible(Clip(book)) /\ Feasible(s3)
            BY <2>1, <3>1, <3>2, WithinIsFeasible
        <3> QED BY <2>1, <2>2, <3>1, <3>2, <3>3, <3>4
    <2>9. CASE UNCHANGED allotVars
        <3>1. UNCHANGED <<input, stage, book, s3>>
            BY <2>9 DEF allotVars
        <3> QED BY <2>1, <2>2, <3>1 DEF LimitsBind
    <2> QED
        BY <1>2, <2>3, <2>4, <2>5, <2>6, <2>7, <2>8, <2>9 DEF AllocationNext
<1>3. AllocationInv => LimitsBind
    BY DEF AllocationInv
<1> QED
    BY <1>1, <1>2, <1>3, PTL DEF AllocationSpec
==============================================================================
