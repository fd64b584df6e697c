-------------------------- MODULE ShadowBooksProofs --------------------------
(***************************************************************************)
(* That the dollars of every book are its shares at the basis, and that    *)
(* its cash and equity are an account's that made its trades, for every    *)
(* set of books, names, prices and decisions and every bound, provided a   *)
(* split and a bad print are absurd prints.                                *)
(***************************************************************************)
EXTENDS ShadowBooks, Sums

(***************************************************************************)
(* The inductive invariant.                                                *)
(***************************************************************************)

\* What the steps need to know of a book and of a state.
BookShape(book) ==
    /\ book = [equity |-> book.equity, cash |-> book.cash, val |-> book.val,
               unpriced |-> book.unpriced, shares |-> book.shares,
               account |-> book.account, charges |-> book.charges]
    /\ book.val \in [Syms -> Int]
    /\ book.shares \in [Syms -> Int]

Shape(c) ==
    /\ c = [books |-> c.books, basis |-> c.basis, borrowDay |-> c.borrowDay,
            days |-> c.days, good |-> c.good]
    /\ \A b \in Books : BookShape(c.books[b])
    /\ c.basis \in [Syms -> Nat]
    /\ c.good \subseteq Syms

\* Where a name stands: without a basis nobody holds it; with one, it is good
\* exactly when its price is not absurd; and its holdings are worth their
\* shares at the basis if it is good, else at the price that rests.
Worth(c, s, p) ==
    /\ c.basis[s] = 0 => /\ s \notin c.good
                         /\ \A b \in Books : c.books[b].val[s] = 0 /\ c.books[b].shares[s] = 0
    /\ c.basis[s] # 0 => (s \in c.good <=> ~Absurd(c.basis[s], p))
    /\ \A b \in Books : c.books[b].val[s] =
          c.books[b].shares[s] * (IF s \in c.good THEN c.basis[s] ELSE p)

StateInv(c, prices) == Shape(c) /\ \A s \in Syms : Worth(c, s, prices[s])

WorthInv ==
    /\ price \in [Syms -> Prices]
    /\ day \in Nat
    /\ StateInv(mem, price)
    /\ StateInv(disk, price)

(***************************************************************************)
(* Arithmetic.                                                             *)
(***************************************************************************)

\* Dividing a multiple gives back the factor.
LEMMA DivMultiple ==
    ASSUME NEW n \in Int, NEW p \in Nat \ {0}
    PROVE  (p * n) \div p = n
<1>1. p * n = p * n + 0
    OBVIOUS
<1> QED
    OBVIOUS

\* Marking from one price to another multiplies the same shares.
LEMMA MarkShares ==
    ASSUME NEW n \in Int, NEW p0 \in Nat \ {0}, NEW p1 \in Nat \ {0}
    PROVE  ((n * p0) * p1) \div p0 = n * p1
<1>1. (n * p0) * p1 = p0 * (n * p1)
    OBVIOUS
<1>2. n * p1 \in Int
    OBVIOUS
<1> QED
    BY <1>1, <1>2, DivMultiple

\* A multiple beyond the band is absurd there and back, and a price is not
\* absurd beside itself.
LEMMA Absurdity ==
    ASSUME NEW p \in Nat \ {0}, NEW k \in Nat \ {0}, JumpMax < k
    PROVE  /\ Absurd(p, k * p) /\ Absurd(k * p, p)
           /\ ~Absurd(p, p)
           /\ k * p \in Nat \ {0} /\ k * p # p
<1>1. JumpMax \in Nat \ {0}
    BY BooksAssumption
<1>2. JumpMax * p < k * p
    BY <1>1
<1>3. JumpMax * p >= p
    BY <1>1
<1> QED
    BY <1>1, <1>2, <1>3 DEF Absurd

(***************************************************************************)
(* A tick.                                                                 *)
(***************************************************************************)

AnyDecision == Targets \cup {Hold}

\* Reducing stays in whole units.
LEMMA ReducedInt ==
    ASSUME NEW old \in Int, NEW desired \in Int
    PROVE  Reduced(old, desired) \in Int
<1>1. Min({old, desired}) \in Int
    <2>1. \E x \in {old, desired} : \A y \in {old, desired} : x =< y
        OBVIOUS
    <2> QED
        BY <2>1 DEF Min
<1>2. Max({old, desired}) \in Int
    <2>1. \E x \in {old, desired} : \A y \in {old, desired} : x >= y
        OBVIOUS
    <2> QED
        BY <2>1 DEF Max
<1> QED
    BY <1>1, <1>2 DEF Reduced

\* A decision settles, name by name, as units of the print.
LEMMA FinalUnits ==
    ASSUME NEW print \in [Syms -> Nat], NEW safe \in SUBSET Syms, NEW m \in [Syms -> Int],
           NEW d \in AnyDecision, NEW b \in Books,
           NEW s \in safe, print[s] # 0,
           Final(print, safe, m, WantOf(d, b))[s] # m[s]
    PROVE  \E k \in Int : Final(print, safe, m, WantOf(d, b))[s] = print[s] * k
<1> DEFINE want == WantOf(d, b)
<1>1. want # Hold
    BY DEF Final
<1>2. want \in [Syms -> Int]
    BY <1>1, BooksAssumption DEF WantOf, AnyDecision
<1>3. m[s] \div print[s] \in Int
    OBVIOUS
<1>4. Proposed(print, safe, m, want, s) \in Int
    BY <1>2, <1>3, ReducedInt DEF Proposed
<1>5. Final(print, safe, m, want)[s] = print[s] * Proposed(print, safe, m, want, s)
    BY <1>1 DEF Final
<1> QED
    BY <1>4, <1>5

\* The marked and the final dollars of a book in a tick.
MarkedBook(c, b, print) == Marked(c, b, print, Safe(c, print))
FinalBook(c, b, print, d) ==
    Final(print, Safe(c, print), MarkedBook(c, b, print), WantOf(d, b))

\* What a completed tick does to one name of one book.
LEMMA SettledName ==
    ASSUME NEW c, Shape(c), NEW print \in [Syms -> Nat],
           NEW d \in AnyDecision, NEW b \in Books, NEW s \in Syms,
           NEW today \in Nat
    PROVE  /\ MarkedBook(c, b, print) \in [Syms -> Int]
           /\ Settled(c, print, d, today).books[b].val[s] = FinalBook(c, b, print, d)[s]
           /\ Settled(c, print, d, today).books[b].shares[s] =
                  IF FinalBook(c, b, print, d)[s] = MarkedBook(c, b, print)[s]
                  THEN c.books[b].shares[s]
                  ELSE c.books[b].shares[s]
                       + (FinalBook(c, b, print, d)[s] - MarkedBook(c, b, print)[s])
                         \div print[s]
           /\ s \notin Safe(c, print) =>
                 /\ Settled(c, print, d, today).books[b].val[s] = c.books[b].val[s]
                 /\ Settled(c, print, d, today).books[b].shares[s] = c.books[b].shares[s]
<1> DEFINE m   == MarkedBook(c, b, print)
           f   == FinalBook(c, b, print, d)
           new == Settled(c, print, d, today).books[b]
<1>1. m \in [Syms -> Int]
    <2> SUFFICES ASSUME NEW x \in Syms
                 PROVE  m[x] \in Int
        BY DEF Marked, MarkedBook
    <2>1. c.books[b].val[x] \in Int /\ print[x] \in Nat /\ c.basis[x] \in Nat
        BY DEF Shape, BookShape
    <2>2. c.basis[x] # 0 => (c.books[b].val[x] * print[x]) \div c.basis[x] \in Int
        BY <2>1
    <2> QED
        BY <2>1, <2>2 DEF Marked, MarkedBook
<1>2. new = SettledBook(c, b, print, WantOf(d, b), today)
    BY DEF Settled
<1>3. new.val = f
    BY <1>2 DEF SettledBook, MarkedBook, FinalBook
<1>4. new.shares[s] = IF f[s] = m[s] THEN c.books[b].shares[s]
                      ELSE c.books[b].shares[s] + (f[s] - m[s]) \div print[s]
    BY <1>2 DEF SettledBook, MarkedBook, FinalBook
<1>5. s \notin Safe(c, print) => f[s] = m[s] /\ m[s] = c.books[b].val[s]
    BY DEF Final, Marked, MarkedBook, FinalBook
<1> QED
    BY <1>1, <1>3, <1>4, <1>5

\* A snapshot shows each name's price, nothing, or, for one that has not moved,
\* a bad print.
Shows(c, print, s, p) ==
    \/ print[s] \in {0, p}
    \/ s \in c.good /\ c.basis[s] = p /\ print[s] = BadFactor * p

\* A missing print changes nothing.
LEMMA MissingKeepsWorth ==
    ASSUME NEW c, Shape(c), NEW print \in [Syms -> Nat],
           NEW d \in AnyDecision, NEW s \in Syms, NEW today \in Nat,
           Worth(c, s, price[s]), print[s] = 0
    PROVE  Worth(Settled(c, print, d, today), s, price[s])
<1> DEFINE new == Settled(c, print, d, today)
<1> SUFFICES Worth(new, s, price[s])
    OBVIOUS
<1>1. s \notin Safe(c, print)
    BY DEF Safe
<1>2. \A b \in Books : /\ new.books[b].val[s] = c.books[b].val[s]
                       /\ new.books[b].shares[s] = c.books[b].shares[s]
    BY <1>1, SettledName
<1>3. new.basis[s] = c.basis[s] /\ (s \in new.good <=> s \in c.good)
    BY DEF Settled, Adopted
<1> HIDE DEF new
<1> QED
    BY <1>2, <1>3 DEF Worth

\* A bad print is adopted and books nothing.
LEMMA BadPrintKeepsWorth ==
    ASSUME JumpMax < BadFactor,
           NEW c, Shape(c), NEW print \in [Syms -> Nat],
           NEW d \in AnyDecision, NEW s \in Syms, NEW today \in Nat,
           NEW p \in Nat \ {0}, price[s] = p, Worth(c, s, p),
           s \in c.good, c.basis[s] = p, print[s] = BadFactor * p
    PROVE  Worth(Settled(c, print, d, today), s, p)
<1> DEFINE new == Settled(c, print, d, today)
<1> SUFFICES Worth(new, s, p)
    OBVIOUS
<1>1. /\ Absurd(p, print[s]) /\ Absurd(print[s], p)
      /\ print[s] # 0 /\ print[s] # p
    BY Absurdity, BooksAssumption
<1>2. s \notin Safe(c, print)
    BY <1>1 DEF Safe
<1>3. \A b \in Books : /\ new.books[b].val[s] = c.books[b].val[s]
                       /\ new.books[b].shares[s] = c.books[b].shares[s]
    BY <1>2, SettledName
<1>4. new.basis[s] = print[s] /\ s \notin new.good
    BY <1>1 DEF Settled, Adopted
<1>5. \A b \in Books : c.books[b].val[s] = c.books[b].shares[s] * p
    BY DEF Worth
<1> HIDE DEF new
<1> QED
    BY <1>1, <1>3, <1>4, <1>5 DEF Worth

\* A name that can be priced is marked to its shares at its true price.
LEMMA SafeMarksShares ==
    ASSUME NEW c, Shape(c), NEW print \in [Syms -> Nat], NEW b \in Books,
           NEW s \in Safe(c, print), s \in Syms,
           NEW p \in Nat \ {0}, Worth(c, s, p), print[s] = p
    PROVE  MarkedBook(c, b, print)[s] = c.books[b].shares[s] * p
<1>1. c.books[b].shares[s] \in Int /\ c.basis[s] \in Nat
    BY DEF Shape, BookShape
<1>2. CASE c.basis[s] = 0
    BY <1>1, <1>2 DEF Marked, MarkedBook, Worth
<1>3. CASE c.basis[s] # 0
    <2>1. s \in c.good
        BY <1>3 DEF Safe, Worth
    <2>2. c.books[b].val[s] = c.books[b].shares[s] * c.basis[s]
        BY <2>1 DEF Worth
    <2>3. MarkedBook(c, b, print)[s] = ((c.books[b].shares[s] * c.basis[s]) * p) \div c.basis[s]
        BY <1>3, <2>2 DEF Marked, MarkedBook
    <2> QED
        BY <1>1, <1>3, <2>3, MarkShares
<1> QED
    BY <1>2, <1>3

\* A true print books the move of what is held, or re-bases it.
LEMMA TruePrintKeepsWorth ==
    ASSUME NEW c, Shape(c), NEW print \in [Syms -> Nat],
           NEW d \in AnyDecision, NEW s \in Syms, NEW today \in Nat,
           NEW p \in Nat \ {0}, price[s] = p, Worth(c, s, p), print[s] = p
    PROVE  Worth(Settled(c, print, d, today), s, p)
<1> DEFINE new  == Settled(c, print, d, today)
           safe == Safe(c, print)
<1> SUFFICES Worth(new, s, p)
    OBVIOUS
<1>1. new.basis[s] = p /\ s \in new.good
    BY DEF Settled, Adopted
<1>2. ~Absurd(p, p)
    <2>1. JumpMax \in Nat \ {0}
        BY BooksAssumption
    <2>2. JumpMax * p >= p
        BY <2>1
    <2> QED
        BY <2>1, <2>2 DEF Absurd
<1>3. ASSUME NEW b \in Books
      PROVE  new.books[b].val[s] = new.books[b].shares[s] * p
    <2> DEFINE m == MarkedBook(c, b, print)
               f == FinalBook(c, b, print, d)
               n == c.books[b].shares[s]
    <2>1. n \in Int /\ c.basis[s] \in Nat
        BY DEF Shape, BookShape
    <2>2. CASE s \notin safe
        <3>1. c.basis[s] # 0 /\ Absurd(c.basis[s], p)
            BY <2>2 DEF Safe, Absurd
        <3>2. s \notin c.good
            BY <3>1 DEF Worth
        <3>3. c.books[b].val[s] = n * p
            BY <3>2 DEF Worth
        <3>4. new.books[b].val[s] = c.books[b].val[s] /\ new.books[b].shares[s] = n
            BY <2>2, SettledName
        <3> QED
            BY <3>3, <3>4
    <2>3. CASE s \in safe
        <3>1. m[s] = n * p
            BY <2>3, SafeMarksShares
        <3>2. /\ m \in [Syms -> Int]
              /\ new.books[b].val[s] = f[s]
              /\ new.books[b].shares[s] =
                     IF f[s] = m[s] THEN n ELSE n + (f[s] - m[s]) \div p
            BY SettledName
        <3>3. CASE f[s] = m[s]
            BY <3>1, <3>2, <3>3
        <3>4. CASE f[s] # m[s]
            <4>1. PICK k \in Int : f[s] = p * k
                <5>1. safe \in SUBSET Syms /\ print[s] # 0
                    BY DEF Safe
                <5>2. f = Final(print, safe, m, WantOf(d, b))
                    BY DEF FinalBook
                <5>3. \E k \in Int : Final(print, safe, m, WantOf(d, b))[s] = print[s] * k
                    <6>1. m \in [Syms -> Int]
                        BY <3>2
                    <6>2. Final(print, safe, m, WantOf(d, b))[s] # m[s]
                        BY <3>4, <5>2
                    <6> HIDE DEF m, safe, f, new
                    <6> QED
                        BY <2>3, <5>1, <6>1, <6>2, FinalUnits
                <5> QED
                    BY <5>2, <5>3
            <4>2. f[s] - m[s] = p * (k - n)
                BY <2>1, <3>1, <4>1
            <4>3. (p * (k - n)) \div p = k - n
                <5>1. k - n \in Int
                    BY <2>1, <4>1
                <5> QED
                    BY <5>1, DivMultiple
            <4>4. new.books[b].shares[s] = k
                BY <2>1, <3>2, <3>4, <4>2, <4>3
            <4> QED
                BY <3>2, <4>1, <4>4
        <3> QED
            BY <3>3, <3>4
    <2> QED
        BY <2>2, <2>3
<1> HIDE DEF new
<1> QED
    BY <1>1, <1>2, <1>3 DEF Worth

\* A completed tick leaves a state of the same shape.
LEMMA SettledShape ==
    ASSUME NEW c, Shape(c), NEW print \in [Syms -> Nat],
           NEW d \in AnyDecision, NEW today \in Nat
    PROVE  Shape(Settled(c, print, d, today))
<1> DEFINE new == Settled(c, print, d, today)
<1>1. new = [books |-> new.books, basis |-> new.basis,
              borrowDay |-> new.borrowDay, days |-> new.days, good |-> new.good]
    BY DEF Settled
<1>2. new.basis \in [Syms -> Nat] /\ new.good \subseteq Syms
    BY DEF Settled, Adopted, Shape
<1>3. ASSUME NEW b \in Books
      PROVE  BookShape(new.books[b])
    <2> DEFINE m == MarkedBook(c, b, print)
               f == FinalBook(c, b, print, d)
    <2>1. new.books[b] = SettledBook(c, b, print, WantOf(d, b), today)
        BY DEF Settled
    <2>2. new.books[b] = [equity |-> new.books[b].equity, cash |-> new.books[b].cash,
                  val |-> new.books[b].val, unpriced |-> new.books[b].unpriced,
                  shares |-> new.books[b].shares, account |-> new.books[b].account,
                  charges |-> new.books[b].charges]
        BY <2>1 DEF SettledBook
    <2>3. ASSUME NEW s \in Syms
          PROVE  f[s] \in Int /\ m[s] \in Int /\ (f[s] # m[s] => print[s] \in Nat \ {0})
        <3>1. m \in [Syms -> Int]
            BY SettledName
        <3>2. m[s] \in Int
            BY <3>1
        <3>3. CASE f[s] = m[s]
            BY <3>2, <3>3
        <3>4. CASE f[s] # m[s]
            <4>1. s \in Safe(c, print) /\ print[s] # 0 /\ Safe(c, print) \in SUBSET Syms
                BY <3>4 DEF FinalBook, Final, Safe
            <4>2. f = Final(print, Safe(c, print), m, WantOf(d, b))
                BY DEF FinalBook
            <4>3. \E k \in Int : Final(print, Safe(c, print), m, WantOf(d, b))[s]
                                     = print[s] * k
                <5> HIDE DEF m
                <5> QED
                    BY <3>1, <3>4, <4>1, <4>2, FinalUnits
            <4>4. print[s] \in Nat
                OBVIOUS
            <4> QED
                BY <3>2, <4>1, <4>2, <4>3, <4>4
        <3> QED
            BY <3>3, <3>4
    <2>4. new.books[b].val = f
        BY <2>1 DEF SettledBook, FinalBook, MarkedBook
    <2>5. f = [s \in Syms |-> f[s]]
        BY DEF FinalBook, Final
    <2>6. new.books[b].val \in [Syms -> Int]
        <3> HIDE DEF f, new
        <3> QED
            BY <2>3, <2>4, <2>5
    <2>7. new.books[b].shares =
             [s \in Syms |-> IF f[s] = m[s] THEN c.books[b].shares[s]
                             ELSE c.books[b].shares[s] + (f[s] - m[s]) \div print[s]]
        BY <2>1 DEF SettledBook, FinalBook, MarkedBook
    <2>8. new.books[b].shares \in [Syms -> Int]
        <3>1. \A s \in Syms : c.books[b].shares[s] \in Int
            BY DEF Shape, BookShape
        <3> HIDE DEF f, m, new
        <3> QED
            BY <2>3, <2>7, <3>1
    <2> QED
        BY <2>2, <2>6, <2>8 DEF BookShape
<1> HIDE DEF new
<1> QED
    BY <1>1, <1>2, <1>3 DEF Shape, new

\* A completed tick keeps the invariant of the state it started from.
LEMMA TickKeepsStateInv ==
    ASSUME JumpMax < BadFactor, price \in [Syms -> Prices],
           NEW c, StateInv(c, price), NEW print \in [Syms -> Nat],
           NEW d \in AnyDecision, NEW today \in Nat,
           \A s \in Syms : Shows(c, print, s, price[s])
    PROVE  StateInv(Settled(c, print, d, today), price)
<1>1. Shape(c)
    BY DEF StateInv
<1>2. ASSUME NEW s \in Syms
      PROVE  Worth(Settled(c, print, d, today), s, price[s])
    <2>1. price[s] \in Nat \ {0}
        BY BooksAssumption
    <2>2. Worth(c, s, price[s])
        BY DEF StateInv
    <2>3. CASE print[s] = 0
        BY <1>1, <2>2, <2>3, MissingKeepsWorth
    <2>4. CASE print[s] = price[s]
        BY <1>1, <2>1, <2>2, <2>4, TruePrintKeepsWorth
    <2>5. CASE s \in c.good /\ c.basis[s] = price[s] /\ print[s] = BadFactor * price[s]
        BY <1>1, <2>1, <2>2, <2>5, BadPrintKeepsWorth
    <2> QED
        BY <2>3, <2>4, <2>5 DEF Shows
<1> QED
    BY <1>1, <1>2, SettledShape DEF StateInv

(***************************************************************************)
(* The steps.                                                              *)
(***************************************************************************)

\* The first state: no basis and no holding.
LEMMA WorthInit ==
    Init => WorthInv
<1> SUFFICES ASSUME Init
             PROVE  WorthInv
    OBVIOUS
<1>1. price \in [Syms -> Prices] /\ day \in Nat
    BY BooksAssumption DEF Init
<1>2. BookShape(NewBook)
    BY DEF BookShape, NewBook
<1>3. Shape(Fresh)
    <2>1. \A b \in Books : Fresh.books[b] = NewBook
        BY DEF Fresh
    <2>2. Fresh = [books |-> Fresh.books, basis |-> Fresh.basis,
                  borrowDay |-> Fresh.borrowDay, days |-> Fresh.days, good |-> Fresh.good]
        BY DEF Fresh
    <2>3. Fresh.basis \in [Syms -> Nat] /\ Fresh.good \subseteq Syms
        BY DEF Fresh
    <2> QED
        BY <1>2, <2>1, <2>2, <2>3 DEF Shape
<1>4. ASSUME NEW s \in Syms
      PROVE  Worth(Fresh, s, price[s])
    <2>1. price[s] \in Nat
        BY <1>1, BooksAssumption
    <2>2. /\ Fresh.basis[s] = 0 /\ s \notin Fresh.good
          /\ \A b \in Books : Fresh.books[b].val[s] = 0 /\ Fresh.books[b].shares[s] = 0
        BY DEF Fresh, NewBook
    <2> QED
        BY <2>1, <2>2 DEF Worth
<1> QED
    BY <1>1, <1>3, <1>4 DEF Init, WorthInv, StateInv

\* What a tick sees is one of the prints its lemmas speak of.
LEMMA SnapshotShows ==
    ASSUME WorthInv, NEW seen \in SUBSET Syms, NEW bad \in Bad
    PROVE  /\ Snapshot(seen, bad) \in [Syms -> Nat]
           /\ \A s \in Syms : Shows(mem, Snapshot(seen, bad), s, price[s])
<1>1. ASSUME NEW s \in Syms
      PROVE  price[s] \in Nat /\ BadFactor * price[s] \in Nat
    <2>1. price[s] \in Nat
        BY BooksAssumption DEF WorthInv
    <2> QED
        BY <2>1, BooksAssumption
<1>2. \A s \in bad : s \in mem.good /\ mem.basis[s] = price[s]
    BY DEF Bad
<1> QED
    BY <1>1, <1>2 DEF Snapshot, Shows

\* A tick, saved or not.
LEMMA TickKeepsWorth ==
    ASSUME JumpMax < BadFactor, WorthInv,
           NEW seen \in SUBSET Syms, NEW bad \in Bad, NEW d \in Decisions,
           Tick(Snapshot(seen, bad), d, Uses(bad, d))
    PROVE  WorthInv'
<1>1. d \in AnyDecision
    BY DEF Decisions, AnyDecision
<1>2. StateInv(Settled(mem, Snapshot(seen, bad), d, day), price)
    BY <1>1, SnapshotShows, TickKeepsStateInv DEF WorthInv
<1>3. /\ mem' = Settled(mem, Snapshot(seen, bad), d, day)
      /\ disk' = mem' \/ disk' = disk
      /\ price' = price /\ day' = day
    BY DEF Tick
<1>4. StateInv(mem', price')
    BY <1>2, <1>3
<1>5. StateInv(disk', price')
    <2>1. CASE disk' = mem'
        BY <1>4, <2>1
    <2>2. CASE disk' = disk
        BY <1>3, <2>2 DEF WorthInv
    <2> QED
        BY <1>3, <2>1, <2>2
<1> QED
    BY <1>3, <1>4, <1>5 DEF WorthInv

\* A name may move in a state whose basis it stays believable beside.
LEMMA MoveKeepsStateInv ==
    ASSUME price \in [Syms -> Prices], NEW c, StateInv(c, price),
           NEW s \in Syms, NEW p \in Prices,
           c.basis[s] # 0 => s \in c.good /\ ~Absurd(c.basis[s], p)
    PROVE  StateInv(c, [price EXCEPT ![s] = p])
<1>1. ASSUME NEW x \in Syms
      PROVE  Worth(c, x, [price EXCEPT ![s] = p][x])
    <2>1. CASE x # s
        BY <2>1 DEF StateInv
    <2>2. CASE x = s
        <3>1. Worth(c, s, price[s])
            BY DEF StateInv
        <3>2. p \in Nat
            BY BooksAssumption
        <3>3. Worth(c, s, p)
            BY <3>1, <3>2 DEF Worth
        <3> QED
            BY <2>2, <3>3
    <2> QED
        BY <2>1, <2>2
<1> QED
    BY <1>1 DEF StateInv

\* A split multiplies the shares and divides the price, and its new price is
\* absurd beside the old basis.
LEMMA SplitKeepsStateInv ==
    ASSUME JumpMax < SplitFactor, price \in [Syms -> Prices],
           NEW c, StateInv(c, price), NEW s \in Syms, NEW q \in Prices,
           price[s] = SplitFactor * q,
           c.basis[s] = 0 \/ (s \in c.good /\ c.basis[s] = price[s])
    PROVE  StateInv(SplitIn(c, s), [price EXCEPT ![s] = q])
<1> DEFINE new  == SplitIn(c, s)
           now  == [price EXCEPT ![s] = q]
           held == [b \in Books |-> [c.books[b] EXCEPT !.shares[s] = @ * SplitFactor]]
<1>0. Shape(c) /\ s \in Syms /\ SplitFactor \in Nat \ {0} /\ q \in Nat \ {0}
    BY BooksAssumption DEF StateInv
<1>1. /\ new.basis = c.basis /\ new.good = c.good \ {s}
      /\ new.books = held
      /\ new = [books |-> new.books, basis |-> new.basis,
                borrowDay |-> new.borrowDay, days |-> new.days, good |-> new.good]
    <2>1. new = [c EXCEPT !.good = c.good \ {s}, !.books = held]
        BY DEF SplitIn
    <2>2. c = [books |-> c.books, basis |-> c.basis, borrowDay |-> c.borrowDay,
               days |-> c.days, good |-> c.good]
        BY <1>0 DEF Shape
    <2> HIDE DEF new, held
    <2> QED
        BY <2>1, <2>2
<1>2. ASSUME NEW b \in Books
      PROVE  /\ BookShape(new.books[b])
             /\ new.books[b].val = c.books[b].val
             /\ new.books[b].shares =
                    [c.books[b].shares EXCEPT ![s] = c.books[b].shares[s] * SplitFactor]
    <2>1. BookShape(c.books[b])
        BY <1>0 DEF Shape
    <2>2. new.books[b] = [c.books[b] EXCEPT !.shares[s] = @ * SplitFactor]
        BY <1>1
    <2>3. /\ new.books[b].val = c.books[b].val
          /\ new.books[b].shares =
                 [c.books[b].shares EXCEPT ![s] = c.books[b].shares[s] * SplitFactor]
          /\ new.books[b] = [equity |-> new.books[b].equity, cash |-> new.books[b].cash,
                    val |-> new.books[b].val, unpriced |-> new.books[b].unpriced,
                    shares |-> new.books[b].shares, account |-> new.books[b].account,
                    charges |-> new.books[b].charges]
        BY <2>1, <2>2 DEF BookShape
    <2>4. c.books[b].shares[s] * SplitFactor \in Int /\ c.books[b].shares \in [Syms -> Int]
          /\ c.books[b].val \in [Syms -> Int]
        BY <1>0, <2>1 DEF BookShape
    <2>5. new.books[b].shares \in [Syms -> Int] /\ new.books[b].val \in [Syms -> Int]
        BY <2>3, <2>4
    <2> HIDE DEF new
    <2> QED
        BY <2>3, <2>5 DEF BookShape
<1> SUFFICES StateInv(new, now)
    OBVIOUS
<1>3. Shape(new)
    <2> HIDE DEF new
    <2>1. new.basis \in [Syms -> Nat] /\ new.good \subseteq Syms
        BY <1>0, <1>1 DEF Shape
    <2> QED
        BY <1>1, <1>2, <2>1 DEF Shape
<1>4. ASSUME NEW x \in Syms, x # s
      PROVE  Worth(new, x, now[x])
    <2>1. Worth(c, x, price[x]) /\ now[x] = price[x]
        BY <1>4 DEF StateInv
    <2>2. /\ new.basis[x] = c.basis[x] /\ (x \in new.good <=> x \in c.good)
        BY <1>0, <1>1, <1>4
    <2>3. ASSUME NEW b \in Books
          PROVE  /\ new.books[b].val[x] = c.books[b].val[x]
                 /\ new.books[b].shares[x] = c.books[b].shares[x]
        <3>1. c.books[b].shares \in [Syms -> Int]
            BY <1>0 DEF Shape, BookShape
        <3> HIDE DEF new
        <3> QED
            BY <1>2, <1>4, <3>1
    <2> HIDE DEF new, now
    <2> QED
        BY <2>1, <2>2, <2>3 DEF Worth
<1>5. Worth(new, s, now[s])
    <2>1. Worth(c, s, price[s]) /\ now[s] = q
        BY DEF StateInv
    <2>2. new.basis[s] = c.basis[s] /\ s \notin new.good
        BY <1>1
    <2>3. ASSUME NEW b \in Books
          PROVE  /\ new.books[b].val[s] = c.books[b].val[s]
                 /\ new.books[b].shares[s] = c.books[b].shares[s] * SplitFactor
                 /\ c.books[b].shares[s] \in Int
        <3>1. c.books[b].shares \in [Syms -> Int]
            BY <1>0 DEF Shape, BookShape
        <3> HIDE DEF new
        <3> QED
            BY <1>2, <3>1
    <2> HIDE DEF new, now
    <2>4. CASE c.basis[s] = 0
        <3>1. \A b \in Books : c.books[b].val[s] = 0 /\ c.books[b].shares[s] = 0
            BY <2>1, <2>4 DEF Worth
        <3>2. \A b \in Books : new.books[b].val[s] = 0 /\ new.books[b].shares[s] = 0
            BY <1>0, <2>2, <2>3, <3>1
        <3> QED
            BY <1>0, <2>1, <2>2, <2>3, <2>4, <3>2 DEF Worth
    <2>5. CASE c.basis[s] # 0
        <3>1. s \in c.good /\ c.basis[s] = SplitFactor * q /\ Absurd(SplitFactor * q, q)
            BY <1>0, <2>5, Absurdity
        <3>2. \A b \in Books : new.books[b].val[s] = new.books[b].shares[s] * q
            <4> TAKE b \in Books
            <4>1. c.books[b].val[s] = c.books[b].shares[s] * (SplitFactor * q)
                BY <2>1, <3>1 DEF Worth
            <4>2. c.books[b].shares[s] * (SplitFactor * q)
                      = (c.books[b].shares[s] * SplitFactor) * q
                BY <1>0, <2>2, <2>3
            <4> QED
                BY <2>2, <2>3, <4>1, <4>2
        <3> QED
            BY <2>1, <2>2, <2>3, <2>5, <3>1, <3>2 DEF Worth
    <2> QED
        BY <2>4, <2>5
<1> QED
    BY <1>3, <1>4, <1>5 DEF StateInv

\* Every step keeps the invariant.
LEMMA WorthStep ==
    ASSUME JumpMax < SplitFactor, JumpMax < BadFactor, WorthInv, [Next]_vars
    PROVE  WorthInv'
<1>1. ASSUME NEW seen \in SUBSET Syms, NEW bad \in Bad, NEW d \in Decisions,
             Tick(Snapshot(seen, bad), d, Uses(bad, d))
      PROVE  WorthInv'
    BY <1>1, TickKeepsWorth
<1>2. ASSUME NEW seen \in SUBSET Syms, NEW bad \in Bad, NEW d \in Decisions,
             TickRaises(Snapshot(seen, bad), d)
      PROVE  WorthInv'
    BY <1>2 DEF TickRaises, vars, WorthInv
<1>3. CASE Restart
    BY <1>3 DEF Restart, WorthInv
<1>4. ASSUME NEW s \in Syms, NEW p \in Prices, MovePrice(s, p)
      PROVE  WorthInv'
    <2>1. /\ price' = [price EXCEPT ![s] = p]
          /\ mem' = mem /\ disk' = disk /\ day' = day
          /\ Believable(s, p)
        BY <1>4 DEF MovePrice
    <2>2. price' \in [Syms -> Prices]
        BY <2>1 DEF WorthInv
    <2>3. StateInv(mem, [price EXCEPT ![s] = p]) /\ StateInv(disk, [price EXCEPT ![s] = p])
        BY <2>1, MoveKeepsStateInv DEF Believable, WorthInv
    <2> QED
        BY <2>1, <2>2, <2>3 DEF WorthInv
<1>5. ASSUME NEW s \in Syms, Split(s)
      PROVE  WorthInv'
    <2> DEFINE q == price[s] \div SplitFactor
    <2>1. /\ price[s] % SplitFactor = 0 /\ q \in Prices
          /\ price' = [price EXCEPT ![s] = q]
          /\ mem' = SplitIn(mem, s) /\ disk' = SplitIn(disk, s) /\ day' = day
          /\ \A c \in {mem, disk} : c.basis[s] = 0 \/ (s \in c.good /\ c.basis[s] = price[s])
        BY <1>5 DEF Split
    <2>2. price[s] = SplitFactor * q
        <3>1. price[s] \in Nat /\ SplitFactor \in Nat \ {0}
            BY BooksAssumption DEF WorthInv
        <3> QED
            BY <2>1, <3>1
    <2>3. price' \in [Syms -> Prices]
        BY <2>1 DEF WorthInv
    <2> HIDE DEF q
    <2>4. /\ StateInv(SplitIn(mem, s), [price EXCEPT ![s] = q])
          /\ StateInv(SplitIn(disk, s), [price EXCEPT ![s] = q])
        BY <2>1, <2>2, SplitKeepsStateInv DEF WorthInv
    <2> QED
        BY <2>1, <2>3, <2>4 DEF WorthInv
<1>6. CASE NextDay
    BY <1>6 DEF NextDay, WorthInv
<1>7. CASE UNCHANGED vars
    BY <1>7 DEF vars, WorthInv
<1> QED
    BY <1>1, <1>2, <1>3, <1>4, <1>5, <1>6, <1>7 DEF Next, Runtime, Market

\* In every state the dollars of each book are its shares at the basis
\* (mark_book, settle_book and the basis live.py carries), for every set of
\* books, names and decisions, if a split and a bad print are absurd prints.
THEOREM SharesKeepTheirWorthHolds ==
    ASSUME JumpMax < SplitFactor, JumpMax < BadFactor
    PROVE  Spec => []SharesKeepTheirWorth
<1>1. WorthInv /\ [Next]_vars => WorthInv'
    BY WorthStep
<1>2. WorthInv => SharesKeepTheirWorth
    BY DEF WorthInv, StateInv, Shape, Worth, SharesKeepTheirWorth
<1> QED
    BY WorthInit, <1>1, <1>2, PTL DEF Spec

(***************************************************************************)
(* Borrow.                                                                 *)
(***************************************************************************)

\* What the steps need of a state to keep the count: no completed day is later
\* than the one stamped, and none that is stamped is missing from them.
DaysInv(c, today) ==
    /\ c = [books |-> c.books, basis |-> c.basis, borrowDay |-> c.borrowDay,
            days |-> c.days, good |-> c.good]
    /\ \A b \in Books :
          c.books[b] = [equity |-> c.books[b].equity, cash |-> c.books[b].cash, val |-> c.books[b].val,
                        unpriced |-> c.books[b].unpriced, shares |-> c.books[b].shares,
                        account |-> c.books[b].account, charges |-> c.books[b].charges]
    /\ c.days \subseteq Nat /\ IsFiniteSet(c.days)
    /\ c.borrowDay \in c.days \cup {0} /\ c.borrowDay <= today
    /\ \A x \in c.days : x <= c.borrowDay
    /\ \A b \in Books : c.books[b].charges = Cardinality(c.days)

BorrowInv == day \in Nat \ {0} /\ DaysInv(mem, day) /\ DaysInv(disk, day)

\* A completed tick charges the day it stamps, and no day twice.
LEMMA TickChargesOnce ==
    ASSUME NEW today \in Nat \ {0}, NEW c, DaysInv(c, today), NEW print, NEW d
    PROVE  DaysInv(Settled(c, print, d, today), today)
<1> DEFINE new == Settled(c, print, d, today)
<1> SUFFICES DaysInv(new, today)
    OBVIOUS
<1>1. /\ new = [books |-> new.books, basis |-> new.basis, borrowDay |-> new.borrowDay,
                days |-> new.days, good |-> new.good]
      /\ new.days = c.days \cup {today} /\ new.borrowDay = today
    BY DEF Settled
<1>2. ASSUME NEW b \in Books
      PROVE  /\ new.books[b] = [equity |-> new.books[b].equity, cash |-> new.books[b].cash,
                       val |-> new.books[b].val, unpriced |-> new.books[b].unpriced,
                       shares |-> new.books[b].shares, account |-> new.books[b].account,
                       charges |-> new.books[b].charges]
             /\ new.books[b].charges = c.books[b].charges + (IF c.borrowDay # today THEN 1 ELSE 0)
    <2>1. new.books[b] = SettledBook(c, b, print, WantOf(d, b), today)
        BY DEF Settled
    <2> HIDE DEF new
    <2> QED BY <2>1 DEF SettledBook, BorrowDue
<1> HIDE DEF new
<1>3. IsFiniteSet(new.days) /\ new.days \subseteq Nat
    BY <1>1, FS_AddElement DEF DaysInv
<1>4. Cardinality(c.days) \in Nat
    BY FS_CardinalityType DEF DaysInv
<1>5. CASE c.borrowDay = today
    <2>1. new.days = c.days
        BY <1>1, <1>5 DEF DaysInv
    <2>2. ASSUME NEW b \in Books PROVE new.books[b].charges = Cardinality(new.days)
        <3>1. c.books[b].charges = Cardinality(c.days)
            BY DEF DaysInv
        <3>2. new.books[b].charges = c.books[b].charges + 0
            BY <1>2, <1>5
        <3> QED BY <1>4, <2>1, <3>1, <3>2
    <2>3. /\ new.borrowDay \in new.days \cup {0} /\ new.borrowDay <= today
          /\ \A x \in new.days : x <= new.borrowDay
        BY <1>1, <1>5, <2>1 DEF DaysInv
    <2> QED BY <1>1, <1>2, <1>3, <2>2, <2>3 DEF DaysInv
<1>6. CASE c.borrowDay # today
    <2>1. today \notin c.days
        BY <1>6 DEF DaysInv
    <2>2. Cardinality(new.days) = Cardinality(c.days) + 1
        BY <1>1, <2>1, FS_AddElement DEF DaysInv
    <2>3. \A x \in new.days : x <= today
        BY <1>1 DEF DaysInv
    <2> QED BY <1>1, <1>2, <1>3, <1>4, <1>6, <2>2, <2>3 DEF DaysInv
<1> QED BY <1>5, <1>6

\* A split changes neither days nor charges.
LEMMA SplitChargesNothing ==
    ASSUME NEW today \in Nat \ {0}, NEW c, DaysInv(c, today), NEW s \in Syms
    PROVE  DaysInv(SplitIn(c, s), today)
<1> DEFINE held == [b \in Books |-> [c.books[b] EXCEPT !.shares[s] = @ * SplitFactor]]
           good == c.good \ {s}
           new == [c EXCEPT !.good = good, !.books = held]
<1>1. SplitIn(c, s) = new
    BY DEF SplitIn
<1>2. ASSUME NEW b \in Books
      PROVE  /\ held[b] = [equity |-> held[b].equity, cash |-> held[b].cash, val |-> held[b].val,
                           unpriced |-> held[b].unpriced, shares |-> held[b].shares,
                           account |-> held[b].account, charges |-> held[b].charges]
             /\ held[b].charges = c.books[b].charges
    <2> DEFINE bk == c.books[b]
    <2>1. bk = [equity |-> bk.equity, cash |-> bk.cash, val |-> bk.val, unpriced |-> bk.unpriced,
                shares |-> bk.shares, account |-> bk.account, charges |-> bk.charges]
        BY DEF DaysInv
    <2>2. held[b] = [bk EXCEPT !.shares[s] = @ * SplitFactor]
        OBVIOUS
    <2> HIDE DEF held, bk
    <2>3. /\ held[b] = [equity |-> held[b].equity, cash |-> held[b].cash, val |-> held[b].val,
                        unpriced |-> held[b].unpriced, shares |-> held[b].shares,
                        account |-> held[b].account, charges |-> held[b].charges]
          /\ held[b].charges = bk.charges
        BY <2>1, <2>2
    <2> QED BY <2>3 DEF bk
<1> HIDE DEF held, good
<1>0. c = [books |-> c.books, basis |-> c.basis, borrowDay |-> c.borrowDay,
           days |-> c.days, good |-> c.good]
    BY DEF DaysInv
<1>3. /\ new = [books |-> new.books, basis |-> new.basis, borrowDay |-> new.borrowDay,
                days |-> new.days, good |-> new.good]
      /\ new.books = held /\ new.days = c.days /\ new.borrowDay = c.borrowDay
    <2>1. new = [c EXCEPT !.good = good, !.books = held]
        OBVIOUS
    <2> HIDE DEF new
    <2> QED BY <1>0, <2>1
<1> HIDE DEF new
<1>4. DaysInv(new, today)
    BY <1>2, <1>3 DEF DaysInv
<1> QED BY <1>1, <1>4

\* Every book pays its borrow once for each day on which a tick completed,
\* whatever ticks failed, whatever could not be saved and whatever was lost
\* with the process (the last_borrow_date of live.py).
THEOREM BorrowOncePerDayHolds == Spec => []BorrowOncePerDay
<1>1. ASSUME Init PROVE BorrowInv
    <2>1. \A b \in Books : Fresh.books[b] = NewBook
        BY DEF Fresh
    <2>2. DaysInv(Fresh, 1)
        <3>1. Fresh.days = {} /\ Fresh.borrowDay = 0
              /\ Fresh = [books |-> Fresh.books, basis |-> Fresh.basis, borrowDay |-> Fresh.borrowDay,
                          days |-> Fresh.days, good |-> Fresh.good]
            BY DEF Fresh
        <3>2. IsFiniteSet({}) /\ Cardinality({}) = 0
            BY FS_EmptySet
        <3> QED BY <2>1, <3>1, <3>2 DEF DaysInv, NewBook
    <2> QED BY <1>1, <2>2 DEF Init, BorrowInv
<1>2. ASSUME BorrowInv, [Next]_vars PROVE BorrowInv'
    <2>1. ASSUME NEW print, NEW d, NEW uses, Tick(print, d, uses) PROVE BorrowInv'
        <3>1. day' = day /\ mem' = Settled(mem, print, d, day) /\ disk' \in {mem', disk}
            BY <2>1 DEF Tick
        <3>2. DaysInv(mem', day)
            BY <1>2, <3>1, TickChargesOnce DEF BorrowInv
        <3> QED BY <1>2, <3>1, <3>2 DEF BorrowInv
    <2>2. CASE Restart
        BY <1>2, <2>2 DEF Restart, BorrowInv
    <2>3. ASSUME NEW s \in Syms, Split(s) PROVE BorrowInv'
        <3>1. day' = day /\ mem' = SplitIn(mem, s) /\ disk' = SplitIn(disk, s)
            BY <2>3 DEF Split
        <3>2. DaysInv(mem', day) /\ DaysInv(disk', day)
            BY <1>2, <3>1, SplitChargesNothing DEF BorrowInv
        <3> QED BY <1>2, <3>1, <3>2 DEF BorrowInv
    <2>4. CASE NextDay
        <3>1. day' = day + 1 /\ mem' = mem /\ disk' = disk
            BY <2>4 DEF NextDay
        <3>2. ASSUME NEW c, DaysInv(c, day) PROVE DaysInv(c, day')
            BY <1>2, <3>1, <3>2 DEF DaysInv, BorrowInv
        <3> QED BY <1>2, <3>1, <3>2 DEF BorrowInv
    <2>5. ASSUME UNCHANGED <<day, mem, disk>> PROVE BorrowInv'
        BY <1>2, <2>5 DEF BorrowInv
    <2>6. ASSUME NEW s \in Syms, NEW p \in Prices, MovePrice(s, p) PROVE BorrowInv'
        BY <2>5, <2>6 DEF MovePrice
    <2>7. ASSUME NEW print, NEW d, TickRaises(print, d) PROVE BorrowInv'
        BY <2>5, <2>7 DEF TickRaises, vars
    <2> QED
        BY <1>2, <2>1, <2>2, <2>3, <2>4, <2>5, <2>6, <2>7 DEF Next, Runtime, Market, vars
<1>3. BorrowInv => BorrowOncePerDay
    BY DEF BorrowInv, DaysInv, BorrowOncePerDay
<1> QED
    BY <1>1, <1>2, <1>3, PTL DEF Spec

(***************************************************************************)
(* A holding that cannot be priced.                                        *)
(***************************************************************************)

\* Everything between nothing and what is held.
LEMMA BetweenIs ==
    ASSUME NEW old \in Int
    PROVE  /\ Min({0, old}) = (IF old < 0 THEN old ELSE 0)
           /\ Max({0, old}) = (IF old < 0 THEN 0 ELSE old)
<1>1. Min({0, old}) \in {0, old} /\ \A y \in {0, old} : Min({0, old}) =< y
    <2>1. \E x \in {0, old} : \A y \in {0, old} : x =< y
        OBVIOUS
    <2> QED
        BY <2>1 DEF Min
<1>2. Max({0, old}) \in {0, old} /\ \A y \in {0, old} : Max({0, old}) >= y
    <2>1. \E x \in {0, old} : \A y \in {0, old} : x >= y
        OBVIOUS
    <2> QED
        BY <2>1 DEF Max
<1> QED
    BY <1>1, <1>2

\* What is held lies on the way from it to nothing (the book is left alone).
LEMMA HeldIsBetween ==
    ASSUME NEW old \in Int
    PROVE  old \in Min({0, old}) .. Max({0, old})
<1>1. \E x \in {0, old} : \A y \in {0, old} : x =< y
    OBVIOUS
<1>2. \E x \in {0, old} : \A y \in {0, old} : x >= y
    OBVIOUS
<1>3. Min({0, old}) \in {0, old} /\ Min({0, old}) =< old
    BY <1>1 DEF Min
<1>4. Max({0, old}) \in {0, old} /\ old =< Max({0, old})
    BY <1>2 DEF Max
<1> QED
    BY <1>3, <1>4

\* Reducing keeps the side of what is held and never goes beyond it.
LEMMA ReducedIsBetween ==
    ASSUME NEW old \in Int, NEW desired \in Int
    PROVE  Reduced(old, desired) \in Min({0, old}) .. Max({0, old})
<1>1. old > 0 /\ desired > 0 => Min({old, desired}) \in 0 .. old
    <2>1. \E x \in {old, desired} : \A y \in {old, desired} : x =< y
        OBVIOUS
    <2> QED
        BY <2>1 DEF Min
<1>2. old < 0 /\ desired < 0 => Max({old, desired}) \in old .. 0
    <2>1. \E x \in {old, desired} : \A y \in {old, desired} : x >= y
        OBVIOUS
    <2> QED
        BY <2>1 DEF Max
<1> QED
    BY <1>1, <1>2, BetweenIs DEF Reduced

\* A completed tick that leaves a book with a holding it could not price has
\* moved every name of it towards nothing, or not at all.
LEMMA UnpricedTickReduces ==
    ASSUME JumpMax < BadFactor, price \in [Syms -> Prices],
           NEW c, StateInv(c, price), NEW print \in [Syms -> Nat],
           NEW d \in AnyDecision, NEW today \in Nat, NEW b \in Books, NEW s \in Syms,
           Shows(c, print, s, price[s]),
           Settled(c, print, d, today).books[b].unpriced # {}
    PROVE  Settled(c, print, d, today).books[b].shares[s]
               \in Min({0, c.books[b].shares[s]}) .. Max({0, c.books[b].shares[s]})
<1> DEFINE new  == Settled(c, print, d, today)
           safe == Safe(c, print)
           m    == MarkedBook(c, b, print)
           f    == FinalBook(c, b, print, d)
           want == WantOf(d, b)
           n    == c.books[b].shares[s]
           p    == price[s]
<1>1. Shape(c) /\ Worth(c, s, p) /\ p \in Nat \ {0} /\ n \in Int
    BY BooksAssumption DEF StateInv, Shape, BookShape
<1>2. n \in Min({0, n}) .. Max({0, n})
    BY <1>1, HeldIsBetween
<1>3. /\ m \in [Syms -> Int]
      /\ new.books[b].shares[s] = IF f[s] = m[s] THEN n ELSE n + (f[s] - m[s]) \div print[s]
      /\ s \notin safe => new.books[b].shares[s] = n
    BY <1>1, SettledName
<1>4. PICK x \in Syms \ safe : m[x] # 0
    <2>1. new.books[b] = SettledBook(c, b, print, want, today)
        BY DEF Settled
    <2>2. new.books[b].unpriced = {x \in Syms \ safe : c.books[b].val[x] # 0}
        BY <2>1 DEF SettledBook
    <2>3. \A x \in Syms \ safe : m[x] = c.books[b].val[x]
        BY DEF MarkedBook, Marked
    <2> QED
        BY <2>2, <2>3
<1>5. CASE s \notin safe \/ f[s] = m[s]
    BY <1>2, <1>3, <1>5
<1>6. CASE s \in safe /\ f[s] # m[s]
    <2>1. print[s] = p
        <3>1. CASE s \in c.good /\ c.basis[s] = p /\ print[s] = BadFactor * p
            <4>1. Absurd(p, print[s])
                BY <1>1, <3>1, Absurdity, BooksAssumption
            <4> QED
                BY <1>6, <3>1, <4>1 DEF Safe
        <3> QED
            BY <1>6, <3>1 DEF Shows, Safe
    <2>2. m[s] = n * p
        BY <1>1, <1>6, <2>1, SafeMarksShares
    <2>3. want # Hold /\ f[s] = print[s] * Proposed(print, safe, m, want, s)
        BY <1>6 DEF FinalBook, Final
    <2>4. want[s] \in Int
        BY <2>3, BooksAssumption DEF WantOf, AnyDecision
    <2>5. Proposed(print, safe, m, want, s) = Reduced(m[s] \div print[s], want[s])
        BY <1>4 DEF Proposed
    <2>6. m[s] \div print[s] = n
        <3>1. n * p = p * n
            BY <1>1
        <3> QED
            BY <1>1, <2>1, <2>2, <3>1, DivMultiple
    <2> DEFINE r == Reduced(n, want[s])
    <2>7. r \in Int /\ r \in Min({0, n}) .. Max({0, n})
        BY <1>1, <2>4, ReducedInt, ReducedIsBetween
    <2>8. f[s] = p * r
        BY <2>1, <2>3, <2>5, <2>6
    <2> HIDE DEF r
    <2>9. new.books[b].shares[s] = r
        <3>1. f[s] - m[s] = p * (r - n)
            BY <1>1, <2>2, <2>7, <2>8
        <3>2. r - n \in Int
            BY <1>1, <2>7
        <3>3. (p * (r - n)) \div p = r - n
            BY <1>1, <3>2, DivMultiple
        <3> QED
            BY <1>1, <1>3, <1>6, <2>1, <2>7, <3>1, <3>3
    <2> QED
        BY <2>7, <2>9
<1> QED
    BY <1>5, <1>6

\* "Unpriced holdings cannot fund trades": a tick that finds a holding it
\* cannot price buys nothing for that book and turns no position round.
THEOREM UnpricedFundsNothingHolds ==
    ASSUME JumpMax < SplitFactor, JumpMax < BadFactor
    PROVE  Spec => UnpricedFundsNothing
<1> DEFINE Reduces(b, s) == mem'.books[b].shares[s]
                                \in Min({0, mem.books[b].shares[s]}) .. Max({0, mem.books[b].shares[s]})
           Step == \A b \in Books : mem' # disk /\ price' = price /\ mem'.books[b].unpriced # {} =>
                      \A s \in Syms : LET old == mem.books[b].shares[s]
                                      IN  mem'.books[b].shares[s] \in Min({0, old}) .. Max({0, old})
<1>1. ASSUME WorthInv, [Next]_vars PROVE [Step]_vars
    <2>1. \A b \in Books, s \in Syms : mem.books[b].shares[s] \in Int
        BY <1>1 DEF WorthInv, StateInv, Shape, BookShape
    <2>2. ASSUME mem' = mem PROVE Step
        <3>1. \A b \in Books, s \in Syms :
                mem.books[b].shares[s] \in Min({0, mem.books[b].shares[s]}) .. Max({0, mem.books[b].shares[s]})
            BY <2>1, HeldIsBetween
        <3> QED
            BY <2>2, <3>1
    <2>3. ASSUME NEW seen \in SUBSET Syms, NEW bad \in Bad, NEW d \in Decisions,
                 Tick(Snapshot(seen, bad), d, Uses(bad, d))
          PROVE  Step
        <3>1. mem' = Settled(mem, Snapshot(seen, bad), d, day)
            BY <2>3 DEF Tick
        <3>2. d \in AnyDecision
            BY DEF Decisions, AnyDecision
        <3>3. price \in [Syms -> Prices] /\ StateInv(mem, price) /\ day \in Nat
            BY <1>1 DEF WorthInv
        <3>4. /\ Snapshot(seen, bad) \in [Syms -> Nat]
              /\ \A s \in Syms : Shows(mem, Snapshot(seen, bad), s, price[s])
            BY <1>1, SnapshotShows
        <3>5. \A b \in Books, s \in Syms : mem'.books[b].unpriced # {} => Reduces(b, s)
            BY <3>1, <3>2, <3>3, <3>4, UnpricedTickReduces
        <3> QED
            BY <3>5
    <2>4. ASSUME NEW seen \in SUBSET Syms, NEW bad \in Bad, NEW d \in Decisions,
                 TickRaises(Snapshot(seen, bad), d)
          PROVE  Step
        BY <2>2, <2>4 DEF TickRaises, vars
    <2>5. CASE Restart
        BY <2>5 DEF Restart
    <2>6. ASSUME NEW s \in Syms, NEW p \in Prices, MovePrice(s, p) PROVE Step
        BY <2>2, <2>6 DEF MovePrice
    <2>7. ASSUME NEW s \in Syms, Split(s) PROVE Step
        <3>1. price' = [price EXCEPT ![s] = price[s] \div SplitFactor] /\ price[s] % SplitFactor = 0
            BY <2>7 DEF Split
        <3>2. /\ price[s] \in Nat \ {0} /\ price \in [Syms -> Prices]
              /\ SplitFactor \in Nat /\ SplitFactor > 1
            <4>1. price \in [Syms -> Prices]
                BY <1>1 DEF WorthInv
            <4>2. price[s] \in Nat \ {0}
                BY <4>1, BooksAssumption
            <4>3. SplitFactor \in Nat /\ JumpMax \in Nat /\ JumpMax > 0
                BY BooksAssumption
            <4> QED
                BY <4>1, <4>2, <4>3
        <3>3. price[s] \div SplitFactor # price[s]
            <4> DEFINE q == price[s] \div SplitFactor
            <4>1. q \in Int /\ price[s] = SplitFactor * q
                BY <3>1, <3>2
            <4> HIDE DEF q
            <4>2. q # price[s]
                BY <3>2, <4>1
            <4> QED
                BY <4>2 DEF q
        <3>4. price' # price
            BY <3>1, <3>2, <3>3
        <3> QED
            BY <3>4
    <2>8. CASE NextDay
        BY <2>2, <2>8 DEF NextDay
    <2> QED
        BY <1>1, <2>3, <2>4, <2>5, <2>6, <2>7, <2>8 DEF Next, Runtime, Market
<1>2. WorthInv /\ [Next]_vars => WorthInv'
    BY WorthStep
<1> QED
    BY WorthInit, <1>1, <1>2, PTL DEF Spec, UnpricedFundsNothing

(***************************************************************************)
(* Cash and equity: what each charge and each trade does to the sums.      *)
(***************************************************************************)

\* The dollars of a book add up to an integer, and those of none to nothing.
LEMMA TotalIsInt ==
    ASSUME NEW f \in [Syms -> Int]
    PROVE  Total(f) \in Int
<1>1. Total(f) = SumOf(f, Syms)[Syms]
    BY SumUnfolds DEF Total
<1>2. IsFiniteSet(Syms) /\ Syms \in SUBSET Syms
    BY BooksAssumption
<1> QED
    BY <1>1, <1>2, SumIsInt

LEMMA TotalOfNothing ==
    Total([s \in Syms |-> 0]) = 0
<1> DEFINE z == [s \in Syms |-> 0]
<1>1. z \in [Syms -> Int] /\ \A s \in Syms : z[s] = z[s] + z[s]
    OBVIOUS
<1> HIDE DEF z
<1>2. Total(z) = SumOf(z, Syms)[Syms]
    BY SumUnfolds DEF Total
<1>3. IsFiniteSet(Syms) /\ Syms \in SUBSET Syms
    BY BooksAssumption
<1>4. SumOf(z, Syms)[Syms] = SumOf(z, Syms)[Syms] + SumOf(z, Syms)[Syms]
    BY <1>1, <1>3, SumAdds
<1>5. Total(z) \in Int /\ Total(z) = Total(z) + Total(z)
    BY <1>1, <1>2, <1>4, TotalIsInt
<1>6. Total(z) = 0
    <2> DEFINE t == Total(z)
    <2>1. t \in Int /\ t = t + t
        BY <1>5
    <2> HIDE DEF t
    <2>2. t = 0
        BY <2>1
    <2> QED BY <2>2 DEF t
<1> QED
    BY <1>6 DEF z

\* The costs of a tick are numbers.
LEMMA CostsAreNumbers ==
    ASSUME NEW c, NEW m, NEW f, NEW today
    PROVE  Borrow(c, m, today) \in Nat /\ TradingCost(m, f) \in Nat
<1> DEFINE short  == {s \in Syms : m[s] < 0}
           traded == {s \in Syms : f[s] # m[s]}
<1>1. Cardinality(short) \in Nat /\ Cardinality(traded) \in Nat
    <2>1. short \in SUBSET Syms /\ traded \in SUBSET Syms /\ IsFiniteSet(Syms)
        BY BooksAssumption
    <2> HIDE DEF short, traded
    <2> QED BY <2>1, FS_Subset, FS_CardinalityType
<1>2. Borrow(c, m, today) = (IF BorrowDue(c, today) THEN BorrowCost * Cardinality(short) ELSE 0)
    BY DEF Borrow
<1>3. TradingCost(m, f) = TradeCost * Cardinality(traded)
    BY DEF TradingCost
<1>4. BorrowCost \in Nat /\ TradeCost \in Nat
    BY BooksAssumption
<1> HIDE DEF short, traded
<1> QED
    BY <1>1, <1>2, <1>3, <1>4

\* Typed states have the shape the lemmas on a tick ask for.
LEMMA StateHasShape ==
    ASSUME NEW c \in State
    PROVE  Shape(c)
<1>1. ASSUME NEW b \in Books PROVE BookShape(c.books[b])
    <2>1. c.books[b] \in Book
        BY DEF State
    <2> DEFINE k == c.books[b]
    <2> HIDE DEF k
    <2>2. k \in Book => BookShape(k)
        BY DEF Book, BookShape
    <2> QED BY <2>1, <2>2 DEF k
<1>2. /\ c = [books |-> c.books, basis |-> c.basis, borrowDay |-> c.borrowDay,
              days |-> c.days, good |-> c.good]
      /\ c.basis \in [Syms -> Nat] /\ c.good \subseteq Syms
    BY DEF State
<1> QED
    BY <1>1, <1>2 DEF Shape

\* The cash of a book is the cash of the account that made its trades, and its
\* equity is that and its dollars.
Accounts(c) ==
    \A b \in Books :
        /\ c.books[b].cash = c.books[b].account
        /\ c.books[b].equity = c.books[b].account + Total(c.books[b].val)

\* What a completed tick makes of a typed book.
LEMMA SettledBookTyped ==
    ASSUME NEW c \in State, NEW print \in [Syms -> Nat],
           NEW d \in AnyDecision, NEW today \in Nat, NEW b \in Books
    PROVE  LET old == c.books[b]
               new == Settled(c, print, d, today).books[b]
           IN  /\ new \in Book
               /\ old.cash = old.account /\ old.equity = old.account + Total(old.val)
                  => new.cash = new.account /\ new.equity = new.account + Total(new.val)
<1> DEFINE old == c.books[b]
           new == Settled(c, print, d, today).books[b]
           m   == MarkedBook(c, b, print)
           f   == FinalBook(c, b, print, d)
           paid == Borrow(c, m, today) + TradingCost(m, f)
<1>1. Shape(c)
    BY StateHasShape
<1>2. BookShape(new)
    BY <1>1, SettledShape DEF Shape
<1>3. m \in [Syms -> Int]
    <2>1. \A x \in Syms : m[x] \in Int
        BY <1>1, SettledName
    <2>2. m = [x \in Syms |-> m[x]]
        BY DEF MarkedBook, Marked
    <2> HIDE DEF m
    <2> QED BY <2>1, <2>2
<1>4. new.val = f
    BY DEF Settled, SettledBook, MarkedBook, FinalBook
<1>5. f \in [Syms -> Int] /\ new.shares \in [Syms -> Int]
    BY <1>2, <1>4 DEF BookShape
<1>6. /\ old.equity \in Int /\ old.account \in Int /\ old.charges \in Nat
      /\ old.val \in [Syms -> Int]
    <2>1. old \in Book
        BY DEF State
    <2> HIDE DEF old
    <2> QED BY <2>1 DEF Book
<1>7. Total(m) \in Int /\ Total(old.val) \in Int /\ Total(f) \in Int
    <2> HIDE DEF m, f, old, new
    <2> QED BY <1>3, <1>5, <1>6, TotalIsInt
<1>8. paid \in Nat
    <2> HIDE DEF m, f
    <2> QED BY CostsAreNumbers
<1>9. /\ new.equity = MarkedNav(old, m) - paid /\ new.cash = new.equity - Total(f)
      /\ new.account = old.account - paid - (Total(f) - Total(m))
      /\ new.unpriced \in SUBSET Syms
      /\ new.charges = old.charges + (IF BorrowDue(c, today) THEN 1 ELSE 0)
    <2>1. new = SettledBook(c, b, print, WantOf(d, b), today)
        BY DEF Settled
    <2> HIDE DEF new
    <2> QED BY <2>1 DEF SettledBook, MarkedBook, FinalBook
<1> HIDE DEF new, m, f, paid, old
<1>10. MarkedNav(old, m) = old.equity + Total(m) - Total(old.val)
    BY DEF MarkedNav
<1>11. new.equity \in Int /\ new.cash \in Int /\ new.account \in Int /\ new.charges \in Nat
    BY <1>6, <1>7, <1>8, <1>9, <1>10
<1>12. new \in Book
    BY <1>2, <1>4, <1>5, <1>9, <1>11 DEF Book, BookShape
<1>13. ASSUME old.cash = old.account, old.equity = old.account + Total(old.val)
       PROVE  new.cash = new.account /\ new.equity = new.account + Total(f)
    <2>1. new.equity = old.account + Total(m) - paid
        BY <1>6, <1>7, <1>8, <1>9, <1>10, <1>13
    <2> QED BY <1>6, <1>7, <1>8, <1>9, <2>1
<1> QED
    BY <1>4, <1>12, <1>13 DEF old, new

\* What a completed tick makes of a typed state.
LEMMA SettledTyped ==
    ASSUME NEW c \in State, NEW print \in [Syms -> Nat],
           NEW d \in AnyDecision, NEW today \in Nat
    PROVE  /\ Settled(c, print, d, today) \in State
           /\ Accounts(c) => Accounts(Settled(c, print, d, today))
<1> DEFINE new == Settled(c, print, d, today)
<1>1. \A b \in Books : new.books[b] \in Book
    BY SettledBookTyped
<1>2. Accounts(c) => Accounts(new)
    <2>1. ASSUME Accounts(c), NEW b \in Books
          PROVE  /\ new.books[b].cash = new.books[b].account
                 /\ new.books[b].equity = new.books[b].account + Total(new.books[b].val)
        <3>1. /\ c.books[b].cash = c.books[b].account
              /\ c.books[b].equity = c.books[b].account + Total(c.books[b].val)
            BY <2>1 DEF Accounts
        <3> QED BY <3>1, SettledBookTyped
    <2> HIDE DEF new
    <2> QED BY <2>1 DEF Accounts
<1>3. /\ new = [books |-> new.books, basis |-> new.basis, borrowDay |-> new.borrowDay,
                days |-> new.days, good |-> new.good]
      /\ new.books = [b \in Books |-> new.books[b]]
      /\ new.borrowDay = today /\ new.days = c.days \cup {today}
    BY DEF Settled
<1>4. new.basis \in [Syms -> Nat] /\ new.good \subseteq Syms
    BY StateHasShape, SettledShape DEF Shape
<1> HIDE DEF new
<1>5. new.books \in [Books -> Book]
    BY <1>1, <1>3
<1>6. new.days \in SUBSET Nat
    BY <1>3 DEF State
<1>7. new \in State
    BY <1>3, <1>4, <1>5, <1>6 DEF State
<1> QED
    BY <1>2, <1>7 DEF new

\* A split changes the shares of one name and nothing else of a book.
LEMMA SplitTyped ==
    ASSUME NEW c \in State, NEW s \in Syms
    PROVE  /\ SplitIn(c, s) \in State
           /\ \A b \in Books : LET old == c.books[b]
                                new == SplitIn(c, s).books[b]
                            IN  /\ new.equity = old.equity /\ new.cash = old.cash
                                /\ new.account = old.account /\ new.val = old.val
<1> DEFINE held == [b \in Books |-> [c.books[b] EXCEPT !.shares[s] = @ * SplitFactor]]
           good == c.good \ {s}
           new == [c EXCEPT !.good = good, !.books = held]
<1>1. SplitIn(c, s) = new
    BY DEF SplitIn
<1>2. ASSUME NEW b \in Books
      PROVE  /\ held[b] \in Book
             /\ held[b].equity = c.books[b].equity /\ held[b].cash = c.books[b].cash
             /\ held[b].account = c.books[b].account /\ held[b].val = c.books[b].val
    <2> DEFINE k == c.books[b]
               n == [k.shares EXCEPT ![s] = @ * SplitFactor]
    <2>1. k \in Book /\ SplitFactor \in Nat
        BY BooksAssumption DEF State
    <2>2. held[b] = [k EXCEPT !.shares = n]
        BY <2>1 DEF Book
    <2> HIDE DEF held, k
    <2>3. k.shares \in [Syms -> Int]
        BY <2>1 DEF Book
    <2>4. n \in [Syms -> Int]
        BY <2>1, <2>3
    <2> HIDE DEF n
    <2>5. /\ held[b] \in Book /\ held[b].equity = k.equity /\ held[b].cash = k.cash
          /\ held[b].account = k.account /\ held[b].val = k.val
        BY <2>1, <2>2, <2>4 DEF Book
    <2> QED BY <2>5 DEF k
<1>3. held \in [Books -> Book]
    <2>1. held = [b \in Books |-> held[b]]
        OBVIOUS
    <2> HIDE DEF held
    <2> QED BY <1>2, <2>1
<1>4. good \in SUBSET Syms
    BY DEF State
<1> HIDE DEF held, good
<1>5. new \in State /\ new.books = held
    BY <1>3, <1>4 DEF State
<1> QED
    BY <1>1, <1>2, <1>5

\* Every state is typed and every book is persisted with something left; on
\* disk as in memory, where a restart takes it from.
TypeInv == TypeOK /\ \A b \in Books : disk.books[b].equity > 0

AccountsInv == TypeInv /\ Accounts(mem) /\ Accounts(disk)

LEMMA SpendTyped ==
    ASSUME spent \in [Bounds -> Nat], NEW bounds, Spend(bounds)
    PROVE  spent' \in [Bounds -> Nat]
BY DEF Spend

LEMMA BooksInit ==
    Init => AccountsInv
<1> SUFFICES ASSUME Init
             PROVE  AccountsInv
    OBVIOUS
<1>1. Nav0 \in Nat /\ Nav0 > 0 /\ price \in [Syms -> Prices]
    BY BooksAssumption DEF Init
<1>2. NewBook \in Book
    BY <1>1 DEF NewBook, Book
<1>3. Fresh \in State /\ \A b \in Books : Fresh.books[b] = NewBook
    BY <1>2 DEF Fresh, State
<1>4. NewBook.equity > 0
    BY <1>1 DEF NewBook
<1>5. NewBook.cash = NewBook.account
    BY DEF NewBook
<1>6. NewBook.equity = NewBook.account + Total(NewBook.val)
    <2>1. /\ NewBook.val = [s \in Syms |-> 0]
          /\ NewBook.equity = Nav0 /\ NewBook.account = Nav0
        BY DEF NewBook
    <2>2. Total(NewBook.val) = 0
        BY <2>1, TotalOfNothing
    <2> QED BY <1>1, <2>1, <2>2
<1>7. Accounts(Fresh)
    BY <1>3, <1>5, <1>6 DEF Accounts
<1>8. day \in Nat /\ spent \in [Bounds -> Nat] /\ mem = Fresh /\ disk = Fresh
    BY DEF Init
<1> QED
    BY <1>1, <1>3, <1>4, <1>7, <1>8 DEF AccountsInv, TypeInv, TypeOK

\* What is kept whatever steps.
LEMMA BooksStep ==
    ASSUME TypeInv, [Next]_vars
    PROVE  /\ TypeInv'
           /\ Accounts(mem) /\ Accounts(disk) => Accounts(mem') /\ Accounts(disk')
<1> DEFINE Kept == /\ TypeInv'
                   /\ Accounts(mem) /\ Accounts(disk) => Accounts(mem') /\ Accounts(disk')
<1>0. /\ price \in [Syms -> Prices] /\ day \in Nat /\ mem \in State /\ disk \in State
      /\ spent \in [Bounds -> Nat]
      /\ \A b \in Books : mem.books[b].equity > 0 /\ disk.books[b].equity > 0
    BY DEF TypeInv, TypeOK
<1>1. ASSUME NEW seen \in SUBSET Syms, NEW bad \in Bad, NEW d \in Decisions,
             Tick(Snapshot(seen, bad), d, Uses(bad, d))
      PROVE  Kept
    <2> DEFINE print == Snapshot(seen, bad)
               after == Settled(mem, print, d, day)
    <2>1. print \in [Syms -> Nat]
        <3>1. ASSUME NEW s \in Syms PROVE price[s] \in Nat /\ BadFactor * price[s] \in Nat
            <4>1. price[s] \in Nat /\ BadFactor \in Nat
                BY <1>0, BooksAssumption
            <4> QED BY <4>1
        <3> QED BY <3>1 DEF Snapshot
    <2>2. d \in AnyDecision
        BY DEF Decisions, AnyDecision
    <2>3. /\ mem' = after /\ Settles(after)
          /\ disk' = mem' \/ disk' = disk
          /\ price' = price /\ day' = day
          /\ \E bounds : Spend(bounds)
        BY <1>1 DEF Tick
    <2>4. spent' \in [Bounds -> Nat]
        BY <1>0, <2>3, SpendTyped
    <2> HIDE DEF print
    <2>5. after \in State /\ (Accounts(mem) => Accounts(after))
        BY <1>0, <2>1, <2>2, SettledTyped
    <2>6. \A b \in Books : after.books[b].equity > 0
        BY <2>3 DEF Settles
    <2> HIDE DEF after
    <2>7. TypeInv'
        BY <1>0, <2>3, <2>4, <2>5, <2>6 DEF TypeInv, TypeOK
    <2> QED BY <2>3, <2>5, <2>7
<1>2. ASSUME UNCHANGED vars PROVE Kept
    <2>1. /\ price' = price /\ day' = day /\ mem' = mem /\ disk' = disk /\ spent' = spent
        BY <1>2 DEF vars
    <2> QED BY <1>0, <2>1 DEF TypeInv, TypeOK
<1>3. ASSUME Restart PROVE Kept
    <2>1. /\ price' = price /\ day' = day /\ mem' = disk /\ disk' = disk
          /\ spent' \in [Bounds -> Nat]
        BY <1>0, <1>3, SpendTyped DEF Restart
    <2> QED BY <1>0, <2>1 DEF TypeInv, TypeOK
<1>4. ASSUME NEW s \in Syms, NEW p \in Prices, MovePrice(s, p) PROVE Kept
    <2>1. /\ price' = [price EXCEPT ![s] = p] /\ day' = day /\ mem' = mem /\ disk' = disk
          /\ spent' \in [Bounds -> Nat]
        BY <1>0, <1>4, SpendTyped DEF MovePrice
    <2>2. price' \in [Syms -> Prices]
        BY <1>0, <2>1
    <2> QED BY <1>0, <2>1, <2>2 DEF TypeInv, TypeOK
<1>5. ASSUME NEW s \in Syms, Split(s) PROVE Kept
    <2>1. /\ price' = [price EXCEPT ![s] = @ \div SplitFactor]
          /\ price[s] \div SplitFactor \in Prices
          /\ day' = day /\ mem' = SplitIn(mem, s) /\ disk' = SplitIn(disk, s)
          /\ spent' \in [Bounds -> Nat]
        BY <1>0, <1>5, SpendTyped DEF Split
    <2>2. price' \in [Syms -> Prices]
        BY <1>0, <2>1
    <2>3. /\ SplitIn(mem, s) \in State /\ SplitIn(disk, s) \in State
          /\ \A b \in Books : /\ SplitIn(mem, s).books[b].equity > 0
                               /\ SplitIn(disk, s).books[b].equity > 0
        BY <1>0, SplitTyped
    <2>4. /\ Accounts(mem) => Accounts(SplitIn(mem, s))
          /\ Accounts(disk) => Accounts(SplitIn(disk, s))
        BY <1>0, SplitTyped DEF Accounts
    <2>5. TypeInv'
        BY <1>0, <2>1, <2>2, <2>3 DEF TypeInv, TypeOK
    <2> QED BY <2>1, <2>4, <2>5
<1>6. ASSUME NextDay PROVE Kept
    <2>1. /\ price' = price /\ day' = day + 1 /\ mem' = mem /\ disk' = disk /\ spent' = spent
        BY <1>6 DEF NextDay
    <2>2. day' \in Nat
        BY <1>0, <2>1
    <2> QED BY <1>0, <2>1, <2>2 DEF TypeInv, TypeOK
<1>7. ASSUME NEW seen \in SUBSET Syms, NEW bad \in Bad, NEW d \in Decisions,
             TickRaises(Snapshot(seen, bad), d)
      PROVE  Kept
    BY <1>2, <1>7 DEF TickRaises
<1> QED
    BY <1>1, <1>2, <1>3, <1>4, <1>5, <1>6, <1>7 DEF Next, Runtime, Market

\* Every state of the books is typed, and no book is saved or kept with nothing
\* left (the refusal of mark_book and settle_book), for every set of books,
\* names and decisions.
THEOREM BooksTypeOK == Spec => []TypeOK
<1>1. Init => TypeInv
    BY BooksInit DEF AccountsInv
<1>2. TypeInv /\ [Next]_vars => TypeInv'
    BY BooksStep
<1>3. TypeInv => TypeOK
    BY DEF TypeInv
<1> QED
    BY <1>1, <1>2, <1>3, PTL DEF Spec

\* A book whose holdings are all worth their shares is worth what its account
\* and its shares at the basis come to.
LEMMA WorthIsTotal ==
    ASSUME NEW c, NEW prices \in [Syms -> Prices], StateInv(c, prices), Accounts(c),
           NEW b \in Books,
           \A s \in Syms : c.books[b].shares[s] # 0 => s \in c.good
    PROVE  /\ c.books[b].equity = c.books[b].account
                  + Total([s \in Syms |-> c.books[b].shares[s] * c.basis[s]])
           /\ c.books[b].cash = c.books[b].account
<1> DEFINE k == c.books[b]
           worth == [s \in Syms |-> k.shares[s] * c.basis[s]]
<1>1. k.val \in [Syms -> Int] /\ k.shares \in [Syms -> Int] /\ c.basis \in [Syms -> Nat]
    BY DEF StateInv, Shape, BookShape
<1>2. ASSUME NEW s \in Syms PROVE k.val[s] = worth[s]
    <2>1. k.val[s] = k.shares[s] * (IF s \in c.good THEN c.basis[s] ELSE prices[s])
        BY DEF StateInv, Worth
    <2>2. CASE s \in c.good
        BY <2>1, <2>2
    <2>3. CASE s \notin c.good
        <3>1. k.shares[s] = 0
            BY <2>3
        <3>2. prices[s] \in Nat /\ c.basis[s] \in Nat
            BY <1>1, BooksAssumption
        <3> HIDE DEF k
        <3> QED BY <2>1, <2>3, <3>1, <3>2
    <2> QED BY <2>2, <2>3
<1>3. k.val = worth
    <2>1. worth = [s \in Syms |-> worth[s]] /\ k.val = [s \in Syms |-> k.val[s]]
        BY <1>1
    <2> HIDE DEF worth, k
    <2> QED BY <1>2, <2>1
<1> QED
    BY <1>3 DEF Accounts

\* In every state, in memory and on disk, the equity of each book that holds
\* only names with a true basis is what a brokerage account that made its
\* trades and paid its costs would be worth, and its cash is that account's.
THEOREM SelfFinancingHolds ==
    ASSUME JumpMax < SplitFactor, JumpMax < BadFactor
    PROVE  Spec => []SelfFinancing
<1>1. WorthInv /\ [Next]_vars => WorthInv'
    BY WorthStep
<1>2. AccountsInv /\ [Next]_vars => AccountsInv'
    BY BooksStep DEF AccountsInv
<1>3. WorthInv /\ AccountsInv => SelfFinancing
    BY WorthIsTotal DEF WorthInv, AccountsInv, SelfFinancing
<1> QED
    BY WorthInit, BooksInit, <1>1, <1>2, <1>3, PTL DEF Spec
==============================================================================
