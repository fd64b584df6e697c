----------------------------- MODULE Allocation ------------------------------
(* From the PM's proposal to the weights that are settled: the wrapper, the  *)
(* volatility target, the blend of S4 and the final limits, in exact         *)
(* fractions.  systems/s3_llm/wrapper.py, systems/s1_quant/portfolio.py      *)
(* (scale_to_target_vol), systems/s4_combined, core/risk/final_limits.py,    *)
(* runtime/live.py (_run_systems, _limit_book).                              *)
EXTENDS Integers, FiniteSets, Functions

CONSTANTS
    Equities, Crypto, \* symbols
    MaxPosition, MaxGross, MaxTurnover, \* in steps of weight
    Weights,  \* weights of a proposal and of a book, in steps
    Adv,      \* liquidity caps: steps of weight that adv_cap * ADV / NAV allows
    Factors   \* target_vol / portfolio_vol, as <<numerator, denominator>>

AllocationBounds ==
    /\ IsFiniteSet(Equities) /\ IsFiniteSet(Crypto)
    /\ {MaxPosition, MaxGross, MaxTurnover} \subseteq Nat \ {0}
    /\ Weights \subseteq Int /\ Adv \subseteq Nat \ {0} /\ Factors \subseteq Nat \X (Nat \ {0})

Symbols == Equities \cup Crypto
NotFinite == 99      \* stands for NaN, infinities and what is no number
Unknown == 0     \* no volume estimate

VARIABLES
    input,  \* of one decision
    stage,  \* what is done next
    book,   \* the weights so far
    s3      \* S3's settled book

allotVars == <<input, stage, book, s3>>

Inputs == [proposal : [Symbols -> Weights \cup {NotFinite}],
           current : [Symbols -> Weights],
           adv : [Symbols -> Adv \cup {Unknown}],
           factor : Factors,
           alphas : {<<1, 1>>, <<1, 3>>}]  \* of S1 and S3, inverse to their vol

AllocationInit ==
    /\ stage = "wrap" /\ book = [w |-> [s \in Symbols |-> 0], den |-> 1] /\ s3 = book
    /\ input \in Inputs

(* A book is a weight of each symbol over one common denominator.            *)
Abs(x) == IF x < 0 THEN -x ELSE x
Lesser(x, y) == IF x < y THEN x ELSE y
Greater(x, y) == IF x > y THEN x ELSE y
Signed(x, size) == IF x < 0 THEN -size ELSE size
Whole(w) == [w |-> w, den |-> 1]
Gross(w) == FoldFunction(LAMBDA x, y : Abs(x) + y, 0, w)
Gcd[p \in Nat \X Nat] == IF p[2] = 0 THEN p[1] ELSE Gcd[<<p[2], p[1] % p[2]>>]
Reduced(b) ==
    LET g == FoldFunction(LAMBDA x, y : Gcd[<<Abs(x), y>>], b.den, b.w)
    IN  [w |-> [s \in Symbols |-> Signed(b.w[s], Abs(b.w[s]) \div g)], den |-> b.den \div g]
Scaled(b, n, d) == Reduced([w |-> [s \in Symbols |-> b.w[s] * n], den |-> b.den * d])
Apart(a, b) == [s \in Symbols |-> b.w[s] * a.den - a.w[s] * b.den]  \* over a.den * b.den

GrossCapped(b) ==
    IF Gross(b.w) > MaxGross * b.den THEN Scaled([b EXCEPT !.den = 1], MaxGross, Gross(b.w)) ELSE b

(* From one book towards another, as far as num/den of the way.              *)
Towards(a, b, num, den) ==
    Reduced([w   |-> [s \in Symbols |-> a.w[s] * b.den * den + Apart(a, b)[s] * num],
             den |-> a.den * b.den * den])

(* RiskWrapper.validate: what is not finite is dropped; a proposal of which  *)
(* nothing is left is an empty book, which no throttle holds back.           *)
Clipped(s, w) ==
    LET cap == IF input.adv[s] = Unknown THEN MaxPosition ELSE Lesser(MaxPosition, input.adv[s])
    IN  Signed(w, Lesser(Abs(w), cap))
Sane == {s \in Symbols : input.proposal[s] # NotFinite}
Clean == GrossCapped(Whole([s \in Symbols |-> IF s \in Sane THEN Clipped(s, input.proposal[s]) ELSE 0]))
Throttled(b) ==
    LET now == Whole(input.current)
        turnover == Gross(Apart(now, b))
    IN  IF turnover > MaxTurnover * b.den THEN Towards(now, b, MaxTurnover * b.den, turnover) ELSE b
Wrapped == IF Sane = {} THEN Whole([s \in Symbols |-> 0]) ELSE Throttled(Clean)

(* scale_to_target_vol *)
VolScaled(b) ==
    LET w == Scaled(b, input.factor[1], input.factor[2])
    IN  GrossCapped([w EXCEPT !.w = [s \in Symbols |-> Signed(w.w[s], Lesser(Abs(w.w[s]), MaxPosition * w.den))]])

(* final_limits: clip.  Without a volume estimate a holding may shrink only. *)
CapOf(s, v, den) ==
    LET old == input.current[s]
    IN  IF input.adv[s] # Unknown THEN Lesser(MaxPosition, input.adv[s]) * den
        ELSE IF v * old > 0 THEN Lesser(MaxPosition, Abs(old)) * den ELSE 0
Spot(s, v) == IF s \in Crypto THEN Greater(0, v) ELSE v
Clip(b) ==
    GrossCapped([b EXCEPT !.w = [s \in Symbols |->
        LET v == Spot(s, b.w[s]) IN Signed(v, Lesser(Abs(v), CapOf(s, v, b.den)))]])

BaseAsHeld == Whole(input.current)
Base == Clip(Whole(input.current))

(* ... and, with a turnover budget, from the feasible current book, forced   *)
(* exits first.                                                              *)
Limited(target) ==
    LET desired   == Clip(target)
        forced    == Gross(Apart(Whole(input.current), Base))
        remaining == Greater(0, MaxTurnover * Base.den - forced)   \* over Base.den
        choice    == Gross(Apart(Base, desired))                   \* over Base.den * desired.den
    IN  IF choice > remaining * desired.den
        THEN Towards(Base, desired, remaining * desired.den, choice) ELSE desired

(* S4Engine: two books by their alphas, netted by symbol.                    *)
Combined(b, c) ==
    LET a == input.alphas
    IN  GrossCapped(Reduced([w   |-> [s \in Symbols |-> a[1] * b.w[s] * c.den + a[2] * c.w[s] * b.den],
                             den |-> (a[1] + a[2]) * b.den * c.den]))

(* _run_systems: S3 is limited with the turnover budget, S4 blends it with   *)
(* S1 (here: what is held, within limits), and every book is limited again.  *)
Step(now, next, weights) == stage = now /\ stage' = next /\ book' = weights /\ UNCHANGED input

Wraps == Step("wrap", "scale", Wrapped) /\ UNCHANGED s3
Scales == Step("scale", "limit", VolScaled(book)) /\ UNCHANGED s3
LimitsS3 == Step("limit", "blend", Limited(book)) /\ s3' = book'
Blends == Step("blend", "scale blend", Combined(Base, book)) /\ UNCHANGED s3
ScalesBlend == Step("scale blend", "limit blend", VolScaled(book)) /\ UNCHANGED s3
LimitsAll == Step("limit blend", "settled", Clip(book)) /\ s3' = Clip(s3)

AllocationNext == Wraps \/ Scales \/ LimitsS3 \/ Blends \/ ScalesBlend \/ LimitsAll

AllocationSpec == AllocationInit /\ [][AllocationNext]_allotVars

(* ------------------------------ properties ------------------------------- *)
Feasible(b) ==
    /\ Gross(b.w) <= MaxGross * b.den
    /\ \A s \in Symbols :
        /\ Abs(b.w[s]) <= MaxPosition * b.den
        /\ input.adv[s] # Unknown => Abs(b.w[s]) <= input.adv[s] * b.den
        /\ input.adv[s] = Unknown => Abs(b.w[s]) <= Abs(input.current[s]) * b.den
        /\ s \in Crypto => b.w[s] >= 0

WithinTurnover(b) ==
    LET now == Whole(input.current)
        forced == Gross(Apart(now, Base))       \* over Base.den
    IN  Gross(Apart(now, b)) * Base.den <= Greater(MaxTurnover * Base.den, forced) * b.den

(* Whatever the PM proposes and the book holds, every limit binds what is    *)
(* settled, and S3 trades no more than its budget unless limits force it to: *)
(* a book in breach is neither kept by the throttle nor rebuilt by the blend.*)
LimitsBind == stage = "settled" => Feasible(s3) /\ WithinTurnover(s3) /\ Feasible(book)
==============================================================================
