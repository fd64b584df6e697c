------------------------------ MODULE DeskProofs -----------------------------
(* What a tick decides and records, for every value of the constants, one    *)
(* component after the other. No theorem is about two of them, and the       *)
(* hypothesis of each is what its module asks of its constants.              *)
EXTENDS RiskGates, DecisionGate, Brains, EventBook, RaceVerdict, EquityBackup, FillLedger,
        ModelContracts, Sums

(* ------------------------- the drawdown gates ---------------------------- *)
(* The book and the share of the proposal it has left belong together: a     *)
(* full share is the proposed book itself, a smaller one at most half of it, *)
(* and never is it less than half of what was proposed.                      *)
GatesInv ==
    /\ history \in Seq(GateMark)
    /\ held \in 0..Full /\ proposed \in {0, Full} /\ applied \in {0, 1, 2}
    /\ applied = 2 => held = proposed
    /\ applied # 2 => 2 * held <= Full
    /\ HalvedOnce
    /\ NoOpenBreach
    /\ HalfBelowGateOne

(* A mark that leaves the ring trips no gate: the closes of a curve without  *)
(* its first mark are the others' closes, moved by one.                      *)
LEMMA EvictionTripsNoGate ==
    ASSUME GatesBounds, NEW m \in Seq(GateMark), Len(m) >= 3
    PROVE  /\ Halts(Tail(m)) => Halts(m)
           /\ Halves(Tail(m)) => Halves(m)
<1> DEFINE t == Tail(m)
<1>1. /\ Len(t) = Len(m) - 1 /\ Len(m) \in Nat
      /\ DOMAIN t = 1..(Len(m) - 1) /\ DOMAIN m = 1..Len(m)
      /\ \A i \in 1..(Len(m) - 1) : t[i] = m[i + 1]
    OBVIOUS
<1> HIDE DEF t
<1>2. Last(t) = Last(m)
    BY <1>1 DEF Last
<1>3. \A i \in Closes(t) : i \in 1..(Len(m) - 1) /\ i + 1 \in Closes(m)
    BY <1>1 DEF Closes
<1>4. \A k \in Closes(m) : k \in 1..Len(m) /\ (k > 1 => k - 1 \in Closes(t))
    BY <1>1 DEF Closes
<1>5. \A pct : Drawdown(t, pct) => Drawdown(m, pct)
    BY <1>1, <1>2, <1>3 DEF Drawdown, PeakNavs, Below
<1>6. \A i \in Yesterday(t) : i + 1 \in Yesterday(m) /\ t[i] = m[i + 1]
    BY SMTT(30), <1>1, <1>3, <1>4 DEF Yesterday
<1>7. DayLoss(t) => DayLoss(m)
    BY <1>2, <1>6 DEF DayLoss, Below
<1> QED
    BY <1>1, <1>5, <1>7 DEF Halts, Halves, t

(* One tick: the gates assess the mark that is stored.                       *)
LEMMA TickKeepsGates ==
    ASSUME GatesBounds, GatesInv,
           NEW move \in Moves, NEW opens \in BOOLEAN, NEW rebalance \in BOOLEAN,
           NEW proposal \in {0, Full}, GatesTick(move, opens, rebalance, proposal)
    PROVE  GatesInv'
<1> DEFINE mark == [nav |-> Nav + held * move, opens |-> opens \/ history = <<>>]
           curve == Assessed(mark)
           scale == Scale(curve)
<1>1. mark \in GateMark
    BY DEF GatesTick, GateMark
<1>2. /\ latched' = LatchedAfter(scale = 0)
      /\ held' = IF latched' THEN 0
                 ELSE IF rebalance THEN (proposal * scale) \div 2 ELSE SizedOnHold(scale)
      /\ applied' = NextApplied(rebalance, scale)
      /\ history' = Kept(Append(history, mark))
      /\ proposed' = IF latched' THEN 0 ELSE IF rebalance THEN proposal ELSE proposed
    BY DEF GatesTick
<1> HIDE DEF mark
<1>3. history' \in Seq(GateMark)
      /\ (Halts(history') => Halts(curve)) /\ (Halves(history') => Halves(curve))
    <2> DEFINE m == Append(history, mark)
    <2>1. m \in Seq(GateMark) /\ Len(m) = Len(history) + 1 /\ Len(history) \in Nat
        BY <1>1 DEF GatesInv
    <2>2. CASE history = <<>>
        <3>1. Len(m) = 1 /\ history' = m
            BY <1>2, <2>1, <2>2 DEF Kept, GatesBounds
        <3> QED BY <2>1, <3>1 DEF Halts, Halves
    <2>3. CASE history # <<>> /\ Len(m) <= GatesRing
        <3>1. history' = m /\ curve = m
            BY <1>2, <2>1, <2>3 DEF Kept, GatesBounds, Assessed
        <3> QED BY <2>1, <3>1
    <2>4. CASE history # <<>> /\ Len(m) > GatesRing
        <3>1. history' = Tail(m) /\ curve = m /\ Len(m) >= 3
            BY <1>2, <2>1, <2>4 DEF Kept, GatesBounds, Assessed
        <3>2. Tail(m) \in Seq(GateMark)
            BY <2>1, <3>1
        <3> HIDE DEF m
        <3> QED BY <2>1, <3>1, <3>2, EvictionTripsNoGate
    <2> QED BY <2>1, <2>2, <2>3, <2>4 DEF GatesBounds
<1>4. scale \in {0, 1, 2} /\ (Halts(curve) => scale = 0) /\ (Halves(curve) => scale # 2)
    BY DEF Scale
<1> HIDE DEF curve, scale
<1>5. NoOpenBreach'
    BY <1>2, <1>3, <1>4 DEF NoOpenBreach, LatchedAfter
<1>6. /\ held' \in 0..Full /\ proposed' \in {0, Full} /\ applied' \in {0, 1, 2}
      /\ applied' = 2 => held' = proposed'
      /\ applied' # 2 => 2 * held' <= Full
      /\ 2 * held' >= proposed'
      /\ scale # 2 => 2 * held' <= Full
    <2> USE DEF GatesInv, HalvedOnce, GatesBounds
    <2>1. scale = 0 => latched'
        BY <1>2 DEF LatchedAfter
    <2>2. CASE latched'
        BY <1>2, <1>4, <2>2 DEF NextApplied
    <2>3. CASE ~latched' /\ rebalance
        BY <1>2, <1>4, <2>1, <2>3 DEF NextApplied
    <2>4. CASE ~latched' /\ ~rebalance /\ scale < applied
        <3>1. scale = 1 /\ applied = 2
            BY <1>4, <2>1, <2>4
        <3>2. held' = held \div 2 /\ applied' = 1 /\ proposed' = proposed
            BY <1>2, <2>4, <3>1 DEF NextApplied, SizedOnHold
        <3> QED BY <3>1, <3>2
    <2>5. CASE ~latched' /\ ~rebalance /\ ~(scale < applied)
        BY <1>2, <1>4, <2>5 DEF NextApplied, SizedOnHold
    <2> QED BY <2>2, <2>3, <2>4, <2>5
<1>7. HalfBelowGateOne'
    <2>1. \A h \in Nat : 2 * h <= Full => h <= Full \div 2
        BY DEF GatesBounds
    <2>2. Halves(history') => held' \in 0..Full /\ 2 * held' <= Full
        BY <1>3, <1>4, <1>6
    <2> QED BY <2>1, <2>2 DEF HalfBelowGateOne
<1> QED
    BY <1>3, <1>5, <1>6, <1>7 DEF GatesInv, HalvedOnce

(* A fund that is not halted is above both halt gates as of its latest mark, *)
(* below gate 1 it holds at most half of what may be proposed, and hourly    *)
(* checks halve one book once: for every ring, gates, moves and proposals.   *)
THEOREM GatesHoldAlways ==
    ASSUME GatesBounds PROVE GatesSpec => []GatesHold
<1>1. GatesInit => GatesInv
    BY DEF GatesInit, GatesInv, GatesBounds, HalvedOnce, NoOpenBreach,
           HalfBelowGateOne, Halts, Halves
<1>2. ASSUME GatesInv, [GatesNext]_gatesVars PROVE GatesInv'
    <2>1. CASE TickSome
        BY <1>2, <2>1, TickKeepsGates DEF TickSome
    <2>2. CASE ClearHalt \/ UNCHANGED gatesVars
        <3>1. UNCHANGED <<held, history, applied, latched, proposed>>
            BY <2>2 DEF ClearHalt, gatesVars
        <3> QED BY <1>2, <3>1 DEF GatesInv, HalvedOnce, NoOpenBreach, HalfBelowGateOne
    <2> QED BY <1>2, <2>1, <2>2 DEF GatesNext
<1>3. GatesInv => GatesHold
    BY DEF GatesInv, GatesHold
<1> QED
    BY <1>1, <1>2, <1>3, PTL DEF GatesSpec

(* ------------------------- the basis of a book --------------------------- *)
(* What one tick leaves of a state, in memory or on disk: a book that was    *)
(* built is on the basis the state records.                                  *)
Bases == Providers \cup {"none"}
GateStates ==
    {s \in [basis : Bases, observed : Bases, ref : [bar : Int, news : Int], forward : Int,
            book : [held : BOOLEAN, basis : Bases, bar : Int]] :
       s.book.basis # "none" => s.basis = s.book.basis}

BasisInv == lastBar \in Int /\ news \in Int /\ st \in GateStates /\ stSaved \in GateStates

(* A tick builds a book only on the basis on record, and records the basis   *)
(* of the book it builds, whether it is saved, cannot be saved or raises.    *)
LEMMA TickKeepsBasis ==
    ASSUME BasisInv, NEW p \in Providers, NEW b \in Int, NEW light \in BOOLEAN,
           NEW heavy \in BOOLEAN, NEW end \in Ends, DecisionTick(p, b, light, heavy, end)
    PROVE  /\ BasisInv'
           /\ st.book.basis # "none" => st'.book.basis = st.book.basis
<1> DEFINE builds == Decides(p, b, light, heavy)
           fills == Backfills(b, light)
           record == RecordOf
           ref == RefAfter(p, b, light, heavy)
           fwd == IF builds THEN lastBar ELSE IF fills THEN 0 ELSE st.forward
           decided == [st EXCEPT !.basis = record, !.ref = ref, !.forward = fwd]
           book == IF builds THEN [held |-> ~halted, basis |-> p, bar |-> b]
                   ELSE [st.book EXCEPT !.held = @ /\ ~halted]
           basis == IF builds THEN p ELSE record
           settled == [decided EXCEPT !.observed = p, !.basis = basis, !.book = book]
<1>1. record \in Bases /\ (st.book.basis # "none" => record = st.book.basis)
    BY DEF BasisInv, GateStates, RecordOf, Bases
<1>2. builds => record \in {"none", p}
    BY DEF Decides, WantsHeavy, Changed
<1>3. ref \in [bar : Int, news : Int] /\ fwd \in Int
    BY DEF BasisInv, GateStates, RefAfter
<1>4. book \in [held : BOOLEAN, basis : Bases, bar : Int]
      /\ book.basis = IF builds THEN p ELSE st.book.basis
    BY DEF BasisInv, GateStates, Bases
<1>5. /\ Decided(p, b, light, heavy) = decided
      /\ Settled(p, b, light, heavy) = settled
    <2>2. Decided(p, b, light, heavy) = decided
        BY DEF Decided
    <2>3. decided.basis = record
        BY DEF BasisInv, GateStates
    <2> QED BY <2>2, <2>3 DEF Settled
<1>6. /\ st' = IF end = "raised" THEN decided ELSE settled
      /\ stSaved' \in {st', stSaved} /\ UNCHANGED <<lastBar, news, halted>>
    BY <1>5 DEF DecisionTick
<1>7. basis \in Bases /\ (builds => basis = p) /\ (~builds => basis = record)
    BY <1>1 DEF Bases
<1> HIDE DEF builds, fills, record, ref, fwd, book, basis
<1>8. decided \in GateStates /\ decided.book = st.book
    BY <1>1, <1>3 DEF BasisInv, GateStates
<1> HIDE DEF decided
<1>9. settled \in GateStates /\ settled.book = book
    BY <1>1, <1>2, <1>4, <1>7, <1>8 DEF GateStates, Bases
<1> HIDE DEF settled
<1> QED
    BY <1>1, <1>2, <1>4, <1>6, <1>8, <1>9 DEF BasisInv

(* A book is never rebuilt on another provider's prices than those it was    *)
(* built on, over switches of the provider, failed ticks and restarts.       *)
THEOREM OneBasisHolds == ASSUME GateBounds PROVE DecisionSpec => OneBasis
<1>1. DecisionInit => BasisInv
    <2> SUFFICES ASSUME DecisionInit PROVE BasisInv
        OBVIOUS
    <2>1. Fresh \in GateStates
        BY DEF Fresh, GateStates, Bases
    <2> QED BY <2>1 DEF DecisionInit, BasisInv
<1>2. ASSUME BasisInv, [GateNext]_decisionVars
      PROVE  BasisInv' /\ [BasisIsKept]_decisionVars
    <2>1. CASE TickOnNewest
        <3>1. PICK p \in Providers, light \in BOOLEAN, heavy \in BOOLEAN, end \in Ends :
                DecisionTick(p, lastBar, light, heavy, end)
            BY <2>1 DEF TickOnNewest
        <3>2. lastBar \in Int
            BY <1>2 DEF BasisInv
        <3>3. BasisInv' /\ (st.book.basis # "none" => st'.book.basis = st.book.basis)
            BY <1>2, <3>1, <3>2, TickKeepsBasis
        <3> QED BY <3>3 DEF BasisIsKept
    <2>2. CASE TickOnOlder
        <3>1. PICK p \in Providers, heavy \in BOOLEAN, end \in Ends :
                DecisionTick(p, lastBar - 1, TRUE, heavy, end)
            BY <2>2 DEF TickOnOlder
        <3>2. lastBar - 1 \in Int
            BY <1>2 DEF BasisInv
        <3>3. BasisInv' /\ (st.book.basis # "none" => st'.book.basis = st.book.basis)
            BY <1>2, <3>1, <3>2, TickKeepsBasis
        <3> QED BY <3>3 DEF BasisIsKept
    <2>3. CASE DecisionCrash
        BY <1>2, <2>3 DEF DecisionCrash, BasisInv, BasisIsKept
    <2>4. CASE NewBar \/ NewsMoves \/ LatchMoves
        BY <1>2, <2>4 DEF NewBar, NewsMoves, LatchMoves, BasisInv, BasisIsKept
    <2>5. CASE UNCHANGED decisionVars
        BY <1>2, <2>5 DEF decisionVars, BasisInv
    <2> QED BY <1>2, <2>1, <2>2, <2>3, <2>4, <2>5 DEF GateNext
<1> QED
    BY <1>1, <1>2, PTL DEF DecisionSpec, OneBasis

(* ------------------------ the account of a brain ------------------------- *)
Used == [Kinds -> [calls : Nat, answers : Nat]]
Budgets == [date : Nat, used : Used]

(* An account, in memory or on disk, is of no later day and within its caps; *)
(* the one in memory is what was called and answered, less what a crash      *)
(* took.                                                                     *)
AccountInv ==
    /\ today \in Nat \ {0}
    /\ budget \in Budgets /\ disk \in Budgets /\ paid \in Used
    /\ lost \in [Kinds -> [calls : Int, answers : Int]]
    /\ budget.date <= today /\ disk.date <= today
    /\ \A k \in Kinds : budget.used[k].calls <= Cap(k) /\ disk.used[k].calls <= Cap(k)
    /\ \A k \in Kinds :
        /\ Recorded(budget, k).calls = paid[k].calls - lost[k].calls
        /\ Recorded(budget, k).answers = paid[k].answers - lost[k].answers

(* Opening the day's account changes nothing of what it says of today.       *)
LEMMA CheckedIsToday ==
    ASSUME BrainBounds, AccountInv
    PROVE  /\ Checked \in Budgets /\ Checked.date = today
           /\ \A k \in Kinds : /\ Checked.used[k] = Recorded(budget, k)
                                     /\ Checked.used[k].calls <= Cap(k)
BY DEF BrainBounds, AccountInv, Checked, Recorded, Nothing, Kinds, Cap,
       Budgets, Used

(* Spending within the cap keeps the account: what is charged and what is    *)
(* counted are the same calls and the same answers.                          *)
LEMMA SpentKeepsAccount ==
    ASSUME BrainBounds, AccountInv, NEW kind \in Kinds, NEW n \in Nat, NEW r \in Nat,
           Checked.used[kind].calls + n <= Cap(kind),
           Spent(kind, n, r), UNCHANGED <<today, disk, lost>>
    PROVE  AccountInv'
<1> DEFINE used0 == Checked.used
           new == Plus(used0, kind, n, r)
           cost == Plus(paid, kind, n, r)
<1>1. /\ Checked \in Budgets /\ Checked.date = today
      /\ \A k \in Kinds : used0[k] = Recorded(budget, k) /\ used0[k].calls <= Cap(k)
    BY CheckedIsToday
<1>2. used0 \in Used /\ paid \in Used
    BY <1>1 DEF Budgets, AccountInv
<1>3. budget' = [Checked EXCEPT !.used = new] /\ paid' = cost
    BY DEF Spent
<1>4. ASSUME NEW used \in Used
      PROVE  /\ Plus(used, kind, n, r) \in Used
             /\ \A k \in Kinds :
                  Plus(used, kind, n, r)[k] =
                    IF k = kind THEN [calls |-> used[k].calls + n, answers |-> used[k].answers + r] ELSE used[k]
    <2> DEFINE c == used[kind].calls + n
               a == used[kind].answers + r
    <2>1. c \in Nat /\ a \in Nat
        BY DEF Used
    <2>2. Plus(used, kind, n, r) = [used EXCEPT ![kind] = [calls |-> c, answers |-> a]]
        BY DEF Plus
    <2> HIDE DEF c, a
    <2>3. [used EXCEPT ![kind] = [calls |-> c, answers |-> a]] \in Used
        BY <2>1 DEF Used
    <2>4. \A k \in Kinds : [used EXCEPT ![kind] = [calls |-> c, answers |-> a]][k] =
                                 IF k = kind THEN [calls |-> c, answers |-> a] ELSE used[k]
        BY DEF Used
    <2> QED BY <2>2, <2>3, <2>4 DEF c, a
<1>5. /\ new \in Used /\ cost \in Used
      /\ \A k \in Kinds :
           /\ new[k].calls = (IF k = kind THEN used0[k].calls + n ELSE used0[k].calls)
           /\ new[k].answers = (IF k = kind THEN used0[k].answers + r ELSE used0[k].answers)
           /\ cost[k].calls = (IF k = kind THEN paid[k].calls + n ELSE paid[k].calls)
           /\ cost[k].answers = (IF k = kind THEN paid[k].answers + r ELSE paid[k].answers)
    <2> HIDE DEF used0
    <2>1. /\ new \in Used
          /\ \A k \in Kinds :
               new[k] = IF k = kind THEN [calls |-> used0[k].calls + n, answers |-> used0[k].answers + r] ELSE used0[k]
        BY <1>2, <1>4
    <2>2. /\ cost \in Used
          /\ \A k \in Kinds :
               cost[k] = IF k = kind THEN [calls |-> paid[k].calls + n, answers |-> paid[k].answers + r] ELSE paid[k]
        BY <1>2, <1>4
    <2> HIDE DEF new, cost
    <2>3. ASSUME NEW k \in Kinds
          PROVE  /\ new[k].calls = (IF k = kind THEN used0[k].calls + n ELSE used0[k].calls)
                 /\ new[k].answers = (IF k = kind THEN used0[k].answers + r ELSE used0[k].answers)
                 /\ cost[k].calls = (IF k = kind THEN paid[k].calls + n ELSE paid[k].calls)
                 /\ cost[k].answers = (IF k = kind THEN paid[k].answers + r ELSE paid[k].answers)
        <3>1. CASE k = kind
            <4>1. /\ new[k] = [calls |-> used0[k].calls + n, answers |-> used0[k].answers + r]
                  /\ cost[k] = [calls |-> paid[k].calls + n, answers |-> paid[k].answers + r]
                BY <2>1, <2>2, <3>1
            <4> QED BY <4>1, <3>1
        <3>2. CASE k # kind
            BY <2>1, <2>2, <3>2
        <3> QED BY <3>1, <3>2
    <2> QED BY <2>1, <2>2, <2>3
<1>6. Checked.used[kind].calls + n <= Cap(kind)
    OBVIOUS
<1> HIDE DEF used0, new, cost
<1>7. budget' \in Budgets /\ budget'.date = today /\ budget'.used = new
    BY <1>1, <1>3, <1>5 DEF Budgets
<1>8. \A k \in Kinds : Recorded(budget, k)' = new[k]
    BY <1>7 DEF Recorded
<1>9. \A k \in Kinds : used0[k].calls <= Cap(k) /\ used0[k].calls \in Nat /\ used0[k].answers \in Nat
                             /\ paid[k].calls \in Nat /\ paid[k].answers \in Nat
                             /\ lost[k].calls \in Int /\ lost[k].answers \in Int
                             /\ new[k].calls \in Nat /\ Cap(k) \in Nat
                             /\ used0[k].calls = paid[k].calls - lost[k].calls
                             /\ used0[k].answers = paid[k].answers - lost[k].answers
    BY <1>1, <1>2, <1>5 DEF Used, AccountInv, BrainBounds, Cap
<1>10. \A k \in Kinds : new[k].calls <= Cap(k)
    BY <1>5, <1>6, <1>9 DEF used0
<1>11. \A k \in Kinds : new[k].calls = cost[k].calls - lost[k].calls
                              /\ new[k].answers = cost[k].answers - lost[k].answers
    BY <1>5, <1>9
<1> QED
    BY <1>3, <1>5, <1>7, <1>8, <1>10, <1>11 DEF AccountInv

LEMMA MinOfThree ==
    ASSUME NEW a \in Nat, NEW b \in Nat, NEW c \in Nat
    PROVE  Min({a, b, c}) \in {a, b, c} /\ Min({a, b, c}) <= c
<1>1. \E x \in {a, b, c} : \A y \in {a, b, c} : x <= y
    OBVIOUS
<1> QED
    BY <1>1 DEF Min

LEMMA AccountInvHolds == ASSUME BrainBounds PROVE BrainsSpec => []AccountInv
<1>1. ASSUME BrainsInit PROVE AccountInv
    <2>1. Nothing \in Used /\ \A k \in Kinds : Nothing[k] = [calls |-> 0, answers |-> 0]
        BY DEF Nothing, Used
    <2>2. /\ budget = [date |-> 0, used |-> Nothing] /\ disk = budget /\ paid = Nothing
          /\ lost = Nothing /\ today = 1
        BY <1>1 DEF BrainsInit
    <2> HIDE DEF Nothing
    <2>3. \A k \in Kinds : Recorded(budget, k) = Nothing[k] /\ Cap(k) \in Nat
        BY <2>2 DEF Recorded, Cap, BrainBounds
    <2> QED BY <2>1, <2>2, <2>3 DEF AccountInv, Budgets, Used
<1>2. ASSUME AccountInv, [BrainsNext]_brainsVars PROVE AccountInv'
    <2> USE <1>2 DEF BrainBounds
    <2>1. ASSUME budget' = Checked, UNCHANGED <<today, disk, paid, lost>> PROVE AccountInv'
        <3>1. /\ Checked \in Budgets /\ Checked.date = today
              /\ \A k \in Kinds : /\ Checked.used[k] = Recorded(budget, k)
                                        /\ Checked.used[k].calls <= Cap(k)
            BY CheckedIsToday
        <3>2. \A k \in Kinds : Recorded(budget, k)' = Checked.used[k]
            BY <2>1, <3>1 DEF Recorded
        <3>3. today \in Nat
            BY DEF AccountInv
        <3> QED BY <2>1, <3>1, <3>2, <3>3 DEF AccountInv
    <2>2. ASSUME UNCHANGED <<today, budget, disk, paid, lost>> PROVE AccountInv'
        BY <2>2 DEF AccountInv, Recorded
    <2>3. CASE Ingest
        <3>1. PICK material \in 0..MaxFresh :
                LET n == Min({material, PerTick, Cap("scorer") - Checked.used["scorer"].calls})
                IN  IF Budgeted /\ Ok("scorer") /\ material > 0
                    THEN \E r \in 0..n : Spent("scorer", n, r)
                    ELSE \/ budget' = Checked /\ UNCHANGED paid
                         \/ material = 0 /\ UNCHANGED <<budget, paid>>
            BY <2>3 DEF Ingest
        <3>2. UNCHANGED <<today, disk, lost>>
            BY <2>3 DEF Ingest
        <3>3. CASE Budgeted /\ Ok("scorer") /\ material > 0
            <4> DEFINE left == Cap("scorer") - Checked.used["scorer"].calls
                       n == Min({material, PerTick, left})
            <4>1. "scorer" \in Kinds /\ Cap("scorer") \in Nat
                BY DEF Kinds, Cap
            <4>2. Checked.used["scorer"].calls \in Nat
                BY <4>1, CheckedIsToday DEF Budgets, Used
            <4>3. left \in Nat
                BY <3>3, <4>1, <4>2 DEF Ok
            <4>4. material \in Nat /\ PerTick \in Nat
                OBVIOUS
            <4>5. PICK r \in 0..n : Spent("scorer", n, r)
                BY <3>1, <3>3
            <4>6. left = Cap("scorer") - Checked.used["scorer"].calls
                OBVIOUS
            <4> HIDE DEF left
            <4>7. n \in Nat /\ n <= left
                BY <4>3, <4>4, MinOfThree
            <4> HIDE DEF n
            <4>8. Checked.used["scorer"].calls + n <= Cap("scorer") /\ r \in Nat
                BY <4>1, <4>2, <4>3, <4>6, <4>7
            <4> QED BY <3>2, <4>1, <4>5, <4>7, <4>8, SpentKeepsAccount
        <3>4. CASE ~(Budgeted /\ Ok("scorer") /\ material > 0)
            BY <2>1, <2>2, <3>1, <3>2, <3>4
        <3> QED BY <3>3, <3>4
    <2>4. CASE Decide
        <3>1. UNCHANGED <<today, disk, lost>>
            BY <2>4 DEF Decide
        <3>2. CASE Hold
            BY <2>1, <3>1, <3>2 DEF Hold
        <3>3. CASE Propose
            <4>1. CASE Budgeted /\ Ok("pm")
                <5>1. PICK r \in {0, 1} : Spent("pm", 1, r)
                    BY <3>3, <4>1 DEF Propose
                <5>2. "pm" \in Kinds /\ Cap("pm") \in Nat
                    BY DEF Kinds, Cap
                <5>3. Checked.used["pm"].calls \in Nat
                    BY <5>2, CheckedIsToday DEF Budgets, Used
                <5>4. Checked.used["pm"].calls + 1 <= Cap("pm")
                    BY <4>1, <5>2, <5>3 DEF Ok
                <5> QED BY <3>1, <5>1, <5>2, <5>4, SpentKeepsAccount
            <4>2. CASE ~(Budgeted /\ Ok("pm"))
                <5>1. UNCHANGED <<budget, paid>>
                    BY <3>3, <4>2 DEF Propose
                <5> QED BY <2>2, <3>1, <5>1
            <4> QED BY <4>1, <4>2
        <3> QED BY <2>4, <3>2, <3>3 DEF Decide
    <2>5. CASE GateHolds \/ TickRaises \/ UNCHANGED brainsVars
        BY <2>2, <2>5 DEF GateHolds, TickRaises, brainsVars
    <2>6. CASE Save
        BY <2>6 DEF Save, AccountInv, Recorded
    <2>7. CASE Crash
        <3>1. \A k \in Kinds : Recorded(disk, k) \in [calls : Nat, answers : Nat]
            BY DEF AccountInv, Budgets, Used, Recorded, Nothing
        <3>2. \A k \in Kinds : Recorded(budget, k)' = Recorded(disk, k)
            BY <2>7 DEF Crash, Recorded
        <3>3. /\ budget' = disk /\ UNCHANGED <<today, disk, paid>>
              /\ lost' = [k \in Kinds |->
                            [calls |-> paid[k].calls - Recorded(disk, k).calls,
                             answers |-> paid[k].answers - Recorded(disk, k).answers]]
            BY <2>7 DEF Crash
        <3>4. \A k \in Kinds : paid[k].calls \in Nat /\ paid[k].answers \in Nat
            BY DEF AccountInv, Used
        <3>5. \A k \in Kinds :
                /\ lost'[k].calls = paid[k].calls - Recorded(disk, k).calls
                /\ lost'[k].answers = paid[k].answers - Recorded(disk, k).answers
            BY <3>3
        <3>6. lost' \in [Kinds -> [calls : Int, answers : Int]]
            BY <3>1, <3>3, <3>4
        <3>7. \A k \in Kinds :
                /\ Recorded(budget, k)'.calls = paid[k].calls - lost'[k].calls
                /\ Recorded(budget, k)'.answers = paid[k].answers - lost'[k].answers
            BY <3>1, <3>2, <3>4, <3>5
        <3> QED BY <3>3, <3>6, <3>7 DEF AccountInv
    <2>8. CASE Midnight
        <3>1. Nothing \in Used /\ \A k \in Kinds : Nothing[k] = [calls |-> 0, answers |-> 0]
            BY DEF Nothing, Used
        <3>2. today' = today + 1 /\ paid' = Nothing /\ lost' = Nothing /\ UNCHANGED <<budget, disk>>
            BY <2>8 DEF Midnight
        <3>3. \A k \in Kinds : Recorded(budget, k)' = Nothing[k]
            BY <3>2 DEF Recorded, AccountInv, Budgets
        <3> HIDE DEF Nothing
        <3> QED BY <3>1, <3>2, <3>3 DEF AccountInv, Used, Budgets
    <2> QED
        BY <2>3, <2>4, <2>5, <2>6, <2>7, <2>8 DEF BrainsNext
<1> QED
    BY <1>1, <1>2, PTL DEF BrainsSpec

(* The day's account is what was called and what was answered, but for what  *)
(* a crash before the save took, and a day's calls exceed a cap by no more   *)
(* than that: for every cap, number of headlines, days and crashes.          *)
THEOREM AccountIsMeasuredHolds ==
    ASSUME BrainBounds PROVE BrainsSpec => []AccountIsMeasured
<1>1. ASSUME AccountInv PROVE AccountIsMeasured
    <2>1. \A k \in Kinds : Recorded(budget, k).calls <= Cap(k)
                                 /\ Recorded(budget, k).calls \in Nat /\ Cap(k) \in Nat
        BY <1>1 DEF AccountInv, Recorded, Nothing, Cap, BrainBounds, Budgets, Used
    <2>2. \A k \in Kinds : paid[k].calls \in Nat /\ lost[k].calls \in Int
        BY <1>1 DEF AccountInv, Used
    <2> QED BY <1>1, <2>1, <2>2 DEF AccountInv, AccountIsMeasured
<1> QED
    BY <1>1, AccountInvHolds, PTL

(* What configures the chain never changes, and a decision has its fields.   *)
Thinkers == {"anthropic", "vllm", "ollama", "heuristic"}
ChainInv ==
    /\ setup \in [provider : {"auto"}, key : BOOLEAN, local : BOOLEAN]
                \cup [provider : {"vllm"}, key : {FALSE}, local : {FALSE}]
    /\ decision \in [book : Thinkers \cup {"none"}, source : Thinkers \cup {"none", "held"}, asked : BOOLEAN]

(* A chain consists of brains and ends in the one that cannot fail, so some  *)
(* brain of it decides whatever fails before.                                *)
LEMMA SomeBrainDecides ==
    ASSUME ChainInv, NEW failed \in SUBSET {"anthropic", "vllm", "ollama"}
    PROVE  FallsBack(failed) \in Thinkers
<1> DEFINE answers(i) == Chain[i] \notin failed /\ \A j \in 1..(i - 1) : Chain[j] \in failed
<1>1. \E n \in {1, 2, 3} : /\ DOMAIN Chain = 1..n /\ Chain[n] = "heuristic"
                           /\ \A i \in 1..n : Chain[i] \in Thinkers
    <2>1. CASE setup.provider = "vllm"
        <3>1. Chain = <<"vllm", "heuristic">>
            BY <2>1 DEF Chain
        <3> QED BY <3>1 DEF Thinkers
    <2>2. CASE setup.provider = "auto"
        <3>1. Chain = (IF setup.key THEN <<"anthropic">> ELSE <<>>)
                            \o (IF setup.local THEN <<"ollama">> ELSE <<>>) \o <<"heuristic">>
            BY <2>2 DEF Chain
        <3>2. CASE setup.key /\ setup.local
            BY <3>1, <3>2 DEF Thinkers
        <3>3. CASE setup.key /\ ~setup.local
            BY <3>1, <3>3 DEF Thinkers
        <3>4. CASE ~setup.key /\ setup.local
            BY <3>1, <3>4 DEF Thinkers
        <3>5. CASE ~setup.key /\ ~setup.local
            BY <3>1, <3>5 DEF Thinkers
        <3> QED BY <3>2, <3>3, <3>4, <3>5
    <2> QED BY <2>1, <2>2 DEF ChainInv
<1>2. PICK n \in {1, 2, 3} : /\ DOMAIN Chain = 1..n /\ Chain[n] = "heuristic"
                             /\ \A i \in 1..n : Chain[i] \in Thinkers
    BY <1>1
<1>3. \E i \in DOMAIN Chain : answers(i)
    <2>1. answers(1) \/ (n >= 2 /\ answers(2)) \/ (n = 3 /\ answers(3))
        BY <1>2
    <2> QED BY <1>2, <2>1
<1> QED
    BY <1>2, <1>3 DEF FallsBack

(* A step that changes the decision of a paid brain's book is a call of that *)
(* brain, counted, or it holds the book; only Decide changes a decision.     *)
LEMMA ChainStep ==
    ASSUME BrainBounds, AccountInv, ChainInv, [BrainsNext]_brainsVars
    PROVE  ChainInv' /\ [NoWeakerBrain]_brainsVars
<1>1. ASSUME UNCHANGED <<setup, decision>> PROVE ChainInv' /\ NoWeakerBrain
    BY <1>1 DEF ChainInv, NoWeakerBrain
<1>2. CASE Ingest \/ GateHolds \/ Save \/ TickRaises \/ Crash \/ Midnight
    BY <1>1, <1>2 DEF Ingest, GateHolds, Save, TickRaises, Crash, Midnight
<1>3. CASE Decide /\ Hold
    <2>1. setup' = setup /\ decision' = [decision EXCEPT !.source = "held", !.asked = FALSE]
        BY <1>3 DEF Decide, Hold
    <2>2. decision' \in [book : Thinkers \cup {"none"}, source : Thinkers \cup {"none", "held"}, asked : BOOLEAN]
          /\ decision'.source = "held" /\ decision'.book = decision.book
        BY <2>1 DEF ChainInv
    <2> QED BY <2>1, <2>2 DEF ChainInv, NoWeakerBrain
<1>4. CASE Decide /\ Propose
    <2>1. setup' = setup /\ ~Holds
        BY <1>4 DEF Decide, Propose
    <2>2. PICK failed \in SUBSET {"anthropic", "vllm", "ollama"} :
            /\ decision' = [book |-> FallsBack(failed), source |-> FallsBack(failed),
                            asked |-> Budgeted /\ Ok("pm")]
            /\ Budgeted /\ Ok("pm") => \E r \in {0, 1} : Spent("pm", 1, r)
        BY <1>4 DEF Propose
    <2>3. FallsBack(failed) \in Thinkers
        BY SomeBrainDecides
    <2>4. decision' \in [book : Thinkers \cup {"none"}, source : Thinkers \cup {"none", "held"}, asked : BOOLEAN]
          /\ decision'.source \in Thinkers
        BY <2>2, <2>3
    <2>5. Budgeted => decision'.asked /\ paid'["pm"].calls = paid["pm"].calls + 1
        <3> SUFFICES ASSUME Budgeted PROVE decision'.asked /\ paid'["pm"].calls = paid["pm"].calls + 1
            OBVIOUS
        <3>1. Ok("pm")
            BY <2>1 DEF Holds
        <3>2. PICK r \in {0, 1} : Spent("pm", 1, r)
            BY <2>2, <3>1
        <3>3. paid' = [paid EXCEPT !["pm"] = [calls |-> @.calls + 1, answers |-> @.answers + r]]
            BY <3>2 DEF Spent, Plus
        <3>4. paid'["pm"].calls = paid["pm"].calls + 1
            BY <3>3 DEF AccountInv, Used, Kinds
        <3> QED BY <2>2, <3>1, <3>4
    <2> QED BY <2>1, <2>4, <2>5 DEF ChainInv, NoWeakerBrain, Thinkers
<1>5. CASE UNCHANGED brainsVars
    BY <1>1, <1>5 DEF brainsVars
<1> QED
    BY <1>2, <1>3, <1>4, <1>5 DEF BrainsNext, Decide

(* "HOLD S3's existing book rather than let a weaker brain decide": where a  *)
(* paid brain is configured, a new book comes only from a call of it that    *)
(* was made and charged, and a spent budget changes no book.                 *)
THEOREM NoWeakerBrainByBudgetHolds ==
    ASSUME BrainBounds PROVE BrainsSpec => NoWeakerBrainByBudget
<1>1. ASSUME BrainsInit PROVE ChainInv
    <2>1. decision = [book |-> "none", source |-> "none", asked |-> FALSE]
        BY <1>1 DEF BrainsInit
    <2>2. decision \in [book : Thinkers \cup {"none"}, source : Thinkers \cup {"none", "held"}, asked : BOOLEAN]
        BY <2>1
    <2> QED BY <1>1, <2>2 DEF BrainsInit, ChainInv
<1> QED
    BY <1>1, ChainStep, AccountInvHolds, PTL DEF BrainsSpec, NoWeakerBrainByBudget

(* ------------------------- the forward event book ------------------------ *)
(* After a complete poll the cache has every filing whose window may still   *)
(* be ready, and the book is what the engine makes of the cache unless the   *)
(* last rebalance degraded: a second rebalance of the bar, which polls       *)
(* nothing, finds both again.                                                *)
EventInv ==
    /\ filed \subseteq Filing /\ rows \subseteq filed
    /\ bar \in Bars
    /\ complete => Asked(Horizon) \subseteq rows
    /\ complete /\ ~degraded => weights = Generate(rows)

(* The least of some natural numbers is one of them.                         *)
LEMMA LeastIsThere ==
    ASSUME NEW S, S \subseteq Nat, S # {}
    PROVE  Min(S) \in S /\ \A y \in S : Min(S) =< y
<1> DEFINE below == {0..n : n \in S}
<1>1. below \subseteq FiniteSubsetsOf(Nat) /\ below # {}
    <2>1. ASSUME NEW n \in S PROVE 0..n \in SUBSET Nat /\ IsFiniteSet(0..n)
        <3>1. n \in Int /\ 0 \in Int
            OBVIOUS
        <3> QED BY <3>1, FS_Interval
    <2> QED BY <2>1 DEF FiniteSubsetsOf
<1>2. PICK b \in below : \A c \in below : ~ (<<c, b>> \in StrictSubsetOrdering(Nat))
    BY <1>1, FS_StrictSubsetOrderingWellFounded, WFMin
<1>3. PICK x \in S : b = 0..x
    BY <1>2
<1>4. ASSUME NEW y \in S PROVE x =< y
    <2>1. ~ (<<0..y, 0..x>> \in StrictSubsetOrdering(Nat))
        BY <1>2, <1>3
    <2>2. 0..x \in SUBSET Nat /\ 0..y \in SUBSET Nat
        OBVIOUS
    <2>3. 0..y \subseteq 0..x => 0..y = 0..x
        BY <2>1, <2>2 DEF StrictSubsetOrdering
    <2>4. x \in 0..x /\ y \in Nat /\ x \in Nat
        OBVIOUS
    <2>5. ASSUME y < x PROVE FALSE
        <3>1. 0..y \subseteq 0..x
            BY <2>4, <2>5
        <3>2. x \notin 0..y
            BY <2>4, <2>5
        <3> QED BY <2>3, <2>4, <3>1, <3>2
    <2> QED BY <2>4, <2>5
<1> QED
    BY <1>4 DEF Min

(* Two bars are needed, and two different ones are enough.                   *)
LEMMA TwoOrMore ==
    ASSUME NEW S, IsFiniteSet(S)
    PROVE  Cardinality(S) >= 2 <=> \E x, y \in S : x # y
<1>1. Cardinality(S) \in Nat
    BY FS_CardinalityType
<1>2. Cardinality(S) = 0 <=> S = {}
    BY FS_EmptySet
<1>3. Cardinality(S) = 1 <=> \E x : S = {x}
    BY FS_Singleton
<1>4. (\E x, y \in S : x # y) <=> ~(S = {}) /\ ~(\E x : S = {x})
    OBVIOUS
<1> QED
    BY <1>1, <1>2, <1>3, <1>4

(* A reaction is known once the second bar after the filing has closed: what *)
(* the engine counts is what calendar_time_daily looks up.                   *)
LEMMA KnownBySecondBar ==
    ASSUME EventBounds, bar \in Bars, NEW f \in Filing
    PROVE  /\ ReactionKnown(f) <=> Cardinality(AfterFiling(f)) >= 2 /\ KnownAt(f) =< bar
           /\ Cardinality(AfterFiling(f)) >= 2 => KnownAt(f) \in Bars
<1> DEFINE after == AfterFiling(f)
           sofar == {b \in after : b <= bar}
           first == Min(after)
           later == {b \in Bars : b > first}
           known == Min(later)
<1>1. Bars \subseteq Nat /\ after \subseteq Bars /\ sofar \subseteq after /\ bar \in Nat /\ f.day \in Nat
    BY DEF EventBounds, AfterFiling, Filing
<1>2. IsFiniteSet(after) /\ IsFiniteSet(sofar)
    <2>1. IsFiniteSet(Bars)
        BY DEF EventBounds
    <2> QED BY <1>1, <2>1, FS_Subset
<1>3. ReactionKnown(f) <=> \E x, y \in sofar : x # y
    BY <1>2, TwoOrMore DEF ReactionKnown
<1>4. Cardinality(after) >= 2 <=> \E x, y \in after : x # y
    BY <1>2, TwoOrMore
<1>5. KnownAt(f) = known
    BY DEF KnownAt
<1>6. after # {} => first \in after /\ \A y \in after : first =< y
    BY <1>1, LeastIsThere
<1>7. later # {} => known \in later /\ \A y \in later : known =< y
    <2>1. later \subseteq Nat
        BY <1>1
    <2> QED BY <2>1, LeastIsThere
<1>8. \A b \in Bars : b \in after <=> b >= f.day
    BY DEF AfterFiling
<1> HIDE DEF after, first, known
<1>9. ASSUME NEW x \in after, NEW y \in after, x # y PROVE known \in later /\ (known =< x \/ known =< y)
    <2>1. first \in after /\ first =< x /\ first =< y
        BY <1>6
    <2>2. x \in later \/ y \in later
        BY <1>1, <2>1, <1>9
    <2> QED BY <1>7, <2>2
<1>10. ASSUME \E x, y \in sofar : x # y PROVE known =< bar
    <2>1. PICK x \in sofar, y \in sofar : x # y
        BY <1>10
    <2>2. known \in Nat /\ x \in Nat /\ y \in Nat /\ (known =< x \/ known =< y)
        BY <1>1, <1>9, <2>1
    <2> QED BY <1>1, <2>1, <2>2
<1>11. ASSUME \E x, y \in after : x # y, known =< bar PROVE \E x, y \in sofar : x # y
    <2>1. known \in later /\ first \in after
        BY <1>6, <1>9, <1>11
    <2>2. known \in Nat /\ first \in Nat /\ first < known /\ f.day =< first /\ known \in Bars
        BY <1>1, <1>8, <2>1
    <2>3. known \in after
        BY <1>1, <1>8, <2>2
    <2>4. known \in sofar /\ first \in sofar /\ known # first
        BY <1>1, <1>11, <2>1, <2>2, <2>3
    <2> QED BY <2>4
<1>12. (\E x, y \in sofar : x # y) => \E x, y \in after : x # y
    OBVIOUS
<1>13. (\E x, y \in after : x # y) => known \in Bars
    BY <1>9
<1> QED
    BY <1>3, <1>4, <1>5, <1>10, <1>11, <1>12, <1>13 DEF after

(* Where the cache has what is still in question, the engine's active        *)
(* filings are the positions of the research primitive.                      *)
LEMMA ActiveIsHeld ==
    ASSUME EventBounds, EventInv, Asked(Horizon) \subseteq rows
    PROVE  Generate(rows) = Backtest
<1> DEFINE active == {f \in rows : ReactionKnown(f) /\ InWindow(f)}
           book   == {f \in filed : Held(f)}
<1>1. Bars \subseteq Nat /\ bar \in Bars /\ bar \in Nat /\ rows \subseteq filed /\ filed \subseteq Filing
    BY DEF EventInv, EventBounds
<1>2. {EntryLag, ExitLag, Slack} \subseteq Nat
    BY DEF EventBounds
<1>3. ASSUME NEW f \in filed PROVE f \in active <=> f \in book
    <2> DEFINE enough == Cardinality(AfterFiling(f)) >= 2
               ready   == {b \in Bars : b >= f.day + EntryLag /\ b >= KnownAt(f)}
    <2>1. f \in Filing /\ f.day \in Nat
        BY <1>1 DEF Filing, EventBounds
    <2>2. /\ ReactionKnown(f) <=> enough /\ KnownAt(f) =< bar
          /\ enough => KnownAt(f) \in Nat
        BY <1>1, <2>1, KnownBySecondBar
    <2>3. InWindow(f) <=> f.day + EntryLag <= bar /\ bar <= f.day + ExitLag
        BY DEF InWindow
    <2>4. Held(f) <=> /\ enough /\ \E b \in Bars : b >= f.day + EntryLag
                             /\ Min(ready) <= bar /\ bar <= f.day + ExitLag
        BY DEF Held, ToBeKnown, DecisionStart
    <2>5. InWindow(f) => f \in rows
        <3>1. InWindow(f) => bar - (ExitLag + Slack) <= f.day /\ f.day <= bar
            BY <1>1, <1>2, <2>1, <2>3
        <3> QED BY <3>1 DEF Asked, Horizon
    <2> HIDE DEF enough
    <2>6. ASSUME ReactionKnown(f), InWindow(f) PROVE Held(f)
        <3>1. enough /\ KnownAt(f) =< bar /\ KnownAt(f) \in Nat
            BY <2>2, <2>6
        <3>2. f.day + EntryLag <= bar /\ bar <= f.day + ExitLag
            BY <2>3, <2>6
        <3>3. bar \in ready
            BY <1>1, <1>2, <2>1, <3>1, <3>2
        <3>4. ready \subseteq Nat
            BY <1>1
        <3>5. Min(ready) <= bar
            BY <3>3, <3>4, LeastIsThere
        <3> QED BY <1>1, <2>4, <3>1, <3>2, <3>5
    <2>7. ASSUME Held(f) PROVE ReactionKnown(f) /\ InWindow(f)
        <3>1. enough /\ Min(ready) <= bar /\ bar <= f.day + ExitLag
            BY <2>4, <2>7
        <3>2. PICK b \in Bars : b >= f.day + EntryLag
            BY <2>4, <2>7
        <3>3. KnownAt(f) \in Bars /\ KnownAt(f) \in Nat
            BY <1>1, <2>1, <3>1, KnownBySecondBar DEF enough
        <3>4. b \in Nat
            BY <1>1
        <3>5. b >= KnownAt(f) \/ KnownAt(f) >= f.day + EntryLag
            BY <1>2, <2>1, <3>2, <3>3, <3>4
        <3>6. b \in ready \/ KnownAt(f) \in ready
            BY <3>2, <3>3, <3>5
        <3>7. ready \subseteq Nat
            BY <1>1
        <3>8. Min(ready) \in ready
            BY <3>6, <3>7, LeastIsThere
        <3> DEFINE m == Min(ready)
        <3>9. m \in Nat /\ m >= f.day + EntryLag /\ m >= KnownAt(f)
            BY <1>1, <3>8
        <3>10. m <= bar
            BY <3>1
        <3> HIDE DEF m
        <3>11. f.day + EntryLag <= bar /\ KnownAt(f) =< bar
            BY <1>1, <1>2, <2>1, <3>3, <3>9, <3>10
        <3> QED BY <2>2, <2>3, <3>1, <3>11
    <2> QED BY <2>5, <2>6, <2>7
<1>4. active = book
    BY <1>1, <1>3
<1> QED
    BY <1>4 DEF Generate, Backtest

(* "The forward record must replicate the confirmation instrument": on every *)
(* bar whose poll was complete the forward book holds what the backtest      *)
(* holds, whatever earlier polls missed and earlier rebalances held.         *)
THEOREM ForwardIsTheBacktestHolds ==
    ASSUME EventBounds PROVE EventSpec => []ForwardIsTheBacktest
<1>1. ASSUME EventInit PROVE EventInv
    <2>1. Bars \subseteq Nat /\ Bars # {}
        BY DEF EventBounds
    <2>2. Min(Bars) \in Bars
        BY <2>1, LeastIsThere
    <2> QED BY <1>1, <2>2 DEF EventInit, EventInv
<1>2. ASSUME EventInv, [EventNext]_eventVars PROVE EventInv'
    <2>1. ASSUME NEW unread \in SUBSET Names, Poll(unread), UNCHANGED <<filed, bar>>,
                 degraded' \/ weights' = Generate(rows')
          PROVE  EventInv'
        <3> DEFINE polled  == last_fetch # bar
                   fetched == IF polled THEN {f \in Asked(Start) : f.name \notin unread} ELSE {}
        <3>1. /\ rows' = KeptRows \cup fetched
              /\ complete' = IF polled THEN unread = {} ELSE complete
              /\ filed' = filed /\ bar' = bar
            BY <2>1 DEF Poll
        <3>2. fetched \subseteq filed /\ KeptRows \subseteq rows
            BY DEF Asked, KeptRows
        <3>3. Horizon' = Horizon /\ Asked(Horizon)' = Asked(Horizon)
            BY <3>1 DEF Horizon, Asked
        <3>4. Generate(rows)' = Generate(rows')
            BY <3>1 DEF Generate, ReactionKnown, InWindow, Net, AfterFiling
        <3>5. CASE polled
            BY <1>2, <2>1, <3>1, <3>2, <3>3, <3>4, <3>5 DEF EventInv, Start
        <3>6. CASE ~polled
            <4>1. rows' = KeptRows /\ complete' = complete
                BY <3>1, <3>6
            <4>2. Asked(Horizon) \cap rows \subseteq KeptRows
                BY DEF Asked, KeptRows
            <4>3. complete' => Asked(Horizon)' \subseteq rows'
                BY <1>2, <3>3, <4>1, <4>2 DEF EventInv
            <4>4. complete' /\ ~degraded' => weights' = Generate(rows)'
                BY <2>1, <3>4
            <4>5. filed' \subseteq Filing /\ rows' \subseteq filed' /\ bar' \in Bars
                BY <1>2, <3>1, <3>2, <4>1 DEF EventInv
            <4> QED BY <4>3, <4>4, <4>5 DEF EventInv
        <3> QED BY <3>5, <3>6
    <2>2. CASE Degraded
        <3>1. CASE UNCHANGED <<rows, last_fetch, complete>>
            <4>1. degraded' /\ UNCHANGED <<filed, bar, rows, complete>>
                BY <2>2, <3>1 DEF Degraded
            <4>2. Asked(Horizon)' = Asked(Horizon)
                BY <4>1 DEF Asked, Horizon
            <4> QED BY <1>2, <4>1, <4>2 DEF EventInv
        <3>2. CASE \E unread \in SUBSET Names : Poll(unread)
            BY <2>1, <2>2, <3>2 DEF Degraded
        <3> QED BY <2>2, <3>1, <3>2 DEF Degraded
    <2>3. CASE NextBar
        BY <1>2, <2>3 DEF NextBar, EventInv
    <2>4. CASE UNCHANGED eventVars
        <3>1. UNCHANGED <<filed, bar, rows, weights, complete, degraded>>
            BY <2>4 DEF eventVars
        <3>2. Asked(Horizon)' = Asked(Horizon)
            BY <3>1 DEF Asked, Horizon
        <3>3. Generate(rows)' = Generate(rows)
            BY <3>1 DEF Generate, ReactionKnown, InWindow, Net, AfterFiling
        <3> QED BY <1>2, <3>1, <3>2, <3>3 DEF EventInv
    <2> QED
        BY <1>2, <2>1, <2>2, <2>3, <2>4 DEF EventNext, Rebalances, Rebalance
<1>3. EventInv => ForwardIsTheBacktest
    BY ActiveIsHeld DEF EventInv, ForwardIsTheBacktest
<1> QED
    BY <1>1, <1>2, <1>3, PTL DEF EventSpec

(* ----------------------- the readout and the digest ---------------------- *)
RaceFields == {"book", "legs", "rows", "clock", "v2", "broken", "readout", "notes", "digest"}
RaceRows   == [day : 1..LastDay, book : Int, legs : Int]

(* What the state of the race holds of the days that were marked: every row  *)
(* is of one of them, a record without rows has none, and one that is not    *)
(* broken was marked by one release alone, which is the one that runs if it  *)
(* is the new one.                                                           *)
RaceInv ==
    /\ DOMAIN saved = RaceFields
    /\ saved.book \in Int /\ saved.legs \in Int /\ saved.v2 \in BOOLEAN /\ release \in BOOLEAN
    /\ now \in [day : 1..LastDay, ticks : 0..TicksPerDay]
    /\ saved.rows \in Seq(RaceRows)
    /\ Days(saved.rows) \subseteq DOMAIN marked /\ DOMAIN marked \subseteq 1..LastDay
    /\ saved.rows = <<>> => DOMAIN marked = {}
    /\ ~saved.broken => /\ saved.v2 => release
                        /\ \A d \in DOMAIN marked : marked[d].release = saved.v2
    /\ ClaimIsEarned /\ NotesWait

(* There is one return less than there are closes: each closes on another    *)
(* day, and none on the first.                                               *)
LEMMA ReturnsAreFewer ==
    ASSUME NEW D, D \subseteq Nat, IsFiniteSet(D)
    PROVE  /\ Cardinality(D) \in Nat /\ Cardinality(Spans(D)) \in Nat
           /\ D = {} => Cardinality(Spans(D)) = 0
           /\ D # {} => Cardinality(Spans(D)) < Cardinality(D)
<1> DEFINE spans == Spans(D)
           least == Min(D)
           rest  == D \ {least}
           f     == [p \in spans |-> p[2]]
<1>1. /\ spans \subseteq D \X D
      /\ \A p \in spans : p[1] < p[2] /\ \A d \in D : ~(p[1] < d /\ d < p[2])
    BY DEF Spans
<1>2. Cardinality(D) \in Nat
    BY FS_CardinalityType
<1>3. CASE D = {}
    <2>1. spans = {}
        BY <1>1, <1>3
    <2> QED BY <1>2, <1>3, <2>1, FS_EmptySet
<1>4. CASE D # {}
    <2>1. least \in D /\ \A y \in D : least =< y
        BY <1>4, LeastIsThere
    <2> HIDE DEF least, spans
    <2>2. IsFiniteSet(rest) /\ Cardinality(rest) = Cardinality(D) - 1
        BY <2>1, FS_RemoveElement
    <2>3. f \in [spans -> rest]
        <3>1. ASSUME NEW p \in spans PROVE p[2] \in rest
            <4>1. p[1] \in D /\ p[2] \in D /\ p[1] < p[2]
                BY <1>1
            <4>2. least =< p[1] /\ least \in Nat /\ p[1] \in Nat /\ p[2] \in Nat
                BY <2>1, <4>1
            <4>3. p[2] # least
                BY <4>1, <4>2
            <4> QED BY <4>1, <4>3
        <3> QED BY <3>1
    <2>4. ASSUME NEW p \in spans, NEW q \in spans, f[p] = f[q] PROVE p = q
        <3>1. /\ p = <<p[1], p[2]>> /\ p[1] \in D /\ p[2] \in D /\ p[1] < p[2]
              /\ q = <<q[1], q[2]>> /\ q[1] \in D /\ q[2] \in D /\ q[1] < q[2]
            BY <1>1
        <3>2. p[2] = q[2]
            BY <2>4
        <3>3. ~(p[1] < q[1]) /\ ~(q[1] < p[1])
            BY <1>1, <3>1, <3>2
        <3>4. p[1] = q[1]
            BY <3>1, <3>3
        <3> QED BY <3>1, <3>2, <3>4
    <2>5. f \in Injection(spans, rest)
        BY <2>3, <2>4 DEF Injection, IsInjective
    <2>6. IsFiniteSet(spans) /\ Cardinality(spans) <= Cardinality(rest)
        BY <2>2, <2>5, FS_Injection
    <2>7. Cardinality(spans) \in Nat
        BY <2>6, FS_CardinalityType
    <2> HIDE DEF rest
    <2>8. Cardinality(spans) < Cardinality(D)
        BY <1>2, <2>2, <2>6, <2>7
    <2> QED BY <1>2, <1>4, <2>7, <2>8 DEF spans
<1> QED
    BY <1>3, <1>4

(* The ring forgets rows and invents none.                                   *)
LEMMA NewestOfAppended ==
    ASSUME NEW s \in Seq(RaceRows), NEW r \in RaceRows, NEW k \in Nat \ {0}
    PROVE  LET t == Newest(Append(s, r), k)
           IN  t \in Seq(RaceRows) /\ t # <<>> /\ Days(t) \subseteq Days(s) \cup {r.day}
<1> DEFINE a == Append(s, r)
           m == IF Len(a) > k THEN Len(a) - k + 1 ELSE 1
           t == SubSeq(a, m, Len(a))
<1>1. a \in Seq(RaceRows) /\ Len(a) = Len(s) + 1 /\ Len(s) \in Nat
    OBVIOUS
<1>2. \A i \in 1..Len(a) : IF i = Len(s) + 1 THEN a[i] = r ELSE i \in 1..Len(s) /\ a[i] = s[i]
    OBVIOUS
<1> HIDE DEF a
<1>3. m \in 1..Len(a)
    BY <1>1
<1> HIDE DEF m
<1>4. t \in Seq(RaceRows) /\ Len(t) = Len(a) - m + 1
    BY <1>1, <1>3
<1>5. \A i \in 1..Len(t) : m + i - 1 \in 1..Len(a) /\ t[i] = a[m + i - 1]
    BY <1>1, <1>3, <1>4
<1> HIDE DEF t
<1>6. t # <<>>
    <2>1. Len(t) > 0
        BY <1>1, <1>3, <1>4
    <2> QED BY <2>1
<1>7. ASSUME NEW d \in Days(t) PROVE d \in Days(s) \cup {r.day}
    <2>1. PICK i \in 1..Len(t) : d = t[i].day
        BY <1>4 DEF Days
    <2>2. PICK j \in 1..Len(a) : t[i] = a[j]
        BY <1>5
    <2>3. a[j] = r \/ \E l \in 1..Len(s) : a[j] = s[l]
        BY <1>2
    <2> QED BY <2>1, <2>2, <2>3 DEF Days
<1>8. Newest(Append(s, r), k) = t
    BY DEF Newest, t, m, a
<1> QED
    BY <1>4, <1>6, <1>7, <1>8

(* The state a tick marks and notes: a row of today more, and, unless the    *)
(* record is broken, marked by the running release alone.                    *)
LEMMA MarkedAndNoted ==
    ASSUME RaceBounds, RaceInv, NEW move \in [legs : Int, crypto : Int], NEW text
    PROVE  LET kept == Notes(Marks(Bounded(saved), move), text)
           IN  /\ DOMAIN kept = RaceFields
               /\ kept.book \in Int /\ kept.legs \in Int /\ kept.v2 \in BOOLEAN
               /\ kept.rows \in Seq(RaceRows) /\ kept.rows # <<>>
               /\ Days(kept.rows) \subseteq Days(saved.rows) \cup {now.day}
               /\ kept.clock = saved.clock
               /\ kept.notes = Noted(saved.notes, text)
               /\ ~kept.broken => kept.v2 = release /\ \A d \in DOMAIN marked : marked[d].release = release
<1> DEFINE b  == Bounded(saved)
           m  == Marks(b, move)
           kept == Notes(m, text)
           r  == [day |-> now.day, book |-> saved.book + move.legs + move.crypto, legs |-> saved.legs + move.legs]
<1>1. DOMAIN saved = RaceFields /\ saved.v2 \in BOOLEAN /\ release \in BOOLEAN
    BY DEF RaceInv
<1>2. /\ DOMAIN b = RaceFields
      /\ b.book = saved.book /\ b.legs = saved.legs /\ b.rows = saved.rows /\ b.clock = saved.clock
      /\ b.notes = saved.notes
    BY <1>1 DEF Bounded, RaceFields
<1> DEFINE One == ~b.broken => b.v2 = release /\ \A d \in DOMAIN marked : marked[d].release = release
<1>3. ASSUME release /\ ~saved.v2 PROVE One
    <2>1. b.v2 = TRUE /\ b.broken = (saved.broken \/ saved.rows # <<>>)
        BY <1>1, <1>3 DEF Bounded, RaceFields
    <2>2. ~b.broken => DOMAIN marked = {}
        BY <2>1 DEF RaceInv
    <2> QED BY <1>1, <1>3, <2>1, <2>2
<1>4. ASSUME ~(release /\ ~saved.v2) PROVE One
    <2>1. b = saved
        BY <1>4 DEF Bounded
    <2>2. ~saved.broken => /\ saved.v2 => release
                           /\ \A d \in DOMAIN marked : marked[d].release = saved.v2
        BY DEF RaceInv
    <2> QED BY <1>1, <1>4, <2>1, <2>2
<1>5. b.v2 \in BOOLEAN /\ One
    <2>1. b.v2 \in BOOLEAN
        BY <1>1 DEF Bounded, RaceFields
    <2> QED BY <1>3, <1>4, <2>1
<1> HIDE DEF b
<1>6. /\ DOMAIN m = RaceFields
      /\ m.book = b.book + move.legs + move.crypto /\ m.legs = b.legs + move.legs
      /\ m.rows = Newest(Append(b.rows, [day |-> now.day, book |-> m.book, legs |-> m.legs]), RaceRing)
      /\ m.clock = b.clock /\ m.notes = b.notes /\ m.v2 = b.v2 /\ m.broken = b.broken
    BY <1>2 DEF Marks, RaceFields
<1> HIDE DEF m
<1>7. /\ DOMAIN kept = RaceFields
      /\ kept.book = m.book /\ kept.legs = m.legs /\ kept.rows = m.rows /\ kept.clock = m.clock
      /\ kept.v2 = m.v2 /\ kept.broken = m.broken /\ kept.notes = Noted(m.notes, text)
    BY <1>6 DEF Notes, RaceFields
<1> HIDE DEF kept
<1>8. m.book \in Int /\ m.legs \in Int
    <2>1. saved.book \in Int /\ saved.legs \in Int
        BY DEF RaceInv
    <2> QED BY <1>2, <1>6, <2>1
<1>9. /\ m.rows \in Seq(RaceRows) /\ m.rows # <<>>
      /\ Days(m.rows) \subseteq Days(saved.rows) \cup {now.day}
    <2> DEFINE row0 == [day |-> now.day, book |-> m.book, legs |-> m.legs]
    <2>1. row0 \in RaceRows /\ row0.day = now.day
        BY <1>8 DEF RaceInv, RaceRows
    <2>2. saved.rows \in Seq(RaceRows) /\ RaceRing \in Nat \ {0}
        BY DEF RaceInv, RaceBounds
    <2>3. m.rows = Newest(Append(saved.rows, row0), RaceRing)
        BY <1>2, <1>6
    <2> HIDE DEF row0
    <2> QED BY <2>1, <2>2, <2>3, NewestOfAppended
<1>10. kept.book \in Int /\ kept.legs \in Int /\ kept.v2 \in BOOLEAN
    BY <1>5, <1>6, <1>7, <1>8
<1>11. /\ kept.rows \in Seq(RaceRows) /\ kept.rows # <<>>
       /\ Days(kept.rows) \subseteq Days(saved.rows) \cup {now.day}
    BY <1>7, <1>9
<1>12. kept.clock = saved.clock /\ kept.notes = Noted(saved.notes, text)
    BY <1>2, <1>6, <1>7
<1>13. ~kept.broken => kept.v2 = release /\ \A d \in DOMAIN marked : marked[d].release = release
    BY <1>5, <1>6, <1>7
<1> QED
    BY <1>7, <1>10, <1>11, <1>12, <1>13 DEF kept, m, b

(* A claim rests on more closes than the registered bar: as many as its      *)
(* returns and one.                                                          *)
LEMMA AllowedHasCloses ==
    ASSUME RaceBounds, NEW s, NEW data, NEW known, known \subseteq 1..LastDay,
           Days(s.rows) \subseteq known, Allowed(s, Tested(s), data)
    PROVE  Cardinality({d \in known \cap Trading : Since(s.clock, d)}) > Bar /\ ~s.broken
<1> DEFINE D == Counted(s.rows, s.clock)
           K == {d \in known \cap Trading : Since(s.clock, d)}
<1>1. LastDay \in Nat /\ Bar \in Nat /\ Bar > 0 /\ Trading \subseteq 1..LastDay
    BY DEF RaceBounds
<1>2. D \subseteq K /\ D \subseteq Nat /\ K \subseteq 1..LastDay
    <2>1. D = {d \in Days(s.rows) : Since(s.clock, d)} \cap Trading
        BY DEF Counted, TradingDaysOnly
    <2>2. D \subseteq K
        BY <2>1
    <2>3. K \subseteq 1..LastDay
        OBVIOUS
    <2>4. 1..LastDay \subseteq Nat
        BY <1>1
    <2> QED BY <2>2, <2>3, <2>4
<1>3. IsFiniteSet(1..LastDay)
    BY <1>1, FS_Interval
<1>4. IsFiniteSet(K) /\ IsFiniteSet(D)
    BY <1>2, <1>3, FS_Subset
<1>5. Cardinality(Spans(D)) >= Bar /\ ~s.broken
    BY DEF Allowed, Tested, Returns
<1> HIDE DEF D, K
<1>6. /\ Cardinality(Spans(D)) \in Nat /\ Cardinality(D) \in Nat
      /\ Cardinality(Spans(D)) < Cardinality(D)
    <2>1. /\ Cardinality(D) \in Nat /\ Cardinality(Spans(D)) \in Nat
          /\ D = {} => Cardinality(Spans(D)) = 0
          /\ D # {} => Cardinality(Spans(D)) < Cardinality(D)
        BY <1>2, <1>4, ReturnsAreFewer
    <2>2. Cardinality(Spans(D)) # 0
        BY <1>1, <1>5, <2>1
    <2> QED BY <2>1, <2>2
<1>7. Cardinality(D) <= Cardinality(K) /\ Cardinality(K) \in Nat
    BY <1>2, <1>4, FS_Subset, FS_CardinalityType
<1>8. Cardinality(K) > Bar
    BY <1>1, <1>5, <1>6, <1>7
<1> QED
    BY <1>5, <1>8 DEF K

(* Every step of the race keeps what is known of its record.                 *)
LEMMA RaceStep ==
    ASSUME RaceBounds, RaceInv, [RaceNext]_raceVars
    PROVE  RaceInv'
<1>1. CASE RaceTick
    <2> DEFINE text == Text(now.day, now.ticks)
               late == now.ticks >= LateTick
               st0  == Notes(Marks(Bounded(saved), Move(now.day, now.ticks)), text)
               test == Tested(st0)
    <2>1. PICK source \in {"anthropic", "other"}, data \in {"weak", "mismatch", "strong"},
               arrives \in BOOLEAN, saves \in BOOLEAN :
            LET st1 == Stamps([st0 EXCEPT !.readout = Readout(st0, test, data)], source)
                due == DigestDue(st1, late)
                st2 == IF due THEN Delivered(st1, arrives) ELSE st1
            IN /\ now.ticks < TicksPerDay /\ (arrives => due)
               /\ now' = [now EXCEPT !.ticks = @ + 1]
               /\ message' = IF arrives THEN Digest(st1) ELSE Silence
               /\ \/ saves /\ saved' = st2 /\ UNCHANGED kills
                     /\ marked' = [d \in DOMAIN marked \cup {now.day} |->
                                     IF d = now.day THEN [book |-> st2.book, legs |-> st2.legs, release |-> release]
                                                      ELSE marked[d]]
                     /\ waiting' = IF arrives THEN <<>> ELSE Noted(waiting, text)
                  \/ ~saves /\ kills < MaxKills /\ kills' = kills + 1 /\ UNCHANGED <<saved, marked, waiting>>
               /\ UNCHANGED release
        BY <1>1 DEF RaceTick
    <2> DEFINE read == [st0 EXCEPT !.readout = Readout(st0, test, data)]
               st1  == Stamps(read, source)
               due  == DigestDue(st1, late)
               st2  == IF due THEN Delivered(st1, arrives) ELSE st1
    <2>2. /\ now.ticks < TicksPerDay /\ (arrives => due)
          /\ now' = [now EXCEPT !.ticks = @ + 1]
          /\ message' = IF arrives THEN Digest(st1) ELSE Silence
          /\ release' = release
          /\ \/ /\ saved' = st2
                /\ marked' = [d \in DOMAIN marked \cup {now.day} |->
                                IF d = now.day THEN [book |-> st2.book, legs |-> st2.legs, release |-> release]
                                                 ELSE marked[d]]
                /\ waiting' = IF arrives THEN <<>> ELSE Noted(waiting, text)
             \/ UNCHANGED <<saved, marked, waiting>>
        BY <2>1
    <2>3. now \in [day : 1..LastDay, ticks : 0..TicksPerDay]
        BY DEF RaceInv
    <2>4. Move(now.day, now.ticks) \in [legs : Int, crypto : Int]
        BY <2>3 DEF RaceBounds
    <2>5. /\ DOMAIN st0 = RaceFields
          /\ st0.book \in Int /\ st0.legs \in Int /\ st0.v2 \in BOOLEAN
          /\ st0.rows \in Seq(RaceRows) /\ st0.rows # <<>>
          /\ Days(st0.rows) \subseteq Days(saved.rows) \cup {now.day}
          /\ st0.notes = Noted(saved.notes, text)
          /\ ~st0.broken => st0.v2 = release /\ \A d \in DOMAIN marked : marked[d].release = release
        BY <2>4, MarkedAndNoted
    <2> HIDE DEF st0
    <2>6. /\ DOMAIN read = RaceFields
          /\ read.readout = Readout(st0, test, data)
          /\ read.book = st0.book /\ read.legs = st0.legs /\ read.v2 = st0.v2 /\ read.rows = st0.rows
          /\ read.notes = st0.notes /\ read.broken = st0.broken
        BY <2>5 DEF RaceFields
    <2> HIDE DEF read
    <2>7. /\ DOMAIN st1 = RaceFields
          /\ st1.readout = Readout(st0, test, data)
          /\ st1.book = st0.book /\ st1.legs = st0.legs /\ st1.v2 = st0.v2 /\ st1.rows = st0.rows
          /\ st1.notes = st0.notes /\ st1.broken = st0.broken
        BY <2>6 DEF Stamps, RaceFields
    <2> HIDE DEF st1, due
    <2>8. /\ DOMAIN st2 = RaceFields
          /\ st2.book = st0.book /\ st2.legs = st0.legs /\ st2.v2 = st0.v2 /\ st2.rows = st0.rows
          /\ st2.broken = st0.broken
          /\ st2.notes = IF due /\ arrives THEN <<>> ELSE st0.notes
        BY <2>7 DEF Delivered, Cleared, RaceFields
    <2> HIDE DEF st2
    <2> DEFINE known == DOMAIN marked \cup {now.day}
    <2>9. known \subseteq 1..LastDay /\ Days(st0.rows) \subseteq known
        BY <2>3, <2>5 DEF RaceInv
    <2>10. now' \in [day : 1..LastDay, ticks : 0..TicksPerDay] /\ (now').day = now.day
        <3>1. now.ticks + 1 \in 0..TicksPerDay
            BY <2>2, <2>3 DEF RaceBounds
        <3> QED BY <2>2, <2>3, <3>1
    <2>11. DOMAIN marked' \cup {now.day} = known
        BY <2>2
    <2>12. ~st0.broken => \A d \in DOMAIN marked' : marked'[d].release = release
        <3>1. CASE UNCHANGED marked
            BY <2>5, <3>1
        <3>2. CASE marked' = [d \in known |->
                                IF d = now.day THEN [book |-> st2.book, legs |-> st2.legs, release |-> release]
                                                 ELSE marked[d]]
            BY <2>5, <3>2
        <3> QED BY <2>2, <3>1, <3>2
    <2>13. ClaimIsEarned'
        <3>1. CASE arrives
            <4>1. message' = Digest(st1)
                BY <2>2, <3>1
            <4>2. /\ message'.claim = Claims(Readout(st0, test, data))
                  /\ message'.since = Readout(st0, test, data).since
                BY <2>7, <4>1 DEF Digest
            <4>3. /\ message'.since = st0.clock
                  /\ message'.claim => Allowed(st0, test, data)
                BY <4>2 DEF Readout, Claims, Tested
            <4>4. ASSUME message'.claim
                  PROVE  /\ Cardinality({d \in known \cap Trading : Since(message'.since, d)}) > Bar
                         /\ \A d \in DOMAIN marked' : marked'[d].release = release'
                BY <2>2, <2>9, <2>12, <4>3, <4>4, AllowedHasCloses
            <4> QED BY <2>10, <2>11, <4>4 DEF ClaimIsEarned, Since
        <3>2. CASE ~arrives
            BY <2>2, <3>2 DEF ClaimIsEarned, Silence
        <3> QED BY <3>1, <3>2
    <2>14. NotesWait'
        <3>1. saved.notes = waiting
            BY DEF RaceInv, NotesWait
        <3>2. CASE UNCHANGED <<saved, marked, waiting>>
            BY <3>1, <3>2 DEF NotesWait
        <3>3. CASE saved' = st2 /\ waiting' = IF arrives THEN <<>> ELSE Noted(waiting, text)
            BY <2>2, <2>5, <2>8, <3>1, <3>3 DEF NotesWait
        <3> QED BY <2>2, <3>2, <3>3
    <2>15. CASE UNCHANGED <<saved, marked, waiting>>
        BY <2>2, <2>10, <2>13, <2>14, <2>15 DEF RaceInv, Days
    <2>16. CASE /\ saved' = st2
                /\ DOMAIN marked' = known
        <3>1. saved'.rows = st0.rows /\ saved'.broken = st0.broken /\ saved'.v2 = st0.v2 /\ DOMAIN saved' = RaceFields
              /\ saved'.book = st0.book /\ saved'.legs = st0.legs
            BY <2>8, <2>16
        <3>2. release \in BOOLEAN
            BY DEF RaceInv
        <3>3. Days(saved.rows)' = Days(st0.rows)
            BY <3>1 DEF Days
        <3>4. Days(saved.rows)' \subseteq DOMAIN marked' /\ DOMAIN marked' \subseteq 1..LastDay
            BY <2>9, <2>16, <3>3
        <3>5. ~saved'.broken => /\ saved'.v2 => release'
                                /\ \A d \in DOMAIN marked' : marked'[d].release = saved'.v2
            BY <2>2, <2>5, <2>12, <3>1
        <3> QED BY <2>2, <2>5, <2>10, <2>13, <2>14, <3>1, <3>2, <3>4, <3>5 DEF RaceInv
    <2> QED BY <2>2, <2>15, <2>16
<1>2. CASE NewDay
    <2>1. now' = [day |-> now.day + 1, ticks |-> 0] /\ now.day < LastDay /\ message'.claim = FALSE
        BY <1>2 DEF NewDay, Silence
    <2>2. now' \in [day : 1..LastDay, ticks : 0..TicksPerDay]
        <3>1. now.day \in 1..LastDay /\ LastDay \in Nat /\ 0 \in 0..TicksPerDay
            BY DEF RaceInv, RaceBounds
        <3>2. now.day + 1 \in 1..LastDay
            BY <2>1, <3>1
        <3> QED BY <2>1, <3>1, <3>2
    <2>3. ClaimIsEarned'
        BY <2>1 DEF ClaimIsEarned
    <2> QED BY <1>2, <2>2, <2>3 DEF NewDay, RaceInv, NotesWait, Days
<1>3. CASE Deploys
    <2>1. ClaimIsEarned'
        BY <1>3 DEF Deploys, Silence, ClaimIsEarned
    <2>2. release' = TRUE /\ UNCHANGED <<now, saved, marked, waiting>>
        BY <1>3 DEF Deploys
    <2> QED BY <2>1, <2>2 DEF RaceInv, NotesWait, Days
<1>4. CASE ClearsClock
    <2>1. ClaimIsEarned'
        BY <1>4 DEF ClearsClock, Silence, ClaimIsEarned
    <2>2. saved' = [saved EXCEPT !.clock = 0] /\ UNCHANGED <<now, release, marked, waiting>>
        BY <1>4 DEF ClearsClock
    <2>3. /\ DOMAIN saved' = RaceFields
          /\ saved'.book = saved.book /\ saved'.legs = saved.legs /\ saved'.v2 = saved.v2
          /\ saved'.rows = saved.rows /\ saved'.broken = saved.broken /\ saved'.notes = saved.notes
        BY <2>2 DEF RaceInv, RaceFields
    <2>4. Days(saved.rows)' = Days(saved.rows)
        BY <2>3 DEF Days
    <2> QED BY <2>1, <2>2, <2>3, <2>4 DEF RaceInv, NotesWait
<1>5. CASE UNCHANGED raceVars
    BY <1>5 DEF raceVars, RaceInv, NotesWait, ClaimIsEarned, Since, Days
<1> QED
    BY <1>1, <1>2, <1>3, <1>4, <1>5 DEF RaceNext

(* The first state.                                                          *)
LEMMA RaceFirst ==
    ASSUME RaceBounds, RaceInit PROVE RaceInv
<1>1. DOMAIN marked = {} /\ message.claim = FALSE
    BY DEF RaceInit, Silence
<1>2. /\ DOMAIN saved = RaceFields /\ saved.book = 0 /\ saved.legs = 0 /\ saved.v2 = FALSE
      /\ saved.rows = <<>> /\ saved.notes = <<>>
    BY DEF RaceInit, RaceFields
<1>3. now \in [day : 1..LastDay, ticks : 0..TicksPerDay]
    BY DEF RaceInit, RaceBounds
<1>4. saved.rows \in Seq(RaceRows) /\ Days(saved.rows) = {}
    BY <1>2 DEF Days
<1> QED BY <1>1, <1>2, <1>3, <1>4 DEF RaceInit, RaceInv, ClaimIsEarned, NotesWait

(* "No superiority claim before 60 trading days", and none over a record     *)
(* that another release of the accounting began; and a note that was saved   *)
(* waits until a digest that carries it has arrived: for every calendar,     *)
(* every bar, and whatever the market does and whichever ticks die.          *)
THEOREM DigestIsTrueHolds ==
    ASSUME RaceBounds PROVE RaceSpec => []DigestIsTrue
<1>1. RaceInv /\ [RaceNext]_raceVars => RaceInv'
    BY RaceStep
<1>2. RaceInv => DigestIsTrue
    BY DEF RaceInv, DigestIsTrue
<1> QED
    BY RaceFirst, <1>1, <1>2, PTL DEF RaceSpec

(* The sum of a readout is a sum over its pairs.                             *)
LEMMA SumOfPairs ==
    ASSUME NEW V, IsFiniteSet(V), NEW g \in [V -> Int], \A v \in V : g[v] = v[2]
    PROVE  Sum(V) = SumOf(g, V)[V]
<1> DEFINE Taken(h, s) ==
               IF s = {} THEN 0 ELSE (CHOOSE x \in s : TRUE)[2] + h[s \ {CHOOSE x \in s : TRUE}]
           it == CHOOSE h : h = [s \in SUBSET V |-> Taken(h, s)]
<1>1. Sum(V) = it[V]
    BY DEF Sum, FoldSet, MapThenFoldSet
<1>2. ASSUME NEW h, NEW s \in SUBSET V PROVE Taken(h, s) = Summand(g, h, s)
    <2>1. s # {} => (CHOOSE x \in s : TRUE) \in V
        OBVIOUS
    <2> QED BY <2>1 DEF Summand
<1>3. \E h : h = [s \in SUBSET V |-> Taken(h, s)]
    <2> DEFINE h == SumOf(g, V)
    <2>1. h = [s \in SUBSET V |-> Summand(g, h, s)]
        BY SumExists
    <2> HIDE DEF h, Taken
    <2>2. h = [s \in SUBSET V |-> Taken(h, s)]
        BY <1>2, <2>1
    <2> QED BY <2>2
<1>4. it = [s \in SUBSET V |-> Taken(it, s)]
    <2> HIDE DEF Taken
    <2> QED BY <1>3
<1> HIDE DEF it, Taken
<1>5. it = [s \in SUBSET V |-> Summand(g, it, s)]
    BY <1>2, <1>4
<1>6. it = SumOf(g, V)
    BY <1>5, SumIsUnique
<1> QED BY <1>1, <1>6

(* The differences of a curve over the pairs of neighbours telescope.        *)
LEMMA DifferencesTelescope ==
    ASSUME NEW D, IsFiniteSet(D), D \subseteq Nat \ {0}, NEW M \in [D -> Int],
           NEW lo \in D, NEW hi \in D, \A d \in D : lo <= d /\ d <= hi
    PROVE  Sum({<<p, M[p[2]] - M[p[1]]>> : p \in Spans(D)}) = M[hi] - M[lo]
<1> DEFINE pairs == Spans(D)
           V == {<<p, M[p[2]] - M[p[1]]>> : p \in pairs}
           g == [v \in V |-> v[2]]
           f == [v \in V |-> v[1][2]]
           G == SumOf(g, V)
           To(n) == {v \in V : v[1][2] <= n}
           Q(n) == \/ (\A d \in D : d > n) /\ G[To(n)] = 0
                   \/ \E k \in D : /\ k <= n /\ \A d \in D : d <= n => d <= k
                                   /\ G[To(n)] = M[k] - M[lo]
           P == {n \in Nat : Q(n)}
<1>1. \A p \in pairs : /\ p = <<p[1], p[2]>> /\ p[1] \in D /\ p[2] \in D
                       /\ p[1] < p[2] /\ \A d \in D : ~(p[1] < d /\ d < p[2])
    BY DEF Spans
<1>2. \A a, b \in D : a < b /\ (\A d \in D : ~(a < d /\ d < b)) => <<a, b>> \in pairs
    BY DEF Spans
<1>3. \A d \in D : d \in Nat /\ d > 0 /\ M[d] \in Int
    OBVIOUS
<1> HIDE DEF pairs
<1>4. \A v \in V : /\ v = <<v[1], v[2]>> /\ v[1] \in pairs
                   /\ v[2] = M[v[1][2]] - M[v[1][1]] /\ v[2] \in Int /\ v[1][2] \in D
    BY <1>1, <1>3
<1>5. \A p \in pairs : <<p, M[p[2]] - M[p[1]]>> \in V
    OBVIOUS
<1> HIDE DEF V
<1>6. g \in [V -> Int] /\ \A v \in V : g[v] = v[2]
    BY <1>4
<1>7. IsFiniteSet(V)
    <2>1. f \in [V -> D]
        BY <1>4
    <2>2. ASSUME NEW v \in V, NEW u \in V, f[v] = f[u] PROVE v = u
        <3> DEFINE p == v[1]
                   q == u[1]
        <3>1. /\ p = <<p[1], p[2]>> /\ p[1] \in D /\ p[2] \in D /\ p[1] < p[2]
              /\ q = <<q[1], q[2]>> /\ q[1] \in D /\ q[2] \in D /\ q[1] < q[2]
              /\ ~(p[1] < q[1] /\ q[1] < p[2]) /\ ~(q[1] < p[1] /\ p[1] < q[2])
            BY <1>1, <1>4
        <3>2. p[2] = q[2]
            BY <2>2
        <3>3. v = <<p, M[p[2]] - M[p[1]]>> /\ u = <<q, M[q[2]] - M[q[1]]>>
            BY <1>4
        <3> HIDE DEF p, q
        <3>4. p[1] = q[1]
            BY <1>3, <3>1, <3>2
        <3> QED BY <3>1, <3>2, <3>3, <3>4
    <2> HIDE DEF f
    <2>3. f \in Injection(V, D)
        BY <2>1, <2>2 DEF Injection, IsInjective
    <2> QED BY <2>3, FS_Injection
<1>8. Sum(V) = G[V]
    <2> HIDE DEF g
    <2> QED BY <1>6, <1>7, SumOfPairs
<1>9. G[{}] = 0
    <2>1. G = [s \in SUBSET V |-> Summand(g, G, s)]
        <3> HIDE DEF g
        <3> QED BY <1>6, <1>7, SumExists
    <2> HIDE DEF G
    <2> QED BY <2>1 DEF Summand
<1>10. \A s \in SUBSET V : \A v \in s : G[s] = v[2] + G[s \ {v}]
    <2>1. \A s \in SUBSET V : \A v \in s : G[s] = g[v] + G[s \ {v}]
        <3> HIDE DEF g
        <3> QED BY <1>6, <1>7, SumAnyElement
    <2> HIDE DEF g, G
    <2> QED BY <1>6, <2>1
<1> HIDE DEF g, G, f
<1>11. 0 \in P
    <2>1. To(0) = {}
        BY <1>3, <1>4
    <2> QED BY <1>3, <1>9, <2>1
<1>12. ASSUME NEW n \in Nat, n \in P PROVE n + 1 \in P
    <2>1. CASE n + 1 \notin D
        <3>1. \A d \in D : d <= n + 1 <=> d <= n
            BY <1>3, <2>1
        <3>2. To(n + 1) = To(n)
            BY <1>4, <3>1
        <3>3. Q(n)
            BY <1>12
        <3> HIDE DEF To
        <3>4. CASE (\A d \in D : d > n) /\ G[To(n)] = 0
            BY <1>3, <3>1, <3>2, <3>4
        <3>5. ASSUME NEW k \in D, k <= n, \A d \in D : d <= n => d <= k,
                     G[To(n)] = M[k] - M[lo]
              PROVE  Q(n + 1)
            <4>1. k <= n + 1 /\ \A d \in D : d <= n + 1 => d <= k
                BY <3>1, <3>5
            <4> QED BY <3>2, <3>5, <4>1
        <3>6. Q(n + 1)
            BY <3>3, <3>4, <3>5
        <3> QED BY <3>6
    <2>2. CASE n + 1 \in D
        <3> DEFINE l == n + 1
        <3>1. l \in D /\ l <= l /\ \A d \in D : d <= l => d <= l
            BY <2>2
        <3>2. Q(n)
            BY <1>12
        <3>3. G[To(l)] = M[l] - M[lo]
            <4>1. CASE \A d \in D : d > n
                <5>1. lo = l
                    BY <1>3, <2>2, <4>1
                <5>2. To(l) = {}
                    BY <1>1, <1>3, <1>4, <4>1
                <5>3. M[l] \in Int /\ M[lo] = M[l]
                    BY <1>3, <2>2, <5>1
                <5> HIDE DEF To, l
                <5>4. M[l] - M[lo] = 0
                    BY <5>3
                <5> QED BY <1>9, <5>2, <5>4
            <4>2. ASSUME NEW k \in D, k <= n, \A d \in D : d <= n => d <= k,
                         G[To(n)] = M[k] - M[lo]
                  PROVE  G[To(l)] = M[l] - M[lo]
                <5> DEFINE p == <<k, l>>
                           v == <<p, M[l] - M[k]>>
                <5>1. p \in pairs
                    BY <1>2, <1>3, <2>2, <4>2
                <5>2. v \in V
                    BY <1>5, <5>1
                <5>3. v \in To(l) /\ v \notin To(n)
                    BY <5>2
                <5>4. ASSUME NEW u \in To(l), u # v PROVE u \in To(n)
                    <6> DEFINE q == u[1]
                    <6>1. /\ u \in V /\ q \in pairs /\ u = <<q, M[q[2]] - M[q[1]]>> /\ q[2] <= l
                        BY <1>4
                    <6>2. /\ q = <<q[1], q[2]>> /\ q[1] \in D /\ q[2] \in D /\ q[1] < q[2]
                          /\ ~(q[1] < k /\ k < q[2])
                        BY <1>1, <6>1
                    <6> HIDE DEF q
                    <6>3. q[2] # l
                        <7>1. SUFFICES ASSUME q[2] = l PROVE FALSE
                            OBVIOUS
                        <7>2. q[1] <= n
                            BY <1>3, <6>2, <7>1
                        <7>3. q[1] <= k
                            BY <4>2, <6>2, <7>2
                        <7>4. q[1] = k
                            BY <1>3, <4>2, <6>2, <7>1, <7>3
                        <7>5. q = p
                            BY <6>2, <7>1, <7>4
                        <7> QED BY <5>4, <6>1, <7>1, <7>4, <7>5
                    <6>4. q[2] <= n
                        BY <1>3, <6>1, <6>2, <6>3
                    <6> QED BY <6>1, <6>4 DEF q
                <5>5. To(n) \subseteq To(l)
                    BY <1>3, <1>4
                <5>6. To(l) \in SUBSET V
                    OBVIOUS
                <5> HIDE DEF To, v, l
                <5>7. To(l) \ {v} = To(n)
                    BY <5>3, <5>4, <5>5
                <5>8. G[To(l)] = v[2] + G[To(n)]
                    BY <1>10, <5>3, <5>6, <5>7
                <5>9. v[2] = M[l] - M[k]
                    BY DEF v
                <5>10. M[l] \in Int /\ M[k] \in Int /\ M[lo] \in Int
                    BY <1>3, <3>1
                <5> QED BY <4>2, <5>8, <5>9, <5>10
            <4>3. (\A d \in D : d > n) \/ \E k \in D : /\ k <= n /\ \A d \in D : d <= n => d <= k
                                                     /\ G[To(n)] = M[k] - M[lo]
                BY <3>2
            <4> QED BY <4>1, <4>2, <4>3
        <3>4. Q(n + 1)
            BY <3>1, <3>3
        <3> HIDE DEF Q
        <3> QED BY <3>4
    <2> QED BY <2>1, <2>2
<1>13. Nat \subseteq P
    <2> HIDE DEF P
    <2> QED BY <1>11, <1>12, EveryNatural
<1>14. Q(hi)
    BY <1>3, <1>13
<1>15. To(hi) = V
    BY <1>4
<1>16. G[V] = M[hi] - M[lo]
    <2>1. ~(\A d \in D : d > hi)
        BY <1>3
    <2>2. PICK k \in D : /\ k <= hi /\ \A d \in D : d <= hi => d <= k
                         /\ G[To(hi)] = M[k] - M[lo]
        BY <1>14, <2>1
    <2>3. hi <= k /\ k <= hi
        BY <1>3, <2>2
    <2>4. k = hi
        BY <1>3, <2>3
    <2> QED BY <1>15, <2>2, <2>4
<1> QED
    BY <1>8, <1>16 DEF V, pairs


(* The close of a day is the row of it that no later one follows.            *)
LatestOf(log0, d, i) ==
    /\ i \in 1..Len(log0) /\ log0[i].day = d
    /\ \A j \in 1..Len(log0) : log0[j].day = d => j <= i

LEMMA CloseIsLatest ==
    ASSUME NEW log0 \in Seq(RaceRows), NEW d, NEW i, LatestOf(log0, d, i)
    PROVE  CloseOf(log0, d) = log0[i]
<1> DEFINE I == {j \in 1..Len(log0) : log0[j].day = d}
<1>1. i \in I /\ \A j \in I : i >= j
    BY DEF LatestOf
<1>2. \A j \in I : (\A k \in I : j >= k) => j = i
    BY <1>1
<1>3. CloseOf(log0, d) = log0[IF I # {} THEN Max(I) ELSE 0]
    BY DEF CloseOf, SelectLastInSeq
<1> HIDE DEF I
<1>4. Max(I) = i
    BY <1>1, <1>2 DEF Max
<1> QED BY <1>1, <1>3, <1>4

(* The closes of a ring to which a row is appended: that row is the close of *)
(* its day, and those of the other days that are left are what they were.    *)
LEMMA AppendedCloses ==
    ASSUME NEW s \in Seq(RaceRows), NEW r \in RaceRows, NEW k \in Nat \ {0}, NEW d,
           d \in Days(Newest(Append(s, r), k)),
           d \in Days(s) => \E i : LatestOf(s, d, i)
    PROVE  LET t == Newest(Append(s, r), k)
           IN  \E i : /\ LatestOf(t, d, i)
                      /\ d = r.day => t[i] = r
                      /\ d # r.day => \E j : LatestOf(s, d, j) /\ t[i] = s[j]
<1> DEFINE a == Append(s, r)
           m == IF Len(a) > k THEN Len(a) - k + 1 ELSE 1
           t == SubSeq(a, m, Len(a))
<1>1. a \in Seq(RaceRows) /\ Len(a) = Len(s) + 1 /\ Len(s) \in Nat
    OBVIOUS
<1>2. a[Len(s) + 1] = r /\ \A i \in 1..Len(s) : a[i] = s[i]
    OBVIOUS
<1> HIDE DEF a
<1>3. m \in 1..Len(a)
    BY <1>1
<1> HIDE DEF m
<1>4. t \in Seq(RaceRows) /\ Len(t) = Len(a) - m + 1 /\ Len(t) \in Nat \ {0}
    BY <1>1, <1>3
<1>5. \A i \in 1..Len(t) : m + i - 1 \in 1..Len(a) /\ t[i] = a[m + i - 1]
    BY <1>1, <1>3, <1>4
<1>6. Newest(Append(s, r), k) = t
    BY DEF Newest, t, m, a
<1> HIDE DEF t
<1>7. CASE d = r.day
    <2>1. t[Len(t)] = r
        <3>1. m + Len(t) - 1 = Len(s) + 1
            BY <1>1, <1>3, <1>4
        <3> QED BY <1>2, <1>4, <1>5, <3>1
    <2>2. LatestOf(t, d, Len(t))
        BY <1>4, <1>7, <2>1 DEF LatestOf
    <2> QED BY <1>6, <1>7, <2>1, <2>2
<1>8. CASE d # r.day
    <2>1. PICK j \in 1..Len(t) : t[j].day = d
        BY <1>4, <1>6 DEF Days
    <2>2. m + j - 1 \in 1..Len(s)
        <3>1. m + j - 1 # Len(s) + 1
            BY <1>2, <1>5, <1>8, <2>1
        <3> QED BY <1>1, <1>5, <2>1, <3>1
    <2>3. d \in Days(s)
        <3>1. s[m + j - 1].day = d
            BY <1>2, <1>5, <2>1, <2>2
        <3> QED BY <2>2, <3>1 DEF Days
    <2>4. PICK l : LatestOf(s, d, l)
        BY <2>3
    <2>5. l \in 1..Len(s) /\ m + j - 1 <= l
        BY <1>2, <1>5, <2>1, <2>2, <2>4 DEF LatestOf
    <2> DEFINE i == l - m + 1
    <2>6. i \in 1..Len(t) /\ m + i - 1 = l
        BY <1>1, <1>3, <1>4, <2>1, <2>5
    <2>7. t[i] = s[l]
        BY <1>2, <1>5, <2>5, <2>6
    <2>8. ASSUME NEW x \in 1..Len(t), t[x].day = d PROVE x <= i
        <3> DEFINE y == m + x - 1
        <3>1. y \in 1..Len(a) /\ t[x] = a[y]
            BY <1>5
        <3>2. y # Len(s) + 1
            BY <1>2, <1>8, <2>8, <3>1
        <3>3. y \in 1..Len(s)
            BY <1>1, <3>1, <3>2
        <3>4. s[y].day = d
            BY <1>2, <2>8, <3>1, <3>3
        <3>5. y <= l
            BY <2>4, <3>3, <3>4 DEF LatestOf
        <3> QED BY <1>1, <1>3, <2>5, <2>6, <3>5
    <2> HIDE DEF i
    <2>9. LatestOf(t, d, i)
        BY <2>4, <2>6, <2>7, <2>8 DEF LatestOf
    <2> QED BY <1>6, <1>8, <2>4, <2>7, <2>9
<1> QED BY <1>7, <1>8

(* What is kept of the marks of a day is the last one that was saved, and    *)
(* the readout is of the rows it was saved with.                             *)
ClosesAreMarked ==
    \A d \in Days(saved.rows) :
        \E i : /\ LatestOf(saved.rows, d, i)
               /\ saved.rows[i].book = marked[d].book /\ saved.rows[i].legs = marked[d].legs

ReadoutIsOfRows ==
    /\ saved.readout.edge = Edge(saved.rows, saved.readout.since, "book")
    /\ saved.readout.common = Edge(saved.rows, saved.readout.since, "legs")

(* A tick appends its mark of the book and of the legs.                      *)
LEMMA MarkIsAppended ==
    ASSUME RaceBounds, RaceInv, NEW move \in [legs : Int, crypto : Int], NEW text
    PROVE  LET kept == Notes(Marks(Bounded(saved), move), text)
           IN  kept.rows = Newest(Append(saved.rows, [day |-> now.day, book |-> kept.book, legs |-> kept.legs]),
                                  RaceRing)
<1> DEFINE b  == Bounded(saved)
           m  == Marks(b, move)
           kept == Notes(m, text)
<1>1. DOMAIN saved = RaceFields
    BY DEF RaceInv
<1>2. DOMAIN b = RaceFields /\ b.rows = saved.rows
    BY <1>1 DEF Bounded, RaceFields
<1> HIDE DEF b
<1>3. /\ DOMAIN m = RaceFields
      /\ m.rows = Newest(Append(b.rows, [day |-> now.day, book |-> m.book, legs |-> m.legs]), RaceRing)
    BY <1>2 DEF Marks, RaceFields
<1> HIDE DEF m
<1>4. kept.book = m.book /\ kept.legs = m.legs /\ kept.rows = m.rows
    BY <1>3 DEF Notes, RaceFields
<1> QED
    BY <1>2, <1>3, <1>4 DEF m, b

(* No step makes the readout and the marks part.                             *)
LEMMA ReadoutStep ==
    ASSUME RaceBounds, RaceInv, ClosesAreMarked, ReadoutIsOfRows, [RaceNext]_raceVars
    PROVE  ClosesAreMarked' /\ ReadoutIsOfRows'
<1>1. ASSUME UNCHANGED marked, saved'.rows = saved.rows, saved'.readout = saved.readout
      PROVE  ClosesAreMarked' /\ ReadoutIsOfRows'
    <2>1. Days(saved.rows)' = Days(saved.rows)
        BY <1>1 DEF Days
    <2>2. ClosesAreMarked'
        BY <1>1, <2>1 DEF ClosesAreMarked, LatestOf
    <2>3. /\ saved'.readout.edge = Edge(saved'.rows, saved'.readout.since, "book")
          /\ saved'.readout.common = Edge(saved'.rows, saved'.readout.since, "legs")
        BY <1>1 DEF ReadoutIsOfRows
    <2> QED BY <2>2, <2>3 DEF ReadoutIsOfRows
<1>2. CASE RaceTick
    <2> DEFINE text == Text(now.day, now.ticks)
               late == now.ticks >= LateTick
               st0  == Notes(Marks(Bounded(saved), Move(now.day, now.ticks)), text)
               test == Tested(st0)
    <2>1. PICK source \in {"anthropic", "other"}, data \in {"weak", "mismatch", "strong"},
               arrives \in BOOLEAN, saves \in BOOLEAN :
            LET st1 == Stamps([st0 EXCEPT !.readout = Readout(st0, test, data)], source)
                due == DigestDue(st1, late)
                st2 == IF due THEN Delivered(st1, arrives) ELSE st1
            IN /\ now.ticks < TicksPerDay /\ (arrives => due)
               /\ now' = [now EXCEPT !.ticks = @ + 1]
               /\ message' = IF arrives THEN Digest(st1) ELSE Silence
               /\ \/ saves /\ saved' = st2 /\ UNCHANGED kills
                     /\ marked' = [d \in DOMAIN marked \cup {now.day} |->
                                     IF d = now.day THEN [book |-> st2.book, legs |-> st2.legs, release |-> release]
                                                      ELSE marked[d]]
                     /\ waiting' = IF arrives THEN <<>> ELSE Noted(waiting, text)
                  \/ ~saves /\ kills < MaxKills /\ kills' = kills + 1 /\ UNCHANGED <<saved, marked, waiting>>
               /\ UNCHANGED release
        BY <1>2 DEF RaceTick
    <2> DEFINE read == [st0 EXCEPT !.readout = Readout(st0, test, data)]
               st1  == Stamps(read, source)
               due  == DigestDue(st1, late)
               st2  == IF due THEN Delivered(st1, arrives) ELSE st1
               mark0  == [day |-> now.day, book |-> st0.book, legs |-> st0.legs]
    <2>2. \/ /\ saved' = st2
             /\ marked' = [d \in DOMAIN marked \cup {now.day} |->
                             IF d = now.day THEN [book |-> st2.book, legs |-> st2.legs, release |-> release]
                                              ELSE marked[d]]
          \/ UNCHANGED <<saved, marked>>
        BY <2>1
    <2>3. now.day \in 1..LastDay /\ Move(now.day, now.ticks) \in [legs : Int, crypto : Int]
        BY DEF RaceInv, RaceBounds
    <2>4. /\ DOMAIN st0 = RaceFields /\ st0.book \in Int /\ st0.legs \in Int
          /\ st0.rows \in Seq(RaceRows)
        BY <2>3, MarkedAndNoted
    <2>5. st0.rows = Newest(Append(saved.rows, mark0), RaceRing)
        BY <2>3, MarkIsAppended
    <2>6. mark0 \in RaceRows /\ mark0.day = now.day /\ mark0.book = st0.book /\ mark0.legs = st0.legs
        BY <2>3, <2>4 DEF RaceRows
    <2> HIDE DEF st0, mark0
    <2>7. DOMAIN read = RaceFields /\ read.readout = Readout(st0, test, data)
          /\ read.book = st0.book /\ read.legs = st0.legs /\ read.rows = st0.rows
        BY <2>4 DEF RaceFields
    <2> HIDE DEF read
    <2>8. DOMAIN st1 = RaceFields /\ st1.readout = Readout(st0, test, data)
          /\ st1.book = st0.book /\ st1.legs = st0.legs /\ st1.rows = st0.rows
        BY <2>7 DEF Stamps, RaceFields
    <2> HIDE DEF st1, due
    <2>9. st2.readout = Readout(st0, test, data)
          /\ st2.book = st0.book /\ st2.legs = st0.legs /\ st2.rows = st0.rows
        BY <2>8 DEF Delivered, Cleared, RaceFields
    <2> HIDE DEF st2
    <2>10. /\ Readout(st0, test, data).since = st0.clock
           /\ Readout(st0, test, data).edge = Edge(st0.rows, st0.clock, "book")
           /\ Readout(st0, test, data).common = Edge(st0.rows, st0.clock, "legs")
        BY DEF Readout, Tested
    <2>11. CASE /\ saved' = st2
                /\ marked' = [d \in DOMAIN marked \cup {now.day} |->
                                IF d = now.day THEN [book |-> st2.book, legs |-> st2.legs, release |-> release]
                                                 ELSE marked[d]]
        <3>1. saved'.rows = st0.rows /\ saved'.readout = Readout(st0, test, data)
            BY <2>9, <2>11
        <3>2. ReadoutIsOfRows'
            BY <2>10, <3>1 DEF ReadoutIsOfRows
        <3>3. ASSUME NEW d \in Days(st0.rows)
              PROVE  \E i : /\ LatestOf(st0.rows, d, i)
                            /\ st0.rows[i].book = marked'[d].book /\ st0.rows[i].legs = marked'[d].legs
            <4>1. saved.rows \in Seq(RaceRows) /\ RaceRing \in Nat \ {0}
                BY DEF RaceInv, RaceBounds
            <4>2. d \in Days(saved.rows) => \E i : LatestOf(saved.rows, d, i)
                BY DEF ClosesAreMarked
            <4>3. PICK i : /\ LatestOf(st0.rows, d, i)
                           /\ d = mark0.day => st0.rows[i] = mark0
                           /\ d # mark0.day => \E j : LatestOf(saved.rows, d, j) /\ st0.rows[i] = saved.rows[j]
                BY <2>5, <2>6, <3>3, <4>1, <4>2, AppendedCloses
            <4>4. CASE d = now.day
                <5>1. marked'[d].book = st0.book /\ marked'[d].legs = st0.legs
                    BY <2>9, <2>11, <4>4
                <5> QED BY <2>6, <4>3, <4>4, <5>1
            <4>5. CASE d # now.day
                <5>1. PICK j : LatestOf(saved.rows, d, j) /\ st0.rows[i] = saved.rows[j]
                    BY <2>6, <4>3, <4>5
                <5>2. d \in Days(saved.rows)
                    BY <4>1, <5>1 DEF Days, LatestOf
                <5>3. PICK l : /\ LatestOf(saved.rows, d, l)
                               /\ saved.rows[l].book = marked[d].book /\ saved.rows[l].legs = marked[d].legs
                    BY <5>2 DEF ClosesAreMarked
                <5>4. l = j
                    BY <5>1, <5>3 DEF LatestOf
                <5>5. d \in DOMAIN marked
                    BY <5>2 DEF RaceInv
                <5>6. marked'[d] = marked[d]
                    BY <2>11, <4>5, <5>5
                <5> QED BY <4>3, <5>1, <5>3, <5>4, <5>6
            <4> QED BY <4>4, <4>5
        <3>4. Days(saved.rows)' = Days(st0.rows)
            BY <3>1 DEF Days
        <3>5. ClosesAreMarked'
            BY <3>1, <3>3, <3>4 DEF ClosesAreMarked, LatestOf
        <3> QED BY <3>2, <3>5
    <2>12. CASE UNCHANGED <<saved, marked>>
        BY <1>1, <2>12
    <2> QED BY <2>2, <2>11, <2>12
<1>3. CASE NewDay
    BY <1>1, <1>3 DEF NewDay
<1>4. CASE Deploys
    BY <1>1, <1>4 DEF Deploys
<1>5. CASE ClearsClock
    <2>1. UNCHANGED marked /\ saved' = [saved EXCEPT !.clock = 0]
        BY <1>5 DEF ClearsClock
    <2>2. saved'.rows = saved.rows /\ saved'.readout = saved.readout
        BY <2>1 DEF RaceInv, RaceFields
    <2> QED BY <1>1, <2>1, <2>2
<1>6. CASE UNCHANGED raceVars
    BY <1>1, <1>6 DEF raceVars
<1> QED
    BY <1>2, <1>3, <1>4, <1>5, <1>6 DEF RaceNext

(* The days of a finite set of closes have a last one.                       *)
LEMMA LastIsThere ==
    ASSUME NEW S, NEW n \in Nat, S \subseteq 1..n, S # {}
    PROVE  \E x \in S : \A y \in S : x >= y
<1> DEFINE R == {n - x : x \in S}
<1>1. R \subseteq Nat /\ R # {}
    <2>1. \A x \in S : n - x \in Nat
        OBVIOUS
    <2> QED BY <2>1
<1>2. Min(R) \in R /\ \A y \in R : Min(R) =< y
    <2> HIDE DEF R
    <2> QED BY <1>1, LeastIsThere
<1>3. PICK x \in S : Min(R) = n - x
    BY <1>2
<1>4. \A y \in S : n - x =< n - y
    BY <1>2, <1>3
<1>5. \A y \in S : x >= y
    BY <1>4
<1> QED BY <1>5

(* The returns of a readout add up to the move between its first and its     *)
(* last close, in either log.                                                *)
LEMMA EdgeTelescopes ==
    ASSUME RaceBounds, RaceInv, ClosesAreMarked, NEW clock, NEW log \in {"book", "legs"}
    PROVE  LET D == Counted(saved.rows, clock)
           IN  /\ D = {} => Edge(saved.rows, clock, log) = 0
               /\ \A lo, hi \in D : (\A d \in D : lo <= d /\ d <= hi) =>
                      Edge(saved.rows, clock, log) = marked[hi][log] - marked[lo][log]
<1> DEFINE D == Counted(saved.rows, clock)
           M == [d \in D |-> marked[d][log]]
           E == {<<p, CloseOf(saved.rows, p[2])[log] - CloseOf(saved.rows, p[1])[log]>> : p \in Spans(D)}
           F == {<<p, M[p[2]] - M[p[1]]>> : p \in Spans(D)}
<1>1. D \subseteq Days(saved.rows) /\ D \subseteq Trading
    BY DEF Counted, TradingDaysOnly
<1>2. LastDay \in Nat /\ Trading \subseteq 1..LastDay
    BY DEF RaceBounds
<1>3. Edge(saved.rows, clock, log) = Sum(E)
    BY DEF Edge, Returns
<1> HIDE DEF D
<1>4. IsFiniteSet(D) /\ D \subseteq Nat \ {0}
    <2>1. IsFiniteSet(1..LastDay)
        BY <1>2, FS_Interval
    <2>2. D \subseteq 1..LastDay
        BY <1>1, <1>2
    <2>3. 1..LastDay \subseteq Nat \ {0}
        BY <1>2
    <2> QED BY <2>1, <2>2, <2>3, FS_Subset
<1>5. ASSUME NEW d \in D
      PROVE  CloseOf(saved.rows, d)[log] = M[d] /\ M[d] \in Int
    <2>1. PICK i : /\ LatestOf(saved.rows, d, i)
                   /\ saved.rows[i].book = marked[d].book /\ saved.rows[i].legs = marked[d].legs
        BY <1>1 DEF ClosesAreMarked
    <2>2. saved.rows \in Seq(RaceRows)
        BY DEF RaceInv
    <2>3. saved.rows[i] \in RaceRows
        BY <2>1, <2>2 DEF LatestOf
    <2>4. CloseOf(saved.rows, d) = saved.rows[i]
        BY <2>1, <2>2, CloseIsLatest
    <2>5. saved.rows[i][log] = marked[d][log] /\ saved.rows[i][log] \in Int
        BY <2>1, <2>3 DEF RaceRows
    <2> QED BY <2>4, <2>5
<1>6. M \in [D -> Int]
    BY <1>5
<1>7. \A p \in Spans(D) : p[1] \in D /\ p[2] \in D
    BY DEF Spans
<1>8. E = F
    <2> HIDE DEF M
    <2> QED BY <1>5, <1>7
<1>9. D = {} => Sum(E) = 0
    <2>1. SUFFICES ASSUME D = {} PROVE Sum(E) = 0
        OBVIOUS
    <2>2. E = {}
        BY <1>7, <2>1
    <2> DEFINE g == [v \in E |-> v[2]]
    <2> HIDE DEF E
    <2>3. g \in [E -> Int] /\ (\A v \in E : g[v] = v[2]) /\ IsFiniteSet(E)
        BY <2>2, FS_EmptySet
    <2> HIDE DEF g
    <2>4. Sum(E) = SumOf(g, E)[E]
        BY <2>3, SumOfPairs
    <2>5. SumOf(g, E) = [s \in SUBSET E |-> Summand(g, SumOf(g, E), s)]
        BY <2>3, SumExists
    <2>6. SumOf(g, E)[E] = 0
        <3> DEFINE G == SumOf(g, E)
        <3>1. G = [s \in SUBSET E |-> Summand(g, G, s)]
            BY <2>5
        <3> HIDE DEF G
        <3>2. G[E] = 0
            BY <2>2, <3>1 DEF Summand
        <3> QED BY <3>2 DEF G
    <2> QED BY <2>4, <2>6
<1>10. ASSUME NEW lo \in D, NEW hi \in D, \A d \in D : lo <= d /\ d <= hi
       PROVE  Sum(E) = marked[hi][log] - marked[lo][log]
    <2>1. M[hi] = marked[hi][log] /\ M[lo] = marked[lo][log]
        OBVIOUS
    <2> HIDE DEF M
    <2>2. Sum(F) = M[hi] - M[lo]
        BY <1>4, <1>6, <1>10, DifferencesTelescope
    <2> HIDE DEF E, F
    <2> QED BY <1>8, <2>1, <2>2
<1> QED
    BY <1>3, <1>9, <1>10 DEF D

(* "Monday's return spans Friday's close and carries the whole weekend move  *)
(* exactly once" (backtest/metrics.py): in every state the paired returns of *)
(* the readout add up to what the race moved between the first and the last  *)
(* trading close of its window, for every calendar, every ring, and whatever *)
(* ticks die.                                                                *)
THEOREM EveryMoveCountsOnceHolds ==
    ASSUME RaceBounds PROVE RaceSpec => []EveryMoveCountsOnce
<1> DEFINE Inv == RaceInv /\ ClosesAreMarked /\ ReadoutIsOfRows
<1>1. ASSUME RaceInit PROVE Inv
    <2>1. RaceInv
        BY <1>1, RaceFirst
    <2>2. saved.rows = <<>> /\ saved.readout = NoReadout
        BY <1>1 DEF RaceInit
    <2>3. Days(saved.rows) = {}
        BY <2>2 DEF Days
    <2>4. ClosesAreMarked
        BY <2>3 DEF ClosesAreMarked
    <2>5. Counted(saved.rows, 0) = {}
        BY <2>3 DEF Counted, TradingDaysOnly
    <2>6. Edge(saved.rows, 0, "book") = 0 /\ Edge(saved.rows, 0, "legs") = 0
        BY <2>1, <2>4, <2>5, EdgeTelescopes
    <2> QED BY <2>1, <2>2, <2>4, <2>6 DEF ReadoutIsOfRows, NoReadout
<1>2. Inv /\ [RaceNext]_raceVars => Inv'
    BY RaceStep, ReadoutStep
<1>3. ASSUME Inv PROVE EveryMoveCountsOnce
    <2> DEFINE r == saved.readout
               days == Window(r)
               moved(log) == IF days = {} THEN 0 ELSE
                      LET first == CHOOSE d \in days : \A e \in days : d <= e
                          last == CHOOSE d \in days : \A e \in days : d >= e
                      IN marked[last][log] - marked[first][log]
    <2>1. days = Counted(saved.rows, r.since)
        <3>1. Days(saved.rows) \subseteq DOMAIN marked
            BY <1>3 DEF RaceInv
        <3> QED BY <3>1 DEF Window, Counted, TradingDaysOnly
    <2>2. LastDay \in Nat /\ days \subseteq 1..LastDay
        BY DEF Window, RaceBounds
    <2> HIDE DEF days
    <2>3. ASSUME NEW log \in {"book", "legs"}
          PROVE  Edge(saved.rows, r.since, log) = moved(log)
        <3>1. /\ days = {} => Edge(saved.rows, r.since, log) = 0
              /\ \A lo, hi \in days : (\A d \in days : lo <= d /\ d <= hi) =>
                     Edge(saved.rows, r.since, log) = marked[hi][log] - marked[lo][log]
            BY <1>3, <2>1, EdgeTelescopes
        <3>2. CASE days = {}
            BY <3>1, <3>2
        <3>3. CASE days # {}
            <4> DEFINE first == CHOOSE d \in days : \A e \in days : d <= e
                       last == CHOOSE d \in days : \A e \in days : d >= e
            <4>1. \E d \in days : \A e \in days : d <= e
                <5>1. days \subseteq Nat
                    BY <2>2
                <5> QED BY <3>3, <5>1, LeastIsThere
            <4>2. \E d \in days : \A e \in days : d >= e
                BY <2>2, <3>3, LastIsThere
            <4>3. first \in days /\ last \in days /\ \A e \in days : first <= e /\ last >= e
                BY <4>1, <4>2
            <4>4. moved(log) = marked[last][log] - marked[first][log]
                BY <3>3
            <4> HIDE DEF first, last
            <4>5. \A e \in days : first <= e /\ e <= last
                BY <2>2, <4>3
            <4> QED BY <3>1, <4>3, <4>4, <4>5
        <3> QED BY <3>2, <3>3
    <2>4. r.edge = Edge(saved.rows, r.since, "book") /\ r.common = Edge(saved.rows, r.since, "legs")
        BY <1>3 DEF ReadoutIsOfRows
    <2>5. r.edge = moved("book") /\ r.common = moved("legs")
        BY <2>3, <2>4
    <2> QED BY <2>5 DEF EveryMoveCountsOnce, days
<1> QED
    BY <1>1, <1>2, <1>3, PTL DEF RaceSpec

(* ----------------------- the ring and the daily closes ------------------- *)
Lines   == Rows \cup {Torn}
DaysOf(l) == {l[i].day : i \in DOMAIN l}

(* What may have been marked since the close of a day, and how many days a   *)
(* close may wait for its line: a night that was missed delays it by one, a  *)
(* torn line by as many as may be missed before the backup after it, and a   *)
(* line whose damage is still at the end of the ledger delays the next one.  *)
Behind(d) == MarksPerDay * (day - d - 1) + marks
Waits     == missed + (MaxMissed + 1) * (torn - (IF open THEN 1 ELSE 0))

TrueLines(l) ==
    /\ \A i \in DOMAIN l : l[i] # Torn => l[i].value = closes[l[i].day] /\ l[i].day < day
    /\ \A i, j \in DOMAIN l : i # j /\ l[i] # Torn => l[i].day # l[j].day

(* The ring holds the close of every day that not too much was marked since, *)
(* as the last mark of that day, and a day without a line is such a day.     *)
BackupInv ==
    /\ day \in 1..LedgerDays /\ marks \in 0..MarksPerDay /\ open \in BOOLEAN
    /\ missed \in 0..(MaxMissed + 1) /\ torn \in 0..MaxTorn /\ (open => torn > 0)
    /\ closes \in [1..LedgerDays -> Values \cup {0}]
    /\ ring \in Seq(Rows) /\ Len(ring) <= MarksKept
    /\ ledger \in Seq(Lines)
    /\ \A i \in DOMAIN ring : ring[i].day <= day
    /\ marks > 0 => Len(ring) > 0 /\ ring[Len(ring)] = [day |-> day, value |-> closes[day]]
    /\ \A d \in 1..(day - 1) : Behind(d) < MarksKept =>
          \E i \in DOMAIN ring : /\ ring[i] = [day |-> d, value |-> closes[d]] /\ Len(ring) - i <= Behind(d)
                                 /\ \A j \in DOMAIN ring : j > i => ring[j].day > d
    /\ \A d \in 1..(day - 1) : d \in Seen \/ day - d <= Waits
    /\ TrueLines(ledger)

(* In a finite set whose members are numbered apart, each rank below its     *)
(* size is somebody's, and nobody else's.                                    *)
LEMMA RankIsOnto ==
    ASSUME NEW ds, IsFiniteSet(ds), NEW key \in [ds -> Nat],
           \A x, z \in ds : key[x] = key[z] => x = z
    PROVE  LET rank(x) == Cardinality({y \in ds : key[y] < key[x]})
           IN  /\ Cardinality(ds) \in Nat
               /\ \A i \in 1..Cardinality(ds) : \E x \in ds : rank(x) = i - 1
               /\ \A x \in ds : rank(x) \in 0..(Cardinality(ds) - 1)
               /\ \A x, z \in ds : rank(x) = rank(z) => x = z
<1> DEFINE below(x) == {y \in ds : key[y] < key[x]}
           n    == Cardinality(ds)
           T    == 0..(n - 1)
           rank == [x \in ds |-> Cardinality(below(x))]
<1>1. n \in Nat
    BY FS_CardinalityType
<1>2. ASSUME NEW x \in ds PROVE IsFiniteSet(below(x)) /\ Cardinality(below(x)) \in T
    <2>1. IsFiniteSet(ds \ {x}) /\ Cardinality(ds \ {x}) = n - 1
        BY FS_RemoveElement
    <2>2. below(x) \subseteq ds \ {x}
        OBVIOUS
    <2>3. IsFiniteSet(below(x)) /\ Cardinality(below(x)) <= n - 1
        BY <2>1, <2>2, FS_Subset
    <2>4. Cardinality(below(x)) \in Nat
        BY <2>3, FS_CardinalityType
    <2> HIDE DEF n
    <2> QED BY <1>1, <2>3, <2>4
<1>3. ASSUME NEW x \in ds, NEW z \in ds, key[x] < key[z] PROVE Cardinality(below(x)) < Cardinality(below(z))
    <2>1. below(x) \cup {x} \subseteq below(z) /\ x \notin below(x)
        <3>1. key[x] \in Nat /\ key[z] \in Nat /\ x \in below(z) /\ x \notin below(x)
            BY <1>3
        <3>2. ASSUME NEW y \in below(x) PROVE y \in below(z)
            <4>1. y \in ds /\ key[y] \in Nat /\ key[y] < key[x]
                OBVIOUS
            <4>2. key[y] < key[z]
                BY <1>3, <3>1, <4>1
            <4> QED BY <4>1, <4>2
        <3> HIDE DEF below
        <3> QED BY <3>1, <3>2
    <2>2. IsFiniteSet(below(x)) /\ IsFiniteSet(below(z))
          /\ Cardinality(below(x)) \in Nat /\ Cardinality(below(z)) \in Nat
        BY <1>2, FS_CardinalityType
    <2>3. Cardinality(below(x) \cup {x}) = Cardinality(below(x)) + 1
        BY <2>1, <2>2, FS_AddElement
    <2>4. Cardinality(below(x) \cup {x}) <= Cardinality(below(z))
        BY <2>1, <2>2, FS_Subset
    <2> QED BY <2>2, <2>3, <2>4
<1>4. \A x, z \in ds : Cardinality(below(x)) = Cardinality(below(z)) => x = z
    <2>1. ASSUME NEW x \in ds, NEW z \in ds, Cardinality(below(x)) = Cardinality(below(z)) PROVE x = z
        <3>1. key[x] \in Nat /\ key[z] \in Nat /\ Cardinality(below(x)) \in Nat
            BY <1>2, FS_CardinalityType
        <3>2. ~(key[x] < key[z]) /\ ~(key[z] < key[x])
            BY <1>3, <2>1, <3>1
        <3> QED BY <3>1, <3>2
    <2> QED BY <2>1
<1>5. IsFiniteSet(T) /\ Cardinality(T) = n
    <2>1. 0 \in Int /\ n - 1 \in Int /\ (IF 0 > n - 1 THEN 0 ELSE (n - 1) - 0 + 1) = n
        BY <1>1
    <2> QED BY <2>1, FS_Interval
<1> HIDE DEF T, n, below
<1>6. rank \in Injection(ds, T)
    BY <1>2, <1>4 DEF Injection, IsInjective
<1>7. rank \in Surjection(ds, T)
    BY <1>5, <1>6, FS_Injection DEF n
<1>8. ASSUME NEW i \in 1..n PROVE \E x \in ds : Cardinality(below(x)) = i - 1
    <2>1. i - 1 \in T
        BY <1>1 DEF T
    <2> QED BY <1>7, <2>1 DEF Surjection
<1> QED
    BY <1>1, <1>2, <1>4, <1>8 DEF T, n, below

(* A day that the ledger does not have yet is still in the ring, however     *)
(* many nights were missed and lines torn within the bounds.                 *)
LEMMA UnwrittenIsInRing ==
    ASSUME BackupBounds, BackupInv, NEW d \in 1..(day - 1), d \notin Seen
    PROVE  Behind(d) < MarksKept
<1> DEFINE M == MaxMissed + 1
           T == MaxTorn + 1
           o == torn - (IF open THEN 1 ELSE 0)
           w == day - d
<1>1. /\ M \in Nat /\ T \in Nat /\ MarksPerDay \in Nat /\ MarksKept \in Nat
      /\ marks \in Nat /\ marks <= MarksPerDay /\ MarksKept > MarksPerDay * M * T
    <2>1. /\ MaxMissed \in Nat /\ MaxTorn \in Nat /\ MarksPerDay \in Nat /\ MarksKept \in Nat
          /\ marks \in 0..MarksPerDay
        BY DEF BackupBounds, BackupInv
    <2>2. MarksKept > MarksPerDay * M * T
        BY DEF BackupBounds
    <2> QED BY <2>1, <2>2
<1>2. o \in Nat /\ o <= T - 1
    BY SMTT(30) DEF BackupBounds, BackupInv
<1>3. w \in Nat /\ d \in Nat /\ day \in Nat /\ missed \in Nat /\ missed <= M
    BY DEF BackupBounds, BackupInv
<1>4. w <= missed + M * o
    BY DEF BackupInv, Waits
<1> HIDE DEF M, T, o
<1>5. M * o <= M * (T - 1)
    BY <1>1, <1>2
<1>6. M * (T - 1) = M * T - M /\ M * o \in Nat /\ M * T \in Nat
    BY <1>1, <1>2
<1>7. w <= M * T
    BY <1>3, <1>4, <1>5, <1>6, <1>1
<1>8. MarksPerDay * w <= MarksPerDay * (M * T)
    BY <1>1, <1>3, <1>6, <1>7
<1>9. MarksPerDay * (M * T) = MarksPerDay * M * T
    BY <1>1
<1>10. MarksPerDay * (w - 1) = MarksPerDay * w - MarksPerDay /\ MarksPerDay * w \in Nat
    BY <1>1, <1>3
<1>11. Behind(d) = MarksPerDay * (w - 1) + marks
    BY DEF Behind
<1> HIDE DEF w
<1> QED
    BY <1>1, <1>8, <1>9, <1>10, <1>11

(* Rows that may be added to the ledger: closes of completed days that it    *)
(* does not have, each once.                                                 *)
NewRows(r) ==
    /\ r \in Seq(Rows)
    /\ \A i \in DOMAIN r : r[i].value = closes[r[i].day] /\ r[i].day < day /\ r[i].day \notin Seen
    /\ \A i, j \in DOMAIN r : i # j => r[i].day # r[j].day

Pending == {d \in 1..LedgerDays : d < day /\ d \notin Seen /\ \E i \in DOMAIN ring : ring[i].day = d}

(* update_equity_ledger finds every completed day without a line, each with  *)
(* its close.                                                                *)
LEMMA DueIsPending ==
    ASSUME BackupBounds, BackupInv
    PROVE  /\ NewRows(Due) /\ DaysOf(Due) = Pending
           /\ \A d \in 1..(day - 1) : d \in Seen \/ d \in Pending
<1> DEFINE n  == Cardinality(Pending)
           rank(x) == Cardinality({y \in Pending : y < x})
           at(i) == CHOOSE x \in Pending : rank(x) = i - 1
           line(i) == [day |-> at(i), value |-> CloseIn(at(i))]
           due == Due
<1>1. LedgerDays \in Nat /\ day \in 1..LedgerDays
    BY DEF BackupBounds, BackupInv
<1>2. Pending \subseteq Nat /\ Pending \subseteq 1..LedgerDays /\ IsFiniteSet(Pending)
    <2>1. IsFiniteSet(1..LedgerDays)
        BY <1>1, FS_Interval
    <2> QED BY <1>1, <2>1, FS_Subset DEF Pending
<1>3. due = [i \in 1..n |-> line(i)]
    BY DEF Due, Completed, Pending
<1>r. /\ n \in Nat
      /\ \A i \in 1..n : \E x \in Pending : rank(x) = i - 1
      /\ \A x \in Pending : rank(x) \in 0..(n - 1)
      /\ \A x, z \in Pending : rank(x) = rank(z) => x = z
    <2> DEFINE key == [x \in Pending |-> x]
               byKey(x) == Cardinality({y \in Pending : key[y] < key[x]})
    <2>1. key \in [Pending -> Nat] /\ \A x, z \in Pending : key[x] = key[z] => x = z
        BY <1>2
    <2>2. \A x \in Pending : {y \in Pending : key[y] < key[x]} = {y \in Pending : y < x}
        OBVIOUS
    <2>3. \A x \in Pending : byKey(x) = rank(x)
        BY <2>2
    <2> HIDE DEF key
    <2>4. /\ n \in Nat
          /\ \A i \in 1..n : \E x \in Pending : byKey(x) = i - 1
          /\ \A x \in Pending : byKey(x) \in 0..(n - 1)
          /\ \A x, z \in Pending : byKey(x) = byKey(z) => x = z
        BY ZenonT(60), <1>2, <2>1, RankIsOnto
    <2> HIDE DEF byKey, n, rank
    <2> QED BY <2>3, <2>4
<1> HIDE DEF n, rank
<1>4. n \in Nat /\ \A i \in 1..n : at(i) \in Pending /\ rank(at(i)) = i - 1
    BY <1>r
<1>5. ASSUME NEW d \in Pending PROVE \E i \in 1..n : at(i) = d
    <2> DEFINE k == rank(d)
    <2>1. k \in 0..(n - 1)
        BY <1>r
    <2> HIDE DEF k
    <2>2. k + 1 \in 1..n /\ (k + 1) - 1 = k
        BY <1>4, <2>1
    <2>3. rank(at(k + 1)) = k /\ at(k + 1) \in Pending
        BY <1>4, <2>2
    <2>4. at(k + 1) = d
        BY <1>r, <2>3 DEF k
    <2> QED BY <2>2, <2>4
<1>6. ASSUME NEW d \in Pending PROVE CloseIn(d) = closes[d] /\ [day |-> d, value |-> closes[d]] \in Rows
    <2>1. d \in 1..(day - 1) /\ d \notin Seen /\ d \in 1..LedgerDays
        BY <1>1, <1>2 DEF Pending
    <2>2. Behind(d) < MarksKept
        BY <2>1, UnwrittenIsInRing
    <2>3. PICK i \in DOMAIN ring : /\ ring[i] = [day |-> d, value |-> closes[d]]
                                   /\ \A j \in DOMAIN ring : j > i => ring[j].day > d
        BY <2>1, <2>2 DEF BackupInv
    <2>4. DOMAIN ring \subseteq Nat /\ ring[i] \in Rows
        BY DEF BackupInv
    <2> DEFINE c == CHOOSE c \in DOMAIN ring : ring[c].day = d /\ \A j \in DOMAIN ring : ring[j].day = d => j <= c
    <2>5. \A j \in DOMAIN ring : ring[j].day = d => j <= i
        BY <2>1, <2>3, <2>4
    <2>6. c \in DOMAIN ring /\ ring[c].day = d /\ \A j \in DOMAIN ring : ring[j].day = d => j <= c
        <3>1. \E x \in DOMAIN ring : ring[x].day = d /\ \A j \in DOMAIN ring : ring[j].day = d => j <= x
            BY <2>3, <2>5
        <3> QED BY <3>1
    <2>7. c = i
        BY <2>3, <2>4, <2>5, <2>6
    <2> HIDE DEF c
    <2>8. ring[c].value = closes[d]
        BY <2>3, <2>7
    <2> QED BY <2>3, <2>4, <2>8 DEF CloseIn, c
<1> HIDE DEF at
<1>7. \A i \in 1..n : line(i) \in Rows /\ line(i).day = at(i) /\ line(i).value = closes[at(i)]
    BY <1>4, <1>6
<1> HIDE DEF line
<1>8. due \in Seq(Rows) /\ DOMAIN due = 1..n /\ \A i \in 1..n : due[i] = line(i)
    <2>1. [i \in 1..n |-> line(i)] \in [1..n -> Rows]
        BY <1>7
    <2> QED BY <1>3, <1>4, <2>1
<1> HIDE DEF due
<1>9. \A i, j \in 1..n : at(i) = at(j) => i = j
    <2>1. ASSUME NEW i \in 1..n, NEW j \in 1..n, at(i) = at(j) PROVE i = j
        <3>1. i - 1 = j - 1 /\ i \in Int /\ j \in Int
            BY <1>4, <2>1
        <3> QED BY <3>1
    <2> QED BY <2>1
<1>10. \A i \in DOMAIN due : due[i].value = closes[due[i].day] /\ due[i].day < day /\ due[i].day \notin Seen
    <2>1. \A d \in Pending : d < day /\ d \notin Seen
        BY DEF Pending
    <2>2. \A i \in 1..n : due[i].day = at(i) /\ due[i].value = closes[at(i)] /\ at(i) \in Pending
        BY <1>4, <1>7, <1>8
    <2> QED BY <1>8, <2>1, <2>2
<1>11. \A i, j \in DOMAIN due : i # j => due[i].day # due[j].day
    BY <1>7, <1>8, <1>9
<1>12. DaysOf(due) = Pending
    <2>1. DaysOf(due) = {at(i) : i \in 1..n}
        BY <1>7, <1>8 DEF DaysOf
    <2> QED BY <1>4, <1>5, <2>1
<1>13. ASSUME NEW d \in 1..(day - 1), d \notin Seen PROVE d \in Pending
    <2>1. Behind(d) < MarksKept
        BY <1>13, UnwrittenIsInRing
    <2>2. \E i \in DOMAIN ring : ring[i] = [day |-> d, value |-> closes[d]]
        BY <2>1 DEF BackupInv
    <2>3. d \in 1..LedgerDays /\ d < day
        BY <1>1
    <2> QED BY <1>13, <2>2, <2>3 DEF Pending
<1> QED
    BY <1>8, <1>10, <1>11, <1>12, <1>13 DEF NewRows, due

(* Some of them, in order, are such rows as well.                            *)
LEMMA SomeNewRows ==
    ASSUME NEW r, NewRows(r)
    PROVE  /\ r # <<>> => NewRows(Tail(r))
           /\ \A n \in 0..Len(r) : NewRows(SubSeq(r, 1, n))
<1>1. r \in Seq(Rows)
    BY DEF NewRows
<1>2. ASSUME r # <<>> PROVE NewRows(Tail(r))
    <2>1. /\ Tail(r) \in Seq(Rows) /\ DOMAIN Tail(r) = 1..(Len(r) - 1)
          /\ \A i \in 1..(Len(r) - 1) : i + 1 \in DOMAIN r /\ Tail(r)[i] = r[i + 1]
        BY <1>1, <1>2
    <2> QED BY <2>1 DEF NewRows
<1>3. ASSUME NEW n \in 0..Len(r) PROVE NewRows(SubSeq(r, 1, n))
    <2>1. /\ SubSeq(r, 1, n) \in Seq(Rows) /\ DOMAIN SubSeq(r, 1, n) = 1..n
          /\ \A i \in 1..n : i \in DOMAIN r /\ SubSeq(r, 1, n)[i] = r[i]
        BY <1>1
    <2> QED BY <2>1 DEF NewRows
<1> QED
    BY <1>2, <1>3

(* Added to a true ledger they leave it true.                                *)
LEMMA LinesAdded ==
    ASSUME ledger \in Seq(Lines), TrueLines(ledger), NEW r, NewRows(r)
    PROVE  /\ ledger \o r \in Seq(Lines) /\ TrueLines(ledger \o r)
           /\ DaysOf(ledger \o r) = Seen \cup DaysOf(r)
<1> DEFINE l == ledger
           m == ledger \o r
           a == Len(ledger)
           b == Len(r)
<1>1. /\ r \in Seq(Rows) /\ a \in Nat /\ b \in Nat
      /\ \A i \in 1..b : /\ r[i] \in Rows /\ r[i].value = closes[r[i].day] /\ r[i].day < day
                         /\ \A j \in 1..a : r[i].day # l[j].day
      /\ \A i, j \in 1..b : i # j => r[i].day # r[j].day
    BY DEF NewRows, Seen
<1>2. m \in Seq(Lines) /\ DOMAIN m = 1..(a + b)
    <2>1. r \in Seq(Lines)
        BY <1>1 DEF Lines
    <2> QED BY <2>1
<1>3. \A i \in 1..(a + b) : \/ i \in 1..a /\ m[i] = l[i]
                            \/ \E k \in 1..b : i = a + k /\ m[i] = r[k]
    <2>1. \A i \in 1..a : m[i] = l[i]
        BY <1>1
    <2>2. \A k \in 1..b : m[a + k] = r[k]
        BY <1>1
    <2>3. \A i \in 1..(a + b) : i \notin 1..a => i - a \in 1..b /\ i = a + (i - a)
        BY <1>1
    <2> QED BY <2>1, <2>2, <2>3
<1>4. /\ \A i \in 1..a : m[i] = l[i] /\ i \in 1..(a + b)
      /\ \A k \in 1..b : m[a + k] = r[k] /\ a + k \in 1..(a + b)
    BY <1>1
<1>5. /\ \A i \in 1..a : l[i] # Torn => l[i].value = closes[l[i].day] /\ l[i].day < day
      /\ \A i, j \in 1..a : i # j /\ l[i] # Torn => l[i].day # l[j].day
    BY DEF TrueLines
<1> HIDE DEF m, l, a, b
<1>6. \A i \in DOMAIN m : m[i] # Torn => m[i].value = closes[m[i].day] /\ m[i].day < day
    BY <1>1, <1>2, <1>3, <1>5
<1>7. ASSUME NEW i \in DOMAIN m, NEW j \in DOMAIN m, i # j, m[i] # Torn PROVE m[i].day # m[j].day
    <2>1. CASE i \in 1..a /\ m[i] = l[i]
        <3>1. CASE j \in 1..a /\ m[j] = l[j]
            BY <1>5, <1>7, <2>1, <3>1
        <3>2. CASE \E k \in 1..b : j = a + k /\ m[j] = r[k]
            BY <1>1, <2>1, <3>2
        <3> QED BY <1>2, <1>3, <3>1, <3>2
    <2>2. CASE \E k \in 1..b : i = a + k /\ m[i] = r[k]
        <3>1. CASE j \in 1..a /\ m[j] = l[j]
            BY <1>1, <2>2, <3>1
        <3>2. CASE \E k \in 1..b : j = a + k /\ m[j] = r[k]
            BY <1>1, <1>7, <2>2, <3>2
        <3> QED BY <1>2, <1>3, <3>1, <3>2
    <2> QED BY <1>2, <1>3, <2>1, <2>2
<1>8. DaysOf(m) = Seen \cup DaysOf(r)
    <2>1. DaysOf(m) = {m[i].day : i \in 1..(a + b)}
        BY <1>2 DEF DaysOf
    <2>2. DaysOf(r) = {r[k].day : k \in 1..b}
        BY <1>1 DEF DaysOf, b
    <2>3. ledger \in Seq(Lines) /\ Seen = {l[i].day : i \in 1..a}
        BY DEF Seen, l, a
    <2>4. \A i \in 1..(a + b) : m[i].day \in Seen \cup DaysOf(r)
        BY <1>3, <2>2, <2>3
    <2>5. \A i \in 1..a : l[i].day \in DaysOf(m)
        BY <1>4, <2>1
    <2>6. \A k \in 1..b : r[k].day \in DaysOf(m)
        BY <1>4, <2>1
    <2>7. DaysOf(m) \subseteq Seen \cup DaysOf(r)
        BY <2>1, <2>4
    <2>8. Seen \subseteq DaysOf(m)
        BY <2>3, <2>5
    <2>9. DaysOf(r) \subseteq DaysOf(m)
        BY <2>2, <2>6
    <2> QED BY <2>7, <2>8, <2>9
<1> QED
    BY <1>2, <1>6, <1>7, <1>8 DEF TrueLines, m

(* A line torn at the end is nobody's close and takes nothing away.          *)
LEMMA TornAdded ==
    ASSUME NEW l \in Seq(Lines), TrueLines(l)
    PROVE  LET m == Append(l, Torn)
           IN  m \in Seq(Lines) /\ TrueLines(m) /\ DaysOf(l) \subseteq DaysOf(m)
<1> DEFINE m == Append(l, Torn)
           n == Len(l)
<1>1. /\ m \in Seq(Lines) /\ DOMAIN m = 1..(n + 1) /\ DOMAIN l = 1..n /\ n \in Nat
      /\ m[n + 1] = Torn /\ \A i \in 1..n : m[i] = l[i] /\ l[i] \in Lines
    BY DEF Lines
<1>2. \A x \in Lines : x # Torn => x.day # Torn.day
    BY DEF Lines, Rows, Torn
<1>3. \A i \in 1..(n + 1) : i \in 1..n \/ i = n + 1
    BY <1>1
<1> HIDE DEF m, n
<1>4. \A i \in DOMAIN m : m[i] # Torn => i \in 1..n /\ m[i] = l[i]
    BY <1>1, <1>3
<1>5. \A i \in DOMAIN m : m[i] # Torn => m[i].value = closes[m[i].day] /\ m[i].day < day
    BY <1>1, <1>4 DEF TrueLines
<1>6. \A i, j \in DOMAIN m : i # j /\ m[i] # Torn => m[i].day # m[j].day
    <2>1. ASSUME NEW i \in DOMAIN m, NEW j \in DOMAIN m, i # j, m[i] # Torn PROVE m[i].day # m[j].day
        <3>1. i \in 1..n /\ m[i] = l[i] /\ l[i] # Torn
            BY <1>4, <2>1
        <3>2. CASE m[j] = Torn
            BY <1>1, <1>2, <3>1, <3>2
        <3>3. CASE m[j] # Torn
            BY <1>1, <1>4, <2>1, <3>1, <3>3 DEF TrueLines
        <3> QED BY <3>2, <3>3
    <2> QED BY <2>1
<1>7. DaysOf(l) \subseteq DaysOf(m)
    <2>1. \A i \in DOMAIN l : i \in DOMAIN m /\ m[i] = l[i]
        BY <1>1
    <2> QED BY <2>1 DEF DaysOf
<1> QED
    BY <1>1, <1>5, <1>6, <1>7 DEF TrueLines, m

(* A mark is remembered at the end of the ring, which forgets one at most.   *)
LEMMA Remembered ==
    ASSUME BackupBounds, ring \in Seq(Rows), Len(ring) <= MarksKept, NEW e \in Rows
    PROVE  LET a == Append(ring, e)
               r == LastN(a, MarksKept)
           IN  /\ r \in Seq(Rows) /\ Len(r) <= MarksKept /\ Len(r) > 0 /\ r[Len(r)] = e
               /\ \E off \in {0, 1} :
                      /\ Len(r) = Len(ring) + 1 - off /\ (off = 1 => Len(r) = MarksKept)
                      /\ \A i \in DOMAIN r : \/ i + off = Len(ring) + 1 /\ r[i] = e
                                             \/ i + off \in DOMAIN ring /\ r[i] = ring[i + off]
<1> DEFINE a == Append(ring, e)
           r == LastN(a, MarksKept)
           n == Len(ring)
<1>1. MarksKept \in Nat /\ MarksKept > 0 /\ n \in Nat /\ n <= MarksKept
    BY DEF BackupBounds
<1>2. /\ a \in Seq(Rows) /\ Len(a) = n + 1 /\ a[n + 1] = e
      /\ \A i \in 1..n : a[i] = ring[i]
    OBVIOUS
<1> DEFINE Shifted(s, off) ==
               /\ s \in Seq(Rows) /\ Len(s) = n + 1 - off /\ (off = 1 => Len(s) = MarksKept) /\ Len(s) <= MarksKept
               /\ \A i \in 1..(n + 1 - off) : s[i] = a[i + off]
<1> HIDE DEF a
<1>3. CASE n + 1 <= MarksKept
    <2>1. r = a
        BY <1>2, <1>3 DEF LastN
    <2>2. Shifted(r, 0)
        BY <1>1, <1>2, <1>3, <2>1
    <2> HIDE DEF r
    <2>3. \A i \in 1..(n + 1) : i = n + 1 \/ i \in 1..n
        BY <1>1
    <2>4. DOMAIN r = 1..(n + 1) /\ DOMAIN ring = 1..n /\ r[n + 1] = e /\ Len(r) = n + 1
        BY <1>1, <1>2, <2>1, <2>2
    <2>5. \A i \in DOMAIN r : \/ i + 0 = n + 1 /\ r[i] = e
                              \/ i + 0 \in DOMAIN ring /\ r[i] = ring[i + 0]
        BY <1>1, <1>2, <2>1, <2>3, <2>4
    <2> QED BY <1>1, <2>2, <2>4, <2>5 DEF r, a
<1>4. CASE ~(n + 1 <= MarksKept)
    <2>1. n = MarksKept
        BY <1>1, <1>4
    <2>2. r = SubSeq(a, 2, n + 1)
        BY <1>1, <1>2, <1>4, <2>1 DEF LastN
    <2> HIDE DEF r
    <2>3. r \in Seq(Rows) /\ Len(r) = n /\ \A i \in 1..n : r[i] = a[i + 1]
        BY <1>1, <1>2, <2>1, <2>2
    <2>4. DOMAIN r = 1..n /\ DOMAIN ring = 1..n /\ r[n] = e
        BY <1>1, <1>2, <2>1, <2>3
    <2>5. \A i \in 1..n : i + 1 = n + 1 \/ i + 1 \in 1..n
        BY <1>1
    <2>6. \A i \in DOMAIN r : \/ i + 1 = n + 1 /\ r[i] = e
                              \/ i + 1 \in DOMAIN ring /\ r[i] = ring[i + 1]
        BY <1>1, <1>2, <2>3, <2>4, <2>5
    <2> QED BY <1>1, <2>1, <2>3, <2>4, <2>6 DEF r, a
<1> QED
    BY <1>3, <1>4

LEMMA MarkKeepsCloses ==
    ASSUME BackupBounds, BackupInv, AddsMark
    PROVE  BackupInv'
<1>1. PICK v \in Values : /\ ring' = LastN(Append(ring, [day |-> day, value |-> v]), MarksKept)
                          /\ closes' = [closes EXCEPT ![day] = v]
    BY DEF AddsMark
<1> DEFINE e == [day |-> day, value |-> v]
<1>2. marks < MarksPerDay /\ marks' = marks + 1 /\ UNCHANGED <<day, ledger, open, missed, torn>>
    BY DEF AddsMark
<1>3. /\ day \in 1..LedgerDays /\ marks \in 0..MarksPerDay /\ closes \in [1..LedgerDays -> Values \cup {0}]
      /\ ring \in Seq(Rows) /\ Len(ring) <= MarksKept /\ LedgerDays \in Nat /\ MarksPerDay \in Nat /\ MarksKept \in Nat
    BY DEF BackupInv, BackupBounds
<1>4. e \in Rows
    BY <1>3 DEF Rows
<1> HIDE DEF e
<1>5. /\ ring' \in Seq(Rows) /\ Len(ring') <= MarksKept /\ Len(ring') > 0 /\ ring'[Len(ring')] = e
      /\ \E off \in {0, 1} :
             /\ Len(ring') = Len(ring) + 1 - off /\ (off = 1 => Len(ring') = MarksKept)
             /\ \A i \in DOMAIN ring' : \/ i + off = Len(ring) + 1 /\ ring'[i] = e
                                        \/ i + off \in DOMAIN ring /\ ring'[i] = ring[i + off]
    BY ZenonT(60), <1>1, <1>3, <1>4, Remembered DEF e
<1>6. PICK off \in {0, 1} :
             /\ Len(ring') = Len(ring) + 1 - off /\ (off = 1 => Len(ring') = MarksKept)
             /\ \A i \in DOMAIN ring' : \/ i + off = Len(ring) + 1 /\ ring'[i] = e
                                        \/ i + off \in DOMAIN ring /\ ring'[i] = ring[i + off]
    BY <1>5
<1>7. closes' \in [1..LedgerDays -> Values \cup {0}] /\ closes'[day] = v /\ \A d \in 1..(day - 1) : closes'[d] = closes[d]
    BY <1>1, <1>3
<1>8. e.day = day /\ e = [day |-> day, value |-> closes'[day]]
    BY <1>7 DEF e
<1>9. \A i \in DOMAIN ring' : ring'[i].day <= day
    BY <1>3, <1>6, <1>8 DEF BackupInv
<1>10. ASSUME NEW d \in 1..(day - 1), Behind(d)' < MarksKept
       PROVE  \E i \in DOMAIN ring' : /\ ring'[i] = [day |-> d, value |-> closes'[d]] /\ Len(ring') - i <= Behind(d)'
                                      /\ \A j \in DOMAIN ring' : j > i => ring'[j].day > d
    <2>1. Behind(d) \in Int /\ Behind(d)' = Behind(d) + 1
        BY <1>2, <1>3 DEF Behind
    <2>2. PICK k \in DOMAIN ring : /\ ring[k] = [day |-> d, value |-> closes[d]] /\ Len(ring) - k <= Behind(d)
                                   /\ \A j \in DOMAIN ring : j > k => ring[j].day > d
        BY <1>3, <1>10, <2>1 DEF BackupInv
    <2>3. /\ DOMAIN ring = 1..Len(ring) /\ DOMAIN ring' = 1..Len(ring') /\ Len(ring) \in Nat /\ Len(ring') \in Nat
          /\ d < day /\ d \in Nat /\ day \in Nat /\ off \in Nat
        BY <1>3, <1>5
    <2> DEFINE i == k - off
    <2>4. i \in 1..Len(ring') /\ i + off = k /\ k # Len(ring) + 1 /\ Len(ring') - i <= Behind(d)'
        <3>1. k \in Nat /\ 1 <= k /\ k <= Len(ring) /\ Len(ring) - k <= Behind(d)
            BY <2>2, <2>3
        <3>2. Len(ring') = Len(ring) + 1 - off /\ (off = 1 => Len(ring') = MarksKept) /\ off \in {0, 1}
            BY <1>6
        <3>3. MarksKept \in Nat /\ Behind(d)' < MarksKept
            BY <1>3, <1>10
        <3> QED BY SMTT(30), <2>1, <2>3, <3>1, <3>2, <3>3
    <2> HIDE DEF i
    <2>5. ring'[i] = [day |-> d, value |-> closes'[d]]
        BY <1>6, <1>7, <2>2, <2>3, <2>4
    <2>6. ASSUME NEW j \in DOMAIN ring', j > i PROVE ring'[j].day > d
        <3>1. j + off > k
            BY <2>3, <2>4, <2>6
        <3> QED BY <1>6, <1>8, <2>2, <2>3, <3>1
    <2> QED BY <2>3, <2>4, <2>5, <2>6
<1>11. \A d \in 1..(day - 1) : d \in Seen' \/ day - d <= Waits'
    BY <1>2 DEF BackupInv, Seen, Waits
<1>12. TrueLines(ledger)'
    <2>1. \A i \in DOMAIN ledger : ledger[i] # Torn => ledger[i].day \in 1..(day - 1)
        BY <1>3 DEF BackupInv, TrueLines, Lines, Rows
    <2> QED BY <1>2, <1>7, <2>1 DEF BackupInv, TrueLines, Torn
<1>13. marks' \in 0..MarksPerDay
    BY <1>2, <1>3
<1> QED
    BY <1>2, <1>5, <1>7, <1>8, <1>9, <1>10, <1>11, <1>12, <1>13 DEF BackupInv, Lines, Rows, Torn

LEMMA DayKeepsCloses ==
    ASSUME BackupBounds, BackupInv, DayPasses
    PROVE  BackupInv'
<1>1. /\ day < LedgerDays /\ marks > 0 /\ missed <= MaxMissed
      /\ day' = day + 1 /\ marks' = 0 /\ missed' = missed + 1 /\ UNCHANGED <<ring, ledger, open, torn, closes>>
    BY DEF DayPasses
<1>2. /\ day \in 1..LedgerDays /\ marks \in 0..MarksPerDay /\ open \in BOOLEAN /\ missed \in 0..(MaxMissed + 1) /\ torn \in 0..MaxTorn
      /\ ring \in Seq(Rows) /\ LedgerDays \in Nat /\ MarksPerDay \in Nat /\ MarksKept \in Nat /\ MaxMissed \in Nat /\ MaxTorn \in Nat
      /\ (open => torn > 0) /\ DOMAIN ring = 1..Len(ring) /\ Len(ring) \in Nat
    BY DEF BackupInv, BackupBounds
<1>3. day' \in 1..LedgerDays /\ marks' \in 0..MarksPerDay /\ missed' \in 0..(MaxMissed + 1)
    BY <1>1, <1>2
<1>4. \A i \in DOMAIN ring : ring[i].day <= day'
    <2>1. ASSUME NEW i \in DOMAIN ring PROVE ring[i].day <= day'
        <3>1. ring[i].day \in Nat
            <4>1. ring[i] \in Rows
                BY <1>2
            <4> QED BY <1>2, <4>1 DEF Rows
        <3>2. ring[i].day <= day
            BY DEF BackupInv
        <3> QED BY <1>1, <1>2, <3>1, <3>2
    <2> QED BY <2>1
<1>5. ASSUME NEW d \in 1..(day' - 1), Behind(d)' < MarksKept
      PROVE  \E i \in DOMAIN ring : /\ ring[i] = [day |-> d, value |-> closes[d]] /\ Len(ring) - i <= Behind(d)'
                                    /\ \A j \in DOMAIN ring : j > i => ring[j].day > d
    <2>1. d \in 1..(day - 1) \/ d = day
        BY <1>1, <1>2
    <2>2. Behind(d)' = MarksPerDay * (day - d)
        BY <1>1, <1>2 DEF Behind
    <2>3. CASE d = day
        <3>1. Len(ring) \in DOMAIN ring /\ ring[Len(ring)] = [day |-> d, value |-> closes[d]]
            BY <1>1, <1>2, <2>3 DEF BackupInv
        <3>2. Behind(d)' = 0
            BY <1>2, <2>2, <2>3
        <3> QED BY <1>2, <3>1, <3>2
    <2>4. CASE d \in 1..(day - 1)
        <3> DEFINE w == day - d
        <3>1. w \in Nat /\ MarksPerDay * (w - 1) = MarksPerDay * w - MarksPerDay /\ MarksPerDay * w \in Nat
            BY <1>2, <2>4
        <3>2. Behind(d) = MarksPerDay * (w - 1) + marks /\ Behind(d)' = MarksPerDay * w
            BY <2>2 DEF Behind
        <3> HIDE DEF w
        <3>3. Behind(d) <= Behind(d)' /\ Behind(d) \in Int /\ Behind(d)' \in Int
            BY <1>2, <3>1, <3>2
        <3>4. PICK i \in DOMAIN ring : /\ ring[i] = [day |-> d, value |-> closes[d]] /\ Len(ring) - i <= Behind(d)
                                       /\ \A j \in DOMAIN ring : j > i => ring[j].day > d
            <4>1. Behind(d) < MarksKept
                BY <1>2, <1>5, <3>3
            <4> QED BY <2>4, <4>1 DEF BackupInv
        <3>5. Len(ring) - i <= Behind(d)'
            BY <1>2, <3>3, <3>4
        <3> QED BY <3>4, <3>5
    <2> QED BY <2>1, <2>3, <2>4
<1>6. ASSUME NEW d \in 1..(day' - 1) PROVE d \in Seen' \/ day' - d <= Waits'
    <2>1. d \in 1..(day - 1) \/ d = day
        BY <1>1, <1>2
    <2> DEFINE o == torn - (IF open THEN 1 ELSE 0)
               p == (MaxMissed + 1) * o
    <2>2. o \in Nat
        BY <1>2
    <2>3. Waits = missed + p /\ Waits' = missed + 1 + p
        BY <1>1 DEF Waits
    <2> HIDE DEF o
    <2>4. p \in Nat
        BY <1>2, <2>2
    <2> HIDE DEF p
    <2>5. CASE d = day
        BY <1>1, <1>2, <2>3, <2>4, <2>5
    <2>6. CASE d \in 1..(day - 1)
        <3>1. d \in Seen \/ day - d <= Waits
            BY <2>6 DEF BackupInv
        <3>2. Seen' = Seen
            BY <1>1 DEF Seen
        <3> QED BY <1>1, <1>2, <2>3, <2>4, <2>6, <3>1, <3>2
    <2> QED BY <2>1, <2>5, <2>6
<1>7. TrueLines(ledger)'
    <2>1. \A i \in DOMAIN ledger : ledger[i] # Torn => ledger[i].day < day + 1
        BY <1>2 DEF BackupInv, TrueLines, Lines, Rows
    <2> QED BY <1>1, <2>1 DEF BackupInv, TrueLines, Torn
<1> QED
    BY <1>1, <1>2, <1>3, <1>4, <1>5, <1>6, <1>7 DEF BackupInv, Lines, Rows, Torn

LEMMA BackupKeepsCloses ==
    ASSUME BackupBounds, BackupInv, Backup
    PROVE  BackupInv'
<1> DEFINE due  == Due
           some == IF open /\ due # <<>> THEN Tail(due) ELSE due
<1>1. /\ ledger' = ledger \o some /\ open' = (open /\ due = <<>>) /\ missed' = 0
      /\ UNCHANGED <<day, marks, ring, torn, closes>>
    BY DEF Backup, Appended
<1>2. /\ NewRows(due) /\ DaysOf(due) = Pending
      /\ \A d \in 1..(day - 1) : d \in Seen \/ d \in Pending
    BY DueIsPending
<1> HIDE DEF due
<1>3. NewRows(some)
    BY <1>2, SomeNewRows
<1> HIDE DEF some
<1>4. /\ ledger' \in Seq(Lines) /\ TrueLines(ledger')
      /\ DaysOf(ledger') = Seen \cup DaysOf(some)
    BY <1>1, <1>3, LinesAdded DEF BackupInv
<1>5. Seen' = DaysOf(ledger')
    BY DEF Seen, DaysOf
<1>6. TrueLines(ledger)'
    BY <1>1, <1>4 DEF TrueLines, Torn
<1>7. /\ open \in BOOLEAN /\ missed \in 0..(MaxMissed + 1) /\ torn \in 0..MaxTorn /\ (open => torn > 0)
      /\ MaxMissed \in Nat /\ MaxTorn \in Nat /\ day \in 1..LedgerDays /\ LedgerDays \in Nat
    BY DEF BackupInv, BackupBounds
<1>8. ASSUME NEW d \in 1..(day - 1) PROVE d \in Seen' \/ day - d <= Waits'
    <2>1. CASE ~(open /\ due # <<>>)
        BY <1>2, <1>4, <1>5, <2>1 DEF some
    <2>2. CASE open /\ due # <<>>
        <3>1. d \in Seen \/ day - d <= Waits
            BY DEF BackupInv
        <3> DEFINE M == MaxMissed + 1
        <3>2. Waits = missed + M * (torn - 1)
            BY <2>2 DEF Waits
        <3>3. Waits' = M * torn
            <4>1. torn - 0 = torn /\ M * torn \in Int /\ 0 + M * torn = M * torn
                BY <1>7
            <4>2. ~open' /\ missed' = 0 /\ torn' = torn
                BY <1>1, <2>2
            <4> HIDE DEF M
            <4>3. Waits' = 0 + M * (torn - 0)
                BY <4>2 DEF Waits, M
            <4> QED BY <4>1, <4>3
        <3>4. M \in Nat /\ missed <= M /\ missed \in Nat /\ torn \in Nat
            BY <1>7
        <3> HIDE DEF M
        <3>5. M * (torn - 1) = M * torn - M /\ M * torn \in Nat
            BY <3>4
        <3>6. Waits <= Waits' /\ Waits \in Int /\ Waits' \in Int
            BY <3>2, <3>3, <3>4, <3>5
        <3>7. day - d \in Int
            BY <1>7
        <3> QED BY <1>4, <1>5, <3>1, <3>6, <3>7
    <2> QED BY <2>1, <2>2
<1>9. missed' \in 0..(MaxMissed + 1) /\ open' \in BOOLEAN /\ (open' => torn' > 0)
    BY <1>1, <1>7
<1>10. \A d \in 1..(day - 1) : Behind(d)' = Behind(d)
    BY <1>1 DEF Behind
<1> QED
    BY <1>1, <1>4, <1>6, <1>8, <1>9, <1>10 DEF BackupInv, Lines, Rows, Torn

LEMMA TornKeepsCloses ==
    ASSUME BackupBounds, BackupInv, BackupTorn
    PROVE  BackupInv'
<1> DEFINE due == Due
<1>1. NewRows(due)
    BY DueIsPending
<1>2. due \in Seq(Rows)
    BY <1>1 DEF NewRows
<1>3. /\ torn < MaxTorn /\ torn' = torn + 1 /\ open' = TRUE
      /\ UNCHANGED <<day, marks, ring, missed, closes>>
    BY DEF BackupTorn
<1>4. PICK n \in 0..(Len(due) - 1) : ledger' = Append(Appended(SubSeq(due, 1, n)), Torn)
    BY DEF BackupTorn
<1> HIDE DEF due
<1> DEFINE rows0 == SubSeq(due, 1, n)
           some  == IF open /\ rows0 # <<>> THEN Tail(rows0) ELSE rows0
<1>5. n \in 0..Len(due)
    BY <1>2
<1>6. NewRows(rows0)
    BY <1>1, <1>5, SomeNewRows
<1>7. Appended(rows0) = ledger \o some
    BY DEF Appended
<1> HIDE DEF rows0
<1>8. NewRows(some)
    BY <1>6, SomeNewRows
<1> HIDE DEF some
<1> DEFINE l == ledger \o some
<1>9. l \in Seq(Lines) /\ TrueLines(l) /\ Seen \subseteq DaysOf(l)
    BY <1>8, LinesAdded DEF BackupInv
<1>10. ledger' = Append(l, Torn)
    BY <1>4, <1>7 DEF rows0
<1> HIDE DEF l
<1>11. ledger' \in Seq(Lines) /\ TrueLines(ledger') /\ Seen \subseteq DaysOf(ledger')
    BY <1>9, <1>10, TornAdded
<1>12. Seen' = DaysOf(ledger')
    BY DEF Seen, DaysOf
<1>13. TrueLines(ledger)'
    BY <1>3, <1>11 DEF TrueLines, Torn
<1>14. /\ open \in BOOLEAN /\ missed \in 0..(MaxMissed + 1) /\ torn \in 0..MaxTorn
       /\ MaxMissed \in Nat /\ MaxTorn \in Nat /\ day \in 1..LedgerDays /\ LedgerDays \in Nat
    BY DEF BackupInv, BackupBounds
<1>15. ASSUME NEW d \in 1..(day - 1) PROVE d \in Seen' \/ day - d <= Waits'
    <2> DEFINE M == MaxMissed + 1
    <2>1. Waits' = missed + M * ((torn + 1) - 1)
        BY <1>3 DEF Waits
    <2>2. (torn + 1) - 1 = torn /\ torn \in Nat /\ M \in Nat /\ missed \in Nat
        BY <1>14
    <2>3. Waits = missed + M * torn \/ Waits = missed + M * (torn - 1)
        <3>1. torn - 0 = torn
            BY <1>14
        <3> QED BY <3>1 DEF Waits
    <2> HIDE DEF M
    <2>4. M * (torn - 1) = M * torn - M /\ M * torn \in Nat
        BY <2>2
    <2>5. Waits <= Waits' /\ Waits \in Int /\ Waits' \in Int
        BY <2>1, <2>2, <2>3, <2>4
    <2>6. d \in Seen \/ day - d <= Waits
        BY DEF BackupInv
    <2>7. day - d \in Int
        BY <1>14
    <2> QED BY <1>11, <1>12, <2>5, <2>6, <2>7
<1>16. torn' \in 0..MaxTorn /\ torn' > 0 /\ open' \in BOOLEAN
    BY <1>3, <1>14
<1>17. \A d \in 1..(day - 1) : Behind(d)' = Behind(d)
    BY <1>3 DEF Behind
<1> QED
    BY <1>3, <1>11, <1>13, <1>15, <1>16, <1>17 DEF BackupInv, Lines, Rows, Torn

(* "The dense ring would evict them": each completed day is in the ledger    *)
(* with its close, once, or still in the ring to be written by a later       *)
(* backup, for every ring that outlasts the nights that may be missed and    *)
(* the lines that may be torn.                                               *)
THEOREM LedgerKeepsDaysHolds ==
    ASSUME BackupBounds PROVE BackupSpec => []LedgerKeepsDays
<1>1. ASSUME BackupInit PROVE BackupInv
    <2>1. /\ day = 1 /\ marks = 0 /\ ring = <<>> /\ ledger = <<>> /\ open = FALSE /\ missed = 0 /\ torn = 0
          /\ closes \in [1..LedgerDays -> Values \cup {0}]
        BY <1>1 DEF BackupInit
    <2>2. /\ ring \in Seq(Rows) /\ Len(ring) = 0 /\ DOMAIN ring = {}
          /\ ledger \in Seq(Lines) /\ DOMAIN ledger = {}
        BY <2>1
    <2>3. /\ LedgerDays \in Nat \ {0} /\ MarksPerDay \in Nat /\ MarksKept \in Nat /\ MaxMissed \in Nat /\ MaxTorn \in Nat
          /\ 1..(day - 1) = {}
        BY <2>1 DEF BackupBounds
    <2>4. TrueLines(ledger)
        BY <2>2 DEF TrueLines
    <2>5. /\ day \in 1..LedgerDays /\ marks \in 0..MarksPerDay /\ open \in BOOLEAN /\ ~open /\ ~(marks > 0)
          /\ missed \in 0..(MaxMissed + 1) /\ torn \in 0..MaxTorn /\ Len(ring) <= MarksKept
        <3>1. open \in BOOLEAN /\ ~open
            BY <2>1
        <3>2. day \in 1..LedgerDays /\ marks \in 0..MarksPerDay /\ ~(marks > 0)
            BY <2>1, <2>3
        <3>3. missed \in 0..(MaxMissed + 1) /\ torn \in 0..MaxTorn
            BY <2>1, <2>3
        <3>4. Len(ring) <= MarksKept
            BY <2>2, <2>3
        <3> QED BY <3>1, <3>2, <3>3, <3>4
    <2>6. /\ \A d \in 1..(day - 1) : FALSE
          /\ \A i \in DOMAIN ring : FALSE
        BY <2>2, <2>3
    <2> QED BY <2>1, <2>2, <2>4, <2>5, <2>6 DEF BackupInv
<1>2. BackupInv /\ [BackupNext]_backupVars => BackupInv'
    <2>1. ASSUME BackupInv, UNCHANGED backupVars PROVE BackupInv'
        <3>1. UNCHANGED <<day, marks, ring, ledger, open, missed, torn, closes>>
            BY <2>1 DEF backupVars
        <3>2. (\A d : Behind(d)' = Behind(d)) /\ Waits' = Waits /\ Seen' = Seen
            BY <3>1 DEF Behind, Waits, Seen
        <3>3. TrueLines(ledger)' <=> TrueLines(ledger)
            BY <3>1 DEF TrueLines
        <3> QED BY <2>1, <3>1, <3>2, <3>3 DEF BackupInv
    <2> QED BY <2>1, MarkKeepsCloses, DayKeepsCloses, BackupKeepsCloses, TornKeepsCloses DEF BackupNext
<1>3. ASSUME BackupInv PROVE LedgerKeepsDays
    <2>1. LedgerIsTrue
        BY <1>3 DEF BackupInv, TrueLines, LedgerIsTrue
    <2>2. ASSUME NEW d \in 1..(day - 1), d \notin Seen
          PROVE  \E i \in DOMAIN ring : ring[i].day = d /\ ring[i].value = closes[d]
        <3>1. Behind(d) < MarksKept
            BY <1>3, <2>2, UnwrittenIsInRing
        <3>2. \E i \in DOMAIN ring : ring[i] = [day |-> d, value |-> closes[d]]
            BY <1>3, <3>1 DEF BackupInv
        <3> QED BY <3>2
    <2> QED BY <2>1, <2>2 DEF LedgerKeepsDays, NoDayLost, Seen
<1> QED
    BY <1>1, <1>2, <1>3, PTL DEF BackupSpec

(* ---------------------------- the fills ledger --------------------------- *)
(* What state.json says of a day's fills: executions that happened, and of   *)
(* its last report no more than there are.                                   *)
TrueReport(s) ==
    /\ s.ring \in Seq(made) /\ s.refresh \in 0..session /\ s.count \in Nat
    /\ s.count <= Cardinality(Of(s.refresh, made))

(* The executions of a day are numbered; the ledger lists some of them, each *)
(* once and by day; and what the process remembers covers the rows of today, *)
(* which is all the broker can report again.                                 *)
FillInv ==
    /\ session \in 1..LastSession
    /\ made \subseteq {f \in Fill : f.day <= session} /\ IsFiniteSet(made)
    /\ \A f, g \in made : f.day = g.day /\ f.n = g.n => f = g
    /\ \A f \in made : f.n <= Cardinality(Of(f.day, made))
    /\ Cardinality(Report) <= FillsPerDay
    /\ lines \in Seq(made)
    /\ \A i, j \in DOMAIN lines : i < j => lines[i] # lines[j] /\ lines[i].day <= lines[j].day
    /\ seen # NotSeeded => Of(session, Loaded) \subseteq seen[1]
    /\ cut \in BOOLEAN /\ TrueReport(ibkr) /\ TrueReport(ibkrSaved)

(* The last rows of a sequence, and which of its rows they are.              *)
LEMMA TheLastRows ==
    ASSUME NEW S, NEW s \in Seq(S), NEW k \in Nat \ {0}
    PROVE  /\ LastRows(s, k) \in Seq(S)
           /\ \A i \in DOMAIN s : i > Len(s) - k => s[i] \in ToSet(LastRows(s, k))
<1> DEFINE n == Len(s)
           a == IF n > k THEN n - k + 1 ELSE 1
           t == SubSeq(s, a, n)
<1>1. n \in Nat /\ DOMAIN s = 1..n /\ \A i \in 1..n : s[i] \in S
    OBVIOUS
<1>2. a \in 1..(n + 1) /\ \A i \in 1..n : i > n - k => i >= a
    BY <1>1
<1> HIDE DEF a
<1>3. t \in Seq(S) /\ Len(t) = n - a + 1 /\ \A j \in 1..(n - a + 1) : t[j] = s[a + j - 1]
    BY <1>1, <1>2
<1>4. LastRows(s, k) = t
    BY DEF LastRows, a
<1>5. ASSUME NEW i \in DOMAIN s, i > n - k PROVE s[i] \in ToSet(t)
    <2>1. i - a + 1 \in 1..(n - a + 1) /\ a + (i - a + 1) - 1 = i
        BY <1>1, <1>2, <1>5
    <2>2. DOMAIN t = 1..(n - a + 1) /\ t[i - a + 1] = s[i]
        BY <1>1, <1>2, <1>3, <2>1
    <2> HIDE DEF t
    <2> QED BY <2>1, <2>2 DEF ToSet
<1> QED BY <1>3, <1>4, <1>5

(* The executions of a day are not fewer when there are more.                *)
LEMMA OfGrows ==
    ASSUME NEW d, NEW T, IsFiniteSet(T), NEW S \in SUBSET T
    PROVE  /\ Of(d, S) \subseteq Of(d, T) /\ IsFiniteSet(Of(d, T)) /\ IsFiniteSet(Of(d, S))
           /\ Cardinality(Of(d, T)) \in Nat /\ Cardinality(Of(d, S)) \in Nat
           /\ Cardinality(Of(d, S)) <= Cardinality(Of(d, T))
           /\ Of(d, S) # Of(d, T) => Cardinality(Of(d, S)) < Cardinality(Of(d, T))
<1>1. Of(d, S) \subseteq Of(d, T) /\ Of(d, T) \subseteq T
    BY DEF Of
<1>2. IsFiniteSet(Of(d, T))
    BY <1>1, FS_Subset
<1>3. /\ IsFiniteSet(Of(d, S)) /\ Cardinality(Of(d, S)) <= Cardinality(Of(d, T))
      /\ Cardinality(Of(d, T)) = Cardinality(Of(d, S)) => Of(d, T) = Of(d, S)
    BY <1>1, <1>2, FS_Subset
<1>4. Cardinality(Of(d, T)) \in Nat /\ Cardinality(Of(d, S)) \in Nat
    BY <1>2, <1>3, FS_CardinalityType
<1> QED BY <1>1, <1>2, <1>3, <1>4

(* The rows of today are the last of the ledger and no more of them than the *)
(* day has executions, so that the tail that seeds what was seen has them.   *)
LEMMA TodayWasSeen ==
    ASSUME FillBounds, FillInv
    PROVE  Of(session, Loaded) \subseteq AlreadySeen[1]
<1>1. CASE seen # NotSeeded
    BY <1>1 DEF FillInv, AlreadySeen
<1>2. CASE seen = NotSeeded
    <2> SUFFICES ASSUME NEW i \in DOMAIN lines, lines[i].day = session
                 PROVE  lines[i] \in ToSet(LastRows(lines, SeenTail))
        BY <1>2 DEF AlreadySeen, Of, Loaded, ToSet
    <2> DEFINE n == Len(lines)
               at == [j \in i..n |-> lines[j]]
    <2>1. lines \in Seq(made) /\ n \in Nat /\ DOMAIN lines = 1..n /\ i \in 1..n
        BY DEF FillInv
    <2>2. \A j \in 1..n : lines[j] \in made /\ lines[j].day \in Nat /\ lines[j].day <= session
        BY <2>1 DEF FillInv, Fill
    <2>3. session \in Nat
        BY DEF FillInv
    <2>4. ASSUME NEW j \in i..n PROVE lines[j] \in Report
        <3>1. j \in 1..n /\ (j = i \/ i < j)
            BY <2>1
        <3>2. j = i \/ lines[i].day <= lines[j].day
            BY <2>1, <3>1 DEF FillInv
        <3>3. lines[j].day = session
            BY <2>2, <2>3, <3>1, <3>2
        <3> QED BY <2>2, <3>1, <3>3 DEF Report, Of
    <2>5. ASSUME NEW j \in i..n, NEW k \in i..n, lines[j] = lines[k] PROVE j = k
        <3>1. j \in 1..n /\ k \in 1..n /\ (j < k \/ k < j \/ j = k)
            BY <2>1
        <3> QED BY <2>1, <2>5, <3>1 DEF FillInv
    <2>6. at \in Injection(i..n, Report)
        BY <2>4, <2>5 DEF Injection, IsInjective
    <2>7. IsFiniteSet(Report) /\ Cardinality(Report) <= FillsPerDay /\ Cardinality(Report) \in Nat
        BY OfGrows DEF FillInv, Report
    <2>8. Cardinality(i..n) <= Cardinality(Report)
        BY <2>6, <2>7, FS_Injection
    <2>9. Cardinality(i..n) = n - i + 1
        BY <2>1, FS_Interval
    <2>10. i > n - SeenTail
        BY <2>1, <2>7, <2>8, <2>9 DEF FillBounds
    <2> QED BY <2>1, <2>10, TheLastRows DEF FillBounds
<1> QED BY <1>1, <1>2

(* What a report has that was not seen, in the order of its numbers: rows of *)
(* today, each once.                                                         *)
LEMMA NewIsFresh ==
    ASSUME FillInv
    PROVE  /\ New \in Seq(Report \ AlreadySeen[1])
           /\ \A i, j \in DOMAIN New : i < j => New[i] # New[j]
<1> DEFINE fresh == Report \ AlreadySeen[1]
           key   == [f \in fresh |-> f.n]
           n     == Cardinality(fresh)
           rank(f) == Cardinality({g \in fresh : key[g] < key[f]})
           at(i) == CHOOSE f \in fresh : Cardinality({g \in fresh : g.n < f.n}) = i - 1
<1>1. fresh \subseteq made /\ IsFiniteSet(fresh) /\ \A f \in fresh : f.n \in Nat /\ f.day = session
    <2>1. fresh \subseteq made /\ \A f \in fresh : f.day = session
        BY DEF Report, Of
    <2>2. IsFiniteSet(fresh)
        BY <2>1, FS_Subset DEF FillInv
    <2>3. \A f \in made : f.n \in Nat
        BY DEF FillInv, Fill
    <2> HIDE DEF fresh
    <2> QED BY <2>1, <2>2, <2>3
<1>2. New = [i \in 1..n |-> at(i)]
    BY DEF New, InOrder
<1> HIDE DEF fresh
<1>3. key \in [fresh -> Nat] /\ \A f, g \in fresh : key[f] = key[g] => f = g
    BY <1>1 DEF FillInv
<1>4. ASSUME NEW f \in fresh PROVE rank(f) = Cardinality({g \in fresh : g.n < f.n})
    <2>1. {g \in fresh : key[g] < key[f]} = {g \in fresh : g.n < f.n}
        OBVIOUS
    <2> QED BY <2>1
<1> HIDE DEF key
<1>5. /\ n \in Nat
      /\ \A i \in 1..n : \E f \in fresh : rank(f) = i - 1
      /\ \A f \in fresh : rank(f) \in 0..(n - 1)
      /\ \A f, g \in fresh : rank(f) = rank(g) => f = g
    BY ZenonT(60), <1>1, <1>3, RankIsOnto
<1> HIDE DEF rank, n
<1>6. ASSUME NEW i \in 1..n PROVE at(i) \in fresh /\ rank(at(i)) = i - 1
    <2>1. \E f \in fresh : Cardinality({g \in fresh : g.n < f.n}) = i - 1
        BY <1>4, <1>5
    <2>2. at(i) \in fresh /\ Cardinality({g \in fresh : g.n < at(i).n}) = i - 1
        BY <2>1
    <2> HIDE DEF at
    <2> QED BY <1>4, <2>2
<1> HIDE DEF at
<1>7. DOMAIN New = 1..n /\ \A i \in 1..n : New[i] = at(i)
    BY <1>2
<1>8. New \in Seq(fresh)
    BY <1>2, <1>5, <1>6
<1>9. ASSUME NEW i \in 1..n, NEW j \in 1..n, i < j PROVE New[i] # New[j]
    BY <1>5, <1>6, <1>7, <1>9
<1> QED BY <1>7, <1>8, <1>9 DEF fresh

(* Appending: what parses of the new rows extends the ledger, in order and   *)
(* each once.                                                                *)
LEMMA RowsAreWritten ==
    ASSUME FillBounds, FillInv, NEW k \in 0..Len(New), NEW half \in BOOLEAN, half => k > 0,
           NEW after, after = lines \o Written(k, half)
    PROVE  /\ after \in Seq(made)
           /\ \A i, j \in DOMAIN after : i < j => after[i] # after[j] /\ after[i].day <= after[j].day
           /\ ToSet(after) \subseteq Loaded \cup ToSet(New)
<1> DEFINE fresh == Report \ AlreadySeen[1]
           a == IF cut THEN 2 ELSE 1
           b == IF half THEN k - 1 ELSE k
           w == Written(k, half)
           n == Len(lines)
           m == Len(w)
<1>1. /\ New \in Seq(fresh) /\ Len(New) \in Nat /\ DOMAIN New = 1..Len(New)
      /\ \A i, j \in 1..Len(New) : i < j => New[i] # New[j]
      /\ \A i \in 1..Len(New) : New[i] \in fresh /\ New[i] \in ToSet(New)
    <2>1. New \in Seq(fresh) /\ \A i, j \in DOMAIN New : i < j => New[i] # New[j]
        BY NewIsFresh
    <2> HIDE DEF fresh
    <2> QED BY <2>1 DEF ToSet
<1>2. fresh \subseteq made /\ \A f \in fresh : f.day = session /\ f \notin Loaded
    BY TodayWasSeen DEF Report, Of, FillInv
<1>3. /\ lines \in Seq(made) /\ n \in Nat /\ DOMAIN lines = 1..n
      /\ \A i, j \in 1..n : i < j => lines[i] # lines[j] /\ lines[i].day <= lines[j].day
      /\ \A i \in 1..n : lines[i] \in made /\ lines[i] \in Loaded
    BY SMTT(30) DEF FillInv, Loaded, ToSet
<1>4. session \in Nat /\ \A f \in made : f.day \in Nat /\ f.day <= session
    BY DEF FillInv, Fill
<1>5. a \in {1, 2} /\ b \in 0..Len(New)
    BY <1>1
<1>6. w = SubSeq(New, a, b)
    BY DEF Written
<1> HIDE DEF fresh, a, b, w
<1>7. /\ w \in Seq(fresh) /\ m \in Nat /\ DOMAIN w = 1..m
      /\ \A i \in 1..m : i + a - 1 \in 1..Len(New) /\ w[i] = New[i + a - 1]
    BY <1>1, <1>5, <1>6
<1>8. \A i \in 1..m : w[i] \in fresh /\ w[i] \in ToSet(New)
    BY <1>1, <1>7
<1>9. \A i, j \in 1..m : i < j => w[i] # w[j]
    <2> SUFFICES ASSUME NEW i \in 1..m, NEW j \in 1..m, i < j PROVE w[i] # w[j]
        OBVIOUS
    <2>1. i + a - 1 < j + a - 1
        BY <1>5, <1>7
    <2> QED BY <1>1, <1>7, <2>1
<1>10. after = lines \o w
    BY DEF w
<1>11. w \in Seq(made)
    BY <1>2, <1>7
<1>12. /\ after \in Seq(made) /\ Len(after) = n + m /\ DOMAIN after = 1..(n + m)
       /\ \A i \in 1..n : after[i] = lines[i]
       /\ \A i \in 1..(n + m) : i > n => i - n \in 1..m /\ after[i] = w[i - n]
    BY <1>3, <1>7, <1>10, <1>11
<1> HIDE DEF n, m
<1>n. \A i \in 1..(n + m) : i <= n \/ i > n
    BY <1>3, <1>7
<1>13. ASSUME NEW i \in 1..(n + m), NEW j \in 1..(n + m), i < j
       PROVE  after[i] # after[j] /\ after[i].day <= after[j].day
    <2>1. CASE i <= n /\ j <= n
        <3>1. i \in 1..n /\ j \in 1..n
            BY <1>3, <1>7, <2>1
        <3> QED BY <1>3, <1>12, <1>13, <3>1
    <2>2. CASE i <= n /\ j > n
        <3>1. i \in 1..n
            BY <1>3, <1>7, <2>2
        <3>2. after[i] \in made /\ after[i] \in Loaded
            BY <1>3, <1>12, <3>1
        <3>3. after[j] \in fresh
            BY <1>8, <1>12, <2>2
        <3> QED BY <1>2, <1>4, <3>2, <3>3
    <2>3. CASE i > n
        <3>1. j > n /\ i - n < j - n
            BY <1>3, <1>7, <1>13, <2>3
        <3>2. i - n \in 1..m /\ j - n \in 1..m /\ after[i] = w[i - n] /\ after[j] = w[j - n]
            BY <1>12, <2>3, <3>1
        <3>3. after[i] \in fresh /\ after[j] \in fresh /\ after[i] # after[j]
            BY <1>8, <1>9, <3>1, <3>2
        <3> QED BY <1>2, <1>4, <3>3
    <2>4. (i <= n \/ i > n) /\ (j <= n \/ j > n)
        BY <1>n
    <2> QED BY <2>1, <2>2, <2>3, <2>4
<1>14. ASSUME NEW i \in 1..(n + m) PROVE after[i] \in Loaded \cup ToSet(New)
    <2>1. CASE i <= n
        <3>1. i \in 1..n
            BY <1>3, <1>7, <2>1
        <3> QED BY <1>3, <1>12, <3>1
    <2>2. CASE i > n
        BY <1>8, <1>12, <2>2
    <2>3. i <= n \/ i > n
        BY <1>n
    <2> QED BY <2>1, <2>2, <2>3
<1>15. ToSet(after) \subseteq Loaded \cup ToSet(New)
    BY <1>12, <1>14 DEF ToSet
<1> QED BY <1>12, <1>13, <1>15

LEMMA MergeKeepsFills ==
    ASSUME FillBounds, FillInv, Reported PROVE FillInv'
<1>1. PICK k \in 0..Len(New), half \in BOOLEAN, isSaved \in BOOLEAN : Merge(k, half, isSaved)
    BY DEF Reported
<1>2. /\ half => k > 0
      /\ session' = session /\ made' = made /\ lines' = lines \o Written(k, half)
      /\ seen' = <<AlreadySeen[1] \cup ToSet(New)>>
      /\ cut' = IF k = 0 THEN cut ELSE half
      /\ ibkr' = [ring |-> LastRows(ibkr.ring \o New, FillRing), refresh |-> session, count |-> Cardinality(Report)]
      /\ ibkrSaved' = IF isSaved THEN ibkr' ELSE ibkrSaved
    BY <1>1 DEF Merge
<1>3. /\ lines' \in Seq(made)
      /\ \A i, j \in DOMAIN lines' : i < j => lines'[i] # lines'[j] /\ lines'[i].day <= lines'[j].day
      /\ Loaded' \subseteq Loaded \cup ToSet(New)
    <2> DEFINE after == lines \o Written(k, half)
    <2>1. /\ after \in Seq(made)
          /\ \A i, j \in DOMAIN after : i < j => after[i] # after[j] /\ after[i].day <= after[j].day
          /\ ToSet(after) \subseteq Loaded \cup ToSet(New)
        BY <1>2, RowsAreWritten
    <2>2. lines' = after
        BY <1>2
    <2> HIDE DEF after
    <2> QED BY <2>1, <2>2 DEF Loaded
<1>4. New \in Seq(made)
    <2>1. New \in Seq(Report \ AlreadySeen[1])
        BY NewIsFresh
    <2>2. Report \ AlreadySeen[1] \subseteq made
        BY DEF Report, Of
    <2> QED BY <2>1, <2>2
<1>5. Of(session, Loaded') \subseteq AlreadySeen[1] \cup ToSet(New)
    BY <1>3, TodayWasSeen DEF Of
<1>6. TrueReport(ibkr)'
    <2>1. ibkr.ring \o New \in Seq(made)
        BY <1>4 DEF FillInv, TrueReport
    <2>2. LastRows(ibkr.ring \o New, FillRing) \in Seq(made)
        BY <2>1, TheLastRows DEF FillBounds
    <2>3. Cardinality(Report) \in Nat
        BY OfGrows DEF FillInv, Report
    <2>4. session \in 0..session
        BY DEF FillInv, FillBounds
    <2> QED BY <1>2, <2>2, <2>3, <2>4 DEF TrueReport, Report
<1>7. TrueReport(ibkrSaved)'
    <2>1. CASE isSaved
        BY <1>2, <1>6, <2>1 DEF TrueReport
    <2>2. CASE ~isSaved
        BY <1>2, <2>2 DEF FillInv, TrueReport
    <2> QED BY <2>1, <2>2
<1>8. cut' \in BOOLEAN
    BY <1>2 DEF FillInv
<1>9. seen' # NotSeeded => Of(session', Loaded') \subseteq seen'[1]
    BY <1>2, <1>5
<1>10. /\ session' \in 1..LastSession
       /\ made' \subseteq {f \in Fill : f.day <= session'} /\ IsFiniteSet(made')
       /\ \A f, g \in made' : f.day = g.day /\ f.n = g.n => f = g
       /\ \A f \in made' : f.n <= Cardinality(Of(f.day, made'))
       /\ Cardinality(Of(session', made')) <= FillsPerDay
    BY <1>2 DEF FillInv, Report
<1> QED
    BY <1>2, <1>3, <1>6, <1>7, <1>8, <1>9, <1>10 DEF FillInv, Report

LEMMA ExecutesKeepsFills ==
    ASSUME FillBounds, FillInv, Executes PROVE FillInv'
<1>1. PICK side \in {"BOT", "SLD"} :
          made' = made \cup {[day |-> session, n |-> Cardinality(Report) + 1, side |-> side]}
    BY DEF Executes
<1> DEFINE e == [day |-> session, n |-> Cardinality(Report) + 1, side |-> side]
<1>2. /\ Cardinality(Report) < FillsPerDay
      /\ UNCHANGED <<session, lines, cut, seen, ibkr, ibkrSaved>>
    BY DEF Executes
<1>3. /\ Cardinality(Report) \in Nat /\ session \in Nat /\ session \in 1..LastSession
      /\ IsFiniteSet(made) /\ IsFiniteSet(Report) /\ Report \subseteq made
    <2>1. Cardinality(Report) \in Nat /\ IsFiniteSet(Report)
        BY OfGrows DEF FillInv, Report
    <2>2. Report \subseteq made
        BY DEF Report, Of
    <2>3. session \in Nat /\ session \in 1..LastSession /\ IsFiniteSet(made)
        BY DEF FillInv
    <2> QED BY <2>1, <2>2, <2>3
<1>4. e \in Fill /\ e.day = session /\ e.n = Cardinality(Report) + 1 /\ made' = made \cup {e}
    BY <1>1, <1>2, <1>3 DEF Fill, FillBounds
<1> HIDE DEF e
<1>5. IsFiniteSet(made') /\ made \in SUBSET made'
    BY <1>3, <1>4, FS_AddElement
<1>6. \A f \in made : f.n \in Nat /\ f.day \in Nat
    BY DEF FillInv, Fill
<1>7. \A f \in made : f.day = session => f.n < e.n
    <2> SUFFICES ASSUME NEW f \in made, f.day = session PROVE f.n < e.n
        OBVIOUS
    <2>1. f.n <= Cardinality(Report)
        BY DEF FillInv, Report
    <2> QED BY <1>3, <1>4, <1>6, <2>1
<1>8. Report' = Report \cup {e} /\ e \notin Report
    BY <1>2, <1>4, <1>6, <1>7 DEF Report, Of
<1>9. Cardinality(Report') = Cardinality(Report) + 1
    BY <1>3, <1>8, FS_AddElement
<1>10. \A d : Cardinality(Of(d, made)) \in Nat /\ Cardinality(Of(d, made')) \in Nat
              /\ Cardinality(Of(d, made)) <= Cardinality(Of(d, made'))
    BY <1>5, OfGrows
<1>11. \A f, g \in made' : f.day = g.day /\ f.n = g.n => f = g
    <2>1. \A f, g \in made : f.day = g.day /\ f.n = g.n => f = g
        BY DEF FillInv
    <2> QED BY <1>4, <1>6, <1>7, <2>1
<1>12. ASSUME NEW f \in made' PROVE f.n <= Cardinality(Of(f.day, made'))
    <2>1. CASE f \in made
        <3>1. f.n <= Cardinality(Of(f.day, made))
            BY <2>1 DEF FillInv
        <3> QED BY <1>6, <1>10, <2>1, <3>1
    <2>2. CASE f = e
        BY <1>2, <1>3, <1>4, <1>9, <2>2 DEF Report
    <2> QED BY <1>4, <2>1, <2>2
<1>13. lines \in Seq(made) => lines \in Seq(made')
    BY <1>5
<1>14. ASSUME NEW s, TrueReport(s)
       PROVE  /\ s.ring \in Seq(made') /\ s.refresh \in 0..session /\ s.count \in Nat
              /\ s.count <= Cardinality(Of(s.refresh, made'))
    <2>1. /\ s.ring \in Seq(made) /\ s.refresh \in 0..session /\ s.count \in Nat
          /\ s.count <= Cardinality(Of(s.refresh, made))
        BY <1>14 DEF TrueReport
    <2>2. s.ring \in Seq(made')
        BY <1>5, <2>1
    <2> QED BY <1>10, <2>1, <2>2
<1>15. TrueReport(ibkr)' /\ TrueReport(ibkrSaved)'
    BY <1>2, <1>14 DEF TrueReport, FillInv
<1>16. made' \subseteq {f \in Fill : f.day <= session}
    BY <1>3, <1>4 DEF FillInv
<1>17. /\ \A i, j \in DOMAIN lines' : i < j => lines'[i] # lines'[j] /\ lines'[i].day <= lines'[j].day
       /\ seen' # NotSeeded => Of(session', Loaded') \subseteq seen'[1]
       /\ cut' \in BOOLEAN
    BY <1>2 DEF FillInv, Loaded
<1>18. Cardinality(Report)' <= FillsPerDay
    BY <1>2, <1>3, <1>9 DEF FillBounds
<1>19. lines' \in Seq(made')
    BY <1>2, <1>13 DEF FillInv
<1> QED
    BY <1>2, <1>3, <1>5, <1>11, <1>12, <1>15, <1>16, <1>17, <1>18, <1>19 DEF FillInv

LEMMA SessionKeepsFills ==
    ASSUME FillBounds, FillInv, NewSession PROVE FillInv'
<1>1. session < LastSession /\ session' = session + 1 /\ UNCHANGED <<made, lines, cut, seen, ibkr, ibkrSaved>>
    BY DEF NewSession
<1>2. session \in Nat /\ session' \in 1..LastSession /\ session < session' /\ LastSession \in Nat
    BY <1>1 DEF FillInv, FillBounds
<1>3. \A f \in made : f.day \in Nat /\ f.day <= session
    BY DEF FillInv, Fill
<1>4. made' \subseteq {f \in Fill : f.day <= session'}
    BY <1>1, <1>2, <1>3 DEF FillInv
<1>5. Of(session', made) = {}
    BY <1>2, <1>3 DEF Of
<1>6. Cardinality(Report)' <= FillsPerDay
    BY <1>1, <1>5, FS_EmptySet DEF Report, FillBounds
<1>7. Of(session', Loaded') = {}
    <2>1. Loaded \subseteq made
        BY DEF FillInv, Loaded, ToSet
    <2> QED BY <1>1, <1>5, <2>1 DEF Of, Loaded
<1>8. TrueReport(ibkr)' /\ TrueReport(ibkrSaved)'
    BY <1>1, <1>2 DEF FillInv, TrueReport
<1> QED
    BY <1>1, <1>2, <1>4, <1>6, <1>7, <1>8 DEF FillInv

(* The fills: no row twice, no gap that is none and none missed, and of a    *)
(* day either all or nothing calibrates the costs.                           *)
THEOREM FillsAreAccountedHolds ==
    ASSUME FillBounds PROVE FillSpec => []FillsAreAccounted
<1>1. FillInit => FillInv
    <2> SUFFICES ASSUME FillInit PROVE FillInv
        OBVIOUS
    <2>1. /\ session = 1 /\ made = {} /\ lines = <<>> /\ cut = FALSE /\ seen = NotSeeded
          /\ ibkr = NoFills /\ ibkrSaved = NoFills
        BY DEF FillInit
    <2>2. \A d : Of(d, made) = {}
        BY <2>1 DEF Of
    <2>3. Cardinality({}) = 0 /\ IsFiniteSet({})
        BY FS_EmptySet
    <2>4. TrueReport(NoFills)
        <3>1. Cardinality(Of(0, made)) = 0
            BY <2>2, <2>3
        <3>2. /\ NoFills.ring = <<>> /\ NoFills.refresh = 0 /\ NoFills.count = 0
              /\ 0 \in 0..session /\ <<>> \in Seq(made)
            BY <2>1 DEF NoFills
        <3> QED BY <3>1, <3>2 DEF TrueReport
    <2>5. Cardinality(Report) = 0
        BY <2>2, <2>3 DEF Report
    <2>6. lines \in Seq(made) /\ DOMAIN lines = {} /\ 1 \in 1..LastSession /\ 0 <= FillsPerDay
        BY <2>1 DEF FillBounds
    <2> QED BY <2>1, <2>3, <2>4, <2>5, <2>6 DEF FillInv
<1>2. FillInv /\ [LedgerNext]_fillVars => FillInv'
    <2>1. ASSUME FillInv, Restart PROVE FillInv'
        BY <2>1 DEF Restart, FillInv, TrueReport, Report, Loaded
    <2>2. ASSUME FillInv, UNCHANGED fillVars PROVE FillInv'
        BY <2>2 DEF fillVars, FillInv, TrueReport, Report, Loaded
    <2> QED BY <2>1, <2>2, MergeKeepsFills, ExecutesKeepsFills, SessionKeepsFills DEF LedgerNext
<1>3. ASSUME FillInv PROVE FillsAreAccounted
    <2>1. Loaded \subseteq made /\ IsFiniteSet(made) /\ lines \in Seq(made)
        BY <1>3 DEF FillInv, Loaded, ToSet
    <2>2. NoFillTwice
        <3> DEFINE n == Len(lines)
                   at == [i \in 1..n |-> lines[i]]
        <3>1. n \in Nat /\ DOMAIN lines = 1..n
            BY <2>1
        <3>2. \A i, j \in 1..n : lines[i] = lines[j] => i = j
            <4>1. \A i, j \in 1..n : i < j => lines[i] # lines[j]
                BY <1>3, <3>1 DEF FillInv
            <4> HIDE DEF n
            <4> QED BY <3>1, <4>1
        <3>3. at \in Bijection(1..n, Loaded)
            BY <3>1, <3>2 DEF Bijection, Injection, Surjection, IsInjective, Loaded, ToSet
        <3>4. Cardinality(Loaded) = Cardinality(1..n)
            <4>1. ExistsBijection(1..n, Loaded)
                BY <3>3 DEF ExistsBijection
            <4>2. IsFiniteSet(1..n)
                BY <3>1, FS_Interval
            <4> HIDE DEF n
            <4> QED BY <4>1, <4>2, FS_Bijection
        <3>5. Cardinality(1..n) = n
            <4> HIDE DEF n, at
            <4>1. Cardinality(1..n) = IF 1 > n THEN 0 ELSE n - 1 + 1
                BY <3>1, FS_Interval
            <4> QED BY <3>1, <4>1
        <3> QED BY <3>4, <3>5 DEF NoFillTwice
    <2>3. GapIsSeen
        <3> DEFINE d == ibkrSaved.refresh
                   known == Of(d, Loaded)
        <3>1. ibkrSaved.count \in Nat /\ ibkrSaved.count <= Cardinality(Of(d, made))
            BY <1>3 DEF FillInv, TrueReport
        <3>2. /\ known \subseteq Of(d, made)
              /\ Cardinality(Of(d, made)) \in Nat /\ Cardinality(known) \in Nat
              /\ known # Of(d, made) => Cardinality(known) < Cardinality(Of(d, made))
            BY <2>1, OfGrows
        <3>3. Of(d, made) \subseteq Loaded <=> known = Of(d, made)
            BY <2>1 DEF Of
        <3>4. Gap <=> Comparable /\ Cardinality(known) < ibkrSaved.count
            BY DEF Gap, Comparable
        <3> HIDE DEF known, d
        <3>5. Gap => ~(Of(d, made) \subseteq Loaded)
            BY <3>1, <3>2, <3>3, <3>4
        <3>6. Comparable /\ ~(Of(d, made) \subseteq Loaded) /\ ibkrSaved.count = Cardinality(Of(d, made)) => Gap
            BY <3>1, <3>2, <3>3, <3>4
        <3> QED BY <3>5, <3>6 DEF GapIsSeen, d
    <2>4. CalibrationIsClean
        <3>1. Known \subseteq made
            BY <1>3, <2>1 DEF Known, FillInv, TrueReport, ToSet
        <3> SUFFICES ASSUME NEW d \in 1..LastSession, Of(d, made) \subseteq Known
                     PROVE  Of(d, Calibration) = IF d < CleanStart \/ Churn(Of(d, made)) THEN {} ELSE Of(d, made)
            BY DEF CalibrationIsClean
        <3>2. Of(d, Known) = Of(d, made)
            BY <3>1 DEF Of
        <3>3. Of(d, Calibration) = {f \in Of(d, made) : d >= CleanStart /\ ~Churn(Of(d, made))}
            BY <3>2 DEF Calibration, Of
        <3>4. d >= CleanStart <=> ~(d < CleanStart)
            BY DEF FillBounds
        <3> QED BY <3>3, <3>4
    <2> QED BY <2>2, <2>3, <2>4 DEF FillsAreAccounted
<1> QED
    BY <1>1, <1>2, <1>3, PTL DEF FillSpec

(* ------------------------- the doors to a model -------------------------- *)
(* Any request, answer and limits: the module takes them from small sets,    *)
(* these are all of their shape, over any set of words.  A measured usage is *)
(* a number, or check_context and parse_chat_response would have refused it. *)
Replies(Words) == [symbol : Words, value : Int]
AnyAnswer(Words) ==
    [tokenized : [count : Int, served : Int], shape : {"stop", "length"},
     prompt : Int \ {NotANumber}, completion : Int, data : Seq(Replies(Words))]
AnyRequest(Words) == [task : Words, prompt : Words, tokens : Int, symbols : Seq(Words)]
AnyLimits == [context : Int, output : Int]
AnyExchange(Words) ==
    [request : AnyRequest(Words), answer : AnyAnswer(Words), client : AnyLimits, settings : AnyLimits]

\* A list without repetition has as many names as entries.
LEMMA NamesAreCounted ==
    ASSUME NEW Words, NEW data \in Seq(Replies(Words)),
           \A i, j \in DOMAIN data : data[i].symbol = data[j].symbol => i = j
    PROVE  Cardinality({data[i].symbol : i \in DOMAIN data}) = Len(data)
<1> DEFINE n == Len(data)
           S == {data[i].symbol : i \in DOMAIN data}
           f == [i \in 1..n |-> data[i].symbol]
<1>1. n \in Nat /\ DOMAIN data = 1..n
    OBVIOUS
<1>2. f \in Bijection(1..n, S)
    <2>1. f \in [1..n -> S] /\ \A y \in S : \E x \in 1..n : f[x] = y
        BY <1>1
    <2>2. \A x, y \in 1..n : f[x] = f[y] => x = y
        BY <1>1
    <2> HIDE DEF f, S, n
    <2>3. f \in Injection(1..n, S) /\ f \in Surjection(1..n, S)
        BY <2>1, <2>2 DEF Injection, Surjection, IsInjective
    <2> QED BY <2>3 DEF Bijection
<1>3. ExistsBijection(1..n, S)
    BY <1>2 DEF ExistsBijection
<1>4. IsFiniteSet(1..n) /\ Cardinality(1..n) = n
    BY <1>1, FS_Interval
<1> HIDE DEF S, n
<1>5. Cardinality(S) = n
    BY <1>3, <1>4, FS_Bijection
<1> QED BY <1>5 DEF S, n

\* What a door lets through fits the context and is an answer to the request.
LEMMA DirectIsOk ==
    ASSUME NEW Words, NEW r \in AnyRequest(Words), NEW a \in AnyAnswer(Words), NEW c \in AnyLimits, Direct(r, a, c) = "ok"
    PROVE  /\ PayloadOk(r, c) /\ ChatOk(a, r)
           /\ a.tokenized.served = None \/ a.tokenized.count + r.tokens <= a.tokenized.served
<1>1. PayloadOk(r, c)
    BY DEF Direct
<1>2. ContextChecked(a.tokenized, r.tokens, c.context) = "ok"
    BY <1>1 DEF Direct
<1>3. ChatOk(a, r)
    BY <1>1, <1>2 DEF Direct
<1> DEFINE t == a.tokenized
<1>4. t.count \in Int /\ t.served \in Int /\ r.tokens \in Int /\ c.context \in Int
    BY DEF AnyAnswer, AnyRequest, AnyLimits
<1> HIDE DEF t
<1>5. t.served = None \/ t.count + r.tokens <= t.served
    BY <1>2, <1>4 DEF ContextChecked, None, t
<1> QED BY <1>1, <1>3, <1>5 DEF t

\* Data for a portfolio weighs names of the request, each once.
LEMMA PortfolioIsContained ==
    ASSUME NEW Words, NEW data \in Seq(Replies(Words)), NEW symbols \in Seq(Words), DataOk("portfolio", data, symbols)
    PROVE  /\ Cardinality({data[i].symbol : i \in DOMAIN data} \cap ToSet(symbols)) = Len(data)
           /\ \A i \in DOMAIN data : data[i].value \in (0 - 5)..5
<1>1. /\ \A i \in DOMAIN data : data[i].symbol \in ToSet(symbols) /\ InBounds(data[i].value, 0 - 5, 5)
      /\ \A i, j \in DOMAIN data : data[i].symbol = data[j].symbol => i = j
    BY DEF DataOk
<1>2. \A i \in DOMAIN data : data[i].value \in (0 - 5)..5
    <2>1. ASSUME NEW i \in DOMAIN data PROVE data[i].value \in (0 - 5)..5
        <3>1. data[i] \in Replies(Words)
            OBVIOUS
        <3>2. data[i].value \in Int
            BY <3>1 DEF Replies
        <3>3. 0 - 5 <= data[i].value /\ data[i].value <= 5
            BY <1>1 DEF InBounds
        <3> QED BY <3>2, <3>3
    <2> QED BY <2>1
<1>3. {data[i].symbol : i \in DOMAIN data} \cap ToSet(symbols) = {data[i].symbol : i \in DOMAIN data}
    BY <1>1
<1> QED BY <1>1, <1>2, <1>3, NamesAreCounted

\* The exchanges of the module are among them.
LEMMA ExchangesAreAny ==
    ExchangeInit => \E Words : exchange \in AnyExchange(Words)
<1> DEFINE Words == Tasks \cup {"A", "B", "?", "no list", "text", "blank or too long"}
<1>1. Limits \subseteq AnyLimits
    BY DEF Limits, AnyLimits
<1>2. Requests \subseteq AnyRequest(Words)
    <2>1. {"A", "B", "?", "no list"} \subseteq Words
        OBVIOUS
    <2>3. {"portfolio", "sentiment", "research", "text", "blank or too long"} \subseteq Words
        BY DEF Tasks
    <2> HIDE DEF Words
    <2>2. ASSUME NEW x \in Words, NEW y \in Words
          PROVE  <<>> \in Seq(Words) /\ <<x>> \in Seq(Words) /\ <<x, y>> \in Seq(Words)
        OBVIOUS
    <2>4. {<<>>, <<"A">>, <<"A", "B">>, <<"A", "A">>} \subseteq Seq(Words)
        BY <2>1, <2>2
    <2>5. {Absent, <<Malformed>>} \subseteq Seq(Words)
        BY <2>1, <2>2 DEF Absent, Malformed
    <2>6. ASSUME NEW r \in Requests PROVE r \in AnyRequest(Words)
        <3>1. CASE r \in [task : {"portfolio"}, prompt : {"text"}, tokens : {0, 2, 3},
                          symbols : {Absent, <<>>, <<"A">>, <<"A", "B">>, <<"A", "A">>, <<Malformed>>}]
            <4>1. r.symbols \in Seq(Words)
                BY <2>4, <2>5, <3>1
            <4>2. r.task \in Words /\ r.prompt \in Words /\ r.tokens \in Int
                <5>1. r.task \in {"portfolio"} /\ r.prompt \in {"text"} /\ r.tokens \in {0, 2, 3}
                    BY <3>1
                <5>2. r.tokens \in Int
                    BY <5>1
                <5> QED BY <2>3, <5>1, <5>2
            <4>3. r = [task |-> r.task, prompt |-> r.prompt, tokens |-> r.tokens, symbols |-> r.symbols]
                BY <3>1
            <4> QED BY <4>1, <4>2, <4>3 DEF AnyRequest
        <3>2. CASE r \in [task : {"sentiment", "research"}, prompt : {"text", "blank or too long"},
                          tokens : {2}, symbols : {Absent, <<"A">>}]
            <4>1. r.symbols \in Seq(Words)
                BY <2>4, <2>5, <3>2
            <4>2. r.task \in Words /\ r.prompt \in Words /\ r.tokens \in Int
                <5>1. r.task \in {"sentiment", "research"} /\ r.prompt \in {"text", "blank or too long"} /\ r.tokens \in {2}
                    BY <3>2
                <5>2. r.tokens \in Int
                    <6>1. r.tokens = 2
                        BY <5>1
                    <6> QED BY <6>1
                <5> QED BY <2>3, <5>1, <5>2
            <4>3. r = [task |-> r.task, prompt |-> r.prompt, tokens |-> r.tokens, symbols |-> r.symbols]
                BY <3>2
            <4> QED BY <4>1, <4>2, <4>3 DEF AnyRequest
        <3> QED BY <3>1, <3>2 DEF Requests
    <2> QED BY <2>6
<1>3. Answers \subseteq AnyAnswer(Words)
    <2>1. ReplyRows \subseteq Replies(Words)
        <3>1. {"A", "B"} \subseteq Words /\ {0 - 6, 1, NotANumber} \subseteq Int
            BY DEF NotANumber
        <3> HIDE DEF Words
        <3> QED BY <3>1 DEF ReplyRows, Replies
    <2> HIDE DEF Words
    <2>2. SeqOf(ReplyRows, 2) \subseteq Seq(Replies(Words))
        <3>1. ASSUME NEW m \in 0..2, NEW x \in [1..m -> ReplyRows] PROVE x \in Seq(Replies(Words))
            <4>1. m \in Nat /\ x \in [1..m -> Replies(Words)]
                BY <2>1
            <4> QED BY <4>1
        <3> QED BY <3>1 DEF SeqOf
    <2>3. {None, 0, 4} \subseteq Int /\ {1, 6} \subseteq Int \ {NotANumber}
        BY DEF None, NotANumber
    <2> QED BY <2>2, <2>3 DEF Answers, AnyAnswer
<1> HIDE DEF Words
<1> QED
    BY <1>1, <1>2, <1>3 DEF ExchangeInit, Exchanges, AnyExchange

(* "Independent validation here still rejects malformed, truncated,          *)
(* non-finite, or out-of-universe output" (core/llm/contracts.py): whatever  *)
(* is asked and answered, the two doors let the same through, and a proposal *)
(* that passes weighs names of its briefing, each once and within a          *)
(* twentieth of NAV.                                                         *)
THEOREM AnswersAreCheckedHolds ==
    ASSUME NEW Words, exchange \in AnyExchange(Words) PROVE AnswersAreChecked
<1> DEFINE r == exchange.request
           a == exchange.answer
           c == exchange.client
           s == exchange.settings
<1>1. r \in AnyRequest(Words) /\ a \in AnyAnswer(Words) /\ c \in AnyLimits /\ s \in AnyLimits
    BY DEF AnyExchange
<1> HIDE DEF r, a, c, s
<1>2. ASSUME Through(r, a, c, s) = "ok"
      PROVE  PayloadOk(r, c) /\ Direct(r, a, s) = "ok" /\ DataOk(r.task, a.data, r.symbols)
    <2>1. PayloadOk(r, c)
        BY <1>2 DEF Through
    <2>2. Direct(r, a, s) = "ok"
        BY <1>2, <2>1 DEF Through, Gateway
    <2>3. DataOk(r.task, a.data, r.symbols)
        BY <1>2, <2>1, <2>2 DEF Through, Gateway
    <2> QED BY <2>1, <2>2, <2>3
<1>3. ASSUME Direct(r, a, s) = "ok", PayloadOk(r, c), a.prompt <= c.context
      PROVE  Through(r, a, c, s) = "ok"
    <2>1. ChatOk(a, r)
        BY <1>1, <1>3, DirectIsOk
    <2>2. /\ DataOk(r.task, a.data, r.symbols) /\ InBounds(a.completion, 0, r.tokens)
          /\ InBounds(a.prompt, 0, c.context)
        BY <1>1, <1>3, <2>1 DEF ChatOk, InBounds, AnyAnswer
    <2> QED BY <1>3, <2>2 DEF Through, Gateway
<1>4. DoorsAgree
    <2>1. Through(r, a, c, s) = "ok" => r.tokens <= c.output
        BY <1>2 DEF PayloadOk, InBounds
    <2> QED BY <1>2, <1>3, <2>1 DEF DoorsAgree, r, a, c, s
<1>5. ASSUME "ok" \in {Through(r, a, c, s), Direct(r, a, c)}
      PROVE  /\ DataOk(r.task, a.data, r.symbols)
             /\ a.tokenized.served = None \/ a.tokenized.count + r.tokens <= a.tokenized.served
    <2>1. CASE Through(r, a, c, s) = "ok"
        BY <1>1, <1>2, <2>1, DirectIsOk
    <2>2. CASE Direct(r, a, c) = "ok"
        BY <1>1, <2>2, DirectIsOk DEF ChatOk
    <2> QED BY <1>5, <2>1, <2>2
<1>6. ProposalIsContained
    <2>1. a.data \in Seq(Replies(Words)) /\ r.symbols \in Seq(Words)
        BY <1>1 DEF AnyAnswer, AnyRequest
    <2>2. ASSUME DataOk(r.task, a.data, r.symbols), r.task = "portfolio"
          PROVE  /\ Cardinality({a.data[i].symbol : i \in DOMAIN a.data} \cap ToSet(r.symbols)) = Len(a.data)
                 /\ \A i \in DOMAIN a.data : a.data[i].value \in (0 - 5)..5
        BY <2>1, <2>2, PortfolioIsContained
    <2> QED BY <1>5, <2>2 DEF ProposalIsContained, r, a, c, s
<1> QED
    BY <1>4, <1>6 DEF AnswersAreChecked
==============================================================================
