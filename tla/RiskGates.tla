------------------------------ MODULE RiskGates ------------------------------
(***************************************************************************)
(* The drawdown and daily-loss gates of the combined book S4.              *)
(*                                                                         *)
(* Every tick marks the held book, appends the mark to the equity history  *)
(* that RiskGovernor.assess reads, and either rebalances to what S4        *)
(* proposes or holds what it has.  The history is a ring of marks; the     *)
(* gates see one close per calendar day, the current partial day included. *)
(* A halt latches and flattens; a request of clear_halt.py lifts the latch *)
(* at the start of the next tick, before the gates are assessed.           *)
(*                                                                         *)
(* NAV is a whole number and a book is its size: a mark moves NAV by size  *)
(* times move.  Costs, the VaR, sector, net and gross caps (slack here),   *)
(* and the choice whether to rebalance (an input) are abstracted; HaltLatch *)
(* models what files, failed ticks and crashes do to the latch.            *)
(***************************************************************************)
EXTENDS Integers, Sequences, SequencesExt

CONSTANTS
    Nav0,         \* initial NAV
    Navs,         \* bound: the NAVs the book may reach
    Moves,        \* what one unit of size may gain or lose in a tick
    Full,         \* size S4 proposes when it is invested
    GatesRing,    \* MAX_HISTORY
    GatesPerDay,  \* most ticks of one calendar day
    Gate1, Gate2, \* dd_gate_1, dd_gate_2: drawdowns in percent
    Kill          \* daily_loss_kill in percent

GatesBounds ==
    /\ Nav0 \in Navs /\ Navs \subseteq Nat \ {0}
    /\ 0 \in Moves /\ Moves \subseteq Int
    /\ Full \in Nat /\ Full % 2 = 0
    /\ GatesRing \in Nat \ {0, 1} /\ GatesPerDay \in Nat \ {0}
    /\ {Gate1, Gate2, Kill} \subseteq 1 .. 99 /\ Gate1 < Gate2

VARIABLES
    held,    \* size of the S4 book
    history, \* equity_history["s4"]: marks, oldest first
    applied, \* governor_applied_drawdown in halves: 2, 1 or 0
    latched, \* halt_latched
    request, \* clear_halt.py has asked for the latch to be lifted
    proposed \* history variable: the last book S4 proposed and the
             \* latch let through

gatesVars == <<held, history, applied, latched, request, proposed>>

\* A mark: the NAV, and whether it is the first of its calendar day.
GateMark == [nav : Navs, opens : BOOLEAN]

GatesTypeOK ==
    /\ held \in 0 .. Full
    /\ history \in Seq(GateMark) /\ Len(history) <= GatesRing
    /\ applied \in 0 .. 2
    /\ latched \in BOOLEAN /\ request \in BOOLEAN
    /\ proposed \in 0 .. Full

GatesInit ==
    /\ held = 0
    /\ history = <<>>
    /\ applied = 2
    /\ latched = FALSE /\ request = FALSE
    /\ proposed = 0

Nav == IF history = <<>> THEN Nav0 ELSE Last(history).nav

(***************************************************************************)
(* A defect a change could plausibly introduce; unused below.              *)
(***************************************************************************)
AssessedStored(mark) == history

(***************************************************************************)
(* RiskGovernor.assess on a curve of marks.                                *)
(***************************************************************************)

\* resample_daily: the last mark of each day that has one.
Closes(marks) == {i \in DOMAIN marks : i = Len(marks) \/ marks[i + 1].opens}

\* The close before the current day's, if there is one.
Yesterday(marks) == {i \in Closes(marks) : /\ i # Len(marks)
                                           /\ \A k \in Closes(marks) : k <= i \/ k = Len(marks)}

\* The current close is at least pct percent below the NAV before.
Below(marks, before, pct) == 100 * Last(marks).nav <= (100 - pct) * before

PeakNavs(marks) == {marks[i].nav : i \in Closes(marks)}

Drawdown(marks, pct) == \E peak \in PeakNavs(marks) : Below(marks, peak, pct)

DayLoss(marks) == \E i \in Yesterday(marks) : Below(marks, marks[i].nav, Kill)

\* Fewer than two marks trip no gate.
Halts(marks) == Len(marks) >= 2 /\ (Drawdown(marks, Gate2) \/ DayLoss(marks))
Halves(marks) == Len(marks) >= 2 /\ Drawdown(marks, Gate1)

\* risk_scale in halves.
Scale(marks) == IF Halts(marks) THEN 0 ELSE IF Halves(marks) THEN 1 ELSE 2

\* A held book takes only a reduction it has not had yet.
SizedOnHold(scale) ==
    IF scale < applied THEN (held * scale) \div applied ELSE held

(***************************************************************************)
(* The tick.                                                               *)
(***************************************************************************)

\* The curve the gates see: the history and the current mark, nothing on the
\* first tick.
Assessed(mark) == IF history = <<>> THEN <<>> ELSE Append(history, mark)

NextApplied(rebalance, scale) ==
    IF rebalance \/ scale < applied THEN scale ELSE applied

\* The ring keeps the last marks.
Kept(marks) == IF Len(marks) > GatesRing THEN Tail(marks) ELSE marks

\* The latch after this tick's clear and verdict.
LatchedAfter(halt) == (latched /\ ~request) \/ halt

\* The current day has had all its ticks.
DayIsOver == /\ Len(history) >= GatesPerDay
             /\ \A i \in Len(history) - GatesPerDay + 2 .. Len(history) : ~history[i].opens

GatesTick(move, opens, rebalance, proposal) ==
    /\ Nav + held * move \in Navs
    /\ DayIsOver => opens
    /\ LET mark  == [nav |-> Nav + held * move, opens |-> opens \/ history = <<>>]
           scale == Scale(Assessed(mark))
           sized == IF rebalance THEN (proposal * scale) \div 2 ELSE SizedOnHold(scale)
       IN  /\ latched' = LatchedAfter(scale = 0)
           /\ held' = IF latched' THEN 0 ELSE sized
           /\ applied' = NextApplied(rebalance, scale)
           /\ history' = Kept(Append(history, mark))
           /\ proposed' = IF latched' THEN 0
                          ELSE IF rebalance THEN proposal ELSE proposed
    /\ request' = (request /\ ~latched)

\* clear_halt.py writes its request only while state.json carries a latch.
ClearHalt ==
    /\ latched
    /\ request' = TRUE
    /\ UNCHANGED <<held, history, applied, latched, proposed>>

TickSome ==
    \E move \in Moves, opens, rebalance \in BOOLEAN, proposal \in {0, Full} :
        GatesTick(move, opens, rebalance, proposal)

GatesNext == TickSome \/ ClearHalt

GatesSpec == GatesInit /\ [][GatesNext]_gatesVars

(***************************************************************************)
(* Safety.                                                                 *)
(***************************************************************************)

\* A fund that is not halted is above both halt gates as of its latest mark,
\* not as of the tick before (live.py:1590 "Assess the CURRENT mark").
NoOpenBreach == ~latched => ~Halts(history)

\* Below gate 1 the book is at most half of what S4 proposes, also when it was
\* built before the drawdown and no rebalance has come since.
HalfBelowGateOne == Halves(history) => held <= Full \div 2

\* Hourly checks of one held book halve it once (governor.py:131 "must not
\* halve the same holdings again"): through dips, recoveries and new dips it
\* keeps half of what was proposed until a rebalance or a halt.
HalvedOnce == 2 * held >= proposed

\* The gates as of the latest mark, and the size they leave the book.
GatesHold == NoOpenBreach /\ HalfBelowGateOne /\ HalvedOnce
==============================================================================
