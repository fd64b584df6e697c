---------------------------- MODULE DecisionGate -----------------------------
(* When a tick decides: the bar and the news it compares with the last       *)
(* rebalance, the provider the book was built on, coverage, and the forward  *)
(* leg of S3's decision ledger.  runtime/live.py (tick, _should_rebalance,   *)
(* _fetch_light, _fetch_heavy, _backfill_s3_forward), core/data/factory.py,  *)
(* core/data/polygon.py.                                                     *)
EXTENDS Integers

CONSTANTS
    Shock,      \* news_shock_threshold, in steps of a name's score
    MaxNews,    \* bound: steps of the score
    MaxBars,    \* bound: trading days
    MaxFlaps,   \* bound: ticks whose newest bar could not be fetched
    MaxFailures \* bound: ticks that raise after they decided, or cannot be saved

GateBounds == {Shock, MaxNews, MaxBars} \subseteq Nat \ {0} /\ {MaxFlaps, MaxFailures} \subseteq Nat

Providers == {"polygon", "yfinance"}

VARIABLES
    lastBar, \* the last trading day with a bar
    news,    \* the score of the name that moves
    halted,  \* whether the latch is up
    st,      \* state: basis, observed (data_provider), ref, forward (pending), book
    stSaved, \* its copy in state.json
    row,     \* the last forward row of the S3 ledger: [decision, forward] bars
    flaps, failures

decisionVars == <<lastBar, news, halted, st, stSaved, row, flaps, failures>>

Fresh ==
    [basis |-> "none", observed |-> "none", ref |-> [bar |-> 0, news |-> 0], forward |-> 0,
     book |-> [held |-> FALSE, basis |-> "none", bar |-> 0]]

DecisionInit ==
    /\ lastBar = 1 /\ news = 0 /\ halted = FALSE /\ st = Fresh /\ stSaved = Fresh
    /\ row = [decision |-> 0, forward |-> 1] /\ flaps = 0 /\ failures = 0

(* The accepted basis, or before there is one the provider last observed.    *)
LastObserved == st.observed
RecordOf == IF st.basis # "none" THEN st.basis ELSE st.observed

Changed(p) == RecordOf # "none" /\ p # RecordOf

Distance(a, b) == IF a < b THEN b - a ELSE a - b

(* _should_rebalance compares with what the last rebalance stamped.          *)
Should(bar) == bar # st.ref.bar \/ Distance(news, st.ref.news) >= Shock

(* The heavy path: asked for by the gate or by a book without weights, and   *)
(* never on another basis; a panel that lacks coverage, or comes from the    *)
(* cache, decides nothing.                                                   *)
WantsHeavy(p, bar) == ~Changed(p) /\ (Should(bar) \/ ~st.book.held)
Decides(p, bar, light, heavy) == light /\ WantsHeavy(p, bar) /\ heavy

Backfills(bar, light) == light /\ st.forward # 0 /\ bar # st.forward

(* What the tick has written into the state when its decision is made.       *)
RefAfter(p, bar, light, heavy) ==
    IF Decides(p, bar, light, heavy) THEN [bar |-> bar, news |-> news] ELSE st.ref

Decided(p, bar, light, heavy) ==
    [st EXCEPT !.basis = RecordOf,
               !.ref = RefAfter(p, bar, light, heavy),
               !.forward = IF Decides(p, bar, light, heavy) THEN lastBar
                           ELSE IF Backfills(bar, light) THEN 0 ELSE @]

(* ... and when it is done: a latched tick settles every book flat.          *)
Settled(p, bar, light, heavy) ==
    [Decided(p, bar, light, heavy) EXCEPT
        !.observed = p,
        !.basis = IF Decides(p, bar, light, heavy) THEN p ELSE @,
        !.book = IF Decides(p, bar, light, heavy)
                 THEN [held |-> ~halted, basis |-> p, bar |-> bar]
                 ELSE [st.book EXCEPT !.held = @ /\ ~halted]]

Ends == {"saved", "unsaved", "raised"}

DecisionTick(p, bar, light, heavy, end) ==
    /\ row' = IF Backfills(bar, light) THEN [decision |-> st.forward, forward |-> bar] ELSE row
    /\ st' = IF end = "raised" THEN Decided(p, bar, light, heavy) ELSE Settled(p, bar, light, heavy)
    /\ stSaved' = IF end = "saved" THEN st' ELSE stSaved
    /\ failures' = IF end = "saved" THEN failures ELSE failures + 1
    /\ failures' <= MaxFailures
    /\ UNCHANGED <<lastBar, news, halted>>

(* latest_grouped walks back from today past a request that failed.          *)
TickOnNewest ==
    /\ \E p \in Providers, light, heavy \in BOOLEAN, end \in Ends : DecisionTick(p, lastBar, light, heavy, end)
    /\ UNCHANGED flaps

TickOnOlder ==
    /\ flaps < MaxFlaps /\ flaps' = flaps + 1 /\ lastBar > 1
    /\ \E p \in Providers, heavy \in BOOLEAN, end \in Ends : DecisionTick(p, lastBar - 1, TRUE, heavy, end)

DecisionCrash == st # stSaved /\ st' = stSaved /\ UNCHANGED <<lastBar, news, halted, stSaved, row, flaps, failures>>

NewBar == lastBar < MaxBars /\ lastBar' = lastBar + 1 /\ UNCHANGED <<news, halted, st, stSaved, row, flaps, failures>>

NewsMoves ==
    /\ news' \in {n \in 0..MaxNews : Distance(n, news) = 1}
    /\ UNCHANGED <<lastBar, halted, st, stSaved, row, flaps, failures>>

LatchMoves == halted' = ~halted /\ UNCHANGED <<lastBar, news, st, stSaved, row, flaps, failures>>

GateNext == TickOnNewest \/ TickOnOlder \/ DecisionCrash \/ NewBar \/ NewsMoves \/ LatchMoves

DecisionSpec == DecisionInit /\ [][GateNext]_decisionVars

(* ------------------------------ properties ------------------------------- *)
DecisionTypeOK ==
    /\ lastBar \in 1..MaxBars /\ news \in 0..MaxNews
    /\ {st.basis, st.observed, st.book.basis} \subseteq Providers \cup {"none"}
    /\ row \in [decision : 0..MaxBars, forward : 1..MaxBars]

(* A book is never rebuilt on another provider's prices than those it was    *)
(* built on, whatever answers in between and over restarts (E63).            *)
BasisIsKept == st.book.basis # "none" => st'.book.basis \in {st.book.basis, stSaved.book.basis}
OneBasis == [][BasisIsKept]_decisionVars
==============================================================================
