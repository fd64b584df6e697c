------------------------------ MODULE EventBook ------------------------------
(* S5, the forward book of the confirmed 8-K drift: the cache of filings,    *)
(* one poll of EDGAR a bar, the reaction that must have been observed, the   *)
(* holding window, and the research primitive it has to replicate.           *)
(* systems/s5_event/feed.py, systems/s5_event/engine.py, runtime/live.py     *)
(* (_run_s5), research/h1_event_study.py, research/primitives.py             *)
(* (calendar_time_daily), systems/s2_news/events.py.                         *)
EXTENDS Integers, FiniteSets, FiniteSetsExt

CONSTANTS
    Names,
    Bars,          \* calendar days with a bar; the others are weekends
    FilingDays,    \* bound: days on which there are filings
    EntryLag, ExitLag, MinUnits,
    Slack,         \* RETAIN_SLACK_DAYS
    MaxMisses      \* bound: polls that fail or miss a name

EventBounds ==
    /\ Bars \subseteq Nat /\ IsFiniteSet(Bars) /\ Bars # {} /\ FilingDays \subseteq Nat
    /\ EntryLag < ExitLag /\ {EntryLag, ExitLag, MinUnits, Slack, MaxMisses} \subseteq Nat

(* Two filings of a name on one day differ in accession and reaction.        *)
Filing == [name : Names, day : FilingDays, acc : {1, 2}]
Sign(f) == IF f.acc = 1 THEN 1 ELSE -1

VARIABLES
    filed,      \* every filing there will be
    bar,        \* the bar of the tick
    rows,       \* state.s5_raw_filings
    last_fetch, \* state.s5_last_fetch
    weights,    \* the book before sizing: net units by name
    complete,   \* history: a poll of this bar was stored and missed nothing
    degraded,   \* history: the last rebalance degraded and held the book it found
    misses

eventVars == <<filed, bar, rows, last_fetch, weights, complete, degraded, misses>>

Flat == [n \in Names |-> 0]

EventInit ==
    /\ filed \in SUBSET Filing
    /\ bar = Min(Bars)
    /\ rows = {} /\ last_fetch = 0 /\ weights = Flat /\ complete = FALSE /\ degraded = FALSE /\ misses = 0

(* refresh_raw_filings: each poll asks for the whole window again, so a name *)
(* that one poll missed is caught up by the next.                            *)
Horizon == bar - (ExitLag + Slack)
KeptRows == {f \in rows : f.day >= Horizon}
Asked(from) == {f \in filed : from <= f.day /\ f.day <= bar}
StartOfLast == last_fetch
Start == Horizon

(* ar01_sign: the event day, or the first bar after it, and the bar after    *)
(* that have their returns.                                                  *)
AfterFiling(f) == {b \in Bars : b >= f.day}
ReactionKnown(f) == Cardinality({b \in AfterFiling(f) : b <= bar}) >= 2

(* S5EventEngine.generate. *)
InWindow(f) == f.day + EntryLag <= bar /\ bar <= f.day + ExitLag
Net(fs) == [n \in Names |-> Cardinality({f \in fs : f.name = n /\ Sign(f) = 1})
                             - Cardinality({f \in fs : f.name = n /\ Sign(f) = -1})]
Generate(fs) ==
    LET active == {f \in fs : ReactionKnown(f) /\ InWindow(f)}
    IN  IF Cardinality(active) < MinUnits THEN Flat ELSE Net(active)

(* A poll at most once a bar; fetch_8k_events passes over a name whose       *)
(* submissions cannot be read.                                               *)
Poll(missed) ==
    /\ LET polled  == last_fetch # bar
           fetched == IF polled THEN {f \in Asked(Start) : f.name \notin missed} ELSE {}
       IN  /\ rows' = KeptRows \cup fetched
           /\ complete' = IF polled THEN missed = {} ELSE complete
           /\ misses' = IF polled /\ missed # {} THEN misses + 1 ELSE misses
    /\ misses' <= MaxMisses
    /\ last_fetch' = bar

Rebalance(missed) ==
    /\ Poll(missed)
    /\ weights' = Generate(rows') /\ degraded' = FALSE
    /\ UNCHANGED <<filed, bar>>

Rebalances == \E missed \in SUBSET Names : Rebalance(missed)

(* Whatever raises holds the book: a poll before it has stored anything, the *)
(* signs and the engine after the cache and the date are stored.             *)
Degraded ==
    /\ \/ misses < MaxMisses /\ misses' = misses + 1 /\ UNCHANGED <<rows, last_fetch, complete>>
       \/ \E missed \in SUBSET Names : Poll(missed)
    /\ degraded' = TRUE
    /\ UNCHANGED <<filed, bar, weights>>

NextBar ==
    /\ \E b \in Bars : b > bar /\ (\A c \in Bars : c > bar => b <= c) /\ bar' = b
    /\ complete' = FALSE
    /\ UNCHANGED <<filed, rows, last_fetch, weights, degraded, misses>>

EventNext == Rebalances \/ Degraded \/ NextBar

EventSpec == EventInit /\ [][EventNext]_eventVars

(* ----------------------- calendar_time_daily ----------------------------- *)
(* The bar at whose close a filing's position is decided first, and last.    *)
KnownAt(f) == LET first == Min(AfterFiling(f)) IN Min({b \in Bars : b > first})
DecisionStart(f) == Min({b \in Bars : b >= f.day + EntryLag /\ b >= KnownAt(f)})
ToBeKnown(f) == Cardinality(AfterFiling(f)) >= 2 /\ \E b \in Bars : b >= f.day + EntryLag
Held(f) == ToBeKnown(f) /\ DecisionStart(f) <= bar /\ bar <= f.day + ExitLag
Backtest ==
    LET held == {f \in filed : Held(f)}
    IN  IF Cardinality(held) < MinUnits THEN Flat ELSE Net(held)

(* ------------------------------ properties ------------------------------- *)
EventTypeOK == rows \subseteq filed /\ bar \in Bars /\ last_fetch \in Bars \cup {0} /\ weights \in [Names -> Int]

(* On every bar whose poll was complete the forward book holds what the      *)
(* confirmation instrument would hold, whatever earlier polls missed, over   *)
(* weekends, rebalances within a bar and days that degraded, but for a book  *)
(* that a rebalance which degraded has held.                                 *)
ForwardIsTheBacktest == complete /\ ~degraded => weights = Backtest
==============================================================================
