----------------------------- MODULE FillLedger ------------------------------
(* The executions the broker reports, the append-only ledger of fills, the   *)
(* ring in state.json, and the two scripts that read them back.              *)
(* runtime/live.py (_fills_seen, _merge_ibkr_state), core/broker/            *)
(* ibkr_broker.py (recent_fills), scripts/mirror_reconcile.py,               *)
(* scripts/cost_calibration.py.                                              *)
EXTENDS Integers, Sequences, FiniteSets, SequencesExt

CONSTANTS
    FillsPerDay,                \* bound: executions a day
    LastSession,                \* bound: days
    FillRing, SeenTail,         \* rows of the ring (300), ledger lines that seed `seen' (20,000)
    CleanStart,                 \* first day of the calibration set
    Floor, NavBar,              \* CHURN: least gross, gross that is too much of the NAV
    MaxLostAppends, MaxRestarts \* bounds: appends that fail, restarts

FillBounds ==
    /\ {FillsPerDay, LastSession, FillRing, SeenTail, CleanStart} \subseteq Nat \ {0}
    /\ {Floor, NavBar, MaxLostAppends, MaxRestarts} \subseteq Nat
    /\ SeenTail >= FillsPerDay     \* the tail covers what the broker can report again

Fill == [day : 1..LastSession, n : 1..FillsPerDay, side : {"BOT", "SLD"}]

NotSeeded == <<>>

VARIABLES
    session,         \* the broker's day
    made,            \* every execution; those of a day are numbered in order
    lines,           \* the rows of fills_history.jsonl that parse
    cut,             \* whether its last line has no end: the next row is glued to it
    seen,            \* _fills_seen_cache
    ibkr, ibkrSaved, \* state.ibkr: fills (the ring), last_refresh, n_fills_today; on disk
    lostAppends, restarts

fillVars == <<session, made, lines, cut, seen, ibkr, ibkrSaved, lostAppends, restarts>>

NoFills == [ring |-> <<>>, refresh |-> 0, count |-> 0]

FillInit ==
    /\ session = 1 /\ made = {} /\ lines = <<>> /\ cut = FALSE /\ seen = NotSeeded
    /\ ibkr = NoFills /\ ibkrSaved = NoFills /\ lostAppends = 0 /\ restarts = 0

LastRows(s, k) == SubSeq(s, IF Len(s) > k THEN Len(s) - k + 1 ELSE 1, Len(s))
Of(day, fills) == {f \in fills : f.day = day}

(* reqExecutions replays the current day and nothing earlier.                *)
Report == Of(session, made)
InOrder(fills) ==
    [i \in 1..Cardinality(fills) |-> CHOOSE f \in fills : Cardinality({g \in fills : g.n < f.n}) = i - 1]

SeenFromRing == IF seen = NotSeeded THEN <<ToSet(ibkr.ring)>> ELSE seen
AlreadySeen == IF seen = NotSeeded THEN <<ToSet(LastRows(lines, SeenTail)) \cup ToSet(ibkr.ring)>> ELSE seen

New == InOrder(Report \ AlreadySeen[1])

(* Appending k of the new rows, the last of them perhaps without its end:    *)
(* the rows that parse.                                                      *)
Written(k, half) == SubSeq(New, IF cut THEN 2 ELSE 1, IF half THEN k - 1 ELSE k)

(* A refresh or a sync merges its report: what is new is seen whether or not *)
(* it could be written, and joins the ring; the tick's save may fail.        *)
Merge(k, half, isSaved) ==
    /\ half => k > 0
    /\ seen' = <<AlreadySeen[1] \cup ToSet(New)>>
    /\ lines' = lines \o Written(k, half)
    /\ cut' = IF k = 0 THEN cut ELSE half
    /\ lostAppends' = IF k < Len(New) \/ half THEN lostAppends + 1 ELSE lostAppends
    /\ lostAppends' <= MaxLostAppends
    /\ ibkr' = [ring |-> LastRows(ibkr.ring \o New, FillRing), refresh |-> session, count |-> Cardinality(Report)]
    /\ ibkrSaved' = IF isSaved THEN ibkr' ELSE ibkrSaved
    /\ UNCHANGED <<session, made, restarts>>

Reported == \E k \in 0..Len(New), half, isSaved \in BOOLEAN : Merge(k, half, isSaved)

Restart ==
    /\ restarts < MaxRestarts /\ restarts' = restarts + 1
    /\ seen' = NotSeeded /\ ibkr' = ibkrSaved
    /\ UNCHANGED <<session, made, lines, cut, ibkrSaved, lostAppends>>

Executes ==
    /\ Cardinality(Report) < FillsPerDay
    /\ \E side \in {"BOT", "SLD"} :
           made' = made \cup {[day |-> session, n |-> Cardinality(Report) + 1, side |-> side]}
    /\ UNCHANGED <<session, lines, cut, seen, ibkr, ibkrSaved, lostAppends, restarts>>

NewSession ==
    /\ session < LastSession /\ session' = session + 1
    /\ UNCHANGED <<made, lines, cut, seen, ibkr, ibkrSaved, lostAppends, restarts>>

LedgerNext == Reported \/ Restart \/ Executes \/ NewSession

FillSpec == FillInit /\ [][LedgerNext]_fillVars

(* ------------------------------ the readers ------------------------------ *)
(* load_ledger: a set, because the first of equal execIds wins.              *)
Loaded == ToSet(lines)
NewestDay == IF Loaded = {} THEN 0 ELSE CHOOSE d \in {f.day : f \in Loaded} : \A f \in Loaded : f.day <= d

(* reconcile_day: what of the gross bought and sold the same exposure.       *)
Sold(fills) == Cardinality({f \in fills : f.side = "SLD"})
NetOf(fills) == LET bought == Cardinality(fills) - Sold(fills)
                IN  IF bought > Sold(fills) THEN bought - Sold(fills) ELSE Sold(fills) - bought
Churn(fills) ==
    LET gross == Cardinality(fills)
    IN  gross > NavBar \/ (gross > Floor /\ 10 * (gross - NetOf(fills)) > 3 * gross)

(* check_capture, on the newest day of the ledger.                           *)
Comparable == Loaded # {} /\ ibkrSaved.refresh = NewestDay
Gap == Comparable /\ Cardinality(Of(NewestDay, Loaded)) < ibkrSaved.count

(* filter_calibration_fills over the ledger and the ring.                    *)
Known == Loaded \cup ToSet(ibkrSaved.ring)
Calibration == {f \in Known : f.day >= CleanStart /\ ~Churn(Of(f.day, Known))}

(* ------------------------------ properties ------------------------------- *)
FillTypeOK ==
    /\ made \cup Loaded \subseteq Fill /\ Len(ibkr.ring) <= FillRing
    /\ session \in 1..LastSession /\ cut \in BOOLEAN

(* However reports repeat over failed saves and restarts, no fill is in the  *)
(* ledger twice.                                                             *)
NoFillTwice == Cardinality(Loaded) = Len(lines)

(* The capture check says a gap only if a fill of that day is missing, and   *)
(* always when one is, unless the count it reads is older than the fills.    *)
GapIsSeen ==
    LET day == Of(ibkrSaved.refresh, made)
        missing == ~(day \subseteq Loaded)
    IN  /\ Gap => missing
        /\ Comparable /\ missing /\ ibkrSaved.count = Cardinality(day) => Gap

(* Of a day all of whose fills are known, the calibration uses all or, if it *)
(* churned, none.                                                            *)
CalibrationIsClean ==
    \A d \in 1..LastSession :
        LET day == Of(d, made)
        IN  day \subseteq Known =>
              Of(d, Calibration) = IF d < CleanStart \/ Churn(day) THEN {} ELSE day

(* What the ledger, the ring and the count say of the day adds up.           *)
FillsAreAccounted == NoFillTwice /\ GapIsSeen /\ CalibrationIsClean
==============================================================================
