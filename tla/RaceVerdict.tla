----------------------------- MODULE RaceVerdict -----------------------------
(* The readout of the S3-S1 race and the daily digest that carries it: marks *)
(* of every day of the week, trading days only in the test, the registered   *)
(* bar, the experiment clock, the break of the record, and notes that wait   *)
(* for a message that may not go out.                                        *)
(* runtime/live.py, backtest/metrics.py, core/alerts.py                      *)
EXTENDS Integers, Sequences, FiniteSets, SequencesExt

CONSTANTS
    Trading,     \* the days that are not a weekend's
    LastDay,     \* bound: days
    TicksPerDay, \* bound: ticks of a day
    LateTick,    \* the ticks of a day before the digest's hour
    Move(_, _),  \* what a tick of a day adds to the log of S3 over S1: its equity legs, its crypto
    RaceRing,    \* MAX_HISTORY
    Bar,         \* the registered number of trading days
    Enough,      \* the fewest returns of a test, and of a volatility
    Text(_, _),  \* what that tick notes, or ""
    NotesKept,   \* the limit of queue_note
    MaxKills     \* bound: ticks that die before their save

RaceBounds ==
    /\ LastDay \in Nat \ {0} /\ Trading \subseteq 1..LastDay /\ {TicksPerDay, RaceRing, Bar, Enough} \subseteq Nat \ {0}
    /\ NotesKept \in Nat \ {0} /\ LateTick \in Nat /\ MaxKills \in Nat
    /\ \A d \in 1..LastDay, k \in 0..TicksPerDay : Move(d, k) \in [legs : Int, crypto : Int]

VARIABLES
    now,     \* the day, and its ticks so far
    release, \* whether the code that runs is self_financing_v2
    saved,   \* state.json
    message, \* what the last tick sent
    marked,  \* auxiliary: for each day, its last saved mark
    waiting, \* auxiliary: what was noted and saved since the last digest that arrived
    kills

raceVars == <<now, release, saved, message, marked, waiting, kills>>

NoReadout == [n |-> 0, edge |-> 0, common |-> 0, since |-> 0, allowed |-> FALSE, risk |-> "unknown"]
Silence == [sent |-> FALSE, claim |-> FALSE, since |-> 0]

RaceInit ==
    /\ now = [day |-> 1, ticks |-> 0] /\ release \in BOOLEAN
    /\ saved = [book |-> 0, legs |-> 0, rows |-> <<>>, clock |-> 0, v2 |-> FALSE, broken |-> FALSE,
                readout |-> NoReadout, notes |-> <<>>, digest |-> 0]
    /\ message = Silence /\ marked = <<>> /\ waiting = <<>> /\ kills = 0

Newest(s, k) == SubSeq(s, IF Len(s) > k THEN Len(s) - k + 1 ELSE 1, Len(s))

(* ------------------------------ the readout ------------------------------ *)
(* _daily_closes: the last mark of each date, S3's log less S1's.            *)
Days(rows) == {rows[i].day : i \in DOMAIN rows}
CloseOf(rows, d) == rows[SelectLastInSeq(rows, LAMBDA r : r.day = d)]

Since(clock, d) == clock = 0 \/ d >= clock
TradingDaysOnly(days) == days \cap Trading
Counted(rows, clock) == TradingDaysOnly({d \in Days(rows) : Since(clock, d)})

(* A return spans two counted closes: filtered before differencing.          *)
Spans(days) == {p \in days \X days : p[1] < p[2] /\ \A f \in days : ~(p[1] < f /\ f < p[2])}
ReturnsThenFilter(rows, clock) ==
    {p \in Spans({d \in Days(rows) : Since(clock, d)}) : p[2] \in Trading}
Returns(rows, clock) == Spans(Counted(rows, clock))

Sum(values) == FoldSet(LAMBDA p, sum : p[2] + sum, 0, values)
Edge(rows, clock, log) ==
    Sum({<<p, CloseOf(rows, p[2])[log] - CloseOf(rows, p[1])[log]>> : p \in Returns(rows, clock)})

(* paired_test of the books and of the equity legs; whether it is            *)
(* significant and what the ratio of the volatilities says is the data's.    *)
Tested(st) ==
    [n |-> Cardinality(Returns(st.rows, st.clock)), since |-> st.clock,
     edge |-> Edge(st.rows, st.clock, "book"), common |-> Edge(st.rows, st.clock, "legs")]
Allowed(st, test, data) == test.n >= Bar /\ test.n >= Enough /\ data # "weak" /\ ~st.broken
Risk(test, data) == IF test.n < Enough THEN "unknown" ELSE IF data = "mismatch" THEN data ELSE "comparable"
Readout(st, test, data) ==
    [n |-> test.n, edge |-> test.edge, common |-> test.common, since |-> test.since,
     allowed |-> Allowed(st, test, data), risk |-> Risk(test, data)]

(* ------------------------------- the tick -------------------------------- *)
(* The boundary of the accounting: a record that another code began is       *)
(* broken for good.                                                          *)
Bounded(st) ==
    IF release /\ ~st.v2 THEN [st EXCEPT !.v2 = TRUE, !.broken = st.broken \/ st.rows # <<>>] ELSE st

(* The common index marks the equity legs, the books everything they hold.   *)
Marks(st, move) ==
    LET book == st.book + move.legs + move.crypto
        legs == st.legs + move.legs
    IN [st EXCEPT !.book = book, !.legs = legs,
                  !.rows = Newest(Append(st.rows, [day |-> now.day, book |-> book, legs |-> legs]), RaceRing)]

(* The clock starts at the first decision of Anthropic's model, after the    *)
(* readout of that tick.                                                     *)
Stamps(st, source) ==
    IF source = "anthropic" /\ st.clock = 0 THEN [st EXCEPT !.clock = now.day] ELSE st

Noted(notes, text) ==
    IF text = "" \/ (notes # <<>> /\ Last(notes) = text) THEN notes ELSE Newest(Append(notes, text), NotesKept)
Notes(st, text) == [st EXCEPT !.notes = Noted(st.notes, text)]

(* format_daily_digest: what it says of the race.                            *)
Claims(readout) == readout.allowed /\ readout.risk = "comparable"
Digest(st) == [sent |-> TRUE, claim |-> Claims(st.readout), since |-> st.readout.since]

(* maybe_send_daily_digest: what it wants sent, and the state once it is.    *)
DigestDue(st, late) == late /\ st.digest # now.day
Cleared(st) == [st EXCEPT !.digest = now.day, !.notes = <<>>]

DeliveredAnyway(st, arrives) == Cleared(st)
Delivered(st, arrives) == IF arrives THEN Cleared(st) ELSE st

RaceTick ==
    LET text == Text(now.day, now.ticks)
        late == now.ticks >= LateTick
        st0 == Notes(Marks(Bounded(saved), Move(now.day, now.ticks)), text)
        test == Tested(st0)
    IN  \E source \in {"anthropic", "other"}, data \in {"weak", "mismatch", "strong"},
           arrives \in BOOLEAN, saves \in BOOLEAN :
        LET st1 == Stamps([st0 EXCEPT !.readout = Readout(st0, test, data)], source)
            due == DigestDue(st1, late)
            st2 == IF due THEN Delivered(st1, arrives) ELSE st1
        IN /\ now.ticks < TicksPerDay /\ (arrives => due)
           /\ now' = [now EXCEPT !.ticks = @ + 1]
           /\ message' = IF arrives THEN Digest(st1) ELSE Silence
           /\ \/ saves /\ saved' = st2 /\ UNCHANGED kills
                 /\ marked' = [d \in DOMAIN marked \cup {now.day} |->
                                 IF d = now.day THEN [book |-> st2.book, legs |-> st2.legs, release |-> release]
                                                  ELSE marked[d]]
                 /\ waiting' = IF arrives THEN <<>> ELSE Noted(waiting, text)
              \/ ~saves /\ kills < MaxKills /\ kills' = kills + 1 /\ UNCHANGED <<saved, marked, waiting>>
           /\ UNCHANGED release

NewDay ==
    /\ now.day < LastDay
    /\ now' = [day |-> now.day + 1, ticks |-> 0]
    /\ message' = Silence
    /\ UNCHANGED <<release, saved, marked, waiting, kills>>

(* A new release, and the operator who clears the clock for a new model.     *)
Deploys == ~release /\ release' = TRUE /\ message' = Silence /\ UNCHANGED <<now, saved, marked, waiting, kills>>
ClearsClock ==
    /\ saved.clock # 0 /\ saved' = [saved EXCEPT !.clock = 0] /\ message' = Silence
    /\ UNCHANGED <<now, release, marked, waiting, kills>>

RaceNext == RaceTick \/ NewDay \/ Deploys \/ ClearsClock
RaceSpec == RaceInit /\ [][RaceNext]_raceVars

(* ------------------------------ properties ------------------------------- *)
Window(readout) ==
    {d \in Trading : d \in DOMAIN marked /\ d \in Days(saved.rows) /\ Since(readout.since, d)}

(* "Monday's return spans Friday's close and carries the whole weekend move  *)
(* exactly once": the paired returns of a readout add up to what the race    *)
(* moved between the first and the last trading close of its window, and     *)
(* those of the common universe to what the equity legs moved.               *)
EveryMoveCountsOnce ==
    LET r == saved.readout
        days == Window(r)
        moved(log) == IF days = {} THEN 0 ELSE
                      LET first == CHOOSE d \in days : \A e \in days : d <= e
                          last == CHOOSE d \in days : \A e \in days : d >= e
                      IN marked[last][log] - marked[first][log]
    IN r.edge = moved("book") /\ r.common = moved("legs")

(* "No superiority claim before 60 trading days": a digest that claims one   *)
(* without a caveat has a close of more trading days than the bar behind it, *)
(* of its own experiment, all marked by one release of the accounting.       *)
ClaimIsEarned == message.claim =>
    /\ Cardinality({d \in (DOMAIN marked \cup {now.day}) \cap Trading : Since(message.since, d)}) > Bar
    /\ \A d \in DOMAIN marked : marked[d].release = release

(* What was noted and saved leaves the buffer only with a digest that        *)
(* arrived, or when newer notes fill it.                                     *)
NotesWait == saved.notes = waiting

(* What a digest claims and what it does not lose, together.                 *)
DigestIsTrue == ClaimIsEarned /\ NotesWait
==============================================================================
