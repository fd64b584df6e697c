----------------------------- MODULE ShadowBooks -----------------------------
(***************************************************************************)
(* The self-financing shadow books (core/ledger/live_book.py) as the tick  *)
(* loop of runtime/live.py marks, settles and saves them.                  *)
(*                                                                         *)
(* A book is its equity and its dollars per name; it never counts shares.  *)
(* A tick multiplies each holding by the ratio of this print to the basis  *)
(* (prev_prices), skips a print that is missing or absurdly far from its   *)
(* basis, pays for the trades from cash and adopts the raw prints as the   *)
(* next basis.  Every book must settle before any of them changes.  The    *)
(* state is saved at the end; a save may fail and the process may restart  *)
(* from the last one.                                                      *)
(*                                                                         *)
(* What the books should be worth is kept beside them, as a broker would:  *)
(* shares, and the cash of an account that trades them.  Prices are small  *)
(* powers of two; a decision is a number of units per name; a cost is a    *)
(* constant per name traded or short.  Attribution, the common index and   *)
(* the benchmark read this state and do not change it.                     *)
(***************************************************************************)
EXTENDS Integers, FiniteSetsExt

CONSTANTS
    Books, Syms,
    Prices, Price0, \* true prices, and the first ones
    Targets,        \* decisions: units of each name for each book
    Hold,           \* a tick that decides nothing
    Nav0,
    JumpMax,        \* MARK_JUMP_MAX
    SplitFactor,    \* shares that one becomes in a split
    BadFactor,      \* a bad print shows this multiple of the price
    TradeCost, BorrowCost,
    MaxMoves, MaxJumps, MaxDays, MaxTrades, MaxUnsaved, MaxCrashes  \* bounds

ASSUME BooksAssumption ==
    /\ IsFiniteSet(Syms)
    /\ Prices \subseteq Nat \ {0} /\ Price0 \in [Syms -> Prices]
    /\ Targets \subseteq [Books -> [Syms -> Int]] /\ Hold \notin Targets
    /\ {Nav0, JumpMax, SplitFactor, BadFactor} \subseteq Nat \ {0}
    /\ {TradeCost, BorrowCost, MaxMoves, MaxJumps, MaxDays, MaxTrades, MaxUnsaved,
        MaxCrashes} \subseteq Nat

VARIABLES
    price,     \* what a share of each name costs
    day,
    mem,       \* the runtime's state
    disk,      \* state.json
    spent      \* the bounds used up

vars == <<price, day, mem, disk, spent>>

Bounds == {"moves", "jumps", "trades", "unsaved", "crashes"}

\* What the code keeps of a book is equity, cash_usd, holdings_usd and
\* unpriced_holdings; beside it stand the broker's view of the book and how
\* often it paid its borrow.
Book == [equity : Int, cash : Int, val : [Syms -> Int], unpriced : SUBSET Syms,
         shares : [Syms -> Int], account : Int, charges : Nat]

\* With the books the code keeps prev_prices (0 for none) and last_borrow_date;
\* days are those on which a tick completed, and good the names whose basis is
\* a true price of today's shares.
State == [books : [Books -> Book], basis : [Syms -> Nat], borrowDay : Nat,
          days : SUBSET Nat, good : SUBSET Syms]

\* No book is persisted with a NAV that is not positive.
TypeOK ==
    /\ price \in [Syms -> Prices]
    /\ day \in Nat
    /\ mem \in State /\ disk \in State
    /\ \A b \in Books : mem.books[b].equity > 0
    /\ spent \in [Bounds -> Nat]

NewBook == [equity |-> Nav0, cash |-> Nav0, val |-> [s \in Syms |-> 0], unpriced |-> {},
            shares |-> [s \in Syms |-> 0], account |-> Nav0, charges |-> 0]

Fresh == [books |-> [b \in Books |-> NewBook], basis |-> [s \in Syms |-> 0],
          borrowDay |-> 0, days |-> {}, good |-> {}]

Init ==
    /\ price = Price0
    /\ day = 1
    /\ mem = Fresh /\ disk = Fresh
    /\ spent = [x \in Bounds |-> 0]

Limit == [moves |-> MaxMoves, jumps |-> MaxJumps, trades |-> MaxTrades,
          unsaved |-> MaxUnsaved, crashes |-> MaxCrashes]

Spend(bounds) ==
    /\ \A x \in bounds : spent[x] < Limit[x]
    /\ spent' = [x \in Bounds |-> spent[x] + (IF x \in bounds THEN 1 ELSE 0)]

(***************************************************************************)
(* Marking.  Operators named Defect... are plausible defects of what       *)
(* follows them; the specification does not use them.                      *)
(***************************************************************************)

\* _quarantined_marks: strictly outside the band around the basis.
Absurd(p0, p1) == p0 # 0 /\ p1 # 0 /\ (p1 > JumpMax * p0 \/ JumpMax * p1 < p0)

\* safe_prices; the other names are frozen.
Safe(c, print) == {s \in Syms : print[s] # 0 /\ ~Absurd(c.basis[s], print[s])}

\* mark_book: the dollars of book b at these prints, safe the names they price.
Marked(c, b, print, safe) ==
    [s \in Syms |-> IF s \in safe /\ c.basis[s] # 0
                    THEN (c.books[b].val[s] * print[s]) \div c.basis[s]
                    ELSE c.books[b].val[s]]

Total(f) == MapThenSumSet(LAMBDA s : f[s], Syms)

DefectAdoptSafe(c, print) ==
    [s \in Syms |-> IF s \in Safe(c, print) THEN print[s] ELSE c.basis[s]]

\* prev_prices takes the raw prints, the absurd ones included.
Adopted(c, print) == [s \in Syms |-> IF print[s] # 0 THEN print[s] ELSE c.basis[s]]

(***************************************************************************)
(* Settling.  m is the marked book, f the final one, want the decision.    *)
(***************************************************************************)

\* copysign(min(|old|, |desired|), old), or 0 against the old side.
Reduced(old, desired) ==
    IF old > 0 /\ desired > 0 THEN Min({old, desired})
    ELSE IF old < 0 /\ desired < 0 THEN Max({old, desired})
    ELSE 0

DefectProposed(print, safe, m, want, s) == want[s]

\* While an old holding is unpriced nothing may be increased or reversed.
Proposed(print, safe, m, want, s) ==
    IF \E x \in Syms \ safe : m[x] # 0
    THEN Reduced(m[s] \div print[s], want[s])
    ELSE want[s]

\* settle_book's holdings: the frozen stay, a held book does not trade.
Final(print, safe, m, want) ==
    [s \in Syms |-> IF want = Hold \/ s \notin safe THEN m[s]
                    ELSE print[s] * Proposed(print, safe, m, want, s)]

TradingCost(m, f) == TradeCost * Cardinality({s \in Syms : f[s] # m[s]})

\* Borrow accrues once per calendar day, on the shorts.
BorrowDue(c, today) == c.borrowDay # today

Borrow(c, m, today) ==
    IF BorrowDue(c, today) THEN BorrowCost * Cardinality({s \in Syms : m[s] < 0}) ELSE 0

MarkedNav(book, m) == book.equity + Total(m) - Total(book.val)

\* A book after a tick, and the broker's view of it.
SettledBook(c, b, print, want, today) ==
    LET book == c.books[b]
        safe == Safe(c, print)
        m    == Marked(c, b, print, safe)
        f    == Final(print, safe, m, want)
        paid == Borrow(c, m, today) + TradingCost(m, f)
        nav  == MarkedNav(book, m) - paid
    IN  [equity   |-> nav,
         cash     |-> nav - Total(f),
         val      |-> f,
         unpriced |-> {s \in Syms \ safe : book.val[s] # 0},
         shares   |-> [s \in Syms |-> IF f[s] = m[s] THEN book.shares[s]
                          ELSE book.shares[s] + (f[s] - m[s]) \div print[s]],
         account  |-> book.account - paid - (Total(f) - Total(m)),
         charges  |-> book.charges + (IF BorrowDue(c, today) THEN 1 ELSE 0)]

WantOf(d, b) == IF d = Hold THEN Hold ELSE d[b]

Settled(c, print, d, today) ==
    [books     |-> [b \in Books |-> SettledBook(c, b, print, WantOf(d, b), today)],
     basis     |-> Adopted(c, print),
     borrowDay |-> today,
     days      |-> c.days \cup {today},
     good      |-> {s \in Syms : IF print[s] = 0 THEN s \in c.good ELSE print[s] = price[s]}]

\* mark_book and settle_book raise for a NAV that is not positive.
Settles(after) == \A b \in Books : after.books[b].equity > 0

(***************************************************************************)
(* The market, as the quarantine supposes it: a true move is not absurd,   *)
(* and the price rests while a bad print or a split waits to be adopted    *)
(* (its move would be skipped with the jump, which the code accepts).      *)
(***************************************************************************)

Believable(s, p) ==
    \A c \in {mem, disk} : c.basis[s] # 0 => s \in c.good /\ ~Absurd(c.basis[s], p)

MovePrice(s, p) ==
    /\ p # price[s] /\ Believable(s, p)
    /\ Spend({"moves"})
    /\ price' = [price EXCEPT ![s] = p]
    /\ UNCHANGED <<day, mem, disk>>

SplitIn(c, s) ==
    [c EXCEPT !.good = @ \ {s},
              !.books = [b \in Books |-> [c.books[b] EXCEPT !.shares[s] = @ * SplitFactor]]]

\* A split falls between two sessions, when the last tick has seen the close.
Split(s) ==
    /\ \A c \in {mem, disk} : c.basis[s] = 0 \/ (s \in c.good /\ c.basis[s] = price[s])
    /\ price[s] % SplitFactor = 0 /\ price[s] \div SplitFactor \in Prices
    /\ Spend({"jumps"})
    /\ price' = [price EXCEPT ![s] = @ \div SplitFactor]
    /\ mem' = SplitIn(mem, s) /\ disk' = SplitIn(disk, s)
    /\ UNCHANGED day

NextDay ==
    /\ day < MaxDays
    /\ day' = day + 1
    /\ UNCHANGED <<price, mem, disk, spent>>

(***************************************************************************)
(* The tick.                                                               *)
(***************************************************************************)

\* The names that show a bad print: at most one, which has not moved.
Bad ==
    {{}} \cup (IF spent.jumps < MaxJumps
               THEN {{s} : s \in {x \in mem.good : mem.basis[x] = price[x]}} ELSE {})

Decisions == {Hold} \cup (IF spent.trades < MaxTrades THEN Targets ELSE {})

Snapshot(seen, bad) ==
    [s \in Syms |-> IF s \in bad THEN BadFactor * price[s]
                    ELSE IF s \in seen THEN price[s] ELSE 0]

\* Every book settles, then every book changes.  The state is saved, or _save
\* raises and the runtime goes on with what it has in memory.
Tick(print, d, uses) ==
    /\ LET after == Settled(mem, print, d, day)
       IN  Settles(after) /\ mem' = after
    /\ \/ disk' = mem' /\ Spend(uses)
       \/ UNCHANGED disk /\ Spend(uses \cup {"unsaved"})
    /\ UNCHANGED <<price, day>>

DefectRaiseHalfway(print, d) ==
    /\ ~Settles(Settled(mem, print, d, day))
    /\ \E b \in Books :
          mem' = [mem EXCEPT !.books[b] = Settled(mem, print, d, day).books[b]]
    /\ UNCHANGED <<price, day, disk, spent>>

DefectRaiseAfterStamp(print, d) ==
    /\ ~Settles(Settled(mem, print, d, day))
    /\ mem' = [mem EXCEPT !.borrowDay = day]
    /\ UNCHANGED <<price, day, disk, spent>>

\* A book that cannot settle ends the tick with every book as it was.
TickRaises(print, d) ==
    /\ ~Settles(Settled(mem, print, d, day))
    /\ UNCHANGED vars

Restart ==
    /\ Spend({"crashes"})
    /\ mem' = disk
    /\ UNCHANGED <<price, day, disk>>

Uses(bad, d) == (IF bad = {} THEN {} ELSE {"jumps"}) \cup (IF d = Hold THEN {} ELSE {"trades"})

Runtime ==
    \/ \E seen \in SUBSET Syms, bad \in Bad, d \in Decisions :
          \/ Tick(Snapshot(seen, bad), d, Uses(bad, d))
          \/ TickRaises(Snapshot(seen, bad), d)
    \/ Restart

Market ==
    \/ \E s \in Syms, p \in Prices : MovePrice(s, p)
    \/ \E s \in Syms : Split(s)
    \/ NextDay

Next == Runtime \/ Market

Spec == Init /\ [][Next]_vars

(***************************************************************************)
(* Safety.                                                                 *)
(***************************************************************************)

\* The dollars of a holding are its shares at the basis, through missing,
\* absurd and split prints, failed ticks and restarts: each move is booked
\* once, however many ticks it took to see it.
SharesKeepTheirWorth ==
    \A c \in {mem, disk} : \A b \in Books : \A s \in c.good :
        c.books[b].val[s] = c.books[b].shares[s] * c.basis[s]

\* A book is self-financing: its equity is what a brokerage account that made
\* the same trades and paid the same costs would be worth at the basis.
SelfFinancing ==
    \A c \in {mem, disk} : \A b \in Books :
        LET book == c.books[b]
        IN  (\A s \in Syms : book.shares[s] # 0 => s \in c.good) =>
                /\ book.equity = book.account
                       + Total([s \in Syms |-> book.shares[s] * c.basis[s]])
                /\ book.cash = book.account

\* Borrow is paid once for each day on which a tick completed, by every book,
\* whatever ticks failed and whatever was lost with the process.
BorrowOncePerDay ==
    \A c \in {mem, disk} : \A b \in Books : c.books[b].charges = Cardinality(c.days)

\* A tick that finds a holding it cannot price buys nothing for that book and
\* turns no position round.
UnpricedFundsNothing ==
    [][\A b \in Books : mem' # disk /\ price' = price /\ mem'.books[b].unpriced # {} =>
          \A s \in Syms : LET old == mem.books[b].shares[s]
                          IN  mem'.books[b].shares[s] \in Min({0, old}) .. Max({0, old})]_vars

\* "A genuine split re-bases here and marks normally from the next tick"
\* (live.py:1779): the tick that adopts the new price books no loss.
SplitRebases ==
    [][\A b \in Books, s \in Syms :
          LET old == mem.books[b]  new == mem'.books[b]
          IN  s \notin mem.good /\ s \in mem'.good /\ new.shares[s] = old.shares[s]
              => new.val[s] = old.val[s]]_mem
==============================================================================
