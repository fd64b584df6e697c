----------------------------- MODULE OrderMirror -----------------------------
(***************************************************************************)
(* The IBKR mirror: how the final S4 book reaches the broker account.      *)
(*                                                                         *)
(* The tick loop starts at most one broker thread at a time                *)
(* (LiveRuntime._ibkr_bounded), waits for it with a deadline and then      *)
(* revokes it through an event the thread polls.  The thread runs          *)
(* IBKRBroker.sync: connect, cancel the working orders, verify that none   *)
(* is left, plan the deltas against the filled positions, place them one   *)
(* by one.  scripts/ibkr_sync.py --execute runs the same sync in a second  *)
(* process, under another client id and without a deadline.  The broker    *)
(* fills, cancels and drops working orders on its own.                     *)
(*                                                                         *)
(* A book is a whole-share target per symbol; weights, NAV, the slice, the *)
(* dust filter and the crypto sleeve are abstracted into it.  A job is one *)
(* run of sync or refresh, kept in a slot that is reused once nothing      *)
(* refers to it.                                                           *)
(***************************************************************************)
EXTENDS Integers, FiniteSets, FiniteSetsExt

CONSTANTS
    Syms,          \* equities
    Shares,        \* positions a book may ask for
    Slots,         \* job slots, numbered from 1
    Fuse,          \* max_orders_per_sync
    MaxFaults,     \* bound: broker requests that raise or time out
    MaxTimeouts,   \* bound: deadlines the tick loop gives up at
    MaxDrops,      \* bound: working orders rejected or expired
    MaxCli,        \* bound: runs of ibkr_sync.py --execute
    MaxCrashes,    \* bound: deaths of the runtime process
    MaxTrades      \* bound: ticks that change the book or the latch

ASSUME MirrorAssumption ==
    /\ 0 \in Shares /\ Shares \subseteq Int
    /\ Slots # {} /\ IsFiniteSet(Slots) /\ Slots \subseteq Nat \ {0}
    /\ {Fuse, MaxFaults, MaxTimeouts, MaxDrops, MaxCli, MaxCrashes, MaxTrades}
           \subseteq Nat

VARIABLES
    loop,       \* where the tick loop is
    state,      \* the part of the fund state the mirror reads and writes
    disk,       \* that part as state.json has it
    priced,     \* the symbols with a usable price in this tick
    current,    \* the slot of the loop's thread, 0 before the first and once it
                \* has ended and the loop has its outcome
    job,        \* the jobs
    cli,        \* the slot of the manual sync, 0 when none
    pos,        \* filled positions of the account
    working,    \* orders working at the broker
    session,    \* the cash session is open
    spent       \* the bounds used up

vars == <<loop, state, disk, priced, current, job, cli, pos, working, session, spent>>
brokerVars == <<pos, working, session>>

Book    == [Syms -> Shares]
Flat    == [s \in Syms |-> 0]
State   == [book : Book, latched : BOOLEAN, pending : BOOLEAN]
Job     == [owner : {"runtime", "cli"}, kind : {"mirror", "refresh"},
            pc : {"free", "prompt", "connect", "cancel", "verify", "plan", "place",
                  "send", "report", "read", "ok", "failed"},
            goal : Book, priced : SUBSET Syms, halted : BOOLEAN,
            delta : [Syms -> Int], todo : SUBSET Syms,
            revoked : BOOLEAN, late : Nat, errors : BOOLEAN]
Order   == [gen : Slots, owner : {"runtime", "cli"}, sym : Syms, qty : Int \ {0},
            goal : Int, halted : BOOLEAN, cancelling : BOOLEAN]
Bounds  == [faults : Nat, timeouts : Nat, drops : Nat, cli : Nat, crashes : Nat,
            trades : Nat]

TypeOK ==
    /\ loop \in {"idle", "mirror", "waitMirror", "refresh", "waitRefresh", "save",
                 "down"}
    /\ state \in State /\ disk \in State
    /\ priced \in SUBSET Syms
    /\ current \in Slots \cup {0} /\ cli \in Slots \cup {0}
    /\ job \in [Slots -> Job]
    /\ pos \in [Syms -> Int]
    /\ working \subseteq Order
    /\ session \in BOOLEAN
    /\ spent \in Bounds

NewJob(owner, kind, pc, goal, names, halted) ==
    [owner |-> owner, kind |-> kind, pc |-> pc, goal |-> goal, priced |-> names,
     halted |-> halted, delta |-> Flat, todo |-> {}, revoked |-> FALSE, late |-> 0,
     errors |-> FALSE]

Unused == NewJob("runtime", "refresh", "free", Flat, {}, FALSE)

\* What is left of a job that has ended: its outcome and reported errors, if
\* the loop still waits for them.
Ended(j, outcome) ==
    IF j = current /\ ~job[j].revoked
    THEN [Unused EXCEPT !.pc = outcome, !.errors = job[j].errors]
    ELSE Unused

\* A restart of a fund whose account matches its book.
Boot ==
    /\ loop = "idle"
    /\ \E book \in Book : state = [book |-> book, latched |-> FALSE, pending |-> FALSE]
    /\ disk = state
    /\ priced = {}
    /\ current = 0 /\ cli = 0
    /\ job = [j \in Slots |-> Unused]
    /\ pos = state.book
    /\ working = {}
    /\ session \in BOOLEAN

Unspent == [faults |-> 0, timeouts |-> 0, drops |-> 0, cli |-> 0, crashes |-> 0, trades |-> 0]

Init == Boot /\ spent = Unspent

Spend(bound, limit) ==
    /\ spent[bound] < limit
    /\ spent' = [spent EXCEPT ![bound] = @ + 1]

(***************************************************************************)
(* Defects a change could plausibly introduce; unused below.               *)
(***************************************************************************)
NobodyRevoked(j) == FALSE
StillWorkingUncancelled(j) == {o \in working : ~o.cancelling}
DueOncePerHalt(rebalanced, latching) ==
    /\ rebalanced \/ latching
    /\ session \/ latching
DeltaUnpriced(goal, held, names) == [s \in Syms |-> goal[s] - held[s]]
DeltaFromFlat(goal, held, names) ==
    [s \in Syms |-> IF goal[s] # 0 /\ s \notin names THEN 0 ELSE goal[s]]

(***************************************************************************)
(* Pieces of a job.                                                        *)
(***************************************************************************)

Alive(j) == job[j].pc \notin {"free", "ok", "failed"}

\* _ibkr_bounded: the previous thread is still running.
Busy == current # 0 /\ Alive(current)

\* A slot no running job, no awaited outcome and no working order refers to.
FreeSlots == {j \in Slots : job[j].pc = "free" /\ \A o \in working : o.gen # j}

\* IBKRBroker._check_cancelled: only the runtime's jobs carry an event.
Revoked(j) == job[j].revoked

\* cancel_open_orders: the listing after the cancellations.
StillWorking(j) == working

\* plan_equity_mirror, per symbol: an entry without a price is skipped, an
\* exit is sent even without one.
Delta(goal, held, names) ==
    [s \in Syms |-> IF goal[s] # 0 /\ s \notin names THEN 0 ELSE goal[s] - held[s]]

\* The symbols that get an order.
ToTrade(delta) == {s \in Syms : delta[s] # 0}

\* The mirror flag after a sync that returned a report.
PendingAfter(j) == job[j].errors

\* tick(): a rebalance, a latched halt or a pending mirror, in the session
\* unless the latch is up.
Due(rebalanced, latching) ==
    /\ rebalanced \/ state'.latched \/ state'.pending
    /\ session \/ state'.latched

Step(j, from, to) ==
    /\ job[j].pc = from
    /\ job' = [job EXCEPT ![j] =
                 IF to \in {"ok", "failed"} THEN Ended(j, to) ELSE [@ EXCEPT !.pc = to]]

(***************************************************************************)
(* The tick loop.                                                          *)
(***************************************************************************)

\* tick() up to the mirror: the settled S4 book.  A latched halt takes every
\* priced symbol to zero; an unpriced symbol keeps its shares either way.
Tick(latched, wanted, names, rebalanced) ==
    /\ loop = "idle"
    /\ LET book == [s \in Syms |-> IF s \notin names THEN state.book[s]
                                   ELSE IF latched THEN 0 ELSE wanted[s]]
       IN  state' = [book |-> book, latched |-> latched,
                     pending |-> state.pending \/ book # state.book]
    /\ IF latched # state.latched \/ (~latched /\ state'.book # state.book)
       THEN Spend("trades", MaxTrades) ELSE UNCHANGED spent
    /\ priced' = names
    /\ loop' = IF Due(rebalanced, latched /\ ~state.latched) THEN "mirror" ELSE "refresh"
    /\ UNCHANGED <<disk, current, job, cli, brokerVars>>

\* _ibkr_bounded(_mirror_to_ibkr): start a thread unless one is running.
StartMirror ==
    /\ loop = "mirror"
    /\ ~Busy
    /\ FreeSlots # {}
    /\ LET j == Min(FreeSlots) IN
       /\ job' = [job EXCEPT ![j] = NewJob("runtime", "mirror", "connect",
                                           state.book, priced, state.latched)]
       /\ current' = j
    /\ loop' = "waitMirror"
    /\ UNCHANGED <<state, disk, priced, cli, brokerVars, spent>>

StartRefresh ==
    /\ loop = "refresh"
    /\ ~Busy
    /\ FreeSlots # {}
    /\ LET j == Min(FreeSlots) IN
       /\ job' = [job EXCEPT ![j] = NewJob("runtime", "refresh", "connect", Flat, {},
                                           FALSE)]
       /\ current' = j
    /\ loop' = "waitRefresh"
    /\ UNCHANGED <<state, disk, priced, cli, brokerVars, spent>>

\* A running thread makes both calls return "busy" at once.
SkipBusy ==
    /\ Busy
    /\ \/ loop = "mirror" /\ loop' = "refresh"
       \/ loop = "refresh" /\ loop' = "save"
    /\ UNCHANGED <<state, disk, priced, current, job, cli, brokerVars, spent>>

\* The thread ended within the deadline.
MirrorEnds ==
    /\ loop = "waitMirror"
    /\ ~Alive(current)
    /\ IF job[current].pc = "ok"
       THEN /\ state' = [state EXCEPT !.pending = PendingAfter(current)]
            /\ loop' = "save"
       ELSE /\ loop' = "refresh"
            /\ UNCHANGED state
    /\ job' = [job EXCEPT ![current] = Unused]
    /\ current' = 0
    /\ UNCHANGED <<disk, priced, cli, brokerVars, spent>>

RefreshEnds ==
    /\ loop = "waitRefresh"
    /\ ~Alive(current)
    /\ loop' = "save"
    /\ job' = [job EXCEPT ![current] = Unused]
    /\ current' = 0
    /\ UNCHANGED <<state, disk, priced, cli, brokerVars, spent>>

\* The deadline passes first: revoke the thread and go on without it.
Deadline ==
    /\ loop \in {"waitMirror", "waitRefresh"}
    /\ Alive(current)
    /\ Spend("timeouts", MaxTimeouts)
    /\ job' = [job EXCEPT ![current].revoked = TRUE]
    /\ loop' = IF loop = "waitMirror" THEN "refresh" ELSE "save"
    /\ UNCHANGED <<state, disk, priced, current, cli, brokerVars>>

Save ==
    /\ loop = "save"
    /\ disk' = state
    /\ priced' = {}
    /\ loop' = "idle"
    /\ UNCHANGED <<state, current, job, cli, brokerVars, spent>>

\* The process dies with its thread; the broker keeps the orders.
Crash ==
    /\ loop # "down"
    /\ Spend("crashes", MaxCrashes)
    /\ loop' = "down"
    /\ job' = [j \in Slots |-> IF job[j].owner = "runtime" THEN Unused ELSE job[j]]
    /\ current' = 0
    /\ UNCHANGED <<state, disk, priced, cli, brokerVars>>

Restart ==
    /\ loop = "down"
    /\ state' = disk
    /\ priced' = {}
    /\ loop' = "idle"
    /\ UNCHANGED <<disk, current, job, cli, brokerVars, spent>>

(***************************************************************************)
(* A job, in either process.                                               *)
(***************************************************************************)

\* Any request may raise, and a check may find the job revoked: the job ends.
JobFails(j) ==
    /\ Alive(j)
    /\ job[j].pc # "prompt"
    /\ Spend("faults", MaxFaults)
    /\ Step(j, job[j].pc, "failed")
    /\ UNCHANGED <<loop, state, disk, priced, current, cli, brokerVars>>

JobRevoked(j) ==
    /\ job[j].pc \in {"connect", "cancel", "plan", "place", "report", "read"}
    /\ Revoked(j)
    /\ Step(j, job[j].pc, "failed")
    /\ UNCHANGED <<loop, state, disk, priced, current, cli, brokerVars, spent>>

Connect(j) ==
    /\ ~Revoked(j)
    /\ Step(j, "connect", IF job[j].kind = "mirror" THEN "cancel" ELSE "read")
    /\ UNCHANGED <<loop, state, disk, priced, current, cli, brokerVars, spent>>

\* refresh: a read-only snapshot.
Read(j) ==
    /\ ~Revoked(j)
    /\ Step(j, "read", "ok")
    /\ UNCHANGED <<loop, state, disk, priced, current, cli, brokerVars, spent>>

\* cancel_open_orders: cancel the own orders one by one, checking before
\* each; an order of another client ends the job.
CancelOrder(j) ==
    /\ job[j].pc = "cancel"
    /\ ~Revoked(j)
    /\ \E o \in working :
          /\ o.owner = job[j].owner /\ ~o.cancelling
          /\ working' = (working \ {o}) \cup {[o EXCEPT !.cancelling = TRUE]}
    /\ UNCHANGED <<loop, state, disk, priced, current, job, cli, pos, session, spent>>

RefuseForeign(j) ==
    /\ ~Revoked(j)
    /\ \E o \in working : o.owner # job[j].owner
    /\ Step(j, "cancel", "failed")
    /\ UNCHANGED <<loop, state, disk, priced, current, cli, brokerVars, spent>>

CancelledAll(j) ==
    /\ ~Revoked(j)
    /\ \A o \in working : o.owner = job[j].owner /\ o.cancelling
    /\ Step(j, "cancel", "verify")
    /\ UNCHANGED <<loop, state, disk, priced, current, cli, brokerVars, spent>>

\* Ask again for all open orders: any left makes the job abort.
Verify(j) ==
    /\ Step(j, "verify", IF StillWorking(j) = {} THEN "plan" ELSE "failed")
    /\ UNCHANGED <<loop, state, disk, priced, current, cli, brokerVars, spent>>

\* Snapshot the filled positions and size the deltas, within the fuse.
Plan(j) ==
    /\ job[j].pc = "plan"
    /\ ~Revoked(j)
    /\ LET delta == Delta(job[j].goal, pos, job[j].priced)
           todo  == ToTrade(delta)
       IN  job' = [job EXCEPT ![j] =
                     IF Cardinality(todo) > Fuse THEN Ended(j, "failed")
                     ELSE [@ EXCEPT !.pc = IF todo = {} THEN "report" ELSE "place",
                                    !.delta = delta, !.todo = todo, !.priced = {}]]
    /\ UNCHANGED <<loop, state, disk, priced, current, cli, brokerVars, spent>>

\* place: the last check before an order goes out, and an order that cannot
\* be qualified or raises, which is reported and skipped.
CheckOrder(j) ==
    /\ ~Revoked(j)
    /\ IF job[j].todo = {} THEN Step(j, "place", "report") ELSE Step(j, "place", "send")
    /\ UNCHANGED <<loop, state, disk, priced, current, cli, brokerVars, spent>>

SkipOrder(j) ==
    /\ job[j].pc = "send"
    /\ Spend("faults", MaxFaults)
    /\ \E s \in job[j].todo :
          job' = [job EXCEPT ![j].pc = "place", ![j].todo = @ \ {s}, ![j].errors = TRUE]
    /\ UNCHANGED <<loop, state, disk, priced, current, cli, brokerVars>>

\* placeOrder: between the check and this call the job may be revoked.
SendOrder(j) ==
    /\ job[j].pc = "send"
    /\ \E s \in job[j].todo :
          /\ working' = working \cup {[gen |-> j, owner |-> job[j].owner, sym |-> s,
                                       qty |-> job[j].delta[s], goal |-> job[j].goal[s],
                                       halted |-> job[j].halted, cancelling |-> FALSE]}
          /\ job' = [job EXCEPT ![j].pc = "place", ![j].todo = @ \ {s},
                                ![j].late = IF job[j].revoked THEN @ + 1 ELSE @]
    /\ UNCHANGED <<loop, state, disk, priced, current, cli, pos, session, spent>>

\* The report is merged only while the job is not revoked.
Report(j) ==
    /\ ~Revoked(j)
    /\ Step(j, "report", "ok")
    /\ UNCHANGED <<loop, state, disk, priced, current, cli, brokerVars, spent>>

(***************************************************************************)
(* ibkr_sync.py --execute: it reads state.json, asks for a confirmation    *)
(* and then syncs with what it read.                                       *)
(***************************************************************************)
CliRunning == cli # 0 /\ Alive(cli) /\ job[cli].owner = "cli"

CliLoads ==
    /\ ~CliRunning
    /\ FreeSlots \ {current} # {}
    /\ Spend("cli", MaxCli)
    /\ LET j == Min(FreeSlots \ {current})
           goal == IF disk.latched THEN Flat ELSE disk.book
       IN  /\ job' = [job EXCEPT ![j] = NewJob("cli", "mirror", "prompt", goal, Syms,
                                               disk.latched)]
           /\ cli' = j
    /\ UNCHANGED <<loop, state, disk, priced, current, brokerVars>>

CliConfirmed ==
    /\ cli # 0
    /\ \/ Step(cli, "prompt", "connect")
       \/ Step(cli, "prompt", "failed")
    /\ UNCHANGED <<loop, state, disk, priced, current, cli, brokerVars, spent>>

(***************************************************************************)
(* The broker.                                                             *)
(***************************************************************************)

\* One share of a working order fills, while the session is open; an order
\* whose cancellation is on its way may still fill.
Fill(o) ==
    /\ session
    /\ LET step == IF o.qty > 0 THEN 1 ELSE -1 IN
       /\ pos' = [pos EXCEPT ![o.sym] = @ + step]
       /\ working' = (working \ {o}) \cup
                       (IF o.qty = step THEN {} ELSE {[o EXCEPT !.qty = @ - step]})
    /\ UNCHANGED <<loop, state, disk, priced, current, job, cli, session, spent>>

Cancelled(o) ==
    /\ o.cancelling
    /\ working' = working \ {o}
    /\ UNCHANGED <<loop, state, disk, priced, current, job, cli, pos, session, spent>>

\* A rejection, or the end of a DAY order; its job reports it if it still runs.
Dropped(o) ==
    /\ Spend("drops", MaxDrops)
    /\ working' = working \ {o}
    /\ job' = IF Alive(o.gen) THEN [job EXCEPT ![o.gen].errors = TRUE] ELSE job
    /\ UNCHANGED <<loop, state, disk, priced, current, cli, pos, session>>

Bell ==
    /\ session' = ~session
    /\ UNCHANGED <<loop, state, disk, priced, current, job, cli, pos, working, spent>>

TickSome == \E latched, rebalanced \in BOOLEAN, wanted \in Book, names \in SUBSET Syms :
                Tick(latched, wanted, names, rebalanced)

JobStep(j) ==
    \/ JobFails(j) \/ JobRevoked(j) \/ Connect(j) \/ Read(j) \/ CancelOrder(j)
    \/ RefuseForeign(j) \/ CancelledAll(j) \/ Verify(j) \/ Plan(j) \/ CheckOrder(j) \/ SkipOrder(j) \/ SendOrder(j) \/ Report(j)

Loop == \/ StartMirror \/ StartRefresh \/ SkipBusy \/ MirrorEnds \/ RefreshEnds
        \/ Save \/ Restart

Next ==
    \/ TickSome \/ Loop \/ Deadline \/ Crash
    \/ \E j \in Slots : JobStep(j)
    \/ CliLoads \/ CliConfirmed
    \/ \E o \in working : Fill(o) \/ Cancelled(o) \/ Dropped(o)
    \/ Bell

Spec == Init /\ [][Next]_vars

\* The loop ticks for ever; every request to the broker is bounded, so a
\* thread ends; a cancellation arrives; the bell opens the session between
\* two ticks again and again, also while an order rests; an order that rests in session after session is
\* filled, and again and again a tick comes in the session and prices every
\* symbol.
Fairness ==
    /\ WF_vars(TickSome) /\ WF_vars(Loop)
    /\ \A j \in Slots : WF_vars(JobStep(j))
    /\ WF_vars(\E o \in working : Cancelled(o))
    /\ \A s \in Syms : SF_vars(\E o \in working : o.sym = s /\ Fill(o))
    /\ SF_vars(loop = "idle" /\ ~session /\ Bell)
    /\ SF_vars(loop = "idle" /\ ~session /\ working # {} /\ Bell)
    /\ SF_vars(session /\ TickSome)
    /\ SF_vars(\E latched, rebalanced \in BOOLEAN, wanted \in Book :
                  Tick(latched, wanted, Syms, rebalanced))

FairSpec == Spec /\ Fairness

(***************************************************************************)
(* Safety.                                                                 *)
(***************************************************************************)

\* However many deadlines pass, the runtime never has two broker threads
\* (_ibkr_bounded: "keep one broker job").
OneBrokerThread ==
    Cardinality({j \in Slots : job[j].owner = "runtime" /\ Alive(j)}) <= 1

\* ibkr_broker.py:414 "Cancel-then-plan makes at most one generation live".
OneGeneration == \A o, p \in working : o.gen = p.gen

\* Even with the manual client, no client has orders of two syncs working: a
\* sync plans only after the listing shows its predecessor's orders gone.
OneGenerationPerClient == \A o, p \in working : o.owner = p.owner => o.gen = p.gen

\* Filling everything that works never carries a position past, or short of,
\* the target its generation was sized for: the 20x round trip of E37 cannot
\* come back through late fills, partial fills, revoked threads or crashes.
WorkingEndsAtGoal == \A o \in working : pos[o.sym] + o.qty = o.goal

\* A revoked thread sends at most the one order it had already checked
\* (_ibkr_bounded: "prevents the overdue worker's subsequent dispatches").
AtMostOneLateOrder == \A j \in Slots : job[j].late <= 1

\* Both, over deadlines, revoked threads and crashes.
JobsStayBounded == OneBrokerThread /\ AtMostOneLateOrder

\* Orders of a sync that carries a latched halt only shrink positions.
HaltedOrdersOnlyReduce ==
    \A o \in working : o.halted => o.goal = 0 /\ o.qty = - pos[o.sym]

(***************************************************************************)
(* Liveness.                                                               *)
(***************************************************************************)

\* A latched halt ends with a flat account, through closed sessions, failed
\* syncs, deadlines and a crash, unless it is lifted first.
HaltReachesAccount ==
    state.latched ~> (~state.latched \/ (pos = Flat /\ working = {}))

\* A trade whose mirror did not succeed is retried until one does.
PendingIsRetried == state.pending ~> ~state.pending

\* Retrying never doubles up: also next to the manual client.
RetriedWithoutDoubling == PendingIsRetried /\ []OneGenerationPerClient
==============================================================================
