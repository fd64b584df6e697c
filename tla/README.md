# Verification of the multi-strategy paper fund

TLA+ models of the fund's runtime and of its research loop, the TLC configurations that check them on
small instances, and TLAPS proofs that carry the most important properties over to every instance. Paths
below are relative to the repository's root. Every definition that stands for code is listed in
`PROJECT.json` under `map` with the lines it stands for.

    tlc -workers 2 -config HaltLatch.cfg MCHaltLatch        (and so for each run of PROJECT.json)
    tlapm HaltLatchProofs.tla                               (and so for each *Proofs module)

## 1. The system

One Python process, `runtime/live.py`, ticks once an hour over a universe of equities and crypto. Each tick
runs to its end before the next starts. It synchronises human halt clears, takes a snapshot of prices,
marks five shadow books (s1 quantitative, s2 news, s3 language model, s4 their combination, s5 event),
asks the systems for a decision when a rebalance is due, passes it through the risk governor and the final
limits, settles the books, adopts the prices as the next basis, mirrors book s4 to a broker's paper account,
and replaces `state.json`. A tick that raises is logged and the loop goes on with the memory it has.

Beside it stand other processes: scripts that a human runs (clear a halt, sync the broker by hand, review
proposals), timers (a nightly research run, a pager every few minutes, a backup) and the serving gateway.
They share files with the runtime, never memory.

### 1.1 Inventory

Modelled, in whole or in the part that `PROJECT.json` says under `components`:

| Component | State | Operations | What makes it correct |
|---|---|---|---|
| Halt latch and clear path (`runtime/live.py`, `scripts/clear_halt.py`) | latch in memory, in `state.json`, the request file `halt_clear.request` | latch, honour a request, honour a manual edit, settle under the latch, save, load | only a human lifts a halt; a halted fund is flat but for what it cannot price; a clear is not lost and not spent on another halt |
| Order mirror (`core/broker/ibkr_broker.py`, `runtime/live.py`, `scripts/ibkr_sync.py`) | broker thread and its cancel event, `mirror_pending`, orders and positions at the broker | connect, cancel, verify, plan, place, report, refresh, deadline, manual sync | one thread, one generation of orders, never beyond the target; a halt and a failed sync are retried until done |
| Risk gates (`core/risk/governor.py`, `runtime/live.py`) | equity history, `governor_applied_drawdown`, the latch | assess, size on a rebalance, size on a hold, latch | a breach is acted on at the mark that shows it, once, and is not undone by a recovery |
| Shadow books (`core/ledger/live_book.py`, `runtime/live.py`) | equity, cash and dollars per name, `prev_prices`, `last_borrow_date` | quarantine, mark, settle, charge, adopt, save, load | a book is worth what a brokerage account with the same trades would be worth |
| Decision gates (`runtime/live.py`, `core/data/factory.py`) | provider of the basis, last rebalance stamp and news, forward ledger of S3 | due, coverage, provider change, stamp, forward leg | no book is rebuilt on the prices of another provider than the one it was built on |
| Model calls and budgets (`runtime/live.py`, `systems/s3_llm/pm.py`, `systems/s2_news/sentiment.py`) | `llm_budget`, the last S3 book and its source | score news, ask for a book, fall back, hold, charge | every call is charged; no weaker brain takes over because a budget is spent |
| Model contracts (`core/llm/contracts.py`, `core/llm/vllm.py`) | none | check a request, an answer, a usage | the direct client and the gateway let the same exchanges through |
| Final limits and allocation (`systems/s3_llm/wrapper.py`, `core/risk/final_limits.py`, `systems/s4_combined`) | one decision | throttle, scale, blend, cap | no settled book is beyond a limit, also when the held one is |
| Forward event book (`systems/s5_event`, `runtime/live.py`) | cache of filings, last poll | poll, observe, hold, expire | the forward book is the one that the confirmed study held |
| Fills ledger (`runtime/live.py`, `scripts/mirror_reconcile.py`, `scripts/cost_calibration.py`) | `fills_history.jsonl` beside a ring in `state.json` | merge, append, restart, reconcile, calibrate | an execution is recorded once; a missing one is noticed |
| Race readout and digest (`runtime/live.py`, `backtest/metrics.py`, `core/alerts.py`) | rows of marks, the clock, notes that wait | mark, read out, send, forget | weekend moves count once; no claim before its time; no note lost by a message that did not go out |
| Equity ledger and backup (`scripts/backup_state.py`) | `equity_daily.jsonl`, archives | lift closes from the ring, append, prune | a day is written once, rightly, before the ring forgets it |
| Research judge and nightly run (`research/harness.py`, `research/nightly.py`) | `registry.json`, `RESULTS.jsonl`, `hypotheses.yaml` | confirm, validate, skip, run, record, mark | one lockbox shot per family, one answer per spec, every trial counted, every entry decided |
| Engineer lane (`research/engineer.py`, `scripts/review_proposals.py`) | proposals, backups, the working tree, the day's sessions | plan, write, sandbox, review, apply, test, roll back, retire, settle | the tree is what it was or a tested change; closed is closed; budgets and reasons are true; the gate opens again |
| Director and referee (`research/director.py`) | budgets in the registry, the queue, the ledger's tail | ask, charge, register, append, probe | sessions are charged; an empty queue is filled and a stall ends |
| Security audit (`research/security_audit.py`) | time stamps per file | slice, ask, save | every file is asked about again and again |
| Pagers (`scripts/watch_stale_tick.py`, `core/alerts.py`) | `watchdog.json` | check three channels, page, all-clear, restart the gateway | an incident that lasts reaches the human; pages keep their distance |
| Serving gateway (`serving/api.py`, `systems/vllm_provider.py`) | requests in flight, outcome counters | guard, upload, admit, ask, race, cancel, release, attribute | never more than the limit asked of the server; each request counted once; every slot given back |
| GPU demonstration cluster (`scripts/gke_gpu_demo.py`) | a private state file, the provider's operation and cluster | create, watch, clean up, look again | a cluster recorded as deleted is gone for good |

Not modelled, each with its reason in `PROJECT.json`: the signals of the systems s1 to s5, experiment
primitives, the backtest engine and costs (numerical functions without state, covered by the repository's
own tests against references), the data providers (network reads whose outcome is an input of the models: a
price, no price, an absurd price), the dashboard (reads and formats), configuration, benchmarks and the other
one-off scripts, and the legacy ledger, which only a smoke script reaches.

### 1.2 How the parts interact

- The tick is a pipeline over one dictionary. News are scored and S3 is asked (Brains) when the bar or the news
  make a rebalance due (DecisionGate); proposals pass the wrapper, the blend and the limits (Allocation); S5 holds
  what its filings say (EventBook). The governor's verdict becomes a latch (HaltLatch, RiskGates);
  the latch zeroes the targets that the books settle (HaltLatch, ShadowBooks); the settled book s4 is what the
  mirror sends (OrderMirror). A name without a price is frozen at every stage.
- `_ibkr_bounded` is the only place where the runtime has two threads: the broker thread that missed its
  deadline lives on, and is told to stop through an event it polls.
- `state.json` is written whole, at the end of a tick, by an atomic replacement. `clear_halt.py` answers with a
  file of its own; an operator may also edit `state.json`; `ibkr_sync.py` reads it and talks to the broker
  under another client id.
- The nightly run keeps three files that are written one after the other. A human edits one of them. After the
  judge come the director, which fills the queue the next night reads, and the engineer lane, which writes to
  the working tree that the runtime loads at its next restart; the pagers tell a human when that is due.
- The backup and the pagers read `state.json` from processes of their own. They write only their own files.
- Model calls go either to a vendor, to a local model server, or through the gateway; the last two check the
  same contract at two places.

### 1.3 What is hard

Failures between two writes (a tick that raises before the save, a night killed between registry and ledger);
answers that arrive late (fills of an order being cancelled, a thread past its deadline); several actors over
one file; a state read early and used late (the manual sync's targets, the queue a night loaded); ledgers that
must count exactly once. `PROJECT.json` lists these under `hazards`, each at the line where it bites with the
properties that would catch it, or a note when none does yet.

## 2. The modules

Each component has one module. What is proved about it is in a module `...Proofs`, which some components share, and
`Sums` has the lemmas on folds that these rest on (section 4). Modules `MC...` hold the instances for TLC. Bounds that only keep the state space finite are constants named `Max...`; in the older
modules they are spent in a record `spent`. Some definitions vary another one the way a plausible slip would
(in some modules named `Defect...`, elsewhere after the slip); the specifications do not use them. Putting one in
place of the definition it varies makes the property listed beside it under `mutants` fail, which shows that the
property depends on that piece of code.

Components that share no state are checked together: `MCDesk`, `MCOperations` and `MCNight` EXTEND several modules,
and `part` says which of them moves in a behaviour; the others stay in one of their initial states, which satisfies
what is invariant. So that they can stand side by side the modules of a union name their constants, variables
and specifications apart: `GatesRing`, `RaceRing` and `MarksKept` are all the one `MAX_HISTORY`, and `GatesTick`,
`DecisionTick` and `RaceTick` parts of the one `tick`. A property keeps
its name and its module, and is the one the theorem of section 4 is about. These unions say nothing about
interaction. They keep the number of runs small; the bounds of all parts stand side by side in the `.cfg`.

### HaltLatch

`mem` is the runtime's dictionary, `disk` is `state.json`, `sentinel` is `halt_clear.request`, `scriptSaw` is what
a running `clear_halt.py` has read. A halt is a number, which stands for its time stamp. The tick is split where
something can come between: `HonorRequest`, `HonorEdit` and `NothingToHonor` are the three ways through
`_sync_halt_clear_from_disk`; `Decide` takes the governor's verdict, latches and computes the final targets;
`Settle` is `settle_book` over all books, with the names priced in this tick as its input; `Save` is `_save`.
`TickFails` is any exception before or in `_save`. A holding is a pair of a book and a name: a reader of this
model cares whether it is there, not how large it is. `ScriptReads` and `ScriptWrites` are the two halves of
`clear_halt.py`; `HandEdit` removes the key from `state.json`. The sets `asked`, `edited` and `saved` are history.

### OrderMirror

`loop` is the tick loop around the mirror, `state` the part of the fund state it uses (the whole-share target
of each symbol, the latch, `mirror_pending`), `job` the runs of `IBKRBroker.sync` and `refresh`, each with its own
program counter, `working` and `pos` the account. `Tick` is the tick up to the mirror's condition; `StartMirror`,
`SkipBusy`, `MirrorEnds` and `Deadline` are `_ibkr_bounded`; the job's steps are the calls of `sync` in their order,
with `_check_cancelled` as the guard `~Revoked(j)`. `CheckOrder` and `SendOrder` are apart because the deadline may
pass between the check and `placeOrder`. `CliLoads` and `CliConfirmed` are `ibkr_sync.py --execute`, whose job has no
event and no deadline. `Fill`, `Cancelled`, `Dropped` and `Bell` are the broker, as the code supposes it: partial fills,
fills of an order whose cancellation is under way, orders that end on their own, a session that opens and
closes. Weights, NAV, the slice and the dust filter are abstracted into the whole-share target.

### RiskGates

`history` is `equity_history["s4"]` as a ring of marks, each of which knows whether it opens a calendar day; the
governor sees the last mark of each day, so a gate is a relation between closes (`Closes`, `Yesterday`, `PeakNavs`).
NAV is a whole number that moves by the size of the book times a move per unit. `GatesTick` is the tick from the
assessment to the append: the latch is lifted by a request first, the gates are assessed on the history plus
this mark, the book is sized by the gate on a rebalance and by `SizedOnHold` otherwise. `applied` is
`governor_applied_drawdown`. The VaR, sector, net and gross caps are slack here: they are arithmetic on one
vector. `proposed` is history.

### ShadowBooks

The code never counts shares: a book is `equity`, `cash` and dollars per name (`val`), each multiplied by the ratio
of two prints. The model keeps beside it what a broker would keep, `shares` and `account`, and the properties
compare the two. `Safe` is the quarantine of `_quarantined_marks`, `Marked` is `mark_book`, `SettledBook` the charges and
`settle_book`, `Adopted` the update of `prev_prices`, which takes absurd prints too. `Tick` changes all books or, in
`TickRaises`, none. Prices are powers of two, so that the integer division of `Marked` is exact. The market moves
prices (`MovePrice`), splits a name between two sessions (`Split`) and shows a bad print now and then
(`Snapshot`). One assumption about it is the code's own: while a split or a bad print waits to be
re-based, its price rests. The quarantine skips the whole mark of a name for that tick, so a real move inside
a skipped jump is never booked; the properties speak of the moves the quarantine means to book.

### DecisionGate

`st` (on disk `stSaved`) is what `tick` keeps of its decision: the provider on record and the one last observed, the bar and the news of
the last rebalance, the pending forward leg, and the book with the provider it was built on. A tick finds a bar
or the one before (a flap), asks `_should_rebalance`, and either decides or holds; it may raise after the decision
was stamped, or fail to save. Coverage is a Boolean. `OneBasis` is why the provider is remembered with the book:
a fallback that answers for one tick must not become the basis of a rebalance.

### Brains

One tick is `ingested`, `decided`, then saved. `setup` is what `config.yaml` and the keys allow; from it follow the
chain each caller falls back along and whether a call is paid. `budget` is `llm_budget` with its date, `paid` and `lost`
are history: what was called today, and what of it died with a process before a save.
`AccountIsMeasured` compares them with the budget after every tick; `NoWeakerBrainByBudget` says when S3's book may
come from another brain.

### Allocation

One decision from S3's proposal to the settled books of S3 and S4 in exact fractions `[w, den]`: the wrapper's caps
and throttle, volatility scaling, the blend, the final limits. `LimitsBind` holds of what is settled, also when the
held book was in breach.

### EventBook

`filed` is fixed in the initial state: which names file on which days, twice a day at most. A poll may fail or miss
a name; `rows` is the cache that lives in the state, `complete` whether the poll of this bar missed nothing. What
raises after the poll leaves the cache stored and the book as it was (`degraded`). The property compares the book with `calendar_time_daily`, the primitive that confirmed the hypothesis, over a calendar
with a weekend.

### FillLedger

`session` is the broker's day, `made` the set of all executions, numbered within their day; the broker reports all fills
of its day in each report. `seen` is the set that keeps the ledger free of repeats, seeded
from the ledger's tail after a restart; an append may fail half way and leave a line without an end. What
`mirror_reconcile.py` and `cost_calibration.py` read back is part of the property `FillsAreAccounted`.

### RaceVerdict

Rows of marks per tick, a calendar with a weekend, the clock of the experiment, a release of the accounting that
changes once, and the digest. Each tick moves the race by a power of two of its own, so that a sum of returns names
exactly the ticks it counts: `EveryMoveCountsOnce` compares the readout with the moves between first and last trading
close. `DigestIsTrue` adds the claim and the notes, over processes that die before their save.

### EquityBackup

The ring of marks in `state.json` and the nightly backup that lifts completed days out of it. `closes` is what the closes
were. A night may be missed and a backup may be killed while it appends, leaving `Torn`; `BackupBounds` says
how long the ring must be for that.

### ModelContracts

No steps: each initial state is an exchange, a request, what the server answered, and the limits of both doors.
`Direct` is `VLLMClient.generate`, `Through` the gateway and its client. `AnswersAreChecked` says that the doors agree and that
what passes is contained. The small sets are for TLC; the theorem is about exchanges of any size.

### ResearchHarness

A night is `StartNight`, then a confirmation or a scan of the queue it loaded (`PassOver`, `Reject`,
`SkipDuplicate`, `Choose`), then `Discover` or `Confirm` up to the write of `registry.json`, `AppendRow` to the ledger,
`MarkDone` in the queue, `Director`. `Crash` may fall between any two. A spec stands for its hash; an entry also
carries the hash it was registered under, so an altered entry is `prereg # spec`. A result is an input: a weak
one passes while its family has few trials, which is what the Bonferroni bar does. `ResetEntry` and `AlterEntry`
are a human's edits, made also while a night holds an older copy of the queue.

### EngineerLane, AtomicTree

`lane` is the night's process: baseline, plan, write, sandbox, review, apply, and the settle loop with its stop
reasons. `prop` is the records under `research/proposals`; `job` is `apply_proposal` in the hands of the lane or of the human's
script, file by file. A file's contents are the number of the proposal that wrote them. What models answer and how
tests end are free; a proposal of a round is one of a set of specs, of which the lane takes any next. `Killed` may fall anywhere but, unless `KillsInApply`, between the first write of an apply and its
verdict. `AtomicTree` is the abstract specification: a proposal is written once and lands whole, at most once. The
refinement maps the tree to what it was before an apply that is under way, so that a rolled back apply is a
stutter (`LandsWhole`).

### Director

A night's session from the referee to the queue: budgets in the registry, the 25 last lines of the ledger it must be
able to read, answers, refusals, and nights killed at each step. An entry may be closed without a row (refused or a
duplicate), and a night that confirms leaves the queue alone. `since` counts days without an experiment for the
liveness probe.

### Pagers

`cron` is the check at which a pass is: three channels over one ledger file `led`. A page may be lost on its way and a ledger
may fail to be saved. `world` is the loop, the link, whether `state.json` can be read, and what of the tree is newer
than the process. A file that cannot be read is the tick pager's emergency and passes the link's check by. `told` and `quiet` are
history.

### AuditRotation

`next_slice` takes the files not reviewed for longest; stamps are kept in memory and saved at the end of a pass. Passes
die, files cannot be read for a while, a torn state file reads as none.

### ServingGateway, Slots

A request goes `upload`, `body`, `admitted`, `unwinding`, `closed`; its `backend` task goes through `tokenize` and `chat` or is
cancelled. Clients leave and deadlines pass at any time; the handler itself may be cancelled, while it waits or while it gathers its tasks. `Slots` is the abstract
specification, a counted semaphore; the refinement maps its holders to the requests whose backend task still runs,
those being cancelled included (`SlotsHold`).

### GpuDemo

`disk` is the private state file, `op` and `cluster` are the provider's. An answer to `create` may be lost, the tool may be
killed at any step, and the clean-up must tell a cluster that is not there yet from one that is gone.

## 3. The runs

| Run | Question | Bounds | Distinct states |
|---|---|---|---|
| `halt_latch` | does a saved halt stay until a human acts, is the fund under it flat, does it become flat, does a request lift its latch? | 1 book, 2 names, 2 halts, 2 clear runs, 1 edit, 1 failure, 1 crash | 95 thousand |
| `order_mirror` | one thread, one generation, never beyond the target? | 2 symbols, 3 job slots, a fuse of 2 orders, one each of fault, deadline, drop, crash and trade | 1.2 million |
| `order_mirror_live` | does a halt reach the account, is a failed mirror repeated, and without doubling? | 1 symbol, 1 trade, 1 drop, and either 1 manual sync or 1 each of fault, deadline and crash | 319 thousand |
| `shadow_books` | are the books worth what they should be? | 2 books, 2 names, 2 days, 1 move, 1 jump, 2 trades, 1 failed save, 1 restart | 199 thousand |
| `nightly_job` | judge: one shot, one answer, every trial paid, every entry decided? engineer: only whole proposals, true accounts, an open gate? | judge: 3 specs in 2 families, queue of 3, 1 error, 1 crash, 1 edit; lane: 3 proposals of up to 2 files, 2 sessions and 2 rounds, 1 pending allowed, 1 death, 1 act of the human | 1.0 million |
| `desk` | does a tick decide and record what it should? | nine parts, bounds in `Desk.cfg` | 1.0 million |
| `operations` | does what must happen in the end happen? | five parts, bounds in `Operations.cfg` | 138 thousand |

The bounds are the smallest at which the interesting cases meet. Two halts, because a stale request needs a
second one to lift. Three job slots, because a revoked thread, its successor and the orders of a third run can
be alive together; a fuse of two, so that a plan of both symbols passes it and neither is dropped. A ring of
five marks with two per day holds three closes, so that a peak, yesterday and today differ and the peak can
be forgotten; with gates at 3 and 5 percent of 100 a book is halved, recovers, dips and halts inside it. Two
specs of one family, because a shot of one must close the other, and a third in another family that goes on.
Jump factors of 8 against a quarantine of 4 are absurd there and back; the moves between 1 and 2 and between 2 and
8 are not, the second of them at the very edge of the band. Two callers of a gateway with one slot, so that one
is refused, or takes the slot of one being cancelled. A cap of one pending proposal against plans of two, so that the
backpressure and the claim on files both bite. A ring of one fill against two a day, so that the ring forgets what
the ledger must remember. Four files in slices of two with one unreadable. A calendar with a weekend between two
trading days for the readout and for the event book. No run uses a state constraint.
`order_mirror_live` checks liveness beside the runtime's own mishaps, or beside a manual sync, but not beside both
(`MCSpent`: a behaviour begins with one or the other used up): all five together take TLC beyond a run's time.
`order_mirror` has the safety properties with the runtime's mishaps combined.

Deadlock is checked in every run but `desk` and `operations`, some parts of which really stop: the last bounded day, a
closed request, a settled decision, an exchange. Symmetry is used only in `order_mirror`, over symbols that no
constant of the instance tells apart.

The type invariants of HaltLatch, OrderMirror, ShadowBooks, ResearchHarness and EngineerLane are proved as they
stand (section 4), those of the gateway, of GpuDemo and of the pagers inside their inductive invariants; the others
document their modules' states.

### Disagreements between the code and what it says

Five runs check what a comment, a test or a message of the repository says, and TLC finds the code doing
otherwise. `findings` quotes the lines.

- `halt_failed_tick`, property `OnlyHumansClear`: "once tripped, ALL books stay flat until a human clears"
  (`runtime/live.py:1618`). A tick latches, then raises before `_save`. `state.json` never had the latch, so the
  next sync takes its absence for an operator's edit and lifts it. If the breach persists the governor latches
  again; if it was a breach of one mark, the halt is gone.
- `halt_stale_request`, property `NewHaltSurvivesOldRequest`: "a new halt must survive the old request"
  (`tests/test_halt_clear.py:50`). `clear_halt.py` is run a second time during the tick that honours the first run:
  `state.json` still has the latch, the request is written, and nothing looks at it until the next halt, which
  it lifts. The test covers the request that the runtime consumed with its halt.
- `mirror_two_clients`, property `OneGeneration`: "cancel-then-plan makes at most one generation live"
  (`core/broker/ibkr_broker.py:414`). True of one client, as `order_mirror` shows; false of the automatic mirror and
  `ibkr_sync.py` together, when both find no working order before either has placed one.
  `OneGenerationPerClient` is what remains true.
- `engineer_killed`, property `TreeIsLanded`: "a bad change cannot survive the night" (`research/engineer.py:18`).
  The rollback runs in the process that applies. When that process dies between the first file written and the
  verdict of the tests, the tree keeps untested contents, the proposal is still pending and nothing looks at
  the backups. With no death inside an apply, `LandsWhole` holds: `nightly_job` checks it, `ProposalsLandWholeHolds` proves it.
- `books_split`, property `SplitRebases`: "a genuine split re-bases here" (`runtime/live.py:1779`). Only a split whose
  ratio is outside the quarantine's band of 4; a split of two, three or four for one is booked as a loss.

### Seen while modelling

Not runs, since each is one path that reading shows or says nothing of a sentence in the repository:

- A clear is honoured and undone in one tick: the governor assesses the same equity curve a few lines later and latches
  again, since a flat book does not recover (`scripts/clear_halt.py:53` against `runtime/live.py:1603`). Repeated clears
  succeed once the day has passed or the ring has dropped the peak. A book of S4 that is flat has no weights, so
  every tick under a halt fetches the heavy panel and runs the systems as at a first start (1560 against 1811).
- The record starts its clock after the readout of the tick that starts it, so that one tick may report a verdict over
  earlier days (`runtime/live.py:1757` and 1768).
- The buffer keeps 40 notes, a digest shows the last 12 of them and clears all.
- An append to the fills ledger that fails marks its fills as seen: they are never written, though
  `runtime/live.py:1302` means to persist every new fill. The capture check of that day then reports the gap unless no
  fill of the day was written, when the day is not comparable.
- A torn line in the research ledger keeps the director from its context until 25 more rows have pushed it out, and the
  stall probe does not count over it (`research/director.py:156` against 168). A refusal of the director's model and a missing
  key look the same to the night.
- The restart pager does not look at `systems/`, which the engineer lane may change (`scripts/watch_stale_tick.py:274` against
  `research/engineer.py:376`).
- The wrapper's throttle alone can leave a name above its cap, and a proposal whose names are all dropped is not throttled;
  the final limits repair both.
- A second `create` of the GPU demonstration overwrites the state file of a demonstration whose clean-up is pending, and an
  answer lost at `create` may leave a clean-up pending for ever.
- A copy of the rollback that raises leaves the tree half restored: the first failing call is repeated by the handler
  (`research/engineer.py:352` and 359), the second leaves the lane uncaught. `engineer_killed` has that state as a
  death during the undo, and `KillsInApply = FALSE` excludes both.
- A spec that lists one path twice overwrites its own backup with its new content (`research/engineer.py:341`), so that a red
  suite restores the new. A spec of EngineerLane has a set of files, so no run meets this.

### Fairness

- HaltLatch: weak fairness of the tick's stages, of the restart and of the second half of `clear_halt.py`, since
  `run()` loops for ever, the service manager restarts the process and the script does nothing between its
  read and its write. Strong fairness of a settlement that prices every name: a settlement happens in each
  tick that does not fail, and a name that never prints again is a delisting, which the code does not claim
  to exit.
- OrderMirror: weak fairness of ticks, of the loop and of each job, because every request to the broker carries a
  time-out; weak fairness of cancellations the broker has accepted. Strong fairness of fills of a symbol's
  orders, of the opening bell between two ticks (also while an order rests), and of ticks that fall in the
  session with every price known: the loop ticks hourly and a session lasts hours. None is assumed for
  the manual sync, whose human may never answer the prompt.
- ResearchHarness: weak fairness of the night, which a timer starts; crashes and errors are bounded, which is
  the assumption that a spec which raises every time is withdrawn. Without it a confirmation that always
  raises would starve the queue, and `hazards` says so.
- EngineerLane: weak fairness of the night and of the steps of an apply, whose test run has a time-out; strong
  fairness of a new day, which comes however often a human starts a night again. Nothing of the human.
- Director: weak fairness of nights and of days. Strong fairness of an answer and of a usable design: the model's
  service comes back some day and proposes something that validates; the code retries nightly on that ground and
  cannot do more.
- Pagers: weak fairness of the cron entry and of its checks; strong fairness of a page's arrival for each channel, since pages
  are lost but not all of them. Nothing is assumed of the human who restarts.
- AuditRotation: weak fairness of the pass, which the night starts. Deaths are bounded.
- ServingGateway: weak fairness of the event loop, of cancellations that were delivered, of deadlines and of the client
  reading its answer. None of the model server: it may never answer.
- GpuDemo and the parts of `desk` have safety properties only.

## 4. What is proved

Every safety property that a passing run checks, invariant or action property, is also proved; the ten that remain
to TLC alone are liveness. The proofs hold for every set of books, names, specs and families, every bound, and every
value of the other constants that the named assumptions of the modules allow. TLC checked each inductive invariant,
or the property it strengthens, before it was proved; those of `SelfFinancing`, `EveryMoveCountsOnce` and
`LimitsBind` on the states of their runs.

### Sums

The lemmas on which the theorems about cash, returns and weights rest: a sum over a finite set exists, is a whole
number, does not depend on the order in which it is taken, adds, scales and grows with its summands. The library
sums by a recursive function over the subsets of a set. Its theorems on recursion and induction take a predicate as
a parameter, which the provers cannot instantiate; so induction is stated here with a set in the predicate's place
(`EveryNatural`, `SubsetsBySize`) and proved by a smallest counterexample, and a recursion is shown to have a
solution (`FoldExists`) and only one (`SumIsUnique`). An operation is passed as a function, and its closure as a
named operator (`Combines`, `FoldsOf`), without which the lemmas do not match where they are used.

### HaltLatchProofs

`TypeCorrect`, `HaltedFileIsFlatHolds`, `NoRiskUnderLatchHolds`, `SavedHaltNeedsHumanHolds`, from one inductive
invariant, `LatchInv`. `HaltedFileIsFlat` alone is not inductive: `Save` copies memory, so what memory looks like
between `Settle` and `Save` must be known (`LatchZeroesTheTick`: while the latch is up the tick in progress takes
every book to flat). `SavedHaltNeedsHuman` needs to know that a saved halt in memory is also the one on disk, unless
an edit removed it (`MemoryMatchesDisk`), so that neither the legacy path of the sync nor a restart drops it; and
that what was saved came through the disk (`SavedThroughDisk`). `HaltNumbers` keeps a new halt apart from the saved
ones. Assumptions: the bounds are natural numbers and the enabled books are books.

### OrderMirrorProofs

For any symbols, any number of job slots and any bounds. `TypeCorrect` rests on `TypeInv`, which adds to the types
what a job may still send (`JobsSound`: one late order at most, no empty delta, under a latch only exits), that a
tick under the latch has zeroed what it prices (`TickSound`) and that the loop waits only for a thread it has
(`Waiting`). On top of it:

- `JobsStayBoundedHolds`, from `SyncInv`: a job that runs is the loop's thread or the manual sync (`Threads`). A
  deadline revokes and abandons its thread before the next one starts, and the revoked one sends at most the order
  it had checked.
- `OneGenerationPerClientHolds`, from the same invariant: a job that is past its verified cancellation has no order
  of its client working but its own (`Generations`), so one client's orders in a symbol are of one sync. It holds
  beside the manual sync.
- `OneGenerationHolds`, `WorkingEndsAtGoalHolds` and `HaltedOrdersOnlyReduceHolds`, from `AloneInv`: a sync plans on
  an empty order book, a symbol has one working order, and what a job has still to send carries the position to its
  goal just as what it has sent does, through fills in any pieces (`Sizes`). Their hypothesis is `MaxCli = 0`, no
  manual sync: with one the first is false, and the run `mirror_two_clients` is the counterexample. The run that
  checks these three properties, `order_mirror`, has `MaxCli = 0` as well.

### ShadowBooksProofs

`SharesKeepTheirWorthHolds`: the dollars of a holding are its shares at the basis, in memory and on disk, provided
`JumpMax < SplitFactor` and `JumpMax < BadFactor`, the two hypotheses of the theorem. They are needed: the run
`books_split` is the counterexample to the first. The property speaks of names whose basis is a true price; it is
not inductive because it says nothing of the others, whose dollars reappear when a later tick adopts a true price.
`Worth` adds that: such a name is worth its shares at the price that rests, its jump is absurd, and a name without a
basis is held by nobody. The lemmas take one name through the four things a tick can see of it: nothing
(`MissingKeepsWorth`), a bad print (`BadPrintKeepsWorth`), a true print after a jump or an ordinary move
(`TruePrintKeepsWorth`). A division is exact because what is divided is a multiple (`DivMultiple`).

`BorrowOncePerDayHolds` needs no hypothesis. `BorrowInv` says of memory and of disk alike that each book was charged
once for each completed day and that the stamp names the newest of them; disk must be in it because a restart takes
memory from there. `UnpricedFundsNothingHolds` is an action property under the hypotheses of the first theorem: what
a tick finds without a price rests on the worth of that holding, so it follows from `WorthInv` and one step.

`BooksTypeOK` and `SelfFinancingHolds` come from `AccountsInv`. For each book, in memory and on disk, the cash is
the account's and the equity is the account plus the *dollars* of the book (`Accounts`). Dollars, because the
property itself, which speaks of shares at the basis, says nothing of a book that holds a name without a true basis,
and such a book can come back: the sum of dollars is kept by every tick, whatever is priced, and turns into shares
at the basis by `SharesKeepTheirWorthHolds`, whose two hypotheses it therefore needs. A settlement changes each
name's dollars by what the account pays for it, so the sums over the names cancel (`SumAdds`); a mark adds to cash
and equity the same differences. The assumption that the names are finitely many is in `BooksAssumption`: a book is
a dictionary.

### NightProofs: the judge

- `HarnessTypeCorrect`, from `TypeInv`: beside the types, a night works on an entry that is there and a candidate is
  a spec of its family (`Position`, `Candidates`).
- `AnsweredOnceHolds`, from `AnswersInv`: numbers grow (`Numbered`), and where the ledger has the row of an answer,
  it is about that spec and is no error (`Backed`). So the duplicate check finds every answer, with its row or
  without (`AnswerFound`), and only a spec without one runs.
- `OneShotClosesFamilyHolds`, from `ShotInv`: a shot in the ledger has closed its family, and the row that a night
  is about to append is of a family without a shot.
- `PenaltyIsPaidHolds`, from `PenaltyInv`: the trials of a family are at least the discoveries of it in the ledger,
  counted with the library's theorems on cardinality, and the row to come was judged by that count. A night killed
  before the append leaves more trials than rows, never fewer.
- `DoneIsItsOwnAnswerHolds`, from `DoneInv`: in the file and in the copy a night holds, an entry that is done
  carries the number of a row about its own spec, and no number newer than the ledger (`Top`), so that the row to be
  appended cannot become an answer by accident.

### NightProofs: the engineer lane

Hypothesis of all three theorems: `Scope`, that is `LaneBounds`, finitely many files, no death between the first
file of an apply and its verdict (`KillsInApply = FALSE`) and no script at work while a night runs (`Overlap =
FALSE`). Without the first `ProposalsLandWhole` is false (the run `engineer_killed`). One invariant, `NightInv`,
serves all: the records are numbered without gaps (`NumberedIds`, from which a new proposal's number is free), that
the record a round holds in memory agrees with the one it saved (`Open`), what an apply under way has written and
what it keeps to put back (`Applying`), which proposals a round has won and that their files are apart (`Winning`,
`Claims`), how long the queue may be with what the plan may still write (`Queued`) and what the night counts against
what it was charged (`Books`).

- `LaneTypeCorrect` and `NightIsAccountedHolds` weaken it.
- `ProposalsLandWholeHolds` is the refinement of `AtomicTree` (`LandsWhole`) and the action property that a closed
  proposal never reopens. The abstract tree is the one before an apply under way (`BeforeApply`): writes, rollbacks
  and deaths are stutters, and the green verdict is the one step that lands a proposal (`SeenLands`), whole because
  `Applying` knows that all its files are written by then. A step of the records alone leaves the abstract tree
  alone (`TreeUndisturbed`).

### OperationsProofs

- `AbsenceIsFinalHolds`, from `DemoInv`: nothing is at the provider for a demonstration whose create was not
  attempted, and a cluster only after its operation (`Begun`); a file that says terminal is right for good, and the
  tool looks for the cluster only when it says so (`Conclusive`).
- `SessionsAreChargedHolds`: director sessions answered are at most the budget's count, plus one under way that is
  not charged yet, plus one for each night killed in between; so never more than the cap and the deaths.
- `PagesAreSpacedHolds`: an action property. Between two pages of a channel within one incident lies a realert
  window, unless the ledger disagrees with the pages because a pass could not save it, and only an all-clear ends an
  incident. By `PagerInv` a pass finds every channel it has still to look at (`Ahead`) at least one pass after its
  last page. `SavedPagesAreSpaced` is the same with `MaxUnsaved = 0`, without the exception. Run `operations` checks
  `SessionsAreCharged` and `PagesAreSpaced` as conjuncts of `DesignGoesOn` and `PagerIsHeard`; no run checks
  `SavedPagesAreSpaced`, which TLC checked once on that instance before it was proved.
- `GatewayHoldsAlways`: the refinement of `Slots` (`SlotsHold`), one count per request, and no answer attributed to
  the model without a counted success. `GatewayInv` says what stage of a request goes with what state of its backend
  task (`Coherent`), that `inflight` is the number of requests between admission and release, and `counted` the
  number of those that ended. Neither is inductive without `Coherent`: the task exists from admission on and has
  ended by the time the slot is given back.

### DeskProofs

One theorem per component, each under its module's named assumption about the constants.

- `GatesHoldAlways`, from `GatesInv`: `applied` is what is left of the proposed book (a full share is that book, a
  smaller one at most half of what is full). The lemma that carries it is `EvictionTripsNoGate`: a mark that leaves
  the ring trips no gate, so a breach that is open after the append was seen at the assessment.
- `OneBasisHolds`, from `BasisInv`: in memory and on disk the provider a book was built on is the provider on
  record. Without disk it would not survive a restart.
- `AccountIsMeasuredHolds`, from `AccountInv`: what the budget says of today is what was called less what a crash
  took, and calls are within the caps on disk and in memory. `NoWeakerBrainByBudgetHolds` needs only `ChainInv`, the
  two shapes a set-up can have; the work is in `ChainStep`, over every chain and every outcome of every call.
- `ForwardIsTheBacktestHolds`, from `EventInv`: once a poll was complete, the cache has every filing the horizon
  asks for. Then `ActiveIsHeld`: the book the engine makes of the cache is the backtest's, for every calendar,
  because a filing that is active was known by the second bar after it (`KnownBySecondBar`).
- `DigestIsTrueHolds`, from `RaceInv`: every row's day has a saved mark, a record that is not broken has marks of
  its own release only, and a claim was earned by the rows it was made from. A span of returns is shorter than the
  days behind it (`ReturnsAreFewer`); a row appended changes the newest close alone (`NewestOfAppended`).
- `LedgerKeepsDaysHolds`, from `BackupInv`: the close of a completed day is in the ring, in its place, as long as no
  more marks came after it than the ring has room for (`Behind`), and a day that is not in the ledger is no older
  than the nights that were missed and the lines that were torn allow (`Waits`). The assumption `BackupBounds` says
  that the ring outlasts that: the configuration does by far, and without it the property is false. `RankIsOnto`
  shows that the rows a backup appends are all that are due, in order.
- `FillsAreAccountedHolds`, from `FillInv`: the ledger lists executions, each once and by day, and what the process
  remembers as seen has today's rows. After a restart it is seeded from the ledger's tail; that this suffices
  (`TodayWasSeen`) is because the rows of today are the last ones and there are no more of them than the day has
  executions. `FillBounds` asks `SeenTail >= FillsPerDay`, which is 20,000 lines in the code.
- `EveryMoveCountsOnceHolds`, from `RaceInv` with two facts: what the record of moves has for a day is the last row
  of that day that was saved (`ClosesAreMarked`), and a readout is of the rows it was saved with
  (`ReadoutIsOfRows`). The second is needed because a tick that dies leaves the old readout beside the old rows. The
  sum itself telescopes (`EdgeTelescopes`): the returns of a window are over the spans between its neighbouring
  days, and the lemma goes from the first day to any day, by the number of days behind it. A ring that forgets
  shortens the window and not the sum.
- `AnswersAreCheckedHolds` has no steps to reason about: it is proved of every exchange of the right shape
  (`AnyExchange`), with data and lists of names of any length, any counts and any limits, of which the module's are
  a few (`ExchangesAreAny`). It asks only that a measured usage is a number, as both doors check before. Names that
  are pairwise different are as many as the entries (`NamesAreCounted`).

### AllocationProofs

`LimitsBindHolds`, for all finite sets of symbols and all caps, weights, volumes and factors, from `AllocationInv`:
from the limits on, S3's book is within them and within its turnover. The property alone speaks only of what is
settled; the invariant says in addition that the last limiting of S3's book is in vain (`ClipWithin`: clipping a
book that is within the limits is the identity), or it could undo the turnover that the first one kept. The
argument, in the order of the module:

- Reduced fractions are the same fractions: Euclid's recursion ends and returns a positive common divisor
  (`EuclidEnds`, `GcdDivides`), the fold of it divides every weight and the denominator (`CommonFactor`), and what
  is divided is divided exactly (`ReducedIsSame`).
- The code caps a size by the sign of what is wanted. `Within` says it as an interval for each name, `-Short..Long`,
  and a gross; `CapIsLimit` shows that the two are one. Intervals are convex, so the part of the way from one book
  within the limits to another is within them (`BetweenIsWithin`): a turnover budget cannot carry an invalid book
  into the settled weights, provided it starts from a feasible one. That is what `Base` is for; the mutant that
  starts from the held book violates the property.
- Going n/d of the way trades n/d of the distance (`PartOfTheWay`), and the distance from what is held is at most
  that to the base plus that from the base (`GrossTriangle`), so the trades are within the budget or within what the
  limits force (`NearIsWithinTurnover`).

### Only model-checked

- Liveness, which is beyond the prover: `RequestLiftsLatch`, `HaltFlattens`, `HaltReachesAccount`,
  `RetriedWithoutDoubling`, `EveryEntryIsDecided`, `GateReopens`, `DesignGoesOn`, `EveryFileIsReached`,
  `PagerIsHeard`, `SlotIsFreed`.
- What the five runs with a violation show, which TLC's counterexamples settle.

## 5. What the models leave out

- Numbers: weights, covariances, scores and Sharpe ratios. Where a decision depends on one, the decision is an
  input and every outcome is possible.
- Torn writes of the registry and of the research ledger, which are written in place, and of the broker's and the halt's
  files; `hazards` lists what a kill inside such a write does. The ledgers of fills and of daily closes, the state of the audit and
  the ledger that the director reads do have torn lines in their models.
- Dictionary races of the broker thread that reports after its deadline: OrderMirror has its orders, not the
  dictionary that `json.dumps` walks.
- Exact placement of exceptions: a tick raises between the stages of HaltLatch and before the first change of
  ShadowBooks. From the adoption of the marked basis on (`runtime/live.py:1782`) the stretch up to the save is
  covered by a failing save. A raise between the first book's change (1704) and that adoption is not: only pure
  computation over the same prices lies there.
- The confirmation of a family whose night is killed between reading the lockbox and writing the registry: the
  result dies with the process, and no state records the look.
- Interaction between the parts of a union: the judge and the engineer lane share a night but no state; the tick's
  decisions, gates and books are separate modules, each with what the others give it as a free input.
- Text: prompts, digests, reports and what a language model answers. Where an answer matters its classes are modelled.

## 6. Plan

Done: the latch first, because it is the fund's last defence and three processes meet in it; then what reaches the
broker; the gates that raise the latch; the books that everything else reads; the research judge, whose ledger is
what the fund's claims rest on; then the rest of the tick (decision, model calls, limits, event book, fills, readout),
the services beside it (gateway, contracts, backup, pagers, audit, GPU demonstration) and the rest of the night
(engineer lane, director). What follows, in order:

1. Composition: a tick that runs the latch, the gates and the books together and implements each of the three modules by
   a refinement mapping, so that what each takes as an input is another's output.
2. A second instance of `order_mirror` with a short book, and of `nightly_job` with an applier at work while a night runs
   (`Overlap`).
