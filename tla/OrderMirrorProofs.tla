-------------------------- MODULE OrderMirrorProofs --------------------------
(***************************************************************************)
(* Theorems about OrderMirror, for every set of symbols, positions and     *)
(* slots, and every bound.  What concerns the runtime alone (one           *)
(* generation, sizing) is proved for MaxCli = 0: with ibkr_sync.py         *)
(* --execute next to it, it is false (OrderMirrorTwoClients).              *)
(***************************************************************************)
EXTENDS OrderMirror, TLAPS, FiniteSetTheorems

(***************************************************************************)
(* Operators.                                                              *)
(***************************************************************************)

\* The least of a set of slots is one of them.
LEMMA MinOfNumbers ==
    ASSUME NEW T \in SUBSET Nat, T # {}
    PROVE  Min(T) \in T
<1> DEFINE R == {ss \in Nat \X Nat : ss[1] < ss[2]}
<1>1. IsWellFoundedOn(R, Nat)
    BY NatLessThanWellFounded DEF OpToRel
<1>2. PICK x \in T : \A y \in T : <<y, x>> \notin R
    BY <1>1, WFMin
<1>3. ASSUME NEW y \in T
      PROVE  x =< y
    <2>1. x \in Nat /\ y \in Nat /\ <<y, x>>[1] = y /\ <<y, x>>[2] = x
        OBVIOUS
    <2>2. ~ (y < x)
        BY <1>2, <2>1
    <2> QED
        BY <2>1, <2>2
<1> QED
    BY <1>3 DEF Min

\* What a job is put into: a free slot no working order refers to.
LEMMA FreeSlot ==
    ASSUME NEW T, T \subseteq FreeSlots, T # {}
    PROVE  /\ Min(T) \in Slots /\ Min(T) \in T /\ Min(T) # 0
           /\ job[Min(T)].pc = "free"
           /\ \A o \in working : o.gen # Min(T)
<1>1. T \in SUBSET Nat /\ T \subseteq Slots /\ 0 \notin T
    BY MirrorAssumption DEF FreeSlots
<1>2. Min(T) \in T
    BY <1>1, MinOfNumbers
<1> QED
    BY <1>1, <1>2 DEF FreeSlots

(***************************************************************************)
(* Types, and what every job record satisfies on its own.                  *)
(***************************************************************************)

Early   == {"prompt", "connect", "cancel", "verify", "plan"}
Placing == {"place", "send"}
Over    == {"free", "ok", "failed"}
Stages  == Early \cup Placing \cup Over \cup {"report", "read"}

\* A job is late by one order at most, and only after it was revoked between
\* the check and the dispatch; it never dispatches an empty delta; and with a
\* latched halt it sizes nothing but exits.
Sound(r) ==
    /\ r.late <= 1
    /\ r.late = 1 => r.revoked /\ r.pc # "send"
    /\ ~r.revoked => r.late = 0
    /\ r.pc \in Placing => \A s \in r.todo : r.delta[s] # 0
    /\ r.halted /\ r.pc \in Early => \A s \in r.priced : r.goal[s] = 0
    /\ r.halted /\ r.pc \in Placing => \A s \in r.todo : r.goal[s] = 0

JobsSound == \A j \in Slots : Sound(job[j])

\* A tick under the latch has zeroed every symbol it will give a price for.
TickSound ==
    /\ loop = "mirror" /\ state.latched => \A s \in priced : state.book[s] = 0
    /\ \A o \in working : o.halted => o.goal = 0

\* The loop waits only for a thread it has.
Waiting == loop \in {"waitMirror", "waitRefresh"} => current # 0

TypeInv == TypeOK /\ JobsSound /\ TickSound /\ Waiting

\* What ended, and what an outcome is kept in, owns nothing.
LEMMA EndedJob ==
    ASSUME TypeInv, NEW j \in Slots, NEW outcome \in {"ok", "failed"}
    PROVE  /\ Unused \in Job /\ Sound(Unused) /\ Unused.pc = "free"
           /\ Unused.owner = "runtime"
           /\ Ended(j, outcome) \in Job /\ Sound(Ended(j, outcome))
           /\ Ended(j, outcome).pc \in Over /\ Ended(j, outcome).owner = "runtime"
           /\ Ended(j, outcome).todo = {}
<1>1. /\ Unused = [owner |-> "runtime", kind |-> "refresh", pc |-> "free", goal |-> Flat,
                   priced |-> {}, halted |-> FALSE, delta |-> Flat, todo |-> {},
                   revoked |-> FALSE, late |-> 0, errors |-> FALSE]
      /\ Flat \in Book /\ Flat \in [Syms -> Int]
    BY MirrorAssumption DEF Unused, NewJob, Flat, Book
<1>2. Unused \in Job /\ Sound(Unused)
    BY <1>1 DEF Job, Sound, Early, Placing
<1>3. job[j].errors \in BOOLEAN
    BY DEF TypeInv, TypeOK, Job
<1> DEFINE r == [Unused EXCEPT !.pc = outcome, !.errors = job[j].errors]
<1>4. /\ r \in Job
      /\ r.pc = outcome /\ r.owner = "runtime" /\ r.todo = {} /\ r.late = 0
      /\ ~r.revoked /\ ~r.halted
    <2>1. Unused \in Job
        BY <1>2
    <2>2. /\ Unused.owner = "runtime" /\ Unused.todo = {} /\ Unused.late = 0
          /\ ~Unused.revoked /\ ~Unused.halted
        BY <1>1
    <2> HIDE DEF Unused
    <2> QED
        BY <1>3, <2>1, <2>2 DEF Job
<1>5. Ended(j, outcome) = r \/ Ended(j, outcome) = Unused
    BY DEF Ended
<1> HIDE DEF r
<1>6. r \in Job /\ Sound(r) /\ r.pc = outcome /\ r.owner = "runtime" /\ r.todo = {}
    BY <1>4 DEF Sound, Early, Placing
<1>7. Unused.pc = "free" /\ Unused.owner = "runtime" /\ Unused.todo = {}
    BY <1>1
<1> QED
    BY <1>2, <1>5, <1>6, <1>7 DEF Over

\* A job starts unrevoked and with nothing to dispatch.
LEMMA FreshJob ==
    ASSUME NEW owner \in {"runtime", "cli"}, NEW kind \in {"mirror", "refresh"},
           NEW pc \in {"prompt", "connect"}, NEW goal \in Book, NEW names \in SUBSET Syms,
           NEW halted \in BOOLEAN, halted => \A s \in names : goal[s] = 0
    PROVE  /\ NewJob(owner, kind, pc, goal, names, halted) \in Job
           /\ Sound(NewJob(owner, kind, pc, goal, names, halted))
<1>1. Flat \in [Syms -> Int]
    BY DEF Flat
<1> QED
    BY <1>1 DEF NewJob, Job, Sound, Early, Placing

\* One slot changes, the others keep their job.
LEMMA PutJob ==
    ASSUME TypeInv, NEW j \in Slots, NEW r \in Job, Sound(r),
           job' = [job EXCEPT ![j] = r]
    PROVE  /\ job' \in [Slots -> Job] /\ JobsSound'
           /\ job'[j] = r /\ \A k \in Slots \ {j} : job'[k] = job[k]
<1>1. job \in [Slots -> Job] /\ \A k \in Slots : Sound(job[k])
    BY DEF TypeInv, TypeOK, JobsSound
<1>2. job' \in [Slots -> Job] /\ job'[j] = r /\ \A k \in Slots \ {j} : job'[k] = job[k]
    BY <1>1
<1>3. \A k \in Slots : Sound(job'[k])
    BY <1>1, <1>2
<1> QED
    BY <1>2, <1>3 DEF JobsSound

\* The moves of a job's program counter that keep it sound.
MayMove(r, to) ==
    /\ r.pc \in Stages \ Over /\ to \in Stages \ {"prompt", "free"}
    /\ to \in Early => r.pc \in Early
    /\ to \in Placing => r.pc \in Placing
    /\ to = "plan" => r.pc = "verify"
    /\ to = "report" => r.pc = "place"
    /\ to = "send" => ~r.revoked

LEMMA MovedJob ==
    ASSUME TypeInv, NEW j \in Slots, NEW to, MayMove(job[j], to)
    PROVE  /\ [job[j] EXCEPT !.pc = to] \in Job
           /\ Sound([job[j] EXCEPT !.pc = to])
<1>1. job[j] \in Job /\ Sound(job[j])
    BY DEF TypeInv, TypeOK, JobsSound
<1> QED
    BY <1>1 DEF Job, Sound, MayMove, Early, Placing, Over, Stages

\* One step of a job: a move, or its end.
LEMMA StepJob ==
    ASSUME TypeInv, NEW j \in Slots, NEW from, NEW to, Step(j, from, to),
           MayMove(job[j], to)
    PROVE  /\ job' \in [Slots -> Job] /\ JobsSound'
           /\ \A k \in Slots \ {j} : job'[k] = job[k]
           /\ \/ job'[j] = [job[j] EXCEPT !.pc = to]
              \/ job'[j].pc \in Over /\ job'[j].owner = "runtime"
<1>1. CASE to \in {"ok", "failed"}
    <2>1. job' = [job EXCEPT ![j] = Ended(j, to)]
        BY <1>1 DEF Step, TypeInv, TypeOK
    <2> QED
        BY ZenonT(60), <1>1, <2>1, EndedJob, PutJob
<1>2. CASE to \notin {"ok", "failed"}
    <2>1. job' = [job EXCEPT ![j] = [job[j] EXCEPT !.pc = to]]
        BY <1>2 DEF Step, TypeInv, TypeOK
    <2> QED
        BY <2>1, MovedJob, PutJob
<1> QED
    BY <1>1, <1>2

\* The bounds stay numbers.
LEMMA SpendType ==
    ASSUME TypeInv, NEW bound \in {"faults", "timeouts", "drops", "cli", "crashes", "trades"},
           NEW limit \in Nat, Spend(bound, limit)
    PROVE  spent' \in Bounds
BY DEF TypeInv, TypeOK, Bounds, Spend

\* A step of a job that changes its program counter and nothing else.
Advances(j) ==
    /\ \E to : /\ Step(j, job[j].pc, to) /\ MayMove(job[j], to)
               /\ to = "plan" => working = {}
    /\ UNCHANGED <<loop, state, disk, priced, current, cli, brokerVars>>
    /\ spent' \in Bounds /\ spent'.cli = spent.cli

\* Requests that fail, revocations, and the stages of connect, cancel,
\* verify, place and report are such steps; a sync plans only behind a
\* listing without orders.
LEMMA JobAdvances ==
    ASSUME TypeInv, NEW j \in Slots,
           \/ JobFails(j) \/ JobRevoked(j) \/ Connect(j) \/ Read(j) \/ RefuseForeign(j)
           \/ CancelledAll(j) \/ Verify(j) \/ CheckOrder(j) \/ Report(j)
    PROVE  Advances(j)
<1>1. /\ job[j].pc \in Stages /\ spent \in Bounds
      /\ MaxFaults \in Nat
    BY MirrorAssumption DEF TypeInv, TypeOK, Job, Stages, Early, Placing, Over
<1>2. CASE JobFails(j)
    <2>1. spent' \in Bounds /\ spent'.cli = spent.cli
        BY <1>1, <1>2, SpendType DEF JobFails, Spend, Bounds
    <2>2. MayMove(job[j], "failed")
        BY <1>1, <1>2 DEF JobFails, Alive, MayMove, Early, Placing, Over, Stages
    <2> QED
        BY <1>2, <2>1, <2>2 DEF JobFails, Advances
<1>3. CASE JobRevoked(j)
    <2> DEFINE to == "failed"
    <2>1. Step(j, job[j].pc, to) /\ UNCHANGED spent
        BY <1>3 DEF JobRevoked, Step
    <2>2. MayMove(job[j], to) /\ (to = "plan" => working = {})
        BY <1>1, <1>3 DEF JobRevoked, Step, MayMove, Early, Placing, Over, Stages
    <2> HIDE DEF to
    <2> QED
        BY <1>1, <1>3, <2>1, <2>2 DEF JobRevoked, Advances
<1>4. CASE Connect(j)
    <2> DEFINE to == IF job[j].kind = "mirror" THEN "cancel" ELSE "read"
    <2>1. Step(j, job[j].pc, to) /\ UNCHANGED spent
        BY <1>4 DEF Connect, Step
    <2>2. MayMove(job[j], to) /\ (to = "plan" => working = {})
        BY <1>1, <1>4 DEF Connect, Step, MayMove, Early, Placing, Over, Stages
    <2> HIDE DEF to
    <2> QED
        BY <1>1, <1>4, <2>1, <2>2 DEF Connect, Advances
<1>5. CASE Read(j)
    <2> DEFINE to == "ok"
    <2>1. Step(j, job[j].pc, to) /\ UNCHANGED spent
        BY <1>5 DEF Read, Step
    <2>2. MayMove(job[j], to) /\ (to = "plan" => working = {})
        BY <1>1, <1>5 DEF Read, Step, MayMove, Early, Placing, Over, Stages
    <2> HIDE DEF to
    <2> QED
        BY <1>1, <1>5, <2>1, <2>2 DEF Read, Advances
<1>6. CASE RefuseForeign(j)
    <2> DEFINE to == "failed"
    <2>1. Step(j, job[j].pc, to) /\ UNCHANGED spent
        BY <1>6 DEF RefuseForeign, Step
    <2>2. MayMove(job[j], to) /\ (to = "plan" => working = {})
        BY <1>1, <1>6 DEF RefuseForeign, Step, MayMove, Early, Placing, Over, Stages
    <2> HIDE DEF to
    <2> QED
        BY <1>1, <1>6, <2>1, <2>2 DEF RefuseForeign, Advances
<1>7. CASE CancelledAll(j)
    <2> DEFINE to == "verify"
    <2>1. Step(j, job[j].pc, to) /\ UNCHANGED spent
        BY <1>7 DEF CancelledAll, Step
    <2>2. MayMove(job[j], to) /\ (to = "plan" => working = {})
        BY <1>1, <1>7 DEF CancelledAll, Step, MayMove, Early, Placing, Over, Stages
    <2> HIDE DEF to
    <2> QED
        BY <1>1, <1>7, <2>1, <2>2 DEF CancelledAll, Advances
<1>8. CASE Verify(j)
    <2> DEFINE to == IF StillWorking(j) = {} THEN "plan" ELSE "failed"
    <2>1. Step(j, job[j].pc, to) /\ UNCHANGED spent
        BY <1>8 DEF Verify, Step
    <2>2. MayMove(job[j], to) /\ (to = "plan" => working = {})
        BY <1>1, <1>8 DEF Verify, Step, StillWorking, MayMove, Early, Placing, Over, Stages
    <2> HIDE DEF to
    <2> QED
        BY <1>1, <1>8, <2>1, <2>2 DEF Verify, Advances
<1>9. CASE CheckOrder(j)
    <2> DEFINE to == IF job[j].todo = {} THEN "report" ELSE "send"
    <2>1. Step(j, job[j].pc, to) /\ UNCHANGED spent
        BY <1>9 DEF CheckOrder, Step
    <2>2. MayMove(job[j], to) /\ (to = "plan" => working = {})
        BY <1>1, <1>9 DEF CheckOrder, Step, Revoked, MayMove, Early, Placing, Over, Stages
    <2> HIDE DEF to
    <2> QED
        BY <1>1, <1>9, <2>1, <2>2 DEF CheckOrder, Advances
<1>10. CASE Report(j)
    <2> DEFINE to == "ok"
    <2>1. Step(j, job[j].pc, to) /\ UNCHANGED spent
        BY <1>10 DEF Report, Step
    <2>2. MayMove(job[j], to) /\ (to = "plan" => working = {})
        BY <1>1, <1>10 DEF Report, Step, MayMove, Early, Placing, Over, Stages
    <2> HIDE DEF to
    <2> QED
        BY <1>1, <1>10, <2>1, <2>2 DEF Report, Advances
<1> QED
    BY <1>2, <1>3, <1>4, <1>5, <1>6, <1>7, <1>8, <1>9, <1>10

\* The same of the manual sync's confirmation.
LEMMA CliAdvances ==
    ASSUME TypeInv, CliConfirmed
    PROVE  cli \in Slots /\ Advances(cli)
<1>1. cli \in Slots /\ spent \in Bounds
    BY DEF CliConfirmed, TypeInv, TypeOK
<1> QED
    BY <1>1 DEF CliConfirmed, Advances, Step, MayMove, Early, Placing, Over, Stages

\* The steps of the fund, by what they do to the jobs.
LEMMA NextCases ==
    ASSUME TypeInv, Next
    PROVE  \/ TickSome \/ SkipBusy \/ Save \/ Restart \/ Bell
           \/ StartMirror \/ StartRefresh \/ CliLoads
           \/ MirrorEnds \/ RefreshEnds \/ Deadline \/ Crash
           \/ \E j \in Slots : \/ Advances(j) \/ Plan(j) \/ SkipOrder(j) \/ SendOrder(j)
                               \/ CancelOrder(j)
           \/ \E o \in working : Fill(o) \/ Cancelled(o) \/ Dropped(o)
<1>1. CASE \E j \in Slots : JobStep(j)
    BY <1>1, JobAdvances DEF JobStep
<1>2. CASE CliConfirmed
    BY <1>2, CliAdvances
<1> QED
    BY <1>1, <1>2 DEF Next, Loop

\* The first state: an account that matches its book, and no job.
LEMMA TypeInit ==
    Init => TypeInv
<1> SUFFICES ASSUME Init
             PROVE  TypeInv
    OBVIOUS
<1>1. Unused \in Job /\ Sound(Unused)
    <2>1. Flat \in Book /\ Flat \in [Syms -> Int]
        BY MirrorAssumption DEF Flat, Book
    <2> QED
        BY <2>1 DEF Unused, NewJob, Job, Sound, Early, Placing
<1>2. job \in [Slots -> Job] /\ \A j \in Slots : job[j] = Unused
    BY <1>1 DEF Init, Boot, Unspent
<1>3. state \in State /\ disk \in State /\ state.book \in Book /\ pos \in [Syms -> Int]
    <2>1. PICK book \in Book : state = [book |-> book, latched |-> FALSE, pending |-> FALSE]
        BY DEF Init, Boot, Unspent
    <2>2. state.book = book /\ book \in [Syms -> Int]
        BY <2>1, MirrorAssumption DEF Book
    <2> QED
        BY <2>1, <2>2 DEF Init, Boot, Unspent, State
<1>4. /\ spent \in Bounds /\ working = {} /\ loop = "idle" /\ priced = {}
      /\ current = 0 /\ cli = 0 /\ session \in BOOLEAN
    BY DEF Init, Boot, Unspent, Bounds
<1> QED
    BY <1>1, <1>2, <1>3, <1>4 DEF TypeInv, TypeOK, JobsSound, TickSound, Waiting

\* The loop and the account move, every job stays.
LEMMA JobsStay ==
    ASSUME TypeInv, UNCHANGED job
    PROVE  job' \in [Slots -> Job] /\ JobsSound'
BY DEF TypeInv, TypeOK, JobsSound

\* A tick zeroes what it prices under the latch.
LEMMA TickType ==
    ASSUME TypeInv, TickSome
    PROVE  TypeInv'
<1>1. PICK latched \in BOOLEAN, rebalanced \in BOOLEAN, wanted \in Book, names \in SUBSET Syms :
          Tick(latched, wanted, names, rebalanced)
    BY DEF TickSome
<1> DEFINE book == [s \in Syms |-> IF s \notin names THEN state.book[s]
                                   ELSE IF latched THEN 0 ELSE wanted[s]]
<1>2. book \in Book /\ \A s \in names : latched => book[s] = 0
    BY MirrorAssumption DEF TypeInv, TypeOK, State, Book
<1>3. /\ state' = [book |-> book, latched |-> latched,
                   pending |-> state.pending \/ book # state.book]
      /\ priced' = names /\ UNCHANGED <<disk, current, job, cli, brokerVars>>
      /\ loop' \in {"mirror", "refresh"}
    BY <1>1 DEF Tick
<1> HIDE DEF book
<1>4. (state.pending \/ book # state.book) \in BOOLEAN
    BY DEF TypeInv, TypeOK, State
<1>5. state' \in State /\ state'.book = book /\ state'.latched = latched
    BY <1>2, <1>3, <1>4 DEF State
<1>6. spent' \in Bounds
    BY <1>1, SpendType, MirrorAssumption DEF Tick, TypeInv, TypeOK
<1> QED
    BY <1>2, <1>3, <1>5, <1>6, JobsStay DEF TypeInv, TypeOK, TickSound, Waiting, brokerVars

\* A thread of the loop starts with the book of the tick.
LEMMA StartType ==
    ASSUME TypeInv, StartMirror \/ StartRefresh
    PROVE  /\ TypeInv'
           /\ \E j \in FreeSlots : \E r \in Job :
                 /\ job' = [job EXCEPT ![j] = r] /\ current' = j
                 /\ r.pc = "connect" /\ r.owner = "runtime" /\ r.todo = {}
           /\ ~Busy /\ UNCHANGED <<cli, brokerVars, spent>>
<1> DEFINE j == Min(FreeSlots)
<1>1. j \in Slots /\ j \in FreeSlots /\ job[j].pc = "free"
    BY FreeSlot DEF StartMirror, StartRefresh
<1>2. \E r \in Job : /\ job' = [job EXCEPT ![j] = r] /\ Sound(r)
                     /\ r.pc = "connect" /\ r.owner = "runtime" /\ r.todo = {}
    <2>1. CASE StartMirror
        <3> DEFINE r == NewJob("runtime", "mirror", "connect", state.book, priced,
                               state.latched)
        <3>1. state.book \in Book /\ priced \in SUBSET Syms /\ state.latched \in BOOLEAN
            BY DEF TypeInv, TypeOK, State
        <3>2. state.latched => \A s \in priced : state.book[s] = 0
            BY <2>1 DEF StartMirror, TypeInv, TickSound
        <3>3. r \in Job /\ Sound(r)
            BY <3>1, <3>2, FreshJob
        <3>4. r.pc = "connect" /\ r.owner = "runtime" /\ r.todo = {}
            BY DEF NewJob
        <3>5. job' = [job EXCEPT ![j] = r]
            BY <2>1 DEF StartMirror
        <3> QED
            BY <3>3, <3>4, <3>5
    <2>2. CASE StartRefresh
        <3> DEFINE r == NewJob("runtime", "refresh", "connect", Flat, {}, FALSE)
        <3>1. Flat \in Book
            BY MirrorAssumption DEF Flat, Book
        <3>2. r \in Job /\ Sound(r)
            BY <3>1, FreshJob
        <3>3. r.pc = "connect" /\ r.owner = "runtime" /\ r.todo = {}
            BY DEF NewJob
        <3>4. job' = [job EXCEPT ![j] = r]
            BY <2>2 DEF StartRefresh
        <3> QED
            BY <3>2, <3>3, <3>4
    <2> QED
        BY <2>1, <2>2
<1>3. /\ current' = j /\ ~Busy /\ UNCHANGED <<state, disk, priced, cli, brokerVars, spent>>
      /\ loop' \in {"waitMirror", "waitRefresh"}
    BY DEF StartMirror, StartRefresh
<1> HIDE DEF j
<1>4. job' \in [Slots -> Job] /\ JobsSound'
    BY <1>1, <1>2, PutJob
<1>5. TypeInv'
    BY <1>1, <1>3, <1>4, MirrorAssumption DEF TypeInv, TypeOK, TickSound, Waiting, brokerVars
<1> QED
    BY <1>1, <1>2, <1>3, <1>5

\* The manual sync starts with the book of state.json.
LEMMA CliLoadsType ==
    ASSUME TypeInv, CliLoads
    PROVE  /\ TypeInv'
           /\ \E j \in FreeSlots \ {current} : \E r \in Job :
                 /\ job' = [job EXCEPT ![j] = r] /\ cli' = j
                 /\ r.pc = "prompt" /\ r.owner = "cli" /\ r.todo = {}
           /\ ~CliRunning /\ spent.cli < MaxCli
           /\ UNCHANGED <<current, brokerVars>>
<1> DEFINE j == Min(FreeSlots \ {current})
           goal == IF disk.latched THEN Flat ELSE disk.book
           r == NewJob("cli", "mirror", "prompt", goal, Syms, disk.latched)
<1>1. j \in Slots /\ j \in FreeSlots \ {current} /\ job[j].pc = "free"
    <2>1. FreeSlots \ {current} \subseteq FreeSlots /\ FreeSlots \ {current} # {}
        BY DEF CliLoads
    <2> QED
        BY <2>1, FreeSlot
<1>2. goal \in Book /\ disk.latched \in BOOLEAN /\ (disk.latched => goal = Flat)
    BY MirrorAssumption DEF TypeInv, TypeOK, State, Flat, Book
<1>3. disk.latched => \A s \in Syms : goal[s] = 0
    BY <1>2 DEF Flat
<1>4. job' = [job EXCEPT ![j] = r] /\ cli' = j
    BY DEF CliLoads
<1> HIDE DEF j, goal
<1>5. r \in Job /\ Sound(r)
    BY <1>2, <1>3, FreshJob
<1>6. r.pc = "prompt" /\ r.owner = "cli" /\ r.todo = {}
    BY DEF NewJob
<1>7. /\ spent' \in Bounds /\ spent.cli < MaxCli /\ ~CliRunning
      /\ UNCHANGED <<loop, state, disk, priced, current, brokerVars>>
    BY SpendType, MirrorAssumption DEF CliLoads, Spend
<1> HIDE DEF r
<1>8. job' \in [Slots -> Job] /\ JobsSound'
    BY <1>1, <1>4, <1>5, PutJob
<1>9. TypeInv'
    BY <1>1, <1>4, <1>7, <1>8 DEF TypeInv, TypeOK, TickSound, Waiting, brokerVars
<1> QED
    BY <1>1, <1>4, <1>5, <1>6, <1>7, <1>9

\* The loop collects an outcome and forgets the thread.
LEMMA EndsType ==
    ASSUME TypeInv, MirrorEnds \/ RefreshEnds
    PROVE  /\ TypeInv'
           /\ job' = [job EXCEPT ![current] = Unused] /\ current' = 0
           /\ current \in Slots /\ ~Alive(current)
           /\ UNCHANGED <<cli, brokerVars, spent>>
<1>1. /\ current \in Slots /\ ~Alive(current)
      /\ job' = [job EXCEPT ![current] = Unused] /\ current' = 0
      /\ UNCHANGED <<disk, priced, cli, brokerVars, spent>>
      /\ loop' \in {"refresh", "save"}
    BY DEF MirrorEnds, RefreshEnds, TypeInv, TypeOK, Waiting
<1>2. job' \in [Slots -> Job] /\ JobsSound'
    BY <1>1, EndedJob, PutJob
<1>3. state' \in State
    <2>1. job[current].errors \in BOOLEAN
        BY <1>1 DEF TypeInv, TypeOK, Job
    <2> QED
        BY <2>1 DEF MirrorEnds, RefreshEnds, PendingAfter, State, TypeInv, TypeOK
<1> QED
    BY <1>1, <1>2, <1>3 DEF TypeInv, TypeOK, TickSound, Waiting, brokerVars

\* A deadline revokes the thread and leaves it running.
LEMMA DeadlineType ==
    ASSUME TypeInv, Deadline
    PROVE  /\ TypeInv'
           /\ current \in Slots
           /\ job' = [job EXCEPT ![current] = [job[current] EXCEPT !.revoked = TRUE]]
           /\ UNCHANGED <<current, cli, brokerVars>> /\ spent'.cli = spent.cli
<1> DEFINE r == [job[current] EXCEPT !.revoked = TRUE]
<1>1. current \in Slots /\ job[current] \in Job /\ Sound(job[current])
    BY DEF Deadline, TypeInv, TypeOK, Waiting, JobsSound
<1>2. r \in Job /\ Sound(r)
    BY <1>1 DEF Job, Sound
<1>3. job' = [job EXCEPT ![current] = r]
    BY <1>1 DEF Deadline, TypeInv, TypeOK
<1>4. /\ spent' \in Bounds /\ spent'.cli = spent.cli
      /\ UNCHANGED <<state, disk, priced, current, cli, brokerVars>>
      /\ loop' \in {"refresh", "save"}
    BY SpendType, MirrorAssumption DEF Deadline, Spend, TypeInv, TypeOK, Bounds
<1> HIDE DEF r
<1>5. job' \in [Slots -> Job] /\ JobsSound'
    BY <1>1, <1>2, <1>3, PutJob
<1>6. TypeInv'
    BY <1>4, <1>5 DEF TypeInv, TypeOK, TickSound, Waiting, brokerVars
<1> QED
    BY <1>1, <1>3, <1>4, <1>6 DEF r

\* A crash takes the runtime's jobs with it.
LEMMA CrashType ==
    ASSUME TypeInv, Crash
    PROVE  /\ TypeInv'
           /\ \A j \in Slots : job'[j] = IF job[j].owner = "runtime" THEN Unused ELSE job[j]
           /\ current' = 0 /\ UNCHANGED <<cli, brokerVars>> /\ spent'.cli = spent.cli
<1>1. /\ spent' \in Bounds /\ spent'.cli = spent.cli /\ loop' = "down" /\ current' = 0
      /\ UNCHANGED <<state, disk, priced, cli, brokerVars>>
    BY SpendType, MirrorAssumption DEF Crash, Spend, TypeInv, TypeOK, Bounds
<1>2. /\ job' \in [Slots -> Job]
      /\ \A j \in Slots : job'[j] = IF job[j].owner = "runtime" THEN Unused ELSE job[j]
    <2>1. \A j \in Slots : Unused \in Job /\ job[j] \in Job
        BY EndedJob DEF TypeInv, TypeOK
    <2> QED
        BY <2>1 DEF Crash
<1>3. JobsSound'
    <2>1. \A j \in Slots : Sound(Unused) /\ Sound(job[j])
        BY EndedJob DEF TypeInv, JobsSound
    <2> QED
        BY <1>2, <2>1 DEF JobsSound
<1> QED
    BY <1>1, <1>2, <1>3 DEF TypeInv, TypeOK, TickSound, Waiting, brokerVars

\* The steps of a job that only move its program counter.
LEMMA AdvancesType ==
    ASSUME TypeInv, NEW j \in Slots, Advances(j)
    PROVE  TypeInv'
<1>1. job' \in [Slots -> Job] /\ JobsSound'
    BY StepJob DEF Advances
<1> QED
    BY <1>1 DEF Advances, TypeInv, TypeOK, TickSound, Waiting, brokerVars

\* What plan_equity_mirror returns: an unpriced entry gets no order, so a
\* latched halt plans nothing but exits.
LEMMA PlanType ==
    ASSUME TypeInv, NEW j \in Slots, Plan(j)
    PROVE  /\ TypeInv'
           /\ \A k \in Slots \ {j} : job'[k] = job[k]
           /\ \/ /\ job'[j].pc \in Placing \cup {"report"} /\ job'[j].owner = job[j].owner
                 /\ \A s \in job'[j].todo :
                       /\ job'[j].delta[s] # 0
                       /\ pos[s] + job'[j].delta[s] = job'[j].goal[s]
              \/ job'[j].pc \in Over /\ job'[j].owner = "runtime"
<1> DEFINE delta == Delta(job[j].goal, pos, job[j].priced)
           todo  == ToTrade(delta)
           pc    == IF todo = {} THEN "report" ELSE "place"
           r     == [job[j] EXCEPT !.pc = pc, !.delta = delta, !.todo = todo, !.priced = {}]
<1>1. job[j] \in Job /\ Sound(job[j]) /\ pos \in [Syms -> Int]
    BY DEF TypeInv, TypeOK, JobsSound
<1>2. \A s \in Syms : job[j].goal[s] \in Int /\ pos[s] \in Int
    BY <1>1, MirrorAssumption DEF Job, Book
<1>3. /\ delta \in [Syms -> Int] /\ todo \subseteq Syms
      /\ \A s \in todo : /\ delta[s] # 0 /\ pos[s] + delta[s] = job[j].goal[s]
                         /\ job[j].goal[s] = 0 \/ s \in job[j].priced
    BY <1>2 DEF Delta, ToTrade
<1>4. \/ job' = [job EXCEPT ![j] = Ended(j, "failed")]
      \/ job' = [job EXCEPT ![j] = r]
    BY DEF Plan, TypeInv, TypeOK
<1>5. job[j].pc = "plan" /\ ~job[j].revoked
    BY DEF Plan, Revoked
<1>6. pc \in {"report", "place"}
    OBVIOUS
<1> HIDE DEF delta, todo, pc
<1>7. r \in Job /\ r.pc = pc /\ r.delta = delta /\ r.todo = todo /\ r.goal = job[j].goal
      /\ r.late = job[j].late /\ r.revoked = job[j].revoked /\ r.halted = job[j].halted
      /\ r.owner = job[j].owner
    BY <1>1, <1>3, <1>6 DEF Job
<1>8. Sound(r)
    BY <1>1, <1>3, <1>5, <1>6, <1>7 DEF Sound, Early, Placing
<1> HIDE DEF r
<1>9. /\ job' \in [Slots -> Job] /\ JobsSound'
      /\ \A k \in Slots \ {j} : job'[k] = job[k]
      /\ job'[j] = r \/ job'[j] = Ended(j, "failed")
    BY <1>4, <1>7, <1>8, EndedJob, PutJob
<1>10. TypeInv'
    BY <1>9 DEF Plan, TypeInv, TypeOK, TickSound, Waiting, brokerVars
<1>11. CASE job'[j] = r
    BY <1>3, <1>6, <1>7, <1>9, <1>10, <1>11 DEF Placing
<1>12. CASE job'[j] = Ended(j, "failed")
    BY <1>9, <1>10, <1>12, EndedJob
<1> QED
    BY <1>9, <1>11, <1>12

\* An order that cannot be qualified is skipped.
LEMMA SkipOrderType ==
    ASSUME TypeInv, NEW j \in Slots, SkipOrder(j)
    PROVE  /\ TypeInv'
           /\ \A k \in Slots \ {j} : job'[k] = job[k]
           /\ job[j].pc = "send" /\ job'[j].pc = "place"
           /\ job'[j].owner = job[j].owner /\ job'[j].todo \subseteq job[j].todo
           /\ job'[j].delta = job[j].delta /\ job'[j].goal = job[j].goal
           /\ UNCHANGED <<current, cli, brokerVars>> /\ spent'.cli = spent.cli
<1>1. PICK s \in job[j].todo :
          job' = [job EXCEPT ![j].pc = "place", ![j].todo = @ \ {s}, ![j].errors = TRUE]
    BY DEF SkipOrder
<1> DEFINE r == [job[j] EXCEPT !.pc = "place", !.todo = @ \ {s}, !.errors = TRUE]
<1>2. job[j] \in Job /\ Sound(job[j]) /\ job[j].pc = "send"
    BY DEF SkipOrder, TypeInv, TypeOK, JobsSound
<1>3. r \in Job /\ r.pc = "place" /\ r.todo = job[j].todo \ {s} /\ r.late = job[j].late
      /\ r.revoked = job[j].revoked /\ r.delta = job[j].delta /\ r.goal = job[j].goal
      /\ r.halted = job[j].halted /\ r.owner = job[j].owner
    BY <1>2 DEF Job
<1>4. job' = [job EXCEPT ![j] = r]
    BY <1>1, <1>2 DEF TypeInv, TypeOK
<1> HIDE DEF r
<1>5. Sound(r)
    BY <1>2, <1>3 DEF Sound, Early, Placing
<1>6. job' \in [Slots -> Job] /\ JobsSound' /\ job'[j] = r
      /\ \A k \in Slots \ {j} : job'[k] = job[k]
    BY <1>3, <1>4, <1>5, PutJob
<1>7. /\ spent' \in Bounds /\ spent'.cli = spent.cli
      /\ UNCHANGED <<loop, state, disk, priced, current, cli, brokerVars>>
    BY SpendType, MirrorAssumption DEF SkipOrder, Spend, TypeInv, TypeOK, Bounds
<1>8. TypeInv'
    BY <1>6, <1>7 DEF TypeInv, TypeOK, TickSound, Waiting, brokerVars
<1> QED
    BY <1>2, <1>3, <1>6, <1>7, <1>8

\* placeOrder: one order more works, with the delta and the goal of its job,
\* and only a revocation after the check makes it late.
LEMMA SendOrderType ==
    ASSUME TypeInv, NEW j \in Slots, SendOrder(j)
    PROVE  /\ TypeInv'
           /\ \A k \in Slots \ {j} : job'[k] = job[k]
           /\ job[j].pc = "send" /\ job'[j].pc = "place"
           /\ job'[j].owner = job[j].owner
           /\ job'[j].delta = job[j].delta /\ job'[j].goal = job[j].goal
           /\ \E s \in job[j].todo : \E o \in Order :
                 /\ job'[j].todo = job[j].todo \ {s}
                 /\ working' = working \cup {o}
                 /\ o.gen = j /\ o.owner = job[j].owner /\ o.sym = s
                 /\ o.qty = job[j].delta[s] /\ o.goal = job[j].goal[s]
           /\ UNCHANGED <<current, cli, pos, session, spent>>
<1>1. PICK s \in job[j].todo :
        /\ working' = working \cup {[gen |-> j, owner |-> job[j].owner, sym |-> s,
                                     qty |-> job[j].delta[s], goal |-> job[j].goal[s],
                                     halted |-> job[j].halted, cancelling |-> FALSE]}
        /\ job' = [job EXCEPT ![j].pc = "place", ![j].todo = @ \ {s},
                              ![j].late = IF job[j].revoked THEN @ + 1 ELSE @]
    BY DEF SendOrder
<1> DEFINE late == IF job[j].revoked THEN job[j].late + 1 ELSE job[j].late
           r == [job[j] EXCEPT !.pc = "place", !.todo = @ \ {s}, !.late = late]
           o == [gen |-> j, owner |-> job[j].owner, sym |-> s,
                 qty |-> job[j].delta[s], goal |-> job[j].goal[s],
                 halted |-> job[j].halted, cancelling |-> FALSE]
<1>2. job[j] \in Job /\ Sound(job[j]) /\ job[j].pc = "send"
    BY DEF SendOrder, TypeInv, TypeOK, JobsSound
<1>3. late \in Nat /\ late <= 1 /\ (late = 1 => job[j].revoked)
      /\ (~job[j].revoked => late = 0)
    BY <1>2 DEF Sound, Job
<1>4. job' = [job EXCEPT ![j] = r]
    BY <1>1, <1>2 DEF TypeInv, TypeOK
<1> HIDE DEF late
<1>5. r \in Job /\ r.pc = "place" /\ r.todo = job[j].todo \ {s} /\ r.late = late
      /\ r.revoked = job[j].revoked /\ r.delta = job[j].delta /\ r.goal = job[j].goal
      /\ r.halted = job[j].halted /\ r.owner = job[j].owner
    BY <1>2, <1>3 DEF Job
<1> HIDE DEF r
<1>6. Sound(r)
    BY <1>2, <1>3, <1>5 DEF Sound, Early, Placing
<1>7. job' \in [Slots -> Job] /\ JobsSound' /\ job'[j] = r
      /\ \A k \in Slots \ {j} : job'[k] = job[k]
    BY <1>4, <1>5, <1>6, PutJob
<1>8. /\ s \in Syms /\ job[j].delta[s] \in Int \ {0} /\ job[j].goal[s] \in Int
      /\ job[j].halted => job[j].goal[s] = 0
      /\ job[j].owner \in {"runtime", "cli"} /\ job[j].halted \in BOOLEAN
    BY <1>2, MirrorAssumption DEF Job, Book, Sound, Placing
<1>9. o \in Order /\ (o.halted => o.goal = 0)
    BY <1>8 DEF Order
<1>10. o.gen = j /\ o.owner = job[j].owner /\ o.sym = s
       /\ o.qty = job[j].delta[s] /\ o.goal = job[j].goal[s]
    OBVIOUS
<1>11. working' = working \cup {o}
    BY <1>1
<1> HIDE DEF o
<1>12. TypeInv'
    <2>1. working' \subseteq Order /\ \A p \in working' : p.halted => p.goal = 0
        BY <1>9, <1>11 DEF TypeInv, TypeOK, TickSound
    <2> QED
        BY <1>7, <2>1 DEF SendOrder, TypeInv, TypeOK, TickSound, Waiting
<1>13. UNCHANGED <<current, cli, pos, session, spent>>
    BY DEF SendOrder
<1> QED
    BY <1>2, <1>5, <1>7, <1>9, <1>10, <1>11, <1>12, <1>13

\* A working order's change of state, or its end, needs only its own type.
LEMMA OrdersType ==
    ASSUME TypeInv, job' \in [Slots -> Job], JobsSound', pos' \in [Syms -> Int],
           spent' \in Bounds, UNCHANGED <<loop, state, disk, priced, current, cli, session>>,
           \A o \in working' : \/ o \in working
                               \/ o \in Order /\ (o.halted => o.goal = 0)
    PROVE  TypeInv'
<1>1. working' \subseteq Order /\ \A o \in working' : o.halted => o.goal = 0
    BY DEF TypeInv, TypeOK, TickSound
<1> QED
    BY <1>1 DEF TypeInv, TypeOK, TickSound, Waiting

\* A cancellation is sent: the order is marked and nothing else.
LEMMA CancelOrderType ==
    ASSUME TypeInv, NEW j \in Slots, CancelOrder(j)
    PROVE  /\ TypeInv'
           /\ \E o \in working : \E p \in Order :
                 /\ working' = (working \ {o}) \cup {p}
                 /\ p.gen = o.gen /\ p.owner = o.owner /\ p.sym = o.sym /\ p.qty = o.qty
                 /\ p.goal = o.goal
           /\ UNCHANGED <<current, job, cli, pos, session, spent>>
<1>1. PICK o \in working : working' = (working \ {o}) \cup {[o EXCEPT !.cancelling = TRUE]}
    BY DEF CancelOrder
<1> DEFINE p == [o EXCEPT !.cancelling = TRUE]
<1>2. o \in Order /\ (o.halted => o.goal = 0)
    BY DEF TypeInv, TypeOK, TickSound
<1>3. /\ p \in Order /\ p.gen = o.gen /\ p.owner = o.owner /\ p.sym = o.sym
      /\ p.qty = o.qty /\ p.goal = o.goal /\ p.halted = o.halted
    BY <1>2 DEF Order
<1>4. /\ working' = (working \ {o}) \cup {p}
      /\ UNCHANGED <<loop, state, disk, priced, current, job, cli, pos, session, spent>>
    BY <1>1 DEF CancelOrder
<1> HIDE DEF p
<1>5. TypeInv'
    BY <1>2, <1>3, <1>4, JobsStay, OrdersType DEF TypeInv, TypeOK
<1> QED
    BY <1>3, <1>4, <1>5

\* A share of an order fills: the position and the rest of the order together
\* keep their sum.
LEMMA FillType ==
    ASSUME TypeInv, NEW o \in working, Fill(o)
    PROVE  /\ TypeInv'
           /\ o \in Order /\ pos' \in [Syms -> Int]
           /\ \A s \in Syms \ {o.sym} : pos'[s] = pos[s]
           /\ \/ /\ working' = working \ {o}
                 /\ pos'[o.sym] = pos[o.sym] + o.qty
              \/ \E p \in Order :
                    /\ working' = (working \ {o}) \cup {p}
                    /\ p.gen = o.gen /\ p.owner = o.owner /\ p.sym = o.sym
                    /\ p.goal = o.goal
                    /\ pos'[o.sym] + p.qty = pos[o.sym] + o.qty
           /\ UNCHANGED <<current, job, cli, session, spent>>
<1> DEFINE step == IF o.qty > 0 THEN 1 ELSE -1
           p == [o EXCEPT !.qty = @ - step]
<1>1. o \in Order /\ (o.halted => o.goal = 0) /\ pos \in [Syms -> Int]
    BY DEF TypeInv, TypeOK, TickSound
<1>2. o.qty \in Int /\ o.qty # 0 /\ o.sym \in Syms /\ step \in Int
    BY <1>1 DEF Order
<1>3. /\ pos' = [pos EXCEPT ![o.sym] = @ + step]
      /\ working' = (working \ {o}) \cup (IF o.qty = step THEN {} ELSE {p})
      /\ UNCHANGED <<loop, state, disk, priced, current, job, cli, session, spent>>
    BY DEF Fill
<1> HIDE DEF step
<1>4. /\ p.gen = o.gen /\ p.owner = o.owner /\ p.sym = o.sym /\ p.goal = o.goal
      /\ p.qty = o.qty - step /\ p.halted = o.halted
      /\ o.qty # step => p \in Order
    BY <1>1, <1>2 DEF Order
<1>5. /\ pos' \in [Syms -> Int] /\ pos'[o.sym] = pos[o.sym] + step
      /\ \A s \in Syms \ {o.sym} : pos'[s] = pos[s]
    BY <1>1, <1>2, <1>3
<1> HIDE DEF p
<1>6. \A q \in working' : q \in working \/ (q \in Order /\ (q.halted => q.goal = 0))
    BY <1>1, <1>3, <1>4
<1>7. TypeInv'
    BY <1>3, <1>5, <1>6, JobsStay, OrdersType DEF TypeInv, TypeOK
<1>8. pos[o.sym] \in Int
    BY <1>1, <1>2
<1>9. CASE o.qty = step
    BY <1>1, <1>3, <1>5, <1>7, <1>9
<1>10. CASE o.qty # step
    <2>1. working' = (working \ {o}) \cup {p} /\ p \in Order
        BY <1>3, <1>4, <1>10
    <2>2. pos'[o.sym] + p.qty = pos[o.sym] + o.qty
        BY <1>2, <1>4, <1>5, <1>8
    <2> QED
        BY <1>1, <1>3, <1>4, <1>5, <1>7, <2>1, <2>2
<1> QED
    BY <1>9, <1>10

\* An order leaves the book, cancelled or dropped.
LEMMA GoneType ==
    ASSUME TypeInv, NEW o \in working, Cancelled(o) \/ Dropped(o)
    PROVE  /\ TypeInv'
           /\ working' = working \ {o}
           /\ \A k \in Slots : \/ job'[k] = job[k]
                               \/ job'[k] = [job[k] EXCEPT !.errors = TRUE]
           /\ UNCHANGED <<current, cli, pos, session>> /\ spent'.cli = spent.cli
<1>1. o.gen \in Slots
    BY DEF TypeInv, TypeOK, Order
<1>2. CASE Cancelled(o)
    <2>1. /\ working' = working \ {o}
          /\ UNCHANGED <<loop, state, disk, priced, current, job, cli, pos, session, spent>>
        BY <1>2 DEF Cancelled
    <2> QED
        BY <2>1, JobsStay, OrdersType DEF TypeInv, TypeOK
<1>3. CASE Dropped(o)
    <2> DEFINE r == [job[o.gen] EXCEPT !.errors = TRUE]
    <2>1. /\ working' = working \ {o} /\ spent' \in Bounds /\ spent'.cli = spent.cli
          /\ UNCHANGED <<loop, state, disk, priced, current, cli, pos, session>>
        BY <1>3, SpendType, MirrorAssumption DEF Dropped, Spend, TypeInv, TypeOK, Bounds
    <2>2. job' = job \/ job' = [job EXCEPT ![o.gen] = r]
        BY <1>1, <1>3 DEF Dropped, TypeInv, TypeOK
    <2>3. r \in Job /\ Sound(r)
        <3>1. job[o.gen] \in Job /\ Sound(job[o.gen])
            BY <1>1 DEF TypeInv, TypeOK, JobsSound
        <3> QED
            BY ZenonT(60), <3>1 DEF Job, Sound
    <2> HIDE DEF r
    <2>4. job' \in [Slots -> Job] /\ JobsSound'
        BY <1>1, <2>2, <2>3, JobsStay, PutJob
    <2>5. \A k \in Slots : job'[k] = job[k] \/ (k = o.gen /\ job'[k] = r)
        BY <1>1, <2>2, <2>3, PutJob
    <2>6. TypeInv'
        BY <2>1, <2>4, OrdersType DEF TypeInv, TypeOK
    <2> QED
        BY <2>1, <2>5, <2>6 DEF r
<1> QED
    BY <1>2, <1>3

\* Steps of the loop and of the exchange that leave the jobs and orders alone.
LEMMA QuietType ==
    ASSUME TypeInv, TickSome \/ SkipBusy \/ Save \/ Restart \/ Bell
    PROVE  TypeInv' /\ UNCHANGED <<current, job, cli, pos, working>> /\ spent'.cli = spent.cli
<1>1. CASE TickSome
    <2>1. UNCHANGED <<current, job, cli, pos, working>> /\ spent'.cli = spent.cli
        BY <1>1 DEF TickSome, Tick, brokerVars, Spend, TypeInv, TypeOK, Bounds
    <2> QED
        BY <1>1, <2>1, TickType
<1>2. CASE SkipBusy
    BY <1>2, JobsStay DEF SkipBusy, TypeInv, TypeOK, TickSound, Waiting, brokerVars
<1>3. CASE Save
    BY <1>3, JobsStay DEF Save, TypeInv, TypeOK, TickSound, Waiting, brokerVars
<1>4. CASE Restart
    BY <1>4, JobsStay DEF Restart, TypeInv, TypeOK, TickSound, Waiting, brokerVars
<1>5. CASE Bell
    BY <1>5, JobsStay DEF Bell, TypeInv, TypeOK, TickSound, Waiting
<1> QED
    BY <1>1, <1>2, <1>3, <1>4, <1>5

LEMMA TypeStep ==
    TypeInv /\ [Next]_vars => TypeInv'
<1> SUFFICES ASSUME TypeInv, [Next]_vars
             PROVE  TypeInv'
    OBVIOUS
<1>1. CASE UNCHANGED vars
    BY <1>1 DEF vars, TypeInv, TypeOK, JobsSound, TickSound, Waiting
<1>2. CASE Next
    BY <1>2, NextCases, QuietType, StartType, CliLoadsType, EndsType, DeadlineType,
       CrashType, AdvancesType, PlanType, SkipOrderType, SendOrderType, CancelOrderType,
       FillType, GoneType
<1> QED
    BY <1>1, <1>2

\* The mirror's variables keep their types, whatever the bounds.
THEOREM TypeCorrect ==
    Spec => []TypeOK
<1>1. TypeInv => TypeOK
    BY DEF TypeInv
<1> QED
    BY <1>1, TypeInit, TypeStep, PTL DEF Spec

(***************************************************************************)
(* One thread, one late order, one generation per client.                  *)
(***************************************************************************)

\* The stages behind the verified cancellation.
Sized == {"plan", "place", "send", "report"}

\* A running job is the loop's thread or the manual sync.
Threads ==
    /\ \A j \in Slots : Alive(j) => \/ job[j].owner = "runtime" /\ j = current
                                    \/ job[j].owner = "cli" /\ j = cli
    /\ current # 0 => job[current].owner = "runtime"

\* Behind the verified cancellation a job's client has no orders but its own.
Generations ==
    /\ \A j \in Slots : job[j].pc \in Sized =>
           \A o \in working : o.owner = job[j].owner => o.gen = j
    /\ OneGenerationPerClient

SyncInv == TypeInv /\ Threads /\ Generations

\* What a move of a program counter leaves alone.
LEMMA AdvancesEffect ==
    ASSUME TypeInv, NEW j \in Slots, Advances(j)
    PROVE  /\ \A k \in Slots \ {j} : job'[k] = job[k]
           /\ \/ job'[j].pc \in Over /\ job'[j].owner = "runtime"
              \/ /\ job[j].pc \notin Over
                 /\ job'[j].owner = job[j].owner /\ job'[j].todo = job[j].todo
                 /\ job'[j].delta = job[j].delta /\ job'[j].goal = job[j].goal
                 /\ job'[j].pc \in Placing => job[j].pc \in Placing
                 /\ job'[j].pc \in Sized => job[j].pc \in Sized \/ working = {}
                 /\ job'[j].pc = "plan" => working = {}
           /\ UNCHANGED <<current, cli, pos, working, session>>
           /\ spent'.cli = spent.cli
<1>1. PICK to : /\ Step(j, job[j].pc, to) /\ MayMove(job[j], to)
                /\ to = "plan" => working = {}
    BY DEF Advances
<1>2. /\ \A k \in Slots \ {j} : job'[k] = job[k]
      /\ \/ job'[j] = [job[j] EXCEPT !.pc = to]
         \/ job'[j].pc \in Over /\ job'[j].owner = "runtime"
    BY <1>1, StepJob
<1>3. CASE job'[j] = [job[j] EXCEPT !.pc = to]
    <2>1. job[j] \in Job
        BY DEF TypeInv, TypeOK
    <2>2. /\ job'[j].pc = to /\ job'[j].owner = job[j].owner /\ job'[j].todo = job[j].todo
          /\ job'[j].delta = job[j].delta /\ job'[j].goal = job[j].goal
        BY <1>3, <2>1 DEF Job
    <2> QED
        BY <1>1, <1>2, <2>2 DEF MayMove, Advances, brokerVars, Early, Placing, Over, Stages, Sized
<1> QED
    BY <1>2, <1>3 DEF Advances, brokerVars

LEMMA SyncInit ==
    Init => SyncInv
<1> SUFFICES ASSUME Init
             PROVE  SyncInv
    OBVIOUS
<1>1. /\ working = {} /\ current = 0 /\ job \in [Slots -> Job]
      /\ \A j \in Slots : job[j] = Unused
    BY TypeInit DEF Init, Boot, Unspent, TypeInv, TypeOK
<1>2. Unused.pc = "free"
    BY DEF Unused, NewJob
<1> QED
    BY <1>1, <1>2, TypeInit DEF SyncInv, Threads, Generations, Alive, Sized, OneGenerationPerClient

\* A new job takes a free slot, next to no other job of its owner.
LEMMA SyncStart ==
    ASSUME SyncInv, NEW j \in FreeSlots, NEW r \in Job, job' = [job EXCEPT ![j] = r],
           r.pc \notin Sized, UNCHANGED working,
           \/ r.owner = "runtime" /\ current' = j /\ ~Busy /\ cli' = cli
           \/ r.owner = "cli" /\ cli' = j /\ ~CliRunning /\ j # current /\ current' = current
    PROVE  Threads' /\ Generations'
<1>1. job \in [Slots -> Job] /\ j \in Slots /\ job[j].pc = "free"
    BY DEF SyncInv, TypeInv, TypeOK, FreeSlots
<1>2. /\ job'[j] = r /\ \A k \in Slots \ {j} : job'[k] = job[k]
      /\ current \in Slots \cup {0} /\ cli \in Slots \cup {0}
      /\ current' \in Slots \cup {0}
    BY <1>1 DEF SyncInv, TypeInv, TypeOK
<1>3. Threads'
    <2>1. CASE r.owner = "runtime"
        BY <1>1, <1>2, <2>1, MirrorAssumption DEF SyncInv, Threads, Alive, Busy
    <2>2. CASE r.owner = "cli"
        BY <1>1, <1>2, <2>2, MirrorAssumption DEF SyncInv, Threads, Alive, CliRunning
    <2> QED
        BY <2>1, <2>2
<1>4. Generations'
    BY <1>1, <1>2 DEF SyncInv, Generations, OneGenerationPerClient
<1> QED
    BY <1>3, <1>4

LEMMA SyncStep ==
    SyncInv /\ [Next]_vars => SyncInv'
<1> SUFFICES ASSUME SyncInv, [Next]_vars
             PROVE  Threads' /\ Generations'
    BY TypeStep DEF SyncInv
<1> USE DEF SyncInv
<1>0. TypeInv /\ job \in [Slots -> Job] /\ current \in Slots \cup {0} /\ working \subseteq Order
    BY DEF TypeInv, TypeOK
<1>1. CASE UNCHANGED vars
    BY <1>1 DEF vars, Threads, Generations, OneGenerationPerClient, Alive
<1>2. CASE TickSome \/ SkipBusy \/ Save \/ Restart \/ Bell
    BY <1>2, QuietType DEF Threads, Generations, OneGenerationPerClient, Alive
<1>3. CASE StartMirror \/ StartRefresh
    BY <1>3, StartType, SyncStart DEF brokerVars, Sized
<1>4. CASE CliLoads
    BY <1>4, CliLoadsType, SyncStart DEF brokerVars, Sized
<1>5. CASE MirrorEnds \/ RefreshEnds
    <2>1. Unused.pc = "free"
        BY DEF Unused, NewJob
    <2>2. /\ job' = [job EXCEPT ![current] = Unused] /\ current' = 0 /\ current \in Slots
          /\ ~Alive(current) /\ cli' = cli /\ working' = working
        BY <1>5, EndsType DEF brokerVars
    <2>3. job'[current] = Unused /\ \A k \in Slots \ {current} : job'[k] = job[k]
        BY <1>0, <2>2
    <2> QED
        BY <2>1, <2>2, <2>3 DEF Threads, Generations, OneGenerationPerClient, Alive, Sized
<1>6. CASE Deadline
    <2> DEFINE r == [job[current] EXCEPT !.revoked = TRUE]
    <2>1. /\ job' = [job EXCEPT ![current] = r] /\ current \in Slots /\ current' = current
          /\ cli' = cli /\ working' = working
        BY <1>6, DeadlineType DEF brokerVars
    <2>2. r.pc = job[current].pc /\ r.owner = job[current].owner
        BY <1>0, <2>1 DEF Job
    <2> HIDE DEF r
    <2>3. job'[current] = r /\ \A k \in Slots \ {current} : job'[k] = job[k]
        BY <1>0, <2>1
    <2> QED
        BY <2>1, <2>2, <2>3 DEF Threads, Generations, OneGenerationPerClient, Alive
<1>7. CASE Crash
    <2>1. Unused.pc = "free"
        BY DEF Unused, NewJob
    <2>2. /\ \A j \in Slots : job'[j] = IF job[j].owner = "runtime" THEN Unused ELSE job[j]
          /\ current' = 0 /\ cli' = cli /\ working' = working
        BY <1>7, CrashType DEF brokerVars
    <2> HIDE DEF Unused
    <2> QED
        BY <2>1, <2>2 DEF Threads, Generations, OneGenerationPerClient, Alive, Sized
<1>8. ASSUME NEW j \in Slots, Advances(j)
      PROVE  Threads' /\ Generations'
    BY <1>0, <1>8, AdvancesEffect
       DEF Threads, Generations, OneGenerationPerClient, Alive, Sized, Over
<1>9. ASSUME NEW j \in Slots, Plan(j)
      PROVE  Threads' /\ Generations'
    <2>1. /\ job[j].pc = "plan" /\ UNCHANGED <<current, cli, working>>
        BY <1>9 DEF Plan, brokerVars
    <2> QED
        BY <1>0, <1>9, <2>1, PlanType
           DEF Threads, Generations, OneGenerationPerClient, Alive, Sized, Over, Placing
<1>10. ASSUME NEW j \in Slots, SkipOrder(j)
       PROVE  Threads' /\ Generations'
    BY <1>0, <1>10, SkipOrderType
       DEF Threads, Generations, OneGenerationPerClient, Alive, Sized, brokerVars
<1>11. ASSUME NEW j \in Slots, SendOrder(j)
       PROVE  Threads' /\ Generations'
    <2>1. PICK o \in Order : /\ working' = working \cup {o}
                             /\ o.gen = j /\ o.owner = job[j].owner
        BY <1>0, <1>11, SendOrderType
    <2>2. /\ \A k \in Slots \ {j} : job'[k] = job[k]
          /\ job[j].pc = "send" /\ job'[j].pc = "place" /\ job'[j].owner = job[j].owner
          /\ UNCHANGED <<current, cli>>
        BY <1>0, <1>11, SendOrderType
    <2>3. Threads'
        BY <1>0, <2>2 DEF Threads, Alive
    <2>4. \A p \in working : p.owner = job[j].owner => p.gen = j
        BY <2>2 DEF Generations, Sized
    <2>5. \A k \in Slots : job'[k].pc \in Sized /\ job'[k].owner = job[j].owner => k = j
        BY <2>2, <2>3 DEF Threads, Alive, Sized
    <2>6. Generations'
        BY <2>1, <2>2, <2>4, <2>5 DEF Generations, OneGenerationPerClient, Sized
    <2> QED
        BY <2>3, <2>6
<1>12. ASSUME NEW j \in Slots, CancelOrder(j)
       PROVE  Threads' /\ Generations'
    BY <1>0, <1>12, CancelOrderType DEF Threads, Generations, OneGenerationPerClient, Alive
<1>13. ASSUME NEW o \in working, Fill(o)
       PROVE  Threads' /\ Generations'
    BY <1>0, <1>13, FillType DEF Threads, Generations, OneGenerationPerClient, Alive
<1>14. ASSUME NEW o \in working, Cancelled(o) \/ Dropped(o)
       PROVE  Threads' /\ Generations'
    <2>1. \A k \in Slots : job'[k].pc = job[k].pc /\ job'[k].owner = job[k].owner
        <3>1. \A k \in Slots : job[k] \in Job
            BY <1>0
        <3>2. \A k \in Slots : \/ job'[k] = job[k]
                               \/ job'[k] = [job[k] EXCEPT !.errors = TRUE]
            BY <1>0, <1>14, GoneType
        <3> QED
            BY <3>1, <3>2 DEF Job
    <2>2. UNCHANGED <<current, cli>> /\ working' = working \ {o}
        BY <1>0, <1>14, GoneType
    <2>3. Threads'
        BY <1>0, <2>1, <2>2 DEF Threads, Alive
    <2>4. Generations'
        BY <1>0, <2>1, <2>2 DEF Generations, OneGenerationPerClient
    <2> QED
        BY <2>3, <2>4
<1> QED
    BY <1>1, <1>2, <1>3, <1>4, <1>5, <1>6, <1>7, <1>8, <1>9, <1>10, <1>11, <1>12, <1>13,
       <1>14, NextCases

\* Deadlines, revoked threads and crashes never leave the runtime with two
\* broker threads, nor a revoked thread with two late orders.
THEOREM JobsStayBoundedHolds ==
    Spec => []JobsStayBounded
<1>1. SyncInv => JobsStayBounded
    <2> SUFFICES ASSUME SyncInv
                 PROVE  OneBrokerThread /\ AtMostOneLateOrder
        BY DEF JobsStayBounded
    <2> DEFINE T == {j \in Slots : job[j].owner = "runtime" /\ Alive(j)}
    <2>1. T \subseteq {current}
        BY DEF SyncInv, Threads
    <2>2. IsFiniteSet({current}) /\ Cardinality({current}) = 1
        BY FS_Singleton
    <2>3. Cardinality(T) <= 1
        BY <2>1, <2>2, FS_Subset
    <2>4. AtMostOneLateOrder
        BY DEF SyncInv, TypeInv, JobsSound, Sound, AtMostOneLateOrder
    <2> QED
        BY <2>3, <2>4 DEF OneBrokerThread
<1> QED
    BY <1>1, SyncInit, SyncStep, PTL DEF Spec

\* With the manual sync next to the runtime, still no client has orders of two
\* syncs working.
THEOREM OneGenerationPerClientHolds ==
    Spec => []OneGenerationPerClient
<1>1. SyncInv => OneGenerationPerClient
    BY DEF SyncInv, Generations
<1> QED
    BY <1>1, SyncInit, SyncStep, PTL DEF Spec

(***************************************************************************)
(* The runtime alone: sizes and goals.                                     *)
(***************************************************************************)

\* Nobody runs ibkr_sync.py --execute.
Alone ==
    /\ spent.cli = 0 /\ cli = 0
    /\ \A j \in Slots : job[j].owner = "runtime"
    /\ \A o \in working : o.owner = "runtime"

\* A sync plans on an empty order book; what it has still to dispatch, and
\* what it dispatched, carries each symbol from its position to its goal.
Sizes ==
    /\ \A j \in Slots : job[j].pc = "plan" => working = {}
    /\ \A o, p \in working : o.sym = p.sym => o = p
    /\ WorkingEndsAtGoal
    /\ \A j \in Slots : job[j].pc \in Placing => \A s \in job[j].todo :
          /\ pos[s] + job[j].delta[s] = job[j].goal[s]
          /\ \A o \in working : o.sym # s

AloneInv == SyncInv /\ Alone /\ Sizes

LEMMA AloneInit ==
    Init => AloneInv
<1> SUFFICES ASSUME Init
             PROVE  AloneInv
    OBVIOUS
<1>1. /\ working = {} /\ cli = 0 /\ spent.cli = 0 /\ job \in [Slots -> Job]
      /\ \A j \in Slots : job[j] = Unused
    BY TypeInit DEF Init, Boot, Unspent, TypeInv, TypeOK
<1>2. Unused.pc = "free" /\ Unused.owner = "runtime"
    BY DEF Unused, NewJob
<1> QED
    BY <1>1, <1>2, SyncInit DEF AloneInv, Alone, Sizes, Placing, WorkingEndsAtGoal

\* A step that leaves the orders and positions alone, and gives no job
\* anything new to dispatch.
LEMMA AloneKept ==
    ASSUME AloneInv, SyncInv', UNCHANGED <<working, pos, cli>>, spent'.cli = spent.cli,
           \A j \in Slots :
              \/ job'[j].pc \in Over /\ job'[j].owner = "runtime"
              \/ job'[j].owner = "runtime" /\ job'[j].pc \notin Sized
              \/ /\ job'[j].owner = job[j].owner
                 /\ job'[j].pc = "plan" => job[j].pc = "plan" \/ working = {}
                 /\ job'[j].pc \in Placing =>
                       /\ job[j].pc \in Placing /\ job'[j].todo \subseteq job[j].todo
                       /\ job'[j].delta = job[j].delta /\ job'[j].goal = job[j].goal
    PROVE  AloneInv'
<1>1. Alone'
    BY DEF AloneInv, Alone
<1>2. Sizes'
    BY DEF AloneInv, Sizes, WorkingEndsAtGoal, Over, Placing, Sized
<1> QED
    BY <1>1, <1>2 DEF AloneInv

LEMMA AloneStep ==
    ASSUME MaxCli = 0
    PROVE  AloneInv /\ [Next]_vars => AloneInv'
<1> SUFFICES ASSUME AloneInv, [Next]_vars
             PROVE  AloneInv'
    OBVIOUS
<1>0. /\ SyncInv /\ SyncInv' /\ TypeInv
      /\ job \in [Slots -> Job] /\ current \in Slots \cup {0} /\ working \subseteq Order
      /\ pos \in [Syms -> Int] /\ job' \in [Slots -> Job]
    BY SyncStep DEF AloneInv, SyncInv, TypeInv, TypeOK
<1>a. /\ \A j \in Slots : job[j].owner = "runtime"
      /\ \A o \in working : o.owner = "runtime"
    BY DEF AloneInv, Alone
<1>b. Unused.pc = "free" /\ Unused.owner = "runtime"
    BY DEF Unused, NewJob
<1>1. CASE UNCHANGED vars
    BY <1>0, <1>1, AloneKept DEF vars
<1>2. CASE TickSome \/ SkipBusy \/ Save \/ Restart \/ Bell
    BY <1>0, <1>2, QuietType, AloneKept
<1>3. CASE StartMirror \/ StartRefresh
    <2>1. PICK j \in FreeSlots, r \in Job :
              /\ job' = [job EXCEPT ![j] = r] /\ r.pc = "connect" /\ r.owner = "runtime"
        BY <1>0, <1>3, StartType
    <2>2. \A k \in Slots : job'[k] = IF k = j THEN r ELSE job[k]
        BY <1>0, <2>1
    <2>3. UNCHANGED <<working, pos, cli, spent>>
        BY <1>0, <1>3, StartType DEF brokerVars
    <2> QED
        BY <1>0, <2>1, <2>2, <2>3, AloneKept DEF Sized
<1>4. CASE CliLoads
    <2>1. 0 < MaxCli
        BY <1>0, <1>4, CliLoadsType DEF AloneInv, Alone
    <2> QED
        BY <2>1
<1>5. CASE MirrorEnds \/ RefreshEnds
    <2>1. /\ job' = [job EXCEPT ![current] = Unused]
          /\ UNCHANGED <<cli, working, pos, spent>>
        BY <1>0, <1>5, EndsType DEF brokerVars
    <2>2. \A k \in Slots : job'[k] = IF k = current THEN Unused ELSE job[k]
        BY <1>0, <2>1
    <2> HIDE DEF Unused
    <2> QED
        BY <1>0, <1>b, <2>1, <2>2, AloneKept DEF Over
<1>6. CASE Deadline
    <2> DEFINE r == [job[current] EXCEPT !.revoked = TRUE]
    <2>1. /\ job' = [job EXCEPT ![current] = r] /\ current \in Slots
          /\ UNCHANGED <<cli, working, pos>> /\ spent'.cli = spent.cli
        BY <1>0, <1>6, DeadlineType DEF brokerVars
    <2>2. /\ r.pc = job[current].pc /\ r.owner = job[current].owner
          /\ r.todo = job[current].todo /\ r.delta = job[current].delta
          /\ r.goal = job[current].goal
        BY <1>0, <2>1 DEF Job
    <2> HIDE DEF r
    <2>3. \A k \in Slots : job'[k] = IF k = current THEN r ELSE job[k]
        BY <1>0, <2>1
    <2> QED
        BY <1>0, <2>1, <2>2, <2>3, AloneKept
<1>7. CASE Crash
    <2>1. \A j \in Slots : job'[j] = IF job[j].owner = "runtime" THEN Unused ELSE job[j]
        BY <1>0, <1>7, CrashType
    <2>2. UNCHANGED <<cli, working, pos>> /\ spent'.cli = spent.cli
        BY <1>0, <1>7, CrashType DEF brokerVars
    <2> HIDE DEF Unused
    <2> QED
        BY <1>0, <1>a, <1>b, <2>1, <2>2, AloneKept DEF Over
<1>8. ASSUME NEW j \in Slots, Advances(j)
      PROVE  AloneInv'
    <2>1. \A k \in Slots \ {j} : job'[k] = job[k]
        BY <1>0, <1>8, AdvancesEffect
    <2>2. \/ job'[j].pc \in Over /\ job'[j].owner = "runtime"
          \/ /\ job'[j].owner = job[j].owner /\ job'[j].todo = job[j].todo
             /\ job'[j].delta = job[j].delta /\ job'[j].goal = job[j].goal
             /\ job'[j].pc \in Placing => job[j].pc \in Placing
             /\ job'[j].pc = "plan" => working = {}
        BY <1>0, <1>8, AdvancesEffect
    <2>3. UNCHANGED <<cli, working, pos>> /\ spent'.cli = spent.cli
        BY <1>0, <1>8, AdvancesEffect
    <2> QED
        BY <1>0, <2>1, <2>2, <2>3, AloneKept
<1>9. ASSUME NEW j \in Slots, Plan(j)
      PROVE  AloneInv'
    <2>1. /\ job[j].pc = "plan" /\ working = {} /\ UNCHANGED <<cli, working, pos, spent>>
        BY <1>9 DEF Plan, brokerVars, AloneInv, Sizes
    <2>2. \A k \in Slots \ {j} : job'[k] = job[k]
        BY <1>0, <1>9, PlanType
    <2>3. \/ /\ job'[j].pc \in Placing \cup {"report"} /\ job'[j].owner = job[j].owner
             /\ \A s \in job'[j].todo : pos[s] + job'[j].delta[s] = job'[j].goal[s]
          \/ job'[j].pc \in Over /\ job'[j].owner = "runtime"
        BY <1>0, <1>9, PlanType
    <2>4. Alone'
        BY <2>1, <2>2, <2>3 DEF AloneInv, Alone
    <2>5. Sizes'
        BY <2>1, <2>2, <2>3 DEF AloneInv, Sizes, WorkingEndsAtGoal, Placing, Over
    <2> QED
        BY <1>0, <2>4, <2>5 DEF AloneInv
<1>10. ASSUME NEW j \in Slots, SkipOrder(j)
       PROVE  AloneInv'
    BY <1>0, <1>10, SkipOrderType, AloneKept DEF Placing, brokerVars
<1>11. ASSUME NEW j \in Slots, SendOrder(j)
       PROVE  AloneInv'
    <2>1. PICK s \in job[j].todo, o \in Order :
             /\ job'[j].todo = job[j].todo \ {s} /\ working' = working \cup {o}
             /\ o.owner = job[j].owner /\ o.sym = s
             /\ o.qty = job[j].delta[s] /\ o.goal = job[j].goal[s]
        BY <1>0, <1>11, SendOrderType
    <2>2. /\ \A k \in Slots \ {j} : job'[k] = job[k]
          /\ job[j].pc = "send" /\ job'[j].pc = "place" /\ job'[j].owner = job[j].owner
          /\ job'[j].delta = job[j].delta /\ job'[j].goal = job[j].goal
          /\ UNCHANGED <<current, cli, pos, spent>>
        BY <1>0, <1>11, SendOrderType
    <2>3. Alone'
        BY <2>1, <2>2 DEF AloneInv, Alone
    <2>4. \A k \in Slots \ {j} : job[k].pc \in {"free", "ok", "failed"}
        BY <1>0, <1>a, <2>2 DEF SyncInv, Threads, Alive
    <2>5. /\ pos[s] + job[j].delta[s] = job[j].goal[s] /\ \A p \in working : p.sym # s
        BY <2>1, <2>2 DEF AloneInv, Sizes, Placing
    <2>6. Sizes'
        BY <2>1, <2>2, <2>4, <2>5 DEF AloneInv, Sizes, WorkingEndsAtGoal, Placing
    <2> QED
        BY <1>0, <2>3, <2>6 DEF AloneInv
<1>12. ASSUME NEW j \in Slots, CancelOrder(j)
       PROVE  AloneInv'
    <2>1. PICK o \in working, p \in Order :
             /\ working' = (working \ {o}) \cup {p}
             /\ p.owner = o.owner /\ p.sym = o.sym /\ p.qty = o.qty /\ p.goal = o.goal
        BY <1>0, <1>12, CancelOrderType
    <2>2. UNCHANGED <<job, cli, pos, spent>>
        BY <1>0, <1>12, CancelOrderType
    <2>3. Alone'
        BY <2>1, <2>2 DEF AloneInv, Alone
    <2>4. Sizes'
        BY <2>1, <2>2 DEF AloneInv, Sizes, WorkingEndsAtGoal
    <2> QED
        BY <1>0, <2>3, <2>4 DEF AloneInv
<1>13. ASSUME NEW o \in working, Fill(o)
       PROVE  AloneInv'
    <2>1. /\ o \in Order /\ pos' \in [Syms -> Int]
          /\ \A s \in Syms \ {o.sym} : pos'[s] = pos[s]
          /\ UNCHANGED <<job, cli, spent>>
        BY <1>0, <1>13, FillType
    <2>2. \A p \in working \ {o} : p \in Order /\ p.sym \in Syms \ {o.sym}
        BY <1>0, <1>13 DEF AloneInv, Sizes, Order
    <2>3. \A j \in Slots : job[j].pc \in Placing =>
             \A s \in job[j].todo : s \in Syms \ {o.sym}
        BY <1>0, <1>13 DEF AloneInv, Sizes, Job
    <2>4. /\ pos[o.sym] + o.qty = o.goal /\ working # {}
        BY <1>13 DEF AloneInv, Sizes, WorkingEndsAtGoal
    <2>5. CASE working' = working \ {o}
        <3>1. Alone'
            BY <2>1, <2>5 DEF AloneInv, Alone
        <3>2. Sizes'
            BY <2>1, <2>2, <2>3, <2>4, <2>5 DEF AloneInv, Sizes, WorkingEndsAtGoal
        <3> QED
            BY <1>0, <3>1, <3>2 DEF AloneInv
    <2>6. ASSUME NEW p \in Order, working' = (working \ {o}) \cup {p},
                 p.owner = o.owner, p.sym = o.sym, p.goal = o.goal,
                 pos'[o.sym] + p.qty = pos[o.sym] + o.qty
          PROVE  AloneInv'
        <3>1. Alone'
            BY <2>1, <2>6 DEF AloneInv, Alone
        <3>2. WorkingEndsAtGoal'
            BY <2>1, <2>2, <2>4, <2>6 DEF AloneInv, Sizes, WorkingEndsAtGoal
        <3>3. Sizes'
            BY <2>1, <2>2, <2>3, <2>4, <2>6, <3>2 DEF AloneInv, Sizes
        <3> QED
            BY <1>0, <3>1, <3>3 DEF AloneInv
    <2> QED
        BY <1>0, <1>13, <2>5, <2>6, FillType
<1>14. ASSUME NEW o \in working, Cancelled(o) \/ Dropped(o)
       PROVE  AloneInv'
    <2>1. \A k \in Slots : /\ job'[k].pc = job[k].pc /\ job'[k].owner = job[k].owner
                           /\ job'[k].todo = job[k].todo /\ job'[k].goal = job[k].goal
                           /\ job'[k].delta = job[k].delta
        <3>1. \A k \in Slots : job[k] \in Job
            BY <1>0
        <3>2. \A k \in Slots : \/ job'[k] = job[k]
                               \/ job'[k] = [job[k] EXCEPT !.errors = TRUE]
            BY <1>0, <1>14, GoneType
        <3> QED
            BY ZenonT(60), <3>1, <3>2 DEF Job
    <2>2. UNCHANGED <<cli, pos>> /\ working' = working \ {o} /\ spent'.cli = spent.cli
        BY <1>0, <1>14, GoneType
    <2>3. Alone'
        BY <2>1, <2>2 DEF AloneInv, Alone
    <2>4. Sizes'
        BY <2>1, <2>2 DEF AloneInv, Sizes, WorkingEndsAtGoal
    <2> QED
        BY <1>0, <2>3, <2>4 DEF AloneInv
<1> QED
    BY <1>0, <1>1, <1>2, <1>3, <1>4, <1>5, <1>6, <1>7, <1>8, <1>9, <1>10, <1>11, <1>12,
       <1>13, <1>14, NextCases

\* Cancel, verify, then plan: the runtime alone has at most one generation of
\* orders working, over lost answers, deadlines, dropped orders and crashes.
THEOREM OneGenerationHolds ==
    ASSUME MaxCli = 0
    PROVE  Spec => []OneGeneration
<1>1. AloneInv => OneGeneration
    BY DEF AloneInv, Alone, SyncInv, Generations, OneGenerationPerClient, OneGeneration
<1> QED
    BY <1>1, AloneInit, AloneStep, PTL DEF Spec

\* Filling whatever works carries every position exactly to the target of its
\* generation, never past it.
THEOREM WorkingEndsAtGoalHolds ==
    ASSUME MaxCli = 0
    PROVE  Spec => []WorkingEndsAtGoal
<1>1. AloneInv => WorkingEndsAtGoal
    BY DEF AloneInv, Sizes
<1> QED
    BY <1>1, AloneInit, AloneStep, PTL DEF Spec

\* A sync that carries the latched halt dispatches exits of exactly the
\* position, and nothing else.
THEOREM HaltedOrdersOnlyReduceHolds ==
    ASSUME MaxCli = 0
    PROVE  Spec => []HaltedOrdersOnlyReduce
<1>1. AloneInv => HaltedOrdersOnlyReduce
    <2> SUFFICES ASSUME AloneInv, NEW o \in working, o.halted
                 PROVE  o.goal = 0 /\ o.qty = - pos[o.sym]
        BY DEF HaltedOrdersOnlyReduce
    <2>1. o.goal = 0 /\ pos[o.sym] + o.qty = o.goal
        BY DEF AloneInv, SyncInv, TypeInv, TickSound, Sizes, WorkingEndsAtGoal
    <2>2. o.qty \in Int /\ pos[o.sym] \in Int
        BY DEF AloneInv, SyncInv, TypeInv, TypeOK, Order
    <2> QED
        BY <2>1, <2>2
<1> QED
    BY <1>1, AloneInit, AloneStep, PTL DEF Spec
==============================================================================
