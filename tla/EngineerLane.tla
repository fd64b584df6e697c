---------------------------- MODULE EngineerLane -----------------------------
(* The engineer lane: a night of rounds that plan, write, sandbox, review    *)
(* and apply proposals to the working tree, and the human's script that may  *)
(* apply or reject one.  research/engineer.py, research/nightly.py,          *)
(* scripts/review_proposals.py.                                              *)
(*                                                                           *)
(* A file's contents are the number of the proposal that wrote them, 0 at    *)
(* the start.  What a model answers and how a test run ends are free.        *)
EXTENDS Integers, FiniteSets

CONSTANTS
    Files,        \* the files proposals may replace
    MaxProps,     \* bound: proposals ever written
    MaxPending,   \* max_pending_proposals
    MaxPerRound,  \* max_proposals_per_night
    Sessions,     \* engineer_sessions_per_day
    MaxRounds,    \* engineer_max_rounds
    BarrenCap,    \* engineer_barren_rounds
    DeadAfter,    \* _DEAD_AFTER_DAYS
    MaxKills,     \* bound: deaths of the night's process
    MaxHuman,     \* bound: applies and rejections by the script
    KillsInApply, \* whether a death may fall between the first write and the verdict,
                  \* or a copy of the rollback raise, which leaves the same behind
    Overlap       \* whether the script may act while a night runs

LaneBounds ==
    /\ {MaxProps, MaxPending, MaxPerRound, Sessions, MaxRounds, BarrenCap} \subseteq Nat \ {0}
    /\ {DeadAfter, MaxKills, MaxHuman} \subseteq Nat
    /\ {KillsInApply, Overlap} \subseteq BOOLEAN

VARIABLES
    tree,    \* the working tree: file -> proposal whose contents it holds
    prop,    \* the records under research/proposals
    lane,    \* the night: where it stands and what it counts
    job,     \* apply_proposal as the lane and the script run it
    charged, \* sessions charged to the day
    seen,    \* history: paid rounds of the day, rounds in a row that landed nothing
    left     \* bound: deaths and script runs that may still happen

laneVars == <<tree, prop, lane, job, charged, seen, left>>

Ids == 1..MaxProps
Hands == {"lane", "human"}
Idle == [at |-> "none", rec |-> 0, todo |-> {}, was |-> <<>>]
Absent == [status |-> "none", files |-> {}, box |-> "none", age |-> 0]
Off == [pc |-> "off", rounds |-> 0, barren |-> 0, applied |-> 0, stop |-> "none",
        specs |-> {}, rejected |-> FALSE, accepted |-> {}, won |-> {}, cur |-> 0, rec |-> Absent]

Record ==
    [status : {"none", "pending", "applied", "rejected", "retired"}, files : SUBSET Files,
     box : {"none", "green", "red"}, age : 0..(DeadAfter + 1)]

LaneInit ==
    /\ tree = [f \in Files |-> 0]
    /\ prop = [i \in Ids |-> Absent]
    /\ lane = Off
    /\ job = [h \in Hands |-> Idle]
    /\ charged = 0
    /\ seen = [calls |-> 0, fruitless |-> 0]
    /\ left = [kills |-> MaxKills, human |-> MaxHuman]

(* ------------------------------ the queue -------------------------------- *)
ActionableForEver(p) == p.status = "pending" /\ p.box # "red"
Actionable(p) == p.status = "pending" /\ p.box # "red" /\ p.age <= DeadAfter

PendingCount(ps) == Cardinality({i \in Ids : Actionable(ps[i])})

(* Of a closed record only its files and its status are asked for again.     *)
Closed(p, status) == [p EXCEPT !.status = status, !.box = "none", !.age = 0]

Retired ==
    [i \in Ids |-> IF prop[i].status = "pending" /\ ~Actionable(prop[i])
                   THEN Closed(prop[i], "retired") ELSE prop[i]]

NextProposal == 1 + Cardinality({i \in Ids : prop[i].status # "none"})

(* Saving a record overwrites everything but its age, which is the clock's.  *)
Save(i, rec) == prop' = [prop EXCEPT ![i] = [rec EXCEPT !.age = prop[i].age]]

(* ------------------------------ the night -------------------------------- *)
Apart == Overlap \/ job["human"].at = "none"

StopsWith(why) == lane' = [lane EXCEPT !.pc = "done", !.stop = why]

Start ==
    /\ lane.pc \in {"off", "done"} /\ Apart /\ lane' = [Off EXCEPT !.pc = "baseline"]
    /\ seen' = [seen EXCEPT !.fruitless = 0]
    /\ UNCHANGED <<tree, prop, job, charged, left>>

(* One pytest run in a copy before anything is paid for.                     *)
Baseline ==
    /\ lane.pc = "baseline"
    /\ lane' = [lane EXCEPT !.pc = "gate"] \/ StopsWith("baseline_red")
    /\ UNCHANGED <<tree, prop, job, charged, seen, left>>

(* run_engineer up to the planner's call: the session is charged before it.  *)
Gate ==
    /\ lane.pc = "gate" /\ prop' = Retired
    /\ CASE PendingCount(Retired) >= MaxPending -> StopsWith("blocked") /\ UNCHANGED <<charged, seen>>
         [] PendingCount(Retired) < MaxPending /\ charged >= Sessions ->
              StopsWith("budget") /\ UNCHANGED <<charged, seen>>
         [] OTHER ->
              \/ StopsWith("blocked") /\ UNCHANGED <<charged, seen>>
              \/ /\ charged' = charged + 1 /\ seen' = [seen EXCEPT !.calls = @ + 1]
                 /\ lane' = [lane EXCEPT !.pc = "plan", !.rounds = @ + 1, !.specs = {},
                                         !.rejected = FALSE, !.accepted = {}, !.won = {}]
    /\ UNCHANGED <<tree, job, left>>

(* A round that ended: the settle loop goes on, or says why it stops.        *)
Barren == lane.barren + 1
Continues(l) ==
    lane' = IF lane.rounds = MaxRounds THEN [l EXCEPT !.pc = "done", !.stop = "round_cap"]
                                       ELSE [l EXCEPT !.pc = "gate"]
RoundWithoutEarly ==
    IF Barren + 1 >= BarrenCap
    THEN lane' = [lane EXCEPT !.pc = "done", !.stop = "no_progress", !.barren = Barren]
    ELSE Continues([lane EXCEPT !.barren = Barren])
RoundWithout ==
    IF Barren >= BarrenCap
    THEN lane' = [lane EXCEPT !.pc = "done", !.stop = "no_progress", !.barren = Barren]
    ELSE Continues([lane EXCEPT !.barren = Barren])

(* The planner's call fails: no response blocks the night, a truncated or    *)
(* malformed one is a barren round.                                          *)
PlanFails ==
    /\ lane.pc = "plan"
    /\ \/ StopsWith("blocked") /\ UNCHANGED seen
       \/ RoundWithout /\ seen' = [seen EXCEPT !.fruitless = @ + 1]
    /\ UNCHANGED <<tree, prop, job, charged, left>>

(* A spec that names no file, or one an earlier spec of the plan claimed, is *)
(* rejected at intake: what is left claims its files alone.  The plan's      *)
(* order is the planner's to choose.                                         *)
Claimed(specs) == {} \notin specs /\ \A s, t \in specs : s = t \/ s \cap t = {}

Plan ==
    /\ lane.pc = "plan"
    /\ \E specs \in SUBSET SUBSET Files, rejected \in BOOLEAN :
         /\ Claimed(specs)
         /\ Cardinality(specs) + (IF rejected THEN 1 ELSE 0) <= MaxPerRound
         /\ lane' = [lane EXCEPT !.pc = "spec", !.specs = specs, !.rejected = rejected]
    /\ UNCHANGED <<tree, prop, job, charged, seen, left>>

(* The brief does not fit, the engineer's call fails, or it writes outside   *)
(* its spec or past the validation: rejected before it has a record.         *)
NextSpec(l) == lane' = [l EXCEPT !.pc = "spec", !.cur = 0, !.rec = Absent]

SpecFails ==
    /\ lane.pc = "spec"
    /\ \E s \in lane.specs : lane' = [lane EXCEPT !.specs = @ \ {s}, !.rejected = TRUE]
    /\ UNCHANGED <<tree, prop, job, charged, seen, left>>

WriteProposal ==
    /\ lane.pc = "spec" /\ NextProposal <= MaxProps
    /\ \E s \in lane.specs : \E fs \in (SUBSET s) \ {{}} :
         LET rec == [Absent EXCEPT !.status = "pending", !.files = fs]
         IN  /\ prop' = [prop EXCEPT ![NextProposal] = rec]
             /\ lane' = [lane EXCEPT !.pc = "sandbox", !.specs = @ \ {s}, !.cur = NextProposal, !.rec = rec]
    /\ UNCHANGED <<tree, job, charged, seen, left>>

(* pytest in a copy with the proposal over it; the verdict is saved from the *)
(* record in memory, and so is the review's.                                 *)
Sandbox ==
    /\ lane.pc = "sandbox"
    /\ \E box \in {"green", "red"} :
         LET rec == [lane.rec EXCEPT !.box = box]
         IN  Save(lane.cur, rec) /\ lane' = [lane EXCEPT !.pc = "review", !.rec = rec]
    /\ UNCHANGED <<tree, job, charged, seen, left>>

Review ==
    /\ lane.pc = "review"
    /\ Save(lane.cur, lane.rec)
    /\ \E verdict \in {"approve", "discard", "revise"} :
         LET l == [lane EXCEPT !.accepted = @ \cup {lane.cur}]
         IN  CASE verdict = "approve" /\ lane.rec.box = "green" -> lane' = [l EXCEPT !.pc = "apply"]
               [] verdict = "discard" -> lane' = [l EXCEPT !.pc = "discard"]
               [] OTHER -> NextSpec(l)
    /\ UNCHANGED <<tree, job, charged, seen, left>>

(* reject_proposal reads the record again and closes it if it is pending.    *)
RejectProposal(i) ==
    prop' = IF prop[i].status = "pending" THEN [prop EXCEPT ![i] = Closed(@, "rejected")] ELSE prop

Discard ==
    /\ lane.pc = "discard" /\ RejectProposal(lane.cur) /\ NextSpec(lane)
    /\ UNCHANGED <<tree, job, charged, seen, left>>

(* All specs are through: nothing at all stands the lane down.               *)
RoundEnds ==
    /\ lane.pc = "spec" /\ lane.specs = {}
    /\ seen' = [seen EXCEPT !.fruitless =
                   IF \E i \in lane.accepted : prop[i].status = "applied" THEN 0 ELSE @ + 1]
    /\ IF lane.accepted = {} /\ ~lane.rejected THEN StopsWith("stood_down")
       ELSE IF lane.won = {} THEN RoundWithout
       ELSE Continues([lane EXCEPT !.barren = 0, !.applied = @ + Cardinality(lane.won)])
    /\ UNCHANGED <<tree, prop, job, charged, left>>

(* ---------------------------- apply_proposal ----------------------------- *)
(* Only a pending proposal is applied; the record is read here and saved     *)
(* from memory at the end.                                                   *)
Apply(h, i) ==
    job' = IF prop[i].status = "pending"
           THEN [job EXCEPT ![h] = [at |-> "write", rec |-> i, todo |-> prop[i].files, was |-> <<>>]]
           ELSE job

LaneApplies ==
    /\ lane.pc = "apply" /\ Apply("lane", lane.cur)
    /\ lane' = [lane EXCEPT !.pc = "applying"]
    /\ UNCHANGED <<tree, prop, charged, seen, left>>

(* Each file is backed up and then replaced.                                 *)
BackedUp(was, f) == [g \in DOMAIN was \cup {f} |-> IF g = f THEN tree[f] ELSE was[g]]

WriteFile(h) ==
    /\ job[h].at = "write"
    /\ \E f \in job[h].todo :
         /\ job' = [job EXCEPT ![h].todo = @ \ {f}, ![h].was = BackedUp(@, f)]
         /\ tree' = [tree EXCEPT ![f] = job[h].rec]
    /\ UNCHANGED <<prop, lane, charged, seen, left>>

Green(h) ==
    /\ job[h].at = "write" /\ job[h].todo = {}
    /\ prop' = [prop EXCEPT ![job[h].rec] = Closed(@, "applied")]
    /\ job' = [job EXCEPT ![h] = Idle]
    /\ lane' = IF h = "lane" THEN [lane EXCEPT !.won = @ \cup {lane.cur}] ELSE lane
    /\ UNCHANGED <<tree, charged, seen, left>>

(* Red tests, a full disk among the writes, the timeout of the test run:     *)
(* every backup is put back and the proposal stays pending.                  *)
RollsBackUnwritten(h) ==
    /\ job[h].at = "write"
    /\ job' = [job EXCEPT ![h].at = "undo", ![h].todo = @ \cap DOMAIN job[h].was]
    /\ UNCHANGED <<tree, prop, lane, charged, seen, left>>
RollsBack(h) ==
    /\ job[h].at = "write"
    /\ job' = [job EXCEPT ![h].at = "undo", ![h].todo = DOMAIN job[h].was]
    /\ UNCHANGED <<tree, prop, lane, charged, seen, left>>

Undo(h) ==
    /\ job[h].at = "undo"
    /\ \/ /\ job[h].todo = {} /\ job' = [job EXCEPT ![h] = Idle]
          /\ Save(job[h].rec, [prop[job[h].rec] EXCEPT !.status = "pending"]) /\ UNCHANGED tree
       \/ \E f \in job[h].todo :
            /\ tree' = [tree EXCEPT ![f] = job[h].was[f]]
            /\ job' = [job EXCEPT ![h].todo = @ \ {f}] /\ UNCHANGED prop
    /\ UNCHANGED <<lane, charged, seen, left>>

(* _auto_apply reads the record back before it saves what git answered.      *)
ReadBack(i) == prop[i]

AutoApplied ==
    /\ lane.pc = "applying" /\ job["lane"].at = "none"
    /\ Save(lane.cur, ReadBack(lane.cur)) /\ NextSpec(lane)
    /\ UNCHANGED <<tree, job, charged, seen, left>>

(* ------------------------- the script and the world ---------------------- *)
ScriptMayAct == (Overlap \/ lane.pc \in {"off", "done"}) /\ left.human > 0 /\ job["human"].at = "none"

HumanApplies(i) ==
    /\ ScriptMayAct /\ prop[i].status = "pending" /\ Apply("human", i)
    /\ left' = [left EXCEPT !.human = @ - 1]
    /\ UNCHANGED <<tree, prop, lane, charged, seen>>

HumanRejects(i) ==
    /\ ScriptMayAct /\ prop[i].status = "pending" /\ RejectProposal(i)
    /\ left' = [left EXCEPT !.human = @ - 1]
    /\ UNCHANGED <<tree, lane, job, charged, seen>>

(* The night's process dies: the tree and the records stay as they are.  A   *)
(* copy of the rollback that raises again leaves apply_proposal and the lane *)
(* uncaught, so it leaves what a death in the midst of Undo leaves.          *)
Killed ==
    /\ lane.pc \notin {"off", "done"} /\ left.kills > 0
    /\ KillsInApply \/ job["lane"].at = "none"
    /\ lane' = Off /\ job' = [job EXCEPT !["lane"] = Idle]
    /\ left' = [left EXCEPT !.kills = @ - 1]
    /\ UNCHANGED <<tree, prop, charged, seen>>

(* A new day: the sessions are counted afresh and every open record is older.*)
NewDay ==
    /\ lane.pc \in {"off", "done"}
    /\ Apart
    /\ lane' = Off /\ charged' = 0 /\ seen' = [seen EXCEPT !.calls = 0]
    /\ prop' = [i \in Ids |-> IF prop[i].status = "pending" /\ prop[i].age <= DeadAfter
                              THEN [prop[i] EXCEPT !.age = @ + 1] ELSE prop[i]]
    /\ UNCHANGED <<tree, job, left>>

LaneNight ==
    \/ Start \/ Baseline \/ Gate \/ PlanFails \/ Plan \/ SpecFails \/ WriteProposal
    \/ Sandbox \/ Review \/ Discard \/ RoundEnds \/ LaneApplies \/ AutoApplied

ApplySteps(h) == WriteFile(h) \/ Green(h) \/ RollsBack(h) \/ Undo(h)

LaneNext ==
    \/ LaneNight \/ Killed \/ NewDay
    \/ \E h \in Hands : ApplySteps(h)
    \/ \E i \in Ids : HumanApplies(i) \/ HumanRejects(i)

LaneSpec == LaneInit /\ [][LaneNext]_laneVars

(* The night's process runs on, the test runs end, and days pass: the timer  *)
(* starts a new day however often a night is started again by hand.          *)
FairLane ==
    /\ LaneSpec /\ WF_laneVars(LaneNight) /\ SF_laneVars(NewDay)
    /\ \A h \in Hands : WF_laneVars(ApplySteps(h))

(* ------------------------------ properties ------------------------------- *)
LaneTypeOK ==
    /\ tree \in [Files -> 0..MaxProps] /\ prop \in [Ids -> Record]
    /\ \A h \in Hands : /\ job[h].at \in {"none", "write", "undo"} /\ job[h].rec \in 0..MaxProps
                        /\ job[h].todo \subseteq Files /\ DOMAIN job[h].was \subseteq Files
    /\ charged \in 0..Sessions /\ lane.cur \in 0..MaxProps /\ lane.barren \in 0..BarrenCap

(* The tree as it was before an apply that is still under way.               *)
Before(f) ==
    LET under == {h \in Hands : f \in DOMAIN job[h].was}
    IN  IF under = {} THEN tree[f] ELSE job[CHOOSE h \in under : TRUE].was[f]

Tree == INSTANCE AtomicTree WITH
    tree <- [f \in Files |-> Before(f)],
    wrote <- [i \in Ids |-> prop[i].files],
    landed <- {i \in Ids : prop[i].status = "applied"}

(* With one applier at a time that is not killed while it applies, the tree  *)
(* changes only by a proposal landing whole: red tests, a full disk or a     *)
(* timed-out suite put every file back (apply_proposal, E48b).               *)
LandsWhole == Tree!Spec

(* "a bad change cannot survive the night": with no apply under way, every   *)
(* file holds what was there first or the contents of an applied proposal.   *)
TreeIsLanded ==
    (\A h \in Hands : job[h].at = "none")
        => \A f \in Files : tree[f] = 0 \/ prop[tree[f]].status = "applied"

(* Unread work cannot pile up: what could still land stays below the cap     *)
(* plus one plan, over deaths between a proposal's steps (backpressure).     *)
QueueBounded ==
    Cardinality({i \in Ids : /\ prop[i].status = "pending" /\ prop[i].box # "red"
                              /\ prop[i].age <= DeadAfter}) < MaxPending + MaxPerRound

(* What nobody reviews cannot hold the lane shut for ever (E53).             *)
BlockedLaneReopens == []<>(PendingCount(prop) < MaxPending)

(* A proposal once closed (applied, rejected or retired) is never pending or *)
(* closed differently later (the records are saved from memory copies).      *)
ClosedStaysClosed ==
    [][\A i \in Ids : prop[i].status \in {"applied", "rejected", "retired"}
                        => prop'[i].status = prop[i].status]_laneVars

(* The planner is paid at most engineer_sessions_per_day times in a day,     *)
(* over failed rounds, deaths and nights started again.                      *)
PaidWithinBudget == seen.calls <= Sessions

(* The reason a night stops for is the one that holds: nothing proposed,     *)
(* barren rounds in a row, the day's sessions, the ceiling.                  *)
StopIsTruthful ==
    lane.pc = "done" =>
        /\ lane.stop = "stood_down" => lane.accepted = {} /\ lane.specs = {}
        /\ lane.stop = "no_progress" => seen.fruitless >= BarrenCap
        /\ lane.stop = "budget" => seen.calls = Sessions
        /\ lane.stop = "round_cap" => lane.rounds = MaxRounds

(* Two proposals of one plan never replace each other's file (the claim).    *)
RoundKeepsItsOwn ==
    \A i, j \in lane.accepted : i # j => prop[i].files \cap prop[j].files = {}

(* The tree and the records: whole proposals land, closed ones stay closed.  *)
ProposalsLandWhole == LandsWhole /\ ClosedStaysClosed

(* The night's books, over failed rounds, deaths and nights started again.   *)
NightIsAccounted == PaidWithinBudget /\ StopIsTruthful /\ QueueBounded /\ RoundKeepsItsOwn
==============================================================================
