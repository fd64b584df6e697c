------------------------------ MODULE Director -------------------------------
(* The director's design session at the end of a research night: its daily   *)
(* budget in the registry, the ledger it reads, the queue it fills, the      *)
(* referee's budget beside it and the liveness probe over the ledger.        *)
(* research/director.py, research/nightly.py (main).                         *)
EXTENDS Integers, Sequences

CONSTANTS
    DirectorCap, RefereeCap, \* sessions a day (2, 3)
    Shown,                   \* ledger lines the director reads (25)
    StallDays,               \* days without an experiment that are a stall (3)
    Designs,                 \* specs taken of one answer (3)
    MaxPending,              \* bound: pending entries
    MaxDeadNights            \* bound: nights killed

DirectorBounds ==
    /\ {DirectorCap, RefereeCap, Shown, StallDays, Designs, MaxPending} \subseteq Nat \ {0}
    /\ MaxDeadNights \in Nat

VARIABLES
    stage,    \* where the night is
    budget,   \* registry.research_budget: is it of today, and the counts
    tail,     \* RESULTS.jsonl, its last Shown lines: row, torn, or cut (torn, no line end)
    torn,     \* whether some line of it, old or new, does not
    since,    \* days since an experiment was last recorded, up to StallDays
    pending,  \* pending entries of the queue
    designed, \* specs registered by this night and not yet queued
    sessions, \* history: director sessions answered since the budget was cleared
    deadNights

directorVars == <<stage, budget, tail, torn, since, pending, designed, sessions, deadNights>>

DirectorInit ==
    /\ stage = "idle" /\ budget = [today |-> FALSE, director |-> 0, referee |-> 0]
    /\ tail = <<"row">> /\ torn = FALSE /\ since = 0
    /\ pending = 1 /\ designed = 0 /\ sessions = 0 /\ deadNights = 0

LastLines(s) == IF Len(s) > Shown THEN SubSeq(s, Len(s) - Shown + 1, Len(s)) ELSE s
Readable == \A i \in DOMAIN tail : tail[i] = "row"

(* _budget_ok clears the counts of another day before it compares.           *)
Kept == budget
Cleared == IF budget.today THEN budget ELSE [today |-> TRUE, director |-> 0, referee |-> 0]

(* record appends a row; behind a line without its end it is glued to it.    *)
WithRow ==
    IF tail[Len(tail)] = "cut" THEN [tail EXCEPT ![Len(tail)] = "torn"] ELSE LastLines(Append(tail, "row"))

(* A night has a confirmation, which leaves the queue alone, or the first    *)
(* entry that may run, behind those it closes as rejected or duplicates      *)
(* without a row; a notable result goes to the referee.                      *)
Experiment ==
    /\ stage = "idle"
    /\ pending' \in {pending} \cup 0..(pending - 1)
    /\ tail' = WithRow /\ since' = 0
    /\ stage' \in {"referee", "director"}
    /\ UNCHANGED <<budget, torn, designed, sessions, deadNights>>

(* A night killed while it appends the row: its entry is still pending.      *)
RowTorn ==
    /\ stage = "idle" /\ deadNights < MaxDeadNights /\ deadNights' = deadNights + 1
    /\ pending' \in {pending} \cup 1..pending
    /\ tail' = [WithRow EXCEPT ![Len(WithRow)] = "cut"] /\ torn' = TRUE
    /\ UNCHANGED <<stage, budget, since, designed, sessions>>

(* No entry may run: those that were pending are closed without a row.       *)
QueueEmpty ==
    /\ stage = "idle" /\ pending' = 0 /\ stage' = "director"
    /\ UNCHANGED <<budget, tail, torn, since, designed, sessions, deadNights>>

(* run_referee on a notable result: its memo is charged when it comes.       *)
Referee ==
    /\ stage = "referee" /\ stage' = "director"
    /\ \E answered \in BOOLEAN :
         budget' = [Cleared EXCEPT !.referee = IF answered /\ @ < RefereeCap THEN @ + 1 ELSE @]
    /\ sessions' = IF budget.today THEN sessions ELSE 0
    /\ UNCHANGED <<tail, torn, since, pending, designed, deadNights>>

(* run_director: a spent budget skips; a context that cannot be read, or a   *)
(* request that fails, is an error that costs nothing.                       *)
MayAsk == Cleared.director < DirectorCap /\ Readable
AsksDirector ==
    /\ stage = "director" /\ budget' = Cleared
    /\ \/ MayAsk /\ sessions' = (IF budget.today THEN sessions ELSE 0) + 1 /\ stage' = "answered"
       \/ sessions' = (IF budget.today THEN sessions ELSE 0) /\ stage' = "idle"
    /\ UNCHANGED <<tail, torn, since, pending, designed, deadNights>>

Charges ==
    /\ stage = "answered" /\ stage' = "charged"
    /\ budget' = [budget EXCEPT !.director = @ + 1]
    /\ UNCHANGED <<tail, torn, since, pending, designed, sessions, deadNights>>

(* A refusal and a malformed answer design nothing; of a sound one the first *)
(* Designs specs are validated and the valid ones registered.                *)
DesignsSpecs ==
    /\ stage = "charged" /\ stage' = "designed"
    /\ designed' \in 0..Designs /\ pending + designed' <= MaxPending
    /\ UNCHANGED <<budget, tail, torn, since, pending, sessions, deadNights>>

Queues ==
    /\ stage = "designed" /\ stage' = "idle" /\ pending' = pending + designed /\ designed' = 0
    /\ UNCHANGED <<budget, tail, torn, since, sessions, deadNights>>

NightKilled ==
    /\ stage # "idle" /\ deadNights < MaxDeadNights /\ deadNights' = deadNights + 1
    /\ stage' = "idle" /\ designed' = 0
    /\ UNCHANGED <<budget, tail, torn, since, pending, sessions>>

(* Midnight, also in the middle of a night.                                  *)
NewDay ==
    /\ budget' = [budget EXCEPT !.today = FALSE]
    /\ since' = IF since < StallDays THEN since + 1 ELSE since
    /\ UNCHANGED <<stage, tail, torn, pending, designed, sessions, deadNights>>

HumanQueues ==
    /\ pending < MaxPending /\ pending' = pending + 1
    /\ UNCHANGED <<stage, budget, tail, torn, since, designed, sessions, deadNights>>

Night ==
    \/ Experiment \/ QueueEmpty \/ Referee \/ AsksDirector \/ Charges \/ DesignsSpecs \/ Queues

DirectorNext == Night \/ RowTorn \/ NightKilled \/ NewDay \/ HumanQueues

DirectorSpec == DirectorInit /\ [][DirectorNext]_directorVars

(* Days pass and the timer starts every night; the service answers when it   *)
(* is asked again and again, and again and again with a usable design.       *)
Answered == AsksDirector /\ stage' = "answered"
Usable == DesignsSpecs /\ designed' > 0
FairDirector ==
    /\ DirectorSpec /\ WF_directorVars(Night) /\ WF_directorVars(NewDay)
    /\ SF_directorVars(Answered) /\ SF_directorVars(Usable)

(* research_liveness: no rows are left of a ledger with a torn line.         *)
Stalled == ~torn /\ tail # <<>> /\ since >= StallDays /\ pending = 0

(* ------------------------------ properties ------------------------------- *)
DirectorTypeOK ==
    /\ stage \in {"idle", "referee", "director", "answered", "charged", "designed"}
    /\ budget.director \in 0..(DirectorCap + 1) /\ budget.referee \in 0..RefereeCap
    /\ Len(tail) <= Shown /\ since \in 0..StallDays /\ designed \in 0..Designs

(* Over midnights and killed nights the director answers no more often than  *)
(* its budget and one session for every night that was killed.               *)
SessionsAreCharged == sessions <= DirectorCap + deadNights

(* An empty queue is filled again, whatever was refused, failed or killed,   *)
(* unless a torn line keeps the director from its context.                   *)
QueueIsRefilled == pending = 0 ~> (pending > 0 \/ ~Readable)

(* A stall the probe reports does not last: the nights after it design and   *)
(* run again ("makes the stall a number").                                   *)
StallEnds == Stalled ~> ~Stalled
==============================================================================
