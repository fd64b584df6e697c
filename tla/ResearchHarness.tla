--------------------------- MODULE ResearchHarness ---------------------------
(***************************************************************************)
(* The research judge (research/harness.py) and its nightly run            *)
(* (research/nightly.py).                                                  *)
(*                                                                         *)
(* Three files hold its memory: registry.json (families, trial counts, the *)
(* hashes of answered specs), RESULTS.jsonl (one row per run) and          *)
(* hypotheses.yaml (the queue, which humans edit).  A night loads the      *)
(* queue, fires a pending lockbox confirmation or else runs the first      *)
(* queue entry that may run, records it in the registry, then in the       *)
(* ledger, then marks it in the queue, and lets the director append.  The  *)
(* process may die between any two writes.                                 *)
(*                                                                         *)
(* A spec stands for its hash (type, params, family).  What an experiment  *)
(* finds is an input; a weak result passes only while its family has few   *)
(* trials (the within-family Bonferroni bar).  Registering a spec, the     *)
(* referee, the engineer lane and the digest do not touch this state.      *)
(***************************************************************************)
EXTENDS Integers, Sequences, FiniteSets

CONSTANTS
    Specs, Families, FamilyOf,
    None,          \* no pre-registration hash
    Queue0,        \* the specs in hypotheses.yaml at first
    WeakTrials,    \* trials up to which a weak result clears the family bar
    MaxQueue,      \* bound: length of the queue the director may reach
    MaxErrors,     \* bound: experiments that raise
    MaxCrashes,    \* bound: deaths of the nightly process
    MaxEdits       \* bound: edits of hypotheses.yaml by a human

ASSUME HarnessAssumption ==
    /\ FamilyOf \in [Specs -> Families]
    /\ None \notin Specs
    /\ Queue0 \in Seq(Specs)
    /\ {WeakTrials, MaxQueue, MaxErrors, MaxCrashes, MaxEdits} \subseteq Nat

VARIABLES
    families,      \* registry: trials, status, shots used, candidate
    answered,      \* registry: discovery_hashes, 0 for none
    total,         \* registry: total_experiments
    rows,          \* RESULTS.jsonl
    queue,         \* hypotheses.yaml
    mem,           \* the queue as this night loaded it
    stage,         \* where the night is
    at,            \* the entry it works on
    entry,         \* the row it is about to append
    spent          \* the bounds used up

vars == <<families, answered, total, rows, queue, mem, stage, at, entry, spent>>
registry == <<families, answered, total>>

Family == [trials : Nat, status : {"open", "candidate", "confirmed", "burned"},
           used : Nat, candidate : Specs \cup {None}]
Row    == [id : Nat \ {0}, phase : {"discovery", "confirmation"}, spec : Specs,
           verdict : {"PASS", "FAIL", "ERROR", "CONFIRMED", "BURNED"}, trials : Nat]
Entry  == [spec : Specs, prereg : Specs \cup {None},
           status : {"pending", "done", "rejected"}, result : Nat]
NoRow  == [id |-> 0]

TypeOK ==
    /\ families \in [Families -> Family]
    /\ answered \in [Specs -> Nat]
    /\ total \in Nat
    /\ rows \in Seq(Row)
    /\ queue \in Seq(Entry) /\ mem \in Seq(Entry)
    /\ stage \in {"idle", "confirm", "scan", "run", "append", "mark", "director"}
    /\ at \in Nat
    /\ entry \in Row \cup {NoRow}
    /\ spent \in [errors : Nat, crashes : Nat, edits : Nat]

Pending(s, prereg) == [spec |-> s, prereg |-> prereg, status |-> "pending", result |-> 0]

Init ==
    /\ families = [f \in Families |->
                      [trials |-> 0, status |-> "open", used |-> 0, candidate |-> None]]
    /\ answered = [s \in Specs |-> 0]
    /\ total = 0
    /\ rows = <<>>
    /\ queue = [i \in DOMAIN Queue0 |-> Pending(Queue0[i], None)]
    /\ mem = <<>>
    /\ stage = "idle" /\ at = 0
    /\ entry = NoRow
    /\ spent = [errors |-> 0, crashes |-> 0, edits |-> 0]

Spend(bound, limit) ==
    /\ spent[bound] < limit
    /\ spent' = [spent EXCEPT ![bound] = @ + 1]

(***************************************************************************)
(* The judge.                                                              *)
(***************************************************************************)

\* Operators named Defect... are plausible defects of the definition that
\* follows them; the specification does not use them.
DefectFamilyAlwaysOpen(s) == TRUE

\* validate_spec: a closed family takes no trials.
FamilyOpen(s) == families[FamilyOf[s]].status \notin {"burned", "confirmed"}

\* validate_spec: a pre-registered entry must still be that experiment.
Unaltered(e) == e.prereg \in {None, e.spec}

DefectAnswerFromLedger(s) ==
    IF \E i \in DOMAIN rows : /\ rows[i].spec = s /\ rows[i].phase = "discovery"
                              /\ rows[i].verdict # "ERROR"
    THEN answered[s] ELSE 0

\* already_run_discovery: the id of the answer, 0 if there is none.  A row
\* that is missing from the ledger still counts as an answer.
Answer(s) ==
    IF \E i \in DOMAIN rows : rows[i].id = answered[s] /\ rows[i].verdict = "ERROR"
    THEN 0 ELSE answered[s]

DefectDuplicateFirst(e) ==
    IF Answer(e.spec) # 0 THEN "skip"
    ELSE IF ~(FamilyOpen(e.spec) /\ Unaltered(e)) THEN "reject" ELSE "run"

\* run_one_from_queue: validation comes before the duplicate check.
Disposition(e) ==
    IF ~(FamilyOpen(e.spec) /\ Unaltered(e)) THEN "reject"
    ELSE IF Answer(e.spec) # 0 THEN "skip" ELSE "run"

\* pending_confirmation.
HasShot(f) == families[f].status = "candidate" /\ families[f].used = 0

DefectErrorIsFree(f, result) ==
    IF result = "error" THEN families[f].trials ELSE families[f].trials + 1

\* record: a discovery counts as a trial whatever its result.
TrialsAfter(f, result) == families[f].trials + 1

\* verdict_of: the global bar and the family's.
Passes(result, trials) == result = "strong" \/ (result = "weak" /\ trials <= WeakTrials)

Verdict(result, trials) ==
    IF result = "error" THEN "ERROR" ELSE IF Passes(result, trials) THEN "PASS" ELSE "FAIL"

NextId == total + 1

\* An experiment that raises is bounded.
MayRaise(raises) ==
    IF raises THEN Spend("errors", MaxErrors) ELSE UNCHANGED spent

(***************************************************************************)
(* The night.                                                              *)
(***************************************************************************)

\* main: a pending confirmation has absolute priority over the queue.
StartNight ==
    /\ stage = "idle"
    /\ mem' = queue
    /\ IF \E f \in Families : HasShot(f)
       THEN stage' = "confirm" /\ at' = 0
       ELSE stage' = "scan" /\ at' = 1
    /\ UNCHANGED <<registry, rows, queue, entry, spent>>

\* run_confirmation up to save_registry: the lockbox is read and the family
\* closed; an error spends nothing.
Confirm(f, result) ==
    /\ stage = "confirm"
    /\ HasShot(f)
    /\ MayRaise(result = "ERROR")
    /\ total' = NextId
    /\ families' = IF result = "ERROR" THEN families
                   ELSE [families EXCEPT ![f].used = @ + 1,
                            ![f].status = IF result = "CONFIRMED" THEN "confirmed" ELSE "burned"]
    /\ entry' = [id |-> NextId, phase |-> "confirmation", spec |-> families[f].candidate,
                 verdict |-> result, trials |-> families[f].trials]
    /\ stage' = "append"
    /\ UNCHANGED <<answered, rows, queue, mem, at>>

\* run_one_from_queue: pass over an entry, marking it in the file when it is
\* rejected or already answered.
PassOver ==
    /\ stage = "scan" /\ at \in DOMAIN mem
    /\ mem[at].status # "pending"
    /\ at' = at + 1
    /\ UNCHANGED <<registry, rows, queue, mem, stage, entry, spent>>

Reject ==
    /\ stage = "scan" /\ at \in DOMAIN mem
    /\ mem[at].status = "pending" /\ Disposition(mem[at]) = "reject"
    /\ mem' = [mem EXCEPT ![at].status = "rejected"]
    /\ queue' = mem'
    /\ at' = at + 1
    /\ UNCHANGED <<registry, rows, stage, entry, spent>>

DefectSkipUnsaved ==
    /\ stage = "scan" /\ at \in DOMAIN mem
    /\ mem[at].status = "pending" /\ Disposition(mem[at]) = "skip"
    /\ mem' = [mem EXCEPT ![at].status = "done", ![at].result = Answer(mem[at].spec)]
    /\ at' = at + 1
    /\ UNCHANGED <<registry, rows, queue, stage, entry, spent>>

SkipDuplicate ==
    /\ stage = "scan" /\ at \in DOMAIN mem
    /\ mem[at].status = "pending" /\ Disposition(mem[at]) = "skip"
    /\ mem' = [mem EXCEPT ![at].status = "done", ![at].result = Answer(mem[at].spec)]
    /\ queue' = mem'
    /\ at' = at + 1
    /\ UNCHANGED <<registry, rows, stage, entry, spent>>

Choose ==
    /\ stage = "scan" /\ at \in DOMAIN mem
    /\ mem[at].status = "pending" /\ Disposition(mem[at]) = "run"
    /\ stage' = "run"
    /\ UNCHANGED <<registry, rows, queue, mem, at, entry, spent>>

Exhausted ==
    /\ stage = "scan" /\ at \notin DOMAIN mem
    /\ stage' = "director"
    /\ UNCHANGED <<registry, rows, queue, mem, at, entry, spent>>

\* execute_spec, then record up to save_registry.
Discover(result) ==
    /\ stage = "run"
    /\ MayRaise(result = "error")
    /\ LET s       == mem[at].spec
           f       == FamilyOf[s]
           trials  == TrialsAfter(f, result)
           verdict == Verdict(result, trials)
           wins    == verdict = "PASS" /\ families[f].status = "open"
       IN  /\ total' = NextId
           /\ families' = [families EXCEPT ![f].trials = trials,
                              ![f].status = IF wins THEN "candidate" ELSE @,
                              ![f].candidate = IF wins THEN s ELSE @]
           /\ answered' = IF verdict = "ERROR" THEN answered
                          ELSE [answered EXCEPT ![s] = NextId]
           /\ entry' = [id |-> NextId, phase |-> "discovery", spec |-> s,
                        verdict |-> verdict, trials |-> trials]
    /\ stage' = "append"
    /\ UNCHANGED <<rows, queue, mem, at>>

\* record: the ledger row follows the registry.
AppendRow ==
    /\ stage = "append"
    /\ rows' = Append(rows, entry)
    /\ stage' = IF entry.phase = "discovery" THEN "mark" ELSE "director"
    /\ UNCHANGED <<registry, queue, mem, at, entry, spent>>

\* save_queue writes the queue this night loaded, with its result.
MarkDone ==
    /\ stage = "mark"
    /\ mem' = [mem EXCEPT ![at].status = "done", ![at].result = entry.id]
    /\ queue' = mem'
    /\ stage' = "director"
    /\ UNCHANGED <<registry, rows, at, entry, spent>>

\* run_director: it may append a spec of an open family, pre-registered, to
\* the queue as it is then.
Director ==
    /\ stage = "director"
    /\ \/ UNCHANGED queue
       \/ /\ Len(queue) < MaxQueue
          /\ \E s \in Specs : FamilyOpen(s) /\ queue' = Append(queue, Pending(s, s))
    /\ stage' = "idle"
    /\ mem' = <<>> /\ at' = 0 /\ entry' = NoRow
    /\ UNCHANGED <<registry, rows, spent>>

Crash ==
    /\ stage # "idle"
    /\ Spend("crashes", MaxCrashes)
    /\ stage' = "idle"
    /\ mem' = <<>> /\ at' = 0 /\ entry' = NoRow
    /\ UNCHANGED <<registry, rows, queue>>

(***************************************************************************)
(* A human edits hypotheses.yaml.                                          *)
(***************************************************************************)
ResetEntry(i) ==
    /\ queue[i].status # "pending"
    /\ Spend("edits", MaxEdits)
    /\ queue' = [queue EXCEPT ![i].status = "pending"]
    /\ UNCHANGED <<registry, rows, mem, stage, at, entry>>

\* Params altered or lost; the pre-registration hash stays.
AlterEntry(i, s) ==
    /\ s # queue[i].spec
    /\ Spend("edits", MaxEdits)
    /\ queue' = [queue EXCEPT ![i].spec = s]
    /\ UNCHANGED <<registry, rows, mem, stage, at, entry>>

Night ==
    \/ StartNight
    \/ \E f \in Families, result \in {"CONFIRMED", "BURNED", "ERROR"} : Confirm(f, result)
    \/ PassOver \/ Reject \/ SkipDuplicate \/ Choose \/ Exhausted
    \/ \E result \in {"strong", "weak", "null", "error"} : Discover(result)
    \/ AppendRow \/ MarkDone \/ Director

Next ==
    \/ Night \/ Crash
    \/ \E i \in DOMAIN queue : ResetEntry(i) \/ \E s \in Specs : AlterEntry(i, s)

Spec == Init /\ [][Next]_vars

\* The timer starts every night, and a night that is not killed goes on.
FairSpec == Spec /\ WF_vars(Night)

(***************************************************************************)
(* Safety.                                                                 *)
(***************************************************************************)

Shots(f) == {i \in DOMAIN rows : /\ FamilyOf[rows[i].spec] = f
                                 /\ rows[i].phase = "confirmation" /\ rows[i].verdict # "ERROR"}

\* A family's lockbox answers once (harness.py:9 "exactly ONE confirmation
\* shot"), and after it the ledger has no discovery of that family.
OneShotClosesFamily ==
    \A f \in Families : \A i \in Shots(f), k \in DOMAIN rows :
        k > i => FamilyOf[rows[k].spec] # f

\* A spec that observed data "must never run again" (harness.py:75), whatever
\* a killed night left out of the ledger or an edit of the queue asks for.
AnsweredOnce ==
    [][\A s \in Specs : answered[s] # 0 => answered'[s] = answered[s]]_vars

\* Every discovery was judged against at least the trials the ledger shows
\* for its family up to it: no result escapes the family penalty.
PenaltyIsPaid ==
    \A i \in DOMAIN rows : rows[i].phase = "discovery" =>
        Cardinality({k \in 1 .. i : /\ rows[k].phase = "discovery"
                                    /\ FamilyOf[rows[k].spec] = FamilyOf[rows[i].spec]})
            <= rows[i].trials

\* An entry that is done carries the answer of the experiment it was
\* registered as, not that of another spec it was altered into (N0025).
DoneIsItsOwnAnswer ==
    \A e \in 1 .. Len(queue) : \A i \in DOMAIN rows :
        /\ queue[e].status = "done" /\ queue[e].prereg # None
        /\ rows[i].id = queue[e].result
        => rows[i].spec = queue[e].prereg

(***************************************************************************)
(* Liveness.                                                               *)
(***************************************************************************)

\* A pending entry is run, skipped or rejected some night, although
\* confirmations go first and nights are killed.
IsPending(i) == i \in DOMAIN queue /\ queue[i].status = "pending"

PendingIsDecided == \A i \in 1 .. MaxQueue : IsPending(i) ~> ~IsPending(i)
==============================================================================
