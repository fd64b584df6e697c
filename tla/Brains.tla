------------------------------- MODULE Brains --------------------------------
(* Who decides and who pays: the model calls of a tick for news scores and   *)
(* for S3's book, the chain each falls back along, and the daily caps.       *)
(* runtime/live.py (_llm_budget_ok .. _record_llm_usage, _make_news_llm,     *)
(* _make_s3_pm, _ingest_news, _run_systems), systems/s3_llm/pm.py,           *)
(* systems/s2_news/sentiment.py, systems/vllm_provider.py.                   *)
EXTENDS Integers, Sequences, FiniteSetsExt

CONSTANTS
    PmCap, ScorerCap, \* max_pm_calls_per_day, max_scorer_calls_per_day
    PerTick,          \* TieredScorer.llm_budget
    MaxFresh,         \* bound: material fresh headlines of one tick
    MaxDays, MaxCrashes

BrainBounds == {PmCap, ScorerCap, PerTick, MaxFresh, MaxDays, MaxCrashes} \subseteq Nat

VARIABLES
    setup,    \* config.yaml and the keys: provider, key, local
    today,
    budget,   \* state["llm_budget"]: date, calls of each kind, measured answers
    disk,     \* its copy in state.json
    phase,    \* "idle", "ingested", "decided"
    decision, \* S3's book: the brain it is from, the last pm_source, whether the paid brain was asked
    paid,     \* history: what was called and answered today, by kind
    lost,     \* history: the part of it that a crash took from the books
    crashes

brainsVars == <<setup, today, budget, disk, phase, decision, paid, lost, crashes>>

Kinds == {"pm", "scorer"}
Nothing == [k \in Kinds |-> [calls |-> 0, answers |-> 0]]
Cap(kind) == IF kind = "pm" THEN PmCap ELSE ScorerCap

(* _make_s3_pm and _make_news_llm: an explicit vLLM never falls back to a    *)
(* paid provider.                                                            *)
Chain ==
    CASE setup.provider = "vllm" -> <<"vllm", "heuristic">>
      [] setup.provider = "auto" -> (IF setup.key THEN <<"anthropic">> ELSE <<>>)
                                    \o (IF setup.local THEN <<"ollama">> ELSE <<>>) \o <<"heuristic">>
Budgeted == setup.provider = "vllm" \/ setup.key

BrainsInit ==
    /\ setup \in [provider : {"auto"}, key : BOOLEAN, local : BOOLEAN]
                \cup [provider : {"vllm"}, key : {FALSE}, local : {FALSE}]
    /\ today = 1 /\ budget = [date |-> 0, used |-> Nothing] /\ disk = budget
    /\ phase = "idle" /\ decision = [book |-> "none", source |-> "none", asked |-> FALSE]
    /\ paid = Nothing /\ lost = Nothing /\ crashes = 0

(* _llm_budget_ok starts the day's account when the date has changed.        *)
Checked == IF budget.date = today THEN budget ELSE [date |-> today, used |-> Nothing]
Ok(kind) == Checked.used[kind].calls < Cap(kind)

Plus(used, kind, calls, answers) ==
    [used EXCEPT ![kind] = [calls |-> @.calls + calls, answers |-> @.answers + answers]]

(* E65: only the last call's usage was read.                                 *)
SpentLastOnly(kind, n, r) ==
    /\ budget' = [Checked EXCEPT !.used = Plus(@, kind, n, IF r > 0 THEN 1 ELSE 0)]
    /\ paid' = Plus(paid, kind, n, r)

(* Spent(kind, n, r): n calls are charged, and the usage of the r that were  *)
(* answered; the history counts the same.                                    *)
Spent(kind, n, r) ==
    /\ budget' = [Checked EXCEPT !.used = Plus(@, kind, n, r)]
    /\ paid' = Plus(paid, kind, n, r)

(* _ingest_news: the lexicon scores everything, the model the material       *)
(* headlines while the tick's and the day's budget last.                     *)
Ingest ==
    /\ phase = "idle" /\ phase' = "ingested"
    /\ \E material \in 0..MaxFresh :
         LET n == Min({material, PerTick, Cap("scorer") - Checked.used["scorer"].calls})
         IN  IF Budgeted /\ Ok("scorer") /\ material > 0
             THEN \E r \in 0..n : Spent("scorer", n, r)
             ELSE \/ budget' = Checked /\ UNCHANGED paid
                  \/ material = 0 /\ UNCHANGED <<budget, paid>>
    /\ UNCHANGED <<setup, today, disk, decision, lost, crashes>>

(* _run_systems: with its budget gone S3 holds the book it has; otherwise    *)
(* the call is reserved first, and the first brain of the chain that answers *)
(* in order decides.                                                         *)
FallsBack(failed) == Chain[CHOOSE i \in DOMAIN Chain : Chain[i] \notin failed
                                   /\ \A j \in 1..(i - 1) : Chain[j] \in failed]

HoldsNever == FALSE
Holds == Budgeted /\ ~Ok("pm")

Hold ==
    /\ Holds
    /\ decision' = [decision EXCEPT !.source = "held", !.asked = FALSE]
    /\ budget' = Checked /\ UNCHANGED paid

Propose ==
    /\ ~Holds
    /\ \E failed \in SUBSET {"anthropic", "vllm", "ollama"} :
         /\ decision' = [book |-> FallsBack(failed), source |-> FallsBack(failed),
                         asked |-> Budgeted /\ Ok("pm")]
         /\ IF Budgeted /\ Ok("pm")
            THEN \E r \in {0, 1} : (r = 0 => Head(Chain) \in failed) /\ Spent("pm", 1, r)
            ELSE UNCHANGED <<budget, paid>>

Decide ==
    /\ phase = "ingested" /\ phase' = "decided"
    /\ Hold \/ Propose
    /\ UNCHANGED <<setup, today, disk, lost, crashes>>

(* The decision gate held: nothing is decided this tick.                     *)
GateHolds ==
    /\ phase = "ingested" /\ phase' = "decided"
    /\ UNCHANGED <<setup, today, budget, disk, decision, paid, lost, crashes>>

Save ==
    /\ phase = "decided" /\ phase' = "idle" /\ disk' = budget
    /\ UNCHANGED <<setup, today, budget, decision, paid, lost, crashes>>

(* A tick that raises keeps its account in memory; a process that dies goes  *)
(* back to the account on disk.                                              *)
TickRaises ==
    /\ phase # "idle" /\ phase' = "idle"
    /\ UNCHANGED <<setup, today, budget, disk, decision, paid, lost, crashes>>

Recorded(b, kind) == IF b.date = today THEN b.used[kind] ELSE Nothing[kind]

Crash ==
    /\ crashes < MaxCrashes /\ crashes' = crashes + 1
    /\ phase' = "idle" /\ budget' = disk
    /\ lost' = [k \in Kinds |->
                  [calls |-> paid[k].calls - Recorded(disk, k).calls,
                   answers |-> paid[k].answers - Recorded(disk, k).answers]]
    /\ UNCHANGED <<setup, today, disk, decision, paid>>

Midnight ==
    /\ today < MaxDays /\ today' = today + 1
    /\ paid' = Nothing /\ lost' = Nothing
    /\ UNCHANGED <<setup, budget, disk, phase, decision, crashes>>

BrainsNext == Ingest \/ Decide \/ GateHolds \/ Save \/ TickRaises \/ Crash \/ Midnight

BrainsSpec == BrainsInit /\ [][BrainsNext]_brainsVars

(* ------------------------------ properties ------------------------------- *)
BrainsTypeOK ==
    /\ today \in 1..MaxDays /\ phase \in {"idle", "ingested", "decided"}
    /\ \A k \in Kinds : budget.used[k].calls \in 0..Cap(k)

(* The account is what was called and what was answered, but for what a      *)
(* crash before the save took; so a day's calls exceed a cap by no more.     *)
AccountIsMeasured ==
    \A k \in Kinds :
        /\ Recorded(budget, k).calls = paid[k].calls - lost[k].calls
        /\ Recorded(budget, k).answers = paid[k].answers - lost[k].answers
        /\ paid[k].calls <= Cap(k) + lost[k].calls

(* "HOLD S3's existing book rather than let a weaker brain decide": where a  *)
(* paid brain is configured, a book of another one comes only from a call    *)
(* that was made, charged and failed, and a held decision changes no book.   *)
NoWeakerBrain ==
    decision' # decision /\ Budgeted =>
        IF decision'.source = "held" THEN decision'.book = decision.book
        ELSE decision'.asked /\ paid'["pm"].calls = paid["pm"].calls + 1
NoWeakerBrainByBudget == [][NoWeakerBrain]_brainsVars
==============================================================================
