------------------------------- MODULE Pagers --------------------------------
(* The cron pass that watches the trading process from outside: the tick     *)
(* heartbeat, the broker link and the code the process has not loaded yet.   *)
(* scripts/watch_stale_tick.py, core/alerts.py (send_telegram).              *)
EXTENDS Integers

CONSTANTS
    Stale,      \* passes without a heartbeat that make a channel stale
    Realert,    \* realert_hours, in passes
    Watched,    \* the parts of the tree check_restart looks at
    Held,       \* the parts of the tree the process has loaded
    AutoHeal,   \* auto_restart_gateway
    MaxUnsaved  \* bound: passes that fail to save their ledger

PagerBounds == Stale \in Nat \ {0} /\ Realert \in Nat \ {0} /\ MaxUnsaved \in Nat

VARIABLES
    world,   \* the loop, the link, whether state.json can be read, and the parts of
             \* the tree newer than the process
    age,     \* passes since the last tick and the last successful broker read
    cron,    \* the check the running pass is at
    led,     \* data/watchdog.json: passes since a channel's last page, Never if it has none
    told,    \* history: channels whose present incident a delivered page has named
    quiet,   \* history: passes since a channel's last page, Never after an all-clear
    unsaved  \* bound

pagerVars == <<world, age, cron, led, told, quiet, unsaved>>

Channels == {"tick", "ibkr", "restart"}
Never == 0 - 1
After(cr) == CASE cr = "tick" -> "ibkr" [] cr = "ibkr" -> "restart" [] cr = "restart" -> "off"

PagerInit ==
    /\ world = [loop |-> TRUE, link |-> TRUE, file |-> TRUE, newer |-> {}]
    /\ age = [tick |-> 0, ibkr |-> 0] /\ cron = "off"
    /\ led = [ch \in Channels |-> Never] /\ quiet = led
    /\ told = {} /\ unsaved = 0

Older(n, cap) == IF n = Never \/ n = cap THEN n ELSE n + 1

(* Half an hour passes and cron starts a pass.                               *)
CronStarts ==
    /\ cron = "off" /\ cron' = "tick"
    /\ age' = [a \in {"tick", "ibkr"} |-> Older(age[a], Stale + 1)]
    /\ led' = [ch \in Channels |-> Older(led[ch], Realert)]
    /\ quiet' = [ch \in Channels |-> Older(quiet[ch], Realert)]
    /\ UNCHANGED <<world, told, unsaved>>

(* A state file that cannot be read is the tick pager's emergency: check_ibkr *)
(* passes over it, with neither a page nor an all-clear.                     *)
CanCheck(ch) == ch = "ibkr" => world.file

IsStale(ch) ==
    CASE ch = "tick"    -> ~world.file \/ age.tick > Stale
      [] ch = "ibkr"    -> CanCheck(ch) /\ age.ibkr > Stale
      [] ch = "restart" -> world.newer \cap Watched # {}

DueOnce(ch) == led[ch] = Never
Due(ch) == led[ch] = Never \/ led[ch] >= Realert

(* The page is sent first, whether or not it arrives, and the ledger saved   *)
(* after it; a save that raises ends the whole pass.                         *)
Page(ch) ==
    /\ IsStale(ch) /\ Due(ch)
    /\ told' \in {told, told \cup {ch}}
    /\ quiet' = [quiet EXCEPT ![ch] = 0]
    /\ world' \in IF ch = "ibkr" /\ AutoHeal THEN {world, [world EXCEPT !.link = TRUE]} ELSE {world}
    /\ \/ led' = [led EXCEPT ![ch] = 0] /\ cron' = After(ch) /\ UNCHANGED unsaved
       \/ unsaved < MaxUnsaved /\ unsaved' = unsaved + 1 /\ cron' = "off" /\ UNCHANGED led

Recovers(ch) ==
    /\ CanCheck(ch) /\ ~IsStale(ch) /\ led[ch] # Never
    /\ quiet' = [quiet EXCEPT ![ch] = Never]
    /\ \/ led' = [led EXCEPT ![ch] = Never] /\ cron' = After(ch) /\ UNCHANGED unsaved
       \/ unsaved < MaxUnsaved /\ unsaved' = unsaved + 1 /\ cron' = "off" /\ UNCHANGED led
    /\ UNCHANGED <<world, told>>

Silent(ch) ==
    /\ IF IsStale(ch) THEN ~Due(ch) ELSE CanCheck(ch) => led[ch] = Never
    /\ cron' = After(ch) /\ UNCHANGED <<world, led, told, quiet, unsaved>>

Check == cron # "off" /\ (Page(cron) \/ Recovers(cron) \/ Silent(cron)) /\ UNCHANGED age

(* --------------------------- what is watched ----------------------------- *)
(* An incident ends for the human when its cause ends.  A tick saves, which  *)
(* makes state.json whole again.                                             *)
Ticks ==
    /\ world.loop /\ world' = [world EXCEPT !.file = TRUE]
    /\ age' = [age EXCEPT !.tick = 0, !.ibkr = IF world.link THEN 0 ELSE @]
    /\ told' = told \ ({"tick"} \cup IF world.link THEN {"ibkr"} ELSE {})
    /\ UNCHANGED <<cron, led, quiet, unsaved>>

Wedges ==
    /\ world' \in {[world EXCEPT !.loop = FALSE], [world EXCEPT !.link = FALSE], [world EXCEPT !.file = FALSE]}
    /\ UNCHANGED <<age, cron, led, told, quiet, unsaved>>

Applied ==
    /\ \E p \in Held : world' = [world EXCEPT !.newer = @ \cup {p}]
    /\ UNCHANGED <<age, cron, led, told, quiet, unsaved>>

(* A human restarts what a page names.                                       *)
Restarted ==
    /\ world' = [world EXCEPT !.loop = TRUE, !.link = TRUE, !.newer = {}] /\ told' = told \ {"restart"}
    /\ UNCHANGED <<age, cron, led, quiet, unsaved>>

World == Ticks \/ Wedges \/ Applied \/ Restarted

PagerNext == CronStarts \/ Check \/ World

PagerSpec == PagerInit /\ [][PagerNext]_pagerVars

(* Cron runs, and a page tried again and again is delivered in the end.      *)
Arrives(ch) == cron = ch /\ Page(ch) /\ UNCHANGED age /\ ch \in told' /\ led' # led
FairPager ==
    /\ PagerSpec /\ WF_pagerVars(CronStarts) /\ WF_pagerVars(Check)
    /\ \A ch \in Channels : SF_pagerVars(Arrives(ch))

(* ------------------------------ properties ------------------------------- *)
PagerTypeOK ==
    /\ age \in [{"tick", "ibkr"} -> 0..(Stale + 1)] /\ told \subseteq Channels
    /\ cron \in Channels \cup {"off"} /\ led \in [Channels -> Never..Realert]
    /\ world.newer \subseteq Held /\ unsaved \in 0..MaxUnsaved

(* An incident that lasts reaches the human although pages are lost: it is   *)
(* paged again every realert window.                                         *)
IncidentIsPaged ==
    \A ch \in Channels : IsStale(ch) ~> (ch \in told \/ ~IsStale(ch))

(* At most one page per channel and realert window within an incident, but   *)
(* for a page whose ledger could not be saved; all-clears end incidents.     *)
PagesAreSpaced ==
    [][\A ch \in Channels :
         /\ quiet'[ch] = 0 /\ cron = ch => quiet[ch] \in {Never, Realert} \/ led[ch] # quiet[ch]
         /\ quiet'[ch] = Never => (quiet[ch] = Never \/ ~IsStale(ch))]_pagerVars
==============================================================================
