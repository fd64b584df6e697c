-------------------------- MODULE OperationsProofs ---------------------------
(* What runs beside the tick, for every value of the constants: the paid     *)
(* cluster of the GPU demonstration, the director's daily budget, the pages  *)
(* and the gateway of the model server. The hypothesis of a theorem is what  *)
(* its module asks of its constants.                                         *)
EXTENDS Director, Pagers, GpuDemo, ServingGateway, FiniteSetTheorems, TLAPS

(* --------------------------- the paid cluster ---------------------------- *)
DemoStates ==
    [demo : 0..MaxDemos, attempted : BOOLEAN, known : BOOLEAN, terminal : BOOLEAN, deleted : BOOLEAN]

(* What the tool holds is always what it saved.                              *)
DemoTypes ==
    /\ pc \in {"idle", "create", "request", "watch", "cleanup", "look", "wait"}
    /\ disk \in DemoStates /\ mem = disk
    /\ op \in [1..MaxDemos -> {"none", "running", "done"}]
    /\ cluster \in 0..MaxDemos
    /\ pc # "idle" => disk.demo > 0

(* Nothing exists at the provider for a demo that has not begun, or whose    *)
(* create was not attempted; a cluster is there only after its operation.    *)
Begun ==
    /\ \A d \in 1..MaxDemos : d > disk.demo => op[d] = "none"
    /\ cluster # 0 => op[cluster] # "none"
    /\ disk.demo > 0 /\ ~disk.attempted => op[disk.demo] = "none"
    /\ pc = "create" => ~disk.attempted
    /\ pc = "request" => op[disk.demo] = "none" /\ disk.attempted

(* What the state file says of the operation is so: terminal is done for     *)
(* good, and the tool looks for the cluster only when that is known.         *)
Conclusive ==
    /\ disk.terminal => disk.demo > 0 /\ op[disk.demo] = "done"
    /\ pc \in {"look", "wait"} => ~disk.deleted /\ disk.terminal = disk.attempted
    /\ pc \in {"create", "request", "watch"} => ~disk.deleted
    /\ disk.deleted =>
         /\ disk.demo > 0 /\ cluster # disk.demo
         /\ disk.terminal = disk.attempted

DemoInv == DemoTypes /\ Begun /\ Conclusive
(* An invariant of the whole life of the cluster: every request, lost        *)
(* answer, kill, repeated clean-up and step of the provider keeps it.        *)
LEMMA DemoInvHolds == ASSUME DemoBounds PROVE DemoSpec => []DemoInv
<1> USE DEF DemoBounds, Demos, Goes, Saves, Loses,
            Provider, NoState, DemoStates
<1>1. ASSUME DemoInit PROVE DemoInv
    <2>1. disk = NoState /\ mem = disk /\ pc = "idle" /\ cluster = 0 /\ deleting = FALSE
          /\ op = [d \in 1..MaxDemos |-> "none"]
        BY <1>1 DEF DemoInit
    <2>2. disk \in DemoStates /\ disk.demo = 0 /\ ~disk.terminal /\ ~disk.deleted
        BY <2>1
    <2>3. DemoTypes
        BY <2>1, <2>2 DEF DemoTypes
    <2>4. Begun /\ Conclusive
        BY <2>1, <2>2 DEF Begun, Conclusive
    <2> QED BY <2>3, <2>4 DEF DemoInv
<1>2. ASSUME DemoInv, [DemoNext]_demoVars PROVE DemoInv'
    <2> USE <1>2 DEF DemoInv, DemoTypes
    <2>1. CASE Preflight
        <3> DEFINE n == disk.demo + 1
                   new == [NoState EXCEPT !.demo = n]
        <3>0. disk' = new /\ mem' = new /\ pc' = "create" /\ op' = op /\ cluster' = cluster
              /\ cluster = 0 /\ n \in 1..MaxDemos /\ n > disk.demo
            BY <2>1 DEF Preflight
        <3> HIDE DEF n
        <3>a. NoState \in DemoStates /\ ~NoState.attempted
              /\ ~NoState.terminal /\ ~NoState.deleted
            OBVIOUS
        <3>1. new \in DemoStates /\ new.demo = n /\ ~new.attempted /\ ~new.terminal /\ ~new.deleted
            <4> HIDE DEF NoState
            <4> QED BY <3>0, <3>a
        <3> HIDE DEF new
        <3>2. DemoTypes'
            BY <3>0, <3>1
        <3>3. Begun'
            BY <3>0, <3>1 DEF Begun
        <3>4. Conclusive'
            BY <3>0, <3>1 DEF Conclusive
        <3> QED BY <3>2, <3>3, <3>4
    <2>2. CASE Attempts
        <3>1. DemoTypes'
            BY <2>2 DEF Attempts
        <3>2. Begun'
            BY <2>2 DEF Attempts, Begun
        <3>3. Conclusive'
            BY <2>2 DEF Attempts, Begun, Conclusive
        <3> QED BY <3>1, <3>2, <3>3
    <2>3. CASE Requests
        <3>1. DemoTypes'
            BY <2>3 DEF Requests
        <3>2. Begun'
            BY <2>3 DEF Requests, Begun
        <3>3. Conclusive'
            BY <2>3 DEF Requests, Begun, Conclusive
        <3> QED BY <3>1, <3>2, <3>3
    <2>4. CASE WatchEnds
        BY <2>4 DEF WatchEnds, Begun, Conclusive
    <2>5. CASE CleansUp
        <3> USE <2>5 DEF CleansUp, Unknown, Terminal, TerminalAtOnce
        <3>0. /\ disk' \in {[disk EXCEPT !.deleted = FALSE, !.terminal = disk.attempted],
                           [disk EXCEPT !.deleted = FALSE]}
              /\ mem' = disk' /\ op' = op /\ cluster' = cluster /\ disk.demo > 0
              /\ pc' \in {"look", "idle"}
            OBVIOUS
        <3>1. DemoTypes'
            BY ONLY <3>0, DemoTypes DEF DemoTypes, DemoStates
        <3>2. Begun'
            BY DEF Begun
        <3>3. Conclusive'
            BY ZenonT(60) DEF Begun, Conclusive
        <3> QED BY <3>1, <3>2, <3>3
    <2>6. CASE Looks
        <3> USE <2>6 DEF Looks, Owned
        <3>0. disk' \in {disk, [disk EXCEPT !.deleted = TRUE]} /\ mem' = disk' /\ pc' \in {"idle", "wait"}
            OBVIOUS
        <3>1. DemoTypes'
            BY <3>0
        <3>2. Begun'
            BY DEF Begun
        <3>3. Conclusive'
            BY DEF Begun, Conclusive
        <3> QED BY <3>1, <3>2, <3>3
    <2>7. CASE Waits
        <3>1. DemoTypes'
            BY <2>7 DEF Waits
        <3>2. Begun'
            BY <2>7 DEF Waits, Begun
        <3>3. Conclusive'
            BY <2>7 DEF Waits, Begun, Conclusive
        <3> QED BY <3>1, <3>2, <3>3
    <2>8. CASE Operator
        BY <2>8 DEF Operator, Begun, Conclusive
    <2>9. CASE ToolKilled
        BY <2>9 DEF ToolKilled, Begun, Conclusive
    <2>10. CASE Cloud
        <3>0. UNCHANGED <<pc, mem, disk>>
            BY <2>10 DEF Cloud
        <3>1. CASE Appears
            BY <3>0, <3>1 DEF Appears, Begun, Conclusive
        <3>2. CASE OperationEnds
            <4>1. PICK d \in 1..MaxDemos : op[d] = "running" /\ op' = [op EXCEPT ![d] = "done"]
                                           /\ UNCHANGED <<cluster, deleting>>
                BY <3>2 DEF OperationEnds
            <4> QED BY <3>0, <4>1 DEF Begun, Conclusive
        <3>3. CASE Deleted
            <4>1. cluster' = 0 /\ deleting' = FALSE /\ op' = op
                BY <3>3 DEF Deleted
            <4>2. DemoTypes'
                BY <3>0, <4>1
            <4>3. Begun' /\ Conclusive'
                BY <3>0, <4>1 DEF Begun, Conclusive
            <4> QED BY <4>2, <4>3
        <3> QED BY <2>10, <3>1, <3>2, <3>3 DEF Cloud
    <2>11. CASE UNCHANGED demoVars
        BY <2>11 DEF demoVars, Begun, Conclusive
    <2> QED
        BY <2>1, <2>2, <2>3, <2>4, <2>5, <2>6, <2>7, <2>8, <2>9, <2>10, <2>11
        DEF DemoNext, Tool
<1> QED
    BY <1>1, <1>2, PTL DEF DemoSpec

(* "A missing cluster is conclusive only after its create operation is       *)
(* terminal": once the state file says deleted, no cluster of that demo is   *)
(* there or can still appear, however many demos were begun before.          *)
THEOREM AbsenceIsFinalHolds ==
    ASSUME DemoBounds PROVE DemoSpec => []AbsenceIsFinal
<1>1. DemoInv => AbsenceIsFinal
    BY DEF DemoInv, DemoTypes, DemoStates, Begun, Conclusive, AbsenceIsFinal
<1> QED
    BY <1>1, DemoInvHolds, PTL

(* ------------------------- the director's budget ------------------------- *)
(* A session that was answered and is not charged yet.                       *)
Uncharged == IF stage = "answered" THEN 1 ELSE 0

(* The registry counts every answered session but those a kill took between  *)
(* the answer and the charge, and never lets another begin beyond the cap.   *)
SessionInv ==
    /\ budget \in [today : BOOLEAN, director : Nat, referee : Nat]
    /\ sessions \in Nat /\ deadNights \in Nat
    /\ sessions <= budget.director + Uncharged + deadNights
    /\ budget.director + Uncharged <= DirectorCap

(* Over midnights, failed requests and killed nights the director is         *)
(* answered no more often than its budget, and once more for every night     *)
(* that was killed.                                                          *)
THEOREM SessionsAreChargedHolds ==
    ASSUME DirectorBounds PROVE DirectorSpec => []SessionsAreCharged
<1> USE DEF DirectorBounds, Uncharged
<1>1. DirectorInit => SessionInv
    BY DEF DirectorInit, SessionInv
<1>2. ASSUME SessionInv, [DirectorNext]_directorVars PROVE SessionInv'
    <2> USE <1>2 DEF SessionInv, Cleared
    <2>1. CASE Experiment
        BY <2>1 DEF Experiment
    <2>2. CASE QueueEmpty
        BY <2>2 DEF QueueEmpty
    <2>3. CASE Referee
        <3>1. Cleared \in [today : BOOLEAN, director : Nat, referee : Nat]
            OBVIOUS
        <3>2. PICK n \in Nat : budget' = [Cleared EXCEPT !.referee = n]
            <4> DEFINE c == Cleared
                       N(answered) == IF answered /\ c.referee < RefereeCap THEN c.referee + 1 ELSE c.referee
            <4>1. PICK answered \in BOOLEAN : budget' = [c EXCEPT !.referee = N(answered)]
                BY <2>3 DEF Referee
            <4>2. c \in [today : BOOLEAN, director : Nat, referee : Nat]
                BY <3>1
            <4> HIDE DEF c
            <4>3. N(answered) \in Nat
                BY <4>2
            <4> HIDE DEF N
            <4>4. \E n \in Nat : budget' = [c EXCEPT !.referee = n]
                BY <4>1, <4>3
            <4> QED BY <4>4 DEF c
        <3>3. budget' \in [today : BOOLEAN, director : Nat, referee : Nat]
              /\ budget'.director = IF budget.today THEN budget.director ELSE 0
            BY <3>1, <3>2
        <3>4. sessions' = (IF budget.today THEN sessions ELSE 0) /\ deadNights' = deadNights /\ stage' = "director"
              /\ stage = "referee"
            BY <2>3 DEF Referee
        <3> QED BY <3>3, <3>4
    <2>4. CASE AsksDirector
        BY <2>4 DEF AsksDirector, MayAsk
    <2>5. CASE Charges
        BY <2>5 DEF Charges
    <2>6. CASE DesignsSpecs
        BY <2>6 DEF DesignsSpecs
    <2>7. CASE Queues
        BY <2>7 DEF Queues
    <2>8. CASE RowTorn
        BY <2>8 DEF RowTorn
    <2>9. CASE NightKilled
        BY <2>9 DEF NightKilled
    <2>10. CASE NewDay
        BY <2>10 DEF NewDay
    <2>11. CASE HumanQueues
        BY <2>11 DEF HumanQueues
    <2>12. CASE UNCHANGED directorVars
        BY <2>12 DEF directorVars
    <2> QED
        BY <2>1, <2>2, <2>3, <2>4, <2>5, <2>6, <2>7, <2>8, <2>9, <2>10, <2>11, <2>12
        DEF DirectorNext, Night
<1>3. SessionInv => SessionsAreCharged
    BY DEF SessionInv, SessionsAreCharged
<1> QED
    BY <1>1, <1>2, <1>3, PTL DEF DirectorSpec

(* ------------------------------- the pager ------------------------------- *)
(* The channels a running pass has still to look at.                         *)
Ahead == CASE cron = "tick" -> Channels
           [] cron = "ibkr" -> {"ibkr", "restart"}
           [] cron = "restart" -> {"restart"}
           [] OTHER -> {}

(* A pass finds every channel at least one pass after its last page, and the *)
(* ledger agrees with the pages unless a pass failed to save it.             *)
PagerInv ==
    /\ cron \in Channels \cup {"off"}
    /\ led \in [Channels -> Never..Realert]
    /\ quiet \in [Channels -> Never..Realert]
    /\ unsaved \in 0..MaxUnsaved
    /\ \A ch \in Ahead : quiet[ch] # 0
    /\ unsaved = 0 => led = quiet

(* Older counts up to its cap and leaves Never alone.                        *)
LEMMA OlderType ==
    ASSUME PagerBounds, NEW f \in [Channels -> Never..Realert],
           NEW g, g = [ch \in Channels |-> Older(f[ch], Realert)]
    PROVE  /\ g \in [Channels -> Never..Realert]
           /\ \A ch \in Channels : g[ch] # 0 /\ (g[ch] = Never => f[ch] = Never)
<1>1. \A n \in Never..Realert :
        /\ Older(n, Realert) \in Never..Realert /\ Older(n, Realert) # 0
        /\ Older(n, Realert) = Never => n = Never
    BY DEF PagerBounds, Never, Older
<1> QED BY <1>1

LEMMA PagerInvHolds == ASSUME PagerBounds PROVE PagerSpec => []PagerInv
<1>1. PagerInit => PagerInv
    BY DEF PagerInit, PagerInv, Ahead, PagerBounds, Never, Channels
<1>2. ASSUME PagerInv, [PagerNext]_pagerVars PROVE PagerInv'
    <2> USE DEF PagerBounds
    <2>1. CASE CronStarts
        <3>1. cron' = "tick" /\ unsaved' = unsaved
              /\ led' = [ch \in Channels |-> Older(led[ch], Realert)]
              /\ quiet' = [ch \in Channels |-> Older(quiet[ch], Realert)]
            BY <2>1 DEF CronStarts
        <3>2. /\ led' \in [Channels -> Never..Realert]
              /\ quiet' \in [Channels -> Never..Realert]
              /\ \A ch \in Channels : quiet'[ch] # 0
            BY <1>2, <3>1, OlderType DEF PagerInv
        <3>3. unsaved = 0 => led' = quiet'
            BY <1>2, <3>1 DEF PagerInv
        <3> QED BY <1>2, <3>1, <3>2, <3>3 DEF PagerInv, Ahead, Channels
    <2>2. CASE Check
        <3>1. cron \in Channels
            BY <1>2, <2>2 DEF Check, PagerInv
        <3>2. CASE Page(cron)
            BY <1>2, <3>1, <3>2 DEF Page, PagerInv, Ahead, After, Channels, Never
        <3>3. CASE Recovers(cron)
            BY <1>2, <3>1, <3>3 DEF Recovers, PagerInv, Ahead, After, Channels, Never
        <3>4. CASE Silent(cron)
            BY <1>2, <3>1, <3>4 DEF Silent, PagerInv, Ahead, After, Channels, Never
        <3> QED BY <2>2, <3>2, <3>3, <3>4 DEF Check
    <2>3. CASE World
        <3>1. UNCHANGED <<cron, led, quiet, unsaved>>
            BY <2>3 DEF World, Ticks, Wedges, Applied, Restarted
        <3> QED BY <1>2, <3>1 DEF PagerInv, Ahead
    <2>4. CASE UNCHANGED pagerVars
        BY <1>2, <2>4 DEF pagerVars, PagerInv, Ahead
    <2> QED BY <1>2, <2>1, <2>2, <2>3, <2>4 DEF PagerNext
<1> QED
    BY <1>1, <1>2, PTL DEF PagerSpec

(* Within an incident a channel is paged at most once in a realert window,   *)
(* but for a page whose ledger could not be saved, and only an all-clear     *)
(* ends an incident.                                                         *)
THEOREM PagesAreSpacedHolds ==
    ASSUME PagerBounds PROVE PagerSpec => PagesAreSpaced
<1> DEFINE Spaced ==
      \A ch \in Channels :
         /\ quiet'[ch] = 0 /\ cron = ch => quiet[ch] \in {Never, Realert} \/ led[ch] # quiet[ch]
         /\ quiet'[ch] = Never => (quiet[ch] = Never \/ ~IsStale(ch))
<1>1. ASSUME PagerInv, [PagerNext]_pagerVars PROVE [Spaced]_pagerVars
    <2>1. CASE CronStarts
        <3>1. \A ch \in Channels : quiet'[ch] # 0
                                          /\ (quiet'[ch] = Never => quiet[ch] = Never)
            BY <1>1, <2>1, OlderType DEF CronStarts, PagerInv
        <3> QED BY <3>1
    <2>2. CASE Check
        <3>1. cron \in Channels
            BY <1>1, <2>2 DEF Check, PagerInv
        <3>2. CASE Page(cron)
            BY <1>1, <3>1, <3>2 DEF Page, Due, PagerInv, Never, PagerBounds
        <3>3. CASE Recovers(cron)
            BY <1>1, <3>1, <3>3 DEF Recovers, PagerInv, Never, PagerBounds
        <3>4. CASE Silent(cron)
            BY <1>1, <3>1, <3>4 DEF Silent, PagerInv, Ahead, Channels, Never
        <3> QED BY <2>2, <3>2, <3>3, <3>4 DEF Check
    <2>3. CASE World
        <3>1. UNCHANGED <<cron, quiet>>
            BY <2>3 DEF World, Ticks, Wedges, Applied, Restarted
        <3> QED BY <1>1, <3>1 DEF PagerInv, Ahead, Channels
    <2> QED BY <1>1, <2>1, <2>2, <2>3 DEF PagerNext
<1> QED
    BY <1>1, PagerInvHolds, PTL DEF PagerSpec, PagesAreSpaced

(* With a ledger that can always be saved the exception is empty: a page     *)
(* comes at the first sight of an incident or a whole window after the last. *)
THEOREM SavedPagesAreSpaced ==
    ASSUME PagerBounds, MaxUnsaved = 0
    PROVE  PagerSpec => [][\A ch \in Channels :
               quiet'[ch] = 0 /\ cron = ch => quiet[ch] \in {Never, Realert}]_pagerVars
<1> DEFINE Spaced ==
      \A ch \in Channels :
         /\ quiet'[ch] = 0 /\ cron = ch => quiet[ch] \in {Never, Realert} \/ led[ch] # quiet[ch]
         /\ quiet'[ch] = Never => (quiet[ch] = Never \/ ~IsStale(ch))
    Strictly ==
      \A ch \in Channels : quiet'[ch] = 0 /\ cron = ch => quiet[ch] \in {Never, Realert}
<1>1. ASSUME PagerInv, [Spaced]_pagerVars PROVE [Strictly]_pagerVars
    <2>1. led = quiet
        BY <1>1 DEF PagerInv
    <2> QED BY <1>1, <2>1
<1> QED
    BY <1>1, PagerInvHolds, PagesAreSpacedHolds, PTL DEF PagesAreSpaced

(* ---------------------- the model serving gateway ------------------------ *)
(* A request's stage and its backend task go together: the task exists from  *)
(* admission on and has ended by the time the slot is given back.            *)
Coherent(r) ==
    /\ r.at \in {"new", "upload", "body"} => r.backend = "none" /\ r.outcome = "none"
    /\ r.at = "admitted" => r.backend \in {"tokenize", "chat", "done", "failed"}
    /\ r.at = "unwinding" => r.backend \in {"done", "failed", "cancelling", "ended"}
    /\ r.at = "closed" => r.backend \in {"none", "done", "failed", "ended"}

Holding  == {c \in Callers : req[c].backend \in {"tokenize", "chat", "cancelling"}}
Occupied == {c \in Callers : req[c].at \in {"admitted", "unwinding"}}
Ended    == {c \in Callers :
               req[c].at = "closed" /\ (req[c].outcome = "overload" \/ req[c].backend # "none")}

(* The gauge is the number of requests between admission and release, and no *)
(* more than the limit; the counter is the number of those that ended.       *)
GatewayInv ==
    /\ req \in [Callers -> Request] /\ source \in [Callers -> {"none", "vllm", "fallback"}]
    /\ \A c \in Callers : Coherent(req[c])
    /\ inflight = Cardinality(Occupied) /\ inflight <= MaxConcurrency
    /\ counted = Cardinality(Ended)
    /\ AttributedTruly

(* The first state: no request.                                              *)
LEMMA GatewayStarts ==
    ASSUME LimitIsPositive, GatewayInit
    PROVE  GatewayInv /\ Backend!Init
<1>1. /\ Fresh \in Request /\ Coherent(Fresh)
      /\ Fresh.at = "new" /\ Fresh.backend = "none"
    BY DEF Fresh, Request, Outcomes, Refusals, Failures, Coherent
<1>2. \A c \in Callers : req[c] = Fresh /\ source[c] = "none"
    BY DEF GatewayInit
<1>3. Holding = {} /\ Occupied = {} /\ Ended = {}
    BY <1>1, <1>2 DEF Holding, Occupied, Ended
<1>4. GatewayInv
    BY <1>1, <1>2, <1>3, FS_EmptySet DEF GatewayInv, GatewayInit, LimitIsPositive, AttributedTruly
<1> QED
    BY <1>3, <1>4 DEF Backend!Init, Holding

(* The sets of callers a step changes, by what it makes of one request.      *)
LEMMA OneRequest ==
    ASSUME GatewayInv, NEW c \in Callers, NEW r \in Request, Becomes(c, r)
    PROVE  /\ req' \in [Callers -> Request]
           /\ req'[c] = r /\ \A d \in Callers \ {c} : req'[d] = req[d]
           /\ Holding' = IF r.backend \in {"tokenize", "chat", "cancelling"}
                         THEN Holding \cup {c} ELSE Holding \ {c}
           /\ Occupied' = IF r.at \in {"admitted", "unwinding"}
                          THEN Occupied \cup {c} ELSE Occupied \ {c}
           /\ Ended' = IF r.at = "closed" /\ (r.outcome = "overload" \/ r.backend # "none")
                       THEN Ended \cup {c} ELSE Ended \ {c}
<1>1. /\ req' \in [Callers -> Request]
      /\ req'[c] = r /\ \A d \in Callers \ {c} : req'[d] = req[d]
    BY DEF GatewayInv, Becomes
<1> QED
    BY <1>1 DEF Holding, Occupied, Ended

(* The same by cases: which sets the request enters, leaves or stays in.     *)
LEMMA Enters ==
    ASSUME GatewayInv, NEW c \in Callers, NEW r \in Request, Becomes(c, r)
    PROVE  /\ r.backend \in {"tokenize", "chat", "cancelling"} => Holding' = Holding \cup {c}
           /\ r.backend \notin {"tokenize", "chat", "cancelling"} => Holding' = Holding \ {c}
           /\ r.at \in {"admitted", "unwinding"} => Occupied' = Occupied \cup {c}
           /\ r.at \notin {"admitted", "unwinding"} => Occupied' = Occupied \ {c}
           /\ r.at = "closed" /\ (r.outcome = "overload" \/ r.backend # "none")
                => Ended' = Ended \cup {c}
           /\ ~(r.at = "closed" /\ (r.outcome = "overload" \/ r.backend # "none"))
                => Ended' = Ended \ {c}
<1>1. /\ Holding' = IF r.backend \in {"tokenize", "chat", "cancelling"}
                    THEN Holding \cup {c} ELSE Holding \ {c}
      /\ Occupied' = IF r.at \in {"admitted", "unwinding"}
                     THEN Occupied \cup {c} ELSE Occupied \ {c}
      /\ Ended' = IF r.at = "closed" /\ (r.outcome = "overload" \/ r.backend # "none")
                  THEN Ended \cup {c} ELSE Ended \ {c}
    BY OneRequest
<1> QED
    BY <1>1

(* Taking out what is not in.                                                *)
LEMMA Without ==
    ASSUME NEW S, NEW c
    PROVE  (c \notin S => S \ {c} = S) /\ (c \in S => S \cup {c} = S)
OBVIOUS

(* A step that moves neither the gauge nor the counter: the request stays on *)
(* its side of both, its backend holds no slot it did not hold, and an       *)
(* outcome that is out stays.                                                *)
LEMMA Within ==
    ASSUME GatewayInv, NEW c \in Callers, NEW r \in Request, Becomes(c, r), Coherent(r),
           r.at \in {"admitted", "unwinding"} <=> c \in Occupied,
           (r.at = "closed" /\ (r.outcome = "overload" \/ r.backend # "none")) <=> c \in Ended,
           r.backend \in {"tokenize", "chat", "cancelling"} => c \in Holding,
           req[c].at = "closed" => r.at = "closed" /\ r.outcome = req[c].outcome,
           UNCHANGED <<inflight, counted, source>>
    PROVE  GatewayInv' /\ (Holding' = Holding \/ (c \in Holding /\ Holding' = Holding \ {c}))
<1>1. /\ req' \in [Callers -> Request]
      /\ req'[c] = r /\ \A d \in Callers \ {c} : req'[d] = req[d]
    BY OneRequest
<1>4. Occupied' = Occupied
    <2>1. Occupied' = IF r.at \in {"admitted", "unwinding"}
                      THEN Occupied \cup {c} ELSE Occupied \ {c}
        BY OneRequest
    <2> QED
        BY <2>1
<1>5. Ended' = Ended
    <2>1. Ended' = IF r.at = "closed" /\ (r.outcome = "overload" \/ r.backend # "none")
                   THEN Ended \cup {c} ELSE Ended \ {c}
        BY OneRequest
    <2> QED
        BY <2>1
<1>6. Holding' = Holding \/ (c \in Holding /\ Holding' = Holding \ {c})
    <2>1. Holding' = IF r.backend \in {"tokenize", "chat", "cancelling"}
                     THEN Holding \cup {c} ELSE Holding \ {c}
        BY OneRequest
    <2> QED
        BY <2>1
<1>2. \A d \in Callers : Coherent(req'[d])
    BY <1>1 DEF GatewayInv
<1>3. AttributedTruly'
    BY <1>1 DEF GatewayInv, AttributedTruly
<1> QED
    BY <1>1, <1>2, <1>3, <1>4, <1>5, <1>6 DEF GatewayInv

(* Admission takes a slot only while one is left, the release gives it back  *)
(* after the gather, and everything between happens within the slot.         *)
LEMMA GatewayStep ==
    ASSUME LimitIsPositive, IsFiniteSet(Callers), GatewayInv, [GatewayNext]_gatewayVars
    PROVE  GatewayInv' /\ (Backend!Next \/ Holding' = Holding)
<1> USE DEF Request, Outcomes, Refusals, Failures
<1>0. /\ \A c \in Callers : req[c] \in Request /\ Coherent(req[c])
      /\ \A c \in Callers : c \in Occupied <=> req[c].at \in {"admitted", "unwinding"}
      /\ \A c \in Callers : c \in Holding <=> req[c].backend \in {"tokenize", "chat", "cancelling"}
      /\ \A c \in Callers : c \in Ended <=>
            (req[c].at = "closed" /\ (req[c].outcome = "overload" \/ req[c].backend # "none"))
    BY DEF GatewayInv, Occupied, Holding, Ended
<1>1. /\ IsFiniteSet(Occupied) /\ IsFiniteSet(Ended) /\ IsFiniteSet(Holding)
      /\ Holding \subseteq Occupied /\ Cardinality(Holding) <= inflight
      /\ inflight \in Nat /\ counted \in Nat /\ Cardinality(Holding) \in Nat
    <2>1. Holding \subseteq Occupied
        BY <1>0 DEF Holding, Occupied, Coherent
    <2>2. Occupied \subseteq Callers /\ Ended \subseteq Callers
        BY DEF Occupied, Ended
    <2>3. IsFiniteSet(Occupied) /\ IsFiniteSet(Ended) /\ IsFiniteSet(Holding)
        BY <2>1, <2>2, FS_Subset
    <2> QED
        BY <2>1, <2>3, FS_Subset, FS_CardinalityType DEF GatewayInv
<1>2. ASSUME NEW c \in Holding, Holding' = Holding \ {c}
      PROVE  Backend!Next
    <2>1. c \in Callers
        BY DEF Holding
    <2> QED
        BY <1>2, <2>1 DEF Backend!Next, Backend!Give, Holding
<1>3. CASE UNCHANGED gatewayVars
    BY <1>3 DEF gatewayVars, GatewayInv, Occupied, Ended, Holding, AttributedTruly
<1>4. ASSUME NEW c \in Callers, NEW r \in Request, Becomes(c, r), Coherent(r),
             r.at \in {"admitted", "unwinding"} <=> c \in Occupied,
             (r.at = "closed" /\ (r.outcome = "overload" \/ r.backend # "none")) <=> c \in Ended,
             r.backend \in {"tokenize", "chat", "cancelling"} => c \in Holding,
             req[c].at = "closed" => r.at = "closed" /\ r.outcome = req[c].outcome,
             UNCHANGED <<inflight, counted, source>>
      PROVE  GatewayInv' /\ (Backend!Next \/ Holding' = Holding)
    BY <1>2, <1>4, Within
<1>5. ASSUME NEW c \in Callers, NEW why \in Outcomes \ {"overload"}, Refuse(c, why),
             req[c].at \in {"new", "upload", "body"}, UNCHANGED <<inflight, counted, source>>
      PROVE  GatewayInv' /\ (Backend!Next \/ Holding' = Holding)
    <2> DEFINE r == [req[c] EXCEPT !.at = "closed", !.outcome = why]
    <2>1. r \in Request /\ r.at = "closed" /\ r.outcome = why /\ r.backend = "none"
        BY <1>0, <1>5 DEF Coherent
    <2>2. Becomes(c, r)
        BY <1>5 DEF Refuse
    <2> HIDE DEF r
    <2>3. Coherent(r)
        BY <2>1 DEF Coherent
    <2> QED
        BY <1>0, <1>4, <1>5, <2>1, <2>2, <2>3
<1>6. ASSUME NEW c \in Callers, Guard(c)
      PROVE  GatewayInv' /\ (Backend!Next \/ Holding' = Holding)
    <2>1. CASE \E why \in {"unauthorized", "body_too_large"} : Refuse(c, why)
        BY <1>5, <1>6, <2>1 DEF Guard
    <2>2. CASE Becomes(c, [req[c] EXCEPT !.at = "upload"])
        <3> DEFINE r == [req[c] EXCEPT !.at = "upload"]
        <3>1. r \in Request /\ r.at = "upload" /\ r.outcome = "none" /\ r.backend = "none"
            BY <1>0, <1>6 DEF Coherent, Guard
        <3>2. Becomes(c, r) /\ req[c].at = "new" /\ UNCHANGED <<inflight, counted, source>>
            BY <1>6, <2>2 DEF Guard
        <3> HIDE DEF r
        <3> QED
            BY <1>0, <1>4, <3>1, <3>2 DEF Coherent
    <2> QED
        BY <1>6, <2>1, <2>2 DEF Guard
<1>7. ASSUME NEW c \in Callers, Upload(c)
      PROVE  GatewayInv' /\ (Backend!Next \/ Holding' = Holding)
    <2>1. CASE \E why \in {"none", "body_too_large", "request_body_timeout"} : Refuse(c, why)
        BY <1>5, <1>7, <2>1 DEF Upload
    <2>2. CASE Becomes(c, [req[c] EXCEPT !.at = "body"])
        <3> DEFINE r == [req[c] EXCEPT !.at = "body"]
        <3>1. r \in Request /\ r.at = "body" /\ r.outcome = "none" /\ r.backend = "none"
            BY <1>0, <1>7 DEF Coherent, Upload
        <3>2. Becomes(c, r) /\ req[c].at = "upload" /\ UNCHANGED <<inflight, counted, source>>
            BY <1>7, <2>2 DEF Upload
        <3> HIDE DEF r
        <3> QED
            BY <1>0, <1>4, <3>1, <3>2 DEF Coherent
    <2> QED
        BY <1>7, <2>1, <2>2 DEF Upload
<1>8. ASSUME NEW c \in Callers, Admit(c)
      PROVE  GatewayInv' /\ (Backend!Next \/ Holding' = Holding)
    <2>0. req[c].at = "body" /\ req[c].backend = "none" /\ req[c].outcome = "none" /\ source' = source
        BY <1>0, <1>8 DEF Admit, Coherent
    <2>1. CASE Refuse(c, "invalid_request") /\ UNCHANGED <<inflight, counted>>
        BY <1>5, <2>0, <2>1
    <2>2. CASE /\ Refuse(c, "overload") /\ counted' = counted + 1 /\ UNCHANGED inflight
        <3> DEFINE r == [req[c] EXCEPT !.at = "closed", !.outcome = "overload"]
        <3>1. r \in Request /\ r.at = "closed" /\ r.outcome = "overload" /\ r.backend = "none"
            BY <1>0, <2>0
        <3>2. Becomes(c, r)
            BY <2>2 DEF Refuse
        <3> HIDE DEF r
        <3>3. /\ req' \in [Callers -> Request]
              /\ req'[c] = r /\ \A d \in Callers \ {c} : req'[d] = req[d]
            BY <3>1, <3>2, OneRequest
        <3>4. Holding' = Holding /\ Occupied' = Occupied /\ Ended' = Ended \cup {c} /\ c \notin Ended
            <4>1. c \notin Holding /\ c \notin Occupied /\ c \notin Ended
                BY <1>0, <2>0
            <4>2. Holding' = Holding \ {c} /\ Occupied' = Occupied \ {c} /\ Ended' = Ended \cup {c}
                BY <3>1, <3>2, Enters
            <4> QED
                BY <4>1, <4>2, Without
        <3>5. Cardinality(Ended') = counted + 1
            BY <1>1, <3>4, FS_AddElement DEF GatewayInv
        <3>6. \A d \in Callers : Coherent(req'[d])
            BY <1>0, <3>1, <3>3 DEF Coherent
        <3>7. AttributedTruly'
            BY <2>0, <3>1, <3>3 DEF GatewayInv, AttributedTruly
        <3> QED
            BY <2>0, <2>2, <3>3, <3>4, <3>5, <3>6, <3>7 DEF GatewayInv
    <2>3. CASE /\ ~Full /\ Becomes(c, [req[c] EXCEPT !.at = "admitted", !.backend = "tokenize"])
               /\ inflight' = inflight + 1 /\ UNCHANGED counted
        <3> DEFINE r == [req[c] EXCEPT !.at = "admitted", !.backend = "tokenize"]
        <3>1. r \in Request /\ r.at = "admitted" /\ r.outcome = "none" /\ r.backend = "tokenize"
            BY <1>0, <2>0
        <3>2. Becomes(c, r)
            BY <2>3
        <3> HIDE DEF r
        <3>3. /\ req' \in [Callers -> Request]
              /\ req'[c] = r /\ \A d \in Callers \ {c} : req'[d] = req[d]
            BY <3>1, <3>2, OneRequest
        <3>4. /\ Holding' = Holding \cup {c} /\ Occupied' = Occupied \cup {c} /\ Ended' = Ended
              /\ c \notin Occupied /\ c \notin Holding
            BY <1>0, <2>0, <3>1, <3>2, Enters, Without
        <3>5. /\ Cardinality(Occupied') = inflight + 1 /\ inflight + 1 <= MaxConcurrency
              /\ Cardinality(Holding) < MaxConcurrency
            <4>1. Cardinality(Occupied \cup {c}) = Cardinality(Occupied) + 1
                BY <1>1, <3>4, FS_AddElement
            <4>2. inflight = Cardinality(Occupied)
                BY DEF GatewayInv
            <4>3. inflight < MaxConcurrency
                BY <1>1, <2>3 DEF Full, LimitIsPositive
            <4> QED
                BY <1>1, <3>4, <4>1, <4>2, <4>3 DEF LimitIsPositive
        <3>6. \A d \in Callers : Coherent(req'[d])
            BY <1>0, <3>1, <3>3 DEF Coherent
        <3>7. AttributedTruly'
            BY <2>0, <3>1, <3>3 DEF GatewayInv, AttributedTruly
        <3>8. Backend!Next
            <4>1. Backend!Cardinality(Holding) = Cardinality(Holding)
                BY DEF Backend!Cardinality, Cardinality
            <4>2. Backend!Take(c)
                BY <3>4, <3>5, <4>1 DEF Backend!Take, Holding
            <4> QED
                BY <4>2 DEF Backend!Next
        <3> QED
            BY <2>0, <2>3, <3>3, <3>4, <3>5, <3>6, <3>7, <3>8 DEF GatewayInv
    <2> QED
        BY <1>8, <2>1, <2>2, <2>3 DEF Admit
<1>9. ASSUME NEW c \in Callers, Answers(c)
      PROVE  GatewayInv' /\ (Backend!Next \/ Holding' = Holding)
    <2>0. /\ req[c].backend \in {"tokenize", "chat"} /\ req[c].at = "admitted"
          /\ UNCHANGED <<inflight, counted, source>>
        BY <1>0, <1>9 DEF Answers, Coherent
    <2>1. ASSUME NEW b \in {"chat", "done"}, Becomes(c, [req[c] EXCEPT !.backend = b])
          PROVE  GatewayInv' /\ (Backend!Next \/ Holding' = Holding)
        <3> DEFINE r == [req[c] EXCEPT !.backend = b]
        <3>1. r \in Request /\ r.at = "admitted" /\ r.backend = b /\ Becomes(c, r)
            BY <1>0, <2>0, <2>1
        <3> HIDE DEF r
        <3> QED
            BY <1>0, <1>4, <2>0, <3>1 DEF Coherent
    <2>2. ASSUME NEW why \in Outcomes, Becomes(c, [req[c] EXCEPT !.backend = "failed", !.outcome = why])
          PROVE  GatewayInv' /\ (Backend!Next \/ Holding' = Holding)
        <3> DEFINE r == [req[c] EXCEPT !.backend = "failed", !.outcome = why]
        <3>1. r \in Request /\ r.at = "admitted" /\ r.backend = "failed" /\ Becomes(c, r)
            BY <1>0, <2>0, <2>2
        <3> HIDE DEF r
        <3> QED
            BY <1>0, <1>4, <2>0, <3>1 DEF Coherent
    <2>3. \/ \E b \in {"chat", "done"} : Becomes(c, [req[c] EXCEPT !.backend = b])
          \/ \E why \in Outcomes : Becomes(c, [req[c] EXCEPT !.backend = "failed", !.outcome = why])
        BY <1>9 DEF Answers
    <2> QED
        BY <2>1, <2>2, <2>3
<1>10. ASSUME NEW c \in Callers, Wakes(c) \/ HandlerCancelled(c)
       PROVE  GatewayInv' /\ (Backend!Next \/ Holding' = Holding)
    <2>0. req[c].at \in {"admitted", "unwinding"} /\ UNCHANGED <<inflight, counted, source>>
        BY <1>10 DEF Wakes, HandlerCancelled
    <2>1. \E r \in Request : /\ Becomes(c, r) /\ r.at = "unwinding"
                             /\ r.backend = IF req[c].backend \in {"tokenize", "chat"}
                                            THEN "cancelling" ELSE req[c].backend
        <3>1. req[c] \in Request
            BY <1>0
        <3>2. CASE Wakes(c)
            <4> DEFINE r == [req[c] EXCEPT !.at = "unwinding"]
            <4>1. /\ r \in Request /\ r.at = "unwinding" /\ r.backend = req[c].backend
                  /\ r.gone = req[c].gone /\ r.late = req[c].late
                BY <3>1
            <4>2. \/ r.backend = "done" /\ Becomes(c, [r EXCEPT !.outcome = "success"])
                  \/ r.backend = "failed" /\ Becomes(c, r)
                  \/ /\ r.backend \in {"tokenize", "chat"}
                     /\ \E why \in {"client_disconnected", "upstream_timeout"} :
                           Becomes(c, [r EXCEPT !.backend = "cancelling", !.outcome = why])
                BY <3>2 DEF Wakes
            <4> HIDE DEF r
            <4>3. CASE r.backend = "done" /\ Becomes(c, [r EXCEPT !.outcome = "success"])
                BY <4>1, <4>3
            <4>4. CASE r.backend = "failed" /\ Becomes(c, r)
                BY <4>1, <4>4
            <4>5. ASSUME NEW why \in {"client_disconnected", "upstream_timeout"},
                         r.backend \in {"tokenize", "chat"},
                         Becomes(c, [r EXCEPT !.backend = "cancelling", !.outcome = why])
                  PROVE  \E q \in Request : /\ Becomes(c, q) /\ q.at = "unwinding"
                                             /\ q.backend = IF req[c].backend \in {"tokenize", "chat"}
                                                            THEN "cancelling" ELSE req[c].backend
                <5> DEFINE q == [r EXCEPT !.backend = "cancelling", !.outcome = why]
                <5>1. q \in Request /\ q.at = "unwinding" /\ q.backend = "cancelling"
                    BY <4>1
                <5> HIDE DEF q
                <5> QED
                    BY <4>1, <4>5, <5>1 DEF q
            <4> QED
                BY <4>2, <4>3, <4>4, <4>5
        <3>3. CASE HandlerCancelled(c)
            <4> DEFINE b == IF req[c].backend \in {"tokenize", "chat"}
                            THEN "cancelling" ELSE req[c].backend
                       r == [req[c] EXCEPT !.at = "unwinding", !.outcome = "cancelled",
                               !.backend = IF @ \in {"tokenize", "chat"} THEN "cancelling" ELSE @]
            <4>1. b \in {"none", "tokenize", "chat", "done", "failed", "cancelling", "ended"}
                BY <3>1
            <4>2. r = [req[c] EXCEPT !.at = "unwinding", !.outcome = "cancelled", !.backend = b]
                BY <3>1
            <4>3. r \in Request /\ r.at = "unwinding" /\ r.backend = b
                BY <3>1, <4>1, <4>2
            <4> QED
                BY <3>3, <4>3 DEF HandlerCancelled
        <3> QED
            BY <1>10, <3>2, <3>3
    <2>2. PICK r \in Request : /\ Becomes(c, r) /\ r.at = "unwinding"
                               /\ r.backend = IF req[c].backend \in {"tokenize", "chat"}
                                              THEN "cancelling" ELSE req[c].backend
        BY <2>1
    <2>3. Coherent(r)
        BY <1>0, <2>0, <2>2 DEF Coherent
    <2> QED
        BY <1>0, <1>4, <2>0, <2>2, <2>3 DEF Coherent
<1>11. ASSUME NEW c \in Callers, CancelLands(c)
       PROVE  GatewayInv' /\ (Backend!Next \/ Holding' = Holding)
    <2> DEFINE r == [req[c] EXCEPT !.backend = "ended"]
    <2>1. /\ r \in Request /\ r.backend = "ended" /\ r.at = "unwinding" /\ req[c].at = "unwinding"
          /\ Becomes(c, r) /\ req[c].backend = "cancelling"
          /\ UNCHANGED <<inflight, counted, source>>
        BY <1>0, <1>11 DEF CancelLands, Coherent
    <2> HIDE DEF r
    <2> QED
        BY <1>0, <1>4, <2>1 DEF Coherent
<1>12. ASSUME NEW c \in Callers, Release(c)
       PROVE  GatewayInv' /\ (Backend!Next \/ Holding' = Holding)
    <2> DEFINE r == [req[c] EXCEPT !.at = "closed"]
    <2>1. /\ r \in Request /\ r.at = "closed" /\ r.backend = req[c].backend
          /\ r.backend \in {"done", "failed", "ended"}
          /\ req[c].at = "unwinding" /\ Becomes(c, r)
          /\ inflight' = inflight - 1 /\ counted' = counted + 1 /\ source' = source
        BY <1>0, <1>12 DEF Release, Gathered
    <2> HIDE DEF r
    <2>2. /\ req' \in [Callers -> Request]
          /\ req'[c] = r /\ \A d \in Callers \ {c} : req'[d] = req[d]
        BY <2>1, OneRequest
    <2>3. /\ Holding' = Holding /\ Occupied' = Occupied \ {c} /\ Ended' = Ended \cup {c}
          /\ c \in Occupied /\ c \notin Ended
        <3>1. c \in Occupied /\ c \notin Ended /\ c \notin Holding
            BY <2>1 DEF Occupied, Ended, Holding
        <3>2. Holding' = Holding \ {c} /\ Occupied' = Occupied \ {c} /\ Ended' = Ended \cup {c}
            <4>1. r.backend # "none" /\ r.backend \notin {"tokenize", "chat", "cancelling"}
                BY <2>1
            <4>2. r.at \notin {"admitted", "unwinding"}
                BY <2>1
            <4> QED BY <1>0, <2>1, <4>1, <4>2, Enters
        <3> QED BY <3>1, <3>2, Without
    <2>4. /\ Cardinality(Occupied') = inflight - 1 /\ Cardinality(Ended') = counted + 1
          /\ inflight - 1 <= MaxConcurrency
        <3>1. Cardinality(Occupied \ {c}) = Cardinality(Occupied) - 1
            BY <1>1, <2>3, FS_RemoveElement
        <3>2. Cardinality(Ended \cup {c}) = Cardinality(Ended) + 1
            BY <1>1, <2>3, FS_AddElement
        <3>3. inflight = Cardinality(Occupied) /\ counted = Cardinality(Ended) /\ inflight <= MaxConcurrency
            BY DEF GatewayInv
        <3> QED
            BY <1>1, <2>3, <3>1, <3>2, <3>3 DEF LimitIsPositive
    <2>5. \A d \in Callers : Coherent(req'[d])
        BY <1>0, <2>1, <2>2 DEF Coherent
    <2>6. AttributedTruly'
        BY <2>1, <2>2 DEF GatewayInv, AttributedTruly
    <2> QED
        BY <2>1, <2>2, <2>3, <2>4, <2>5, <2>6 DEF GatewayInv
<1>13. ASSUME NEW c \in Callers, Deadline(c)
       PROVE  GatewayInv' /\ (Backend!Next \/ Holding' = Holding)
    <2> DEFINE r == [req[c] EXCEPT !.late = TRUE]
    <2>1. /\ r \in Request /\ r.at = req[c].at /\ r.backend = req[c].backend
          /\ r.outcome = req[c].outcome /\ Becomes(c, r)
          /\ UNCHANGED <<inflight, counted, source>>
        BY <1>0, <1>13 DEF Deadline
    <2> HIDE DEF r
    <2> QED
        BY <1>0, <1>4, <2>1 DEF Coherent
<1>14. ASSUME NEW c \in Callers, GivesUp(c)
       PROVE  GatewayInv' /\ (Backend!Next \/ Holding' = Holding)
    <2>1. /\ req' \in [Callers -> Request]
          /\ \A d \in Callers : /\ req'[d].at = req[d].at /\ req'[d].backend = req[d].backend
                                /\ req'[d].outcome = req[d].outcome
        <3> DEFINE r == [req[c] EXCEPT !.gone = TRUE]
        <3>1. r \in Request /\ r.at = req[c].at /\ r.backend = req[c].backend /\ r.outcome = req[c].outcome
            BY <1>0
        <3>2. req' = [req EXCEPT ![c] = r]
            BY <1>14 DEF GivesUp, GatewayInv
        <3> HIDE DEF r
        <3> QED
            BY <3>1, <3>2 DEF GatewayInv
    <2>2. Holding' = Holding /\ Occupied' = Occupied /\ Ended' = Ended
        BY <2>1 DEF Holding, Occupied, Ended
    <2>3. \A d \in Callers : Coherent(req'[d])
        BY <1>0, <2>1 DEF Coherent
    <2>4. /\ source' \in [Callers -> {"none", "vllm", "fallback"}]
          /\ AttributedTruly'
        BY <1>14, <2>1 DEF GivesUp, GatewayInv, AttributedTruly
    <2> QED
        BY <1>14, <2>1, <2>2, <2>3, <2>4 DEF GivesUp, GatewayInv
<1>15. ASSUME NEW c \in Callers, Receives(c)
       PROVE  GatewayInv' /\ (Backend!Next \/ Holding' = Holding)
    <2>1. /\ source' \in [Callers -> {"none", "vllm", "fallback"}]
          /\ AttributedTruly'
        BY <1>15 DEF Receives, Trusted, GatewayInv, AttributedTruly
    <2>2. Holding' = Holding /\ Occupied' = Occupied /\ Ended' = Ended
        BY <1>15 DEF Receives, Holding, Occupied, Ended
    <2> QED
        BY <1>15, <2>1, <2>2 DEF Receives, GatewayInv
<1>16. CASE GatewayNext
    BY <1>6, <1>7, <1>8, <1>9, <1>10, <1>11, <1>12, <1>13, <1>14, <1>15, <1>16 DEF GatewayNext, Step
<1> QED
    BY <1>3, <1>16

(* Through clients that leave, deadlines on both sides, cancelled handlers   *)
(* and a server that never answers: the model server is asked by at most     *)
(* max_concurrency tasks at once (the gateway implements the semaphore of    *)
(* Slots), and gauge, telemetry and attributions tell what happened.         *)
THEOREM GatewayHoldsAlways ==
    ASSUME LimitIsPositive, IsFiniteSet(Callers)
    PROVE  GatewaySpec => GatewayHolds
<1>1. GatewayInit => GatewayInv /\ Backend!Init
    BY GatewayStarts
<1>2. GatewayInv /\ [GatewayNext]_gatewayVars => GatewayInv' /\ [Backend!Next]_Holding
    BY GatewayStep
<1>3. GatewayInv => AccountsAgree
    BY DEF GatewayInv, AccountsAgree, CountedOnce, Occupied, Ended
<1> QED
    BY <1>1, <1>2, <1>3, PTL DEF GatewaySpec, GatewayHolds, SlotsHold, Backend!Spec, Holding
==============================================================================
