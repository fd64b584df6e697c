------------------------------- MODULE MCDesk --------------------------------
(* What a tick decides and records, on small instances in one run: `part'    *)
(* names the component that moves in a behaviour, the others stay in one of  *)
(* their initial states, which satisfies what is invariant.                  *)
EXTENDS RiskGates, DecisionGate, Brains, EventBook, RaceVerdict, EquityBackup, FillLedger,
        Allocation, ModelContracts

CONSTANTS na, nb, eq, cx

VARIABLE part

MCNavs == 94..101
MCMoves == {-1, 0, 1}

(* A weekend between the first and the second trading day; each tick moves   *)
(* the race by a power of two of its own.                                    *)
MCMove(d, k) == [legs |-> 2^(2 * d + k), crypto |-> 2^(2 * d + k + 12)]
MCText(d, k) == IF k = 0 THEN "note" ELSE ""

MCWeights == {-3, 0, 2}
MCFactors == {<<1, 2>>, <<1, 1>>, <<3, 1>>}

ASSUME /\ GatesBounds /\ BrainBounds /\ GateBounds /\ FillBounds /\ EventBounds /\ RaceBounds /\ BackupBounds
       /\ AllocationBounds

Parts == {"gates", "brains", "gate", "fills", "events", "limits", "race", "backup", "models"}

(* Which of the exchanges is there while another component moves.            *)
IdleExchange ==
    LET limits == CHOOSE s \in Limits : ClientOk(s)
    IN  [request |-> CHOOSE r \in Requests : TRUE, answer |-> CHOOSE a \in Answers : TRUE,
         client |-> limits, settings |-> limits]

(* Which of its initial states a component that does not move is in.         *)
Idle ==
    /\ part = "brains" \/ setup = [provider |-> "vllm", key |-> FALSE, local |-> FALSE]
    /\ part = "events" \/ filed = {}
    /\ part = "race" \/ release = TRUE
    /\ part = "limits" \/ input = CHOOSE i \in Inputs : TRUE
    /\ part = "models" \/ exchange = IdleExchange

DeskInit ==
    /\ part \in Parts /\ Idle
    /\ GatesInit /\ BrainsInit /\ DecisionInit /\ FillInit /\ EventInit /\ RaceInit /\ BackupInit
    /\ AllocationInit /\ ExchangeInit

DeskNext ==
    /\ \/ part = "gates"  /\ GatesNext
       \/ part # "gates"  /\ UNCHANGED gatesVars
    /\ \/ part = "brains" /\ BrainsNext
       \/ part # "brains" /\ UNCHANGED brainsVars
    /\ \/ part = "gate"   /\ GateNext
       \/ part # "gate"   /\ UNCHANGED decisionVars
    /\ \/ part = "fills"  /\ LedgerNext
       \/ part # "fills"  /\ UNCHANGED fillVars
    /\ \/ part = "events" /\ EventNext
       \/ part # "events" /\ UNCHANGED eventVars
    /\ \/ part = "limits" /\ AllocationNext
       \/ part # "limits" /\ UNCHANGED allotVars
    /\ \/ part = "race"   /\ RaceNext
       \/ part # "race"   /\ UNCHANGED raceVars
    /\ \/ part = "backup" /\ BackupNext
       \/ part # "backup" /\ UNCHANGED backupVars
    /\ part # "models" /\ UNCHANGED <<part, exchange>>

Desk ==
    DeskInit /\ [][DeskNext]_<<part, gatesVars, brainsVars, decisionVars, fillVars, eventVars, allotVars,
                               raceVars, backupVars, exchange>>
==============================================================================
