---------------------------- MODULE MCOperations -----------------------------
(* What has to happen in the end, and what runs beside the tick, on small    *)
(* instances in one run: in a behaviour one part moves, the others stay in   *)
(* their initial state, which satisfies what is invariant. `part' names the  *)
(* one that moves.                                                           *)
EXTENDS Director, AuditRotation, Pagers, ServingGateway, GpuDemo

CONSTANTS c1, c2

VARIABLE part

ASSUME DirectorBounds /\ RotationBounds /\ PagerBounds /\ LimitIsPositive /\ DemoBounds

Parts == {"director", "audit", "pagers", "gateway", "gpu"}

OpsInit ==
    /\ part \in Parts
    /\ DirectorInit /\ AuditInit /\ PagerInit /\ GatewayInit /\ DemoInit

OpsNext ==
    \/ part = "director" /\ DirectorNext
       /\ UNCHANGED <<part, auditVars, pagerVars, gatewayVars, demoVars>>
    \/ part = "audit"    /\ AuditNext
       /\ UNCHANGED <<part, directorVars, pagerVars, gatewayVars, demoVars>>
    \/ part = "pagers"   /\ PagerNext
       /\ UNCHANGED <<part, directorVars, auditVars, gatewayVars, demoVars>>
    \/ part = "gateway"  /\ GatewayNext
       /\ UNCHANGED <<part, directorVars, auditVars, pagerVars, demoVars>>
    \/ part = "gpu"      /\ DemoNext
       /\ UNCHANGED <<part, directorVars, auditVars, pagerVars, gatewayVars>>

(* The fairness each module states, for the part that moves.                 *)
Operations ==
    /\ OpsInit /\ [][OpsNext]_<<part, directorVars, auditVars, pagerVars, gatewayVars, demoVars>>
    /\ WF_directorVars(part = "director" /\ Night) /\ WF_directorVars(part = "director" /\ NewDay)
    /\ SF_directorVars(part = "director" /\ Answered) /\ SF_directorVars(part = "director" /\ Usable)
    /\ WF_auditVars(part = "audit" /\ Pass)
    /\ WF_pagerVars(part = "pagers" /\ CronStarts) /\ WF_pagerVars(part = "pagers" /\ Check)
    /\ \A ch \in Channels : SF_pagerVars(part = "pagers" /\ Arrives(ch))
    /\ \A c \in Callers :
         /\ WF_gatewayVars(part = "gateway" /\ Guard(c)) /\ WF_gatewayVars(part = "gateway" /\ Upload(c))
         /\ WF_gatewayVars(part = "gateway" /\ Admit(c)) /\ WF_gatewayVars(part = "gateway" /\ Wakes(c))
         /\ WF_gatewayVars(part = "gateway" /\ CancelLands(c)) /\ WF_gatewayVars(part = "gateway" /\ Release(c))
         /\ WF_gatewayVars(part = "gateway" /\ Deadline(c)) /\ WF_gatewayVars(part = "gateway" /\ Receives(c))

(* An empty queue is filled again, a reported stall ends, and every session  *)
(* is charged (run_director, research_liveness); Director states them.       *)
DesignGoesOn == QueueIsRefilled /\ StallEnds /\ []SessionsAreCharged

(* Every file is inspected on a fixed cycle; AuditRotation states it.        *)
EveryFileIsReached == part = "audit" => EveryFileIsAsked

(* An incident that lasts reaches the human, and none is paged in every      *)
(* pass; Pagers states both.                                                 *)
PagerIsHeard == IncidentIsPaged /\ PagesAreSpaced
==============================================================================
