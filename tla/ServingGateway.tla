--------------------------- MODULE ServingGateway ----------------------------
(* The private gateway in front of the model server, and the research        *)
(* providers that call it: one request from its upload to the released slot, *)
(* with clients that leave, deadlines on both sides and a server that is     *)
(* shut down.  serving/api.py, core/llm/vllm.py, systems/vllm_provider.py.   *)
EXTENDS Integers, FiniteSets, FiniteSetsExt

CONSTANTS
    Callers,         \* callers of the gateway, one call each
    MaxConcurrency   \* max_concurrency

LimitIsPositive == MaxConcurrency \in Nat \ {0}

VARIABLES
    req,       \* caller -> its request as the gateway sees it
    inflight,  \* app.state.inflight
    counted,   \* telemetry.requests: requests counted by outcome, summed
    source     \* caller -> what its provider attributed the answer to

gatewayVars == <<req, inflight, counted, source>>

Fresh == [at |-> "new", backend |-> "none", gone |-> FALSE, late |-> FALSE, outcome |-> "none"]

Refusals == {"unauthorized", "body_too_large", "request_body_timeout", "invalid_request", "overload"}
Failures == {"context_limit", "invalid_upstream_output", "upstream_error", "upstream_timeout",
             "client_disconnected", "cancelled"}
Outcomes == {"none", "success"} \cup Refusals \cup Failures

(* at: upload, validated body, admitted, unwinding after the wait, closed.   *)
(* backend: the task that asks the model server.                             *)
Request ==
    [at : {"new", "upload", "body", "admitted", "unwinding", "closed"},
     backend : {"none", "tokenize", "chat", "done", "failed", "cancelling", "ended"},
     gone : BOOLEAN, late : BOOLEAN, outcome : Outcomes]

GatewayInit ==
    /\ req = [c \in Callers |-> Fresh] /\ inflight = 0 /\ counted = 0
    /\ source = [c \in Callers |-> "none"]

Becomes(c, r) == req' = [req EXCEPT ![c] = r]
Refuse(c, why) == Becomes(c, [req[c] EXCEPT !.at = "closed", !.outcome = why])

(* RequestGuard: the key, the declared size, then the upload under its own   *)
(* deadline, before anything is parsed.                                      *)
Guard(c) ==
    /\ req[c].at = "new" /\ ~req[c].gone
    /\ \/ \E why \in {"unauthorized", "body_too_large"} : Refuse(c, why)
       \/ Becomes(c, [req[c] EXCEPT !.at = "upload"])
    /\ UNCHANGED <<inflight, counted, source>>

Upload(c) ==
    /\ req[c].at = "upload"
    /\ IF req[c].gone THEN Refuse(c, "none")
       ELSE \/ \E why \in {"body_too_large", "request_body_timeout"} : Refuse(c, why)
            \/ Becomes(c, [req[c] EXCEPT !.at = "body"])
    /\ UNCHANGED <<inflight, counted, source>>

(* The body is validated, and the slot is tested and taken with no await in  *)
(* between.                                                                  *)
FullPlusOne == inflight > MaxConcurrency
Full == inflight >= MaxConcurrency

Admit(c) ==
    /\ req[c].at = "body"
    /\ \/ Refuse(c, "invalid_request") /\ UNCHANGED <<inflight, counted>>
       \/ /\ Full
          /\ Refuse(c, "overload") /\ counted' = counted + 1 /\ UNCHANGED inflight
       \/ /\ ~Full
          /\ Becomes(c, [req[c] EXCEPT !.at = "admitted", !.backend = "tokenize"])
          /\ inflight' = inflight + 1 /\ UNCHANGED counted
    /\ UNCHANGED source

(* The backend task: tokenize, check the context, complete, parse.           *)
Answers(c) ==
    /\ req[c].backend \in {"tokenize", "chat"}
    /\ \/ Becomes(c, [req[c] EXCEPT !.backend = IF req[c].backend = "tokenize" THEN "chat" ELSE "done"])
       \/ \E why \in {"invalid_upstream_output", "upstream_error", "upstream_timeout"} \cup
                     (IF req[c].backend = "tokenize" THEN {"context_limit"} ELSE {}) :
            Becomes(c, [req[c] EXCEPT !.backend = "failed", !.outcome = why])
    /\ UNCHANGED <<inflight, counted, source>>

(* _cancellable_generation wakes for the first of its two tasks or for the   *)
(* deadline; a backend that has ended wins over a client that has left.      *)
WakesWithoutDeadline(c) ==
    /\ req[c].at = "admitted" /\ req[c].backend \in {"done", "failed"}
    /\ Becomes(c, [req[c] EXCEPT !.at = "unwinding",
                                 !.outcome = IF req[c].backend = "done" THEN "success" ELSE @])
    /\ UNCHANGED <<inflight, counted, source>>

Wakes(c) ==
    /\ req[c].at = "admitted"
    /\ LET r == [req[c] EXCEPT !.at = "unwinding"]
       IN  \/ r.backend = "done" /\ Becomes(c, [r EXCEPT !.outcome = "success"])
           \/ r.backend = "failed" /\ Becomes(c, r)
           \/ /\ r.backend \in {"tokenize", "chat"} /\ (r.gone \/ r.late)
              /\ Becomes(c, [r EXCEPT !.backend = "cancelling",
                                      !.outcome = IF r.gone THEN "client_disconnected"
                                                            ELSE "upstream_timeout"])
    /\ UNCHANGED <<inflight, counted, source>>

(* The handler itself is cancelled when the server shuts down, while it      *)
(* waits or while it gathers: a cancelled gather still waits for its tasks.  *)
HandlerCancelled(c) ==
    /\ req[c].at \in {"admitted", "unwinding"}
    /\ Becomes(c, [req[c] EXCEPT !.at = "unwinding", !.outcome = "cancelled",
                     !.backend = IF @ \in {"tokenize", "chat"} THEN "cancelling" ELSE @])
    /\ UNCHANGED <<inflight, counted, source>>

CancelLands(c) ==
    /\ req[c].backend = "cancelling" /\ Becomes(c, [req[c] EXCEPT !.backend = "ended"])
    /\ UNCHANGED <<inflight, counted, source>>

(* The finally blocks: both tasks are gathered, then the slot is given back. *)
Gathered(r) == r.backend \in {"done", "failed", "ended"}

Release(c) ==
    /\ req[c].at = "unwinding" /\ Gathered(req[c])
    /\ Becomes(c, [req[c] EXCEPT !.at = "closed"])
    /\ inflight' = inflight - 1 /\ counted' = counted + 1
    /\ UNCHANGED source

(* The server's deadline and the caller's, which closes its connection.      *)
Deadline(c) ==
    /\ req[c].at = "admitted" /\ ~req[c].late /\ Becomes(c, [req[c] EXCEPT !.late = TRUE])
    /\ UNCHANGED <<inflight, counted, source>>

(* _Provider._failure: whatever goes wrong on this side of the answer, the   *)
(* call counts as the deterministic fallback's.                              *)
GivesUp(c) ==
    /\ source[c] = "none" /\ source' = [source EXCEPT ![c] = "fallback"]
    /\ req' = [req EXCEPT ![c].gone = TRUE]
    /\ UNCHANGED <<inflight, counted>>

(* An answer is used only if it is a success that passes validation again.   *)
Trusted(c) == req[c].outcome = "success"

Receives(c) ==
    /\ source[c] = "none" /\ req[c].at = "closed"
    /\ source' = [source EXCEPT ![c] = IF Trusted(c) THEN "vllm" ELSE "fallback"]
    /\ UNCHANGED <<req, inflight, counted>>

Step(c) == Guard(c) \/ Upload(c) \/ Admit(c) \/ Answers(c) \/ Wakes(c) \/ CancelLands(c)
           \/ Release(c) \/ Deadline(c) \/ Receives(c)

GatewayNext == \E c \in Callers : Step(c) \/ HandlerCancelled(c) \/ GivesUp(c)

GatewaySpec == GatewayInit /\ [][GatewayNext]_gatewayVars

(* The event loop runs, cancellations land and deadlines pass; the model     *)
(* server need never answer.                                                 *)
FairGateway ==
    /\ GatewaySpec
    /\ \A c \in Callers :
         /\ WF_gatewayVars(Guard(c)) /\ WF_gatewayVars(Upload(c)) /\ WF_gatewayVars(Admit(c)) /\ WF_gatewayVars(Wakes(c))
         /\ WF_gatewayVars(CancelLands(c)) /\ WF_gatewayVars(Release(c)) /\ WF_gatewayVars(Deadline(c)) /\ WF_gatewayVars(Receives(c))

(* ------------------------------ properties ------------------------------- *)
GatewayTypeOK ==
    /\ req \in [Callers -> Request] /\ source \in [Callers -> {"none", "vllm", "fallback"}]
    /\ inflight \in 0..MaxConcurrency /\ counted \in 0..Cardinality(Callers)

Backend == INSTANCE Slots WITH
    Clients <- Callers, Limit <- MaxConcurrency,
    holders <- {c \in Callers : req[c].backend \in {"tokenize", "chat", "cancelling"}}

(* The model server is asked by at most max_concurrency tasks at once, those *)
(* that are being cancelled included: the slot is released after the gather. *)
SlotsHold == Backend!Spec

(* The gauge and the counter agree with the requests: every one that was     *)
(* refused for load or admitted is counted once, when it ends.               *)
CountedOnce ==
    /\ inflight = Cardinality({c \in Callers : req[c].at \in {"admitted", "unwinding"}})
    /\ counted = Cardinality({c \in Callers :
                    req[c].at = "closed" /\ (req[c].outcome = "overload" \/ req[c].backend # "none")})

(* A fallback's answer is never attributed to the model, and the model's is  *)
(* only if the gateway counted a success ("never to vLLM").                  *)
AttributedTruly ==
    \A c \in Callers : source[c] = "vllm" => req[c].at = "closed" /\ req[c].outcome = "success"

(* The gauges, the telemetry and the attributions agree with the calls.      *)
AccountsAgree == CountedOnce /\ AttributedTruly

(* Both, over cancellations, deadlines and clients that leave.               *)
GatewayHolds == SlotsHold /\ []AccountsAgree

(* Every admitted request gives its slot back although the model server      *)
(* never answers and the client never leaves.                                *)
SlotIsFreed == \A c \in Callers : req[c].at = "admitted" ~> req[c].at = "closed"
==============================================================================
