--------------------------- MODULE ModelContracts ----------------------------
(* What may go to the model server and what may come back from it, checked   *)
(* at each of the two doors: the client that asks vLLM itself, and the       *)
(* gateway with its own client.  core/llm/contracts.py, core/llm/vllm.py,    *)
(* serving/api.py, serving/config.py.  One exchange per initial state; the   *)
(* sizes are scaled down and texts are the classes the code tells apart.     *)
EXTENDS Integers, Sequences, FiniteSets, SequencesExt

VARIABLE exchange   \* a request, what the server answered, the limits of both doors

NotANumber == 999
None == 0 - 1
Malformed == "?"
Absent == <<"no list">>
MaxSymbols == 2
MaxOutputTokens == 3
Tasks == {"portfolio", "sentiment", "research"}

InBounds(x, lower, upper) == x # NotANumber /\ lower <= x /\ x <= upper

(* Settings.__post_init__ and VLLMClient.__init__.                           *)
SettingsOk(s) == s.context >= 2 /\ InBounds(s.output, 1, MaxOutputTokens) /\ s.output < s.context
ClientOk(s)   == s.context >= 2 /\ InBounds(s.output, 1, MaxOutputTokens)

(* None is no list at all.                                                   *)
SymbolsOk(symbols, task) ==
    IF task = "portfolio"
    THEN /\ symbols # Absent /\ Len(symbols) \in 1..MaxSymbols
         /\ Malformed \notin ToSet(symbols) /\ IsInjective(symbols)
    ELSE symbols = Absent

PayloadOk(r, limits) ==
    /\ r.task \in Tasks /\ r.prompt = "text"
    /\ InBounds(r.tokens, 1, limits.output) /\ SymbolsOk(r.symbols, r.task)

ContextChecked(t, tokens, context) ==
    CASE t.count < 1 -> "invalid_output"
      [] t.count >= 1 /\ t.count + tokens > context -> "context_limit"
      [] t.count >= 1 /\ t.count + tokens <= context /\ t.served # None /\ t.served < 1 -> "invalid_output"
      [] t.count >= 1 /\ t.count + tokens <= context /\ t.served >= 1 /\ t.count + tokens > t.served -> "context_limit"
      [] OTHER -> "ok"

DataOkRepeated(task, data, symbols) ==
    CASE task = "portfolio" -> \A i \in DOMAIN data : data[i].symbol \in ToSet(symbols) /\ InBounds(data[i].value, 0 - 5, 5)
      [] OTHER -> Len(data) = 1 /\ InBounds(data[1].value, 0 - 1, 1)

(* strict_json_loads has rejected repeated fields, NaN and bad encodings.    *)
DataOk(task, data, symbols) ==
    CASE task = "portfolio" ->
             /\ Len(data) <= MaxSymbols
             /\ \A i \in DOMAIN data : data[i].symbol \in ToSet(symbols) /\ InBounds(data[i].value, 0 - 5, 5)
             /\ \A i, j \in DOMAIN data : data[i].symbol = data[j].symbol => i = j
      [] task = "sentiment" -> Len(data) = 1 /\ InBounds(data[1].value, 0 - 1, 1)
      [] task = "research" -> Len(data) = 1 /\ InBounds(data[1].value, 0, 1)

(* parse_chat_response: the served model, one choice that stopped by itself, *)
(* valid data, and a measured usage within the request's token budget.       *)
ChatOk(a, r) ==
    /\ a.shape = "stop" /\ DataOk(r.task, a.data, r.symbols)
    /\ a.prompt >= 0 /\ InBounds(a.completion, 0, r.tokens)

(* VLLMClient.generate.                                                      *)
Direct(r, a, client) ==
    LET context == ContextChecked(a.tokenized, r.tokens, client.context)
    IN  CASE ~PayloadOk(r, client) -> "invalid_request"
          [] PayloadOk(r, client) /\ context # "ok" -> context
          [] OTHER -> IF ChatOk(a, r) THEN "ok" ELSE "invalid_output"

(* generate of the gateway: the same checks under its own settings.          *)
Gateway(r, a, settings) == Direct(r, a, settings)

(* GatewayClient.generate: an error body is an HTTP error, whatever its      *)
(* code, and a success is validated once more.                               *)
Through(r, a, client, settings) ==
    CASE ~PayloadOk(r, client) -> "invalid_request"
      [] PayloadOk(r, client) /\ Gateway(r, a, settings) # "ok" -> "upstream_http"
      [] OTHER -> IF /\ DataOk(r.task, a.data, r.symbols)
                     /\ InBounds(a.prompt, 0, client.context) /\ InBounds(a.completion, 0, r.tokens)
                  THEN "ok" ELSE "invalid_output"

(* ------------------------------- exchanges ------------------------------- *)
Requests ==
    [task : {"portfolio"}, prompt : {"text"}, tokens : {0, 2, 3},
     symbols : {Absent, <<>>, <<"A">>, <<"A", "B">>, <<"A", "A">>, <<Malformed>>}]
    \cup [task : {"sentiment", "research"}, prompt : {"text", "blank or too long"}, tokens : {2},
          symbols : {Absent, <<"A">>}]

ReplyRows == [symbol : {"A", "B"}, value : {0 - 6, 1, NotANumber}]
Answers ==
    [tokenized : [count : {0, 1, 3}, served : {None, 0, 4}], shape : {"stop", "length"},
     prompt : {1, 6}, completion : {2, 3}, data : SeqOf(ReplyRows, 2)]

Limits == {s \in {[context |-> 4, output |-> 2], [context |-> 6, output |-> 3], [context |-> 3, output |-> 3]} : SettingsOk(s)}

Exchanges == [request : Requests, answer : Answers, client : {c \in Limits : ClientOk(c)}, settings : Limits]

ExchangeInit == exchange \in Exchanges

(* ------------------------------ properties ------------------------------- *)
(* The two doors agree: what passes the gateway and its client would have    *)
(* passed the direct client under the gateway's limits, and what the direct  *)
(* client accepts passes the other door too, provided the client's context   *)
(* is no smaller than the gateway's and the server reports a usage in it.    *)
DoorsAgree ==
    LET r == exchange.request  a == exchange.answer  c == exchange.client  s == exchange.settings
        through == Through(r, a, c, s)
    IN  /\ through = "ok" => Direct(r, a, s) = "ok" /\ r.tokens <= c.output
        /\ Direct(r, a, s) = "ok" /\ PayloadOk(r, c) /\ a.prompt <= c.context => through = "ok"

(* Whatever passes a door is a proposal over the names of the briefing, each *)
(* once and within a twentieth of NAV, and fits the server's context.        *)
ProposalIsContained ==
    LET r == exchange.request  a == exchange.answer
    IN  "ok" \in {Through(r, a, exchange.client, exchange.settings), Direct(r, a, exchange.client)} =>
            /\ r.task = "portfolio" => /\ Cardinality({a.data[i].symbol : i \in DOMAIN a.data} \cap ToSet(r.symbols)) = Len(a.data)
                                       /\ \A i \in DOMAIN a.data : a.data[i].value \in (0 - 5)..5
            /\ a.tokenized.served = None \/ a.tokenized.count + r.tokens <= a.tokenized.served

(* Both doors to a model agree and let only proposals through.               *)
AnswersAreChecked == DoorsAgree /\ ProposalIsContained
==============================================================================
