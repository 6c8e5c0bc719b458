---------------------------- MODULE ProviderAnswers ----------------------------
(***************************************************************************)
(* What the gateway and its three adapters (src/novel_ai/providers) make   *)
(* of a provider's answer: the text of the answer is accepted, or the call *)
(* fails with a code.  An answer keeps what the adapters look at; texts    *)
(* themselves, tokens and latencies are left out.                          *)
(***************************************************************************)
EXTENDS Naturals, Sequences, FiniteSets

Accepted == "ACCEPTED"

-------------------------------------------------------------------------------
(* Requests *)

Routes == {"openai", "openai_codex_session", "deepseek"}

(* effort is reasoning_effort; tuned stands for a temperature or a thinking switch;    *)
(* json says that the prompt asks for JSON.  Every request of the workers carries a    *)
(* schema.                                                                             *)
Requests == [route : Routes, effort : {"low", "high"}, tuned : BOOLEAN, json : BOOLEAN]

(* The route is usable: the API key is set, or the codex session is enabled in a local *)
(* environment.  CODEX_SESSION_DISABLED and UNSUPPORTED_PARAMETER each stand for two     *)
(* codes.                                                                               *)
ConfigurationCode(r, usable) ==
    IF r.route = "openai_codex_session" /\ ~usable THEN "CODEX_SESSION_DISABLED"
    ELSE IF r.route = "openai_codex_session" /\ r.tuned THEN "UNSUPPORTED_PARAMETER"
    ELSE IF r.route = "deepseek" /\ ~r.json THEN "JSON_INSTRUCTION_MISSING"
    ELSE IF r.route = "deepseek" /\ r.effort = "low" THEN "UNSUPPORTED_REASONING_EFFORT"
    ELSE IF r.route # "openai_codex_session" /\ ~usable THEN "API_KEY_MISSING"
    ELSE Accepted

-------------------------------------------------------------------------------
(* The text of an answer, and the gateway *)

(* none is a missing or an empty text; a text may not be JSON, or not fit the schema. *)
TextKinds == {"none", "prose", "mismatch", "valid"}

(* ModelGateway.generate after the adapter's answer. *)
GatewayCode(text) == CASE text = "prose" -> "INVALID_OUTPUT_JSON"
                       [] text = "mismatch" -> "OUTPUT_SCHEMA_MISMATCH"
                       [] text = "valid" -> Accepted

-------------------------------------------------------------------------------
(* HTTP *)

(* _http_error_code, for a response that is not a success. *)
HttpCode(status) == CASE status \in {401, 403} -> "AUTHENTICATION_ERROR"
                      [] status = 429 -> "RATE_LIMITED"
                      [] status >= 500 -> "PROVIDER_UNAVAILABLE"
                      [] OTHER -> "INVALID_REQUEST"

HttpStatuses == {400, 401, 429, 500}

HttpFaults == {"TIMEOUT", "TRANSPORT_ERROR", "INVALID_RESPONSE_JSON", "INVALID_RESPONSE_SHAPE"}

-------------------------------------------------------------------------------
(* OpenAI Responses *)

(* An output item: reasoning, an assistant message that holds a text, nothing or a     *)
(* refusal, another kind of item (a tool call), or one whose shape is wrong.            *)
OutputItems == {"reasoning", "text", "blank", "refusal", "tool", "invalid"}

(* id says whether the response names itself. *)
OpenAIAnswers(n) ==
    [output : UNION {[1 .. k -> OutputItems] : k \in 0 .. n}, id : BOOLEAN,
     status : {"completed", "incomplete"}, text : TextKinds \ {"none"}]

Positions(items, kinds) == {i \in DOMAIN items : items[i] \in kinds}

(* Fault: the number of messages is not checked. *)
AnyMessages(items) == TRUE

(* message_count <= 1. *)
OneMessage(items) == Cardinality(Positions(items, {"text", "blank", "refusal"})) <= 1

(* OpenAIResponsesProvider._parse_response. *)
OpenAICode(a) ==
    IF Positions(a.output, {"tool", "invalid"}) # {} \/ ~OneMessage(a.output) \/ ~a.id
        THEN "INVALID_RESPONSE_SHAPE"
    ELSE IF Positions(a.output, {"refusal"}) # {} THEN "REFUSED"
    ELSE IF a.status = "completed" /\ Positions(a.output, {"text"}) # {} THEN GatewayCode(a.text)
    ELSE "INCOMPLETE"

(* The whole answer is one assistant message, finished, besides reasoning               *)
(* (docs/PROVIDER_INTEGRATION.md:53, :57).                                              *)
OpenAIFinal(a) ==
    /\ a.status = "completed" /\ a.text = "valid"
    /\ \E i \in DOMAIN a.output :
           a.output[i] = "text" /\ \A j \in DOMAIN a.output \ {i} : a.output[j] = "reasoning"

-------------------------------------------------------------------------------
(* DeepSeek chat completions *)

(* message is "invalid" when it is not an assistant's message. *)
DeepSeekAnswers ==
    [choices : 0 .. 2, message : {"assistant", "tool", "invalid"}, refusal : BOOLEAN,
     id : BOOLEAN,
     finish : {"stop", "length", "content_filter", "missing"}, text : TextKinds]

(* DeepSeekChatProvider._parse_response. *)
DeepSeekCode(a) ==
    IF a.choices # 1 \/ a.message # "assistant" \/ ~a.id THEN "INVALID_RESPONSE_SHAPE"
    ELSE IF a.refusal \/ a.finish = "content_filter" THEN "REFUSED"
    ELSE IF a.finish = "stop" /\ a.text # "none" THEN GatewayCode(a.text)
    ELSE "INCOMPLETE"

DeepSeekFinal(a) ==
    /\ a.choices = 1 /\ a.message = "assistant" /\ ~a.refusal
    /\ a.finish = "stop" /\ a.text = "valid"

-------------------------------------------------------------------------------
(* The codex session *)

(* A line of the event stream: an event that only reports (the start of the thread or   *)
(* the end of a turn), a failed turn (turn.failed or error), a started or completed item *)
(* (reasoning or a message, or one of a tool), or a line that is not an event.           *)
Events == {"report", "message", "turn.failed", "tool", "malformed"}

(* Fault: an item of any type may pass. *)
AnyEvent(e) == IF e = "turn.failed" THEN "FAILED_EVENT_STREAM"
               ELSE IF e = "malformed" THEN "INVALID_EVENT_STREAM" ELSE Accepted

(* What _parse_codex_events raises at an event. *)
EventCode(e) == CASE e = "malformed" -> "INVALID_EVENT_STREAM"
                  [] e = "turn.failed" -> "FAILED_EVENT_STREAM"
                  [] e = "tool" -> "UNEXPECTED_CODEX_ITEM"
                  [] OTHER -> Accepted

(* The first event that is refused decides; a stream without events is refused too. *)
StreamCode(stream) ==
    LET refused == {i \in DOMAIN stream : EventCode(stream[i]) # Accepted} IN
    IF stream = <<>> THEN "EMPTY_EVENT_STREAM"
    ELSE IF refused = {} THEN Accepted
    ELSE EventCode(stream[CHOOSE i \in refused : \A j \in refused : i <= j])

(* The phrases _raise_exec_failure looks for in what the process has printed. *)
Phrases == {"usage limit", "not logged in", "model not found"}

FailureCode(printed) ==
    IF "usage limit" \in printed THEN "RATE_LIMITED"
    ELSE IF "not logged in" \in printed THEN "CHATGPT_LOGIN_REQUIRED"
    ELSE IF "model not found" \in printed THEN "MODEL_NOT_AVAILABLE"
    ELSE "CODEX_EXEC_FAILED"

Files == {"missing", "empty", "prose", "mismatch", "valid"}

(* generate, after the process has ended with status exit. *)
SessionCode(exit, printed, stream, file) ==
    IF exit # 0 THEN FailureCode(printed)
    ELSE IF StreamCode(stream) # Accepted THEN StreamCode(stream)
    ELSE IF file = "missing" THEN "MISSING_FINAL_MESSAGE"
    ELSE IF file = "empty" THEN "EMPTY_FINAL_MESSAGE"
    ELSE GatewayCode(file)

(* The text is the file of a process that succeeded and used nothing but reasoning and  *)
(* messages (docs/PROVIDER_INTEGRATION.md:54, :57).                                     *)
SessionFinal(exit, stream, file) ==
    /\ exit = 0 /\ file = "valid"
    /\ stream # <<>>
    /\ \A i \in DOMAIN stream : stream[i] \notin {"tool", "malformed", "turn.failed"}
===============================================================================
