------------------------------ MODULE LlmPost ------------------------------
(***************************************************************************)
(* One call of call_llm_meta of assistant/llm.py: the request is built,    *)
(* posted again after a connection error or a passing server error, and    *)
(* the answer, or the error with what is known about it, is returned.      *)
(*                                                                         *)
(* A post is a connection that the provider, or the network, serves in its *)
(* own time. The timeout that the code gives to requests.post bounds how   *)
(* long nothing arrives, and not how long the post takes. The pauses       *)
(* between attempts are left out.                                          *)
(***************************************************************************)
EXTENDS Naturals, Sequences, Triage

CONSTANTS
  Retries,   \* ALERTMIND_LLM_RETRIES
  Replies    \* what models may reply

ASSUME PostAssumption == Retries \in Nat /\ Replies \subseteq Reply /\ Replies # {}

VARIABLES
  settings,  \* provider and environment
  call,      \* idle, ready, returned; with a post under way, headers or body is awaited
  quiet,     \* nothing has arrived for as long as the timeout allows
  attempts,  \* what became of the posts of this call, in order
  posts,     \* history: every post that came to an end
  returned   \* [failed, meta, reply]

callVars == <<call, quiet, attempts, posts, returned>>

(* Provider, official endpoint, reasoning model, the optional settings, and*)
(* what the environment has that is unusable: something the request needs  *)
(* (the key, the base URL, a number), or something the post needs.         *)
Settings ==
  [provider : {"anthropic", "openai", "ollama"}, official : BOOLEAN, reasoning : BOOLEAN,
   effort : BOOLEAN, top_p : BOOLEAN, seed : BOOLEAN, structured : BOOLEAN,
   unusable : {"none", "request", "post"}]

Reasoning(s) == s.provider = "openai" /\ s.official /\ s.reasoning

PayloadLegacy(s) ==
  {"max_tokens"}
    \cup (IF Reasoning(s) THEN {} ELSE {"temperature"})
    \cup (IF Reasoning(s) /\ s.effort THEN {"reasoning_effort"} ELSE {})
    \cup (IF s.provider = "ollama" /\ s.top_p THEN {"top_p"} ELSE {})
    \cup (IF s.provider = "ollama" /\ s.seed THEN {"seed"} ELSE {})
    \cup (IF s.provider = "ollama" /\ s.structured THEN {"response_format"} ELSE {})

(* The optional parameters that are sent. *)
Payload(s) ==
  {IF s.provider = "openai" /\ s.official THEN "max_completion_tokens" ELSE "max_tokens"}
    \cup (IF Reasoning(s) THEN {} ELSE {"temperature"})
    \cup (IF Reasoning(s) /\ s.effort THEN {"reasoning_effort"} ELSE {})
    \cup (IF s.provider = "ollama" /\ s.top_p THEN {"top_p"} ELSE {})
    \cup (IF s.provider = "ollama" /\ s.seed THEN {"seed"} ELSE {})
    \cup (IF s.provider = "ollama" /\ s.structured THEN {"response_format"} ELSE {})

(* request_config: what the audit line will say was sent. Only openai      *)
(* takes a value from the payload; the others are written down again.      *)
RequestConfig(s) ==
  CASE s.provider = "anthropic" -> {"max_tokens", "temperature"}
    [] s.provider = "openai" ->
         {IF s.official THEN "max_completion_tokens" ELSE "max_tokens"}
           \cup (Payload(s) \cap {"temperature", "reasoning_effort"})
    [] s.provider = "ollama" ->
         {"max_tokens", "temperature"}
           \cup (IF s.top_p THEN {"top_p"} ELSE {}) \cup (IF s.seed THEN {"seed"} ELSE {})
           \cup (IF s.structured THEN {"response_format"} ELSE {})

-----------------------------------------------------------------------------
(* What may become of a post. "broken" is a requests.ConnectionError:      *)
(* refused, reset before the answer began, or a body that stopped coming   *)
(* for too long; "cut" a body that ended too early; "overloaded" a status  *)
(* of _RETRYABLE, "http" any other error. The rest are bodies of a good    *)
(* status: a text; an empty one; content that is no string; an object      *)
(* without content; JSON that is no object; an object in which usage or    *)
(* choices is of a wrong type; no JSON.                                    *)
Transient == {"broken", "overloaded"}
Failures == {"timeout", "cut", "http"}
Bodies == {"text", "empty", "parts", "shapeless", "array", "odd", "not_json"}
Outcomes == Transient \cup Failures \cup Bodies

AgainOnEmpty(outcome) == outcome \in Transient \cup {"empty"} /\ Len(attempts) < Retries
Again(outcome) == outcome \in Transient /\ Len(attempts) < Retries

(* What is known of the call when a post was the last. A response is       *)
(* described before its content is looked at; whatever raises while it is  *)
(* described is no ProviderError and tells nothing. A body that is no      *)
(* object raises so for anthropic only.                                    *)
DescribedIfText(s, outcome) ==
  CASE outcome \in {"odd", "not_json"} -> {}
    [] outcome = "array" /\ s.provider = "anthropic" -> {}
    [] outcome = "text" -> {"config", "response"}
    [] OTHER -> {"config"}
Described(s, outcome) ==
  CASE outcome \in {"odd", "not_json"} -> {}
    [] outcome = "array" /\ s.provider = "anthropic" -> {}
    [] outcome \in {"text", "empty", "parts", "shapeless"} -> {"config", "response"}
    [] OTHER -> {"config"}

(* Content that anthropic sends is passed on as it is, even an empty text; *)
(* the others refuse nothing else than an empty one.                       *)
Accepted(s, outcome) ==
  outcome \in {"text", "parts"} \/ (outcome = "empty" /\ s.provider = "anthropic")

(* What the runner will take for the reply. *)
Said(s, outcome, reply) ==
  CASE outcome = "text" -> reply
    [] outcome = "parts" -> Blank("parts")
    [] outcome = "empty" /\ s.provider = "anthropic" -> Blank("prose")
    [] OTHER -> Blank("error")

-----------------------------------------------------------------------------
Return(failed, meta, reply) ==
  call' = "returned" /\ returned' = [failed |-> failed, meta |-> meta, reply |-> reply]

(* What the request needs is read before there is anything to tell; the    *)
(* retries and the timeout are read where the request is known.            *)
Begin ==
  /\ call = "idle"
  /\ attempts' = <<>>
  /\ CASE settings.unusable = "request" -> Return(TRUE, {}, Blank("error"))
       [] settings.unusable = "post" -> Return(TRUE, {"config"}, Blank("error"))
       [] OTHER -> call' = "ready" /\ UNCHANGED returned
  /\ UNCHANGED <<posts, quiet>>

Send ==
  /\ call = "ready"
  /\ call' = "headers" /\ quiet' = FALSE
  /\ UNCHANGED <<attempts, posts, returned>>

UnderWay == call \in {"headers", "body"}

(* The end of a post: it is made again, or the call returns. Whether the   *)
(* provider did its work is not known when there was no answer.            *)
End(alert, prompt, outcome, reply) ==
  /\ attempts' = Append(attempts, outcome)
  /\ posts' = Append(posts, [alert |-> alert, prompt |-> prompt, payload |-> Payload(settings),
                             outcome |-> outcome, said |-> Said(settings, outcome, reply)])
  /\ quiet' = FALSE
  /\ IF Again(outcome) THEN call' = "ready" /\ UNCHANGED returned
     ELSE Return(~Accepted(settings, outcome), Described(settings, outcome),
                 Said(settings, outcome, reply))

(* Time passes and nothing arrives. *)
Wait ==
  /\ UnderWay /\ ~quiet /\ quiet' = TRUE
  /\ UNCHANGED <<call, attempts, posts, returned>>

ExpireInHeaders(alert, prompt) ==
  /\ call = "headers" /\ quiet
  /\ End(alert, prompt, "timeout", Blank("error"))

(* Then requests gives up. While the headers are awaited that is a Timeout;*)
(* in the body it is a ConnectionError.                                    *)
Expire(alert, prompt) ==
  /\ UnderWay /\ quiet
  /\ End(alert, prompt, IF call = "headers" THEN "timeout" ELSE "broken", Blank("error"))

(* The provider: the headers arrive; a byte arrives in time, and the wait  *)
(* starts afresh; the post comes to an end.                                *)
Arrive ==
  /\ call = "headers" /\ call' = "body" /\ quiet' = FALSE
  /\ UNCHANGED <<attempts, posts, returned>>

Dribble ==
  /\ UnderWay /\ quiet /\ quiet' = FALSE
  /\ UNCHANGED <<call, attempts, posts, returned>>

Deliver(alert, prompt) ==
  /\ UnderWay
  /\ \E outcome \in Outcomes \ {"timeout"} :
       /\ outcome = "cut" => call = "body"
       /\ IF outcome = "text" THEN \E reply \in Replies : End(alert, prompt, outcome, reply)
          ELSE End(alert, prompt, outcome, Blank("error"))
=============================================================================
