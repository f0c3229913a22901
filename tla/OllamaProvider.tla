--------------------------- MODULE OllamaProvider ---------------------------
(***************************************************************************)
(* src/peon/providers/ollama.py: one HTTP exchange with the model, what    *)
(* OllamaLLM.generate makes of it, and what LLMReasoner (reasoner.py)      *)
(* makes of that.                                                          *)
(***************************************************************************)

(***************************************************************************)
(* How an exchange can go.  Without a usable body: the request cannot be   *)
(* built (base_url has no scheme), urlopen raises URLError, the connection *)
(* breaks or times out while the answer is read, the body is no JSON, no   *)
(* UTF-8, or has no message.content.  With a content: it is no string, no  *)
(* JSON, JSON that json.loads will not convert (a nesting too deep, a      *)
(* number too long), no known decision, or a decision.                     *)
(***************************************************************************)
NoBody   == {"bad_url", "url_error", "broken_read", "body_not_json", "body_not_utf8", "no_content"}
Contents == {"not_text", "not_json", "not_convertible", "not_a_decision", "decision"}
Exchange == NoBody \cup Contents

\* generate: OllamaRequestError for the failures it knows, another exception
\* for those it does not, else the content as it is, whatever its type.
Generate(exchange) ==
  CASE exchange \in {"url_error", "body_not_json", "no_content"} -> "OllamaRequestError"
    [] exchange \in {"bad_url", "broken_read", "body_not_utf8"} -> "Exception"
    [] OTHER -> "content"

\* The answers that are InvalidLLMResponseError, "unexpected" is any other
\* exception: json.loads raises TypeError on a content that is no string, and
\* ValueError or RecursionError on what it will not convert.
InvalidAnswers == {"call_failed", "not_json", "not_a_decision"}
Answers == InvalidAnswers \cup {"decision", "call_raised", "unexpected"}

Parse(exchange) ==
  IF exchange \in {"not_text", "not_convertible"} THEN "unexpected" ELSE exchange

\* LLMReasoner.decide catches whatever generate raises.
AnswerToOllamaErrorsOnly(exchange) ==
  CASE Generate(exchange) = "OllamaRequestError" -> "call_failed"
    [] Generate(exchange) = "Exception" -> "call_raised"
    [] Generate(exchange) = "content" -> Parse(exchange)
AnswerTo(exchange) ==
  IF Generate(exchange) = "content" THEN Parse(exchange) ELSE "call_failed"
=============================================================================
