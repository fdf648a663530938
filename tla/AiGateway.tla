------------------------------ MODULE AiGateway ------------------------------
(***************************************************************************)
(* The AI gateway between the backend and Ollama, which keeps no state: how*)
(* it translates what happened to a request into an HTTP status            *)
(* (ai-gateway/gateway/main.py, security.py).  Statuses are strings, the   *)
(* two endpoints that read the model list are "health" and "tags".         *)
(***************************************************************************)

\* What the middleware and the size tests make of a request: address_in_networks
\* over resolve_client_ip, api_key_is_valid over extract_api_key, the size limit.
Admissions == {"admitted", "bad ip", "bad key", "too large"}

\* The error statuses at the address of Ollama: its own, and those of a server in
\* front of it.
ErrorStatuses == {"404", "429", "500", "502", "503", "504"}

\* Everything a caller of the gateway may get.
HttpStatuses == {"200", "401", "403", "413"} \cup ErrorStatuses

\* What happens upstream: an answer, a 200 that is not JSON or not a JSON object, an
\* httpx.TimeoutException, no connection, one that breaks later, an error status.
Upstreams == {"ok", "not json", "misshapen", "timeout", "refused", "broken"} \cup ErrorStatuses

\* _upstream_error
UpstreamError(up) == IF up = "timeout" THEN "504" ELSE "502"

\* Mutant: the error statuses of Ollama become one.
ForwardedAsFailures(up) ==
  CASE up \in ErrorStatuses                    -> "500"
    [] up \in {"timeout", "refused", "broken"} -> UpstreamError(up)
    [] OTHER                                   -> "200"

\* proxy_tags and proxy_chat: _forward_response passes any status on as it is.
Forwarded(up) ==
  CASE up \in ErrorStatuses                    -> up
    [] up \in {"timeout", "refused", "broken"} -> UpstreamError(up)
    [] OTHER                                   -> "200"

\* ai_health makes one error of them, but reads its fields from any JSON.
HealthStatus(up) ==
  CASE up = "ok"        -> "200"
    [] up = "misshapen" -> "500"
    [] OTHER            -> "503"

Translated(path, up) == IF path = "health" THEN HealthStatus(up) ELSE Forwarded(up)

GatewayStatus(path, admission, up) ==
  CASE admission = "bad ip"    -> "403"
    [] admission = "bad key"   -> "401"
    [] admission = "too large" -> "413"
    [] OTHER                   -> Translated(path, up)

\* An admitted chat is sent on, and Ollama works on it unless it was not reached or
\* turned it away at once.
Generates(path, admission, up) ==
  path = "chat" /\ admission = "admitted" /\ up \notin {"refused", "404", "429", "503"}

=============================================================================
