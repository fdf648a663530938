---------------------------- MODULE OllamaClient ----------------------------
(***************************************************************************)
(* OllamaClient, the object through which request handlers and the worker  *)
(* talk to the AI gateway: its retry loop, the classes of its errors, and  *)
(* its model cache (backend/app/services/ollama/client.py).                *)
(*                                                                         *)
(* Callers share the object.  A request is three steps: it is sent, the    *)
(* gateway handles it, the reply is used; the client may give up in        *)
(* between while the gateway goes on.  The cache is read and written under *)
(* its lock, one step each, and filled outside of it.  A model list is the *)
(* number of the catalog it was read from; the waits between attempts are  *)
(* left out.  The exceptions of requests are external: a connection that   *)
(* breaks, and a read timeout once the body is being read, are both raised *)
(* as ConnectionError, so the ReadTimeout clause around iter_lines         *)
(* (client.py:328) is not reached; a body that ends too early is a         *)
(* ChunkedEncodingError, a RequestException of no other class.             *)
(***************************************************************************)
EXTENDS Naturals, Sequences, AiGateway

CONSTANTS
  Callers,      \* callers of the client
  CallsOf,      \* bound: the operations each thread calls
  Fates,        \* bound: what may become of an attempt of each thread
  Attempts,     \* max(0, settings.ollama_max_retries) + 1
  Catalogs,     \* the model lists of Ollama, in the order it goes through them
  Wanted        \* the model a chat asks for

\* "list": list_models; "health": forced refresh; "models": through the cache
Ops == {"list", "health", "models", "chat", "stream"}

ASSUME ClientAssumption == Attempts \in Nat \ {0} /\ Len(Catalogs) \in Nat \ {0}
                           /\ CallsOf \in [Callers -> SUBSET Ops]

VARIABLES
  call,         \* per thread, the call it is in, or the last one it made
  cache,        \* _model_cache: the catalog it shows, and whether it has expired
  catalog,      \* the catalog Ollama has now
  setup,        \* the settings: "good", "invalid" (the URL), "keyless"
  newest,       \* history: the newest catalog a refresh has returned
  racing,       \* history: refreshes under way that have overlapped another
  due           \* history: the catalog the cache may not be behind

others == <<cache, catalog, setup, newest, racing, due>>

clientVars == <<call, others>>

Results == {"none", "ok", "timeout", "unavailable", "auth", "missing", "error", "escaped"}

\* Histories: cause, what ended the last attempt; repeated, what the chat
\* requests before it ended with; started, generations Ollama began; floor, the
\* catalog its list may not be behind: newest for a refresh, due for the cache.
NoCall == [op |-> "none", pc |-> "idle", path |-> "none", attempt |-> 1, reply |-> "none",
           listed |-> 0, floor |-> 0, result |-> "none", cause |-> "none",
           repeated |-> {}, started |-> 0]

ClientInit ==
  /\ call = [t \in Callers |-> NoCall]
  /\ cache = [catalog |-> 0, live |-> FALSE]
  /\ catalog = 1
  /\ setup \in {"good", "invalid", "keyless"}
  /\ newest = 0
  /\ racing = {}
  /\ due = 0

SetCall(t, c) == call' = [call EXCEPT ![t] = c]

Ended(c, result) ==
  [c EXCEPT !.pc = "idle", !.result = result, !.attempt = 1, !.reply = "none"]

\* Mutant: the attempts are counted from zero.
RequestingFromZero(c, path) == [c EXCEPT !.pc = "send", !.path = path, !.attempt = 0,
                                         !.reply = "none", !.cause = "none"]

\* _request begins its loop.
Requesting(c, path) == [c EXCEPT !.pc = "send", !.path = path, !.attempt = 1,
                                     !.reply = "none", !.cause = "none"]

\* The caller of available_models has its list; ensure_model_available.
Listed(c, n) ==
  LET d == [c EXCEPT !.listed = n] IN
  IF c.op \notin {"chat", "stream"} THEN Ended(d, "ok")
  ELSE IF Wanted \in Catalogs[n]    THEN Requesting(d, "chat")
  ELSE Ended([d EXCEPT !.cause = "not listed"], "missing")

Refreshers == {u \in Callers : call[u].pc # "idle" /\ call[u].path = "health"}

\* What an attempt ends with when no response is read, and everything a call may
\* end with.
NoResponses == {"connect timeout", "refused", "invalid", "keyless",
                "read timeout", "broken", "truncated"}

Causes == {"none", "not listed", "ended", "stalled", "cut"}
            \cup NoResponses \cup (Admissions \ {"admitted"}) \cup Upstreams

MaxOf(m, n) == IF m > n THEN m ELSE n

-----------------------------------------------------------------------------
(* A call begins: the cache, or a refresh *)

FromCache(t, op) ==
  /\ op \notin {"list", "health"} /\ cache.live
  /\ SetCall(t, Listed([NoCall EXCEPT !.op = op, !.floor = due], cache.catalog))
  /\ UNCHANGED racing

Refresh(t, op) ==
  /\ op = "health" \/ (op # "list" /\ ~cache.live)
  /\ SetCall(t, Requesting([NoCall EXCEPT !.op = op, !.floor = newest], "health"))
  /\ racing' = IF Refreshers = {} THEN {} ELSE Refreshers \cup {t}

ListModels(t, op) ==
  /\ op = "list"
  /\ SetCall(t, Requesting([NoCall EXCEPT !.op = op, !.floor = newest], "tags"))
  /\ UNCHANGED racing

Call(t, op) ==
  /\ call[t].pc = "idle"
  /\ FromCache(t, op) \/ Refresh(t, op) \/ ListModels(t, op)
  /\ UNCHANGED <<cache, catalog, setup, newest, due>>

-----------------------------------------------------------------------------
(* _request: one attempt *)

RetryStatus == {"429", "502", "503", "504"}

\* Mutant: 504 is repeated for every path.
RepeatedAny(path, outcome) ==
  \/ outcome \in {"connect timeout", "refused", "broken"}
  \/ outcome = "read timeout" /\ path # "chat"
  \/ outcome \in RetryStatus

\* Whether an attempt that ended so is followed by another one.
Repeated(path, outcome) ==
  \/ outcome \in {"connect timeout", "refused", "broken"}
  \/ outcome = "read timeout" /\ path # "chat"
  \/ outcome \in RetryStatus /\ ~(path = "chat" /\ outcome = "504")

\* The class of the error otherwise: the except clauses, and _raise_for_response.
Raised(path, outcome) ==
  CASE outcome \in {"read timeout", "connect timeout", "504"}             -> "timeout"
    [] outcome \in {"refused", "broken", "truncated", "invalid"}
                     \cup {"429", "502", "503"}                          -> "unavailable"
    [] outcome \in {"keyless", "401", "403"}                              -> "auth"
    [] outcome = "404" /\ path = "chat"                                  -> "missing"
    [] OTHER                                                             -> "error"

\* chat_stream makes one attempt, and reads its body later.
Streaming(c) == c.op = "stream" /\ c.path = "chat"

\* A 200: _json, and the fields it must have.  The gateway never sends a health that
\* is not online with a 200, but available_models looks.
Accepted(c) ==
  IF Streaming(c) THEN [c EXCEPT !.pc = "body"]
  ELSE CASE c.cause = "not json"  -> Ended(c, "error")
         [] c.cause = "misshapen" -> Ended(c, IF c.path = "health" THEN "unavailable" ELSE "error")
         [] OTHER -> IF c.path = "health" THEN [c EXCEPT !.pc = "store"] ELSE Ended(c, "ok")

TriedAgain(c, outcome) ==
  [c EXCEPT !.pc = "send", !.attempt = @ + 1, !.reply = "none", !.cause = "none",
            !.repeated = IF c.path = "chat" THEN @ \cup {outcome} ELSE @]

Concluded(c, outcome) ==
  IF outcome = "200" THEN Accepted(c)
  ELSE IF Repeated(c.path, outcome) /\ c.attempt < Attempts /\ ~Streaming(c)
  THEN TriedAgain(c, outcome)
  ELSE Ended(c, Raised(c.path, outcome))

Unsent == IF setup = "good" THEN {"connect timeout", "refused"} ELSE {setup}

\* No connection; or _headers finds no key, or requests cannot build the request.
NotSent(t) ==
  /\ call[t].pc = "send"
  /\ \E why \in Unsent \cap Fates[t] :
       SetCall(t, Concluded([call[t] EXCEPT !.cause = why], why))
  /\ UNCHANGED others

Send(t) ==
  /\ call[t].pc = "send" /\ setup = "good"
  /\ SetCall(t, [call[t] EXCEPT !.pc = "gateway"])
  /\ UNCHANGED others

Started(c, admission, up) ==
  IF Generates(c.path, admission, up) THEN c.started + 1 ELSE c.started

Fate(admission, up) == IF admission # "admitted" THEN admission ELSE up

\* The gateway, with what Ollama does.  The model list is read here.
GatewayHandles(t) ==
  LET c == call[t] IN
  /\ c.pc = "gateway"
  /\ \E admission \in Admissions, up \in Upstreams :
       /\ Fate(admission, up) \in Fates[t]
       /\ admission # "admitted" => up = "ok"         \* Ollama is not asked
       /\ admission = "too large" => c.path = "chat"
       /\ up \in {"not json", "misshapen"} => ~Streaming(c)     \* see BodyEnds
       /\ SetCall(t, [c EXCEPT !.pc = "reply",
                               !.reply = GatewayStatus(c.path, admission, up),
                               !.cause = Fate(admission, up),
                               !.listed = IF c.path = "chat" THEN @ ELSE catalog,
                               !.started = Started(c, admission, up)])
  /\ UNCHANGED others

ReadReply(t) ==
  /\ call[t].pc = "reply"
  /\ SetCall(t, Concluded(call[t], call[t].reply))
  /\ UNCHANGED others

\* The client's own read timeout, or a broken connection; a request the gateway
\* has not handled yet may still be handled.  An answer may also break off.
GiveUp(t) ==
  LET c == call[t] IN
  /\ c.pc \in {"gateway", "reply"}
  /\ \E why \in {"read timeout", "broken", "truncated"} \cap Fates[t], begun \in 0..1 :
       /\ begun = 1 => c.pc = "gateway" /\ c.path = "chat"
       /\ why = "truncated" => c.pc = "reply" /\ ~Streaming(c)
       /\ SetCall(t, Concluded([c EXCEPT !.cause = why, !.started = @ + begun], why))
  /\ UNCHANGED others

Stored(n) == [catalog |-> n, live |-> TRUE]

\* available_models stores the list it received, whatever is stored by then.  One
\* that overlapped another may put an older list in place of a newer one.
StoreBy(t, stored) ==
  LET n == call[t].listed IN
  /\ call[t].pc = "store"
  /\ cache' = stored
  /\ newest' = MaxOf(newest, n)
  /\ due' = IF t \in racing THEN call[t].floor ELSE newest'
  /\ SetCall(t, Listed(call[t], n))
  /\ UNCHANGED <<catalog, setup, racing>>

\* Mutant: a forced refresh returns its list without storing it.
StoreUnforced(t) ==
  StoreBy(t, IF call[t].op = "health" THEN cache ELSE Stored(call[t].listed))

Store(t) == StoreBy(t, Stored(call[t].listed))

\* iter_lines: the body ends, with or without a "done" line, or has a line that
\* is not JSON, or stalls or breaks.
BodyEnds(t) ==
  /\ call[t].pc = "body"
  /\ \E end \in {"ended", "not json", "stalled", "cut"} :
       SetCall(t, Ended([call[t] EXCEPT !.cause = end],
                        CASE end = "ended"    -> "ok"
                          [] end = "not json" -> "error"
                          [] OTHER            -> "escaped"))
  /\ UNCHANGED others

-----------------------------------------------------------------------------

CacheExpires ==
  /\ cache.live
  /\ cache' = [cache EXCEPT !.live = FALSE]
  /\ UNCHANGED <<call, catalog, setup, newest, racing, due>>

\* Ollama: a model is installed or removed.
CatalogChanges ==
  /\ catalog < Len(Catalogs)
  /\ catalog' = catalog + 1
  /\ UNCHANGED <<call, cache, setup, newest, racing, due>>

CallStep(t) ==
  \/ NotSent(t) \/ Send(t) \/ GatewayHandles(t) \/ ReadReply(t) \/ GiveUp(t)
  \/ Store(t) \/ BodyEnds(t)

ClientNext ==
  \/ \E t \in Callers : (\E op \in CallsOf[t] : Call(t, op)) \/ CallStep(t)
  \/ CacheExpires
  \/ CatalogChanges

ClientSpec == ClientInit /\ [][ClientNext]_clientVars

-----------------------------------------------------------------------------
(* Properties *)

ClientTypeOK ==
  /\ call \in [Callers -> [op : Ops \cup {"none"},
                           pc : {"idle", "send", "gateway", "reply", "store", "body"},
                           path : {"none", "health", "tags", "chat"},
                           attempt : 1..Attempts,
                           reply : HttpStatuses \cup {"none"},
                           listed : 0..Len(Catalogs), floor : 0..Len(Catalogs),
                           result : Results, cause : Causes,
                           repeated : SUBSET (NoResponses \cup RetryStatus),
                           started : 0..Attempts]]
  /\ cache \in [catalog : 0..Len(Catalogs), live : BOOLEAN]
  /\ catalog \in 1..Len(Catalogs) /\ newest \in 0..Len(Catalogs)
  /\ setup \in {"good", "invalid", "keyless"}
  /\ racing \subseteq Callers /\ due \in 0..Len(Catalogs)

(* One question does not burn the GPU twice because it is slow: Ollama begins a
   second generation for the same call only if the gateway reported that it lost
   Ollama, or the connection broke - never because the client's read timeout or
   the gateway's ran out - and a streamed call begins at most one. *)
SlowChatsAreNotRepeated ==
  \A t \in Callers :
    /\ call[t].op = "stream" => call[t].started <= 1
    /\ call[t].started > 1 =>
         /\ {"502", "broken"} \cap call[t].repeated # {}
         /\ {"504", "read timeout"} \cap call[t].repeated = {}

(* The causes that may pass (_RETRYABLE_STATUS_CODES and the connection). *)
Transient == {"connect timeout", "refused", "read timeout", "broken", "truncated",
              "timeout", "429", "502", "503", "504"}

Retryable == {"timeout", "unavailable"}

(* The worker tries a job again after "timeout" and "unavailable".  Through both
   translations every cause that may pass is reported so, and nothing else is, with
   two exceptions of the code: on its way to the model list the gateway makes one
   503 of whatever Ollama answers, and a request that cannot be built passes for an
   unavailable gateway (client.py:165, 304; see ConfigErrorsFail).  Once the answer
   streams, an end that is not the end of the body is never taken for one: it is an
   error, or escapes as an exception that is not tried again. *)
RetryableMeansTransient ==
  \A t \in Callers : call[t].pc = "idle" /\ call[t].op # "none" =>
    LET cause == call[t].cause  result == call[t].result IN
    /\ cause \in Transient => result \in Retryable
    /\ result \in Retryable =>
         \/ cause \in Transient \cup {"invalid"}
         \/ call[t].path = "health" /\ cause \in {"not json", "404", "500"}
    /\ result = "ok" => cause \in {"none", "ok", "ended"}
    /\ result = "escaped" <=> cause \in {"stalled", "cut"}

(* AI_WORKER.md:67: errors of the configuration fail at once, so the client does not
   report them as something the worker tries again. *)
ConfigErrorsFail ==
  \A t \in Callers : call[t].pc = "idle" /\ call[t].cause \in {"invalid", "keyless"} =>
    call[t].result \notin Retryable

(* A model list is never behind one that was returned before: before the call began,
   if it fetched the list itself; if it took the cache, before the refresh that
   filled the cache began, and if that one overlapped no other refresh, before the
   call.  (Of two that overlap the slower one may store the older list.) *)
ListsDoNotGoBack ==
  \A t \in Callers : call[t].op # "list" /\ call[t].result = "ok" =>
    call[t].listed >= call[t].floor

=============================================================================
