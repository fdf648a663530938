-------------------------- MODULE OllamaClientProofs --------------------------
(***************************************************************************)
(* Proofs about the client of the AI gateway: ClientTypeOK and the three   *)
(* safety invariants of OllamaClient, for any number of threads, attempts  *)
(* and model lists.  They follow from ClientInv, which says of every call  *)
(* what is known at the place where it is: what its attempts have ended    *)
(* with and started (Counted), what the gateway made of the last one       *)
(* (Answered), and how new its model list is (Fresh); of the cache that it *)
(* is as new as it is due; and that a refresh that has overlapped no other *)
(* is the only one under way (OneRefresh), so that no other can have        *)
(* returned a newer list since it began.                                   *)
(***************************************************************************)
EXTENDS OllamaClient, TLAPS

-----------------------------------------------------------------------------
(* The invariant *)

\* A call, as in ClientTypeOK.
CallType == [op : Ops \cup {"none"},
             pc : {"idle", "send", "gateway", "reply", "store", "body"},
             path : {"none", "health", "tags", "chat"},
             attempt : 1..Attempts,
             reply : HttpStatuses \cup {"none"},
             listed : 0..Len(Catalogs), floor : 0..Len(Catalogs),
             result : Results, cause : Causes,
             repeated : SUBSET (NoResponses \cup RetryStatus),
             started : 0..Attempts]

\* The gateway lost Ollama, or the connection broke, in an attempt before this one.
LostOne(c) == {"502", "broken"} \cap c.repeated # {}

\* None of them ended because it took too long.
NoneSlow(c) == {"504", "read timeout"} \cap c.repeated = {}

\* The generations Ollama began for a call: one per attempt at most, and a second
\* one only after an attempt that was lost.
Counted(c) ==
  /\ c.pc \in {"send", "gateway"} => c.started < c.attempt /\ (c.started > 0 => LostOne(c))
  /\ c.pc = "reply" => /\ c.started <= c.attempt
                       /\ c.started > 0 =>
                             LostOne(c) \/ c.reply \in {"200", "500", "502", "504"}
  /\ c.started > 1 => LostOne(c)
  /\ NoneSlow(c)
  /\ c.path # "chat" => c.started = 0
  /\ c.op = "stream" => c.started <= 1 /\ (c.path = "chat" => c.attempt = 1)

\* What a result says about its cause, for a call that ended on this path.
Telling(path, cause, result) ==
  /\ cause \in Transient => result \in Retryable
  /\ result \in Retryable =>
       \/ cause \in Transient \cup {"invalid"}
       \/ path = "health" /\ cause \in {"not json", "404", "500"}
  /\ result = "ok" => cause \in {"none", "ok", "ended"}
  /\ result = "escaped" <=> cause \in {"stalled", "cut"}

\* What the gateway may have made of a request.
Handled(c, admission, up) ==
  /\ admission # "admitted" => up = "ok"
  /\ c.reply = GatewayStatus(c.path, admission, up)
  /\ c.cause = Fate(admission, up)

Answered(c) ==
  /\ c.pc # "idle" => c.op # "none" /\ c.path # "none"
  /\ c.pc # "idle" => c.result = "none"
  /\ c.path = "tags" => c.op = "list"
  /\ c.pc = "reply" => \E admission \in Admissions, up \in Upstreams : Handled(c, admission, up)
  /\ c.pc = "reply" /\ c.path = "health" => c.listed # 0
  /\ c.pc = "body" => c.path = "chat"
  /\ c.pc = "store" => c.path = "health" /\ c.cause = "ok" /\ c.listed # 0
  /\ c.pc = "idle" /\ c.op # "none" => Telling(c.path, c.cause, c.result)

\* The list a call works with, against the catalog, the newest list that was
\* returned, and whether its refresh has met another.
Fresh(c, now, best, met) ==
  /\ c.listed <= now /\ c.floor <= best
  /\ c.path = "health" /\ c.pc \in {"reply", "store"} =>
       c.listed >= c.floor /\ (~met => c.listed >= best)
  /\ c.op # "list" /\ (c.path = "chat" \/ (c.pc = "idle" /\ c.result = "ok")) =>
       c.listed >= c.floor

Sound(c, now, best, met) ==
  c \in CallType /\ Counted(c) /\ Answered(c) /\ Fresh(c, now, best, met)

CacheIsSound ==
  /\ cache \in [catalog : 0..Len(Catalogs), live : BOOLEAN]
  /\ catalog \in 1..Len(Catalogs)
  /\ newest \in 0..catalog
  /\ due \in 0..Len(Catalogs) /\ due <= newest
  /\ setup \in {"good", "invalid", "keyless"} /\ racing \subseteq Callers
  /\ cache.catalog <= catalog
  /\ cache.live => cache.catalog # 0 /\ cache.catalog >= due

OneRefresh ==
  \A t, u \in Refreshers : t \notin racing => t = u

ClientInv ==
  /\ CacheIsSound /\ OneRefresh
  /\ call \in [Callers -> CallType]
  /\ \A t \in Callers : Sound(call[t], catalog, newest, t \in racing)

-----------------------------------------------------------------------------
(* The records of calls, as a step changes them *)

LEMMA EndedFields ==
  ASSUME NEW c \in CallType, NEW result
  PROVE  /\ Ended(c, result).pc = "idle" /\ Ended(c, result).result = result
         /\ Ended(c, result).attempt = 1 /\ Ended(c, result).reply = "none"
         /\ Ended(c, result).op = c.op /\ Ended(c, result).path = c.path
         /\ Ended(c, result).listed = c.listed /\ Ended(c, result).floor = c.floor
         /\ Ended(c, result).cause = c.cause /\ Ended(c, result).repeated = c.repeated
         /\ Ended(c, result).started = c.started
         /\ result \in Results => Ended(c, result) \in CallType
  <1> 1 \in 1..Attempts  BY ClientAssumption
  <1> QED  BY DEF Ended, CallType

LEMMA RequestingFields ==
  ASSUME NEW c \in CallType, NEW path \in {"health", "tags", "chat"}
  PROVE  LET d == Requesting(c, path) IN
         /\ d \in CallType
         /\ d.pc = "send" /\ d.path = path /\ d.attempt = 1 /\ d.reply = "none"
         /\ d.cause = "none" /\ d.op = c.op /\ d.listed = c.listed /\ d.floor = c.floor
         /\ d.result = c.result /\ d.repeated = c.repeated /\ d.started = c.started
  <1> 1 \in 1..Attempts  BY ClientAssumption
  <1> path \in {"none", "health", "tags", "chat"}  OBVIOUS
  <1> DEFINE d == Requesting(c, path)
  <1> "none" \in Causes  BY DEF Causes
  <1>1. d \in CallType
    BY DEF Requesting, CallType
  <1>2. /\ d.pc = "send" /\ d.path = path /\ d.attempt = 1 /\ d.reply = "none"
        /\ d.cause = "none"
    BY DEF Requesting, CallType
  <1>3. /\ d.op = c.op /\ d.listed = c.listed /\ d.floor = c.floor
        /\ d.result = c.result /\ d.repeated = c.repeated /\ d.started = c.started
    BY DEF Requesting, CallType
  <1> QED  BY <1>1, <1>2, <1>3

\* The call makes its n-th attempt, those before it ended with r.
Again(c, n, r) == [c EXCEPT !.pc = "send", !.attempt = n, !.reply = "none",
                            !.cause = "none", !.repeated = r]

LEMMA AgainFields ==
  ASSUME NEW c \in CallType, NEW n \in 1..Attempts,
         NEW r \in SUBSET (NoResponses \cup RetryStatus)
  PROVE  /\ Again(c, n, r) \in CallType
         /\ Again(c, n, r).pc = "send" /\ Again(c, n, r).attempt = n
         /\ Again(c, n, r).reply = "none" /\ Again(c, n, r).cause = "none"
         /\ Again(c, n, r).repeated = r
         /\ Again(c, n, r).op = c.op /\ Again(c, n, r).path = c.path
         /\ Again(c, n, r).listed = c.listed /\ Again(c, n, r).floor = c.floor
         /\ Again(c, n, r).result = c.result /\ Again(c, n, r).started = c.started
  <1> "none" \in Causes  BY DEF Causes
  <1>1. Again(c, n, r) \in CallType
    BY DEF Again, CallType
  <1> QED  BY <1>1 DEF Again, CallType

LEMMA PlaceFields ==
  ASSUME NEW c \in CallType, NEW pc \in {"gateway", "store", "body"}
  PROVE  LET d == [c EXCEPT !.pc = pc] IN
         /\ d \in CallType
         /\ d.pc = pc /\ d.path = c.path /\ d.attempt = c.attempt /\ d.reply = c.reply
         /\ d.cause = c.cause /\ d.op = c.op /\ d.listed = c.listed /\ d.floor = c.floor
         /\ d.result = c.result /\ d.repeated = c.repeated /\ d.started = c.started
  BY DEF CallType

-----------------------------------------------------------------------------
(* How an attempt ends *)

\* What is known of a call whose attempt ends so: the rest of it is sound.
Ending(c, outcome) ==
  /\ c \in CallType
  /\ c.pc \in {"send", "gateway", "reply"}
  /\ c.op # "none" /\ c.path # "none" /\ c.result = "none"
  /\ c.path = "tags" => c.op = "list"
  /\ c.started <= c.attempt
  /\ c.started > 0 /\ Repeated(c.path, outcome) => LostOne(c) \/ outcome \in {"502", "broken"}
  /\ c.started > 1 => LostOne(c)
  /\ NoneSlow(c)
  /\ c.path # "chat" => c.started = 0
  /\ c.op = "stream" => c.started <= 1 /\ (c.path = "chat" => c.attempt = 1)
  /\ outcome = "200" => /\ c.cause \in {"ok", "not json", "misshapen"}
                        /\ c.path = "health" => c.cause = "ok" /\ c.listed # 0
  /\ outcome # "200" => Telling(c.path, c.cause, Raised(c.path, outcome))

LEMMA RaisedAnError ==
  ASSUME NEW path, NEW outcome
  PROVE  Raised(path, outcome) \in Results \ {"ok", "escaped"}
  BY DEF Raised, Results

LEMMA ConcludedIsSound ==
  ASSUME NEW c, NEW outcome, Ending(c, outcome)
  PROVE  /\ Concluded(c, outcome) \in CallType
         /\ Counted(Concluded(c, outcome)) /\ Answered(Concluded(c, outcome))
         /\ Concluded(c, outcome).op = c.op /\ Concluded(c, outcome).path = c.path
         /\ Concluded(c, outcome).listed = c.listed /\ Concluded(c, outcome).floor = c.floor
         /\ Concluded(c, outcome).pc # "reply"
         /\ Concluded(c, outcome).pc = "store" => outcome = "200"
         /\ Concluded(c, outcome).result = "ok" => c.path # "health"
  <1> /\ c \in CallType
      /\ c.started \in 0..Attempts /\ c.attempt \in 1..Attempts /\ Attempts \in Nat
      /\ c.path \in {"health", "tags", "chat"}
    BY ClientAssumption DEF Ending, CallType
  <1>1. CASE outcome = "200" /\ c.path = "health"
    <2> DEFINE d == [c EXCEPT !.pc = "store"]
    <2>1. Concluded(c, outcome) = d
      BY <1>1 DEF Concluded, Accepted, Streaming, Ending
    <2>2. d \in CallType /\ d.pc = "store" /\ d.path = c.path /\ d.attempt = c.attempt
          /\ d.cause = c.cause /\ d.op = c.op /\ d.listed = c.listed /\ d.floor = c.floor
          /\ d.result = c.result /\ d.repeated = c.repeated /\ d.started = c.started
      BY PlaceFields
    <2> HIDE DEF d
    <2>3. Counted(d) /\ Answered(d)
      BY <1>1, <2>2 DEF Ending, Counted, Answered, LostOne, NoneSlow
    <2> QED  BY <1>1, <2>1, <2>2, <2>3 DEF Ending
  <1>2. CASE outcome = "200" /\ Streaming(c)
    <2> DEFINE d == [c EXCEPT !.pc = "body"]
    <2>1. Concluded(c, outcome) = d  BY <1>2 DEF Concluded, Accepted
    <2>2. d \in CallType /\ d.pc = "body" /\ d.path = c.path /\ d.attempt = c.attempt
          /\ d.cause = c.cause /\ d.op = c.op /\ d.listed = c.listed /\ d.floor = c.floor
          /\ d.result = c.result /\ d.repeated = c.repeated /\ d.started = c.started
      BY PlaceFields
    <2> HIDE DEF d
    <2>3. Counted(d) /\ Answered(d)
      BY <1>2, <2>2 DEF Ending, Counted, Answered, LostOne, NoneSlow, Streaming
    <2> QED  BY <1>2, <2>1, <2>2, <2>3 DEF Ending, Streaming
  <1>3. CASE outcome = "200" /\ ~Streaming(c) /\ c.path # "health"
    <2> DEFINE r == IF c.cause = "ok" THEN "ok" ELSE "error"
               d == Ended(c, r)
    <2>1. Concluded(c, outcome) = d
      BY <1>3 DEF Concluded, Accepted, Ending
    <2> r \in {"ok", "error"} /\ r \in Results  BY DEF Results
    <2>a. r = "ok" => c.cause = "ok"  OBVIOUS
    <2>b. c.cause \in {"ok", "not json", "misshapen"}  BY <1>3 DEF Ending
    <2> HIDE DEF r
    <2>2. d \in CallType /\ d.pc = "idle" /\ d.path = c.path /\ d.attempt = 1
          /\ d.cause = c.cause /\ d.op = c.op /\ d.listed = c.listed /\ d.floor = c.floor
          /\ d.result = r /\ d.repeated = c.repeated /\ d.started = c.started
      BY EndedFields
    <2> HIDE DEF d
    <2>3. Counted(d)
      BY <1>3, <2>2 DEF Ending, Counted, LostOne, NoneSlow
    <2>4. Telling(d.path, d.cause, d.result)
      BY <2>2, <2>a, <2>b DEF Telling, Transient, Retryable
    <2>5. Answered(d)
      BY <1>3, <2>2, <2>4 DEF Ending, Answered
    <2> QED  BY <1>3, <2>1, <2>2, <2>3, <2>5
  <1>4. CASE /\ outcome # "200" /\ Repeated(c.path, outcome) /\ c.attempt < Attempts
             /\ ~Streaming(c)
    <2> DEFINE n == c.attempt + 1
               r == IF c.path = "chat" THEN c.repeated \cup {outcome} ELSE c.repeated
               d == Again(c, n, r)
    <2>1. Concluded(c, outcome) = d  BY <1>4 DEF Concluded, TriedAgain, Again
    <2> n \in 1..Attempts  BY <1>4
    <2> r \in SUBSET (NoResponses \cup RetryStatus)
      BY <1>4 DEF CallType, Repeated, NoResponses
    <2> HIDE DEF n, r
    <2>2. /\ d \in CallType /\ d.pc = "send" /\ d.path = c.path /\ d.attempt = n
          /\ d.cause = "none" /\ d.op = c.op /\ d.listed = c.listed /\ d.floor = c.floor
          /\ d.repeated = r /\ d.result = c.result /\ d.started = c.started
      BY AgainFields
    <2>b. c.started <= c.attempt /\ (c.path # "chat" => c.started = 0)
      BY DEF Ending
    <2>a. /\ c.started <= c.attempt /\ (c.path # "chat" => c.started = 0)
          /\ c.started > 1 => LostOne(c)
          /\ c.started > 0 => LostOne(c) \/ outcome \in {"502", "broken"}
          /\ NoneSlow(c)
          /\ c.op = "stream" => c.started <= 1
      BY <1>4 DEF Ending
    <2> HIDE DEF d
    <2>3. c.path = "chat" => outcome \notin {"504", "read timeout"}
      BY <1>4 DEF Repeated, RetryStatus
    <2>4. d.started > 0 => LostOne(d)
      <3> SUFFICES ASSUME d.started > 0  PROVE LostOne(d)
        OBVIOUS
      <3>1. c.started > 0 /\ c.path = "chat" /\ r = c.repeated \cup {outcome}
        <4>1. d.started = c.started  BY <2>2
        <4>2. c.started > 0  BY <4>1
        <4>3. c.path = "chat"  BY <4>2, <2>b
        <4> QED  BY <4>2, <4>3 DEF r
      <3>2. CASE LostOne(c)
        BY <2>2, <3>1, <3>2 DEF LostOne
      <3>3. CASE outcome \in {"502", "broken"}
        BY <2>2, <3>1, <3>3 DEF LostOne
      <3> QED  BY <2>a, <3>1, <3>2, <3>3
    <2>5. NoneSlow(d)
      BY <2>2, <2>3, <2>a DEF r, NoneSlow
    <2>6. Counted(d)
      <3>1. d.started < d.attempt
        <4>1. c.started \in Nat /\ c.attempt \in Nat  OBVIOUS
        <4>2. d.started = c.started /\ d.attempt = c.attempt + 1
          BY <2>2 DEF n
        <4>3. c.started < c.attempt + 1
          BY <4>1, <2>b
        <4> QED  BY <4>2, <4>3
      <3>2. d.path # "chat" => d.started = 0
        BY <2>2, <2>a
      <3>3. d.op = "stream" => d.started <= 1 /\ d.path # "chat"
        BY <1>4, <2>2, <2>a DEF Streaming
      <3>4. d.started > 1 => LostOne(d)
        BY <2>2, <2>4
      <3> QED  BY <2>2, <2>4, <2>5, <3>1, <3>2, <3>3, <3>4 DEF Counted
    <2>7. Answered(d)
      BY <1>4, <2>2 DEF Ending, Answered
    <2> QED  BY <2>1, <2>2, <2>6, <2>7 DEF Ending
  <1>5. CASE /\ outcome # "200"
             /\ ~(Repeated(c.path, outcome) /\ c.attempt < Attempts /\ ~Streaming(c))
    <2> DEFINE d == Ended(c, Raised(c.path, outcome))
    <2>1. Concluded(c, outcome) = d  BY <1>5 DEF Concluded
    <2>2. /\ d \in CallType /\ d.pc = "idle" /\ d.path = c.path /\ d.attempt = 1
          /\ d.cause = c.cause /\ d.op = c.op /\ d.listed = c.listed /\ d.floor = c.floor
          /\ d.repeated = c.repeated /\ d.result = Raised(c.path, outcome)
          /\ d.started = c.started
      BY EndedFields, RaisedAnError
    <2> HIDE DEF d
    <2>3. Counted(d) /\ Answered(d)
      BY <1>5, <2>2 DEF Ending, Counted, Answered, LostOne, NoneSlow
    <2> QED  BY <2>1, <2>2, <2>3, RaisedAnError
  <1> QED  BY <1>1, <1>2, <1>3, <1>4, <1>5

-----------------------------------------------------------------------------
(* A step of one thread *)

LEMMA StaysFresh ==
  ASSUME NEW c \in CallType, NEW now \in Nat, NEW best \in Nat, NEW best2 \in Nat,
         NEW met \in BOOLEAN, NEW met2 \in BOOLEAN, Fresh(c, now, best, met),
         best <= best2,
         \/ best2 = best /\ (met => met2)
         \/ met2
         \/ ~(c.path = "health" /\ c.pc \in {"reply", "store"})
  PROVE  Fresh(c, now, best2, met2)
  <1> c.listed \in Nat /\ c.floor \in Nat  BY ClientAssumption DEF CallType
  <1> QED  BY DEF Fresh

\* What a step of the thread t makes of the refreshes under way: it begins one, or
\* it may end one.
RefreshesMove(t, c) ==
  \/ racing' = racing /\ (c.pc # "idle" /\ c.path = "health" => t \in Refreshers)
  \/ racing' = (IF Refreshers = {} THEN {} ELSE Refreshers \cup {t}) /\ newest' = newest

LEMMA CallBecomes ==
  ASSUME ClientInv, NEW t \in Callers, NEW c, call' = [call EXCEPT ![t] = c],
         CacheIsSound', catalog' = catalog, newest <= newest',
         newest' = newest \/ t \in Refreshers, RefreshesMove(t, c),
         Sound(c, catalog', newest', t \in racing')
  PROVE  ClientInv'
  <1>1. c \in CallType  BY DEF Sound
  <1>2. call' \in [Callers -> CallType]
    BY <1>1 DEF ClientInv
  <1>a. Refreshers' \subseteq Refreshers \cup {t}
    BY DEF Refreshers, ClientInv
  <1>3. OneRefresh'
    <2> SUFFICES ASSUME NEW u \in Refreshers', NEW v \in Refreshers', u \notin racing'
                 PROVE  u = v
      BY DEF OneRefresh
    <2>1. CASE racing' = racing /\ (c.pc # "idle" /\ c.path = "health" => t \in Refreshers)
      <3>1. u \in Refreshers /\ v \in Refreshers
        BY <2>1 DEF Refreshers, ClientInv
      <3> QED  BY <2>1, <3>1 DEF ClientInv, OneRefresh
    <2>2. CASE racing' = IF Refreshers = {} THEN {} ELSE Refreshers \cup {t}
      BY <1>a, <2>2
    <2> QED  BY <2>1, <2>2 DEF RefreshesMove
  <1>4. ASSUME NEW u \in Callers
        PROVE  Sound(call'[u], catalog', newest', u \in racing')
    <2>1. CASE u = t
      BY <2>1 DEF ClientInv
    <2>2. CASE u # t
      <3>1. call'[u] = call[u] /\ Sound(call[u], catalog, newest, u \in racing)
        BY <2>2 DEF ClientInv
      <3>a. call[u].path = "health" /\ call[u].pc \in {"reply", "store"} => u \in Refreshers
        BY DEF Refreshers
      <3>2. \/ newest' = newest /\ (u \in racing => u \in racing')
            \/ u \in racing'
            \/ ~(call[u].path = "health" /\ call[u].pc \in {"reply", "store"})
        <4>1. CASE racing' = racing
          BY <2>2, <3>a, <4>1 DEF ClientInv, OneRefresh
        <4>2. CASE racing' = (IF Refreshers = {} THEN {} ELSE Refreshers \cup {t})
          BY <3>a, <4>2
        <4> QED  BY <4>1, <4>2 DEF RefreshesMove
      <3>3. catalog \in Nat /\ newest \in Nat /\ newest' \in Nat
        BY ClientAssumption DEF ClientInv, CacheIsSound
      <3>b. call[u] \in CallType /\ Fresh(call[u], catalog, newest, u \in racing)
        BY <3>1 DEF Sound
      <3>c. (u \in racing) \in BOOLEAN /\ (u \in racing') \in BOOLEAN
        OBVIOUS
      <3>4. Fresh(call[u], catalog, newest', u \in racing')
        BY <3>b, <3>c, <3>2, <3>3, StaysFresh, Zenon
      <3> QED  BY <3>1, <3>4 DEF Sound
    <2> QED  BY <2>1, <2>2
  <1> QED  BY <1>2, <1>3, <1>4 DEF ClientInv

LEMMA OthersStay ==
  ASSUME ClientInv, UNCHANGED others
  PROVE  /\ CacheIsSound' /\ newest <= newest'
         /\ newest' = newest /\ catalog' = catalog /\ racing' = racing
  <1>1. newest \in Nat  BY ClientAssumption DEF ClientInv, CacheIsSound
  <1>2. UNCHANGED <<cache, catalog, setup, newest, racing, due>>  BY DEF others
  <1> QED  BY <1>1, <1>2 DEF ClientInv, CacheIsSound

LEMMA ConcludedBecomes ==
  ASSUME ClientInv, NEW t \in Callers, NEW c, NEW outcome, Ending(c, outcome),
         call' = [call EXCEPT ![t] = Concluded(c, outcome)],
         UNCHANGED others,
         c.op = call[t].op, c.path = call[t].path, c.pc = call[t].pc,
         c.listed = call[t].listed, c.floor = call[t].floor,
         outcome = "200" => call[t].pc = "reply"
  PROVE  ClientInv'
  <1> DEFINE d == Concluded(c, outcome)
  <1>1. /\ d \in CallType /\ Counted(d) /\ Answered(d)
        /\ d.op = c.op /\ d.path = c.path /\ d.listed = c.listed /\ d.floor = c.floor
        /\ d.pc # "reply" /\ (d.pc = "store" => outcome = "200")
        /\ d.result = "ok" => c.path # "health"
    BY ConcludedIsSound
  <1>2. call' = [call EXCEPT ![t] = d]  OBVIOUS
  <1> HIDE DEF d
  <1>3. Sound(call[t], catalog, newest, t \in racing)  BY DEF ClientInv
  <1>4. call[t].pc \in {"send", "gateway", "reply"} /\ c.path # "none"
        /\ (c.path = "tags" => c.op = "list") /\ c.path \in {"none", "health", "tags", "chat"}
    BY DEF Ending, CallType
  <1>5. Fresh(d, catalog, newest, t \in racing)
    BY <1>1, <1>3, <1>4 DEF Sound, Fresh
  <1>8. /\ CacheIsSound' /\ newest <= newest'
        /\ newest' = newest /\ catalog' = catalog /\ racing' = racing
    BY OthersStay
  <1>6. Sound(d, catalog', newest', t \in racing')
    BY <1>1, <1>5, <1>8 DEF Sound
  <1>7. RefreshesMove(t, d)
    BY <1>1, <1>4, <1>8 DEF RefreshesMove, Refreshers
  <1> QED  BY <1>2, <1>6, <1>7, <1>8, CallBecomes

-----------------------------------------------------------------------------
(* The initial state, and the steps *)

LEMMA NothingStarted ==
  ASSUME NEW c, c.pc # "reply", c.attempt = 1, c.started = 0,
         NoneSlow(c)
  PROVE  Counted(c)
  <1>1. ~(c.started > 0) /\ ~(c.started > 1) /\ c.started < c.attempt /\ c.started <= 1
    OBVIOUS
  <1> QED  BY <1>1 DEF Counted

Beginning(op, floor) == [NoCall EXCEPT !.op = op, !.floor = floor]

LEMMA NoCallFields ==
  ASSUME NEW op \in Ops \cup {"none"}, NEW floor \in 0..Len(Catalogs)
  PROVE  LET c == Beginning(op, floor) IN
         /\ c \in CallType
         /\ c.op = op /\ c.floor = floor /\ c.pc = "idle" /\ c.path = "none"
         /\ c.attempt = 1 /\ c.reply = "none" /\ c.listed = 0 /\ c.result = "none"
         /\ c.cause = "none" /\ c.repeated = {} /\ c.started = 0
  <1> /\ 1 \in 1..Attempts /\ 0 \in 0..Attempts /\ 0 \in 0..Len(Catalogs)
    BY ClientAssumption
  <1> "none" \in Causes /\ "none" \in Results  BY DEF Causes, Results
  <1> QED  BY DEF Beginning, NoCall, CallType

LEMMA InitClientInv == ClientInit => ClientInv
  <1> SUFFICES ASSUME ClientInit  PROVE ClientInv
    OBVIOUS
  <1> /\ 1 \in 1..Attempts /\ 0 \in 0..Attempts /\ 0 \in 0..Len(Catalogs)
      /\ 1 \in 1..Len(Catalogs)
    BY ClientAssumption
  <1> "none" \in Causes /\ "none" \in Results  BY DEF Causes, Results
  <1>1. NoCall \in CallType
    BY DEF NoCall, CallType
  <1>2. Counted(NoCall)
    <2> NoneSlow(NoCall)  BY DEF NoCall, NoneSlow
    <2> QED  BY NothingStarted DEF NoCall
  <1>3. Answered(NoCall)
    BY DEF NoCall, Answered
  <1>4. ASSUME NEW met  PROVE Fresh(NoCall, 1, 0, met)
    BY DEF NoCall, Fresh
  <1>5. CacheIsSound
    <2>1. cache = [catalog |-> 0, live |-> FALSE] /\ catalog = 1 /\ newest = 0
          /\ due = 0 /\ racing = {} /\ setup \in {"good", "invalid", "keyless"}
      BY DEF ClientInit
    <2>2. cache \in [catalog : 0..Len(Catalogs), live : BOOLEAN] /\ cache.catalog = 0
          /\ cache.live = FALSE
      BY <2>1
    <2>3. newest \in 0..catalog /\ due \in 0..Len(Catalogs) /\ due <= newest
      BY <2>1
    <2>4. cache.catalog <= catalog
      BY <2>1, <2>2
    <2> QED  BY <2>1, <2>2, <2>3, <2>4 DEF CacheIsSound
  <1>6. OneRefresh
    BY DEF ClientInit, OneRefresh, Refreshers, NoCall
  <1> QED  BY <1>1, <1>2, <1>3, <1>4, <1>5, <1>6 DEF ClientInit, ClientInv, Sound

\* A call that has asked for the list, or has found it in the cache.
Unasked(c) ==
  /\ c \in CallType /\ c.op # "none" /\ c.started = 0
  /\ NoneSlow(c)
  /\ c.result = "none" /\ c.path # "tags" /\ c.cause \in {"none", "ok"}

\* It ends, or asks for the answer.
LEMMA ListedFields ==
  ASSUME NEW c, NEW n \in 0..Len(Catalogs), Unasked(c)
  PROVE  LET d == Listed(c, n) IN
         /\ d \in CallType /\ Counted(d) /\ Answered(d)
         /\ d.op = c.op /\ d.listed = n /\ d.floor = c.floor
         /\ d.pc \in {"idle", "send"} /\ (d.pc = "send" => d.path = "chat")
  <1> "ok" \in Results /\ "missing" \in Results  BY DEF Results
  <1> DEFINE x == [c EXCEPT !.listed = n]
  <1>0. c \in CallType  BY DEF Unasked
  <1>1. /\ x \in CallType
        /\ x.op = c.op /\ x.listed = n /\ x.floor = c.floor /\ x.path = c.path
        /\ x.cause = c.cause /\ x.result = c.result /\ x.repeated = c.repeated
        /\ x.started = c.started
    BY <1>0 DEF CallType
  <1> HIDE DEF x
  <1>5. c.op # "none" /\ c.result = "none" /\ c.path # "tags" /\ c.cause \in {"none", "ok"}
    BY DEF Unasked
  <1>6. c.started = 0
    BY DEF Unasked
  <1>7. NoneSlow(c)
    BY DEF Unasked
  <1>2. CASE c.op \notin {"chat", "stream"}
    <2> DEFINE d == Ended(x, "ok")
    <2>1. Listed(c, n) = d
      BY <1>2 DEF Listed, x
    <2>2. /\ d \in CallType /\ d.op = c.op /\ d.listed = n /\ d.floor = c.floor
          /\ d.pc = "idle" /\ d.path = c.path /\ d.cause = c.cause /\ d.result = "ok"
          /\ d.attempt = 1 /\ d.repeated = c.repeated /\ d.started = 0
      BY <1>1, <1>5, <1>6, EndedFields
    <2> HIDE DEF d
    <2>3. Counted(d)
      <3>1. NoneSlow(d)  BY <1>7, <2>2 DEF NoneSlow
      <3> QED  BY <2>2, <3>1, NothingStarted
    <2>4. Answered(d)
      BY <1>5, <2>2 DEF Answered, Telling, Transient, Retryable
    <2> QED  BY <2>1, <2>2, <2>3, <2>4
  <1>3. CASE c.op \in {"chat", "stream"} /\ Wanted \in Catalogs[n]
    <2> DEFINE d == Requesting(x, "chat")
    <2>1. Listed(c, n) = d
      BY <1>3 DEF Listed, x
    <2>2. /\ d \in CallType /\ d.op = c.op /\ d.listed = n /\ d.floor = c.floor
          /\ d.pc = "send" /\ d.path = "chat" /\ d.cause = "none" /\ d.result = "none"
          /\ d.attempt = 1 /\ d.repeated = c.repeated /\ d.started = 0
      BY <1>1, <1>5, <1>6, RequestingFields
    <2> HIDE DEF d
    <2>3. Counted(d)
      <3>1. NoneSlow(d)  BY <1>7, <2>2 DEF NoneSlow
      <3> QED  BY <2>2, <3>1, NothingStarted
    <2>4. Answered(d)
      BY <1>5, <2>2 DEF Answered
    <2> QED  BY <2>1, <2>2, <2>3, <2>4
  <1>4. CASE c.op \in {"chat", "stream"} /\ Wanted \notin Catalogs[n]
    <2> DEFINE y == [x EXCEPT !.cause = "not listed"]
               d == Ended(y, "missing")
    <2>1. Listed(c, n) = d
      BY <1>4 DEF Listed, x
    <2>2. /\ y \in CallType /\ y.op = c.op /\ y.listed = n /\ y.floor = c.floor
          /\ y.path = c.path /\ y.cause = "not listed" /\ y.repeated = c.repeated
          /\ y.started = 0
      <3> "not listed" \in Causes  BY DEF Causes
      <3> QED  BY <1>1, <1>6 DEF CallType
    <2> HIDE DEF y
    <2>3. /\ d \in CallType /\ d.op = c.op /\ d.listed = n /\ d.floor = c.floor
          /\ d.pc = "idle" /\ d.path = c.path /\ d.cause = "not listed"
          /\ d.result = "missing" /\ d.attempt = 1 /\ d.repeated = c.repeated
          /\ d.started = 0
      <3>0. y \in CallType  BY <2>2
      <3>1. /\ d \in CallType /\ d.op = y.op /\ d.listed = y.listed /\ d.floor = y.floor
            /\ d.pc = "idle" /\ d.path = y.path /\ d.cause = y.cause
            /\ d.result = "missing" /\ d.attempt = 1 /\ d.repeated = y.repeated
            /\ d.started = y.started
        BY <3>0, EndedFields
      <3> QED  BY <2>2, <3>1
    <2> HIDE DEF d
    <2>4. Counted(d)
      <3>1. NoneSlow(d)  BY <1>7, <2>3 DEF NoneSlow
      <3> QED  BY <2>3, <3>1, NothingStarted
    <2>5. Answered(d)
      BY <1>5, <2>3 DEF Answered, Telling, Transient, Retryable
    <2> QED  BY <2>1, <2>3, <2>4, <2>5
  <1> QED  BY <1>2, <1>3, <1>4

LEMMA CallBegins ==
  ASSUME ClientInv, NEW t \in Callers, NEW op \in Ops, Call(t, op)
  PROVE  ClientInv'
  <1>0. /\ newest \in 0..Len(Catalogs) /\ newest \in Nat /\ catalog \in Nat
        /\ newest <= catalog /\ due \in 0..Len(Catalogs) /\ due \in Nat /\ due <= newest
        /\ cache.catalog \in 0..Len(Catalogs) /\ cache.catalog <= catalog
    BY ClientAssumption DEF ClientInv, CacheIsSound
  <1>1. UNCHANGED <<cache, catalog, setup, newest, due>>
    BY DEF Call
  <1>2. racing' \subseteq Callers => CacheIsSound'
    BY <1>1 DEF ClientInv, CacheIsSound
  <1>3. newest <= newest' /\ newest' = newest /\ catalog' = catalog
    BY <1>0, <1>1
  <1>4. CASE ListModels(t, op)
    <2> DEFINE c == Beginning(op, newest)
               d == Requesting(c, "tags")
    <2>1. c \in CallType /\ c.op = op /\ c.floor = newest /\ c.listed = 0
          /\ c.result = "none" /\ c.repeated = {} /\ c.started = 0
      <3>1. op \in Ops \cup {"none"}  OBVIOUS
      <3> QED  BY <1>0, <3>1, NoCallFields
    <2>2. op = "list" /\ call' = [call EXCEPT ![t] = d] /\ racing' = racing
      BY <1>4 DEF ListModels, SetCall, Beginning
    <2> HIDE DEF c
    <2>3. /\ d \in CallType
          /\ d.pc = "send" /\ d.path = "tags" /\ d.attempt = 1 /\ d.cause = "none"
          /\ d.op = "list" /\ d.listed = 0 /\ d.floor = newest /\ d.result = "none"
          /\ d.repeated = {} /\ d.started = 0
      BY <2>1, <2>2, RequestingFields
    <2> HIDE DEF d
    <2>4. Counted(d) /\ Answered(d)
      <3>1. NoneSlow(d)  BY <2>3 DEF NoneSlow
      <3>2. Counted(d)  BY <2>3, <3>1, NothingStarted
      <3>3. Answered(d)  BY <2>3 DEF Answered, Ops
      <3> QED  BY <3>2, <3>3
    <2>5. Fresh(d, catalog', newest', t \in racing')
      BY <1>0, <1>3, <2>3 DEF Fresh
    <2>6. RefreshesMove(t, d)
      BY <2>2, <2>3 DEF RefreshesMove
    <2>7. CacheIsSound'
      BY <1>2, <2>2 DEF ClientInv, CacheIsSound
    <2> QED  BY <1>3, <2>2, <2>3, <2>4, <2>5, <2>6, <2>7, CallBecomes DEF Sound
  <1>5. CASE FromCache(t, op)
    <2> DEFINE c == Beginning(op, due)
               d == Listed(c, cache.catalog)
    <2>1. /\ c \in CallType /\ c.op = op /\ c.floor = due /\ c.path = "none"
          /\ c.cause = "none" /\ c.result = "none" /\ c.repeated = {} /\ c.started = 0
      <3>1. op \in Ops \cup {"none"}  OBVIOUS
      <3> QED  BY <1>0, <3>1, NoCallFields
    <2>2. op # "list" /\ cache.live /\ call' = [call EXCEPT ![t] = d] /\ racing' = racing
      BY <1>5 DEF FromCache, SetCall, Beginning
    <2> HIDE DEF c
    <2>3. /\ d \in CallType /\ Counted(d) /\ Answered(d)
          /\ d.op = c.op /\ d.listed = cache.catalog /\ d.floor = due
          /\ d.pc \in {"idle", "send"} /\ (d.pc = "send" => d.path = "chat")
      <3>1. NoneSlow(c)  BY <2>1 DEF NoneSlow
      <3>2. Unasked(c)  BY <2>1, <3>1 DEF Unasked, Ops
      <3> QED  BY <1>0, <2>1, <3>2, ListedFields
    <2> HIDE DEF d
    <2>4. cache.catalog >= due
      BY <2>2 DEF ClientInv, CacheIsSound
    <2>5. Fresh(d, catalog', newest', t \in racing')
      BY <1>0, <1>3, <2>3, <2>4 DEF Fresh
    <2>6. RefreshesMove(t, d)
      BY <2>2, <2>3 DEF RefreshesMove
    <2>7. CacheIsSound'
      BY <1>2, <2>2 DEF ClientInv, CacheIsSound
    <2> QED  BY <1>3, <2>2, <2>3, <2>5, <2>6, <2>7, CallBecomes DEF Sound
  <1>6. CASE Refresh(t, op)
    <2> DEFINE c == Beginning(op, newest)
               d == Requesting(c, "health")
    <2>1. c \in CallType /\ c.op = op /\ c.floor = newest /\ c.listed = 0
          /\ c.result = "none" /\ c.repeated = {} /\ c.started = 0
      <3>1. op \in Ops \cup {"none"}  OBVIOUS
      <3> QED  BY <1>0, <3>1, NoCallFields
    <2>2. /\ op # "list" /\ call' = [call EXCEPT ![t] = d]
          /\ racing' = IF Refreshers = {} THEN {} ELSE Refreshers \cup {t}
      BY <1>6 DEF Refresh, SetCall, Beginning
    <2> HIDE DEF c
    <2>3. /\ d \in CallType
          /\ d.pc = "send" /\ d.path = "health" /\ d.attempt = 1 /\ d.cause = "none"
          /\ d.op = op /\ d.listed = 0 /\ d.floor = newest /\ d.result = "none"
          /\ d.repeated = {} /\ d.started = 0
      BY <2>1, <2>2, RequestingFields
    <2> HIDE DEF d
    <2>4. Counted(d) /\ Answered(d)
      <3>1. NoneSlow(d)  BY <2>3 DEF NoneSlow
      <3>2. Counted(d)  BY <2>3, <3>1, NothingStarted
      <3>3. Answered(d)  BY <2>3 DEF Answered, Ops
      <3> QED  BY <3>2, <3>3
    <2>5. Fresh(d, catalog', newest', t \in racing')
      BY <1>0, <1>3, <2>3 DEF Fresh
    <2>6. RefreshesMove(t, d)
      BY <1>3, <2>2 DEF RefreshesMove
    <2>7. CacheIsSound'
      BY <1>2, <2>2 DEF Refreshers
    <2> QED  BY <1>3, <2>2, <2>3, <2>4, <2>5, <2>6, <2>7, CallBecomes DEF Sound
  <1> QED  BY <1>4, <1>5, <1>6 DEF Call

LEMMA CauseFields ==
  ASSUME NEW c \in CallType, NEW why \in Causes
  PROVE  LET d == [c EXCEPT !.cause = why] IN
         /\ d \in CallType
         /\ d.cause = why /\ d.pc = c.pc /\ d.path = c.path /\ d.attempt = c.attempt
         /\ d.reply = c.reply /\ d.op = c.op /\ d.listed = c.listed /\ d.floor = c.floor
         /\ d.result = c.result /\ d.repeated = c.repeated /\ d.started = c.started
  BY DEF CallType

\* What the client itself makes of an attempt that brought no response.
LEMMA TellsNoResponse ==
  ASSUME NEW path, NEW why \in NoResponses
  PROVE  Telling(path, why, Raised(path, why))
  BY DEF NoResponses, Telling, Raised, Transient, Retryable

\* What it makes of a response, given what happened at the gateway.
LEMMA TellsResponse ==
  ASSUME NEW c, NEW admission \in Admissions, NEW up \in Upstreams,
         Handled(c, admission, up), c.path \in {"health", "tags", "chat"}
  PROVE  /\ c.reply = "200" => /\ c.cause \in {"ok", "not json", "misshapen"}
                               /\ c.path = "health" => c.cause = "ok"
         /\ c.reply # "200" => Telling(c.path, c.cause, Raised(c.path, c.reply))
  <1> USE DEF Telling, Raised, Transient, Retryable, GatewayStatus, Translated, Forwarded,
              HealthStatus, UpstreamError, ErrorStatuses, Fate
  <1>1. CASE admission # "admitted"
    BY <1>1 DEF Handled, Admissions
  <1>2. CASE admission = "admitted" /\ c.path = "health"
    BY <1>2 DEF Handled, Upstreams
  <1>3. CASE admission = "admitted" /\ c.path # "health"
    <2>1. CASE up \in ErrorStatuses
      BY <1>3, <2>1 DEF Handled
    <2>2. CASE up \notin ErrorStatuses
      BY <1>3, <2>2 DEF Handled, Upstreams
    <2> QED  BY <2>1, <2>2
  <1> QED  BY <1>1, <1>2, <1>3

\* An attempt of the call k that brings no response: the connection fails, or the
\* client gives up on a request that may have made Ollama begin.
NoResponse(k, c, why) ==
  /\ k \in CallType /\ c \in CallType /\ why \in NoResponses
  /\ Counted(k) /\ Answered(k) /\ k.pc \in {"send", "gateway", "reply"}
  /\ k.pc # "send" => why \in {"read timeout", "broken", "truncated"}
  /\ c.pc = k.pc /\ c.op = k.op /\ c.path = k.path /\ c.attempt = k.attempt
  /\ c.result = k.result /\ c.repeated = k.repeated /\ c.cause = why
  /\ \/ c.started = k.started
     \/ k.pc = "gateway" /\ c.path = "chat" /\ c.started = k.started + 1

LEMMA NoResponseEnds ==
  ASSUME NEW k, NEW c, NEW why, NoResponse(k, c, why)
  PROVE  Ending(c, why)
  <1>1. k.started \in Nat /\ k.attempt \in Nat /\ k \in CallType
    <2>1. k \in CallType  BY DEF NoResponse
    <2> QED  BY <2>1, ClientAssumption DEF CallType
  <1>a. /\ c.attempt = k.attempt
        /\ c.started = k.started \/ (k.pc = "gateway" /\ c.path = "chat"
                                     /\ c.started = k.started + 1)
    BY DEF NoResponse
  <1>b. /\ k.pc \in {"send", "gateway"} => k.started < k.attempt /\ (k.started > 0 => LostOne(k))
        /\ k.pc = "reply" => k.started <= k.attempt
        /\ k.started > 1 => LostOne(k)
    BY DEF NoResponse, Counted
  <1>c. k.pc \in {"send", "gateway", "reply"} /\ c.path = k.path /\ c.op = k.op
    BY DEF NoResponse
  <1>d. /\ k.path # "chat" => k.started = 0
        /\ k.op = "stream" => k.started <= 1 /\ (k.path = "chat" => k.attempt = 1)
    BY DEF NoResponse, Counted
  <1>e. c.repeated = k.repeated /\ NoneSlow(k)
    BY DEF NoResponse, Counted
  <1>2. NoneSlow(c) /\ (LostOne(c) <=> LostOne(k))
    BY <1>e DEF NoneSlow, LostOne
  <1>3. c.started <= c.attempt
    BY <1>1, <1>a, <1>b, <1>c
  <1>4. c.path # "chat" => c.started = 0
    BY <1>a, <1>c, <1>d
  <1>5. c.started > 1 => LostOne(c)
    BY <1>1, <1>2, <1>a, <1>b
  <1>6. c.op = "stream" => c.started <= 1 /\ (c.path = "chat" => c.attempt = 1)
    BY <1>1, <1>a, <1>b, <1>c, <1>d
  <1>7. c.started > 0 /\ Repeated(c.path, why) => LostOne(c) \/ why \in {"502", "broken"}
    <2>1. CASE k.pc = "send"
      BY <1>2, <1>a, <1>b, <2>1
    <2>2. CASE k.pc # "send"
      <3>1. why \in {"read timeout", "broken", "truncated"}
        BY <2>2 DEF NoResponse
      <3>2. why \in {"read timeout", "truncated"} /\ c.path = "chat" => ~Repeated(c.path, why)
        BY DEF Repeated, RetryStatus
      <3>3. c.started > 0 => c.path = "chat"
        BY <1>4
      <3> QED  BY <3>1, <3>2, <3>3
    <2> QED  BY <2>1, <2>2
  <1>8. Telling(c.path, c.cause, Raised(c.path, why)) /\ why # "200"
    BY TellsNoResponse DEF NoResponse, NoResponses
  <1>9. /\ c.op # "none" /\ c.path # "none" /\ c.result = "none" /\ c \in CallType
        /\ (c.path = "tags" => c.op = "list") /\ c.pc \in {"send", "gateway", "reply"}
    BY DEF Answered, NoResponse
  <1> QED  BY <1>2, <1>3, <1>4, <1>5, <1>6, <1>7, <1>8, <1>9 DEF Ending

LEMMA NotSentStep ==
  ASSUME ClientInv, NEW t \in Callers, NotSent(t)
  PROVE  ClientInv'
  <1>1. PICK why \in Unsent \cap Fates[t] :
          call' = [call EXCEPT ![t] = Concluded([call[t] EXCEPT !.cause = why], why)]
    BY DEF NotSent, SetCall
  <1> DEFINE k == call[t]
             c == [k EXCEPT !.cause = why]
  <1>2. /\ k \in CallType /\ Counted(k) /\ Answered(k) /\ k.pc = "send"
        /\ UNCHANGED others
    BY DEF NotSent, ClientInv, Sound
  <1>3. call' = [call EXCEPT ![t] = Concluded(c, why)]
    BY <1>1
  <1> HIDE DEF k
  <1>4. why \in Causes /\ why \in NoResponses /\ why # "200"
    <2>1. why \in {"connect timeout", "refused", "invalid", "keyless"}
      BY DEF Unsent, ClientInv, CacheIsSound
    <2> QED  BY <2>1 DEF Causes, NoResponses
  <1>5. /\ c \in CallType
        /\ c.cause = why /\ c.pc = k.pc /\ c.path = k.path /\ c.attempt = k.attempt
        /\ c.reply = k.reply /\ c.op = k.op /\ c.listed = k.listed /\ c.floor = k.floor
        /\ c.result = k.result /\ c.repeated = k.repeated /\ c.started = k.started
    BY <1>2, <1>4, CauseFields
  <1> HIDE DEF c
  <1>6. Ending(c, why)
    <2>1. NoResponse(k, c, why)
      BY <1>2, <1>4, <1>5 DEF NoResponse
    <2> QED  BY <2>1, NoResponseEnds
  <1> QED  BY <1>2, <1>3, <1>4, <1>5, <1>6, ConcludedBecomes DEF k

LEMMA SendStep ==
  ASSUME ClientInv, NEW t \in Callers, Send(t)
  PROVE  ClientInv'
  <1> DEFINE k == call[t]
             c == [k EXCEPT !.pc = "gateway"]
  <1>1. /\ k \in CallType /\ Counted(k) /\ Answered(k) /\ k.pc = "send"
        /\ Fresh(k, catalog, newest, t \in racing)
        /\ call' = [call EXCEPT ![t] = c] /\ UNCHANGED others
    BY DEF Send, SetCall, ClientInv, Sound
  <1>2. k.path = "health" => t \in Refreshers
    BY <1>1 DEF Refreshers
  <1>3. /\ CacheIsSound' /\ newest <= newest'
        /\ newest' = newest /\ catalog' = catalog /\ racing' = racing
    BY <1>1, OthersStay
  <1> HIDE DEF k
  <1>4. /\ c \in CallType
        /\ c.pc = "gateway" /\ c.path = k.path /\ c.attempt = k.attempt /\ c.reply = k.reply
        /\ c.cause = k.cause /\ c.op = k.op /\ c.listed = k.listed /\ c.floor = k.floor
        /\ c.result = k.result /\ c.repeated = k.repeated /\ c.started = k.started
    BY <1>1, PlaceFields
  <1> HIDE DEF c
  <1>5. NoneSlow(c) /\ (LostOne(c) <=> LostOne(k))
    BY <1>1, <1>4 DEF Counted, NoneSlow, LostOne
  <1>6. Counted(c)
    BY <1>1, <1>4, <1>5 DEF Counted
  <1>7. Answered(c)
    BY <1>1, <1>4 DEF Answered
  <1>8. Fresh(c, catalog, newest, t \in racing)
    BY <1>1, <1>4 DEF Fresh
  <1>9. Sound(c, catalog', newest', t \in racing')
    BY <1>1, <1>3, <1>4, <1>6, <1>7, <1>8 DEF Sound
  <1>10. RefreshesMove(t, c)
    BY <1>2, <1>3, <1>4 DEF RefreshesMove
  <1> QED  BY <1>1, <1>3, <1>9, <1>10, CallBecomes

Replied(k, reply, cause, listed, started) ==
  [k EXCEPT !.pc = "reply", !.reply = reply, !.cause = cause, !.listed = listed,
            !.started = started]

LEMMA GatewayFields ==
  ASSUME NEW k \in CallType, NEW listed \in 0..Len(Catalogs), NEW started \in 0..Attempts,
         NEW cause \in Causes,
         NEW reply \in HttpStatuses \cup {"none"}
  PROVE  LET d == Replied(k, reply, cause, listed, started) IN
         /\ d \in CallType
         /\ d.pc = "reply" /\ d.reply = reply /\ d.cause = cause /\ d.listed = listed
         /\ d.started = started /\ d.path = k.path /\ d.attempt = k.attempt
         /\ d.op = k.op /\ d.floor = k.floor /\ d.result = k.result
         /\ d.repeated = k.repeated
  BY DEF Replied, CallType

LEMMA GatewayStatuses ==
  ASSUME NEW path, NEW admission \in Admissions, NEW up \in Upstreams
  PROVE  /\ GatewayStatus(path, admission, up) \in HttpStatuses
         /\ Generates(path, admission, up) =>
              GatewayStatus(path, admission, up) \in {"200", "500", "502", "504"}
  <1> USE DEF GatewayStatus, Translated, Forwarded, HealthStatus, UpstreamError, Upstreams,
              ErrorStatuses, HttpStatuses, Admissions, Generates
  <1>1. CASE admission # "admitted"
    BY <1>1
  <1>2. CASE admission = "admitted" /\ path = "health"
    BY <1>2
  <1>3. CASE admission = "admitted" /\ path # "health"
    BY <1>3
  <1> QED  BY <1>1, <1>2, <1>3

LEMMA GatewayHandlesStep ==
  ASSUME ClientInv, NEW t \in Callers, GatewayHandles(t)
  PROVE  ClientInv'
  <1> DEFINE k == call[t]
             L == IF k.path = "chat" THEN k.listed ELSE catalog
             N(a, u) == Started(k, a, u)
             why(a, u) == Fate(a, u)
             d(a, u) == [k EXCEPT !.pc = "reply", !.reply = GatewayStatus(k.path, a, u),
                                  !.cause = why(a, u), !.listed = L, !.started = N(a, u)]
  <1>1. PICK a \in Admissions, u \in Upstreams :
          /\ a # "admitted" => u = "ok"
          /\ call' = [call EXCEPT ![t] = d(a, u)]
    BY DEF GatewayHandles, SetCall
  <1>2. /\ k \in CallType /\ Counted(k) /\ Answered(k) /\ k.pc = "gateway"
        /\ Fresh(k, catalog, newest, t \in racing) /\ UNCHANGED others
    BY DEF GatewayHandles, ClientInv, Sound
  <1>3. k.path = "health" => t \in Refreshers
    BY <1>2 DEF Refreshers
  <1>4. /\ CacheIsSound' /\ newest <= newest'
        /\ newest' = newest /\ catalog' = catalog /\ racing' = racing
    BY <1>2, OthersStay
  <1> HIDE DEF k
  <1>5. k.started \in Nat /\ k.attempt \in 1..Attempts /\ k.listed \in 0..Len(Catalogs)
        /\ k.path \in {"none", "health", "tags", "chat"}
    BY <1>2, ClientAssumption DEF CallType
  <1>6. k.started < k.attempt /\ (k.started > 0 => LostOne(k))
    BY <1>2 DEF Counted
  <1>7. L \in 0..Len(Catalogs) /\ L <= catalog /\ catalog # 0 /\ catalog \in Nat
    BY <1>2, <1>5, ClientAssumption DEF ClientInv, CacheIsSound, Fresh
  <1>8. N(a, u) \in 0..Attempts
        /\ (N(a, u) = k.started \/ (N(a, u) = k.started + 1 /\ Generates(k.path, a, u)))
    BY <1>5, <1>6, ClientAssumption DEF Started
  <1>9. why(a, u) \in Causes
    BY DEF Causes, Fate
  <1> DEFINE c == d(a, u)
             n == N(a, u)
             r == GatewayStatus(k.path, a, u)
             w == why(a, u)
  <1>10. /\ c \in CallType
         /\ c.pc = "reply" /\ c.reply = r /\ c.cause = w
         /\ c.listed = L /\ c.started = n /\ c.path = k.path
         /\ c.attempt = k.attempt /\ c.op = k.op /\ c.floor = k.floor /\ c.result = k.result
         /\ c.repeated = k.repeated
    <2>1. n \in 0..Attempts /\ w \in Causes
          /\ r \in HttpStatuses \cup {"none"}
      BY <1>8, <1>9, GatewayStatuses
    <2> HIDE DEF n, r, w, L
    <2>2. c = Replied(k, r, w, L, n)
      BY DEF n, r, w, L, Replied
    <2> HIDE DEF c
    <2> QED  BY <1>2, <1>7, <2>1, <2>2, GatewayFields
  <1>11. call' = [call EXCEPT ![t] = c]
    BY <1>1
  <1>12. Generates(k.path, a, u) => r \in {"200", "500", "502", "504"}
                                    /\ k.path = "chat"
    BY GatewayStatuses DEF Generates
  <1>13. Handled(c, a, u)
    <2> HIDE DEF c
    <2> QED  BY <1>1, <1>10 DEF Handled
  <1> HIDE DEF c, r, w
  <1>14. n = k.started \/ (n = k.started + 1 /\ Generates(k.path, a, u))
    BY <1>8
  <1> HIDE DEF n
  <1>15. Counted(c)
    <2>1. NoneSlow(c) /\ (LostOne(c) <=> LostOne(k))
      BY <1>2, <1>10 DEF Counted, NoneSlow, LostOne
    <2>2. /\ k.started > 1 => LostOne(k)
          /\ k.path # "chat" => k.started = 0
          /\ k.op = "stream" => k.started <= 1 /\ (k.path = "chat" => k.attempt = 1)
      BY <1>2 DEF Counted
    <2>3. c.started <= c.attempt
      BY <1>5, <1>6, <1>10, <1>14
    <2>4. c.started > 0 => LostOne(c) \/ c.reply \in {"200", "500", "502", "504"}
      BY <1>5, <1>6, <1>10, <1>12, <1>14, <2>1
    <2>5. c.started > 1 => LostOne(c)
      BY <1>5, <1>6, <1>10, <1>14, <2>1
    <2>6. c.path # "chat" => c.started = 0
      BY <1>10, <1>12, <1>14, <2>2
    <2>7. c.op = "stream" => c.started <= 1 /\ (c.path = "chat" => c.attempt = 1)
      BY <1>5, <1>6, <1>10, <1>12, <1>14, <2>2
    <2>8. c.pc = "reply"  BY <1>10
    <2> QED  BY <2>1, <2>3, <2>4, <2>5, <2>6, <2>7, <2>8 DEF Counted
  <1>16. Answered(c)
    <2>1. /\ c.op # "none" /\ c.path # "none" /\ c.result = "none" /\ c.pc = "reply"
          /\ c.path = "tags" => c.op = "list"
      BY <1>2, <1>10 DEF Answered
    <2>2. c.path = "health" => c.listed # 0
      BY <1>7, <1>10
    <2> QED  BY <1>13, <2>1, <2>2 DEF Answered
  <1>17. Fresh(c, catalog, newest, t \in racing)
    <2>1. newest <= catalog /\ newest \in Nat
      BY <1>7 DEF ClientInv, CacheIsSound
    <2>2. c.listed <= catalog /\ c.floor <= newest
      BY <1>2, <1>7, <1>10 DEF Fresh
    <2>a. c.floor \in Nat
      BY <1>10, ClientAssumption DEF CallType
    <2>3. c.path = "health" => c.listed >= newest /\ c.listed >= c.floor
      BY <1>7, <1>10, <2>1, <2>2, <2>a
    <2>4. c.op # "list" /\ c.path = "chat" => c.listed >= c.floor
      BY <1>2, <1>10 DEF Fresh
    <2>5. c.pc = "reply"  BY <1>10
    <2> QED  BY <2>2, <2>3, <2>4, <2>5 DEF Fresh
  <1>18. Sound(c, catalog', newest', t \in racing')
    BY <1>4, <1>10, <1>15, <1>16, <1>17 DEF Sound
  <1>19. RefreshesMove(t, c)
    BY <1>3, <1>4, <1>10 DEF RefreshesMove
  <1> QED  BY <1>4, <1>11, <1>18, <1>19, CallBecomes

LEMMA ReplyStep ==
  ASSUME ClientInv, NEW t \in Callers, ReadReply(t)
  PROVE  ClientInv'
  <1> DEFINE k == call[t]
  <1>1. /\ k \in CallType /\ Counted(k) /\ Answered(k) /\ k.pc = "reply"
        /\ call' = [call EXCEPT ![t] = Concluded(k, k.reply)]
        /\ UNCHANGED others
    BY DEF ReadReply, SetCall, ClientInv, Sound
  <1> HIDE DEF k
  <1>2. PICK a \in Admissions, u \in Upstreams : Handled(k, a, u)
    BY <1>1 DEF Answered
  <1>3. /\ k.op # "none" /\ k.path # "none" /\ k.result = "none"
        /\ (k.path = "tags" => k.op = "list") /\ (k.path = "health" => k.listed # 0)
    BY <1>1 DEF Answered
  <1>4. k.path \in {"health", "tags", "chat"}
    BY <1>1, <1>3 DEF CallType
  <1>5. /\ k.reply = "200" => /\ k.cause \in {"ok", "not json", "misshapen"}
                              /\ k.path = "health" => k.cause = "ok"
        /\ k.reply # "200" => Telling(k.path, k.cause, Raised(k.path, k.reply))
    BY <1>2, <1>4, TellsResponse
  <1>6. /\ k.started <= k.attempt /\ NoneSlow(k)
        /\ k.started > 1 => LostOne(k)
        /\ k.path # "chat" => k.started = 0
        /\ k.op = "stream" => k.started <= 1 /\ (k.path = "chat" => k.attempt = 1)
    BY <1>1 DEF Counted
  <1>7. k.started > 0 /\ Repeated(k.path, k.reply) => LostOne(k) \/ k.reply = "502"
    <2>1. k.started > 0 => LostOne(k) \/ k.reply \in {"200", "500", "502", "504"}
      BY <1>1 DEF Counted
    <2>2. k.started > 0 => k.path = "chat"
      BY <1>6
    <2> QED  BY <2>1, <2>2 DEF Repeated, RetryStatus
  <1>8. Ending(k, k.reply)
    BY <1>1, <1>3, <1>5, <1>6, <1>7 DEF Ending
  <1> QED  BY <1>1, <1>8, ConcludedBecomes DEF k

GivenUp(k, why, n) == [k EXCEPT !.cause = why, !.started = n]

LEMMA GiveUpFields ==
  ASSUME NEW k \in CallType, NEW why \in Causes, NEW n \in 0..Attempts
  PROVE  LET d == GivenUp(k, why, n) IN
         /\ d \in CallType
         /\ d.cause = why /\ d.started = n /\ d.pc = k.pc /\ d.path = k.path
         /\ d.attempt = k.attempt /\ d.reply = k.reply /\ d.op = k.op
         /\ d.listed = k.listed /\ d.floor = k.floor /\ d.result = k.result
         /\ d.repeated = k.repeated
  BY DEF GivenUp, CallType

LEMMA CallNumbers ==
  ASSUME NEW k \in CallType
  PROVE  k.started \in Nat /\ k.started \in 0..Attempts /\ k.attempt \in 1..Attempts
  BY ClientAssumption DEF CallType

\* A generation more for a request that may still be handled.
LEMMA OneMore ==
  ASSUME NEW k \in CallType, Counted(k), NEW begun \in 0..1, begun = 1 => k.pc = "gateway"
  PROVE  /\ k.started + begun \in 0..Attempts
         /\ k.started + begun = k.started \/ begun = 1
  <1>1. k.started \in Nat /\ k.started \in 0..Attempts /\ k.attempt \in 1..Attempts
    BY CallNumbers
  <1>2. k.pc = "gateway" => k.started < k.attempt
    BY DEF Counted
  <1>3. Attempts \in Nat
    BY ClientAssumption
  <1>4. CASE begun = 0
    BY <1>1, <1>4
  <1>5. CASE begun = 1
    BY <1>1, <1>2, <1>3, <1>5
  <1> QED  BY <1>4, <1>5

LEMMA GiveUpStep ==
  ASSUME ClientInv, NEW t \in Callers, GiveUp(t)
  PROVE  ClientInv'
  <1> DEFINE k == call[t]
  <1>1. PICK why \in {"read timeout", "broken", "truncated"}, begun \in 0..1 :
          /\ begun = 1 => k.pc = "gateway" /\ k.path = "chat"
          /\ call' = [call EXCEPT ![t] =
                        Concluded([k EXCEPT !.cause = why, !.started = @ + begun], why)]
    BY DEF GiveUp, SetCall
  <1>2. /\ k \in CallType /\ Counted(k) /\ Answered(k) /\ k.pc \in {"gateway", "reply"}
        /\ UNCHANGED others
    BY DEF GiveUp, ClientInv, Sound
  <1> HIDE DEF k
  <1> DEFINE n == k.started + begun
             c == GivenUp(k, why, n)
  <1>3. n \in 0..Attempts /\ (n = k.started \/ begun = 1)
    BY <1>1, <1>2, OneMore
  <1>4. \/ n = k.started
        \/ k.pc = "gateway" /\ k.path = "chat" /\ n = k.started + 1
    <2>1. CASE n = k.started  BY <2>1
    <2>2. CASE begun = 1
      BY <1>1, <2>2
    <2> QED  BY <1>3, <2>1, <2>2
  <1>6. call' = [call EXCEPT ![t] = Concluded(c, why)]
    BY <1>1 DEF GivenUp
  <1>7. why \in Causes /\ why \in NoResponses /\ why # "200"
    BY DEF Causes, NoResponses
  <1> HIDE DEF n
  <1>8. /\ c \in CallType
        /\ c.cause = why /\ c.started = n /\ c.pc = k.pc /\ c.path = k.path
        /\ c.attempt = k.attempt /\ c.reply = k.reply /\ c.op = k.op
        /\ c.listed = k.listed /\ c.floor = k.floor /\ c.result = k.result
        /\ c.repeated = k.repeated
    BY <1>2, <1>3, <1>7, GiveUpFields
  <1> HIDE DEF c
  <1>9. NoResponse(k, c, why)
    <2>1. \/ c.started = k.started
          \/ k.pc = "gateway" /\ c.path = "chat" /\ c.started = k.started + 1
      BY <1>4, <1>8
    <2>2. k.pc \in {"send", "gateway", "reply"} /\ why \in {"read timeout", "broken", "truncated"}
      BY <1>2
    <2> QED  BY <1>2, <1>7, <1>8, <2>1, <2>2 DEF NoResponse
  <1>10. Ending(c, why)
    BY <1>9, NoResponseEnds
  <1> QED  BY <1>2, <1>6, <1>7, <1>8, <1>10, ConcludedBecomes DEF k

LEMMA StoreStep ==
  ASSUME ClientInv, NEW t \in Callers, Store(t)
  PROVE  ClientInv'
  <1> DEFINE k == call[t]
             d == Listed(k, k.listed)
  <1>1. /\ k \in CallType /\ Counted(k) /\ Answered(k) /\ k.pc = "store"
        /\ Fresh(k, catalog, newest, t \in racing)
        /\ cache' = [catalog |-> k.listed, live |-> TRUE]
        /\ newest' = MaxOf(newest, k.listed)
        /\ due' = IF t \in racing THEN k.floor ELSE newest'
        /\ call' = [call EXCEPT ![t] = d] /\ UNCHANGED <<catalog, setup, racing>>
    BY DEF Store, StoreBy, Stored, SetCall, ClientInv, Sound
  <1>2. k.path = "health" /\ k.cause = "ok" /\ k.listed # 0 /\ k.op # "none"
        /\ k.result = "none"
    BY <1>1 DEF Answered
  <1>3. t \in Refreshers
    BY <1>1, <1>2 DEF Refreshers
  <1>4. /\ catalog \in 1..Len(Catalogs) /\ newest \in 0..catalog
        /\ catalog \in Nat /\ newest \in Nat
        /\ setup \in {"good", "invalid", "keyless"} /\ racing \subseteq Callers
    BY ClientAssumption DEF ClientInv, CacheIsSound
  <1> HIDE DEF k
  <1>5. k.listed \in 0..Len(Catalogs) /\ k.listed \in Nat /\ k.floor \in Nat
    BY <1>1, ClientAssumption DEF CallType
  <1>6. /\ k.listed <= catalog /\ k.floor <= newest /\ k.listed >= k.floor
        /\ t \notin racing => k.listed >= newest
    BY <1>1, <1>2 DEF Fresh
  <1>7. /\ newest' \in 0..catalog /\ newest <= newest' /\ k.listed <= newest'
        /\ t \notin racing => newest' = k.listed
    BY <1>1, <1>4, <1>5, <1>6 DEF MaxOf
  <1>8. CacheIsSound'
    <2>1. cache' \in [catalog : 0..Len(Catalogs), live : BOOLEAN]
          /\ cache'.catalog = k.listed
      BY <1>1, <1>5
    <2>2. cache'.catalog <= catalog' /\ cache'.catalog # 0
      BY <1>1, <1>2, <1>6, <2>1
    <2>3. due' \in 0..Len(Catalogs) /\ due' <= newest' /\ due' <= k.listed
      <3>1. CASE t \in racing
        BY <1>1, <1>4, <1>5, <1>6, <1>7, <3>1
      <3>2. CASE t \notin racing
        BY <1>1, <1>4, <1>5, <1>6, <1>7, <3>2
      <3> QED  BY <3>1, <3>2
    <2>4. cache'.catalog >= due'
      BY <1>5, <1>7, <2>1, <2>3
    <2> QED  BY <1>1, <1>4, <1>7, <2>1, <2>2, <2>3, <2>4 DEF CacheIsSound
  <1>9. Unasked(k)
    BY <1>1, <1>2 DEF Counted, Unasked
  <1>10. /\ d \in CallType /\ Counted(d) /\ Answered(d)
         /\ d.op = k.op /\ d.listed = k.listed /\ d.floor = k.floor
         /\ d.pc \in {"idle", "send"} /\ (d.pc = "send" => d.path = "chat")
    BY <1>5, <1>9, ListedFields
  <1>11. call' = [call EXCEPT ![t] = d]
    BY <1>1
  <1> HIDE DEF d
  <1>12. Fresh(d, catalog', newest', t \in racing')
    <2>1. d.listed <= catalog' /\ d.floor <= newest'
      BY <1>1, <1>4, <1>5, <1>6, <1>7, <1>10
    <2>2. d.listed >= d.floor
      BY <1>6, <1>10
    <2>3. d.pc \notin {"reply", "store"}
      BY <1>10
    <2> QED  BY <2>1, <2>2, <2>3 DEF Fresh
  <1>13. Sound(d, catalog', newest', t \in racing')
    BY <1>10, <1>12 DEF Sound
  <1>14. RefreshesMove(t, d)
    BY <1>1, <1>3 DEF RefreshesMove
  <1> QED  BY <1>1, <1>3, <1>7, <1>8, <1>11, <1>13, <1>14, CallBecomes

LEMMA StreamEndsStep ==
  ASSUME ClientInv, NEW t \in Callers, BodyEnds(t)
  PROVE  ClientInv'
  <1> DEFINE k == call[t]
  <1> DEFINE result(end) == CASE end = "ended"    -> "ok"
                              [] end = "not json" -> "error"
                              [] OTHER            -> "escaped"
  <1>1. PICK end \in {"ended", "not json", "stalled", "cut"} :
          call' = [call EXCEPT ![t] = Ended([k EXCEPT !.cause = end], result(end))]
    BY DEF BodyEnds, SetCall
  <1>2. /\ k \in CallType /\ Counted(k) /\ Answered(k) /\ k.pc = "body"
        /\ Fresh(k, catalog, newest, t \in racing) /\ UNCHANGED others
    BY DEF BodyEnds, ClientInv, Sound
  <1>3. /\ CacheIsSound' /\ newest <= newest'
        /\ newest' = newest /\ catalog' = catalog /\ racing' = racing
    BY <1>2, OthersStay
  <1> HIDE DEF k
  <1> DEFINE c == [k EXCEPT !.cause = end]
             r == result(end)
             d == Ended(c, r)
  <1>4. end \in Causes
    BY DEF Causes, Upstreams
  <1>5. /\ r \in {"ok", "error", "escaped"} /\ r \in Results
        /\ r = "ok" => end = "ended"
        /\ r = "escaped" <=> end \in {"stalled", "cut"}
    BY DEF Results
  <1>6. /\ c \in CallType /\ c.cause = end /\ c.path = k.path /\ c.op = k.op
        /\ c.listed = k.listed /\ c.floor = k.floor /\ c.repeated = k.repeated
        /\ c.started = k.started
    BY <1>2, <1>4, CauseFields
  <1>7. call' = [call EXCEPT ![t] = d]
    BY <1>1
  <1> HIDE DEF c, r
  <1>8. /\ d \in CallType /\ d.pc = "idle" /\ d.cause = end /\ d.path = k.path
        /\ d.op = k.op /\ d.listed = k.listed /\ d.floor = k.floor /\ d.attempt = 1
        /\ d.repeated = k.repeated /\ d.started = k.started /\ d.result = r
    <2>1. c \in CallType  BY <1>6
    <2>2. /\ d \in CallType /\ d.pc = "idle" /\ d.cause = c.cause /\ d.path = c.path
          /\ d.op = c.op /\ d.listed = c.listed /\ d.floor = c.floor /\ d.attempt = 1
          /\ d.repeated = c.repeated /\ d.started = c.started /\ d.result = r
      BY <1>5, <2>1, EndedFields
    <2> QED  BY <1>6, <2>2
  <1> HIDE DEF d
  <1>9. Counted(d)
    <2>1. NoneSlow(d) /\ (LostOne(d) <=> LostOne(k))
      BY <1>2, <1>8 DEF Counted, NoneSlow, LostOne
    <2> QED  BY <1>2, <1>8, <2>1 DEF Counted
  <1>10. Answered(d)
    <2>1. Telling(d.path, d.cause, d.result)
      BY <1>1, <1>5, <1>8 DEF Telling, Transient, Retryable
    <2>2. d.path = "tags" => d.op = "list"
      BY <1>2, <1>8 DEF Answered
    <2>3. d.pc = "idle"
      BY <1>8
    <2> QED  BY <2>1, <2>2, <2>3 DEF Answered
  <1>11. Fresh(d, catalog, newest, t \in racing)
    <2>1. k.path = "chat"
      BY <1>2 DEF Answered
    <2> QED  BY <1>2, <1>8, <2>1 DEF Fresh
  <1>12. Sound(d, catalog', newest', t \in racing')
    BY <1>3, <1>8, <1>9, <1>10, <1>11 DEF Sound
  <1>13. RefreshesMove(t, d)
    BY <1>3, <1>8 DEF RefreshesMove
  <1> QED  BY <1>3, <1>7, <1>12, <1>13, CallBecomes

LEMMA CacheExpiresStep ==
  ASSUME ClientInv, CacheExpires
  PROVE  ClientInv'
  <1>1. CacheIsSound'
    <2>1. /\ cache' \in [catalog : 0..Len(Catalogs), live : BOOLEAN]
          /\ cache'.catalog = cache.catalog /\ cache'.live = FALSE
      BY DEF ClientInv, CacheIsSound, CacheExpires
    <2> QED  BY <2>1 DEF ClientInv, CacheIsSound, CacheExpires
  <1>2. OneRefresh'
    BY DEF ClientInv, OneRefresh, Refreshers, CacheExpires
  <1>3. ASSUME NEW u \in Callers
        PROVE  Sound(call'[u], catalog', newest', u \in racing')
    BY DEF ClientInv, CacheExpires
  <1> QED  BY <1>1, <1>2, <1>3 DEF ClientInv, CacheExpires

LEMMA CatalogChangesStep ==
  ASSUME ClientInv, CatalogChanges
  PROVE  ClientInv'
  <1>1. /\ catalog \in Nat /\ newest \in Nat /\ catalog' = catalog + 1
        /\ cache.catalog \in Nat
    BY ClientAssumption DEF ClientInv, CacheIsSound, CatalogChanges
  <1>2. CacheIsSound'
    <2>1. catalog' \in 1..Len(Catalogs)
      BY <1>1, ClientAssumption DEF CatalogChanges
    <2>2. newest' \in 0..catalog'
      BY <1>1 DEF ClientInv, CacheIsSound, CatalogChanges
    <2>3. cache'.catalog <= catalog'
      BY <1>1 DEF ClientInv, CacheIsSound, CatalogChanges
    <2> QED  BY <2>1, <2>2, <2>3 DEF ClientInv, CacheIsSound, CatalogChanges
  <1>3. OneRefresh'
    BY DEF ClientInv, OneRefresh, Refreshers, CatalogChanges
  <1>4. ASSUME NEW u \in Callers
        PROVE  Sound(call'[u], catalog', newest', u \in racing')
    <2>1. call'[u] = call[u] /\ newest' = newest /\ racing' = racing
          /\ Sound(call[u], catalog, newest, u \in racing) /\ call[u].listed \in Nat
      BY ClientAssumption DEF ClientInv, CatalogChanges, CallType
    <2>2. call[u].listed <= catalog'
      BY <1>1, <2>1 DEF Sound, Fresh
    <2>3. Fresh(call[u], catalog', newest, u \in racing)
      BY <2>1, <2>2 DEF Sound, Fresh
    <2> QED  BY <2>1, <2>3 DEF Sound
  <1> QED  BY <1>2, <1>3, <1>4 DEF ClientInv, CatalogChanges

LEMMA NextClientInv ==
  ASSUME ClientInv, [ClientNext]_clientVars
  PROVE  ClientInv'
  <1>1. CASE UNCHANGED clientVars
    <2>1. CacheIsSound' /\ OneRefresh'
      BY <1>1 DEF ClientInv, CacheIsSound, OneRefresh, Refreshers, clientVars, others
    <2>2. ASSUME NEW u \in Callers
          PROVE  Sound(call'[u], catalog', newest', u \in racing')
      BY <1>1 DEF ClientInv, clientVars, others
    <2> QED  BY <1>1, <2>1, <2>2 DEF ClientInv, clientVars, others
  <1>2. ASSUME NEW t \in Callers, NEW op \in CallsOf[t], Call(t, op)
        PROVE  ClientInv'
    <2>1. op \in Ops
      BY ClientAssumption
    <2> QED  BY <1>2, <2>1, CallBegins
  <1>3. ASSUME NEW t \in Callers, CallStep(t)
        PROVE  ClientInv'
    BY <1>3, NotSentStep, SendStep, GatewayHandlesStep, ReplyStep, GiveUpStep, StoreStep,
       StreamEndsStep DEF CallStep
  <1>4. CASE CacheExpires
    BY <1>4, CacheExpiresStep
  <1>5. CASE CatalogChanges
    BY <1>5, CatalogChangesStep
  <1> QED  BY <1>1, <1>2, <1>3, <1>4, <1>5 DEF ClientNext

LEMMA ClientInvariant == ClientSpec => []ClientInv
  <1>1. ClientInv /\ [ClientNext]_clientVars => ClientInv'
    BY NextClientInv
  <1> QED  BY InitClientInv, <1>1, PTL DEF ClientSpec

-----------------------------------------------------------------------------
(* Theorems *)

\* Every variable keeps its type; in particular no call makes more attempts, and
\* starts more generations, than the settings allow.
THEOREM TypeCorrect == ClientSpec => []ClientTypeOK
  <1>1. ClientInv => ClientTypeOK
    <2> SUFFICES ASSUME ClientInv  PROVE ClientTypeOK
      OBVIOUS
    <2>1. newest \in 0..Len(Catalogs) /\ due \in 0..Len(Catalogs)
      BY ClientAssumption DEF ClientInv, CacheIsSound
    <2> QED  BY <2>1 DEF ClientInv, CacheIsSound, CallType, ClientTypeOK
  <1> QED  BY <1>1, ClientInvariant, PTL

\* Ollama begins a second generation for the same call only after an attempt that
\* was lost on the way, never after one that was merely slow (_request's retry
\* condition; chat_stream makes one attempt).
THEOREM SlowChatsAreAskedOnce == ClientSpec => []SlowChatsAreNotRepeated
  <1>1. ClientInv => SlowChatsAreNotRepeated
    <2> SUFFICES ASSUME ClientInv, NEW t \in Callers
                 PROVE  /\ call[t].op = "stream" => call[t].started <= 1
                        /\ call[t].started > 1 =>
                             /\ {"502", "broken"} \cap call[t].repeated # {}
                             /\ {"504", "read timeout"} \cap call[t].repeated = {}
      BY DEF SlowChatsAreNotRepeated
    <2>1. Counted(call[t])
      BY DEF ClientInv, Sound
    <2>2. NoneSlow(call[t])
      BY <2>1 DEF Counted
    <2>3. call[t].started > 1 => LostOne(call[t])
      BY <2>1 DEF Counted
    <2>4. call[t].op = "stream" => call[t].started <= 1
      BY <2>1 DEF Counted
    <2> QED  BY <2>2, <2>3, <2>4 DEF NoneSlow, LostOne
  <1> QED  BY <1>1, ClientInvariant, PTL

\* Through the translations of the gateway and of the client, what a call ends with
\* says whether its cause may pass; and a stream that breaks off is no answer
\* (_upstream_error, _forward_response, _raise_for_response, iter_lines).
THEOREM RetryableIsTransient == ClientSpec => []RetryableMeansTransient
  <1>1. ClientInv => RetryableMeansTransient
    <2> SUFFICES ASSUME ClientInv, NEW t \in Callers, call[t].pc = "idle",
                        call[t].op # "none"
                 PROVE  Telling(call[t].path, call[t].cause, call[t].result)
      BY DEF RetryableMeansTransient, Telling
    <2> QED  BY DEF ClientInv, Sound, Answered
  <1> QED  BY <1>1, ClientInvariant, PTL

\* No call works with an older list than one that was returned before it began, or,
\* if it took the list from the cache, before the refresh that filled the cache began;
\* and if that refresh ran alone, before the call (available_models).
THEOREM ListsOnlyGrow == ClientSpec => []ListsDoNotGoBack
  <1>1. ClientInv => ListsDoNotGoBack
    <2> SUFFICES ASSUME ClientInv, NEW t \in Callers, call[t].op # "list",
                        call[t].result = "ok"
                 PROVE  call[t].listed >= call[t].floor
      BY DEF ListsDoNotGoBack
    <2>1. call[t].pc = "idle"
      BY DEF ClientInv, Sound, Answered
    <2>2. Fresh(call[t], catalog, newest, t \in racing)
      BY DEF ClientInv, Sound
    <2> QED  BY <2>1, <2>2 DEF Fresh
  <1> QED  BY <1>1, ClientInvariant, PTL

=============================================================================
