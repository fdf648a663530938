------------------------------ MODULE AiJobApi ------------------------------
(***************************************************************************)
(* POST /ai/conversations/{id}/messages (send_message in requests.py): the *)
(* Idempotency-Key, the limit on pending jobs, the prompt and its job row, *)
(* and the context the worker later reads for that job (_load_job).        *)
(*                                                                         *)
(* FastAPI runs the handler in a thread pool, one database session per     *)
(* request, READ COMMITTED: between two statements of a request any other  *)
(* request, or the worker, may commit.  A request is therefore a process   *)
(* with one step per statement.  The last flush and the COMMIT are one     *)
(* step: the INSERT of a key that another open transaction has inserted    *)
(* waits for that transaction, so only the order of the commits counts.    *)
(*                                                                         *)
(* Message ids come from a sequence when the INSERT is flushed; they are   *)
(* visible from the commit on and lost when the transaction rolls back.    *)
(* What happens to a job after its row is committed is AiJobQueue's; here  *)
(* it is started, possibly several times, and settled.  A conversation has *)
(* fewer messages than MAX_CONTEXT_MESSAGES (200), so that the limit of    *)
(* _load_job's query never applies.                                        *)
(***************************************************************************)
EXTENDS Naturals, Sequences, FiniteSetsExt

CONSTANTS
  Threads,        \* threads of the API's pool: requests handled at one time
  Conversations,  \* rows of ai_conversations
  Users,
  Owner,          \* Owner[c] is the user a conversation belongs to
  Keys,           \* values of the Idempotency-Key header
  NoKey,          \* header absent, or idempotency_key IS NULL
  Limit,          \* settings.ai_max_pending_jobs_per_user
  ContentLength,  \* characters of the message with an id
  SystemLength,   \* characters of DEFAULT_SYSTEM_PROMPT
  TokenBudget,    \* settings.ai_context_token_budget
  MaxMessages     \* bound: rows of ai_messages in a run

ASSUME SetsAssumption   == IsFiniteSet(Threads) /\ Threads # {} /\ NoKey \notin Keys
ASSUME OwnerAssumption  == Conversations # {} /\ Owner \in [Conversations -> Users]
ASSUME LimitAssumption  == Limit \in Nat \ {0} /\ MaxMessages \in Nat
ASSUME BudgetAssumption == /\ ContentLength \in [1..MaxMessages -> Nat]
                           /\ SystemLength \in Nat /\ TokenBudget \in Nat

VARIABLES
  ai_messages,    \* ids in order of the sequence
  ai_jobs,        \* rows in order of their commits
  request,        \* per thread, the statement it has reached and its locals
  replies,        \* history: what requests with a key were answered
  context         \* history: per job, the message ids its last attempt was given

vars == <<ai_messages, ai_jobs, request, replies, context>>

Message == [conversation : Conversations,
            state : {"open", "committed", "rolled back"},
            role  : {"user", "assistant"}]

Job == [conversation : Conversations,
        key     : Keys \cup {NoKey},
        message : Nat \ {0},                          \* user_message_id
        status  : {"queued", "running", "settled"}]   \* settled: any terminal one

Request == [pc : {"idle", "lookup", "count", "flush", "commit", "relookup"},
            conversation : Conversations,
            key     : Keys \cup {NoKey},
            message : Nat]

Reply == [conversation : Conversations, key : Keys, job : Nat]    \* job 0: HTTP 500

Idle == [pc |-> "idle", conversation |-> CHOOSE c \in Conversations : TRUE,
         key |-> NoKey, message |-> 0]

JobIds     == DOMAIN ai_jobs
MessageIds == DOMAIN ai_messages

TypeOK ==
  /\ ai_messages \in Seq(Message) /\ Len(ai_messages) <= MaxMessages
  /\ ai_jobs \in Seq(Job)
  /\ request \in [Threads -> Request]
  /\ replies \subseteq Reply
  /\ context \in [JobIds -> SUBSET MessageIds]

\* The messages of a conversation a statement can see.
Visible(c) == {m \in MessageIds : /\ ai_messages[m].conversation = c
                                  /\ ai_messages[m].state = "committed"}

WithKey(c, k) == {j \in JobIds : ai_jobs[j].conversation = c /\ ai_jobs[j].key = k}

\* Mutant: running jobs do not count.
PendingJobsQueued(u) ==
  {j \in JobIds : Owner[ai_jobs[j].conversation] = u /\ ai_jobs[j].status = "queued"}

PendingJobs(u) ==
  {j \in JobIds : /\ Owner[ai_jobs[j].conversation] = u
                  /\ ai_jobs[j].status \in {"queued", "running"}}

Init ==
  /\ ai_messages = << >>
  /\ ai_jobs = << >>
  /\ request = [t \in Threads |-> Idle]
  /\ replies = {}
  /\ context = << >>

-----------------------------------------------------------------------------
(* send_message *)

Goto(t, pc) == request' = [request EXCEPT ![t].pc = pc]

\* The request ends; with a key, what it was answered is remembered.
Answer(t, job) ==
  /\ request' = [request EXCEPT ![t] = Idle]
  /\ replies' = IF request[t].key = NoKey THEN replies
                ELSE replies \cup {[conversation |-> request[t].conversation,
                                    key |-> request[t].key, job |-> job]}

\* The sequence has an id left for every prompt on its way.
Room == Len(ai_messages)
          + Cardinality({t \in Threads : request[t].pc \in {"lookup", "count", "flush"}})
        < MaxMessages

Receive(t) ==
  /\ request[t].pc = "idle"
  /\ Room
  /\ \E c \in Conversations, k \in Keys \cup {NoKey} :
       request' = [request EXCEPT ![t] =
                     [pc |-> IF k = NoKey THEN "count" ELSE "lookup",
                      conversation |-> c, key |-> k, message |-> 0]]
  /\ UNCHANGED <<ai_messages, ai_jobs, replies, context>>

\* Mutant: the key is looked up without the conversation it belongs to.
LookupAnyConversation(t) ==
  /\ request[t].pc = "lookup"
  /\ LET found == {j \in JobIds : ai_jobs[j].key = request[t].key} IN
       IF found # {} THEN \E j \in found : Answer(t, j)
                     ELSE Goto(t, "count") /\ UNCHANGED replies
  /\ UNCHANGED <<ai_messages, ai_jobs, context>>

Lookup(t) ==
  /\ request[t].pc = "lookup"
  /\ LET found == WithKey(request[t].conversation, request[t].key) IN
       IF found # {} THEN \E j \in found : Answer(t, j)
                     ELSE Goto(t, "count") /\ UNCHANGED replies
  /\ UNCHANGED <<ai_messages, ai_jobs, context>>

\* HTTP 429, or on to the INSERT.
Count(t) ==
  /\ request[t].pc = "count"
  /\ IF Cardinality(PendingJobs(Owner[request[t].conversation])) >= Limit
     THEN request' = [request EXCEPT ![t] = Idle]
     ELSE Goto(t, "flush")
  /\ UNCHANGED <<ai_messages, ai_jobs, replies, context>>

NewMessage(c, state, role) ==
  ai_messages' = Append(ai_messages, [conversation |-> c, state |-> state, role |-> role])

\* Mutant: the prompt is committed before its job.
FlushCommits(t) ==
  /\ request[t].pc = "flush"
  /\ NewMessage(request[t].conversation, "committed", "user")
  /\ request' = [request EXCEPT ![t] = [@ EXCEPT !.pc = "commit",
                                                 !.message = Len(ai_messages) + 1]]
  /\ UNCHANGED <<ai_jobs, replies, context>>

Flush(t) ==
  /\ request[t].pc = "flush"
  /\ NewMessage(request[t].conversation, "open", "user")
  /\ request' = [request EXCEPT ![t] = [@ EXCEPT !.pc = "commit",
                                                 !.message = Len(ai_messages) + 1]]
  /\ UNCHANGED <<ai_jobs, replies, context>>

\* The unique index on idempotency_key; the stored key names user and conversation.
Duplicate(t) ==
  /\ request[t].key # NoKey
  /\ WithKey(request[t].conversation, request[t].key) # {}

InsertJob(t) ==
  /\ ai_messages' = [ai_messages EXCEPT ![request[t].message].state = "committed"]
  /\ ai_jobs' = Append(ai_jobs, [conversation |-> request[t].conversation,
                                 key |-> request[t].key,
                                 message |-> request[t].message, status |-> "queued"])
  /\ context' = Append(context, {})
  /\ Answer(t, Len(ai_jobs) + 1)

\* Mutant: a duplicate key is tried again.
CommitRetries(t) ==
  /\ request[t].pc = "commit"
  /\ ~Duplicate(t)
  /\ InsertJob(t)

Commit(t) ==
  /\ request[t].pc = "commit"
  /\ IF Duplicate(t)
     THEN /\ ai_messages' = [ai_messages EXCEPT ![request[t].message].state = "rolled back"]
          /\ Goto(t, "relookup")
          /\ UNCHANGED <<ai_jobs, replies, context>>
     ELSE InsertJob(t)

\* The handler lost the race for its key: it answers with the winner's job.
Relookup(t) ==
  /\ request[t].pc = "relookup"
  /\ LET found == WithKey(request[t].conversation, request[t].key) IN
       IF found # {} THEN \E j \in found : Answer(t, j) ELSE Answer(t, 0)
  /\ UNCHANGED <<ai_messages, ai_jobs, context>>

\* The statement raises or the API process dies: the session is rolled back
\* and the client, who has no answer, may send the request again.
Abort(t) ==
  /\ request[t].pc # "idle"
  /\ request' = [request EXCEPT ![t] = Idle]
  /\ ai_messages' = [m \in MessageIds |->
       IF request[t].pc = "commit" /\ m = request[t].message
       THEN [ai_messages[m] EXCEPT !.state = "rolled back"] ELSE ai_messages[m]]
  /\ UNCHANGED <<ai_jobs, replies, context>>

-----------------------------------------------------------------------------
(* The worker *)

\* estimate_message_tokens: a quarter of the characters, rounded up, at least one.
EstimateTokens(length) == Max({1, (length + 3) \div 4})
MessageTokens(length)  == 4 + EstimateTokens(length)

Budget == Max({128, TokenBudget})

\* Mutant: a message that just fits is left out.
ConsideredStrict(acc, m) ==
  LET used == acc.used + MessageTokens(ContentLength[m]) IN
  IF acc.full THEN acc
  ELSE IF used < Budget THEN [acc EXCEPT !.used = used, !.kept = @ \cup {m}]
  ELSE [acc EXCEPT !.full = TRUE, !.kept = IF @ = {} THEN {m} ELSE @]

\* One round of the loop: the first message over the budget ends it, and is kept
\* only if it is the newest.
Considered(acc, m) ==
  LET used == acc.used + MessageTokens(ContentLength[m]) IN
  IF acc.full THEN acc
  ELSE IF used <= Budget THEN [acc EXCEPT !.used = used, !.kept = @ \cup {m}]
  ELSE [acc EXCEPT !.full = TRUE, !.kept = IF @ = {} THEN {m} ELSE @]

\* build_token_limited_context: from the newest message to the oldest.
Selected(history) ==
  LET From[m \in 1..(Len(ai_messages) + 1)] ==
        IF m > Len(ai_messages)
        THEN [kept |-> {}, used |-> MessageTokens(SystemLength), full |-> FALSE]
        ELSE IF m \in history THEN Considered(From[m + 1], m) ELSE From[m + 1]
  IN From[1].kept

\* The messages _load_job reads for a job.
History(j) == {m \in Visible(ai_jobs[j].conversation) : m <= ai_jobs[j].message}

\* Mutant: the whole conversation is read.
StartWithWholeConversation(j) ==
  /\ ai_jobs[j].status \in {"queued", "running"}
  /\ ai_jobs' = [ai_jobs EXCEPT ![j].status = "running"]
  /\ context' = [context EXCEPT ![j] = Visible(ai_jobs[j].conversation)]
  /\ UNCHANGED <<ai_messages, request, replies>>

\* Mutant: a retried job is given a status the API does not know.
StartRetrying(j) ==
  /\ ai_jobs[j].status \in {"queued", "running"}
  /\ ai_jobs' = [ai_jobs EXCEPT ![j].status =
                   IF @ = "running" THEN "retrying" ELSE "running"]
  /\ context' = [context EXCEPT ![j] = Selected(History(j))]
  /\ UNCHANGED <<ai_messages, request, replies>>

\* An attempt, the first or a retry, reads the conversation up to the prompt.
Start(j) ==
  /\ ai_jobs[j].status \in {"queued", "running"}
  /\ ai_jobs' = [ai_jobs EXCEPT ![j].status = "running"]
  /\ context' = [context EXCEPT ![j] = Selected(History(j))]
  /\ UNCHANGED <<ai_messages, request, replies>>

\* The job ends without an answer, or after an attempt with one.
Settle(j) ==
  /\ ai_jobs[j].status \in {"queued", "running"}
  /\ ai_jobs' = [ai_jobs EXCEPT ![j].status = "settled"]
  /\ \/ UNCHANGED ai_messages
     \/ /\ ai_jobs[j].status = "running" /\ Room
        /\ NewMessage(ai_jobs[j].conversation, "committed", "assistant")
  /\ UNCHANGED <<request, replies, context>>

-----------------------------------------------------------------------------

RequestStep(t) == Lookup(t) \/ Count(t) \/ Flush(t) \/ Commit(t) \/ Relookup(t)

Next ==
  \/ \E t \in Threads : Receive(t) \/ RequestStep(t) \/ Abort(t)
  \/ \E j \in JobIds : Start(j) \/ Settle(j)

Spec == Init /\ [][Next]_vars

\* A handler thread that was given a request runs on.
FairSpec == Spec /\ \A t \in Threads : WF_vars(RequestStep(t))

-----------------------------------------------------------------------------
(* Properties *)

(* Retries with one Idempotency-Key get one and the same job, whichever of
   them wins the race, and it is a job of that conversation with that key; no
   retry ends in HTTP 500. *)
OneJobPerKey ==
  /\ \A a, b \in replies : a.conversation = b.conversation /\ a.key = b.key => a.job = b.job
  /\ \A a \in replies : a.job \in WithKey(a.conversation, a.key)

(* Every prompt in the conversation has exactly one job, and every job its
   prompt: a request that loses the race leaves no message behind. *)
PromptsMatchJobs ==
  /\ \A m \in MessageIds :
       ai_messages[m].role = "user" /\ ai_messages[m].state = "committed" =>
         Cardinality({j \in JobIds : ai_jobs[j].message = m}) = 1
  /\ \A j \in JobIds : ai_jobs[j].message \in Visible(ai_jobs[j].conversation)

\* Requests of u that passed the count and have not committed.
Admitted(u) ==
  {t \in Threads : request[t].pc \in {"flush", "commit"} /\ Owner[request[t].conversation] = u}

Unsettled(u) ==
  {j \in JobIds : Owner[ai_jobs[j].conversation] = u /\ ai_jobs[j].status # "settled"}

(* The count is not locked, so concurrent requests may overshoot the limit,
   but only by as many as the other threads: a thread admits one request, and
   only while fewer than Limit jobs are pending. *)
OvershootIsBounded ==
  \A u \in Users :
    Cardinality(Unsettled(u)) + Cardinality(Admitted(u)) < Limit + Cardinality(Threads)

(* A prompt sent after a job was accepted never enters that job's context,
   in no attempt, and an answer given later does not either: nothing is in the
   context that is newer than the prompt, and the prompt itself is. *)
ContextEndsWithPrompt ==
  \A j \in JobIds : context[j] # {} =>
    /\ ai_jobs[j].message \in context[j]
    /\ \A m \in context[j] : m <= ai_jobs[j].message

\* The system prompt and these messages.
Tokens(messages) ==
  LET From[m \in 1..(MaxMessages + 1)] ==
        IF m > MaxMessages THEN MessageTokens(SystemLength)
        ELSE From[m + 1] + IF m \in messages THEN MessageTokens(ContentLength[m]) ELSE 0
  IN From[1]

(* An attempt gets the longest unbroken stretch of the newest messages it read
   that fits the budget of the model's context, the system prompt included: no
   message is skipped to fit an older one, none that fits is left out, and the
   budget is exceeded only by the prompt of the job alone. *)
ContextFillsBudget ==
  [][\A j \in JobIds : context'[j] # context[j] =>
       LET kept == context'[j]
           left == History(j) \ kept IN
       /\ kept \subseteq History(j) /\ \A m \in kept, n \in left : n < m
       /\ Tokens(kept) <= Budget \/ kept = {ai_jobs[j].message}
       /\ left # {} => Tokens(kept \cup {Max(left)}) > Budget]_vars

(* docs/deployment/AI_WORKER.md:68-69, a prompt queued after a job does not
   leak into its context. *)
ContextIsolated ==
  \A i, j \in JobIds : i < j => ai_jobs[j].message \notin context[i]

(* Every request is answered. *)
EveryRequestAnswered ==
  \A t \in Threads : (request[t].pc # "idle") ~> (request[t].pc = "idle")

=============================================================================
