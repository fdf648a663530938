--------------------------- MODULE AiJobApiProofs ---------------------------
(***************************************************************************)
(* Proofs about AiJobApi for any number of threads, conversations, keys    *)
(* and messages: what the unique index on the key and the single commit of *)
(* prompt and job give to requests that race, are repeated or break off;   *)
(* that no attempt of a job is given a message newer than its prompt; and  *)
(* what the loop of build_token_limited_context keeps of a history.        *)
(*                                                                         *)
(* The loop is a function defined by recursion from the newest message     *)
(* down.  No installed prover can instantiate the library's induction      *)
(* theorems, so both the function and the invariant of the loop come from  *)
(* one fact about sets: a set of numbers that is not empty has a least one *)
(* (NatLessThanWellFounded and WFMin, which take no operator).             *)
(***************************************************************************)
EXTENDS AiJobApi, SequenceTheorems, FiniteSetTheorems, WellFoundedInduction, TLAPS

TableTypes ==
  /\ ai_messages \in Seq(Message)
  /\ ai_jobs \in Seq(Job)
  /\ request \in [Threads -> Request]
  /\ replies \subseteq Reply

\* The unique index on idempotency_key.
KeysAreUnique ==
  \A i, j \in JobIds :
    (/\ ai_jobs[i].key # NoKey
     /\ ai_jobs[i].key = ai_jobs[j].key
     /\ ai_jobs[i].conversation = ai_jobs[j].conversation) => i = j

\* Job j answers a request for conversation c with key k.
Answers(j, c, k) == j \in JobIds /\ ai_jobs[j].conversation = c /\ ai_jobs[j].key = k

\* Only requests with a key look it up, and the loser of a race has a winner.
LookupsHaveKeys ==
  \A t \in Threads :
    /\ request[t].pc \in {"lookup", "relookup"} => request[t].key # NoKey
    /\ request[t].pc = "relookup" =>
         \E j \in JobIds : Answers(j, request[t].conversation, request[t].key)

RepliesNameJobs == \A a \in replies : Answers(a.job, a.conversation, a.key)

KeyInv == KeysAreUnique /\ LookupsHaveKeys /\ RepliesNameJobs

\* A flushed prompt is nobody else's until its commit.
FlushedPrompt(t) ==
  /\ request[t].message \in MessageIds
  /\ ai_messages[request[t].message].state = "open"
  /\ ai_messages[request[t].message].conversation = request[t].conversation

\* The prompt of a job is a committed message of its conversation.
CommittedPrompt(j) ==
  /\ ai_jobs[j].message \in MessageIds
  /\ ai_messages[ai_jobs[j].message].state = "committed"
  /\ ai_messages[ai_jobs[j].message].conversation = ai_jobs[j].conversation

PromptInv ==
  /\ \A t \in Threads : request[t].pc = "commit" => FlushedPrompt(t)
  /\ \A t, u \in Threads :
       (/\ request[t].pc = "commit" /\ request[u].pc = "commit"
        /\ request[t].message = request[u].message) => t = u
  /\ \A j \in JobIds : CommittedPrompt(j)
  /\ \A i, j \in JobIds : ai_jobs[i].message = ai_jobs[j].message => i = j
  /\ \A m \in MessageIds : ai_messages[m].role = "user" /\ ai_messages[m].state = "committed" =>
       \E j \in JobIds : ai_jobs[j].message = m

ApiInv == TableTypes /\ KeyInv /\ PromptInv

-----------------------------------------------------------------------------
(* Sequences *)

\* An INSERT.
LEMMA AppendEffect ==
  ASSUME NEW S, NEW s \in Seq(S), NEW e \in S
  PROVE  /\ Append(s, e) \in Seq(S)
         /\ Len(s) \in Nat
         /\ Len(s) + 1 \notin DOMAIN s
         /\ DOMAIN Append(s, e) = DOMAIN s \cup {Len(s) + 1}
         /\ \A i \in DOMAIN s : Append(s, e)[i] = s[i]
         /\ Append(s, e)[Len(s) + 1] = e
<1>1. Len(s) \in Nat /\ DOMAIN s = 1..Len(s)
  BY LenProperties
<1>2. /\ Append(s, e) \in Seq(S)
      /\ Len(Append(s, e)) = Len(s) + 1
      /\ \A i \in 1..Len(s) : Append(s, e)[i] = s[i]
      /\ Append(s, e)[Len(s) + 1] = e
  BY AppendProperties
<1>3. DOMAIN Append(s, e) = 1..(Len(s) + 1)
  BY <1>2, LenProperties
<1> QED
  BY <1>1, <1>2, <1>3

\* An UPDATE.
LEMMA UpdateEffect ==
  ASSUME NEW S, NEW s \in Seq(S), NEW i \in DOMAIN s, NEW e \in S
  PROVE  /\ [s EXCEPT ![i] = e] \in Seq(S)
         /\ DOMAIN [s EXCEPT ![i] = e] = DOMAIN s
         /\ [s EXCEPT ![i] = e][i] = e
         /\ \A j \in DOMAIN s : j # i => [s EXCEPT ![i] = e][j] = s[j]
<1>1. DOMAIN s = 1..Len(s)
  BY LenProperties
<1> QED
  BY <1>1, ExceptSeq

-----------------------------------------------------------------------------
(* What steps do to one request, to the jobs, to the messages *)

Becomes(t, p) == request' = [request EXCEPT ![t] = p]

\* The jobs keep what the invariants read.
JobsStay ==
  /\ ai_jobs' \in Seq(Job)
  /\ DOMAIN ai_jobs' = JobIds
  /\ \A j \in JobIds : /\ ai_jobs'[j].conversation = ai_jobs[j].conversation
                       /\ ai_jobs'[j].key = ai_jobs[j].key
                       /\ ai_jobs'[j].message = ai_jobs[j].message

\* Messages are added, none of them a committed prompt.
MessagesStay ==
  /\ ai_messages' \in Seq(Message)
  /\ MessageIds \subseteq DOMAIN ai_messages'
  /\ \A m \in MessageIds : ai_messages'[m] = ai_messages[m]
  /\ \A m \in DOMAIN ai_messages' \ MessageIds :
       ~(ai_messages'[m].role = "user" /\ ai_messages'[m].state = "committed")

LEMMA NothingChanges ==
  ASSUME TableTypes
  PROVE  /\ ai_jobs' = ai_jobs => JobsStay
         /\ ai_messages' = ai_messages => MessagesStay
BY DEF TableTypes, JobsStay, MessagesStay, JobIds, MessageIds

\* One request changes.
LEMMA BecomesEffect ==
  ASSUME TableTypes, NEW t \in Threads, NEW p \in Request, Becomes(t, p)
  PROVE  /\ request' \in [Threads -> Request]
         /\ request'[t] = p
         /\ \A u \in Threads : u # t => request'[u] = request[u]
BY DEF TableTypes, Becomes

LEMMA IdleRequest == Idle \in Request /\ Idle.pc = "idle"
<1>1. (CHOOSE c \in Conversations : TRUE) \in Conversations
  BY OwnerAssumption
<1> QED
  BY <1>1 DEF Idle, Request

\* A request that goes on keeps the key invariant, if it looks up only a key it
\* has, and if what it answers is a job with its key.
LEMMA GoOnKeepsKeys ==
  ASSUME TableTypes, KeyInv, JobsStay, NEW t \in Threads, NEW p \in Request, Becomes(t, p),
         p.pc \in {"lookup", "relookup"} => p.key # NoKey,
         p.pc = "relookup" => \E j \in JobIds : Answers(j, p.conversation, p.key),
         \/ replies' = replies
         \/ \E a \in Reply : replies' = replies \cup {a} /\ Answers(a.job, a.conversation, a.key)
  PROVE  KeyInv' /\ replies' \subseteq Reply
<1>1. /\ request'[t] = p
      /\ \A u \in Threads : u # t => request'[u] = request[u]
  BY BecomesEffect
<1>2. KeysAreUnique'
  BY DEF KeyInv, KeysAreUnique, JobsStay, JobIds
<1>3. \A j, c, k : Answers(j, c, k) => /\ j \in DOMAIN ai_jobs'
                                       /\ ai_jobs'[j].conversation = c
                                       /\ ai_jobs'[j].key = k
  BY DEF Answers, JobsStay
<1>4. ASSUME NEW u \in Threads
      PROVE  /\ request'[u].pc \in {"lookup", "relookup"} => request'[u].key # NoKey
             /\ request'[u].pc = "relookup" =>
                  \E j \in JobIds : Answers(j, request'[u].conversation, request'[u].key)
  <2>1. CASE u = t
    BY <1>1, <2>1
  <2>2. CASE u # t
    BY <1>1, <2>2 DEF KeyInv, LookupsHaveKeys
  <2> QED
    BY <2>1, <2>2
<1>5. LookupsHaveKeys'
  BY <1>3, <1>4 DEF LookupsHaveKeys, Answers, JobIds
<1>6. \A a \in replies' : a \in Reply /\ Answers(a.job, a.conversation, a.key)
  BY DEF KeyInv, RepliesNameJobs, TableTypes
<1>7. RepliesNameJobs'
  BY <1>3, <1>6 DEF RepliesNameJobs, Answers, JobIds
<1> QED
  BY <1>2, <1>5, <1>6, <1>7 DEF KeyInv

\* It keeps the prompt invariant, if it does not flush a prompt.
LEMMA GoOnKeepsPrompts ==
  ASSUME TableTypes, PromptInv, JobsStay, MessagesStay,
         NEW t \in Threads, NEW p \in Request, Becomes(t, p), p.pc # "commit"
  PROVE  PromptInv'
<1>1. /\ request'[t] = p
      /\ \A u \in Threads : u # t => request'[u] = request[u]
  BY BecomesEffect
<1>2. \A u \in Threads : request'[u].pc = "commit" =>
        request'[u] = request[u] /\ request[u].pc = "commit"
  BY <1>1
<1>3. \A u \in Threads : request'[u].pc = "commit" => FlushedPrompt(u)'
  BY <1>2 DEF PromptInv, FlushedPrompt, MessagesStay, MessageIds
<1>4. \A u, v \in Threads :
        (/\ request'[u].pc = "commit" /\ request'[v].pc = "commit"
         /\ request'[u].message = request'[v].message) => u = v
  BY <1>2 DEF PromptInv
<1>5. \A j \in JobIds' : CommittedPrompt(j)'
  BY DEF PromptInv, JobsStay, MessagesStay, JobIds, MessageIds, CommittedPrompt
<1>6. \A i, j \in JobIds' : ai_jobs'[i].message = ai_jobs'[j].message => i = j
  BY DEF PromptInv, JobsStay, JobIds
<1>7. \A m \in MessageIds' : ai_messages'[m].role = "user" /\ ai_messages'[m].state = "committed" =>
        \E j \in JobIds' : ai_jobs'[j].message = m
  BY DEF PromptInv, JobsStay, MessagesStay, JobIds, MessageIds
<1> QED
  BY <1>3, <1>4, <1>5, <1>6, <1>7 DEF PromptInv

\* Both, and the types.
LEMMA GoOnKeepsInv ==
  ASSUME ApiInv, JobsStay, MessagesStay,
         NEW t \in Threads, NEW p \in Request, Becomes(t, p), p.pc # "commit",
         p.pc \in {"lookup", "relookup"} => p.key # NoKey,
         p.pc = "relookup" => \E j \in JobIds : Answers(j, p.conversation, p.key),
         \/ replies' = replies
         \/ \E a \in Reply : replies' = replies \cup {a} /\ Answers(a.job, a.conversation, a.key)
  PROVE  ApiInv'
<1>1. TableTypes /\ KeyInv /\ PromptInv
  BY DEF ApiInv
<1>2. KeyInv' /\ replies' \subseteq Reply
  BY <1>1, GoOnKeepsKeys
<1>3. PromptInv'
  BY <1>1, GoOnKeepsPrompts
<1>4. request' \in [Threads -> Request]
  BY <1>1, BecomesEffect
<1>5. TableTypes'
  BY <1>2, <1>4 DEF TableTypes, JobsStay, MessagesStay
<1> QED
  BY <1>2, <1>3, <1>5 DEF ApiInv

\* A request that moves on keeps what it was asked.
LEMMA GotoEffect ==
  ASSUME TableTypes, NEW t \in Threads, NEW pc \in {"count", "flush", "relookup"}, Goto(t, pc)
  PROVE  \E p \in Request : /\ Becomes(t, p)
                            /\ p.pc = pc
                            /\ p.key = request[t].key
                            /\ p.conversation = request[t].conversation
<1> DEFINE r == request[t]
           p == [r EXCEPT !.pc = pc]
<1>1. r \in Request
  BY DEF TableTypes
<1>2. Becomes(t, p)
  BY DEF Goto, Becomes
<1> HIDE DEF r
<1>3. p \in Request /\ p.pc = pc /\ p.key = r.key /\ p.conversation = r.conversation
  BY <1>1 DEF Request
<1> HIDE DEF p
<1> QED
  BY <1>2, <1>3 DEF r

\* A request that ends with a job found under its key.
LEMMA AnswerEffect ==
  ASSUME TableTypes, NEW t \in Threads, request[t].key # NoKey,
         NEW j \in JobIds, Answers(j, request[t].conversation, request[t].key), Answer(t, j)
  PROVE  /\ Becomes(t, Idle)
         /\ \E a \in Reply : replies' = replies \cup {a} /\ Answers(a.job, a.conversation, a.key)
<1> DEFINE a == [conversation |-> request[t].conversation, key |-> request[t].key, job |-> j]
<1>1. request[t].conversation \in Conversations /\ request[t].key \in Keys
  BY DEF TableTypes, Request
<1>2. j \in Nat
  BY LenProperties DEF JobIds, TableTypes
<1>3. a \in Reply /\ Answers(a.job, a.conversation, a.key)
  BY <1>1, <1>2 DEF Reply
<1>4. Becomes(t, Idle) /\ replies' = replies \cup {a}
  BY DEF Answer, Becomes
<1> HIDE DEF a
<1> QED
  BY <1>3, <1>4

-----------------------------------------------------------------------------
(* send_message, statement by statement *)

LEMMA ReceiveKeepsInv ==
  ASSUME ApiInv, NEW t \in Threads, Receive(t)
  PROVE  ApiInv'
<1>1. PICK c \in Conversations, k \in Keys \cup {NoKey} :
        Becomes(t, [pc |-> IF k = NoKey THEN "count" ELSE "lookup",
                    conversation |-> c, key |-> k, message |-> 0])
  BY DEF Receive, Becomes
<1> DEFINE p == [pc |-> IF k = NoKey THEN "count" ELSE "lookup",
                 conversation |-> c, key |-> k, message |-> 0]
<1>2. /\ p \in Request /\ p.pc \notin {"commit", "relookup"}
      /\ p.pc = "lookup" => p.key # NoKey
  BY DEF Request
<1> HIDE DEF p
<1>3. JobsStay /\ MessagesStay /\ replies' = replies
  BY NothingChanges DEF Receive, ApiInv
<1> QED
  BY <1>1, <1>2, <1>3, GoOnKeepsInv DEF p

LEMMA LookupKeepsInv ==
  ASSUME ApiInv, NEW t \in Threads, Lookup(t) \/ Relookup(t)
  PROVE  ApiInv'
<1>1. JobsStay /\ MessagesStay /\ TableTypes
  BY NothingChanges DEF Lookup, Relookup, ApiInv
<1>2. /\ request[t].key # NoKey
      /\ Relookup(t) => WithKey(request[t].conversation, request[t].key) # {}
  BY DEF ApiInv, KeyInv, LookupsHaveKeys, Lookup, Relookup, WithKey, Answers
<1>3. CASE \E j \in WithKey(request[t].conversation, request[t].key) : Answer(t, j)
  <2>1. PICK j \in JobIds : Answers(j, request[t].conversation, request[t].key) /\ Answer(t, j)
    BY <1>3 DEF WithKey, Answers
  <2>2. /\ Becomes(t, Idle)
        /\ \E a \in Reply : replies' = replies \cup {a} /\ Answers(a.job, a.conversation, a.key)
    BY <1>1, <1>2, <2>1, AnswerEffect
  <2> QED
    BY <1>1, <2>2, IdleRequest, GoOnKeepsInv
<1>4. CASE Goto(t, "count") /\ UNCHANGED replies
  <2>1. PICK p \in Request : Becomes(t, p) /\ p.pc = "count"
    BY <1>1, <1>4, GotoEffect
  <2> QED
    BY <1>1, <1>4, <2>1, GoOnKeepsInv
<1> QED
  BY <1>2, <1>3, <1>4 DEF Lookup, Relookup

LEMMA CountKeepsInv ==
  ASSUME ApiInv, NEW t \in Threads, Count(t)
  PROVE  ApiInv'
<1>1. JobsStay /\ MessagesStay /\ TableTypes /\ replies' = replies
  BY NothingChanges DEF Count, ApiInv
<1>2. CASE Becomes(t, Idle)
  BY <1>1, <1>2, IdleRequest, GoOnKeepsInv
<1>3. CASE Goto(t, "flush")
  <2>1. PICK p \in Request : Becomes(t, p) /\ p.pc = "flush"
    BY <1>1, <1>3, GotoEffect
  <2> QED
    BY <1>1, <2>1, GoOnKeepsInv
<1> QED
  BY <1>2, <1>3 DEF Count, Becomes

\* The prompt gets an id no message had; nobody sees it yet.
LEMMA FlushKeepsInv ==
  ASSUME ApiInv, NEW t \in Threads, Flush(t)
  PROVE  ApiInv'
<1> DEFINE n == Len(ai_messages) + 1
           r == request[t]
           p == [r EXCEPT !.pc = "commit", !.message = n]
           m == [conversation |-> r.conversation, state |-> "open", role |-> "user"]
<1>1. TableTypes /\ KeyInv /\ PromptInv
  BY DEF ApiInv
<1>2. r \in Request /\ n \in Nat /\ m \in Message
  <2>1. r \in Request /\ r.conversation \in Conversations
    BY <1>1 DEF TableTypes, Request
  <2>2. n \in Nat
    BY <1>1, LenProperties DEF TableTypes
  <2> QED
    BY <2>1, <2>2 DEF Message
<1>3. ai_messages' = Append(ai_messages, m) /\ Becomes(t, p)
  BY DEF Flush, NewMessage, Becomes
<1>4. /\ ai_messages' \in Seq(Message)
      /\ n \notin MessageIds
      /\ DOMAIN ai_messages' = MessageIds \cup {n}
      /\ \A i \in MessageIds : ai_messages'[i] = ai_messages[i]
      /\ ai_messages'[n] = m
  BY <1>1, <1>2, <1>3, AppendEffect DEF TableTypes, MessageIds
<1>5. m.state = "open" /\ m.conversation = r.conversation
  OBVIOUS
<1>6. MessagesStay
  BY <1>4, <1>5 DEF MessagesStay
<1>7. JobsStay /\ replies' = replies
  BY <1>1, NothingChanges DEF Flush
<1> HIDE DEF n, r, m
<1>8. p \in Request /\ p.pc = "commit" /\ p.message = n /\ p.conversation = r.conversation
  BY <1>2 DEF Request
<1> HIDE DEF p
<1>9. /\ request' \in [Threads -> Request]
      /\ request'[t] = p
      /\ \A u \in Threads : u # t => request'[u] = request[u]
  BY <1>1, <1>3, <1>8, BecomesEffect
<1>10. KeyInv'
  BY <1>1, <1>3, <1>7, <1>8, GoOnKeepsKeys
<1>11. PromptInv'
  <2>1. \A u \in Threads : request'[u].pc = "commit" => FlushedPrompt(u)'
    BY <1>1, <1>4, <1>5, <1>8, <1>9 DEF PromptInv, FlushedPrompt, MessageIds
  <2>2. \A u, v \in Threads :
          (/\ request'[u].pc = "commit" /\ request'[v].pc = "commit"
           /\ request'[u].message = request'[v].message) => u = v
    <3>1. \A u \in Threads : u # t /\ request'[u].pc = "commit" => request'[u].message # n
      BY <1>1, <1>4, <1>9 DEF PromptInv, FlushedPrompt
    <3> QED
      BY <1>1, <1>8, <1>9, <3>1 DEF PromptInv
  <2>3. \A j \in JobIds' : CommittedPrompt(j)'
    BY <1>1, <1>6, <1>7 DEF PromptInv, JobsStay, MessagesStay, JobIds, MessageIds, CommittedPrompt
  <2>4. \A i, j \in JobIds' : ai_jobs'[i].message = ai_jobs'[j].message => i = j
    BY <1>1, <1>7 DEF PromptInv, JobsStay, JobIds
  <2>5. \A i \in MessageIds' :
          ai_messages'[i].role = "user" /\ ai_messages'[i].state = "committed" =>
            \E j \in JobIds' : ai_jobs'[j].message = i
    BY <1>1, <1>6, <1>7 DEF PromptInv, JobsStay, MessagesStay, JobIds, MessageIds
  <2> QED
    BY <2>1, <2>2, <2>3, <2>4, <2>5 DEF PromptInv
<1>12. TableTypes'
  BY <1>1, <1>4, <1>7, <1>9 DEF TableTypes, JobsStay
<1> QED
  BY <1>10, <1>11, <1>12 DEF ApiInv

\* The prompt of a request that ends without a commit is nobody's.
LEMMA RollBackKeepsInv ==
  ASSUME ApiInv, NEW t \in Threads, request[t].pc = "commit",
         NEW p \in Request, Becomes(t, p), p.pc # "commit",
         p.pc \in {"lookup", "relookup"} => p.key # NoKey,
         p.pc = "relookup" => \E j \in JobIds : Answers(j, p.conversation, p.key),
         ai_messages' \in Seq(Message),
         DOMAIN ai_messages' = MessageIds,
         \A m \in MessageIds : m # request[t].message => ai_messages'[m] = ai_messages[m],
         ai_messages'[request[t].message].state = "rolled back",
         UNCHANGED <<ai_jobs, replies>>
  PROVE  ApiInv'
<1>1. TableTypes /\ KeyInv /\ PromptInv /\ JobsStay
  BY NothingChanges DEF ApiInv
<1>2. /\ request' \in [Threads -> Request]
      /\ request'[t] = p
      /\ \A u \in Threads : u # t => request'[u] = request[u]
  BY <1>1, BecomesEffect
<1>3. KeyInv'
  BY <1>1, GoOnKeepsKeys
<1>4. FlushedPrompt(t)
  BY <1>1 DEF PromptInv
<1>5. \A u, v \in Threads :
        (/\ request[u].pc = "commit" /\ request[v].pc = "commit"
         /\ request[u].message = request[v].message) => u = v
  BY <1>1 DEF PromptInv
<1>6. \A u \in Threads : request'[u].pc = "commit" =>
         u # t /\ request'[u] = request[u] /\ request[u].message # request[t].message
  <2> SUFFICES ASSUME NEW u \in Threads, request'[u].pc = "commit"
               PROVE  u # t /\ request'[u] = request[u] /\ request[u].message # request[t].message
    OBVIOUS
  <2>1. u # t /\ request'[u] = request[u]
    BY <1>2
  <2> QED
    BY <1>5, <2>1
<1>7. \A u \in Threads : request'[u].pc = "commit" => FlushedPrompt(u)'
  <2> SUFFICES ASSUME NEW u \in Threads, request'[u].pc = "commit" PROVE FlushedPrompt(u)'
    OBVIOUS
  <2>1. FlushedPrompt(u) /\ request'[u] = request[u] /\ request[u].message # request[t].message
    BY <1>1, <1>6 DEF PromptInv
  <2> QED
    BY <2>1 DEF FlushedPrompt, MessageIds
<1>8. \A u, v \in Threads :
        (/\ request'[u].pc = "commit" /\ request'[v].pc = "commit"
         /\ request'[u].message = request'[v].message) => u = v
  <2> SUFFICES ASSUME NEW u \in Threads, NEW v \in Threads,
                      request'[u].pc = "commit", request'[v].pc = "commit",
                      request'[u].message = request'[v].message
               PROVE  u = v
    OBVIOUS
  <2>1. request'[u] = request[u] /\ request'[v] = request[v]
    BY <1>6
  <2> QED
    BY <1>5, <2>1
<1>9. \A j \in JobIds : ai_jobs[j].message # request[t].message
  BY <1>1, <1>4 DEF PromptInv, FlushedPrompt, CommittedPrompt
<1>10. \A j \in JobIds' : CommittedPrompt(j)'
  BY <1>1, <1>9 DEF PromptInv, JobIds, MessageIds, CommittedPrompt
<1>11. \A i, j \in JobIds' : ai_jobs'[i].message = ai_jobs'[j].message => i = j
  BY <1>1 DEF PromptInv, JobIds
<1>12. \A m \in MessageIds' : ai_messages'[m].role = "user" /\ ai_messages'[m].state = "committed" =>
         \E j \in JobIds' : ai_jobs'[j].message = m
  BY <1>1 DEF PromptInv, JobIds, MessageIds
<1>13. PromptInv'
  BY <1>7, <1>8, <1>10, <1>11, <1>12 DEF PromptInv
<1>14. TableTypes'
  BY <1>1, <1>2 DEF TableTypes
<1> QED
  BY <1>3, <1>13, <1>14 DEF ApiInv

\* Prompt and job are committed together.
LEMMA InsertJobKeepsInv ==
  ASSUME ApiInv, NEW t \in Threads, request[t].pc = "commit", ~Duplicate(t), InsertJob(t)
  PROVE  ApiInv'
<1>0. PICK n : n = Len(ai_jobs) + 1
  OBVIOUS
<1> DEFINE r == request[t]
           job == [conversation |-> r.conversation, key |-> r.key, message |-> r.message,
                   status |-> "queued"]
           a == [conversation |-> r.conversation, key |-> r.key, job |-> n]
<1>1. TableTypes /\ KeyInv /\ PromptInv
  BY DEF ApiInv
<1>2. r \in Request /\ FlushedPrompt(t) /\ Len(ai_jobs) \in Nat /\ n \in Nat
  BY <1>0, <1>1, LenProperties DEF TableTypes, PromptInv
<1>3. r.message \in MessageIds /\ r.message \in Nat \ {0}
  <2>1. MessageIds = 1..Len(ai_messages) /\ Len(ai_messages) \in Nat
    BY <1>1, LenProperties DEF TableTypes, MessageIds
  <2> QED
    BY <1>2, <2>1 DEF FlushedPrompt
<1>4. job \in Job
  BY <1>2, <1>3 DEF Job, Request
<1>5. /\ ai_jobs' \in Seq(Job)
      /\ n \notin JobIds
      /\ DOMAIN ai_jobs' = JobIds \cup {n}
      /\ \A i \in JobIds : ai_jobs'[i] = ai_jobs[i]
      /\ ai_jobs'[n] = job
  <2>1. ai_jobs' = Append(ai_jobs, job)
    BY DEF InsertJob
  <2> HIDE DEF job
  <2> QED
    BY <1>0, <1>1, <1>4, <2>1, AppendEffect DEF TableTypes, JobIds
<1>6. job.conversation = r.conversation /\ job.key = r.key /\ job.message = r.message
  OBVIOUS
<1> HIDE DEF job
<1>7. /\ ai_messages' \in Seq(Message)
      /\ DOMAIN ai_messages' = MessageIds
      /\ \A m \in MessageIds : m # r.message => ai_messages'[m] = ai_messages[m]
      /\ ai_messages'[r.message].state = "committed"
      /\ ai_messages'[r.message].conversation = r.conversation
  <2> DEFINE row == ai_messages[r.message]
             e == [row EXCEPT !.state = "committed"]
  <2>1. row \in Message /\ row.conversation = r.conversation
    BY <1>1, <1>2, <1>3, LenProperties, ElementOfSeq DEF TableTypes, MessageIds, FlushedPrompt
  <2>2. ai_messages' = [ai_messages EXCEPT ![r.message] = e]
    BY DEF InsertJob
  <2> HIDE DEF row
  <2>3. e \in Message /\ e.state = "committed" /\ e.conversation = row.conversation
    BY <2>1 DEF Message
  <2> HIDE DEF e
  <2> QED
    BY <1>1, <1>3, <2>1, <2>2, <2>3, UpdateEffect DEF TableTypes, MessageIds
<1>8. Becomes(t, Idle) /\ replies' = IF r.key = NoKey THEN replies ELSE replies \cup {a}
  BY <1>0 DEF InsertJob, Answer, Becomes
<1>9. /\ request' \in [Threads -> Request]
      /\ request'[t].pc = "idle"
      /\ \A u \in Threads : u # t => request'[u] = request[u]
  BY <1>1, <1>8, BecomesEffect, IdleRequest
<1>10. r.key # NoKey => \A j \in JobIds : ~Answers(j, r.conversation, r.key)
  BY DEF Duplicate, WithKey, Answers
<1>11. \A j, c, k : Answers(j, c, k) => /\ j \in DOMAIN ai_jobs'
                                        /\ ai_jobs'[j].conversation = c
                                        /\ ai_jobs'[j].key = k
  BY <1>5 DEF Answers
<1>12. KeysAreUnique'
  <2> SUFFICES ASSUME NEW i \in JobIds', NEW j \in JobIds',
                      ai_jobs'[i].key # NoKey, ai_jobs'[i].key = ai_jobs'[j].key,
                      ai_jobs'[i].conversation = ai_jobs'[j].conversation
               PROVE  i = j
    BY DEF KeysAreUnique
  <2>1. \A k \in JobIds : r.key # NoKey =>
          ~(ai_jobs[k].key = r.key /\ ai_jobs[k].conversation = r.conversation)
    BY <1>10 DEF Answers
  <2>2. CASE i \in JobIds /\ j \in JobIds
    BY <1>1, <1>5, <2>2 DEF KeyInv, KeysAreUnique
  <2>3. CASE i = n \/ j = n
    BY <1>5, <1>6, <2>1, <2>3 DEF JobIds
  <2> QED
    BY <1>5, <2>2, <2>3 DEF JobIds
<1>13. LookupsHaveKeys'
  <2>1. \A u \in Threads : request'[u].pc \in {"lookup", "relookup"} => request'[u] = request[u]
    BY <1>9
  <2> QED
    BY <1>1, <1>11, <2>1 DEF KeyInv, LookupsHaveKeys, Answers, JobIds
<1>14. RepliesNameJobs' /\ replies' \subseteq Reply
  <2>1. CASE r.key = NoKey
    BY <1>1, <1>8, <1>11, <2>1 DEF KeyInv, RepliesNameJobs, Answers, JobIds, TableTypes
  <2>2. CASE r.key # NoKey
    <3>1. a \in Reply /\ a.conversation = r.conversation /\ a.key = r.key /\ a.job = n
      BY <1>2, <2>2 DEF Reply, Request
    <3>2. replies' = replies \cup {a}
      BY <1>8, <2>2
    <3> HIDE DEF a
    <3>3. \A b \in replies' : /\ b.job \in DOMAIN ai_jobs'
                              /\ ai_jobs'[b.job].conversation = b.conversation
                              /\ ai_jobs'[b.job].key = b.key
      BY <1>1, <1>5, <1>6, <1>11, <3>1, <3>2 DEF KeyInv, RepliesNameJobs
    <3> QED
      BY <1>1, <3>1, <3>2, <3>3 DEF RepliesNameJobs, Answers, JobIds, TableTypes
  <2> QED
    BY <2>1, <2>2
<1>15. PromptInv'
  <2>1. \A u \in Threads : request'[u].pc = "commit" =>
          u # t /\ request'[u] = request[u] /\ request[u].message # r.message
    BY <1>1, <1>9 DEF PromptInv
  <2>2. \A u \in Threads : request'[u].pc = "commit" => FlushedPrompt(u)'
    BY <1>1, <1>7, <2>1 DEF PromptInv, FlushedPrompt, MessageIds
  <2>3. \A u, v \in Threads :
          (/\ request'[u].pc = "commit" /\ request'[v].pc = "commit"
           /\ request'[u].message = request'[v].message) => u = v
    BY <1>1, <2>1 DEF PromptInv
  <2>4. \A j \in JobIds : ai_jobs[j].message # r.message
    BY <1>1, <1>2 DEF PromptInv, FlushedPrompt, CommittedPrompt
  <2>5. \A j \in JobIds' : CommittedPrompt(j)'
    <3>1. \A j \in JobIds : CommittedPrompt(j)'
      BY <1>1, <1>5, <1>7, <2>4 DEF PromptInv, MessageIds, CommittedPrompt
    <3>2. CommittedPrompt(n)'
      BY <1>3, <1>5, <1>6, <1>7 DEF MessageIds, CommittedPrompt
    <3> QED
      BY <1>5, <3>1, <3>2 DEF JobIds
  <2>6. \A i, j \in JobIds' : ai_jobs'[i].message = ai_jobs'[j].message => i = j
    BY <1>1, <1>5, <1>6, <2>4 DEF PromptInv, JobIds
  <2>7. \A m \in MessageIds' :
          ai_messages'[m].role = "user" /\ ai_messages'[m].state = "committed" =>
            \E j \in JobIds' : ai_jobs'[j].message = m
    BY <1>1, <1>5, <1>6, <1>7 DEF PromptInv, JobIds, MessageIds
  <2> QED
    BY <2>2, <2>3, <2>5, <2>6, <2>7 DEF PromptInv
<1>16. TableTypes'
  BY <1>5, <1>7, <1>9, <1>14 DEF TableTypes
<1> QED
  BY <1>12, <1>13, <1>14, <1>15, <1>16 DEF ApiInv, KeyInv

\* The messages after a rollback.
LEMMA RolledBack ==
  ASSUME ApiInv, NEW t \in Threads, request[t].pc = "commit",
         ai_messages' = [ai_messages EXCEPT ![request[t].message].state = "rolled back"]
  PROVE  /\ ai_messages' \in Seq(Message)
         /\ DOMAIN ai_messages' = MessageIds
         /\ \A m \in MessageIds : m # request[t].message => ai_messages'[m] = ai_messages[m]
         /\ ai_messages'[request[t].message].state = "rolled back"
<1> DEFINE i == request[t].message
           row == ai_messages[i]
           e == [row EXCEPT !.state = "rolled back"]
<1>1. ai_messages \in Seq(Message) /\ i \in MessageIds
  BY DEF ApiInv, TableTypes, PromptInv, FlushedPrompt
<1>2. row \in Message
  BY <1>1, LenProperties, ElementOfSeq DEF MessageIds
<1>3. ai_messages' = [ai_messages EXCEPT ![i] = e]
  OBVIOUS
<1> HIDE DEF row
<1>4. e \in Message /\ e.state = "rolled back"
  BY <1>2 DEF Message
<1> HIDE DEF e
<1>5. /\ ai_messages' \in Seq(Message)
      /\ DOMAIN ai_messages' = MessageIds
      /\ ai_messages'[i] = e
      /\ \A m \in MessageIds : m # i => ai_messages'[m] = ai_messages[m]
  <2> DEFINE rows == [ai_messages EXCEPT ![i] = e]
  <2>1. /\ rows \in Seq(Message) /\ DOMAIN rows = DOMAIN ai_messages /\ rows[i] = e
        /\ \A m \in DOMAIN ai_messages : m # i => rows[m] = ai_messages[m]
    <3> HIDE DEF i
    <3> QED
      BY <1>1, <1>4, UpdateEffect DEF MessageIds
  <2> HIDE DEF rows
  <2>2. ai_messages' = rows
    BY <1>3 DEF rows
  <2> QED
    BY <2>1, <2>2 DEF MessageIds
<1> QED
  BY <1>4, <1>5

LEMMA CommitKeepsInv ==
  ASSUME ApiInv, NEW t \in Threads, Commit(t)
  PROVE  ApiInv'
<1>1. request[t].pc = "commit" /\ TableTypes
  BY DEF Commit, ApiInv
<1>2. CASE Duplicate(t)
  <2>1. /\ ai_messages' = [ai_messages EXCEPT ![request[t].message].state = "rolled back"]
        /\ Goto(t, "relookup")
        /\ UNCHANGED <<ai_jobs, replies>>
    BY <1>2 DEF Commit
  <2>2. PICK p \in Request : /\ Becomes(t, p) /\ p.pc = "relookup"
                             /\ p.key = request[t].key
                             /\ p.conversation = request[t].conversation
    BY <1>1, <2>1, GotoEffect
  <2>3. p.key # NoKey /\ \E j \in JobIds : Answers(j, p.conversation, p.key)
    BY <1>2, <2>2 DEF Duplicate, WithKey, Answers
  <2> QED
    BY <1>1, <2>1, <2>2, <2>3, RolledBack, RollBackKeepsInv
<1>3. CASE ~Duplicate(t)
  BY <1>1, <1>3, InsertJobKeepsInv DEF Commit
<1> QED
  BY <1>2, <1>3

LEMMA AbortKeepsInv ==
  ASSUME ApiInv, NEW t \in Threads, Abort(t)
  PROVE  ApiInv'
<1>1. Becomes(t, Idle) /\ UNCHANGED <<ai_jobs, replies>> /\ TableTypes
  BY DEF Abort, Becomes, ApiInv
<1>2. ai_messages = [m \in MessageIds |-> ai_messages[m]]
  BY LenProperties DEF ApiInv, TableTypes, MessageIds
<1>3. CASE request[t].pc = "commit"
  <2>1. ai_messages' = [ai_messages EXCEPT ![request[t].message].state = "rolled back"]
    <3> DEFINE RB(m) == [ai_messages[m] EXCEPT !.state = "rolled back"]
    <3>1. ai_messages' = [m \in MessageIds |-> IF m = request[t].message THEN RB(m)
                                               ELSE ai_messages[m]]
      BY <1>3 DEF Abort
    <3>2. [ai_messages EXCEPT ![request[t].message].state = "rolled back"] =
            [ai_messages EXCEPT ![request[t].message] = RB(request[t].message)]
      OBVIOUS
    <3> HIDE DEF RB
    <3>3. [ai_messages EXCEPT ![request[t].message] = RB(request[t].message)] =
            [m \in MessageIds |-> IF m = request[t].message THEN RB(m) ELSE ai_messages[m]]
      BY <1>2 DEF MessageIds
    <3> QED
      BY <3>1, <3>2, <3>3
  <2> QED
    BY <1>1, <1>3, <2>1, RolledBack, RollBackKeepsInv, IdleRequest
<1>4. CASE request[t].pc # "commit"
  <2>1. ai_messages' = ai_messages
    BY <1>2, <1>4 DEF Abort
  <2>2. JobsStay /\ MessagesStay
    BY <1>1, <2>1, NothingChanges
  <2> QED
    BY <1>1, <2>2, IdleRequest, GoOnKeepsInv
<1> QED
  BY <1>3, <1>4

-----------------------------------------------------------------------------
(* The worker: jobs change their status only *)

LEMMA WorkerEffect ==
  ASSUME ApiInv, NEW j \in JobIds, Start(j) \/ Settle(j)
  PROVE  JobsStay /\ MessagesStay
<1>1. TableTypes /\ ai_jobs \in Seq(Job)
  BY DEF ApiInv, TableTypes
<1>2. JobsStay
  <2>1. PICK s \in {"running", "settled"} : ai_jobs' = [ai_jobs EXCEPT ![j].status = s]
    BY DEF Start, Settle
  <2> DEFINE row == ai_jobs[j]
             e == [row EXCEPT !.status = s]
  <2>2. row \in Job
    BY <1>1, LenProperties, ElementOfSeq DEF JobIds
  <2>3. ai_jobs' = [ai_jobs EXCEPT ![j] = e]
    BY <2>1
  <2> HIDE DEF row
  <2>4. /\ e \in Job /\ e.conversation = row.conversation
        /\ e.key = row.key /\ e.message = row.message
    BY <2>2 DEF Job
  <2> HIDE DEF e
  <2>5. /\ ai_jobs' \in Seq(Job)
        /\ DOMAIN ai_jobs' = JobIds
        /\ ai_jobs'[j] = e
        /\ \A i \in JobIds : i # j => ai_jobs'[i] = ai_jobs[i]
    BY <1>1, <2>3, <2>4, UpdateEffect DEF JobIds
  <2> QED
    BY <2>4, <2>5 DEF JobsStay, row
<1>3. MessagesStay
  <2>1. CASE ai_messages' = ai_messages
    BY <1>1, <2>1, NothingChanges
  <2>2. CASE NewMessage(ai_jobs[j].conversation, "committed", "assistant")
    <3> DEFINE m == [conversation |-> ai_jobs[j].conversation,
                     state |-> "committed", role |-> "assistant"]
    <3>0. ai_jobs[j] \in Job
      BY <1>1, LenProperties, ElementOfSeq DEF JobIds
    <3>1. ai_jobs[j].conversation \in Conversations
      BY <3>0 DEF Job
    <3>2. m \in Message /\ m.role = "assistant"
      BY <3>1 DEF Message
    <3>3. ai_messages' = Append(ai_messages, m)
      BY <2>2 DEF NewMessage
    <3> HIDE DEF m
    <3> QED
      BY <1>1, <3>2, <3>3, AppendEffect DEF TableTypes, MessagesStay, MessageIds
  <2> QED
    BY <2>1, <2>2 DEF Start, Settle
<1> QED
  BY <1>2, <1>3

LEMMA WorkerKeepsInv ==
  ASSUME ApiInv, NEW j \in JobIds, Start(j) \/ Settle(j)
  PROVE  ApiInv'
<1>1. TableTypes
  BY DEF ApiInv
<1>2. JobsStay
  BY WorkerEffect
<1>3. MessagesStay
  BY WorkerEffect
<1>4. request' = request /\ replies' = replies
  BY DEF Start, Settle
<1>5. KeyInv'
  BY <1>2, <1>4 DEF ApiInv, KeyInv, KeysAreUnique, LookupsHaveKeys, RepliesNameJobs, Answers,
                    JobsStay, JobIds
<1>6. PromptInv'
  <2>1. \A u \in Threads : request'[u].pc = "commit" => FlushedPrompt(u)'
    BY <1>3, <1>4 DEF ApiInv, PromptInv, FlushedPrompt, MessagesStay, MessageIds
  <2>2. \A i \in JobIds' : CommittedPrompt(i)'
    BY <1>2, <1>3 DEF ApiInv, PromptInv, JobsStay, MessagesStay, JobIds, MessageIds, CommittedPrompt
  <2>3. \A i, k \in JobIds' : ai_jobs'[i].message = ai_jobs'[k].message => i = k
    BY <1>2 DEF ApiInv, PromptInv, JobsStay, JobIds
  <2>4. \A m \in MessageIds' :
          ai_messages'[m].role = "user" /\ ai_messages'[m].state = "committed" =>
            \E i \in JobIds' : ai_jobs'[i].message = m
    BY <1>2, <1>3 DEF ApiInv, PromptInv, JobsStay, MessagesStay, JobIds, MessageIds
  <2> QED
    BY <1>4, <2>1, <2>2, <2>3, <2>4 DEF ApiInv, PromptInv
<1>7. TableTypes'
  BY <1>1, <1>2, <1>3, <1>4 DEF TableTypes, JobsStay, MessagesStay
<1> QED
  BY <1>5, <1>6, <1>7 DEF ApiInv

-----------------------------------------------------------------------------
(* The invariant and what follows from it *)

LEMMA InitEstablishes == Init => ApiInv
<1> SUFFICES ASSUME Init PROVE ApiInv
  OBVIOUS
<1>1. JobIds = {} /\ MessageIds = {} /\ << >> \in Seq(Job) /\ << >> \in Seq(Message)
  BY EmptySeq DEF Init, JobIds, MessageIds
<1>2. \A t \in Threads : request[t].pc = "idle"
  BY IdleRequest DEF Init
<1>3. TableTypes
  BY <1>1, IdleRequest DEF Init, TableTypes
<1>4. KeyInv
  BY <1>1, <1>2 DEF Init, KeyInv, KeysAreUnique, LookupsHaveKeys, RepliesNameJobs
<1>5. PromptInv
  BY <1>1, <1>2 DEF PromptInv
<1> QED
  BY <1>3, <1>4, <1>5 DEF ApiInv

LEMMA NextKeepsInv == ApiInv /\ Next => ApiInv'
BY ReceiveKeepsInv, LookupKeepsInv, CountKeepsInv, FlushKeepsInv, CommitKeepsInv, AbortKeepsInv,
   WorkerKeepsInv DEF Next, RequestStep

LEMMA StutteringKeepsInv == ApiInv /\ UNCHANGED vars => ApiInv'
BY DEF vars, ApiInv, TableTypes, KeyInv, KeysAreUnique, LookupsHaveKeys, RepliesNameJobs,
       Answers, PromptInv, FlushedPrompt, JobIds, MessageIds, CommittedPrompt

(* The inductive invariant of the request API: keys name one job, an open
   prompt belongs to one request, and committed prompts and jobs are in step
   after every statement (send_message, its COMMIT and its rollbacks). *)
THEOREM ApiInvariant == Spec => []ApiInv
BY InitEstablishes, NextKeepsInv, StutteringKeepsInv, PTL DEF Spec

(* Repeated requests with one Idempotency-Key are answered with one and the same
   job of their conversation, whichever of any number of racing threads wins, and
   wherever others break off (send_message, _job_by_key, the unique index). *)
THEOREM OneJobForOneKey == Spec => []OneJobPerKey
<1>1. ApiInv => OneJobPerKey
  <2> SUFFICES ASSUME ApiInv PROVE OneJobPerKey
    OBVIOUS
  <2>1. \A a \in replies : /\ a \in Reply /\ a.job \in JobIds
                           /\ ai_jobs[a.job].conversation = a.conversation
                           /\ ai_jobs[a.job].key = a.key
    BY DEF ApiInv, TableTypes, KeyInv, RepliesNameJobs, Answers
  <2>2. \A a \in replies : a.key # NoKey
    BY <2>1, SetsAssumption DEF Reply
  <2>3. \A a, b \in replies : a.conversation = b.conversation /\ a.key = b.key => a.job = b.job
    BY <2>1, <2>2 DEF ApiInv, KeyInv, KeysAreUnique
  <2> QED
    BY <2>1, <2>3 DEF OneJobPerKey, WithKey
<1> QED
  BY <1>1, ApiInvariant, PTL

(* Prompts and jobs come and go together: a committed prompt has exactly one job
   and a job its committed prompt (the single commit of send_message). *)
THEOREM PromptsHaveOneJob == Spec => []PromptsMatchJobs
<1>1. ApiInv => PromptsMatchJobs
  <2> SUFFICES ASSUME ApiInv PROVE PromptsMatchJobs
    OBVIOUS
  <2>1. ASSUME NEW m \in MessageIds, ai_messages[m].role = "user",
               ai_messages[m].state = "committed"
        PROVE  Cardinality({j \in JobIds : ai_jobs[j].message = m}) = 1
    <3>1. PICK j \in JobIds : ai_jobs[j].message = m
      BY <2>1 DEF ApiInv, PromptInv
    <3>2. {i \in JobIds : ai_jobs[i].message = m} = {j}
      BY <3>1 DEF ApiInv, PromptInv
    <3> QED
      BY <3>2, FS_Singleton
  <2> QED
    BY <2>1 DEF ApiInv, PromptInv, PromptsMatchJobs, CommittedPrompt, Visible
<1> QED
  BY <1>1, ApiInvariant, PTL

-----------------------------------------------------------------------------
(* The limit on pending jobs, by counting *)

\* OvershootIsBounded, of one user.
Bounded(u) == Cardinality(Unsettled(u)) + Cardinality(Admitted(u)) < Limit + Cardinality(Threads)

\* What the bound counts is finite.
LEMMA CountedAreFinite ==
  ASSUME TableTypes, NEW u \in Users
  PROVE  /\ IsFiniteSet(Unsettled(u)) /\ Cardinality(Unsettled(u)) \in Nat
         /\ IsFiniteSet(Admitted(u)) /\ Cardinality(Admitted(u)) \in Nat
         /\ IsFiniteSet(Threads) /\ Cardinality(Threads) \in Nat
<1>1. IsFiniteSet(JobIds)
  <2>1. JobIds = 1..Len(ai_jobs) /\ Len(ai_jobs) \in Nat
    BY LenProperties DEF TableTypes, JobIds
  <2> QED
    BY <2>1, FS_Interval
<1>2. IsFiniteSet(Unsettled(u))
  <2>1. Unsettled(u) \in SUBSET JobIds
    BY DEF Unsettled
  <2> QED
    BY <1>1, <2>1, FS_Subset
<1>3. IsFiniteSet(Threads)
  BY SetsAssumption
<1>4. IsFiniteSet(Admitted(u))
  <2>1. Admitted(u) \in SUBSET Threads
    BY DEF Admitted
  <2> QED
    BY <1>3, <2>1, FS_Subset
<1> QED
  BY <1>2, <1>3, <1>4, FS_CardinalityType

\* A step that counts nobody in.
LEMMA NobodyCounted ==
  ASSUME TableTypes, TableTypes', NEW u \in Users,
         Bounded(u),
         Unsettled(u)' \subseteq Unsettled(u), Admitted(u)' \subseteq Admitted(u)
  PROVE  Bounded(u)'
<1> DEFINE U == Unsettled(u)  A == Admitted(u)  U2 == Unsettled(u)'  A2 == Admitted(u)'
<1>1. /\ IsFiniteSet(U) /\ IsFiniteSet(A)
      /\ Cardinality(U) \in Nat /\ Cardinality(A) \in Nat /\ Cardinality(Threads) \in Nat
  BY CountedAreFinite
<1> HIDE DEF U, A, U2, A2
<1>2. U2 \in SUBSET U /\ A2 \in SUBSET A
  BY DEF U, A, U2, A2
<1>3. /\ Cardinality(U2) <= Cardinality(U) /\ Cardinality(A2) <= Cardinality(A)
      /\ Cardinality(U2) \in Nat /\ Cardinality(A2) \in Nat
  BY <1>1, <1>2, FS_Subset, FS_CardinalityType
<1>4. Cardinality(U) + Cardinality(A) < Limit + Cardinality(Threads) /\ Limit \in Nat
  BY LimitAssumption DEF U, A, Bounded
<1>5. Cardinality(U2) + Cardinality(A2) < Limit + Cardinality(Threads)
  BY <1>1, <1>3, <1>4
<1> QED
  BY <1>5 DEF U2, A2, Bounded

\* A thread is admitted while fewer than Limit jobs of the user are pending.
LEMMA ThreadCounted ==
  ASSUME TableTypes, NEW u \in Users, NEW t \in Threads, t \notin Admitted(u),
         Cardinality(Unsettled(u)) < Limit,
         Unsettled(u)' = Unsettled(u), Admitted(u)' = Admitted(u) \cup {t}
  PROVE  Bounded(u)'
<1> DEFINE U == Unsettled(u)  A == Admitted(u)  U2 == Unsettled(u)'  A2 == Admitted(u)'
<1>1. /\ IsFiniteSet(Threads)
      /\ Cardinality(U) \in Nat /\ Cardinality(Threads) \in Nat
  BY CountedAreFinite
<1>2. A2 \in SUBSET Threads
  BY DEF Admitted
<1> HIDE DEF U, A, U2, A2
<1>3. Cardinality(A2) <= Cardinality(Threads) /\ Cardinality(A2) \in Nat
  BY <1>1, <1>2, FS_Subset, FS_CardinalityType
<1>4. U2 = U /\ Cardinality(U) < Limit /\ Limit \in Nat
  BY LimitAssumption DEF U, U2
<1>5. Cardinality(U2) + Cardinality(A2) < Limit + Cardinality(Threads)
  BY <1>1, <1>3, <1>4
<1> QED
  BY <1>5 DEF U2, A2, Bounded

\* An admitted request becomes a job.
LEMMA RequestBecomesJob ==
  ASSUME TableTypes, NEW u \in Users, NEW t \in Admitted(u), NEW n,
         Bounded(u),
         Unsettled(u)' = Unsettled(u) \cup {n}, Admitted(u)' = Admitted(u) \ {t}
  PROVE  Bounded(u)'
<1> DEFINE U == Unsettled(u)  A == Admitted(u)  U2 == Unsettled(u)'  A2 == Admitted(u)'
<1>1. /\ IsFiniteSet(U) /\ IsFiniteSet(A)
      /\ Cardinality(U) \in Nat /\ Cardinality(A) \in Nat /\ Cardinality(Threads) \in Nat
  BY CountedAreFinite
<1>2. U2 = U \cup {n} /\ A2 = A \ {t} /\ t \in A
  OBVIOUS
<1>3. Cardinality(U) + Cardinality(A) < Limit + Cardinality(Threads) /\ Limit \in Nat
  BY LimitAssumption DEF Bounded
<1> HIDE DEF U, A, U2, A2
<1>4. /\ Cardinality(U2) \in Nat /\ Cardinality(U2) <= Cardinality(U) + 1
      /\ Cardinality(A2) = Cardinality(A) - 1
  <2>1. Cardinality(U2) = IF n \in U THEN Cardinality(U) ELSE Cardinality(U) + 1
    BY <1>1, <1>2, FS_AddElement
  <2>2. Cardinality(A2) = Cardinality(A) - 1
    BY <1>1, <1>2, FS_RemoveElement
  <2> QED
    BY <1>1, <2>1, <2>2
<1>5. Cardinality(U2) + Cardinality(A2) < Limit + Cardinality(Threads)
  BY <1>1, <1>3, <1>4
<1> QED
  BY <1>5 DEF U2, A2, Bounded

LEMMA StepsKeepTheBound ==
  ASSUME ApiInv, ApiInv', OvershootIsBounded, Next
  PROVE  OvershootIsBounded'
<1> SUFFICES ASSUME NEW u \in Users
             PROVE  Bounded(u)'
  BY DEF OvershootIsBounded, Bounded
<1>1. TableTypes /\ TableTypes' /\ Bounded(u)
  BY DEF ApiInv, OvershootIsBounded, Bounded
<1>2. ai_jobs' = ai_jobs => Unsettled(u)' = Unsettled(u)
  BY DEF Unsettled, JobIds
<1>3. ASSUME NEW t \in Threads, NEW p \in Request, Becomes(t, p),
             \/ p.pc \notin {"flush", "commit"}
             \/ request[t].pc = "flush" /\ p.conversation = request[t].conversation
      PROVE  Admitted(u)' \subseteq Admitted(u)
  <2>1. /\ request'[t] = p
        /\ \A v \in Threads : v # t => request'[v] = request[v]
    BY <1>1, <1>3, BecomesEffect
  <2> QED
    BY <1>3, <2>1 DEF Admitted
<1>4. ASSUME NEW t \in Threads, NEW p \in Request, Becomes(t, p),
             p.pc \notin {"flush", "commit"}, ai_jobs' = ai_jobs
      PROVE  Bounded(u)'
  BY <1>1, <1>2, <1>3, <1>4, NobodyCounted
<1>5. ASSUME NEW t \in Threads, Receive(t)
      PROVE  Bounded(u)'
  <2>1. PICK c \in Conversations, k \in Keys \cup {NoKey} :
          Becomes(t, [pc |-> IF k = NoKey THEN "count" ELSE "lookup",
                      conversation |-> c, key |-> k, message |-> 0])
    BY <1>5 DEF Receive, Becomes
  <2> DEFINE p == [pc |-> IF k = NoKey THEN "count" ELSE "lookup",
                   conversation |-> c, key |-> k, message |-> 0]
  <2>2. p \in Request /\ p.pc \notin {"flush", "commit"}
    BY DEF Request
  <2> HIDE DEF p
  <2>3. ai_jobs' = ai_jobs
    BY <1>5 DEF Receive
  <2> QED
    BY <1>4, <2>1, <2>2, <2>3 DEF p
<1>6. ASSUME NEW t \in Threads, Lookup(t) \/ Relookup(t) \/ Abort(t)
      PROVE  Bounded(u)'
  <2>1. ai_jobs' = ai_jobs /\ (Becomes(t, Idle) \/ Goto(t, "count"))
    BY <1>6 DEF Lookup, Relookup, Abort, Answer, Becomes
  <2>2. CASE Becomes(t, Idle)
    BY <1>4, <2>1, <2>2, IdleRequest
  <2>3. CASE Goto(t, "count")
    <3>1. PICK p \in Request : Becomes(t, p) /\ p.pc = "count"
      BY <1>1, <2>3, GotoEffect
    <3> QED
      BY <1>4, <2>1, <3>1
  <2> QED
    BY <2>1, <2>2, <2>3
<1>7. ASSUME NEW t \in Threads, Count(t)
      PROVE  Bounded(u)'
  <2>1. ai_jobs' = ai_jobs
    BY <1>7 DEF Count
  <2>2. CASE Becomes(t, Idle)
    BY <1>4, <2>1, <2>2, IdleRequest
  <2>3. CASE /\ ~(Cardinality(PendingJobs(Owner[request[t].conversation])) >= Limit)
             /\ Goto(t, "flush")
    <3>1. PICK p \in Request : /\ Becomes(t, p) /\ p.pc = "flush"
                               /\ p.conversation = request[t].conversation
      BY <1>1, <2>3, GotoEffect
    <3>2. /\ request'[t] = p
          /\ \A v \in Threads : v # t => request'[v] = request[v]
      BY <1>1, <3>1, BecomesEffect
    <3>3. request[t].pc = "count"
      BY <1>7 DEF Count
    <3>4. CASE Owner[p.conversation] # u
      <4>1. Admitted(u)' \subseteq Admitted(u)
        BY <3>2, <3>4 DEF Admitted
      <4> QED
        BY <1>1, <1>2, <2>1, <4>1, NobodyCounted
    <3>5. CASE Owner[p.conversation] = u
      <4>1. t \notin Admitted(u) /\ Admitted(u)' = Admitted(u) \cup {t}
        BY <3>1, <3>2, <3>3, <3>5 DEF Admitted
      <4>2. PendingJobs(u) = Unsettled(u)
        <5>1. \A j \in JobIds : ai_jobs[j] \in Job
          BY <1>1, LenProperties, ElementOfSeq DEF TableTypes, JobIds
        <5>2. \A j \in JobIds : ai_jobs[j].status \in {"queued", "running", "settled"}
          BY <5>1 DEF Job
        <5> QED
          BY <5>2 DEF PendingJobs, Unsettled
      <4>3. Cardinality(Unsettled(u)) < Limit
        <5>1. Cardinality(Unsettled(u)) \in Nat /\ Limit \in Nat
          BY <1>1, CountedAreFinite, LimitAssumption
        <5>2. ~(Cardinality(Unsettled(u)) >= Limit)
          BY <2>3, <3>1, <3>5, <4>2
        <5> QED
          BY <5>1, <5>2
      <4> QED
        BY <1>1, <1>2, <2>1, <4>1, <4>3, ThreadCounted
    <3> QED
      BY <3>4, <3>5
  <2> QED
    BY <1>7, <2>2, <2>3 DEF Count, Becomes
<1>8. ASSUME NEW t \in Threads, Flush(t)
      PROVE  Bounded(u)'
  <2> DEFINE r == request[t]
             p == [r EXCEPT !.pc = "commit", !.message = Len(ai_messages) + 1]
  <2>1. r \in Request /\ Len(ai_messages) + 1 \in Nat
    BY <1>1, LenProperties DEF TableTypes
  <2>2. Becomes(t, p) /\ r.pc = "flush" /\ ai_jobs' = ai_jobs
    BY <1>8 DEF Flush, Becomes
  <2> HIDE DEF r
  <2>3. p \in Request /\ p.conversation = r.conversation
    BY <2>1 DEF Request
  <2> HIDE DEF p
  <2>4. Admitted(u)' \subseteq Admitted(u)
    BY <1>3, <2>2, <2>3 DEF r
  <2> QED
    BY <1>1, <1>2, <2>2, <2>4, NobodyCounted
<1>9. ASSUME NEW t \in Threads, Commit(t)
      PROVE  Bounded(u)'
  <2>1. CASE Duplicate(t)
    <3>1. ai_jobs' = ai_jobs /\ Goto(t, "relookup")
      BY <1>9, <2>1 DEF Commit
    <3>2. PICK p \in Request : Becomes(t, p) /\ p.pc = "relookup"
      BY <1>1, <3>1, GotoEffect
    <3> QED
      BY <1>4, <3>1, <3>2
  <2>2. CASE ~Duplicate(t)
    <3> DEFINE c == request[t].conversation
               job == [conversation |-> c, key |-> request[t].key,
                       message |-> request[t].message, status |-> "queued"]
    <3>1. /\ ai_jobs' = Append(ai_jobs, job) /\ Becomes(t, Idle)
          /\ request[t].pc = "commit"
      BY <1>9, <2>2 DEF Commit, InsertJob, Answer, Becomes
    <3>2. PICK n : /\ n = Len(ai_jobs) + 1
                   /\ n \notin JobIds
                   /\ DOMAIN ai_jobs' = JobIds \cup {n}
                   /\ \A j \in JobIds : ai_jobs'[j] = ai_jobs[j]
                   /\ ai_jobs'[n].conversation = c /\ ai_jobs'[n].status = "queued"
      <4>1. /\ ai_jobs \in Seq(Job) /\ Append(ai_jobs, job) \in Seq(Job)
            /\ Len(ai_jobs) \in Nat
        BY <1>1, <3>1, LenProperties DEF TableTypes
      <4>2. job.conversation = c /\ job.status = "queued"
        OBVIOUS
      <4>3. job \in Job
        <5>1. Append(ai_jobs, job)[Len(ai_jobs) + 1] \in Job
          BY <4>1, LenProperties, ElementOfSeq, AppendProperties
        <5> QED
          BY <4>1, <5>1
      <4> HIDE DEF job
      <4> QED
        BY <3>1, <4>1, <4>2, <4>3, AppendEffect DEF JobIds
    <3>3. /\ request'[t].pc = "idle"
          /\ \A v \in Threads : v # t => request'[v] = request[v]
      BY <1>1, <3>1, BecomesEffect, IdleRequest
    <3> HIDE DEF c
    <3>4. Admitted(u)' = Admitted(u) \ {t}
      BY <3>3 DEF Admitted
    <3>5. CASE Owner[c] # u
      <4>1. Unsettled(u)' = Unsettled(u)
        BY <3>2, <3>5 DEF Unsettled, JobIds
      <4> QED
        BY <1>1, <3>4, <4>1, NobodyCounted
    <3>6. CASE Owner[c] = u
      <4>1. Unsettled(u)' = Unsettled(u) \cup {n}
        BY <3>2, <3>6 DEF Unsettled, JobIds
      <4>2. t \in Admitted(u)
        BY <3>1, <3>6 DEF Admitted, c
      <4> QED
        BY <1>1, <3>4, <4>1, <4>2, RequestBecomesJob
    <3> QED
      BY <3>5, <3>6
  <2> QED
    BY <2>1, <2>2
<1>10. ASSUME NEW j \in JobIds, Start(j) \/ Settle(j)
       PROVE  Bounded(u)'
  <2>1. PICK s \in {"running", "settled"} : ai_jobs' = [ai_jobs EXCEPT ![j].status = s]
    BY <1>10 DEF Start, Settle
  <2>2. /\ ai_jobs[j].status # "settled" /\ request' = request
    BY <1>10 DEF Start, Settle
  <2>3. Admitted(u)' = Admitted(u)
    BY <2>2 DEF Admitted
  <2>4. /\ DOMAIN ai_jobs' = JobIds
        /\ \A i \in JobIds : /\ i # j => ai_jobs'[i] = ai_jobs[i]
                             /\ ai_jobs'[i].conversation = ai_jobs[i].conversation
    <3> DEFINE row == ai_jobs[j]
               e == [row EXCEPT !.status = s]
    <3>1. row \in Job /\ ai_jobs \in Seq(Job)
      BY <1>1, LenProperties, ElementOfSeq DEF TableTypes, JobIds
    <3>2. ai_jobs' = [ai_jobs EXCEPT ![j] = e]
      BY <2>1
    <3> HIDE DEF row
    <3>3. e \in Job /\ e.conversation = row.conversation
      BY <3>1 DEF Job
    <3> HIDE DEF e
    <3>4. /\ DOMAIN ai_jobs' = JobIds
          /\ ai_jobs'[j] = e
          /\ \A i \in JobIds : i # j => ai_jobs'[i] = ai_jobs[i]
      BY <3>1, <3>2, <3>3, UpdateEffect DEF JobIds
    <3> QED
      BY <3>3, <3>4 DEF row
  <2>5. Unsettled(u)' \subseteq Unsettled(u)
    <3> SUFFICES ASSUME NEW i \in Unsettled(u)' PROVE i \in Unsettled(u)
      OBVIOUS
    <3>0. /\ i \in DOMAIN ai_jobs'
          /\ Owner[ai_jobs'[i].conversation] = u /\ ai_jobs'[i].status # "settled"
      BY Zenon DEF Unsettled, JobIds
    <3>1. i \in JobIds /\ Owner[ai_jobs'[i].conversation] = u /\ ai_jobs'[i].status # "settled"
      BY <2>4, <3>0
    <3>2. Owner[ai_jobs[i].conversation] = u
      BY <2>4, <3>1
    <3>3. ai_jobs[i].status # "settled"
      BY <2>2, <2>4, <3>1
    <3> QED
      BY <3>1, <3>2, <3>3 DEF Unsettled
  <2> QED
    BY <1>1, <2>3, <2>5, NobodyCounted
<1> QED
  BY <1>5, <1>6, <1>7, <1>8, <1>9, <1>10 DEF Next, RequestStep

(* Requests of any number of threads that read the count at one time exceed
   ai_max_pending_jobs_per_user by fewer jobs than there are threads
   (the count in send_message takes no lock). *)
THEOREM OvershootStaysBounded == Spec => []OvershootIsBounded
<1>1. Init => OvershootIsBounded
  <2> SUFFICES ASSUME Init, NEW u \in Users
               PROVE  Cardinality(Unsettled(u)) + Cardinality(Admitted(u))
                        < Limit + Cardinality(Threads)
    BY DEF OvershootIsBounded
  <2>1. Unsettled(u) = {}
    BY DEF Init, Unsettled, JobIds
  <2>2. Admitted(u) = {}
    BY IdleRequest DEF Init, Admitted
  <2>3. Cardinality(Threads) \in Nat /\ Limit \in Nat \ {0}
    BY SetsAssumption, LimitAssumption, FS_CardinalityType
  <2> QED
    BY <2>1, <2>2, <2>3, FS_EmptySet
<1>2. ApiInv /\ ApiInv' /\ OvershootIsBounded /\ [Next]_vars => OvershootIsBounded'
  <2>1. ApiInv /\ ApiInv' /\ OvershootIsBounded /\ Next => OvershootIsBounded'
    BY StepsKeepTheBound
  <2>2. OvershootIsBounded /\ UNCHANGED vars => OvershootIsBounded'
    BY DEF OvershootIsBounded, Unsettled, Admitted, JobIds, vars
  <2> QED
    BY <2>1, <2>2
<1> QED
  BY <1>1, <1>2, ApiInvariant, PTL DEF Spec

-----------------------------------------------------------------------------
(* Induction *)

\* A set of numbers that has 0, and with a number the next one, has all of them.
LEMMA Induction ==
  ASSUME NEW T, 0 \in T, \A n \in Nat : n \in T => n + 1 \in T
  PROVE  Nat \subseteq T
<1> SUFFICES ASSUME NEW n \in Nat, n \notin T PROVE FALSE
  OBVIOUS
<1>1. \E R : /\ IsWellFoundedOn(R, Nat)
             /\ \A i, j \in Nat : i < j => <<i, j>> \in R
  <2> DEFINE R == OpToRel(<, Nat)
  <2>1. IsWellFoundedOn(R, Nat)
    BY NatLessThanWellFounded, Zenon
  <2>2. \A i, j \in Nat : i < j => <<i, j>> \in R
    BY DEF OpToRel
  <2> QED
    BY <2>1, <2>2, Zenon
<1>2. PICK R : IsWellFoundedOn(R, Nat) /\ \A i, j \in Nat : i < j => <<i, j>> \in R
  BY <1>1
<1> DEFINE Missing == Nat \ T
<1>3. Missing \subseteq Nat /\ Missing # {}
  OBVIOUS
<1> HIDE DEF Missing
<1>4. PICK m \in Missing : \A k \in Missing : ~(<<k, m>> \in R)
  BY <1>2, <1>3, WFMin
<1>5. m \in Nat /\ m # 0 /\ m - 1 \in Nat /\ m - 1 < m
  BY <1>4 DEF Missing
<1>6. m - 1 \in Missing
  BY <1>4, <1>5 DEF Missing
<1> QED
  BY <1>2, <1>4, <1>5, <1>6

LEMMA DownwardInduction ==
  ASSUME NEW n \in Nat, NEW T, n + 1 \in T, \A m \in 1..n : m + 1 \in T => m \in T
  PROVE  1..(n + 1) \subseteq T
<1> DEFINE U == {i \in Nat : i <= n => (n + 1) - i \in T}
<1>1. 0 \in U
  OBVIOUS
<1>2. ASSUME NEW i \in Nat, i \in U
      PROVE  i + 1 \in U
  <2> SUFFICES ASSUME i + 1 <= n PROVE (n + 1) - (i + 1) \in T
    OBVIOUS
  <2>1. PICK m \in 1..n : m = n - i
    OBVIOUS
  <2>2. m + 1 = (n + 1) - i /\ m = (n + 1) - (i + 1)
    BY <2>1
  <2> QED
    BY <1>2, <2>2
<1> HIDE DEF U
<1>3. Nat \subseteq U
  BY <1>1, <1>2, Induction
<1> SUFFICES ASSUME NEW m \in 1..(n + 1) PROVE m \in T
  OBVIOUS
<1>4. (n + 1) - m \in U /\ (n + 1) - m <= n /\ (n + 1) - ((n + 1) - m) = m
  BY <1>3
<1> QED
  BY <1>4 DEF U

\* f is defined by recursion from n + 1 down to 1.
IsStep(n, A, step) == step \in [(1..n) \X A -> A]

IsRecursion(n, A, a, step, f) ==
  /\ f \in [1..(n + 1) -> A]
  /\ f[n + 1] = a
  /\ \A m \in 1..n : f[m] = step[<<m, f[m + 1]>>]

LEMMA DownwardRecursion ==
  ASSUME NEW n \in Nat, NEW A, NEW a \in A, NEW step, IsStep(n, A, step)
  PROVE  \E f : IsRecursion(n, A, a, step, f)
<1> DEFINE Solves(f, m) == /\ f \in [m..(n + 1) -> A] /\ f[n + 1] = a
                           /\ \A k \in m..n : f[k] = step[<<k, f[k + 1]>>]
           T == {m \in 1..(n + 1) : \E f : Solves(f, m)}
<1>1. n + 1 \in T
  <2>1. Solves([k \in (n + 1)..(n + 1) |-> a], n + 1)
    OBVIOUS
  <2> QED
    BY <2>1
<1>2. ASSUME NEW m \in 1..n, m + 1 \in T
      PROVE  m \in T
  <2>1. PICK f : Solves(f, m + 1)
    BY <1>2
  <2> DEFINE g == [k \in m..(n + 1) |-> IF k = m THEN step[<<m, f[m + 1]>>] ELSE f[k]]
  <2>2. /\ m + 1 \in (m + 1)..(n + 1) /\ m # n + 1
        /\ \A k \in m..(n + 1) : k # m => k \in (m + 1)..(n + 1)
        /\ \A k \in m..n : k + 1 # m /\ k + 1 \in m..(n + 1) /\ k \in m..(n + 1)
        /\ \A k \in m..n : k # m => k \in (m + 1)..n
    OBVIOUS
  <2>3. f[m + 1] \in A
    BY <2>1, <2>2
  <2>4. step[<<m, f[m + 1]>>] \in A
    BY <2>3 DEF IsStep
  <2>5. g \in [m..(n + 1) -> A] /\ g[n + 1] = a
    BY <2>1, <2>2, <2>4
  <2>6. ASSUME NEW k \in m..n
        PROVE  g[k] = step[<<k, g[k + 1]>>]
    BY <2>1, <2>2
  <2>7. Solves(g, m)
    BY <2>5, <2>6
  <2>8. m \in 1..(n + 1)
    OBVIOUS
  <2> HIDE DEF Solves
  <2> QED
    BY <2>7, <2>8
<1> HIDE DEF T
<1>3. 1 \in T
  <2>1. 1 \in 1..(n + 1)
    OBVIOUS
  <2> QED
    BY <1>1, <1>2, <2>1, DownwardInduction
<1> QED
  BY <1>3 DEF T, IsRecursion

-----------------------------------------------------------------------------
(* Tokens *)

MessageNumbers == 1..MaxMessages

LEMMA MaxOfPair ==
  ASSUME NEW i \in Nat, NEW j \in Nat
  PROVE  Max({i, j}) \in {i, j} /\ Max({i, j}) >= i
<1>1. \E x \in {i, j} : \A y \in {i, j} : x >= y
  <2>1. CASE i >= j
    BY <2>1
  <2>2. CASE ~(i >= j)
    BY <2>2
  <2> QED
    BY <2>1, <2>2
<1>2. PICK x : x = Max({i, j})
  OBVIOUS
<1>3. x \in {i, j} /\ \A y \in {i, j} : x >= y
  BY <1>1, <1>2 DEF Max
<1> QED
  BY <1>2, <1>3

LEMMA MaxIsThere ==
  ASSUME NEW n \in Nat, NEW S \in SUBSET (1..n), S # {}
  PROVE  Max(S) \in S
<1> DEFINE Below == {i \in Nat : \A x \in S : x <= n - i}
<1>1. PICK x \in S : TRUE
  OBVIOUS
<1>2. 0 \in Below /\ n \notin Below
  BY <1>1
<1>3. ~(Nat \subseteq Below)
  BY <1>2
<1> HIDE DEF Below
<1>4. PICK i \in Nat : i \in Below /\ i + 1 \notin Below
  BY <1>2, <1>3, Induction
<1>5. PICK y \in S : ~(y <= n - (i + 1))
  BY <1>4 DEF Below
<1>6. y \in Nat /\ \A z \in S : z \in Nat /\ z <= y
  BY <1>4, <1>5 DEF Below
<1> QED
  BY <1>6 DEF Max

LEMMA TokensOfOne ==
  /\ \A length \in Nat : MessageTokens(length) \in Nat \ {0}
  /\ Budget \in Nat
<1>1. ASSUME NEW length \in Nat
      PROVE  MessageTokens(length) \in Nat \ {0}
  <2>1. (length + 3) \div 4 \in Nat
    OBVIOUS
  <2>2. Max({1, (length + 3) \div 4}) \in {1, (length + 3) \div 4}
    BY <2>1, MaxOfPair
  <2> QED
    BY <2>1, <2>2 DEF MessageTokens, EstimateTokens
<1>2. Budget \in Nat
  BY BudgetAssumption, MaxOfPair DEF Budget
<1> QED
  BY <1>1, <1>2

\* What message m adds.
Cost(m) == MessageTokens(ContentLength[m])

LEMMA CostIsPositive ==
  /\ \A m \in MessageNumbers : Cost(m) \in Nat \ {0}
  /\ MessageTokens(SystemLength) \in Nat
BY TokensOfOne, BudgetAssumption DEF Cost, MessageNumbers

\* Tokens from message m on.
IsSum(S, f) ==
  /\ f \in [1..(MaxMessages + 1) -> Nat]
  /\ f[MaxMessages + 1] = MessageTokens(SystemLength)
  /\ \A m \in 1..MaxMessages : f[m] = f[m + 1] + IF m \in S THEN Cost(m) ELSE 0

LEMMA TokensAreASum ==
  ASSUME NEW S
  PROVE  \E f : IsSum(S, f) /\ Tokens(S) = f[1]
<1> DEFINE n == MaxMessages
           body(f) == [m \in 1..(n + 1) |->
                         IF m > n THEN MessageTokens(SystemLength)
                         ELSE f[m + 1] + IF m \in S THEN MessageTokens(ContentLength[m]) ELSE 0]
           step == [p \in (1..n) \X Nat |-> p[2] + IF p[1] \in S THEN Cost(p[1]) ELSE 0]
<1>1. n \in Nat /\ MessageTokens(SystemLength) \in Nat
  BY LimitAssumption, CostIsPositive
<1>2. step \in [(1..n) \X Nat -> Nat]
  <2> SUFFICES ASSUME NEW p \in (1..n) \X Nat
               PROVE  p[2] + (IF p[1] \in S THEN Cost(p[1]) ELSE 0) \in Nat
    OBVIOUS
  <2>1. p[1] \in MessageNumbers /\ p[2] \in Nat
    BY DEF MessageNumbers
  <2> QED
    BY <2>1, CostIsPositive
<1>3. ASSUME NEW m \in 1..n, NEW x \in Nat
      PROVE  step[<<m, x>>] = x + IF m \in S THEN Cost(m) ELSE 0
  OBVIOUS
<1> HIDE DEF step
<1>4. PICK f : IsRecursion(n, Nat, MessageTokens(SystemLength), step, f)
  <2>1. IsStep(n, Nat, step)
    BY <1>2 DEF IsStep
  <2> HIDE DEF n
  <2> QED
    BY <1>1, <2>1, DownwardRecursion
<1>5. \A m \in 1..n : m + 1 \in 1..(n + 1) /\ ~(m > n)
  BY <1>1
<1>6. \A m \in 1..n : f[m] = f[m + 1] + IF m \in S THEN Cost(m) ELSE 0
  BY <1>3, <1>4, <1>5 DEF IsRecursion
<1>7. f = body(f)
  <2>1. ASSUME NEW m \in 1..(n + 1)
        PROVE  f[m] = body(f)[m]
    <3>1. CASE m = n + 1
      BY <1>1, <1>4, <3>1 DEF IsRecursion
    <3>2. CASE m # n + 1
      <4>1. m \in 1..n
        BY <1>1, <3>2
      <4> QED
        BY <1>5, <1>6, <4>1 DEF Cost
    <3> QED
      BY <3>1, <3>2
  <2>2. f = [m \in 1..(n + 1) |-> f[m]] /\ body(f) = [m \in 1..(n + 1) |-> body(f)[m]]
    BY <1>4 DEF IsRecursion
  <2> QED
    BY <2>1, <2>2
<1> DEFINE g == CHOOSE h : h = body(h)
<1>8. g = body(g)
  BY <1>7
<1>9. Tokens(S) = g[1]
  BY DEF Tokens
<1>10. \A m \in 1..(n + 1) : g[m] = IF m > n THEN MessageTokens(SystemLength)
                                   ELSE g[m + 1] + IF m \in S THEN Cost(m) ELSE 0
  <2> HIDE DEF g
  <2> QED
    BY <1>8 DEF Cost
<1>11. DOMAIN g = 1..(n + 1)
  <2> HIDE DEF g
  <2> QED
    BY <1>8
<1> HIDE DEF g
<1>12. \A m \in 1..(n + 1) : g[m] \in Nat
  <2> DEFINE T == {m \in 1..(n + 1) : g[m] \in Nat}
  <2>1. n + 1 \in T
    BY <1>1, <1>10
  <2>2. ASSUME NEW m \in 1..n, m + 1 \in T
        PROVE  m \in T
    <3>1. m \in MessageNumbers /\ m \in 1..(n + 1) /\ g[m + 1] \in Nat
      BY <1>1, <2>2 DEF MessageNumbers
    <3> QED
      BY <1>5, <1>10, <3>1, CostIsPositive
  <2> HIDE DEF T
  <2>3. 1..(n + 1) \subseteq T
    BY <1>1, <2>1, <2>2, DownwardInduction
  <2> QED
    BY <2>3 DEF T
<1>13. IsSum(S, g)
  <2>1. g \in [1..(n + 1) -> Nat]
    <3>1. g = [m \in 1..(n + 1) |-> g[m]]
      BY <1>8
    <3> QED
      BY <1>12, <3>1
  <2>2. n + 1 \in 1..(n + 1) /\ n + 1 > n
    BY <1>1
  <2>3. \A m \in 1..n : m \in 1..(n + 1)
    BY <1>1
  <2> QED
    BY <1>5, <1>10, <2>1, <2>2, <2>3 DEF IsSum
<1> QED
  BY <1>9, <1>13

LEMMA TokensOfMore ==
  ASSUME NEW S, NEW m \in MessageNumbers, m \notin S
  PROVE  Tokens(S) \in Nat /\ Tokens(S \cup {m}) = Tokens(S) + Cost(m)
<1>1. PICK f : IsSum(S, f) /\ Tokens(S) = f[1]
  BY TokensAreASum
<1>2. PICK g : IsSum(S \cup {m}, g) /\ Tokens(S \cup {m}) = g[1]
  BY TokensAreASum
<1>3. PICK n \in Nat : n = MaxMessages
  BY LimitAssumption
<1>4. PICK c \in Nat : c = Cost(m)
  BY CostIsPositive
<1>5. /\ \A i \in 1..(n + 1) : f[i] \in Nat /\ g[i] \in Nat
      /\ f[n + 1] = g[n + 1]
      /\ \A i \in 1..n : i # m => g[i] - g[i + 1] = f[i] - f[i + 1]
      /\ f[m] = f[m + 1] /\ g[m] = g[m + 1] + c
  <2>1. \A i \in 1..(n + 1) : f[i] \in Nat /\ g[i] \in Nat
    BY <1>1, <1>2, <1>3 DEF IsSum
  <2>2. f[n + 1] = g[n + 1]
    BY <1>1, <1>2, <1>3 DEF IsSum
  <2>3. ASSUME NEW i \in 1..n, i # m
        PROVE  g[i] - g[i + 1] = f[i] - f[i + 1]
    <3>1. /\ f[i + 1] \in Nat /\ g[i + 1] \in Nat
          /\ Cost(i) \in Nat /\ i \in S \cup {m} <=> i \in S
      BY <1>3, <2>1, <2>3, CostIsPositive DEF MessageNumbers
    <3>2. /\ f[i] = f[i + 1] + (IF i \in S THEN Cost(i) ELSE 0)
          /\ g[i] = g[i + 1] + (IF i \in S THEN Cost(i) ELSE 0)
      BY <1>1, <1>2, <1>3, <2>3, <3>1 DEF IsSum
    <3> QED
      BY <3>1, <3>2
  <2>4. m \in 1..n /\ m + 1 \in 1..(n + 1)
    BY <1>3 DEF MessageNumbers
  <2>5. f[m] = f[m + 1] + 0 /\ g[m] = g[m + 1] + c
    BY <1>1, <1>2, <1>3, <1>4, <2>4 DEF IsSum
  <2> QED
    BY <2>1, <2>2, <2>3, <2>4, <2>5
<1> DEFINE T == {i \in 1..(n + 1) : g[i] = f[i] + IF i <= m THEN c ELSE 0}
<1>6. n + 1 \in T
  <2>1. ~(n + 1 <= m) /\ n + 1 \in 1..(n + 1)
    BY <1>3 DEF MessageNumbers
  <2> QED
    BY <1>5, <2>1
<1>7. ASSUME NEW i \in 1..n, i + 1 \in T
      PROVE  i \in T
  <2>1. /\ i \in 1..(n + 1) /\ i + 1 \in 1..(n + 1) /\ m \in Nat
        /\ g[i + 1] = f[i + 1] + IF i + 1 <= m THEN c ELSE 0
    BY <1>7 DEF MessageNumbers
  <2>2. CASE i = m
    BY <1>5, <2>1, <2>2
  <2>3. CASE i # m
    <3>1. i <= m <=> i + 1 <= m
      BY <2>1, <2>3
    <3>2. /\ g[i] - g[i + 1] = f[i] - f[i + 1]
          /\ f[i] \in Nat /\ g[i] \in Nat /\ f[i + 1] \in Nat /\ g[i + 1] \in Nat
      BY <1>5, <2>1, <2>3
    <3>3. g[i] = f[i] + IF i <= m THEN c ELSE 0
      BY <2>1, <3>1, <3>2
    <3> QED
      BY <2>1, <3>3
  <2> QED
    BY <2>2, <2>3
<1> HIDE DEF T
<1>8. 1..(n + 1) \subseteq T
  BY <1>6, <1>7, DownwardInduction
<1>9. 1 \in 1..(n + 1) /\ 1 <= m
  BY DEF MessageNumbers
<1>10. g[1] = f[1] + c
  BY <1>8, <1>9 DEF T
<1> QED
  BY <1>1, <1>2, <1>4, <1>5, <1>9, <1>10

-----------------------------------------------------------------------------
(* The loop of build_token_limited_context *)

Reading == [kept : SUBSET MessageNumbers, used : Nat, full : BOOLEAN]

NothingRead == [kept |-> {}, used |-> MessageTokens(SystemLength), full |-> FALSE]

IsReading(history, f) ==
  /\ f \in [1..(Len(ai_messages) + 1) -> Reading]
  /\ f[Len(ai_messages) + 1] = NothingRead
  /\ \A m \in 1..Len(ai_messages) :
       f[m] = IF m \in history THEN Considered(f[m + 1], m) ELSE f[m + 1]

LEMMA ConsideredFields ==
  ASSUME NEW acc \in Reading, NEW m \in MessageNumbers
  PROVE  /\ Considered(acc, m) \in Reading
         /\ acc.full => Considered(acc, m) = acc
         /\ ~acc.full /\ acc.used + Cost(m) <= Budget =>
              /\ Considered(acc, m).kept = acc.kept \cup {m}
              /\ Considered(acc, m).used = acc.used + Cost(m)
              /\ ~Considered(acc, m).full
         /\ ~acc.full /\ ~(acc.used + Cost(m) <= Budget) =>
              /\ Considered(acc, m).kept = IF acc.kept = {} THEN {m} ELSE acc.kept
              /\ Considered(acc, m).full
<1>1. PICK c \in Nat : c = Cost(m)
  BY CostIsPositive
<1>2. acc.used + c \in Nat
  BY <1>1 DEF Reading
<1>3. Considered(acc, m) =
        IF acc.full THEN acc
        ELSE IF acc.used + c <= Budget
        THEN [acc EXCEPT !.used = acc.used + c, !.kept = acc.kept \cup {m}]
        ELSE [acc EXCEPT !.full = TRUE, !.kept = IF acc.kept = {} THEN {m} ELSE acc.kept]
  BY <1>1 DEF Considered, Cost
<1>4. CASE acc.full
  BY <1>3, <1>4
<1>5. CASE ~acc.full /\ acc.used + c <= Budget
  <2>1. Considered(acc, m) = [acc EXCEPT !.used = acc.used + c, !.kept = acc.kept \cup {m}]
    BY <1>3, <1>5
  <2>2. PICK u \in Nat, k \in SUBSET MessageNumbers : u = acc.used + c /\ k = acc.kept \cup {m}
    BY <1>2 DEF Reading
  <2>3. PICK r : r = [acc EXCEPT !.used = u, !.kept = k]
    OBVIOUS
  <2>4. r \in Reading /\ r.used = u /\ r.kept = k /\ r.full = acc.full
    BY <2>3 DEF Reading
  <2>5. Considered(acc, m) = r
    BY <2>1, <2>2, <2>3
  <2> QED
    BY <1>1, <1>5, <2>2, <2>4, <2>5
<1>6. CASE ~acc.full /\ ~(acc.used + c <= Budget)
  <2>1. PICK k \in SUBSET MessageNumbers : k = IF acc.kept = {} THEN {m} ELSE acc.kept
    BY DEF Reading
  <2>2. PICK r : r = [acc EXCEPT !.full = TRUE, !.kept = k]
    OBVIOUS
  <2>3. r \in Reading /\ r.kept = k /\ r.full
    BY <2>2 DEF Reading
  <2>4. Considered(acc, m) = r
    BY <1>3, <1>6, <2>1, <2>2
  <2> QED
    BY <1>1, <1>6, <2>1, <2>3, <2>4
<1> QED
  BY <1>4, <1>5, <1>6

LEMMA SelectedIsRead ==
  ASSUME NEW history, Len(ai_messages) \in Nat, Len(ai_messages) <= MaxMessages
  PROVE  \E f : IsReading(history, f) /\ Selected(history) = f[1].kept
<1> DEFINE n == Len(ai_messages)
           body(f) == [m \in 1..(n + 1) |->
                         IF m > n
                         THEN [kept |-> {}, used |-> MessageTokens(SystemLength), full |-> FALSE]
                         ELSE IF m \in history THEN Considered(f[m + 1], m) ELSE f[m + 1]]
           step == [p \in (1..n) \X Reading |->
                      IF p[1] \in history THEN Considered(p[2], p[1]) ELSE p[2]]
<1>1. /\ n \in Nat /\ NothingRead \in Reading
      /\ \A m \in 1..n : m \in MessageNumbers
  BY LimitAssumption, CostIsPositive DEF NothingRead, Reading, MessageNumbers
<1>2. IsStep(n, Reading, step)
  <2> SUFFICES ASSUME NEW p \in (1..n) \X Reading
               PROVE  (IF p[1] \in history THEN Considered(p[2], p[1]) ELSE p[2]) \in Reading
    BY DEF IsStep
  <2>1. p[1] \in MessageNumbers /\ p[2] \in Reading
    BY <1>1
  <2> QED
    BY <2>1, ConsideredFields
<1>3. ASSUME NEW m \in 1..n, NEW x \in Reading
      PROVE  step[<<m, x>>] = IF m \in history THEN Considered(x, m) ELSE x
  OBVIOUS
<1> HIDE DEF step
<1>4. PICK f : IsRecursion(n, Reading, NothingRead, step, f)
  <2> HIDE DEF n
  <2> QED
    BY <1>1, <1>2, DownwardRecursion
<1>5. \A m \in 1..n : m + 1 \in 1..(n + 1) /\ ~(m > n) /\ m \in 1..(n + 1)
  BY <1>1
<1>6. \A m \in 1..n : f[m] = IF m \in history THEN Considered(f[m + 1], m) ELSE f[m + 1]
  BY <1>3, <1>4, <1>5 DEF IsRecursion
<1>7. f = body(f)
  <2>1. ASSUME NEW m \in 1..(n + 1)
        PROVE  f[m] = body(f)[m]
    <3>1. CASE m = n + 1
      BY <1>1, <1>4, <3>1 DEF IsRecursion, NothingRead
    <3>2. CASE m # n + 1
      <4>1. m \in 1..n
        BY <1>1, <3>2
      <4> QED
        BY <1>5, <1>6, <4>1
    <3> QED
      BY <3>1, <3>2
  <2>2. f = [m \in 1..(n + 1) |-> f[m]] /\ body(f) = [m \in 1..(n + 1) |-> body(f)[m]]
    BY <1>4 DEF IsRecursion
  <2> QED
    BY <2>1, <2>2
<1> DEFINE g == CHOOSE h : h = body(h)
<1>8. g = body(g)
  BY <1>7
<1>9. Selected(history) = g[1].kept
  BY DEF Selected
<1> HIDE DEF g
<1>10. /\ DOMAIN g = 1..(n + 1)
       /\ g[n + 1] = NothingRead
       /\ \A m \in 1..n : g[m] = IF m \in history THEN Considered(g[m + 1], m) ELSE g[m + 1]
  <2>1. n + 1 \in 1..(n + 1) /\ n + 1 > n
    BY <1>1
  <2>2. g[n + 1] = NothingRead
    BY <1>8, <2>1 DEF NothingRead
  <2>3. \A m \in 1..n : g[m] = IF m \in history THEN Considered(g[m + 1], m) ELSE g[m + 1]
    BY <1>5, <1>8
  <2> QED
    BY <1>8, <2>2, <2>3
<1>11. \A m \in 1..(n + 1) : g[m] \in Reading
  <2> DEFINE T == {m \in 1..(n + 1) : g[m] \in Reading}
  <2>1. n + 1 \in T
    BY <1>1, <1>10
  <2>2. ASSUME NEW m \in 1..n, m + 1 \in T
        PROVE  m \in T
    BY <1>1, <1>5, <1>10, <2>2, ConsideredFields
  <2> HIDE DEF T
  <2>3. 1..(n + 1) \subseteq T
    BY <1>1, <2>1, <2>2, DownwardInduction
  <2> QED
    BY <2>3 DEF T
<1>12. IsReading(history, g)
  <2>1. g = [m \in 1..(n + 1) |-> g[m]]
    BY <1>8
  <2> QED
    BY <1>10, <1>11, <2>1 DEF IsReading
<1> QED
  BY <1>9, <1>12

\* Where the loop is when it has read the messages from m on: on its way, or stopped
\* by a message x that it left out or that was the newest.
OnItsWay(history, acc, m) ==
  /\ ~acc.full
  /\ acc.kept = {k \in history : k >= m}
  /\ acc.used = Tokens(acc.kept)
  /\ acc.kept = {} \/ acc.used <= Budget

StoppedBefore(history, acc, x) ==
  /\ acc.kept = {k \in history : k > x} /\ acc.kept # {}
  /\ Tokens(acc.kept) <= Budget /\ Tokens(acc.kept \cup {x}) > Budget

StoppedAfter(history, acc, x) ==
  /\ acc.kept = {x} /\ \A k \in history : k <= x
  /\ Tokens({x}) > Budget

LoopInv(history, acc, m) ==
  \/ OnItsWay(history, acc, m)
  \/ /\ acc.full
     /\ \E x \in history : StoppedBefore(history, acc, x) \/ StoppedAfter(history, acc, x)

LEMMA TokensOfNothing == Tokens({}) = MessageTokens(SystemLength)
<1>1. PICK f : IsSum({}, f) /\ Tokens({}) = f[1]
  BY TokensAreASum
<1>2. PICK n \in Nat : n = MaxMessages
  BY LimitAssumption
<1>3. /\ f[n + 1] = MessageTokens(SystemLength)
      /\ \A i \in 1..(n + 1) : f[i] \in Nat
      /\ \A i \in 1..n : f[i] = f[i + 1]
  <2>1. \A i \in 1..(n + 1) : f[i] \in Nat
    BY <1>1, <1>2 DEF IsSum
  <2>2. \A i \in 1..n : i + 1 \in 1..(n + 1)
    OBVIOUS
  <2>3. \A i \in 1..n : f[i] = f[i + 1] + 0
    BY <1>1, <1>2 DEF IsSum
  <2> QED
    BY <1>1, <1>2, <2>1, <2>2, <2>3 DEF IsSum
<1> DEFINE T == {i \in 1..(n + 1) : f[i] = MessageTokens(SystemLength)}
<1>4. n + 1 \in T /\ \A i \in 1..n : i + 1 \in T => i \in T
  BY <1>3
<1> HIDE DEF T
<1>5. 1..(n + 1) \subseteq T /\ 1 \in 1..(n + 1)
  BY <1>4, DownwardInduction
<1> QED
  BY <1>1, <1>5 DEF T

LEMMA RoundKeepsLoop ==
  ASSUME NEW history \in SUBSET MessageNumbers, NEW acc \in Reading,
         NEW m \in MessageNumbers, LoopInv(history, acc, m + 1)
  PROVE  LoopInv(history, IF m \in history THEN Considered(acc, m) ELSE acc, m)
<1>1. \A k \in history : k \in Nat
  BY DEF MessageNumbers
<1>2. m \in Nat
  BY DEF MessageNumbers
<1>3. CASE acc.full
  <2>1. (IF m \in history THEN Considered(acc, m) ELSE acc) = acc
    BY <1>3, ConsideredFields
  <2>2. \E x \in history : StoppedBefore(history, acc, x) \/ StoppedAfter(history, acc, x)
    BY <1>3 DEF LoopInv, OnItsWay
  <2> QED
    BY <1>3, <2>1, <2>2 DEF LoopInv
<1>4. CASE ~acc.full /\ m \notin history
  <2>1. OnItsWay(history, acc, m + 1)
    BY <1>4 DEF LoopInv
  <2>2. {k \in history : k >= m + 1} = {k \in history : k >= m}
    <3>1. \A k \in history : k # m
      BY <1>4
    <3>2. \A k \in history : k >= m + 1 <=> k >= m
      BY <1>1, <1>2, <3>1
    <3> QED
      BY <3>2
  <2>3. OnItsWay(history, acc, m)
    BY <2>1, <2>2 DEF OnItsWay
  <2> QED
    BY <1>4, <2>3 DEF LoopInv
<1>5. CASE ~acc.full /\ m \in history
  <2>1. OnItsWay(history, acc, m + 1)
    BY <1>5 DEF LoopInv
  <2>2. PICK K : K = acc.kept
    OBVIOUS
  <2>3. PICK r : r = Considered(acc, m)
    OBVIOUS
  <2>4. /\ K = {k \in history : k > m} /\ m \notin K
        /\ K \cup {m} = {k \in history : k >= m}
        /\ acc.used = Tokens(K) /\ (K = {} \/ Tokens(K) <= Budget)
    <3>1. K = {k \in history : k >= m + 1}
      BY <2>1, <2>2 DEF OnItsWay
    <3>2. \A k \in history : (k >= m + 1 <=> k > m) /\ (k >= m <=> k > m \/ k = m)
      BY <1>1, <1>2
    <3>3. ~(m > m)
      BY <1>2
    <3>4. K = {k \in history : k > m}
      BY <3>1, <3>2
    <3>5. K \cup {m} = {k \in history : k >= m}
      BY <1>5, <3>2, <3>4
    <3> QED
      BY <2>1, <2>2, <3>3, <3>4, <3>5 DEF OnItsWay
  <2>5. Tokens(K \cup {m}) = acc.used + Cost(m)
    BY <2>4, TokensOfMore
  <2>6. CASE acc.used + Cost(m) <= Budget
    <3>1. ~r.full /\ r.kept = K \cup {m} /\ r.used = acc.used + Cost(m)
      BY <1>5, <2>2, <2>3, <2>6, ConsideredFields
    <3>2. OnItsWay(history, r, m)
      BY <2>4, <2>5, <2>6, <3>1 DEF OnItsWay
    <3> QED
      BY <1>5, <2>3, <3>2 DEF LoopInv
  <2>7. CASE ~(acc.used + Cost(m) <= Budget)
    <3>1. r.full /\ r.kept = IF K = {} THEN {m} ELSE K
      BY <1>5, <2>2, <2>3, <2>7, ConsideredFields
    <3>2. Tokens(K \cup {m}) > Budget
      <4>1. acc.used + Cost(m) \in Nat /\ Budget \in Nat
        BY CostIsPositive, TokensOfOne DEF Reading
      <4> QED
        BY <2>5, <2>7, <4>1
    <3>3. CASE K = {}
      <4>1. \A k \in history : k <= m
        BY <1>1, <1>2, <2>4, <3>3
      <4>2. StoppedAfter(history, r, m)
        BY <3>1, <3>2, <3>3, <4>1 DEF StoppedAfter
      <4> QED
        BY <1>5, <2>3, <3>1, <4>2 DEF LoopInv
    <3>4. CASE K # {}
      <4>1. StoppedBefore(history, r, m)
        BY <2>4, <3>1, <3>2, <3>4 DEF StoppedBefore
      <4> QED
        BY <1>5, <2>3, <3>1, <4>1 DEF LoopInv
    <3> QED
      BY <3>3, <3>4
  <2> QED
    BY <2>6, <2>7
<1> QED
  BY <1>3, <1>4, <1>5 DEF Reading

\* p is the newest message of a history.
Newest(history, p) ==
  /\ Len(ai_messages) \in Nat /\ Len(ai_messages) <= MaxMessages
  /\ history \in SUBSET (1..Len(ai_messages))
  /\ p \in history /\ \A k \in history : k <= p

\* What an attempt may be given of it.
Fits(kept, history, p) ==
  /\ p \in kept /\ kept \subseteq history
  /\ \A m \in kept, k \in history \ kept : k < m
  /\ Tokens(kept) <= Budget \/ kept = {p}
  /\ history \ kept # {} => Tokens(kept \cup {Max(history \ kept)}) > Budget

\* What the loop leaves, of a history whose newest message is p.
LEMMA SelectedFits ==
  ASSUME NEW history, NEW p, Newest(history, p)
  PROVE  Fits(Selected(history), history, p)
<1>1. PICK kept : kept = Selected(history)
  OBVIOUS
<1>2. PICK left : left = history \ kept
  OBVIOUS
<1>3. /\ Len(ai_messages) \in Nat /\ Len(ai_messages) <= MaxMessages
      /\ history \in SUBSET (1..Len(ai_messages))
      /\ p \in history /\ \A k \in history : k <= p
  BY DEF Newest
<1> SUFFICES /\ p \in kept /\ kept \subseteq history
             /\ \A m \in kept, k \in left : k < m
             /\ Tokens(kept) <= Budget \/ kept = {p}
             /\ left # {} => Tokens(kept \cup {Max(left)}) > Budget
  BY <1>1, <1>2 DEF Fits
<1>4. PICK n \in Nat : n = Len(ai_messages) /\ n <= MaxMessages
  BY <1>3
<1>5. /\ history \in SUBSET MessageNumbers
      /\ \A m \in 1..n : m \in MessageNumbers
      /\ \A k \in history : k \in Nat /\ k >= 1 /\ k <= n
  BY <1>4, <1>3, LimitAssumption DEF MessageNumbers
<1>6. PICK f : IsReading(history, f) /\ kept = f[1].kept
  BY <1>1, <1>3, SelectedIsRead
<1> DEFINE T == {m \in 1..(n + 1) : LoopInv(history, f[m], m)}
<1>7. n + 1 \in T
  <2>1. f[n + 1] = NothingRead
    BY <1>4, <1>6 DEF IsReading
  <2>2. {k \in history : k >= n + 1} = {}
    <3>1. \A k \in history : ~(k >= n + 1)
      BY <1>5
    <3> QED
      BY <3>1
  <2>3. OnItsWay(history, NothingRead, n + 1)
    BY <2>2, TokensOfNothing DEF OnItsWay, NothingRead
  <2> QED
    BY <2>1, <2>3 DEF LoopInv
<1>8. ASSUME NEW m \in 1..n, m + 1 \in T
      PROVE  m \in T
  <2>1. /\ m \in 1..(n + 1) /\ m + 1 \in 1..(n + 1) /\ m \in MessageNumbers
        /\ LoopInv(history, f[m + 1], m + 1)
    BY <1>5, <1>8
  <2>2. f[m + 1] \in Reading
    BY <1>4, <1>6, <2>1 DEF IsReading
  <2>3. f[m] = IF m \in history THEN Considered(f[m + 1], m) ELSE f[m + 1]
    BY <1>4, <1>6 DEF IsReading
  <2>4. LoopInv(history, IF m \in history THEN Considered(f[m + 1], m) ELSE f[m + 1], m)
    BY <1>5, <2>1, <2>2, RoundKeepsLoop
  <2>5. LoopInv(history, f[m], m)
    BY <2>3, <2>4
  <2> QED
    BY <2>1, <2>5
<1> HIDE DEF T
<1>9. 1 \in T
  <2>1. 1 \in 1..(n + 1)
    OBVIOUS
  <2> QED
    BY <1>7, <1>8, <2>1, DownwardInduction
<1>10. PICK acc : acc = f[1]
  OBVIOUS
<1>11. LoopInv(history, acc, 1) /\ acc.kept = kept
  BY <1>6, <1>9, <1>10 DEF T
<1>12. CASE OnItsWay(history, acc, 1)
  <2>1. kept = history
    BY <1>5, <1>11, <1>12 DEF OnItsWay
  <2>2. Tokens(kept) <= Budget
    BY <1>11, <1>12, <1>3, <2>1 DEF OnItsWay
  <2> QED
    BY <1>2, <1>3, <2>1, <2>2
<1>13. ASSUME NEW x \in history, StoppedBefore(history, acc, x)
       PROVE  /\ p \in kept /\ kept \subseteq history
              /\ \A m \in kept, k \in left : k < m
              /\ Tokens(kept) <= Budget
              /\ Tokens(kept \cup {Max(left)}) > Budget
  <2>1. /\ kept = {k \in history : k > x} /\ kept # {}
        /\ Tokens(kept) <= Budget /\ Tokens(kept \cup {x}) > Budget
    BY <1>11, <1>13 DEF StoppedBefore
  <2>2. left = {k \in history : k <= x} /\ x \in left
    <3>1. \A k \in history : ~(k > x) <=> k <= x
      BY <1>5
    <3>2. x <= x
      BY <1>5
    <3> QED
      BY <1>2, <2>1, <3>1, <3>2
  <2>3. p \in kept
    <3>1. PICK y \in history : y > x
      BY <2>1
    <3>2. y <= p /\ y \in Nat /\ x \in Nat /\ p \in Nat
      BY <1>5, <1>3
    <3> QED
      BY <1>3, <2>1, <3>1, <3>2
  <2>4. \A m \in kept, k \in left : k < m
    BY <1>5, <2>1, <2>2
  <2>5. Max(left) = x
    <3>1. \A y \in left : y \in Nat /\ x >= y
      BY <1>5, <2>2
    <3>2. \A z \in left : (\A y \in left : z >= y) => z = x
      BY <2>2, <3>1
    <3> QED
      BY <2>2, <3>1, <3>2, Zenon DEF Max
  <2> QED
    BY <2>1, <2>3, <2>4, <2>5
<1>14. ASSUME NEW x \in history, StoppedAfter(history, acc, x)
       PROVE  /\ p \in kept /\ kept \subseteq history
              /\ \A m \in kept, k \in left : k < m
              /\ kept = {p}
              /\ left # {} => Tokens(kept \cup {Max(left)}) > Budget
  <2>1. kept = {x} /\ (\A k \in history : k <= x) /\ Tokens({x}) > Budget
    BY <1>11, <1>14 DEF StoppedAfter
  <2>2. x = p
    BY <1>5, <1>3, <2>1
  <2>3. \A k \in left : k \in history /\ k # x /\ k < x
    BY <1>5, <1>2, <2>1
  <2>4. ASSUME left # {}
        PROVE  Tokens({x} \cup {Max(left)}) > Budget
    <3>1. Max(left) \in left
      <4>1. left \in SUBSET (1..n)
        BY <1>4, <1>2, <1>3
      <4> QED
        BY <2>4, <4>1, MaxIsThere
    <3>2. Max(left) \in MessageNumbers /\ Max(left) \notin {x}
      BY <1>5, <2>3, <3>1
    <3>3. Tokens({x} \cup {Max(left)}) = Tokens({x}) + Cost(Max(left)) /\ Tokens({x}) \in Nat
      BY <3>2, TokensOfMore
    <3>4. PICK a, c \in Nat : a = Tokens({x}) /\ c = Cost(Max(left))
      BY <3>2, <3>3, CostIsPositive
    <3>5. a > Budget /\ Budget \in Nat
      BY <2>1, <3>4, TokensOfOne
    <3>6. a + c > Budget
      BY <3>4, <3>5
    <3> QED
      BY <3>3, <3>4, <3>6
  <2> QED
    BY <2>1, <2>2, <2>3, <2>4
<1> QED
  BY <1>11, <1>12, <1>13, <1>14 DEF LoopInv

-----------------------------------------------------------------------------
(* The number of messages, and the contexts of the jobs *)

\* Requests whose prompt is still to be flushed.
Coming == {t \in Threads : request[t].pc \in {"lookup", "count", "flush"}}

RoomLeft == Len(ai_messages) + Cardinality(Coming) <= MaxMessages

ContextTypes ==
  /\ context \in Seq(SUBSET Nat) /\ DOMAIN context = JobIds
  /\ \A j \in JobIds : context[j] \subseteq MessageIds

ContextInv == RoomLeft /\ ContextTypes /\ ContextEndsWithPrompt

LEMMA ComingIsFinite == IsFiniteSet(Coming) /\ Cardinality(Coming) \in Nat
<1>1. Coming \in SUBSET Threads
  BY DEF Coming
<1> QED
  BY <1>1, SetsAssumption, FS_Subset, FS_CardinalityType

LEMMA SameLength ==
  ASSUME NEW i \in Nat, NEW j \in Nat, 1..i = 1..j
  PROVE  i = j
<1>1. CASE i < j
  <2>1. j \in 1..j /\ j \notin 1..i
    BY <1>1
  <2> QED
    BY <2>1
<1>2. CASE j < i
  <2>1. i \in 1..i /\ i \notin 1..j
    BY <1>2
  <2> QED
    BY <2>1
<1> QED
  BY <1>1, <1>2

\* No message is added and no prompt announced.
LEMMA SameLengthKeepsRoom ==
  ASSUME TableTypes, TableTypes', RoomLeft, DOMAIN ai_messages' = MessageIds, Coming' \subseteq Coming
  PROVE  RoomLeft'
<1>1. PICK C, D : C = Coming /\ D = Coming'
  OBVIOUS
<1>2. IsFiniteSet(C) /\ Cardinality(C) \in Nat /\ D \in SUBSET C
  BY <1>1, ComingIsFinite
<1>3. Cardinality(D) <= Cardinality(C) /\ Cardinality(D) \in Nat
  BY <1>2, FS_Subset, FS_CardinalityType
<1>4. Len(ai_messages') = Len(ai_messages) /\ Len(ai_messages) \in Nat
  BY LenProperties, SameLength DEF TableTypes, MessageIds
<1>5. Len(ai_messages) + Cardinality(D) <= MaxMessages
  BY <1>1, <1>2, <1>3, <1>4, LimitAssumption DEF RoomLeft
<1> QED
  BY <1>1, <1>4, <1>5 DEF RoomLeft

\* One message is added, and one prompt less announced or there was room.
LEMMA OneMoreKeepsRoom ==
  ASSUME TableTypes, TableTypes', RoomLeft, NEW m, ai_messages' = Append(ai_messages, m),
         \/ \E t \in Coming : Coming' = Coming \ {t}
         \/ Room /\ Coming' = Coming
  PROVE  RoomLeft'
<1>1. PICK C, D : C = Coming /\ D = Coming'
  OBVIOUS
<1>2. IsFiniteSet(C) /\ Cardinality(C) \in Nat
  BY <1>1, ComingIsFinite
<1>3. Len(ai_messages') = Len(ai_messages) + 1 /\ Len(ai_messages) \in Nat
  BY LenProperties DEF TableTypes
<1>4. Len(ai_messages) + 1 + Cardinality(D) <= MaxMessages
  <2>1. CASE \E t \in C : D = C \ {t}
    <3>1. Cardinality(D) = Cardinality(C) - 1
      BY <1>2, <2>1, FS_RemoveElement
    <3> QED
      BY <1>1, <1>2, <1>3, <3>1, LimitAssumption DEF RoomLeft
  <2>2. CASE Room /\ D = C
    <3>1. Len(ai_messages) + Cardinality(C) < MaxMessages
      BY <1>1, <2>2 DEF Room, Coming
    <3> QED
      BY <1>2, <1>3, <2>2, <3>1, LimitAssumption
  <2> QED
    BY <1>1, <2>1, <2>2
<1> QED
  BY <1>1, <1>3, <1>4 DEF RoomLeft

LEMMA ReceiveKeepsRoom ==
  ASSUME TableTypes, NEW t \in Threads, Receive(t)
  PROVE  RoomLeft'
<1>1. Coming' = Coming \cup {t}
  <2>1. PICK p : /\ Becomes(t, p) /\ p \in Request
                 /\ p.pc \in {"lookup", "count"}
    <3>1. PICK c \in Conversations, k \in Keys \cup {NoKey} :
            Becomes(t, [pc |-> IF k = NoKey THEN "count" ELSE "lookup",
                        conversation |-> c, key |-> k, message |-> 0])
      BY DEF Receive, Becomes
    <3> DEFINE p == [pc |-> IF k = NoKey THEN "count" ELSE "lookup",
                     conversation |-> c, key |-> k, message |-> 0]
    <3>2. p \in Request /\ p.pc \in {"lookup", "count"}
      BY DEF Request
    <3> HIDE DEF p
    <3> QED
      BY <3>1, <3>2 DEF p
  <2>2. /\ request'[t] = p
        /\ \A u \in Threads : u # t => request'[u] = request[u]
    BY <2>1, BecomesEffect
  <2> QED
    BY <2>1, <2>2 DEF Coming
<1>2. PICK C : C = Coming
  OBVIOUS
<1>3. /\ IsFiniteSet(C) /\ Cardinality(C) \in Nat
      /\ Len(ai_messages) \in Nat
  BY <1>2, ComingIsFinite, LenProperties DEF TableTypes
<1>4. Cardinality(C \cup {t}) <= Cardinality(C) + 1 /\ Cardinality(C \cup {t}) \in Nat
  <2>1. Cardinality(C \cup {t}) = IF t \in C THEN Cardinality(C) ELSE Cardinality(C) + 1
    BY <1>3, FS_AddElement
  <2> QED
    BY <1>3, <2>1
<1>5. Len(ai_messages) + Cardinality(C) < MaxMessages
  BY <1>2 DEF Receive, Room, Coming
<1>6. Len(ai_messages) + Cardinality(C \cup {t}) <= MaxMessages
  BY <1>3, <1>4, <1>5, LimitAssumption
<1> QED
  BY <1>1, <1>2, <1>6 DEF Receive, RoomLeft

LEMMA NextKeepsRoom ==
  ASSUME ApiInv, ApiInv', RoomLeft, Next
  PROVE  RoomLeft'
<1>1. TableTypes /\ TableTypes'
  BY DEF ApiInv
<1>2. ASSUME NEW t \in Threads, NEW p \in Request, Becomes(t, p),
             \/ p.pc \notin {"lookup", "count", "flush"}
             \/ request[t].pc \in {"lookup", "count", "flush"}
      PROVE  Coming' \subseteq Coming
  <2>1. /\ request'[t] = p
        /\ \A u \in Threads : u # t => request'[u] = request[u]
    BY <1>1, <1>2, BecomesEffect
  <2> QED
    BY <1>2, <2>1 DEF Coming
<1>3. ASSUME NEW t \in Threads, Lookup(t) \/ Count(t) \/ Relookup(t) \/ Commit(t) \/ Abort(t)
      PROVE  RoomLeft'
  <2>1. DOMAIN ai_messages' = MessageIds
    BY <1>3 DEF Lookup, Count, Relookup, Commit, Abort, InsertJob, MessageIds
  <2>2. Coming' \subseteq Coming
    <3>1. CASE Becomes(t, Idle)
      BY <1>2, <3>1, IdleRequest
    <3>2. CASE Goto(t, "relookup")
      BY <1>1, <1>2, <3>2, GotoEffect
    <3>3. CASE /\ \E pc \in {"count", "flush"} : Goto(t, pc)
               /\ request[t].pc \in {"lookup", "count"}
      BY <1>1, <1>2, <3>3, GotoEffect
    <3> QED
      BY <1>3, <3>1, <3>2, <3>3
         DEF Lookup, Count, Relookup, Commit, Abort, InsertJob, Answer, Becomes
  <2> QED
    BY <1>1, <2>1, <2>2, SameLengthKeepsRoom
<1>4. ASSUME NEW t \in Threads, Flush(t)
      PROVE  RoomLeft'
  <2>1. t \in Coming
    BY <1>4 DEF Flush, Coming
  <2>2. Coming' = Coming \ {t}
    <3> DEFINE r == request[t]
               p == [r EXCEPT !.pc = "commit", !.message = Len(ai_messages) + 1]
    <3>1. r \in Request /\ Len(ai_messages) + 1 \in Nat
      BY <1>1, LenProperties DEF TableTypes
    <3>2. Becomes(t, p)
      BY <1>4 DEF Flush, Becomes
    <3> HIDE DEF r
    <3>3. p \in Request /\ p.pc = "commit"
      BY <3>1 DEF Request
    <3> HIDE DEF p
    <3>4. /\ request'[t] = p
          /\ \A u \in Threads : u # t => request'[u] = request[u]
      BY <1>1, <3>2, <3>3, BecomesEffect
    <3> QED
      BY <3>3, <3>4 DEF Coming
  <2>3. PICK m : ai_messages' = Append(ai_messages, m)
    BY <1>4 DEF Flush, NewMessage
  <2> QED
    BY <1>1, <2>1, <2>2, <2>3, OneMoreKeepsRoom
<1>5. ASSUME NEW j \in JobIds, Start(j) \/ Settle(j)
      PROVE  RoomLeft'
  <2>1. Coming' = Coming
    BY <1>5 DEF Start, Settle, Coming
  <2>2. CASE ai_messages' = ai_messages
    BY <1>1, <2>1, <2>2, SameLengthKeepsRoom DEF MessageIds
  <2>3. CASE Room /\ \E m : ai_messages' = Append(ai_messages, m)
    BY <1>1, <2>1, <2>3, OneMoreKeepsRoom
  <2> QED
    BY <1>5, <2>2, <2>3 DEF Start, Settle, NewMessage
<1> QED
  BY <1>1, <1>3, <1>4, <1>5, ReceiveKeepsRoom DEF Next, RequestStep

\* The steps that give no job a context keep the jobs and their contexts.
LEMMA OtherStepsKeepContexts ==
  ASSUME JobsStay, MessageIds \subseteq MessageIds', context' = context,
         ContextTypes, ContextEndsWithPrompt
  PROVE  ContextTypes' /\ ContextEndsWithPrompt'
<1>1. DOMAIN ai_jobs' = JobIds /\ \A j \in JobIds : ai_jobs'[j].message = ai_jobs[j].message
  BY DEF JobsStay
<1>2. ContextTypes'
  BY <1>1 DEF ContextTypes, JobIds
<1>3. ContextEndsWithPrompt'
  BY <1>1 DEF ContextEndsWithPrompt, JobIds
<1> QED
  BY <1>2, <1>3

\* A new job has no context yet.
LEMMA InsertJobKeepsContexts ==
  ASSUME TableTypes, TableTypes', NEW t \in Threads, InsertJob(t),
         ContextTypes, ContextEndsWithPrompt
  PROVE  /\ ContextTypes' /\ ContextEndsWithPrompt'
         /\ \A j \in JobIds : context'[j] = context[j]
<1> DEFINE job == [conversation |-> request[t].conversation, key |-> request[t].key,
                   message |-> request[t].message, status |-> "queued"]
<1>1. PICK n : n = Len(ai_jobs) + 1
  OBVIOUS
<1>2. ai_jobs' = Append(ai_jobs, job) /\ context' = Append(context, {})
  BY DEF InsertJob
<1> HIDE DEF job
<1>3. /\ ai_jobs \in Seq(Job) /\ ai_jobs' \in Seq(Job) /\ Len(ai_jobs) \in Nat
      /\ n \in Nat /\ JobIds = 1..Len(ai_jobs)
  BY <1>1, LenProperties DEF TableTypes, JobIds
<1>4. /\ DOMAIN ai_jobs' = JobIds \cup {n} /\ n \notin JobIds
      /\ \A j \in JobIds : ai_jobs'[j] = ai_jobs[j]
  <2>1. job \in Job
    <3>1. Append(ai_jobs, job)[Len(ai_jobs) + 1] = job
      BY <1>3, AppendProperties
    <3>2. Len(ai_jobs') = Len(ai_jobs) + 1
      BY <1>2, <1>3
    <3>3. Len(ai_jobs) + 1 \in 1..Len(ai_jobs')
      BY <1>3, <3>2
    <3> QED
      BY <1>2, <1>3, <3>1, <3>3, ElementOfSeq
  <2> QED
    BY <1>1, <1>2, <1>3, <2>1, AppendEffect DEF JobIds
<1>5. Len(context) = Len(ai_jobs)
  <2>1. DOMAIN context = 1..Len(context) /\ Len(context) \in Nat
    BY LenProperties DEF ContextTypes
  <2> QED
    BY <1>3, <2>1, SameLength DEF ContextTypes
<1>6. /\ context' \in Seq(SUBSET Nat) /\ DOMAIN context' = JobIds \cup {n}
      /\ \A j \in JobIds : context'[j] = context[j]
      /\ context'[n] = {}
  BY <1>1, <1>2, <1>5, AppendEffect DEF ContextTypes
<1>7. DOMAIN ai_messages' = MessageIds
  BY DEF InsertJob, MessageIds
<1>8. ContextTypes'
  BY <1>4, <1>6, <1>7 DEF ContextTypes, JobIds, MessageIds
<1>9. ContextEndsWithPrompt'
  BY <1>4, <1>6 DEF ContextEndsWithPrompt, JobIds
<1> QED
  BY <1>6, <1>8, <1>9

LEMMA StartFits ==
  ASSUME ApiInv, RoomLeft, NEW j \in JobIds
  PROVE  /\ Fits(Selected(History(j)), History(j), ai_jobs[j].message)
         /\ History(j) \subseteq MessageIds
         /\ \A m \in History(j) : m <= ai_jobs[j].message
<1>1. PICK h : h = History(j)
  OBVIOUS
<1>2. PICK p : p = ai_jobs[j].message
  OBVIOUS
<1>3. Len(ai_messages) \in Nat /\ MessageIds = 1..Len(ai_messages)
  BY LenProperties DEF ApiInv, TableTypes, MessageIds
<1>4. Len(ai_messages) <= MaxMessages
  BY <1>3, ComingIsFinite, LimitAssumption DEF RoomLeft
<1>5. h \in SUBSET (1..Len(ai_messages)) /\ \A m \in h : m <= p
  BY <1>1, <1>2, <1>3 DEF History, Visible
<1>6. p \in h
  <2>1. CommittedPrompt(j)
    BY DEF ApiInv, PromptInv
  <2>2. p \in Nat
    BY <1>2, <1>3, <2>1 DEF CommittedPrompt
  <2> QED
    BY <1>1, <1>2, <2>1, <2>2 DEF CommittedPrompt, History, Visible
<1>7. Newest(h, p)
  BY <1>3, <1>4, <1>5, <1>6 DEF Newest
<1>8. Fits(Selected(h), h, p)
  BY <1>7, SelectedFits
<1> QED
  BY <1>1, <1>2, <1>3, <1>5, <1>8

LEMMA StartKeepsContexts ==
  ASSUME ApiInv, ContextInv, NEW j \in JobIds, Start(j)
  PROVE  /\ ContextTypes' /\ ContextEndsWithPrompt'
         /\ context'[j] = Selected(History(j))
         /\ \A i \in JobIds : i # j => context'[i] = context[i]
<1>1. PICK kept : kept = Selected(History(j))
  OBVIOUS
<1>2. context' = [context EXCEPT ![j] = kept] /\ ai_messages' = ai_messages
  BY <1>1 DEF Start
<1>3. JobsStay
  BY WorkerEffect
<1>4. /\ ai_jobs[j].message \in kept /\ kept \subseteq MessageIds
      /\ \A m \in kept : m <= ai_jobs[j].message
  BY <1>1, StartFits DEF ContextInv, Fits
<1>5. MessageIds \subseteq Nat
  BY LenProperties DEF ApiInv, TableTypes, MessageIds
<1>6. /\ context' \in Seq(SUBSET Nat) /\ DOMAIN context' = JobIds
      /\ context'[j] = kept
      /\ \A i \in JobIds : i # j => context'[i] = context[i]
  <2>1. kept \in SUBSET Nat
    BY <1>4, <1>5
  <2> QED
    BY <1>2, <2>1, UpdateEffect DEF ContextInv, ContextTypes
<1>7. ContextTypes'
  BY <1>2, <1>3, <1>4, <1>6 DEF ContextInv, ContextTypes, JobsStay, JobIds, MessageIds
<1>8. ContextEndsWithPrompt'
  BY <1>3, <1>4, <1>6 DEF ContextInv, ContextEndsWithPrompt, JobsStay, JobIds
<1> QED
  BY <1>1, <1>6, <1>7, <1>8

\* Every step gives at most one job a context: that of its start.
LEMMA ContextsOfAStep ==
  ASSUME ApiInv, ApiInv', ContextInv, Next
  PROVE  /\ ContextTypes' /\ ContextEndsWithPrompt'
         /\ \A j \in JobIds : context'[j] # context[j] => context'[j] = Selected(History(j))
<1>1. TableTypes /\ TableTypes' /\ ContextTypes /\ ContextEndsWithPrompt
  BY DEF ApiInv, ContextInv
<1>2. ASSUME NEW t \in Threads, Receive(t) \/ RequestStep(t) \/ Abort(t)
      PROVE  /\ ContextTypes' /\ ContextEndsWithPrompt'
             /\ \A j \in JobIds : context'[j] = context[j]
  <2>1. CASE InsertJob(t)
    BY <1>1, <2>1, InsertJobKeepsContexts
  <2>2. CASE ~InsertJob(t)
    <3>1. context' = context /\ ai_jobs' = ai_jobs
      BY <1>2, <2>2 DEF Receive, RequestStep, Lookup, Count, Flush, Commit, Relookup, Abort
    <3>2. MessageIds \subseteq MessageIds'
      <4>1. CASE \E m : ai_messages' = Append(ai_messages, m)
        BY <1>1, <4>1, LenProperties DEF TableTypes, MessageIds
      <4>2. CASE DOMAIN ai_messages' = DOMAIN ai_messages
        BY <4>2 DEF MessageIds
      <4> QED
        BY <1>2, <2>2, <4>1, <4>2
           DEF Receive, RequestStep, Lookup, Count, Flush, NewMessage, Commit, Relookup, Abort,
               MessageIds
    <3> QED
      BY <1>1, <3>1, <3>2, NothingChanges, OtherStepsKeepContexts
  <2> QED
    BY <2>1, <2>2
<1>3. ASSUME NEW j \in JobIds, Start(j) \/ Settle(j)
      PROVE  /\ ContextTypes' /\ ContextEndsWithPrompt'
             /\ \A i \in JobIds : context'[i] # context[i] => context'[i] = Selected(History(i))
  <2>1. CASE Start(j)
    BY <2>1, StartKeepsContexts
  <2>2. CASE Settle(j)
    <3>1. JobsStay /\ MessageIds \subseteq MessageIds'
      BY <2>2, WorkerEffect DEF MessagesStay, MessageIds
    <3>2. context' = context
      BY <2>2 DEF Settle
    <3> QED
      BY <1>1, <3>1, <3>2, OtherStepsKeepContexts
  <2> QED
    BY <1>3, <2>1, <2>2
<1> QED
  BY <1>2, <1>3 DEF Next

LEMMA InitGivesNoContext == Init => ContextInv
<1> SUFFICES ASSUME Init PROVE ContextInv
  OBVIOUS
<1>1. Coming = {}
  BY IdleRequest DEF Init, Coming
<1>2. RoomLeft
  BY <1>1, LimitAssumption, EmptySeq, FS_EmptySet DEF Init, RoomLeft
<1>3. JobIds = {} /\ context = << >> /\ << >> \in Seq(SUBSET Nat)
  BY EmptySeq DEF Init, JobIds
<1> QED
  BY <1>2, <1>3 DEF ContextInv, ContextTypes, ContextEndsWithPrompt

LEMMA ContextInvariant == Spec => []ContextInv
<1>1. ApiInv /\ ApiInv' /\ ContextInv /\ [Next]_vars => ContextInv'
  <2>1. ApiInv /\ ApiInv' /\ ContextInv /\ Next => ContextInv'
    BY NextKeepsRoom, ContextsOfAStep DEF ContextInv
  <2>2. ContextInv /\ UNCHANGED vars => ContextInv'
    BY DEF ContextInv, RoomLeft, Coming, ContextTypes, ContextEndsWithPrompt, JobIds, MessageIds,
           vars
  <2> QED
    BY <2>1, <2>2
<1> QED
  BY <1>1, ApiInvariant, InitGivesNoContext, PTL DEF Spec

(* The rows of the tables, the requests and the contexts keep their types, and no
   more messages are inserted than the sequence has ids for: every prompt on its
   way has one (send_message, _load_job). *)
THEOREM TypeCorrect == Spec => []TypeOK
<1>1. ApiInv /\ ContextInv => TypeOK
  <2> SUFFICES ASSUME ApiInv, ContextInv PROVE TypeOK
    OBVIOUS
  <2>1. Len(ai_messages) <= MaxMessages
    <3>1. Len(ai_messages) \in Nat
      BY LenProperties DEF ApiInv, TableTypes
    <3> QED
      BY <3>1, ComingIsFinite, LimitAssumption DEF ContextInv, RoomLeft
  <2>2. context \in [JobIds -> SUBSET MessageIds]
    <3>1. context = [j \in JobIds |-> context[j]]
      BY LenProperties DEF ContextInv, ContextTypes
    <3> QED
      BY <3>1 DEF ContextInv, ContextTypes
  <2> QED
    BY <2>1, <2>2 DEF ApiInv, TableTypes, TypeOK
<1> QED
  BY <1>1, ApiInvariant, ContextInvariant, PTL

(* However many prompts are sent while a job waits or is retried, no attempt of it
   is given a message newer than its own prompt, and every attempt that is given
   anything is given that prompt (_load_job, build_token_limited_context). *)
THEOREM ContextsEndWithPrompt == Spec => []ContextEndsWithPrompt
<1>1. ContextInv => ContextEndsWithPrompt
  BY DEF ContextInv
<1> QED
  BY <1>1, ContextInvariant, PTL

(* The loop of build_token_limited_context over a history of any length, with
   messages of any size and any budget, keeps the longest stretch of the newest
   messages that fits, or the prompt alone: what an attempt is given, whenever it
   starts. *)
THEOREM ContextsFillTheBudget == Spec => ContextFillsBudget
<1>1. ApiInv /\ ApiInv' /\ ContextInv /\ [Next]_vars =>
        [\A j \in JobIds : context'[j] # context[j] =>
           LET kept == context'[j]
               left == History(j) \ kept IN
           /\ kept \subseteq History(j) /\ \A m \in kept, n \in left : n < m
           /\ Tokens(kept) <= Budget \/ kept = {ai_jobs[j].message}
           /\ left # {} => Tokens(kept \cup {Max(left)}) > Budget]_vars
  <2> SUFFICES ASSUME ApiInv, ApiInv', ContextInv, Next,
                      NEW j \in JobIds, context'[j] # context[j]
               PROVE  LET kept == context'[j]
                          left == History(j) \ kept IN
                      /\ kept \subseteq History(j) /\ \A m \in kept, n \in left : n < m
                      /\ Tokens(kept) <= Budget \/ kept = {ai_jobs[j].message}
                      /\ left # {} => Tokens(kept \cup {Max(left)}) > Budget
    OBVIOUS
  <2>1. context'[j] = Selected(History(j))
    BY ContextsOfAStep
  <2>2. Fits(context'[j], History(j), ai_jobs[j].message)
    BY <2>1, StartFits DEF ContextInv
  <2> QED
    BY <2>2 DEF Fits
<1> QED
  BY <1>1, ApiInvariant, ContextInvariant, PTL DEF Spec, ContextFillsBudget

=============================================================================
