# TLA+ models of Nexus

Nexus is a self-hosted chat platform: a FastAPI backend over PostgreSQL and a Matrix homeserver, a
React client, voice channels over WebRTC, plugins and bots, and an AI assistant that a separate
worker process runs through a gateway to Ollama. This directory holds TLA+ models of the parts whose
correctness depends on the order of things, the TLC configurations that check them on small
instances, and TLAPS proofs of what matters most for instances of any size.

All paths below are relative to the repository (`backend/app/...` is `src/backend/app/...`).

## 1. Inventory

For each part: its state, its operations, what it interacts with, what is hard about it, and what
makes it correct. *Status* says where the models stand.

| Part | State | Operations | Status |
|---|---|---|---|
| AI chat job queue (`services/ollama/worker.py`, `requests.py`, `models.py`) | table `ai_jobs`; assistant rows of `ai_messages`; locals of each worker process | `send_message` adds a row, `cancel_job` cancels or flags it; `_claim_next_job`, `_load_job`, `_update_output`, `_complete_job`, `_cancel_job`, `_fail_job` | modelled and proved: `AiJobQueue` |
| AI request API (`requests.py`) | `ai_messages`, `ai_jobs`, one session per request | `send_message`; `_load_job` of the worker | partly, proved: `AiJobApi` |
| AI bot job queue (`worker.py`, `core/matrix_client.py`) | table `ai_bot_jobs`, events of the Matrix room | `enqueue_bot_question`, `process_bot_one` and its helpers, `send_message` | modelled and proved: `AiBotJobs` |
| AI job stream (`requests.py` 227-285) | last text sent per connection | poll, send token/status/complete | modelled, proved: `AiStream` |
| Ollama client (`services/ollama/client.py`) | model cache and its lock | `_request` with retries, `available_models`, `health`, `chat`, `chat_stream` | modelled, proved: `OllamaClient` |
| Token budget (`tokenizer.py`) | none | `build_token_limited_context`, `estimate_tokens` | partly, proved: in `AiJobApi` |
| AI gateway (`ai-gateway/gateway`) | one HTTP client | access test, `ai_health`, `proxy_chat` | partly: `AiGateway` |
| Voice signaling server (`core/routers/voice.py`) | `_channels`: room -> user -> socket, muted | `join`, `leave`, `set_muted`, `broadcast`, `send_to`, `voice_socket` | partly, proved: `VoiceServer` |
| Voice client (`frontend/src/hooks/useVoiceChannel.ts`) | socket, peer connections, pending candidates, participants | `connect`, `onmessage` cases, `cleanup`, mute and push-to-talk | partly: `VoiceChannel` |
| Music bot (`plugins/music`) | `_sessions` per server; queue, current track, timer task, peers | `muzik-*` commands, `handle_signal`, `_advance` | partly, proved: `MusicBot` |
| Plugin registry and sandbox (`plugins_engine`, `plugins_sandbox`, `routers/plugins.py`) | command table, loaded names, `plugins` records | load, unload, install, uninstall, start-up, run | partly, proved: `BotEngine` |
| Bot engine (`bot_engine/dispatcher.py`, `core/rate_limit.py`) | hits per user | `handle_message_event`, `_run_command`, `allow` | modelled, proved: `BotEngine` |
| Membership, channels, bots (`core/routers/{users,servers,channels,members,bots}.py`) | users, servers, channels, members, links; Matrix accounts and rooms | create and add, each a series of Matrix calls before one commit | modelled, proved: `Membership` |
| Channel messages, Matrix client (`core/routers/messages.py`, `core/matrix_client.py`) | none of their own | send, list, redact | partly: sending in `BotEngine`, the calls in `Membership` and `AiBotJobs` |
| Authentication, settings | none | token and permission tests | not modelled: pure functions of a request; settings are constants of the modules |
| Web client (`frontend/src/App.tsx`) | server, channel and message lists | fetches and polls | not modelled (section 6) |
| Small plugins, deployment scripts, migrations, styles | - | - | not modelled: no state that outlives a call |

How they interact. The HTTP handlers and the worker share nothing but PostgreSQL; the worker talks
to the gateway by HTTP and to Matrix by HTTP. A channel message goes through the dispatcher to a
plugin handler; `ai_assistant` puts a row into `ai_bot_jobs`. The music bot calls the voice
connection manager as a function, on the event loop, while its commands run in the thread pool. The
web client polls messages and holds one socket per voice channel.

What is hard, part by part:

* **Chat job queue.** Workers hold a row by a lease of fixed length that is not renewed, every
  helper reads, tests and commits in a transaction of its own and writes by primary key, a client
  may cancel at any time, processes crash. Correct means: a job is never stuck; its answer appears
  once, complete, together with `succeeded`; nobody's job is cancelled unasked; retries are bounded;
  a terminal status is final.
* **Request API.** Check-then-insert twice (key, pending limit), ids drawn before the commit.
  Correct means: one job per key, no orphan prompt, a limit that is overshot by no more than the
  concurrency, a context that holds what the user had sent and nothing newer.
* **Stream.** The row may be emptied and written again, by an attempt that is over too, between two
  polls. Correct means: what the client has put together ends with the stored text.
* **Ollama client.** Retries that repeat a generation, two translations of every error, a cache
  filled outside of its lock. Correct means: a slow question is not asked twice, the worker retries
  what may pass and nothing else, and a model list is not replaced by an older one.
* **Bot jobs.** The send to Matrix is outside of every transaction; only the transaction id ties the
  attempts together. Correct means: at most one event per question, and it says what the row says;
  success only after an event of this question; every question settles.
* **Voice.** Awaits in the middle of every broadcast and of every client callback; reconnects under
  the same user id. Correct means: rooms hold exactly the live sockets, and a pair of participants
  has exactly one connection.
* **Music bot.** Thread pool against event loop, 10 s timeouts on work that goes on. Correct means:
  one session per server, one timer, each track played once and in order.
* **Plugins and bots.** Threads that load and unload at the same time, commands that several plugins
  declare, records committed after the table changed, plugins that cannot be loaded any more, a rate
  limiter without a lock. Correct means: the commands served are those of the enabled plugins, and
  what goes wrong with one plugin stays with it; nobody runs more commands than a window allows, or
  threads at work explain.
* **Membership.** A series of Matrix calls, then one commit. Correct means: members are in every
  room of their server, and a failure leaves nothing that cannot be repeated.

`PROJECT.json` lists, under "hazards", each such place with its line and the property that watches
it; or, where the code simply has the hazard and the properties except it, a note that says so.

## 2. Plan

The order of work was: the chat job queue with its abstract specification and proofs; what precedes
the row (`AiJobApi`) and the second queue (`AiBotJobs`); what follows the row (`AiStream`) and the
client of the gateway (`OllamaClient`); voice; the handlers that end in a commit (`Membership`,
`BotEngine`); the music bot; then the proofs, module by module. All of it is done. Left, in the
order in which it would be worth doing:

1. the music bot as a participant of `VoiceChannel`, instead of its signaling as one step;
2. the fetches of the web client and the order of their answers;
3. the mesh of three and more when some leave, once the loop of a newcomer survives it (a finding).

Compositions.

* `AiStream` extends `AiJobQueue`: every step of the queue takes place, with what it does to the
  text.
* `OllamaClient` extends `AiGateway`: a request is answered by what the gateway makes of it.
* `VoiceChannel` extends `VoiceServer`: clients and server, joined by FIFO sockets.
* `AiJobQueue` and `AiBotJobs` are joined by `process_one`, which looks for a chat job first;
  `AiBotJobs` keeps of the chat queue only whether it would yield a job.
* `AiJobApi` and `AiJobQueue` share the row: the one abstracts what happens after its insertion to
  "started, possibly again, then settled", the other abstracts what happens before to `Enqueue`.
* `AiJobLifecycle` is the abstract specification of both queues, and both are shown to implement it.

`MCAiService` (`AiJobApi`, `OllamaClient`) and `MCCoreApi` (`BotEngine`, `Membership`, `MusicBot`)
are not compositions: they run parts side by side that share no state. The variable `part`, chosen
in the initial state, says which part moves; the others stay as they began. So one run explores the
parts one after the other, and its states are their sum and not their product. `MCAiStream` chooses
in the same way between the queue alone and the queue with a stream, and `MCCoreApi` between two
bounds of the bot engine.

## 3. The modules

### AiJobLifecycle - the abstract specification

What `GET /ai/jobs/{id}` and `GET .../messages` show for a job: a status and a number of answers.
`Submit`, `Start`, `Retry`, `Succeed`, `Fail`, `Cancel` are the edges; the answer is stored in the
step that sets `succeeded`. Both queues are shown to implement it with one worker.

### AiJobQueue - table `ai_jobs` and the workers

| Variable | Code |
|---|---|
| `ai_jobs[j]` | the row: `status`, `attempts`, `locked_by`, `lease` (whether `lease_expires_at` is null, ahead or past), `due` (whether `next_attempt_at` has passed), `cancel_requested`, `output` (length of `output_text` in payloads) |
| `answers[j]` | the `ai_messages` rows written by `_complete_job` for `j` |
| `worker[w]` | where process `w` is in `process_one`, and the locals: job, `attempts`, `output_text`, whether the stream has ended, the error's class, the status read |
| `faults` | faults so far (bound) |
| `asked` | history: jobs a client cancelled |

`Claim` is `_claim_next_job`, one step since the row is locked from SELECT to COMMIT. `Load`,
`FlushRead`/`FlushCommit`, `CompleteRead`/`CompleteCommit`, `CancelRead`/`CancelCommit`,
`FailRead`/`FailCommit` are the helpers: the SELECT with the tests in Python, and the COMMIT of the
changed columns. Two steps, because READ COMMITTED lets others commit in between and the UPDATE is
restricted by the primary key alone. SQLAlchemy writes changed columns only, hence a row read as
`queued` keeps its lock columns in `CancelCommit`. `ReceiveChunk`, `StreamEnds`, `StreamFails` are
the loop over `chat_stream`. `CancelRequest` is the endpoint (FOR UPDATE).

What may go wrong: `Crash` (the process dies anywhere and comes back under a new WORKER_ID, so its
name on a row becomes `Gone`), `DatabaseError` (the helper raises and rolls back, `process_one` goes
to `_fail_job`, or out to `run` if that is what failed), `LeaseExpires` of a row whose worker is
still busy (a generation slower than the lease). These count as faults; the expiry of a lease nobody
serves and the end of a backoff are the clock and do not.

Abstracted: texts to the number of payloads, dates to before/after now, the usage row (written in
the same commit as the answer), the context (see `AiJobApi`), `error`, `started_at`, `completed_at`.

### AiJobApi - POST /ai/conversations/{id}/messages

`request[t]` is a pool thread in `send_message`: `Lookup` (the key), `Count` (the limit, HTTP 429),
`Flush` (the prompt's INSERT draws an id), `Commit` (job INSERT and COMMIT; the unique index makes
the later of two equal keys fail), `Relookup` (after the IntegrityError). `Abort` is any other error
or the death of the process; the client may send again. `ai_messages` is ordered by the sequence,
`ai_jobs` by commit. `Start` reads the context as `_load_job` does; `Settle` ends the job, with an
assistant message or without. `Selected` is `build_token_limited_context`: from the newest message
backwards, one round of its loop (`Considered`) per message, until one does not fit into the budget;
the newest is kept even if it does not fit alone.
`MessageTokens` is `estimate_tokens` plus the 4 of each message, with the lengths of the messages as
a constant. A conversation has fewer messages than the 200 that the query of `_load_job` is limited
to.

### AiBotJobs - table `ai_bot_jobs`

As `AiJobQueue`, without cancellation and streaming. `Chat` generates (a text, an empty text, an
error), `StoreRead`/`StoreCommit` keep the result on the row, `Send` is the PUT to Matrix -
answered, refused, or cut off with the event in the room or not -, `FinishRead`/`FinishCommit` mark
success. `Txn` is the transaction id `process_bot_one` passes, made of the id of the job alone, and
`room` the set of events the sends put into Matrix rooms, each with its transaction id, its text
and, as history, the job it answers. `Deliver` is the homeserver, external: it knows transaction ids
and nothing of jobs, and answers one it has seen without a second event. That attempts agree on an
id, and questions do not, is the worker's doing. `SendHangs` is the PUT without a timeout that is
never answered. `chat_waiting` stands for the chat queue.

### AiStream - GET /ai/jobs/{id}/stream

Adds to `AiJobQueue` what its counts leave out: `text[j]` is `output_text`, `buffer[w]` the local of
`process_one`, each as a sequence of payloads. `ClaimText`, `LoadText`, `ReceiveText` and
`FlushText` are the steps that touch them. `stream` is the generator of `stream_job` (`previous`)
and its client (`received`, `shown`): `Poll` reads the row and sends `Delta`, `Connect` is a client
that opens the stream, again if it was closed. `dropped` remembers whether text that was sent has
since been emptied or overwritten.

### AiGateway and OllamaClient

`AiGateway` is a pure function. For a path, the outcome of the access tests (`Admissions`) and what
happens upstream (`Upstreams`: an answer, one that is not JSON or not an object, a timeout, no
connection, one that breaks, an error status), `GatewayStatus` is the status the gateway answers
with. `Forwarded` is what the model list and the chat make of it: any status of Ollama, or of a
server in front of it, as it is, 504 and 502 for what `httpx` raises. `HealthStatus` is the health
endpoint, which makes one 503 of nearly everything. `Generates` says whether Ollama began to
generate.

`OllamaClient` is the object threads share. `call[t]` is a call under way. `Call` begins one: with
the list in the cache (`FromCache`), with a forced or due refresh (`Refresh`), or with the list of
`/api/tags` (`ListModels`). Then, per request, `Send`, `NotSent` (no connection, no key, a request
that cannot be built), `GatewayHandles`, `ReadReply`, `GiveUp` (read timeout, or the connection broke
while the gateway goes on); at the end `Store` (the list into the cache) and `BodyEnds`. `Repeated`
is the test that tries an attempt again, `Raised` the class of the error otherwise, and `Accepted`
what becomes of a 200: JSON or not, with the fields it must have or not. `setup` says whether URL
and key are set. `cache` is the catalog it shows and whether it has expired; `catalog` is what
Ollama has now. Histories: `newest`, the newest list returned; `racing`, the refreshes under way
that have overlapped another one; `due`, the list the cache may not be behind, which for one that a
racing refresh filled is what was newest when this refresh began.

`requests` raises `ConnectionError` for a stall while the body is read, so the `ReadTimeout` clause
at `client.py:328` is not reached and such an error escapes ("escaped"), which the worker does not
retry. A stream that ends without "done" counts as complete. Both are modelled as they are.

### VoiceServer and VoiceChannel

`VoiceServer` is one room of `_channels` and the coroutines of `voice_socket` on one event loop.
`handler[s]` is where the coroutine of socket `s` is; a broadcast awaits every send, so it is one
step per target (`BroadcastSend`) and other coroutines run in between. `Join` enters the room and
starts to announce it, `JoinBreaks` is the send of `peers` failing before the `try`, `Receive` is
`mute` and the relayed types, `Disconnect` is the `finally`, which removes whatever entry the user
has. `overlapped` remembers users who had two sockets at a time.

`VoiceChannel` is the hook. `client[s]` holds its refs; `pcs` the connections it made, with
signaling state, remote description and whether they were given the candidates of the other side;
`tasks` the suspended async handlers. The cases of `onmessage` run up to their first await and leave
a task; `OfferReady`, `AcceptOffer`, `Reply`, `Answered` are what follows each await, `Rejected` an
await that throws because the connection was closed meanwhile. `Enter`, `MicrophoneGranted`,
`MicrophoneRefused`, `IceServersFail`, `Leave`, `Drop`, `ToggleMute` are the effect, its clean-up,
and the user.

### BotEngine

`handlers` is the table of the loader, `records` the table `plugins`, `hits` the limiter.
`request[t]` is a pool thread: `Install` and `LoadCommand` (one entry at a time), `InstallRefused`
(404 or 422, before anything has changed), `Uninstall` and `UnloadRebind` (a new dict built from the
old one, then bound), `ReadRecord`, `CommitRecord`, `CommitFails`; or `SendMessage`, then per bot
`Lookup`, `RunCommand`, `Allow`, `AllowPop`, `AllowAppend` (the test, each `popleft`, the `append`),
`Execute`, `Reply`. `Restart` is `_reload_enabled_plugins`: the enabled rows in the order the query
gives them, except those whose manifest is gone or whose load raises (any of `Fragile`), which are
passed over and stay enabled. Two plugins may declare one command: the last one loaded serves it
(`Reloaded`).

Histories. `recent` counts the calls of the window. `crowded` are users two of whose commands were
in the limiter at a time, until a window has passed without a call. `adrift` are the plugins whose
last request met one it could not bear (`Lost`: an unload puts its table in the place of what others
do to the present one, and two requests for one plugin may end either way) or whose commit failed,
or that the last start passed over. A plugin leaves `adrift` with its next request, unless that
meets another one as well.

### Membership

`task[h]` is a handler: `Create`, `Register` (which Matrix refuses if the account exists),
`InsertRow`; `CreateChannel`, `CreateRoom`, `InsertChannel`; `Add`, `ReadChannels`, then
`Invite` and `Join` per channel, `InsertMember`. `Fails` ends a request after any call, and what the
homeserver did stays done. The homeserver is external: it refuses to invite an account that is
already in the room, so an add that broke off after a join cannot be completed by a retry.
`AccountOf` maps users and bots to accounts: of bot "x" it is "bot.x", which a user may be named
too.

### MusicBot

`command[k]` is a command under way, with its thread and its coroutine, which are separate:
`GivesUp` (ten seconds) ends the wait, the coroutine goes on. `CreateSession`, `Returned` are
`handle_command`; `JoinRoom`, `JoinEnds`, `LeaveStopsTimer`, `LeaveRoom` are `join` and `leave`;
`EnqueueTrack`, `Skip`, `TimerEnds` change the queue, each through `Advanced` (`_advance`) and
`Played` or `PlayFailed` (the `MediaPlayer(...)` in `_advance` opens the file, which may fail after
the track was taken). `voice` says whose entry the bot has in a
room. `muddled` remembers a join or leave that was given up, failed or overlapped. The module is
about `plugin_execution_mode` "local".

## 4. The runs

| Run (cfg) | Instance | Distinct states | Shows |
|---|---|---|---|
| `queue_one_worker` (`AiJobQueueOneWorker.cfg`) | 1 worker, 2 jobs, 2 attempts, 1 payload, 2 faults | 139,889 | the deployed configuration: all safety properties, the lifecycle, settling, cancellation |
| `queue_two_workers` (`AiJobQueueTwoWorkers.cfg`) | 2 workers, 1 job, 2 attempts, 1 payload, 2 faults; with the stream and 2 contents, 1 fault | 340,321 | what is left when workers race for a row, and the text of a stream |
| `queue_spurious_cancel` | as above | violation | a fenced-off worker cancels a requeued job |
| `api_context_leak` | 2 threads, 1 conversation, limit 2, 3 messages | violation | a later prompt in an earlier context |
| `bot_jobs_one_worker` (`AiBotJobsOneWorker.cfg`) | 1 worker, 2 jobs, 2 attempts, 2 faults | 665,494 | room and row agree, no false success; the lifecycle |
| `bot_jobs_two_workers` (`AiBotJobsTwoWorkers.cfg`) | 2 workers, 1 job, 2 attempts, 1 fault | 25,640 | one event per question, settling with a hung send |
| `bot_jobs_cut_off` | 1 worker, 2 jobs | violation | a cut-off send is not retried |
| `ai_service` (`AiService.cfg`) | requests: 2 threads, 3 conversations of 2 users, 1 key, limit 1, 3 messages of 0, 400 and 260 characters, 128 tokens; client: 2 callers, 2 attempts, 2 catalogs | 989,928 | keys, prompts, limit, context and its budget, answers; retries, classes of errors, the cache |
| `ai_service_config_errors` (`AiServiceConfig.cfg`) | as above | violation | a request that cannot be built is tried again |
| `voice_channel` (`VoiceChannel.cfg`) | 2 users, the second with 2 sessions; one session each with push-to-talk, a mute, candidates, failures | 3,146,930 | the room, the connections and the lists agree |
| `voice_newcomer` (`VoiceNewcomer.cfg`) | 3 users, 1 session each | violation | a peer that leaves while it is offered to ends the newcomer's loop |
| `core_api` (`CoreApi.cfg`) | engine: 2 threads, 1 user, 2 bots, 2 plugins with 2 commands each and 1 in common, 1 of them fragile, 2 calls per window; members: 2 threads, 3 people with 2 accounts, 2 rooms; music: 4 commands, 2 sessions, 2 channels | 1,685,988 | plugins, limiter, accounts, members, queue, sessions |

The properties, by what they say:

* `LockDiscipline`, `OneAnswerPerSuccess`, `CancelledOnlyOnRequest`, `RetriesBounded`,
  `TerminalIsFinal`, `ImplementsLifecycle` - hold with one worker, and are proved.
* `RunningIsReclaimable`, `AnswersBoundedByAttempts` - hold, and are proved, for any number of
  workers. The second is what fencing leaves of `OneAnswerPerSuccess` with several.
* `EveryJobSettles`, `CancelTakesEffect`, `EveryRequestAnswered`, `EveryBotJobSettles` - liveness.
  `CancelTakesEffect` excludes a request that arrives after the last test of `_complete_job` or
  `_fail_job`: the code does not promise to honour that one.
* `OneJobPerKey`, `PromptsMatchJobs`, `OvershootIsBounded` - the request API, proved.
* `ContextEndsWithPrompt`, `ContextFillsBudget` - what an attempt reads, both proved. The second is
  the reference definition of the selection: the longest stretch of newest messages that fits.
* `AtMostOneEvent`, `SucceededWasPosted`, `PostedIsStored` - bot jobs and the room, proved; the
  last, like the lifecycle, with one worker.
* `SlowChatsAreNotRepeated`, `RetryableMeansTransient`, `ListsDoNotGoBack` - the Ollama client, all
  proved. The second names its two exceptions: the one 503 that the health endpoint makes of what
  Ollama answers, and a request that cannot be built (the finding of `ai_service_config_errors`); it
  also says how a stream may end. The third bounds what overlapping refreshes do: the slower one may
  store the older list, but none older than what had been returned when it began.
* `TokensEndWithOutput` - the stream, proved; after a retry a client may hold more than the row.
* `RoomHoldsLiveSockets`, `ListsAgree`, `MeshIsComplete` - voice, all proved. The first names its
  exceptions: a join that broke while `peers` was sent leaves its entry, and the end of a user's
  older socket removes the entry of the newer. The second is about what all participants see as long
  as neither happened. The third holds for two users, and for any number of whom nobody leaves.
* `ServedIsEnabled`, `LimiterIsSound` (both proved) - plugins and limiter. An uninstall that meets
  another plugin request, a commit that fails after the table has changed, and files that are gone
  at the start make table and records diverge; the first property says for whom (`adrift`: the
  plugins of the requests that met, of that commit, of those files) and until when (their next
  request), and that all other plugins are served as recorded. Two commands of one user in the
  limiter at a time may exceed it or fail with 500; the second says by how much (two calls for each
  further thread) and until when (a window without a call).
* `OneRowPerAccount`, `MembersAreInTheRooms` - provisioning, both proved.
* `QueuePlaysOn`, `SessionHasItsRoom` - the music bot, both proved. The first excepts a session whose
  next track could not be opened, until the next skip; the second a join or leave that was given up,
  failed or overlapped (`muddled`), which the code does not mend.

Why these bounds. Rows interact only through the order of claims, so two jobs show every
interference of rows, and one job suffices where two workers compete for it. Two attempts reach both
verdicts of `_fail_job`, and a row that has been claimed by each of two workers. One payload
distinguishes an empty, a flushed and an unflushed output. Two faults allow the pair that matters (a
lost lease and then a crash or an error of the new owner). For the API two threads make each race,
three messages let a prompt be overtaken, and a third conversation separates the users; the lengths
are such that messages 1 and 3 just fit and message 2 does not fit alone. Two attempts of a request
show one that is repeated and one that is the last; one caller meets every outcome, the other keeps
refreshing the list, which is what it takes to overlap. In the stream one payload with two contents
tells the text of one attempt from that of another. Two voice users with one reconnect show every
race of one pair; a third user, whose instance is too large for the whole of it, is where
`MeshIsComplete` stops to hold (the finding). With two calls per window two threads can leave three,
and have one popped; two bots make one message two calls. A second plugin shares one command with
the first, and serves free text; the first may fail to load. Plugin requests run two at a time
without messages, or one at a time beside messages: a message reads one entry of the table and
writes none. Two of three people share an account; four commands are a join, an added track and two
more in every interleaving. Each of `PushToTalk`, `Toggling`, `Unsteady` and `Gathering` limits to
one session what any may do. Threads, handlers and channels of `core_api` are interchangeable
(`SYMMETRY`); its properties are invariants.

Deadlock is not reported (`CHECK_DEADLOCK FALSE`): a table in which all jobs are settled and the
bounds used up is the end of an instance, not of the program, and so is a conversation with as many
messages as the bound allows, a voice channel all have left, or a bot whose commands are used up.
That nothing waits for ever before that is what the liveness properties are for.

Fairness. `WF(WorkerStep)` and `WF(Claim)`: `run` loops until told to stop, compose restarts the
process (`restart: unless-stopped`), the gateway's read timeout ends a silent stream, and
`num_predict` a long one. `WF(BackoffElapses)` and `WF(LeaseExpires)`: the clock goes on. Crashes,
errors, lost leases, clients and requests are not fair, and the first three are bounded, so that
"eventually" is not refuted by an endless series of faults. `WF(RequestStep)`: a handler thread runs
on; a new request need not come. In `AiBotJobs`, `Claim` is strongly fair: `process_one` looks at
bot jobs only when it found no chat job, so a bot job settles only if the chat queue is found empty
again and again - an assumption about the load, stated there because the code gives no other.
`SendHangs` is a fault, and with one worker it would stop both queues for ever; the liveness run
therefore has two.

Findings, with their runs, are in `PROJECT.json`: the cancellation of a requeued job
(`worker.py:159`), the later prompt in an earlier context (`worker.py:122`), the cut-off send that
is not retried (`worker.py:333`), the request that cannot be built and is tried again
(`client.py:165`), and the newcomer whose loop over the peers ends early (`useVoiceChannel.ts:174`,
against the comment at `voice.py:7`). The first needs several workers,
which `docs/deployment/AI_WORKER.md` advises to test before use.

Every property is paired with a mutant: an operator, marked `Mutant:` in the modules, that replaces
a definition the way a plausible slip in the code would, and under which TLC refutes the property.

## 5. The proofs

Eight modules hold proofs, each over a component as it stands and for all values of its constants
that satisfy its named assumptions. In each, an invariant is shown to hold initially and to be kept
by every action, one step of the proof per action. The larger invariants were checked by TLC on a
small instance first.

### The chat job queue and its stream (`AiJobQueueProofs`)

Over `AiStream`, hence `AiJobQueue`, for all values of the constants that satisfy its three
assumptions (a positive number of jobs and of attempts; workers, `NoWorker` and `Gone` distinct).
The theorems of points 5 and 6 also assume `OneWorker`.

1. *Effects.* One lemma per operation says, column by column, what a step does to its row and to the
   process (`ClaimEffect`, `LoadEffect`, ... ). Later proofs cite these and do not expand records.
2. *Types.* `TypeCorrect` follows step by step from the effects.
3. *Any number of workers.* `Reclaimable`: `RunningIsReclaimable` is not inductive, because a commit
   might revive a row its helper read long ago. `ReclaimInv` adds that no busy process works on an
   absent row and that `_fail_job` only writes `queued`, `failed` or `cancelled`.
   `AnswersAreBounded`: the answers are no more than the attempts because (`AttemptInv`) the answers
   *and the processes still inside* are no more: a claim counts one attempt and lets one process in,
   the commit of an answer lets it out. No assumption that there are finitely many workers is
   needed, since the claims that let them in are finite; the invariant carries that fact.
4. *The stream.* `StreamEndsWithOutput`, again for any number of workers, for any `Streamed` job.
   `StreamInv` says what the client has (`received`) against the generator's `previous`: it always
   ends with it, and as long as nothing that was sent has left the row it equals it and the row's
   text only adds to it. A flush of a fenced-off worker, or a claim that empties the text, is what
   `dropped` records, so no assumption about workers is needed.
5. *One worker.* `OneWorkerInv` has two parts. `Orderly` relates the columns of a row, its answers
   and whether its cancellation was asked for. `Tracks` relates the locals of the process to its
   row, for every place in `process_one`: the row is still running under this owner, the attempt
   number is the row's, the text about to be stored is the text flushed, a pending cancellation was
   requested, a pending verdict is still right. That is why read-test-commit without a lock is safe
   with one worker: nobody but the cancel endpoint and the clock writes to the row in between, and
   both leave what was tested true, or harmless. A lease that runs out under a busy single worker is
   harmless for the same reason: nobody else can claim the row. The invariants follow from it.
6. *Shape.* With the invariant, every step is `Quiet` (no status, no answer changes, no terminal row
   is touched) or `Advances` one job along one edge. From this come `TerminalStaysFinal` and
   `TableImplementsLifecycle`: quiet steps stutter, the others are the actions of `AiJobLifecycle`;
   a reclaim (`running` to `running`) stutters too.

### The request API (`AiJobApiProofs`)

For any number of threads, users, conversations, keys and messages. `ApiInv` has three parts: the
rows are well formed; keys are unique, and a reply names the job that has its key; a flushed prompt
is open, belongs to its conversation and to one request only, and committed prompts and jobs
correspond one to one. The second is why `Relookup` always finds a job, the third why a lost race
leaves nothing behind. `OvershootStaysBounded` counts pending jobs and admitted requests together: a
request that passes the count saw fewer than `Limit` pending jobs, at most all other threads are
admitted beside it, and a commit only turns an admitted request into a pending job.

`TypeCorrect` needs `RoomLeft`: messages and prompts on their way together are no more than the
sequence has ids for. `ContextsEndWithPrompt` rests on the prompt being committed with its job, and
on messages, once committed, never being changed.

`ContextsFillTheBudget` is about the loop itself. The selection is a recursive function, so two
things that look obvious need induction: that a function with these equations exists, and that an
invariant of the loop holds at its end. The library's induction theorems take an operator, which no
prover here can instantiate; `Induction` and `DownwardInduction` are therefore derived for *sets*
of numbers, from the fact that `<` on Nat is well founded and that a non-empty set then has a
minimal element. `DownwardRecursion` gives the function, `RoundKeepsLoop` the invariant (`LoopInv`:
still going on with everything read so far, or stopped before a message that does not fit, or after
the newest, which does not), and `SelectedFits` what is left at the end: kept messages are newer
than those left out, fit into the budget unless there is only the prompt, and would not fit with one
more. It holds for messages of any length, any system prompt and any budget.

### Bot jobs (`AiBotJobsProofs`)

For any number of workers, `PostInv` adds two facts to the properties. `TxnIsJobs`: the transaction
id of an event names the job it answers, since every attempt passes the id made of its job and
nothing else, whichever worker makes it. So a send that finds its id known finds an event of its own
question (`AtMostOneEvent`), and never that of another one. `SentIsPosted`: a process that has seen
its send answered finds such an event in the room. Since an event stays, a worker that lost its
lease meanwhile does no harm: what it marks as succeeded is posted.

With one worker, `OneWorkerInv` adds what `Orderly` says of a row and its room - lock columns are
set exactly while it runs, and an event in the room is the stored result - and what `Tracks` says of
the process: the row is still its own, nothing is stored while it generates or is about to store,
and what it is about to send is what is stored. The second of these is why a retry never generates
again once there is a result, and hence why an event that reached the room through a send that was
cut off still agrees with the row. Every step is then a `Moves` along one `Edge`, from which
`BotJobsImplementLifecycle` follows.

### The Ollama client (`OllamaClientProofs`)

For any number of threads, attempts and model lists. `ClientInv` says of every call, at every place
of `_request`, what is known of it. `Counted`: a call has started at most one generation per
attempt, a second one only after an attempt that was lost (a broken connection or a 502), and none
of the attempts that were repeated ended with a timeout of a chat. `Answered`: the reply is what
`GatewayStatus` makes of some outcome of the access tests and of what is upstream, any status
included, and a call that is over has a class of error that tells of its cause (`Telling`). `Fresh`:
the list a call holds is no older than the newest one returned when it began, or, if it took the
cache, than `due`. For a refresh that has met no other it is also no older than the newest one by
now, and there is at most one such (`OneRefresh`), so what it stores is; one that has met another
stores what is at least its own `floor`, which is what `due` then becomes (`CacheIsSound`). How a
step moves a call in and out of the refreshes is stated once (`RefreshesMove`).

### Voice (`VoiceChannelProofs`)

For any number of users and sockets, whatever frames clients send. `RoomHoldsLiveSockets` is
inductive once the tables are known to be well formed (`RoomInv`): nothing is assumed of a client,
and its steps are shown to leave room, coroutines and open sockets as they must be.

`ListsAlwaysAgree` speaks of the time when nothing is on its way, so its invariant (`ListInv`) has to
say what everything on its way will lead to.

1. *Frames.* `Leads(before, queue, after)`: the frames of the queue, applied in their order, make one
   list of the other. It is a relation, by the lists in between, so that no recursion is needed: a
   frame sent is one more list at the end (`LeadsFurther`), a frame handled is one fewer at the
   beginning (`LeadsFromNext`). `HandledEffect` shows that `Handled` makes of a list what `Effect`
   says, whatever it does to connections and tasks beside.
2. *News.* A broadcast takes many steps. `Told(t, u, list)`: the list that the frames lead t to is
   right about u if no coroutine of u still has to send to t, and becomes right with the news that is
   still to come otherwise. News about one user leaves what a list says of the others alone
   (`NewsIsLocal`), so sends of different coroutines commute.
3. *Sessions.* This needs that only one coroutine of a user is about at a time (`OneSession`), which
   is what `Undisturbed` amounts to, that nobody is sent news of himself, or before he has joined
   (`Addressed`), and from `RoomInv` that a participant is in the table, so that the targets of a
   broadcast are all participants (`TargetsAre`).
4. *Flags.* `MuteKnown`: a "mute" on its way carries the state of the microphone; once none is, the
   room has it; and before the first one the room has the flag unset.

Types of frames, participants and queues (`ListTypes`) hold without `Undisturbed`. There is a lemma
per action; join, mute and leave share `AnnouncedAgrees`, as all three put news about their own user
on its way to all others.

`MeshOfThoseWhoStay` is about any number of users of whom nobody's session ended and nobody opened a
second one (`Steady`, which only past steps decide: once false it stays false). `MeshInv` says that
then every two sessions that joined are somewhere in one handshake, and in one only (`Meeting`).

1. *Stages.* A handshake has eleven, from "the newcomer's `peers` lists the other" through the loop,
   each await and each way through a socket and the server to the connection both hold. `Offers`
   says what the hook and the two queues of the newcomer have of the other user in each, `Accepts`
   the same of the other: where the one offer or the one answer is, which connection there is and in
   what state, which task is suspended at it, and that there is nothing else - no second
   description, no second connection, nothing of the opposite handshake. Here it comes out that two
   participants never offer to each other: who is listed to whom is decided when the later one
   joins.
2. *Candidates.* They are sent after the description but move on their own (`Travels`): `m` and `l`
   say whether those of either side are unsent, in one of the two queues, or there. Those that come
   before the description are in `pendingIceRef` and nowhere else, and the same step that gets the
   description hands them over; those that come later find it.
3. *Others.* A session that has not joined, or of a user not in the room, has left no trace in any
   hook and any queue (`Strange`). With `RoomInv` and `ListTypes`, who is in the table is exactly who
   has joined (`InTouch`), so a `peers` lists exactly those a handshake begins with.
4. *Steps.* What a step does to one queue or one hook is stated once for the signals of one user
   (`Carries`, `Put`, `Took`); for all other users nothing changes, and a handshake of two sessions
   neither of which took the step stays at its stage. A step of one of the two leads to the next
   stage, or is a task of none.

Without `Steady` the invariant is false, and so is the property from three users on: a peer that
leaves while a newcomer's loop awaits its offer ends the loop (`Rejected`), and those after it get
no offer - the finding of `voice_newcomer`. For two users `Sole` of both already excludes every end
of a session, hence `MeshOfTwoIsComplete`: the property as the run checks it.

### Provisioning (`MembershipProofs`)

For any number of handlers, people and rooms. `MemberInv` adds to the two properties what a request
has achieved on its way: `AccountsAreHeld` - from registration to commit the account exists and is
no row's and no other request's; `AddsAreComplete` - every channel there was at the beginning of an
add has been joined or is still to do.

### The music bot (`MusicBotProofs`)

For any number of commands, sessions and channels. `QueuePlaysOn` does not mention `task`, on which
the next `_advance` relies: `Orderly` adds that no timer runs but the one `task` refers to, and that
this is the current track's. A coroutine that runs long after its command gave up finds its session
in that state, and `_advance`, which does not await, leaves it so.

`SessionsHaveTheirRooms`: the property speaks of the time between commands, the invariant
(`RoomInv`) of every stage of the one join or leave under way: until the coroutine has entered or
left the room the old picture holds (`InPlace`), between the room and the return of the command
`sessionOf` may not say what `voice` does (`Stage`), and a second such command, a failure or a
timeout is what `muddled` records. That several commands run and end in any order is where the work
is: the list of commands closes up, and every fact about them moves with it (`Was`).

### Bots and plugins (`BotEngineProofs`)

For any finite number of threads, any users, bots and plugins, with commands in common or not. The
invariant has a part for each conjunct.

* `LimiterInv`: of a user who has one command in the limiter at a time, the deque is old entries
  followed by at least `recent` new ones, and `recent` is at most `MaxCalls`; what the thread in the
  limiter has read is still true when it acts on it. The window passing meanwhile keeps that,
  because it only makes entries old. A crowd is forgotten when no thread is left and `recent` is
  zero, and then the invariant holds of any deque.
* `CountInv`, of every user, crowded or not: the deque ends with `k` calls of the window, and `lost`
  others have been popped early. The threads about to append (`Appending`) have all seen a length
  below `MaxCalls`, so deque and they together exceed it by at most the further threads; the threads
  about to pop (`Popping`) have all seen an old head, so once there is none left, `lost` and they
  together are at most the further threads. The two sum up to the bound of `LimiterIsSound`.
* `TableInv`: every plugin not `adrift` is `OnCourse`. It has one request at most; while it has one,
  the tables agree with the progress of that request, and nobody is about to put another table in
  their place (`Underway`); otherwise with its record (`Settled`). "The tables" are the present one
  and every one that an unload of another plugin has begun with, since that is the one which will be
  bound. An enabled plugin is only claimed to serve what no other plugin declares (`OwnCommands`):
  of a shared command the order of loads decides.

### Model-checked only

* All liveness (`EveryJobSettles`, `CancelTakesEffect`, `EveryRequestAnswered`,
  `EveryBotJobSettles`): fairness and ENABLED are outside what the provers handle.
* Nothing else of the passing runs: their safety properties are all proved, most for all values of
  the constants; those that hold with one worker only, and `MeshIsComplete` with two users, under
  that assumption, as stated above.

## 6. What the models leave out

* **Everywhere.** Texts, sizes of tables, the time a step takes, pool exhaustion in SQLAlchemy.
* **Queues.** Deletion of conversations, bots and channels (no endpoint deletes them; the worker's
  early returns for a missing conversation or bot lead where a lost row leads). The order in which
  PostgreSQL grants row locks: `SKIP LOCKED` makes a claim pass over a row whose lock is held, so
  `Claim` of `AiJobQueue` takes any claimable row, as a cancel request may hold any of them; `Claim`
  of `AiBotJobs`, where only commits of other workers hold locks, takes the first row that no one is
  committing to. Usage records and their sums.
* **Request API and gateway.** Creating and listing conversations, one statement each. The addresses
  and keys the gateway tests appear by the outcome of the test; malformed requests, which the client
  does not send, are left out.
* **Voice.** `speaking` messages, which change nothing on the server; a restart of the server, after
  which all sockets are gone; TURN credentials; media; rooms but one, since no code relates two.
* **Music bot.** Its signaling with its peers is one step of `join`, not a participant of
  `VoiceChannel`; commands that only read.
* **Plugins and bots.** `POST .../run`, which calls a handler as the dispatcher does; the sandbox,
  one process per command without state; the small plugins, which answer one command from one query.
* **Membership.** `create_server`, one commit, is the initial state. Reading and redacting messages
  is one homeserver call each.
* **Web client.** `App.tsx` replaces a list by each answer that arrives; an answer that was
  overtaken shows the wrong server until the next poll. It is a hazard in the list, and as nothing
  depends on the list that is shown, not a model of its own.
* **Authentication and settings.** Pure functions of a request; settings are constants of the
  modules.
* **Deployment, migrations, styles.** The restart policy of the worker is `Crash`; nothing else acts
  at run time.
