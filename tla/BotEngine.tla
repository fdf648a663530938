------------------------------ MODULE BotEngine ------------------------------
(***************************************************************************)
(* Plugins and the bots that serve their commands: the table of handlers   *)
(* (backend/app/plugins_engine/loader.py), the requests that fill it       *)
(* (core/routers/plugins.py, main.py), and the way of a channel message    *)
(* through send_message, the dispatcher and the rate limiter               *)
(* (core/routers/messages.py, bot_engine/dispatcher.py, core/rate_limit.py).*)
(*                                                                         *)
(* Handlers run in threads of one process, which share the objects without *)
(* a lock: what one dict or deque operation does is a step, and so is each *)
(* commit.  Two plugins may declare one command; the last one loaded serves *)
(* it.  What a handler computes is left out; it never raises past the      *)
(* dispatcher.                                                             *)
(***************************************************************************)
EXTENDS Naturals, Sequences, FiniteSets

CONSTANTS
  Threads,      \* threads of the pool
  Users,        \* senders of messages
  NumBots,      \* active bots linked to the server, all with the prefix "/"
  Plugins,      \* plugins
  CommandsOf,   \* manifest.commands
  Fragile,      \* bound: plugins whose files in plugins/ may go or break
  Freeform,     \* the command of free text, "sor"
  Sent,         \* bound: the commands users send
  MaxCalls,     \* max_calls of _command_limiter, in its window
  NoPlugin      \* no entry in the table

Commands == UNION {CommandsOf[p] : p \in Plugins}

ASSUME CommandsAssumption ==
  /\ Freeform \in Commands /\ Sent \subseteq Commands /\ NoPlugin \notin Plugins
  /\ MaxCalls \in Nat \ {0} /\ NumBots \in Nat
  /\ IsFiniteSet(Threads) /\ Threads # {}

VARIABLES
  handlers,     \* _handlers: command -> plugin
  records,      \* the rows of table plugins
  request,      \* per thread, the request it handles
  hits,         \* _hits: per user, the times of calls, "old" once out of the window
  recent,       \* history: calls allowed to the user in the last window
  crowded,      \* history: users two of whose commands were in allow at a time, and
                \* who have had no window without a call since
  adrift        \* history: plugins whose last request met another one it could not
                \* bear, or failed to commit, or that the last start could not load

engineVars == <<handlers, records, request, hits, recent, crowded, adrift>>

NoRequest == [op |-> "none", pc |-> "idle", plugin |-> NoPlugin, todo |-> {}, table |-> << >>,
              seen |-> "none", user |-> "none", command |-> "none", form |-> "none", bots |-> 0]

EngineInit ==
  /\ handlers = [c \in Commands |-> NoPlugin]
  /\ records = [p \in Plugins |-> "absent"]
  /\ request = [t \in Threads |-> NoRequest]
  /\ hits = [u \in Users |-> << >>]
  /\ recent = [u \in Users |-> 0]
  /\ crowded = {}
  /\ adrift = {}

SetRequest(t, r) == request' = [request EXCEPT ![t] = r]
At(t, pc) == request[t].pc = pc
MoveTo(t, pc) == SetRequest(t, [request[t] EXCEPT !.pc = pc])

-----------------------------------------------------------------------------
(* install_plugin and uninstall_plugin *)

\* Two loads touch different entries, or a shared one whose last writer serves it;
\* an unload puts its own table in the place of what others do to the present one,
\* and two requests for one plugin may end either way.  Those that lose by it are
\* adrift until their next request; the others are not.
Lost(t, op, p) ==
  {request[u].plugin : u \in {u \in Threads \ {t} :
     \/ request[u].pc \in {"load", "unload"} /\ op = "uninstall"
     \/ request[u].op \in {"install", "uninstall"} /\ request[u].plugin = p}}
  \cup {p : u \in {u \in Threads \ {t} : request[u].pc = "unload"}}

Begin(t, op, p, r) ==
  /\ At(t, "idle")
  /\ SetRequest(t, [r EXCEPT !.op = op, !.plugin = p])
  /\ adrift' = (adrift \ {p}) \cup Lost(t, op, p)
  /\ UNCHANGED <<handlers, records, hits, recent, crowded>>

Install(t, p) ==
  Begin(t, "install", p, [NoRequest EXCEPT !.pc = IF CommandsOf[p] = {} THEN "record" ELSE "load",
                                           !.todo = CommandsOf[p]])

\* The manifest is gone: 404; load refuses it: 422.  Nothing has changed yet.
InstallRefused(t, p) == At(t, "idle") /\ p \in Fragile /\ UNCHANGED engineVars

\* load: one entry after the other; _loaded_plugins, which nothing reads, is left out.
LoadCommand(t) ==
  LET r == request[t] IN
  /\ r.pc = "load"
  /\ \E c \in r.todo :
       /\ handlers' = [handlers EXCEPT ![c] = r.plugin]
       /\ IF r.todo = {c} THEN MoveTo(t, "record") ELSE SetRequest(t, [r EXCEPT !.todo = @ \ {c}])
  /\ UNCHANGED <<records, hits, recent, crowded, adrift>>

\* unload begins to build a new table from the present one.
Uninstall(t, p) == Begin(t, "uninstall", p, [NoRequest EXCEPT !.pc = "unload", !.table = handlers])

\* Mutant: the entries of an unloaded plugin stay.
KeptEntries(table, p) == table

WithoutPlugin(table, p) == [c \in Commands |-> IF table[c] = p THEN NoPlugin ELSE table[c]]

\* The new table replaces the present one, entries added meanwhile included; if
\* one was added under the iteration, that may raise instead, with nothing done.
UnloadRebind(t) ==
  LET r == request[t] IN
  /\ r.pc = "unload"
  /\ \/ /\ handlers' = WithoutPlugin(r.table, r.plugin)
        /\ MoveTo(t, "record")
        /\ UNCHANGED adrift
     \/ /\ \E c \in Commands : r.table[c] = NoPlugin /\ handlers[c] # NoPlugin
        /\ SetRequest(t, NoRequest)
        /\ adrift' = adrift \cup {r.plugin}
        /\ UNCHANGED handlers
  /\ UNCHANGED <<records, hits, recent, crowded>>

ReadRecord(t) ==
  LET r == request[t] IN
  /\ r.pc = "record"
  /\ SetRequest(t, IF r.op = "uninstall" /\ records[r.plugin] = "absent" THEN NoRequest
                   ELSE [r EXCEPT !.pc = "commit", !.seen = records[r.plugin]])
  /\ UNCHANGED <<handlers, records, hits, recent, crowded, adrift>>

\* A column set to the value it was read with is not written; a second INSERT of
\* the name is refused.
CommitRecord(t) ==
  LET r == request[t]
      p == r.plugin
      wanted == IF r.op = "install" THEN "enabled" ELSE "disabled" IN
  /\ r.pc = "commit"
  /\ records' = IF r.seen = wanted \/ (r.seen = "absent" /\ records[p] # "absent")
                THEN records ELSE [records EXCEPT ![p] = wanted]
  /\ SetRequest(t, NoRequest)
  /\ UNCHANGED <<handlers, hits, recent, crowded, adrift>>

CommitFails(t) ==
  /\ At(t, "commit")
  /\ adrift' = adrift \cup {request[t].plugin}
  /\ SetRequest(t, NoRequest)
  /\ UNCHANGED <<handlers, records, hits, recent, crowded>>

Enabled == {p \in Plugins : records[p] = "enabled"}

\* The rows in the order the query gives them, each load over the ones before it.
Reloaded(table, loaded) ==
  \E row \in [loaded -> 1..Cardinality(loaded)] :
    /\ \A p, q \in loaded : row[p] = row[q] => p = q
    /\ \A c \in Commands :
         IF table[c] = NoPlugin THEN \A p \in loaded : c \notin CommandsOf[p]
         ELSE /\ table[c] \in loaded /\ c \in CommandsOf[table[c]]
              /\ \A p \in loaded : c \in CommandsOf[p] => row[p] <= row[table[c]]

\* The process restarts: _reload_enabled_plugins.  A plugin whose manifest is gone,
\* or that load refuses, is passed over; its row stays.
Restart ==
  /\ \E skipped \in SUBSET (Enabled \cap Fragile) :
       LET loaded == Enabled \ skipped IN
       /\ handlers' \in {table \in [Commands -> loaded \cup {NoPlugin}] : Reloaded(table, loaded)}
       /\ adrift' = skipped
  /\ request' = [t \in Threads |-> NoRequest]
  /\ hits' = [u \in Users |-> << >>]
  /\ recent' = [u \in Users |-> 0]
  /\ crowded' = {}
  /\ UNCHANGED records

-----------------------------------------------------------------------------
(* send_message and handle_message_event *)

tableVars == <<handlers, records, adrift>>

\* The message is in the room; parse_command or parse_mention accepts it.
SendMessage(t, u, form, c) ==
  /\ At(t, "idle") /\ NumBots > 0
  /\ SetRequest(t, [NoRequest EXCEPT !.op = "message", !.pc = "lookup", !.user = u, !.form = form,
                                     !.command = c, !.bots = IF form = "slash" THEN NumBots ELSE 1])
  /\ UNCHANGED <<tableVars, hits, recent, crowded>>

\* On to the next bot; after the last one the message is answered 201.
NextBot(r) == IF r.bots = 1 THEN NoRequest ELSE [r EXCEPT !.bots = @ - 1, !.pc = "lookup"]

\* "/": each bot, if the command is known; "@bot": the command, else free text,
\* else a reply that says the command is unknown.
Lookup(t) ==
  LET r == request[t]
      known == handlers[r.command] # NoPlugin IN
  /\ r.pc = "lookup"
  /\ SetRequest(t,
       CASE known -> [r EXCEPT !.pc = "run"]
         [] ~known /\ r.form = "mention" /\ handlers[Freeform] # NoPlugin
               -> [r EXCEPT !.pc = "run", !.command = Freeform]
         [] OTHER -> NextBot(r))
  /\ UNCHANGED <<tableVars, hits, recent, crowded>>

Limiting(u) == {t \in Threads : request[t].user = u /\ request[t].pc \in {"allow", "pop", "append"}}

\* _run_command looks the handler up again, then asks the limiter.
RunCommand(t) ==
  LET r == request[t] IN
  /\ r.pc = "run"
  /\ IF handlers[r.command] = NoPlugin
     THEN MoveTo(t, "reply") /\ UNCHANGED crowded
     ELSE /\ MoveTo(t, "allow")
          /\ crowded' = IF Limiting(r.user) = {} THEN crowded ELSE crowded \cup {r.user}
  /\ UNCHANGED <<tableVars, hits, recent>>

\* Mutant: one call too many.
FullOffByOne(u) == Len(hits[u]) > MaxCalls

Full(u) == Len(hits[u]) >= MaxCalls

\* allow: drop what is out of the window, then test the length.
Allow(t) ==
  LET u == request[t].user IN
  /\ At(t, "allow")
  /\ MoveTo(t, IF hits[u] # << >> /\ Head(hits[u]) = "old" THEN "pop"
             ELSE IF Full(u) THEN "reply" ELSE "append")
  /\ UNCHANGED <<tableVars, hits, recent, crowded>>

\* popleft of an empty deque raises: 500, though the message is in the room.
AllowPop(t) ==
  LET u == request[t].user IN
  /\ At(t, "pop")
  /\ IF hits[u] = << >>
     THEN SetRequest(t, [NoRequest EXCEPT !.seen = "limiter failed", !.user = u]) /\ UNCHANGED hits
     ELSE MoveTo(t, "allow") /\ hits' = [hits EXCEPT ![u] = Tail(@)]
  /\ UNCHANGED <<tableVars, recent, crowded>>

AllowAppend(t) ==
  LET u == request[t].user IN
  /\ At(t, "append")
  /\ hits' = [hits EXCEPT ![u] = Append(@, "new")]
  /\ recent' = [recent EXCEPT ![u] = @ + 1]
  /\ MoveTo(t, "execute")
  /\ UNCHANGED <<tableVars, crowded>>

\* The handler answers, or has queued an AI job that will answer.
Execute(t) ==
  /\ At(t, "execute")
  /\ \/ MoveTo(t, "reply")
     \/ SetRequest(t, NextBot(request[t]))
  /\ UNCHANGED <<tableVars, hits, recent, crowded>>

\* The bot's own message; MatrixError is swallowed, a broken connection is not,
\* and ends the request with 500.
Reply(t) ==
  /\ At(t, "reply")
  /\ \E r \in {NextBot(request[t]), NoRequest} : SetRequest(t, r)
  /\ UNCHANGED <<tableVars, hits, recent, crowded>>

\* The oldest call of the window leaves it; a call that was popped too early
\* (it was the oldest) only leaves the history.
WindowPasses(u) ==
  LET new == {i \in DOMAIN hits[u] : hits[u][i] = "new"}
      lost == Cardinality(new) < recent[u] IN
  /\ recent[u] > 0
  /\ recent' = [recent EXCEPT ![u] = @ - 1]
  /\ hits' = IF lost THEN hits
             ELSE [hits EXCEPT ![u][CHOOSE i \in new : \A j \in new : i <= j] = "old"]
  /\ crowded' = IF recent[u] = 1 /\ \A t \in Threads : request[t].user # u
                THEN crowded \ {u} ELSE crowded
  /\ UNCHANGED <<tableVars, request>>

-----------------------------------------------------------------------------

EngineNext ==
  \/ \E t \in Threads :
       \/ \E p \in Plugins : Install(t, p) \/ InstallRefused(t, p) \/ Uninstall(t, p)
       \/ LoadCommand(t) \/ UnloadRebind(t)
       \/ ReadRecord(t) \/ CommitRecord(t) \/ CommitFails(t)
       \/ \E u \in Users, form \in {"slash", "mention"}, c \in Sent : SendMessage(t, u, form, c)
       \/ Lookup(t) \/ RunCommand(t) \/ Allow(t) \/ AllowPop(t) \/ AllowAppend(t)
       \/ Execute(t) \/ Reply(t)
  \/ \E u \in Users : WindowPasses(u)
  \/ Restart

EngineSpec == EngineInit /\ [][EngineNext]_engineVars

-----------------------------------------------------------------------------
(* Properties *)

\* The commands that no other plugin declares.
OwnCommands(p) == {c \in CommandsOf[p] : \A q \in Plugins \ {p} : c \notin CommandsOf[q]}

(* A plugin serves commands only if its record says enabled, and only its own or
   shared ones, and one that is recorded as enabled serves all that are its own,
   whatever happens to other plugins: an uninstall that puts back an old table, a
   commit that fails after the table has changed, or files that are gone at the
   start cost only the plugins of the requests that meet, of the failed request
   or of the files, and those only until their next request. *)
ServedIsEnabled ==
  \A p \in Plugins \ adrift :
    (\A t \in Threads : request[t].op \in {"install", "uninstall"} => request[t].plugin # p) =>
      /\ \A c \in Commands : handlers[c] = p => p \in Enabled /\ c \in CommandsOf[p]
      /\ p \in Enabled => \A c \in OwnCommands(p) : handlers[c] = p

(* A user whose commands pass the limiter one at a time never runs more than
   MaxCalls in a window, and the limiter never fails the request of a message
   that is already in the room; an earlier crowd is forgotten once a window has
   passed without a call.  In a crowd both may happen, but each further thread
   gains at most two calls: one that it lets pass with the others, one of the
   window that it pops with the old one. *)
LimiterIsSound ==
  /\ \A u \in Users \ crowded :
       /\ recent[u] <= MaxCalls
       /\ \A t \in Threads : request[t].user = u => request[t].seen # "limiter failed"
  /\ \A u \in Users : recent[u] <= MaxCalls + 2 * (Cardinality(Threads) - 1)

=============================================================================
