-------------------------- MODULE BotEngineProofs --------------------------
(***************************************************************************)
(* Proofs about BotEngine for any number of threads, users, plugins and    *)
(* commands: the rate limiter of a user whose commands do not meet in it,  *)
(* how far those that do may overshoot, and the table of handlers against  *)
(* the records of enabled plugins.  The handlers take no lock; what keeps  *)
(* them right is who else may be where, and the invariants below say so.   *)
(***************************************************************************)
EXTENDS BotEngine, SequenceTheorems, FiniteSetTheorems, TLAPS

PluginOps == {"install", "uninstall"}
PluginPlaces == {"load", "unload", "record", "commit"}
LimiterPlaces == {"allow", "pop", "append"}
MessagePlaces == LimiterPlaces \cup {"lookup", "run", "execute", "reply"}

\* A command is served by a plugin that declares it, or not at all.
Tables == {table \in [Commands -> Plugins \cup {NoPlugin}] :
             \A c \in Commands, p \in Plugins : table[c] = p => c \in CommandsOf[p]}
Statuses == {"absent", "enabled", "disabled"}

Requests ==
  [op : PluginOps \cup {"none", "message"},
   pc : PluginPlaces \cup MessagePlaces \cup {"idle"},
   plugin : Plugins \cup {NoPlugin}, todo : SUBSET Commands, table : Tables \cup {<< >>},
   seen : Statuses \cup {"none", "limiter failed"},
   user : Users \cup {"none"}, command : Commands \cup {"none"},
   form : {"none", "slash", "mention"}, bots : Int]

\* The locals go with the place.
WellFormed(r) ==
  /\ r \in Requests
  /\ r.op \in PluginOps <=> r.pc \in PluginPlaces
  /\ r.pc \in PluginPlaces => r.plugin \in Plugins
  /\ r.pc = "load" => r.op = "install" /\ r.todo \subseteq CommandsOf[r.plugin]
  /\ r.pc = "unload" => r.op = "uninstall" /\ r.table \in Tables
  /\ r.pc \in MessagePlaces => r.user \in Users /\ r.command \in Commands
  /\ r.pc # "idle" => r.seen # "limiter failed"

EngineTypes ==
  /\ handlers \in Tables
  /\ records \in [Plugins -> Statuses]
  /\ request = [t \in Threads |-> request[t]]
  /\ \A t \in Threads : WellFormed(request[t])
  /\ hits \in [Users -> Seq({"old", "new"})]
  /\ recent \in [Users -> Nat]

-----------------------------------------------------------------------------
(* The limiter *)

\* The calls of the window are the last of the deque, and not fewer than n.
Windowed(h, n) ==
  /\ h \in Seq({"old", "new"})
  /\ \E k \in n..Len(h) : \A i \in 1..Len(h) : h[i] = IF i <= Len(h) - k THEN "old" ELSE "new"

\* What a thread has seen of its user's deque is still true.
LimiterAgrees(u, t) ==
  /\ request[t].seen # "limiter failed"
  /\ request[t].pc = "pop" => hits[u] # << >> /\ Head(hits[u]) = "old"
  /\ request[t].pc = "append" => Len(hits[u]) < MaxCalls

LimiterInv ==
  \A u \in Users \ crowded :
    /\ Windowed(hits[u], recent[u])
    /\ recent[u] <= MaxCalls
    /\ \A t \in Threads : request[t].user = u => LimiterAgrees(u, t)
    /\ \A t1, t2 \in Limiting(u) : t1 = t2

\* What holds of every user: the deque has k calls of the window after the old ones;
\* others of the window were popped when no old one was left, each by a thread that
\* had seen an old one, and at most as many as there are further threads.
Appending(u) == {t \in Threads : request[t].user = u /\ request[t].pc = "append"}
Popping(u)   == {t \in Threads : request[t].user = u /\ request[t].pc = "pop"}

Further == Cardinality(Threads) - 1

Shape(h, k) ==
  /\ h \in Seq({"old", "new"})
  /\ k \in 0..Len(h)
  /\ \A i \in 1..Len(h) : h[i] = IF i <= Len(h) - k THEN "old" ELSE "new"

CountedAs(u, k, lost) ==
  /\ Shape(hits[u], k)
  /\ recent[u] = k + lost
  /\ lost > 0 => k = Len(hits[u])
  /\ k = Len(hits[u]) => lost + Cardinality(Popping(u)) <= Further
  /\ Len(hits[u]) + Cardinality(Appending(u)) <= MaxCalls + Further

CountInv == \A u \in Users : \E k, lost \in Nat : CountedAs(u, k, lost)

-----------------------------------------------------------------------------
(* The table of handlers *)

Busy(t) == request[t].op \in PluginOps
OnPlugin(t, p) == Busy(t) /\ request[t].plugin = p

ServesOwn(table, p) == \A c \in OwnCommands(p) : table[c] = p
Silent(table, p)    == \A c \in Commands : table[c] # p

\* The tables there are: the present one, and those that unloads have begun with.
ServedEverywhere(p) ==
  /\ ServesOwn(handlers, p)
  /\ \A t \in Threads : request[t].pc = "unload" => ServesOwn(request[t].table, p)
SilentEverywhere(p) ==
  /\ Silent(handlers, p)
  /\ \A t \in Threads : request[t].pc = "unload" => Silent(request[t].table, p)

\* What the tables say of the plugin of a request, and who is not about.
Underway(t) ==
  LET r == request[t]
      p == r.plugin IN
  /\ r.pc \in {"load", "unload"} => \A u \in Threads \ {t} : request[u].pc # "unload"
  /\ r.pc = "load" => \A c \in OwnCommands(p) \ r.todo : handlers[c] = p
  /\ r.pc \in {"record", "commit"} => IF r.op = "install" THEN ServedEverywhere(p)
                                                        ELSE SilentEverywhere(p)
  /\ r.pc = "commit" => r.seen = records[p]

\* ... and of a plugin without a request, what its record says.
Settled(p) == IF records[p] = "enabled" THEN ServedEverywhere(p) ELSE SilentEverywhere(p)

OnCourse(p) ==
  /\ \A t, u \in Threads : OnPlugin(t, p) /\ OnPlugin(u, p) => t = u
  /\ \A t \in Threads : OnPlugin(t, p) => Underway(t)
  /\ (\A t \in Threads : ~OnPlugin(t, p)) => Settled(p)

TableInv == \A p \in Plugins \ adrift : OnCourse(p)

EngineInv == EngineTypes /\ LimiterInv /\ TableInv

-----------------------------------------------------------------------------
(* Requests *)

LEMMA NoRequestIsIdle ==
  /\ WellFormed(NoRequest)
  /\ NoRequest.op = "none" /\ NoRequest.pc = "idle" /\ NoRequest.seen = "none"
BY DEF NoRequest, WellFormed, Requests, PluginOps, PluginPlaces, MessagePlaces, LimiterPlaces, Statuses

LEMMA RequestBecomes ==
  ASSUME EngineTypes, NEW t \in Threads, NEW r, SetRequest(t, r)
  PROVE  /\ request' = [u \in Threads |-> request'[u]]
         /\ \A u \in Threads : request'[u] = IF u = t THEN r ELSE request[u]
<1>1. request = [u \in Threads |-> request[u]]
  BY DEF EngineTypes
<1>2. request' = [request EXCEPT ![t] = r]
  BY DEF SetRequest
<1> QED
  BY <1>1, <1>2

LEMMA RequestKeepsTypes ==
  ASSUME EngineTypes, NEW t \in Threads, NEW r, SetRequest(t, r), WellFormed(r),
         handlers' \in Tables, records' \in [Plugins -> Statuses],
         hits' \in [Users -> Seq({"old", "new"})], recent' \in [Users -> Nat]
  PROVE  EngineTypes'
<1>1. \A u \in Threads : WellFormed(request[u])
  BY DEF EngineTypes
<1>2. \A u \in Threads : WellFormed(request'[u])
  BY <1>1, RequestBecomes
<1> QED
  BY <1>2, RequestBecomes DEF EngineTypes, WellFormed

\* A message goes to another place.
LEMMA MessageGoesOn ==
  ASSUME NEW q, WellFormed(q), q.pc \in MessagePlaces, NEW x \in MessagePlaces
  PROVE  /\ WellFormed([q EXCEPT !.pc = x])
         /\ [q EXCEPT !.pc = x].pc = x
         /\ [q EXCEPT !.pc = x].user = q.user
         /\ [q EXCEPT !.pc = x].op \notin PluginOps
         /\ [q EXCEPT !.pc = x].seen # "limiter failed"
<1> DEFINE r == [q EXCEPT !.pc = x]
<1>1. q \in Requests
  BY DEF WellFormed
<1>2. /\ r \in Requests /\ r.pc = x /\ r.op = q.op /\ r.plugin = q.plugin
      /\ r.user = q.user /\ r.command = q.command /\ r.seen = q.seen
  BY <1>1 DEF Requests
<1>3. x \notin PluginPlaces /\ x # "unload" /\ x # "load" /\ q.pc \notin PluginPlaces /\ q.pc # "idle"
  BY DEF PluginPlaces, MessagePlaces, LimiterPlaces
<1> HIDE DEF r
<1>4. WellFormed(r) /\ r.op \notin PluginOps /\ r.seen # "limiter failed"
  BY <1>2, <1>3 DEF WellFormed
<1> QED
  BY <1>2, <1>4 DEF r

LEMMA NextBotGoesOn ==
  ASSUME NEW q, WellFormed(q), q.pc \in MessagePlaces
  PROVE  /\ WellFormed(NextBot(q))
         /\ NextBot(q).pc \notin LimiterPlaces
         /\ NextBot(q).op \notin PluginOps
         /\ NextBot(q).seen # "limiter failed"
<1>a. PICK n : n = q.bots - 1
  OBVIOUS
<1> DEFINE r == [q EXCEPT !.bots = n, !.pc = "lookup"]
<1>1. CASE NextBot(q) = NoRequest
  BY <1>1, NoRequestIsIdle DEF LimiterPlaces, PluginOps
<1>2. CASE NextBot(q) = r
  <2>1. q \in Requests /\ n \in Int
    <3>1. q \in Requests
      BY DEF WellFormed
    <3>2. q.bots \in Int
      BY <3>1 DEF Requests
    <3> HIDE DEF r
    <3> QED
      BY <1>a, <3>1, <3>2
  <2>4. /\ r \in Requests /\ r.pc = "lookup" /\ r.op = q.op /\ r.plugin = q.plugin
        /\ r.user = q.user /\ r.command = q.command /\ r.seen = q.seen
    BY <2>1 DEF Requests, MessagePlaces
  <2> HIDE DEF r
  <2>5. q.pc \notin PluginPlaces /\ q.pc # "idle" /\ "lookup" \notin PluginPlaces \cup LimiterPlaces
    BY DEF PluginPlaces, MessagePlaces, LimiterPlaces
  <2>6. WellFormed(r) /\ r.pc \notin LimiterPlaces /\ r.op \notin PluginOps /\ r.seen # "limiter failed"
    BY <2>4, <2>5 DEF WellFormed
  <2> QED
    BY <1>2, <2>6
<1> QED
  BY <1>a, <1>1, <1>2 DEF NextBot

-----------------------------------------------------------------------------
(* What one step leaves of the invariants *)

\* A thread that is outside of the limiter afterwards, of tables that stay.
LEMMA LimiterFrame ==
  ASSUME EngineTypes, LimiterInv, NEW t \in Threads, NEW r, SetRequest(t, r),
         r.pc \notin LimiterPlaces, r.seen # "limiter failed",
         hits' = hits, recent' = recent, crowded \subseteq crowded'
  PROVE  LimiterInv'
<1> SUFFICES ASSUME NEW u \in Users \ crowded'
             PROVE  /\ Windowed(hits[u], recent[u])
                    /\ recent[u] <= MaxCalls
                    /\ \A v \in Threads : request'[v].user = u => LimiterAgrees(u, v)'
                    /\ \A v1, v2 \in Limiting(u)' : v1 = v2
  BY DEF LimiterInv
<1>1. u \in Users \ crowded
  OBVIOUS
<1>2. \A v \in Threads : request'[v] = IF v = t THEN r ELSE request[v]
  BY RequestBecomes
<1>3. Windowed(hits[u], recent[u]) /\ recent[u] <= MaxCalls
  BY <1>1 DEF LimiterInv
<1>4. ASSUME NEW v \in Threads, request'[v].user = u PROVE LimiterAgrees(u, v)'
  <2>1. CASE v = t
    BY <1>2, <2>1 DEF LimiterAgrees, LimiterPlaces
  <2>2. CASE v # t
    <3>1. request'[v] = request[v] /\ LimiterAgrees(u, v)
      BY <1>1, <1>2, <1>4, <2>2 DEF LimiterInv
    <3> QED
      BY <3>1 DEF LimiterAgrees
  <2> QED
    BY <2>1, <2>2
<1>5. Limiting(u)' \subseteq Limiting(u)
  BY <1>2 DEF Limiting, LimiterPlaces
<1>6. \A v1, v2 \in Limiting(u) : v1 = v2
  BY <1>1 DEF LimiterInv
<1> QED
  BY <1>3, <1>4, <1>5, <1>6

\* A step of a thread that is not, and will not be, concerned with a plugin.
LEMMA OthersOnCourse ==
  ASSUME EngineTypes, NEW t \in Threads, NEW r, SetRequest(t, r), NEW p \in Plugins, OnCourse(p),
         ~OnPlugin(t, p), r.op \in PluginOps => r.plugin # p, records'[p] = records[p],
         r.pc = "unload" =>
           /\ r.table = handlers
           /\ \A u \in Threads \ {t} : OnPlugin(u, p) => request[u].pc \notin {"load", "unload"},
         \A u \in Threads \ {t} : OnPlugin(u, p) /\ request[u].pc = "load" =>
           \A c \in OwnCommands(p) : handlers[c] = p => handlers'[c] = p,
         ServedEverywhere(p) => ServesOwn(handlers', p),
         SilentEverywhere(p) => Silent(handlers', p)
  PROVE  OnCourse(p)'
<1>1. \A u \in Threads : request'[u] = IF u = t THEN r ELSE request[u]
  BY RequestBecomes
<1>2. /\ \A u \in Threads : OnPlugin(u, p)' <=> OnPlugin(u, p)
      /\ \A u \in Threads : OnPlugin(u, p) => u # t /\ request'[u] = request[u]
  BY <1>1 DEF OnPlugin, Busy
<1>3. ServedEverywhere(p) => ServedEverywhere(p)'
  <2> SUFFICES ASSUME ServedEverywhere(p), NEW u \in Threads, request'[u].pc = "unload"
               PROVE  ServesOwn(request'[u].table, p)
    BY DEF ServedEverywhere, ServesOwn
  <2>1. request'[u].table = handlers \/ request'[u] = request[u]
    BY <1>1
  <2> QED
    BY <2>1 DEF ServedEverywhere
<1>4. SilentEverywhere(p) => SilentEverywhere(p)'
  <2> SUFFICES ASSUME SilentEverywhere(p), NEW u \in Threads, request'[u].pc = "unload"
               PROVE  Silent(request'[u].table, p)
    BY DEF SilentEverywhere, Silent
  <2>1. request'[u].table = handlers \/ request'[u] = request[u]
    BY <1>1
  <2> QED
    BY <2>1 DEF SilentEverywhere
<1>5. ASSUME NEW u \in Threads, OnPlugin(u, p)' PROVE Underway(u)'
  <2>1. u # t /\ OnPlugin(u, p) /\ request'[u] = request[u] /\ request[u].plugin = p
    BY <1>2, <1>5 DEF OnPlugin
  <2>2. Underway(u)
    BY <2>1 DEF OnCourse
  <2>3. request[u].pc \in {"load", "unload"} => \A v \in Threads \ {u} : request'[v].pc # "unload"
    BY <1>1, <2>1, <2>2 DEF Underway
  <2>4. request[u].pc = "load" => \A c \in OwnCommands(p) \ request[u].todo : handlers'[c] = p
    BY <2>1, <2>2 DEF Underway
  <2> QED
    BY <1>3, <1>4, <2>1, <2>2, <2>3, <2>4 DEF Underway
<1>6. ASSUME \A u \in Threads : ~OnPlugin(u, p)' PROVE Settled(p)'
  <2>1. Settled(p)
    BY <1>2, <1>6 DEF OnCourse
  <2> QED
    BY <1>3, <1>4, <2>1 DEF Settled
<1>7. \A u, v \in Threads : OnPlugin(u, p)' /\ OnPlugin(v, p)' => u = v
  BY <1>2 DEF OnCourse
<1> QED
  BY <1>5, <1>6, <1>7 DEF OnCourse

\* A message moves; the tables of the plugins do not.
LEMMA TableFrame ==
  ASSUME EngineTypes, TableInv, NEW t \in Threads, NEW r, SetRequest(t, r),
         ~Busy(t), WellFormed(r), r.op \notin PluginOps, UNCHANGED tableVars
  PROVE  TableInv'
<1> SUFFICES ASSUME NEW p \in Plugins \ adrift PROVE OnCourse(p)'
  BY DEF TableInv, tableVars
<1>1. OnCourse(p) /\ ~OnPlugin(t, p) /\ handlers' = handlers /\ records' = records
  BY DEF TableInv, OnPlugin, tableVars
<1>2. (ServedEverywhere(p) => ServesOwn(handlers', p)) /\ (SilentEverywhere(p) => Silent(handlers', p))
  BY <1>1 DEF ServedEverywhere, SilentEverywhere, ServesOwn, Silent
<1>3. r.pc # "unload"
  BY DEF WellFormed, PluginPlaces
<1> QED
  BY <1>1, <1>2, <1>3, OthersOnCourse

\* Steps of a message outside of the limiter.
LEMMA MessageKeepsInv ==
  ASSUME EngineInv, NEW t \in Threads, NEW r, SetRequest(t, r), WellFormed(r),
         r.pc \notin LimiterPlaces, r.op \notin PluginOps, r.seen # "limiter failed", ~Busy(t),
         UNCHANGED <<tableVars, hits, recent, crowded>>
  PROVE  EngineInv'
<1>1. EngineTypes /\ LimiterInv /\ TableInv
  BY DEF EngineInv
<1>2. /\ handlers' \in Tables /\ records' \in [Plugins -> Statuses]
      /\ hits' \in [Users -> Seq({"old", "new"})] /\ recent' \in [Users -> Nat]
  BY <1>1 DEF EngineTypes, tableVars
<1>3. EngineTypes'
  BY <1>1, <1>2, RequestKeepsTypes
<1>4. LimiterInv'
  BY <1>1, LimiterFrame
<1>5. TableInv'
  BY <1>1, TableFrame
<1> QED
  BY <1>3, <1>4, <1>5 DEF EngineInv

LEMMA InMessage ==
  ASSUME EngineInv, NEW t \in Threads, request[t].pc \in MessagePlaces
  PROVE  WellFormed(request[t]) /\ ~Busy(t) /\ request[t].user \in Users
<1>1. WellFormed(request[t])
  BY DEF EngineInv, EngineTypes
<1>2. request[t].pc \notin PluginPlaces
  BY DEF MessagePlaces, LimiterPlaces, PluginPlaces
<1> QED
  BY <1>1, <1>2 DEF WellFormed, Busy

LEMMA MessageStepsKeepInv ==
  ASSUME EngineInv, NEW t \in Threads, Lookup(t) \/ Execute(t) \/ Reply(t)
  PROVE  EngineInv'
<1> DEFINE q == request[t]
<1>1. q.pc \in {"lookup", "execute", "reply"} /\ q.pc \in MessagePlaces
  BY DEF Lookup, Execute, Reply, At, MessagePlaces
<1>2. WellFormed(q) /\ ~Busy(t)
  BY <1>1, InMessage
<1>3. UNCHANGED <<tableVars, hits, recent, crowded>>
  BY DEF Lookup, Execute, Reply
<1>4. ASSUME NEW x \in {"run", "reply"}, SetRequest(t, [q EXCEPT !.pc = x]) PROVE EngineInv'
  <2>1. x \in MessagePlaces /\ x \notin LimiterPlaces
    BY DEF MessagePlaces, LimiterPlaces
  <2>2. PICK r : r = [q EXCEPT !.pc = x]
    OBVIOUS
  <2>3. /\ WellFormed(r) /\ r.pc = x /\ r.op \notin PluginOps /\ r.seen # "limiter failed"
    BY <1>1, <1>2, <2>1, <2>2, MessageGoesOn
  <2> QED
    BY <1>2, <1>3, <1>4, <2>1, <2>2, <2>3, MessageKeepsInv
<1>5. ASSUME SetRequest(t, NextBot(q)) PROVE EngineInv'
  BY <1>1, <1>2, <1>3, <1>5, NextBotGoesOn, MessageKeepsInv
<1>6. ASSUME SetRequest(t, NoRequest) PROVE EngineInv'
  BY <1>2, <1>3, <1>6, NoRequestIsIdle, MessageKeepsInv DEF LimiterPlaces, PluginOps
<1>7. ASSUME SetRequest(t, [q EXCEPT !.pc = "run", !.command = Freeform]) PROVE EngineInv'
  <2> DEFINE r == [q EXCEPT !.pc = "run", !.command = Freeform]
  <2>1. Freeform \in Commands
    BY CommandsAssumption
  <2>2. q \in Requests
    BY <1>2 DEF WellFormed
  <2> HIDE DEF q
  <2>3. /\ r \in Requests /\ r.pc = "run" /\ r.op = q.op /\ r.plugin = q.plugin
        /\ r.user = q.user /\ r.command = Freeform /\ r.seen = q.seen
    BY <2>1, <2>2 DEF Requests, MessagePlaces
  <2> HIDE DEF r
  <2>4. /\ q.pc \notin PluginPlaces /\ q.pc # "idle" /\ "run" \notin PluginPlaces \cup LimiterPlaces
    BY <1>1 DEF PluginPlaces, LimiterPlaces
  <2>5. WellFormed(r) /\ r.pc \notin LimiterPlaces /\ r.op \notin PluginOps /\ r.seen # "limiter failed"
    BY <1>1, <1>2, <2>1, <2>3, <2>4 DEF WellFormed
  <2> QED
    BY <1>2, <1>3, <1>7, <2>5, MessageKeepsInv DEF r, q
<1>8. CASE Lookup(t)
  BY <1>4, <1>5, <1>7, <1>8 DEF Lookup
<1>9. CASE Execute(t)
  BY <1>4, <1>5, <1>9 DEF Execute, MoveTo
<1>10. CASE Reply(t)
  BY <1>5, <1>6, <1>10 DEF Reply
<1> QED
  BY <1>8, <1>9, <1>10

LEMMA SendMessageKeepsInv ==
  ASSUME EngineInv, NEW t \in Threads, NEW u \in Users, NEW form \in {"slash", "mention"},
         NEW c \in Sent, SendMessage(t, u, form, c)
  PROVE  EngineInv'
<1>1. PICK n : n = IF form = "slash" THEN NumBots ELSE 1
  OBVIOUS
<1>2. n \in Int /\ c \in Commands
  BY <1>1, CommandsAssumption
<1>3. PICK q : q = NoRequest
  OBVIOUS
<1>4. q \in Requests /\ q.seen = "none"
  BY <1>3, NoRequestIsIdle DEF WellFormed
<1> DEFINE r == [q EXCEPT !.op = "message", !.pc = "lookup", !.user = u, !.form = form,
                          !.command = c, !.bots = n]
<1>5. /\ r \in Requests /\ r.op = "message" /\ r.pc = "lookup" /\ r.user = u /\ r.command = c
      /\ r.seen = "none"
  BY <1>2, <1>4 DEF Requests, MessagePlaces
<1>6. SetRequest(t, r)
  BY <1>1, <1>3 DEF SendMessage
<1> HIDE DEF r
<1>7. WellFormed(r) /\ r.pc \notin LimiterPlaces /\ r.op \notin PluginOps
  BY <1>2, <1>5 DEF WellFormed, PluginPlaces, PluginOps, LimiterPlaces
<1>8. ~Busy(t)
  <2>1. WellFormed(request[t]) /\ request[t].pc = "idle"
    BY DEF EngineInv, EngineTypes, SendMessage, At
  <2> QED
    BY <2>1 DEF WellFormed, PluginPlaces, Busy
<1> QED
  BY <1>5, <1>6, <1>7, <1>8, MessageKeepsInv DEF SendMessage

-----------------------------------------------------------------------------
(* allow *)

LEMMA LengthIsNat ==
  ASSUME EngineTypes, NEW u \in Users
  PROVE  /\ hits[u] \in Seq({"old", "new"}) /\ Len(hits[u]) \in Nat
         /\ recent[u] \in Nat /\ MaxCalls \in Nat
BY LenProperties, CommandsAssumption DEF EngineTypes

LEMMA AppendedIsWindowed ==
  ASSUME NEW h, NEW n \in Nat, Windowed(h, n)
  PROVE  Windowed(Append(h, "new"), n + 1) /\ n <= Len(h)
<1> DEFINE g == Append(h, "new")
           len == Len(h)
<1>1. h \in Seq({"old", "new"}) /\ len \in Nat
  BY LenProperties DEF Windowed
<1>2. /\ g \in Seq({"old", "new"}) /\ Len(g) = len + 1
      /\ \A i \in 1..len : g[i] = h[i]
      /\ g[len + 1] = "new"
  BY <1>1, AppendProperties
<1>3. PICK k \in n..len : \A i \in 1..len : h[i] = IF i <= len - k THEN "old" ELSE "new"
  BY DEF Windowed
<1> HIDE DEF g, len
<1>4. \A i \in 1..Len(g) : g[i] = IF i <= Len(g) - (k + 1) THEN "old" ELSE "new"
  <2> SUFFICES ASSUME NEW i \in 1..Len(g)
               PROVE  g[i] = IF i <= Len(g) - (k + 1) THEN "old" ELSE "new"
    OBVIOUS
  <2>1. i \in Nat /\ k \in Nat /\ Len(g) - (k + 1) = len - k
    BY <1>1, <1>2
  <2>2. CASE i = len + 1
    <3>1. ~(i <= len - k)
      BY <1>1, <2>1, <2>2
    <3> QED
      BY <1>2, <2>1, <2>2, <3>1
  <2>3. CASE i \in 1..len
    <3>1. g[i] = h[i] /\ h[i] = IF i <= len - k THEN "old" ELSE "new"
      BY <1>2, <1>3, <2>3
    <3> QED
      BY <2>1, <3>1
  <2> QED
    BY <1>1, <1>2, <2>2, <2>3
<1>5. k + 1 \in (n + 1)..Len(g) /\ n <= len
  BY <1>1, <1>2
<1>6. Windowed(g, n + 1)
  BY <1>2, <1>4, <1>5 DEF Windowed
<1> QED
  BY <1>5, <1>6 DEF g, len

LEMMA TailIsWindowed ==
  ASSUME NEW h, NEW n \in Nat, Windowed(h, n), h # << >>, Head(h) = "old"
  PROVE  Windowed(Tail(h), n)
<1> DEFINE g == Tail(h)
           len == Len(h)
<1>1. h \in Seq({"old", "new"}) /\ len \in Nat /\ len # 0
  BY LenProperties, EmptySeq DEF Windowed
<1>2. /\ g \in Seq({"old", "new"}) /\ Len(g) = len - 1
      /\ \A i \in 1..Len(g) : g[i] = h[i + 1]
      /\ h[1] = "old"
  BY <1>1, HeadTailProperties
<1>3. PICK k \in n..len : \A i \in 1..len : h[i] = IF i <= len - k THEN "old" ELSE "new"
  BY DEF Windowed
<1> HIDE DEF g, len
<1>4. k \in n..Len(g)
  <2>1. 1 <= len - k
    BY <1>1, <1>2, <1>3
  <2> QED
    BY <1>1, <1>2, <2>1
<1>5. \A i \in 1..Len(g) : g[i] = IF i <= Len(g) - k THEN "old" ELSE "new"
  <2> SUFFICES ASSUME NEW i \in 1..Len(g)
               PROVE  g[i] = IF i <= Len(g) - k THEN "old" ELSE "new"
    OBVIOUS
  <2>1. /\ i + 1 \in 1..len /\ g[i] = h[i + 1]
        /\ (i + 1 <= len - k <=> i <= Len(g) - k)
    BY <1>1, <1>2, <1>4
  <2>2. h[i + 1] = IF i + 1 <= len - k THEN "old" ELSE "new"
    BY <1>3, <2>1
  <2> QED
    BY <2>1, <2>2
<1>6. Windowed(g, n)
  BY <1>2, <1>4, <1>5 DEF Windowed
<1> QED
  BY <1>6 DEF g

\* The window passes the oldest call in it.
LEMMA PassedIsWindowed ==
  ASSUME NEW h, NEW n \in Nat \ {0}, Windowed(h, n)
  PROVE  LET new == {i \in DOMAIN h : h[i] = "new"}
             g == [h EXCEPT ![CHOOSE i \in new : \A j \in new : i <= j] = "old"] IN
         /\ Windowed(g, n - 1) /\ Windowed(h, n - 1)
         /\ Len(g) = Len(h)
         /\ h # << >> /\ Head(h) = "old" => g # << >> /\ Head(g) = "old"
<1> DEFINE new == {i \in DOMAIN h : h[i] = "new"}
           m == CHOOSE i \in new : \A j \in new : i <= j
           g == [h EXCEPT ![m] = "old"]
           len == Len(h)
<1>1. h \in Seq({"old", "new"}) /\ len \in Nat /\ DOMAIN h = 1..len
  BY LenProperties DEF Windowed
<1>2. PICK k \in n..len : \A i \in 1..len : h[i] = IF i <= len - k THEN "old" ELSE "new"
  BY DEF Windowed
<1>3. k \in Nat \ {0} /\ k <= len
  BY <1>1
<1>4. Windowed(h, n - 1)
  BY <1>1, <1>2, <1>3 DEF Windowed
<1>5. m = len - k + 1
  <2> HIDE DEF len
  <2>1. new = (len - k + 1)..len
    BY <1>1, <1>2, <1>3
  <2> HIDE DEF new
  <2>2. /\ len - k + 1 \in new
        /\ \A j \in new : len - k + 1 <= j
    BY <1>1, <1>3, <2>1
  <2>3. \A i \in new : (\A j \in new : i <= j) => i = len - k + 1
    BY <1>1, <1>3, <2>1, <2>2
  <2> QED
    BY <2>2, <2>3
<1> HIDE DEF m
<1>6. m \in 1..len
  BY <1>1, <1>3, <1>5
<1>7. /\ g \in Seq({"old", "new"}) /\ Len(g) = len /\ DOMAIN g = 1..len
      /\ \A i \in 1..len : g[i] = IF i = m THEN "old" ELSE h[i]
  BY <1>1, <1>6, ExceptSeq
<1> HIDE DEF g, len
<1>8. \A i \in 1..Len(g) : g[i] = IF i <= Len(g) - (k - 1) THEN "old" ELSE "new"
  <2> SUFFICES ASSUME NEW i \in 1..len
               PROVE  g[i] = IF i <= len - (k - 1) THEN "old" ELSE "new"
    BY <1>7
  <2>1. i \in Nat /\ (i <= len - (k - 1) <=> i = m \/ i <= len - k)
    BY <1>1, <1>3, <1>5
  <2>2. /\ g[i] = IF i = m THEN "old" ELSE h[i]
        /\ h[i] = IF i <= len - k THEN "old" ELSE "new"
    BY <1>2, <1>7
  <2> QED
    BY <2>1, <2>2
<1>9. k - 1 \in (n - 1)..Len(g)
  BY <1>1, <1>3, <1>7
<1>10. Windowed(g, n - 1)
  BY <1>7, <1>8, <1>9 DEF Windowed
<1>11. ASSUME h # << >>, Head(h) = "old" PROVE g # << >> /\ Head(g) = "old"
  <2>1. 1 \in 1..len
    BY <1>1, <1>6
  <2>2. h[1] = "old" /\ g[1] = Head(g) /\ g # << >>
    BY <1>1, <1>7, <1>11, <2>1, EmptySeq, HeadTailProperties
  <2>3. g[1] = "old"
    BY <1>7, <2>1, <2>2
  <2> QED
    BY <2>2, <2>3
<1> QED
  BY <1>4, <1>7, <1>10, <1>11 DEF g, m, len

\* A step of the thread whose turn it is, on the deque of its user.
LEMMA TurnKeepsLimiter ==
  ASSUME EngineTypes, LimiterInv, NEW t \in Threads, NEW r, SetRequest(t, r), NEW u \in Users,
         request[t].user = u, r.user = u, request[t].pc \in LimiterPlaces,
         \A v \in Users \ {u} : hits'[v] = hits[v] /\ recent'[v] = recent[v],
         crowded' = crowded,
         u \notin crowded => /\ Windowed(hits'[u], recent'[u])
                             /\ recent'[u] <= MaxCalls
                             /\ LimiterAgrees(u, t)'
  PROVE  LimiterInv'
<1> SUFFICES ASSUME NEW v \in Users \ crowded
             PROVE  /\ Windowed(hits'[v], recent'[v])
                    /\ recent'[v] <= MaxCalls
                    /\ \A w \in Threads : request'[w].user = v => LimiterAgrees(v, w)'
                    /\ \A v1, v2 \in Limiting(v)' : v1 = v2
  BY DEF LimiterInv
<1>1. \A w \in Threads : request'[w] = IF w = t THEN r ELSE request[w]
  BY RequestBecomes
<1>2. /\ Windowed(hits[v], recent[v]) /\ recent[v] <= MaxCalls
      /\ \A w \in Threads : request[w].user = v => LimiterAgrees(v, w)
      /\ \A v1, v2 \in Limiting(v) : v1 = v2
  BY DEF LimiterInv
<1>3. \A w \in Threads : request'[w].user = request[w].user
  BY <1>1
<1>4. Limiting(v)' \subseteq Limiting(v)
  BY <1>1, <1>3 DEF Limiting, LimiterPlaces
<1>5. CASE v # u
  <2>1. hits'[v] = hits[v] /\ recent'[v] = recent[v]
    BY <1>5
  <2>2. ASSUME NEW w \in Threads, request'[w].user = v PROVE LimiterAgrees(v, w)'
    <3>1. w # t /\ request'[w] = request[w] /\ LimiterAgrees(v, w)
      BY <1>1, <1>2, <1>3, <1>5, <2>2
    <3> QED
      BY <2>1, <3>1 DEF LimiterAgrees
  <2> QED
    BY <1>2, <1>4, <2>1, <2>2
<1>6. CASE v = u
  <2>1. ASSUME NEW w \in Threads, request'[w].user = v PROVE LimiterAgrees(v, w)'
    <3>1. CASE w = t
      BY <1>6, <3>1
    <3>2. CASE w # t
      <4>1. request'[w] = request[w] /\ LimiterAgrees(v, w)
        BY <1>1, <1>2, <1>3, <2>1, <3>2
      <4>2. t \in Limiting(v)
        BY <1>6 DEF Limiting, LimiterPlaces
      <4>3. w \notin Limiting(v)
        BY <1>2, <3>2, <4>2
      <4>4. request[w].pc \notin {"pop", "append"}
        BY <1>3, <2>1, <4>3 DEF Limiting
      <4> QED
        BY <4>1, <4>4 DEF LimiterAgrees
    <3> QED
      BY <3>1, <3>2
  <2> QED
    BY <1>2, <1>4, <1>6, <2>1
<1> QED
  BY <1>5, <1>6

LEMMA AllowKeepsInv ==
  ASSUME EngineInv, NEW t \in Threads, Allow(t) PROVE EngineInv'
<1> DEFINE q == request[t]
<1> PICK u : u = q.user
  OBVIOUS
<1>1. EngineTypes /\ LimiterInv /\ TableInv
  BY DEF EngineInv
<1>2. q.pc = "allow" /\ q.pc \in LimiterPlaces /\ q.pc \in MessagePlaces
  BY DEF Allow, At, LimiterPlaces, MessagePlaces
<1>3. WellFormed(q) /\ ~Busy(t) /\ u \in Users
  BY <1>2, InMessage
<1>4. UNCHANGED <<tableVars, hits, recent, crowded>>
  BY DEF Allow
<1>5. PICK x \in {"pop", "reply", "append"} :
        /\ SetRequest(t, [q EXCEPT !.pc = x])
        /\ x = "pop" => hits[u] # << >> /\ Head(hits[u]) = "old"
        /\ x = "append" => ~(Len(hits[u]) >= MaxCalls)
  BY DEF Allow, MoveTo, Full
<1>6. PICK r : r = [q EXCEPT !.pc = x]
  OBVIOUS
<1>7. x \in MessagePlaces
  BY DEF MessagePlaces, LimiterPlaces
<1>8. /\ WellFormed(r) /\ r.pc = x /\ r.user = u /\ r.op \notin PluginOps
      /\ r.seen # "limiter failed" /\ SetRequest(t, r)
  BY <1>2, <1>3, <1>5, <1>6, <1>7, MessageGoesOn
<1>9. EngineTypes'
  BY <1>1, <1>4, <1>8, RequestKeepsTypes DEF EngineTypes, tableVars
<1>10. TableInv'
  BY <1>1, <1>3, <1>4, <1>8, TableFrame
<1>11. LimiterInv'
  <2>1. request'[t] = r
    BY <1>1, <1>8, RequestBecomes
  <2>2. x = "append" => Len(hits[u]) < MaxCalls
    BY <1>1, <1>3, <1>5, LengthIsNat
  <2>3. LimiterAgrees(u, t)'
    BY <1>4, <1>5, <1>8, <2>1, <2>2 DEF LimiterAgrees
  <2>4. u \notin crowded => Windowed(hits[u], recent[u]) /\ recent[u] <= MaxCalls
    BY <1>1, <1>3 DEF LimiterInv
  <2> QED
    BY <1>1, <1>2, <1>3, <1>4, <1>8, <2>3, <2>4, TurnKeepsLimiter
<1> QED
  BY <1>9, <1>10, <1>11 DEF EngineInv

LEMMA AllowPopKeepsInv ==
  ASSUME EngineInv, NEW t \in Threads, AllowPop(t) PROVE EngineInv'
<1> DEFINE q == request[t]
<1> PICK u : u = q.user
  OBVIOUS
<1>1. EngineTypes /\ LimiterInv /\ TableInv
  BY DEF EngineInv
<1>2. q.pc = "pop" /\ q.pc \in LimiterPlaces /\ q.pc \in MessagePlaces
  BY DEF AllowPop, At, LimiterPlaces, MessagePlaces
<1>3. WellFormed(q) /\ ~Busy(t) /\ u \in Users
  BY <1>2, InMessage
<1>4. UNCHANGED <<tableVars, recent, crowded>>
  BY DEF AllowPop
<1>5. u \notin crowded => /\ Windowed(hits[u], recent[u]) /\ recent[u] <= MaxCalls
                         /\ hits[u] # << >> /\ Head(hits[u]) = "old"
  BY <1>1, <1>2, <1>3 DEF LimiterInv, LimiterAgrees
<1>6. hits[u] \in Seq({"old", "new"}) /\ recent[u] \in Nat
  BY <1>1, <1>3, LengthIsNat
<1>7. CASE hits[u] = << >>
  <2>1. PICK z : z = NoRequest
    OBVIOUS
  <2>2. z \in Requests /\ z.op = "none" /\ z.pc = "idle"
    BY <2>1, NoRequestIsIdle DEF WellFormed
  <2>3. PICK w \in Users : w = u
    BY <1>3
  <2> DEFINE r == [z EXCEPT !.seen = "limiter failed", !.user = w]
  <2>4. r \in Requests /\ r.op = "none" /\ r.pc = "idle" /\ r.user = w
    BY <2>2 DEF Requests
  <2>5. SetRequest(t, r) /\ hits' = hits
    BY <1>7, <2>1, <2>3 DEF AllowPop
  <2> HIDE DEF r
  <2>6. WellFormed(r) /\ r.op \notin PluginOps
    BY <2>4 DEF WellFormed, PluginOps, PluginPlaces, MessagePlaces, LimiterPlaces
  <2>7. EngineTypes'
    BY <1>1, <1>4, <2>5, <2>6, RequestKeepsTypes DEF EngineTypes, tableVars
  <2>8. TableInv'
    BY <1>1, <1>3, <1>4, <2>5, <2>6, TableFrame
  <2>9. LimiterInv'
    BY <1>1, <1>2, <1>3, <1>4, <1>5, <1>7, <2>3, <2>4, <2>5, TurnKeepsLimiter
  <2> QED
    BY <2>7, <2>8, <2>9 DEF EngineInv
<1>8. CASE hits[u] # << >>
  <2>1. PICK r : r = [q EXCEPT !.pc = "allow"]
    OBVIOUS
  <2>2. hits' = [hits EXCEPT ![u] = Tail(hits[u])] /\ SetRequest(t, r)
    BY <1>8, <2>1 DEF AllowPop, MoveTo
  <2>3. "allow" \in MessagePlaces
    BY DEF MessagePlaces, LimiterPlaces
  <2>4. /\ WellFormed(r) /\ r.pc = "allow" /\ r.user = u /\ r.op \notin PluginOps
        /\ r.seen # "limiter failed"
    BY <1>2, <1>3, <2>1, <2>3, MessageGoesOn
  <2>5. Tail(hits[u]) \in Seq({"old", "new"})
    BY <1>6, <1>8, HeadTailProperties
  <2>6. /\ hits' \in [Users -> Seq({"old", "new"})]
        /\ hits'[u] = Tail(hits[u])
        /\ \A v \in Users \ {u} : hits'[v] = hits[v]
    BY <1>1, <1>3, <2>2, <2>5 DEF EngineTypes
  <2>7. EngineTypes'
    BY <1>1, <1>4, <2>2, <2>4, <2>6, RequestKeepsTypes DEF EngineTypes, tableVars
  <2>8. TableInv'
    BY <1>1, <1>3, <1>4, <2>2, <2>4, TableFrame
  <2>9. LimiterAgrees(u, t)'
    <3>1. request'[t] = r
      BY <1>1, <2>2, RequestBecomes
    <3> QED
      BY <2>4, <3>1 DEF LimiterAgrees
  <2>10. u \notin crowded => Windowed(hits'[u], recent'[u]) /\ recent'[u] <= MaxCalls
    BY <1>4, <1>5, <1>6, <2>6, TailIsWindowed
  <2>11. LimiterInv'
    BY <1>1, <1>2, <1>3, <1>4, <2>2, <2>4, <2>6, <2>9, <2>10, TurnKeepsLimiter
  <2> QED
    BY <2>7, <2>8, <2>11 DEF EngineInv
<1> QED
  BY <1>7, <1>8

LEMMA AllowAppendKeepsInv ==
  ASSUME EngineInv, NEW t \in Threads, AllowAppend(t) PROVE EngineInv'
<1> DEFINE q == request[t]
<1> PICK u : u = q.user
  OBVIOUS
<1>1. EngineTypes /\ LimiterInv /\ TableInv
  BY DEF EngineInv
<1>2. q.pc = "append" /\ q.pc \in LimiterPlaces /\ q.pc \in MessagePlaces
  BY DEF AllowAppend, At, LimiterPlaces, MessagePlaces
<1>3. WellFormed(q) /\ ~Busy(t) /\ u \in Users
  BY <1>2, InMessage
<1>4. UNCHANGED <<tableVars, crowded>>
  BY DEF AllowAppend
<1>5. u \notin crowded => Windowed(hits[u], recent[u]) /\ Len(hits[u]) < MaxCalls
  BY <1>1, <1>2, <1>3 DEF LimiterInv, LimiterAgrees
<1>6. /\ hits[u] \in Seq({"old", "new"}) /\ Len(hits[u]) \in Nat
      /\ recent[u] \in Nat /\ MaxCalls \in Nat
  BY <1>1, <1>3, LengthIsNat
<1>7. PICK r : r = [q EXCEPT !.pc = "execute"]
  OBVIOUS
<1>8. "execute" \in MessagePlaces
  BY DEF MessagePlaces
<1>9. /\ WellFormed(r) /\ r.pc = "execute" /\ r.user = u /\ r.op \notin PluginOps
      /\ r.seen # "limiter failed"
  BY <1>2, <1>3, <1>7, <1>8, MessageGoesOn
<1>10. /\ SetRequest(t, r)
       /\ hits' = [hits EXCEPT ![u] = Append(hits[u], "new")]
       /\ recent' = [recent EXCEPT ![u] = recent[u] + 1]
  BY <1>7 DEF AllowAppend, MoveTo
<1>11. Append(hits[u], "new") \in Seq({"old", "new"}) /\ recent[u] + 1 \in Nat
  BY <1>6, AppendProperties
<1>12. /\ hits' \in [Users -> Seq({"old", "new"})]
       /\ hits'[u] = Append(hits[u], "new")
       /\ \A v \in Users \ {u} : hits'[v] = hits[v]
  BY <1>1, <1>3, <1>10, <1>11 DEF EngineTypes
<1>13. /\ recent' \in [Users -> Nat]
       /\ recent'[u] = recent[u] + 1
       /\ \A v \in Users \ {u} : recent'[v] = recent[v]
  BY <1>1, <1>3, <1>10, <1>11 DEF EngineTypes
<1>14. EngineTypes'
  BY <1>1, <1>4, <1>9, <1>10, <1>12, <1>13, RequestKeepsTypes DEF EngineTypes, tableVars
<1>15. TableInv'
  BY <1>1, <1>3, <1>4, <1>9, <1>10, TableFrame
<1>16. LimiterAgrees(u, t)'
  <2>1. request'[t] = r
    BY <1>1, <1>10, RequestBecomes
  <2> QED
    BY <1>9, <2>1 DEF LimiterAgrees
<1>17. ASSUME u \notin crowded PROVE Windowed(hits'[u], recent'[u]) /\ recent'[u] <= MaxCalls
  <2>1. Windowed(Append(hits[u], "new"), recent[u] + 1) /\ recent[u] <= Len(hits[u])
    BY <1>5, <1>6, <1>17, AppendedIsWindowed
  <2>2. recent[u] + 1 <= MaxCalls
    BY <1>5, <1>6, <1>17, <2>1
  <2> QED
    BY <1>12, <1>13, <2>1, <2>2
<1>18. LimiterInv'
  BY <1>1, <1>2, <1>3, <1>4, <1>9, <1>10, <1>12, <1>13, <1>16, <1>17, TurnKeepsLimiter
<1> QED
  BY <1>14, <1>15, <1>18 DEF EngineInv

\* The first of a user's commands enters the limiter, or they crowd it.
LEMMA RunCommandKeepsInv ==
  ASSUME EngineInv, NEW t \in Threads, RunCommand(t) PROVE EngineInv'
<1> DEFINE q == request[t]
<1> PICK u : u = q.user
  OBVIOUS
<1>1. EngineTypes /\ LimiterInv /\ TableInv
  BY DEF EngineInv
<1>2. q.pc = "run" /\ q.pc \in MessagePlaces
  BY DEF RunCommand, MessagePlaces
<1>3. WellFormed(q) /\ ~Busy(t) /\ u \in Users
  BY <1>2, InMessage
<1>4. UNCHANGED <<tableVars, hits, recent>>
  BY DEF RunCommand
<1>5. PICK x \in {"reply", "allow"} :
        /\ SetRequest(t, [q EXCEPT !.pc = x])
        /\ x = "reply" => crowded' = crowded
        /\ x = "allow" => crowded' = IF Limiting(u) = {} THEN crowded ELSE crowded \cup {u}
  BY DEF RunCommand, MoveTo
<1>6. PICK r : r = [q EXCEPT !.pc = x]
  OBVIOUS
<1>7. x \in MessagePlaces
  BY DEF MessagePlaces, LimiterPlaces
<1>8. /\ WellFormed(r) /\ r.pc = x /\ r.user = u /\ r.op \notin PluginOps
      /\ r.seen # "limiter failed" /\ SetRequest(t, r)
  BY <1>2, <1>3, <1>5, <1>6, <1>7, MessageGoesOn
<1>9. EngineTypes'
  BY <1>1, <1>4, <1>8, RequestKeepsTypes DEF EngineTypes, tableVars
<1>10. TableInv'
  BY <1>1, <1>3, <1>4, <1>8, TableFrame
<1>11. LimiterInv'
  <2>1. crowded \subseteq crowded'
    BY <1>5
  <2>2. \A w \in Threads : request'[w] = IF w = t THEN r ELSE request[w]
    BY <1>1, <1>8, RequestBecomes
  <2> SUFFICES ASSUME NEW v \in Users \ crowded'
               PROVE  /\ Windowed(hits[v], recent[v])
                      /\ recent[v] <= MaxCalls
                      /\ \A w \in Threads : request'[w].user = v => LimiterAgrees(v, w)'
                      /\ \A v1, v2 \in Limiting(v)' : v1 = v2
    BY <1>4 DEF LimiterInv
  <2>3. /\ Windowed(hits[v], recent[v]) /\ recent[v] <= MaxCalls
        /\ \A w \in Threads : request[w].user = v => LimiterAgrees(v, w)
        /\ \A v1, v2 \in Limiting(v) : v1 = v2
    BY <1>1, <2>1 DEF LimiterInv
  <2>4. ASSUME NEW w \in Threads, request'[w].user = v PROVE LimiterAgrees(v, w)'
    <3>1. CASE w = t
      <4>1. request'[w] = r
        BY <2>2, <3>1
      <4>2. r.seen # "limiter failed" /\ r.pc # "pop" /\ r.pc # "append"
        BY <1>8
      <4> QED
        BY <4>1, <4>2 DEF LimiterAgrees
    <3>2. CASE w # t
      <4>1. request'[w] = request[w] /\ LimiterAgrees(v, w)
        BY <2>2, <2>3, <2>4, <3>2
      <4> QED
        BY <1>4, <4>1 DEF LimiterAgrees
    <3> QED
      BY <3>1, <3>2
  <2>5. CASE v = u /\ x = "allow"
    <3>1. Limiting(u) = {}
      BY <1>5, <2>5
    <3>2. Limiting(u)' \subseteq {t}
      BY <2>2, <3>1 DEF Limiting
    <3> QED
      BY <2>3, <2>4, <2>5, <3>2
  <2>6. CASE ~(v = u /\ x = "allow")
    <3>1. t \notin Limiting(v)'
      BY <1>8, <2>2, <2>6 DEF Limiting
    <3>2. Limiting(v)' \subseteq Limiting(v)
      BY <2>2, <3>1 DEF Limiting
    <3> QED
      BY <2>3, <2>4, <3>2
  <2> QED
    BY <2>5, <2>6
<1> QED
  BY <1>9, <1>10, <1>11 DEF EngineInv

LEMMA WindowPassesKeepsInv ==
  ASSUME EngineInv, NEW u \in Users, WindowPasses(u), CountInv' PROVE EngineInv'
<1>1. EngineTypes /\ LimiterInv /\ TableInv
  BY DEF EngineInv
<1> DEFINE new == {i \in DOMAIN hits[u] : hits[u][i] = "new"}
           m == CHOOSE i \in new : \A j \in new : i <= j
           g == [hits[u] EXCEPT ![m] = "old"]
<1>2. /\ recent[u] > 0 /\ recent' = [recent EXCEPT ![u] = recent[u] - 1]
      /\ hits' = hits \/ hits' = [hits EXCEPT ![u] = g]
      /\ UNCHANGED <<tableVars, request>>
      /\ crowded' = IF recent[u] = 1 /\ \A t \in Threads : request[t].user # u
                    THEN crowded \ {u} ELSE crowded
  BY DEF WindowPasses
<1>3. recent[u] \in Nat \ {0} /\ MaxCalls \in Nat /\ hits[u] \in Seq({"old", "new"})
  BY <1>1, <1>2, LengthIsNat
<1>4. /\ recent' \in [Users -> Nat] /\ recent'[u] = recent[u] - 1
      /\ \A v \in Users \ {u} : recent'[v] = recent[v]
  BY <1>1, <1>2, <1>3 DEF EngineTypes
<1>5. g \in Seq({"old", "new"})
  <2> HIDE DEF m
  <2>1. CASE m \in DOMAIN hits[u]
    BY <1>3, <2>1, ExceptSeq
  <2>2. CASE m \notin DOMAIN hits[u]
    <3>1. hits[u] = [i \in DOMAIN hits[u] |-> hits[u][i]]
      BY <1>3, LenProperties
    <3>2. g = hits[u]
      BY <2>2, <3>1
    <3> QED
      BY <1>3, <3>2
  <2> QED
    BY <2>1, <2>2
<1>6. ASSUME u \notin crowded
      PROVE  /\ Windowed(g, recent[u] - 1) /\ Windowed(hits[u], recent[u] - 1)
             /\ Len(g) = Len(hits[u])
             /\ hits[u] # << >> /\ Head(hits[u]) = "old" => g # << >> /\ Head(g) = "old"
  <2>1. Windowed(hits[u], recent[u])
    BY <1>1, <1>6 DEF LimiterInv
  <2> QED
    BY <1>3, <2>1, PassedIsWindowed
<1> HIDE DEF g
<1>7. /\ hits' \in [Users -> Seq({"old", "new"})]
      /\ hits'[u] \in {hits[u], g}
      /\ \A v \in Users \ {u} : hits'[v] = hits[v]
  BY <1>1, <1>2, <1>5 DEF EngineTypes
<1>8. EngineTypes'
  BY <1>1, <1>2, <1>4, <1>7 DEF EngineTypes, tableVars, WellFormed
<1>9. TableInv'
  BY <1>1, <1>2 DEF TableInv, tableVars, OnCourse, OnPlugin, Busy, Underway, Settled,
                    ServedEverywhere, SilentEverywhere, ServesOwn, Silent
<1>10. LimiterInv'
  <2> SUFFICES ASSUME NEW v \in Users \ crowded'
               PROVE  /\ Windowed(hits'[v], recent'[v])
                      /\ recent'[v] <= MaxCalls
                      /\ \A w \in Threads : request[w].user = v => LimiterAgrees(v, w)'
                      /\ \A v1, v2 \in Limiting(v) : v1 = v2
    BY <1>2 DEF LimiterInv, Limiting
  <2>a. CASE v \in crowded
    <3>1. v = u /\ recent[u] = 1 /\ \A t \in Threads : request[t].user # u
      BY <1>2, <2>a
    <3>2. recent'[u] = 0 /\ Windowed(hits'[u], 0)
      <4>1. PICK k \in Nat, lost \in Nat : CountedAs(u, k, lost)'
        BY DEF CountInv
      <4>2. Shape(hits'[u], k) /\ k \in 0..Len(hits'[u])
        BY <4>1 DEF CountedAs, Shape
      <4>3. Windowed(hits'[u], 0)
        BY <4>2 DEF Shape, Windowed
      <4>4. recent'[u] = 0
        BY <1>4, <3>1
      <4> QED
        BY <4>3, <4>4
    <3> QED
      BY <1>3, <3>1, <3>2 DEF Limiting
  <2> SUFFICES ASSUME v \notin crowded
               PROVE  /\ Windowed(hits'[v], recent'[v])
                      /\ recent'[v] <= MaxCalls
                      /\ \A w \in Threads : request[w].user = v => LimiterAgrees(v, w)'
                      /\ \A v1, v2 \in Limiting(v) : v1 = v2
    BY <2>a
  <2>1. /\ Windowed(hits[v], recent[v]) /\ recent[v] <= MaxCalls
        /\ \A w \in Threads : request[w].user = v => LimiterAgrees(v, w)
        /\ \A v1, v2 \in Limiting(v) : v1 = v2
    BY <1>1 DEF LimiterInv
  <2>2. CASE v # u
    <3>1. hits'[v] = hits[v] /\ recent'[v] = recent[v] /\ request' = request
      BY <1>2, <1>4, <1>7, <2>2
    <3> QED
      BY <2>1, <3>1 DEF LimiterAgrees
  <2>3. CASE v = u
    <3>1. Windowed(hits'[u], recent'[u]) /\ recent'[u] <= MaxCalls
      BY <1>3, <1>4, <1>6, <1>7, <2>1, <2>3
    <3>2. /\ Len(hits'[u]) = Len(hits[u])
          /\ hits[u] # << >> /\ Head(hits[u]) = "old" => hits'[u] # << >> /\ Head(hits'[u]) = "old"
      BY <1>6, <1>7, <2>3
    <3>3. \A w \in Threads : request[w].user = u => LimiterAgrees(u, w)'
      BY <1>2, <2>1, <2>3, <3>2 DEF LimiterAgrees
    <3> QED
      BY <2>1, <2>3, <3>1, <3>3
  <2> QED
    BY <2>2, <2>3
<1> QED
  BY <1>8, <1>9, <1>10 DEF EngineInv

-----------------------------------------------------------------------------
(* How far a crowd may overshoot *)

LEMMA FurtherIsNat == Further \in Nat
<1>1. Cardinality(Threads) \in Nat /\ Cardinality(Threads) # 0
  BY CommandsAssumption, FS_CardinalityType, FS_EmptySet
<1> QED
  BY <1>1 DEF Further

LEMMA SetOfThreads ==
  ASSUME NEW S \in SUBSET Threads
  PROVE  IsFiniteSet(S) /\ Cardinality(S) \in Nat /\ Cardinality(S) <= Further + 1
<1>1. IsFiniteSet(S) /\ Cardinality(S) <= Cardinality(Threads)
  BY CommandsAssumption, FS_Subset
<1>2. Cardinality(S) \in Nat /\ Cardinality(Threads) \in Nat
  BY <1>1, CommandsAssumption, FS_CardinalityType
<1> QED
  BY <1>1, <1>2 DEF Further

LEMMA SomeThreads ==
  ASSUME NEW u
  PROVE  /\ IsFiniteSet(Appending(u)) /\ Cardinality(Appending(u)) \in Nat
         /\ Cardinality(Appending(u)) <= Further + 1
         /\ IsFiniteSet(Popping(u)) /\ Cardinality(Popping(u)) \in Nat
         /\ Cardinality(Popping(u)) <= Further + 1
BY SetOfThreads DEF Appending, Popping

LEMMA ThreadMoves ==
  ASSUME EngineTypes, NEW t \in Threads, NEW r, SetRequest(t, r), NEW v
  PROVE  /\ Appending(v)' = IF r.user = v /\ r.pc = "append" THEN Appending(v) \cup {t}
                            ELSE Appending(v) \ {t}
         /\ Popping(v)' = IF r.user = v /\ r.pc = "pop" THEN Popping(v) \cup {t}
                          ELSE Popping(v) \ {t}
<1>1. \A w \in Threads : request'[w] = IF w = t THEN r ELSE request[w]
  BY RequestBecomes
<1> QED
  BY <1>1 DEF Appending, Popping

\* Nothing is lost where nobody comes to pop or to append.
LEMMA CountFrame ==
  ASSUME NEW v, NEW k \in Nat, NEW lost \in Nat, CountedAs(v, k, lost), MaxCalls \in Nat,
         hits'[v] = hits[v], recent'[v] = recent[v],
         Appending(v)' \subseteq Appending(v), Popping(v)' \subseteq Popping(v)
  PROVE  CountedAs(v, k, lost)'
<1> DEFINE A == Appending(v)
           B == Appending(v)'
           P == Popping(v)
           Q == Popping(v)'
<1>1. Cardinality(B) <= Cardinality(A) /\ Cardinality(Q) <= Cardinality(P)
  BY SomeThreads, FS_Subset
<1>2. Cardinality(A) \in Nat /\ Cardinality(P) \in Nat
  BY SomeThreads
<1>3. IsFiniteSet(B) /\ IsFiniteSet(Q)
  BY SomeThreads, FS_Subset
<1>4. Cardinality(B) \in Nat /\ Cardinality(Q) \in Nat
  BY <1>3, FS_CardinalityType
<1>5. PICK b \in Nat, q \in Nat : b = Cardinality(B) /\ q = Cardinality(Q)
  BY <1>4
<1>6. PICK h : h = hits[v]
  OBVIOUS
<1>7. Len(h) \in Nat /\ Further \in Nat
  BY <1>6, LengthIsNat, FurtherIsNat DEF CountedAs, Shape
<1>8. k = Len(h) => lost + q <= Further
  BY <1>1, <1>2, <1>5, <1>6, <1>7 DEF CountedAs
<1>9. Len(h) + b <= MaxCalls + Further
  BY <1>1, <1>2, <1>5, <1>6, <1>7 DEF CountedAs
<1> QED
  BY <1>5, <1>6, <1>8, <1>9 DEF CountedAs

\* A step of a thread of user u is none of the others' business.
LEMMA OthersCounted ==
  ASSUME EngineTypes, CountInv, NEW u \in Users, NEW t \in Threads, NEW r, SetRequest(t, r),
         r.pc \in {"pop", "append"} => r.user = u,
         \A v \in Users \ {u} : hits'[v] = hits[v] /\ recent'[v] = recent[v],
         \E k, lost \in Nat : CountedAs(u, k, lost)'
  PROVE  CountInv'
<1> SUFFICES ASSUME NEW v \in Users \ {u} PROVE \E k, lost \in Nat : CountedAs(v, k, lost)'
  BY DEF CountInv
<1>1. Appending(v)' \subseteq Appending(v) /\ Popping(v)' \subseteq Popping(v)
  BY ThreadMoves
<1>2. PICK k \in Nat, lost \in Nat : CountedAs(v, k, lost)
  BY DEF CountInv
<1> QED
  BY <1>1, <1>2, CountFrame, CommandsAssumption

LEMMA AsideKeepsCount ==
  ASSUME EngineTypes, CountInv, NEW t \in Threads, NEW r, SetRequest(t, r),
         r.pc \notin {"pop", "append"}, hits' = hits, recent' = recent
  PROVE  CountInv'
<1> SUFFICES ASSUME NEW v \in Users PROVE \E k, lost \in Nat : CountedAs(v, k, lost)'
  BY DEF CountInv
<1>1. Appending(v)' \subseteq Appending(v) /\ Popping(v)' \subseteq Popping(v)
  BY ThreadMoves
<1>2. PICK k \in Nat, lost \in Nat : CountedAs(v, k, lost)
  BY DEF CountInv
<1> QED
  BY <1>1, <1>2, CountFrame, CommandsAssumption

LEMMA MovesAside ==
  ASSUME EngineTypes, NEW t \in Threads, NEW x, MoveTo(t, x), x \notin {"pop", "append"}
  PROVE  \E r : SetRequest(t, r) /\ r.pc \notin {"pop", "append"}
<1> DEFINE r == [request[t] EXCEPT !.pc = x]
<1>1. request[t] \in Requests
  BY DEF EngineTypes, WellFormed
<1>2. r.pc = x
  BY <1>1 DEF Requests
<1>3. SetRequest(t, r)
  BY DEF MoveTo
<1> HIDE DEF r
<1> QED
  BY <1>2, <1>3

LEMMA PlaceOf ==
  ASSUME EngineTypes, NEW t \in Threads, NEW x
  PROVE  [request[t] EXCEPT !.pc = x].pc = x /\ [request[t] EXCEPT !.pc = x].user = request[t].user
<1>1. request[t] \in Requests
  BY DEF EngineTypes, WellFormed
<1> QED
  BY <1>1 DEF Requests

LEMMA NextBotAside ==
  ASSUME EngineTypes, NEW t \in Threads
  PROVE  NextBot(request[t]).pc \notin {"pop", "append"}
<1>1. request[t] \in Requests
  BY DEF EngineTypes, WellFormed
<1>2. [request[t] EXCEPT !.bots = @ - 1, !.pc = "lookup"].pc = "lookup"
  BY <1>1 DEF Requests
<1> QED
  BY <1>2, NoRequestIsIdle DEF NextBot

LEMMA MessageStepsKeepCount ==
  ASSUME EngineInv, CountInv, NEW t \in Threads,
         \/ \E u \in Users, form \in {"slash", "mention"}, c \in Sent : SendMessage(t, u, form, c)
         \/ Lookup(t) \/ RunCommand(t) \/ Execute(t) \/ Reply(t)
  PROVE  CountInv'
<1> DEFINE q == request[t]
<1>1. EngineTypes /\ q \in Requests
  BY DEF EngineInv, EngineTypes, WellFormed
<1>2. PICK r : SetRequest(t, r) /\ r.pc \notin {"pop", "append"}
  <2>1. CASE \E u \in Users, form \in {"slash", "mention"}, c \in Sent : SendMessage(t, u, form, c)
    <3>1. PICK u \in Users, form \in {"slash", "mention"}, c \in Sent : SendMessage(t, u, form, c)
      BY <2>1
    <3>2. PICK bots : bots = IF form = "slash" THEN NumBots ELSE 1
      OBVIOUS
    <3>3. SetRequest(t, [NoRequest EXCEPT !.op = "message", !.pc = "lookup", !.user = u,
                                          !.form = form, !.command = c, !.bots = bots])
      BY <3>1, <3>2 DEF SendMessage
    <3>4. [NoRequest EXCEPT !.op = "message", !.pc = "lookup", !.user = u,
                            !.form = form, !.command = c, !.bots = bots].pc = "lookup"
      BY DEF NoRequest
    <3> QED
      BY <3>3, <3>4
  <2>2. CASE Lookup(t)
    <3>1. \/ SetRequest(t, [q EXCEPT !.pc = "run"])
          \/ SetRequest(t, [q EXCEPT !.pc = "run", !.command = Freeform])
          \/ SetRequest(t, NextBot(q))
      BY <2>2 DEF Lookup
    <3>2. /\ [q EXCEPT !.pc = "run"].pc = "run"
          /\ [q EXCEPT !.pc = "run", !.command = Freeform].pc = "run"
      BY <1>1 DEF Requests
    <3> QED
      BY <1>1, <3>1, <3>2, NextBotAside
  <2>3. CASE RunCommand(t) \/ Execute(t)
    <3>1. MoveTo(t, "reply") \/ MoveTo(t, "allow") \/ SetRequest(t, NextBot(q))
      BY <2>3 DEF RunCommand, Execute
    <3> QED
      BY <1>1, <3>1, MovesAside, NextBotAside
  <2>4. CASE Reply(t)
    <3>1. SetRequest(t, NextBot(q)) \/ SetRequest(t, NoRequest)
      BY <2>4 DEF Reply
    <3> QED
      BY <1>1, <3>1, NoRequestIsIdle, NextBotAside
  <2> QED
    BY <2>1, <2>2, <2>3, <2>4
<1>3. hits' = hits /\ recent' = recent
  BY DEF SendMessage, Lookup, RunCommand, Execute, Reply
<1> QED
  BY <1>1, <1>2, <1>3, AsideKeepsCount

LEMMA PluginStepsKeepCount ==
  ASSUME EngineInv, CountInv, NEW t \in Threads,
         \/ \E p \in Plugins : Install(t, p) \/ Uninstall(t, p)
         \/ LoadCommand(t) \/ UnloadRebind(t)
         \/ ReadRecord(t) \/ CommitRecord(t) \/ CommitFails(t)
  PROVE  CountInv'
<1> DEFINE q == request[t]
<1>1. EngineTypes /\ q \in Requests
  BY DEF EngineInv, EngineTypes, WellFormed
<1>2. PICK r : SetRequest(t, r) /\ r.pc \notin {"pop", "append"}
  <2>1. ASSUME NEW p \in Plugins, Install(t, p) PROVE \E r : SetRequest(t, r) /\ r.pc \notin {"pop", "append"}
    <3>1. PICK pc \in {"load", "record"} : pc = IF CommandsOf[p] = {} THEN "record" ELSE "load"
      OBVIOUS
    <3> DEFINE r == [[NoRequest EXCEPT !.pc = pc, !.todo = CommandsOf[p]]
                       EXCEPT !.op = "install", !.plugin = p]
    <3>2. SetRequest(t, r)
      BY <2>1, <3>1 DEF Install, Begin
    <3>3. r.pc = pc
      BY DEF NoRequest
    <3> QED
      BY <3>1, <3>2, <3>3
  <2>2. ASSUME NEW p \in Plugins, Uninstall(t, p) PROVE \E r : SetRequest(t, r) /\ r.pc \notin {"pop", "append"}
    <3> DEFINE r == [[NoRequest EXCEPT !.pc = "unload", !.table = handlers]
                       EXCEPT !.op = "uninstall", !.plugin = p]
    <3>1. SetRequest(t, r)
      BY <2>2 DEF Uninstall, Begin
    <3>2. r.pc = "unload"
      BY DEF NoRequest
    <3> QED
      BY <3>1, <3>2
  <2>3. CASE LoadCommand(t)
    <3>1. PICK c \in q.todo : \/ MoveTo(t, "record")
                              \/ SetRequest(t, [q EXCEPT !.todo = q.todo \ {c}])
      BY <2>3 DEF LoadCommand
    <3>2. q.pc = "load"
      BY <2>3 DEF LoadCommand
    <3> DEFINE r == [q EXCEPT !.todo = q.todo \ {c}]
    <3>3. r.pc = q.pc
      BY <1>1 DEF Requests
    <3>4. SetRequest(t, r) => \E z : SetRequest(t, z) /\ z.pc \notin {"pop", "append"}
      <4> HIDE DEF r
      <4> QED
        BY <3>2, <3>3
    <3> QED
      BY <1>1, <3>1, <3>4, MovesAside
  <2>4. CASE UnloadRebind(t) \/ CommitRecord(t) \/ CommitFails(t)
    <3>1. MoveTo(t, "record") \/ SetRequest(t, NoRequest)
      BY <2>4 DEF UnloadRebind, CommitRecord, CommitFails
    <3> QED
      BY <1>1, <3>1, MovesAside, NoRequestIsIdle
  <2>5. CASE ReadRecord(t)
    <3>1. \/ SetRequest(t, [q EXCEPT !.pc = "commit", !.seen = records[q.plugin]])
          \/ SetRequest(t, NoRequest)
      BY <2>5 DEF ReadRecord
    <3>2. [q EXCEPT !.pc = "commit", !.seen = records[q.plugin]].pc = "commit"
      BY <1>1 DEF Requests
    <3> QED
      BY <3>1, <3>2, NoRequestIsIdle
  <2> QED
    BY <2>1, <2>2, <2>3, <2>4, <2>5
<1>3. hits' = hits /\ recent' = recent
  BY DEF Install, Uninstall, Begin, LoadCommand, UnloadRebind, ReadRecord, CommitRecord, CommitFails
<1> QED
  BY <1>1, <1>2, <1>3, AsideKeepsCount

\* The deque and the calls of a user, in a form the provers take.
LEMMA CountOf ==
  ASSUME EngineInv, CountInv, NEW u \in Users
  PROVE  \E k, lost, len, a, p \in Nat :
           /\ CountedAs(u, k, lost) /\ len = Len(hits[u]) /\ k <= len
           /\ a = Cardinality(Appending(u)) /\ p = Cardinality(Popping(u))
           /\ a <= Further + 1 /\ p <= Further + 1
           /\ hits[u] \in Seq({"old", "new"})
           /\ \A i \in 1..len : hits[u][i] = IF i <= len - k THEN "old" ELSE "new"
           /\ recent[u] = k + lost
           /\ lost > 0 => k = len
           /\ k = len => lost + p <= Further
           /\ len + a <= MaxCalls + Further
<1>1. PICK k \in Nat, lost \in Nat : CountedAs(u, k, lost)
  BY DEF CountInv
<1>2. hits[u] \in Seq({"old", "new"}) /\ k \in 0..Len(hits[u])
  BY <1>1 DEF CountedAs, Shape
<1>3. PICK len \in Nat : len = Len(hits[u])
  BY <1>2, LengthIsNat
<1>4. PICK a \in Nat, p \in Nat : /\ a = Cardinality(Appending(u)) /\ p = Cardinality(Popping(u))
                                  /\ a <= Further + 1 /\ p <= Further + 1
  BY SomeThreads
<1>5. k <= len
  BY <1>2, <1>3
<1> QED
  BY <1>1, <1>2, <1>3, <1>4, <1>5 DEF CountedAs, Shape

LEMMA AllowKeepsCount ==
  ASSUME EngineInv, CountInv, NEW t \in Threads, Allow(t) PROVE CountInv'
<1> DEFINE q == request[t]
<1>1. EngineTypes /\ MaxCalls \in Nat /\ Further \in Nat
  BY CommandsAssumption, FurtherIsNat DEF EngineInv
<1>2. PICK u \in Users : u = q.user
  <2>1. q.pc \in MessagePlaces
    BY DEF Allow, At, MessagePlaces, LimiterPlaces
  <2> QED
    BY <2>1, InMessage
<1>3. PICK k, lost, len, a, p \in Nat :
        /\ CountedAs(u, k, lost) /\ len = Len(hits[u]) /\ k <= len
        /\ a = Cardinality(Appending(u)) /\ p = Cardinality(Popping(u))
        /\ a <= Further + 1 /\ p <= Further + 1
        /\ hits[u] \in Seq({"old", "new"})
        /\ \A i \in 1..len : hits[u][i] = IF i <= len - k THEN "old" ELSE "new"
        /\ recent[u] = k + lost
        /\ lost > 0 => k = len
        /\ k = len => lost + p <= Further
        /\ len + a <= MaxCalls + Further
  BY CountOf
<1>4. /\ q.pc = "allow" /\ hits' = hits /\ recent' = recent
      /\ \/ hits[u] # << >> /\ Head(hits[u]) = "old" /\ MoveTo(t, "pop")
         \/ MoveTo(t, "reply")
         \/ ~Full(u) /\ MoveTo(t, "append")
  BY <1>2 DEF Allow, At
<1>5. CASE hits[u] # << >> /\ Head(hits[u]) = "old" /\ MoveTo(t, "pop")
  <2>1. len # 0 /\ hits[u][1] = "old"
    BY <1>3, <1>5, EmptySeq
  <2>2. k # len
    BY <1>3, <2>1
  <2> DEFINE r == [q EXCEPT !.pc = "pop"]
  <2>3. SetRequest(t, r) /\ r.pc = "pop" /\ r.user = u
    BY <1>1, <1>2, <1>5, PlaceOf DEF MoveTo
  <2> HIDE DEF r
  <2>4. Appending(u)' \subseteq Appending(u)
    BY <1>1, <2>3, ThreadMoves
  <2>5. Cardinality(Appending(u)') <= a /\ Cardinality(Appending(u)') \in Nat
    BY <1>3, <2>4, SomeThreads, FS_Subset, FS_CardinalityType
  <2>6. CountedAs(u, k, lost)'
    BY <1>1, <1>3, <1>4, <2>2, <2>5 DEF CountedAs, Shape
  <2> QED
    BY <1>1, <1>3, <1>4, <2>3, <2>6, OthersCounted
<1>6. CASE MoveTo(t, "reply")
  BY <1>1, <1>4, <1>6, MovesAside, AsideKeepsCount
<1>7. CASE ~Full(u) /\ MoveTo(t, "append")
  <2>1. len < MaxCalls
    BY <1>1, <1>3, <1>7 DEF Full
  <2> DEFINE r == [q EXCEPT !.pc = "append"]
  <2>2. SetRequest(t, r) /\ r.pc = "append" /\ r.user = u
    BY <1>1, <1>2, <1>7, PlaceOf DEF MoveTo
  <2> HIDE DEF r
  <2>3. Popping(u)' \subseteq Popping(u) /\ Appending(u)' = Appending(u) \cup {t}
    BY <1>1, <2>2, ThreadMoves
  <2>4. Cardinality(Popping(u)') <= p /\ Cardinality(Popping(u)') \in Nat
    BY <1>3, <2>3, SomeThreads, FS_Subset, FS_CardinalityType
  <2>5. Cardinality(Appending(u)') <= Further + 1 /\ Cardinality(Appending(u)') \in Nat
    <3>1. Appending(u) \cup {t} \in SUBSET Threads
      BY DEF Appending
    <3> QED
      BY <2>3, <3>1, SetOfThreads
  <2>6. CountedAs(u, k, lost)'
    BY <1>1, <1>3, <1>4, <2>1, <2>4, <2>5 DEF CountedAs, Shape
  <2> QED
    BY <1>1, <1>3, <1>4, <2>2, <2>6, OthersCounted
<1> QED
  BY <1>4, <1>5, <1>6, <1>7

LEMMA AllowPopKeepsCount ==
  ASSUME EngineInv, CountInv, NEW t \in Threads, AllowPop(t) PROVE CountInv'
<1> DEFINE q == request[t]
<1>1. EngineTypes /\ MaxCalls \in Nat /\ Further \in Nat
  BY CommandsAssumption, FurtherIsNat DEF EngineInv
<1>2. PICK u \in Users : u = q.user
  <2>1. q.pc \in MessagePlaces
    BY DEF AllowPop, At, MessagePlaces, LimiterPlaces
  <2> QED
    BY <2>1, InMessage
<1>3. PICK k, lost, len, a, p \in Nat :
        /\ CountedAs(u, k, lost) /\ len = Len(hits[u]) /\ k <= len
        /\ a = Cardinality(Appending(u)) /\ p = Cardinality(Popping(u))
        /\ a <= Further + 1 /\ p <= Further + 1
        /\ hits[u] \in Seq({"old", "new"})
        /\ \A i \in 1..len : hits[u][i] = IF i <= len - k THEN "old" ELSE "new"
        /\ recent[u] = k + lost
        /\ lost > 0 => k = len
        /\ k = len => lost + p <= Further
        /\ len + a <= MaxCalls + Further
  BY CountOf
<1>4. q.pc = "pop" /\ recent' = recent
  BY DEF AllowPop, At
<1>5. CASE hits[u] = << >>
  <2>1. SetRequest(t, [NoRequest EXCEPT !.seen = "limiter failed", !.user = u]) /\ hits' = hits
    BY <1>2, <1>5 DEF AllowPop
  <2>2. [NoRequest EXCEPT !.seen = "limiter failed", !.user = u].pc = "idle"
    BY DEF NoRequest
  <2> QED
    BY <1>1, <1>4, <2>1, <2>2, AsideKeepsCount
<1>6. CASE hits[u] # << >>
  <2> DEFINE r == [q EXCEPT !.pc = "allow"]
             h == Tail(hits[u])
  <2>1. SetRequest(t, r) /\ r.pc = "allow" /\ hits' = [hits EXCEPT ![u] = h]
    BY <1>1, <1>2, <1>6, PlaceOf DEF AllowPop, MoveTo
  <2>2. /\ h \in Seq({"old", "new"}) /\ Len(h) = len - 1 /\ len > 0
        /\ \A i \in 1..(len - 1) : h[i] = hits[u][i + 1]
    BY <1>3, <1>6, EmptySeq, HeadTailProperties
  <2>3. hits' = [v \in Users |-> IF v = u THEN h ELSE hits[v]]
    BY <1>1, <2>1 DEF EngineTypes
  <2>4. t \in Popping(u)
    BY <1>2, <1>4 DEF Popping
  <2> HIDE DEF r, h
  <2>5. Appending(u)' \subseteq Appending(u) /\ Popping(u)' = Popping(u) \ {t}
    BY <1>1, <2>1, ThreadMoves
  <2>6. Cardinality(Popping(u)') = p - 1
    BY <1>3, <2>4, <2>5, SomeThreads, FS_RemoveElement
  <2>7. PICK b \in Nat : b = Cardinality(Appending(u)') /\ b <= a
    BY <1>3, <2>5, SomeThreads, FS_Subset, FS_CardinalityType
  <2>8. hits'[u] = h /\ recent'[u] = k + lost
    BY <1>3, <1>4, <2>3
  <2>9. \E x, y \in Nat : CountedAs(u, x, y)'
    <3>1. CASE k = len
      <4>1. k - 1 \in Nat /\ lost + 1 \in Nat
        BY <1>3, <2>2, <3>1
      <4>2. Shape(h, k - 1)
        <5>1. \A i \in 1..Len(h) : h[i] = IF i <= Len(h) - (k - 1) THEN "old" ELSE "new"
          BY <1>3, <2>2, <3>1
        <5> QED
          BY <1>3, <2>2, <3>1, <4>1, <5>1 DEF Shape
      <4>3. /\ k + lost = (k - 1) + (lost + 1)
            /\ k - 1 = Len(h)
            /\ (lost + 1) + (p - 1) <= Further
            /\ Len(h) + b <= MaxCalls + Further
        <5>1. lost + p <= Further /\ len + a <= MaxCalls + Further
          BY <1>3, <3>1
        <5>2. Len(h) = len - 1 /\ b <= a
          BY <2>2, <2>7
        <5> QED
          BY <1>1, <3>1, <5>1, <5>2
      <4>4. CountedAs(u, k - 1, lost + 1)'
        BY <2>6, <2>7, <2>8, <4>2, <4>3 DEF CountedAs
      <4> QED
        BY <4>1, <4>4
    <3>2. CASE k # len
      <4>1. Shape(h, k)
        <5>1. \A i \in 1..Len(h) : h[i] = IF i <= Len(h) - k THEN "old" ELSE "new"
          BY <1>3, <2>2, <3>2
        <5> QED
          BY <1>3, <2>2, <3>2, <5>1 DEF Shape
      <4>2. lost = 0 /\ p - 1 <= Further
        BY <1>1, <1>3, <3>2
      <4>3. lost + (p - 1) <= Further /\ Len(h) + b <= MaxCalls + Further
        BY <1>1, <1>3, <2>2, <2>7, <4>2
      <4>4. CountedAs(u, k, lost)'
        BY <2>6, <2>7, <2>8, <4>1, <4>2, <4>3 DEF CountedAs
      <4> QED
        BY <4>4
    <3> QED
      BY <3>1, <3>2
  <2> QED
    BY <1>1, <1>4, <2>1, <2>3, <2>9, OthersCounted
<1> QED
  BY <1>5, <1>6

LEMMA AllowAppendKeepsCount ==
  ASSUME EngineInv, CountInv, NEW t \in Threads, AllowAppend(t) PROVE CountInv'
<1> DEFINE q == request[t]
<1>1. EngineTypes /\ MaxCalls \in Nat /\ Further \in Nat
  BY CommandsAssumption, FurtherIsNat DEF EngineInv
<1>2. PICK u \in Users : u = q.user
  <2>1. q.pc \in MessagePlaces
    BY DEF AllowAppend, At, MessagePlaces, LimiterPlaces
  <2> QED
    BY <2>1, InMessage
<1>3. PICK k, lost, len, a, p \in Nat :
        /\ CountedAs(u, k, lost) /\ len = Len(hits[u]) /\ k <= len
        /\ a = Cardinality(Appending(u)) /\ p = Cardinality(Popping(u))
        /\ a <= Further + 1 /\ p <= Further + 1
        /\ hits[u] \in Seq({"old", "new"})
        /\ \A i \in 1..len : hits[u][i] = IF i <= len - k THEN "old" ELSE "new"
        /\ recent[u] = k + lost
        /\ lost > 0 => k = len
        /\ k = len => lost + p <= Further
        /\ len + a <= MaxCalls + Further
  BY CountOf
<1> DEFINE r == [q EXCEPT !.pc = "execute"]
           h == Append(hits[u], "new")
<1>4. /\ q.pc = "append" /\ SetRequest(t, r) /\ r.pc = "execute"
      /\ hits' = [hits EXCEPT ![u] = h] /\ recent' = [recent EXCEPT ![u] = @ + 1]
  BY <1>1, <1>2, PlaceOf DEF AllowAppend, At, MoveTo
<1>5. /\ h \in Seq({"old", "new"}) /\ Len(h) = len + 1
      /\ \A i \in 1..len : h[i] = hits[u][i]
      /\ h[len + 1] = "new"
  BY <1>3, AppendProperties
<1>6. /\ hits' = [v \in Users |-> IF v = u THEN h ELSE hits[v]]
      /\ recent' = [v \in Users |-> IF v = u THEN recent[u] + 1 ELSE recent[v]]
  BY <1>1, <1>4 DEF EngineTypes
<1>7. t \in Appending(u)
  BY <1>2, <1>4 DEF Appending
<1> HIDE DEF r, h
<1>8. Appending(u)' = Appending(u) \ {t} /\ Popping(u)' \subseteq Popping(u)
  BY <1>1, <1>4, ThreadMoves
<1>9. Cardinality(Appending(u)') = a - 1
  BY <1>3, <1>7, <1>8, SomeThreads, FS_RemoveElement
<1>10. PICK b \in Nat : b = Cardinality(Popping(u)') /\ b <= p
  BY <1>3, <1>8, SomeThreads, FS_Subset, FS_CardinalityType
<1>11. Shape(h, k + 1)
  <2>1. ASSUME NEW i \in 1..(len + 1) PROVE h[i] = IF i <= len - k THEN "old" ELSE "new"
    <3>1. CASE i = len + 1
      BY <1>3, <1>5, <3>1
    <3>2. CASE i \in 1..len
      BY <1>3, <1>5, <3>2
    <3> QED
      BY <3>1, <3>2
  <2>2. Len(h) - (k + 1) = len - k /\ k + 1 \in 0..Len(h)
    BY <1>3, <1>5
  <2> QED
    BY <1>5, <2>1, <2>2 DEF Shape
<1>12. /\ recent[u] + 1 = (k + 1) + lost
       /\ lost > 0 => k + 1 = Len(h)
       /\ k + 1 = Len(h) => lost + b <= Further
       /\ Len(h) + (a - 1) <= MaxCalls + Further
  <2>1. /\ recent[u] = k + lost
        /\ lost > 0 => k = len
        /\ k = len => lost + p <= Further
        /\ len + a <= MaxCalls + Further
    BY <1>3
  <2>2. Len(h) = len + 1 /\ b <= p
    BY <1>5, <1>10
  <2> QED
    BY <1>1, <2>1, <2>2
<1>13. CountedAs(u, k + 1, lost)'
  BY <1>6, <1>9, <1>10, <1>11, <1>12 DEF CountedAs
<1>14. \E x, y \in Nat : CountedAs(u, x, y)'
  BY <1>3, <1>13
<1> QED
  BY <1>1, <1>4, <1>6, <1>14, OthersCounted

\* A window that passes takes a call that was popped, or the oldest of the deque.
LEMMA WindowPassesKeepsCount ==
  ASSUME EngineInv, CountInv, NEW u \in Users, WindowPasses(u) PROVE CountInv'
<1> DEFINE new == {i \in DOMAIN hits[u] : hits[u][i] = "new"}
<1>1. EngineTypes /\ MaxCalls \in Nat /\ Further \in Nat
  BY CommandsAssumption, FurtherIsNat DEF EngineInv
<1>2. PICK k, lost, len, a, p \in Nat :
        /\ CountedAs(u, k, lost) /\ len = Len(hits[u]) /\ k <= len
        /\ a = Cardinality(Appending(u)) /\ p = Cardinality(Popping(u))
        /\ a <= Further + 1 /\ p <= Further + 1
        /\ hits[u] \in Seq({"old", "new"})
        /\ \A i \in 1..len : hits[u][i] = IF i <= len - k THEN "old" ELSE "new"
        /\ recent[u] = k + lost
        /\ lost > 0 => k = len
        /\ k = len => lost + p <= Further
        /\ len + a <= MaxCalls + Further
  BY CountOf
<1>3. /\ recent[u] > 0 /\ recent' = [recent EXCEPT ![u] = @ - 1]
      /\ hits' = IF Cardinality(new) < recent[u] THEN hits
                 ELSE [hits EXCEPT ![u][CHOOSE i \in new : \A j \in new : i <= j] = "old"]
      /\ request' = request
  BY DEF WindowPasses
<1>4. DOMAIN hits[u] = 1..len
  BY <1>2
<1>5. new = (len - k + 1)..len
  BY <1>2, <1>4
<1>6. Cardinality(new) = k
  <2>1. len - k + 1 \in Int /\ len \in Int
    BY <1>2
  <2>2. PICK x \in Int, y \in Int : x = len - k + 1 /\ y = len
    BY <2>1
  <2>3. Cardinality(x..y) = IF x > y THEN 0 ELSE y - x + 1
    BY FS_Interval
  <2>4. (IF x > y THEN 0 ELSE y - x + 1) = k
    BY <1>2, <2>2
  <2> QED
    BY <1>5, <2>2, <2>3, <2>4
<1>7. /\ \A v \in Users : Appending(v)' = Appending(v) /\ Popping(v)' = Popping(v)
      /\ recent' = [v \in Users |-> IF v = u THEN recent[u] - 1 ELSE recent[v]]
  BY <1>1, <1>3 DEF Appending, Popping, EngineTypes
<1>8. \E x, y \in Nat : CountedAs(u, x, y)'
  <2>1. CASE lost > 0
    <3>1. hits' = hits /\ lost - 1 \in Nat /\ k = len
      BY <1>2, <1>3, <1>6, <2>1
    <3>2. /\ recent'[u] = k + (lost - 1)
          /\ (lost - 1) + p <= Further
      BY <1>1, <1>2, <1>7, <2>1, <3>1
    <3>3. CountedAs(u, k, lost - 1)'
      BY <1>2, <1>7, <3>1, <3>2 DEF CountedAs
    <3> QED
      BY <3>1, <3>3
  <2>2. CASE ~(lost > 0)
    <3>1. lost = 0 /\ k > 0 /\ k - 1 \in Nat /\ ~(Cardinality(new) < recent[u])
      BY <1>2, <1>3, <1>6, <2>2
    <3> DEFINE m == CHOOSE i \in new : \A j \in new : i <= j
    <3>2. m = len - k + 1 /\ m \in 1..len
      <4>1. len - k + 1 \in new /\ \A j \in new : len - k + 1 <= j
        <5> HIDE DEF new
        <5>1. k <= len
          BY <1>2
        <5> QED
          BY <1>5, <3>1, <5>1
      <4>2. m \in new /\ \A j \in new : m <= j
        BY <4>1
      <4> QED
        BY <1>2, <1>5, <3>1, <4>1, <4>2
    <3> DEFINE h == [hits[u] EXCEPT ![m] = "old"]
    <3>3. hits' = [hits EXCEPT ![u] = h]
      BY <1>3, <3>1
    <3> HIDE DEF m
    <3>4. /\ h \in Seq({"old", "new"}) /\ Len(h) = len
          /\ \A i \in 1..len : h[i] = IF i = m THEN "old" ELSE hits[u][i]
      BY <1>2, <1>4, <3>2, ExceptSeq
    <3> HIDE DEF h
    <3>5. hits' = [v \in Users |-> IF v = u THEN h ELSE hits[v]]
      BY <1>1, <3>3 DEF EngineTypes
    <3>6. Shape(h, k - 1)
      <4>1. \A i \in 1..Len(h) : h[i] = IF i <= Len(h) - (k - 1) THEN "old" ELSE "new"
        BY <1>2, <3>1, <3>2, <3>4
      <4> QED
        BY <1>2, <3>1, <3>4, <4>1 DEF Shape
    <3>7. /\ recent'[u] = (k - 1) + 0
          /\ k - 1 # Len(h)
          /\ Len(h) + a <= MaxCalls + Further
      BY <1>1, <1>2, <1>7, <3>1, <3>4
    <3>8. CountedAs(u, k - 1, 0)'
      BY <1>2, <1>7, <3>5, <3>6, <3>7 DEF CountedAs
    <3> QED
      BY <3>1, <3>8
  <2> QED
    BY <2>1, <2>2
<1>9. ASSUME NEW v \in Users, v # u PROVE \E x, y \in Nat : CountedAs(v, x, y)'
  <2>1. PICK x \in Nat, y \in Nat : CountedAs(v, x, y)
    BY DEF CountInv
  <2>2. hits'[v] = hits[v] /\ recent'[v] = recent[v]
    BY <1>1, <1>3, <1>7, <1>9 DEF EngineTypes
  <2> QED
    BY <1>7, <2>1, <2>2, CountFrame, CommandsAssumption
<1> QED
  BY <1>8, <1>9 DEF CountInv

-----------------------------------------------------------------------------
(* Plugin requests *)

LEMMA OwnIsCommand ==
  ASSUME NEW p \in Plugins, NEW c \in OwnCommands(p)
  PROVE  /\ c \in Commands /\ c \in CommandsOf[p] /\ p # NoPlugin
         /\ \A q \in Plugins : c \in CommandsOf[q] => q = p
BY CommandsAssumption DEF Commands, OwnCommands

\* The part of a plugin request that has nothing to do with messages.
LEMMA PluginKeepsLimiter ==
  ASSUME EngineInv, NEW t \in Threads, NEW r, SetRequest(t, r), WellFormed(r),
         r.pc \in PluginPlaces \cup {"idle"}, r.seen # "limiter failed",
         handlers' \in Tables, records' \in [Plugins -> Statuses],
         UNCHANGED <<hits, recent, crowded>>
  PROVE  EngineTypes' /\ LimiterInv'
<1>1. EngineTypes /\ LimiterInv
  BY DEF EngineInv
<1>2. r.pc \notin LimiterPlaces
  BY DEF PluginPlaces, LimiterPlaces
<1>3. EngineTypes'
  BY <1>1, RequestKeepsTypes DEF EngineTypes
<1>4. LimiterInv'
  BY <1>1, <1>2, LimiterFrame
<1> QED
  BY <1>3, <1>4

LEMMA OpsArePlaces ==
  ASSUME EngineInv, NEW t \in Threads
  PROVE  /\ WellFormed(request[t])
         /\ Busy(t) <=> request[t].pc \in PluginPlaces
         /\ Busy(t) => request[t].plugin \in Plugins
         /\ request[t].op \in PluginOps <=> Busy(t)
BY DEF EngineInv, EngineTypes, WellFormed, Busy

\* What a step of a plugin request does to the plugins of others: nothing, if it
\* leaves their entries in the table.
LEMMA OthersStay ==
  ASSUME EngineInv, NEW t \in Threads, Busy(t), NEW r, SetRequest(t, r), WellFormed(r),
         r.pc # "unload", r.op \in PluginOps => r.plugin = request[t].plugin,
         NEW o \in Plugins \ adrift, o # request[t].plugin, records'[o] = records[o],
         \A c \in Commands : handlers'[c] = handlers[c] \/ (handlers[c] # o /\ handlers'[c] # o)
  PROVE  OnCourse(o)'
<1>1. EngineTypes /\ OnCourse(o) /\ ~OnPlugin(t, o)
  BY DEF EngineInv, TableInv, OnPlugin
<1>2. \A c \in OwnCommands(o) : handlers[c] = o => handlers'[c] = o
  BY OwnIsCommand
<1>3. (ServedEverywhere(o) => ServesOwn(handlers', o)) /\ (SilentEverywhere(o) => Silent(handlers', o))
  BY <1>2 DEF ServedEverywhere, SilentEverywhere, ServesOwn, Silent
<1>4. /\ r.op \in PluginOps => r.plugin # o
      /\ \A u \in Threads \ {t} : OnPlugin(u, o) /\ request[u].pc = "load" =>
           \A c \in OwnCommands(o) : handlers[c] = o => handlers'[c] = o
  BY <1>2
<1> QED
  BY <1>1, <1>3, <1>4, OthersOnCourse

LEMMA BeginKeepsInv ==
  ASSUME EngineInv, NEW t \in Threads, NEW p \in Plugins, Install(t, p) \/ Uninstall(t, p)
  PROVE  EngineInv'
<1>1. EngineTypes /\ LimiterInv /\ TableInv
  BY DEF EngineInv
<1>2. PICK r \in Requests, op \in PluginOps :
        /\ At(t, "idle") /\ UNCHANGED <<handlers, records, hits, recent, crowded>>
        /\ SetRequest(t, r)
        /\ adrift' = (adrift \ {p}) \cup Lost(t, op, p)
        /\ r.op = op /\ r.plugin = p /\ r.seen = "none"
        /\ \/ op = "install" /\ r.pc = "load" /\ r.todo = CommandsOf[p]
           \/ op = "install" /\ r.pc = "record" /\ CommandsOf[p] = {}
           \/ op = "uninstall" /\ r.pc = "unload" /\ r.table = handlers
  <2>1. CommandsOf[p] \in SUBSET Commands /\ handlers \in Tables
    BY <1>1 DEF EngineTypes, Commands
  <2>2. PICK z : z = NoRequest
    OBVIOUS
  <2>3. z \in Requests /\ z.seen = "none"
    BY <2>2, NoRequestIsIdle DEF WellFormed
  <2>4. CASE Install(t, p)
    <3>1. PICK pc \in {"load", "record"} : pc = IF CommandsOf[p] = {} THEN "record" ELSE "load"
      OBVIOUS
    <3> DEFINE y == [z EXCEPT !.pc = pc, !.todo = CommandsOf[p]]
               r == [y EXCEPT !.op = "install", !.plugin = p]
    <3>2. /\ At(t, "idle") /\ UNCHANGED <<handlers, records, hits, recent, crowded>>
          /\ SetRequest(t, r)
          /\ adrift' = (adrift \ {p}) \cup Lost(t, "install", p)
      BY <2>2, <2>4, <3>1 DEF Install, Begin
    <3>3. y \in Requests /\ y.pc = pc /\ y.todo = CommandsOf[p] /\ y.seen = "none"
      BY <2>1, <2>3 DEF Requests, PluginPlaces
    <3> HIDE DEF y
    <3>4. /\ r \in Requests /\ r.op = "install" /\ r.pc = pc /\ r.plugin = p
          /\ r.seen = "none" /\ r.todo = CommandsOf[p]
      BY <3>3 DEF Requests, PluginOps
    <3> HIDE DEF r
    <3> QED
      BY <3>1, <3>2, <3>4 DEF PluginOps
  <2>5. CASE Uninstall(t, p)
    <3> DEFINE y == [z EXCEPT !.pc = "unload", !.table = handlers]
               r == [y EXCEPT !.op = "uninstall", !.plugin = p]
    <3>1. /\ At(t, "idle") /\ UNCHANGED <<handlers, records, hits, recent, crowded>>
          /\ SetRequest(t, r)
          /\ adrift' = (adrift \ {p}) \cup Lost(t, "uninstall", p)
      BY <2>2, <2>5 DEF Uninstall, Begin
    <3>2. y \in Requests /\ y.pc = "unload" /\ y.table = handlers /\ y.seen = "none"
      BY <2>1, <2>3 DEF Requests, PluginPlaces
    <3> HIDE DEF y
    <3>3. /\ r \in Requests /\ r.op = "uninstall" /\ r.pc = "unload" /\ r.plugin = p
          /\ r.seen = "none" /\ r.table = handlers
      BY <3>2 DEF Requests, PluginOps
    <3> HIDE DEF r
    <3> QED
      BY <3>1, <3>3 DEF PluginOps
  <2> QED
    BY <2>4, <2>5
<1>3. WellFormed(r) /\ r.pc \in PluginPlaces
  <2>1. r.pc = "unload" => r.table \in Tables
    BY <1>1, <1>2 DEF EngineTypes
  <2>2. r.pc \in PluginPlaces /\ r.pc \notin MessagePlaces
    BY <1>2 DEF PluginPlaces, MessagePlaces, LimiterPlaces
  <2> QED
    BY <1>2, <2>1, <2>2 DEF WellFormed
<1>4. EngineTypes' /\ LimiterInv'
  BY <1>1, <1>2, <1>3, PluginKeepsLimiter DEF EngineTypes
<1>5. ~Busy(t)
  <2>1. request[t].pc = "idle"
    BY <1>2 DEF At
  <2> QED
    BY <2>1, OpsArePlaces DEF PluginPlaces
<1>6. \A u \in Threads : request'[u] = IF u = t THEN r ELSE request[u]
  BY <1>1, <1>2, RequestBecomes
<1>7. ASSUME NEW o \in Plugins \ adrift' PROVE OnCourse(o)'
  <2>1. CASE o = p
    <3>1. \A u \in Threads \ {t} : request[u].pc # "unload" /\ ~OnPlugin(u, p)
      BY <1>2, <1>7, <2>1 DEF Lost, OnPlugin, Busy, PluginOps
    <3>2. \A u \in Threads : OnPlugin(u, p)' => u = t
      BY <1>6, <3>1 DEF OnPlugin, Busy
    <3>3. OnPlugin(t, p)'
      BY <1>2, <1>6 DEF OnPlugin, Busy
    <3>4. Underway(t)'
      <4>1. request'[t] = r /\ r.plugin = p /\ \A u \in Threads \ {t} : request'[u].pc # "unload"
        BY <1>2, <1>6, <3>1
      <4>2. r.pc = "load" => OwnCommands(p) \ r.todo = {}
        BY <1>2 DEF OwnCommands
      <4>3. r.pc = "record" => r.op = "install" /\ ServedEverywhere(p)'
        BY <1>2, <4>1 DEF ServedEverywhere, ServesOwn, OwnCommands
      <4>4. r.pc # "commit"
        BY <1>2
      <4> QED
        BY <4>1, <4>2, <4>3, <4>4 DEF Underway
    <3> QED
      BY <2>1, <3>2, <3>3, <3>4 DEF OnCourse
  <2>2. CASE o # p
    <3>1. o \in Plugins \ adrift /\ OnCourse(o)
      BY <1>1, <1>2, <1>7, <2>2 DEF TableInv
    <3>2. op = "uninstall" => \A u \in Threads \ {t} :
            request[u].pc \in {"load", "unload"} => request[u].plugin # o
      BY <1>2, <1>7 DEF Lost
    <3>3. ~OnPlugin(t, o) /\ handlers' = handlers /\ records' = records
      BY <1>2, <1>5 DEF OnPlugin
    <3>4. r.pc = "unload" => /\ r.table = handlers
                             /\ \A u \in Threads \ {t} :
                                  OnPlugin(u, o) => request[u].pc \notin {"load", "unload"}
      BY <1>2, <3>2 DEF OnPlugin
    <3>5. (ServedEverywhere(o) => ServesOwn(handlers', o)) /\ (SilentEverywhere(o) => Silent(handlers', o))
      BY <3>3 DEF ServedEverywhere, SilentEverywhere, ServesOwn, Silent
    <3> QED
      BY <1>1, <1>2, <2>2, <3>1, <3>3, <3>4, <3>5, OthersOnCourse
  <2> QED
    BY <2>1, <2>2
<1> QED
  BY <1>4, <1>7 DEF EngineInv, TableInv

LEMMA LoadCommandKeepsInv ==
  ASSUME EngineInv, NEW t \in Threads, LoadCommand(t) PROVE EngineInv'
<1> DEFINE q == request[t]
<1> PICK p : p = q.plugin
  OBVIOUS
<1>1. EngineTypes /\ LimiterInv /\ TableInv
  BY DEF EngineInv
<1>2. PICK c \in q.todo :
        /\ q.pc = "load" /\ handlers' = [handlers EXCEPT ![c] = p]
        /\ IF q.todo = {c} THEN SetRequest(t, [q EXCEPT !.pc = "record"])
                           ELSE SetRequest(t, [q EXCEPT !.todo = @ \ {c}])
        /\ UNCHANGED <<records, hits, recent, crowded, adrift>>
  BY DEF LoadCommand, MoveTo
<1>3. WellFormed(q) /\ Busy(t) /\ p \in Plugins
  BY <1>2, OpsArePlaces DEF PluginPlaces
<1>4. q \in Requests /\ q.op = "install" /\ q.todo \subseteq CommandsOf[p]
  BY <1>2, <1>3 DEF WellFormed
<1>5. PICK r \in Requests :
        /\ SetRequest(t, r)
        /\ r.op = q.op /\ r.plugin = p /\ r.seen = q.seen
        /\ \/ r.pc = "record" /\ q.todo = {c}
           \/ r.pc = "load" /\ r.todo = q.todo \ {c}
  <2>1. CASE q.todo = {c}
    <3> DEFINE r == [q EXCEPT !.pc = "record"]
    <3>1. SetRequest(t, r)
      BY <1>2, <2>1
    <3> HIDE DEF q
    <3>2. /\ r \in Requests /\ r.op = q.op /\ r.plugin = q.plugin /\ r.seen = q.seen
          /\ r.pc = "record"
      BY <1>4 DEF Requests, PluginPlaces
    <3> HIDE DEF r
    <3> QED
      BY <2>1, <3>1, <3>2 DEF q
  <2>2. CASE q.todo # {c}
    <3> DEFINE r == [q EXCEPT !.todo = q.todo \ {c}]
    <3>0. q.todo \ {c} \in SUBSET Commands
      BY <1>3, <1>4 DEF Commands
    <3>1. SetRequest(t, r)
      BY <1>2, <2>2
    <3> HIDE DEF q
    <3>2. /\ r \in Requests /\ r.op = q.op /\ r.plugin = q.plugin /\ r.seen = q.seen
          /\ r.pc = q.pc /\ r.todo = q.todo \ {c}
      BY <1>4, <3>0 DEF Requests
    <3> HIDE DEF r
    <3> QED
      BY <1>2, <2>2, <3>1, <3>2 DEF q
  <2> QED
    BY <2>1, <2>2
<1>6. /\ c \in Commands /\ c \in CommandsOf[p] /\ handlers \in Tables
      /\ \A d \in Commands : handlers'[d] = IF d = c THEN p ELSE handlers[d]
  BY <1>1, <1>2, <1>3, <1>4 DEF EngineTypes, Tables, Commands
<1>7. handlers' \in Tables
  <2>1. handlers' \in [Commands -> Plugins \cup {NoPlugin}]
    BY <1>2, <1>3, <1>6 DEF Tables
  <2>2. \A d \in Commands, o \in Plugins : handlers'[d] = o => d \in CommandsOf[o]
    BY <1>6 DEF Tables
  <2> QED
    BY <2>1, <2>2 DEF Tables
<1>8. WellFormed(r) /\ r.pc \in PluginPlaces /\ r.seen # "limiter failed"
  <2>1. q.op \in PluginOps /\ q.seen # "limiter failed"
    BY <1>2, <1>3 DEF WellFormed, PluginPlaces
  <2>2. r.pc \in PluginPlaces /\ r.pc \notin MessagePlaces
    BY <1>5 DEF PluginPlaces, MessagePlaces, LimiterPlaces
  <2> QED
    BY <1>3, <1>4, <1>5, <2>1, <2>2 DEF WellFormed
<1>9. EngineTypes' /\ LimiterInv'
  BY <1>1, <1>2, <1>5, <1>7, <1>8, PluginKeepsLimiter DEF EngineTypes
<1>10. \A u \in Threads : request'[u] = IF u = t THEN r ELSE request[u]
  BY <1>1, <1>5, RequestBecomes
<1>11. ASSUME NEW o \in Plugins \ adrift PROVE OnCourse(o)'
  <2>1. CASE o = p
    <3>1. /\ OnPlugin(t, p) /\ Underway(t)
          /\ \A u \in Threads : OnPlugin(u, p) => u = t
      BY <1>1, <1>3, <1>11, <2>1 DEF TableInv, OnCourse, OnPlugin
    <3>2. /\ OnPlugin(t, p)'
          /\ \A u \in Threads : OnPlugin(u, p)' => u = t
      BY <1>3, <1>5, <1>10, <3>1 DEF OnPlugin, Busy
    <3>3. /\ \A u \in Threads \ {t} : request[u].pc # "unload"
          /\ \A d \in OwnCommands(p) \ q.todo : handlers[d] = p
      BY <1>2, <3>1 DEF Underway
    <3>4. \A d \in OwnCommands(p) : (d = c \/ d \notin q.todo) => handlers'[d] = p
      BY <1>3, <1>6, <3>3, OwnIsCommand
    <3>5. r.pc = "record" => ServedEverywhere(p)'
      BY <1>5, <1>10, <3>3, <3>4 DEF ServedEverywhere, ServesOwn
    <3>6. Underway(t)'
      <4>1. request'[t] = r /\ \A u \in Threads \ {t} : request'[u].pc # "unload"
        BY <1>10, <3>3
      <4>2. r.pc = "load" => \A d \in OwnCommands(p) \ r.todo : handlers'[d] = p
        BY <1>5, <3>4
      <4> QED
        BY <1>4, <1>5, <3>5, <4>1, <4>2 DEF Underway
    <3> QED
      BY <2>1, <3>2, <3>6 DEF OnCourse
  <2>2. CASE o # p
    <3>3. \A d \in OwnCommands(o) : d # c /\ handlers'[d] = handlers[d]
      BY <1>3, <1>6, <2>2, OwnIsCommand
    <3>4. /\ ServedEverywhere(o) => ServesOwn(handlers', o)
          /\ SilentEverywhere(o) => Silent(handlers', o)
      BY <1>6, <2>2, <3>3 DEF ServedEverywhere, SilentEverywhere, ServesOwn, Silent
    <3>5. OnCourse(o) /\ ~OnPlugin(t, o) /\ r.pc # "unload" /\ r.plugin # o /\ records' = records
      BY <1>1, <1>2, <1>5, <1>11, <2>2 DEF TableInv, OnPlugin
    <3> QED
      BY <1>1, <1>5, <3>3, <3>4, <3>5, OthersOnCourse
  <2> QED
    BY <2>1, <2>2
<1> QED
  BY <1>2, <1>9, <1>11 DEF EngineInv, TableInv

\* Unloading puts back the table it began with, less the plugin.
LEMMA UnloadRebindKeepsInv ==
  ASSUME EngineInv, NEW t \in Threads, UnloadRebind(t) PROVE EngineInv'
<1> DEFINE q == request[t]
<1> PICK p : p = q.plugin
  OBVIOUS
<1>1. EngineTypes /\ LimiterInv /\ TableInv
  BY DEF EngineInv
<1>2. q.pc = "unload" /\ UNCHANGED <<records, hits, recent, crowded>>
  BY DEF UnloadRebind
<1>3. WellFormed(q) /\ Busy(t) /\ p \in Plugins
  BY <1>2, OpsArePlaces DEF PluginPlaces
<1>4. q \in Requests /\ q.op = "uninstall" /\ q.table \in Tables
  BY <1>2, <1>3 DEF WellFormed
<1>5. CASE /\ handlers' = WithoutPlugin(q.table, p)
           /\ SetRequest(t, [q EXCEPT !.pc = "record"])
           /\ adrift' = adrift
  <2>1. PICK r : r = [q EXCEPT !.pc = "record"]
    OBVIOUS
  <2>2. /\ r \in Requests /\ r.op = q.op /\ r.plugin = p /\ r.seen = q.seen /\ r.pc = "record"
    <3> HIDE DEF q
    <3> QED
      BY <1>4, <2>1 DEF Requests, PluginPlaces
  <2>3. WellFormed(r) /\ r.pc \in PluginPlaces /\ r.seen # "limiter failed" /\ SetRequest(t, r)
    BY <1>2, <1>3, <1>5, <2>1, <2>2 DEF WellFormed, PluginPlaces, MessagePlaces, LimiterPlaces
  <2>4. \A c \in Commands : handlers'[c] = IF q.table[c] = p THEN NoPlugin ELSE q.table[c]
    BY <1>5 DEF WithoutPlugin
  <2>5. handlers' \in Tables
    <3>1. handlers' \in [Commands -> Plugins \cup {NoPlugin}]
      BY <1>4, <1>5 DEF WithoutPlugin, Tables
    <3>2. \A c \in Commands, o \in Plugins : handlers'[c] = o => c \in CommandsOf[o]
      BY <1>4, <2>4, CommandsAssumption DEF Tables
    <3> QED
      BY <3>1, <3>2 DEF Tables
  <2>6. EngineTypes' /\ LimiterInv'
    BY <1>1, <1>2, <2>3, <2>5, PluginKeepsLimiter DEF EngineTypes
  <2>7. \A u \in Threads : request'[u] = IF u = t THEN r ELSE request[u]
    BY <1>1, <2>3, RequestBecomes
  <2>8. ASSUME NEW o \in Plugins \ adrift PROVE OnCourse(o)'
    <3>1. CASE o = p
      <4>1. /\ OnPlugin(t, p) /\ Underway(t)
            /\ \A u \in Threads : OnPlugin(u, p) => u = t
        BY <1>1, <1>3, <2>8, <3>1 DEF TableInv, OnCourse, OnPlugin
      <4>2. \A u \in Threads : OnPlugin(u, p)' <=> u = t
        BY <1>3, <2>2, <2>7, <4>1 DEF OnPlugin, Busy
      <4>3. \A u \in Threads : request'[u].pc # "unload"
        BY <1>2, <2>2, <2>7, <4>1 DEF Underway
      <4>4. SilentEverywhere(p)'
        BY <1>3, <2>4, <4>3, CommandsAssumption DEF SilentEverywhere, Silent
      <4>5. Underway(t)'
        BY <1>4, <2>2, <2>7, <4>4 DEF Underway
      <4> QED
        BY <3>1, <4>2, <4>5 DEF OnCourse
    <3>2. CASE o # p
      <4>1. OnCourse(o) /\ ~OnPlugin(t, o) /\ records' = records
        BY <1>1, <1>2, <2>8, <3>2 DEF TableInv, OnPlugin
      <4>2. \A u \in Threads \ {t} : OnPlugin(u, o) => request[u].pc # "load"
        BY <1>2, <4>1 DEF OnCourse, Underway
      <4>3. ServedEverywhere(o) => ServesOwn(handlers', o)
        BY <1>2, <2>4, <3>2, OwnIsCommand DEF ServedEverywhere, ServesOwn
      <4>4. SilentEverywhere(o) => Silent(handlers', o)
        BY <1>2, <2>4, CommandsAssumption DEF SilentEverywhere, Silent
      <4> QED
        BY <1>1, <2>2, <2>3, <3>2, <4>1, <4>2, <4>3, <4>4, OthersOnCourse
    <3> QED
      BY <3>1, <3>2
  <2> QED
    BY <1>5, <2>6, <2>8 DEF EngineInv, TableInv
<1>6. CASE /\ SetRequest(t, NoRequest) /\ handlers' = handlers
           /\ adrift' = adrift \cup {p}
  <2>1. EngineTypes' /\ LimiterInv'
    BY <1>1, <1>2, <1>6, NoRequestIsIdle, PluginKeepsLimiter DEF EngineTypes
  <2>2. ASSUME NEW o \in Plugins \ adrift' PROVE OnCourse(o)'
    <3>1. o \in Plugins \ adrift /\ o # p
      BY <1>6, <2>2
    <3> QED
      BY <1>2, <1>3, <1>6, <3>1, NoRequestIsIdle, OthersStay DEF PluginOps
  <2> QED
    BY <2>1, <2>2 DEF EngineInv, TableInv
<1> QED
  BY <1>5, <1>6 DEF UnloadRebind, MoveTo

LEMMA ReadRecordKeepsInv ==
  ASSUME EngineInv, NEW t \in Threads, ReadRecord(t) PROVE EngineInv'
<1> DEFINE q == request[t]
<1> PICK p : p = q.plugin
  OBVIOUS
<1>1. EngineTypes /\ LimiterInv /\ TableInv
  BY DEF EngineInv
<1>2. /\ q.pc = "record"
      /\ UNCHANGED <<handlers, records, hits, recent, crowded, adrift>>
  BY DEF ReadRecord
<1>3. WellFormed(q) /\ Busy(t) /\ p \in Plugins /\ records[p] \in Statuses
  BY <1>1, <1>2, OpsArePlaces DEF PluginPlaces, EngineTypes
<1>4. q \in Requests
  BY <1>3 DEF WellFormed
<1>5. PICK r :
        /\ SetRequest(t, r) /\ WellFormed(r) /\ r.seen # "limiter failed"
        /\ \/ r.pc = "commit" /\ r.op = q.op /\ r.plugin = p /\ r.seen = records[p]
           \/ r.pc = "idle" /\ r.op = "none" /\ q.op = "uninstall" /\ records[p] = "absent"
  <2>1. CASE q.op = "uninstall" /\ records[p] = "absent"
    <3>1. SetRequest(t, NoRequest)
      BY <2>1 DEF ReadRecord
    <3> QED
      BY <2>1, <3>1, NoRequestIsIdle
  <2>2. CASE ~(q.op = "uninstall" /\ records[p] = "absent")
    <3>1. PICK seen \in Statuses : seen = records[p]
      BY <1>3
    <3> DEFINE r == [q EXCEPT !.pc = "commit", !.seen = seen]
    <3>2. SetRequest(t, r)
      BY <2>2, <3>1 DEF ReadRecord
    <3> HIDE DEF q
    <3>3. /\ r \in Requests /\ r.op = q.op /\ r.plugin = q.plugin /\ r.seen = seen
          /\ r.pc = "commit"
      BY <1>4 DEF Requests, PluginPlaces
    <3> HIDE DEF r
    <3>4. q.op \in PluginOps
      BY <1>2, <1>3 DEF WellFormed, PluginPlaces
    <3>5. WellFormed(r) /\ r.seen # "limiter failed"
      BY <1>3, <3>3, <3>4 DEF WellFormed, PluginPlaces, MessagePlaces, LimiterPlaces, Statuses, q
    <3> QED
      BY <3>1, <3>2, <3>3, <3>5 DEF q
  <2> QED
    BY <2>1, <2>2
<1>6. EngineTypes' /\ LimiterInv'
  BY <1>1, <1>2, <1>5, PluginKeepsLimiter DEF EngineTypes, PluginPlaces
<1>7. \A u \in Threads : request'[u] = IF u = t THEN r ELSE request[u]
  BY <1>1, <1>5, RequestBecomes
<1>8. ASSUME NEW o \in Plugins \ adrift PROVE OnCourse(o)'
  <2>1. CASE o = p
    <3>1. /\ OnPlugin(t, p) /\ Underway(t)
          /\ \A u \in Threads : OnPlugin(u, p) => u = t
      BY <1>1, <1>3, <1>8, <2>1 DEF TableInv, OnCourse, OnPlugin
    <3>2. \A u \in Threads : OnPlugin(u, p)' => u = t
      BY <1>7, <3>1 DEF OnPlugin, Busy
    <3>3. IF q.op = "install" THEN ServedEverywhere(p) ELSE SilentEverywhere(p)
      BY <1>2, <3>1 DEF Underway
    <3>4. \A u \in Threads : request'[u].pc = "unload" => request'[u] = request[u]
      BY <1>5, <1>7
    <3>5. IF q.op = "install" THEN ServedEverywhere(p)' ELSE SilentEverywhere(p)'
      BY <1>2, <3>3, <3>4 DEF ServedEverywhere, SilentEverywhere, ServesOwn, Silent
    <3>6. CASE r.pc = "commit"
      <4>1. Underway(t)'
        BY <1>2, <1>5, <1>7, <3>5, <3>6 DEF Underway
      <4>2. OnPlugin(t, p)'
        BY <1>3, <1>5, <1>7, <3>6 DEF OnPlugin, Busy
      <4> QED
        BY <2>1, <3>2, <4>1, <4>2 DEF OnCourse
    <3>7. CASE r.pc = "idle"
      <4>1. \A u \in Threads : ~OnPlugin(u, p)'
        BY <1>5, <1>7, <3>2, <3>7 DEF OnPlugin, Busy, PluginOps
      <4>2. Settled(p)'
        BY <1>2, <1>5, <3>5, <3>7 DEF Settled
      <4> QED
        BY <2>1, <4>1, <4>2 DEF OnCourse
    <3> QED
      BY <1>5, <3>6, <3>7
  <2>2. CASE o # p
    BY <1>2, <1>3, <1>5, <1>8, <2>2, OthersStay DEF PluginOps
  <2> QED
    BY <2>1, <2>2
<1> QED
  BY <1>2, <1>6, <1>8 DEF EngineInv, TableInv

LEMMA CommitRecordKeepsInv ==
  ASSUME EngineInv, NEW t \in Threads, CommitRecord(t) PROVE EngineInv'
<1> DEFINE q == request[t]
           wanted == IF q.op = "install" THEN "enabled" ELSE "disabled"
<1> PICK p : p = q.plugin
  OBVIOUS
<1>1. EngineTypes /\ LimiterInv /\ TableInv
  BY DEF EngineInv
<1>2. /\ q.pc = "commit" /\ SetRequest(t, NoRequest)
      /\ UNCHANGED <<handlers, hits, recent, crowded, adrift>>
      /\ records' = IF q.seen = wanted \/ (q.seen = "absent" /\ records[p] # "absent")
                    THEN records ELSE [records EXCEPT ![p] = wanted]
  BY DEF CommitRecord
<1>3. WellFormed(q) /\ Busy(t) /\ p \in Plugins
  BY <1>2, OpsArePlaces DEF PluginPlaces
<1>4. records' \in [Plugins -> Statuses]
  BY <1>1, <1>2, <1>3 DEF EngineTypes, Statuses
<1>5. EngineTypes' /\ LimiterInv'
  BY <1>1, <1>2, <1>4, NoRequestIsIdle, PluginKeepsLimiter DEF EngineTypes
<1>6. \A u \in Threads : request'[u] = IF u = t THEN NoRequest ELSE request[u]
  BY <1>1, <1>2, RequestBecomes
<1>7. ASSUME NEW o \in Plugins \ adrift PROVE OnCourse(o)'
  <2>1. CASE o = p
    <3>1. /\ OnPlugin(t, p) /\ Underway(t)
          /\ \A u \in Threads : OnPlugin(u, p) => u = t
      BY <1>1, <1>3, <1>7, <2>1 DEF TableInv, OnCourse, OnPlugin
    <3>2. \A u \in Threads : ~OnPlugin(u, p)'
      BY <1>6, <3>1, NoRequestIsIdle DEF OnPlugin, Busy, PluginOps
    <3>3. /\ q.seen = records[p]
          /\ IF q.op = "install" THEN ServedEverywhere(p) ELSE SilentEverywhere(p)
      BY <1>2, <3>1 DEF Underway
    <3>4. records'[p] = wanted
      BY <1>1, <1>2, <1>3, <3>3 DEF EngineTypes
    <3>5. \A u \in Threads : request'[u].pc = "unload" => request'[u] = request[u]
      BY <1>6, NoRequestIsIdle
    <3>6. IF q.op = "install" THEN ServedEverywhere(p)' ELSE SilentEverywhere(p)'
      BY <1>2, <3>3, <3>5 DEF ServedEverywhere, SilentEverywhere, ServesOwn, Silent
    <3>7. Settled(p)'
      BY <3>4, <3>6 DEF Settled
    <3> QED
      BY <2>1, <3>2, <3>7 DEF OnCourse
  <2>2. CASE o # p
    <3>1. records'[o] = records[o]
      BY <1>1, <1>2, <1>3, <1>7, <2>2 DEF EngineTypes
    <3> QED
      BY <1>2, <1>3, <1>7, <2>2, <3>1, NoRequestIsIdle, OthersStay DEF PluginOps
  <2> QED
    BY <2>1, <2>2
<1> QED
  BY <1>2, <1>5, <1>7 DEF EngineInv, TableInv

LEMMA CommitFailsKeepsInv ==
  ASSUME EngineInv, NEW t \in Threads, CommitFails(t) PROVE EngineInv'
<1> DEFINE p == request[t].plugin
<1>1. /\ request[t].pc = "commit" /\ SetRequest(t, NoRequest) /\ adrift' = adrift \cup {p}
      /\ UNCHANGED <<handlers, records, hits, recent, crowded>>
  BY DEF CommitFails, At
<1>2. EngineTypes' /\ LimiterInv'
  BY <1>1, NoRequestIsIdle, PluginKeepsLimiter DEF EngineInv, EngineTypes
<1>3. Busy(t)
  BY <1>1, OpsArePlaces DEF PluginPlaces
<1>4. ASSUME NEW o \in Plugins \ adrift' PROVE OnCourse(o)'
  <2>1. o \in Plugins \ adrift /\ o # p
    BY <1>1, <1>4
  <2> QED
    BY <1>1, <1>3, <2>1, NoRequestIsIdle, OthersStay DEF PluginOps
<1> QED
  BY <1>2, <1>4 DEF EngineInv, TableInv

\* Nothing is under way in a new process.
LEMMA FreshProcess ==
  ASSUME request = [t \in Threads |-> NoRequest], hits = [u \in Users |-> << >>],
         recent = [u \in Users |-> 0], handlers \in Tables, records \in [Plugins -> Statuses],
         \A p \in Plugins \ adrift :
           IF records[p] = "enabled" THEN ServesOwn(handlers, p) ELSE Silent(handlers, p)
  PROVE  EngineInv /\ CountInv
<1>1. << >> \in Seq({"old", "new"}) /\ Len(<< >>) = 0 /\ MaxCalls \in Nat
  BY EmptySeq, CommandsAssumption
<1>2. \A t \in Threads : request[t] = NoRequest
  OBVIOUS
<1>3. EngineTypes
  BY <1>1, <1>2, NoRequestIsIdle DEF EngineTypes, WellFormed
<1>4. LimiterInv
  <2>1. Windowed(<< >>, 0)
    BY <1>1 DEF Windowed
  <2>2. \A u \in Users : hits[u] = << >> /\ recent[u] = 0 /\ Limiting(u) = {}
    BY <1>2, NoRequestIsIdle DEF Limiting
  <2>3. \A u \in Users : \A t \in Threads : LimiterAgrees(u, t)
    BY <1>2, NoRequestIsIdle DEF LimiterAgrees
  <2> QED
    BY <1>1, <2>1, <2>2, <2>3 DEF LimiterInv
<1>5. TableInv
  <2> SUFFICES ASSUME NEW p \in Plugins \ adrift PROVE OnCourse(p)
    BY DEF TableInv
  <2>1. \A t \in Threads : ~OnPlugin(t, p) /\ request[t].pc # "unload"
    BY <1>2, NoRequestIsIdle DEF OnPlugin, Busy, PluginOps
  <2>2. Settled(p)
    BY <2>1 DEF Settled, ServedEverywhere, SilentEverywhere
  <2> QED
    BY <2>1, <2>2 DEF OnCourse
<1>6. CountInv
  <2> SUFFICES ASSUME NEW u \in Users PROVE CountedAs(u, 0, 0)
    BY DEF CountInv
  <2>1. Appending(u) = {} /\ Popping(u) = {}
    BY <1>2, NoRequestIsIdle DEF Appending, Popping
  <2>2. Cardinality(Appending(u)) = 0 /\ Cardinality(Popping(u)) = 0 /\ Further \in Nat
    BY <2>1, FS_EmptySet, FurtherIsNat
  <2>3. hits[u] = << >> /\ recent[u] = 0
    OBVIOUS
  <2> QED
    BY <1>1, <2>2, <2>3 DEF CountedAs, Shape
<1> QED
  BY <1>3, <1>4, <1>5, <1>6 DEF EngineInv

LEMMA RestartKeepsInv ==
  ASSUME EngineInv, Restart PROVE EngineInv' /\ CountInv'
<1>1. records \in [Plugins -> Statuses] /\ records' = records
  BY DEF EngineInv, EngineTypes, Restart
<1>2. PICK skipped \in SUBSET Enabled :
        /\ handlers' \in [Commands -> (Enabled \ skipped) \cup {NoPlugin}]
        /\ Reloaded(handlers', Enabled \ skipped)
        /\ adrift' = skipped
  BY DEF Restart
<1> DEFINE loaded == Enabled \ skipped
<1>3. \A c \in Commands :
        IF handlers'[c] = NoPlugin THEN \A p \in loaded : c \notin CommandsOf[p]
        ELSE handlers'[c] \in loaded /\ c \in CommandsOf[handlers'[c]]
  BY <1>2 DEF Reloaded
<1>4. loaded \subseteq Plugins /\ NoPlugin \notin Plugins
  BY CommandsAssumption DEF Enabled
<1>5. handlers' \in Tables
  BY <1>2, <1>3, <1>4 DEF Tables
<1>6. ASSUME NEW p \in Plugins \ adrift'
      PROVE  IF records'[p] = "enabled" THEN ServesOwn(handlers', p) ELSE Silent(handlers', p)
  <2>1. CASE records[p] = "enabled"
    <3>1. p \in loaded
      BY <1>2, <1>6, <2>1 DEF Enabled
    <3>2. \A c \in OwnCommands(p) : handlers'[c] = p
      BY <1>3, <1>4, <3>1, OwnIsCommand
    <3> QED
      BY <1>1, <2>1, <3>2 DEF ServesOwn
  <2>2. CASE records[p] # "enabled"
    <3>1. p \notin loaded /\ p # NoPlugin
      BY <1>4, <2>2 DEF Enabled
    <3>2. \A c \in Commands : handlers'[c] # p
      BY <1>3, <3>1
    <3> QED
      BY <1>1, <2>2, <3>2 DEF Silent
  <2> QED
    BY <2>1, <2>2
<1>7. /\ request' = [t \in Threads |-> NoRequest] /\ hits' = [u \in Users |-> << >>]
      /\ recent' = [u \in Users |-> 0]
  BY DEF Restart
<1>8. (/\ request = [t \in Threads |-> NoRequest] /\ hits = [u \in Users |-> << >>]
       /\ recent = [u \in Users |-> 0] /\ handlers \in Tables /\ records \in [Plugins -> Statuses]
       /\ \A p \in Plugins \ adrift :
            IF records[p] = "enabled" THEN ServesOwn(handlers, p) ELSE Silent(handlers, p))'
      => EngineInv' /\ CountInv'
  BY FreshProcess, PTL
<1> QED
  BY <1>1, <1>5, <1>6, <1>7, <1>8

-----------------------------------------------------------------------------
(* The invariant and what follows from it *)

LEMMA InitEstablishes == EngineInit => EngineInv /\ CountInv
<1> SUFFICES ASSUME EngineInit PROVE EngineInv /\ CountInv
  OBVIOUS
<1>1. \A c \in Commands : handlers[c] = NoPlugin
  BY DEF EngineInit
<1>2. handlers \in Tables /\ records \in [Plugins -> Statuses]
  BY <1>1, CommandsAssumption DEF EngineInit, Tables, Statuses
<1>3. \A p \in Plugins : records[p] # "enabled" /\ Silent(handlers, p)
  BY <1>1, CommandsAssumption DEF Silent, EngineInit
<1> QED
  BY <1>2, <1>3, FreshProcess DEF EngineInit

LEMMA StutteringKeepsInv == EngineInv /\ CountInv /\ UNCHANGED engineVars => EngineInv' /\ CountInv'
<1> SUFFICES ASSUME EngineInv, CountInv, UNCHANGED engineVars PROVE EngineInv' /\ CountInv'
  OBVIOUS
<1>1. EngineTypes'
  BY DEF engineVars, EngineInv, EngineTypes, WellFormed
<1>2. LimiterInv'
  <2>1. /\ request' = request /\ hits' = hits /\ recent' = recent /\ crowded' = crowded
        /\ LimiterInv
    BY DEF engineVars, EngineInv
  <2>2. \A u \in Users : /\ Limiting(u)' = Limiting(u)
                        /\ \A t \in Threads : LimiterAgrees(u, t)' <=> LimiterAgrees(u, t)
    BY <2>1 DEF Limiting, LimiterAgrees
  <2> QED
    BY <2>1, <2>2 DEF LimiterInv
<1>3. TableInv'
  BY DEF engineVars, EngineInv, TableInv, OnCourse, OnPlugin, Busy, Underway, Settled,
         ServedEverywhere, SilentEverywhere, ServesOwn, Silent
<1>4. CountInv'
  <2> SUFFICES ASSUME NEW v \in Users PROVE \E k, lost \in Nat : CountedAs(v, k, lost)'
    BY DEF CountInv
  <2>1. PICK k \in Nat, lost \in Nat : CountedAs(v, k, lost)
    BY DEF CountInv
  <2>2. hits' = hits /\ recent' = recent /\ request' = request
    BY DEF engineVars
  <2>3. Appending(v)' = Appending(v) /\ Popping(v)' = Popping(v)
    BY <2>2 DEF Appending, Popping
  <2> QED
    BY <2>1, <2>2, <2>3, CountFrame, CommandsAssumption
<1> QED
  BY <1>1, <1>2, <1>3, <1>4 DEF EngineInv

LEMMA NextKeepsInv == EngineInv /\ CountInv /\ EngineNext => EngineInv' /\ CountInv'
<1> SUFFICES ASSUME EngineInv, CountInv, EngineNext PROVE EngineInv' /\ CountInv'
  OBVIOUS
<1>1. ASSUME NEW t \in Threads,
             \/ \E p \in Plugins : Install(t, p) \/ Uninstall(t, p)
             \/ LoadCommand(t) \/ UnloadRebind(t)
             \/ ReadRecord(t) \/ CommitRecord(t) \/ CommitFails(t)
      PROVE  EngineInv' /\ CountInv'
  <2>1. EngineInv'
    BY <1>1, BeginKeepsInv, LoadCommandKeepsInv, UnloadRebindKeepsInv, ReadRecordKeepsInv,
       CommitRecordKeepsInv, CommitFailsKeepsInv
  <2> QED
    BY <1>1, <2>1, PluginStepsKeepCount
<1>2. ASSUME NEW t \in Threads,
             \/ \E u \in Users, form \in {"slash", "mention"}, c \in Sent : SendMessage(t, u, form, c)
             \/ Lookup(t) \/ RunCommand(t) \/ Allow(t) \/ AllowPop(t) \/ AllowAppend(t)
             \/ Execute(t) \/ Reply(t)
      PROVE  EngineInv' /\ CountInv'
  <2>1. EngineInv'
    BY <1>2, SendMessageKeepsInv, MessageStepsKeepInv, RunCommandKeepsInv, AllowKeepsInv,
       AllowPopKeepsInv, AllowAppendKeepsInv
  <2> QED
    BY <1>2, <2>1, MessageStepsKeepCount, AllowKeepsCount, AllowPopKeepsCount, AllowAppendKeepsCount
<1>3. CASE \E u \in Users : WindowPasses(u)
  BY <1>3, WindowPassesKeepsCount, WindowPassesKeepsInv DEF EngineInv
<1>4. CASE Restart
  BY <1>4, RestartKeepsInv
<1>5. CASE \E t \in Threads, p \in Plugins : InstallRefused(t, p)
  BY <1>5, StutteringKeepsInv DEF InstallRefused
<1> QED
  BY <1>1, <1>2, <1>3, <1>4, <1>5 DEF EngineNext

LEMMA EngineInvariant == EngineSpec => [](EngineInv /\ CountInv)
BY InitEstablishes, NextKeepsInv, StutteringKeepsInv, PTL DEF EngineSpec

(* A user whose commands pass the limiter one at a time runs at most MaxCalls in
   a window, however many threads serve other users, and is never refused by an
   error of the limiter; and any number of threads that crowd it gain at most two
   calls each beyond the first (RateLimiter.allow). *)
THEOREM LimiterKeepsItsLimit == EngineSpec => []LimiterIsSound
<1>1. EngineInv /\ CountInv => LimiterIsSound
  <2> SUFFICES ASSUME EngineInv, CountInv PROVE LimiterIsSound
    OBVIOUS
  <2>1. \A u \in Users \ crowded :
          /\ recent[u] <= MaxCalls
          /\ \A t \in Threads : request[t].user = u => request[t].seen # "limiter failed"
    BY DEF EngineInv, LimiterInv, LimiterAgrees
  <2>2. ASSUME NEW u \in Users PROVE recent[u] <= MaxCalls + 2 * (Cardinality(Threads) - 1)
    <3>1. PICK k \in Nat, lost \in Nat : CountedAs(u, k, lost)
      BY DEF CountInv
    <3>2. /\ Len(hits[u]) \in Nat /\ MaxCalls \in Nat /\ Further \in Nat
          /\ Cardinality(Appending(u)) \in Nat /\ Cardinality(Popping(u)) \in Nat
      BY LengthIsNat, FurtherIsNat, SomeThreads DEF EngineInv
    <3>3. recent[u] = k + lost /\ k <= Len(hits[u]) /\ Len(hits[u]) <= MaxCalls + Further
      BY <3>1, <3>2 DEF CountedAs, Shape
    <3>4. lost <= Further
      BY <3>1, <3>2 DEF CountedAs
    <3>5. recent[u] <= MaxCalls + 2 * Further
      BY <3>2, <3>3, <3>4
    <3> QED
      BY <3>5 DEF Further
  <2> QED
    BY <2>1, <2>2 DEF LimiterIsSound
<1> QED
  BY <1>1, EngineInvariant, PTL

(* A plugin without a request serves commands only if it is recorded as enabled,
   and then all that are its own, unless it is adrift: for any number of plugins,
   commands shared or not, and requests in any order, an uninstall that puts back
   an old table, a failed commit or a manifest that is gone cost only the plugins
   whose requests met, failed or found no files (PluginRegistry.load and unload,
   install_plugin, uninstall_plugin, _reload_enabled_plugins). *)
THEOREM TableFollowsRecords == EngineSpec => []ServedIsEnabled
<1>1. EngineInv => ServedIsEnabled
  <2> SUFFICES ASSUME EngineInv, NEW p \in Plugins \ adrift,
                      \A t \in Threads : request[t].op \in PluginOps => request[t].plugin # p
               PROVE  /\ \A c \in Commands : handlers[c] = p => p \in Enabled /\ c \in CommandsOf[p]
                      /\ p \in Enabled => \A c \in OwnCommands(p) : handlers[c] = p
    BY DEF ServedIsEnabled, PluginOps
  <2>1. Settled(p)
    BY DEF EngineInv, TableInv, OnCourse, OnPlugin, Busy
  <2>2. handlers \in Tables
    BY DEF EngineInv, EngineTypes
  <2> QED
    BY <2>1, <2>2 DEF Settled, ServedEverywhere, SilentEverywhere, ServesOwn, Silent, Enabled, Tables
<1> QED
  BY <1>1, EngineInvariant, PTL

=============================================================================
