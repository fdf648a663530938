------------------------------ MODULE MCCoreApi ------------------------------
(* Three parts of the core API that share no state, in one run: the        *)
(* initial state chooses the part that moves.  The bot engine moves in two *)
(* bounds: plugin requests two at a time and no messages, or messages two  *)
(* at a time and one plugin request.                                       *)
EXTENDS BotEngine, Membership, MusicBot, TLC

CONSTANTS p1, p2, k1, k2, sor, alice, botx, xbot, accAlice, accBotx

PluginCommands == (p1 :> {k1, k2}) @@ (p2 :> {k2, sor})
\* A user named "bot.x" and a bot named "x" want the same account.
PeopleAccounts == (alice :> accAlice) @@ (botx :> accBotx) @@ (xbot :> accBotx)

Symmetry == Permutations(Threads) \cup Permutations(Handlers) \cup Permutations(VoiceChannels)

VARIABLE part

CoreInit ==
  /\ EngineInit /\ MemberInit /\ MusicInit
  /\ part \in {"plugins", "messages", "members", "music"}

\* The threads that handle a plugin request.
Administering == {t \in Threads : request[t].op \in {"install", "uninstall"}}

CoreNext ==
  \/ /\ part \in {"plugins", "messages"} /\ EngineNext
     /\ IF part = "plugins" THEN \A t \in Threads : request'[t].op # "message"
                            ELSE \A t, x \in Administering' : t = x
     /\ UNCHANGED <<memberVars, musicVars, part>>
  \/ part = "members" /\ MemberNext /\ UNCHANGED <<engineVars, musicVars, part>>
  \/ part = "music"   /\ MusicNext  /\ UNCHANGED <<engineVars, memberVars, part>>

CoreSpec == CoreInit /\ [][CoreNext]_<<engineVars, memberVars, musicVars, part>>

=============================================================================
