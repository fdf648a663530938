----------------------------- MODULE Membership -----------------------------
(***************************************************************************)
(* Users, bots, channels and the members of one server                     *)
(* (backend/app/core/routers/users.py, bots.py, channels.py, members.py):  *)
(* each request tests the tables, calls the homeserver                     *)
(* (core/matrix_client.py) one call after the other, and commits one row   *)
(* in the end.  Handlers run in threads and share only the database and    *)
(* the homeserver.  The owner and the server exist, as create_server       *)
(* commits them together, and the owner is in every room.                  *)
(***************************************************************************)
EXTENDS Naturals

CONSTANTS
  Handlers,     \* threads of the pool
  People,       \* users and bots that may be created
  AccountOf,    \* their localparts in Matrix: of bot "x" it is "bot.x", and a
                \* user may have that name
  MaxRooms,     \* bound: rooms created
  Nobody

ASSUME RoomsAssumption == MaxRooms \in Nat

Rooms == 1..MaxRooms

VARIABLES
  accounts,     \* accounts registered with the homeserver
  roomCount,    \* rooms created there
  joined,       \* per room, the accounts that joined it besides the owner's
  rows,         \* tables users and bots
  channels,     \* table channels of the server: the rooms
  members,      \* server_members and bot_server_links of the server
  task,         \* per handler, the request it works on
  owed          \* history: per member, the channels there were when its add began

memberVars == <<accounts, roomCount, joined, rows, channels, members, task, owed>>

NewTask(pc, who, had) == [pc |-> pc, who |-> who, room |-> 0, todo |-> {}, had |-> had]
NoTask == NewTask("idle", Nobody, {})

MemberInit ==
  /\ accounts = {} /\ rows = {} /\ members = {} /\ channels = {}
  /\ roomCount = 0
  /\ joined = [r \in Rooms |-> {}]
  /\ task = [h \in Handlers |-> NoTask]
  /\ owed = [p \in People |-> {}]

SetTask(h, t) == task' = [task EXCEPT ![h] = t]
Step(h, pc) == SetTask(h, [task[h] EXCEPT !.pc = pc])
ToRoom(h, pc, r) == [task[h] EXCEPT !.pc = pc, !.room = r]
Waits(h, pc) == task[h].pc = pc

homeserver == <<accounts, roomCount, joined>>
database == <<rows, channels, members, owed>>

-----------------------------------------------------------------------------
(* create_user and create_bot *)

Create(h, p) ==
  /\ Waits(h, "idle") /\ p \notin rows
  /\ SetTask(h, NewTask("register", p, {}))
  /\ UNCHANGED <<homeserver, database>>

\* Mutant: an account that exists already is taken for the new one.
RegisterReuses(h) ==
  /\ Waits(h, "register")
  /\ accounts' = accounts \cup {AccountOf[task[h].who]}
  /\ Step(h, "row")
  /\ UNCHANGED <<roomCount, joined, database>>

\* A name that is taken in Matrix is refused, which ends the request with 502.
Register(h) ==
  LET account == AccountOf[task[h].who] IN
  /\ Waits(h, "register")
  /\ accounts' = accounts \cup {account}
  /\ IF account \in accounts THEN SetTask(h, NoTask) ELSE Step(h, "row")
  /\ UNCHANGED <<roomCount, joined, database>>

\* The unique index refuses a second row.
InsertRow(h) ==
  /\ Waits(h, "row")
  /\ rows' = rows \cup {task[h].who}
  /\ SetTask(h, NoTask)
  /\ UNCHANGED <<homeserver, channels, members, owed>>

-----------------------------------------------------------------------------
(* create_channel *)

CreateChannel(h) ==
  /\ Waits(h, "idle")
  /\ SetTask(h, NewTask("room", Nobody, {}))
  /\ UNCHANGED <<homeserver, database>>

\* Nobody but the owner is invited, now or later.
CreateRoom(h) ==
  /\ Waits(h, "room") /\ roomCount < MaxRooms
  /\ roomCount' = roomCount + 1
  /\ SetTask(h, ToRoom(h, "channel", roomCount'))
  /\ UNCHANGED <<accounts, joined, database>>

InsertChannel(h) ==
  /\ Waits(h, "channel")
  /\ channels' = channels \cup {task[h].room}
  /\ SetTask(h, NoTask)
  /\ UNCHANGED <<homeserver, rows, members, owed>>

-----------------------------------------------------------------------------
(* add_member and add_bot_to_server *)

Add(h, p) ==
  /\ Waits(h, "idle") /\ p \in rows /\ p \notin members
  /\ SetTask(h, NewTask("channels", p, channels))
  /\ UNCHANGED <<homeserver, database>>

\* The next channel of those read, the membership after the last one.
Turn(t) == [t EXCEPT !.pc = IF t.todo = {} THEN "member" ELSE "invite"]

ReadChannels(h) ==
  /\ Waits(h, "channels")
  /\ SetTask(h, Turn([task[h] EXCEPT !.todo = channels]))
  /\ UNCHANGED <<homeserver, database>>

\* Mutant: a refused invitation is taken for a channel that is done with.
InviteIgnored(h) ==
  /\ Waits(h, "invite")
  /\ \E r \in task[h].todo :
       \/ SetTask(h, ToRoom(h, "join", r))
       \/ SetTask(h, Turn([task[h] EXCEPT !.todo = @ \ {r}]))
  /\ UNCHANGED <<homeserver, database>>

\* Matrix refuses to invite an account that is in the room.
Invite(h) ==
  /\ Waits(h, "invite")
  /\ \E r \in task[h].todo :
       SetTask(h, IF AccountOf[task[h].who] \in joined[r] THEN NoTask
                  ELSE ToRoom(h, "join", r))
  /\ UNCHANGED <<homeserver, database>>

Join(h) ==
  LET t == task[h] IN
  /\ Waits(h, "join")
  /\ joined' = [joined EXCEPT ![t.room] = @ \cup {AccountOf[t.who]}]
  /\ SetTask(h, Turn([t EXCEPT !.todo = @ \ {t.room}]))
  /\ UNCHANGED <<accounts, roomCount, database>>

\* The primary key refuses a second membership.
InsertMember(h) ==
  LET t == task[h] IN
  /\ Waits(h, "member")
  /\ members' = members \cup {t.who}
  /\ owed' = IF t.who \in members THEN owed ELSE [owed EXCEPT ![t.who] = t.had]
  /\ SetTask(h, NoTask)
  /\ UNCHANGED <<homeserver, rows, channels>>

-----------------------------------------------------------------------------

\* A call to the homeserver or the commit fails, or the answer of the call
\* before was lost: the request ends, what the homeserver did stays.
Fails(h) ==
  /\ ~Waits(h, "idle")
  /\ SetTask(h, NoTask)
  /\ UNCHANGED <<homeserver, database>>

MemberNext ==
  \E h \in Handlers :
    \/ \E p \in People : Create(h, p) \/ Add(h, p)
    \/ Register(h) \/ InsertRow(h)
    \/ CreateChannel(h) \/ CreateRoom(h) \/ InsertChannel(h)
    \/ ReadChannels(h) \/ Invite(h) \/ Join(h) \/ InsertMember(h)
    \/ Fails(h)

MemberSpec == MemberInit /\ [][MemberNext]_memberVars

-----------------------------------------------------------------------------
(* Properties *)

(* Users and bots share the name space of the homeserver, not a table: rows of
   either kind, from whatever requests raced, never hold one account between
   them, and every row has its account. *)
OneRowPerAccount ==
  /\ \A p \in rows : AccountOf[p] \in accounts
  /\ \A p, q \in rows : p # q => AccountOf[p] # AccountOf[q]

(* A member, or a bot of the server, has joined the room of every channel there
   was when its add began, whatever adds and channel creations ran meanwhile and
   whichever of them broke off in the middle. *)
MembersAreInTheRooms ==
  \A p \in members : \A r \in owed[p] : AccountOf[p] \in joined[r]

=============================================================================
