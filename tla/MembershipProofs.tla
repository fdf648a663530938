-------------------------- MODULE MembershipProofs --------------------------
(***************************************************************************)
(* Proofs about Membership, for any number of handlers, people, accounts   *)
(* and rooms: the two properties that requests in concurrent threads, each *)
(* broken off at any step, must not lose.                                  *)
(***************************************************************************)
EXTENDS Membership, TLAPS

Accounts == {AccountOf[p] : p \in People}

\* Steps of a request that works for somebody.
WithWho == {"register", "row", "channels", "invite", "join", "member"}

Task == [pc   : WithWho \cup {"idle", "room", "channel"},
         who  : People \cup {Nobody},
         room : 0..MaxRooms,
         todo : SUBSET Rooms,
         had  : SUBSET Rooms]

\* Tables, rooms and requests keep their types.
MemberTypeOK ==
  /\ rows \subseteq People /\ members \subseteq People
  /\ roomCount \in 0..MaxRooms
  /\ channels \subseteq Rooms
  /\ joined \in [Rooms -> SUBSET Accounts]
  /\ task \in [Handlers -> Task]
  /\ owed \in [People -> SUBSET Rooms]
  /\ \A h \in Handlers :
       /\ task[h].pc \in WithWho => task[h].who \in People
       /\ task[h].pc \in {"channel", "join"} => task[h].room \in Rooms

\* A request before its commit holds an account of its own: registered, without
\* a row, and not held by any other request.
AccountsAreHeld ==
  /\ \A h \in Handlers : task[h].pc = "row" =>
       /\ AccountOf[task[h].who] \in accounts
       /\ \A p \in rows : AccountOf[p] # AccountOf[task[h].who]
  /\ \A h, k \in Handlers : h # k /\ task[h].pc = "row" /\ task[k].pc = "row" =>
       AccountOf[task[h].who] # AccountOf[task[k].who]

\* An add has joined, or still has to do, every channel there was when it began.
AddsAreComplete ==
  \A h \in Handlers :
    /\ task[h].pc = "channels" => task[h].had \subseteq channels
    /\ task[h].pc \in {"invite", "join", "member"} =>
         \A r \in task[h].had \ task[h].todo : AccountOf[task[h].who] \in joined[r]
    /\ task[h].pc = "member" => task[h].todo = {}

MemberInv == /\ MemberTypeOK
             /\ OneRowPerAccount /\ AccountsAreHeld
             /\ MembersAreInTheRooms /\ AddsAreComplete

-----------------------------------------------------------------------------
(* Lemmas about single requests *)

\* A step of one handler replaces its request only.
LEMMA SetTaskEffect ==
  ASSUME task \in [Handlers -> Task], NEW h \in Handlers, NEW t \in Task, SetTask(h, t)
  PROVE  /\ task' \in [Handlers -> Task]
         /\ task'[h] = t
         /\ \A k \in Handlers : k # h => task'[k] = task[k]
BY DEF SetTask

\* Moving on changes the statement a request is at.
LEMMA WithPc ==
  ASSUME NEW t \in Task, NEW pc \in WithWho \cup {"idle", "room", "channel"}
  PROVE  /\ [t EXCEPT !.pc = pc] \in Task
         /\ [t EXCEPT !.pc = pc].pc = pc
         /\ [t EXCEPT !.pc = pc].who = t.who
         /\ [t EXCEPT !.pc = pc].room = t.room
         /\ [t EXCEPT !.pc = pc].todo = t.todo
         /\ [t EXCEPT !.pc = pc].had = t.had
BY DEF Task

\* So does the choice between the next channel and the membership.
LEMMA TurnEffect ==
  ASSUME NEW t \in Task
  PROVE  /\ Turn(t) \in Task
         /\ Turn(t).pc \in {"invite", "member"}
         /\ Turn(t).pc = "member" => t.todo = {}
         /\ Turn(t).who = t.who
         /\ Turn(t).room = t.room
         /\ Turn(t).todo = t.todo
         /\ Turn(t).had = t.had
<1> DEFINE pc == IF t.todo = {} THEN "member" ELSE "invite"
<1>1. Turn(t) = [t EXCEPT !.pc = pc]
  BY DEF Turn
<1>2. pc \in WithWho /\ pc \in {"invite", "member"} /\ (pc = "member" => t.todo = {})
  BY DEF WithWho
<1> HIDE DEF pc
<1> QED
  BY <1>1, <1>2, WithPc

\* Room 0 stands for none.
LEMMA RoomsFrom0 == 0 \in 0..MaxRooms /\ Rooms \subseteq 0..MaxRooms
BY RoomsAssumption DEF Rooms

\* A request that begins.
LEMMA NewTaskIsTask ==
  ASSUME NEW pc \in WithWho \cup {"idle", "room"}, NEW who \in People \cup {Nobody},
         NEW had \in SUBSET Rooms
  PROVE  /\ NewTask(pc, who, had) \in Task
         /\ NewTask(pc, who, had).pc = pc
         /\ NewTask(pc, who, had).who = who
         /\ NewTask(pc, who, had).had = had
BY RoomsFrom0 DEF NewTask, Task

\* A request turns to a room.
LEMMA ToRoomEffect ==
  ASSUME NEW h \in Handlers, task[h] \in Task,
         NEW pc \in WithWho \cup {"idle", "room", "channel"}, NEW r \in 0..MaxRooms
  PROVE  /\ ToRoom(h, pc, r) \in Task
         /\ ToRoom(h, pc, r).pc = pc
         /\ ToRoom(h, pc, r).who = task[h].who
         /\ ToRoom(h, pc, r).room = r
         /\ ToRoom(h, pc, r).todo = task[h].todo
         /\ ToRoom(h, pc, r).had = task[h].had
<1> DEFINE t == task[h]
<1>1. t \in Task
  OBVIOUS
<1>2. ToRoom(h, pc, r) = [t EXCEPT !.pc = pc, !.room = r]
  BY DEF ToRoom
<1> HIDE DEF t
<1>3. /\ [t EXCEPT !.pc = pc, !.room = r] \in Task
      /\ [t EXCEPT !.pc = pc, !.room = r].pc = pc
      /\ [t EXCEPT !.pc = pc, !.room = r].who = t.who
      /\ [t EXCEPT !.pc = pc, !.room = r].room = r
      /\ [t EXCEPT !.pc = pc, !.room = r].todo = t.todo
      /\ [t EXCEPT !.pc = pc, !.room = r].had = t.had
  BY <1>1 DEF Task
<1> QED
  BY <1>2, <1>3 DEF t

\* The request of an idle thread.
LEMMA NoTaskIsTask == NoTask \in Task /\ NoTask.pc = "idle"
BY NewTaskIsTask DEF NoTask

-----------------------------------------------------------------------------
(* Steps that change nothing but the request itself *)

\* What a request may be, given the tables and the rooms.
Orderly(t) ==
  /\ t.pc \in WithWho => t.who \in People
  /\ t.pc \in {"channel", "join"} => t.room \in Rooms
  /\ t.pc # "row"
  /\ t.pc = "channels" => t.had \subseteq channels
  /\ t.pc \in {"invite", "join", "member"} =>
       \A r \in t.had \ t.todo : AccountOf[t.who] \in joined[r]
  /\ t.pc = "member" => t.todo = {}

\* A request that goes on, or ends, takes nothing from the others.
LEMMA GoOnKeepsInv ==
  ASSUME MemberInv, NEW h \in Handlers, NEW t \in Task, SetTask(h, t), Orderly(t),
         UNCHANGED <<homeserver, database>>
  PROVE  MemberInv'
<1>1. /\ task' \in [Handlers -> Task]
      /\ task'[h] = t
      /\ \A k \in Handlers : k # h => task'[k] = task[k]
  BY SetTaskEffect DEF MemberInv, MemberTypeOK
<1>2. /\ rows' = rows /\ members' = members /\ channels' = channels /\ owed' = owed
      /\ accounts' = accounts /\ roomCount' = roomCount /\ joined' = joined
  BY DEF homeserver, database
<1>3. MemberTypeOK'
  BY <1>1, <1>2 DEF MemberInv, MemberTypeOK, Orderly
<1>4. OneRowPerAccount' /\ MembersAreInTheRooms'
  BY <1>2 DEF MemberInv, OneRowPerAccount, MembersAreInTheRooms
<1>5. AccountsAreHeld'
  BY <1>1, <1>2 DEF MemberInv, AccountsAreHeld, Orderly
<1>6. AddsAreComplete'
  BY <1>1, <1>2 DEF MemberInv, AddsAreComplete, Orderly
<1> QED
  BY <1>3, <1>4, <1>5, <1>6 DEF MemberInv

\* An idle request owes nothing.
LEMMA NoTaskIsOrderly == Orderly(NoTask)
BY NoTaskIsTask DEF Orderly, WithWho

LEMMA FailsKeepsInv ==
  ASSUME MemberInv, NEW h \in Handlers, Fails(h)
  PROVE  MemberInv'
BY GoOnKeepsInv, NoTaskIsTask, NoTaskIsOrderly DEF Fails

LEMMA CreateKeepsInv ==
  ASSUME MemberInv, NEW h \in Handlers, NEW p \in People, Create(h, p)
  PROVE  MemberInv'
<1> DEFINE t == NewTask("register", p, {})
<1>1. t \in Task /\ t.pc = "register" /\ t.who = p
  BY NewTaskIsTask DEF WithWho
<1>2. SetTask(h, t) /\ UNCHANGED <<homeserver, database>>
  BY DEF Create
<1> HIDE DEF t
<1>3. Orderly(t)
  BY <1>1 DEF Orderly
<1> QED
  BY <1>1, <1>2, <1>3, GoOnKeepsInv

LEMMA CreateChannelKeepsInv ==
  ASSUME MemberInv, NEW h \in Handlers, CreateChannel(h)
  PROVE  MemberInv'
<1> DEFINE t == NewTask("room", Nobody, {})
<1>1. t \in Task /\ t.pc = "room"
  BY NewTaskIsTask
<1>2. SetTask(h, t) /\ UNCHANGED <<homeserver, database>>
  BY DEF CreateChannel
<1> HIDE DEF t
<1>3. Orderly(t)
  BY <1>1 DEF Orderly, WithWho
<1> QED
  BY <1>1, <1>2, <1>3, GoOnKeepsInv

LEMMA AddKeepsInv ==
  ASSUME MemberInv, NEW h \in Handlers, NEW p \in People, Add(h, p)
  PROVE  MemberInv'
<1> DEFINE t == NewTask("channels", p, channels)
<1>1. channels \subseteq Rooms
  BY DEF MemberInv, MemberTypeOK
<1>2. t \in Task /\ t.pc = "channels" /\ t.who = p /\ t.had = channels
  BY <1>1, NewTaskIsTask DEF WithWho
<1>3. SetTask(h, t) /\ UNCHANGED <<homeserver, database>>
  BY DEF Add
<1> HIDE DEF t
<1>4. Orderly(t)
  BY <1>2 DEF Orderly
<1> QED
  BY <1>2, <1>3, <1>4, GoOnKeepsInv

\* Every channel of "had" is among those read now, so all are still to do.
LEMMA ReadChannelsKeepsInv ==
  ASSUME MemberInv, NEW h \in Handlers, ReadChannels(h)
  PROVE  MemberInv'
<1> DEFINE s == [task[h] EXCEPT !.todo = channels]
<1>1. task[h] \in Task /\ task[h].pc = "channels" /\ task[h].who \in People
  BY DEF ReadChannels, Waits, MemberInv, MemberTypeOK, WithWho
<1>2. channels \subseteq Rooms /\ task[h].had \subseteq channels
  BY <1>1 DEF MemberInv, MemberTypeOK, AddsAreComplete
<1>3. s \in Task /\ s.who = task[h].who /\ s.todo = channels /\ s.had = task[h].had
  BY <1>1, <1>2 DEF Task
<1>4. Turn(s) \in Task /\ Orderly(Turn(s))
  <2> HIDE DEF s
  <2> QED
    BY <1>1, <1>2, <1>3, TurnEffect DEF Orderly
<1> QED
  BY <1>4, GoOnKeepsInv DEF ReadChannels

LEMMA InviteKeepsInv ==
  ASSUME MemberInv, NEW h \in Handlers, Invite(h)
  PROVE  MemberInv'
<1>1. task[h] \in Task /\ task[h].pc = "invite" /\ task[h].who \in People
  BY DEF Invite, Waits, MemberInv, MemberTypeOK, WithWho
<1>2. PICK r \in task[h].todo :
        SetTask(h, IF AccountOf[task[h].who] \in joined[r] THEN NoTask
                   ELSE ToRoom(h, "join", r))
  BY DEF Invite
<1>3. UNCHANGED <<homeserver, database>>
  BY DEF Invite
<1>4. CASE AccountOf[task[h].who] \in joined[r]
  BY <1>2, <1>3, <1>4, GoOnKeepsInv, NoTaskIsTask, NoTaskIsOrderly
<1>5. CASE AccountOf[task[h].who] \notin joined[r]
  <2> DEFINE t == ToRoom(h, "join", r)
  <2>1. r \in Rooms
    BY <1>1, <1>2 DEF Task
  <2>2. /\ t \in Task /\ t.pc = "join" /\ t.room = r /\ t.who = task[h].who
        /\ t.todo = task[h].todo /\ t.had = task[h].had
    BY <1>1, <2>1, RoomsFrom0, ToRoomEffect DEF WithWho
  <2>3. \A q \in task[h].had \ task[h].todo : AccountOf[task[h].who] \in joined[q]
    BY <1>1 DEF MemberInv, AddsAreComplete
  <2>4. SetTask(h, t)
    BY <1>2, <1>5
  <2> HIDE DEF t
  <2>5. Orderly(t)
    BY <1>1, <2>1, <2>2, <2>3 DEF Orderly
  <2> QED
    BY <1>3, <2>2, <2>4, <2>5, GoOnKeepsInv
<1> QED
  BY <1>4, <1>5

-----------------------------------------------------------------------------
(* Steps that change the homeserver or a table *)

\* An account that is new belongs to no row and to no other request.
LEMMA RegisterKeepsInv ==
  ASSUME MemberInv, NEW h \in Handlers, Register(h)
  PROVE  MemberInv'
<1> DEFINE account == AccountOf[task[h].who]
<1>1. task[h] \in Task /\ task[h].pc = "register" /\ task[h].who \in People
  BY DEF Register, Waits, MemberInv, MemberTypeOK, WithWho
<1>2. /\ rows' = rows /\ members' = members /\ channels' = channels /\ owed' = owed
      /\ roomCount' = roomCount /\ joined' = joined
      /\ accounts' = accounts \cup {account}
  BY DEF Register, database
<1>3. CASE account \in accounts
  <2>1. accounts' = accounts
    BY <1>2, <1>3
  <2>2. SetTask(h, NoTask)
    BY <1>3 DEF Register
  <2> QED
    BY <1>2, <2>1, <2>2, GoOnKeepsInv, NoTaskIsTask, NoTaskIsOrderly DEF homeserver, database
<1>4. CASE account \notin accounts
  <2> DEFINE t == [task[h] EXCEPT !.pc = "row"]
  <2>1. t \in Task /\ t.pc = "row" /\ t.who = task[h].who
    BY <1>1, WithPc DEF WithWho
  <2>2. SetTask(h, t)
    BY <1>4 DEF Register, Step
  <2> HIDE DEF t
  <2>3. /\ task' \in [Handlers -> Task]
        /\ task'[h] = t
        /\ \A k \in Handlers : k # h => task'[k] = task[k]
    BY <2>1, <2>2, SetTaskEffect DEF MemberInv, MemberTypeOK
  <2>4. MemberTypeOK'
    BY <1>1, <1>2, <2>1, <2>3 DEF MemberInv, MemberTypeOK
  <2>5. OneRowPerAccount' /\ MembersAreInTheRooms'
    BY <1>2 DEF MemberInv, OneRowPerAccount, MembersAreInTheRooms
  <2>6. \A p \in rows : AccountOf[p] # account
    BY <1>4 DEF MemberInv, OneRowPerAccount
  <2>7. \A k \in Handlers : task[k].pc = "row" => AccountOf[task[k].who] # account
    BY <1>4 DEF MemberInv, AccountsAreHeld
  <2>8. AccountsAreHeld'
    BY <1>2, <2>1, <2>3, <2>6, <2>7 DEF MemberInv, AccountsAreHeld
  <2>9. AddsAreComplete'
    BY <1>2, <2>1, <2>3 DEF MemberInv, AddsAreComplete
  <2> QED
    BY <2>4, <2>5, <2>8, <2>9 DEF MemberInv
<1> QED
  BY <1>3, <1>4

\* The row takes the account that its request held.
LEMMA InsertRowKeepsInv ==
  ASSUME MemberInv, NEW h \in Handlers, InsertRow(h)
  PROVE  MemberInv'
<1>1. task[h] \in Task /\ task[h].pc = "row" /\ task[h].who \in People
  BY DEF InsertRow, Waits, MemberInv, MemberTypeOK, WithWho
<1>2. /\ members' = members /\ channels' = channels /\ owed' = owed
      /\ accounts' = accounts /\ roomCount' = roomCount /\ joined' = joined
      /\ rows' = rows \cup {task[h].who}
  BY DEF InsertRow, homeserver
<1>3. /\ task' \in [Handlers -> Task]
      /\ task'[h] = NoTask
      /\ \A k \in Handlers : k # h => task'[k] = task[k]
  BY SetTaskEffect, NoTaskIsTask DEF InsertRow, MemberInv, MemberTypeOK
<1>4. MemberTypeOK'
  BY <1>1, <1>2, <1>3, NoTaskIsTask DEF MemberInv, MemberTypeOK, WithWho
<1>5. OneRowPerAccount'
  BY <1>1, <1>2 DEF MemberInv, OneRowPerAccount, AccountsAreHeld
<1>6. MembersAreInTheRooms'
  BY <1>2 DEF MemberInv, MembersAreInTheRooms
<1>7. AccountsAreHeld'
  BY <1>1, <1>2, <1>3, NoTaskIsTask DEF MemberInv, AccountsAreHeld
<1>8. AddsAreComplete'
  BY <1>2, <1>3, NoTaskIsTask DEF MemberInv, AddsAreComplete
<1> QED
  BY <1>4, <1>5, <1>6, <1>7, <1>8 DEF MemberInv

LEMMA CreateRoomKeepsInv ==
  ASSUME MemberInv, NEW h \in Handlers, CreateRoom(h)
  PROVE  MemberInv'
<1>1. task[h] \in Task /\ task[h].pc = "room"
  BY DEF CreateRoom, Waits, MemberInv, MemberTypeOK
<1>2. /\ rows' = rows /\ members' = members /\ channels' = channels /\ owed' = owed
      /\ accounts' = accounts /\ joined' = joined
      /\ roomCount < MaxRooms /\ roomCount' = roomCount + 1
  BY DEF CreateRoom, database
<1>3. roomCount' \in Rooms /\ roomCount' \in 0..MaxRooms
  BY <1>2, RoomsAssumption DEF Rooms, MemberInv, MemberTypeOK
<1> DEFINE r == roomCount'
           t == ToRoom(h, "channel", r)
<1>4. t \in Task /\ t.pc = "channel" /\ t.room = r
  BY <1>1, <1>3, ToRoomEffect
<1>5. SetTask(h, t)
  BY DEF CreateRoom
<1> HIDE DEF t
<1>6. /\ task' \in [Handlers -> Task]
      /\ task'[h] = t
      /\ \A k \in Handlers : k # h => task'[k] = task[k]
  BY <1>4, <1>5, SetTaskEffect DEF MemberInv, MemberTypeOK
<1>7. MemberTypeOK'
  BY <1>2, <1>3, <1>4, <1>6 DEF MemberInv, MemberTypeOK, WithWho
<1>8. OneRowPerAccount' /\ MembersAreInTheRooms'
  BY <1>2 DEF MemberInv, OneRowPerAccount, MembersAreInTheRooms
<1>9. AccountsAreHeld'
  BY <1>2, <1>4, <1>6 DEF MemberInv, AccountsAreHeld
<1>10. AddsAreComplete'
  BY <1>2, <1>4, <1>6 DEF MemberInv, AddsAreComplete
<1> QED
  BY <1>7, <1>8, <1>9, <1>10 DEF MemberInv

\* A new channel is owed to nobody whose add began before.
LEMMA InsertChannelKeepsInv ==
  ASSUME MemberInv, NEW h \in Handlers, InsertChannel(h)
  PROVE  MemberInv'
<1>1. task[h] \in Task /\ task[h].pc = "channel" /\ task[h].room \in Rooms
  BY DEF InsertChannel, Waits, MemberInv, MemberTypeOK
<1>2. /\ rows' = rows /\ members' = members /\ owed' = owed
      /\ accounts' = accounts /\ roomCount' = roomCount /\ joined' = joined
      /\ channels' = channels \cup {task[h].room}
  BY DEF InsertChannel, homeserver
<1>3. /\ task' \in [Handlers -> Task]
      /\ task'[h] = NoTask
      /\ \A k \in Handlers : k # h => task'[k] = task[k]
  BY SetTaskEffect, NoTaskIsTask DEF InsertChannel, MemberInv, MemberTypeOK
<1>4. MemberTypeOK'
  BY <1>1, <1>2, <1>3, NoTaskIsTask DEF MemberInv, MemberTypeOK, WithWho
<1>5. OneRowPerAccount' /\ MembersAreInTheRooms'
  BY <1>2 DEF MemberInv, OneRowPerAccount, MembersAreInTheRooms
<1>6. AccountsAreHeld'
  BY <1>2, <1>3, NoTaskIsTask DEF MemberInv, AccountsAreHeld
<1>7. AddsAreComplete'
  BY <1>2, <1>3, NoTaskIsTask DEF MemberInv, AddsAreComplete
<1> QED
  BY <1>4, <1>5, <1>6, <1>7 DEF MemberInv

\* The room that was joined is no longer to do.
LEMMA JoinKeepsInv ==
  ASSUME MemberInv, NEW h \in Handlers, Join(h)
  PROVE  MemberInv'
<1> DEFINE r == task[h].room
           a == AccountOf[task[h].who]
           s == [task[h] EXCEPT !.todo = @ \ {r}]
<1>1. task[h] \in Task /\ task[h].pc = "join" /\ task[h].who \in People /\ r \in Rooms
  BY DEF Join, Waits, MemberInv, MemberTypeOK, WithWho
<1>2. /\ rows' = rows /\ members' = members /\ channels' = channels /\ owed' = owed
      /\ accounts' = accounts /\ roomCount' = roomCount
      /\ joined' = [joined EXCEPT ![r] = @ \cup {a}]
  BY DEF Join, database
<1>3. /\ joined' \in [Rooms -> SUBSET Accounts]
      /\ a \in joined'[r]
      /\ \A q \in Rooms : joined[q] \subseteq joined'[q]
  BY <1>1, <1>2 DEF MemberInv, MemberTypeOK, Accounts
<1>4. s \in Task /\ s.who = task[h].who /\ s.todo = task[h].todo \ {r} /\ s.had = task[h].had
  BY <1>1 DEF Task
<1>5. SetTask(h, Turn(s))
  BY DEF Join
<1> HIDE DEF s
<1> DEFINE t == Turn(s)
<1>6. /\ t \in Task /\ t.pc \in {"invite", "member"} /\ (t.pc = "member" => t.todo = {})
      /\ t.who = task[h].who /\ t.todo = task[h].todo \ {r} /\ t.had = task[h].had
  BY <1>4, TurnEffect
<1> HIDE DEF t
<1>7. /\ task' \in [Handlers -> Task]
      /\ task'[h] = t
      /\ \A k \in Handlers : k # h => task'[k] = task[k]
  BY <1>5, <1>6, SetTaskEffect DEF MemberInv, MemberTypeOK, t
<1>8. MemberTypeOK'
  BY <1>1, <1>2, <1>3, <1>6, <1>7 DEF MemberInv, MemberTypeOK
<1>9. OneRowPerAccount'
  BY <1>2 DEF MemberInv, OneRowPerAccount
<1>10. MembersAreInTheRooms'
  BY <1>2, <1>3 DEF MemberInv, MemberTypeOK, MembersAreInTheRooms
<1>11. AccountsAreHeld'
  BY <1>2, <1>6, <1>7 DEF MemberInv, AccountsAreHeld
<1>12. \A q \in t.had \ t.todo : a \in joined'[q]
  <2> SUFFICES ASSUME NEW q \in t.had \ t.todo PROVE a \in joined'[q]
    OBVIOUS
  <2>1. q \in Rooms
    BY <1>6 DEF Task
  <2>2. CASE q = r
    BY <1>3, <2>2
  <2>3. CASE q # r
    BY <1>1, <1>3, <1>6, <2>1, <2>3 DEF MemberInv, AddsAreComplete
  <2> QED
    BY <2>2, <2>3
<1>13. \A k \in Handlers : task[k].had \subseteq Rooms
  BY DEF MemberInv, MemberTypeOK, Task
<1>14. AddsAreComplete'
  BY <1>2, <1>3, <1>6, <1>7, <1>12, <1>13 DEF MemberInv, AddsAreComplete
<1> QED
  BY <1>8, <1>9, <1>10, <1>11, <1>14 DEF MemberInv

\* The membership is committed when nothing is left to do.
LEMMA InsertMemberKeepsInv ==
  ASSUME MemberInv, NEW h \in Handlers, InsertMember(h)
  PROVE  MemberInv'
<1>1. task[h] \in Task /\ task[h].pc = "member" /\ task[h].who \in People
  BY DEF InsertMember, Waits, MemberInv, MemberTypeOK, WithWho
<1>2. /\ rows' = rows /\ channels' = channels
      /\ accounts' = accounts /\ roomCount' = roomCount /\ joined' = joined
      /\ members' = members \cup {task[h].who}
      /\ owed' = IF task[h].who \in members THEN owed ELSE [owed EXCEPT ![task[h].who] = task[h].had]
  BY DEF InsertMember, homeserver
<1>3. /\ task' \in [Handlers -> Task]
      /\ task'[h] = NoTask
      /\ \A k \in Handlers : k # h => task'[k] = task[k]
  BY SetTaskEffect, NoTaskIsTask DEF InsertMember, MemberInv, MemberTypeOK
<1>4. owed' \in [People -> SUBSET Rooms]
  BY <1>1, <1>2 DEF MemberInv, MemberTypeOK, Task
<1>5. MemberTypeOK'
  BY <1>1, <1>2, <1>3, <1>4, NoTaskIsTask DEF MemberInv, MemberTypeOK, WithWho
<1>6. OneRowPerAccount'
  BY <1>2 DEF MemberInv, OneRowPerAccount
<1>7. \A r \in task[h].had : AccountOf[task[h].who] \in joined[r]
  BY <1>1 DEF MemberInv, AddsAreComplete
<1>8. MembersAreInTheRooms'
  BY <1>1, <1>2, <1>7 DEF MemberInv, MemberTypeOK, MembersAreInTheRooms
<1>9. AccountsAreHeld'
  BY <1>2, <1>3, NoTaskIsTask DEF MemberInv, AccountsAreHeld
<1>10. AddsAreComplete'
  BY <1>2, <1>3, NoTaskIsTask DEF MemberInv, AddsAreComplete
<1> QED
  BY <1>5, <1>6, <1>8, <1>9, <1>10 DEF MemberInv

-----------------------------------------------------------------------------
(* The invariant and what follows from it *)

LEMMA InitEstablishes == MemberInit => MemberInv
<1> SUFFICES ASSUME MemberInit PROVE MemberInv
  OBVIOUS
<1>1. \A h \in Handlers : task[h] = NoTask
  BY DEF MemberInit
<1>2. MemberTypeOK
  BY <1>1, NoTaskIsTask, RoomsAssumption DEF MemberInit, MemberTypeOK, WithWho
<1>3. OneRowPerAccount /\ MembersAreInTheRooms
  BY DEF MemberInit, OneRowPerAccount, MembersAreInTheRooms
<1>4. AccountsAreHeld /\ AddsAreComplete
  BY <1>1, NoTaskIsTask DEF AccountsAreHeld, AddsAreComplete
<1> QED
  BY <1>2, <1>3, <1>4 DEF MemberInv

LEMMA StutteringKeepsInv == MemberInv /\ UNCHANGED memberVars => MemberInv'
BY DEF memberVars, MemberInv, MemberTypeOK, OneRowPerAccount, AccountsAreHeld,
       MembersAreInTheRooms, AddsAreComplete

LEMMA NextKeepsInv == MemberInv /\ MemberNext => MemberInv'
<1> SUFFICES ASSUME MemberInv, NEW h \in Handlers,
                    \/ \E p \in People : Create(h, p) \/ Add(h, p)
                    \/ Register(h) \/ InsertRow(h)
                    \/ CreateChannel(h) \/ CreateRoom(h) \/ InsertChannel(h)
                    \/ ReadChannels(h) \/ Invite(h) \/ Join(h) \/ InsertMember(h)
                    \/ Fails(h)
             PROVE  MemberInv'
  BY DEF MemberNext
<1> QED
  BY CreateKeepsInv, AddKeepsInv, RegisterKeepsInv, InsertRowKeepsInv, CreateChannelKeepsInv,
     CreateRoomKeepsInv, InsertChannelKeepsInv, ReadChannelsKeepsInv, InviteKeepsInv,
     JoinKeepsInv, InsertMemberKeepsInv, FailsKeepsInv

(* The inductive invariant: accounts are held by one request until its row is
   committed, and an add never has a channel of its beginning unaccounted for. *)
THEOREM MembershipInvariant == MemberSpec => []MemberInv
BY InitEstablishes, NextKeepsInv, StutteringKeepsInv, PTL DEF MemberSpec

(* However requests for users and bots race and break off, no two rows hold one
   Matrix account and every row has its account (create_user, create_bot). *)
THEOREM RowsHaveTheirAccounts == MemberSpec => []OneRowPerAccount
<1>1. MemberInv => OneRowPerAccount
  BY DEF MemberInv
<1> QED
  BY <1>1, MembershipInvariant, PTL

(* A member, or a bot of the server, is in every room there was when its add
   began (add_member, add_bot_to_server). *)
THEOREM MembersHaveTheirRooms == MemberSpec => []MembersAreInTheRooms
<1>1. MemberInv => MembersAreInTheRooms
  BY DEF MemberInv
<1> QED
  BY <1>1, MembershipInvariant, PTL

=============================================================================
