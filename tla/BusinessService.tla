-------------------------- MODULE BusinessService --------------------------
(***************************************************************************)
(* The chat server's business layer (Server/BusinessService.cpp) together   *)
(* with the threads of Server/Server.cpp that call it: the login set idSet, *)
(* the session table userMap, the room table roomMap with one member list   *)
(* per room, and the table liveSocket of connected sockets.                 *)
(*                                                                          *)
(* WorkThreads run the handlers of client packets, RecvThreads run          *)
(* ClientExit when a completion reports a closed connection, and the main   *)
(* thread accepts.  Every table has a lock of its own and a handler takes   *)
(* and releases them one after the other, so a step of the model is one     *)
(* critical section or one unlocked read.  What a step remembers for the    *)
(* next one is kept in loc, as the handler keeps it in local variables.     *)
(*                                                                          *)
(* An iterator equal to end() that is dereferenced, and an access to a      *)
(* container while another thread changes its structure, are undefined;     *)
(* Fault sends the server to "crashed", and every other outcome is the      *)
(* plain step.  Replies are left to SendPath: no handler reads them back.   *)
(***************************************************************************)

CONSTANTS
  Sockets,     \* socket handles the operating system gives out (and reuses)
  Workers,     \* the WorkThreads
  Receivers,   \* the RecvThreads
  Ids,         \* the texts clients log in with
  Account,     \* the account of a text: setUserId keeps 10 bytes of it
  NickName,    \* the nickname of every account
  Rooms,       \* room names a packet may carry
  LongNames,   \* login texts and room names of NAME_SIZE bytes or more
  Garbled,     \* what is read back from a name field that is not terminated
  Empty        \* the empty string

Threads == Workers \cup Receivers
Nicks   == {NickName[Account[i]] : i \in Ids}

ASSUME ConstantsAssumption ==
  /\ Workers \cap Receivers = {}
  /\ Garbled \notin Rooms \cup Ids \cup LongNames \cup {Empty}
  /\ Empty \notin Ids \cup Sockets \cup LongNames

VARIABLES
  server,     \* "up", "exited" (EXIT calls exit()) or "crashed"
  open,       \* handles that are open in the operating system
  accepting,  \* the handle accept returned and main has not registered yet
  live,       \* liveSocket
  idSet,      \* ids that are logged in
  userMap,    \* the session of every socket, NoSession where there is none
  rooms,      \* the names roomMap has
  userList,   \* the sockets in the list of every room
  pc,         \* the step each thread takes next
  loc,        \* the local variables of each thread's handler
  overlapped, \* history: handles two handlers have had in hand at one time
  spoiled     \* history: login texts that handlers of such handles have used

conns   == <<open, accepting, live>>
tables  == <<idSet, userMap, rooms, userList>>
history == <<overlapped, spoiled>>
vars    == <<server, conns, tables, pc, loc, history>>

-----------------------------------------------------------------------------
(* Types.  GetStatus answers STATUS_LOGOUT for a socket that has no session. *)

RoomNames == Rooms \cup {Garbled, Empty}
LoginIds  == Ids \cup {Garbled}
NoSession == [id |-> Empty, nick |-> Empty, status |-> "LOGOUT", room |-> Empty]
Session   == [id : LoginIds, nick : Nicks, status : {"WAITING", "CHATTING"}, room : RoomNames]

(* A packet is a direction and a text.  Ops names what the handlers tell     *)
(* apart: OUT stands for the text \out, QUERY for the directions that read   *)
(* the session once (room and friend queries, friend add and delete, and     *)
(* whispers, which read it twice), OTHER for what every handler answers      *)
(* without touching the tables (an unknown direction, chat text in the       *)
(* lobby; USER_MAKE, \add, USER_GOOD, USER_GOOD_INFO where they apply).       *)
HandlerOps == {"ROOM_MAKE", "ROOM_ENTER", "FRIEND_GO", "QUERY"}
Ops == HandlerOps \cup {"USER_ENTER", "EXIT", "LOG_OUT", "OUT", "OTHER", "BAN"}

NoLoc == [sock |-> Empty, op |-> "OTHER", name |-> Empty, id |-> Empty, room |-> Empty]
Local == [sock : Sockets \cup {Empty}, op : Ops \cup {"HANGUP"},
          name : Rooms \cup Nicks \cup {Empty}, id : LoginIds \cup {Empty},
          room : RoomNames]

(* Steps that read or change a session found without testing for end(),     *)
(* steps that touch userMap without userCs, and steps that insert or erase   *)
(* a session.                                                                *)
SessionSteps == {"statusWait", "statusChat", "handler", "logout", "talk", "makeSession",
                 "enterSession", "friendSession", "readId", "readStatus", "readRoom", "reset"}
UnlockedSessionSteps == {"statusWait", "statusChat", "handler", "logout", "talk", "exitFind",
                         "readId", "readStatus", "readRoom"}
SessionWriters == {"initUser", "logoutErase", "drop"}
UnlockedRoomSteps == {"list", "enterList", "friendList", "talk"}

Labels == SessionSteps \cup UnlockedSessionSteps \cup SessionWriters \cup UnlockedRoomSteps
          \cup {"idle", "getStatus", "userEnter", "roomMake", "roomEnter", "friendGo",
                "friendRoom", "banCopy", "eraseId", "erase", "exitLive"}

HasSession(s) == userMap[s] # NoSession

TypeOK ==
  /\ server \in {"up", "exited", "crashed"}
  /\ open \subseteq Sockets
  /\ accepting \in Sockets \cup {Empty}
  /\ live \subseteq Sockets
  /\ idSet \subseteq Ids
  /\ userMap \in [Sockets -> Session \cup {NoSession}]
  /\ rooms \subseteq Rooms
  /\ userList \in [Rooms -> SUBSET Sockets]
  /\ pc \in [Threads -> Labels]
  /\ loc \in [Threads -> Local]
  /\ overlapped \subseteq Sockets
  /\ spoiled \subseteq Ids

Init ==
  /\ server = "up"
  /\ open = {}
  /\ accepting = Empty
  /\ live = {}
  /\ idSet = {}
  /\ userMap = [s \in Sockets |-> NoSession]
  /\ rooms = {}
  /\ userList = [r \in Rooms |-> {}]
  /\ pc = [t \in Threads |-> "idle"]
  /\ loc = [t \in Threads |-> NoLoc]
  /\ overlapped = {}
  /\ spoiled = {}

-----------------------------------------------------------------------------
(* Control flow of a thread.                                                 *)

At(t, label) == server = "up" /\ pc[t] = label

(* The session the step dereferences exists; Fault has the other case.       *)
AtSession(t, label) == At(t, label) /\ HasSession(loc[t].sock)

Goto(t, label) == pc' = [pc EXCEPT ![t] = label] /\ UNCHANGED loc

Done(t) ==
  /\ pc' = [pc EXCEPT ![t] = "idle"]
  /\ loc' = [loc EXCEPT ![t] = NoLoc]

(* Connection s is in the hands of some handler.  A BAN packet concerns the  *)
(* connection of the user it names, once that is found, not its sender's.    *)
Concerned(s) == \E t \in Threads : pc[t] \notin {"idle", "banCopy"} /\ loc[t].sock = s

(* The login texts that the session of s and the handlers of s refer to.     *)
UsesId(t, s) == pc[t] \in {"initUser", "eraseId"} /\ loc[t].sock = s
HeldIds(s) ==
  {id \in Ids : userMap[s].id = id \/ \E t \in Threads : UsesId(t, s) /\ loc[t].id = id}

(* A handler, ClientExit or a ban of s starts, or the handle s is given out  *)
(* again: nothing in the code waits for handlers of s that still run.  The   *)
(* history records that; no guard reads it.                                  *)
Start(s) ==
  IF Concerned(s)
  THEN /\ overlapped' = overlapped \cup {s}
       /\ spoiled' = spoiled \cup HeldIds(s)
  ELSE UNCHANGED history

-----------------------------------------------------------------------------
(* Connections: main's accept loop.                                          *)

Accept(s) ==
  /\ server = "up" /\ accepting = Empty
  /\ s \notin open
  /\ Start(s)
  /\ open' = open \cup {s}
  /\ accepting' = s
  /\ UNCHANGED <<server, live, tables, pc, loc>>

(* Mutant: main forgets to register the connection.                          *)
InsertLiveSocketForgotten ==
  /\ server = "up" /\ accepting # Empty
  /\ accepting' = Empty
  /\ UNCHANGED <<server, open, live, tables, pc, loc, history>>

InsertLiveSocket ==
  /\ server = "up" /\ accepting # Empty
  /\ live' = live \cup {accepting}
  /\ accepting' = Empty
  /\ UNCHANGED <<server, open, tables, pc, loc, history>>

-----------------------------------------------------------------------------
(* WorkThread takes a job of connection s.  A job of a socket that is not in *)
(* liveSocket is dropped.  BAN goes to BanUser, everything else to the       *)
(* function of the session's status.                                         *)

IsSocketDead(s) == s \notin live

Dispatch(t, s, op, name, id) ==
  /\ At(t, "idle")
  /\ ~IsSocketDead(s)
  /\ IF op = "BAN" THEN UNCHANGED history ELSE Start(s)
  /\ pc' = [pc EXCEPT ![t] = IF op = "BAN" THEN "banCopy" ELSE "getStatus"]
  /\ loc' = [loc EXCEPT ![t] = [NoLoc EXCEPT !.sock = s, !.op = op, !.name = name, !.id = id]]
  /\ UNCHANGED <<server, conns, tables>>

(* StatusLogout: only a login does something, and EXIT ends the process.     *)
StatusLogout(t) ==
  \/ loc[t].op = "USER_ENTER" /\ Goto(t, "userEnter")
  \/ loc[t].op \notin {"USER_ENTER", "EXIT"} /\ Done(t)

GetStatus(t) ==
  /\ At(t, "getStatus")
  /\ LET status == userMap[loc[t].sock].status
     IN  \/ status = "LOGOUT" /\ StatusLogout(t)
         \/ status = "WAITING" /\ Goto(t, "statusWait")
         \/ status = "CHATTING" /\ Goto(t, "statusChat")
  /\ UNCHANGED <<server, conns, history, tables>>

(* The process ends, its handles are closed and its memory is gone.          *)
GoDown(how) ==
  /\ server' = how
  /\ open' = {} /\ accepting' = Empty /\ live' = {}
  /\ idSet' = {} /\ userMap' = [s \in Sockets |-> NoSession]
  /\ rooms' = {} /\ userList' = [r \in Rooms |-> {}]
  /\ pc' = [t \in Threads |-> "idle"] /\ loc' = [t \in Threads |-> NoLoc]
  /\ overlapped' = {} /\ spoiled' = {}

Exit(t) ==
  /\ At(t, "getStatus")
  /\ userMap[loc[t].sock].status = "LOGOUT" /\ loc[t].op = "EXIT"
  /\ GoDown("exited")

StatusWait(t) ==
  /\ AtSession(t, "statusWait")
  /\ \/ loc[t].op \in HandlerOps /\ Goto(t, "handler")
     \/ loc[t].op = "LOG_OUT" /\ Goto(t, "logout")
     \/ loc[t].op \notin HandlerOps \cup {"LOG_OUT"} /\ Done(t)
  /\ UNCHANGED <<server, conns, history, tables>>

(* Mutant: ROOM_ENTER is obeyed in the chat room as well.                    *)
StatusChatObeysRoomEnter(t) ==
  /\ AtSession(t, "statusChat")
  /\ \/ loc[t].op = "OUT" /\ Goto(t, "readRoom")
     \/ loc[t].op = "OTHER" /\ Done(t)
     \/ loc[t].op = "ROOM_ENTER" /\ Goto(t, "handler")
     \/ loc[t].op \notin {"OUT", "OTHER", "ROOM_ENTER"} /\ Goto(t, "talk")
  /\ UNCHANGED <<server, conns, history, tables>>

(* The chat room knows one command, \out; a file or any other text is passed *)
(* on to the room after the session has been read once more.                 *)
StatusChat(t) ==
  /\ AtSession(t, "statusChat")
  /\ \/ loc[t].op = "OUT" /\ Goto(t, "readRoom")
     \/ loc[t].op = "OTHER" /\ Done(t)
     \/ loc[t].op \notin {"OUT", "OTHER"} /\ Goto(t, "talk")
  /\ UNCHANGED <<server, conns, history, tables>>

(* The directionFunc handlers read name and id of the session again.         *)
Handler(t) ==
  /\ AtSession(t, "handler")
  /\ \/ loc[t].op = "ROOM_MAKE" /\ Goto(t, "roomMake")
     \/ loc[t].op = "ROOM_ENTER" /\ Goto(t, "roomEnter")
     \/ loc[t].op = "FRIEND_GO" /\ Goto(t, "friendGo")
     \/ loc[t].op = "QUERY" /\ (Goto(t, "talk") \/ Done(t))
  /\ UNCHANGED <<server, conns, history, tables>>

(* Chat text, a file or a whisper: the session is read and the text queued.  *)
Talk(t) ==
  /\ AtSession(t, "talk")
  /\ Done(t)
  /\ UNCHANGED <<server, conns, history, tables>>

-----------------------------------------------------------------------------
(* Login and logout.                                                         *)

(* Mutant: the duplicate-login check is missing.                             *)
IdTakenUnchecked(id) == FALSE

IdTaken(id) == id \in idSet

(* UserEnter's idCs section.  An unknown account and a wrong password end    *)
(* the handler; so does a text that is logged in.  The account is looked up  *)
(* by ten bytes of the text (setUserId); idSet is asked for, and given, all  *)
(* of the text.                                                              *)
UserEnter(t) ==
  /\ At(t, "userEnter")
  /\ \/ /\ ~IdTaken(loc[t].id)
        /\ idSet' = idSet \cup {loc[t].id}
        /\ spoiled' = IF loc[t].sock \in overlapped THEN spoiled \cup {loc[t].id} ELSE spoiled
        /\ Goto(t, "initUser")
     \/ Done(t) /\ UNCHANGED <<idSet, spoiled>>
  /\ UNCHANGED <<server, conns, overlapped, userMap, rooms, userList>>

(* strncpy of NAME_SIZE bytes leaves a long name without a terminator.       *)
StoredName(n) == IF n \in LongNames THEN Garbled ELSE n

NewSession(id, status) ==
  [id |-> StoredName(id), nick |-> NickName[Account[id]], status |-> status, room |-> Empty]

(* Mutant: the new session's status is left as it is before a login.         *)
InitUserWithoutStatus(t) ==
  /\ At(t, "initUser")
  /\ userMap' = [userMap EXCEPT ![loc[t].sock] = NewSession(loc[t].id, "LOGOUT")]
  /\ Done(t)
  /\ UNCHANGED <<server, conns, history, idSet, rooms, userList>>

InitUser(t) ==
  /\ At(t, "initUser")
  /\ userMap' = [userMap EXCEPT ![loc[t].sock] = NewSession(loc[t].id, "WAITING")]
  /\ Done(t)
  /\ UNCHANGED <<server, conns, history, idSet, rooms, userList>>

(* StatusWait's LOG_OUT branch: the id under idCs, then the session.         *)
LogOutId(t) ==
  /\ AtSession(t, "logout")
  /\ idSet' = idSet \ {userMap[loc[t].sock].id}
  /\ Goto(t, "logoutErase")
  /\ UNCHANGED <<server, conns, history, userMap, rooms, userList>>

EraseSession(t) ==
  /\ userMap' = [userMap EXCEPT ![loc[t].sock] = NoSession]
  /\ Done(t)
  /\ UNCHANGED <<server, conns, history, idSet, rooms, userList>>

LogOutErase(t) == At(t, "logoutErase") /\ EraseSession(t)

-----------------------------------------------------------------------------
(* Entering a room.                                                          *)

(* The session becomes CHATTING in the room the handler remembers.           *)
SetChatting(t) ==
  userMap' = [userMap EXCEPT ![loc[t].sock].room = StoredName(loc[t].room),
                             ![loc[t].sock].status = "CHATTING"]

RoomMake(t) ==
  /\ At(t, "roomMake")
  /\ LET r == loc[t].name
     IN  \/ /\ r \notin rooms
            /\ rooms' = rooms \cup {r}
            /\ userList' = [userList EXCEPT ![r] = {loc[t].sock}]
            /\ pc' = [pc EXCEPT ![t] = "makeSession"]
            /\ loc' = [loc EXCEPT ![t].room = r]
         \/ r \in rooms /\ Done(t) /\ UNCHANGED <<rooms, userList>>
  /\ UNCHANGED <<server, conns, history, idSet, userMap>>

RoomMakeSession(t) ==
  /\ AtSession(t, "makeSession")
  /\ SetChatting(t)
  /\ Done(t)
  /\ UNCHANGED <<server, conns, history, idSet, rooms, userList>>

RoomEnter(t) ==
  /\ At(t, "roomEnter")
  /\ LET r == loc[t].name
     IN  \/ /\ r \in rooms
            /\ pc' = [pc EXCEPT ![t] = "enterSession"]
            /\ loc' = [loc EXCEPT ![t].room = r]
         \/ r \notin rooms /\ Done(t)
  /\ UNCHANGED <<server, conns, history, tables>>

RoomEnterSession(t) ==
  /\ AtSession(t, "enterSession")
  /\ SetChatting(t)
  /\ Goto(t, "enterList")
  /\ UNCHANGED <<server, conns, history, idSet, rooms, userList>>

(* list::push_back.  The list is kept as a set: list::remove drops every     *)
(* copy of a socket and only an empty list is told from others.              *)
PushBack(t) ==
  /\ userList' = [userList EXCEPT ![loc[t].room] = @ \cup {loc[t].sock}]
  /\ Done(t)
  /\ UNCHANGED <<server, conns, history, idSet, userMap, rooms>>

RoomEnterList(t) ==
  /\ At(t, "enterList")
  /\ loc[t].room \in rooms
  /\ PushBack(t)

(* FriendGo looks the friend up in the relations table (no such friend ends  *)
(* it), finds a session with that nickname in a copy of userMap, and enters  *)
(* the room of that session; a friend in the lobby is only reported.         *)
FriendGo(t) ==
  /\ At(t, "friendGo")
  /\ \/ \E s \in Sockets :
           /\ HasSession(s)
           /\ userMap[s].nick = loc[t].name
           /\ userMap[s].room # Empty
           /\ pc' = [pc EXCEPT ![t] = "friendRoom"]
           /\ loc' = [loc EXCEPT ![t].room = userMap[s].room]
     \/ Done(t)
  /\ UNCHANGED <<server, conns, history, tables>>

FriendGoRoom(t) ==
  /\ At(t, "friendRoom")
  /\ \/ loc[t].room \in rooms /\ Goto(t, "friendSession")
     \/ loc[t].room \notin rooms /\ Done(t)
  /\ UNCHANGED <<server, conns, history, tables>>

FriendGoSession(t) ==
  /\ AtSession(t, "friendSession")
  /\ SetChatting(t)
  /\ Goto(t, "friendList")
  /\ UNCHANGED <<server, conns, history, idSet, rooms, userList>>

(* The room whose lock FriendGo takes is looked up by the text of the        *)
(* packet, the friend's nickname, not by the name of the room it enters.     *)
FriendGoLockName(t) == loc[t].name

FriendGoList(t) ==
  /\ At(t, "friendList")
  /\ FriendGoLockName(t) \in rooms
  /\ loc[t].room \in rooms
  /\ PushBack(t)

-----------------------------------------------------------------------------
(* ClientExit and BanUser: the id first, then the room, then the session.    *)

(* closesocket succeeds once per opened handle.                              *)
ClientExit(t, s) ==
  /\ At(t, "idle")
  /\ s \in open /\ s # accepting
  /\ Start(s)
  /\ open' = open \ {s}
  /\ pc' = [pc EXCEPT ![t] = "exitLive"]
  /\ loc' = [loc EXCEPT ![t] = [NoLoc EXCEPT !.sock = s, !.op = "HANGUP"]]
  /\ UNCHANGED <<server, accepting, live, tables>>

ExitLive(t) ==
  /\ At(t, "exitLive")
  /\ live' = live \ {loc[t].sock}
  /\ Goto(t, "exitFind")
  /\ UNCHANGED <<server, open, accepting, history, tables>>

ExitFind(t) ==
  /\ At(t, "exitFind")
  /\ \/ HasSession(loc[t].sock) /\ Goto(t, "readId")
     \/ ~HasSession(loc[t].sock) /\ Done(t)
  /\ UNCHANGED <<server, conns, history, tables>>

(* BanUser copies userMap and looks for the nickname in the copy.            *)
BanCopy(t) ==
  /\ At(t, "banCopy")
  /\ \/ \E s \in Sockets :
           /\ HasSession(s)
           /\ userMap[s].nick = loc[t].name
           /\ Start(s)
           /\ pc' = [pc EXCEPT ![t] = "readId"]
           /\ loc' = [loc EXCEPT ![t].sock = s]
     \/ /\ \A s \in Sockets : HasSession(s) => userMap[s].nick # loc[t].name
        /\ Done(t)
        /\ UNCHANGED history
  /\ UNCHANGED <<server, conns, tables>>

ReadId(t) ==
  /\ AtSession(t, "readId")
  /\ pc' = [pc EXCEPT ![t] = "eraseId"]
  /\ loc' = [loc EXCEPT ![t].id = userMap[loc[t].sock].id]
  /\ UNCHANGED <<server, conns, history, tables>>

(* Mutant: ClientExit and BanUser leave the id in idSet.                     *)
EraseIdForgotten(t) ==
  /\ At(t, "eraseId")
  /\ Goto(t, "readStatus")
  /\ UNCHANGED <<server, conns, history, tables>>

EraseId(t) ==
  /\ At(t, "eraseId")
  /\ idSet' = idSet \ {loc[t].id}
  /\ Goto(t, "readStatus")
  /\ UNCHANGED <<server, conns, history, userMap, rooms, userList>>

ReadStatus(t) ==
  /\ AtSession(t, "readStatus")
  /\ \/ userMap[loc[t].sock].status = "CHATTING" /\ Goto(t, "readRoom")
     \/ userMap[loc[t].sock].status # "CHATTING" /\ Goto(t, "drop")
  /\ UNCHANGED <<server, conns, history, tables>>

(* Mutant: ClientExit and BanUser leave the session in userMap.              *)
DropForgotten(t) == At(t, "drop") /\ Done(t) /\ UNCHANGED <<server, conns, history, tables>>

Drop(t) == At(t, "drop") /\ EraseSession(t)

-----------------------------------------------------------------------------
(* Leaving a room: the same four steps in \out, ClientExit and BanUser.      *)

ReadRoom(t) ==
  /\ AtSession(t, "readRoom")
  /\ pc' = [pc EXCEPT ![t] = "list"]
  /\ loc' = [loc EXCEPT ![t].room = userMap[loc[t].sock].room]
  /\ UNCHANGED <<server, conns, history, tables>>

(* Mutant: the socket stays in the room's list.                              *)
LeaveListKeepsMember(t) ==
  /\ At(t, "list")
  /\ loc[t].room \in rooms
  /\ Goto(t, "reset")
  /\ UNCHANGED <<server, conns, history, tables>>

LeaveList(t) ==
  /\ At(t, "list")
  /\ loc[t].room \in rooms
  /\ userList' = [userList EXCEPT ![loc[t].room] = @ \ {loc[t].sock}]
  /\ Goto(t, "reset")
  /\ UNCHANGED <<server, conns, history, idSet, userMap, rooms>>

ResetSession(t) ==
  /\ AtSession(t, "reset")
  /\ userMap' = [userMap EXCEPT ![loc[t].sock].room = Empty,
                                ![loc[t].sock].status = "WAITING"]
  /\ Goto(t, "erase")
  /\ UNCHANGED <<server, conns, history, idSet, rooms, userList>>

(* Mutant: the room goes when at most one member is left.                    *)
RoomIsAlmostEmpty(r) == r \in rooms /\ \E s \in Sockets : userList[r] \subseteq {s}

RoomIsEmpty(r) == r \in rooms /\ userList[r] = {}

(* Mutant: the test for an empty list is inverted.                           *)
EraseRoomWithMembers(t) ==
  /\ At(t, "erase")
  /\ rooms' = IF RoomIsEmpty(loc[t].room) THEN rooms ELSE rooms \ {loc[t].room}
  /\ IF loc[t].op = "OUT" THEN Done(t) ELSE Goto(t, "drop")
  /\ UNCHANGED <<server, conns, history, idSet, userMap, userList>>

EraseRoom(t) ==
  /\ At(t, "erase")
  /\ rooms' = IF RoomIsEmpty(loc[t].room) THEN rooms \ {loc[t].room} ELSE rooms
  /\ IF loc[t].op = "OUT" THEN Done(t) ELSE Goto(t, "drop")
  /\ UNCHANGED <<server, conns, history, idSet, userMap, userList>>

-----------------------------------------------------------------------------
(* Undefined behaviour.                                                      *)

(* The step dereferences the end() of userMap or of roomMap.                 *)
BadDeref(t) ==
  \/ pc[t] \in SessionSteps /\ ~HasSession(loc[t].sock)
  \/ pc[t] \in {"list", "enterList"} /\ loc[t].room \notin rooms
  \/ pc[t] = "friendList" /\ ~({FriendGoLockName(t), loc[t].room} \subseteq rooms)

(* The step touches a container another thread is about to insert into or    *)
(* erase from, and the two hold no common lock.                              *)
DataRace(t) ==
  \E u \in Threads \ {t} :
    \/ pc[t] \in UnlockedSessionSteps /\ pc[u] \in SessionWriters
    \/ /\ pc[t] \in UnlockedRoomSteps
       /\ \/ pc[u] = "roomMake" /\ loc[u].name \notin rooms
          \/ pc[u] = "erase" /\ RoomIsEmpty(loc[u].room)
    \/ /\ pc[t] = "friendList" /\ loc[u].room = loc[t].room
       /\ \/ pc[u] \in {"list", "enterList"} /\ FriendGoLockName(t) # loc[u].room
          \/ pc[u] = "friendList" /\ FriendGoLockName(t) # FriendGoLockName(u)

Fault(t) ==
  /\ server = "up"
  /\ BadDeref(t) \/ DataRace(t)
  /\ GoDown("crashed")

-----------------------------------------------------------------------------
(* The packets of a direction carry the operand the direction needs.         *)

Packets ==
  {<<op, Empty, Empty>> : op \in {"QUERY", "EXIT", "LOG_OUT", "OUT", "OTHER"}}
  \cup ({"ROOM_MAKE", "ROOM_ENTER"} \X Rooms \X {Empty})
  \cup ({"FRIEND_GO", "BAN"} \X Nicks \X {Empty})
  \cup ({"USER_ENTER"} \X {Empty} \X Ids)

Step(t) ==
  \/ GetStatus(t) \/ StatusWait(t) \/ StatusChat(t) \/ Handler(t) \/ Talk(t)
  \/ UserEnter(t) \/ InitUser(t) \/ LogOutId(t) \/ LogOutErase(t)
  \/ RoomMake(t) \/ RoomMakeSession(t)
  \/ RoomEnter(t) \/ RoomEnterSession(t) \/ RoomEnterList(t)
  \/ FriendGo(t) \/ FriendGoRoom(t) \/ FriendGoSession(t) \/ FriendGoList(t)
  \/ ExitLive(t) \/ ExitFind(t) \/ BanCopy(t)
  \/ ReadId(t) \/ EraseId(t) \/ ReadStatus(t) \/ Drop(t)
  \/ ReadRoom(t) \/ LeaveList(t) \/ ResetSession(t) \/ EraseRoom(t)

(* A process that exited or crashed takes no further step.                   *)
Down == server # "up" /\ UNCHANGED vars

Next ==
  \/ \E s \in Sockets : Accept(s)
  \/ InsertLiveSocket
  \/ \E t \in Workers, s \in Sockets, p \in Packets : Dispatch(t, s, p[1], p[2], p[3])
  \/ \E t \in Receivers, s \in Sockets : ClientExit(t, s)
  \/ \E t \in Threads : Step(t) \/ Exit(t) \/ Fault(t)
  \/ Down

Spec == Init /\ [][Next]_vars

-----------------------------------------------------------------------------
(* Properties.                                                               *)

(* The handler of t is past the point where it took the id of its connection *)
(* out of idSet and before the point where it erases the session.            *)
TearsDown(t) ==
  \/ pc[t] \in {"readStatus", "drop", "logoutErase"}
  \/ pc[t] \in {"readRoom", "list", "reset", "erase"} /\ loc[t].op \in {"HANGUP", "BAN"}
TearingDown(s) == \E t \in Threads : loc[t].sock = s /\ TearsDown(t)

(* What the properties say of a connection holds unless two handlers have    *)
(* had it in hand at one time, and what they say of a login text unless such *)
(* a connection has used it or it is too long for a session.  Connections    *)
(* that overlap are there all along: the others do not suffer from them.     *)
Sound(id) == id \in Ids \ (spoiled \cup LongNames)

(* idSet prevents duplicate logins (UserEnter's check): two connections      *)
(* never have sessions of one login text, unless one of the two is already   *)
(* being torn down by LOG_OUT, ClientExit or BanUser.                        *)
NoDuplicateLogin ==
  \A s1, s2 \in Sockets :
    (s1 # s2 /\ HasSession(s1) /\ HasSession(s2) /\ userMap[s1].id = userMap[s2].id)
      => TearingDown(s1) \/ TearingDown(s2) \/ ~Sound(userMap[s1].id)

(* The handlers implement LoginService.  A connection is logged in from the  *)
(* moment UserEnter puts the text into idSet, before InitUser stores the     *)
(* session, to the moment LOG_OUT, ClientExit or BanUser takes it out, which *)
(* is before the session goes.                                               *)
LoggedInAs(s) ==
  IF \E t \in Threads : pc[t] = "initUser" /\ loc[t].sock = s
  THEN loc[CHOOSE t \in Threads : pc[t] = "initUser" /\ loc[t].sock = s].id
  ELSE IF HasSession(s) /\ ~TearingDown(s) THEN userMap[s].id ELSE Empty
Promised(s) == IF Sound(LoggedInAs(s)) THEN LoggedInAs(s) ELSE Empty
Promise == INSTANCE LoginService
              WITH Connection <- Sockets, Login <- Ids \ LongNames, Nobody <- Empty,
                   user <- [s \in Sockets |-> Promised(s)], forsaken <- spoiled \ LongNames
IsLoginService == Promise!Spec

(* No login text is locked out: a text in idSet belongs to a session nobody  *)
(* is tearing down, or to a login that has not stored its session yet.       *)
NoOrphanId ==
  \A id \in idSet : Sound(id) =>
    \/ \E s \in Sockets : HasSession(s) /\ userMap[s].id = id /\ ~TearingDown(s)
    \/ \E t \in Threads : pc[t] = "initUser" /\ loc[t].id = id

(* The member lists and the sessions agree: a socket is in the list of a     *)
(* room exactly if its session is CHATTING in that room, unless the handler  *)
(* that enters or leaves is between the two updates.                         *)
RoomsMatchSessions ==
  \A s \in Sockets \ overlapped, r \in rooms \ LongNames :
    \/ s \in userList[r] <=> (userMap[s].status = "CHATTING" /\ userMap[s].room = r)
    \/ \E t \in Threads :
         /\ loc[t].sock = s /\ loc[t].room = r
         /\ pc[t] \in {"makeSession", "enterList", "friendList", "reset"}

(* userMap stores the users connected to the server: a session belongs to    *)
(* an open connection, or ClientExit is still cleaning up.                   *)
SessionsOfConnectedUsers ==
  \A s \in Sockets \ overlapped :
    HasSession(s) => \/ s \in open
                     \/ \E t \in Receivers : pc[t] # "idle" /\ loc[t].sock = s

(* liveSocket holds every connection main has registered and not closed:     *)
(* WorkThread drops no packet of an open connection as dead.                 *)
ConnectedSocketsAreLive == open \ (overlapped \cup {accepting}) \subseteq live

(* The unchecked find(...)->second of userMap and roomMap finds its entry:   *)
(* sessions and rooms that a handler has read in one critical section are    *)
(* there in its next ones.  The exceptions are the lookups that RoomEnter    *)
(* and FriendGo repeat after they have released roomCs, and the room whose   *)
(* name was too long for the session.                                        *)
LookupsFind ==
  \A t \in Threads :
    BadDeref(t) => \/ loc[t].sock \in overlapped
                   \/ pc[t] \in {"enterList", "friendList"}
                   \/ pc[t] = "list" /\ loc[t].room = Garbled

(* A room without members is deleted: while an empty room is in roomMap,     *)
(* the handler that removed the last member has yet to look at it.           *)
NoEmptyRoomLingers ==
  \A r \in rooms :
    userList[r] = {} => \E t \in Threads : pc[t] \in {"reset", "erase"} /\ loc[t].room = r

(* A session changes rooms only through the lobby.                           *)
RoomChangeViaLobby ==
  [][\A s \in Sockets \ overlapped :
       (userMap[s].status = "CHATTING" /\ userMap'[s].status = "CHATTING")
         => userMap'[s] = userMap[s]]_vars
=============================================================================
