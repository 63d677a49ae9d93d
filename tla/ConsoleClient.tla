--------------------------- MODULE ConsoleClient ---------------------------
(***************************************************************************)
(* The console client and what it knows of its session.  SendMsgThread      *)
(* reads lines and interprets them by clientStatus, RecvMsgThread sets      *)
(* clientStatus to the status of every reply; neither takes a lock.  The    *)
(* server keeps the status that counts.  The module composes the client     *)
(* with the part of the server that its connection sees: handlers that      *)
(* change the session and queue replies, Sendwork, and the broadcasts of    *)
(* handlers that do not go through the queue.                               *)
(*                                                                          *)
(* A handler is a sequence of effects, taken one at a time.  Several        *)
(* WorkThreads take the packets, in any order, and nothing keeps handlers   *)
(* of one connection apart: the client does not wait for a reply, and a ban *)
(* is another connection's packet.  overlapped records that two have run at *)
(* once; from then on session, rooms and replies may disagree for good.     *)
(* Sendwork is run by at most one thread.  main starts none (see SendPath), *)
(* so that nothing is assumed of its progress.                              *)
(***************************************************************************)
EXTENDS Integers, Sequences, SequencesExt

CONSTANTS
  Workers,    \* the WorkThreads
  Lines,      \* what the user may type, see below
  MaxSent,    \* bound: packets the client sends
  MaxEvents,  \* bound: bans of this user, and broadcasts of other members
  MaxDown     \* bound: packets on the way to the client when others broadcast

(* The lines 1 .. 10 are menu entries; 0 is an empty line.                   *)
Out == 11        \* \out
Clear == 12      \* \clear
Good == 13       \* \good
SendFile == 14   \* \send
Text == 15

ASSUME ClientAssumption ==
  /\ Lines \subseteq 0 .. Text
  /\ MaxSent \in Nat /\ MaxEvents \in Nat /\ MaxDown \in Nat

VARIABLES
  proc,          \* the client process
  clientStatus,  \* the global clientStatus
  spc,           \* the next step of SendMsgThread
  line,          \* msg, the line it works on
  direction,     \* direction
  up,            \* packets on the way to the server, or in its job queue
  session,       \* the status the server has for the connection
  member,        \* the socket is in the list of a room
  handler,       \* the effects that are left to the handler in each WorkThread
  overlapped,    \* history: two handlers of the connection have run at once
  sendQueue,     \* BusinessService::sendQueue
  batch,         \* localQueue of Sendwork
  down,          \* statuses of packets on the way to the client
  sent, events   \* bounded counters

client == <<proc, clientStatus, spc, line, direction>>
server == <<session, member, handler, overlapped, sendQueue, batch>>
vars == <<client, up, server, down, sent, events>>

Statuses == {"LOGOUT", "WAITING", "CHATTING"}
Directions == {"none", "USER_MAKE", "USER_ENTER", "ROOM_MAKE", "ROOM_ENTER", "FRIEND_GO", "WHISPER",
               "QUERY", "LOG_OUT", "USER_GOOD_INFO", "USER_GOOD", "FILE_SEND"}

Init ==
  /\ proc = "run"
  /\ clientStatus = "INIT"
  /\ spc = "input" /\ line = 0 /\ direction = "none"
  /\ up = <<>>
  /\ session = "LOGOUT" /\ member = FALSE
  /\ handler = [w \in Workers |-> <<>>] /\ overlapped = FALSE
  /\ sendQueue = <<>> /\ batch = <<>>
  /\ down = <<"LOGOUT">>    \* the greeting of main
  /\ sent = 0 /\ events = 0

-----------------------------------------------------------------------------
(* SendMsgThread.  clientStatus is tested against LOGOUT, WAITING and        *)
(* CHATTING in turn, and may change between two tests.                       *)

(* What the line asks for in the menu of a status.  QUERY stands for         *)
(* ROOM_INFO, ROOM_USER_INFO, FRIEND_INFO, FRIEND_ADD and FRIEND_DELETE.     *)
LogoutMenu == <<"USER_MAKE", "USER_ENTER", "EXIT", "CLEAR">>
WaitingMenu == <<"QUERY", "ROOM_MAKE", "ROOM_ENTER", "QUERY", "QUERY", "QUERY",
                 "WHISPER", "LOG_OUT", "USER_GOOD_INFO", "CLEAR">>
ChatMenu == [l \in {Clear, Good, SendFile} |->
               CASE l = Clear -> "CLEAR" [] l = Good -> "USER_GOOD" [] l = SendFile -> "FILE_SEND"]
Menu == [LOGOUT |-> LogoutMenu, WAITING |-> WaitingMenu, CHATTING |-> ChatMenu]
FriendMenu == 6
Chosen(s, l) ==
  IF l \notin DOMAIN Menu[s] THEN {"none"}
  ELSE IF s = "WAITING" /\ l = FriendMenu THEN {"QUERY", "FRIEND_GO", "none"}
  ELSE {Menu[s][l]}

GetLine(l) ==
  /\ proc = "run" /\ spc = "input" /\ sent < MaxSent
  /\ line' = l
  /\ direction' = "none"
  /\ spc' = "LOGOUT"
  /\ UNCHANGED <<proc, clientStatus, up, server, down, sent, events>>

NextTest == [LOGOUT |-> "WAITING", WAITING |-> "CHATTING", CHATTING |-> "send"]

TestStatus ==
  /\ proc = "run" /\ spc \in Statuses
  /\ IF clientStatus = spc
     THEN \E choice \in Chosen(spc, line) :
            /\ proc' = IF choice = "EXIT" THEN "exited" ELSE proc
            /\ spc' = IF choice \in {"EXIT", "CLEAR"} THEN "input" ELSE "send"
            /\ direction' = IF choice \in {"EXIT", "CLEAR"} THEN direction ELSE choice
     ELSE spc' = NextTest[spc] /\ UNCHANGED <<proc, direction>>
  /\ UNCHANGED <<clientStatus, line, up, server, down, sent, events>>

(* The prompts of a choice are answered before the packet goes out; nothing  *)
(* tests clientStatus again.  For these the answer is the message, which may *)
(* be empty or \out.                                                         *)
Named == {"ROOM_MAKE", "ROOM_ENTER", "FRIEND_GO", "QUERY", "USER_GOOD"}

SendMsg(out) ==
  /\ proc = "run" /\ spc = "send"
  /\ line # 0
  /\ IF direction = "none" THEN out = (line = Out) ELSE out => direction \in Named
  /\ up' = Append(up, [direction |-> direction, out |-> out])
  /\ sent' = sent + 1
  /\ spc' = "input" /\ line' = 0 /\ direction' = "none"
  /\ UNCHANGED <<proc, clientStatus, server, down, events>>

(* An empty line, an empty answer to a prompt or a file that does not exist. *)
SendNothing ==
  /\ proc = "run" /\ spc = "send"
  /\ line = 0 \/ direction \in Named \cup {"FILE_SEND"}
  /\ spc' = "input" /\ line' = 0 /\ direction' = "none"
  /\ UNCHANGED <<proc, clientStatus, up, server, down, sent, events>>

-----------------------------------------------------------------------------
(* RecvMsgThread.                                                            *)

(* Other statuses (WHISPER, FILE_SEND, INIT) leave clientStatus alone.       *)
RecvMsg ==
  /\ proc = "run" /\ down # <<>>
  /\ down' = Tail(down)
  /\ clientStatus' = IF Head(down) \in Statuses THEN Head(down) ELSE clientStatus
  /\ UNCHANGED <<proc, spc, line, direction, up, server, sent, events>>

(* The connection ends.  A failed completion ends the process; one of no     *)
(* bytes is read as a packet, from a recvBuffer that was never set.  The     *)
(* threads end with the process, and what was under way with the connection. *)
Disconnect ==
  /\ proc = "run"
  /\ proc' \in {"exited", "crashed"}
  /\ spc' = "input" /\ line' = 0 /\ direction' = "none"
  /\ up' = <<>> /\ down' = <<>>
  /\ UNCHANGED <<clientStatus, server, sent, events>>

-----------------------------------------------------------------------------
(* The server's handlers, by their effects on the connection.                *)

Login == [kind |-> "login", status |-> "WAITING"]
Set(s) == [kind |-> "set", status |-> s]
Me(s) == [kind |-> "ME", status |-> s]         \* InsertSendQueue(SEND_ME, ...)
Room(s) == [kind |-> "ROOM", status |-> s]     \* InsertSendQueue(SEND_ROOM, ...)
Join == [kind |-> "join", status |-> "CHATTING"]
Leave == [kind |-> "leave", status |-> "CHATTING"]
RecvFile == [kind |-> "recvfrom", status |-> "FILE_SEND"]
Effects == {Set(s) : s \in Statuses} \cup {Login, Join, Leave, RecvFile}
Replies == {Me(s) : s \in Statuses \cup {"WHISPER"}} \cup {Room("CHATTING"), Room("FILE_SEND")}

(* StatusLogout, UserMake, UserEnter.  A message without the separators is   *)
(* not answered.                                                             *)
StatusLogout(p) ==
  CASE p.direction = "USER_MAKE"  -> {<<>>, <<Me("LOGOUT")>>}
    [] p.direction = "USER_ENTER" -> {<<>>, <<Me("LOGOUT")>>, <<Login, Me("WAITING")>>}
    [] OTHER                      -> {<<Me("LOGOUT")>>}

RoomMake == {<<Me("WAITING")>>, <<Join, Set("CHATTING"), Me("CHATTING")>>}
RoomEnter == {<<Me("WAITING")>>, <<Set("CHATTING"), Join, Room("CHATTING")>>}
FriendGo == RoomEnter \cup {<<>>}

StatusWait(p) ==
  CASE p.direction \in {"none", "USER_GOOD_INFO"} -> {<<>>}
    [] p.direction = "ROOM_MAKE"  -> RoomMake
    [] p.direction = "ROOM_ENTER" -> RoomEnter
    [] p.direction = "FRIEND_GO"  -> FriendGo
    [] p.direction = "WHISPER"    -> {<<>>, <<Me("WAITING")>>}
    [] p.direction = "LOG_OUT"    -> {<<Set("LOGOUT"), Me("LOGOUT")>>}
    [] OTHER                      -> {<<Me("WAITING")>>}

(* Mutants of leaving a room: the reply is queued while the user is still in *)
(* the list; there is no reply.                                              *)
LeaveRoomLate == <<Me("WAITING"), Leave, Set("WAITING")>>
LeaveRoomSilently == <<Leave, Set("WAITING")>>
LeaveRoom == <<Leave, Me("WAITING"), Set("WAITING")>>

StatusChat(p) ==
  CASE p.out                       -> {LeaveRoom}
    [] p.direction = "USER_GOOD"   -> {<<>>}
    [] p.direction = "FILE_SEND"   -> {<<RecvFile, Room("FILE_SEND")>>}
    [] OTHER                       -> {<<Room("CHATTING")>>, <<>>}

(* A WorkThread takes one of the packets and calls the handler for the       *)
(* status of the session.                                                    *)
Handlers(p) ==
  CASE session = "LOGOUT"   -> StatusLogout(p)
    [] session = "WAITING"  -> StatusWait(p)
    [] session = "CHATTING" -> StatusChat(p)

Start(w, effects) ==
  /\ handler[w] = <<>>
  /\ handler' = [handler EXCEPT ![w] = effects]
  /\ overlapped' = (overlapped \/ (effects # <<>> /\ \E u \in Workers : handler[u] # <<>>))

Dispatch(w, i) ==
  /\ proc = "run"
  /\ \E effects \in Handlers(up[i]) : Start(w, effects)
  /\ up' = RemoveAt(up, i)
  /\ UNCHANGED <<client, session, member, sendQueue, batch, down, sent, events>>

BanUser(w) ==
  /\ proc = "run" /\ session # "LOGOUT" /\ events < MaxEvents
  /\ Start(w, IF session = "CHATTING"
              THEN <<Leave, Set("WAITING"), Me("LOGOUT"), Set("LOGOUT")>>
              ELSE <<Me("LOGOUT"), Set("LOGOUT")>>)
  /\ events' = events + 1
  /\ UNCHANGED <<client, up, session, member, sendQueue, batch, down, sent>>

(* One effect.  Leaving broadcasts to the list, this member included, before *)
(* it takes the socket out, both under listCs; after an overlap the socket   *)
(* may be in another list too.  An update of a session that is gone writes   *)
(* through userMap.end(): there is no session still, or the server goes down *)
(* (Disconnect).                                                             *)
Effect(w) ==
  /\ proc = "run" /\ handler[w] # <<>>
  /\ handler' = [handler EXCEPT ![w] = Tail(@)]
  /\ LET e == Head(handler[w])
     IN  /\ session' = IF e.kind = "login" \/ (e.kind = "set" /\ session # "LOGOUT") THEN e.status ELSE session
         /\ member' \in CASE e.kind = "join" -> {TRUE}
                          [] e.kind = "leave" -> {FALSE} \cup {member /\ overlapped}
                          [] OTHER -> {member}
         /\ down' = IF e.kind = "leave" /\ member THEN Append(down, e.status) ELSE down
         /\ sendQueue' = IF e \in Replies THEN Append(sendQueue, e) ELSE sendQueue
  /\ UNCHANGED <<client, up, overlapped, batch, sent, events>>

(* Another member leaves the room and broadcasts, or sends text to it, or    *)
(* somebody whispers.                                                        *)
OthersBroadcast ==
  /\ proc = "run" /\ member /\ events < MaxEvents /\ Len(down) < MaxDown
  /\ down' = Append(down, "CHATTING")
  /\ events' = events + 1
  /\ UNCHANGED <<client, up, server, sent>>

OthersSend(reply) ==
  /\ proc = "run" /\ session # "LOGOUT" /\ events < MaxEvents
  /\ sendQueue' = Append(sendQueue, reply)
  /\ events' = events + 1
  /\ UNCHANGED <<client, up, session, member, handler, overlapped, batch, down, sent>>

-----------------------------------------------------------------------------
(* Sendwork takes the queue and sends the replies, those for a room to the   *)
(* members it has by then.                                                   *)
TakeQueue ==
  /\ proc = "run" /\ batch = <<>> /\ sendQueue # <<>>
  /\ batch' = sendQueue
  /\ sendQueue' = <<>>
  /\ UNCHANGED <<client, up, session, member, handler, overlapped, down, sent, events>>

SendOne ==
  /\ proc = "run" /\ batch # <<>>
  /\ batch' = Tail(batch)
  /\ down' = IF Head(batch).kind = "ME" \/ member THEN Append(down, Head(batch).status) ELSE down
  /\ UNCHANGED <<client, up, session, member, handler, overlapped, sendQueue, sent, events>>

-----------------------------------------------------------------------------
ClientStep == TestStatus \/ (\E out \in BOOLEAN : SendMsg(out)) \/ SendNothing
WorkStep(w) == Effect(w) \/ (\E i \in DOMAIN up : Dispatch(w, i))
SenderStep == TakeQueue \/ SendOne

Next ==
  \/ \E l \in Lines : GetLine(l)
  \/ ClientStep
  \/ RecvMsg \/ Disconnect
  \/ \E w \in Workers : WorkStep(w) \/ BanUser(w)
  \/ OthersBroadcast
  \/ OthersSend(Room("CHATTING")) \/ OthersSend(Me("WHISPER"))
  \/ SenderStep

Spec == Init /\ [][Next]_vars

(* Handlers go on, except in RecvFile, and packets arrive.  Nothing is        *)
(* assumed of users, of file datagrams or of a thread that runs Sendwork.    *)
Fairness ==
  /\ \A w \in Workers : WF_vars(Effect(w) /\ Head(handler[w]) # RecvFile)
  /\ WF_vars(RecvMsg)
FairSpec == Spec /\ Fairness

-----------------------------------------------------------------------------
(* Properties.                                                               *)

TypeOK ==
  /\ proc \in {"run", "exited", "crashed"}
  /\ clientStatus \in Statuses \cup {"INIT"}
  /\ spc \in Statuses \cup {"input", "send"}
  /\ line \in 0 .. Text
  /\ direction \in Directions
  /\ up \in Seq([direction : Directions, out : BOOLEAN])
  /\ session \in Statuses /\ member \in BOOLEAN
  /\ handler \in [Workers -> Seq(Effects \cup Replies)] /\ overlapped \in BOOLEAN
  /\ sendQueue \in Seq(Replies) /\ batch \in Seq(Replies)
  /\ down \in Seq(Statuses \cup {"WHISPER", "FILE_SEND"})
  /\ sent \in 0 .. MaxSent /\ events \in 0 .. MaxEvents

(* Whenever no handler runs and no reply is queued, the last status on its    *)
(* way to the client, or clientStatus if there is none, is the status the     *)
(* server has for the connection, until two handlers of the connection have   *)
(* run at once: the client is told of a change only by the statuses of        *)
(* replies, queued and direct ones, its own and other members', and none of   *)
(* them may arrive late.                                                      *)
LastStatus ==
  LET told == {i \in DOMAIN down : down[i] \in Statuses}
  IN  IF told = {} THEN clientStatus ELSE down[Max(told)]
Queued == sendQueue # <<>> \/ batch # <<>>
Idle == \A w \in Workers : handler[w] = <<>>
InStep == (proc = "run" /\ ~overlapped /\ Idle /\ ~Queued) => LastStatus = session

(* After the last input the client's view settles on the server's, unless    *)
(* replies are left in sendQueue for want of a Sendwork, or handlers have    *)
(* overlapped; a handler that waits for a file for ever does no harm.        *)
CatchesUp == <>[](proc # "run" \/ overlapped \/ Queued \/ clientStatus = session)
=============================================================================
